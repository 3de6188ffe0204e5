----------------------------- MODULE MCRelease ------------------------------
(***************************************************************************)
(* Instances of Release for TLC: two harnesses and one that is switched    *)
(* off; plans in which only the maintainer acts, only the doctor, or both. *)
(***************************************************************************)
EXTENDS Release, TLC

MCTargets ==
  << TargetOf("codex", TRUE, {}, TRUE, TRUE, TRUE),
     TargetOf("antigravity", TRUE, {"license"}, FALSE, FALSE, FALSE),
     TargetOf("later", FALSE, {}, FALSE, FALSE, FALSE) >>

MCMarketplace == Path("codex", "marketplace")
MCManifest == Path("codex", "manifest")

Plan == << Skill("plan", "text") >>
Parts == {"hooks", "skills"}
One == Tree(1, {"license"}, Parts, TRUE, Plan, {})
Two == Tree(2, {"license"}, Parts, TRUE, Plan, {})
Odd ==
  {Tree(2, {}, Parts, TRUE, Plan, {}), Tree(2, {"license"}, Parts, FALSE, Plan, {}),
   Tree(2, {"license"}, Parts, TRUE, << Skill("plan", Broken) >>, {}), Tree(2, {"license"}, {}, TRUE, Plan, {}),
   Tree(1, {"license"}, Parts, TRUE, Plan, {Path("antigravity", "manifest")}), Unreadable(One)}

MCSources == {One, Two} \cup Odd

MCHomes == {Home("local", FALSE), Home("git", TRUE), Home("git", FALSE), Broken}

With(version, hooks) == Store(TRUE, "d1" :> Plugin(version, hooks))

Good == {With(1, "fine"), With(2, "fine")}

MCInstalls ==
  Good \cup {Store(TRUE, << >>), Store(FALSE, "d1" :> Plugin(1, "fine")),
    Store(TRUE, "d1" :> Plugin(1, "fine") @@ "d2" :> Plugin(2, "fine")), With(Torn, "fine"), With(Alien, "fine"),
    With(1, "torn"), With(1, "unsupported"), With(1, "missing"), With(1, "undeclared")}

PlanOf(made, sources, homes, installs, builds, asks, changes) ==
  [made |-> made, sources |-> sources, homes |-> homes, installs |-> installs, builds |-> builds,
   asks |-> asks, changes |-> changes]

Cmd(command, id) == [mode |-> command, only |-> id]
Plain == Options(TRUE, FALSE, FALSE, Missing)
Keep == Options(TRUE, FALSE, TRUE, Missing)
Rely == Options(FALSE, TRUE, FALSE, Missing)
Poor == Options(FALSE, FALSE, FALSE, Missing)
Given == Options(TRUE, FALSE, FALSE, "d1")

Local1 == {Home("local", FALSE)}

Building ==
  {PlanOf(One, MCSources, Local1, {With(1, "fine")}, b, << >>, 1) :
     b \in {<< Cmd("write", All), Cmd("check", All) >>, << Cmd("write", "codex"), Cmd("check", "codex") >>,
            << Cmd("check", "later"), Cmd("check", "unknown") >>}}

Diagnosing ==
  {PlanOf(One, {One}, MCHomes, MCInstalls, << >>, << Plain >>, 1),
   PlanOf(One, {One}, MCHomes, MCInstalls, << >>, << Given, Poor >>, 0),
   PlanOf(One, {One}, MCHomes, Good, << >>, << Keep, Rely >>, 1),
   PlanOf(One, {One}, Local1, {With(1, "fine")}, << >>, << Keep, Keep >>, 1)}

Together == {PlanOf(One, {Two}, Local1, Good, << Cmd("write", "codex") >>, << Plain >>, 1)}

MCPlans == Building \cup Diagnosing \cup Together

=============================================================================
