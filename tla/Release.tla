------------------------------ MODULE Release -------------------------------
(***************************************************************************)
(* A maintainer who generates and checks manifests, in the checkout that a *)
(* user's marketplace is; the harness that installs from it; and the       *)
(* doctor that compares what is installed with what is there.              *)
(***************************************************************************)
EXTENDS InstallDoctor

CONSTANT Plans  \* the worlds at the start, and what may happen in each

ASSUME PlansAssumption ==
  \A p \in Plans : p.sources \subseteq Sources /\ p.installs \subseteq Installs

VARIABLE plan   \* what may still happen

vars == << source, out, buildVars, worldVars, doctorVars, plan >>

(***************************************************************************)
(* The paths of the artifacts, and the files as a write of all of the      *)
(* targets leaves them.                                                    *)
(***************************************************************************)
Paths(trees) ==
  {a.path : a \in UNION {Range(Artifacts(t, tree.manifest, tree)) : t \in Range(Targets), tree \in trees}}

Readable == {tree \in Sources : tree.manifest # Broken}

Fresh(tree) ==
  LET all == UNION {Range(Artifacts(t, tree.manifest, tree)) : t \in Range(Targets)} IN
  [p \in Paths(Readable) |->
     IF \E a \in all : a.path = p THEN (CHOOSE a \in all : a.path = p).text ELSE Missing]

Init ==
  /\ BuildInit /\ DoctorInit
  /\ \E p \in Plans :
       /\ source \in p.sources /\ out = Fresh(p.made)
       /\ config \in p.homes /\ stores \in [Stores -> p.installs]
       /\ plan = [builds |-> p.builds, asks |-> p.asks, changes |-> p.changes]
  /\ named = [store |-> CHOOSE s \in Stores : TRUE, link |-> 1]

Touched == still' = (still /\ out' = out)

RestOfDoctor ==
  UNCHANGED << worldVars, saved, dpc, asked, seen, link, pinned, picked, installed, origins, found, drc, ending >>

Build == BuildSteps /\ Touched /\ RestOfDoctor /\ UNCHANGED plan

NewBuild ==
  /\ plan.builds # << >>
  /\ StartBuild(Head(plan.builds).mode, Head(plan.builds).only)
  /\ plan' = [plan EXCEPT !.builds = Tail(@)]
  /\ UNCHANGED still /\ RestOfDoctor

Doctor == DoctorSteps /\ UNCHANGED plan

NewDoctor ==
  /\ plan.asks # << >>
  /\ StartDoctor(Head(plan.asks))
  /\ plan' = [plan EXCEPT !.asks = Tail(@)]

Change ==
  /\ plan.changes > 0
  /\ plan' = [plan EXCEPT !.changes = @ - 1]
  /\ \/ (EditSource \/ Meddle) /\ Touched /\ RestOfDoctor
     \/ /\ Reconfigure \/ Install \/ Swap
        /\ still' = FALSE
        /\ UNCHANGED << source, out, buildVars, saved, dpc, asked, seen, link, pinned, picked, installed, origins, found, drc, ending >>

Next == Build \/ NewBuild \/ Doctor \/ NewDoctor \/ Change

Spec == Init /\ [][Next]_vars

=============================================================================
