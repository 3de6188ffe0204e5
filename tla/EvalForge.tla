----------------------------- MODULE EvalForge ------------------------------
(***************************************************************************)
(* eval-forge.py: stage a new scenario beside its place, move it there,    *)
(* validate it, and take it back on any failure.  Several forges may run   *)
(* at once; each step below is a call that others can see.                 *)
(***************************************************************************)
EXTENDS EvalTree

CONSTANTS
  Target,   \* the place each forge is to fill
  Faults    \* "kill", "stuck": a process is killed, rmtree fails

ASSUME ForgeAssumption ==
  /\ Ids \cap Forges = {}
  /\ User \notin Forges
  /\ Target \in [Forges -> Agents \X Ids]
  /\ NoDef \notin Models
  /\ Faults \subseteq {"kill", "stuck"}

VARIABLES
  fpc,      \* where a forge is
  bundle,   \* the quality of what it was given; never hollow
  wasNew,   \* parent_was_new
  fcode     \* its exit code

forgeVars == << fpc, bundle, wasNew, fcode >>

Running == 99

Bundles == {"sound", "broken", NotCalled}

Where(f) == Target[f][1]
TempOf(f) == << Where(f), f >>

ForgeInit ==
  /\ fpc = [f \in Forges |-> IF bundle[f] = NotCalled THEN "idle" ELSE "plan"]
  /\ wasNew = [f \in Forges |-> FALSE]
  /\ fcode = [f \in Forges |-> Running]

At(f, from) == fpc[f] = from
Goto(f, next) == fpc' = [fpc EXCEPT ![f] = next]
Exit(f, n) == Goto(f, "done") /\ fcode' = [fcode EXCEPT ![f] = n]
Place1(pl, c) == tree' = [tree EXCEPT ![pl] = c]

(***************************************************************************)
(* _plan refuses an unknown agent and a place that is taken.               *)
(***************************************************************************)
Plan(f) ==
  /\ At(f, "plan")
  /\ IF model[Where(f)] = NoDef \/ tree[Target[f]] # Absent
       THEN Exit(f, 1)
       ELSE Goto(f, "mkdir") /\ UNCHANGED fcode
  /\ UNCHANGED << tree, dirs, model, bundle, wasNew >>

MakeParent(f) ==
  /\ At(f, "mkdir") /\ Goto(f, "look")
  /\ dirs' = dirs \cup {Where(f)}
  /\ UNCHANGED << tree, model, bundle, wasNew, fcode >>

(***************************************************************************)
(* Is the directory empty?  It may have been removed again meanwhile.      *)
(***************************************************************************)
LookParent(f) ==
  /\ At(f, "look")
  /\ IF Where(f) \in dirs
       THEN /\ wasNew' = [wasNew EXCEPT ![f] = Listing(Where(f)) = {}]
            /\ Goto(f, "temp") /\ UNCHANGED fcode
       ELSE Exit(f, 1) /\ UNCHANGED wasNew
  /\ UNCHANGED << tree, dirs, model, bundle >>

MakeTemp(f) ==
  /\ At(f, "temp")
  /\ IF Where(f) \in dirs
       THEN Place1(TempOf(f), Temp) /\ Goto(f, "move")
       ELSE Goto(f, "rollback") /\ UNCHANGED tree
  /\ UNCHANGED << dirs, model, bundle, wasNew, fcode >>

(***************************************************************************)
(* shutil.move: onto an existing directory it moves into it.  If there is  *)
(* something of that name inside already, it can only break.               *)
(***************************************************************************)
Move(f) ==
  /\ At(f, "move")
  /\ LET c == tree[Target[f]] IN
       \/ /\ c = Absent
          /\ Place1(Target[f], Scenario(f, bundle[f], {})) /\ Goto(f, "untemp")
       \/ /\ c # Absent /\ c.inner = {}
          /\ Place1(Target[f], Scenario(c.by, c.quality, {f})) /\ Goto(f, "untemp")
  /\ UNCHANGED << dirs, model, bundle, wasNew, fcode >>

RemoveTemp(f) ==
  /\ fpc[f] \in {"untemp", "abandon"}
  /\ Place1(TempOf(f), Absent)
  /\ Goto(f, IF fpc[f] = "untemp" THEN "validate" ELSE "rollback")
  /\ UNCHANGED << dirs, model, bundle, wasNew, fcode >>

(***************************************************************************)
(* `run.py --validate` of this scenario alone.                             *)
(***************************************************************************)
Validate(f) ==
  /\ At(f, "validate")
  /\ IF ValidateAll({Where(f)}, {Target[f][2]})
       THEN Exit(f, 0)
       ELSE Goto(f, "rollback") /\ UNCHANGED fcode
  /\ UNCHANGED << tree, dirs, model, bundle, wasNew >>

BreakUnlessValidating(f) ==  \* variant: the roll back of a failed validation only
  \/ /\ fpc[f] \in {"temp", "move", "untemp"}
     /\ Goto(f, IF fpc[f] = "temp" THEN "rollback" ELSE "abandon")
     /\ UNCHANGED << tree, dirs, model, bundle, wasNew, fcode >>
  \/ /\ At(f, "validate") /\ Exit(f, 1)
     /\ UNCHANGED << tree, dirs, model, bundle, wasNew >>

(***************************************************************************)
(* An exception, a timeout of the validation, or an interrupt.             *)
(***************************************************************************)
Break(f) ==
  /\ fpc[f] \in {"temp", "move", "untemp", "validate"}
  /\ Goto(f, IF fpc[f] \in {"temp", "validate"} THEN "rollback" ELSE "abandon")
  /\ UNCHANGED << tree, dirs, model, bundle, wasNew, fcode >>

(***************************************************************************)
(* _rollback: what is at the place goes, then the directory if it was made *)
(* for this scenario and is empty.                                         *)
(***************************************************************************)
Rollback(f) ==
  /\ At(f, "rollback")
  /\ \/ Place1(Target[f], Absent) /\ Goto(f, "rmdir") /\ UNCHANGED fcode
     \/ /\ "stuck" \in Faults /\ tree[Target[f]] # Absent
        /\ Goto(f, "stuck") /\ fcode' = [fcode EXCEPT ![f] = 1] /\ UNCHANGED tree
  /\ UNCHANGED << dirs, model, bundle, wasNew >>

RemoveParent(f) ==
  /\ At(f, "rmdir") /\ Exit(f, 1)
  /\ dirs' = IF wasNew[f] /\ Listing(Where(f)) = {} THEN dirs \ {Where(f)} ELSE dirs
  /\ UNCHANGED << tree, model, bundle, wasNew >>

Kill(f) ==
  /\ "kill" \in Faults /\ fpc[f] \notin {"idle", "plan", "done", "stuck", "killed"}
  /\ Goto(f, "killed")
  /\ UNCHANGED << tree, dirs, model, bundle, wasNew, fcode >>

Forge(f) ==
  \/ Plan(f) \/ MakeParent(f) \/ LookParent(f) \/ MakeTemp(f)
  \/ Move(f) \/ RemoveTemp(f) \/ Validate(f) \/ Break(f)
  \/ Rollback(f) \/ RemoveParent(f) \/ Kill(f)

-----------------------------------------------------------------------------
(***************************************************************************)
(* Properties.                                                             *)
(***************************************************************************)
ForgeTypeOK ==
  /\ tree \in [Place -> Content]
  /\ dirs \in SUBSET Agents
  /\ model \in [Agents -> Models \cup {NoDef}]
  /\ fpc \in [Forges -> {"idle", "plan", "mkdir", "look", "temp", "move", "untemp", "abandon",
                         "validate", "rollback", "rmdir", "done", "stuck", "killed"}]
  /\ bundle \in [Forges -> Bundles] /\ wasNew \in [Forges -> BOOLEAN]
  /\ fcode \in [Forges -> {0, 1, Running}]

(***************************************************************************)
(* A forge that has reported success has its scenario, and nothing else,   *)
(* at its place, if no other forge has been given the same place.  (Else   *)
(* the other one may have moved into it, or removed it in its roll back.)  *)
(***************************************************************************)
Alone(f) == \A k \in Forges \ {f} : bundle[k] # NotCalled => Target[k] # Target[f]

CommittedStays ==
  \A f \in Forges : fcode[f] = 0 /\ Alone(f) => tree[Target[f]] = Scenario(f, "sound", {})

(***************************************************************************)
(* A forge that has failed has left nothing behind, neither its scenario   *)
(* nor its temporary directory, however it failed, unless its rollback is  *)
(* stuck.                                                                  *)
(***************************************************************************)
FailureLeavesNothing ==
  \A f \in Forges : fpc[f] = "done" /\ fcode[f] = 1 =>
    /\ tree[TempOf(f)] = Absent
    /\ \A pl \in Place : tree[pl].kind = "scenario" => tree[pl].by # f /\ f \notin tree[pl].inner

(***************************************************************************)
(* A forge is all or nothing.                                              *)
(***************************************************************************)
ForgeIsAtomic == CommittedStays /\ FailureLeavesNothing

(***************************************************************************)
(* What a forge puts into place has been validated before, as the head of  *)
(* eval-forge.py says.  (It is moved first.)                               *)
(***************************************************************************)
OnlyValidInPlace ==
  \A pl \in Place :
    tree[pl].kind = "scenario" /\ tree[pl].by # User => tree[pl].quality = "sound"

=============================================================================
