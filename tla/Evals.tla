------------------------------- MODULE Evals --------------------------------
(***************************************************************************)
(* Forges, runs and the user at work on one tree of scenarios.             *)
(***************************************************************************)
EXTENDS EvalForge, EvalRun

CONSTANTS
  MaxEdits    \* bound: changes by the user

VARIABLE edits

vars == << tree, dirs, model, forgeVars, runVars, edits >>

(***************************************************************************)
(* Every variable has its type.                                            *)
(***************************************************************************)
TypeOK == ForgeTypeOK /\ RunTypeOK /\ edits \in 0..MaxEdits

CONSTANTS
  Trees, Definitions,   \* the trees and definitions to start from
  Casts                 \* the bundles and orders that processes are given

(***************************************************************************)
(* At the start the tree holds what the user has written, and nothing of   *)
(* the forges to come.                                                     *)
(***************************************************************************)
ByTheUser == {Absent} \cup {Scenario(User, quality, {}) : quality \in Qualities}

ASSUME EvalsAssumption ==
  /\ IsFiniteSet(Agents) /\ IsFiniteSet(Names)
  /\ MaxEdits \in Nat
  /\ \A t \in Trees :
       t \in [Place -> ByTheUser] /\ \A pl \in Agents \X Forges : t[pl] = Absent
  /\ Definitions \subseteq [Agents -> Models \cup {NoDef}]
  /\ \A cast \in Casts :
       /\ cast.bundle \in [Forges -> Bundles]
       /\ cast.order \in [Runs -> Orders \cup {NotCalled}]

Init ==
  /\ tree \in Trees
  /\ dirs = {a \in Agents : Listing(a) # {}}
  /\ model \in Definitions
  /\ edits = 0
  /\ \E cast \in Casts : bundle = cast.bundle /\ order = cast.order
  /\ ForgeInit /\ RunInit

Called == {f \in Forges : bundle[f] # NotCalled}

Edit ==
  /\ edits < MaxEdits /\ edits' = edits + 1
  /\ EditScenario((Agents \X Ids) \ {Target[f] : f \in Called}) \/ EditAgent
  /\ UNCHANGED << forgeVars, runVars >>

Next ==
  \/ Edit
  \/ \E f \in Forges : Forge(f) /\ UNCHANGED << runVars, edits >>
  \/ \E r \in Runs : Run(r) /\ UNCHANGED << forgeVars, edits >>

Spec == Init /\ [][Next]_vars

=============================================================================
