------------------------------ MODULE EvalTree ------------------------------
(***************************************************************************)
(* The directory evals/scenarios/<agent>/<id> and the agents' definitions, *)
(* which eval-forge.py writes and run.py reads without any lock, and what  *)
(* `run.py --validate` says of them.                                       *)
(*                                                                         *)
(* eval-forge.py keeps its temporary directory beside the scenarios; a     *)
(* reader cannot tell it from a scenario.  It has the forge's name here.   *)
(***************************************************************************)
EXTENDS Integers, FiniteSets

CONSTANTS
  Agents,
  Ids,      \* names of scenarios
  Forges,   \* runs of eval-forge.py
  User,     \* who wrote a scenario that no forge has made
  Models,   \* what an agent's definition asks for: a model and an effort
  NoDef,    \* the agent has no definition
  NotCalled \* what a process is given that does not run

Names == Ids \cup Forges
Place == Agents \X Names

(***************************************************************************)
(* What is at a place.  A scenario is sound, hollow (without assertions),  *)
(* or broken in another way.  A second directory moved onto a scenario     *)
(* ends up inside it.                                                      *)
(***************************************************************************)
Qualities == {"sound", "hollow", "broken"}

Absent == [kind |-> "absent"]
Temp == [kind |-> "temp"]
Scenario(by, quality, inner) ==
  [kind |-> "scenario", by |-> by, quality |-> quality, inner |-> inner]

Content ==
  {Absent, Temp} \cup
  {Scenario(by, quality, inner) :
     by \in Forges \cup {User}, quality \in Qualities, inner \in SUBSET Forges}

VARIABLES
  tree,    \* what is at each place
  dirs,    \* the agents that have a directory
  model    \* what each agent's definition asks for

Listing(a) == {n \in Names : tree[<<a, n>>] # Absent}

Discover(who, which) == {pl \in who \X which : tree[pl] # Absent}

ValidScenario(pl) ==
  /\ tree[pl].kind = "scenario" /\ tree[pl].quality = "sound"
  /\ model[pl[1]] # NoDef

ValidateAll(who, which) ==
  /\ Discover(who, which) # {}
  /\ \A pl \in Discover(who, which) : ValidScenario(pl)

(***************************************************************************)
(* The user adds, edits or removes a scenario, or an agent's definition,   *)
(* at a place that is not being filled by a forge.                         *)
(***************************************************************************)
EditScenario(free) ==
  /\ \E pl \in free :
        /\ \/ \E q \in Qualities : tree' = [tree EXCEPT ![pl] = Scenario(User, q, {})]
           \/ tree' = [tree EXCEPT ![pl] = Absent]
        /\ dirs' = dirs \cup {pl[1]}
  /\ UNCHANGED model

EditAgent ==
  /\ \E x \in Agents, d \in Models \cup {NoDef} : model' = [model EXCEPT ![x] = d]
  /\ UNCHANGED << tree, dirs >>

=============================================================================
