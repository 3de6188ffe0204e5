--------------------------- MODULE ProcessBudget ----------------------------
(***************************************************************************)
(* bounded_process.py: every program that a command starts shares one      *)
(* deadline and one limit on the output that is read.  A program runs in a *)
(* process group of its own; it may leave descendants behind that hold its *)
(* pipes open, or that have closed them.  However a run ends, the group is *)
(* killed.                                                                 *)
(***************************************************************************)
EXTENDS Integers

CONSTANT MaxOutput   \* what may be read from all programs together

ASSUME BudgetAssumption == MaxOutput \in Nat

VARIABLES
  child,   \* the program: "none", "up", or "exited"
  kin,     \* its descendants: "none", "holding" the pipes, or "detached"
  room,    \* remaining_bytes
  late     \* the deadline has passed

budgetVars == << child, kin, room, late >>

BudgetTypeOK ==
  /\ child \in {"none", "up", "exited"}
  /\ kin \in {"none", "holding", "detached"}
  /\ room \in 0..MaxOutput
  /\ late \in BOOLEAN

BudgetInit == child = "none" /\ kin = "none" /\ room = MaxOutput /\ late = FALSE

TimePasses == late' = TRUE /\ UNCHANGED << child, kin, room >>

(***************************************************************************)
(* Popen; a budget that is spent already starts nothing.                   *)
(***************************************************************************)
Spawn == ~late /\ child = "none" /\ child' = "up" /\ kin' = "none" /\ UNCHANGED << room, late >>

Exits ==
  /\ child = "up" /\ child' = "exited"
  /\ kin' \in {"none", "holding", "detached"}
  /\ UNCHANGED << room, late >>

KillLeader == child' = "none" /\ UNCHANGED kin  \* variant: Popen.kill() in place of killpg

(***************************************************************************)
(* killpg, then reap.                                                      *)
(***************************************************************************)
KillGroup == child' = "none" /\ kin' = "none"

(***************************************************************************)
(* Both pipes are at their end, and so much was read from them.            *)
(***************************************************************************)
Collected(size) ==
  /\ child = "exited" /\ kin # "holding"
  /\ size <= room /\ room' = room - size
  /\ KillGroup
  /\ UNCHANGED late

Overflows(size) == child # "none" /\ size > room /\ KillGroup /\ UNCHANGED << room, late >>

WhileUp ==  \* variant: the deadline is not looked at once the program itself has ended
  child = "up" /\ late /\ KillGroup /\ UNCHANGED << room, late >>

(***************************************************************************)
(* The deadline passes while the program runs or holds its pipes.          *)
(***************************************************************************)
Expires == child # "none" /\ late /\ KillGroup /\ UNCHANGED << room, late >>

=============================================================================
