---------------------------- MODULE MCChecklist ----------------------------
(***************************************************************************)
(* Instances of Checklist for TLC: a plan of two items, a replan that      *)
(* changes the command of the first item and drops the second, and three   *)
(* or four commands.                                                       *)
(***************************************************************************)
EXTENDS Checklist, TLC

CONSTANTS p1, p2, p3, p4, i1, i2, c1, c2

OldPlan == i1 :> c1 @@ i2 :> c2
NewPlan == i1 :> c2

PlanningJobs == {InitJob(OldPlan), InitJob(NewPlan)}

Symmetry == Permutations(Procs)

AllOfThem == PlanningJobs \cup {CompleteJob(i1), VerifyJob, StatusJob}
NoVerify == PlanningJobs \cup {CompleteJob(i1), CompleteJob(i2), StatusJob}

=============================================================================
