-------------------------- MODULE MCFeedbackLedger --------------------------
(***************************************************************************)
(* Instances of FeedbackLedger for TLC: three commands, two of them in     *)
(* worktree w1 and one in w2 (or all three in w1), over ledgers of at most *)
(* two rows.                                                               *)
(***************************************************************************)
EXTENDS FeedbackLedger, TLC

CONSTANTS w1, w2, p1, p2, p3, k1, k2, k3

MCWorktrees == {w1, w2}
MCProcs == {p1, p2, p3}
MCHome == p1 :> w1 @@ p2 :> w1 @@ p3 :> w2
MCHomeTogether == [p \in MCProcs |-> w1]

Files(c, a, b) == Canon :> c @@ w1 :> a @@ w2 :> b

(***************************************************************************)
(* A full ledger of yesterday, of which one row ties with whatever is new; *)
(* and both worktrees with a legacy ledger still, sharing a pattern.       *)
(***************************************************************************)
MixedLedgers ==
  {Files(<<Row(3, k1, 2, 0), Row(2, k2, 1, 0)>>, << >>, << >>),
   Files(<< >>, <<Row(1, k1, 2, 1)>>, <<Row(1, k2, 1, 1), Row(2, k1, 1, 1)>>)}

OneLegacy == {Files(<< >>, <<Row(1, k1, 2, 0)>>, << >>)}

Neighbours == Permutations({p1, p2})

=============================================================================
