-------------------------- MODULE WorkspaceProofs ---------------------------
(***************************************************************************)
(* Theorems about Workspace, for any files, texts, rules and budgets, and  *)
(* whatever the user, the engine and the programs of the hook do.          *)
(*                                                                         *)
(* 1. The format hook keeps its budget (HookInTime).                       *)
(* 2. The preview leaves no program, no descendant of one, and no copy     *)
(*    behind (NothingLeftBehind).                                          *)
(* 3. An answer is about the files as they were when the first snapshot    *)
(*    was complete (SourcesHeld).                                          *)
(* 4. What the hook reports is about the files as it leaves them           *)
(*    (FeedbackIsFinal).                                                   *)
(* 5. An answer of success is the fixed point of the rules that their      *)
(*    rewritings of the files lead to (ConvergedIsFixed).                  *)
(***************************************************************************)
EXTENDS Workspace, FiniteSetTheorems, SequenceTheorems, WellFoundedInduction, TLAPS

(***************************************************************************)
(* The budget of the hook.  A step was given no more than was left when it *)
(* began, and each of its programs no more than is left of that.           *)
(***************************************************************************)
ClockInv ==
  /\ clock \in Nat /\ started \in Nat /\ timeout \in Nat
  /\ clock <= Budget
  /\ hpc = "call" => started <= clock /\ clock <= started + timeout /\ started + timeout <= Budget

LEMMA ClockInit == Init => ClockInv
BY FormatAssumption DEF Init, HookInit, ClockInv, FormatAssumption

(***************************************************************************)
(* A program that uses up to Allowed keeps the step within its timeout.    *)
(***************************************************************************)
LEMMA AllowedFits ==
  ASSUME ClockInv, hpc = "call", NEW d \in 0..Allowed, clock' = clock + d,
         UNCHANGED << started, timeout >>
  PROVE  ClockInv'
BY FormatAssumption DEF ClockInv, Allowed, FormatAssumption

LEMMA TimeoutFits ==
  ASSUME ClockInv, hpc = "call", clock' = clock + Allowed, UNCHANGED << started, timeout >>
  PROVE  ClockInv'
BY FormatAssumption DEF ClockInv, Allowed, FormatAssumption

LEMMA ClockNext == ClockInv /\ [Next]_vars => ClockInv'
<1> SUFFICES ASSUME ClockInv, [Next]_vars PROVE ClockInv'
  OBVIOUS
<1>0. ASSUME UNCHANGED << clock, started, timeout >>, hpc' = "call" => hpc = "call" PROVE ClockInv'
  BY <1>0 DEF ClockInv
<1>1. CASE UNCHANGED hookVars
  BY <1>1, <1>0 DEF hookVars
<1>2. CASE HookSteps
  <2>1. CASE Begin
    BY <2>1, <1>0 DEF Begin
  <2>2. CASE StartStep
    <3>1. /\ started' = clock /\ clock' = clock /\ Remaining >= MinStep
          /\ timeout' = Min({StepTimeout, Remaining})
      BY <2>2 DEF StartStep
    <3>2. Remaining \in Nat /\ StepTimeout \in Nat /\ clock + Remaining = Budget
      BY <3>1, FormatAssumption DEF ClockInv, Remaining, FormatAssumption
    <3>3. timeout' \in {StepTimeout, Remaining} /\ timeout' <= Remaining
      <4>1. \E x \in {StepTimeout, Remaining} : \A y \in {StepTimeout, Remaining} : x <= y
        <5>1. CASE StepTimeout <= Remaining
          BY <5>1, <3>2
        <5>2. CASE Remaining <= StepTimeout
          BY <5>2, <3>2
        <5> QED BY <5>1, <5>2, <3>2
      <4>2. timeout' = CHOOSE x \in {StepTimeout, Remaining} :
                         \A y \in {StepTimeout, Remaining} : x <= y
        BY <3>1 DEF Min
      <4> QED BY <4>1, <4>2
    <3> QED BY <3>1, <3>2, <3>3 DEF ClockInv
  <2>3. CASE PipelineDone \/ BudgetSpent
    BY <2>3, <1>0 DEF PipelineDone, BudgetSpent, EndFile
  <2>4. CASE RunProgram
    BY <2>4, AllowedFits DEF RunProgram, Ready
  <2>5. CASE ProgramFails
    <3>1. hpc = "call" /\ UNCHANGED << started, timeout >>
      BY <2>5 DEF ProgramFails, Ready
    <3> QED BY <2>5, <3>1, <1>0, AllowedFits DEF ProgramFails
  <2>6. CASE ProgramTimesOut
    BY <2>6, TimeoutFits DEF ProgramTimesOut, Ready
  <2>7. CASE LeaveOut
    BY <2>7, <1>0 DEF LeaveOut, StepEnds
  <2>8. CASE HookEnds
    BY <2>8, <1>0 DEF HookEnds
  <2> QED BY <1>2, <2>1, <2>2, <2>3, <2>4, <2>5, <2>6, <2>7, <2>8 DEF HookSteps
<1>3. UNCHANGED hookVars \/ HookSteps
  BY DEF Next, PreviewStep, EngineStep, TamperStep, ClockStep, HookStep, UserStep, vars
<1> QED BY <1>1, <1>2, <1>3

(***************************************************************************)
(* The hook ends its work by itself within BUDGET_SECONDS, before the      *)
(* harness would kill it, for any number of files, steps and programs.     *)
(***************************************************************************)
THEOREM HookStaysInTime == Spec => []HookInTime
<1>1. ClockInv => HookInTime
  BY DEF ClockInv, HookInTime
<1> QED BY <1>1, ClockInit, ClockNext, PTL DEF Spec

(***************************************************************************)
(* Programs run in three phases only, descendants only beside or after a   *)
(* program, and whoever leaves has removed the copy.                       *)
(***************************************************************************)
KinInv ==
  /\ child = "none" => kin = "none"
  /\ child # "none" => ppc \in Running
  /\ ppc = "done" => copy = NoFiles

LEMMA KinInit == Init => KinInv
BY DEF Init, BudgetInit, PreviewInit, KinInv

(***************************************************************************)
(* A command that is left when no program runs, or when its group has been *)
(* killed, leaves nothing.                                                 *)
(***************************************************************************)
LEMMA LeavingKeepsKin ==
  ASSUME KinInv, NEW code, NEW error, Leave(code, error),
         KillGroup \/ (child = "none" /\ UNCHANGED << child, kin >>)
  PROVE  KinInv'
BY DEF KinInv, Leave, KillGroup

LEMMA KinNext == KinInv /\ [Next]_vars => KinInv'
<1> SUFFICES ASSUME KinInv, [Next]_vars PROVE KinInv'
  OBVIOUS
<1> USE DEF Running
<1>0. ASSUME UNCHANGED << child, kin, ppc, copy >> PROVE KinInv'
  BY <1>0 DEF KinInv
<1>1. CASE UNCHANGED << budgetVars, previewVars >>
  BY <1>1, <1>0 DEF budgetVars, previewVars, scanVars
<1>2. CASE PreviewSteps
  <2>0. ASSUME child = "none", NEW error, Fail(error) PROVE KinInv'
    BY <2>0, LeavingKeepsKin DEF Fail, budgetVars
  <2>1. CASE ReadRules
    <3>1. child = "none"
      BY <2>1 DEF ReadRules, KinInv
    <3>2. CASE Fail("invalid")
      BY <3>1, <3>2, <2>0
    <3> QED BY <2>1, <3>1, <3>2 DEF ReadRules, KinInv, Goto, scanVars, budgetVars
  <2>2. CASE List
    BY <2>2 DEF List, KinInv, Goto, scanVars, budgetVars
  <2>3. CASE Open
    <3>1. child = "none"
      BY <2>3 DEF Open, KinInv
    <3>2. CASE Fail("path_missing") \/ Fail("limit")
      BY <3>1, <3>2, <2>0
    <3> QED BY <2>3, <3>2, <1>0 DEF Open, scanVars, budgetVars
  <2>4. CASE Read
    <3>1. child = "none"
      BY <2>4 DEF Read, KinInv
    <3>2. CASE Fail("source_changed")
      BY <3>1, <3>2, <2>0
    <3> QED BY <2>4, <3>2, <1>0 DEF Read, scanVars, budgetVars
  <2>5. CASE FirstRead
    BY <2>5 DEF FirstRead, AllRead, KinInv, Goto, scanVars, budgetVars
  <2>6. CASE ReadAgain
    <3>1. child = "none"
      BY <2>6 DEF ReadAgain, AllRead, KinInv
    <3>2. CASE Fail("source_changed")
      BY <3>1, <3>2, <2>0
    <3> QED BY <2>6, <3>1, <3>2 DEF ReadAgain, KinInv, Goto, scanVars, budgetVars
  <2>7. CASE MakeCopy
    BY <2>7 DEF MakeCopy, KinInv, Goto, budgetVars
  <2>8. CASE StartProgram
    BY <2>8 DEF StartProgram, Spawn, KinInv, previewVars, scanVars
  <2>9. CASE OverBudget
    <3>1. PICK code, error : Leave(code, error)
      BY <2>9 DEF OverBudget
    <3>2. KillGroup
      BY <2>9 DEF OverBudget, Expires
    <3> QED BY <3>1, <3>2, LeavingKeepsKin
  <2>10. CASE Probed
    <3>1. KillGroup
      BY <2>10 DEF Probed, Collected
    <3>2. CASE Goto("top") /\ UNCHANGED scanVars
      BY <3>1, <3>2 DEF KinInv, Goto, KillGroup, scanVars
    <3>3. ASSUME NEW error, Leave(3, error) PROVE KinInv'
      BY <3>1, <3>3, LeavingKeepsKin
    <3> QED BY <2>10, <3>2, <3>3 DEF Probed
  <2>11. CASE PassLimit
    BY <2>11 DEF PassLimit, KinInv, Goto, budgetVars
  <2>12. CASE StartScan
    BY <2>12 DEF StartScan, Spawn, KinInv, Goto
  <2>13. CASE Scanned
    <3>1. KillGroup
      BY <2>13 DEF Scanned, Collected
    <3>2. CASE Goto("verify") /\ UNCHANGED scanVars
      BY <3>1, <3>2 DEF KinInv, Goto, KillGroup, scanVars
    <3>3. CASE Leave(2, "engine_error")
      BY <3>1, <3>3, LeavingKeepsKin
    <3> QED BY <2>13, <3>2, <3>3 DEF Scanned
  <2>14. CASE Verify
    <3>1. child = "none"
      BY <2>14 DEF Verify, KinInv
    <3>2. CASE Fail("copy_changed")
      BY <3>1, <3>2, <2>0
    <3> QED BY <2>14, <3>1, <3>2 DEF Verify, KinInv, Goto, scanVars, budgetVars
  <2>15. CASE Refuse
    <3>1. child = "none"
      BY <2>15 DEF Refuse, KinInv
    <3> QED BY <2>15, <3>1, <2>0 DEF Refuse
  <2>16. CASE Converge
    BY <2>16 DEF Converge, KinInv, Goto, budgetVars
  <2>17. CASE Rewrite
    <3>1. child = "none" /\ ppc = "judge"
      BY <2>17 DEF Rewrite, KinInv
    <3>2. CASE Fail("limit") \/ Fail("copy_changed")
      BY <3>1, <3>2, <2>0
    <3>3. ASSUME ppc' # "done", ppc' \notin Running, UNCHANGED budgetVars PROVE KinInv'
      BY <3>1, <3>3 DEF KinInv, budgetVars
    <3>4. CASE (Goto("leave") \/ Goto("top")) /\ UNCHANGED budgetVars
      BY <3>3, <3>4 DEF Goto
    <3> QED BY <2>17, <3>2, <3>4 DEF Rewrite
  <2>18. CASE Rendered
    <3>1. KillGroup
      BY <2>18 DEF Rendered, Collected
    <3>2. CASE Goto("leave") /\ UNCHANGED scanVars
      BY <3>1, <3>2 DEF KinInv, Goto, KillGroup, scanVars
    <3>3. CASE Leave(2, "internal_error")
      BY <3>1, <3>3, LeavingKeepsKin
    <3> QED BY <2>18, <3>2, <3>3 DEF Rendered
  <2>19. CASE RemoveCopy
    BY <2>19 DEF RemoveCopy, KinInv, Goto, budgetVars
  <2>20. CASE Emit
    <3>1. child = "none" /\ UNCHANGED << child, kin >>
      BY <2>20 DEF Emit, KinInv, budgetVars
    <3>2. PICK code, error : Leave(code, error)
      BY <2>20 DEF Emit
    <3> QED BY <3>1, <3>2, LeavingKeepsKin
  <2>21. CASE OutOfTime
    <3>1. child = "none"
      BY <2>21 DEF OutOfTime, KinInv
    <3> QED BY <2>21, <3>1, <2>0 DEF OutOfTime
  <2> QED BY <1>2, <2>1, <2>2, <2>3, <2>4, <2>5, <2>6, <2>7, <2>8, <2>9, <2>10, <2>11, <2>12,
             <2>13, <2>14, <2>15, <2>16, <2>17, <2>18, <2>19, <2>20, <2>21 DEF PreviewSteps
<1>3. CASE Engine
  <2>1. CASE ProgramExits
    BY <2>1 DEF ProgramExits, Exits, KinInv, previewVars, scanVars
  <2>2. CASE EngineExits
    BY <2>2 DEF EngineExits, Exits, KinInv
  <2>3. CASE Flood
    <3>1. PICK code, error : Leave(code, error)
      BY <2>3 DEF Flood
    <3>2. KillGroup
      BY <2>3 DEF Flood, Overflows
    <3> QED BY <3>1, <3>2, LeavingKeepsKin
  <2> QED BY <1>3, <2>1, <2>2, <2>3 DEF Engine
<1>4. CASE Tamper
  <2>1. UNCHANGED << child, kin, ppc >>
    BY <1>4 DEF Tamper, budgetVars
  <2>2. ppc # "done"
    BY <1>4 DEF Tamper, KinInv, NoFiles
  <2> QED BY <2>1, <2>2 DEF KinInv
<1>5. CASE TimePasses /\ UNCHANGED previewVars
  BY <1>5, <1>0 DEF TimePasses, previewVars, scanVars
<1>6. \/ UNCHANGED << budgetVars, previewVars >> \/ PreviewSteps \/ Engine \/ Tamper
      \/ TimePasses /\ UNCHANGED previewVars
  BY DEF Next, PreviewStep, EngineStep, TamperStep, ClockStep, HookStep, UserStep, vars
<1> QED BY <1>1, <1>2, <1>3, <1>4, <1>5, <1>6

(***************************************************************************)
(* However a preview ends, by an answer, a refusal, a failure, a flood of  *)
(* output or its deadline, no program, no descendant in a program's group  *)
(* and no private copy survive it.                                         *)
(***************************************************************************)
THEOREM PreviewLeavesNothing == Spec => []NothingLeftBehind
<1>1. KinInv => NothingLeftBehind
  BY DEF KinInv, NothingLeftBehind, Running
<1> QED BY <1>1, KinInit, KinNext, PTL DEF Spec


(***************************************************************************)
(* Identities.  None that has been given out exceeds the last one, so a    *)
(* write gives a file one that nothing that was read has.                  *)
(***************************************************************************)
Given(x) == x.stamp \in Nat /\ x.stamp <= stamps

StampInv ==
  /\ stamps \in Nat
  /\ listed \subseteq Files
  /\ tree = [f \in Files |-> tree[f]]
  /\ \A f \in Files : tree[f] # Gone => Given(tree[f])
  /\ opened # None => Given(opened) /\ ppc \in {"read", "done"}
  /\ \A f \in DOMAIN snap : f \in Files /\ Given(snap[f])
  /\ \A f \in DOMAIN first : f \in Files /\ Given(first[f])

(***************************************************************************)
(* What a name has now tells the text of what was read under that name, if *)
(* it has the same identity.                                               *)
(***************************************************************************)
Alike(x, y) == x.stamp = y.stamp => x.text = y.text

ReadInv ==
  /\ \A f \in DOMAIN snap : tree[f] # Gone => Alike(tree[f], snap[f])
  /\ opened # None => \A f \in listed : Least(f) /\ tree[f] # Gone => Alike(tree[f], opened)

(***************************************************************************)
(* Held(f): the first snapshot is right about f.  A file that is met with  *)
(* the identity of the first snapshot proves that it is.                   *)
(***************************************************************************)
Held(f) == moment[f] # Gone /\ moment[f].text = first[f].text

Proves(x, f) == x.stamp = first[f].stamp => Held(f)

HeldInv ==
  /\ \A f \in DOMAIN first : tree[f] # Gone => Proves(tree[f], f)
  /\ opened # None => \A f \in listed : Least(f) /\ f \in DOMAIN first => Proves(opened, f)
  /\ \A f \in DOMAIN snap : f \in DOMAIN first => Proves(snap[f], f)
  /\ ppc = "emit" \/ Answered => \A f \in DOMAIN first : Held(f)

SourceInv == StampInv /\ ReadInv /\ HeldInv

LEMMA SourceInit == Init => SourceInv
<1> SUFFICES ASSUME Init PROVE SourceInv
  OBVIOUS
<1>1. PICK c \in Casts :
        tree = [f \in Files |-> IF f \in DOMAIN c.texts THEN File(c.texts[f], 0, User) ELSE Gone]
  BY DEF Init
<1>2. DOMAIN snap = {} /\ DOMAIN first = {} /\ listed = {} /\ opened = None /\ ppc = "stdin" /\ stamps = 0
  BY DEF Init, PreviewInit, NoFiles
<1>3. StampInv
  <2>1. \A f \in Files : tree[f] # Gone => tree[f].stamp = 0
    BY <1>1 DEF File
  <2> QED BY <1>1, <1>2, <2>1 DEF StampInv, Given
<1> QED BY <1>2, <1>3 DEF SourceInv, ReadInv, HeldInv, Answered

(***************************************************************************)
(* A write, by the user or by the hook, gives the file a new identity.     *)
(***************************************************************************)
LEMMA WritingKeepsSources ==
  ASSUME SourceInv, NEW f, NEW text, NEW by, Write(f, text, by), UNCHANGED previewVars
  PROVE  SourceInv'
<1> USE DEF SourceInv
<1>0. UNCHANGED << opened, snap, first, listed, moment, ppc, why >>
  BY DEF previewVars, readVars
<1>1. stamps' = stamps + 1 /\ stamps \in Nat
  BY DEF Write, StampInv
<1>2. /\ tree' = [g \in Files |-> tree'[g]]
      /\ \A g \in Files : tree'[g] = tree[g] \/ tree'[g].stamp = stamps + 1
  BY DEF Write, File, StampInv
<1>3. StampInv'
  BY <1>0, <1>1, <1>2 DEF StampInv, Given
<1>4. \A g \in Files, n \in Nat :
        n <= stamps /\ tree'[g].stamp = n => tree'[g] = tree[g]
  BY <1>1, <1>2
<1>5. \A g \in listed : Least(g)' <=> Least(g)
  BY <1>0 DEF Least
<1>6. ReadInv'
  <2>1. \A g \in DOMAIN snap : tree'[g] # Gone => Alike(tree'[g], snap[g])
    BY <1>4 DEF ReadInv, StampInv, Given, Alike
  <2>2. ASSUME opened # None, NEW g \in listed, Least(g), tree'[g] # Gone PROVE Alike(tree'[g], opened)
    BY <1>4, <2>2 DEF ReadInv, StampInv, Given, Alike
  <2> QED BY <2>1, <2>2, <1>0, <1>5 DEF ReadInv, Alike
<1>7. HeldInv'
  <2>1. \A g \in DOMAIN first : tree'[g] # Gone => Proves(tree'[g], g)
    BY <1>4 DEF HeldInv, StampInv, Given, Proves
  <2> QED BY <2>1, <1>0, <1>5 DEF HeldInv, Proves, Held, Answered
<1> QED BY <1>3, <1>6, <1>7

LEMMA RemovingKeepsSources ==
  ASSUME SourceInv, NEW f, tree' = [tree EXCEPT ![f] = Gone], UNCHANGED << stamps, previewVars >>
  PROVE  SourceInv'
<1> USE DEF SourceInv
<1>0. UNCHANGED << opened, snap, first, listed, moment, ppc, why, stamps >>
  BY DEF previewVars, readVars
<1>1. /\ tree' = [g \in Files |-> tree'[g]]
      /\ \A g : tree'[g] = tree[g] \/ tree'[g] = Gone
  BY DEF StampInv
<1>2. \A g \in listed : Least(g)' <=> Least(g)
  BY <1>0 DEF Least
<1>3. StampInv'
  BY <1>0, <1>1 DEF StampInv, Given
<1>4. ReadInv'
  BY <1>0, <1>1, <1>2 DEF ReadInv, Alike
<1>5. HeldInv'
  BY <1>0, <1>1, <1>2 DEF HeldInv, Proves, Held, Answered
<1> QED BY <1>3, <1>4, <1>5


(***************************************************************************)
(* Steps of the preview that read nothing, and do not answer.              *)
(***************************************************************************)
LEMMA QuietStepKeepsSources ==
  ASSUME SourceInv, UNCHANGED << tree, stamps, listed, opened, snap, first, moment >>,
         ~(ppc' = "emit" \/ Answered'), opened # None => ppc' \in {"read", "done"}
  PROVE  SourceInv'
<1>1. \A f \in listed : Least(f)' <=> Least(f)
  BY DEF Least
<1>2. StampInv'
  BY DEF SourceInv, StampInv, Given
<1>3. ReadInv'
  BY <1>1 DEF SourceInv, ReadInv, Alike
<1>4. HeldInv'
  BY <1>1 DEF SourceInv, HeldInv, Proves, Held
<1> QED BY <1>2, <1>3, <1>4 DEF SourceInv

LEMMA FailingKeepsSources ==
  ASSUME SourceInv, NEW error, Fail(error), UNCHANGED << tree, stamps >>,
         error \notin {"none", "nonconvergence"}
  PROVE  SourceInv'
<1>1. UNCHANGED << listed, opened, snap, first, moment >> /\ ppc' = "done" /\ why' = error
  BY DEF Fail, Leave, readVars
<1> QED BY <1>1, QuietStepKeepsSources DEF Answered

LEMMA OpeningKeepsSources ==
  ASSUME SourceInv, Open, UNCHANGED << tree, stamps >>
  PROVE  SourceInv'
<1>1. CASE Fail("path_missing") \/ Fail("limit")
  BY <1>1, FailingKeepsSources
<1>2. ASSUME NEW f \in Files, Least(f), Exists(f), ppc = "read", opened' = tree[f],
             UNCHANGED << ppc, rc, why, stdin, rules, listed, snap, first, moment, scanVars, budgetVars >>
      PROVE  SourceInv'
  <2>1. \A g \in listed : Least(g)' <=> Least(g)
    BY <1>2 DEF Least
  <2>2. ASSUME NEW g \in listed, Least(g) PROVE g = f
    <3>1. f <= g /\ g <= f
      BY <1>2, <2>2 DEF Least
    <3>2. f \in Nat /\ g \in Nat
      BY TreeAssumption DEF TreeAssumption, SourceInv, StampInv
    <3> QED BY <3>1, <3>2
  <2>3. tree[f] # Gone /\ Given(tree[f])
    BY <1>2 DEF Exists, SourceInv, StampInv
  <2>4. StampInv'
    BY <1>2, <2>3 DEF SourceInv, StampInv, Given
  <2>5. ReadInv'
    <3>1. ASSUME NEW g \in listed, Least(g) PROVE Alike(tree[g], tree[f])
      BY <3>1, <2>2 DEF Alike
    <3> QED BY <1>2, <2>1, <3>1 DEF SourceInv, ReadInv, Alike
  <2>6. HeldInv'
    <3>1. ASSUME NEW g \in listed, Least(g), g \in DOMAIN first PROVE Proves(tree[f], g)
      <4>1. g = f
        BY <3>1, <2>2
      <4> QED BY <4>1, <3>1, <2>3 DEF SourceInv, HeldInv
    <3> QED BY <1>2, <2>1, <3>1 DEF SourceInv, HeldInv, Proves, Held, Answered
  <2> QED BY <2>4, <2>5, <2>6 DEF SourceInv
<1> QED BY <1>1, <1>2 DEF Open

LEMMA ReadingKeepsSources ==
  ASSUME SourceInv, Read, UNCHANGED << tree, stamps >>
  PROVE  SourceInv'
<1>1. CASE Fail("source_changed")
  BY <1>1, FailingKeepsSources
<1>2. ASSUME NEW f \in Files, Least(f), opened # None,
             snap' = [g \in DOMAIN snap \cup {f} |-> IF g = f THEN opened ELSE snap[g]],
             listed' = listed \ {f}, opened' = None,
             UNCHANGED << ppc, rc, why, stdin, rules, first, moment, scanVars, budgetVars >>
      PROVE  SourceInv'
  <2>1. f \in listed
    BY <1>2 DEF Least
  <2>2. DOMAIN snap' = DOMAIN snap \cup {f} /\ \A g \in DOMAIN snap' : snap'[g] = IF g = f THEN opened ELSE snap[g]
    BY <1>2
  <2>3. StampInv'
    BY <1>2, <2>2 DEF SourceInv, StampInv, Given
  <2>4. ReadInv'
    BY <1>2, <2>1, <2>2 DEF SourceInv, ReadInv
  <2>5. HeldInv'
    <3>1. \A g \in DOMAIN snap' : g \in DOMAIN first => Proves(snap'[g], g)
      BY <1>2, <2>1, <2>2 DEF SourceInv, HeldInv
    <3> QED BY <1>2, <3>1 DEF SourceInv, HeldInv, Proves, Held, Answered
  <2> QED BY <2>3, <2>4, <2>5 DEF SourceInv
<1> QED BY <1>1, <1>2 DEF Read

(***************************************************************************)
(* When the first snapshot is complete, what is there now is the moment.   *)
(***************************************************************************)
LEMMA FirstReadKeepsSources ==
  ASSUME SourceInv, FirstRead, UNCHANGED << tree, stamps >>
  PROVE  SourceInv'
<1>1. /\ first' = snap /\ DOMAIN snap' = {} /\ moment' = tree /\ opened' = None
      /\ listed' = listed /\ ppc' = "copy"
  BY DEF FirstRead, AllRead, Goto, NoFiles
<1>2. StampInv'
  BY <1>1 DEF SourceInv, StampInv, Given
<1>3. ReadInv'
  BY <1>1 DEF ReadInv
<1>4. HeldInv'
  <2>1. \A f \in DOMAIN snap : tree[f] # Gone => Alike(tree[f], snap[f])
    BY DEF SourceInv, ReadInv
  <2> QED BY <1>1, <2>1 DEF HeldInv, Proves, Held, Alike, Answered
<1> QED BY <1>2, <1>3, <1>4 DEF SourceInv

LEMMA ReadingAgainKeepsSources ==
  ASSUME SourceInv, ReadAgain, UNCHANGED << tree, stamps >>
  PROVE  SourceInv'
<1>1. CASE Fail("source_changed")
  BY <1>1, FailingKeepsSources
<1>2. CASE State(snap) = State(first) /\ Goto("emit") /\ UNCHANGED << readVars, scanVars, budgetVars >>
  <2>1. DOMAIN State(snap) = DOMAIN snap /\ DOMAIN State(first) = DOMAIN first
    BY DEF State
  <2>2. \A f \in DOMAIN first : State(snap)[f] = << snap[f].text, snap[f].stamp >>
    BY <1>2, <2>1 DEF State
  <2>3. \A f \in DOMAIN first : State(first)[f] = << first[f].text, first[f].stamp >>
    BY DEF State
  <2>4. \A f \in DOMAIN first : f \in DOMAIN snap /\ snap[f].stamp = first[f].stamp
    BY <1>2, <2>1, <2>2, <2>3
  <2>5. \A f \in DOMAIN first : Held(f)
    BY <2>4 DEF SourceInv, HeldInv, Proves
  <2>6. UNCHANGED << listed, opened, snap, first, moment >> /\ opened = None
    BY <1>2 DEF readVars, ReadAgain, AllRead
  <2>7. \A f \in listed : Least(f)' <=> Least(f)
    BY <2>6 DEF Least
  <2>8. StampInv'
    BY <2>6 DEF SourceInv, StampInv, Given
  <2>9. ReadInv'
    BY <2>6, <2>7 DEF SourceInv, ReadInv, Alike
  <2>10. HeldInv'
    BY <2>5, <2>6, <2>7 DEF SourceInv, HeldInv, Proves, Held
  <2> QED BY <2>8, <2>9, <2>10 DEF SourceInv
<1> QED BY <1>1, <1>2 DEF ReadAgain

LEMMA SourceNext == SourceInv /\ [Next]_vars => SourceInv'
<1> SUFFICES ASSUME SourceInv, [Next]_vars PROVE SourceInv'
  OBVIOUS
<1>0. ASSUME UNCHANGED << tree, stamps, listed, opened, snap, first, moment >>, UNCHANGED << ppc, why >>
      PROVE  SourceInv'
  <2>1. \A f \in listed : Least(f)' <=> Least(f)
    BY <1>0 DEF Least
  <2>2. StampInv'
    BY <1>0 DEF SourceInv, StampInv, Given
  <2>3. ReadInv'
    BY <1>0, <2>1 DEF SourceInv, ReadInv, Alike
  <2>4. HeldInv'
    BY <1>0, <2>1 DEF SourceInv, HeldInv, Proves, Held, Answered
  <2> QED BY <2>2, <2>3, <2>4 DEF SourceInv
<1>1. CASE UNCHANGED << treeVars, previewVars >>
  BY <1>1, <1>0 DEF treeVars, previewVars, readVars
<1>2. CASE Edit /\ UNCHANGED previewVars
  <2>1. PICK f \in Files :
          \/ \E text \in Drafts : Write(f, text, User)
          \/ Exists(f) /\ tree' = [tree EXCEPT ![f] = Gone] /\ UNCHANGED stamps
    BY <1>2 DEF Edit
  <2> QED BY <1>2, <2>1, WritingKeepsSources, RemovingKeepsSources
<1>3. CASE HookSteps /\ UNCHANGED previewVars
  <2>1. ASSUME NEW program, Touch(program) PROVE SourceInv'
    <3>1. CASE UNCHANGED treeVars
      BY <3>1, <1>1, <1>3
    <3>2. CASE Write(Target, Result(program, tree[Target].text), Hook)
      BY <3>2, <1>3, WritingKeepsSources
    <3> QED BY <2>1, <3>1, <3>2 DEF Touch
  <2>2. UNCHANGED treeVars \/ \E program : Touch(program)
    BY <1>3 DEF HookSteps, Begin, StartStep, PipelineDone, BudgetSpent, EndFile, RunProgram,
                ProgramFails, ProgramTimesOut, LeaveOut, HookEnds, treeVars
  <2> QED BY <2>1, <2>2, <1>1, <1>3
<1>4. CASE PreviewSteps /\ UNCHANGED treeVars
  <2> USE DEF treeVars
  <2>0. ASSUME opened = None, UNCHANGED readVars, ppc' # "emit", ppc' # "done" PROVE SourceInv'
    BY <2>0, <1>4, QuietStepKeepsSources DEF readVars, Answered
  <2>1. ASSUME UNCHANGED readVars, NEW code, NEW error, Leave(code, error),
               error \notin {"none", "nonconvergence"}
        PROVE  SourceInv'
    BY <2>1, <1>4, QuietStepKeepsSources DEF readVars, Leave, Answered
  <2>2. ASSUME NEW error, Fail(error), error \notin {"none", "nonconvergence"} PROVE SourceInv'
    BY <2>2, <1>4, FailingKeepsSources
  <2>3. ppc \notin {"read", "done"} => opened = None
    BY DEF SourceInv, StampInv
  <2>4. CASE ReadRules
    <3>1. CASE Fail("invalid")
      BY <3>1, <2>2
    <3> QED BY <2>3, <2>4, <3>1, <1>4, QuietStepKeepsSources DEF ReadRules, Goto, Answered
  <2>5. CASE List
    <3>1. /\ listed' \subseteq Files /\ opened = None /\ ppc' = "read"
          /\ UNCHANGED << tree, stamps, opened, snap, first, moment >>
      BY <2>5, <2>3, <1>4 DEF List, Goto, Present
    <3>2. StampInv'
      BY <3>1 DEF SourceInv, StampInv, Given
    <3>3. ReadInv'
      BY <3>1 DEF SourceInv, ReadInv, Alike
    <3>4. HeldInv'
      BY <3>1 DEF SourceInv, HeldInv, Proves, Held, Answered
    <3> QED BY <3>2, <3>3, <3>4 DEF SourceInv
  <2>6. CASE Open
    BY <2>6, <1>4, OpeningKeepsSources
  <2>7. CASE Read
    BY <2>7, <1>4, ReadingKeepsSources
  <2>8. CASE FirstRead
    BY <2>8, <1>4, FirstReadKeepsSources
  <2>9. CASE ReadAgain
    BY <2>9, <1>4, ReadingAgainKeepsSources
  <2>10. CASE MakeCopy \/ PassLimit \/ StartScan \/ Converge \/ RemoveCopy
    <3>1. ppc \notin {"read", "done"} /\ UNCHANGED readVars /\ ppc' # "emit" /\ ppc' # "done"
      BY <2>10 DEF MakeCopy, PassLimit, StartScan, Converge, RemoveCopy, Goto
    <3> QED BY <3>1, <2>3, <2>0
  <2>11. CASE StartProgram
    BY <2>11, <1>4, <1>1 DEF StartProgram
  <2>12. CASE OverBudget
    <3>1. UNCHANGED readVars /\ Leave(2, "budget")
      BY <2>12 DEF OverBudget
    <3> QED BY <3>1, <2>1
  <2>13. CASE Probed
    <3>1. ppc = "probe" /\ UNCHANGED readVars
      BY <2>13 DEF Probed
    <3>2. CASE Goto("top")
      BY <3>1, <3>2, <2>3, <2>0 DEF Goto
    <3>3. ASSUME NEW error \in {"unavailable", "unsupported_engine"}, Leave(3, error) PROVE SourceInv'
      BY <3>1, <3>3, <2>1
    <3> QED BY <2>13, <3>2, <3>3 DEF Probed
  <2>14. CASE Scanned
    <3>1. ppc = "scan" /\ UNCHANGED readVars
      BY <2>14 DEF Scanned
    <3>2. CASE Goto("verify")
      BY <3>1, <3>2, <2>3, <2>0 DEF Goto
    <3>3. CASE Leave(2, "engine_error")
      BY <3>1, <3>3, <2>1
    <3> QED BY <2>14, <3>2, <3>3 DEF Scanned
  <2>15. CASE Verify
    <3>1. CASE Fail("copy_changed")
      BY <3>1, <2>2
    <3>2. CASE Goto("judge") /\ UNCHANGED readVars
      BY <2>15, <3>2, <2>3, <2>0 DEF Verify, Goto
    <3> QED BY <2>15, <3>1, <3>2 DEF Verify
  <2>16. CASE Refuse
    BY <2>16, <2>2 DEF Refuse
  <2>17. CASE Rewrite
    <3>1. CASE Fail("limit") \/ Fail("copy_changed")
      BY <3>1, <2>2
    <3>2. CASE (Goto("leave") \/ Goto("top")) /\ UNCHANGED readVars
      BY <2>17, <3>2, <2>3, <2>0 DEF Rewrite, Goto
    <3> QED BY <2>17, <3>1, <3>2 DEF Rewrite
  <2>18. CASE Rendered
    <3>1. ppc = "diff" /\ UNCHANGED readVars
      BY <2>18 DEF Rendered
    <3>2. CASE Goto("leave")
      BY <3>1, <3>2, <2>3, <2>0 DEF Goto
    <3>3. CASE Leave(2, "internal_error")
      BY <3>1, <3>3, <2>1
    <3> QED BY <2>18, <3>2, <3>3 DEF Rendered
  <2>19. CASE Emit
    <3>1. /\ ppc = "emit" /\ ppc' = "done" /\ opened = None
          /\ UNCHANGED << tree, stamps, listed, opened, snap, first, moment >>
      BY <2>19, <2>3, <1>4 DEF Emit, Leave, readVars
    <3>2. \A f \in DOMAIN first : Held(f)
      BY <3>1 DEF SourceInv, HeldInv
    <3>3. StampInv'
      BY <3>1 DEF SourceInv, StampInv, Given
    <3>4. ReadInv'
      BY <3>1 DEF SourceInv, ReadInv, Alike
    <3>5. HeldInv'
      BY <3>1, <3>2 DEF SourceInv, HeldInv, Proves, Held
    <3> QED BY <3>3, <3>4, <3>5 DEF SourceInv
  <2>20. CASE OutOfTime
    BY <2>20, <2>2 DEF OutOfTime
  <2> QED BY <1>4, <2>4, <2>5, <2>6, <2>7, <2>8, <2>9, <2>10, <2>11, <2>12, <2>13, <2>14, <2>15,
             <2>16, <2>17, <2>18, <2>19, <2>20 DEF PreviewSteps
<1>5. CASE Engine /\ UNCHANGED treeVars
  <2>1. CASE ProgramExits
    BY <2>1, <1>5, <1>1 DEF ProgramExits
  <2>2. CASE EngineExits
    BY <2>2, <1>5, <1>0 DEF EngineExits, readVars, treeVars
  <2>3. CASE Flood
    <3>1. PICK error \in {"engine_rejected", "budget"} : Leave(2, error)
      BY <2>3 DEF Flood
    <3>2. ppc' = "done" /\ ~Answered'
      BY <3>1 DEF Leave, Answered
    <3> QED BY <2>3, <3>2, <1>5, QuietStepKeepsSources DEF Flood, readVars, treeVars
  <2> QED BY <1>5, <2>1, <2>2, <2>3 DEF Engine
<1>6. CASE Tamper /\ UNCHANGED treeVars
  BY <1>6, <1>0 DEF Tamper, readVars, treeVars
<1>7. \/ UNCHANGED << treeVars, previewVars >>
      \/ Edit /\ UNCHANGED previewVars
      \/ HookSteps /\ UNCHANGED previewVars
      \/ PreviewSteps /\ UNCHANGED treeVars
      \/ Engine /\ UNCHANGED treeVars
      \/ Tamper /\ UNCHANGED treeVars
  BY DEF Next, PreviewStep, EngineStep, TamperStep, ClockStep, HookStep, UserStep, vars
<1> QED BY <1>1, <1>2, <1>3, <1>4, <1>5, <1>6, <1>7

(***************************************************************************)
(* A preview that is shown is about the files as they were, all of them at *)
(* one moment, however often and however they were written while it ran.   *)
(***************************************************************************)
THEOREM SourcesAreHeld == Spec => []SourcesHeld
<1>1. SourceInv => SourcesHeld
  BY DEF SourceInv, HeldInv, SourcesHeld, Held
<1> QED BY <1>1, SourceInit, SourceNext, PTL DEF Spec

(***************************************************************************)
(* Feedback.  Only the last program of a pipeline reports, so a file has   *)
(* no feedback before its pipeline is at its end, and then what that       *)
(* program has left tells what it has reported.                            *)
(***************************************************************************)
Working == hpc \in {"step", "call"}

Told(f) ==
  left[f] # Gone =>
    \/ feedback[f] = Errors(left[f].text)
    \/ feedback[f] = {} /\ (f \in cut \/ ~Reports(f))

Charged(f) == feedback[f] # {} /\ ~(Working /\ f = Target)

QueueInv ==
  /\ targets \in Seq(Files)
  /\ \A i, j \in 1..Len(targets) : i # j => targets[i] # targets[j]
  /\ hpc \in {"file", "step", "call", "done"}
  /\ Working => targets # << >> /\ step \in Nat \ {0}
  /\ hpc = "call" => step <= Len(Steps) /\ call \in 1..Len(Programs)
  /\ hpc = "done" => targets = << >>

FinalInv ==
  /\ feedback = [f \in Files |-> feedback[f]] /\ left = [f \in Files |-> left[f]]
  /\ \A f \in Files : ~(Working /\ f = Target) => Told(f)
  /\ \A i \in 1..Len(targets) :
        ~(Working /\ i = 1) => feedback[targets[i]] = {} /\ left[targets[i]] = Gone
  /\ Working => IF step <= Len(Steps) THEN feedback[Target] = {} ELSE Told(Target)
  /\ exit \in {0, 2}
  /\ exit = 2 <=> \E f \in Files : Charged(f)

ReportInv == QueueInv /\ FinalInv

LEMMA ReportInit == Init => ReportInv
<1> SUFFICES ASSUME Init PROVE ReportInv
  OBVIOUS
<1>1. PICK c \in Casts : targets = c.written
  BY DEF Init
<1>2. /\ hpc = "file" /\ exit = 0
      /\ feedback = [f \in Files |-> {}] /\ left = [f \in Files |-> Gone]
  BY DEF Init, HookInit
<1>3. QueueInv
  BY <1>1, <1>2, CastAssumption DEF QueueInv, Working
<1>4. FinalInv
  <2>1. \A i \in 1..Len(targets) : targets[i] \in Files
    BY <1>3 DEF QueueInv
  <2> QED
    BY <1>2, <2>1 DEF FinalInv, Working, Told, Charged
<1> QED
  BY <1>3, <1>4 DEF ReportInv

(***************************************************************************)
(* What the pipelines are: "format" reports nothing, and only the last     *)
(* program of a pipeline may be another one.                               *)
(***************************************************************************)
LEMMA Pipelines ==
  ASSUME NEW f \in Files, NEW i \in 1..Len(Pipeline(f)), NEW c \in 1..Len(Pipeline(f)[i])
  PROVE  /\ Pipeline(f)[i][c] # "format" => i = Len(Pipeline(f)) /\ c = Len(Pipeline(f)[i])
         /\ Pipeline(f)[i][c] = "format" /\ i = Len(Pipeline(f)) /\ c = Len(Pipeline(f)[i])
              => ~Reports(f)
<1>1. Kind[f] \in {"python", "script", "data", "shell", "other"}
  BY FormatAssumption DEF FormatAssumption
<1>2. CASE Kind[f] = "python"
  <2>1. Pipeline(f) = << << "format", "fix" >> >>
    BY <1>2 DEF Pipeline, Ruff
  <2>2. i = 1
    BY <2>1
  <2>3. Pipeline(f)[i] = << "format", "fix" >> /\ Len(Pipeline(f)) = 1
    BY <2>1, <2>2
  <2>4. c \in {1, 2} /\ Len(Pipeline(f)[i]) = 2
    BY <2>3
  <2>5. c = 1 => Pipeline(f)[i][c] = "format"
    BY <2>3
  <2>6. c = 2 => Pipeline(f)[i][c] = "fix"
    BY <2>3
  <2> QED
    BY <2>2, <2>3, <2>4, <2>5, <2>6
<1>3. CASE Kind[f] = "script"
  <2>1. Pipeline(f) = << << "format" >>, << "fix" >> >>
    BY <1>3 DEF Pipeline
  <2> QED
    BY <2>1
<1>4. CASE Kind[f] = "data"
  <2>1. Pipeline(f) = << << "format" >> >>
    BY <1>4 DEF Pipeline
  <2> QED
    BY <1>4, <2>1 DEF Reports
<1>5. CASE Kind[f] = "shell"
  <2>1. Pipeline(f) = << << "check" >> >>
    BY <1>5 DEF Pipeline
  <2> QED
    BY <2>1
<1>6. CASE Kind[f] = "other"
  <2>1. Pipeline(f) = << >>
    BY <1>6 DEF Pipeline
  <2> QED
    BY <2>1
<1> QED
  BY <1>1, <1>2, <1>3, <1>4, <1>5, <1>6

LEMMA PipelineSizes ==
  ASSUME NEW f \in Files
  PROVE  /\ Len(Pipeline(f)) \in Nat
         /\ \A i \in 1..Len(Pipeline(f)) : Len(Pipeline(f)[i]) \in Nat \ {0}
<1>1. Kind[f] \in {"python", "script", "data", "shell", "other"}
  BY FormatAssumption DEF FormatAssumption
<1>2. CASE Kind[f] = "python"
  <2>1. Pipeline(f) = << << "format", "fix" >> >>
    BY <1>2 DEF Pipeline, Ruff
  <2> QED
    BY <2>1
<1>3. CASE Kind[f] = "script"
  <2>1. Pipeline(f) = << << "format" >>, << "fix" >> >>
    BY <1>3 DEF Pipeline
  <2> QED
    BY <2>1
<1>4. CASE Kind[f] = "data"
  <2>1. Pipeline(f) = << << "format" >> >>
    BY <1>4 DEF Pipeline
  <2> QED
    BY <2>1
<1>5. CASE Kind[f] = "shell"
  <2>1. Pipeline(f) = << << "check" >> >>
    BY <1>5 DEF Pipeline
  <2> QED
    BY <2>1
<1>6. CASE Kind[f] = "other"
  <2>1. Pipeline(f) = << >>
    BY <1>6 DEF Pipeline
  <2> QED
    BY <2>1
<1> QED
  BY <1>1, <1>2, <1>3, <1>4, <1>5, <1>6

LEMMA TargetIsFile ==
  ASSUME QueueInv, targets # << >>
  PROVE  /\ Target \in Files /\ Target = targets[1] /\ Len(targets) \in Nat \ {0}
         /\ \A i \in 1..Len(targets) : targets[i] \in Files /\ (targets[i] = Target => i = 1)
BY DEF QueueInv, Target

LEMMA RestOfTargets ==
  ASSUME QueueInv, targets # << >>
  PROVE  /\ Tail(targets) \in Seq(Files)
         /\ Len(Tail(targets)) = Len(targets) - 1
         /\ \A i \in 1..Len(Tail(targets)) : Tail(targets)[i] = targets[i + 1]
         /\ \A i, j \in 1..Len(Tail(targets)) : i # j => Tail(targets)[i] # Tail(targets)[j]
<1>1. targets \in Seq(Files)
  BY DEF QueueInv
<1>2. /\ Tail(targets) \in Seq(Files)
      /\ Len(Tail(targets)) = Len(targets) - 1
      /\ \A i \in 1..Len(Tail(targets)) : Tail(targets)[i] = targets[i + 1]
  BY <1>1
<1>3. Len(targets) \in Nat \ {0}
  BY <1>1
<1> QED
  BY <1>2, <1>3 DEF QueueInv

(***************************************************************************)
(* The pipeline of a file begins, or the file is passed over.              *)
(***************************************************************************)
LEMMA BeginKeepsReports == ASSUME ReportInv, Begin PROVE ReportInv'
<1> USE DEF ReportInv
<1>1. hpc = "file" /\ targets # << >> /\ ~Working
  BY DEF Begin, Working
<1>2. CASE Exists(Target)
  <2>1. /\ hpc' = "step" /\ step' = 1 /\ Working'
        /\ UNCHANGED << targets, feedback, exit, cut, left >>
    BY <1>2 DEF Begin, Working
  <2>2. Target' = Target /\ Steps' = Steps
    BY <2>1 DEF Target, Steps, Pipeline
  <2>3. QueueInv'
    BY <1>1, <2>1 DEF QueueInv, Working
  <2>8. 1 \in 1..Len(targets) /\ targets[1] = Target
    BY <1>1, TargetIsFile
  <2>4. feedback[Target] = {} /\ left[Target] = Gone
    BY <1>1, <2>8 DEF FinalInv
  <2>5. \A f \in Files : ~(Working' /\ f = Target') => Told(f)'
    BY <1>1, <2>1 DEF FinalInv, Told
  <2>6. IF step' <= Len(Steps') THEN feedback'[Target'] = {} ELSE Told(Target)'
    BY <2>1, <2>2, <2>4 DEF Told
  <2>7. \A f \in Files : Charged(f)' <=> Charged(f)
    BY <1>1, <2>1, <2>2, <2>4 DEF Charged
  <2> QED
    BY <1>1, <2>1, <2>3, <2>5, <2>6, <2>7 DEF FinalInv
<1>3. CASE ~Exists(Target)
  <2>1. /\ hpc' = "file" /\ ~Working' /\ targets' = Tail(targets)
        /\ UNCHANGED << feedback, exit, cut, left >>
    BY <1>1, <1>3 DEF Begin, Working
  <2>2. QueueInv'
    BY <2>1, <1>1, RestOfTargets DEF QueueInv
  <2>3. \A i \in 1..Len(targets') : feedback[targets'[i]] = {} /\ left[targets'[i]] = Gone
    <3>1. \A i \in 1..Len(Tail(targets)) : i + 1 \in 1..Len(targets)
      BY <1>1, RestOfTargets, TargetIsFile
    <3>2. \A i \in 1..Len(targets) : feedback[targets[i]] = {} /\ left[targets[i]] = Gone
      BY <1>1 DEF FinalInv
    <3>3. \A i \in 1..Len(Tail(targets)) : Tail(targets)[i] = targets[i + 1]
      BY <1>1, RestOfTargets
    <3> QED
      BY <2>1, <3>1, <3>2, <3>3
  <2>4. \A f \in Files : Charged(f)' <=> Charged(f)
    BY <1>1, <2>1 DEF Charged
  <2>5. \A f \in Files : Told(f)'
    BY <1>1, <2>1 DEF FinalInv, Told
  <2> QED
    BY <2>1, <2>2, <2>3, <2>4, <2>5 DEF FinalInv
<1> QED
  BY <1>2, <1>3

LEMMA StartKeepsReports == ASSUME ReportInv, StartStep PROVE ReportInv'
<1> USE DEF ReportInv
<1>1. /\ hpc = "step" /\ step <= Len(Steps) /\ hpc' = "call" /\ call' = 1
      /\ UNCHANGED << targets, step, feedback, exit, cut, left >>
  BY DEF StartStep
<1>2. Working /\ Working' /\ targets # << >> /\ step \in Nat \ {0}
  BY <1>1 DEF Working, QueueInv
<1>3. Target' = Target /\ Steps' = Steps /\ Programs' = Programs
  BY <1>1 DEF Target, Steps, Pipeline, Programs
<1>4. Len(Programs) \in Nat \ {0}
  <2>1. Target \in Files
    BY <1>2, TargetIsFile
  <2>2. Len(Pipeline(Target)) \in Nat /\ step <= Len(Pipeline(Target))
    BY <1>1, <2>1, PipelineSizes DEF Steps
  <2>3. step \in 1..Len(Pipeline(Target))
    BY <1>2, <2>2
  <2> QED
    BY <2>1, <2>3, PipelineSizes DEF Steps, Programs
<1>5. QueueInv'
  BY <1>1, <1>2, <1>3, <1>4 DEF QueueInv
<1>6. \A f \in Files : (Told(f)' <=> Told(f)) /\ (Charged(f)' <=> Charged(f))
  BY <1>1, <1>2, <1>3 DEF Told, Charged
<1> QED
  BY <1>1, <1>2, <1>3, <1>5, <1>6, TargetIsFile DEF FinalInv

(***************************************************************************)
(* The pipeline of a file ends, in its turn or for want of time.           *)
(***************************************************************************)
LEMMA EndKeepsReports ==
  ASSUME ReportInv, hpc = "step", EndFile, cut \subseteq cut',
         NEW t, t = Target, Told(t)'
  PROVE  ReportInv'
<1> USE DEF ReportInv
<1>1. /\ hpc' = "file" /\ targets' = Tail(targets) /\ UNCHANGED << feedback, left >>
      /\ exit' = IF feedback[Target] # {} THEN 2 ELSE exit
  BY DEF EndFile
<1>2. Working /\ ~Working' /\ targets # << >>
  BY <1>1 DEF Working, QueueInv
<1>3. QueueInv'
  BY <1>1, <1>2, RestOfTargets DEF QueueInv, Working
<1>4. Target \in Files
  BY <1>2, TargetIsFile
<1>5. \A f \in Files : Told(f)'
  <2>1. ASSUME NEW f \in Files, f # t PROVE Told(f)'
    BY <1>1, <2>1 DEF FinalInv, Told
  <2> QED
    BY <2>1
<1>6. \A i \in 1..Len(targets') : feedback'[targets'[i]] = {} /\ left'[targets'[i]] = Gone
  <2>1. \A i \in 1..Len(Tail(targets)) : i + 1 \in 1..Len(targets) /\ i + 1 # 1
    BY <1>2, RestOfTargets, TargetIsFile
  <2>2. \A i \in 1..Len(targets) : i # 1 => feedback[targets[i]] = {} /\ left[targets[i]] = Gone
    BY DEF FinalInv
  <2>3. \A i \in 1..Len(Tail(targets)) : Tail(targets)[i] = targets[i + 1]
    BY <1>2, RestOfTargets
  <2> QED
    BY <1>1, <2>1, <2>2, <2>3
<1>7. exit' \in {0, 2} /\ (exit' = 2 <=> \E f \in Files : Charged(f)')
  <2>1. \A f \in Files : Charged(f)' <=> feedback[f] # {}
    BY <1>1, <1>2 DEF Charged
  <2>2. \A f \in Files : Charged(f) <=> feedback[f] # {} /\ f # Target
    BY <1>2 DEF Charged
  <2> QED
    BY <1>1, <1>4, <2>1, <2>2 DEF FinalInv
<1> QED
  BY <1>1, <1>2, <1>3, <1>5, <1>6, <1>7 DEF FinalInv

(***************************************************************************)
(* A program of a step has had its turn, and what it left and reported, if *)
(* anything, is accounted for.                                             *)
(***************************************************************************)
LEMMA MovingKeepsReports ==
  ASSUME ReportInv, hpc = "call", NextProgram \/ StepEnds,
         UNCHANGED << targets, exit >>, cut \subseteq cut',
         feedback' = [feedback EXCEPT ![Target] = feedback'[Target]],
         left' = [left EXCEPT ![Target] = left'[Target]],
         NEW t, t = Target,
         step' <= Len(Steps) => feedback'[t] = {},
         step' > Len(Steps) => Told(t)'
  PROVE  ReportInv'
<1> USE DEF ReportInv
<1>1. /\ hpc' \in {"call", "step"} /\ Working /\ Working' /\ targets # << >>
      /\ step \in Nat \ {0} /\ step <= Len(Steps) /\ call \in 1..Len(Programs)
      /\ step' \in Nat \ {0}
  BY DEF NextProgram, StepEnds, Working, QueueInv
<1>2. Target \in Files /\ Len(Steps) \in Nat /\ Len(Programs) \in Nat
  BY <1>1, TargetIsFile, PipelineSizes DEF Steps, Programs
<1>3. Target' = Target /\ Steps' = Steps
  BY DEF Target, Steps, Pipeline
<1>4. hpc' = "call" => step' = step /\ call' = call + 1 /\ call < Len(Programs)
  BY DEF NextProgram, StepEnds
<1>5. hpc' = "call" => Programs' = Programs
  BY <1>3, <1>4 DEF Programs
<1>6. QueueInv'
  BY <1>1, <1>2, <1>3, <1>4, <1>5 DEF QueueInv
<1>7. \A f \in Files : f # t => feedback'[f] = feedback[f] /\ left'[f] = left[f]
  BY DEF FinalInv
<1>8. \A f \in Files : f # t => Told(f)'
  BY <1>1, <1>7 DEF FinalInv, Told
<1>9. \A f \in Files : Charged(f)' <=> Charged(f)
  BY <1>1, <1>3, <1>7 DEF Charged
<1>10. \A i \in 1..Len(targets) : i # 1 => feedback'[targets[i]] = {} /\ left'[targets[i]] = Gone
  BY <1>1, <1>7, TargetIsFile DEF FinalInv
<1>11. IF step' <= Len(Steps) THEN feedback'[Target] = {} ELSE Told(t)'
  BY <1>1, <1>2
<1>12. /\ feedback' = [f \in Files |-> feedback'[f]] /\ left' = [f \in Files |-> left'[f]]
  BY DEF FinalInv
<1>13. IF step' <= Len(Steps') THEN feedback'[Target'] = {} ELSE Told(Target)'
  BY <1>3, <1>11 DEF Told
<1> QED
  BY <1>1, <1>3, <1>6, <1>8, <1>9, <1>10, <1>13, <1>12 DEF FinalInv

LEMMA RunKeepsReports ==
  ASSUME ReportInv, SourceInv, RunProgram
  PROVE  ReportInv'
<1> USE DEF ReportInv
<1>1. PICK t : t = Target
  OBVIOUS
<1>2. PICK program : program = Programs[call]
  OBVIOUS
<1>3. /\ hpc = "call" /\ Exists(t) /\ Touch(program) /\ NextProgram
      /\ left' = [left EXCEPT ![t] = tree'[t]]
      /\ feedback' = [feedback EXCEPT ![t] = @ \cup Reported(program, tree[t].text)]
      /\ UNCHANGED << targets, exit, cut >>
  BY <1>1, <1>2 DEF RunProgram, Ready
<1>4. /\ targets # << >> /\ t \in Files /\ step \in Nat \ {0} /\ step <= Len(Steps)
      /\ call \in 1..Len(Programs) /\ Working
  BY <1>1, <1>3, TargetIsFile DEF QueueInv, Working
<1>5. feedback[t] = {}
  BY <1>1, <1>4 DEF FinalInv
<1>6. /\ feedback' = [feedback EXCEPT ![t] = feedback'[t]]
      /\ left' = [left EXCEPT ![t] = left'[t]]
      /\ feedback'[t] = Reported(program, tree[t].text) /\ left'[t] = tree'[t]
  BY <1>3, <1>4, <1>5 DEF FinalInv
<1>7. tree'[t].text = Result(program, tree[t].text)
  <2>1. CASE Result(program, tree[t].text) = tree[t].text
    BY <1>1, <1>3, <2>1 DEF Touch, treeVars
  <2>2. CASE Result(program, tree[t].text) # tree[t].text
    <3>1. Write(t, Result(program, tree[t].text), Hook)
      BY <1>1, <1>3, <2>2 DEF Touch
    <3>2. tree'[t] = File(Result(program, tree[t].text), stamps + 1, Hook)
      BY <1>4, <3>1 DEF Write, SourceInv, StampInv
    <3> QED
      BY <3>2 DEF File
  <2> QED
    BY <2>1, <2>2
<1>8. step \in 1..Len(Pipeline(t)) /\ call \in 1..Len(Pipeline(t)[step]) /\ program = Pipeline(t)[step][call]
  <2>1. Len(Pipeline(t)) \in Nat /\ Steps = Pipeline(t)
    BY <1>1, <1>4, PipelineSizes DEF Steps
  <2> QED
    BY <1>2, <1>4, <2>1 DEF Programs
<1>9. CASE program = "format"
  <2>1. feedback'[t] = {}
    BY <1>6, <1>9 DEF Reported
  <2>2. step' > Len(Steps) => ~Reports(t)
    <3>1. step' > Len(Steps) => call = Len(Pipeline(t)[step]) /\ step = Len(Pipeline(t))
      <4>1. Len(Pipeline(t)) \in Nat /\ Steps = Pipeline(t) /\ Programs = Pipeline(t)[step]
        BY <1>1, <1>4, PipelineSizes DEF Steps, Programs
      <4>2. Len(Pipeline(t)[step]) \in Nat
        BY <1>4, <1>8, PipelineSizes
      <4> QED
        BY <1>3, <1>4, <1>8, <4>1, <4>2 DEF NextProgram
    <3> QED
      BY <1>4, <1>8, <1>9, <3>1, Pipelines
  <2>3. step' > Len(Steps) => Told(t)'
    BY <2>1, <2>2 DEF Told
  <2> QED
    BY <1>1, <1>3, <1>6, <2>1, <2>3, MovingKeepsReports
<1>10. CASE program # "format"
  <2>1. step = Len(Steps) /\ call = Len(Programs)
    BY <1>1, <1>4, <1>8, <1>10, Pipelines DEF Steps, Programs
  <2>2. step' = step + 1
    BY <1>3, <1>4, <2>1 DEF NextProgram
  <2>3. feedback'[t] = Errors(left'[t].text)
    BY <1>6, <1>7, <1>10 DEF Reported
  <2>4. Told(t)'
    BY <2>3 DEF Told
  <2>5. ~(step' <= Len(Steps))
    BY <1>4, <2>1, <2>2
  <2> QED
    BY <1>1, <1>3, <1>6, <2>4, <2>5, MovingKeepsReports
<1> QED
  BY <1>9, <1>10

(***************************************************************************)
(* A program that fails, or is left out, leaves the file without feedback  *)
(* and among those that were cut.                                          *)
(***************************************************************************)
LEMMA CutKeepsReports ==
  ASSUME ReportInv, hpc = "call", NextProgram \/ StepEnds,
         UNCHANGED << targets, feedback, left, exit >>, cut' = cut \cup {Target}
  PROVE  ReportInv'
<1> USE DEF ReportInv
<1>1. PICK t : t = Target
  OBVIOUS
<1>2. Working /\ targets # << >> /\ step <= Len(Steps)
  BY DEF Working, QueueInv
<1>3. feedback'[t] = {} /\ t \in cut'
  BY <1>1, <1>2 DEF FinalInv
<1>4. Told(t)'
  BY <1>3 DEF Told
<1>5. /\ feedback' = [feedback EXCEPT ![t] = feedback'[t]]
      /\ left' = [left EXCEPT ![t] = left'[t]]
  BY DEF FinalInv
<1> QED
  BY <1>1, <1>3, <1>4, <1>5, MovingKeepsReports

LEMMA ReportNext == SourceInv /\ ReportInv /\ [Next]_vars => ReportInv'
<1> SUFFICES ASSUME SourceInv, ReportInv, [Next]_vars PROVE ReportInv'
  OBVIOUS
<1>1. CASE UNCHANGED hookVars
  <2>1. UNCHANGED << hpc, targets, step, call, feedback, exit, cut, left >>
    BY <1>1 DEF hookVars
  <2>2. /\ Target' = Target /\ Steps' = Steps /\ Programs' = Programs /\ (Working' <=> Working)
        /\ \A f \in Files : Told(f)' <=> Told(f)
    BY <2>1 DEF Target, Steps, Pipeline, Programs, Working, Told
  <2>3. \A f \in Files : Charged(f)' <=> Charged(f)
    BY <2>1, <2>2 DEF Charged
  <2>4. QueueInv'
    BY <2>1, <2>2 DEF ReportInv, QueueInv
  <2>5. Working => (Told(Target)' <=> Told(Target))
    <3>1. Working => Target \in Files
      BY TargetIsFile DEF ReportInv, QueueInv
    <3> QED
      BY <2>1, <2>2, <3>1 DEF Told
  <2>6. FinalInv'
    BY <2>1, <2>2, <2>3, <2>5 DEF ReportInv, FinalInv
  <2> QED
    BY <2>4, <2>6 DEF ReportInv
<1>2. CASE HookSteps
  <2>1. PICK t : t = Target
    OBVIOUS
  <2>2. CASE Begin
    BY <2>2, BeginKeepsReports
  <2>3. CASE StartStep
    BY <2>3, StartKeepsReports
  <2>4. CASE PipelineDone
    <3>1. Working /\ step > Len(Steps) /\ step \in Nat
      BY <2>4 DEF PipelineDone, Working, ReportInv, QueueInv
    <3>2. Target \in Files /\ Len(Steps) \in Nat
      BY <3>1, TargetIsFile, PipelineSizes DEF Steps, ReportInv, QueueInv
    <3>3. Told(t)
      BY <2>1, <3>1, <3>2 DEF ReportInv, FinalInv, Told
    <3>4. Told(t)'
      BY <2>4, <3>3 DEF PipelineDone, EndFile, Told
    <3> QED
      BY <2>1, <2>4, <3>4, EndKeepsReports DEF PipelineDone
  <2>5. CASE BudgetSpent
    <3>1. feedback[t] = {}
      BY <2>1, <2>5 DEF BudgetSpent, ReportInv, FinalInv, Working
    <3>2. Told(t)'
      BY <2>1, <2>5, <3>1 DEF BudgetSpent, EndFile, Told
    <3> QED
      BY <2>1, <2>5, <3>2, EndKeepsReports DEF BudgetSpent
  <2>6. CASE RunProgram
    BY <2>6, RunKeepsReports
  <2>7. CASE ProgramFails
    BY <2>7, CutKeepsReports DEF ProgramFails, Ready
  <2>8. CASE ProgramTimesOut
    BY <2>8, CutKeepsReports DEF ProgramTimesOut, Ready
  <2>9. CASE LeaveOut
    BY <2>9, CutKeepsReports DEF LeaveOut
  <2>10. CASE HookEnds
    <3>1. /\ hpc = "file" /\ hpc' = "done" /\ targets = << >>
          /\ UNCHANGED << targets, step, call, feedback, exit, cut, left >>
      BY <2>10 DEF HookEnds
    <3>2. ~Working /\ ~Working'
      BY <3>1 DEF Working
    <3>3. \A f \in Files : (Told(f)' <=> Told(f)) /\ (Charged(f)' <=> Charged(f))
      BY <3>1, <3>2 DEF Told, Charged
    <3>4. QueueInv'
      BY <3>1, <3>2 DEF ReportInv, QueueInv
    <3>5. FinalInv'
      BY <3>1, <3>2, <3>3 DEF ReportInv, FinalInv
    <3> QED
      BY <3>4, <3>5 DEF ReportInv
  <2> QED
    BY <1>2, <2>2, <2>3, <2>4, <2>5, <2>6, <2>7, <2>8, <2>9, <2>10 DEF HookSteps
<1>3. UNCHANGED hookVars \/ HookSteps
  BY DEF Next, PreviewStep, EngineStep, TamperStep, ClockStep, HookStep, UserStep, vars
<1> QED
  BY <1>1, <1>2, <1>3

(***************************************************************************)
(* What the hook reports of a file that nobody has written since are the   *)
(* errors of that file as it is now, and the exit code says whether it     *)
(* reports anything (FeedbackIsFinal), for any files and any budget.       *)
(***************************************************************************)
THEOREM FeedbackStaysFinal == Spec => []FeedbackIsFinal
<1>1. ReportInv => FeedbackIsFinal
  <2> SUFFICES ASSUME ReportInv, hpc = "done"
               PROVE  /\ exit = 2 <=> \E f \in Files : feedback[f] # {}
                      /\ \A f \in Files : left[f] # Gone /\ tree[f] = left[f] =>
                           \/ feedback[f] = Errors(tree[f].text)
                           \/ feedback[f] = {} /\ (f \in cut \/ ~Reports(f))
    BY DEF FeedbackIsFinal
  <2>1. ~Working
    BY DEF Working
  <2> QED
    BY <2>1 DEF ReportInv, FinalInv, Told, Charged
<1> QED
  BY <1>1, SourceInit, SourceNext, ReportInit, ReportNext, PTL DEF Spec

-----------------------------------------------------------------------------
(***************************************************************************)
(* What the rules mean for a text, and what the code makes of it.  The     *)
(* first edits of a text are made last, so that each is made in a text     *)
(* that is still the old one up to its end; and all together do what is    *)
(* said by positions.                                                      *)
(***************************************************************************)

(***************************************************************************)
(* Sets of natural numbers, and functions that go on from one number to    *)
(* the next: the prover has no induction over operators, and here it is    *)
(* over the members of a set.                                              *)
(***************************************************************************)
LEMMA LeastNatural ==
  ASSUME NEW T \in SUBSET Nat, T # {}
  PROVE  \E n \in T : \A m \in T : n <= m
<1>. DEFINE R == {ss \in Nat \X Nat : ss[1] < ss[2]}
<1>1. IsWellFoundedOn(R, Nat)
  BY NatLessThanWellFounded DEF OpToRel
<1>2. \A m, n \in Nat : m < n => << m, n >> \in R
  OBVIOUS
<1>. HIDE DEF R
<1>3. PICK n \in T : \A m \in T : ~(<< m, n >> \in R)
  BY <1>1, WFMin
<1>4. \A m \in T : ~(m < n)
  BY <1>2, <1>3
<1>. QED
  BY <1>3, <1>4

LEMMA Upwards ==
  ASSUME NEW n \in Nat, NEW G, 0 \in G, \A m \in 1..n : m - 1 \in G => m \in G
  PROVE  \A m \in 0..n : m \in G
<1>. DEFINE T == {m \in 0..n : m \notin G}
<1>. SUFFICES ASSUME T # {} PROVE FALSE
  OBVIOUS
<1>1. T \in SUBSET Nat
  OBVIOUS
<1>2. PICK m \in T : \A k \in T : m <= k
  BY <1>1, LeastNatural
<1>3. m \in 1..n
  BY <1>2
<1>4. m - 1 \in 0..n /\ ~(m <= m - 1)
  BY <1>3
<1>. QED
  BY <1>2, <1>3, <1>4

Iterates(f, a, n, next) == f[0] = a /\ \A i \in 1..n : f[i] = next[i][f[i - 1]]

LEMMA IterationExists ==
  ASSUME NEW X, NEW a \in X, NEW n \in Nat, NEW next \in [1..n -> [X -> X]]
  PROVE  \E f \in [0..n -> X] : Iterates(f, a, n, next)
<1>. DEFINE Upto(m, f) == f[0] = a /\ \A i \in 1..m : f[i] = next[i][f[i - 1]]
            G == {m \in 0..n : \E f \in [0..m -> X] : Upto(m, f)}
<1>1. 0 \in G
  <2>. DEFINE f == [i \in 0..0 |-> a]
  <2>1. f \in [0..0 -> X] /\ f[0] = a
    OBVIOUS
  <2>. HIDE DEF f
  <2>2. Upto(0, f)
    BY <2>1
  <2>3. 0 \in 0..n
    OBVIOUS
  <2>. QED
    BY <2>1, <2>2, <2>3
<1>2. ASSUME NEW m \in 1..n, m - 1 \in G PROVE m \in G
  <2>1. PICK f \in [0..(m - 1) -> X] : Upto(m - 1, f)
    BY <1>2
  <2>. DEFINE g == [i \in 0..m |-> IF i = m THEN next[m][f[m - 1]] ELSE f[i]]
  <2>2. m - 1 \in 0..(m - 1) /\ m \in 0..n
    OBVIOUS
  <2>3. g \in [0..m -> X]
    <3>1. next[m][f[m - 1]] \in X
      BY <2>2
    <3>2. ASSUME NEW i \in 0..m, i # m PROVE f[i] \in X
      <4>1. i \in 0..(m - 1)
        BY <3>2
      <4>. QED
        BY <4>1
    <3>. QED
      BY <3>1, <3>2
  <2>4. \A i \in 0..(m - 1) : g[i] = f[i]
    OBVIOUS
  <2>5. g[m] = next[m][f[m - 1]]
    OBVIOUS
  <2>. HIDE DEF g
  <2>6. ASSUME NEW i \in 1..m PROVE g[i] = next[i][g[i - 1]]
    <3>1. i - 1 \in 0..(m - 1) /\ (i = m \/ i \in 1..(m - 1))
      OBVIOUS
    <3>2. g[i - 1] = f[i - 1]
      BY <2>4, <3>1
    <3>3. i \in 1..(m - 1) => g[i] = f[i] /\ f[i] = next[i][f[i - 1]]
      BY <2>1, <2>4
    <3>. QED
      BY <2>5, <3>1, <3>2, <3>3
  <2>7. g[0] = a
    BY <2>1, <2>4
  <2>. QED
    BY <2>2, <2>3, <2>6, <2>7
<1>3. \A m \in 0..n : m \in G
  <2>. HIDE DEF G
  <2>. QED
    BY <1>1, <1>2, Upwards
<1>. QED
  BY <1>3 DEF Iterates

Joins(F, n, ps) ==
  /\ F[0] = << >> /\ F[n] = FlattenSeq(ps)
  /\ \A i \in 1..n : F[i] = F[i - 1] \o ps[i]

LEMMA FlattenSteps ==
  ASSUME NEW S, NEW n \in Nat, NEW ps \in [1..n -> Seq(S)]
  PROVE  \E F \in [0..n -> Seq(S)] : Joins(F, n, ps)
<1>. DEFINE next == [i \in 1..n |-> [s \in Seq(S) |-> s \o ps[i]]]
<1>1. << >> \in Seq(S)
  OBVIOUS
<1>2. \A i \in 1..n, s \in Seq(S) : next[i][s] = s \o ps[i]
  OBVIOUS
<1>3. next \in [1..n -> [Seq(S) -> Seq(S)]]
  BY ConcatProperties
<1>. HIDE DEF next
<1>4. PICK F \in [0..n -> Seq(S)] :
         F[0] = << >> /\ \A i \in 1..n : F[i] = next[i][F[i - 1]]
  <2>. DEFINE X == Seq(S)
              a == << >>
  <2>1. a \in X /\ next \in [1..n -> [X -> X]]
    BY <1>1, <1>3
  <2>. HIDE DEF X, a
  <2>2. \E f \in [0..n -> X] : Iterates(f, a, n, next)
    BY <2>1, IterationExists
  <2>. QED
    BY <2>2 DEF X, a, Iterates
<1>5. \A i \in 1..n : F[i] = F[i - 1] \o ps[i]
  <2>. TAKE i \in 1..n
  <2>1. F[i - 1] \in Seq(S)
    <3>1. i - 1 \in 0..n
      OBVIOUS
    <3>. QED
      BY <3>1
  <2>. QED
    BY <1>2, <1>4, <2>1
<1>6. Len(ps) = n
  <2>1. ps = [i \in 1..n |-> ps[i]] /\ \A i \in 1..n : ps[i] \in Seq(S)
    OBVIOUS
  <2>2. ps \in Seq(Seq(S))
    BY <2>1
  <2>3. DOMAIN ps = 1..Len(ps) /\ Len(ps) \in Nat
    BY <2>2, LenProperties
  <2>4. DOMAIN ps = 1..n
    BY <2>1
  <2>5. 1..Len(ps) = 1..n
    BY ONLY <2>3, <2>4
  <2>. DEFINE k == Len(ps)
  <2>. HIDE DEF k
  <2>6. k \in Nat /\ 1..k = 1..n
    BY <2>3, <2>5 DEF k
  <2>7. k = n
    BY ONLY n \in Nat, <2>6
  <2>. QED
    BY <2>7 DEF k
<1>7. CASE n = 0
  <2>1. ps = << >>
    BY <1>7
  <2>2. FlattenSeq(ps) = << >>
    BY <1>6, <1>7, <2>1 DEF FlattenSeq
  <2>. QED
    BY <1>4, <1>5, <1>7, <2>2 DEF Joins
<1>8. CASE n # 0
  <2>. DEFINE Law(it) == it = [i \in 1..n |-> IF i = 1 THEN ps[i] ELSE it[i - 1] \o ps[i]]
              flat == CHOOSE it : Law(it)
              G == {i \in 0..n : i # 0 => flat[i] = F[i]}
              H == [i \in 1..n |-> F[i]]
  <2>1. FlattenSeq(ps) = flat[n]
    BY <1>6, <1>8 DEF FlattenSeq
  <2>2. Law(H)
    <3>1. ASSUME NEW i \in 1..n PROVE H[i] = IF i = 1 THEN ps[i] ELSE H[i - 1] \o ps[i]
      <4>1. CASE i = 1
        <5>1. F[1] = << >> \o ps[1]
          <6>1. 1 \in 1..n /\ 1 - 1 = 0
            BY <4>1
          <6>2. F[1] = F[1 - 1] \o ps[1]
            BY <1>5, <6>1
          <6>. QED
            BY <1>4, <6>1, <6>2
        <5>2. << >> \o ps[1] = ps[1]
          <6>1. ps[1] \in Seq(S)
            BY <4>1
          <6>. QED
            BY <6>1, ConcatEmptySeq
        <5>3. H[i] = F[1]
          BY <4>1
        <5>. QED
          BY ONLY <4>1, <5>1, <5>2, <5>3
      <4>2. CASE i # 1
        <5>1. i - 1 \in 1..n
          BY <4>2
        <5>. QED
          BY <1>5, <4>2, <5>1
      <4>. QED
        BY <4>1, <4>2
    <3>. QED
      BY <3>1
  <2>3. Law(flat)
    BY <2>2
  <2>. HIDE DEF flat
  <2>4. \A i \in 1..n : flat[i] = IF i = 1 THEN ps[i] ELSE flat[i - 1] \o ps[i]
    BY <2>3
  <2>5. \A i \in 1..n : H[i] = IF i = 1 THEN ps[i] ELSE H[i - 1] \o ps[i]
    BY <2>2
  <2>6. \A i \in 1..n : H[i] = F[i]
    OBVIOUS
  <2>. HIDE DEF H
  <2>7. ASSUME NEW i \in 1..n, i - 1 \in G PROVE i \in G
    <3>1. i = 1 \/ i - 1 \in 1..n
      OBVIOUS
    <3>2. CASE i = 1
      <4>1. flat[i] = ps[i] /\ F[i] = ps[i]
        BY <2>4, <2>5, <2>6, <3>2
      <4>. QED
        BY <4>1
    <3>3. CASE i # 1
      <4>1. flat[i - 1] = F[i - 1]
        BY <2>7, <3>1, <3>3
      <4>2. flat[i] = flat[i - 1] \o ps[i]
        BY <2>4, <3>3
      <4>3. flat[i] = F[i]
        BY <1>5, <4>1, <4>2
      <4>. QED
        BY <4>3
    <3>. QED
      BY <3>2, <3>3
  <2>8. 0 \in G
    OBVIOUS
  <2>9. \A i \in 0..n : i \in G
    <3>. HIDE DEF G
    <3>. QED
      BY <2>7, <2>8, Upwards
  <2>10. flat[n] = F[n]
    BY <1>8, <2>9
  <2>. QED
    BY <1>4, <1>5, <2>1, <2>10 DEF Joins
<1>. QED
  BY <1>7, <1>8

(***************************************************************************)
(* The formatter's result is a text.                                       *)
(***************************************************************************)
LEMMA DropIsText ==
  ASSUME NEW S, NEW t \in Seq(S), NEW token
  PROVE  Drop(t, token) \in Seq(S)
<1>. DEFINE n == Len(t)
            next == [i \in 1..n |-> [s \in Seq(S) |-> IF t[i] = token THEN s ELSE Append(s, t[i])]]
            Law(it) == it = [i \in 0..n |-> IF i = 0 THEN << >>
                                ELSE IF t[i] = token THEN it[i - 1] ELSE Append(it[i - 1], t[i])]
            upTo == CHOOSE it : Law(it)
<1>1. << >> \in Seq(S) /\ n \in Nat /\ \A i \in 1..n : t[i] \in S
  BY LenProperties, ElementOfSeq
<1>2. \A i \in 1..n, s \in Seq(S) :
         next[i][s] = IF t[i] = token THEN s ELSE Append(s, t[i])
  OBVIOUS
<1>3. next \in [1..n -> [Seq(S) -> Seq(S)]]
  BY <1>1, AppendProperties
<1>4. Drop(t, token) = upTo[n]
  BY DEF Drop
<1>. HIDE DEF next, n
<1>5. PICK f \in [0..n -> Seq(S)] :
         f[0] = << >> /\ \A i \in 1..n : f[i] = next[i][f[i - 1]]
  <2>. DEFINE X == Seq(S)
              a == << >>
  <2>1. a \in X /\ next \in [1..n -> [X -> X]] /\ n \in Nat
    BY <1>1, <1>3
  <2>. HIDE DEF X, a
  <2>2. \E f \in [0..n -> X] : Iterates(f, a, n, next)
    BY <2>1, IterationExists
  <2>. QED
    BY <2>2 DEF X, a, Iterates
<1>6. ASSUME NEW i \in 0..n
      PROVE  f[i] = IF i = 0 THEN << >>
                    ELSE IF t[i] = token THEN f[i - 1] ELSE Append(f[i - 1], t[i])
  <2>1. CASE i = 0
    BY <1>5, <2>1
  <2>2. CASE i # 0
    <3>1. i \in 1..n /\ i - 1 \in 0..n
      BY <1>1, <2>2
    <3>2. f[i - 1] \in Seq(S)
      BY <3>1
    <3>. QED
      BY <1>2, <1>5, <2>2, <3>1, <3>2
  <2>. QED
    BY <2>1, <2>2
<1>7. Law(f)
  <2>1. f = [i \in 0..n |-> f[i]]
    OBVIOUS
  <2>. QED
    BY <1>6, <2>1
<1>8. Law(upTo)
  BY <1>7
<1>. HIDE DEF upTo
<1>9. \A i \in 0..n : upTo[i] = IF i = 0 THEN << >>
                        ELSE IF t[i] = token THEN upTo[i - 1] ELSE Append(upTo[i - 1], t[i])
  BY <1>8
<1>. DEFINE G == {i \in 0..n : upTo[i] \in Seq(S)}
<1>10. 0 \in G
  <2>1. 0 \in 0..n
    BY <1>1
  <2>2. upTo[0] = << >>
    BY <1>9, <2>1
  <2>. QED
    BY <1>1, <2>1, <2>2
<1>11. ASSUME NEW i \in 1..n, i - 1 \in G PROVE i \in G
  <2>1. i \in 0..n /\ i # 0 /\ upTo[i - 1] \in Seq(S) /\ t[i] \in S
    BY <1>1, <1>11
  <2>2. Append(upTo[i - 1], t[i]) \in Seq(S)
    BY <2>1, AppendProperties
  <2>. QED
    BY <1>9, <2>1, <2>2
<1>12. \A i \in 0..n : i \in G
  <2>. HIDE DEF G
  <2>. QED
    BY <1>1, <1>10, <1>11, Upwards
<1>. QED
  BY <1>1, <1>4, <1>12

(***************************************************************************)
(* Slices of texts.                                                        *)
(***************************************************************************)
LEMMA SliceType ==
  ASSUME NEW S, NEW t \in Seq(S), NEW m \in Nat, NEW n \in Nat, m <= n, n <= Len(t)
  PROVE  /\ Slice(t, m, n) \in Seq(S)
         /\ Len(Slice(t, m, n)) = n - m
         /\ \A i \in 1..(n - m) : Slice(t, m, n)[i] = t[m + i]
<1>1. Len(t) \in Nat /\ \A i \in 1..Len(t) : t[i] \in S
  BY LenProperties, ElementOfSeq
<1>2. \A i \in m + 1..n : t[i] \in S
  BY <1>1
<1>3. m + 1 \in Int /\ n \in Int
  OBVIOUS
<1>4. /\ SubSeq(t, m + 1, n) \in Seq(S)
      /\ Len(SubSeq(t, m + 1, n)) = IF m + 1 <= n THEN n - (m + 1) + 1 ELSE 0
      /\ \A i \in 1..(n - (m + 1) + 1) : SubSeq(t, m + 1, n)[i] = t[m + 1 + i - 1]
  BY <1>2, <1>3, SubSeqProperties
<1>. DEFINE s == SubSeq(t, m + 1, n)
<1>. HIDE DEF s
<1>5. Len(s) = n - m
  <2>1. Len(s) = IF m + 1 <= n THEN n - (m + 1) + 1 ELSE 0
    BY <1>4 DEF s
  <2>. DEFINE k == Len(s)
  <2>. HIDE DEF k
  <2>2. k = IF m + 1 <= n THEN n - (m + 1) + 1 ELSE 0
    BY <2>1 DEF k
  <2>3. k = n - m
    BY ONLY <2>2, m \in Nat, n \in Nat, m <= n
  <2>. QED
    BY <2>3 DEF k
<1>6. \A i \in 1..(n - m) : s[i] = t[m + i]
  BY <1>4 DEF s
<1>. QED
  BY <1>4, <1>5, <1>6 DEF s, Slice

LEMMA PrefixType ==
  ASSUME NEW S, NEW t \in Seq(S), NEW n \in Nat, n <= Len(t)
  PROVE  /\ Slice(t, 0, n) \in Seq(S)
         /\ Len(Slice(t, 0, n)) = n
         /\ \A i \in 1..n : Slice(t, 0, n)[i] = t[i]
<1>1. Len(t) \in Nat /\ \A i \in 1..Len(t) : t[i] \in S
  BY LenProperties, ElementOfSeq
<1>. DEFINE s == Slice(t, 0, n)
            k == Len(s)
<1>2. s \in Seq(S) /\ k = n - 0 /\ \A i \in 1..(n - 0) : s[i] = t[0 + i]
  <2>1. 0 \in Nat /\ 0 <= n
    OBVIOUS
  <2>. QED
    BY <2>1, SliceType, Zenon
<1>. HIDE DEF k, s
<1>3. k = n /\ 1..(n - 0) = 1..n
  BY <1>2
<1>4. \A i \in 1..n : s[i] = t[i]
  BY <1>2, <1>3
<1>. QED
  BY <1>2, <1>3, <1>4 DEF k, s

LEMMA SliceOfConcat ==
  ASSUME NEW S, NEW s \in Seq(S), NEW q \in Seq(S), NEW m \in Nat, m <= Len(s)
  PROVE  /\ Slice(s \o q, 0, m) = Slice(s, 0, m)
         /\ Slice(s \o q, m, Len(s \o q)) = Slice(s, m, Len(s)) \o q
<1>1. /\ s \o q \in Seq(S) /\ Len(s \o q) = Len(s) + Len(q) /\ Len(s) \in Nat /\ Len(q) \in Nat
      /\ \A i \in 1..Len(s) + Len(q) : (s \o q)[i] = IF i <= Len(s) THEN s[i] ELSE q[i - Len(s)]
  BY ConcatProperties, LenProperties
<1>. DEFINE k == Len(s)
            l == Len(q)
            c == s \o q
<1>. HIDE DEF k, l, c
<1>2. /\ c \in Seq(S) /\ Len(c) = k + l /\ k \in Nat /\ l \in Nat /\ m <= k
      /\ \A i \in 1..(k + l) : c[i] = IF i <= k THEN s[i] ELSE q[i - k]
  BY <1>1 DEF k, l, c
<1>3. Slice(c, 0, m) = Slice(s, 0, m)
  <2>1. Slice(c, 0, m) \in Seq(S) /\ Len(Slice(c, 0, m)) = m /\ \A i \in 1..m : Slice(c, 0, m)[i] = c[i]
    <3>1. m <= Len(c)
      BY <1>2
    <3>. QED
      BY <1>2, <3>1, PrefixType
  <2>2. Slice(s, 0, m) \in Seq(S) /\ Len(Slice(s, 0, m)) = m /\ \A i \in 1..m : Slice(s, 0, m)[i] = s[i]
    BY PrefixType
  <2>3. \A i \in 1..m : c[i] = s[i]
    BY <1>2
  <2>. QED
    BY <2>1, <2>2, <2>3, SeqEqual
<1>4. Slice(c, m, k + l) = Slice(s, m, k) \o q
  <2>. DEFINE u == Slice(c, m, k + l)
              v == Slice(s, m, k)
              w == v \o q
  <2>1. u \in Seq(S) /\ Len(u) = (k + l) - m /\ \A i \in 1..((k + l) - m) : u[i] = c[m + i]
    <3>. DEFINE n == k + l
    <3>1. c \in Seq(S) /\ n \in Nat /\ m <= n /\ n <= Len(c)
      BY <1>2
    <3>. HIDE DEF n
    <3>2. /\ Slice(c, m, n) \in Seq(S) /\ Len(Slice(c, m, n)) = n - m
          /\ \A i \in 1..(n - m) : Slice(c, m, n)[i] = c[m + i]
      BY <3>1, SliceType, Zenon
    <3>. QED
      BY <3>2 DEF n
  <2>2. v \in Seq(S) /\ Len(v) = k - m /\ \A i \in 1..(k - m) : v[i] = s[m + i]
    <3>1. k \in Nat /\ m <= k /\ k <= Len(s)
      BY <1>2 DEF k
    <3>. QED
      BY <3>1, SliceType, Zenon
  <2>. HIDE DEF u, v
  <2>3. /\ w \in Seq(S) /\ Len(w) = (k - m) + l
        /\ \A i \in 1..((k - m) + l) : w[i] = IF i <= k - m THEN v[i] ELSE q[i - (k - m)]
    <3>1. /\ w \in Seq(S) /\ Len(w) = Len(v) + l
          /\ \A i \in 1..(Len(v) + l) : w[i] = IF i <= Len(v) THEN v[i] ELSE q[i - Len(v)]
      BY <2>2, ConcatProperties DEF l
    <3>2. Len(v) = k - m
      BY <2>2
    <3>. QED
      BY <3>1, <3>2
  <2>. HIDE DEF w
  <2>4. \A i \in 1..((k + l) - m) : u[i] = w[i]
    <3>. TAKE i \in 1..((k + l) - m)
    <3>1. m + i \in 1..(k + l) /\ i \in 1..((k - m) + l)
      BY <1>2
    <3>2. CASE i <= k - m
      <4>1. u[i] = s[m + i]
        BY <1>2, <2>1, <3>1, <3>2
      <4>2. w[i] = s[m + i]
        BY <1>2, <2>2, <2>3, <3>1, <3>2
      <4>. QED
        BY <4>1, <4>2
    <3>3. CASE ~(i <= k - m)
      <4>1. u[i] = q[(m + i) - k]
        BY <1>2, <2>1, <3>1, <3>3
      <4>2. w[i] = q[i - (k - m)]
        BY <1>2, <2>3, <3>1, <3>3
      <4>3. (m + i) - k = i - (k - m)
        BY <1>2
      <4>. QED
        BY <4>1, <4>2, <4>3
    <3>. QED
      BY <3>2, <3>3
  <2>5. Len(u) = Len(w)
    BY <1>2, <2>1, <2>3
  <2>6. u = w
    BY <1>2, <2>1, <2>3, <2>4, <2>5, SeqEqual
  <2>. QED
    BY <2>6 DEF u, v, w
<1>. QED
  BY <1>2, <1>3, <1>4 DEF k, c

LEMMA SliceGrows ==
  ASSUME NEW S, NEW t \in Seq(S), NEW p \in 1..Len(t)
  PROVE  Slice(t, 0, p) = Slice(t, 0, p - 1) \o << t[p] >>
<1>1. Len(t) \in Nat
  BY LenProperties
<1>2. 1 \in 1..Len(t) /\ p \in 1..Len(t)
  BY <1>1
<1>3. SubSeq(t, 1, p) = SubSeq(t, 1, p - 1) \o << t[p] >>
  BY <1>2, SubSeqRecursiveSecond
<1>. QED
  BY <1>3 DEF Slice

LEMMA SliceOfSlice ==
  ASSUME NEW S, NEW t \in Seq(S), NEW n \in Nat, n <= Len(t), NEW m \in Nat, m <= n
  PROVE  Slice(Slice(t, 0, n), 0, m) = Slice(t, 0, m)
<1>. DEFINE u == Slice(t, 0, n)
            v == Slice(u, 0, m)
            w == Slice(t, 0, m)
<1>0. Len(t) \in Nat
  BY LenProperties
<1>1. u \in Seq(S) /\ Len(u) = n /\ \A i \in 1..n : u[i] = t[i]
  BY PrefixType
<1>. HIDE DEF u
<1>2. v \in Seq(S) /\ Len(v) = m /\ \A i \in 1..m : v[i] = u[i]
  <2>1. m <= Len(u)
    BY <1>1
  <2>. QED
    BY <1>1, <2>1, PrefixType
<1>3. w \in Seq(S) /\ Len(w) = m /\ \A i \in 1..m : w[i] = t[i]
  <2>1. m <= Len(t)
    BY <1>0
  <2>. QED
    BY <2>1, PrefixType
<1>. HIDE DEF v, w
<1>4. \A i \in 1..m : v[i] = w[i]
  <2>1. \A i \in 1..m : i \in 1..n
    OBVIOUS
  <2>. QED
    BY <1>1, <1>2, <1>3, <2>1
<1>5. v = w
  BY <1>2, <1>3, <1>4, SeqEqual
<1>. QED
  BY <1>5 DEF u, v, w

(***************************************************************************)
(* Edits that can be made in a text: they are inside of it, not empty, and *)
(* no two of them overlap.                                                 *)
(***************************************************************************)
EditFits(t, e) ==
  /\ e.first \in 0..Len(t) /\ e.last \in 0..Len(t) /\ e.first < e.last
  /\ e.by \in Seq(Tokens)

Apart(d, e) == d.last <= e.first \/ e.last <= d.first

CanBeMade(t, chosen) ==
  /\ t \in Seq(Tokens)
  /\ \A e \in chosen : EditFits(t, e)
  /\ \A d, e \in chosen : d # e => Apart(d, e)

(***************************************************************************)
(* The first of them is before all others.                                 *)
(***************************************************************************)
LEMMA TheFirstIsFirst ==
  ASSUME NEW t, NEW chosen, CanBeMade(t, chosen), chosen # {}
  PROVE  /\ FirstOf(chosen) \in chosen
         /\ \A d \in chosen \ {FirstOf(chosen)} : FirstOf(chosen).last <= d.first
<1>1. \A e \in chosen : e.first \in Nat /\ e.last \in Nat /\ e.first < e.last
  BY LenProperties DEF CanBeMade, EditFits
<1>2. \A d, e \in chosen : d # e => d.last <= e.first \/ e.last <= d.first
  BY DEF CanBeMade, Apart
<1>. DEFINE T == {e.first : e \in chosen}
<1>3. T \in SUBSET Nat /\ T # {}
  BY <1>1
<1>4. PICK n \in T : \A m \in T : n <= m
  <2>. HIDE DEF T
  <2>. QED
    BY <1>3, LeastNatural
<1>5. PICK e \in chosen : \A d \in chosen : e.first <= d.first
  BY <1>4
<1>6. \A d \in chosen \ {e} : Earlier(e, d)
  BY <1>1, <1>2, <1>5 DEF Earlier
<1>7. FirstOf(chosen) \in chosen /\ \A d \in chosen \ {FirstOf(chosen)} : Earlier(FirstOf(chosen), d)
  BY <1>6 DEF FirstOf
<1>. DEFINE c == FirstOf(chosen)
<1>. HIDE DEF c
<1>8. c \in chosen /\ \A d \in chosen \ {c} : Earlier(c, d)
  BY <1>7 DEF c
<1>9. \A d \in chosen \ {c} : c.last <= d.first
  BY <1>1, <1>2, <1>8 DEF Earlier
<1>. QED
  BY <1>8, <1>9 DEF c

LEMMA FewerCanBeMade ==
  ASSUME NEW t, NEW chosen, CanBeMade(t, chosen), NEW part \in SUBSET chosen
  PROVE  CanBeMade(t, part)
BY DEF CanBeMade

LEMMA PieceIsText ==
  ASSUME NEW t \in Seq(Tokens), NEW chosen, \A e \in chosen : e.by \in Seq(Tokens),
         NEW p \in 1..Len(t)
  PROVE  Piece(t, chosen, p) \in Seq(Tokens)
<1>1. << t[p] >> \in Seq(Tokens) /\ << >> \in Seq(Tokens)
  <2>1. t[p] \in Tokens
    BY ElementOfSeq
  <2>. QED
    BY <2>1
<1>. DEFINE at == {e \in chosen : e.first < p /\ p <= e.last}
<1>2. at # {} => (CHOOSE e \in at : TRUE) \in at
  OBVIOUS
<1>3. at # {} => (CHOOSE e \in at : TRUE).by \in Seq(Tokens)
  BY <1>2
<1>. QED
  BY <1>1, <1>3 DEF Piece

LEMMA PiecesAreText ==
  ASSUME NEW t \in Seq(Tokens), NEW chosen, \A e \in chosen : e.by \in Seq(Tokens)
  PROVE  ByPieces(t, chosen) \in Seq(Tokens)
<1>. DEFINE n == Len(t)
            ps == [p \in 1..n |-> Piece(t, chosen, p)]
<1>1. n \in Nat
  BY LenProperties
<1>2. ps \in [1..n -> Seq(Tokens)]
  BY PieceIsText
<1>3. ByPieces(t, chosen) = FlattenSeq(ps)
  BY DEF ByPieces
<1>. HIDE DEF ps, n
<1>4. PICK F \in [0..n -> Seq(Tokens)] : Joins(F, n, ps)
  BY <1>1, <1>2, FlattenSteps
<1>5. n \in 0..n
  BY <1>1
<1>. QED
  BY <1>3, <1>4, <1>5 DEF Joins

(***************************************************************************)
(* What the first edit changes of the pieces: nothing before and after it. *)
(***************************************************************************)
LEMMA PiecesOfTheFirst ==
  ASSUME NEW t, NEW chosen, CanBeMade(t, chosen), chosen # {},
         NEW e, e = FirstOf(chosen), NEW p \in 1..Len(t)
  PROVE  /\ p <= e.first => Piece(t, chosen, p) = << t[p] >>
         /\ p <= e.last => Piece(t, chosen \ {e}, p) = << t[p] >>
         /\ p > e.last => Piece(t, chosen, p) = Piece(t, chosen \ {e}, p)
         /\ p = e.first + 1 => Piece(t, chosen, p) = e.by
         /\ p > e.first + 1 /\ p <= e.last => Piece(t, chosen, p) = << >>
<1>1. \A d \in chosen : d.first \in Nat /\ d.last \in Nat /\ d.first < d.last
  BY LenProperties DEF CanBeMade, EditFits
<1>2. e \in chosen /\ \A d \in chosen \ {e} : e.last <= d.first
  BY TheFirstIsFirst
<1>3. Len(t) \in Nat
  BY LenProperties DEF CanBeMade
<1>. DEFINE at == {d \in chosen : d.first < p /\ p <= d.last}
            rest == {d \in chosen \ {e} : d.first < p /\ p <= d.last}
<1>4. p <= e.last => rest = {}
  BY <1>1, <1>2, <1>3
<1>5. p <= e.first => at = {}
  BY <1>1, <1>2, <1>3
<1>6. p > e.last => at = rest
  BY <1>1, <1>2, <1>3
<1>7. e.first < p /\ p <= e.last => at = {e}
  BY <1>1, <1>2, <1>3
<1>8. Piece(t, chosen, p) =
        IF at = {} THEN << t[p] >>
        ELSE IF \E d \in at : d.first = p - 1 THEN (CHOOSE d \in at : TRUE).by ELSE << >>
  BY DEF Piece
<1>9. Piece(t, chosen \ {e}, p) =
        IF rest = {} THEN << t[p] >>
        ELSE IF \E d \in rest : d.first = p - 1 THEN (CHOOSE d \in rest : TRUE).by ELSE << >>
  BY DEF Piece
<1>. HIDE DEF at, rest
<1>10. at = {e} => (CHOOSE d \in at : TRUE) = e
  <2>1. at = {e} => \E d \in at : TRUE
    OBVIOUS
  <2>. QED
    BY <2>1
<1>11. at = {e} => ((\E d \in at : d.first = p - 1) <=> e.first = p - 1)
  OBVIOUS
<1>12. e.first \in Nat /\ e.last \in Nat /\ e.first < e.last /\ p \in Nat
  BY <1>1, <1>2, <1>3
<1>13. p = e.first + 1 => Piece(t, chosen, p) = e.by
  <2>1. p = e.first + 1 => e.first < p /\ p <= e.last /\ e.first = p - 1
    BY <1>12
  <2>2. p = e.first + 1 => at = {e}
    BY <1>7, <2>1
  <2>3. p = e.first + 1 => at # {} /\ \E d \in at : d.first = p - 1
    BY <1>11, <2>1, <2>2
  <2>4. p = e.first + 1 => (CHOOSE d \in at : TRUE) = e
    BY <1>10, <2>2
  <2>. QED
    BY <1>8, <2>3, <2>4
<1>14. p > e.first + 1 /\ p <= e.last => Piece(t, chosen, p) = << >>
  <2>1. p > e.first + 1 /\ p <= e.last => e.first < p /\ e.first # p - 1
    BY <1>12
  <2>2. p > e.first + 1 /\ p <= e.last => at # {} /\ ~\E d \in at : d.first = p - 1
    BY <1>7, <1>11, <2>1
  <2>. QED
    BY <1>8, <2>2
<1>. QED
  BY <1>4, <1>5, <1>6, <1>8, <1>9, <1>13, <1>14

(***************************************************************************)
(* Making the first edit when all others have been made.                   *)
(***************************************************************************)
LEMMA MakeTheFirst ==
  ASSUME NEW t, NEW chosen, CanBeMade(t, chosen), chosen # {}, NEW e, e = FirstOf(chosen)
  PROVE  ByPieces(t, chosen) = Replace(ByPieces(t, chosen \ {e}), e)
<1>. DEFINE n == Len(t)
            ps == [p \in 1..n |-> Piece(t, chosen, p)]
            qs == [p \in 1..n |-> Piece(t, chosen \ {e}, p)]
<1>1. t \in Seq(Tokens) /\ n \in Nat
  BY LenProperties DEF CanBeMade
<1>2. e \in chosen /\ CanBeMade(t, chosen \ {e})
  <2>1. e \in chosen
    BY TheFirstIsFirst
  <2>2. chosen \ {e} \in SUBSET chosen
    OBVIOUS
  <2>. QED
    BY <2>1, <2>2, FewerCanBeMade
<1>3. ps \in [1..n -> Seq(Tokens)] /\ qs \in [1..n -> Seq(Tokens)]
  <2>1. (\A d \in chosen : d.by \in Seq(Tokens)) /\ (\A d \in chosen \ {e} : d.by \in Seq(Tokens))
    BY DEF CanBeMade, EditFits
  <2>. QED
    BY <1>1, <2>1, PieceIsText
<1>4. ByPieces(t, chosen) = FlattenSeq(ps) /\ ByPieces(t, chosen \ {e}) = FlattenSeq(qs)
  BY DEF ByPieces
<1>5. \A p \in 1..n :
        /\ p <= e.first => ps[p] = << t[p] >>
        /\ p <= e.last => qs[p] = << t[p] >>
        /\ p > e.last => ps[p] = qs[p]
        /\ p = e.first + 1 => ps[p] = e.by
        /\ p > e.first + 1 /\ p <= e.last => ps[p] = << >>
  <2>. TAKE p \in 1..n
  <2>1. ps[p] = Piece(t, chosen, p) /\ qs[p] = Piece(t, chosen \ {e}, p)
    OBVIOUS
  <2>. HIDE DEF ps, qs
  <2>. QED
    BY <2>1, PiecesOfTheFirst
<1>6. e.first \in 0..n /\ e.last \in 0..n /\ e.first < e.last /\ e.by \in Seq(Tokens)
  BY <1>2 DEF CanBeMade, EditFits
<1>. HIDE DEF ps, qs, n
<1>7. PICK F \in [0..n -> Seq(Tokens)] :
        F[0] = << >> /\ F[n] = FlattenSeq(ps) /\ \A i \in 1..n : F[i] = F[i - 1] \o ps[i]
  <2>1. \E f \in [0..n -> Seq(Tokens)] : Joins(f, n, ps)
    BY <1>1, <1>3, FlattenSteps
  <2>. QED
    BY <2>1 DEF Joins
<1>8. PICK H \in [0..n -> Seq(Tokens)] :
        H[0] = << >> /\ H[n] = FlattenSeq(qs) /\ \A i \in 1..n : H[i] = H[i - 1] \o qs[i]
  <2>1. \E f \in [0..n -> Seq(Tokens)] : Joins(f, n, qs)
    BY <1>1, <1>3, FlattenSteps
  <2>. QED
    BY <2>1 DEF Joins
<1>9. \A i \in 1..n : i - 1 \in 0..n /\ F[i - 1] \in Seq(Tokens) /\ H[i - 1] \in Seq(Tokens)
  <2>1. \A i \in 1..n : i - 1 \in 0..n
    BY <1>1
  <2>. QED
    BY <2>1
<1>10. \A p \in 0..n : Slice(t, 0, p) \in Seq(Tokens) /\ Len(Slice(t, 0, p)) = p
  <2>. TAKE p \in 0..n
  <2>1. p \in Nat /\ p <= Len(t)
    BY <1>1 DEF n
  <2>. QED
    BY <1>1, <2>1, PrefixType
<1>11. \A p \in 1..n : Slice(t, 0, p) = Slice(t, 0, p - 1) \o << t[p] >>
  BY <1>1, SliceGrows DEF n
<1>12. Slice(t, 0, 0) = << >>
  BY SubSeqEmpty DEF Slice
<1>13. \A p \in 0..n : p <= e.last => H[p] = Slice(t, 0, p)
  <2>. DEFINE G == {p \in 0..n : p <= e.last => H[p] = Slice(t, 0, p)}
  <2>1. 0 \in G
    BY <1>1, <1>8, <1>12
  <2>2. ASSUME NEW p \in 1..n, p - 1 \in G PROVE p \in G
    <3>0. p \in 0..n /\ p \in Nat
      BY <1>1
    <3>1. CASE p <= e.last
      <4>1. H[p - 1] = Slice(t, 0, p - 1)
        BY <1>6, <2>2, <3>1
      <4>2. H[p] = Slice(t, 0, p - 1) \o << t[p] >>
        BY <1>5, <1>8, <3>1, <4>1
      <4>. QED
        BY <3>0, <1>11, <4>2
    <3>2. CASE ~(p <= e.last)
      BY <1>1, <3>2
    <3>. QED
      BY <3>1, <3>2
  <2>3. \A p \in 0..n : p \in G
    <3>. HIDE DEF G
    <3>. QED
      BY <1>1, <2>1, <2>2, Upwards
  <2>. QED
    BY <2>3
<1>14. \A p \in 0..n : p <= e.first => F[p] = Slice(t, 0, p)
  <2>. DEFINE G == {p \in 0..n : p <= e.first => F[p] = Slice(t, 0, p)}
  <2>1. 0 \in G
    BY <1>1, <1>7, <1>12
  <2>2. ASSUME NEW p \in 1..n, p - 1 \in G PROVE p \in G
    <3>0. p \in 0..n /\ p \in Nat
      BY <1>1
    <3>1. CASE p <= e.first
      <4>1. F[p - 1] = Slice(t, 0, p - 1)
        BY <1>6, <2>2, <3>1
      <4>2. F[p] = Slice(t, 0, p - 1) \o << t[p] >>
        BY <1>5, <1>7, <3>1, <4>1
      <4>. QED
        BY <3>0, <1>11, <4>2
    <3>2. CASE ~(p <= e.first)
      BY <1>1, <3>2
    <3>. QED
      BY <3>1, <3>2
  <2>3. \A p \in 0..n : p \in G
    <3>. HIDE DEF G
    <3>. QED
      BY <1>1, <2>1, <2>2, Upwards
  <2>. QED
    BY <2>3
<1>. DEFINE made == Slice(t, 0, e.first) \o e.by
<1>15. made \in Seq(Tokens)
  BY <1>6, <1>10, ConcatProperties
<1>. HIDE DEF made
<1>16. \A p \in 0..n : e.first < p /\ p <= e.last => F[p] = made
  <2>. DEFINE G == {p \in 0..n : e.first < p /\ p <= e.last => F[p] = made}
  <2>1. 0 \in G
    BY <1>1, <1>6
  <2>2. ASSUME NEW p \in 1..n, p - 1 \in G PROVE p \in G
    <3>0. p \in 0..n /\ p \in Nat
      BY <1>1
    <3>1. CASE p = e.first + 1
      <4>1. p - 1 = e.first
        BY <1>6, <3>1
      <4>2. F[p - 1] = Slice(t, 0, e.first)
        BY <1>6, <1>14, <4>1
      <4>3. F[p] = F[p - 1] \o ps[p] /\ ps[p] = e.by
        BY <1>5, <1>7, <3>1
      <4>. QED
        BY <3>0, <4>2, <4>3 DEF made
    <3>2. CASE p > e.first + 1 /\ p <= e.last
      <4>1. F[p - 1] = made
        BY <1>6, <2>2, <3>2
      <4>2. F[p] = made \o << >>
        BY <1>5, <1>7, <3>2, <4>1
      <4>3. made \o << >> = made
        BY <1>15, ConcatEmptySeq
      <4>. QED
        BY <3>0, <4>2, <4>3
    <3>3. CASE ~(e.first < p /\ p <= e.last)
      BY <1>1, <3>3
    <3>. QED
      BY <1>6, <3>0, <3>1, <3>2, <3>3
  <2>3. \A p \in 0..n : p \in G
    <3>. HIDE DEF G
    <3>. QED
      BY <1>1, <2>1, <2>2, Upwards
  <2>. QED
    BY <2>3
<1>17. \A p \in 0..n : p >= e.last => Len(H[p]) >= e.last /\ F[p] = Replace(H[p], e)
  <2>. DEFINE G == {p \in 0..n : p >= e.last => Len(H[p]) >= e.last /\ F[p] = Replace(H[p], e)}
  <2>1. 0 \in G
    BY <1>1, <1>6
  <2>2. ASSUME NEW p \in 1..n, p - 1 \in G PROVE p \in G
    <3>0. p \in 0..n /\ p \in Nat
      BY <1>1
    <3>1. CASE p = e.last
      <4>1. H[p] = Slice(t, 0, p) /\ Len(H[p]) = p
        BY <1>10, <1>13, <3>0, <3>1
      <4>2. Slice(H[p], 0, e.first) = Slice(t, 0, e.first)
        <5>1. p \in Nat /\ p <= Len(t) /\ e.first \in Nat /\ e.first <= p
          BY <1>6, <3>1 DEF n
        <5>. QED
          BY <1>1, <4>1, <5>1, SliceOfSlice
      <4>3. Slice(H[p], e.last, Len(H[p])) = << >>
        <5>1. p \in Int /\ p + 1 \in Int /\ p < p + 1
          OBVIOUS
        <5>2. SubSeq(H[p], p + 1, p) = << >>
          BY <5>1, SubSeqEmpty
        <5>. QED
          BY <3>1, <4>1, <5>2 DEF Slice
      <4>4. Replace(H[p], e) = made \o << >>
        BY <4>2, <4>3 DEF Replace, made
      <4>5. made \o << >> = made
        BY <1>15, ConcatEmptySeq
      <4>6. F[p] = made
        BY <1>6, <1>16, <3>1
      <4>. QED
        BY <3>0, <3>1, <4>1, <4>4, <4>5, <4>6
    <3>2. CASE p > e.last
      <4>1. Len(H[p - 1]) >= e.last /\ F[p - 1] = Replace(H[p - 1], e)
        BY <1>6, <2>2, <3>2
      <4>. DEFINE h == H[p - 1]
                  q == qs[p]
      <4>2. F[p] = Replace(h, e) \o q /\ H[p] = h \o q
        BY <1>5, <1>7, <1>8, <3>2, <4>1
      <4>3. h \in Seq(Tokens) /\ q \in Seq(Tokens) /\ Len(h) >= e.last /\ Len(h) \in Nat
        BY <1>3, <1>9, <4>1, LenProperties
      <4>. HIDE DEF h, q
      <4>4. Len(h \o q) >= e.last
        <5>1. Len(h \o q) = Len(h) + Len(q) /\ Len(q) \in Nat
          BY <4>3, ConcatProperties, LenProperties
        <5>. QED
          BY <1>6, <4>3, <5>1
      <4>5. Slice(h \o q, 0, e.first) = Slice(h, 0, e.first)
        <5>1. e.first \in Nat /\ e.first <= Len(h)
          BY <1>6, <4>3
        <5>. QED
          BY <4>3, <5>1, SliceOfConcat
      <4>6. Slice(h \o q, e.last, Len(h \o q)) = Slice(h, e.last, Len(h)) \o q
        <5>1. e.last \in Nat /\ e.last <= Len(h)
          BY <1>6, <4>3
        <5>. QED
          BY <4>3, <5>1, SliceOfConcat
      <4>. DEFINE a == Slice(h, 0, e.first) \o e.by
                  b == Slice(h, e.last, Len(h))
      <4>7. Replace(h, e) = a \o b /\ Replace(h \o q, e) = a \o (b \o q)
        BY <4>5, <4>6 DEF Replace
      <4>8. a \in Seq(Tokens)
        <5>1. e.first \in Nat /\ e.first <= Len(h)
          BY <1>6, <4>3
        <5>2. Slice(h, 0, e.first) \in Seq(Tokens)
          BY <4>3, <5>1, PrefixType
        <5>. QED
          BY <1>6, <5>2, ConcatProperties
      <4>9. b \in Seq(Tokens)
        <5>1. e.last \in Nat /\ e.last <= Len(h) /\ Len(h) <= Len(h)
          BY <1>6, <4>3
        <5>. QED
          BY <4>3, <5>1, SliceType
      <4>. HIDE DEF a, b
      <4>10. (a \o b) \o q = a \o (b \o q)
        BY <4>3, <4>8, <4>9, ConcatAssociative
      <4>11. F[p] = Replace(H[p], e)
        BY <4>2, <4>7, <4>10
      <4>. QED
        BY <3>0, <4>2, <4>4, <4>11
    <3>3. CASE p < e.last
      BY <1>1, <1>6, <3>3
    <3>. QED
      BY <1>6, <3>0, <3>1, <3>2, <3>3
  <2>3. \A p \in 0..n : p \in G
    <3>. HIDE DEF G
    <3>. QED
      BY <1>1, <2>1, <2>2, Upwards
  <2>. QED
    BY <2>3
<1>18. n \in 0..n /\ n >= e.last
  BY <1>1, <1>6
<1>19. F[n] = Replace(H[n], e)
  BY <1>17, <1>18
<1>. QED
  BY <1>4, <1>7, <1>8, <1>19

LEMMA EditsAreFinite ==
  ASSUME NEW t, NEW chosen, CanBeMade(t, chosen)
  PROVE  IsFiniteSet(chosen)
<1>. DEFINE T == 0..Len(t)
            g == [e \in chosen |-> e.first]
<1>1. Len(t) \in Nat
  BY LenProperties DEF CanBeMade
<1>2. IsFiniteSet(T)
  <2>1. 0 \in Int /\ Len(t) \in Int
    BY <1>1
  <2>. QED
    BY <2>1, FS_Interval
<1>3. g \in [chosen -> T]
  BY DEF CanBeMade, EditFits
<1>4. \A d, e \in chosen : g[d] = g[e] => d = e
  <2>1. \A d \in chosen : g[d] = d.first /\ d.first \in Nat /\ d.last \in Nat /\ d.first < d.last
    BY <1>1 DEF CanBeMade, EditFits
  <2>2. \A d, e \in chosen : d # e => d.last <= e.first \/ e.last <= d.first
    BY DEF CanBeMade, Apart
  <2>. HIDE DEF g
  <2>. QED
    BY <2>1, <2>2
<1>. HIDE DEF g, T
<1>5. g \in Injection(chosen, T)
  BY <1>3, <1>4 DEF Injection, IsInjective
<1>. QED
  BY <1>2, <1>5, FS_Injection

LEMMA NothingToMake ==
  ASSUME NEW t \in Seq(Tokens)
  PROVE  ByPieces(t, {}) = t
<1>. DEFINE n == Len(t)
            ps == [p \in 1..n |-> Piece(t, {}, p)]
<1>1. n \in Nat /\ \A p \in 1..n : t[p] \in Tokens
  BY LenProperties, ElementOfSeq
<1>2. \A p \in 1..n : ps[p] = << t[p] >>
  BY DEF Piece
<1>3. ps \in [1..n -> Seq(Tokens)]
  <2>1. \A p \in 1..n : << t[p] >> \in Seq(Tokens)
    BY <1>1
  <2>. QED
    BY <2>1 DEF Piece
<1>4. ByPieces(t, {}) = FlattenSeq(ps)
  BY DEF ByPieces
<1>5. \A p \in 1..n : Slice(t, 0, p) = Slice(t, 0, p - 1) \o << t[p] >>
  BY SliceGrows
<1>6. Slice(t, 0, 0) = << >> /\ Slice(t, 0, n) = t
  BY SubSeqEmpty, SubSeqFull DEF Slice
<1>. HIDE DEF ps, n
<1>7. PICK F \in [0..n -> Seq(Tokens)] : Joins(F, n, ps)
  BY <1>1, <1>3, FlattenSteps
<1>. DEFINE G == {p \in 0..n : F[p] = Slice(t, 0, p)}
<1>8. 0 \in G
  BY <1>1, <1>6, <1>7 DEF Joins
<1>9. ASSUME NEW p \in 1..n, p - 1 \in G PROVE p \in G
  <2>1. p \in 0..n
    BY <1>1
  <2>2. F[p] = Slice(t, 0, p - 1) \o << t[p] >>
    BY <1>2, <1>7, <1>9 DEF Joins
  <2>. QED
    BY <1>5, <2>1, <2>2
<1>10. \A p \in 0..n : p \in G
  <2>. HIDE DEF G
  <2>. QED
    BY <1>1, <1>8, <1>9, Upwards
<1>11. n \in 0..n
  BY <1>1
<1>. QED
  BY <1>4, <1>6, <1>7, <1>10, <1>11 DEF Joins

(***************************************************************************)
(* Induction over the parts of a finite set.                               *)
(***************************************************************************)
LEMMA AlongTheSet ==
  ASSUME NEW S, IsFiniteSet(S), NEW Q, {} \in Q,
         \A T \in SUBSET S : T # {} /\ (\A x \in T : T \ {x} \in Q) => T \in Q
  PROVE  \A T \in SUBSET S : T \in Q
<1> DEFINE bad == {T \in SUBSET S : T \notin Q}
           R == StrictSubsetOrdering(S)
<1>1. SUFFICES ASSUME bad # {}
               PROVE  FALSE
  OBVIOUS
<1>2. FiniteSubsetsOf(S) = SUBSET S
  BY FS_FiniteSubsetsOfFinite
<1>3. PICK T \in bad : \A U \in bad : ~(<<U, T>> \in R)
  <2>1. IsWellFoundedOn(R, SUBSET S)
    BY <1>2, FS_StrictSubsetOrderingWellFounded
  <2>2. bad \subseteq SUBSET S
    OBVIOUS
  <2>. HIDE DEF bad, R
  <2>. QED
    BY <1>1, <2>1, <2>2, WFMin
<1>4. ASSUME NEW x \in T
      PROVE  T \ {x} \in Q
  <2>1. <<T \ {x}, T>> \in R
    BY <1>3, <1>4 DEF StrictSubsetOrdering
  <2>. QED
    BY <1>3, <2>1
<1>. QED
  BY <1>3, <1>4

(***************************************************************************)
(* apply_edits, from the last edit to the first, makes them all at once.   *)
(***************************************************************************)
LEMMA AppliedByPieces ==
  ASSUME NEW t, NEW chosen, CanBeMade(t, chosen)
  PROVE  ApplyEdits(t, chosen) = ByPieces(t, chosen)
<1>. DEFINE Law(it) == it = [s \in SUBSET chosen |->
                              IF s = {} THEN t ELSE Replace(it[s \ {FirstOf(s)}], FirstOf(s))]
            fold == CHOOSE it : Law(it)
            all == [s \in SUBSET chosen |-> ByPieces(t, s)]
<1>1. ApplyEdits(t, chosen) = fold[chosen]
  BY DEF ApplyEdits, MapThenFoldSet
<1>2. ASSUME NEW s \in SUBSET chosen, s # {}
      PROVE  /\ FirstOf(s) \in s /\ s \ {FirstOf(s)} \in SUBSET chosen
             /\ ByPieces(t, s) = Replace(ByPieces(t, s \ {FirstOf(s)}), FirstOf(s))
  <2>1. CanBeMade(t, s)
    BY FewerCanBeMade
  <2>2. FirstOf(s) \in s
    BY <1>2, <2>1, TheFirstIsFirst
  <2>3. ByPieces(t, s) = Replace(ByPieces(t, s \ {FirstOf(s)}), FirstOf(s))
    BY <1>2, <2>1, MakeTheFirst
  <2>. QED
    BY <2>2, <2>3
<1>3. ByPieces(t, {}) = t
  BY NothingToMake DEF CanBeMade
<1>4. ASSUME NEW s \in SUBSET chosen
      PROVE  all[s] = IF s = {} THEN t ELSE Replace(all[s \ {FirstOf(s)}], FirstOf(s))
  <2>1. CASE s = {}
    BY <1>3, <2>1
  <2>2. CASE s # {}
    <3>1. all[s] = ByPieces(t, s) /\ all[s \ {FirstOf(s)}] = ByPieces(t, s \ {FirstOf(s)})
      BY <1>2, <2>2
    <3>. QED
      BY <1>2, <2>2, <3>1
  <2>. QED
    BY <2>1, <2>2
<1>5. Law(all)
  BY <1>4
<1>6. Law(fold)
  BY <1>5
<1>. HIDE DEF fold, all
<1>7. \A s \in SUBSET chosen :
        fold[s] = IF s = {} THEN t ELSE Replace(fold[s \ {FirstOf(s)}], FirstOf(s))
  BY <1>6
<1>. DEFINE Q == {s \in SUBSET chosen : fold[s] = ByPieces(t, s)}
<1>8. {} \in Q
  BY <1>3, <1>7
<1>9. ASSUME NEW s \in SUBSET chosen, s # {}, \A x \in s : s \ {x} \in Q
      PROVE  s \in Q
  <2>1. FirstOf(s) \in s
    BY <1>2, <1>9
  <2>2. fold[s \ {FirstOf(s)}] = ByPieces(t, s \ {FirstOf(s)})
    BY <1>9, <2>1
  <2>3. fold[s] = Replace(ByPieces(t, s \ {FirstOf(s)}), FirstOf(s))
    BY <1>7, <1>9, <2>2
  <2>. QED
    BY <1>2, <1>9, <2>3
<1>10. \A s \in SUBSET chosen : s \in Q
  <2>. HIDE DEF Q
  <2>1. IsFiniteSet(chosen)
    BY EditsAreFinite
  <2>. QED
    BY <1>8, <1>9, <2>1, AlongTheSet
<1>. QED
  BY <1>1, <1>10

RulesFit(rs) ==
  \A id \in DOMAIN rs :
    /\ rs[id].pattern \in Seq(Tokens) \ {<< >>}
    /\ rs[id].fix \in Seq(Tokens) \cup {NoFix}

LEMMA PlacesFit ==
  ASSUME NEW rs, RulesFit(rs), NEW t \in Seq(Tokens), NEW e \in Places(rs, t)
  PROVE  EditFits(t, e)
<1>1. PICK id \in DOMAIN rs : \E low \in Occurrences(t, rs[id].pattern) :
         e = [first |-> low, last |-> low + Len(rs[id].pattern), id |-> id, by |-> rs[id].fix]
  BY DEF Places
<1>0. PICK low \in Occurrences(t, rs[id].pattern) :
         e = [first |-> low, last |-> low + Len(rs[id].pattern), id |-> id, by |-> rs[id].fix]
  BY <1>1
<1>2. e.by # NoFix
  BY DEF Places
<1>. DEFINE n == Len(rs[id].pattern)
<1>3. n \in Nat /\ n > 0
  <2>1. rs[id].pattern \in Seq(Tokens) /\ rs[id].pattern # << >>
    BY DEF RulesFit
  <2>2. n \in Nat \ {0}
    BY <2>1, EmptySeq
  <2>. QED
    BY <2>2
<1>4. low \in 0..Len(t) /\ low + n <= Len(t)
  BY DEF Occurrences
<1>5. Len(t) \in Nat
  BY LenProperties
<1>6. e.first = low /\ e.last = low + n /\ e.by = rs[id].fix
  BY <1>0
<1>7. rs[id].fix \in Seq(Tokens) \cup {NoFix}
  BY DEF RulesFit
<1>. HIDE DEF n
<1>8. e.first \in 0..Len(t) /\ e.last \in 0..Len(t) /\ e.first < e.last
  BY <1>3, <1>4, <1>5, <1>6
<1>. QED
  BY <1>2, <1>6, <1>7, <1>8 DEF EditFits

LEMMA MeantIsText ==
  ASSUME NEW rs, RulesFit(rs), NEW t \in Seq(Tokens)
  PROVE  Meant(rs, t) \in Seq(Tokens)
<1>1. \A e \in Largest(Places(rs, t)) : e.by \in Seq(Tokens)
  BY PlacesFit DEF Largest, EditFits
<1>. QED
  BY <1>1, PiecesAreText DEF Meant

(***************************************************************************)
(* Without ambiguity the outermost edits are the largest, and they can all *)
(* be made.                                                                *)
(***************************************************************************)
LEMMA OutermostAreLargest ==
  ASSUME NEW t \in Seq(Tokens), NEW places, \A e \in places : EditFits(t, e), ~Ambiguous(places)
  PROVE  Outermost(places) = Largest(places) /\ CanBeMade(t, Outermost(places))
<1>1. \A e \in places : e.first \in Nat /\ e.last \in Nat /\ e.first < e.last
  BY LenProperties DEF EditFits
<1>2. \A d, e \in places : d # e => ~SameRange(d, e)
  BY DEF Ambiguous
<1>3. \A d, e \in places : Earlier(d, e) /\ e.first < d.last => d.last >= e.last
  BY <1>1 DEF Ambiguous
<1>4. \A d, e \in places : d # e => Earlier(d, e) \/ Earlier(e, d)
  BY <1>1, <1>2 DEF Earlier, SameRange
<1>5. ASSUME NEW e \in Outermost(places) PROVE e \in Largest(places)
  <2>1. e \in places /\ \A d \in places : Earlier(d, e) => d.last <= e.first
    BY DEF Outermost
  <2>2. ASSUME NEW d \in places, d # e, d.first <= e.first, e.last <= d.last PROVE FALSE
    <3>1. Earlier(d, e)
      BY <1>1, <1>2, <2>1, <2>2 DEF Earlier, SameRange
    <3>2. d.last <= e.first
      BY <2>1, <3>1
    <3>. QED
      BY <1>1, <2>1, <2>2, <3>2
  <2>. QED
    BY <2>1, <2>2 DEF Largest
<1>6. ASSUME NEW e \in Largest(places) PROVE e \in Outermost(places)
  <2>1. e \in places /\ \A d \in places : ~(d # e /\ d.first <= e.first /\ e.last <= d.last)
    BY DEF Largest
  <2>2. ASSUME NEW d \in places, Earlier(d, e), ~(d.last <= e.first) PROVE FALSE
    <3>1. d.last >= e.last /\ d.first <= e.first /\ d # e
      BY <1>1, <1>3, <2>1, <2>2 DEF Earlier
    <3>. QED
      BY <1>1, <2>1, <3>1
  <2>. QED
    BY <2>1, <2>2 DEF Outermost
<1>7. \A d, e \in Outermost(places) : d # e => Apart(d, e)
  BY <1>4 DEF Outermost, Apart
<1>8. CanBeMade(t, Outermost(places))
  BY <1>7 DEF CanBeMade, Outermost
<1>. QED
  BY <1>5, <1>6, <1>8

-----------------------------------------------------------------------------
(***************************************************************************)
(* The rows of a scan.  Those that the engine should report of some texts, *)
(* and what the edits of these rows are.                                   *)
(***************************************************************************)
RowsOfAll(rs, texts) == UNION {RowsOf(rs, f, texts[f]) : f \in DOMAIN texts}

LEMMA EditsAreThePlaces ==
  ASSUME NEW rs, NEW texts, NEW f \in DOMAIN texts
  PROVE  EditsFor(RowsOfAll(rs, texts), f) = Places(rs, texts[f])
<1>. DEFINE t == texts[f]
            edit(id, low) == [first |-> low, last |-> low + Len(rs[id].pattern), id |-> id, by |-> rs[id].fix]
<1>1. ASSUME NEW e \in EditsFor(RowsOfAll(rs, texts), f) PROVE e \in Places(rs, t)
  <2>1. PICK r \in RowsOfAll(rs, texts) :
           r.file = f /\ r.fix # NoFix /\ e = [first |-> r.low, last |-> r.high, id |-> r.id, by |-> r.fix]
    BY DEF EditsFor
  <2>2. PICK g \in DOMAIN texts : r \in RowsOf(rs, g, texts[g])
    BY DEF RowsOfAll
  <2>3. PICK id \in DOMAIN rs : \E low \in Occurrences(texts[g], rs[id].pattern) :
         r = Row(g, low, low + Len(rs[id].pattern), rs[id].pattern, id, rs[id].fix)
    BY <2>2 DEF RowsOf
  <2>4. PICK low \in Occurrences(texts[g], rs[id].pattern) :
           r = Row(g, low, low + Len(rs[id].pattern), rs[id].pattern, id, rs[id].fix)
    BY <2>3
  <2>5. g = f /\ e = edit(id, low) /\ rs[id].fix # NoFix
    BY <2>1, <2>4 DEF Row
  <2>. QED
    BY <2>4, <2>5 DEF Places
<1>2. ASSUME NEW e \in Places(rs, t) PROVE e \in EditsFor(RowsOfAll(rs, texts), f)
  <2>1. PICK id \in DOMAIN rs : \E low \in Occurrences(t, rs[id].pattern) : e = edit(id, low)
    BY DEF Places
  <2>0. PICK low \in Occurrences(t, rs[id].pattern) : e = edit(id, low)
    BY <2>1
  <2>2. e.by # NoFix
    BY DEF Places
  <2>3. PICK r : r = Row(f, low, low + Len(rs[id].pattern), rs[id].pattern, id, rs[id].fix)
    OBVIOUS
  <2>4. r \in RowsOf(rs, f, t)
    BY <2>3 DEF RowsOf
  <2>5. r \in RowsOfAll(rs, texts)
    BY <2>4 DEF RowsOfAll
  <2>6. r.file = f /\ r.fix # NoFix /\ e = [first |-> r.low, last |-> r.high, id |-> r.id, by |-> r.fix]
    BY <2>0, <2>2, <2>3 DEF Row
  <2>. QED
    BY <2>5, <2>6 DEF EditsFor
<1>. QED
  BY <1>1, <1>2

(***************************************************************************)
(* A row that has been moved is not sound, unless it is one of those that  *)
(* should be reported.                                                     *)
(***************************************************************************)
LEMMA MovedRowsAreNotSound ==
  ASSUME NEW rs, RulesFit(rs), NEW D, NEW texts \in [D -> Seq(Tokens)],
         NEW r \in RowsOfAll(rs, texts), Sound(Shifted(r), texts, rs)
  PROVE  Shifted(r) \in RowsOfAll(rs, texts)
<1>1. PICK g \in D : r \in RowsOf(rs, g, texts[g])
  BY DEF RowsOfAll
<1>2. PICK id \in DOMAIN rs : \E low \in Occurrences(texts[g], rs[id].pattern) :
         r = Row(g, low, low + Len(rs[id].pattern), rs[id].pattern, id, rs[id].fix)
  BY <1>1 DEF RowsOf
<1>0. PICK low \in Occurrences(texts[g], rs[id].pattern) :
         r = Row(g, low, low + Len(rs[id].pattern), rs[id].pattern, id, rs[id].fix)
  BY <1>2
<1>. DEFINE t == texts[g]
            pattern == rs[id].pattern
            n == Len(pattern)
<1>3. t \in Seq(Tokens) /\ pattern \in Seq(Tokens) /\ n \in Nat /\ Len(t) \in Nat
  BY LenProperties DEF RulesFit
<1>4. low \in 0..Len(t)
  BY DEF Occurrences
<1>. HIDE DEF t, pattern, n
<1>5. r = Row(g, low, low + n, pattern, id, rs[id].fix)
  BY <1>0 DEF n, pattern
<1>6. Shifted(r) = Row(g, low + 1, low + n + 1, pattern, id, rs[id].fix)
  <2>1. r = [file |-> g, low |-> low, high |-> low + n, text |-> pattern, id |-> id, fix |-> rs[id].fix]
    BY <1>5 DEF Row
  <2>2. Shifted(r) = [r EXCEPT !.low = low + 1, !.high = (low + n) + 1]
    BY <2>1 DEF Shifted
  <2>. DEFINE a == low + 1
              b == (low + n) + 1
              c == low + n
              x == rs[id].fix
  <2>3. r = [file |-> g, low |-> low, high |-> c, text |-> pattern, id |-> id, fix |-> x]
    BY <2>1
  <2>4. Shifted(r) = [r EXCEPT !.low = a, !.high = b]
    BY <2>2
  <2>. HIDE DEF a, b, c, x
  <2>5. Shifted(r) = [file |-> g, low |-> a, high |-> b, text |-> pattern, id |-> id, fix |-> x]
    BY ONLY <2>3, <2>4
  <2>. QED
    BY <2>5 DEF a, b, x, Row
<1>7. low + n + 1 <= Len(t) /\ pattern = Slice(t, low + 1, low + n + 1)
  <2>. DEFINE q == Shifted(r)
  <2>1. q.high <= Len(texts[q.file]) /\ q.text = Slice(texts[q.file], q.low, q.high)
    BY DEF Sound
  <2>2. q.high = low + n + 1 /\ q.low = low + 1 /\ q.file = g /\ q.text = pattern
    BY <1>6 DEF Row
  <2>. HIDE DEF q
  <2>. QED
    BY <2>1, <2>2 DEF t
<1>8. low + n + 1 = (low + 1) + n /\ low + 1 \in 0..Len(t)
  BY <1>3, <1>4, <1>7
<1>9. low + 1 \in Occurrences(t, pattern)
  BY <1>7, <1>8 DEF Occurrences, n
<1>10. Shifted(r) \in RowsOf(rs, g, t)
  BY <1>6, <1>8, <1>9 DEF RowsOf, n, pattern
<1>. QED
  BY <1>10 DEF RowsOfAll, t

(***************************************************************************)
(* What the code makes of rows that it accepts is what the rules mean.     *)
(***************************************************************************)
LEMMA AcceptedIsMeant ==
  ASSUME NEW rs, RulesFit(rs), NEW D, NEW texts \in [D -> Seq(Tokens)],
         NEW f \in D, ~Ambiguous(EditsFor(RowsOfAll(rs, texts), f))
  PROVE  ApplyEdits(texts[f], Outermost(EditsFor(RowsOfAll(rs, texts), f))) = Meant(rs, texts[f])
<1>. DEFINE t == texts[f]
            places == Places(rs, t)
<1>1. t \in Seq(Tokens)
  OBVIOUS
<1>2. EditsFor(RowsOfAll(rs, texts), f) = places
  BY EditsAreThePlaces
<1>3. \A e \in places : EditFits(t, e)
  BY <1>1, PlacesFit
<1>4. Outermost(places) = Largest(places) /\ CanBeMade(t, Outermost(places))
  <2>. HIDE DEF places, t
  <2>. QED
    BY <1>1, <1>2, <1>3, OutermostAreLargest
<1>5. ApplyEdits(t, Outermost(places)) = ByPieces(t, Outermost(places))
  BY <1>4, AppliedByPieces
<1>. QED
  BY <1>2, <1>4, <1>5 DEF Meant

(***************************************************************************)
(* What the rewritings lead to, one after the other.                       *)
(***************************************************************************)
LEMMA OrbitSteps ==
  ASSUME NEW rs, RulesFit(rs), NEW D, NEW start \in [D -> Seq(Tokens)]
  PROVE  /\ Orbit(rs, start)[0] = start
         /\ \A n \in 0..MaxPasses : Orbit(rs, start)[n] \in [D -> Seq(Tokens)]
         /\ \A n \in 1..MaxPasses :
              Orbit(rs, start)[n] = [f \in D |-> Meant(rs, Orbit(rs, start)[n - 1][f])]
<1>. DEFINE X == [D -> Seq(Tokens)]
            step1 == [x \in X |-> [f \in D |-> Meant(rs, x[f])]]
            next == [i \in 1..MaxPasses |-> step1]
            Law(it) == it = [n \in 0..MaxPasses |-> IF n = 0 THEN start
                                 ELSE [f \in DOMAIN start |-> Meant(rs, it[n - 1][f])]]
            orbit == CHOOSE it : Law(it)
<1>0. MaxPasses \in Nat /\ 0 \in 0..MaxPasses
  BY PreviewAssumption
<1>1. Orbit(rs, start) = orbit
  BY DEF Orbit
<1>2. DOMAIN start = D
  OBVIOUS
<1>3. \A x \in X : [f \in D |-> Meant(rs, x[f])] \in X
  BY MeantIsText
<1>4. next \in [1..MaxPasses -> [X -> X]] /\ \A i \in 1..MaxPasses, x \in X : next[i][x] = [f \in D |-> Meant(rs, x[f])]
  BY <1>3
<1>5. PICK F \in [0..MaxPasses -> X] : Iterates(F, start, MaxPasses, next)
  <2>. HIDE DEF X, next
  <2>1. start \in X
    BY DEF X
  <2>. QED
    BY <1>0, <1>4, <2>1, IterationExists
<1>. HIDE DEF next
<1>6. ASSUME NEW n \in 0..MaxPasses
      PROVE  F[n] = IF n = 0 THEN start ELSE [f \in DOMAIN start |-> Meant(rs, F[n - 1][f])]
  <2>1. CASE n = 0
    BY <1>5, <2>1 DEF Iterates
  <2>2. CASE n # 0
    <3>1. n \in 1..MaxPasses /\ n - 1 \in 0..MaxPasses
      BY <1>0, <2>2
    <3>2. F[n - 1] \in X
      BY <3>1
    <3>3. F[n] = next[n][F[n - 1]]
      BY <1>5, <3>1 DEF Iterates
    <3>4. F[n] = [f \in D |-> Meant(rs, F[n - 1][f])]
      BY <1>4, <3>1, <3>2, <3>3
    <3>. QED
      BY <1>2, <2>2, <3>4
  <2>. QED
    BY <2>1, <2>2
<1>7. Law(F)
  <2>1. F = [n \in 0..MaxPasses |-> F[n]]
    OBVIOUS
  <2>. QED
    BY <1>6, <2>1
<1>8. Law(orbit)
  BY <1>7
<1>. HIDE DEF orbit
<1>9. orbit = [n \in 0..MaxPasses |-> IF n = 0 THEN start
                 ELSE [f \in DOMAIN start |-> Meant(rs, orbit[n - 1][f])]]
  BY <1>8
<1>10. orbit[0] = start
  BY <1>0, <1>9
<1>11. ASSUME NEW n \in 1..MaxPasses
       PROVE  orbit[n] = [f \in D |-> Meant(rs, orbit[n - 1][f])]
  <2>1. n \in 0..MaxPasses /\ n # 0
    BY <1>0
  <2>2. orbit[n] = [f \in DOMAIN start |-> Meant(rs, orbit[n - 1][f])]
    BY <1>9, <2>1
  <2>. QED
    BY <1>2, <2>2
<1>. DEFINE G == {n \in 0..MaxPasses : orbit[n] \in X}
<1>12. 0 \in G
  BY <1>0, <1>10
<1>13. ASSUME NEW n \in 1..MaxPasses, n - 1 \in G PROVE n \in G
  <2>1. n \in 0..MaxPasses
    BY <1>0
  <2>2. orbit[n - 1] \in X
    BY <1>13
  <2>3. orbit[n] \in X
    BY <1>3, <1>11, <2>2
  <2>. QED
    BY <2>1, <2>3
<1>14. \A n \in 0..MaxPasses : n \in G
  <2>. HIDE DEF G
  <2>. QED
    BY <1>0, <1>12, <1>13, Upwards
<1>. QED
  BY <1>1, <1>10, <1>11, <1>14

-----------------------------------------------------------------------------
(***************************************************************************)
(* All texts are sequences of tokens, whoever wrote them, and so are the   *)
(* patterns and the replacements.                                          *)
(***************************************************************************)
TextInv ==
  /\ \A f \in Files : tree[f] # Gone => tree[f].text \in Seq(Tokens)
  /\ opened # None => opened.text \in Seq(Tokens)
  /\ \A f \in DOMAIN snap : snap[f].text \in Seq(Tokens)
  /\ \A f \in DOMAIN first : first[f].text \in Seq(Tokens)
  /\ \A d \in Range(stdin) :
       /\ d.pattern \in Seq(Tokens) \ {<< >>}
       /\ d.fix \in Seq(Tokens) \cup {NoFix}
  /\ RulesFit(rules)

(***************************************************************************)
(* The passes.  The copy has been made and what it contains is followed    *)
(* from one rewriting to the next; a scan tells the truth about what the   *)
(* copy should contain, or says something that is not sound, or the copy   *)
(* has been changed, which is still to be noticed.                         *)
(***************************************************************************)
After == Orbit(rules, Texts(first))

Settled == ppc \in {"diff", "leave", "emit"} \/ (ppc \in {"list", "read"} /\ stop # "none")

Copied == ppc \in {"probe", "top", "scan", "verify", "judge"} \/ Settled

Converged == {"no_match", "fixed_point", "idempotent"}

TellsTheTruth(rows, rs, texts) ==
  rows = RowsOfAll(rs, texts) \/ \E r \in rows : ~Sound(r, texts, rs)

Followed ==
  /\ rewrites \in 0..MaxPasses
  /\ current = After[rewrites]
  /\ history = {After[k] : k \in 0..rewrites}
  /\ stop \in Converged => \A f \in DOMAIN current : Meant(rules, current[f]) = current[f]
  /\ stop = "cycle" => \E k \in 0..rewrites - 1 : After[k] = current

CountInv ==
  /\ stop \in Stops
  /\ ppc \in {"stdin", "list", "read", "copy"} =>
       Settled \/ (scans = 0 /\ rewrites = 0 /\ stop = "none")
  /\ ppc \in {"probe", "top"} => scans = rewrites /\ stop = "none"
  /\ ppc \in {"scan", "verify", "judge"} => scans = rewrites + 1 /\ scans <= MaxPasses /\ stop = "none"
  /\ Settled => stop # "none"
  /\ Answered /\ rc = 0 => stop \in Converged

CopyInv ==
  /\ ppc \in {"probe", "top", "scan", "verify", "judge"} =>
       DOMAIN copy = DOMAIN current /\ \A f \in DOMAIN current : copy[f] \in {current[f], Foreign}
  /\ ppc = "verify" \/ (ppc = "scan" /\ child = "exited") =>
       copy # current \/ TellsTheTruth(reply, rules, current)
  /\ ppc = "judge" => TellsTheTruth(reply, rules, current)

PassInv == CountInv /\ CopyInv /\ (Copied \/ Answered => Followed)

LEMMA TextInit == Init => TextInv
<1>. SUFFICES ASSUME Init PROVE TextInv
  OBVIOUS
<1>1. PICK c \in Casts :
        /\ tree = [f \in Files |-> IF f \in DOMAIN c.texts THEN File(c.texts[f], 0, User) ELSE Gone]
        /\ stdin = c.documents
  BY DEF Init
<1>2. /\ DOMAIN c.texts \subseteq Files /\ \A f \in DOMAIN c.texts : c.texts[f] \in Seq(Tokens)
      /\ \A d \in Range(c.documents) :
           /\ d.pattern \in Seq(Tokens) \ {<< >>}
           /\ d.fix \in Seq(Tokens) \cup {NoFix}
  BY CastAssumption
<1>3. opened = None /\ DOMAIN snap = {} /\ DOMAIN first = {} /\ DOMAIN rules = {}
  BY DEF Init, PreviewInit, NoFiles
<1>4. \A f \in Files : tree[f] # Gone => tree[f].text \in Seq(Tokens)
  BY <1>1, <1>2 DEF File
<1>5. RulesFit(rules)
  BY <1>3 DEF RulesFit
<1>. QED
  BY <1>1, <1>2, <1>3, <1>4, <1>5 DEF TextInv

LEMMA ParsedFit ==
  ASSUME NEW documents,
         \A d \in Range(documents) :
           /\ d.pattern \in Seq(Tokens) \ {<< >>}
           /\ d.fix \in Seq(Tokens) \cup {NoFix}
  PROVE  RulesFit(Parsed(documents))
<1>. SUFFICES ASSUME NEW id \in Ids(documents)
              PROVE  /\ Parsed(documents)[id].pattern \in Seq(Tokens) \ {<< >>}
                     /\ Parsed(documents)[id].fix \in Seq(Tokens) \cup {NoFix}
  BY DEF RulesFit, Parsed
<1>. DEFINE c == CHOOSE d \in Range(documents) : d.id = id
<1>1. \E d \in Range(documents) : d.id = id
  BY DEF Ids, Range
<1>2. c \in Range(documents)
  BY <1>1
<1>3. Parsed(documents)[id] = Rule(c.pattern, c.fix)
  BY DEF Parsed
<1>. HIDE DEF c
<1>. QED
  BY <1>2, <1>3 DEF Rule

LEMMA ResultIsText ==
  ASSUME NEW program, program \in {"format", "fix", "check"}, NEW t \in Seq(Tokens)
  PROVE  Result(program, t) \in Seq(Tokens)
BY DropIsText DEF Result

LEMMA WrittenTextIsText ==
  ASSUME TextInv, StampInv, NEW f, NEW text \in Seq(Tokens), NEW by, Write(f, text, by)
  PROVE  \A g \in Files : tree'[g] # Gone => tree'[g].text \in Seq(Tokens)
<1>1. tree' = [tree EXCEPT ![f] = File(text, stamps + 1, by)] /\ tree = [g \in Files |-> tree[g]]
  BY DEF Write, StampInv
<1>2. \A g \in Files : tree'[g] = tree[g] \/ tree'[g] = File(text, stamps + 1, by)
  BY <1>1
<1>3. File(text, stamps + 1, by).text = text
  BY DEF File
<1>. QED
  BY <1>2, <1>3 DEF TextInv

LEMMA TextNext == StampInv /\ ReportInv /\ TextInv /\ [Next]_vars => TextInv'
<1>. SUFFICES ASSUME StampInv, ReportInv, TextInv, [Next]_vars PROVE TextInv'
  OBVIOUS
<1>0. ASSUME UNCHANGED << opened, snap, first, stdin, rules >>,
             \A g \in Files : tree'[g] # Gone => tree'[g].text \in Seq(Tokens)
      PROVE  TextInv'
  BY <1>0 DEF TextInv
<1>1. CASE UNCHANGED treeVars /\ UNCHANGED << opened, snap, first, stdin, rules >>
  BY <1>1 DEF TextInv, treeVars
<1>2. CASE Edit /\ UNCHANGED previewVars
  <2>1. PICK f \in Files :
          \/ \E text \in Drafts : Write(f, text, User)
          \/ Exists(f) /\ tree' = [tree EXCEPT ![f] = Gone] /\ UNCHANGED stamps
    BY <1>2 DEF Edit
  <2>2. CASE tree' = [tree EXCEPT ![f] = Gone]
    <3>1. \A g \in Files : tree'[g] = tree[g] \/ tree'[g] = Gone
      BY <2>2 DEF StampInv
    <3>. QED
      BY <1>0, <1>2, <3>1 DEF TextInv, previewVars, readVars
  <2>3. ASSUME NEW text \in Drafts, Write(f, text, User) PROVE TextInv'
    <3>1. text \in Seq(Tokens)
      BY TreeAssumption
    <3>. QED
      BY <1>0, <1>2, <2>3, <3>1, WrittenTextIsText DEF previewVars, readVars
  <2>. QED
    BY <2>1, <2>2, <2>3
<1>3. CASE HookSteps /\ UNCHANGED previewVars
  <2>1. ASSUME NEW program \in {"format", "fix", "check"}, Touch(program) PROVE TextInv'
    <3>. DEFINE t == tree[Target].text
    <3>1. CASE UNCHANGED treeVars
      BY <3>1, <1>1, <1>3 DEF previewVars, readVars
    <3>2. CASE Exists(Target) /\ Target \in Files /\ Write(Target, Result(program, t), Hook)
      <4>1. t \in Seq(Tokens)
        BY <3>2 DEF TextInv, Exists
      <4>2. Result(program, t) \in Seq(Tokens)
        BY <4>1, ResultIsText
      <4>. HIDE DEF t
      <4>. QED
        BY <1>0, <1>3, <3>2, <4>2, WrittenTextIsText DEF previewVars, readVars
    <3>3. CASE Target \notin Files /\ Write(Target, Result(program, t), Hook)
      <4>1. \A g \in Files : tree'[g] = tree[g]
        BY <3>3 DEF Write, StampInv
      <4>. QED
        BY <1>0, <1>3, <4>1 DEF TextInv, previewVars, readVars
    <3>. QED
      BY <2>1, <3>1, <3>2, <3>3 DEF Touch
  <2>2. UNCHANGED treeVars \/ (hpc = "call" /\ Touch(Programs[call]))
    BY <1>3 DEF HookSteps, Begin, StartStep, PipelineDone, BudgetSpent, EndFile, RunProgram,
                ProgramFails, ProgramTimesOut, LeaveOut, HookEnds, treeVars, Ready
  <2>3. hpc = "call" => Programs[call] \in {"format", "fix", "check"}
    <3>. SUFFICES ASSUME hpc = "call" PROVE Programs[call] \in {"format", "fix", "check"}
      OBVIOUS
    <3>1. /\ targets # << >> /\ step \in Nat \ {0} /\ step <= Len(Steps) /\ call \in 1..Len(Programs)
      BY DEF ReportInv, QueueInv, Working
    <3>2. Target \in Files
      BY <3>1, TargetIsFile DEF ReportInv, QueueInv
    <3>3. Kind[Target] \in {"python", "script", "data", "shell", "other"}
      BY <3>2, FormatAssumption
    <3>4. step \in 1..Len(Pipeline(Target)) /\ call \in 1..Len(Pipeline(Target)[step])
      BY <3>1, <3>2, PipelineSizes DEF Steps, Programs
    <3>5. Pipeline(Target)[step][call] \in {"format", "fix", "check"}
      <4>1. CASE Kind[Target] = "python"
        BY <3>4, <4>1 DEF Pipeline, Ruff
      <4>2. CASE Kind[Target] = "script"
        BY <3>4, <4>2 DEF Pipeline
      <4>3. CASE Kind[Target] = "data"
        BY <3>4, <4>3 DEF Pipeline
      <4>4. CASE Kind[Target] = "shell"
        BY <3>4, <4>4 DEF Pipeline
      <4>5. CASE Kind[Target] = "other"
        BY <3>4, <4>5 DEF Pipeline
      <4>. QED
        BY <3>3, <4>1, <4>2, <4>3, <4>4, <4>5
    <3>. QED
      BY <3>5 DEF Programs, Steps
  <2>. QED
    BY <1>1, <1>3, <2>1, <2>2, <2>3 DEF previewVars, readVars
<1>4. CASE PreviewSteps /\ UNCHANGED treeVars
  <2>0. \A f \in Files : tree'[f] = tree[f]
    BY <1>4 DEF treeVars
  <2>1. CASE ReadRules
    <3>1. CASE Fail("invalid")
      BY <1>1, <1>4, <3>1 DEF Fail, readVars
    <3>2. CASE rules' = Parsed(stdin) /\ UNCHANGED << stdin, opened, snap, first >>
      <4>1. RulesFit(rules')
        BY <3>2, ParsedFit DEF TextInv
      <4>. QED
        BY <2>0, <3>2, <4>1 DEF TextInv
    <3>. QED
      BY <2>1, <3>1, <3>2 DEF ReadRules
  <2>2. CASE List
    BY <1>1, <1>4, <2>2 DEF List
  <2>3. CASE Open
    <3>1. CASE UNCHANGED readVars
      BY <1>1, <1>4, <3>1 DEF readVars
    <3>2. ASSUME NEW f \in Files, Exists(f), opened' = tree[f],
                 UNCHANGED << stdin, rules, snap, first >>
          PROVE  TextInv'
      BY <2>0, <3>2 DEF TextInv, Exists
    <3>. QED
      BY <2>3, <3>1, <3>2 DEF Open, Fail
  <2>4. CASE Read
    <3>1. CASE UNCHANGED readVars
      BY <1>1, <1>4, <3>1 DEF readVars
    <3>2. ASSUME NEW f \in Files,
                 snap' = [g \in DOMAIN snap \cup {f} |-> IF g = f THEN opened ELSE snap[g]],
                 opened' = None, opened # None, UNCHANGED << stdin, rules, first >>
          PROVE  TextInv'
      <4>1. \A g \in DOMAIN snap' : snap'[g].text \in Seq(Tokens)
        BY <3>2 DEF TextInv
      <4>. QED
        BY <2>0, <3>2, <4>1 DEF TextInv
    <3>. QED
      BY <2>4, <3>1, <3>2 DEF Read, Fail
  <2>5. CASE FirstRead
    <3>1. first' = snap /\ DOMAIN snap' = {} /\ UNCHANGED << stdin, rules, opened >>
      BY <2>5 DEF FirstRead, NoFiles
    <3>. QED
      BY <2>0, <3>1 DEF TextInv
  <2>6. CASE UNCHANGED readVars
    BY <1>1, <1>4, <2>6 DEF readVars
  <2>7. \/ ReadRules \/ List \/ Open \/ Read \/ FirstRead \/ UNCHANGED readVars
    BY <1>4 DEF PreviewSteps, ReadAgain, MakeCopy, StartProgram, OverBudget, Probed, PassLimit,
                StartScan, Scanned, Verify, Refuse, Converge, Rewrite, Rendered, RemoveCopy, Emit,
                OutOfTime, Fail, previewVars
  <2>. QED
    BY <2>1, <2>2, <2>3, <2>4, <2>5, <2>6, <2>7
<1>5. CASE Engine /\ UNCHANGED treeVars
  BY <1>1, <1>5 DEF Engine, ProgramExits, EngineExits, Flood, previewVars, readVars
<1>6. CASE Tamper /\ UNCHANGED treeVars
  BY <1>1, <1>6 DEF Tamper, readVars
<1>7. \/ UNCHANGED << treeVars, previewVars >>
      \/ Edit /\ UNCHANGED previewVars
      \/ HookSteps /\ UNCHANGED previewVars
      \/ PreviewSteps /\ UNCHANGED treeVars
      \/ Engine /\ UNCHANGED treeVars
      \/ Tamper /\ UNCHANGED treeVars
  BY DEF Next, PreviewStep, EngineStep, TamperStep, ClockStep, HookStep, UserStep, vars
<1>. QED
  BY <1>1, <1>2, <1>3, <1>4, <1>5, <1>6, <1>7 DEF previewVars, readVars

LEMMA PassInit == Init => PassInv
BY DEF Init, PreviewInit, BudgetInit, PassInv, CountInv, CopyInv, Copied, Settled, Answered, Stops

(***************************************************************************)
(* The texts of the passes.                                                *)
(***************************************************************************)
LEMMA FollowedTexts ==
  ASSUME TextInv, Followed
  PROVE  /\ Texts(first) \in [DOMAIN first -> Seq(Tokens)]
         /\ current \in [DOMAIN first -> Seq(Tokens)] /\ DOMAIN current = DOMAIN first
         /\ RulesFit(rules)
         /\ \A n \in 1..MaxPasses : After[n] = [f \in DOMAIN first |-> Meant(rules, After[n - 1][f])]
<1>1. Texts(first) \in [DOMAIN first -> Seq(Tokens)] /\ RulesFit(rules)
  BY DEF Texts, TextInv
<1>2. /\ \A n \in 0..MaxPasses : After[n] \in [DOMAIN first -> Seq(Tokens)]
      /\ \A n \in 1..MaxPasses : After[n] = [f \in DOMAIN first |-> Meant(rules, After[n - 1][f])]
  BY <1>1, OrbitSteps DEF After
<1>3. current \in [DOMAIN first -> Seq(Tokens)]
  BY <1>2 DEF Followed
<1>. QED
  BY <1>1, <1>2, <1>3

LEMMA FollowedOn ==
  ASSUME Followed, UNCHANGED << rules, first, current, history, rewrites >>,
         stop' = stop \/ stop' \in {"none", "pass_limit"}
  PROVE  Followed'
<1>1. After' = After
  BY DEF After
<1>2. stop' \in Converged => stop \in Converged
  BY DEF Converged
<1>3. stop' = "cycle" => stop = "cycle"
  OBVIOUS
<1>. QED
  BY <1>1, <1>2, <1>3 DEF Followed

LEMMA LeavingKeepsPasses ==
  ASSUME PassInv, NEW code, NEW error, Leave(code, error), error \notin {"none", "nonconvergence"}
  PROVE  PassInv'
BY DEF PassInv, CountInv, CopyInv, Copied, Settled, Answered, Leave

(***************************************************************************)
(* Steps that change nothing of what the passes are about, but where the   *)
(* command is.                                                             *)
(***************************************************************************)
LEMMA StayingKeepsPasses ==
  ASSUME PassInv, UNCHANGED << ppc, rc, why, rules, first, scanVars >>,
         child' = child \/ child' # "exited" \/ ppc # "scan"
  PROVE  PassInv'
<1>1. UNCHANGED << Copied, Settled, Answered >>
  BY DEF Copied, Settled, Answered, scanVars
<1>2. Copied \/ Answered => Followed'
  BY FollowedOn DEF PassInv, scanVars
<1>3. CountInv'
  BY <1>1 DEF PassInv, CountInv, scanVars
<1>4. CopyInv'
  BY DEF PassInv, CopyInv, scanVars
<1>. QED
  BY <1>1, <1>2, <1>3, <1>4 DEF PassInv

LEMMA CopyKeepsPasses ==
  ASSUME TextInv, PassInv, MakeCopy
  PROVE  PassInv'
<1>1. /\ ppc = "copy" /\ ppc' = "probe" /\ UNCHANGED << rc, why, rules, first, scans, rewrites, reply, stop >>
      /\ copy' = Texts(first) /\ current' = Texts(first) /\ history' = {Texts(first)}
  BY DEF MakeCopy, Goto, readVars
<1>2. scans = 0 /\ rewrites = 0 /\ stop = "none"
  BY <1>1 DEF PassInv, CountInv, Settled
<1>3. Orbit(rules, Texts(first))[0] = Texts(first)
  <2>1. Texts(first) \in [DOMAIN first -> Seq(Tokens)] /\ RulesFit(rules)
    BY DEF Texts, TextInv
  <2>. QED
    BY <2>1, OrbitSteps
<1>4. Followed'
  <2>1. After'[0] = Texts(first)
    BY <1>1, <1>3 DEF After
  <2>2. 0..0 = {0} /\ 0 \in 0..MaxPasses
    BY PreviewAssumption
  <2>3. history' = {After'[k] : k \in 0..rewrites'}
    BY <1>1, <1>2, <2>1, <2>2
  <2>. QED
    BY <1>1, <1>2, <2>1, <2>2, <2>3 DEF Followed, Converged
<1>5. CountInv'
  BY <1>1, <1>2 DEF PassInv, CountInv, Settled, Answered
<1>6. CopyInv'
  BY <1>1 DEF CopyInv
<1>. QED
  BY <1>4, <1>5, <1>6 DEF PassInv

(***************************************************************************)
(* The engine tells what it finds in the copy, or something that is not    *)
(* sound.                                                                  *)
(***************************************************************************)
LEMMA ScanTellsTheTruth ==
  ASSUME TextInv, Followed, reply' \in Replies, copy = current
  PROVE  TellsTheTruth(reply', rules, current)
<1>1. current \in [DOMAIN first -> Seq(Tokens)] /\ DOMAIN current = DOMAIN first /\ RulesFit(rules)
  BY FollowedTexts
<1>2. Seen = DOMAIN current
  BY <1>1, PreviewAssumption DEF Seen
<1>3. Honest = RowsOfAll(rules, current)
  BY <1>2 DEF Honest, RowsOfAll
<1>4. CASE reply' = Honest
  BY <1>3, <1>4 DEF TellsTheTruth
<1>5. CASE reply' # Honest
  <2>1. PICK r \in Honest : Shifted(r) \notin Honest /\ reply' = (Honest \ {r}) \cup {Shifted(r)}
    BY <1>5 DEF Replies
  <2>2. ~Sound(Shifted(r), current, rules)
    BY <1>1, <1>3, <2>1, MovedRowsAreNotSound
  <2>. QED
    BY <2>1, <2>2 DEF TellsTheTruth
<1>. QED
  BY <1>4, <1>5

LEMMA ScanKeepsPasses ==
  ASSUME TextInv, PassInv, EngineExits
  PROVE  PassInv'
<1>1. /\ ppc = "scan" /\ reply' \in Replies
      /\ UNCHANGED << ppc, rc, why, rules, first, copy, current, history, scans, rewrites, stop >>
  BY DEF EngineExits, readVars
<1>2. Followed
  BY <1>1 DEF PassInv, Copied
<1>3. Followed'
  BY <1>1, <1>2, FollowedOn
<1>4. CountInv'
  BY <1>1 DEF PassInv, CountInv, Settled, Answered
<1>5. copy' # current' \/ TellsTheTruth(reply', rules', current')
  BY <1>1, <1>2, ScanTellsTheTruth
<1>6. CopyInv'
  BY <1>1, <1>5 DEF PassInv, CopyInv
<1>. QED
  BY <1>3, <1>4, <1>6 DEF PassInv

LEMMA TamperingKeepsPasses ==
  ASSUME TextInv, PassInv, Tamper, UNCHANGED budgetVars
  PROVE  PassInv'
<1>1. /\ UNCHANGED << ppc, rc, why, rules, first, current, history, scans, rewrites, reply, stop, child >>
      /\ \E f \in DOMAIN copy : copy' = [copy EXCEPT ![f] = Foreign]
  BY DEF Tamper, readVars, budgetVars
<1>2. UNCHANGED << Copied, Settled, Answered >>
  BY <1>1 DEF Copied, Settled, Answered
<1>3. Copied \/ Answered => Followed'
  BY <1>1, FollowedOn DEF PassInv
<1>4. CountInv'
  BY <1>1, <1>2 DEF PassInv, CountInv
<1>5. CopyInv'
  <2>1. PICK f \in DOMAIN copy : copy' = [copy EXCEPT ![f] = Foreign]
    BY <1>1
  <2>2. DOMAIN copy' = DOMAIN copy /\ \A g \in DOMAIN copy : copy'[g] = copy[g] \/ copy'[g] = Foreign
    BY <2>1
  <2>3. copy'[f] = Foreign
    BY <2>1
  <2>4. ppc = "verify" \/ ppc = "scan" => copy' # current
    <3>. SUFFICES ASSUME ppc = "verify" \/ ppc = "scan" PROVE copy' # current
      OBVIOUS
    <3>1. Followed /\ DOMAIN copy = DOMAIN current
      BY DEF PassInv, CopyInv, Copied
    <3>2. current[f] \in Seq(Tokens)
      BY <3>1, FollowedTexts
    <3>. QED
      BY <2>3, <3>2, PreviewAssumption
  <2>. QED
    BY <1>1, <2>2, <2>4 DEF PassInv, CopyInv
<1>. QED
  BY <1>2, <1>3, <1>4, <1>5 DEF PassInv

(***************************************************************************)
(* Rows that are usable are those of the copy as it should be, so that the *)
(* rewriting is what the rules mean.                                       *)
(***************************************************************************)
LEMMA UsableIsMeant ==
  ASSUME TextInv, PassInv, ppc = "judge", Usable
  PROVE  \A f \in DOMAIN current : Rewritten(f) = Meant(rules, current[f])
<1>1. current \in [DOMAIN first -> Seq(Tokens)] /\ DOMAIN current = DOMAIN first /\ RulesFit(rules)
  BY FollowedTexts DEF PassInv, Copied
<1>2. reply = RowsOfAll(rules, current)
  BY DEF PassInv, CopyInv, TellsTheTruth, Usable, Valid
<1>. TAKE f \in DOMAIN current
<1>3. ~Ambiguous(EditsFor(RowsOfAll(rules, current), f))
  BY <1>2 DEF Usable
<1>4. ApplyEdits(current[f], Outermost(EditsFor(RowsOfAll(rules, current), f))) = Meant(rules, current[f])
  BY <1>1, <1>3, AcceptedIsMeant
<1>. QED
  BY <1>2, <1>4 DEF Rewritten

LEMMA ConvergingKeepsPasses ==
  ASSUME TextInv, PassInv, Converge
  PROVE  PassInv'
<1>1. /\ ppc = "judge" /\ ppc' \in {"leave", "diff"} /\ Usable /\ Updated = {}
      /\ stop' \in Converged
      /\ UNCHANGED << rc, why, rules, first, copy, current, history, scans, rewrites, reply >>
  BY DEF Converge, Goto, readVars, Stop, Converged
<1>2. Followed /\ stop = "none"
  BY <1>1 DEF PassInv, CountInv, Copied
<1>3. \A f \in DOMAIN current : Meant(rules, current[f]) = current[f]
  BY <1>1, UsableIsMeant DEF Updated
<1>4. Followed'
  <2>1. After' = After
    BY <1>1 DEF After
  <2>. QED
    BY <1>1, <1>2, <1>3, <2>1 DEF Followed, Converged
<1>5. CountInv'
  BY <1>1 DEF PassInv, CountInv, Settled, Answered, Converged, Stops
<1>6. CopyInv'
  BY <1>1 DEF CopyInv
<1>. QED
  BY <1>4, <1>5, <1>6 DEF PassInv

LEMMA RewritingKeepsPasses ==
  ASSUME TextInv, PassInv, Rewrite
  PROVE  PassInv'
<1>1. CASE Fail("limit") \/ Fail("copy_changed")
  BY <1>1, LeavingKeepsPasses DEF Fail
<1>2. CASE ~(Fail("limit") \/ Fail("copy_changed"))
  <2>. DEFINE after == [f \in DOMAIN current |-> Rewritten(f)]
  <2>1. /\ ppc = "judge" /\ Usable
        /\ copy' = [f \in DOMAIN copy |-> IF f \in Updated THEN after[f] ELSE copy[f]]
        /\ current' = after /\ rewrites' = rewrites + 1 /\ history' = history \cup {after}
        /\ IF after \in history THEN stop' = "cycle" /\ ppc' = "leave" ELSE ppc' = "top" /\ stop' = stop
        /\ UNCHANGED << rc, why, rules, first, scans, reply >>
    BY <1>2 DEF Rewrite, Stop, Goto, readVars
  <2>2. /\ Followed /\ stop = "none" /\ scans = rewrites + 1 /\ scans <= MaxPasses
        /\ rewrites \in Nat /\ MaxPasses \in Nat
    BY <2>1, PreviewAssumption DEF PassInv, CountInv, Copied, Followed
  <2>3. rewrites + 1 \in 1..MaxPasses /\ rewrites + 1 \in 0..MaxPasses /\ (rewrites + 1) - 1 = rewrites
    BY <2>2
  <2>4. DOMAIN current = DOMAIN first
    BY <2>2, FollowedTexts
  <2>5. after = [f \in DOMAIN first |-> Meant(rules, current[f])]
    BY <2>1, <2>4, UsableIsMeant
  <2>6. After[rewrites + 1] = after
    <3>1. After[rewrites + 1] = [f \in DOMAIN first |-> Meant(rules, After[(rewrites + 1) - 1][f])]
      BY <2>2, <2>3, FollowedTexts
    <3>2. current = After[rewrites]
      BY <2>2 DEF Followed
    <3>. QED
      BY <2>3, <2>5, <3>1, <3>2
  <2>7. DOMAIN after = DOMAIN current /\ \A f \in DOMAIN current : after[f] = Rewritten(f)
    OBVIOUS
  <2>. HIDE DEF after
  <2>8. After' = After
    BY <2>1 DEF After
  <2>9. history' = {After[k] : k \in 0..rewrites + 1}
    <3>1. history = {After[k] : k \in 0..rewrites}
      BY <2>2 DEF Followed
    <3>2. 0..rewrites + 1 = (0..rewrites) \cup {rewrites + 1}
      BY <2>2
    <3>3. {After[k] : k \in (0..rewrites) \cup {rewrites + 1}} = {After[k] : k \in 0..rewrites} \cup {After[rewrites + 1]}
      OBVIOUS
    <3>. QED
      BY <2>1, <2>6, <3>1, <3>2, <3>3
  <2>10. stop' = "cycle" => \E k \in 0..rewrites : After[k] = after
    <3>1. stop' = "cycle" => after \in history
      BY <2>1, <2>2
    <3>. QED
      BY <2>2, <3>1 DEF Followed
  <2>11. Followed'
    <3>1. rewrites' - 1 = rewrites /\ rewrites' = rewrites + 1
      BY <2>1, <2>3
    <3>2. stop' \notin Converged
      BY <2>1, <2>2 DEF Converged
    <3>. QED
      BY <2>1, <2>3, <2>6, <2>8, <2>9, <2>10, <3>1, <3>2 DEF Followed
  <2>12. CountInv'
    BY <2>1, <2>2 DEF PassInv, CountInv, Settled, Answered, Stops
  <2>13. CopyInv'
    <3>1. ppc' = "top" \/ ppc' = "leave"
      BY <2>1
    <3>2. DOMAIN copy = DOMAIN current /\ \A f \in DOMAIN current : copy[f] \in {current[f], Foreign}
      BY <2>1 DEF PassInv, CopyInv
    <3>3. DOMAIN copy' = DOMAIN copy /\ \A f \in DOMAIN copy : copy'[f] = IF f \in Updated THEN after[f] ELSE copy[f]
      BY <2>1
    <3>4. \A f \in DOMAIN current : f \notin Updated => after[f] = current[f]
      BY <2>7 DEF Updated
    <3>5. \A f \in DOMAIN current : copy'[f] \in {after[f], Foreign}
      BY <3>2, <3>3, <3>4
    <3>. QED
      BY <2>1, <2>7, <3>1, <3>2, <3>3, <3>5 DEF CopyInv
  <2>. QED
    BY <2>11, <2>12, <2>13 DEF PassInv
<1>. QED
  BY <1>1, <1>2

(***************************************************************************)
(* The phases between the passes.                                          *)
(***************************************************************************)
LEMMA PhaseKeepsPasses ==
  ASSUME PassInv, UNCHANGED << current, history, rewrites, reply, scans, stop, rc, why >>,
         \/ Copied /\ UNCHANGED << rules, first >>
         \/ ~Copied' /\ ppc' \in {"list", "read", "copy"},
         ppc' \in {"list", "read", "copy", "emit", "leave"},
         ppc \in {"stdin", "list", "read"} \/ Settled,
         ppc' \in {"leave", "emit"} => Settled,
         ppc' \in {"list", "read"} /\ Settled => Settled',
         ppc' = "copy" => ~Settled
  PROVE  PassInv'
<1>1. CountInv'
  BY DEF PassInv, CountInv, Settled, Answered
<1>2. CopyInv'
  BY DEF CopyInv
<1>3. Copied' \/ Answered' => Followed'
  BY FollowedOn DEF PassInv, Copied, Settled, Answered
<1>. QED
  BY <1>1, <1>2, <1>3 DEF PassInv

LEMMA PassNext == TextInv /\ PassInv /\ [Next]_vars => PassInv'
<1>. SUFFICES ASSUME TextInv, PassInv, [Next]_vars PROVE PassInv'
  OBVIOUS
<1>0. ASSUME UNCHANGED previewVars, child' = child \/ child' # "exited" \/ ppc # "scan" PROVE PassInv'
  BY <1>0, StayingKeepsPasses DEF previewVars, readVars
<1>1. ASSUME NEW error, Fail(error), error \notin {"none", "nonconvergence"} PROVE PassInv'
  BY <1>1, LeavingKeepsPasses DEF Fail
<1>2. CASE PreviewSteps
  <2>1. CASE ReadRules
    <3>1. CASE Fail("invalid")
      BY <1>1, <3>1
    <3>2. CASE ~Fail("invalid")
      BY <2>1, <3>2, PhaseKeepsPasses DEF ReadRules, Goto, scanVars, PassInv, CountInv, Settled, Copied
    <3>. QED
      BY <3>1, <3>2
  <2>2. CASE List
    BY <2>2, PhaseKeepsPasses DEF List, Goto, scanVars, PassInv, CountInv, Settled, Copied
  <2>3. CASE Open
    <3>1. CASE Fail("path_missing") \/ Fail("limit")
      BY <1>1, <3>1
    <3>2. CASE ~(Fail("path_missing") \/ Fail("limit"))
      BY <2>3, <3>2, StayingKeepsPasses DEF Open, budgetVars
    <3>. QED
      BY <3>1, <3>2
  <2>4. CASE Read
    <3>1. CASE Fail("source_changed")
      BY <1>1, <3>1
    <3>2. CASE ~Fail("source_changed")
      BY <2>4, <3>2, StayingKeepsPasses DEF Read, budgetVars
    <3>. QED
      BY <3>1, <3>2
  <2>5. CASE FirstRead
    BY <2>5, PhaseKeepsPasses DEF FirstRead, AllRead, Goto, scanVars, PassInv, CountInv, Settled, Copied
  <2>6. CASE ReadAgain
    <3>1. CASE Fail("source_changed")
      BY <1>1, <3>1
    <3>2. CASE ~Fail("source_changed")
      BY <2>6, <3>2, PhaseKeepsPasses DEF ReadAgain, AllRead, Goto, scanVars, readVars, Settled, Copied
    <3>. QED
      BY <3>1, <3>2
  <2>7. CASE MakeCopy
    BY <2>7, CopyKeepsPasses
  <2>8. CASE StartProgram
    BY <1>0, <2>8 DEF StartProgram
  <2>9. CASE OverBudget
    <3>1. Leave(2, "budget")
      BY <2>9 DEF OverBudget
    <3>. QED
      BY <3>1, LeavingKeepsPasses
  <2>10. CASE Probed
    <3>1. CASE Goto("top") /\ UNCHANGED scanVars
      <4>1. /\ ppc = "probe" /\ ppc' = "top"
            /\ UNCHANGED << rc, why, rules, first, copy, current, history, scans, rewrites, reply, stop >>
        BY <2>10, <3>1 DEF Probed, Goto, scanVars, readVars
      <4>. QED
        BY <4>1, FollowedOn DEF PassInv, CountInv, CopyInv, Copied, Settled, Answered
    <3>2. ASSUME NEW error \in {"unavailable", "unsupported_engine"}, Leave(3, error) PROVE PassInv'
      BY <3>2, LeavingKeepsPasses
    <3>. QED
      BY <2>10, <3>1, <3>2 DEF Probed
  <2>11. CASE PassLimit
    <3>1. /\ ppc = "top" /\ ppc' = "leave" /\ stop' = "pass_limit"
          /\ UNCHANGED << rc, why, rules, first, copy, current, history, scans, rewrites, reply >>
      BY <2>11 DEF PassLimit, Goto, Stop, readVars
    <3>2. Followed'
      BY <3>1, FollowedOn DEF PassInv, Copied
    <3>. QED
      BY <3>1, <3>2 DEF PassInv, CountInv, CopyInv, Settled, Answered, Stops
  <2>12. CASE StartScan
    <3>1. /\ ppc = "top" /\ ppc' = "scan" /\ scans < MaxPasses /\ scans' = scans + 1 /\ child' = "up"
          /\ UNCHANGED << rc, why, rules, first, copy, current, history, rewrites, reply, stop >>
      BY <2>12 DEF StartScan, Spawn, Goto, readVars
    <3>2. Followed /\ Followed'
      BY <3>1, FollowedOn DEF PassInv, Copied
    <3>3. scans = rewrites /\ scans \in Nat /\ MaxPasses \in Nat /\ stop = "none"
      BY <3>1, <3>2, PreviewAssumption DEF PassInv, CountInv, Followed
    <3>4. scans' = rewrites' + 1 /\ scans' <= MaxPasses
      BY <3>1, <3>3
    <3>5. CountInv'
      BY <3>1, <3>3, <3>4 DEF PassInv, CountInv, Settled, Answered
    <3>6. CopyInv'
      BY <3>1 DEF PassInv, CopyInv
    <3>. QED
      BY <3>2, <3>5, <3>6 DEF PassInv
  <2>13. CASE Scanned
    <3>1. CASE Goto("verify") /\ UNCHANGED scanVars
      <4>1. /\ ppc = "scan" /\ ppc' = "verify" /\ child = "exited"
            /\ UNCHANGED << rc, why, rules, first, copy, current, history, scans, rewrites, reply, stop >>
        BY <2>13, <3>1 DEF Scanned, Collected, Goto, scanVars, readVars
      <4>. QED
        BY <4>1, FollowedOn DEF PassInv, CountInv, CopyInv, Copied, Settled, Answered
    <3>2. CASE Leave(2, "engine_error")
      BY <3>2, LeavingKeepsPasses
    <3>. QED
      BY <2>13, <3>1, <3>2 DEF Scanned
  <2>14. CASE Verify
    <3>1. CASE Fail("copy_changed")
      BY <1>1, <3>1
    <3>2. CASE copy = current /\ Goto("judge") /\ UNCHANGED << readVars, scanVars >>
      <4>1. /\ ppc = "verify" /\ ppc' = "judge"
            /\ UNCHANGED << rc, why, rules, first, copy, current, history, scans, rewrites, reply, stop >>
        BY <2>14, <3>2 DEF Verify, Goto, scanVars, readVars
      <4>2. TellsTheTruth(reply, rules, current)
        BY <3>2, <4>1 DEF PassInv, CopyInv
      <4>3. CopyInv'
        BY <4>1, <4>2 DEF PassInv, CopyInv
      <4>. QED
        BY <4>1, <4>3, FollowedOn DEF PassInv, CountInv, Copied, Settled, Answered
    <3>. QED
      BY <2>14, <3>1, <3>2 DEF Verify
  <2>15. CASE Refuse
    BY <1>1, <2>15 DEF Refuse
  <2>16. CASE Converge
    BY <2>16, ConvergingKeepsPasses
  <2>17. CASE Rewrite
    BY <2>17, RewritingKeepsPasses
  <2>18. CASE Rendered
    <3>1. CASE Goto("leave") /\ UNCHANGED scanVars
      BY <2>18, <3>1, PhaseKeepsPasses DEF Rendered, Goto, scanVars, readVars, Settled, Copied
    <3>2. CASE Leave(2, "internal_error")
      BY <3>2, LeavingKeepsPasses
    <3>. QED
      BY <2>18, <3>1, <3>2 DEF Rendered
  <2>19. CASE RemoveCopy
    <3>1. Settled /\ stop # "none" /\ ppc = "leave"
      BY <2>19 DEF RemoveCopy, Settled, PassInv, CountInv
    <3>. QED
      BY <2>19, <3>1, PhaseKeepsPasses DEF RemoveCopy, Goto, readVars, Settled, Copied
  <2>20. CASE Emit
    <3>1. CASE Leave(2, "budget")
      BY <3>1, LeavingKeepsPasses
    <3>2. CASE \/ stop \in {"cycle", "pass_limit"} /\ Leave(2, "nonconvergence")
               \/ stop \notin {"cycle", "pass_limit"} /\ Leave(0, "none")
      <4>1. /\ ppc = "emit" /\ ppc' = "done"
            /\ UNCHANGED << rules, first, current, history, scans, rewrites, reply, stop >>
            /\ rc' = 0 => stop \notin {"cycle", "pass_limit"}
        BY <2>20, <3>2 DEF Emit, Leave, readVars
      <4>2. stop \in Stops /\ stop # "none"
        BY <4>1 DEF PassInv, CountInv, Settled
      <4>3. rc' = 0 => stop' \in Converged
        BY <4>1, <4>2 DEF Stops, Converged
      <4>4. Followed'
        BY <4>1, FollowedOn DEF PassInv, Copied, Settled
      <4>. QED
        BY <4>1, <4>2, <4>3, <4>4 DEF PassInv, CountInv, CopyInv, Settled
    <3>. QED
      BY <2>20, <3>1, <3>2 DEF Emit
  <2>21. CASE OutOfTime
    BY <1>1, <2>21 DEF OutOfTime
  <2>. QED
    BY <1>2, <2>1, <2>2, <2>3, <2>4, <2>5, <2>6, <2>7, <2>8, <2>9, <2>10, <2>11, <2>12, <2>13,
       <2>14, <2>15, <2>16, <2>17, <2>18, <2>19, <2>20, <2>21 DEF PreviewSteps
<1>3. CASE Engine
  <2>1. CASE ProgramExits
    BY <1>0, <2>1 DEF ProgramExits
  <2>2. CASE EngineExits
    BY <2>2, ScanKeepsPasses
  <2>3. CASE Flood
    <3>1. PICK error \in {"engine_rejected", "budget"} : Leave(2, error)
      BY <2>3 DEF Flood
    <3>. QED
      BY <3>1, LeavingKeepsPasses
  <2>. QED
    BY <1>3, <2>1, <2>2, <2>3 DEF Engine
<1>4. CASE Tamper
  BY <1>4, TamperingKeepsPasses DEF Tamper
<1>5. CASE UNCHANGED previewVars /\ UNCHANGED child
  BY <1>0, <1>5
<1>6. PreviewSteps \/ Engine \/ Tamper \/ (UNCHANGED previewVars /\ UNCHANGED child)
  BY DEF Next, PreviewStep, EngineStep, TamperStep, ClockStep, TimePasses, HookStep, UserStep, vars, budgetVars
<1>. QED
  BY <1>2, <1>3, <1>4, <1>5, <1>6

(***************************************************************************)
(* An answer of success is a fixed point of the rules that their           *)
(* rewritings of the sources lead to, and a cycle is one                   *)
(* (ConvergedIsFixed), for any texts, rules, files and limit of passes,    *)
(* whatever rows the engine reports that could be noticed, and whoever     *)
(* gets at the private copy.                                               *)
(***************************************************************************)
THEOREM PreviewsConverge == Spec => []ConvergedIsFixed
<1>1. PassInv => ConvergedIsFixed
  BY DEF PassInv, CountInv, Followed, After, ConvergedIsFixed
<1>. QED
  BY <1>1, SourceInit, SourceNext, ReportInit, ReportNext, TextInit, TextNext, PassInit, PassNext, PTL
  DEF Spec, SourceInv

=============================================================================
