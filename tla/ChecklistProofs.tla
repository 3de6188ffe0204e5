-------------------------- MODULE ChecklistProofs --------------------------
(***************************************************************************)
(* Theorems about Checklist, for every number of commands, items and       *)
(* verify commands and every set of jobs.                                  *)
(*                                                                         *)
(* 1. Without `verify` jobs every pass is proven (PassIsProven), whatever  *)
(*    fails.                                                               *)
(* 2. If no lock wait gives up and nobody edits the file, only init        *)
(*    changes the plan (OnlyInitReplans).                                  *)
(* 3. Every variable has its type, and a list has items (TypeOK).          *)
(* 4. The exit code 3 means that there is no checklist (SkipMeansAbsent).  *)
(***************************************************************************)
EXTENDS Checklist, TLAPS

(***************************************************************************)
(* A function over some of the ids.                                        *)
(***************************************************************************)
LEMMA FunctionsAre ==
  ASSUME NEW D, NEW R
  PROVE  /\ \A S \in SUBSET D : \A f \in [S -> R] : f \in Functions(D, R)
         /\ \A f \in Functions(D, R) : /\ DOMAIN f \subseteq D
                                       /\ f \in [DOMAIN f -> R]
BY DEF Functions

-----------------------------------------------------------------------------
(***************************************************************************)
(* Proof of passes.  A write publishes the items a process has read under  *)
(* the lock, so those must be proven too, and the item a `complete` is     *)
(* about to flip must be there with the command that was run.              *)
(***************************************************************************)
AllProven(items) == \A i \in DOMAIN items : items[i].passes => items[i].evidence = items[i].verify

FlipReady ==
  \A p \in Procs :
     pc[p] = "write" /\ job[p].op = "complete"
       => job[p].id \in DOMAIN snap[p] /\ snap[p][job[p].id].verify = cmd[p]

Shape ==
  /\ pc \in [Procs -> {"idle", "run", "runall", "lock", "reread", "write", "done"}]
  /\ job \in [Procs -> Jobs]
  /\ cmd \in [Procs -> Cmds \cup {NoCmd}]
  /\ snap \in [Procs -> Lists]
  /\ list \in Lists

NoVerifyRuns == \A p \in Procs : pc[p] # "runall"

ProvenInv ==
  /\ Shape
  /\ AllProven(list)
  /\ \A p \in Procs : AllProven(snap[p])
  /\ FlipReady
  /\ NoVerifyRuns

LEMMA JobOps ==
  ASSUME NEW j \in Jobs
  PROVE  /\ j.op \in {"init", "complete", "verify", "status"}
         /\ j.op = "verify" => j = VerifyJob
         /\ VerifyJob.op = "verify" /\ StatusJob.op = "status"
BY ChecklistAssumption DEF AllJobs, InitJob, CompleteJob, VerifyJob, StatusJob

LEMMA JobPlans ==
  ASSUME NEW j \in Jobs, j.op = "init"
  PROVE  j.plan \in Functions(Ids, Cmds)
BY ChecklistAssumption DEF AllJobs, InitJob, CompleteJob, VerifyJob, StatusJob, Plans

LEMMA ItemOfList ==
  ASSUME NEW l \in Lists, NEW i \in DOMAIN l
  PROVE  /\ l[i] \in Item
         /\ l[i].verify \in Cmds /\ l[i].evidence \in Cmds \cup {NoCmd}
<1>1. l[i] \in Item
  BY FunctionsAre DEF Lists
<1>. QED
  BY <1>1 DEF Item

LEMMA NoItemsProven == AllProven(NoItems) /\ NoItems \in Lists /\ DOMAIN NoItems = {}
<1>1. NoItems \in [{} -> Item] /\ DOMAIN NoItems = {}
  BY DEF NoItems
<1>. QED
  BY <1>1, FunctionsAre DEF AllProven, Lists

LEMMA ProvenInit == Init => ProvenInv
BY NoItemsProven DEF Init, ProvenInv, Shape, FlipReady, NoVerifyRuns

(***************************************************************************)
(* An exiting process forgets what it has read.                            *)
(***************************************************************************)
LEMMA ExitKeepsProven ==
  ASSUME ProvenInv, NEW p \in Procs, NEW code, Exit(p, code), AllProven(list'), list' \in Lists
  PROVE  ProvenInv'
<1>1. Shape'
  BY NoItemsProven DEF Exit, ProvenInv, Shape
<1>2. \A q \in Procs : AllProven(snap'[q])
  BY NoItemsProven DEF Exit, ProvenInv, Shape
<1>3. FlipReady'
  BY DEF Exit, ProvenInv, Shape, FlipReady
<1>4. NoVerifyRuns'
  BY DEF Exit, ProvenInv, Shape, NoVerifyRuns
<1>. QED
  BY <1>1, <1>2, <1>3, <1>4 DEF ProvenInv

LEMMA ProvenNext ==
  ASSUME VerifyJob \notin Jobs
  PROVE  ProvenInv /\ [Next]_vars => ProvenInv'
<1>. SUFFICES ASSUME ProvenInv, [Next]_vars PROVE ProvenInv'
  OBVIOUS
<1>1. CASE UNCHANGED vars
  BY <1>1 DEF vars, file, memory, ProvenInv, Shape, FlipReady, NoVerifyRuns
<1>2. ASSUME NEW c \in Cmds, Change(c)
      PROVE  ProvenInv'
  BY <1>2 DEF Change, file, memory, ProvenInv, Shape, FlipReady, NoVerifyRuns
<1>3. CASE Break
  BY <1>3, NoItemsProven DEF Break, memory, ProvenInv, Shape, FlipReady, NoVerifyRuns
<1>4. ASSUME NEW p \in Procs, Run(p) \/ Crash(p)
      PROVE  ProvenInv'
  <2>. job[p] # VerifyJob /\ job[p].op # "verify" /\ AllProven(list)
    BY JobOps DEF ProvenInv, Shape
  <2>1. CASE TakeLock(p) \/ GiveUpLock(p)
    <3>1. job[p].op = "complete" => AfterLock(p) = "reread"
      BY DEF AfterLock
    <3>2. AfterLock(p) \in {"write", "reread"}
      BY DEF AfterLock
    <3>. QED
      BY <2>1, <3>1, <3>2
      DEF TakeLock, GiveUpLock, Goto, file, memory, ProvenInv, Shape, FlipReady, NoVerifyRuns
  <2>2. CASE BeginInit(p)
    BY <2>2 DEF BeginInit, Goto, file, memory, ProvenInv, Shape, FlipReady, NoVerifyRuns
  <2>3. CASE WriteInit(p)
    <3> DEFINE plan == job[p].plan
               Fresh(i) == [verify |-> plan[i], passes |-> FALSE, evidence |-> NoCmd]
    <3>1. plan \in Functions(Ids, Cmds)
      BY <2>3, JobPlans DEF WriteInit, ProvenInv, Shape
    <3>2. DOMAIN plan \subseteq Ids /\ \A i \in DOMAIN plan : plan[i] \in Cmds
      BY <3>1, FunctionsAre
    <3>3. list' = [i \in DOMAIN plan |-> Fresh(i)] /\ Exit(p, 0)
      BY <2>3 DEF WriteInit, Replace
    <3>4. \A i \in DOMAIN plan : Fresh(i) \in Item /\ Fresh(i).passes = FALSE
      BY <3>2 DEF Item
    <3>. HIDE DEF plan, Fresh
    <3>5. list' \in Lists
      BY <3>2, <3>3, <3>4, FunctionsAre DEF Lists
    <3>6. AllProven(list')
      BY <3>3, <3>4 DEF AllProven
    <3>. QED
      BY <3>3, <3>5, <3>6, ExitKeepsProven
  <2>4. CASE BeginComplete(p)
    <3>1. PICK c : cmd' = [cmd EXCEPT ![p] = c]
      BY <2>4 DEF BeginComplete
    <3>2. cmd' \in [Procs -> Cmds \cup {NoCmd}]
      <4>1. list[job[p].id].verify \in Cmds
        BY <2>4, ItemOfList DEF BeginComplete, ProvenInv, Shape
      <4>. QED
        BY <2>4, <4>1 DEF BeginComplete, ProvenInv, Shape
    <3>. QED
      BY <2>4, <3>2 DEF BeginComplete, Goto, file, ProvenInv, Shape, FlipReady, NoVerifyRuns
  <2>5. CASE RunComplete(p)
    BY <2>5 DEF RunComplete, Goto, file, memory, ProvenInv, Shape, FlipReady, NoVerifyRuns
  <2>6. CASE RereadComplete(p)
    BY <2>6 DEF RereadComplete, Goto, file, ProvenInv, Shape, FlipReady, NoVerifyRuns
  <2>7. CASE WriteComplete(p)
    <3> DEFINE s == snap[p]
               i == job[p].id
               item == Proven(s[i], cmd[p])
    <3>1. s \in Lists /\ i \in DOMAIN s /\ s[i].verify = cmd[p] /\ AllProven(s)
      BY <2>7 DEF WriteComplete, ProvenInv, Shape, FlipReady
    <3>2. item \in Item /\ item.evidence = item.verify
      BY <3>1, ItemOfList DEF Proven, Item
    <3>3. list' = [s EXCEPT ![i] = item]
      BY <2>7 DEF WriteComplete, Replace
    <3>. HIDE DEF s, i, item
    <3>4. list' \in Lists /\ AllProven(list')
      <4>1. DOMAIN s \in SUBSET Ids /\ s \in [DOMAIN s -> Item]
        BY <3>1, FunctionsAre DEF Lists
      <4>2. list' \in [DOMAIN s -> Item]
        BY <3>2, <3>3, <4>1
      <4>. QED
        BY <3>1, <3>2, <3>3, <4>1, <4>2, FunctionsAre DEF Lists, AllProven
    <3>5. Shape'
      BY <2>7, <3>4, NoItemsProven DEF WriteComplete, ProvenInv, Shape
    <3>6. \A q \in Procs : AllProven(snap'[q])
      BY <2>7, NoItemsProven DEF WriteComplete, ProvenInv, Shape
    <3>7. FlipReady'
      BY <2>7 DEF WriteComplete, ProvenInv, Shape, FlipReady
    <3>8. NoVerifyRuns'
      BY <2>7 DEF WriteComplete, ProvenInv, Shape, NoVerifyRuns
    <3>. QED
      BY <3>4, <3>5, <3>6, <3>7, <3>8 DEF ProvenInv
  <2>8. CASE \/ RefuseComplete(p) \/ FailComplete(p) \/ RefuseFlip(p) \/ Status(p)
             \/ FailWrite(p) \/ Crash(p)
    <3>1. list' = list /\ \E code : Exit(p, code)
      BY <2>8
      DEF RefuseComplete, FailComplete, RefuseFlip, Status, FailWrite, Crash, file
    <3>2. list' \in Lists /\ AllProven(list')
      BY <3>1 DEF ProvenInv, Shape, AllProven
    <3>. QED
      BY <3>1, <3>2, ExitKeepsProven
  <2>9. CASE Verify(p)
    <3>1. pc[p] \notin {"runall"}
      BY DEF ProvenInv, NoVerifyRuns
    <3>. QED
      BY <2>9, <3>1
      DEF Verify, BeginVerify, SkipVerify, RunAll, RereadVerify, WriteVerify, RunOne, Goto
  <2>. QED
    BY <1>4, <2>1, <2>2, <2>3, <2>4, <2>5, <2>6, <2>7, <2>8, <2>9 DEF Run, Complete
<1>. QED
  BY <1>1, <1>2, <1>3, <1>4 DEF Next

(***************************************************************************)
(* "No PASS without proof", for `complete`: whatever replans, failures,    *)
(* crashes and unlocked writes it runs into, it never leaves a pass whose  *)
(* evidence is not the item's own command.  (With `verify` jobs this fails *)
(* already on small instances.)                                            *)
(***************************************************************************)
THEOREM CompletionsAreProven ==
  ASSUME VerifyJob \notin Jobs
  PROVE  Spec => []PassIsProven
<1>1. ProvenInv => PassIsProven
  BY DEF ProvenInv, AllProven, PassIsProven
<1>. QED
  BY <1>1, ProvenInit, ProvenNext, PTL DEF Spec

-----------------------------------------------------------------------------
(***************************************************************************)
(* Exclusion.  A process past its lock holds it, and what it has read      *)
(* under the lock is what the file says.                                   *)
(***************************************************************************)
Labelled ==
  /\ pc \in [Procs -> {"idle", "run", "runall", "lock", "reread", "write", "done"}]
  /\ job \in [Procs -> Jobs]
  /\ DOMAIN snap = Procs

HolderOnly == \A p \in Procs : pc[p] \in {"reread", "write"} => holder = p

SnapIsList ==
  \A p \in Procs :
     pc[p] = "write" => /\ job[p].op # "init" => snap[p] = list
                        /\ job[p].op = "complete" => job[p].id \in DOMAIN list

LockInv == Labelled /\ HolderOnly /\ SnapIsList

LEMMA LockInit == Init => LockInv
BY ChecklistAssumption DEF Init, LockInv, Labelled, HolderOnly, SnapIsList

(***************************************************************************)
(* A process that exits was the holder if it wrote.                        *)
(***************************************************************************)
LEMMA ExitKeepsLock ==
  ASSUME LockInv, NEW p \in Procs, NEW code, Exit(p, code),
         list' = list \/ pc[p] = "write"
  PROVE  LockInv'
<1>1. Labelled'
  BY DEF Exit, LockInv, Labelled
<1>2. HolderOnly'
  BY DEF Exit, LockInv, Labelled, HolderOnly
<1>3. SnapIsList'
  BY DEF Exit, LockInv, Labelled, HolderOnly, SnapIsList
<1>. QED
  BY <1>1, <1>2, <1>3 DEF LockInv

LEMMA LockNext ==
  ASSUME "lock" \notin Faults, "edit" \notin Faults
  PROVE  LockInv /\ [Next]_vars => LockInv'
<1>. SUFFICES ASSUME LockInv, [Next]_vars PROVE LockInv'
  OBVIOUS
<1>1. CASE UNCHANGED vars
  BY <1>1 DEF vars, file, memory, LockInv, Labelled, HolderOnly, SnapIsList
<1>2. ASSUME NEW c \in Cmds, Change(c)
      PROVE  LockInv'
  BY <1>2 DEF Change, file, memory, LockInv, Labelled, HolderOnly, SnapIsList
<1>3. CASE Break
  BY <1>3 DEF Break
<1>4. ASSUME NEW p \in Procs, Run(p) \/ Crash(p)
      PROVE  LockInv'
  <2>. job[p] \in Jobs
    BY DEF LockInv, Labelled
  <2>1. CASE TakeLock(p)
    <3>1. AfterLock(p) \in {"write", "reread"} /\ (AfterLock(p) = "write" => job[p].op = "init")
      BY DEF AfterLock
    <3>2. \A q \in Procs : pc[q] \notin {"reread", "write"}
      BY <2>1, ChecklistAssumption DEF TakeLock, LockInv, HolderOnly
    <3>. QED
      BY <2>1, <3>1, <3>2
      DEF TakeLock, Goto, file, memory, LockInv, Labelled, HolderOnly, SnapIsList
  <2>2. CASE GiveUpLock(p)
    BY <2>2 DEF GiveUpLock
  <2>3. CASE BeginInit(p) \/ BeginComplete(p) \/ RunComplete(p) \/ BeginVerify(p) \/ RunAll(p)
    BY <2>3 DEF BeginInit, BeginComplete, RunComplete, BeginVerify, RunAll, Goto, file, memory,
                LockInv, Labelled, HolderOnly, SnapIsList
  <2>4. ASSUME NEW i \in Ids, RunOne(p, i)
        PROVE  LockInv'
    BY <2>4 DEF RunOne, file, LockInv, Labelled, HolderOnly, SnapIsList
  <2>5. CASE RereadComplete(p)
    BY <2>5 DEF RereadComplete, Goto, file, LockInv, Labelled, HolderOnly, SnapIsList
  <2>6. CASE RereadVerify(p)
    BY <2>6, JobOps DEF RereadVerify, Goto, file, LockInv, Labelled, HolderOnly, SnapIsList
  <2>7. CASE WriteComplete(p)
    <3>1. Labelled'
      BY <2>7 DEF WriteComplete, LockInv, Labelled
    <3>2. HolderOnly'
      BY <2>7 DEF WriteComplete, LockInv, Labelled, HolderOnly
    <3>3. SnapIsList'
      BY <2>7 DEF WriteComplete, LockInv, Labelled, HolderOnly, SnapIsList
    <3>. QED
      BY <3>1, <3>2, <3>3 DEF LockInv
  <2>8. CASE WriteInit(p) \/ WriteVerify(p)
    <3>1. pc[p] = "write" /\ \E code : Exit(p, code)
      BY <2>8 DEF WriteInit, WriteVerify
    <3>. QED
      BY <3>1, ExitKeepsLock
  <2>9. CASE \/ RefuseComplete(p) \/ FailComplete(p) \/ RefuseFlip(p) \/ SkipVerify(p)
             \/ Status(p) \/ FailWrite(p) \/ Crash(p)
    <3>1. list' = list /\ \E code : Exit(p, code)
      BY <2>9
      DEF RefuseComplete, FailComplete, RefuseFlip, SkipVerify, Status, FailWrite, Crash, file
    <3>. QED
      BY <3>1, ExitKeepsLock
  <2>. QED
    BY <1>4, <2>1, <2>2, <2>3, <2>4, <2>5, <2>6, <2>7, <2>8, <2>9 DEF Run, Complete, Verify
<1>. QED
  BY <1>1, <1>2, <1>3, <1>4 DEF Next

(***************************************************************************)
(* Neither merge of the code changes an id or a verify command.            *)
(***************************************************************************)
LEMMA ReplanStep ==
  ASSUME "edit" \notin Faults, LockInv, Next, ~ \E p \in Procs : WriteInit(p)
  PROVE  Plan' = Plan
<1>1. SUFFICES ASSUME list' # list PROVE Plan' = Plan
  BY DEF Plan
<1>2. PICK p \in Procs : WriteComplete(p) \/ WriteVerify(p)
  <2>1. ~Break /\ \A c \in Cmds : ~Change(c)
    BY <1>1 DEF Break, Change, file
  <2>2. PICK p \in Procs : Run(p) \/ Crash(p)
    BY <2>1 DEF Next
  <2>3. /\ ~BeginInit(p) /\ ~Status(p) /\ ~TakeLock(p) /\ ~GiveUpLock(p) /\ ~FailWrite(p)
        /\ ~Crash(p)
    BY <1>1 DEF BeginInit, Status, TakeLock, GiveUpLock, FailWrite, Crash, file
  <2>4. Complete(p) => WriteComplete(p)
    BY <1>1 DEF Complete, BeginComplete, RefuseComplete, RunComplete, FailComplete,
                RereadComplete, RefuseFlip, file
  <2>5. Verify(p) => WriteVerify(p)
    BY <1>1 DEF Verify, BeginVerify, SkipVerify, RunAll, RereadVerify, RunOne, file
  <2>. QED
    BY <2>2, <2>3, <2>4, <2>5 DEF Run
<1>3. CASE WriteComplete(p)
  <2>1. list' = [list EXCEPT ![job[p].id] = Proven(list[job[p].id], cmd[p])]
    BY <1>3 DEF WriteComplete, Replace, LockInv, SnapIsList
  <2>2. DOMAIN list' = DOMAIN list /\ \A i \in DOMAIN list : list'[i].verify = list[i].verify
    BY <2>1 DEF Proven
  <2>. QED
    BY <2>2 DEF Plan
<1>4. CASE WriteVerify(p)
  <2>1. list' = Rejudged(list, got[p])
    BY <1>1, <1>4, JobOps DEF WriteVerify, Replace, LockInv, SnapIsList, Labelled, file
  <2>2. DOMAIN list' = DOMAIN list /\ \A i \in DOMAIN list : list'[i].verify = list[i].verify
    BY <2>1 DEF Rejudged
  <2>. QED
    BY <2>2 DEF Plan
<1>. QED
  BY <1>2, <1>3, <1>4

(***************************************************************************)
(* With working locks and no hand edits, complete and verify never undo a  *)
(* replan: what is to be done, and by which command it is verified, is     *)
(* decided by init alone.                                                  *)
(***************************************************************************)
THEOREM PlansSurvive ==
  ASSUME "lock" \notin Faults, "edit" \notin Faults
  PROVE  Spec => OnlyInitReplans
<1>1. LockInv /\ [Next]_vars => [Plan' # Plan => \E p \in Procs : WriteInit(p)]_vars
  BY ReplanStep
<1>. QED
  BY <1>1, LockInit, LockNext, PTL DEF Spec, OnlyInitReplans

-----------------------------------------------------------------------------
(***************************************************************************)
(* Types.  A file that is written has items: a plan is never empty, the    *)
(* item that is flipped is there, and a merge that changes an item has     *)
(* one.                                                                    *)
(***************************************************************************)
Flippable ==
  \A p \in Procs :
    pc[p] = "write" /\ job[p].op = "complete" => job[p].id \in DOMAIN snap[p]

TypeInv == TypeOK /\ Flippable

LEMMA PlansAreNotEmpty ==
  ASSUME NEW j \in Jobs, j.op = "init"
  PROVE  DOMAIN j.plan # {}
<1>1. PICK f \in Plans : j = InitJob(f)
  BY ChecklistAssumption DEF AllJobs, InitJob, CompleteJob, VerifyJob, StatusJob
<1>2. f \in Functions(Ids, Cmds) /\ f # [i \in {} |-> NoCmd]
  BY DEF Plans
<1>3. f = [i \in DOMAIN f |-> f[i]]
  BY <1>2, FunctionsAre
<1>4. DOMAIN f # {}
  <2> SUFFICES ASSUME DOMAIN f = {} PROVE f = [i \in {} |-> NoCmd]
    BY <1>2
  <2> QED
    BY <1>3
<1> QED
  BY <1>1, <1>4 DEF InitJob

LEMMA JobIds ==
  ASSUME NEW j \in Jobs, j.op = "complete"
  PROVE  j.id \in Ids
BY ChecklistAssumption DEF AllJobs, InitJob, CompleteJob, VerifyJob, StatusJob

LEMMA NothingTyped ==
  /\ NoItems \in Lists /\ NoItems \in Functions(Ids, Cmds) /\ NoItems \in Results
  /\ DOMAIN NoItems = {}
<1>1. \A R : NoItems \in [{} -> R]
  BY DEF NoItems
<1> QED
  BY <1>1, FunctionsAre, NoItemsProven DEF Lists, Results

(***************************************************************************)
(* An item, once written, is an item.                                      *)
(***************************************************************************)
LEMMA ListOf ==
  ASSUME NEW S \in SUBSET Ids, NEW l, l = [i \in S |-> l[i]], \A i \in S : l[i] \in Item
  PROVE  l \in Lists /\ DOMAIN l = S
BY FunctionsAre DEF Lists

LEMMA RejudgedTyped ==
  ASSUME NEW l \in Lists, NEW g \in Results
  PROVE  /\ Rejudged(l, g) \in Lists /\ DOMAIN Rejudged(l, g) = DOMAIN l
         /\ Rejudged(l, g) # l => DOMAIN l # {}
<1>1. DOMAIN l \in SUBSET Ids /\ l = [i \in DOMAIN l |-> l[i]] /\ \A i \in DOMAIN l : l[i] \in Item
  BY FunctionsAre DEF Lists
<1> DEFINE R == [verify : Cmds, ok : BOOLEAN]
<1>2. \A i \in DOMAIN g : g[i].verify \in Cmds /\ g[i].ok \in BOOLEAN
  <2>1. g \in Functions(Ids, R)
    BY DEF Results
  <2> HIDE DEF R
  <2>2. \A i \in DOMAIN g : g[i] \in R
    BY <2>1, FunctionsAre
  <2> QED
    BY <2>2 DEF R
<1> DEFINE new(i) == IF i \in DOMAIN g /\ l[i].passes # g[i].ok
                       THEN [verify |-> l[i].verify, passes |-> g[i].ok, evidence |-> g[i].verify]
                       ELSE l[i]
<1>3. ASSUME NEW i \in DOMAIN l PROVE new(i) \in Item
  <2>1. l[i] \in Item
    BY <1>1
  <2>2. CASE i \in DOMAIN g /\ l[i].passes # g[i].ok
    <3>1. l[i].verify \in Cmds
      BY <2>1 DEF Item
    <3>2. [verify |-> l[i].verify, passes |-> g[i].ok, evidence |-> g[i].verify] \in Item
      BY <1>2, <2>2, <3>1 DEF Item
    <3> QED
      BY <2>2, <3>2
  <2>3. CASE ~(i \in DOMAIN g /\ l[i].passes # g[i].ok)
    BY <2>1, <2>3
  <2> QED
    BY <2>2, <2>3
<1>4. Rejudged(l, g) = [i \in DOMAIN l |-> new(i)]
  BY DEF Rejudged
<1> HIDE DEF new
<1>5. DOMAIN Rejudged(l, g) = DOMAIN l /\ \A i \in DOMAIN l : Rejudged(l, g)[i] \in Item
  BY <1>3, <1>4
<1>6. Rejudged(l, g) \in Lists
  BY <1>1, <1>4, <1>5, ListOf
<1>7. DOMAIN l = {} => Rejudged(l, g) = l
  BY <1>1, <1>4
<1> QED
  BY <1>5, <1>6, <1>7

LEMMA TypeInit == Init => TypeInv
<1> SUFFICES ASSUME Init PROVE TypeInv
  OBVIOUS
<1> QED
  BY NothingTyped DEF Init, TypeInv, TypeOK, Flippable

LEMMA ExitKeepsTypes ==
  ASSUME TypeInv, NEW p \in Procs, NEW code \in {NoCode, 0, 1, 2, 3, Killed}, Exit(p, code),
         list' \in Lists, form' \in {"absent", "broken", "list"},
         form' = "list" <=> DOMAIN list' # {}
  PROVE  TypeInv'
<1>1. TypeOK'
  BY NothingTyped DEF Exit, TypeInv, TypeOK
<1>2. Flippable'
  BY DEF Exit, TypeInv, TypeOK, Flippable
<1> QED
  BY <1>1, <1>2 DEF TypeInv

(***************************************************************************)
(* The steps that read, run and lock.                                      *)
(***************************************************************************)
LEMMA ReadingKeepsTypes ==
  ASSUME TypeInv, NEW p \in Procs,
         \/ TakeLock(p) \/ GiveUpLock(p) \/ BeginInit(p) \/ BeginComplete(p) \/ RunComplete(p)
         \/ RereadComplete(p) \/ BeginVerify(p) \/ RunAll(p) \/ RereadVerify(p)
         \/ \E i \in Ids : RunOne(p, i)
  PROVE  TypeInv'
<1> USE DEF TypeInv, Goto, file, memory
<1>1. CASE TakeLock(p) \/ GiveUpLock(p)
  <2>1. AfterLock(p) \in {"write", "reread"} /\ (AfterLock(p) = "write" => job[p].op = "init")
    BY DEF AfterLock
  <2> QED
    BY <1>1, <2>1 DEF TakeLock, GiveUpLock, TypeOK, Flippable
<1>2. CASE BeginInit(p) \/ RunComplete(p) \/ RunAll(p)
  BY <1>2 DEF BeginInit, RunComplete, RunAll, TypeOK, Flippable
<1>3. CASE BeginComplete(p)
  <2>1. list[job[p].id].verify \in Cmds
    BY <1>3, ItemOfList DEF BeginComplete, TypeOK
  <2> QED
    BY <1>3, <2>1 DEF BeginComplete, TypeOK, Flippable
<1>4. CASE RereadComplete(p) \/ RereadVerify(p)
  BY <1>4, JobOps DEF RereadComplete, RereadVerify, TypeOK, Flippable
<1>5. CASE BeginVerify(p)
  <2> DEFINE f == [i \in DOMAIN list |-> list[i].verify]
  <2>1. DOMAIN list \in SUBSET Ids /\ \A i \in DOMAIN list : list[i].verify \in Cmds
    BY FunctionsAre, ItemOfList DEF TypeOK, Lists
  <2>2. f \in [DOMAIN list -> Cmds]
    BY <2>1
  <2>3. f \in Functions(Ids, Cmds)
    BY <2>1, <2>2, FunctionsAre
  <2>4. todo' = [todo EXCEPT ![p] = f]
    BY <1>5 DEF BeginVerify
  <2> HIDE DEF f
  <2>5. todo' \in [Procs -> Functions(Ids, Cmds)]
    BY <2>3, <2>4 DEF TypeOK
  <2> QED
    BY <1>5, <2>5 DEF BeginVerify, TypeOK, Flippable
<1>6. ASSUME NEW i \in Ids, RunOne(p, i) PROVE TypeInv'
  <2> DEFINE t == todo[p]  g == got[p]
             r == [verify |-> t[i], ok |-> sane[t[i]]]
             gg == [j \in DOMAIN g \cup {i} |-> IF j = i THEN r ELSE g[j]]
             tt == [j \in DOMAIN t \ {i} |-> t[j]]
             R == [verify : Cmds, ok : BOOLEAN]
  <2>1. t \in Functions(Ids, Cmds) /\ g \in Functions(Ids, R) /\ i \in DOMAIN t
    BY <1>6 DEF RunOne, TypeOK, Results
  <2>2. DOMAIN t \in SUBSET Ids /\ t \in [DOMAIN t -> Cmds]
    BY <2>1, FunctionsAre
  <2> HIDE DEF R
  <2>3. DOMAIN g \in SUBSET Ids /\ g \in [DOMAIN g -> R]
    BY <2>1, FunctionsAre
  <2>4. r \in R
    BY <2>1, <2>2 DEF TypeOK, R
  <2>5. got' = [got EXCEPT ![p] = gg] /\ todo' = [todo EXCEPT ![p] = tt]
    BY <1>6 DEF RunOne, TypeOK
  <2> HIDE DEF t, g, r
  <2>6. gg \in [DOMAIN g \cup {i} -> R]
    BY <2>3, <2>4
  <2>7. tt \in [DOMAIN t \ {i} -> Cmds]
    BY <2>2
  <2>8. gg \in Functions(Ids, R) /\ tt \in Functions(Ids, Cmds)
    <3>1. DOMAIN g \cup {i} \in SUBSET Ids /\ DOMAIN t \ {i} \in SUBSET Ids
      BY <2>2, <2>3
    <3> HIDE DEF gg, tt
    <3> QED
      BY <2>6, <2>7, <3>1, FunctionsAre
  <2> HIDE DEF gg, tt
  <2>9. got' \in [Procs -> Results] /\ todo' \in [Procs -> Functions(Ids, Cmds)]
    BY <2>5, <2>8 DEF TypeOK, Results, R
  <2> QED
    BY <1>6, <2>9 DEF RunOne, TypeOK, Flippable
<1> QED
  BY <1>1, <1>2, <1>3, <1>4, <1>5, <1>6

LEMMA TypeNext == TypeInv /\ [Next]_vars => TypeInv'
<1> SUFFICES ASSUME TypeInv, [Next]_vars PROVE TypeInv'
  OBVIOUS
<1>1. CASE UNCHANGED vars
  BY <1>1 DEF vars, file, memory, TypeInv, TypeOK, Flippable
<1>2. ASSUME NEW c \in Cmds, Change(c) PROVE TypeInv'
  <2>1. sane' \in [Cmds -> BOOLEAN]
    BY <1>2 DEF Change, TypeInv, TypeOK
  <2> QED
    BY <1>2, <2>1 DEF Change, file, memory, TypeInv, TypeOK, Flippable
<1>3. CASE Break
  BY <1>3, NothingTyped DEF Break, memory, TypeInv, TypeOK, Flippable
<1>4. ASSUME NEW p \in Procs, Run(p) \/ Crash(p) PROVE TypeInv'
  <2>0. job[p] \in Jobs /\ snap[p] \in Lists /\ got[p] \in Results /\ cmd[p] \in Cmds \cup {NoCmd}
    BY DEF TypeInv, TypeOK
  <2>1. CASE WriteInit(p)
    <3> DEFINE plan == job[p].plan
               item(i) == [verify |-> plan[i], passes |-> FALSE, evidence |-> NoCmd]
    <3>1. plan \in Functions(Ids, Cmds) /\ DOMAIN plan # {}
      BY <2>0, <2>1, JobPlans, PlansAreNotEmpty DEF WriteInit
    <3>2. DOMAIN plan \in SUBSET Ids /\ \A i \in DOMAIN plan : plan[i] \in Cmds
      BY <3>1, FunctionsAre
    <3>3. list' = [i \in DOMAIN plan |-> item(i)] /\ form' = "list" /\ Exit(p, 0)
      BY <2>1 DEF WriteInit, Replace
    <3>4. \A i \in DOMAIN plan : item(i) \in Item
      BY <3>2 DEF Item
    <3> HIDE DEF plan, item
    <3>5. list' \in Lists /\ DOMAIN list' # {}
      BY <3>1, <3>2, <3>3, <3>4, ListOf
    <3> QED
      BY <3>3, <3>5, ExitKeepsTypes
  <2>2. CASE WriteComplete(p)
    <3> DEFINE s == snap[p]
               i == job[p].id
               item == Proven(s[i], cmd[p])
    <3>1. s \in Lists /\ i \in DOMAIN s /\ i \in Ids
      BY <2>0, <2>2, JobIds DEF WriteComplete, TypeInv, Flippable
    <3>2. item \in Item
      BY <2>0, <3>1, ItemOfList DEF Proven, Item
    <3>3. list' = [s EXCEPT ![i] = item] /\ form' = "list"
      BY <2>2 DEF WriteComplete, Replace
    <3>4. DOMAIN s \in SUBSET Ids /\ s \in [DOMAIN s -> Item]
      BY <3>1, FunctionsAre DEF Lists
    <3>5. list' \in Lists /\ DOMAIN list' # {}
      <4> HIDE DEF s, i, item
      <4>1. list' \in [DOMAIN s -> Item]
        BY <3>2, <3>3, <3>4
      <4> QED
        BY <3>1, <3>4, <4>1, FunctionsAre DEF Lists
    <3>6. late' \in [Procs -> SUBSET Ids]
      BY <2>2, <3>1 DEF WriteComplete, TypeInv, TypeOK
    <3>7. snap' \in [Procs -> Lists] /\ cmd' \in [Procs -> Cmds \cup {NoCmd}]
      BY <2>2, NothingTyped DEF WriteComplete, TypeInv, TypeOK
    <3>8. TypeOK'
      BY <2>2, <3>3, <3>5, <3>6, <3>7 DEF WriteComplete, TypeInv, TypeOK
    <3>9. Flippable'
      BY <2>2 DEF WriteComplete, TypeInv, TypeOK, Flippable
    <3> QED
      BY <3>8, <3>9 DEF TypeInv
  <2>3. CASE WriteVerify(p)
    <3>1. VerifyCode(p) \in {NoCode, 0, 1, 2, 3, Killed} /\ Exit(p, VerifyCode(p))
      BY <2>3 DEF WriteVerify, VerifyCode
    <3>2. CASE Rejudged(snap[p], got[p]) = snap[p]
      BY <2>3, <3>1, <3>2, ExitKeepsTypes DEF WriteVerify, file, TypeInv, TypeOK
    <3>3. CASE Rejudged(snap[p], got[p]) # snap[p]
      <4>1. list' = Rejudged(snap[p], got[p]) /\ form' = "list"
        BY <2>3, <3>3 DEF WriteVerify, Replace
      <4>2. list' \in Lists /\ DOMAIN list' # {}
        BY <2>0, <3>3, <4>1, RejudgedTyped
      <4> QED
        BY <3>1, <4>1, <4>2, ExitKeepsTypes
    <3> QED
      BY <3>2, <3>3
  <2>4. CASE \/ RefuseComplete(p) \/ FailComplete(p) \/ RefuseFlip(p) \/ SkipVerify(p)
             \/ Status(p) \/ FailWrite(p) \/ Crash(p)
    <3>1. file' = file /\ \E code \in {NoCode, 0, 1, 2, 3, Killed} : Exit(p, code)
      BY <2>4 DEF RefuseComplete, FailComplete, RefuseFlip, SkipVerify, Status, StatusCode,
                  FailWrite, Crash, file
    <3> QED
      BY <3>1, ExitKeepsTypes DEF file, TypeInv, TypeOK
  <2> QED
    BY <1>4, <2>1, <2>2, <2>3, <2>4, ReadingKeepsTypes DEF Run, Complete, Verify
<1> QED
  BY <1>1, <1>2, <1>3, <1>4 DEF Next

(***************************************************************************)
(* Every variable of checklist.py's commands always has its type; a file   *)
(* that is a list has items, under every fault.                            *)
(***************************************************************************)
THEOREM ChecklistTypes == Spec => []TypeOK
<1>1. TypeInv => TypeOK
  BY DEF TypeInv
<1> QED
  BY <1>1, TypeInit, TypeNext, PTL DEF Spec

-----------------------------------------------------------------------------
(***************************************************************************)
(* Without hand edits a file is absent or a list.                          *)
(***************************************************************************)
Whole == "edit" \in Faults \/ form # "broken"

LEMMA WholeNext == Whole /\ [Next]_vars => Whole'
<1> SUFFICES ASSUME Whole, [Next]_vars, form' # form PROVE form' = "list" \/ "edit" \in Faults
  BY DEF Whole
<1>1. Break \/ \E p \in Procs : Run(p) \/ Crash(p)
  BY DEF Next, vars, file, Change
<1>2. CASE Break
  BY <1>2 DEF Break
<1>3. ASSUME NEW p \in Procs, Crash(p) PROVE form' = "list" \/ "edit" \in Faults
  BY <1>3 DEF Crash, file
<1>4. ASSUME NEW p \in Procs, Run(p) PROVE form' = "list" \/ "edit" \in Faults
  BY <1>4 DEF Run, BeginInit, WriteInit, Complete, Verify, Status, TakeLock, GiveUpLock, FailWrite,
              BeginComplete, RefuseComplete, RunComplete, FailComplete, RereadComplete, RefuseFlip,
              WriteComplete, BeginVerify, SkipVerify, RunAll, RereadVerify, WriteVerify, RunOne,
              Replace, file
<1> QED
  BY <1>1, <1>2, <1>3, <1>4

(***************************************************************************)
(* Only `status` and `verify` exit with 3.                                 *)
(***************************************************************************)
LEMMA SkipStep ==
  ASSUME VerifyJob \notin Jobs \/ "edit" \notin Faults, TypeInv, Whole, [Next]_vars,
         NEW p \in Procs, answer[p] = NoCode, answer'[p] = 3
  PROVE  form = "absent"
<1>1. answer' # answer
  BY DEF NoCode
<1>2. PICK q \in Procs : (Run(q) \/ Crash(q)) /\ answer' # answer
  <2>1. ~Break /\ (\A c \in Cmds : ~Change(c)) /\ ~UNCHANGED vars
    BY <1>1 DEF Break, Change, vars
  <2> QED
    BY <1>1, <2>1 DEF Next
<1>3. PICK code :
        /\ answer' = [answer EXCEPT ![q] = code]
        /\ code = 3 => SkipVerify(q) \/ (Status(q) /\ StatusCode = 3)
  <2>1. ~BeginInit(q) /\ ~TakeLock(q) /\ ~GiveUpLock(q)
    BY <1>1 DEF BeginInit, TakeLock, GiveUpLock
  <2>2. CASE WriteInit(q) \/ FailWrite(q) \/ Crash(q)
    <3>1. PICK code \in {0, 2, Killed} : Exit(q, code)
      BY <2>2 DEF WriteInit, FailWrite, Crash
    <3>2. code # 3
      BY DEF Killed
    <3> QED
      BY <3>1, <3>2 DEF Exit
  <2>3. CASE Complete(q)
    <3>1. ~BeginComplete(q) /\ ~RunComplete(q) /\ ~RereadComplete(q)
      BY <1>1 DEF BeginComplete, RunComplete, RereadComplete
    <3>2. RefuseComplete(q) \/ FailComplete(q) \/ RefuseFlip(q) \/ WriteComplete(q)
      BY <2>3, <3>1 DEF Complete
    <3>3. PICK code \in {0, 1, 2} : answer' = [answer EXCEPT ![q] = code]
      <4>1. CASE RefuseComplete(q) \/ FailComplete(q) \/ RefuseFlip(q)
        <5>1. Exit(q, 1) \/ Exit(q, 2)
          BY <4>1 DEF RefuseComplete, FailComplete, RefuseFlip
        <5> QED
          BY <5>1 DEF Exit
      <4>2. CASE WriteComplete(q)
        BY <4>2 DEF WriteComplete
      <4> QED
        BY <3>2, <4>1, <4>2
    <3>4. code # 3
      OBVIOUS
    <3> QED
      BY <3>3, <3>4
  <2>4. CASE Verify(q)
    <3>1. ~BeginVerify(q) /\ ~RunAll(q) /\ ~RereadVerify(q) /\ \A i \in Ids : ~RunOne(q, i)
      BY <1>1 DEF BeginVerify, RunAll, RereadVerify, RunOne
    <3>2. CASE SkipVerify(q)
      BY <3>2 DEF SkipVerify, Exit
    <3>3. CASE WriteVerify(q)
      <4>1. VerifyCode(q) # 3 /\ Exit(q, VerifyCode(q))
        BY <3>3 DEF WriteVerify, VerifyCode
      <4> QED
        BY <4>1 DEF Exit
    <3> QED
      BY <2>4, <3>1, <3>2, <3>3 DEF Verify
  <2>5. CASE Status(q)
    BY <2>5 DEF Status, Exit
  <2> QED
    BY <1>2, <2>1, <2>2, <2>3, <2>4, <2>5 DEF Run
<1>4. code = 3
  <2>1. answer \in [Procs -> {NoCode, 0, 1, 2, 3, Killed}]
    BY DEF TypeInv, TypeOK
  <2>2. answer' = [answer EXCEPT ![q] = code]
    BY <1>3
  <2>3. answer'[p] # answer[p]
    BY DEF NoCode
  <2> QED
    BY <2>1, <2>2, <2>3
<1>5. CASE Status(q) /\ StatusCode = 3
  BY <1>5 DEF StatusCode
<1>6. CASE SkipVerify(q)
  <2>1. DOMAIN list = {} /\ VerifyJob \in Jobs
    BY <1>6 DEF SkipVerify, TypeInv, TypeOK
  <2>2. form # "list" /\ form # "broken" /\ form \in {"absent", "broken", "list"}
    BY <2>1 DEF TypeInv, TypeOK, Whole
  <2> QED
    BY <2>2
<1> QED
  BY <1>3, <1>4, <1>5, <1>6

(***************************************************************************)
(* The exit code 3, on which the gate skips a plan, means that there is no *)
(* checklist: for `status` under every fault, for `verify` as long as      *)
(* nobody breaks the file by hand.                                         *)
(***************************************************************************)
THEOREM SkippedIsAbsent ==
  ASSUME VerifyJob \notin Jobs \/ "edit" \notin Faults
  PROVE  Spec => SkipMeansAbsent
<1>1. Init => Whole
  BY DEF Init, Whole
<1>2. TypeInv /\ Whole /\ [Next]_vars =>
        [\A p \in Procs : answer[p] = NoCode /\ answer'[p] = 3 => form = "absent"]_vars
  BY SkipStep
<1> QED
  BY <1>1, <1>2, TypeInit, TypeNext, WholeNext, PTL DEF Spec, SkipMeansAbsent

=============================================================================
