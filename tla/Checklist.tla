----------------------------- MODULE Checklist -----------------------------
(***************************************************************************)
(* Concurrent checklist.py commands over one plan's checklist.json, the    *)
(* record of which items of a plan are proven done.                        *)
(*                                                                         *)
(* `init` replaces the list, every item failing.  `complete` reads an      *)
(* item's verify command, runs it without the lock, and flips the item     *)
(* under the lock if the command exited 0 and is still the item's command. *)
(* `verify` runs all commands without the lock and merges the outcomes     *)
(* into the list under it.  `status` is the gate's question.               *)
(***************************************************************************)
EXTENDS Integers, FiniteSets

CONSTANTS
  Procs,    \* runs of the command
  Jobs,     \* what a run may be asked to do
  Ids,      \* item ids
  Cmds,     \* verify commands
  NoCmd,    \* an item without evidence
  NoProc,   \* holder of the free lock
  Stalled,  \* processes that may be suspended for ever
  Faults    \* which failures the environment produces

Functions(D, R) == UNION {[S -> R] : S \in SUBSET D}

(***************************************************************************)
(* `complete` and `verify` record evidence next to the flag: the command   *)
(* they ran.  A plan gives each of its items a command.                    *)
(***************************************************************************)
Item == [verify : Cmds, passes : BOOLEAN, evidence : Cmds \cup {NoCmd}]
Lists == Functions(Ids, Item)
Plans == Functions(Ids, Cmds) \ {[i \in {} |-> NoCmd]}

InitJob(plan) == [op |-> "init", plan |-> plan]
CompleteJob(i) == [op |-> "complete", id |-> i]
VerifyJob == [op |-> "verify"]
StatusJob == [op |-> "status"]

AllJobs == {InitJob(f) : f \in Plans} \cup {CompleteJob(i) : i \in Ids} \cup {VerifyJob, StatusJob}

(***************************************************************************)
(* "lock": a lock wait reaches its deadline; "io": a write fails; "crash": *)
(* a process is killed; "edit": somebody breaks the file by hand.          *)
(***************************************************************************)
ASSUME ChecklistAssumption ==
  /\ NoCmd \notin Cmds
  /\ NoProc \notin Procs
  /\ Jobs \subseteq AllJobs
  /\ Stalled \subseteq Procs
  /\ Faults \subseteq {"lock", "io", "crash", "edit"}

VARIABLES
  form,    \* "absent"; "broken": not a nonempty JSON list; or "list"
  list,    \* the items in the file, none unless form is "list"
  holder,  \* the process that holds the flock
  sane,    \* does each verify command exit 0 in the worktree as it is now?
  pc, job,
  cmd,     \* the command `complete` has read
  todo,    \* the commands `verify` has still to run, by item
  got,     \* what `verify` has run so far: command and outcome, by item
  snap,    \* the items read under the lock
  answer,  \* the exit code, or NoCode
  late     \* history: items completed since a `verify` ran their command

file == << form, list >>
memory == << cmd, todo, got, snap >>
vars == << file, holder, sane, pc, job, memory, answer, late >>

NoCode == -1
Killed == 9

NoItems == [i \in {} |-> NoCmd]

Results == Functions(Ids, [verify : Cmds, ok : BOOLEAN])

(***************************************************************************)
(* Every variable has its type; a file that is not a list has no items and *)
(* a file that is one has some.                                            *)
(***************************************************************************)
TypeOK ==
  /\ form \in {"absent", "broken", "list"}
  /\ list \in Lists
  /\ form = "list" <=> DOMAIN list # {}
  /\ holder \in Procs \cup {NoProc}
  /\ sane \in [Cmds -> BOOLEAN]
  /\ pc \in [Procs -> {"idle", "run", "runall", "lock", "reread", "write", "done"}]
  /\ job \in [Procs -> Jobs]
  /\ cmd \in [Procs -> Cmds \cup {NoCmd}]
  /\ todo \in [Procs -> Functions(Ids, Cmds)]
  /\ got \in [Procs -> Results]
  /\ snap \in [Procs -> Lists]
  /\ answer \in [Procs -> {NoCode, 0, 1, 2, 3, Killed}]
  /\ late \in [Procs -> SUBSET Ids]

Init ==
  /\ form = "absent"
  /\ list = NoItems
  /\ holder = NoProc
  /\ sane \in [Cmds -> BOOLEAN]
  /\ pc = [p \in Procs |-> "idle"]
  /\ job \in [Procs -> Jobs]
  /\ cmd = [p \in Procs |-> NoCmd]
  /\ todo = [p \in Procs |-> NoItems]
  /\ got = [p \in Procs |-> NoItems]
  /\ snap = [p \in Procs |-> NoItems]
  /\ answer = [p \in Procs |-> NoCode]
  /\ late = [p \in Procs |-> {}]

-----------------------------------------------------------------------------
Goto(p, from, to) ==
  /\ pc[p] = from
  /\ pc' = [pc EXCEPT ![p] = to]

(***************************************************************************)
(* A process exits with a code; its flock and its memory are gone.         *)
(***************************************************************************)
Exit(p, code) ==
  /\ pc' = [pc EXCEPT ![p] = "done"]
  /\ answer' = [answer EXCEPT ![p] = code]
  /\ holder' = IF holder = p THEN NoProc ELSE holder
  /\ cmd' = [cmd EXCEPT ![p] = NoCmd]
  /\ todo' = [todo EXCEPT ![p] = NoItems]
  /\ got' = [got EXCEPT ![p] = NoItems]
  /\ snap' = [snap EXCEPT ![p] = NoItems]
  /\ late' = [late EXCEPT ![p] = {}]
  /\ UNCHANGED << sane, job >>

Replace(items) ==
  /\ form' = "list"
  /\ list' = items

(***************************************************************************)
(* _lock: taken, or not waited for any longer.                             *)
(***************************************************************************)
AfterLock(p) == IF job[p].op = "init" THEN "write" ELSE "reread"

TakeLock(p) ==
  /\ Goto(p, "lock", AfterLock(p))
  /\ holder = NoProc
  /\ holder' = p
  /\ UNCHANGED << file, sane, job, memory, answer, late >>

WaitForever(p) ==  \* variant: a blocking flock
  /\ FALSE
  /\ Goto(p, "lock", AfterLock(p))
  /\ UNCHANGED << file, holder, sane, job, memory, answer, late >>

GiveUpLock(p) ==
  /\ "lock" \in Faults
  /\ Goto(p, "lock", AfterLock(p))
  /\ UNCHANGED << file, holder, sane, job, memory, answer, late >>

-----------------------------------------------------------------------------
(***************************************************************************)
(* init: no item passes, whatever the input says.                          *)
(***************************************************************************)
BeginInit(p) ==
  /\ job[p].op = "init"
  /\ Goto(p, "idle", "lock")
  /\ UNCHANGED << file, holder, sane, job, memory, answer, late >>

WriteInit(p) ==
  /\ job[p].op = "init" /\ pc[p] = "write"
  /\ Replace([i \in DOMAIN job[p].plan |->
                [verify |-> job[p].plan[i], passes |-> FALSE, evidence |-> NoCmd]])
  /\ Exit(p, 0)

-----------------------------------------------------------------------------
(***************************************************************************)
(* complete.  An absent or broken file reads as an empty list.             *)
(***************************************************************************)
BeginComplete(p) ==
  /\ job[p].op = "complete" /\ job[p].id \in DOMAIN list
  /\ Goto(p, "idle", "run")
  /\ cmd' = [cmd EXCEPT ![p] = list[job[p].id].verify]
  /\ UNCHANGED << file, holder, sane, job, todo, got, snap, answer, late >>

RefuseComplete(p) ==
  /\ job[p].op = "complete" /\ pc[p] = "idle" /\ job[p].id \notin DOMAIN list
  /\ Exit(p, 2)
  /\ UNCHANGED file

RunComplete(p) ==
  /\ Goto(p, "run", "lock")
  /\ sane[cmd[p]]
  /\ UNCHANGED << file, holder, sane, job, memory, answer, late >>

(***************************************************************************)
(* The command exits non-zero, or is killed after ten minutes.             *)
(***************************************************************************)
FailComplete(p) ==
  /\ pc[p] = "run"
  /\ ~sane[cmd[p]]
  /\ Exit(p, 1)
  /\ UNCHANGED file

(***************************************************************************)
(* Under the lock the list is read again: the item must still be there,    *)
(* with the command that was run.                                          *)
(***************************************************************************)
RereadUnchecked(p) ==  \* variant: only the item is looked for again
  /\ job[p].op = "complete" /\ job[p].id \in DOMAIN list
  /\ Goto(p, "reread", "write")
  /\ snap' = [snap EXCEPT ![p] = list]
  /\ UNCHANGED << file, holder, sane, job, cmd, todo, got, answer, late >>

RereadVanished(p) ==  \* variant: only the command is compared again
  /\ job[p].op = "complete"
  /\ job[p].id \in DOMAIN list => list[job[p].id].verify = cmd[p]
  /\ Goto(p, "reread", "write")
  /\ snap' = [snap EXCEPT ![p] = list]
  /\ UNCHANGED << file, holder, sane, job, cmd, todo, got, answer, late >>

RereadComplete(p) ==
  /\ job[p].op = "complete" /\ job[p].id \in DOMAIN list
  /\ list[job[p].id].verify = cmd[p]
  /\ Goto(p, "reread", "write")
  /\ snap' = [snap EXCEPT ![p] = list]
  /\ UNCHANGED << file, holder, sane, job, cmd, todo, got, answer, late >>

RefuseFlip(p) ==
  /\ job[p].op = "complete" /\ pc[p] = "reread"
  /\ \/ job[p].id \notin DOMAIN list /\ Exit(p, 2)
     \/ /\ job[p].id \in DOMAIN list /\ list[job[p].id].verify # cmd[p]
        /\ Exit(p, 1)
  /\ UNCHANGED file

Proven(item, c) == [verify |-> item.verify, passes |-> TRUE, evidence |-> c]

WriteComplete(p) ==
  /\ job[p].op = "complete" /\ pc[p] = "write"
  /\ Replace([snap[p] EXCEPT ![job[p].id] = Proven(@, cmd[p])])
  /\ pc' = [pc EXCEPT ![p] = "done"]
  /\ answer' = [answer EXCEPT ![p] = 0]
  /\ holder' = IF holder = p THEN NoProc ELSE holder
  /\ cmd' = [cmd EXCEPT ![p] = NoCmd]
  /\ snap' = [snap EXCEPT ![p] = NoItems]
  /\ late' = [q \in Procs |->
                IF job[p].id \in DOMAIN got[q]
                THEN late[q] \cup {job[p].id} ELSE late[q]]
  /\ UNCHANGED << sane, job, todo, got >>

-----------------------------------------------------------------------------
(***************************************************************************)
(* verify.  Outcomes are collected without the lock, one command at a time *)
(* and each at its own moment, then merged by id into the current list.    *)
(***************************************************************************)
BeginVerify(p) ==
  /\ job[p] = VerifyJob /\ DOMAIN list # {}
  /\ Goto(p, "idle", "runall")
  /\ todo' = [todo EXCEPT ![p] = [i \in DOMAIN list |-> list[i].verify]]
  /\ UNCHANGED << file, holder, sane, job, cmd, got, snap, answer, late >>

SkipVerify(p) ==
  /\ job[p] = VerifyJob /\ pc[p] = "idle" /\ DOMAIN list = {}
  /\ Exit(p, 3)
  /\ UNCHANGED file

RunOne(p, i) ==
  /\ pc[p] = "runall" /\ i \in DOMAIN todo[p]
  /\ got' = [got EXCEPT ![p] =
       [j \in DOMAIN @ \cup {i} |->
          IF j = i THEN [verify |-> todo[p][i], ok |-> sane[todo[p][i]]] ELSE @[j]]]
  /\ todo' = [todo EXCEPT ![p] = [j \in DOMAIN @ \ {i} |-> @[j]]]
  /\ UNCHANGED << file, holder, sane, pc, job, cmd, snap, answer, late >>

RunAll(p) ==
  /\ Goto(p, "runall", "lock")
  /\ DOMAIN todo[p] = {}
  /\ UNCHANGED << file, holder, sane, job, memory, answer, late >>

RereadVerify(p) ==
  /\ job[p] = VerifyJob
  /\ Goto(p, "reread", "write")
  /\ snap' = [snap EXCEPT ![p] = list]
  /\ UNCHANGED << file, holder, sane, job, cmd, todo, got, answer, late >>

Rejudged(items, results) ==
  [i \in DOMAIN items |->
     IF i \in DOMAIN results /\ items[i].passes # results[i].ok
     THEN [verify |-> items[i].verify, passes |-> results[i].ok,
           evidence |-> results[i].verify]
     ELSE items[i]]

VerifyCode(p) == IF \A i \in DOMAIN got[p] : got[p][i].ok THEN 0 ELSE 1

(***************************************************************************)
(* The file is written only if the merge changed an item.                  *)
(***************************************************************************)
WriteOutcomes(p) ==  \* variant: the outcomes replace the list
  /\ job[p] = VerifyJob /\ pc[p] = "write"
  /\ Replace([i \in DOMAIN got[p] |->
                [verify |-> got[p][i].verify, passes |-> got[p][i].ok,
                 evidence |-> got[p][i].verify]])
  /\ Exit(p, VerifyCode(p))

WriteVerify(p) ==
  /\ job[p] = VerifyJob /\ pc[p] = "write"
  /\ IF Rejudged(snap[p], got[p]) = snap[p]
     THEN UNCHANGED file
     ELSE Replace(Rejudged(snap[p], got[p]))
  /\ Exit(p, VerifyCode(p))

-----------------------------------------------------------------------------
(***************************************************************************)
(* status: 0 all pass, 1 pending or broken, 3 absent.                      *)
(***************************************************************************)
StatusFromItems ==  \* variant: a broken file reads as an empty list
  IF DOMAIN list = {} THEN 3
  ELSE IF \A i \in DOMAIN list : list[i].passes THEN 0 ELSE 1

StatusCode ==
  IF form = "absent" THEN 3
  ELSE IF form = "list" /\ \A i \in DOMAIN list : list[i].passes THEN 0 ELSE 1

Status(p) ==
  /\ job[p] = StatusJob /\ pc[p] = "idle"
  /\ Exit(p, StatusCode)
  /\ UNCHANGED file

-----------------------------------------------------------------------------
(***************************************************************************)
(* A failing write leaves the old file and makes the command exit 2; a     *)
(* killed process loses its memory and its flock.                 *)
(***************************************************************************)
FailWrite(p) ==
  /\ "io" \in Faults
  /\ pc[p] = "write"
  /\ Exit(p, 2)
  /\ UNCHANGED file

Crash(p) ==
  /\ "crash" \in Faults
  /\ pc[p] \notin {"idle", "done"}
  /\ Exit(p, Killed)
  /\ UNCHANGED file

(***************************************************************************)
(* The worktree changes, and with it the outcome of a command.             *)
(***************************************************************************)
Change(c) ==
  /\ sane' = [sane EXCEPT ![c] = ~@]
  /\ UNCHANGED << file, holder, pc, job, memory, answer, late >>

Break ==
  /\ "edit" \in Faults
  /\ form = "list"
  /\ form' = "broken"
  /\ list' = NoItems
  /\ UNCHANGED << holder, sane, pc, job, memory, answer, late >>

Complete(p) ==
  \/ BeginComplete(p) \/ RefuseComplete(p) \/ RunComplete(p) \/ FailComplete(p)
  \/ RereadComplete(p) \/ RefuseFlip(p) \/ WriteComplete(p)

Verify(p) ==
  \/ BeginVerify(p) \/ SkipVerify(p) \/ RunAll(p) \/ RereadVerify(p) \/ WriteVerify(p)
  \/ \E i \in Ids : RunOne(p, i)

Run(p) ==
  \/ BeginInit(p) \/ WriteInit(p)
  \/ Complete(p) \/ Verify(p) \/ Status(p)
  \/ TakeLock(p) \/ GiveUpLock(p) \/ FailWrite(p)

Next ==
  \/ \E p \in Procs : Run(p) \/ Crash(p)
  \/ \E c \in Cmds : Change(c)
  \/ Break

Spec == Init /\ [][Next]_vars

(***************************************************************************)
(* A started command keeps running unless it is Stalled: its verify        *)
(* commands end or are killed after ten minutes.                           *)
(***************************************************************************)
FairSpec == Spec /\ \A p \in Procs \ Stalled : WF_vars(Run(p))

-----------------------------------------------------------------------------
(***************************************************************************)
(* "No PASS without proof": an item passes only on the evidence of its own *)
(* present verify command, however init, complete and verify interleave.   *)
(***************************************************************************)
PassIsProven ==
  \A i \in DOMAIN list : list[i].passes => list[i].evidence = list[i].verify

(***************************************************************************)
(* Only init changes which items there are and what verifies them: neither *)
(* complete nor verify brings back an item of a replaced list or drops one *)
(* of the new list -- as long as no lock wait gives up.                    *)
(***************************************************************************)
Plan == [i \in DOMAIN list |-> list[i].verify]

OnlyInitReplans ==
  [][Plan' # Plan => \E p \in Procs : WriteInit(p)]_vars

(***************************************************************************)
(* The exit code 3, on which the gate skips a plan, means that there is no *)
(* checklist; a broken one is a failure.                                   *)
(***************************************************************************)
SkipMeansAbsent ==
  [][\A p \in Procs : answer[p] = NoCode /\ answer'[p] = 3 => form = "absent"]_vars

(***************************************************************************)
(* A completion is not undone by a verify that ran the item's command      *)
(* before: what comes in while a verify is under way survives its merge.   *)
(* (It does not: the older, failing outcome is written over the pass.)     *)
(***************************************************************************)
ConcurrentPassKept ==
  [][\A p \in Procs :
        job[p] = VerifyJob /\ pc[p] = "write" /\ pc'[p] = "done"
          => \A i \in late[p] \cap DOMAIN list \cap DOMAIN list' :
                list[i].passes => list'[i].passes]_vars

(***************************************************************************)
(* A command that is not itself stalled ends, also when another process is *)
(* suspended while it holds the lock.                                      *)
(***************************************************************************)
EveryCommandEnds == \A p \in Procs \ Stalled : <>(pc[p] = "done")

=============================================================================
