--------------------------- MODULE FeedbackLedger ---------------------------
(***************************************************************************)
(* Concurrent feedback_ledger.py commands over the shared ledger.          *)
(*                                                                         *)
(* Every process is one run of `upsert <key>` or `digest` started in a     *)
(* worktree.  It first migrates the worktree's legacy ledger, then does    *)
(* its own work.  The canonical ledger lives in the common git directory;  *)
(* when the git lookup fails, a process falls back to the legacy path of   *)
(* its worktree.  Each path has a lock file of its own.  A critical        *)
(* section reads the file into memory, computes, and replaces the file;    *)
(* the steps between which another process can run are the actions below.  *)
(***************************************************************************)
EXTENDS LedgerBook

CONSTANTS
  Procs,       \* runs of the command
  Worktrees,   \* worktrees of the repository, each with a legacy path
  Home,        \* the worktree each process runs in
  Canon,       \* the path <git-common-dir>/kit/ledger.md
  NoProc,      \* holder of a free lock
  Digest,      \* the job of a process that runs `digest`
  MaxDay,      \* bound: the last day of the calendar
  InitFiles,   \* the contents the ledger files may start with
  Stalled,     \* processes that may be suspended for ever
  Faults       \* which failures the environment produces

Paths == Worktrees \cup {Canon}

(***************************************************************************)
(* "lock": a lock wait reaches its deadline or the lock file cannot be     *)
(* opened; "git": `git rev-parse` fails or times out; "io": a read, rename *)
(* or write of a ledger fails; "crash": a process is killed.               *)
(***************************************************************************)
FaultKinds == {"lock", "git", "io", "crash"}

ASSUME WorldAssumption ==
  /\ Canon \notin Worktrees
  /\ Home \in [Procs -> Worktrees]
  /\ NoProc \notin Procs
  /\ Digest \notin Keys
  /\ MaxDay \in Nat
  /\ Stalled \subseteq Procs
  /\ Faults \subseteq FaultKinds

ASSUME InitFilesAssumption ==
  InitFiles \subseteq
    {f \in [Paths -> Book] :
       \A q \in Paths : UniqueKeys(f[q]) /\ UniqueIds(f[q]) /\ Len(f[q]) <= Cap}

VARIABLES
  file,     \* the rows at every ledger path
  backup,   \* the rows at every worktree's ledger.md.migrated
  locks,    \* the process whose flock each path's lock file carries
  pc,       \* where each process is
  job,      \* the key a process upserts, or Digest
  path,     \* the ledger a process locks, reads and replaces
  snap,     \* the rows a process has parsed from that ledger
  batch,    \* the legacy rows a process is migrating
  date,     \* the day a process has read from the clock
  today,    \* the clock
  mig,      \* how a process's migration ended
  result,   \* what a process has reported
  born,     \* history: the rows at every path in the initial state
  noted,    \* history: upserts of each key committed to any file
  owed      \* history: is a backup still to be absorbed by the canonical ledger

disk == << file, backup, born, noted, owed >>
memory == << job, path, snap, batch, date >>
vars == << disk, memory, locks, pc, today, mig, result >>

Labels == {"idle", "mlock", "mread", "mrename", "mparse", "mwrite",
           "route", "ulock", "uread", "uwrite", "done"}

(***************************************************************************)
(* The code inside `with _ledger_lock(...)`: of the migration, of upsert.  *)
(***************************************************************************)
Migrating == {"mread", "mrename", "mparse", "mwrite"}
Upserting == {"uread", "uwrite"}

Days == 0..MaxDay

(***************************************************************************)
(* Every variable has its type; in particular a file always holds a        *)
(* well-formed table, whoever wrote it last.                               *)
(***************************************************************************)
TypeOK ==
  /\ file \in [Paths -> Book]
  /\ backup \in [Worktrees -> Book]
  /\ locks \in [Paths -> Procs \cup {NoProc}]
  /\ pc \in [Procs -> Labels]
  /\ job \in [Procs -> Keys \cup {Digest}]
  /\ path \in [Procs -> Paths]
  /\ snap \in [Procs -> Book]
  /\ batch \in [Procs -> Book]
  /\ date \in [Procs -> Days]
  /\ today \in Days
  /\ mig \in [Procs -> {"none", "noop", "merged", "failed"}]
  /\ result \in [Procs -> {"none", "added", "incremented", "skipped", "failed",
                           "digested", "killed"}]
  /\ born \in [Paths -> Book]
  /\ noted \in [Keys -> Nat]
  /\ owed \in [Worktrees -> BOOLEAN]

Init ==
  /\ file \in InitFiles
  /\ today \in Days /\ \A q \in Paths : \A i \in DOMAIN file[q] : file[q][i].seen <= today
  /\ backup = [w \in Worktrees |-> << >>]
  /\ locks = [q \in Paths |-> NoProc]
  /\ pc = [p \in Procs |-> "idle"]
  /\ job \in [Procs -> Keys \cup {Digest}]
  /\ path = [p \in Procs |-> Canon]
  /\ snap = [p \in Procs |-> << >>]
  /\ batch = [p \in Procs |-> << >>]
  /\ date = [p \in Procs |-> today]
  /\ mig = [p \in Procs |-> "none"]
  /\ result = [p \in Procs |-> "none"]
  /\ born = file
  /\ noted = [k \in Keys |-> 0]
  /\ owed = [w \in Worktrees |-> FALSE]

-----------------------------------------------------------------------------
Goto(p, from, to) ==
  /\ pc[p] = from
  /\ pc' = [pc EXCEPT ![p] = to]

(***************************************************************************)
(* A process leaves a critical section: its flock, if it has one, is gone, *)
(* and so are the rows it had parsed.                                      *)
(***************************************************************************)
Leave(p, to) ==
  /\ pc' = [pc EXCEPT ![p] = to]
  /\ locks' = [q \in Paths |-> IF locks[q] = p THEN NoProc ELSE locks[q]]
  /\ snap' = [snap EXCEPT ![p] = << >>]
  /\ batch' = [batch EXCEPT ![p] = << >>]

(***************************************************************************)
(* ledger_path(): the canonical path, or the legacy path of the worktree   *)
(* when the git lookup fails.                                              *)
(***************************************************************************)
LedgerPath(p) == {Canon} \cup (IF "git" \in Faults THEN {Home[p]} ELSE {})

(***************************************************************************)
(* _try_migrate up to the lock: the check outside the lock sees a legacy   *)
(* ledger, or there is none, or the failed lookup makes it the target.     *)
(***************************************************************************)
BeginMigration(p) ==
  /\ Goto(p, "idle", "mlock")
  /\ file[Home[p]] # << >>
  /\ UNCHANGED << disk, memory, locks, today, mig, result >>

SkipMigration(p) ==
  /\ Goto(p, "idle", "route")
  /\ file[Home[p]] = << >> \/ "git" \in Faults
  /\ mig' = [mig EXCEPT ![p] = "noop"]
  /\ UNCHANGED << disk, memory, locks, today, result >>

(***************************************************************************)
(* _ledger_lock: the non-blocking flock succeeds, or the process goes on   *)
(* without it -- after five seconds of retries, or at once if the lock     *)
(* file cannot be opened.                                                  *)
(***************************************************************************)
EnterSection(p) ==
  \/ Goto(p, "mlock", "mread")
  \/ Goto(p, "ulock", "uread")

TakeLock(p) ==
  /\ EnterSection(p)
  /\ locks[path[p]] = NoProc
  /\ locks' = [locks EXCEPT ![path[p]] = p]
  /\ UNCHANGED << disk, memory, today, mig, result >>

WaitForever(p) ==  \* variant: a blocking flock
  /\ FALSE
  /\ EnterSection(p)
  /\ UNCHANGED << disk, memory, locks, today, mig, result >>

GiveUpLock(p) ==
  /\ "lock" \in Faults
  /\ EnterSection(p)
  /\ UNCHANGED << disk, memory, locks, today, mig, result >>

-----------------------------------------------------------------------------
(***************************************************************************)
(* migrate_legacy_ledger under the lock.  First the legacy ledger is       *)
(* looked at again: another process may have migrated it in the meantime.  *)
(***************************************************************************)
MigGone(p) ==
  /\ pc[p] = "mread"
  /\ file[Home[p]] = << >>
  /\ Leave(p, "route")
  /\ mig' = [mig EXCEPT ![p] = "noop"]
  /\ UNCHANGED << disk, job, path, date, today, result >>

MigRead(p) ==
  /\ Goto(p, "mread", "mrename")
  /\ file[Home[p]] # << >>
  /\ batch' = [batch EXCEPT ![p] = file[Home[p]]]
  /\ UNCHANGED << disk, job, path, snap, date, locks, today, mig, result >>

(***************************************************************************)
(* The rename comes before the merge; it replaces an older backup.         *)
(***************************************************************************)
MigRenameKeepsLegacy(p) ==  \* variant: a copy instead of a rename
  /\ Goto(p, "mrename", "mparse")
  /\ file[Home[p]] # << >>
  /\ backup' = [backup EXCEPT ![Home[p]] = file[Home[p]]]
  /\ owed' = [owed EXCEPT ![Home[p]] = TRUE]
  /\ UNCHANGED << file, born, noted, memory, locks, today, mig, result >>

MigUnlink(p) ==  \* variant: the legacy ledger is deleted
  /\ Goto(p, "mrename", "mparse")
  /\ file[Home[p]] # << >>
  /\ file' = [file EXCEPT ![Home[p]] = << >>]
  /\ owed' = [owed EXCEPT ![Home[p]] = TRUE]
  /\ UNCHANGED << backup, born, noted, memory, locks, today, mig, result >>

MigRename(p) ==
  /\ Goto(p, "mrename", "mparse")
  /\ file[Home[p]] # << >>
  /\ backup' = [backup EXCEPT ![Home[p]] = file[Home[p]]]
  /\ file' = [file EXCEPT ![Home[p]] = << >>]
  /\ owed' = [owed EXCEPT ![Home[p]] = TRUE]
  /\ UNCHANGED << born, noted, memory, locks, today, mig, result >>

MigParse(p) ==
  /\ Goto(p, "mparse", "mwrite")
  /\ snap' = [snap EXCEPT ![p] = file[Canon]]
  /\ UNCHANGED << disk, job, path, batch, date, locks, today, mig, result >>

MigOverwrite(p) ==  \* variant: a move instead of a merge
  /\ pc[p] = "mwrite"
  /\ file' = [file EXCEPT ![Canon] = Decay(batch[p])]
  /\ owed' = [owed EXCEPT ![Home[p]] = FALSE]
  /\ mig' = [mig EXCEPT ![p] = "merged"]
  /\ Leave(p, "route")
  /\ UNCHANGED << backup, born, noted, job, path, date, today, result >>

MigWrite(p) ==
  /\ pc[p] = "mwrite"
  /\ file' = [file EXCEPT ![Canon] = Decay(Merged(snap[p], batch[p]))]
  /\ owed' = [owed EXCEPT ![Home[p]] = FALSE]
  /\ mig' = [mig EXCEPT ![p] = "merged"]
  /\ Leave(p, "route")
  /\ UNCHANGED << backup, born, noted, job, path, date, today, result >>

(***************************************************************************)
(* Any step of the migration may raise -- the rename always does when the  *)
(* legacy ledger has gone.  _try_migrate warns and the command goes on.    *)
(***************************************************************************)
MigFail(p) ==
  /\ pc[p] \in Migrating
  /\ \/ "io" \in Faults
     \/ pc[p] = "mrename" /\ file[Home[p]] = << >>
  /\ Leave(p, "route")
  /\ mig' = [mig EXCEPT ![p] = "failed"]
  /\ UNCHANGED << disk, job, path, date, today, result >>

-----------------------------------------------------------------------------
(***************************************************************************)
(* upsert after the migration: the path is looked up afresh and the date   *)
(* read from the clock, both before the lock.                              *)
(***************************************************************************)
Route(p) ==
  /\ Goto(p, "route", "ulock")
  /\ job[p] # Digest
  /\ path' \in {[path EXCEPT ![p] = q] : q \in LedgerPath(p)}
  /\ date' = [date EXCEPT ![p] = today]
  /\ UNCHANGED << disk, job, snap, batch, locks, today, mig, result >>

UpRead(p) ==
  /\ Goto(p, "uread", "uwrite")
  /\ snap' = [snap EXCEPT ![p] = file[path[p]]]
  /\ UNCHANGED << disk, job, path, batch, date, locks, today, mig, result >>

UpWrite(p) ==
  /\ pc[p] = "uwrite"
  /\ file' = [file EXCEPT ![path[p]] = Decay(Upserted(snap[p], job[p], date[p]))]
  /\ noted' = [noted EXCEPT ![job[p]] = @ + 1]
  /\ result' = [result EXCEPT ![p] =
                  IF job[p] \in KeysOf(snap[p]) THEN "incremented" ELSE "added"]
  /\ Leave(p, "done")
  /\ UNCHANGED << backup, born, owed, job, path, date, today, mig >>

(***************************************************************************)
(* An unreadable ledger is never written over: the upsert is skipped.  A   *)
(* failing write leaves the old file, and the command reports a warning.   *)
(***************************************************************************)
UpSkip(p) ==
  /\ pc[p] = "uread"
  /\ "io" \in Faults
  /\ Leave(p, "done")
  /\ result' = [result EXCEPT ![p] = "skipped"]
  /\ UNCHANGED << disk, job, path, date, today, mig >>

UpFail(p) ==
  /\ pc[p] = "uwrite"
  /\ "io" \in Faults
  /\ Leave(p, "done")
  /\ result' = [result EXCEPT ![p] = "failed"]
  /\ UNCHANGED << disk, job, path, date, today, mig >>

(***************************************************************************)
(* load_digest after the migration: the ledger is read without a lock and  *)
(* printed.                                                                *)
(***************************************************************************)
ReadDigest(p) ==
  /\ Goto(p, "route", "done")
  /\ job[p] = Digest
  /\ result' = [result EXCEPT ![p] = "digested"]
  /\ UNCHANGED << disk, memory, locks, today, mig >>

-----------------------------------------------------------------------------
(***************************************************************************)
(* A killed process loses its memory; the kernel drops its flock.          *)
(***************************************************************************)
Crash(p) ==
  /\ "crash" \in Faults
  /\ pc[p] \notin {"idle", "done"}
  /\ Leave(p, "done")
  /\ result' = [result EXCEPT ![p] = "killed"]
  /\ UNCHANGED << disk, job, path, date, today, mig >>

NextDay ==
  /\ today < MaxDay
  /\ today' = today + 1
  /\ UNCHANGED << disk, memory, locks, pc, mig, result >>

Migrate(p) == MigGone(p) \/ MigRead(p) \/ MigRename(p) \/ MigParse(p) \/ MigWrite(p)

Upsert(p) == Route(p) \/ UpRead(p) \/ UpWrite(p)

Run(p) ==
  \/ BeginMigration(p) \/ SkipMigration(p)
  \/ TakeLock(p) \/ GiveUpLock(p)
  \/ Migrate(p) \/ MigFail(p)
  \/ Upsert(p) \/ UpSkip(p) \/ UpFail(p)
  \/ ReadDigest(p)

Next ==
  \/ \E p \in Procs : Run(p) \/ Crash(p)
  \/ NextDay

Spec == Init /\ [][Next]_vars

(***************************************************************************)
(* A started command keeps running unless it is Stalled -- suspended, for  *)
(* instance while it holds a lock.  Nothing is assumed of the clock, of    *)
(* crashes, or of commands nobody resumes.                                 *)
(***************************************************************************)
FairSpec == Spec /\ \A p \in Procs \ Stalled : WF_vars(Run(p))

-----------------------------------------------------------------------------
(***************************************************************************)
(* Properties.                                                             *)
(***************************************************************************)

(***************************************************************************)
(* No command ever leaves a table with two rows for one pattern, two rows  *)
(* with one F-id, or more than CAP rows, at any path and in any            *)
(* interleaving (dedupe, id numbering and decay of upsert and migration).  *)
(***************************************************************************)
BooksSound ==
  \A q \in Paths : UniqueKeys(file[q]) /\ UniqueIds(file[q]) /\ Len(file[q]) <= Cap

(***************************************************************************)
(* As long as no lock wait gives up, a process about to replace the        *)
(* canonical ledger holds in memory exactly what the ledger says now: no   *)
(* other command got between its read and its write.                       *)
(***************************************************************************)
SnapshotFresh ==
  \A p \in Procs :
     pc[p] \in {"mwrite", "uwrite"} /\ path[p] = Canon => snap[p] = file[Canon]

Observed(f, k) == MapThenSumSet(LAMBDA q : Freq(f[q], k), DOMAIN f)

(***************************************************************************)
(* Migration is idempotent: no observation of a pattern is counted twice,  *)
(* neither by a second migration nor by one that races with it.            *)
(***************************************************************************)
NoDoubleCount ==
  \A k \in Keys : Observed(file, k) <= Observed(born, k) + noted[k]

(***************************************************************************)
(* Nothing learned is lost: every observation is in a ledger, or in a      *)
(* .migrated backup whose rows the canonical ledger does not have yet      *)
(* (a process that has renamed but not written, or died in between), as    *)
(* long as there are no more patterns than the ledger holds.               *)
(***************************************************************************)
NothingLost ==
  Cardinality({k \in Keys : Observed(born, k) + noted[k] > 0}) <= Cap =>
    \A k \in Keys :
      Observed(file, k) + Observed([w \in {x \in Worktrees : owed[x]} |-> backup[w]], k)
        = Observed(born, k) + noted[k]

(***************************************************************************)
(* The canonical ledger forgets a pattern only when it is full, and only   *)
(* in favour of rows that rank at least as high.                           *)
(***************************************************************************)
Forgets(s, t) == {i \in DOMAIN s : s[i].key \notin KeysOf(t)}

DropsOnlyTheWorst ==
  [][\A i \in Forgets(file[Canon], file'[Canon]) :
        /\ Len(file'[Canon]) = Cap
        /\ \A j \in DOMAIN file'[Canon] : ~Better(file[Canon][i], file'[Canon][j])]_vars

(***************************************************************************)
(* An upsert that reports 'added' or 'incremented' has left its pattern in *)
(* the ledger.  (It has not when the ledger is full of frequent rows.)     *)
(***************************************************************************)
ReportedIsRecorded ==
  [][\A p \in Procs :
        result[p] = "none" /\ result'[p] \in {"added", "incremented"}
          => job[p] \in KeysOf(file'[path[p]])]_vars

(***************************************************************************)
(* A command whose migration failed goes on at the old place, as its       *)
(* warning says.  (It goes on at the canonical path.)                      *)
(***************************************************************************)
FailedMigrationStaysPut ==
  \A p \in Procs : mig[p] = "failed" /\ pc[p] = "ulock" => path[p] = Home[p]

(***************************************************************************)
(* Rows that exist only in a .migrated backup are never overwritten.       *)
(***************************************************************************)
BackupKept ==
  [][\A w \in Worktrees : owed[w] => backup'[w] = backup[w]]_vars

(***************************************************************************)
(* A command that is not itself stalled ends, also when another process    *)
(* is suspended while it holds the lock.                                   *)
(***************************************************************************)
EveryCommandEnds == \A p \in Procs \ Stalled : <>(pc[p] = "done")

(***************************************************************************)
(* The canonical ledger is an atomic ledger: every change of the file is   *)
(* one whole upsert or one whole migration applied to the current rows,    *)
(* and each reporting upsert is one such change with the right report.     *)
(***************************************************************************)
CanonAnswer(p) ==
  IF path[p] = Canon /\ result[p] \in {"added", "incremented"}
  THEN result[p] ELSE "none"

AtomicCanon == INSTANCE AtomicLedger WITH
  Clients  <- Procs,
  Days     <- Days,
  Legacies <- {f[w] : f \in InitFiles, w \in Worktrees},
  book     <- file[Canon],
  answer   <- [p \in Procs |-> CanonAnswer(p)]

ImplementsAtomicLedger == AtomicCanon!Spec

=============================================================================
