# TLA+ verification of hiway-kit

hiway-kit is a plugin for coding agents: hooks that a harness runs around every
tool call and turn, command-line tools that agents and skills call, and the
scripts that build, evaluate and export the plugin.  Most of it is sequential
text processing.  What is hard to test is the part where several agent sessions,
worktrees and hooks share files, or start programs that may hang: this project
models that part.

The modules are translated from the source files named in `PROJECT.json`
(`map` gives the lines of every definition).  TLC checks small instances, and
TLAPS proves the theorems for every value of the constants.

    tlc -config FeedbackLedgerLocked.cfg MCFeedbackLedger.tla
    tlapm FeedbackLedgerProofs.tla

## 1. Inventory

Paths are under `src/plugins/common/` unless they start with `src/`.

| component | source | state it keeps | operations | what is hard | what makes it correct |
|---|---|---|---|---|---|
| feedback ledger | `tools/feedback_ledger.py` | a markdown table in the common git directory; legacy tables in the worktrees and their `.migrated` backups; one lock file per table | `upsert`, `digest`, migration of a legacy table | processes in several worktrees, a lock that is not waited for beyond 5 s, a rename and a write that are not atomic together, a git lookup that may fail | no update lost or counted twice, one row per pattern, unique ids, only the worst rows dropped, every command ends |
| plan checklist | `tools/checklist.py` | `checklist.json` of a plan; a lock file | `init`, `complete`, `verify`, `status`, `show` | verify commands run for minutes without the lock; replans meanwhile | no pass without proof, no replan undone, a broken checklist is a failure |
| stop validator | `hooks/stop-validator.py`, marker snippet in `skills/auto-dev/SKILL.md` | retry counter per session, one marker per checkout | one hook run per end of turn; claim, fingerprint, scope, lint with fix, tests, block or allow | parallel sessions in one checkout, a fingerprint that takes time, blocks that cause further turns, hooks that die | a marker excuses one hook and only what it describes, blocks are capped, every turn ends |
| LSP transport | `tools/lsp_transport.py`, `lsp_query.py`, `lsp_validation.py`, `lsp_source.py` | reader thread, bounded message queue, pending requests, deadlines | initialize, request, close | reader and requester race; byte and message budgets; close escalates to terminate and kill | an answer goes to its request, limits hold, close always ends |
| process budget | `tools/bounded_process.py` | one deadline and one output limit for all programs of a command; a process group for each | run, collect, kill | a program that hangs, floods, or leaves a descendant with its pipes | no program, and nothing in its group, survives the command |
| auto-format hook | `hooks/auto-format.py` | 25 s budget | a pipeline of format steps for each written file | a step that hangs, a step that moves what another has reported, a user who writes meanwhile | never longer than the hook timeout; what is reported is there |
| session start | `hooks/session-start.py`, `setup/session-check.py`, `hooks/utils.py` | none (reads git, ledger, plans) | collect, inject | every source may fail | fail-open, injection budget |
| guards | `hooks/protect-sensitive.py`, `hooks/examples/*.py`, `setup/pre-commit` | none | decide on one command or path | quoting, wrappers, chained commands | no listed operation passes |
| harness export | `tools/export_harness.py` | managed blocks in user files of other harnesses | check, write | the user edits markers too, several targets, two blocks in one file | user text outside of the blocks stays, success means current, a failure is local |
| install doctor | `tools/install_doctor.py`, `install_doctor_io.py` | a descriptor of the plugin store; a snapshot file | diagnose, capture or rely upon a snapshot | installs, links that are turned and reconfigurations between two of its reads | a match is true and of the store in use; a defect is told whatever else is unknown |
| code intelligence | `tools/code_intel*.py`, `tools/intel_runtime.py` | a private copy of a source tree, what it should contain | read, copy, scan, rewrite until nothing changes, read again | files written while they are read, an engine that lies, rules that nest, cycle or grow | an answer is about the files as they were at one moment, and leads where the rules lead |
| session history | `tools/session_history*.py` | scan budget | scan, list | very large transcripts | budget holds |
| evaluation runner | `src/evals/run.py` | reports, a baseline | validate, run, compare, save a baseline | the tree changes during a run; partial runs, runs on another model | green means graded, a baseline is whole and hides no regression |
| evaluation forge | `src/scripts/eval-forge.py` | the tree of scenarios | plan, stage, move, validate, roll back | a failure after any step, forges beside each other | all or nothing |
| build and release | `src/scripts/build-*.py`, `derive-name.py`, `bump-version.sh`, `src/setup.sh` | generated trees | check, write | a write that stops in the middle, or fails for one file | a check sees all that is stale or missing, and nothing else |
| repository gates | `src/scripts/verify-done.sh`, `check_*.py` | none | check | a gate that turns green when it cannot look | missing input is a failure |
| skills, agents, rules | `skills/`, `agents/`, `rules/` | none | prose for a language model | - | - |

How they interact:

* Agents call `feedback_ledger.py upsert` during reviews, several at once;
  `session-start.py` calls its `digest`.
* `auto-dev` writes checklists and completes their items;
  `verify-done.sh` asks `checklist.py status` and skips a plan on exit code 3.
* `auto-dev` leaves a marker after its validation, and the next Stop hook in that
  checkout, of whichever session, consumes it.
* The Stop hook relies on `auto-format.py` having linted what Edit and Write have
  touched.
* `eval-forge.py` writes the tree that `run.py` reads, in a directory beside the
  scenarios, and calls `run.py --validate`.
* The rule preview of the code intelligence reads the files that the user and
  `auto-format.py` write; it starts its engine, and the program that renders the
  diffs, through the process budget.
* `build-targets.py` generates the manifests that the install doctor reads as the
  source, in a checkout that may be the marketplace of the harness.
* Agents ask `lsp_query.py`, which starts a language server, asks it one question
  and stops it.

The ledger, the checklist and the Stop hook share one idiom: read without
protection, run something slow, take a lock or claim a file, look again, replace the
file atomically, and never block the user when something fails ("fail-open").  The
properties are about the steps between these.

## 2. Modules

| module | what it is |
|---|---|
| `LedgerBook` | the ledger table as data: decay, numbering, upsert, merge |
| `AtomicLedger` | abstract specification: upserts and migrations are single changes of one table |
| `FeedbackLedger` | processes, worktrees, files, locks, faults; extends `LedgerBook`, refines `AtomicLedger` |
| `MCFeedbackLedger` | instances for TLC |
| `FeedbackLedgerProofs` | theorems, about the table first |
| `Checklist`, `MCChecklist`, `ChecklistProofs` | the same for the checklist |
| `StopValidator`, `MCStopValidator`, `StopValidatorProofs` | the same for the Stop hook |
| `LspQuery`, `MCLspQuery`, `LspQueryProofs` | the same for a query to a language server |
| `EvalTree` | the tree of scenarios and how `run.py` reads it |
| `EvalForge`, `EvalRun` | runs of `eval-forge.py` and of `run.py` on that tree |
| `Evals`, `MCEvals`, `EvalsProofs` | forges, runs and a user together; instances; theorems |
| `ExportHarness`, `MCExportHarness`, `ExportHarnessProofs` | writing and checking the managed blocks; instances; theorems |
| `WorkTree` | the files of a workspace, their identities and their user |
| `ProcessBudget` | the programs of one command: deadline, output limit, process groups |
| `RuleEdits` | rows of a scan, and the edits that are made of them |
| `RulePreview` | a rule preview from stdin to its answer; extends the three above |
| `AutoFormat` | the format hook on a `WorkTree` |
| `Workspace`, `MCWorkspace`, `WorkspaceProofs` | preview, hook and user together; instances; theorems |
| `BuildTargets` | `build-targets.py`, its sources and what it generates |
| `InstallDoctor` | a diagnosis, over the files of `BuildTargets` and the plugin stores |
| `Release`, `MCRelease`, `ReleaseProofs` | maintainer, harness and doctor together; instances; theorems |

Definitions with the comment `variant` are not part of any specification.  Each is
one action or operator changed the way a plausible bug would change it, and is
listed in `PROJECT.json` under `mutants`: with it in place of the original, TLC
finds the named property violated.

### FeedbackLedger

A process is one run of `upsert` or `digest`.  `file[q]` is the table at path `q`,
`locks[q]` the flock of its lock file, `snap[p]` and `batch[p]` what process `p`
has parsed.  Each action is the code between two points where another process may
run: the check outside the lock (`BeginMigration`, `SkipMigration`), the lock
(`TakeLock`, `GiveUpLock`), the re-check and read of the legacy table (`MigGone`,
`MigRead`), the rename (`MigRename`), the read of the canonical table (`MigParse`),
the replacement (`MigWrite`); then path and date (`Route`), read (`UpRead`), and
replacement (`UpWrite`) of the upsert.  `MigFail`, `UpSkip`, `UpFail` are the error
paths, `Crash` a killed process, whose flock the kernel drops.

Abstractions.  A key stands for category and normalised pattern; the severity cell
decides nothing and is left out; id n stands for the cell `F-n` (up to `F-999` their
string order, which the merge uses, is the numeric one; ids a user wrote by hand in
another form are not modelled); an absent file and a table without rows are the same.
The test whether a symlinked ledger belongs to somebody else, upon which
`_write_ledger` returns without writing, is left out: ledgers are plain files.

### Checklist

`form` and `list` are the file: absent, broken (not a non-empty JSON list), or a
list of items.  `sane[c]` says whether command `c` would exit 0 in the worktree as
it is now; `Change` flips it at any time.  `complete` is `BeginComplete`,
`RunComplete` or `FailComplete`, the lock, `RereadComplete` or `RefuseFlip`,
`WriteComplete`; `verify` is `BeginVerify`, one `RunOne` per item, `RunAll`, the
lock, `RereadVerify`, `WriteVerify`.  A broken file reads as an empty list in
`_read` (`DOMAIN list = {}`), while `status` tells broken from absent.

The order in which `verify` runs its commands is left open, which allows more
behaviours than the code has.  Malformed `init` input is refused before anything is
read or locked, and changes nothing.  Items without a command cannot be created by
`init` and are not modelled.

### StopValidator

A session is idle, in a turn, or in its Stop hook; `Edit` and `Commit` are what a
turn does to the worktree, and `Prompt`, `Stop` are the harness.  `tree[f]` says what
a file is: as in HEAD, deleted, sound, with lint errors that ruff fixes or does not,
or making tests fail.  The hook is `Reenter` or `Enter` (the stop_hook_active guard),
`Claim` or `NoMarker` (the rename), the fingerprint `ReadHead`, `ListModified`, one
`ReadContent` per file in the order of names, `Skip` or `Reject`, then `Scan` or
`Unmodified`, `GiveUp` or `TryAgain` (the cap), lint, fix, second lint, tests, and
`ReadCount`, `Block`.  The pipeline's marker snippet runs the same fingerprint code
(`Validate`, ..., `WriteMarker`).

A test run fails if a test file is in scope and some file of the worktree breaks
tests: the tests may import anything.  Left out: the state directory that is
rejected because somebody else owns it (each hook then has a private, empty one: no
marker is found and no counter kept), symlinked markers (unlinked, and then as if
absent), notebooks, and sizes and times; running out of the 110 s budget is one of
the ways a tool is missing (`"tool"` in `Faults`).

### LspQuery

`out` is the server's stdout pipe, `rpc` and `hand` the reader thread, `queue` the
bounded queue, `pc` the client between `request` and the end of `close`.  `Emit` writes
any message of `Talk` at any time, also unasked; messages differ as far as the code
tells them apart: responses by id and by whether their result has the form that is
asked for, publications by whether they are for the file and by their diagnostics,
requests by whether they are supported, logs, and everything that does not parse
(`Garbage`).  `Long` messages have two units of bytes, all others one.  The two
notifications after `initialize` are one action, and so are the two waits of `close`
for a server that SIGTERM does not end.  `sent` and `heard` record what has been
written and taken, for the properties.

Time is not modelled: `Deadline`, `PutTimesOut`, `FailureTimesOut` and the failing
branch of `Send` may happen whenever their owner waits, which covers every length of
the code's timeouts.  Pipe objects have locks: `CloseStdin` and `CloseStdout` wait for
a thread that is inside a write or a read.

`Faults` of the environment: `"denied"`, the kernel refuses to signal a live server;
`"helper"`, a child of the server in a session of its own keeps the pipes open.

### EvalForge, EvalRun and Evals

`tree` says what is at each place (agent, name): nothing, a forge's temporary
directory, or a scenario with its author and quality.  A forge is `Plan`,
`MakeParent`, `LookParent` (is the directory new?), `MakeTemp`, `Move` (staging and
moving, which puts a second scenario inside the first), `RemoveTemp`, `Validate`; then
`Rollback` and `RemoveParent` if anything fails.  `Break` is an exception, timeout or
interrupt at any step inside the `try`; `Kill` leaves everything as it is.

A run of `run.py` is `Start` (validate), `Discovered` (list and load), `Execute`,
`Compare`, `Refuse` or `BackUp` and `Write`; `--report` is `CompareReport`.  What a
scenario yields is any combination of pass or fail and of the model that the CLI
reports, none included.  Counts per agent and the sets of models are computed as
`summarize` does; rates are compared as products.  Of the three axes, model and effort
are one.  The baseline is one file: `--compare` is given the file that `--baseline`
writes on that day.  Exit codes of a forge are 0 and 1, which stands for every failure.

### ExportHarness

A text is a sequence of lines: markers, bodies, and lines of the user.  A body is one
line, which bears the version of its source; a marker states a version in place of a
hash; a line that is nearly a marker is `Bad`.  `src[p]` is what a run has read of
the rules and, a step later, of the conventions, which a project may have, not have,
or have in part (`Partial`: they are passed over, and the exit code is 3).  Then for
each entrypoint `Read` and one of `CheckEntry`, `RefuseEntry` (damaged markers),
`KeepEntry`, `WriteEntry` and `FailEntry` (outside of the project, not readable, not
writable), then `Finish`; `Kill` at any point, where the temporary file is lost and
the entrypoint is whole.  `seen` records for each entrypoint what a run has read,
left and answered.  `Current`, of the properties, is written independently of
`Agrees`, which is what `cmd_check` tests.

An absent and an empty file are the same, as in `_compose`.  Blank lines between
blocks, `--stdout`, which writes nothing, and two entrypoints that are links to one
file are left out, and so is the rendering of a block.

### WorkTree, ProcessBudget, RuleEdits and RulePreview

A text is a sequence of tokens; a file bears a stamp that is new after every write,
which stands for inode, size and time of modification.  `child` and `kin` are the one
program that a command runs at a time and its descendants, which may hold its pipes or
have closed them; `late` says that the deadline has passed, and `room` is what may
still be read.  `Spawn`, `Exits`, `Collected`, `Overflows`, `Expires` are the ways
through `run`, each of which but the first two ends in `KillGroup`.

A preview is `ReadRules`, `List`, `Open` and `Read` per file in the order of names,
`FirstRead`, `MakeCopy`, the probe of the engine, then passes of `StartScan`,
`Scanned`, `Verify` (the copy is still what was scanned), `Refuse` (rows that do not
agree with the bytes, or edits that are ambiguous), `Rewrite` or `Converge`; then the
diff program, `RemoveCopy`, the second `List` ... `ReadAgain`, and `Emit`.  `OutOfTime`
is each place where the deadline is looked at.  The engine reports the occurrences of
the patterns, or, with `"junk"`, a row that is moved.  A row that the engine leaves out
is nothing that the code could notice: it has no other source for what matches.
`moment` records the files when the first snapshot was complete.  What the rules mean
(`Meant`, `Orbit` in `Workspace`) is written by positions, independently of the order of
the splices in `ApplyEdits`.

A pattern is a sequence of tokens that is not empty (`CastAssumption`; the nodes of a
syntax tree cover text): what the engine can match beyond that does not matter to the
code, which sees ranges only.  Paths are numbers; symlinks, directories
and files that are not regular are refused when they are listed, and are not modelled.

### AutoFormat

`targets` are the files the tool call has written, `step` and `call` the program of
the pipeline that is next.  Time is a clock in units of `MinStep`: a program takes any
part of what it is allowed, fails, is not installed, or times out before or after it
has written.  `feedback[f]` are the positions of the errors that were reported.

A program reads, and writes, in one action: what a formatter does between the two is
the formatter's, and a user's write that it loses there is not the hook's.

### BuildTargets

A write is `Truncate` and `Fill` per artifact, either of which may fail (the command
goes on and exits with 1) and after either of which it may be killed; a bad source ends
it in the middle (`RefuseTarget`).  A check compares (`CheckArtifact`).  A text is what
it depends on: version and parts for a manifest, the frontmatter for a skill.
`InPlace`, of the property, asks of every wanted target that it can be computed from
the sources as they are now, and of every artifact that it is there.

### InstallDoctor and Release

A plugin store is a directory, safe or not, with version directories; HOME/plugins
leads to one of them by a link with an identity.  The phases of a diagnosis are those of
`diagnose`: `ReadConfig`, `LookAtLink` and `Pin`, `LoadSnapshot`, `Locate`,
`ReadInstalled`, `ReadHooks`, `ReadMarketplace`, `ReadSource`, `Verify`, `Capture` and
a second `Verify`.  `found` collects the observations of the layers, `origins` what was
read; an error in the early layers ends the diagnosis (`Stop`), one in the later ones is
an observation.  `still` is a history variable: nothing has changed, and no read has
failed, since the diagnosis began.  `Defective`, `Matching` and `Evidence` are the truth
at one moment, of which the doctor reads one piece after another.

`Release` adds the maintainer (`Build`, `EditSource`, `Meddle`), the harness
(`Install`), the user (`Reconfigure`, `Swap`) and a plan: which commands are still to be
given, and how many changes may still happen.

## 3. Runs

`Faults` names the failures a run allows; every set of a run is in its `.cfg`.

| run | instance | checks | shows |
|---|---|---|---|
| ledger_locked | 3 processes, 2 worktrees, 3 patterns, cap 2, 2 days: legacy tables to merge, or a full table with a tie; io, crash | TypeOK, NothingLost, DropsOnlyTheWorst, ImplementsAtomicLedger | nothing learned disappears below the cap, only the worst rows go at the cap, the file is an atomic ledger |
| ledger_degraded | one legacy table; lock, crash; one process may be suspended for ever | NoDoubleCount, BooksSound, EveryCommandEnds | without the lock updates may be lost, nothing worse; no pipeline hangs on a lock |
| checklist_proven | 3 processes (init, complete, status), 2 items, 2 commands; lock, crash, edit; one process may be suspended for ever | TypeOK, PassIsProven, SkipMeansAbsent, EveryCommandEnds | a pass has a proof of the item's own command; no command hangs on a lock |
| checklist_locked | 4 processes, all commands; io, crash | OnlyInitReplans | a replan is not undone |
| stop_marker | 2 sessions, 2 files, 2 markers, 1 commit; fixable and other errors, failing tests; error | TypeOK, SkipOnce, SkipIsFresh, PassedIsClean | a marker excuses one hook and what it describes; what passes is clean |
| stop_turns | stop_hook_active sent or not; git, tool | CapIsEarned, EveryTurnEnds | the cap is used up by the turn's own blocks, and it ends every chain of blocks |
| lsp_query | any three messages of ten kinds, queue of 2, 4 units of bytes; diagnostics and navigation | TypeOK, StreamInOrder, OutcomeIsTrue, ServerIsGone, EveryQueryEnds | whatever a server does, the answer is its own, errors and budgets are told as such, and the query, its reader and its server end |
| evals | 2 agents, one scenario; up to 2 forges, apart or at one place; a forge and a run; two runs; one change by the user; kill, stuck | TypeOK, ForgeIsAtomic, GreenIsGraded, BaselineIsWhole, BaselineNeverWeakens | all or nothing for a forge with a place of its own; what green and a baseline mean |
| export | two entrypoints, out of: the user's alone, with a block of each source, with a block inside the other; one edit of any line, one update of a source | TypeOK, VerdictIsTrue, OwnLinesKept | success means that both blocks are there once and whole; a failure is told and stays where it is; the lines outside the markers are kept in order, and none is made up |
| workspace | 11 sets of rules that turn, cycle, grow, nest, collide or overlap, 3 passes; two files through the hook; both at once; two edits; junk, tamper, rc | SourcesHeld, ConvergedIsFixed, NothingLeftBehind, HookInTime, FeedbackIsFinal, EveryRunEnds | a preview is about one moment and leads where its rules lead, nothing outlives it; the hook keeps its budget and reports the file it leaves; both end |
| release | 2 harnesses and one that is switched off, 8 source trees; 2 stores of 10 kinds, 4 configurations; captured and used snapshots; one change at any time; io, kill, slow | DriftIsSeen, MatchIsTrue, VerdictIsRight | a check sees all drift and no other; a match was one; a defect is told |

`OutcomeIsTrue`, `ForgeIsAtomic` and `VerdictIsTrue` are conjunctions of named parts:
`AnswersMatch`, `ErrorsSurvive`, `BudgetIsEarned`; `CommittedStays`,
`FailureLeavesNothing`; `ExitMeansCurrent`, `FailureIsLocal`.  `SnapshotFresh`,
`BlocksCapped` and `WithinLimits` are theorems, and no run repeats them.  The states of
`Workspace` satisfy its `TypeOK` too.

A run that TLC must find violated; it refutes a sentence of the repository, quoted
in `PROJECT.json` under `findings`:

| run | property | what happens |
|---|---|---|
| checklist_stale_verify | PassIsProven | `verify` passes an item on the outcome of its old command |

Properties that are stated in the modules, that the code does not meet either, and
that have no run of their own; a run with the named constants shows each:

| property | constants | what happens |
|---|---|---|
| ReportedIsRecorded | those of ledger_locked | a full ledger of frequent rows drops the row just "added" (`feedback_ledger.py:460`) |
| NoDoubleCount | those of ledger_degraded, `Stalled = {}`, `Faults = {"git"}` | a command whose git lookup failed writes a migrated table back, and it is merged again (`feedback_ledger.py:164`) |
| FailedMigrationStaysPut | `Faults = {"io"}` | after a failed migration the command uses the canonical path, where its warning says the old one (`feedback_ledger.py:550`) |
| BackupKept | `Home <- MCHomeTogether`, `Faults = {"git", "crash"}` | a second migration overwrites a backup that holds the only copy of a table |
| SkipMeansAbsent | `Jobs <- AllOfThem`, `Faults = {"edit"}` | `verify` answers 3 for a broken file |
| ConcurrentPassKept | `Jobs <- AllOfThem` | `verify` undoes a completion that is newer than its outcome |
| SkipIsFresh | those of stop_marker with one marker, `Faults = {"git"}` | with failing git queries a fingerprint covers HEAD only (`stop-validator.py:286`, `:724`) |
| SkipWasValidated | those of stop_marker, `Faults = {}` | the fingerprint is taken after the validation and covers what came in between |
| EveryQueryEnds | those of lsp_query, `Faults = {"denied"}` | with a server that is silent and that nobody may signal, `close` waits for a lock that the reader thread holds; "Finish local cleanup even if a live signal denial is raised" (`lsp_transport.py:246`) |
| EveryQueryEnds | those of lsp_query, `Faults = {"helper"}` | likewise when a helper keeps the pipes |
| OwnLinesSurvive | those of export | what the user writes between the read and the replacement is lost (`export_harness.py:1170`) |
| ExitMeansCurrent without `Apart` | those of export | with the rules inside the conventions, a write drops the rules and exits with 0; the markers of the two "never overlap" (`export_harness.py:1191`) |
| OnlyValidInPlace | those of evals | the scenario is moved first and validated in its place, where `eval-forge.py:23` says the opposite; runs see it meanwhile |
| CommittedStays without `Alone` | those of evals | of two forges at one place, one moves into the other's scenario or removes it in its roll back (`eval-forge.py:580`) |
| CapIsEarned | `Faults = {"error"}` | the counter a dead hook leaves behind is charged to later turns |

### Bounds

* Three or four processes: the races need a reader, a writer in between, and, for
  migrations, a process that finds the work done.  Two worktrees, because what is
  special about a worktree is that another one exists.
* `Cap = 2` with up to three patterns: an insert into a full table with a tie and
  without one.  The code's 50 has no special role; the theorems hold for any cap.
* `MaxDay`, `MaxCommits`, `MaxMarkers` bound counters that only grow.
* Two files, one of them a test: a fingerprint of two files can be torn, and a
  source change can fail a test of another file.
* Three messages of a server with a queue of two: enough to fill the queue and to
  exceed each budget, and for an initialization, an error and its clearing.
* Two forges, because a third meets the same places; two runs, because a baseline has
  a writer and a reader; one change by the user, which falls between any two steps.
  Forges and two runs are not combined: runs never write what forges read.
* Two entrypoints, one that fails and one that must not; one edit, which adds or
  removes any line at any moment, so that a pair of markers is broken, doubled or
  crossed; two versions, the old and the new.
* Texts of four tokens, which a rule that grows exceeds in three passes, and three
  passes, in which two rules cycle and a chain of three does not end.  Two edits by the
  user, one for each of the two reads of one file.
* Budget 4, step timeout 2, least step 1 and hook timeout 5: the second file begins with
  anything between a whole timeout and less than a step.
* Two enabled targets, of which the second fails after the first was written; two
  commands, a write and the check after it; two stores, one of which takes the place of
  the other; one change, which falls between any two of the doctor's reads.  Building
  and diagnosing are mostly apart, since the doctor reads two of the files only; one plan
  has a write during a diagnosis.
* Sessions prompt, edit and stop without bound; every other variable is finite.

`CHECK_DEADLOCK FALSE` stands in the ledger, checklist, LSP, evals, export, workspace
and release runs: there a behaviour ends when all commands, or the query, have ended.  The stop hook's runs check deadlock.

### Fairness

`FairSpec` of the ledger and the checklist is weak fairness of each process that is
not in `Stalled`.  The code waits nowhere but in the lock loop, which has a deadline,
in git calls and verify commands, which have timeouts; a process that nobody
suspends makes its next step.  Nothing is assumed of crashes, the clock, or a
process that is suspended with the lock in its hands.

`FairSpec` of the Stop hook is weak fairness of the hook and the marker snippet,
whose subprocesses all have timeouts, and strong fairness of `Stop`: an agent ends
its turns, also if it runs a pipeline now and then.  It is not assumed that the agent
repairs anything.

`FairSpec` of a query is weak fairness of the reader thread and of the client: both
are scheduled, and each of their waits but that for a pipe's lock has a timeout.
Nothing is assumed of the server, neither that it speaks nor that it ends.

`FairSpec` of a workspace is weak fairness of the preview, of the hook and of the clock,
which runs until the deadline has passed.  Each wait of the two commands has a timeout.
Nothing is assumed of the engine, which may hang, nor of the user.  `Release` states
safety only, and no fairness.

## 4. Theorems

For all values of the constants that satisfy the named assumptions of the modules.
The assumptions say of which kind each constant is, and so does a hypothesis that some
set of constants is finite; a hypothesis about `Faults` is about the code, and stands
only where without it the property is false, as section 3 shows for most of them.

`FeedbackLedgerProofs`:

* The table: `PlaceIsPermutation`, the ranking of `_decay` is a permutation;
  `MergeKeepsSound`, upsert and merge of sound tables yield sound tables.
* `TypeCorrect`, `BooksStaySound`, under every fault.  The invariant `SoundInv` adds to
  the property that what processes hold in memory is sound too: a process writes what it
  has read, so soundness of files alone is not inductive.
* `SnapshotsAreFresh`, if no lock wait gives up.  `LockInv` says that a process in a
  section holds the lock of its path, and that what a section has read is still what the
  file says.
* `OnlyTheWorstIsDropped`, likewise: a write decays what the file says now
  (`LockInv`), and decay keeps the first `Cap` places of the ranking.
* `CanonIsAtomic`, if moreover git answers: every step is a step of `AtomicLedger` or
  stutters.  `RefineInv` adds that migrating processes carry a legacy table of the
  initial state and that processes report once.
* `CountedOnce`, if git answers and there are finitely many worktrees; lock waits may
  give up.  `OwedInv` says that what a worktree had learned is in one place, its
  legacy table, a backup that the canonical table owes, or settled, and that one process
  at most absorbs it; `CountInv`, that no table, on disk or in memory, counts more than
  what is settled and what was reported.
* `NothingIsLost`, if no lock wait gives up either: `ExactInv` says that the canonical
  table counts exactly that, while the patterns ever noted fit into it.

`ChecklistProofs`:

* `ChecklistTypes`, under every fault.
* `CompletionsAreProven`: without `verify`, `PassIsProven` under every fault.  The
  invariant says that lists in memory are proven and that the item about to be flipped
  still has the command that was run.
* `PlansSurvive`: if no lock wait gives up and nobody edits the file,
  `OnlyInitReplans`.
* `SkippedIsAbsent`: `SkipMeansAbsent` under every fault, if there is no `verify` or
  nobody breaks the file by hand, since `verify` answers 3 for a broken file too
  (`checklist.py:346`).

`StopValidatorProofs`:

* `StopTypes` and `MarkersExcuseOnce` (`SkipOnce`) under every fault.  A serial number is
  in one place: the marker file, the hands of one hook, or the spent ones.
* `BlocksAreCapped`, `CapsAreEarned`: with session ids and hooks that do not die.
  During a turn the counter equals the number of blocks of this turn, and between turns
  it is absent.
* `SkipsAreFresh`, if git answers.  As long as nothing has moved under a hook
  (`quiet`), each part of the fingerprint read so far is that of the worktree as it is
  (`Fresh`), and a hook holds one marker at most (`AloneInv`).
* `PassesAreClean`, if ruff and pytest answer: a hook that has gone on to the tests has
  found no lint errors (`Linted`).

`LspQueryProofs`, for any limits and whatever the server writes:

* `QueryTypes`; `StaysWithinLimits`, where the invariant adds that the reader holds one
  element at most.
* `LeavesNoServer`: `ServerIsGone` under every fault.  From the SIGKILL on the server is
  down or a signal was refused, and only the SIGTERM can have been refused first, so
  the flag no longer changes.
* `KeepsTheStream`.  `StreamInv`: there is a sequence of messages, those that were
  read, which what the client has heard, the queue and the reader's hand together carry
  in order, a failure only at the end, and whose bytes are the ones counted.
* `SaysWhatIsSo`.  `ReplyInv` says which answers can have been heard at each step of
  the dialogue, `Kept` that `published` has what was heard and not cleared.

`EvalsProofs`, for any forges, runs and edits:

* `GreenRunsAreGraded`, `BaselinesAreWhole`.  From the execution on an exit code of 0
  goes with results that are all there and all passes, and a run about to write the
  baseline has got past every refusal (`Inv`).
* `ForgesAreAtomic`.  `ForgeInv` says, phase by phase, what a forge has put where
  (`Staged`), and that what lies at its places is its own, unless others were called
  there (`Own`).  Nobody but forges makes directories in their staging places
  (`EvalsAssumption`).
* `EvalTypes`, `BaselinesNeverWeaken`.  `RunInv`: a run that is about to save or write
  after a comparison does not regress from what it was compared with, and each baseline
  was compared, or written, whole.

`ExportHarnessProofs`, for any entrypoints, texts and edits (`ExportTypes`):

* `VerdictsAreTrue`.  `Told` says that what a run has said of each entrypoint so far is
  so.  A composed text is the one that was read with a block, or nothing, spliced over a
  gap that holds all marks of its name space; a splice leaves its own block held
  (`OwnSpaceHeld`) and that of the other name space too if the two are apart
  (`OtherSpaceHeld`).
* `OwnLinesAreKept`: a splice carries the user's lines (`SpliceCarries`), and so do two.

`WorkspaceProofs`, for any files, texts, rules and budgets:

* `HookStaysInTime`: a step was given no more than was left of the budget when it began,
  and each of its programs no more than is left of that (`ClockInv`).
* `PreviewLeavesNothing`: a program and its group exist only in the phases that run one
  (`KinInv`), and every way out of those kills the group.
* `SourcesAreHeld`: identities only grow, so what a snapshot holds and what is there now,
  if they bear the same one, are the same file (`StampInv`).  Each file of the second
  snapshot was opened after the first was complete, and agrees with it: hence it was
  there at the moment between (`ReadInv`, `HeldInv`).
* `FeedbackStaysFinal`.  `FinalInv`: what is told of a file the hook is done with is
  about the text it has left, files that are still waiting have been told nothing, and
  the exit code is 2 if something was told.  It needs that no file waits twice
  (`QueueInv`), which is so because the hook sorts paths out (`CastAssumption`).
* `PreviewsConverge`.  Unambiguous edits are apart from each other, and the outermost are
  the largest (`OutermostAreLargest`).  Making the first of them when all others are made
  changes the pieces it covers and nothing else (`MakeTheFirst`), so `apply_edits` does
  what is said by positions (`AppliedByPieces`, along the parts of the set of edits).
  A moved row that is not one of those that should be reported is not sound
  (`MovedRowsAreNotSound`), so rows that are accepted are the true ones (`UsableIsMeant`).
  `PassInv` carries this from scan to scan: the copy is what it should be or has been
  changed for good, `verify` sees which, a scan of the right copy tells the truth or
  something unsound, and `current` and `history` follow the orbit of the sources
  (`OrbitSteps`).  It needs that all texts are sequences of tokens (`TextInv`).

`ReleaseProofs`, for any targets, source trees, stores and plans:

* `AllDriftIsSeen`: two artifacts never share a path (`PathsDiffer`, from the distinct
  names the policy is assumed to have), so what one target has put in place stays so
  while the others are handled; `BuildInv` says that everything wanted is in place, has
  failed, or is still to be handled.
* `MatchesAreTrue`, `VerdictsAreRight`: `Sight` says, phase by phase, how what the doctor
  has read and found relates to the truth as long as nothing changes: the directory it
  has picked is the one there is, the observations have a defect exactly if the layers
  read so far have one, and `origins` is the evidence so far.

### How sums and sequences are dealt with

The library's induction theorems take an operator as a parameter, which the provers
cannot instantiate.  Two forms of induction need none: a set of finite sequences that
has the empty one and grows by appending has all of them (`SequencesByAppending`), and
a property of finite subsets is a set of sets, whose least missing member leads to a
contradiction.  Sums over worktrees and reports are moreover replaced by sets of units,
one per observation (`Units`), whose cardinalities add up when the sets are disjoint;
`ObservedIsSum` shows that the folds of the model are the same numbers.  For a sequence
that is gone through position by position, the set of the numbers up to which something
holds is shown to have all of them (`Upwards`), and a function that goes on from one
number to the next exists (`IterationExists`): so a recursive function, `FlattenSeq` or
`Orbit`, is the one that its rule describes.

### Model-checked only

* The liveness properties (`EveryCommandEnds`, `EveryTurnEnds`, `EveryQueryEnds`,
  `EveryRunEnds`): fairness is out of the prover's reach.

`NothingLost` is about ledgers that have known no more patterns than `Cap`: beyond that
`DropsOnlyTheWorst` says what goes.

## 5. Plan

Done: all modules of section 2, and a theorem for each safety property of the runs.
Next, in this order:

1. `BackupKept` with git answering, from `OwedInv`.
2. `Guards`: decisions over token classes, against a reference definition.
3. `SessionStart`: what is injected when each of its sources may fail.

## 6. Not modelled

`components` in `PROJECT.json` says of each part what is left out.

* Modes that change nothing and keep nothing: a plain query and the rule tests of the
  code intelligence, `--stdout` of the export, dry runs of the evaluation scripts.
* Session start and session history read and format: their only state is a budget of
  characters or bytes.
* The edit guard and the child git guard decide on one string; their substance is regular
  expressions.
* The other build scripts (`derive-name.py`, `bump-version.sh`, `setup.sh`) copy or
  generate once, and the repository gates read and print.
* Prose for language models, formatting, and the site.
