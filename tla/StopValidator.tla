--------------------------- MODULE StopValidator ---------------------------
(***************************************************************************)
(* The Stop hook stop-validator.py, run at the end of every turn of every  *)
(* session of one checkout, and the auto-dev pipeline that leaves it a     *)
(* marker.                                                                 *)
(*                                                                         *)
(* Sessions edit the same worktree.  When a session ends a turn, the hook  *)
(* lints and tests the python files the session wrote, and either lets     *)
(* the turn end or blocks it, which gives the session another turn.  A     *)
(* session that has validated the worktree itself leaves a marker with a   *)
(* fingerprint of the files; the hook that claims a marker with a present  *)
(* fingerprint skips its checks.  The steps between which another session  *)
(* can act are the actions below.                                          *)
(***************************************************************************)
EXTENDS Integers, FiniteSets, FiniteSetsExt

CONSTANTS
  Sessions,
  Files,        \* python files, in the order of their names
  TestFiles,    \* those named test_*.py or *_test.py
  NewFiles,     \* those that are not tracked at the start
  Drafts,       \* what a session may make of a file
  Ways,         \* how a session may write a file
  MaxRetries,   \* MAX_RETRIES
  ScopedId,     \* does the harness send a session_id?
  SendsActive,  \* what the harness may send as stop_hook_active after a block
  Shared,       \* the retry counter of harnesses without a session_id
  MaxCommits,   \* bound: commits
  MaxMarkers,   \* bound: markers written
  Faults        \* which failures the environment produces

(***************************************************************************)
(* What a file is: as in HEAD; deleted; sound; with lint errors that ruff  *)
(* fixes, or does not; or free of lint errors, with tests failing.         *)
(***************************************************************************)
Contents == {"head", "gone", "ok", "fixable", "ugly", "red"}

(***************************************************************************)
(* "tool": Edit, MultiEdit, Write; "bash": a command whose target the      *)
(* transcript shows; "writeish": one that seems to write; "opaque": a      *)
(* generator that does not even seem to.                                   *)
(***************************************************************************)
AllWays == {"tool", "bash", "writeish", "opaque"}

(***************************************************************************)
(* "git": a git query fails or times out; "tool": ruff or pytest is not    *)
(* there, times out, or the budget is spent; "error": the hook dies or is  *)
(* killed by the harness.                                                  *)
(***************************************************************************)
ASSUME StopAssumption ==
  /\ Files \subseteq Nat /\ IsFiniteSet(Files)
  /\ TestFiles \subseteq Files /\ NewFiles \subseteq Files
  /\ Drafts \subseteq Contents /\ Ways \subseteq AllWays
  /\ MaxRetries \in Nat \ {0}
  /\ ScopedId \in BOOLEAN /\ SendsActive \subseteq BOOLEAN
  /\ Shared \notin Sessions
  /\ MaxCommits \in Nat /\ MaxMarkers \in Nat
  /\ Faults \subseteq {"git", "tool", "error"}

VARIABLES
  tree,       \* the worktree
  untracked,
  head,       \* HEAD, 0 before the first commit
  marker,     \* the marker file: none or one
  retries,    \* the counter files, 0 when absent
  pc,
  active,     \* stop_hook_active of a session's next Stop event
  touched,    \* how the transcript shows a session wrote each file
  blind,      \* did a writeish command escape the extraction?
  claimed,    \* the marker a hook has renamed to a name of its own
  print,      \* the fingerprint a process is computing
  todo,       \* the files it has still to read for it
  scope,      \* the files a hook checks
  count,      \* the counter as read by increment_retry
  outcome,    \* how a session's last hook ended
  quiet,      \* history: has nobody else changed the worktree since Stop?
  tries,      \* history: how often this turn was blocked
  proof,      \* history: the worktree a pipeline validated
  made,       \* history: number of markers written
  spent       \* history: serial numbers of markers that skipped a check

worktree == << tree, untracked, head >>
talk == << active, touched, blind >>
hashing == << claimed, print, todo >>
hook == << scope, count >>
vars == << worktree, marker, retries, pc, talk, hashing, hook,
           outcome, quiet, tries, proof, made, spent >>

InHook == {"guard", "claim", "head", "list", "sum", "scan", "cap", "lint",
           "fix", "recheck", "tests", "count", "bump"}
InPipeline == {"mhead", "mlist", "msum"}

Written == UNION {[S -> Contents] : S \in SUBSET Files}

(***************************************************************************)
(* _worktree_state_hash: HEAD and the content of the modified files.  It   *)
(* is empty (head 0) when HEAD cannot be read.  The content of a deleted   *)
(* file is MISSING.                                                        *)
(***************************************************************************)
Prints == [head : 0..MaxCommits, files : Written]

Blank == [head |-> 0, files |-> [f \in {} |-> "head"]]

Markers == [print : Prints, proof : Prints, serial : 1..MaxMarkers]

Counters == Sessions \cup {Shared}

(***************************************************************************)
(* Every variable has its type; nobody holds more than one marker.         *)
(***************************************************************************)
TypeOK ==
  /\ tree \in [Files -> Contents]
  /\ untracked \subseteq Files
  /\ head \in 0..MaxCommits
  /\ marker \subseteq Markers /\ Cardinality(marker) <= 1
  /\ retries \in [Counters -> Nat]
  /\ pc \in [Sessions -> {"idle", "turn"} \cup InHook \cup InPipeline]
  /\ active \in [Sessions -> BOOLEAN]
  /\ touched \in [Sessions -> [Files -> SUBSET {"tool", "bash"}]]
  /\ blind \in [Sessions -> BOOLEAN]
  /\ \A s \in Sessions : claimed[s] \subseteq Markers /\ Cardinality(claimed[s]) <= 1
  /\ print \in [Sessions -> Prints]
  /\ todo \in [Sessions -> SUBSET Files]
  /\ scope \in [Sessions -> SUBSET Files]
  /\ count \in [Sessions -> Nat]
  /\ outcome \in [Sessions -> {"none", "reentered", "skipped", "unmodified",
                               "capped", "blocked", "passed", "failed"}]
  /\ quiet \in [Sessions -> BOOLEAN]
  /\ tries \in [Sessions -> Nat]
  /\ proof \in [Sessions -> Prints]
  /\ made \in 0..MaxMarkers
  /\ spent \subseteq 1..MaxMarkers

Init ==
  /\ tree = [f \in Files |-> "head"]
  /\ untracked = NewFiles
  /\ head \in {0, 1} \cap 0..MaxCommits
  /\ marker = {}
  /\ retries = [c \in Counters |-> 0]
  /\ pc = [s \in Sessions |-> "idle"]
  /\ active = [s \in Sessions |-> FALSE]
  /\ touched = [s \in Sessions |-> [f \in Files |-> {}]]
  /\ blind = [s \in Sessions |-> FALSE]
  /\ claimed = [s \in Sessions |-> {}]
  /\ print = [s \in Sessions |-> Blank]
  /\ todo = [s \in Sessions |-> {}]
  /\ scope = [s \in Sessions |-> {}]
  /\ count = [s \in Sessions |-> 0]
  /\ outcome = [s \in Sessions |-> "none"]
  /\ quiet = [s \in Sessions |-> TRUE]
  /\ tries = [s \in Sessions |-> 0]
  /\ proof = [s \in Sessions |-> Blank]
  /\ made = 0
  /\ spent = {}

-----------------------------------------------------------------------------
Goto(s, from, to) ==
  /\ pc[s] = from
  /\ pc' = [pc EXCEPT ![s] = to]

Counter(s) == IF ScopedId THEN s ELSE Shared

Modified == {f \in Files : tree[f] # "head"}

(***************************************************************************)
(* A git query answers, or fails and is taken to have found nothing.       *)
(***************************************************************************)
Answers(set) == {set} \cup (IF "git" \in Faults THEN {{}} ELSE {})

(***************************************************************************)
(* Session s changes the worktree under the hooks of the other sessions.   *)
(***************************************************************************)
Disturb(s) ==
  quiet' = [r \in Sessions |-> quiet[r] /\ (r = s \/ pc[r] \notin InHook)]

-----------------------------------------------------------------------------
(***************************************************************************)
(* Turns.  A session writes files, commits, and ends its turn.             *)
(***************************************************************************)
Prompt(s) ==
  /\ Goto(s, "idle", "turn")
  /\ tries' = [tries EXCEPT ![s] = 0]
  /\ outcome' = [outcome EXCEPT ![s] = "none"]
  /\ UNCHANGED << worktree, marker, retries, talk, hashing, hook,
                  quiet, proof, made, spent >>

Edit(s, f, c, way) ==
  /\ pc[s] = "turn"
  /\ tree[f] # c /\ (c = "gone" => f \notin untracked)
  /\ tree' = [tree EXCEPT ![f] = c]
  /\ touched' = [touched EXCEPT ![s][f] = @ \cup ({way} \cap {"tool", "bash"})]
  /\ blind' = [blind EXCEPT ![s] = @ \/ way \in {"bash", "writeish"}]
  /\ Disturb(s)
  /\ UNCHANGED << untracked, head, marker, retries, pc, active, hashing, hook,
                  outcome, tries, proof, made, spent >>

Commit(s) ==
  /\ pc[s] = "turn"
  /\ Modified # {} /\ head < MaxCommits
  /\ tree' = [f \in Files |-> "head"]
  /\ untracked' = untracked \ Modified
  /\ head' = head + 1
  /\ Disturb(s)
  /\ UNCHANGED << marker, retries, pc, talk, hashing, hook,
                  outcome, tries, proof, made, spent >>

Stop(s) ==
  /\ Goto(s, "turn", "guard")
  /\ outcome' = [outcome EXCEPT ![s] = "none"]
  /\ quiet' = [quiet EXCEPT ![s] = TRUE]
  /\ UNCHANGED << worktree, marker, retries, talk, hashing, hook,
                  tries, proof, made, spent >>

-----------------------------------------------------------------------------
(***************************************************************************)
(* allow(): the counter is reset and the turn ends.                        *)
(***************************************************************************)
End(s, why) ==
  /\ pc' = [pc EXCEPT ![s] = "idle"]
  /\ active' = [active EXCEPT ![s] = FALSE]
  /\ claimed' = [claimed EXCEPT ![s] = {}]
  /\ print' = [print EXCEPT ![s] = Blank]
  /\ todo' = [todo EXCEPT ![s] = {}]
  /\ scope' = [scope EXCEPT ![s] = {}]
  /\ count' = [count EXCEPT ![s] = 0]
  /\ outcome' = [outcome EXCEPT ![s] = why]
  /\ UNCHANGED << touched, blind, quiet, tries, proof, made >>

Allow(s, why) ==
  /\ End(s, why)
  /\ retries' = [retries EXCEPT ![Counter(s)] = 0]

(***************************************************************************)
(* The harness says that it re-enters after a block: no second block.      *)
(***************************************************************************)
ReenterUnscoped(s) ==  \* variant: the guard comes before the session scope
  /\ pc[s] = "guard" /\ active[s]
  /\ End(s, "reentered")
  /\ retries' = [retries EXCEPT ![Shared] = 0]
  /\ UNCHANGED << worktree, marker, spent >>

Reenter(s) ==
  /\ pc[s] = "guard" /\ active[s]
  /\ Allow(s, "reentered")
  /\ UNCHANGED << worktree, marker, spent >>

Enter(s) ==
  /\ ~active[s]
  /\ Goto(s, "guard", "claim")
  /\ UNCHANGED << worktree, marker, retries, talk, hashing, hook,
                  outcome, quiet, tries, proof, made, spent >>

(***************************************************************************)
(* _consume_marker_if_valid.  The rename takes the marker from everybody   *)
(* else.                                                                   *)
(***************************************************************************)
ClaimByReading(s) ==  \* variant: the marker is read, and unlinked later
  /\ marker # {}
  /\ Goto(s, "claim", "head")
  /\ claimed' = [claimed EXCEPT ![s] = marker]
  /\ UNCHANGED << worktree, marker, retries, talk, print, todo, hook,
                  outcome, quiet, tries, proof, made, spent >>

Claim(s) ==
  /\ marker # {}
  /\ Goto(s, "claim", "head")
  /\ claimed' = [claimed EXCEPT ![s] = marker]
  /\ marker' = {}
  /\ UNCHANGED << worktree, retries, talk, print, todo, hook,
                  outcome, quiet, tries, proof, made, spent >>

NoMarker(s) ==
  /\ marker = {}
  /\ Goto(s, "claim", "scan")
  /\ UNCHANGED << worktree, marker, retries, talk, hashing, hook,
                  outcome, quiet, tries, proof, made, spent >>

(***************************************************************************)
(* The fingerprint, in the hook and in the pipeline: HEAD, then the list   *)
(* of modified files, then one file after the other.  Without a HEAD it    *)
(* is empty at once.                                                       *)
(***************************************************************************)
ReadHead(s) ==
  /\ \E h \in {head} \cup (IF "git" \in Faults THEN {0} ELSE {}) :
        /\ print' = [print EXCEPT ![s].head = h]
        /\ \/ Goto(s, "head", IF h = 0 THEN "sum" ELSE "list")
           \/ Goto(s, "mhead", IF h = 0 THEN "msum" ELSE "mlist")
  /\ UNCHANGED << worktree, marker, retries, talk, claimed, todo, hook,
                  outcome, quiet, tries, proof, made, spent >>

ListModified(s) ==
  /\ Goto(s, "list", "sum") \/ Goto(s, "mlist", "msum")
  /\ todo' \in {[todo EXCEPT ![s] = fs] : fs \in Answers(Modified)}
  /\ UNCHANGED << worktree, marker, retries, talk, claimed, print, hook,
                  outcome, quiet, tries, proof, made, spent >>

ReadName(s) ==  \* variant: the names of the modified files only
  /\ pc[s] \in {"sum", "msum"} /\ todo[s] # {}
  /\ LET f == Min(todo[s])
     IN  /\ print' = [print EXCEPT ![s].files =
                        [g \in DOMAIN @ \cup {f} |-> "ok"]]
         /\ todo' = [todo EXCEPT ![s] = @ \ {f}]
  /\ UNCHANGED << worktree, marker, retries, pc, talk, claimed, hook,
                  outcome, quiet, tries, proof, made, spent >>

ReadContent(s) ==
  /\ pc[s] \in {"sum", "msum"} /\ todo[s] # {}
  /\ LET f == Min(todo[s])
     IN  /\ print' = [print EXCEPT ![s].files =
                        [g \in DOMAIN @ \cup {f} |-> IF g = f THEN tree[f] ELSE @[g]]]
         /\ todo' = [todo EXCEPT ![s] = @ \ {f}]
  /\ UNCHANGED << worktree, marker, retries, pc, talk, claimed, hook,
                  outcome, quiet, tries, proof, made, spent >>

Valid(s) == \E m \in claimed[s] : m.print = print[s] /\ m.print.head # 0

Skip(s) ==
  /\ pc[s] = "sum" /\ todo[s] = {} /\ Valid(s)
  /\ Allow(s, "skipped")
  /\ spent' = spent \cup {m.serial : m \in claimed[s]}
  /\ UNCHANGED << worktree, marker >>

Reject(s) ==
  /\ todo[s] = {} /\ ~Valid(s)
  /\ Goto(s, "sum", "scan")
  /\ claimed' = [claimed EXCEPT ![s] = {}]
  /\ print' = [print EXCEPT ![s] = Blank]
  /\ UNCHANGED << worktree, marker, retries, talk, todo, hook,
                  outcome, quiet, tries, proof, made, spent >>

-----------------------------------------------------------------------------
(***************************************************************************)
(* What the hook checks: the modified files that the transcript shows this *)
(* session wrote, and the untracked ones; all of them if the transcript    *)
(* cannot be relied on.                                                    *)
(***************************************************************************)
Trusted(s) == blind[s] => \E f \in Files : "tool" \in touched[s][f]

Scoped(s, listed, new) ==
  IF Trusted(s) THEN {f \in listed : touched[s][f] # {} \/ f \in new} ELSE listed

Scan(s) ==
  /\ Goto(s, "scan", "cap")
  /\ \E listed \in Answers(Modified), new \in Answers(untracked) :
        /\ Scoped(s, listed, new) # {}
        /\ scope' = [scope EXCEPT ![s] = Scoped(s, listed, new)]
  /\ UNCHANGED << worktree, marker, retries, talk, hashing, count,
                  outcome, quiet, tries, proof, made, spent >>

Unmodified(s) ==
  /\ pc[s] = "scan"
  /\ \E listed \in Answers(Modified), new \in Answers(untracked) :
        Scoped(s, listed, new) = {}
  /\ Allow(s, "unmodified")
  /\ UNCHANGED << worktree, marker, spent >>

(***************************************************************************)
(* The cap on blocks lets the turn end, checks or no checks.               *)
(***************************************************************************)
GiveUpByBlocking(s) ==  \* variant: the message of the give-up is sent as a block
  /\ retries[Counter(s)] >= MaxRetries
  /\ Goto(s, "cap", "turn")
  /\ scope' = [scope EXCEPT ![s] = {}]
  /\ outcome' = [outcome EXCEPT ![s] = "blocked"]
  /\ UNCHANGED << worktree, marker, retries, talk, hashing, count, quiet,
                  tries, proof, made, spent >>

GiveUp(s) ==
  /\ pc[s] = "cap" /\ retries[Counter(s)] >= MaxRetries
  /\ Allow(s, "capped")
  /\ UNCHANGED << worktree, marker, spent >>

TryAgain(s) ==
  /\ retries[Counter(s)] < MaxRetries
  /\ Goto(s, "cap", "lint")
  /\ UNCHANGED << worktree, marker, retries, talk, hashing, hook,
                  outcome, quiet, tries, proof, made, spent >>

(***************************************************************************)
(* Lint: the files that auto-format has not seen in their last state.      *)
(***************************************************************************)
LintScope(s) ==
  IF Trusted(s) THEN {f \in scope[s] : touched[s][f] # {"tool"}} ELSE scope[s]

LintErrors(s) == {f \in LintScope(s) : tree[f] \in {"fixable", "ugly"}}

NoTool == "tool" \in Faults

LintPassed(s) ==
  /\ LintErrors(s) = {} \/ NoTool
  /\ Goto(s, "lint", "tests") \/ Goto(s, "recheck", "tests")
  /\ UNCHANGED << worktree, marker, retries, talk, hashing, hook,
                  outcome, quiet, tries, proof, made, spent >>

LintFailed(s) ==
  /\ LintErrors(s) # {}
  /\ Goto(s, "lint", "fix") \/ Goto(s, "recheck", "count")
  /\ UNCHANGED << worktree, marker, retries, talk, hashing, hook,
                  outcome, quiet, tries, proof, made, spent >>

(***************************************************************************)
(* ruff --fix rewrites what it can fix; what it makes of it may fail a     *)
(* test.  A missing ruff or a timeout counts as a pass.                    *)
(***************************************************************************)
FixUnchecked(s) ==  \* variant: what is left after the fix is not looked at
  /\ Goto(s, "fix", "tests")
  /\ tree' = [f \in Files |->
                IF f \in LintScope(s) /\ tree[f] = "fixable" THEN "ok" ELSE tree[f]]
  /\ Disturb(s)
  /\ UNCHANGED << untracked, head, marker, retries, talk, hashing, hook,
                  outcome, tries, proof, made, spent >>

Fix(s) ==
  /\ Goto(s, "fix", "recheck")
  /\ \E broken \in SUBSET Files :
        tree' = [f \in Files |->
                   IF f \in LintScope(s) /\ tree[f] = "fixable"
                   THEN IF f \in broken THEN "red" ELSE "ok"
                   ELSE tree[f]]
  /\ Disturb(s)
  /\ UNCHANGED << untracked, head, marker, retries, talk, hashing, hook,
                  outcome, tries, proof, made, spent >>

FixSkipped(s) ==
  /\ NoTool
  /\ Goto(s, "fix", "tests")
  /\ UNCHANGED << worktree, marker, retries, talk, hashing, hook,
                  outcome, quiet, tries, proof, made, spent >>

(***************************************************************************)
(* Tests: only the test files in scope are run, against the worktree.      *)
(***************************************************************************)
Exists(f) == tree[f] # "gone" /\ ~(tree[f] = "head" /\ f \in untracked)

TestScope(s) == {f \in scope[s] \cap TestFiles : Exists(f)}

TestsFail(s) == TestScope(s) # {} /\ \E f \in Files : tree[f] = "red"

TestsPassed(s) ==
  /\ pc[s] = "tests"
  /\ ~TestsFail(s) \/ NoTool
  /\ Allow(s, "passed")
  /\ UNCHANGED << worktree, marker, spent >>

TestsFailed(s) ==
  /\ TestsFail(s)
  /\ Goto(s, "tests", "count")
  /\ UNCHANGED << worktree, marker, retries, talk, hashing, hook,
                  outcome, quiet, tries, proof, made, spent >>

(***************************************************************************)
(* increment_retry reads the counter and then replaces it; block() makes   *)
(* the session go on with the turn.                                        *)
(***************************************************************************)
ReadCount(s) ==
  /\ Goto(s, "count", "bump")
  /\ count' = [count EXCEPT ![s] = retries[Counter(s)]]
  /\ UNCHANGED << worktree, marker, retries, talk, hashing, scope,
                  outcome, quiet, tries, proof, made, spent >>

Block(s) ==
  /\ Goto(s, "bump", "turn")
  /\ retries' = [retries EXCEPT ![Counter(s)] = count[s] + 1]
  /\ active' \in {[active EXCEPT ![s] = b] : b \in SendsActive}
  /\ scope' = [scope EXCEPT ![s] = {}]
  /\ count' = [count EXCEPT ![s] = 0]
  /\ outcome' = [outcome EXCEPT ![s] = "blocked"]
  /\ tries' = [tries EXCEPT ![s] = @ + 1]
  /\ UNCHANGED << worktree, marker, touched, blind, hashing, quiet, proof, made, spent >>

(***************************************************************************)
(* An unexpected exception, or the harness's timeout: the turn ends, and   *)
(* nothing is cleaned up.                                                  *)
(***************************************************************************)
Fail(s) ==
  /\ "error" \in Faults
  /\ pc[s] \in InHook
  /\ End(s, "failed")
  /\ UNCHANGED << worktree, marker, retries, spent >>

-----------------------------------------------------------------------------
(***************************************************************************)
(* The end of auto-dev: the pipeline's commands have just succeeded on the *)
(* worktree; then the fingerprint is computed and written.                 *)
(***************************************************************************)
WorktreePrint == [head |-> head, files |-> [f \in Modified |-> tree[f]]]

Validate(s) ==
  /\ Goto(s, "turn", "mhead")
  /\ made < MaxMarkers
  /\ \A f \in Modified : tree[f] \in {"ok", "gone"}
  /\ proof' = [proof EXCEPT ![s] = WorktreePrint]
  /\ UNCHANGED << worktree, marker, retries, talk, hashing, hook,
                  outcome, quiet, tries, made, spent >>

WriteMarkerBeside(s) ==  \* variant: no os.replace onto the one name
  /\ Goto(s, "msum", "turn")
  /\ todo[s] = {} /\ made < MaxMarkers
  /\ marker' = marker \cup
       {[print |-> print[s], proof |-> proof[s], serial |-> made + 1]}
  /\ made' = made + 1
  /\ print' = [print EXCEPT ![s] = Blank]
  /\ proof' = [proof EXCEPT ![s] = Blank]
  /\ UNCHANGED << worktree, retries, talk, claimed, todo, hook,
                  outcome, quiet, tries, spent >>

WriteMarker(s) ==
  /\ Goto(s, "msum", "turn")
  /\ todo[s] = {} /\ made < MaxMarkers
  /\ marker' = {[print |-> print[s], proof |-> proof[s], serial |-> made + 1]}
  /\ made' = made + 1
  /\ print' = [print EXCEPT ![s] = Blank]
  /\ proof' = [proof EXCEPT ![s] = Blank]
  /\ UNCHANGED << worktree, retries, talk, claimed, todo, hook,
                  outcome, quiet, tries, spent >>

Pipeline(s) == Validate(s) \/ WriteMarker(s)

Hash(s) == ReadHead(s) \/ ListModified(s) \/ ReadContent(s)

Check(s) ==
  \/ LintPassed(s) \/ LintFailed(s) \/ Fix(s) \/ FixSkipped(s)
  \/ TestsPassed(s) \/ TestsFailed(s) \/ ReadCount(s) \/ Block(s)

Hook(s) ==
  \/ Reenter(s) \/ Enter(s)
  \/ Claim(s) \/ NoMarker(s) \/ Skip(s) \/ Reject(s)
  \/ Scan(s) \/ Unmodified(s) \/ GiveUp(s) \/ TryAgain(s)
  \/ Check(s)

Turn(s) ==
  \/ Prompt(s) \/ Commit(s)
  \/ \E f \in Files, c \in Drafts, way \in Ways : Edit(s, f, c, way)

Next ==
  \E s \in Sessions :
     Turn(s) \/ Stop(s) \/ Hook(s) \/ Fail(s) \/ Hash(s) \/ Pipeline(s)

Spec == Init /\ [][Next]_vars

(***************************************************************************)
(* The hook ends within its budget, the pipeline's script ends, and an     *)
(* agent ends its turns.  Nothing is assumed of what an agent does with a  *)
(* blocked turn, nor that it repairs anything.                             *)
(***************************************************************************)
FairSpec ==
  Spec /\ \A s \in Sessions :
            /\ WF_vars(Hook(s) \/ Hash(s) \/ WriteMarker(s))
            /\ SF_vars(Stop(s))

-----------------------------------------------------------------------------
(***************************************************************************)
(* A turn is blocked at most MAX_RETRIES times, also by a harness that     *)
(* does not send stop_hook_active.                                         *)
(***************************************************************************)
BlocksCapped == \A s \in Sessions : tries[s] <= MaxRetries

(***************************************************************************)
(* The hook gives up its checks only after MAX_RETRIES attempts at a       *)
(* repair in this turn, as its message says: no counter of another session *)
(* or of an earlier turn is charged to it.                                 *)
(***************************************************************************)
CapIsEarned == \A s \in Sessions : outcome[s] = "capped" => tries[s] = MaxRetries

(***************************************************************************)
(* One validation excuses one hook: two hooks that race for a marker do    *)
(* not both skip their checks.                                             *)
(***************************************************************************)
Skips(s) == outcome[s] = "none" /\ outcome'[s] = "skipped"

SkipOnce ==
  [][\A s \in Sessions :
        Skips(s) => \A m \in claimed[s] : m.serial \notin spent]_vars

(***************************************************************************)
(* A hook that nobody disturbed skips its checks only if the worktree is   *)
(* what the marker was made for.                                           *)
(***************************************************************************)
Current(m) == m.print = WorktreePrint

SkipIsFresh ==
  [][\A s \in Sessions :
        Skips(s) /\ quiet[s] => \A m \in claimed[s] : Current(m)]_vars

(***************************************************************************)
(* A state changed after its validation is not skipped: the marker's       *)
(* fingerprint is that of the worktree the pipeline validated.  (It is     *)
(* taken later, and what another session wrote in between is covered.)     *)
(***************************************************************************)
SkipWasValidated ==
  [][\A s \in Sessions :
        Skips(s) => \A m \in claimed[s] : m.proof = m.print]_vars

(***************************************************************************)
(* A hook that nobody disturbed and that passes a turn leaves no lint      *)
(* error in the files it had to lint and no failing test it had to run,    *)
(* whatever its own automatic fix has changed.                             *)
(***************************************************************************)
PassedIsClean ==
  [][\A s \in Sessions :
        outcome[s] = "none" /\ outcome'[s] = "passed" /\ quiet[s]
          => LintErrors(s) = {} /\ ~TestsFail(s)]_vars

(***************************************************************************)
(* A session that stops is let go in the end, whatever it does with the    *)
(* turns that blocks give it and whatever the other sessions do.           *)
(***************************************************************************)
EveryTurnEnds == \A s \in Sessions : pc[s] = "guard" ~> pc[s] = "idle"

=============================================================================
