---------------------------- MODULE RulePreview -----------------------------
(***************************************************************************)
(* code_intel_rules.py, rule preview: read the files, copy them, let the   *)
(* engine scan the copy, rewrite the copy from what it reports until       *)
(* nothing changes any more, and read the files once more: a preview of    *)
(* files that have changed meanwhile is thrown away.  The user, the engine *)
(* and whoever gets at the private copy take turns with it in any order.   *)
(***************************************************************************)
EXTENDS WorkTree, RuleEdits, ProcessBudget

CONSTANTS
  Reserved,   \* ids of rules that are built into the engine
  None,       \* no file is open
  Foreign,    \* a file of the copy that somebody else has changed or replaced
  MaxText,    \* MAX_FILE_BYTES
  MaxPasses,  \* --max-passes
  Faults      \* what may go wrong: "junk", "tamper", "rc"

ASSUME PreviewAssumption ==
  /\ MaxText \in Nat /\ MaxPasses \in Nat \ {0}
  /\ None \notin Kept /\ Foreign \notin Seq(Tokens)

VARIABLES
  stdin,     \* the rule documents that the caller hands over
  ppc,       \* where the command is
  rules,     \* the rules by id
  listed,    \* names that the directory had and that are still to be read
  opened,    \* the open file, as it was when it was opened
  snap,      \* the snapshot that is being taken
  first,     \* the snapshot that was taken before the copy was made
  copy,      \* the private copy, if there is one
  current,   \* what the copy should contain
  history,   \* all that it has contained
  scans, rewrites,
  reply,     \* what the last scan reported
  stop,      \* stop_reason
  rc, why,   \* the exit code, and the error
  moment     \* history: the files when the first snapshot was complete

scanVars == << copy, current, history, scans, rewrites, reply, stop >>
readVars == << stdin, rules, listed, opened, snap, first, moment >>
previewVars == << ppc, rc, why, readVars, scanVars >>

NoFiles == << >>

PreviewInit ==
  /\ ppc = "stdin"
  /\ rules = NoFiles /\ listed = {} /\ opened = None
  /\ snap = NoFiles /\ first = NoFiles /\ moment = NoFiles
  /\ copy = NoFiles /\ current = NoFiles /\ history = {}
  /\ scans = 0 /\ rewrites = 0 /\ reply = {} /\ stop = "none"
  /\ rc = 0 /\ why = "none"

-----------------------------------------------------------------------------
(***************************************************************************)
(* Every way out passes here: RuleError and the other exceptions leave the *)
(* temporary directory and budget.run, which clean up behind them.         *)
(***************************************************************************)
Leave(code, error) ==
  /\ ppc' = "done" /\ rc' = code /\ why' = error
  /\ copy' = NoFiles
  /\ UNCHANGED << current, history, scans, rewrites, reply, stop >>

Fail(error) == Leave(2, error) /\ UNCHANGED << readVars, budgetVars >>

Goto(phase) == ppc' = phase /\ UNCHANGED << rc, why >>

(***************************************************************************)
(* The rules come from stdin, which may stay silent until the deadline.    *)
(***************************************************************************)
Ids(documents) == {documents[i].id : i \in DOMAIN documents}

Refused(documents) ==
  \/ documents = << >>
  \/ Ids(documents) \cap Reserved # {}
  \/ Cardinality(Ids(documents)) < Len(documents)

Parsed(documents) ==
  [id \in Ids(documents) |->
     LET d == CHOOSE d \in Range(documents) : d.id = id IN Rule(d.pattern, d.fix)]

ReadRules ==
  /\ ppc = "stdin" /\ ~late
  /\ \/ Refused(stdin) /\ Fail("invalid")
     \/ /\ ~Refused(stdin)
        /\ rules' = Parsed(stdin)
        /\ Goto("list")
        /\ UNCHANGED << stdin, listed, opened, snap, first, moment, scanVars, budgetVars >>

(***************************************************************************)
(* _check_deadline is called for every entry that is listed and every file *)
(* that is read, written or read back: with none of them it is not called. *)
(***************************************************************************)
InTime(files) == ~late \/ files = {}

Present == {f \in Files : Exists(f)}

(***************************************************************************)
(* The names are listed first; then each file is opened and read, its      *)
(* identity being taken before and after.                                  *)
(***************************************************************************)
List ==
  /\ ppc = "list" /\ InTime(Present)
  /\ listed' = Present
  /\ Goto("read")
  /\ UNCHANGED << stdin, rules, opened, snap, first, moment, scanVars, budgetVars >>

Least(f) == f \in listed /\ \A g \in listed : f <= g

Open ==
  /\ ppc = "read" /\ opened = None
  /\ \E f \in Files :
       /\ Least(f)
       /\ \/ ~Exists(f) /\ Fail("path_missing")
          \/ Exists(f) /\ Len(tree[f].text) > MaxText /\ Fail("limit")
          \/ /\ Exists(f) /\ Len(tree[f].text) <= MaxText
             /\ opened' = tree[f]
             /\ UNCHANGED << ppc, rc, why, stdin, rules, listed, snap, first, moment, scanVars, budgetVars >>

(***************************************************************************)
(* A file written in place while it was read is noticed; one that was      *)
(* replaced or removed is still read as it was when it was opened.         *)
(***************************************************************************)
Read ==
  /\ ppc = "read" /\ opened # None /\ ~late
  /\ \E f \in Files :
       /\ Least(f)
       /\ \/ Exists(f) /\ tree[f] # opened /\ Fail("source_changed")
          \/ /\ snap' = [g \in DOMAIN snap \cup {f} |-> IF g = f THEN opened ELSE snap[g]]
             /\ listed' = listed \ {f} /\ opened' = None
             /\ UNCHANGED << ppc, rc, why, stdin, rules, first, moment, scanVars, budgetVars >>

AllRead == ppc = "read" /\ listed = {} /\ opened = None

FirstRead ==
  /\ AllRead /\ stop = "none"
  /\ first' = snap /\ snap' = NoFiles /\ moment' = tree
  /\ Goto("copy")
  /\ UNCHANGED << stdin, rules, listed, opened, scanVars, budgetVars >>

(***************************************************************************)
(* _state: what two snapshots are compared by.                             *)
(***************************************************************************)
TextsOnly(files) == [f \in DOMAIN files |-> files[f].text]  \* variant: the digests only

State(files) == [f \in DOMAIN files |-> << files[f].text, files[f].stamp >>]

ReadAgain ==
  /\ AllRead /\ stop # "none"
  /\ \/ State(snap) # State(first) /\ Fail("source_changed")
     \/ /\ State(snap) = State(first)
        /\ Goto("emit")
        /\ UNCHANGED << readVars, scanVars, budgetVars >>

-----------------------------------------------------------------------------
(***************************************************************************)
(* CopyTree.                                                               *)
(***************************************************************************)
Texts(files) == [f \in DOMAIN files |-> files[f].text]

MakeCopy ==
  /\ ppc = "copy" /\ InTime(DOMAIN first)
  /\ copy' = Texts(first) /\ current' = Texts(first) /\ history' = {Texts(first)}
  /\ Goto("probe")
  /\ UNCHANGED << readVars, scans, rewrites, reply, stop, budgetVars >>

(***************************************************************************)
(* Somebody changes a file of the copy, and does not change it back.       *)
(***************************************************************************)
Tamper ==
  /\ "tamper" \in Faults
  /\ \E f \in DOMAIN copy : copy' = [copy EXCEPT ![f] = Foreign]
  /\ UNCHANGED << ppc, rc, why, readVars, current, history, scans, rewrites, reply, stop, budgetVars >>

(***************************************************************************)
(* budget.run: the program is started, runs, and is collected, or it       *)
(* writes too much, or its time is over.  The probe has a timeout of its   *)
(* own too.                                                                *)
(***************************************************************************)
Running == {"probe", "scan", "diff"}

StartProgram ==
  /\ ppc \in {"probe", "diff"} /\ Spawn
  /\ UNCHANGED previewVars

ProgramExits ==
  /\ ppc \in {"probe", "diff"} /\ Exits
  /\ UNCHANGED previewVars

Flood ==
  /\ ppc \in Running
  /\ \E size \in 1..MaxOutput + 1 : Overflows(size)
  /\ Leave(2, IF ppc = "probe" THEN "engine_rejected" ELSE "budget")
  /\ UNCHANGED readVars

OverBudget ==
  /\ ppc \in Running
  /\ UNCHANGED readVars
  /\ \/ Expires /\ Leave(2, "budget")
     \/ ppc = "probe" /\ child # "none" /\ KillGroup /\ UNCHANGED << room, late >>
        /\ Leave(2, "budget")

(***************************************************************************)
(* select_engine.                                                          *)
(***************************************************************************)
Probed ==
  /\ ppc = "probe" /\ Collected(1)
  /\ UNCHANGED readVars
  /\ \/ Goto("top") /\ UNCHANGED scanVars
     \/ "rc" \in Faults /\ \E error \in {"unavailable", "unsupported_engine"} : Leave(3, error)

-----------------------------------------------------------------------------
(***************************************************************************)
(* The loop of _passes: no scan more than allowed, none after the deadline.*)
(***************************************************************************)
Stop(reason) == stop' = reason

PassLimit ==
  /\ ppc = "top" /\ scans >= MaxPasses
  /\ Stop("pass_limit") /\ Goto("leave")
  /\ UNCHANGED << readVars, copy, current, history, scans, rewrites, reply, budgetVars >>

StartScan ==
  /\ ppc = "top" /\ scans < MaxPasses
  /\ Spawn
  /\ scans' = scans + 1 /\ Goto("scan")
  /\ UNCHANGED << readVars, copy, current, history, rewrites, reply, stop >>

(***************************************************************************)
(* The engine has read the copy as it found it; an engine of another       *)
(* version may report rows that do not agree with the bytes.  A row that   *)
(* it does not report at all is nothing that the code could notice.        *)
(***************************************************************************)
Seen == {f \in DOMAIN copy : copy[f] # Foreign}

Honest == UNION {RowsOf(rules, f, copy[f]) : f \in Seen}

Shifted(row) == [row EXCEPT !.low = @ + 1, !.high = @ + 1]

Replies == {Honest} \cup
  (IF "junk" \in Faults
   THEN {(Honest \ {r}) \cup {Shifted(r)} : r \in {x \in Honest : Shifted(x) \notin Honest}}
   ELSE {})

EngineExits ==
  /\ ppc = "scan" /\ Exits
  /\ reply' \in Replies
  /\ UNCHANGED << ppc, rc, why, readVars, copy, current, history, scans, rewrites, stop >>

Scanned ==
  /\ ppc = "scan" /\ Collected(Cardinality(reply))
  /\ UNCHANGED readVars
  /\ \/ Goto("verify") /\ UNCHANGED scanVars
     \/ "rc" \in Faults /\ Leave(2, "engine_error")

(***************************************************************************)
(* The scan must have read exactly what this pass reasons about.           *)
(***************************************************************************)
Verify ==
  /\ ppc = "verify" /\ InTime(DOMAIN current)
  /\ \/ copy # current /\ Fail("copy_changed")
     \/ copy = current /\ Goto("judge") /\ UNCHANGED << readVars, scanVars, budgetVars >>

(***************************************************************************)
(* validate_matches, select_edits, apply_edits.                            *)
(***************************************************************************)
Valid(rows) == \A r \in rows : Sound(r, current, rules)

Refuse ==
  /\ ppc = "judge"
  /\ \/ ~Valid(reply) /\ Fail("schema_mismatch")
     \/ /\ Valid(reply)
        /\ \E f \in DOMAIN current : Ambiguous(EditsFor(reply, f))
        /\ Fail("same_range")

Rewritten(f) == ApplyEdits(current[f], Outermost(EditsFor(reply, f)))

Updated == {f \in DOMAIN current : Rewritten(f) # current[f]}

Usable == Valid(reply) /\ \A f \in DOMAIN current : ~Ambiguous(EditsFor(reply, f))

Converge ==
  /\ ppc = "judge" /\ Usable /\ Updated = {}
  /\ Stop(IF scans = 1 /\ reply = {} THEN "no_match"
          ELSE IF rewrites > 0 THEN "fixed_point" ELSE "idempotent")
  /\ Goto(IF current = Texts(first) THEN "leave" ELSE "diff")
  /\ UNCHANGED << readVars, copy, current, history, scans, rewrites, reply, budgetVars >>

(***************************************************************************)
(* A file of the copy that was replaced is noticed when it is written; one *)
(* that was written in place is overwritten.                               *)
(***************************************************************************)
Rewrite ==
  /\ ppc = "judge" /\ Usable /\ Updated # {} /\ ~late
  /\ \/ \E f \in Updated : Len(Rewritten(f)) > MaxText /\ Fail("limit")
     \/ \E f \in Updated : copy[f] = Foreign /\ Fail("copy_changed")
     \/ LET after == [f \in DOMAIN current |-> Rewritten(f)] IN
        /\ \A f \in Updated : Len(after[f]) <= MaxText
        /\ copy' = [f \in DOMAIN copy |-> IF f \in Updated THEN after[f] ELSE copy[f]]
        /\ current' = after /\ rewrites' = rewrites + 1
        /\ history' = history \cup {after}
        /\ IF after \in history
           THEN Stop("cycle") /\ Goto("leave")
           ELSE Goto("top") /\ UNCHANGED stop
        /\ UNCHANGED << readVars, scans, reply, budgetVars >>

-----------------------------------------------------------------------------
(***************************************************************************)
(* render_diffs, in a program of its own; then the temporary directory is  *)
(* removed and the files are read again.                                   *)
(***************************************************************************)
Rendered ==
  /\ ppc = "diff" /\ Collected(1)
  /\ UNCHANGED readVars
  /\ \/ Goto("leave") /\ UNCHANGED scanVars
     \/ "rc" \in Faults /\ Leave(2, "internal_error")

RemoveCopy ==
  /\ ppc = "leave"
  /\ copy' = NoFiles /\ Goto("list")
  /\ UNCHANGED << readVars, current, history, scans, rewrites, reply, stop, budgetVars >>

Emit ==
  /\ ppc = "emit"
  /\ UNCHANGED << readVars, budgetVars >>
  /\ \/ stop \in {"cycle", "pass_limit"} /\ Leave(2, "nonconvergence")
     \/ stop \notin {"cycle", "pass_limit"} /\ Leave(0, "none")
     \/ Leave(2, "budget")

(***************************************************************************)
(* The deadline, where it is looked at.                                    *)
(***************************************************************************)
OutOfTime ==
  /\ late
  /\ \/ ppc = "stdin"
     \/ ppc = "top" /\ scans < MaxPasses
     \/ ppc = "list" /\ ~InTime(Present)
     \/ ppc = "copy" /\ ~InTime(DOMAIN first)
     \/ ppc = "verify" /\ ~InTime(DOMAIN current)
     \/ ppc = "read" /\ opened # None
     \/ ppc = "judge" /\ Usable /\ Updated # {}
     \/ ppc \in {"probe", "diff"} /\ child = "none"
  /\ Fail("budget")

PreviewSteps ==
  \/ ReadRules \/ List \/ Open \/ Read \/ FirstRead \/ ReadAgain
  \/ MakeCopy \/ StartProgram \/ OverBudget \/ Probed
  \/ PassLimit \/ StartScan \/ Scanned \/ Verify \/ Refuse \/ Converge \/ Rewrite
  \/ Rendered \/ RemoveCopy \/ Emit \/ OutOfTime

Engine == ProgramExits \/ EngineExits \/ Flood

=============================================================================
