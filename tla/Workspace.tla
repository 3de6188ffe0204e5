----------------------------- MODULE Workspace ------------------------------
(***************************************************************************)
(* A rule preview and the format hook in one workspace, in which the user  *)
(* edits files too.                                                        *)
(***************************************************************************)
EXTENDS RulePreview, AutoFormat

CONSTANT Casts  \* what there is at the start, and what each command is given

Cast(texts, documents, written, quota) ==
  [texts |-> texts, documents |-> documents, written |-> written, quota |-> quota]

(***************************************************************************)
(* A pattern matches something.  What the hook is given names no file      *)
(* twice: _targets_from_apply_patch leaves out a path that it has found    *)
(* before.                                                                 *)
(***************************************************************************)
ASSUME CastAssumption ==
  /\ NoFix \notin Seq(Tokens)
  /\ \A c \in Casts :
      /\ DOMAIN c.texts \subseteq Files /\ \A f \in DOMAIN c.texts : c.texts[f] \in Seq(Tokens)
      /\ \A d \in Range(c.documents) :
           /\ d.pattern \in Seq(Tokens) \ {<< >>}
           /\ d.fix \in Seq(Tokens) \cup {NoFix}
      /\ c.written \in Seq(Files)
      /\ \A i, j \in 1..Len(c.written) : i # j => c.written[i] # c.written[j]
      /\ c.quota \in 0..MaxEdits

vars == << treeVars, budgetVars, previewVars, hookVars >>

Init ==
  /\ \E c \in Casts :
       /\ tree = [f \in Files |-> IF f \in DOMAIN c.texts THEN File(c.texts[f], 0, User) ELSE Gone]
       /\ stdin = c.documents
       /\ targets = c.written
       /\ edits = MaxEdits - c.quota
  /\ stamps = 0
  /\ BudgetInit /\ PreviewInit /\ HookInit

PreviewStep == PreviewSteps /\ UNCHANGED << treeVars, hookVars >>
EngineStep == Engine /\ UNCHANGED << treeVars, hookVars >>
TamperStep == Tamper /\ UNCHANGED << treeVars, hookVars >>
ClockStep == ppc # "done" /\ ~late /\ TimePasses /\ UNCHANGED << treeVars, previewVars, hookVars >>
HookStep == HookSteps /\ UNCHANGED << budgetVars, previewVars >>
UserStep == Edit /\ UNCHANGED << budgetVars, previewVars, hookVars >>

Next == PreviewStep \/ EngineStep \/ TamperStep \/ ClockStep \/ HookStep \/ UserStep

Spec == Init /\ [][Next]_vars

(***************************************************************************)
(* The commands are scheduled and time passes; the engine need not end.    *)
(***************************************************************************)
FairSpec ==
  Spec /\ WF_vars(PreviewStep) /\ WF_vars(ClockStep) /\ WF_vars(HookStep)

-----------------------------------------------------------------------------
Phases == {"stdin", "list", "read", "copy", "probe", "top", "scan", "verify", "judge", "diff",
           "leave", "emit", "done"}

Stops == {"none", "no_match", "fixed_point", "idempotent", "cycle", "pass_limit"}

(***************************************************************************)
(* What the variables hold; the budget is never overdrawn.                 *)
(***************************************************************************)
TypeOK ==
  /\ BudgetTypeOK /\ HookTypeOK
  /\ tree \in [Files -> Kept \cup {Gone}] /\ stamps \in Nat /\ edits \in 0..MaxEdits
  /\ ppc \in Phases /\ stop \in Stops /\ rc \in {0, 2, 3}
  /\ listed \subseteq Files /\ opened \in Kept \cup {None}
  /\ DOMAIN snap \subseteq Files /\ \A f \in DOMAIN snap : snap[f] \in Kept
  /\ DOMAIN first \subseteq Files /\ \A f \in DOMAIN first : first[f] \in Kept
  /\ scans \in 0..MaxPasses /\ rewrites \in 0..scans

Answered == ppc = "done" /\ why \in {"none", "nonconvergence"}

(***************************************************************************)
(* An answer is about the files as they really were at one moment: no lock *)
(* is taken, the files are read one after the other while others write     *)
(* them, and what makes it true is that they are read twice.               *)
(***************************************************************************)
SourcesHeld ==
  Answered => \A f \in DOMAIN first : moment[f] # Gone /\ moment[f].text = first[f].text

(***************************************************************************)
(* What rules mean for a text, by positions: the largest of the            *)
(* occurrences with a replacement are replaced, all at once.               *)
(***************************************************************************)
Places(rs, t) ==
  {e \in UNION {{[first |-> low, last |-> low + Len(rs[id].pattern), id |-> id, by |-> rs[id].fix] :
                   low \in Occurrences(t, rs[id].pattern)} : id \in DOMAIN rs} :
     e.by # NoFix}

Largest(places) ==
  {e \in places : ~\E d \in places : d # e /\ d.first <= e.first /\ e.last <= d.last}

Piece(t, chosen, p) ==
  LET at == {e \in chosen : e.first < p /\ p <= e.last} IN
  IF at = {} THEN << t[p] >>
  ELSE IF \E e \in at : e.first = p - 1 THEN (CHOOSE e \in at : TRUE).by ELSE << >>

ByPieces(t, chosen) == FlattenSeq([p \in 1..Len(t) |-> Piece(t, chosen, p)])

Meant(rs, t) == ByPieces(t, Largest(Places(rs, t)))

Orbit(rs, start) ==
  LET after[n \in 0..MaxPasses] ==
        IF n = 0 THEN start ELSE [f \in DOMAIN start |-> Meant(rs, after[n - 1][f])]
  IN after

(***************************************************************************)
(* An answer tells where the rules lead: the result is what so many        *)
(* rewritings make of the sources; an answer of success is a fixed point,  *)
(* and a cycle is one.                                                     *)
(***************************************************************************)
ConvergedIsFixed ==
  Answered =>
    LET after == Orbit(rules, Texts(first)) IN
    /\ current = after[rewrites]
    /\ rc = 0 => \A f \in DOMAIN current : Meant(rules, current[f]) = current[f]
    /\ stop = "cycle" => \E k \in 0..rewrites - 1 : after[k] = current

(***************************************************************************)
(* However the command ends, no program that it has started survives it,   *)
(* nor a descendant of one in its group, nor the private copy.             *)
(***************************************************************************)
NothingLeftBehind == ppc = "done" => child = "none" /\ kin = "none" /\ copy = NoFiles

(***************************************************************************)
(* The hook stops by itself before the harness would kill it.              *)
(***************************************************************************)
HookInTime == clock <= Budget

(***************************************************************************)
(* The places that the hook reports are those of the errors of the file as *)
(* it leaves it; an error is left unreported only where a program was left *)
(* out or failed; and the exit code says whether anything is reported.     *)
(***************************************************************************)
Reports(f) == Kind[f] \in {"python", "script", "shell"}

FeedbackIsFinal ==
  hpc = "done" =>
    /\ exit = 2 <=> \E f \in Files : feedback[f] # {}
    /\ \A f \in Files : left[f] # Gone /\ tree[f] = left[f] =>
         \/ feedback[f] = Errors(tree[f].text)
         \/ feedback[f] = {} /\ (f \in cut \/ ~Reports(f))

(***************************************************************************)
(* Both commands end, even when the caller keeps stdin open, the engine    *)
(* hangs, or a descendant of it holds its pipes.                           *)
(***************************************************************************)
EveryRunEnds == <>(ppc = "done" /\ hpc = "done")

=============================================================================
