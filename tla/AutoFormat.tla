----------------------------- MODULE AutoFormat -----------------------------
(***************************************************************************)
(* auto-format.py, which runs after a tool has written files: each of them *)
(* passes the pipeline of its extension.  A step calls one or two          *)
(* programs, each with a timeout, and everything shares one budget that is *)
(* smaller than the timeout after which the harness kills the hook.        *)
(***************************************************************************)
EXTENDS WorkTree, SequencesExt

CONSTANTS
  Kind,         \* the kind of each file, by its extension
  Blank,        \* a token that "format" removes
  Fixable,      \* a token that "fix" removes
  Wrong,        \* a token that stays, and is reported by "fix" and "check"
  Budget,       \* BUDGET_SECONDS
  StepTimeout,  \* STEP_TIMEOUT
  MinStep,      \* _MIN_STEP_SECONDS
  HookTimeout   \* when the harness kills the hook

ASSUME FormatAssumption ==
  /\ Kind \in [Files -> {"python", "script", "data", "shell", "other"}]
  /\ {Blank, Fixable, Wrong} \subseteq Tokens
  /\ MinStep \in Nat \ {0} /\ StepTimeout \in Nat /\ Budget \in Nat
  /\ MinStep <= StepTimeout /\ StepTimeout <= Budget
  /\ HookTimeout \in Nat /\ Budget < HookTimeout

VARIABLES
  hpc,       \* "file", "step", "call" or "done"
  targets,   \* the files still to be formatted, this one first
  step,      \* the step of its pipeline
  call,      \* the program of the step
  clock,     \* the time since the hook began
  started,   \* when the step began
  timeout,   \* what it was given
  feedback,  \* the places it reports for each file
  exit,      \* the exit code so far
  cut,       \* history: the files of which a program was left out or failed
  left       \* history: each file when the last program had run on it

hookVars == << hpc, targets, step, call, clock, started, timeout, feedback, exit, cut, left >>

HookTypeOK ==
  /\ hpc \in {"file", "step", "call", "done"}
  /\ targets \in Seq(Files)
  /\ step \in Nat /\ call \in Nat
  /\ clock \in Nat /\ started \in Nat /\ timeout \in Nat
  /\ feedback \in [Files -> SUBSET Nat]
  /\ exit \in {0, 2}
  /\ cut \subseteq Files

HookInit ==
  /\ hpc = "file"
  /\ step = 1 /\ call = 1 /\ clock = 0 /\ started = 0 /\ timeout = 0
  /\ feedback = [f \in Files |-> {}] /\ exit = 0
  /\ cut = {} /\ left = [f \in Files |-> Gone]

-----------------------------------------------------------------------------
(***************************************************************************)
(* PIPELINES: what is reported comes last, so that its places are those of *)
(* the file as it is left.                                                 *)
(***************************************************************************)
FixFirst == << "fix", "format" >>  \* variant: formatted after it was checked

Ruff == << "format", "fix" >>

Pipeline(f) ==
  CASE Kind[f] = "python" -> << Ruff >>
    [] Kind[f] = "script" -> << << "format" >>, << "fix" >> >>
    [] Kind[f] = "data" -> << << "format" >> >>
    [] Kind[f] = "shell" -> << << "check" >> >>
    [] Kind[f] = "other" -> << >>

Target == Head(targets)
Steps == Pipeline(Target)
Programs == Steps[step]

(***************************************************************************)
(* What the programs do to a text, and what they report of it.             *)
(***************************************************************************)
Drop(t, token) ==
  LET upTo[n \in 0..Len(t)] ==
        IF n = 0 THEN << >>
        ELSE IF t[n] = token THEN upTo[n - 1] ELSE Append(upTo[n - 1], t[n])
  IN upTo[Len(t)]

Result(program, t) ==
  CASE program = "format" -> Drop(t, Blank)
    [] program = "fix" -> Drop(t, Fixable)
    [] program = "check" -> t

Errors(t) == {i \in DOMAIN t : t[i] = Wrong}

Reported(program, t) == IF program = "format" THEN {} ELSE Errors(Result(program, t))

(***************************************************************************)
(* run_pipeline: a file that is not there is passed over.                  *)
(***************************************************************************)
Begin ==
  /\ hpc = "file" /\ targets # << >>
  /\ IF Exists(Target)
     THEN /\ hpc' = "step" /\ step' = 1
          /\ UNCHANGED << targets, call, clock, started, timeout, feedback, exit, cut, left >>
     ELSE /\ targets' = Tail(targets)
          /\ UNCHANGED << hpc, step, call, clock, started, timeout, feedback, exit, cut, left >>
  /\ UNCHANGED treeVars

Remaining == Budget - clock

(***************************************************************************)
(* The next step, with what is left of the budget; none is begun with less *)
(* than a second.                                                          *)
(***************************************************************************)
StartStep ==
  /\ hpc = "step" /\ step <= Len(Steps) /\ Remaining >= MinStep
  /\ hpc' = "call" /\ call' = 1 /\ started' = clock
  /\ timeout' = Min({StepTimeout, Remaining})
  /\ UNCHANGED << targets, step, clock, feedback, exit, cut, left, treeVars >>

EndFile ==
  /\ hpc' = "file" /\ targets' = Tail(targets)
  /\ exit' = IF feedback[Target] # {} THEN 2 ELSE exit
  /\ UNCHANGED << step, call, clock, started, timeout, feedback, left, treeVars >>

PipelineDone == hpc = "step" /\ step > Len(Steps) /\ EndFile /\ UNCHANGED cut

BudgetSpent ==
  /\ hpc = "step" /\ step <= Len(Steps) /\ Remaining < MinStep
  /\ cut' = cut \cup {Target}
  /\ EndFile

-----------------------------------------------------------------------------
(***************************************************************************)
(* A program of the step runs; the second one of a step has what the first *)
(* has left, and is left out if that is less than a second.                *)
(***************************************************************************)
FreshTimeout == timeout  \* variant: the second program has the whole timeout again

Allowed == timeout - (clock - started)

NextProgram ==
  IF call < Len(Programs)
  THEN call' = call + 1 /\ UNCHANGED << hpc, step >>
  ELSE hpc' = "step" /\ step' = step + 1 /\ UNCHANGED call

StepEnds == hpc' = "step" /\ step' = step + 1 /\ UNCHANGED call

Ready ==
  hpc = "call" /\ (call = 1 \/ Allowed >= MinStep)

Touch(program) ==
  LET t == tree[Target].text IN
  IF Exists(Target) /\ Result(program, t) # t
  THEN Write(Target, Result(program, t), Hook) /\ UNCHANGED edits
  ELSE UNCHANGED treeVars

RunProgram ==
  /\ Ready /\ Exists(Target)
  /\ \E d \in 0..Allowed : clock' = clock + d
  /\ Touch(Programs[call])
  /\ left' = [left EXCEPT ![Target] = tree'[Target]]
  /\ feedback' = [feedback EXCEPT ![Target] =
       @ \cup Reported(Programs[call], tree[Target].text)]
  /\ NextProgram
  /\ UNCHANGED << targets, started, timeout, exit, cut >>

(***************************************************************************)
(* The program fails, or has no file to work on; one that is not installed *)
(* ends the step at once.                                                  *)
(***************************************************************************)
ProgramFails ==
  /\ Ready
  /\ \/ (\E d \in 0..Allowed : clock' = clock + d) /\ NextProgram
     \/ UNCHANGED clock /\ StepEnds
  /\ cut' = cut \cup {Target}
  /\ UNCHANGED << targets, started, timeout, feedback, exit, left, treeVars >>

(***************************************************************************)
(* TimeoutExpired ends the step, not the pipeline; the program was killed  *)
(* before it had written the file, or just after.                          *)
(***************************************************************************)
ProgramTimesOut ==
  /\ Ready
  /\ clock' = clock + Allowed
  /\ cut' = cut \cup {Target}
  /\ \/ UNCHANGED treeVars
     \/ Touch(Programs[call])
  /\ StepEnds
  /\ UNCHANGED << targets, started, timeout, feedback, exit, left >>

LeaveOut ==
  /\ hpc = "call" /\ ~Ready
  /\ cut' = cut \cup {Target}
  /\ StepEnds
  /\ UNCHANGED << targets, clock, started, timeout, feedback, exit, left, treeVars >>

HookEnds ==
  /\ hpc = "file" /\ targets = << >>
  /\ hpc' = "done"
  /\ UNCHANGED << targets, step, call, clock, started, timeout, feedback, exit, cut, left, treeVars >>

HookSteps ==
  \/ Begin \/ StartStep \/ PipelineDone \/ BudgetSpent
  \/ RunProgram \/ ProgramFails \/ ProgramTimesOut \/ LeaveOut \/ HookEnds

=============================================================================
