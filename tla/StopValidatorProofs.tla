------------------------ MODULE StopValidatorProofs ------------------------
(***************************************************************************)
(* Theorems about StopValidator, for any number of sessions and files.     *)
(*                                                                         *)
(* 1. A marker excuses one hook (SkipOnce), whatever fails.                *)
(* 2. With session ids, and as long as no hook dies, a turn is blocked at  *)
(*    most MAX_RETRIES times (BlocksCapped) and given up only then         *)
(*    (CapIsEarned), whether or not the harness sends stop_hook_active.    *)
(* 3. Every variable has its type (TypeOK), whatever fails.                *)
(* 4. If git answers, checks are skipped only on the worktree the marker   *)
(*    was made for (SkipIsFresh).                                          *)
(* 5. If ruff and pytest answer, a passed turn is clean (PassedIsClean).   *)
(***************************************************************************)
EXTENDS StopValidator, FiniteSetTheorems, WellFoundedInduction, TLAPS

(***************************************************************************)
(* Markers.  A serial number is in at most one place: the marker file, the *)
(* hands of one hook, or the spent ones.                                   *)
(***************************************************************************)
SerialInv ==
  /\ made \in Nat
  /\ claimed = [s \in Sessions |-> claimed[s]]
  /\ \A n \in spent : n \in 1..made
  /\ \A m \in marker : m.serial \in 1..made /\ m.serial \notin spent
  /\ \A s \in Sessions : \A m \in claimed[s] : m.serial \in 1..made /\ m.serial \notin spent
  /\ \A s \in Sessions : \A m \in claimed[s], n \in marker : m.serial # n.serial
  /\ \A r, s \in Sessions : \A m \in claimed[r], n \in claimed[s] :
        r # s => m.serial # n.serial

LEMMA SerialInit == Init => SerialInv
BY DEF Init, SerialInv

(***************************************************************************)
(* A hook that drops what it has claimed, spent or not, endangers nothing. *)
(***************************************************************************)
LEMMA DroppingKeepsSerials ==
  ASSUME SerialInv, NEW s \in Sessions,
         claimed' = [claimed EXCEPT ![s] = {}],
         UNCHANGED << marker, made >>,
         spent' = spent \/ spent' = spent \cup {m.serial : m \in claimed[s]}
  PROVE  SerialInv'
<1>1. \A r \in Sessions : claimed'[r] = IF r = s THEN {} ELSE claimed[r]
  BY DEF SerialInv
<1>2. \A n \in spent' : n \in 1..made
  BY DEF SerialInv
<1>3. \A m \in marker : m.serial \notin spent'
  BY DEF SerialInv
<1>4. \A r \in Sessions : \A m \in claimed'[r] : m.serial \notin spent'
  BY <1>1 DEF SerialInv
<1>5. claimed' = [r \in Sessions |-> claimed'[r]]
  BY DEF SerialInv
<1>6. \A r \in Sessions : \A m \in claimed'[r] : m.serial \in 1..made
  BY <1>1 DEF SerialInv
<1>7. /\ \A r \in Sessions : \A m \in claimed'[r], n \in marker : m.serial # n.serial
      /\ \A r, t \in Sessions : \A m \in claimed'[r], n \in claimed'[t] :
            r # t => m.serial # n.serial
  BY <1>1 DEF SerialInv
<1>8. made' \in Nat /\ \A m \in marker : m.serial \in 1..made
  BY DEF SerialInv
<1> QED BY <1>2, <1>3, <1>4, <1>5, <1>6, <1>7, <1>8 DEF SerialInv

LEMMA SerialNext == SerialInv /\ [Next]_vars => SerialInv'
<1> SUFFICES ASSUME SerialInv, [Next]_vars PROVE SerialInv'
  OBVIOUS
<1>0. ASSUME UNCHANGED << marker, claimed, made, spent >> PROVE SerialInv'
  BY <1>0 DEF SerialInv
<1>1. CASE UNCHANGED vars
  BY <1>1, <1>0 DEF vars, hashing
<1>2. ASSUME NEW s \in Sessions, Turn(s) PROVE SerialInv'
  BY <1>2, <1>0 DEF Turn, Prompt, Commit, Edit, hashing
<1>3. ASSUME NEW s \in Sessions, Stop(s) PROVE SerialInv'
  BY <1>3, <1>0 DEF Stop, hashing
<1>4. ASSUME NEW s \in Sessions, Hash(s) PROVE SerialInv'
  BY <1>4, <1>0 DEF Hash, ReadHead, ListModified, ReadContent, hashing
<1>5. ASSUME NEW s \in Sessions, Fail(s) PROVE SerialInv'
  BY <1>5, DroppingKeepsSerials DEF Fail, End
<1>6. ASSUME NEW s \in Sessions, Pipeline(s) PROVE SerialInv'
  <2>1. CASE Validate(s)
    BY <2>1, <1>0 DEF Validate, hashing
  <2>2. CASE WriteMarker(s)
    BY <2>2 DEF WriteMarker, SerialInv
  <2> QED BY <1>6, <2>1, <2>2 DEF Pipeline
<1>7. ASSUME NEW s \in Sessions, Hook(s) PROVE SerialInv'
  <2>1. CASE Enter(s) \/ NoMarker(s) \/ Scan(s) \/ TryAgain(s)
    BY <2>1, <1>0 DEF Enter, NoMarker, Scan, TryAgain, hashing
  <2>2. CASE Reenter(s) \/ Unmodified(s) \/ GiveUp(s) \/ Skip(s)
    BY <2>2, DroppingKeepsSerials DEF Reenter, Unmodified, GiveUp, Skip, Allow, End
  <2>3. CASE Reject(s)
    BY <2>3, DroppingKeepsSerials DEF Reject
  <2>4. CASE Claim(s)
    <3>1. /\ marker' = {} /\ UNCHANGED << made, spent >>
          /\ \A r \in Sessions : claimed'[r] = IF r = s THEN marker ELSE claimed[r]
          /\ claimed' = [r \in Sessions |-> claimed'[r]]
      BY <2>4 DEF Claim, SerialInv
    <3> QED BY <3>1 DEF SerialInv
  <2>5. CASE Check(s)
    <3>1. CASE TestsPassed(s)
      BY <3>1, DroppingKeepsSerials DEF TestsPassed, Allow, End
    <3>2. CASE ~TestsPassed(s)
      BY <2>5, <3>2, <1>0 DEF Check, LintPassed, LintFailed, Fix, FixSkipped, TestsFailed,
         ReadCount, Block, hashing
    <3> QED BY <3>1, <3>2
  <2> QED BY <1>7, <2>1, <2>2, <2>3, <2>4, <2>5 DEF Hook
<1> QED BY <1>1, <1>2, <1>3, <1>4, <1>5, <1>6, <1>7 DEF Next

(***************************************************************************)
(* No marker ever excuses two hooks (SkipOnce): the rename of              *)
(* _consume_marker_if_valid hands a marker to one hook only.               *)
(***************************************************************************)
THEOREM MarkersExcuseOnce == Spec => SkipOnce
<1>1. SerialInv => [\A s \in Sessions :
                      Skips(s) => \A m \in claimed[s] : m.serial \notin spent]_vars
  BY DEF SerialInv
<1> QED BY SerialInit, SerialNext, <1>1, PTL DEF Spec, SkipOnce

-----------------------------------------------------------------------------
(***************************************************************************)
(* Caps.  While a turn lasts, the counter of its session says how often    *)
(* the turn was blocked; between turns it is absent.                       *)
(***************************************************************************)
Attempting == {"lint", "fix", "recheck", "tests", "count", "bump"}

CapInv ==
  /\ retries = [c \in Counters |-> retries[c]]
  /\ tries \in [Sessions -> Nat]
  /\ pc = [s \in Sessions |-> pc[s]]
  /\ count = [s \in Sessions |-> count[s]]
  /\ outcome = [s \in Sessions |-> outcome[s]]
  /\ \A s \in Sessions :
       /\ retries[s] = IF pc[s] = "idle" THEN 0 ELSE tries[s]
       /\ tries[s] <= MaxRetries
       /\ pc[s] \in Attempting => tries[s] < MaxRetries
       /\ pc[s] = "bump" => count[s] = tries[s]
       /\ outcome[s] = "capped" => tries[s] = MaxRetries /\ pc[s] = "idle"

LEMMA CapInit == Init => CapInv
BY StopAssumption DEF Init, CapInv, Attempting, Counters

(***************************************************************************)
(* A hook or a turn goes on, and nobody is counted.                        *)
(***************************************************************************)
LEMMA MovingKeepsCaps ==
  ASSUME CapInv, NEW s \in Sessions, NEW to, pc[s] # "idle",
         to \notin {"idle", "bump"}, to \in Attempting => tries[s] < MaxRetries,
         pc' = [pc EXCEPT ![s] = to],
         UNCHANGED << retries, tries, count, outcome >>
  PROVE  CapInv'
<1>1. \A r \in Sessions : pc'[r] = IF r = s THEN to ELSE pc[r]
  BY DEF CapInv
<1>2. pc' = [r \in Sessions |-> pc'[r]]
  BY DEF CapInv
<1> QED BY <1>1, <1>2 DEF CapInv

(***************************************************************************)
(* allow() ends the turn and resets the session's own counter.             *)
(***************************************************************************)
LEMMA AllowingKeepsCaps ==
  ASSUME CapInv, ScopedId, NEW s \in Sessions, NEW why, Allow(s, why),
         why = "capped" => tries[s] = MaxRetries
  PROVE  CapInv'
<1>1. \A r \in Sessions : /\ pc'[r] = IF r = s THEN "idle" ELSE pc[r]
                          /\ retries'[r] = IF r = s THEN 0 ELSE retries[r]
                          /\ count'[r] = IF r = s THEN 0 ELSE count[r]
                          /\ outcome'[r] = IF r = s THEN why ELSE outcome[r]
  BY DEF CapInv, Allow, End, Counter, Counters
<1>2. /\ pc' = [r \in Sessions |-> pc'[r]]
      /\ count' = [r \in Sessions |-> count'[r]]
      /\ outcome' = [r \in Sessions |-> outcome'[r]]
      /\ retries' = [c \in Counters |-> retries'[c]]
  BY DEF CapInv, Allow, End
<1>3. UNCHANGED tries
  BY DEF Allow, End
<1> QED BY <1>1, <1>2, <1>3, StopAssumption DEF CapInv, Attempting

LEMMA CapNext ==
  ASSUME ScopedId, "error" \notin Faults
  PROVE  CapInv /\ [Next]_vars => CapInv'
<1> SUFFICES ASSUME CapInv, [Next]_vars PROVE CapInv'
  OBVIOUS
<1>0. ASSUME UNCHANGED << retries, pc, tries, count, outcome >> PROVE CapInv'
  BY <1>0 DEF CapInv
<1>1. CASE UNCHANGED vars
  BY <1>1, <1>0 DEF vars, hook
<1>2. ASSUME NEW s \in Sessions, Turn(s) PROVE CapInv'
  <2>1. CASE Prompt(s)
    <3>1. /\ \A r \in Sessions : /\ pc'[r] = IF r = s THEN "turn" ELSE pc[r]
                                 /\ outcome'[r] = IF r = s THEN "none" ELSE outcome[r]
                                 /\ tries'[r] = IF r = s THEN 0 ELSE tries[r]
          /\ pc[s] = "idle" /\ UNCHANGED << retries, count >>
      BY <2>1 DEF Prompt, Goto, CapInv, hook
    <3>2. /\ pc' = [r \in Sessions |-> pc'[r]]
          /\ outcome' = [r \in Sessions |-> outcome'[r]]
          /\ tries' \in [Sessions -> Nat]
      BY <2>1 DEF Prompt, Goto, CapInv
    <3> QED BY <3>1, <3>2, StopAssumption DEF CapInv, Attempting
  <2>2. CASE ~Prompt(s)
    BY <1>2, <2>2, <1>0 DEF Turn, Commit, Edit, hook
  <2> QED BY <2>1, <2>2
<1>3. ASSUME NEW s \in Sessions, Stop(s) PROVE CapInv'
  <2>1. /\ \A r \in Sessions : /\ pc'[r] = IF r = s THEN "guard" ELSE pc[r]
                               /\ outcome'[r] = IF r = s THEN "none" ELSE outcome[r]
        /\ pc[s] = "turn" /\ UNCHANGED << retries, tries, count >>
    BY <1>3 DEF Stop, Goto, CapInv, hook
  <2>2. pc' = [r \in Sessions |-> pc'[r]] /\ outcome' = [r \in Sessions |-> outcome'[r]]
    BY <1>3 DEF Stop, Goto, CapInv
  <2> QED BY <2>1, <2>2 DEF CapInv, Attempting
<1>4. ASSUME NEW s \in Sessions, Hash(s) PROVE CapInv'
  <2>1. CASE ReadHead(s)
    <3>1. PICK to \in {"list", "sum", "mlist", "msum"} :
            pc' = [pc EXCEPT ![s] = to] /\ pc[s] # "idle"
      BY <2>1 DEF ReadHead, Goto
    <3> QED BY <2>1, <3>1, MovingKeepsCaps DEF ReadHead, hook, Attempting
  <2>2. CASE ListModified(s)
    <3>1. PICK to \in {"sum", "msum"} : pc' = [pc EXCEPT ![s] = to] /\ pc[s] # "idle"
      BY <2>2 DEF ListModified, Goto
    <3> QED BY <2>2, <3>1, MovingKeepsCaps DEF ListModified, hook, Attempting
  <2>3. CASE ReadContent(s)
    BY <2>3, <1>0 DEF ReadContent, hook
  <2> QED BY <1>4, <2>1, <2>2, <2>3 DEF Hash
<1>5. ASSUME NEW s \in Sessions, Fail(s) PROVE CapInv'
  BY <1>5 DEF Fail
<1>6. ASSUME NEW s \in Sessions, Pipeline(s) PROVE CapInv'
  <2>1. CASE Validate(s)
    BY <2>1, MovingKeepsCaps DEF Validate, Goto, hook, Attempting
  <2>2. CASE WriteMarker(s)
    BY <2>2, MovingKeepsCaps DEF WriteMarker, Goto, hook, Attempting
  <2> QED BY <1>6, <2>1, <2>2 DEF Pipeline
<1>7. ASSUME NEW s \in Sessions, Hook(s) PROVE CapInv'
  <2>1. CASE Enter(s)
    BY <2>1, MovingKeepsCaps DEF Enter, Goto, hook, Attempting
  <2>2. CASE Claim(s) \/ NoMarker(s) \/ Reject(s)
    <3>1. PICK to \in {"head", "scan"} : pc' = [pc EXCEPT ![s] = to] /\ pc[s] # "idle"
      BY <2>2 DEF Claim, NoMarker, Reject, Goto
    <3> QED BY <2>2, <3>1, MovingKeepsCaps DEF Claim, NoMarker, Reject, hook, Attempting
  <2>3. CASE Scan(s)
    BY <2>3, MovingKeepsCaps DEF Scan, Goto, Attempting
  <2>4. CASE TryAgain(s)
    <3>1. tries[s] < MaxRetries /\ pc[s] # "idle"
      BY <2>4 DEF TryAgain, Goto, Counter, CapInv
    <3> QED BY <2>4, <3>1, MovingKeepsCaps DEF TryAgain, Goto, hook
  <2>5. CASE GiveUp(s)
    <3>1. tries[s] = MaxRetries
      BY <2>5, StopAssumption DEF GiveUp, Counter, CapInv
    <3> QED BY <2>5, <3>1, AllowingKeepsCaps DEF GiveUp
  <2>6. CASE Reenter(s)
    BY <2>6, AllowingKeepsCaps DEF Reenter
  <2>7. CASE Skip(s)
    BY <2>7, AllowingKeepsCaps DEF Skip
  <2>8. CASE Unmodified(s)
    BY <2>8, AllowingKeepsCaps DEF Unmodified
  <2>9. CASE Check(s)
    <3>1. CASE LintPassed(s) \/ LintFailed(s) \/ Fix(s) \/ FixSkipped(s) \/ TestsFailed(s)
      <4>1. PICK to \in Attempting \ {"bump"} :
              pc' = [pc EXCEPT ![s] = to] /\ pc[s] \in Attempting
        BY <3>1 DEF LintPassed, LintFailed, Fix, FixSkipped, TestsFailed, Goto, Attempting
      <4>2. tries[s] < MaxRetries /\ pc[s] # "idle" /\ to \notin {"idle", "bump"}
        BY <4>1 DEF CapInv, Attempting
      <4>3. UNCHANGED << retries, tries, count, outcome >>
        BY <3>1 DEF LintPassed, LintFailed, Fix, FixSkipped, TestsFailed, hook
      <4> QED BY <4>1, <4>2, <4>3, MovingKeepsCaps
    <3>2. CASE TestsPassed(s)
      BY <3>2, AllowingKeepsCaps DEF TestsPassed
    <3>3. CASE ReadCount(s)
      <4>1. \A r \in Sessions : /\ pc'[r] = IF r = s THEN "bump" ELSE pc[r]
                                /\ count'[r] = IF r = s THEN retries[s] ELSE count[r]
        BY <3>3 DEF ReadCount, Goto, Counter, CapInv
      <4>2. pc' = [r \in Sessions |-> pc'[r]] /\ count' = [r \in Sessions |-> count'[r]]
        BY <3>3 DEF ReadCount, Goto, CapInv
      <4>3. pc[s] = "count" /\ UNCHANGED << retries, tries, outcome >>
        BY <3>3 DEF ReadCount, Goto
      <4> QED BY <4>1, <4>2, <4>3 DEF CapInv, Attempting
    <3>4. CASE Block(s)
      <4>1. /\ \A r \in Sessions : /\ pc'[r] = IF r = s THEN "turn" ELSE pc[r]
                                   /\ count'[r] = IF r = s THEN 0 ELSE count[r]
                                   /\ outcome'[r] = IF r = s THEN "blocked" ELSE outcome[r]
                                   /\ tries'[r] = IF r = s THEN tries[s] + 1 ELSE tries[r]
                                   /\ retries'[r] = IF r = s THEN count[s] + 1 ELSE retries[r]
            /\ pc[s] = "bump"
        BY <3>4 DEF Block, Goto, Counter, Counters, CapInv
      <4>2. /\ pc' = [r \in Sessions |-> pc'[r]]
            /\ count' = [r \in Sessions |-> count'[r]]
            /\ outcome' = [r \in Sessions |-> outcome'[r]]
            /\ retries' = [c \in Counters |-> retries'[c]]
        BY <3>4 DEF Block, Goto, CapInv, Counter
      <4>6. tries' \in [Sessions -> Nat]
        BY <3>4 DEF Block, CapInv
      <4>3. count[s] = tries[s] /\ tries[s] < MaxRetries
        BY <4>1 DEF CapInv, Attempting
      <4>4. \A r \in Sessions : /\ tries'[r] <= MaxRetries
                               /\ retries'[r] = IF pc'[r] = "idle" THEN 0 ELSE tries'[r]
        BY <4>1, <4>3, StopAssumption DEF CapInv
      <4>5. \A r \in Sessions :
              /\ pc'[r] \in Attempting => tries'[r] < MaxRetries
              /\ pc'[r] = "bump" => count'[r] = tries'[r]
              /\ outcome'[r] = "capped" => tries'[r] = MaxRetries /\ pc'[r] = "idle"
        BY <4>1 DEF CapInv, Attempting
      <4> QED BY <4>2, <4>4, <4>5, <4>6 DEF CapInv
    <3> QED BY <2>9, <3>1, <3>2, <3>3, <3>4 DEF Check
  <2> QED BY <1>7, <2>1, <2>2, <2>3, <2>4, <2>5, <2>6, <2>7, <2>8, <2>9 DEF Hook
<1> QED BY <1>1, <1>2, <1>3, <1>4, <1>5, <1>6, <1>7 DEF Next

(***************************************************************************)
(* A turn is blocked at most MAX_RETRIES times (BlocksCapped): the counter *)
(* that increment_retry keeps caps the chain of blocks.                    *)
(***************************************************************************)
THEOREM BlocksAreCapped ==
  ASSUME ScopedId, "error" \notin Faults
  PROVE  Spec => []BlocksCapped
<1>1. CapInv => BlocksCapped
  BY DEF CapInv, BlocksCapped
<1> QED BY CapInit, CapNext, <1>1, PTL DEF Spec

(***************************************************************************)
(* Checks are given up only after MAX_RETRIES blocks of the same turn      *)
(* (CapIsEarned), as the message of main() says.                           *)
(***************************************************************************)
THEOREM CapsAreEarned ==
  ASSUME ScopedId, "error" \notin Faults
  PROVE  Spec => []CapIsEarned
<1>1. CapInv => CapIsEarned
  BY DEF CapInv, CapIsEarned
<1> QED BY CapInit, CapNext, <1>1, PTL DEF Spec

-----------------------------------------------------------------------------
(***************************************************************************)
(* Types.                                                                  *)
(***************************************************************************)
TypeInv == TypeOK /\ DOMAIN claimed = Sessions

LEMMA LeastNatural ==
  ASSUME NEW T \in SUBSET Nat, T # {}
  PROVE  Min(T) \in T
<1> DEFINE R == {ss \in Nat \X Nat : ss[1] < ss[2]}
<1>1. IsWellFoundedOn(R, Nat)
  BY NatLessThanWellFounded DEF OpToRel
<1>2. \A m, n \in Nat : m < n => << m, n >> \in R
  OBVIOUS
<1> HIDE DEF R
<1>3. PICK n \in T : \A m \in T : ~(<< m, n >> \in R)
  BY <1>1, WFMin
<1>4. \A m \in T : ~(m < n)
  BY <1>2, <1>3
<1>5. \A m \in T : n <= m
  BY <1>4
<1> QED
  BY <1>5 DEF Min

LEMMA FirstFile == ASSUME NEW T \in SUBSET Files, T # {} PROVE Min(T) \in T
BY LeastNatural, StopAssumption

(***************************************************************************)
(* A function over some of the files, and what is made of it.              *)
(***************************************************************************)
LEMMA WrittenIs ==
  /\ \A S \in SUBSET Files : \A w \in [S -> Contents] : w \in Written
  /\ \A w \in Written : DOMAIN w \subseteq Files /\ w \in [DOMAIN w -> Contents]
BY DEF Written

LEMMA PrintIs ==
  ASSUME NEW q \in Prints
  PROVE  q.head \in 0..MaxCommits /\ q.files \in Written
BY DEF Prints

LEMMA MakePrint ==
  ASSUME NEW h \in 0..MaxCommits, NEW w \in Written
  PROVE  [head |-> h, files |-> w] \in Prints
BY DEF Prints

LEMMA BlankIsPrint == Blank \in Prints /\ Blank.head = 0 /\ DOMAIN Blank.files = {}
<1>1. [f \in {} |-> "head"] \in [{} -> Contents]
  OBVIOUS
<1>2. [f \in {} |-> "head"] \in Written
  BY <1>1, WrittenIs
<1>3. 0 \in 0..MaxCommits
  BY StopAssumption
<1> QED
  BY <1>2, <1>3, MakePrint DEF Blank

LEMMA WorktreePrintIsPrint ==
  ASSUME TypeInv
  PROVE  WorktreePrint \in Prints
<1>1. Modified \in SUBSET Files /\ \A f \in Modified : tree[f] \in Contents
  BY DEF TypeInv, TypeOK, Modified
<1>2. [f \in Modified |-> tree[f]] \in [Modified -> Contents]
  BY <1>1
<1>3. [f \in Modified |-> tree[f]] \in Written
  BY <1>1, <1>2, WrittenIs
<1>4. head \in 0..MaxCommits
  BY DEF TypeInv, TypeOK
<1> QED
  BY <1>3, <1>4, MakePrint DEF WorktreePrint

LEMMA CountersAre ==
  ASSUME NEW s \in Sessions
  PROVE  Counter(s) \in Counters
BY DEF Counter, Counters

LEMMA TypeInit == Init => TypeInv
<1> SUFFICES ASSUME Init PROVE TypeInv
  OBVIOUS
<1>1. Cardinality({}) = 0
  BY FS_EmptySet
<1>2. head \in 0..MaxCommits /\ 0 \in 0..MaxMarkers
  BY StopAssumption DEF Init
<1>3. /\ marker \subseteq Markers /\ Cardinality(marker) <= 1
      /\ \A s \in Sessions : claimed[s] \subseteq Markers /\ Cardinality(claimed[s]) <= 1
      /\ DOMAIN claimed = Sessions
  BY <1>1 DEF Init
<1>4. print \in [Sessions -> Prints] /\ proof \in [Sessions -> Prints]
  BY BlankIsPrint DEF Init
<1>5. tree \in [Files -> Contents] /\ untracked \subseteq Files
  BY StopAssumption DEF Init, Contents
<1>6. /\ retries \in [Counters -> Nat] /\ count \in [Sessions -> Nat] /\ tries \in [Sessions -> Nat]
      /\ pc \in [Sessions -> {"idle", "turn"} \cup InHook \cup InPipeline]
      /\ todo \in [Sessions -> SUBSET Files] /\ scope \in [Sessions -> SUBSET Files]
      /\ outcome \in [Sessions -> {"none", "reentered", "skipped", "unmodified",
                                   "capped", "blocked", "passed", "failed"}]
  BY DEF Init
<1>7. /\ active \in [Sessions -> BOOLEAN] /\ blind \in [Sessions -> BOOLEAN]
      /\ quiet \in [Sessions -> BOOLEAN]
      /\ touched \in [Sessions -> [Files -> SUBSET {"tool", "bash"}]]
  BY DEF Init
<1>8. made \in 0..MaxMarkers /\ spent \subseteq 1..MaxMarkers
  BY <1>2 DEF Init
<1> QED
  BY <1>2, <1>3, <1>4, <1>5, <1>6, <1>7, <1>8 DEF TypeInv, TypeOK

(***************************************************************************)
(* A hook that ends forgets.                                               *)
(***************************************************************************)
LEMMA DroppingKeepsTypes ==
  ASSUME TypeInv, NEW s \in Sessions, claimed' = [claimed EXCEPT ![s] = {}]
  PROVE  /\ DOMAIN claimed' = Sessions
         /\ \A r \in Sessions : claimed'[r] \subseteq Markers /\ Cardinality(claimed'[r]) <= 1
<1>1. Cardinality({}) = 0
  BY FS_EmptySet
<1> QED
  BY <1>1 DEF TypeInv, TypeOK

LEMMA EndKeepsTypes ==
  ASSUME TypeInv, NEW s \in Sessions,
         NEW why \in {"none", "reentered", "skipped", "unmodified",
                      "capped", "blocked", "passed", "failed"}, End(s, why),
         UNCHANGED << worktree, marker >>,
         retries' \in [Counters -> Nat], spent' \subseteq 1..MaxMarkers
  PROVE  TypeInv'
<1>1. /\ DOMAIN claimed' = Sessions
      /\ \A r \in Sessions : claimed'[r] \subseteq Markers /\ Cardinality(claimed'[r]) <= 1
  BY DroppingKeepsTypes DEF End
<1>2. print' \in [Sessions -> Prints]
  BY BlankIsPrint DEF End, TypeInv, TypeOK
<1>3. /\ pc' \in [Sessions -> {"idle", "turn"} \cup InHook \cup InPipeline]
      /\ active' \in [Sessions -> BOOLEAN]
      /\ todo' \in [Sessions -> SUBSET Files] /\ scope' \in [Sessions -> SUBSET Files]
      /\ count' \in [Sessions -> Nat]
      /\ outcome' \in [Sessions -> {"none", "reentered", "skipped", "unmodified",
                                    "capped", "blocked", "passed", "failed"}]
  BY DEF End, TypeInv, TypeOK
<1> QED
  BY <1>1, <1>2, <1>3 DEF End, worktree, TypeInv, TypeOK

LEMMA AllowKeepsTypes ==
  ASSUME TypeInv, NEW s \in Sessions,
         NEW why \in {"reentered", "skipped", "unmodified", "capped", "passed"}, Allow(s, why),
         UNCHANGED << worktree, marker >>, spent' \subseteq 1..MaxMarkers
  PROVE  TypeInv'
<1>1. retries' \in [Counters -> Nat]
  BY CountersAre DEF Allow, TypeInv, TypeOK
<1> QED
  BY <1>1, EndKeepsTypes DEF Allow

LEMMA TurnKeepsTypes == ASSUME TypeInv, NEW s \in Sessions, Turn(s) \/ Stop(s) PROVE TypeInv'
<1>1. CASE Prompt(s)
  BY <1>1 DEF Prompt, Goto, TypeInv, TypeOK, worktree, talk, hashing, hook
<1>2. CASE Commit(s)
  <2>1. head' \in 0..MaxCommits
    BY <1>2, StopAssumption DEF Commit, TypeInv, TypeOK
  <2>2. tree' \in [Files -> Contents] /\ untracked' \subseteq Files
    BY <1>2 DEF Commit, TypeInv, TypeOK, Contents
  <2>3. quiet' \in [Sessions -> BOOLEAN]
    BY <1>2 DEF Commit, Disturb, TypeInv, TypeOK
  <2> QED
    BY <1>2, <2>1, <2>2, <2>3 DEF Commit, TypeInv, TypeOK, talk, hashing, hook
<1>3. ASSUME NEW f \in Files, NEW c \in Drafts, NEW way \in Ways, Edit(s, f, c, way) PROVE TypeInv'
  <2>1. tree' \in [Files -> Contents]
    BY <1>3, StopAssumption DEF Edit, TypeInv, TypeOK
  <2>2. touched' \in [Sessions -> [Files -> SUBSET {"tool", "bash"}]]
    BY <1>3 DEF Edit, TypeInv, TypeOK
  <2>3. blind' \in [Sessions -> BOOLEAN] /\ quiet' \in [Sessions -> BOOLEAN]
    BY <1>3 DEF Edit, Disturb, TypeInv, TypeOK
  <2> QED
    BY <1>3, <2>1, <2>2, <2>3 DEF Edit, TypeInv, TypeOK, hashing, hook
<1>4. CASE Stop(s)
  BY <1>4 DEF Stop, Goto, InHook, TypeInv, TypeOK, worktree, talk, hashing, hook
<1> QED
  BY <1>1, <1>2, <1>3, <1>4 DEF Turn

LEMMA HashKeepsTypes == ASSUME TypeInv, NEW s \in Sessions, Hash(s) PROVE TypeInv'
<1>1. CASE ReadHead(s)
  <2>1. PICK h \in {head} \cup (IF "git" \in Faults THEN {0} ELSE {}) :
          print' = [print EXCEPT ![s].head = h]
    BY <1>1 DEF ReadHead
  <2>2. h \in 0..MaxCommits
    BY StopAssumption DEF TypeInv, TypeOK
  <2>9. print' \in [Sessions -> Prints]
    <3>1. print[s] \in Prints
      BY DEF TypeInv, TypeOK
    <3>2. [print[s] EXCEPT !.head = h] = [head |-> h, files |-> print[s].files]
      BY <3>1 DEF Prints
    <3>3. [print[s] EXCEPT !.head = h] \in Prints
      BY <2>2, <3>1, <3>2, PrintIs, MakePrint
    <3> QED
      BY <2>1, <3>3 DEF TypeInv, TypeOK
  <2>3. pc' \in [Sessions -> {"idle", "turn"} \cup InHook \cup InPipeline]
    <3>1. PICK to \in {"list", "sum", "mlist", "msum"} : pc' = [pc EXCEPT ![s] = to]
      BY <1>1 DEF ReadHead, Goto
    <3> QED
      BY <3>1 DEF InHook, InPipeline, TypeInv, TypeOK
  <2> QED
    BY <1>1, <2>9, <2>3 DEF ReadHead, TypeInv, TypeOK, worktree, talk, hook
<1>2. CASE ListModified(s)
  <2>1. Modified \subseteq Files
    BY DEF Modified
  <2>2. todo' \in [Sessions -> SUBSET Files]
    <3>1. PICK fs \in Answers(Modified) : todo' = [todo EXCEPT ![s] = fs]
      BY <1>2 DEF ListModified
    <3>2. fs \subseteq Files
      BY <2>1 DEF Answers
    <3> QED
      BY <3>1, <3>2 DEF TypeInv, TypeOK
  <2>3. pc' \in [Sessions -> {"idle", "turn"} \cup InHook \cup InPipeline]
    BY <1>2 DEF ListModified, Goto, InHook, InPipeline, TypeInv, TypeOK
  <2> QED
    BY <1>2, <2>2, <2>3 DEF ListModified, TypeInv, TypeOK, worktree, talk, hook
<1>3. CASE ReadContent(s)
  <2>1. todo[s] \in SUBSET Files /\ todo[s] # {}
    BY <1>3 DEF ReadContent, TypeInv, TypeOK
  <2>2. PICK f \in Files : f = Min(todo[s])
    BY <2>1, FirstFile
  <2> DEFINE w == print[s].files
             ww == [g \in DOMAIN w \cup {f} |-> IF g = f THEN tree[f] ELSE w[g]]
  <2>3. print[s] \in Prints /\ w \in Written /\ tree[f] \in Contents
    BY PrintIs DEF TypeInv, TypeOK
  <2>4. ww \in Written
    <3>1. DOMAIN w \cup {f} \in SUBSET Files /\ w \in [DOMAIN w -> Contents]
      BY <2>3, WrittenIs
    <3> HIDE DEF w
    <3>2. ww \in [DOMAIN w \cup {f} -> Contents]
      BY <2>3, <3>1
    <3> HIDE DEF ww
    <3> QED
      BY <3>1, <3>2, WrittenIs
  <2>5. print' = [print EXCEPT ![s].files = ww] /\ todo' = [todo EXCEPT ![s] = @ \ {f}]
    BY <1>3, <2>2 DEF ReadContent, TypeInv, TypeOK
  <2> HIDE DEF ww
  <2>6. print' \in [Sessions -> Prints]
    <3>1. [print[s] EXCEPT !.files = ww] \in Prints
      BY <2>3, <2>4 DEF Prints
    <3> QED
      BY <2>5, <3>1 DEF TypeInv, TypeOK
  <2>7. todo' \in [Sessions -> SUBSET Files]
    BY <2>5 DEF TypeInv, TypeOK
  <2> QED
    BY <1>3, <2>6, <2>7 DEF ReadContent, TypeInv, TypeOK, worktree, talk, hook
<1> QED
  BY <1>1, <1>2, <1>3 DEF Hash

LEMMA PipelineKeepsTypes == ASSUME TypeInv, NEW s \in Sessions, Pipeline(s) PROVE TypeInv'
<1>1. CASE Validate(s)
  <2>1. proof' \in [Sessions -> Prints]
    BY <1>1, WorktreePrintIsPrint DEF Validate, TypeInv, TypeOK
  <2>2. pc' \in [Sessions -> {"idle", "turn"} \cup InHook \cup InPipeline]
    BY <1>1 DEF Validate, Goto, InPipeline, TypeInv, TypeOK
  <2> QED
    BY <1>1, <2>1, <2>2 DEF Validate, TypeInv, TypeOK, worktree, talk, hashing, hook
<1>2. CASE WriteMarker(s)
  <2> DEFINE m == [print |-> print[s], proof |-> proof[s], serial |-> made + 1]
  <2>1. made' \in 0..MaxMarkers /\ made + 1 \in 1..MaxMarkers
    BY <1>2, StopAssumption DEF WriteMarker, TypeInv, TypeOK
  <2>2. m \in Markers
    BY <2>1 DEF Markers, TypeInv, TypeOK
  <2>3. marker' = {m}
    BY <1>2 DEF WriteMarker
  <2> HIDE DEF m
  <2>4. marker' \subseteq Markers /\ Cardinality(marker') <= 1
    <3>1. Cardinality({m}) = 1
      BY FS_Singleton
    <3> QED
      BY <2>2, <2>3, <3>1
  <2>5. print' \in [Sessions -> Prints] /\ proof' \in [Sessions -> Prints]
    BY <1>2, BlankIsPrint DEF WriteMarker, TypeInv, TypeOK
  <2>6. pc' \in [Sessions -> {"idle", "turn"} \cup InHook \cup InPipeline]
    BY <1>2 DEF WriteMarker, Goto, TypeInv, TypeOK
  <2> QED
    BY <1>2, <2>1, <2>4, <2>5, <2>6 DEF WriteMarker, TypeInv, TypeOK, worktree, talk, hook
<1> QED
  BY <1>1, <1>2 DEF Pipeline

LEMMA CheckKeepsTypes == ASSUME TypeInv, NEW s \in Sessions, Check(s) PROVE TypeInv'
<1>1. CASE LintPassed(s) \/ LintFailed(s) \/ FixSkipped(s) \/ TestsFailed(s)
  <2>1. pc' \in [Sessions -> {"idle", "turn"} \cup InHook \cup InPipeline]
    BY <1>1 DEF LintPassed, LintFailed, FixSkipped, TestsFailed, Goto, InHook, TypeInv, TypeOK
  <2>2. UNCHANGED << worktree, marker, retries, talk, hashing, hook,
                     outcome, quiet, tries, proof, made, spent >>
    BY <1>1 DEF LintPassed, LintFailed, FixSkipped, TestsFailed
  <2> QED
    BY <2>1, <2>2 DEF TypeInv, TypeOK, worktree, talk, hashing, hook
<1>2. CASE Fix(s)
  <2>1. pc' \in [Sessions -> {"idle", "turn"} \cup InHook \cup InPipeline]
    BY <1>2 DEF Fix, Goto, InHook, TypeInv, TypeOK
  <2>2. tree' \in [Files -> Contents]
    BY <1>2 DEF Fix, Contents, TypeInv, TypeOK
  <2>3. quiet' \in [Sessions -> BOOLEAN]
    BY <1>2 DEF Fix, Disturb, TypeInv, TypeOK
  <2> QED
    BY <1>2, <2>1, <2>2, <2>3 DEF Fix, TypeInv, TypeOK, talk, hashing, hook
<1>3. CASE TestsPassed(s)
  BY <1>3, AllowKeepsTypes DEF TestsPassed, TypeInv, TypeOK
<1>4. CASE ReadCount(s)
  <2>1. pc' \in [Sessions -> {"idle", "turn"} \cup InHook \cup InPipeline]
    BY <1>4 DEF ReadCount, Goto, InHook, TypeInv, TypeOK
  <2>2. count' \in [Sessions -> Nat]
    BY <1>4, CountersAre DEF ReadCount, TypeInv, TypeOK
  <2> QED
    BY <1>4, <2>1, <2>2 DEF ReadCount, TypeInv, TypeOK, worktree, talk, hashing
<1>5. CASE Block(s)
  <2>1. pc' \in [Sessions -> {"idle", "turn"} \cup InHook \cup InPipeline]
    BY <1>5 DEF Block, Goto, TypeInv, TypeOK
  <2>2. retries' \in [Counters -> Nat] /\ tries' \in [Sessions -> Nat] /\ count' \in [Sessions -> Nat]
    BY <1>5, CountersAre DEF Block, TypeInv, TypeOK
  <2>3. active' \in [Sessions -> BOOLEAN]
    BY <1>5, StopAssumption DEF Block, TypeInv, TypeOK
  <2>4. /\ scope' \in [Sessions -> SUBSET Files]
        /\ outcome' \in [Sessions -> {"none", "reentered", "skipped", "unmodified",
                                      "capped", "blocked", "passed", "failed"}]
    BY <1>5 DEF Block, TypeInv, TypeOK
  <2> QED
    BY <1>5, <2>1, <2>2, <2>3, <2>4 DEF Block, TypeInv, TypeOK, worktree, hashing
<1> QED
  BY <1>1, <1>2, <1>3, <1>4, <1>5 DEF Check

LEMMA HookKeepsTypes == ASSUME TypeInv, NEW s \in Sessions, Hook(s) PROVE TypeInv'
<1>1. CASE Reenter(s) \/ Unmodified(s) \/ GiveUp(s)
  BY <1>1, AllowKeepsTypes DEF Reenter, Unmodified, GiveUp, TypeInv, TypeOK
<1>2. CASE Skip(s)
  <2>1. spent' \subseteq 1..MaxMarkers
    BY <1>2 DEF Skip, TypeInv, TypeOK, Markers
  <2> QED
    BY <1>2, <2>1, AllowKeepsTypes DEF Skip
<1>3. CASE Enter(s) \/ NoMarker(s) \/ TryAgain(s)
  <2>1. pc' \in [Sessions -> {"idle", "turn"} \cup InHook \cup InPipeline]
    BY <1>3 DEF Enter, NoMarker, TryAgain, Goto, InHook, TypeInv, TypeOK
  <2>2. UNCHANGED << worktree, marker, retries, talk, hashing, hook,
                     outcome, quiet, tries, proof, made, spent >>
    BY <1>3 DEF Enter, NoMarker, TryAgain
  <2> QED
    BY <2>1, <2>2 DEF TypeInv, TypeOK, worktree, talk, hashing, hook
<1>4. CASE Claim(s)
  <2>1. pc' \in [Sessions -> {"idle", "turn"} \cup InHook \cup InPipeline]
    BY <1>4 DEF Claim, Goto, InHook, TypeInv, TypeOK
  <2>2. /\ DOMAIN claimed' = Sessions
        /\ \A r \in Sessions : claimed'[r] \subseteq Markers /\ Cardinality(claimed'[r]) <= 1
    BY <1>4 DEF Claim, TypeInv, TypeOK
  <2>3. marker' \subseteq Markers /\ Cardinality(marker') <= 1
    BY <1>4, FS_EmptySet DEF Claim
  <2> QED
    BY <1>4, <2>1, <2>2, <2>3 DEF Claim, TypeInv, TypeOK, worktree, talk, hook
<1>5. CASE Reject(s)
  <2>1. pc' \in [Sessions -> {"idle", "turn"} \cup InHook \cup InPipeline]
    BY <1>5 DEF Reject, Goto, InHook, TypeInv, TypeOK
  <2>2. /\ DOMAIN claimed' = Sessions
        /\ \A r \in Sessions : claimed'[r] \subseteq Markers /\ Cardinality(claimed'[r]) <= 1
    BY <1>5, DroppingKeepsTypes DEF Reject
  <2>3. print' \in [Sessions -> Prints]
    BY <1>5, BlankIsPrint DEF Reject, TypeInv, TypeOK
  <2> QED
    BY <1>5, <2>1, <2>2, <2>3 DEF Reject, TypeInv, TypeOK, worktree, talk, hook
<1>6. CASE Scan(s)
  <2>1. pc' \in [Sessions -> {"idle", "turn"} \cup InHook \cup InPipeline]
    BY <1>6 DEF Scan, Goto, InHook, TypeInv, TypeOK
  <2>2. scope' \in [Sessions -> SUBSET Files]
    <3>1. \A listed \in Answers(Modified) : \A new : Scoped(s, listed, new) \subseteq Files
      BY DEF Answers, Modified, Scoped
    <3>2. PICK listed \in Answers(Modified), new \in Answers(untracked) :
            scope' = [scope EXCEPT ![s] = Scoped(s, listed, new)]
      BY <1>6 DEF Scan
    <3> QED
      BY <3>1, <3>2 DEF TypeInv, TypeOK
  <2> QED
    BY <1>6, <2>1, <2>2 DEF Scan, TypeInv, TypeOK, worktree, talk, hashing
<1> QED
  BY <1>1, <1>2, <1>3, <1>4, <1>5, <1>6, CheckKeepsTypes DEF Hook

LEMMA TypeNext == TypeInv /\ [Next]_vars => TypeInv'
<1> SUFFICES ASSUME TypeInv, [Next]_vars PROVE TypeInv'
  OBVIOUS
<1>1. CASE UNCHANGED vars
  BY <1>1 DEF vars, TypeInv, TypeOK, worktree, talk, hashing, hook
<1>2. ASSUME NEW s \in Sessions, Fail(s) PROVE TypeInv'
  BY <1>2, EndKeepsTypes DEF Fail, TypeInv, TypeOK
<1> QED
  BY <1>1, <1>2, TurnKeepsTypes, HashKeepsTypes, PipelineKeepsTypes, HookKeepsTypes DEF Next

(***************************************************************************)
(* Every variable of the Stop hook and its sessions always has its type,   *)
(* and no two markers are ever in one hand.                                *)
(***************************************************************************)
THEOREM StopTypes == Spec => []TypeOK
<1>1. TypeInv => TypeOK
  BY DEF TypeInv
<1> QED
  BY TypeInit, TypeNext, <1>1, PTL DEF Spec


(***************************************************************************)
(* Fingerprints.  As long as nobody else touches the worktree, what a hook *)
(* has read of its fingerprint is true, and what it has still to read is   *)
(* the rest of the modified files, if git answers.  What it had to lint is *)
(* clean when it comes to the tests, if ruff is there.  No two markers are *)
(* ever in one hand.                                                       *)
(***************************************************************************)
Reading == {"list", "sum", "mlist", "msum"}

Fresh(s) ==
  /\ pc[s] \notin Reading => print[s] = Blank
  /\ pc[s] = "list" => DOMAIN print[s].files = {}
  /\ quiet[s] /\ "git" \notin Faults =>
       /\ pc[s] = "list" => print[s].head = head
       /\ pc[s] = "sum" /\ print[s].head # 0 =>
            /\ print[s].head = head
            /\ DOMAIN print[s].files = Modified \ todo[s] /\ todo[s] \subseteq Modified
            /\ \A f \in DOMAIN print[s].files : print[s].files[f] = tree[f]

Linted(s) == pc[s] = "tests" /\ quiet[s] /\ ~NoTool => LintErrors(s) = {}

Alone(hand) == \A m, n \in hand : m = n

AloneInv ==
  /\ claimed = [s \in Sessions |-> claimed[s]]
  /\ Alone(marker) /\ \A s \in Sessions : Alone(claimed[s])

CheckInv == \A s \in Sessions : Fresh(s) /\ Linted(s)

LEMMA AloneNext == AloneInv /\ [Next]_vars => AloneInv'
<1> SUFFICES ASSUME AloneInv, [Next]_vars PROVE AloneInv'
  OBVIOUS
<1>0. ASSUME UNCHANGED << claimed, marker >> PROVE AloneInv'
  BY <1>0 DEF AloneInv
<1>1. ASSUME NEW s \in Sessions, claimed' = [claimed EXCEPT ![s] = {}], UNCHANGED marker
      PROVE  AloneInv'
  BY <1>1 DEF AloneInv, Alone
<1>2. CASE UNCHANGED vars
  BY <1>2, <1>0 DEF vars, hashing
<1>3. ASSUME NEW s \in Sessions, Turn(s) \/ Stop(s) \/ Hash(s) PROVE AloneInv'
  BY <1>3, <1>0 DEF Turn, Prompt, Commit, Edit, Stop, Hash, ReadHead, ListModified,
     ReadContent, hashing
<1>4. ASSUME NEW s \in Sessions, Pipeline(s) PROVE AloneInv'
  <2>1. CASE Validate(s)
    BY <2>1, <1>0 DEF Validate, hashing
  <2>2. CASE WriteMarker(s)
    BY <2>2 DEF WriteMarker, AloneInv, Alone
  <2> QED
    BY <1>4, <2>1, <2>2 DEF Pipeline
<1>5. ASSUME NEW s \in Sessions, Fail(s) PROVE AloneInv'
  BY <1>5, <1>1 DEF Fail, End
<1>6. ASSUME NEW s \in Sessions, Hook(s) PROVE AloneInv'
  <2>1. CASE Reenter(s) \/ Skip(s) \/ Unmodified(s) \/ GiveUp(s) \/ Reject(s) \/ TestsPassed(s)
    BY <2>1, <1>1 DEF Reenter, Skip, Unmodified, GiveUp, Reject, TestsPassed, Allow, End
  <2>2. CASE Claim(s)
    BY <2>2 DEF Claim, AloneInv, Alone
  <2>3. CASE Enter(s) \/ NoMarker(s) \/ Scan(s) \/ TryAgain(s)
    BY <2>3, <1>0 DEF Enter, NoMarker, Scan, TryAgain, hashing
  <2>4. CASE Check(s) /\ ~TestsPassed(s)
    BY <2>4, <1>0 DEF Check, LintPassed, LintFailed, Fix, FixSkipped, TestsFailed,
       ReadCount, Block, hashing
  <2> QED
    BY <1>6, <2>1, <2>2, <2>3, <2>4 DEF Hook, Check
<1> QED
  BY <1>2, <1>3, <1>4, <1>5, <1>6 DEF Next

(***************************************************************************)
(* What a step of one session leaves of another: its own state, and the    *)
(* worktree under its hook, unless the hook is then known to be disturbed. *)
(***************************************************************************)
Kept(r) ==
  /\ pc'[r] = pc[r] /\ print'[r] = print[r] /\ todo'[r] = todo[r]
  /\ scope'[r] = scope[r] /\ touched'[r] = touched[r] /\ blind'[r] = blind[r]
  /\ quiet'[r] /\ pc[r] \in InHook => quiet[r] /\ UNCHANGED << tree, head >>

LEMMA KeptIsEnough ==
  ASSUME NEW r \in Sessions, Kept(r), Fresh(r), Linted(r)
  PROVE  Fresh(r)' /\ Linted(r)'
<1>1. Fresh(r)'
  BY DEF Kept, Fresh, InHook, Reading, Modified
<1>2. Linted(r)'
  <2>1. CASE quiet'[r] /\ pc[r] \in InHook
    BY <2>1 DEF Kept, Linted, LintErrors, LintScope, Trusted, NoTool
  <2>2. CASE ~(quiet'[r] /\ pc[r] \in InHook)
    BY <2>2 DEF Kept, Linted, InHook
  <2> QED
    BY <2>1, <2>2
<1> QED
  BY <1>1, <1>2

LEMMA EndKeepsOthers ==
  ASSUME TypeInv, NEW s \in Sessions, NEW why, End(s, why), UNCHANGED worktree,
         NEW r \in Sessions \ {s}
  PROVE  Kept(r)
BY DEF End, Kept, TypeInv, TypeOK, worktree

LEMMA TurnKeepsOthers ==
  ASSUME TypeInv, NEW s \in Sessions, Turn(s) \/ Stop(s), NEW r \in Sessions \ {s}
  PROVE  Kept(r)
<1>1. CASE Prompt(s)
  BY <1>1 DEF Prompt, Goto, Kept, TypeInv, TypeOK, worktree, talk, hashing, hook
<1>2. CASE Commit(s)
  BY <1>2 DEF Commit, Disturb, Kept, TypeInv, TypeOK, talk, hashing, hook
<1>3. ASSUME NEW f \in Files, NEW c \in Drafts, NEW way \in Ways, Edit(s, f, c, way)
      PROVE  Kept(r)
  BY <1>3 DEF Edit, Disturb, Kept, TypeInv, TypeOK, hashing, hook
<1>4. CASE Stop(s)
  BY <1>4 DEF Stop, Goto, Kept, TypeInv, TypeOK, worktree, talk, hashing, hook
<1> QED
  BY <1>1, <1>2, <1>3, <1>4 DEF Turn

LEMMA HashKeepsOthers ==
  ASSUME TypeInv, NEW s \in Sessions, Hash(s), NEW r \in Sessions \ {s}
  PROVE  Kept(r)
<1>1. CASE ReadHead(s)
  <2>1. pc'[r] = pc[r] /\ print'[r] = print[r]
    BY <1>1 DEF ReadHead, Goto, TypeInv, TypeOK
  <2> QED
    BY <1>1, <2>1 DEF ReadHead, Kept, worktree, talk, hook
<1>2. CASE ListModified(s)
  <2>1. pc'[r] = pc[r] /\ todo'[r] = todo[r]
    BY <1>2 DEF ListModified, Goto, TypeInv, TypeOK
  <2> QED
    BY <1>2, <2>1 DEF ListModified, Kept, worktree, talk, hook
<1>3. CASE ReadContent(s)
  <2>1. print'[r] = print[r] /\ todo'[r] = todo[r]
    BY <1>3 DEF ReadContent, TypeInv, TypeOK
  <2> QED
    BY <1>3, <2>1 DEF ReadContent, Kept, worktree, talk, hook
<1> QED
  BY <1>1, <1>2, <1>3 DEF Hash

LEMMA PipelineKeepsOthers ==
  ASSUME TypeInv, NEW s \in Sessions, Pipeline(s), NEW r \in Sessions \ {s}
  PROVE  Kept(r)
BY DEF Pipeline, Validate, WriteMarker, Goto, Kept, TypeInv, TypeOK, worktree, talk, hashing, hook

LEMMA HookKeepsOthers ==
  ASSUME TypeInv, NEW s \in Sessions, Hook(s), NEW r \in Sessions \ {s}
  PROVE  Kept(r)
<1>1. CASE Reenter(s) \/ Skip(s) \/ Unmodified(s) \/ GiveUp(s) \/ TestsPassed(s)
  BY <1>1, EndKeepsOthers DEF Reenter, Skip, Unmodified, GiveUp, TestsPassed, Allow
<1>2. CASE Enter(s) \/ Claim(s) \/ NoMarker(s) \/ TryAgain(s)
  BY <1>2 DEF Enter, Claim, NoMarker, TryAgain, Goto, Kept, TypeInv, TypeOK,
     worktree, talk, hashing, hook
<1>3. CASE Reject(s)
  BY <1>3 DEF Reject, Goto, Kept, TypeInv, TypeOK, worktree, talk, hook
<1>4. CASE Scan(s)
  <2>1. pc'[r] = pc[r] /\ scope'[r] = scope[r]
    BY <1>4 DEF Scan, Goto, TypeInv, TypeOK
  <2> QED
    BY <1>4, <2>1 DEF Scan, Kept, worktree, talk, hashing
<1>5. CASE LintPassed(s) \/ LintFailed(s) \/ FixSkipped(s) \/ TestsFailed(s) \/ ReadCount(s)
  <2>1. pc'[r] = pc[r]
    BY <1>5 DEF LintPassed, LintFailed, FixSkipped, TestsFailed, ReadCount, Goto, TypeInv, TypeOK
  <2> QED
    BY <1>5, <2>1 DEF LintPassed, LintFailed, FixSkipped, TestsFailed, ReadCount, Kept,
       worktree, talk, hashing, hook
<1>6. CASE Fix(s)
  <2>1. pc'[r] = pc[r]
    BY <1>6 DEF Fix, Goto, TypeInv, TypeOK
  <2>2. quiet'[r] => pc[r] \notin InHook
    BY <1>6 DEF Fix, Disturb, TypeInv, TypeOK
  <2> QED
    BY <1>6, <2>1, <2>2 DEF Fix, Kept, talk, hashing, hook
<1>7. CASE Block(s)
  <2>1. pc'[r] = pc[r] /\ scope'[r] = scope[r]
    BY <1>7 DEF Block, Goto, TypeInv, TypeOK
  <2> QED
    BY <1>7, <2>1 DEF Block, Kept, worktree, hashing
<1> QED
  BY <1>1, <1>2, <1>3, <1>4, <1>5, <1>6, <1>7 DEF Hook, Check

(***************************************************************************)
(* What a step does to the session that takes it.                          *)
(***************************************************************************)
LEMMA EndIsFresh ==
  ASSUME TypeInv, NEW s \in Sessions, NEW why, End(s, why)
  PROVE  Fresh(s)' /\ Linted(s)'
<1>1. pc'[s] = "idle" /\ print'[s] = Blank
  BY DEF End, TypeInv, TypeOK
<1> QED
  BY <1>1 DEF Fresh, Linted, Reading

LEMMA OutsideIsFresh ==
  ASSUME TypeInv, NEW s \in Sessions, Fresh(s), pc[s] \notin Reading,
         pc'[s] \notin Reading \cup {"tests"}, print'[s] \in {print[s], Blank}
  PROVE  Fresh(s)' /\ Linted(s)'
BY DEF Fresh, Linted, Reading

LEMMA TurnIsFresh ==
  ASSUME TypeInv, NEW s \in Sessions, Turn(s) \/ Stop(s), Fresh(s)
  PROVE  Fresh(s)' /\ Linted(s)'
<1>1. pc[s] \in {"idle", "turn"} /\ pc'[s] \in {"turn", "guard"}
  BY DEF Turn, Prompt, Commit, Edit, Stop, Goto, TypeInv, TypeOK, talk
<1>2. print'[s] = print[s]
  BY DEF Turn, Prompt, Commit, Edit, Stop, hashing
<1> QED
  BY <1>1, <1>2, OutsideIsFresh DEF Reading

LEMMA HeadIsFresh ==
  ASSUME TypeInv, NEW s \in Sessions, ReadHead(s), Fresh(s)
  PROVE  Fresh(s)' /\ Linted(s)'
<1>1. PICK h \in {head} \cup (IF "git" \in Faults THEN {0} ELSE {}) :
        /\ print' = [print EXCEPT ![s].head = h]
        /\ \/ Goto(s, "head", IF h = 0 THEN "sum" ELSE "list")
           \/ Goto(s, "mhead", IF h = 0 THEN "msum" ELSE "mlist")
  BY DEF ReadHead
<1>2. /\ print'[s] = [print[s] EXCEPT !.head = h]
      /\ pc[s] \in {"head", "mhead"}
      /\ pc'[s] \in IF h = 0 THEN {"sum", "msum"} ELSE {"list", "mlist"}
  BY <1>1 DEF Goto, TypeInv, TypeOK
<1>3. print[s] = Blank
  BY <1>2 DEF Fresh, Reading
<1>4. print'[s] = [head |-> h, files |-> Blank.files]
  BY <1>2, <1>3 DEF Blank
<1>5. print'[s].head = h /\ DOMAIN print'[s].files = {}
  BY <1>4, BlankIsPrint
<1>6. (h = 0 \/ h = head) /\ UNCHANGED << head, tree >>
  BY DEF ReadHead, worktree
<1> QED
  BY <1>2, <1>5, <1>6 DEF Fresh, Linted, Reading

LEMMA ListIsFresh ==
  ASSUME TypeInv, NEW s \in Sessions, ListModified(s), Fresh(s)
  PROVE  Fresh(s)' /\ Linted(s)'
<1>1. /\ pc[s] \in {"list", "mlist"}
      /\ pc'[s] \in {"sum", "msum"} /\ (pc'[s] = "sum" => pc[s] = "list")
  BY DEF ListModified, Goto, TypeInv, TypeOK
<1>2. "git" \notin Faults => todo'[s] = Modified
  <2> SUFFICES ASSUME "git" \notin Faults PROVE todo'[s] = Modified
    OBVIOUS
  <2>1. Answers(Modified) = {Modified}
    BY DEF Answers
  <2>2. todo' = [todo EXCEPT ![s] = Modified]
    BY <2>1 DEF ListModified
  <2> QED
    BY <2>2 DEF TypeInv, TypeOK
<1>3. UNCHANGED << print, head, tree, quiet >> /\ UNCHANGED Modified
  BY DEF ListModified, worktree, Modified
<1> QED
  BY <1>1, <1>2, <1>3 DEF Fresh, Linted, Reading

LEMMA ContentIsFresh ==
  ASSUME TypeInv, NEW s \in Sessions, ReadContent(s), Fresh(s)
  PROVE  Fresh(s)' /\ Linted(s)'
<1> DEFINE f == Min(todo[s])
           w == print[s].files
           ww == [g \in DOMAIN w \cup {f} |-> IF g = f THEN tree[f] ELSE w[g]]
<1>1. f \in todo[s]
  <2>1. todo[s] \in SUBSET Files /\ todo[s] # {}
    BY DEF ReadContent, TypeInv, TypeOK
  <2> QED
    BY <2>1, FirstFile
<1>2. print'[s] = [print[s] EXCEPT !.files = ww] /\ todo'[s] = todo[s] \ {f}
  BY DEF ReadContent, TypeInv, TypeOK
<1>3. pc[s] \in {"sum", "msum"} /\ UNCHANGED << pc, head, tree, quiet >> /\ UNCHANGED Modified
  BY DEF ReadContent, worktree, Modified
<1>4. DOMAIN ww = DOMAIN w \cup {f} /\ \A g \in DOMAIN ww : ww[g] = IF g = f THEN tree[f] ELSE w[g]
  OBVIOUS
<1> HIDE DEF ww
<1>5. print'[s].files = ww /\ print'[s].head = print[s].head
  <2>1. print[s] \in Prints
    BY DEF TypeInv, TypeOK
  <2> QED
    BY <1>2, <2>1 DEF Prints
<1>6. CASE quiet[s] /\ "git" \notin Faults /\ pc[s] = "sum" /\ print[s].head # 0
  <2>1. /\ print[s].head = head
        /\ DOMAIN w = Modified \ todo[s] /\ todo[s] \subseteq Modified
        /\ \A g \in DOMAIN w : w[g] = tree[g]
    BY <1>6 DEF Fresh
  <2> HIDE DEF w, f
  <2>2. DOMAIN ww = Modified \ todo'[s] /\ todo'[s] \subseteq Modified
    BY <1>1, <1>2, <1>4, <2>1
  <2>3. \A g \in DOMAIN ww : ww[g] = tree[g]
    BY <1>4, <2>1
  <2> QED
    BY <1>3, <1>5, <1>6, <2>1, <2>2, <2>3 DEF Fresh, Linted, Reading
<1>7. CASE ~(quiet[s] /\ "git" \notin Faults /\ pc[s] = "sum" /\ print[s].head # 0)
  BY <1>3, <1>5, <1>7 DEF Fresh, Linted, Reading
<1> QED
  BY <1>6, <1>7

LEMMA PipelineIsFresh ==
  ASSUME TypeInv, NEW s \in Sessions, Pipeline(s), Fresh(s)
  PROVE  Fresh(s)' /\ Linted(s)'
<1>1. CASE Validate(s)
  <2>1. pc[s] = "turn" /\ pc'[s] = "mhead" /\ print'[s] = print[s]
    BY <1>1 DEF Validate, Goto, TypeInv, TypeOK, hashing
  <2> QED
    BY <2>1, OutsideIsFresh DEF Reading
<1>2. CASE WriteMarker(s)
  <2>1. pc'[s] = "turn" /\ print'[s] = Blank
    BY <1>2 DEF WriteMarker, Goto, TypeInv, TypeOK
  <2> QED
    BY <2>1 DEF Fresh, Linted, Reading
<1> QED
  BY <1>1, <1>2 DEF Pipeline

LEMMA HookIsFresh ==
  ASSUME TypeInv, NEW s \in Sessions, Hook(s), Fresh(s)
  PROVE  Fresh(s)' /\ Linted(s)'
<1>1. CASE Reenter(s) \/ Skip(s) \/ Unmodified(s) \/ GiveUp(s) \/ TestsPassed(s)
  BY <1>1, EndIsFresh DEF Reenter, Skip, Unmodified, GiveUp, TestsPassed, Allow
<1>2. CASE Enter(s) \/ Claim(s) \/ NoMarker(s) \/ TryAgain(s) \/ Scan(s)
  <2>1. /\ pc[s] \in {"guard", "claim", "scan", "cap"}
        /\ pc'[s] \in {"claim", "head", "scan", "cap", "lint"}
    BY <1>2 DEF Enter, Claim, NoMarker, TryAgain, Scan, Goto, TypeInv, TypeOK
  <2>2. print'[s] = print[s]
    BY <1>2 DEF Enter, Claim, NoMarker, TryAgain, Scan, hashing
  <2> QED
    BY <2>1, <2>2, OutsideIsFresh DEF Reading
<1>3. CASE Reject(s)
  <2>1. pc'[s] = "scan" /\ print'[s] = Blank
    BY <1>3 DEF Reject, Goto, TypeInv, TypeOK
  <2> QED
    BY <2>1 DEF Fresh, Linted, Reading
<1>4. CASE LintFailed(s) \/ Fix(s) \/ TestsFailed(s) \/ ReadCount(s) \/ Block(s)
  <2>1. /\ pc[s] \in {"lint", "recheck", "fix", "tests", "count", "bump"}
        /\ pc'[s] \in {"fix", "recheck", "count", "bump", "turn"}
    BY <1>4 DEF LintFailed, Fix, TestsFailed, ReadCount, Block, Goto, TypeInv, TypeOK
  <2>2. print'[s] = print[s]
    BY <1>4 DEF LintFailed, Fix, TestsFailed, ReadCount, Block, hashing
  <2> QED
    BY <2>1, <2>2, OutsideIsFresh DEF Reading
<1>5. CASE FixSkipped(s)
  <2>1. NoTool /\ pc[s] = "fix" /\ pc'[s] = "tests" /\ print'[s] = print[s]
    BY <1>5 DEF FixSkipped, Goto, TypeInv, TypeOK, hashing
  <2>2. UNCHANGED NoTool
    BY DEF NoTool
  <2> QED
    BY <2>1, <2>2 DEF Fresh, Linted, Reading
<1>6. CASE LintPassed(s)
  <2>1. pc[s] \in {"lint", "recheck"} /\ pc'[s] = "tests" /\ print'[s] = print[s]
    BY <1>6 DEF LintPassed, Goto, TypeInv, TypeOK, hashing
  <2>2. (NoTool \/ LintErrors(s) = {}) /\ UNCHANGED << tree, scope, touched, blind >>
    BY <1>6 DEF LintPassed, worktree, talk, hook
  <2>3. NoTool' \/ LintErrors(s)' = {}
    BY <2>2 DEF LintErrors, LintScope, Trusted, NoTool
  <2> QED
    BY <2>1, <2>3 DEF Fresh, Linted, Reading
<1> QED
  BY <1>1, <1>2, <1>3, <1>4, <1>5, <1>6 DEF Hook, Check

LEMMA CheckNext == TypeInv /\ CheckInv /\ [Next]_vars => CheckInv'
<1> SUFFICES ASSUME TypeInv, CheckInv, [Next]_vars, NEW r \in Sessions
             PROVE  Fresh(r)' /\ Linted(r)'
  BY DEF CheckInv
<1>1. Fresh(r) /\ Linted(r)
  BY DEF CheckInv
<1>2. CASE UNCHANGED vars
  BY <1>1, <1>2, KeptIsEnough DEF vars, worktree, talk, hashing, hook, Kept
<1>3. ASSUME NEW s \in Sessions,
             Turn(s) \/ Stop(s) \/ Hook(s) \/ Fail(s) \/ Hash(s) \/ Pipeline(s)
      PROVE  Fresh(r)' /\ Linted(r)'
  <2>1. CASE r = s
    <3>1. CASE Fail(s)
      BY <2>1, <3>1, EndIsFresh DEF Fail
    <3> QED
      BY <1>1, <1>3, <2>1, <3>1, TurnIsFresh, HookIsFresh, HeadIsFresh, ListIsFresh,
         ContentIsFresh, PipelineIsFresh DEF Hash
  <2>2. CASE r # s
    <3>1. CASE Fail(s)
      BY <2>2, <3>1, <1>1, EndKeepsOthers, KeptIsEnough DEF Fail
    <3> QED
      BY <1>1, <1>3, <2>2, <3>1, TurnKeepsOthers, HookKeepsOthers, HashKeepsOthers,
         PipelineKeepsOthers, KeptIsEnough
  <2> QED
    BY <2>1, <2>2
<1> QED
  BY <1>2, <1>3 DEF Next

LEMMA CheckInit == Init => AloneInv /\ CheckInv
BY DEF Init, AloneInv, Alone, CheckInv, Fresh, Linted, Reading

(***************************************************************************)
(* The steps that end a hook with its checks skipped, or passed.           *)
(***************************************************************************)
LEMMA SkippedBySkip ==
  ASSUME TypeInv, [Next]_vars, NEW s \in Sessions, Skips(s)
  PROVE  Skip(s)
<1>1. outcome[s] = "none" /\ outcome'[s] = "skipped"
  BY DEF Skips
<1>2. PICK r \in Sessions : Turn(r) \/ Stop(r) \/ Hook(r) \/ Fail(r) \/ Hash(r) \/ Pipeline(r)
  BY <1>1 DEF Next, vars
<1>3. \A why : End(r, why) => outcome'[s] = IF r = s THEN why ELSE outcome[s]
  BY DEF End, TypeInv, TypeOK
<1>4. CASE Turn(r) \/ Stop(r) \/ Hash(r) \/ Pipeline(r)
  BY <1>1, <1>4 DEF Turn, Prompt, Commit, Edit, Stop, Hash, ReadHead, ListModified,
     ReadContent, Pipeline, Validate, WriteMarker, TypeInv, TypeOK
<1>5. CASE Fail(r)
  BY <1>1, <1>3, <1>5 DEF Fail
<1>6. CASE Hook(r)
  <2>1. CASE Reenter(r) \/ Unmodified(r) \/ GiveUp(r) \/ TestsPassed(r)
    BY <1>1, <1>3, <2>1 DEF Reenter, Unmodified, GiveUp, TestsPassed, Allow
  <2>2. CASE Skip(r)
    BY <1>1, <1>3, <2>2 DEF Skip, Allow
  <2>3. CASE Enter(r) \/ Claim(r) \/ NoMarker(r) \/ Reject(r) \/ Scan(r) \/ TryAgain(r)
    BY <1>1, <2>3 DEF Enter, Claim, NoMarker, Reject, Scan, TryAgain
  <2>4. CASE Check(r) /\ ~TestsPassed(r)
    BY <1>1, <2>4 DEF Check, LintPassed, LintFailed, Fix, FixSkipped, TestsFailed,
       ReadCount, Block, TypeInv, TypeOK
  <2> QED
    BY <1>6, <2>1, <2>2, <2>3, <2>4 DEF Hook, Check
<1> QED
  BY <1>2, <1>4, <1>5, <1>6

LEMMA PassedByTests ==
  ASSUME TypeInv, [Next]_vars, NEW s \in Sessions, outcome[s] = "none", outcome'[s] = "passed"
  PROVE  TestsPassed(s)
<1>2. PICK r \in Sessions : Turn(r) \/ Stop(r) \/ Hook(r) \/ Fail(r) \/ Hash(r) \/ Pipeline(r)
  BY DEF Next, vars
<1>3. \A why : End(r, why) => outcome'[s] = IF r = s THEN why ELSE outcome[s]
  BY DEF End, TypeInv, TypeOK
<1>4. CASE Turn(r) \/ Stop(r) \/ Hash(r) \/ Pipeline(r)
  BY <1>4 DEF Turn, Prompt, Commit, Edit, Stop, Hash, ReadHead, ListModified,
     ReadContent, Pipeline, Validate, WriteMarker, TypeInv, TypeOK
<1>5. CASE Fail(r)
  BY <1>3, <1>5 DEF Fail
<1>6. CASE Hook(r)
  <2>1. CASE Reenter(r) \/ Unmodified(r) \/ GiveUp(r) \/ Skip(r)
    BY <1>3, <2>1 DEF Reenter, Unmodified, GiveUp, Skip, Allow
  <2>2. CASE TestsPassed(r)
    BY <1>3, <2>2 DEF TestsPassed, Allow
  <2>3. CASE Enter(r) \/ Claim(r) \/ NoMarker(r) \/ Reject(r) \/ Scan(r) \/ TryAgain(r)
    BY <2>3 DEF Enter, Claim, NoMarker, Reject, Scan, TryAgain
  <2>4. CASE Check(r) /\ ~TestsPassed(r)
    BY <2>4 DEF Check, LintPassed, LintFailed, Fix, FixSkipped, TestsFailed,
       ReadCount, Block, TypeInv, TypeOK
  <2> QED
    BY <1>6, <2>1, <2>2, <2>3, <2>4 DEF Hook, Check
<1> QED
  BY <1>2, <1>4, <1>5, <1>6

(***************************************************************************)
(* A complete fingerprint is that of the worktree.                         *)
(***************************************************************************)
LEMMA FreshPrintIsCurrent ==
  ASSUME TypeInv, NEW s \in Sessions, Fresh(s), "git" \notin Faults, quiet[s],
         pc[s] = "sum", todo[s] = {}, print[s].head # 0
  PROVE  print[s] = WorktreePrint
<1> DEFINE w == print[s].files
           now == [f \in Modified |-> tree[f]]
<1>1. print[s] = [head |-> print[s].head, files |-> w] /\ w \in [DOMAIN w -> Contents]
  <2>1. print[s] \in Prints
    BY DEF TypeInv, TypeOK
  <2> QED
    BY <2>1, PrintIs, WrittenIs DEF Prints
<1>2. /\ print[s].head = head
      /\ DOMAIN w = Modified \ todo[s]
      /\ \A f \in DOMAIN w : w[f] = tree[f]
  BY DEF Fresh
<1>3. DOMAIN w = Modified
  BY <1>2
<1>4. w = now
  <2>1. \A f \in Modified : w[f] = now[f]
    BY <1>2, <1>3
  <2>2. w = [f \in Modified |-> w[f]]
    BY <1>1, <1>3
  <2>3. [f \in Modified |-> w[f]] = now
    BY <1>2, <1>3
  <2> QED
    BY <2>2, <2>3
<1> QED
  BY <1>1, <1>2, <1>4 DEF WorktreePrint

(***************************************************************************)
(* An undisturbed hook skips its checks only on the worktree that the      *)
(* marker was made for (SkipIsFresh), if git answers: a listing that fails *)
(* is read as an empty one, and two failures look alike.                   *)
(***************************************************************************)
THEOREM SkipsAreFresh == ASSUME "git" \notin Faults PROVE Spec => SkipIsFresh
<1>1. TypeInv /\ AloneInv /\ CheckInv /\ [Next]_vars
        => [\A s \in Sessions : Skips(s) /\ quiet[s] => \A m \in claimed[s] : Current(m)]_vars
  <2> SUFFICES ASSUME TypeInv, AloneInv, CheckInv, [Next]_vars,
                      NEW s \in Sessions, Skips(s), quiet[s], NEW m \in claimed[s]
               PROVE  Current(m)
    OBVIOUS
  <2>1. Skip(s)
    BY SkippedBySkip
  <2>2. PICK n \in claimed[s] : n.print = print[s] /\ n.print.head # 0
    BY <2>1 DEF Skip, Valid
  <2>3. m = n
    BY DEF AloneInv, Alone
  <2>4. print[s] = WorktreePrint
    BY <2>1, <2>2, FreshPrintIsCurrent DEF Skip, CheckInv
  <2> QED
    BY <2>2, <2>3, <2>4 DEF Current
<1> QED
  BY TypeInit, TypeNext, CheckInit, CheckNext, AloneNext, <1>1, PTL DEF Spec, SkipIsFresh

(***************************************************************************)
(* An undisturbed hook that passes a turn leaves no lint error in the      *)
(* files it had to lint and no failing test it had to run (PassedIsClean), *)
(* if ruff and pytest answer: what is missing counts as passed.            *)
(***************************************************************************)
THEOREM PassesAreClean == ASSUME "tool" \notin Faults PROVE Spec => PassedIsClean
<1>1. TypeInv /\ CheckInv /\ [Next]_vars
        => [\A s \in Sessions :
              outcome[s] = "none" /\ outcome'[s] = "passed" /\ quiet[s]
                => LintErrors(s) = {} /\ ~TestsFail(s)]_vars
  <2> SUFFICES ASSUME TypeInv, CheckInv, [Next]_vars, NEW s \in Sessions,
                      outcome[s] = "none", outcome'[s] = "passed", quiet[s]
               PROVE  LintErrors(s) = {} /\ ~TestsFail(s)
    OBVIOUS
  <2>1. TestsPassed(s)
    BY PassedByTests
  <2> QED
    BY <2>1 DEF TestsPassed, CheckInv, Linted, NoTool
<1> QED
  BY TypeInit, TypeNext, CheckInit, CheckNext, <1>1, PTL DEF Spec, PassedIsClean
=============================================================================
