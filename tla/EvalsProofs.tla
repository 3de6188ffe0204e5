---------------------------- MODULE EvalsProofs -----------------------------
(***************************************************************************)
(* What a green run and a baseline stand for, whatever forges, other runs  *)
(* and the user do to the tree meanwhile, and that a forge is all or       *)
(* nothing, proved for every number of each.  Three invariants: Inv is     *)
(* about the exit codes of runs, ForgeInv about the forges' places, RunInv *)
(* about types and comparisons; RunInv needs Inv.                          *)
(***************************************************************************)
EXTENDS Evals, FiniteSetTheorems, TLAPS

(***************************************************************************)
(* All the results of a run are there and are passes that were earned.     *)
(***************************************************************************)
Earned(r) ==
  /\ DOMAIN res[r] = DOMAIN plan[r] /\ DOMAIN plan[r] # {}
  /\ \A pl \in DOMAIN res[r] : res[r][pl].pass /\ plan[r][pl].graded

(***************************************************************************)
(* The exit code is 0 after the run only if the results are earned, and    *)
(* what is about to be written has got past every refusal.                 *)
(***************************************************************************)
Judged(r) ==
  /\ rpc[r] \in {"compare", "save", "write", "done"} /\ rcode[r] = 0 /\ ~order[r].report
       => Earned(r)
  /\ rpc[r] = "write" =>
       /\ rcode[r] = 0 /\ ~order[r].report /\ ~Filtered(order[r])
       /\ ~EmptyAxis(Summary(plan[r], res[r]))
  /\ rpc[r] = "execute" => DOMAIN plan[r] # {}
  /\ rpc[r] \notin {"idle", "start", "done"} => ~order[r].report

Domains ==
  DOMAIN rpc = Runs /\ DOMAIN plan = Runs /\ DOMAIN res = Runs /\ DOMAIN rcode = Runs

Inv == Domains /\ (\A r \in Runs : Judged(r)) /\ BaselineIsWhole

-----------------------------------------------------------------------------
LEMMA Frame ==
  ASSUME NEW s, Judged(s), rpc'[s] = rpc[s], plan'[s] = plan[s], res'[s] = res[s],
         rcode'[s] = rcode[s], order'[s] = order[s]
  PROVE  Judged(s)'
BY DEF Judged, Earned

(***************************************************************************)
(* In the summary of results that all pass, each agent has as many passes  *)
(* as results.                                                             *)
(***************************************************************************)
LEMMA SummaryOfPasses ==
  ASSUME NEW p, NEW g, \A pl \in DOMAIN g : g[pl].pass
  PROVE  \A x \in DOMAIN Summary(p, g) : Summary(p, g)[x].pass = Summary(p, g)[x].total
<1> SUFFICES ASSUME NEW x \in {pl[1] : pl \in DOMAIN g}
             PROVE  Summary(p, g)[x].pass = Summary(p, g)[x].total
  BY DEF Summary
<1> DEFINE mine == {pl \in DOMAIN g : pl[1] = x}
<1>1. {pl \in mine : g[pl].pass} = mine
  OBVIOUS
<1>2. /\ Summary(p, g)[x].pass = Cardinality({pl \in mine : g[pl].pass})
      /\ Summary(p, g)[x].total = Cardinality(mine)
  BY DEF Summary
<1> QED
  BY <1>1, <1>2

-----------------------------------------------------------------------------
LEMMA InvInit == Init => Inv
BY DEF Init, RunInit, Inv, Domains, Judged, BaselineIsWhole

LEMMA InvFrame ==
  ASSUME Inv, UNCHANGED runVars
  PROVE  Inv'
BY Frame DEF Inv, Domains, runVars, BaselineIsWhole

(***************************************************************************)
(* A step of a run moves it to "done" or on, and touches no other run.     *)
(***************************************************************************)
LEMMA Started == ASSUME Inv, NEW r \in Runs, Start(r) PROVE Inv'
<1> USE DEF Start, AtRun, GotoRun, ExitRun
<1>1. Domains'
  BY DEF Inv, Domains
<1>2. BaselineIsWhole'
  BY DEF Inv, BaselineIsWhole
<1>3. ASSUME NEW s \in Runs PROVE Judged(s)'
  <2>1. CASE s # r
    BY <2>1, Frame DEF Inv, Domains
  <2>2. CASE s = r
    BY <2>2 DEF Inv, Domains, Judged
  <2> QED
    BY <2>1, <2>2
<1> QED
  BY <1>1, <1>2, <1>3 DEF Inv

LEMMA Looked == ASSUME Inv, NEW r \in Runs, Discovered(r) \/ LoadFailed(r) \/ Unavailable(r) PROVE Inv'
<1> USE DEF Discovered, LoadFailed, Loadable, Unavailable, AtRun, GotoRun, ExitRun
<1>1. Domains'
  BY DEF Inv, Domains
<1>2. BaselineIsWhole'
  BY DEF Inv, BaselineIsWhole
<1>3. ASSUME NEW s \in Runs PROVE Judged(s)'
  <2>1. CASE s # r
    BY <2>1, Frame DEF Inv, Domains
  <2>2. CASE s = r
    BY <2>2 DEF Inv, Domains, Judged
  <2> QED
    BY <2>1, <2>2
<1> QED
  BY <1>1, <1>2, <1>3 DEF Inv

LEMMA Executed == ASSUME Inv, NEW r \in Runs, Execute(r) PROVE Inv'
<1> USE DEF Execute, AtRun, GotoRun
<1>1. Domains'
  BY DEF Inv, Domains
<1>2. BaselineIsWhole'
  BY DEF Inv, BaselineIsWhole
<1>3. ASSUME NEW s \in Runs PROVE Judged(s)'
  <2>1. CASE s # r
    BY <2>1, Frame DEF Inv, Domains
  <2>2. CASE s = r
    <3>1. PICK g \in [DOMAIN plan[r] -> UNION {Outcomes(plan[r][pl]) : pl \in DOMAIN plan[r]}] :
            /\ \A pl \in DOMAIN g : g[pl] \in Outcomes(plan[r][pl])
            /\ res' = [res EXCEPT ![r] = g]
            /\ rcode' = [rcode EXCEPT ![r] = IF \A pl \in DOMAIN g : g[pl].pass THEN 0 ELSE 1]
      OBVIOUS
    <3>2. ASSUME NEW pl \in DOMAIN g, g[pl].pass PROVE plan[r][pl].graded
      BY <3>1, <3>2 DEF Outcomes, Result
    <3>3. rpc'[r] = "compare" /\ plan'[r] = plan[r] /\ order'[r] = order[r] /\ res'[r] = g
      BY <3>1 DEF Inv, Domains
    <3>4. DOMAIN plan[r] # {} /\ ~order[r].report
      BY DEF Inv, Judged
    <3> DEFINE all == \A pl \in DOMAIN g : g[pl].pass
    <3>5. rcode'[r] = IF all THEN 0 ELSE 1
      BY <3>1 DEF Inv, Domains
    <3> HIDE DEF all
    <3>6. rcode'[r] = 0 => all
      BY <3>5
    <3> QED
      BY <2>2, <3>2, <3>3, <3>4, <3>6 DEF Judged, Earned, all
  <2> QED
    BY <2>1, <2>2
<1> QED
  BY <1>1, <1>2, <1>3 DEF Inv

LEMMA Judging ==
  ASSUME Inv, NEW r \in Runs, Compare(r) \/ CompareReport(r) \/ Refuse(r)
  PROVE  Inv'
<1> USE DEF Compare, CompareReport, Refuse, AtRun, GotoRun, ExitRun
<1>1. Domains'
  BY DEF Inv, Domains
<1>2. BaselineIsWhole'
  BY DEF Inv, BaselineIsWhole
<1>3. ASSUME NEW s \in Runs PROVE Judged(s)'
  <2>1. CASE s # r
    BY <2>1, Frame DEF Inv, Domains
  <2>2. CASE s = r
    BY <2>2 DEF Inv, Domains, Judged, Earned
  <2> QED
    BY <2>1, <2>2
<1> QED
  BY <1>1, <1>2, <1>3 DEF Inv

LEMMA BackedUp == ASSUME Inv, NEW r \in Runs, BackUp(r) PROVE Inv'
<1> USE DEF BackUp, AtRun, GotoRun
<1>1. Domains'
  BY DEF Inv, Domains
<1>2. BaselineIsWhole'
  BY DEF BaselineIsWhole
<1>3. ASSUME NEW s \in Runs PROVE Judged(s)'
  <2>1. CASE s # r
    BY <2>1, Frame DEF Inv, Domains
  <2>2. CASE s = r
    BY <2>2 DEF Inv, Domains, Judged, Earned
  <2> QED
    BY <2>1, <2>2
<1> QED
  BY <1>1, <1>2, <1>3 DEF Inv

LEMMA Written == ASSUME Inv, NEW r \in Runs, Write(r) PROVE Inv'
<1> USE DEF Write, AtRun, GotoRun
<1> DEFINE sum == Summary(plan[r], res[r])
<1>1. Domains'
  BY DEF Inv, Domains
<1>2. BaselineIsWhole'
  <2>1. ~Filtered(order[r]) /\ ~EmptyAxis(sum) /\ Earned(r)
    BY DEF Inv, Judged
  <2>2. \A x \in DOMAIN sum : sum[x].pass = sum[x].total
    BY <2>1, SummaryOfPasses DEF Earned
  <2>3. \A x \in DOMAIN sum : \A y \in Axes : sum[x][y] # {}
    BY <2>1 DEF EmptyAxis
  <2>4. base'.by = r /\ base'.sum = sum /\ order' = order
    OBVIOUS
  <2> HIDE DEF sum
  <2> QED
    BY <2>1, <2>2, <2>3, <2>4 DEF BaselineIsWhole
<1>3. ASSUME NEW s \in Runs PROVE Judged(s)'
  <2>1. CASE s # r
    BY <2>1, Frame DEF Inv, Domains
  <2>2. CASE s = r
    BY <2>2 DEF Inv, Domains, Judged, Earned
  <2> QED
    BY <2>1, <2>2
<1> QED
  BY <1>1, <1>2, <1>3 DEF Inv

-----------------------------------------------------------------------------
LEMMA InvNext == Inv /\ [Next]_vars => Inv'
<1> SUFFICES ASSUME Inv, [Next]_vars PROVE Inv'
  OBVIOUS
<1>1. ASSUME NEW r \in Runs, Run(r) PROVE Inv'
  BY <1>1, Started, Looked, Executed, Judging, BackedUp, Written DEF Run
<1>2. CASE Edit
  BY <1>2, InvFrame DEF Edit
<1>3. ASSUME NEW f \in Forges, UNCHANGED runVars PROVE Inv'
  BY <1>3, InvFrame
<1>4. CASE UNCHANGED vars
  BY <1>4, InvFrame DEF vars
<1> QED
  BY <1>1, <1>2, <1>3, <1>4 DEF Next

(***************************************************************************)
(* A run of run.py that exits with 0 has results for at least one place,   *)
(* and each is a pass by assertions that it had, whatever forges and edits *)
(* do between its validation and its discovery.                            *)
(***************************************************************************)
THEOREM GreenRunsAreGraded == Spec => []GreenIsGraded
<1>1. Inv => GreenIsGraded
  BY DEF Inv, Judged, Earned, GreenIsGraded, Nothing
<1> QED
  BY InvInit, InvNext, <1>1, PTL DEF Spec

(***************************************************************************)
(* The baseline file, whenever it can be read, is of a run without filters *)
(* whose scenarios all passed and whose axes are all known.                *)
(***************************************************************************)
THEOREM BaselinesAreWhole == Spec => []BaselineIsWhole
<1>1. Inv => BaselineIsWhole
  BY DEF Inv
<1> QED
  BY InvInit, InvNext, <1>1, PTL DEF Spec

(***************************************************************************)
(* A forge shows in the tree only where and while its step allows it: its  *)
(* scenario at its place, its temporary directory under its own name.      *)
(* What is at the place of a forge that is alone with it is its own.       *)
(***************************************************************************)
MadeOrIn(f, pl) == tree[pl].kind = "scenario" /\ (tree[pl].by = f \/ f \in tree[pl].inner)

Filling == {"mkdir", "look", "temp", "move"}
Filled == {"untemp", "validate"}

Staged(f) ==
  /\ bundle[f] = NotCalled => fpc[f] = "idle"
  /\ fcode[f] = 0 => fpc[f] = "done"
  /\ \A pl \in Place : MadeOrIn(f, pl) =>
       /\ pl = Target[f]
       /\ \/ fpc[f] \in Filled \cup {"abandon", "rollback", "stuck", "killed"}
          \/ fcode[f] = 0
  /\ tree[TempOf(f)] # Absent => fpc[f] \in {"move", "untemp", "abandon", "killed"}

Own(f) ==
  Alone(f) =>
    /\ fpc[f] \in Filling => tree[Target[f]] = Absent
    /\ fcode[f] = 0 => bundle[f] = "sound"
    /\ fpc[f] \in Filled \/ fcode[f] = 0 => tree[Target[f]] = Scenario(f, bundle[f], {})

ForgeInv ==
  /\ ForgeTypeOK /\ edits \in 0..MaxEdits
  /\ \A pl \in Agents \X Ids : tree[pl] # Temp
  /\ \A f \in Forges : Staged(f) /\ Own(f)

(***************************************************************************)
(* What a run holds at each of its steps.  A baseline that is on disk, or  *)
(* that a run was compared with, is that of whole agents, with counts.     *)
(***************************************************************************)
Solid(b) ==
  /\ b.by \in Runs
  /\ \A x \in DOMAIN b.sum :
       /\ x \in Agents
       /\ b.sum[x].total \in Nat /\ b.sum[x].pass = b.sum[x].total
       /\ \A y \in Axes : b.sum[x][y] # {}

Held(r) ==
  /\ order[r] = NotCalled => rpc[r] = "idle"
  /\ rpc[r] \in {"idle", "start", "discover"} => plan[r] = Nothing
  /\ rpc[r] \in {"idle", "start", "discover", "execute"} => res[r] = Nothing
  /\ against[r] # NoBase => Solid(against[r])
  /\ rpc[r] \in {"save", "write"} /\ rcode[r] = 0 /\ order[r].compare =>
       /\ against[r] # NoBase
       /\ ~Regresses(Summary(plan[r], res[r]), against[r].sum, order[r].who)

RunInv ==
  /\ RunTypeOK /\ DOMAIN against = Runs
  /\ \A r \in Runs : Held(r)
  /\ base # NoBase => Solid(base) /\ rpc[base.by] = "done"
  /\ BaselineNeverWeakens

-----------------------------------------------------------------------------
LEMMA Places ==
  ASSUME NEW f \in Forges
  PROVE  /\ Target[f] \in Agents \X Ids /\ Target[f] \in Place /\ Where(f) \in Agents
         /\ Target[f] = << Where(f), Target[f][2] >> /\ Target[f][2] \in Ids
         /\ TempOf(f) \in Place
         /\ \A k \in Forges : TempOf(f) # Target[k] /\ (k # f => TempOf(f) # TempOf(k))
         /\ TempOf(f) \notin Agents \X Ids
<1> USE DEF Place, Names, Where, TempOf
<1>1. \A k \in Forges :
        /\ Target[k] \in Agents \X Ids
        /\ Target[k] = << Target[k][1], Target[k][2] >>
        /\ Target[k][1] \in Agents /\ Target[k][2] \in Ids
  BY ForgeAssumption
<1>2. f \notin Ids
  BY ForgeAssumption
<1> QED
  BY <1>1, <1>2

(***************************************************************************)
(* A forge that is not called never leaves its first state.                *)
(***************************************************************************)
LEMMA WhoActs ==
  ASSUME ForgeInv, NEW f \in Forges, fpc[f] # "idle"
  PROVE  bundle[f] # NotCalled /\ bundle[f] \in Qualities
<1>1. bundle[f] # NotCalled
  BY DEF ForgeInv, Staged
<1> QED
  BY <1>1 DEF ForgeInv, ForgeTypeOK, Bundles, Qualities

LEMMA ScenarioFields ==
  ASSUME NEW by, NEW quality, NEW inner
  PROVE  /\ Scenario(by, quality, inner).kind = "scenario"
         /\ Scenario(by, quality, inner).by = by
         /\ Scenario(by, quality, inner).quality = quality
         /\ Scenario(by, quality, inner).inner = inner
         /\ Scenario(by, quality, inner) # Absent
         /\ Scenario(by, quality, inner) # Temp
         /\ Absent # Temp /\ Absent.kind # "scenario" /\ Temp.kind # "scenario"
<1>1. /\ Scenario(by, quality, inner).kind = "scenario"
      /\ Scenario(by, quality, inner).by = by
      /\ Scenario(by, quality, inner).quality = quality
      /\ Scenario(by, quality, inner).inner = inner
  BY DEF Scenario
<1>2. Absent.kind = "absent" /\ Temp.kind = "temp"
  BY DEF Absent, Temp
<1> QED
  BY <1>1, <1>2

(***************************************************************************)
(* What is at a place where no temporary directory can be is absent or a   *)
(* scenario.                                                               *)
(***************************************************************************)
LEMMA AtPlace ==
  ASSUME ForgeInv, NEW pl \in Agents \X Ids
  PROVE  \/ tree[pl] = Absent
         \/ \E by \in Forges \cup {User}, quality \in Qualities, inner \in SUBSET Forges :
              tree[pl] = Scenario(by, quality, inner)
<1>1. pl \in Place
  BY DEF Place, Names
<1>2. tree[pl] \in Content /\ tree[pl] # Temp
  BY <1>1 DEF ForgeInv, ForgeTypeOK
<1> QED
  BY <1>2 DEF Content

(***************************************************************************)
(* What a forge does at its two places disturbs no other forge.            *)
(***************************************************************************)
LEMMA Others ==
  ASSUME ForgeInv, NEW f \in Forges, bundle[f] # NotCalled, NEW k \in Forges, k # f,
         bundle' = bundle, fpc'[k] = fpc[k], fcode'[k] = fcode[k],
         \A pl \in Place :
           \/ tree'[pl] = tree[pl]
           \/ pl \in {Target[f], TempOf(f)} /\ (MadeOrIn(k, pl)' => MadeOrIn(k, pl))
  PROVE  Staged(k)' /\ Own(k)'
<1>0. Staged(k) /\ Own(k)
  BY DEF ForgeInv
<1>1. TempOf(k) \in Place /\ TempOf(k) # Target[f] /\ TempOf(k) # TempOf(f)
  BY Places
<1>2. tree'[TempOf(k)] = tree[TempOf(k)]
  BY <1>1
<1>3. ASSUME NEW pl \in Place, MadeOrIn(k, pl)' PROVE MadeOrIn(k, pl)
  BY <1>3 DEF MadeOrIn
<1>4. Staged(k)'
  BY <1>0, <1>2, <1>3 DEF Staged, TempOf, Where
<1>5. ASSUME Alone(k) PROVE tree'[Target[k]] = tree[Target[k]]
  <2>1. Target[f] # Target[k]
    BY <1>5 DEF Alone
  <2>2. Target[k] \in Place /\ Target[k] # TempOf(f)
    BY Places
  <2> QED
    BY <2>1, <2>2
<1>6. Alone(k)' => Alone(k)
  BY DEF Alone
<1>7. Own(k)'
  BY <1>0, <1>5, <1>6 DEF Own
<1> QED
  BY <1>4, <1>7

(***************************************************************************)
(* So it is enough to look at the forge itself.                            *)
(***************************************************************************)
LEMMA OneForge ==
  ASSUME ForgeInv, NEW f \in Forges, bundle[f] # NotCalled, bundle' = bundle,
         UNCHANGED << model, edits >>,
         tree' \in [Place -> Content], dirs' \in SUBSET Agents, wasNew' \in [Forges -> BOOLEAN],
         NEW pc, fpc' = [fpc EXCEPT ![f] = pc],
         NEW n, fcode' = [fcode EXCEPT ![f] = n],
         pc \in {"idle", "plan", "mkdir", "look", "temp", "move", "untemp", "abandon",
                 "validate", "rollback", "rmdir", "done", "stuck", "killed"},
         n \in {0, 1, Running},
         \A pl \in Place :
           \/ tree'[pl] = tree[pl]
           \/ /\ pl \in {Target[f], TempOf(f)}
              /\ \A k \in Forges \ {f} : MadeOrIn(k, pl)' => MadeOrIn(k, pl),
         tree'[Target[f]] # Temp,
         Staged(f)', Own(f)'
  PROVE  ForgeInv'
<1>1. ForgeTypeOK'
  BY DEF ForgeInv, ForgeTypeOK
<1>2. (edits \in 0..MaxEdits)'
  BY DEF ForgeInv
<1>3. ASSUME NEW pl \in Agents \X Ids PROVE tree'[pl] # Temp
  <2>1. pl \in Place /\ pl # TempOf(f)
    BY Places DEF Place, Names
  <2> QED
    BY <2>1 DEF ForgeInv
<1>4. ASSUME NEW k \in Forges PROVE Staged(k)' /\ Own(k)'
  <2>1. CASE k # f
    <3>1. fpc'[k] = fpc[k] /\ fcode'[k] = fcode[k]
      BY <2>1 DEF ForgeInv, ForgeTypeOK
    <3> QED
      BY <2>1, <3>1, Others
  <2> QED
    BY <2>1
<1> QED
  BY <1>1, <1>2, <1>3, <1>4 DEF ForgeInv

-----------------------------------------------------------------------------
(***************************************************************************)
(* The steps of a forge that leave the tree alone, and those that do not.  *)
(***************************************************************************)
LEMMA Quiet ==
  ASSUME ForgeInv, NEW f \in Forges,
         Plan(f) \/ MakeParent(f) \/ LookParent(f) \/ Validate(f) \/ Break(f)
           \/ RemoveParent(f) \/ Kill(f),
         UNCHANGED edits
  PROVE  ForgeInv'
<1> USE DEF Plan, MakeParent, LookParent, Validate, Break, RemoveParent, Kill, At, Goto, Exit
<1>1. fpc[f] # "idle" /\ tree' = tree /\ bundle' = bundle /\ model' = model /\ edits' = edits
  OBVIOUS
<1>2. bundle[f] # NotCalled
  BY <1>1, WhoActs
<1>3. Staged(f) /\ Own(f) /\ Target[f] \in Agents \X Ids /\ Where(f) \in Agents
  BY Places DEF ForgeInv
<1>4. dirs' \in SUBSET Agents /\ wasNew' \in [Forges -> BOOLEAN]
  <2>1. dirs' \in SUBSET Agents
    BY <1>3 DEF ForgeInv, ForgeTypeOK
  <2>2. wasNew' \in [Forges -> BOOLEAN]
    BY DEF ForgeInv, ForgeTypeOK
  <2> QED
    BY <2>1, <2>2
<1>5. PICK pc \in {"idle", "plan", "mkdir", "look", "temp", "move", "untemp", "abandon",
                   "validate", "rollback", "rmdir", "done", "stuck", "killed"} :
        /\ fpc' = [fpc EXCEPT ![f] = pc]
        /\ \/ pc = "done" /\ fcode' = [fcode EXCEPT ![f] = 0]
              /\ fpc[f] = "validate" /\ ValidateAll({Where(f)}, {Target[f][2]})
           \/ /\ pc = "done" /\ fcode' = [fcode EXCEPT ![f] = 1]
              /\ fpc[f] \in {"plan", "look", "rmdir"}
           \/ /\ fcode' = fcode
              /\ \/ fpc[f] = "plan" /\ pc = "mkdir" /\ tree[Target[f]] = Absent
                 \/ fpc[f] = "mkdir" /\ pc = "look"
                 \/ fpc[f] = "look" /\ pc = "temp"
                 \/ fpc[f] = "validate" /\ pc = "rollback"
                 \/ fpc[f] = "temp" /\ pc = "rollback"
                 \/ fpc[f] \in {"move", "untemp"} /\ pc = "abandon"
                 \/ pc = "killed" /\ fpc[f] \notin {"idle", "done", "stuck"}
  OBVIOUS
<1>6. PICK n \in {0, 1, Running} :
        /\ fcode' = [fcode EXCEPT ![f] = n]
        /\ n # 0 => ~(fpc[f] = "validate" /\ pc = "done")
        /\ n = 0 => /\ fpc[f] = "validate" /\ pc = "done"
                    /\ ValidateAll({Where(f)}, {Target[f][2]})
  <2>1. fcode \in [Forges -> {0, 1, Running}] /\ (fcode[f] = 0 => fpc[f] = "done")
    BY <1>3 DEF ForgeInv, ForgeTypeOK, Staged
  <2>2. CASE fcode' = fcode /\ ~(fpc[f] = "validate" /\ pc = "done")
    <3>1. fcode' = [fcode EXCEPT ![f] = fcode[f]] /\ fcode[f] \in {0, 1, Running}
      BY <2>1, <2>2
    <3>2. fpc[f] # "done"
      BY <1>5
    <3>3. fcode[f] # 0
      BY <2>1, <3>2
    <3> HIDE DEF ForgeInv
    <3> QED
      BY <2>2, <3>1, <3>3
  <2>3. CASE fcode' = [fcode EXCEPT ![f] = 1] /\ fpc[f] # "validate"
    BY <2>3
  <2>4. CASE /\ fcode' = [fcode EXCEPT ![f] = 0] /\ pc = "done" /\ fpc[f] = "validate"
             /\ ValidateAll({Where(f)}, {Target[f][2]})
    BY <2>4
  <2> QED
    BY <1>5, <2>2, <2>3, <2>4
<1>7. tree[Target[f]] # Temp
  BY <1>3 DEF ForgeInv
<1>8. fpc'[f] = pc /\ fcode'[f] = n
  BY <1>5, <1>6 DEF ForgeInv, ForgeTypeOK
<1>9. Staged(f)'
  <2>1. ASSUME NEW pl \in Place, MadeOrIn(f, pl)' PROVE MadeOrIn(f, pl)
    BY <1>1, <2>1 DEF MadeOrIn
  <2>2. fcode[f] # 0 /\ fpc[f] # "done"
    BY <1>3, <1>5 DEF Staged
  <2>3. fpc[f] \in Filled \cup {"abandon", "rollback", "stuck", "killed"} =>
          pc \in Filled \cup {"abandon", "rollback", "stuck", "killed"} \/ n = 0
    BY <1>5, <1>6 DEF Filled
  <2>4. fpc[f] \in {"move", "untemp", "abandon", "killed"} =>
          pc \in {"move", "untemp", "abandon", "killed"}
    BY <1>5
  <2>5. ASSUME NEW pl \in Place, MadeOrIn(f, pl)'
        PROVE  pl = Target[f] /\ (pc \in Filled \cup {"abandon", "rollback", "stuck", "killed"} \/ n = 0)
    BY <1>3, <2>1, <2>2, <2>3, <2>5 DEF Staged
  <2>6. n = 0 => pc = "done"
    BY <1>6
  <2> QED
    BY <1>1, <1>2, <1>3, <1>8, <2>4, <2>5, <2>6 DEF Staged, TempOf, Where
<1>10. Own(f)'
  <2> SUFFICES ASSUME Alone(f)'
               PROVE  /\ pc \in Filling => tree[Target[f]] = Absent
                      /\ n = 0 => bundle[f] = "sound"
                      /\ pc \in Filled \/ n = 0 =>
                           tree[Target[f]] = Scenario(f, bundle[f], {})
    BY <1>1, <1>8 DEF Own
  <2>1. Alone(f)
    BY <1>1 DEF Alone
  <2>2. n = 0 => fpc[f] \in Filled
    BY <1>6 DEF Filled
  <2>3. ASSUME n = 0 PROVE bundle[f] = "sound"
    <3>1. tree[Target[f]] = Scenario(f, bundle[f], {})
      BY <1>3, <2>1, <2>2, <2>3 DEF Own
    <3>2. Target[f] \in Discover({Where(f)}, {Target[f][2]})
      BY <3>1, Places, ScenarioFields DEF Discover
    <3>3. tree[Target[f]].quality = "sound"
      BY <1>6, <2>3, <3>2 DEF ValidateAll, ValidScenario
    <3> QED
      BY <3>1, <3>3, ScenarioFields
  <2>4. pc \in Filling => tree[Target[f]] = Absent
    BY <1>3, <1>5, <2>1 DEF Own, Filling
  <2>5. pc \in Filled => fpc[f] \in Filled
    BY <1>5 DEF Filled
  <2> QED
    BY <1>3, <2>1, <2>2, <2>3, <2>4, <2>5 DEF Own
<1> QED
  BY <1>1, <1>2, <1>4, <1>5, <1>6, <1>7, <1>9, <1>10, OneForge DEF ForgeInv, ForgeTypeOK

(***************************************************************************)
(* A step that writes one place.                                           *)
(***************************************************************************)
LEMMA MadeTemp == ASSUME ForgeInv, NEW f \in Forges, MakeTemp(f), UNCHANGED edits PROVE ForgeInv'
<1> USE DEF MakeTemp, At, Goto, Place1
<1>1. fpc[f] = "temp" /\ bundle' = bundle /\ dirs' = dirs /\ wasNew' = wasNew /\ fcode' = fcode
  OBVIOUS
<1>2. bundle[f] # NotCalled
  BY <1>1, WhoActs
<1>3. Staged(f) /\ Own(f) /\ TempOf(f) \in Place /\ Target[f] \in Place /\ TempOf(f) # Target[f]
  BY Places DEF ForgeInv
<1>4. PICK pc \in {"move", "rollback"} :
        /\ fpc' = [fpc EXCEPT ![f] = pc]
        /\ \/ pc = "move" /\ tree' = [tree EXCEPT ![TempOf(f)] = Temp]
           \/ pc = "rollback" /\ tree' = tree
  OBVIOUS
<1>5. /\ tree' \in [Place -> Content]
      /\ \A pl \in Place : tree'[pl] = tree[pl] \/ (pl = TempOf(f) /\ tree'[pl] = Temp)
      /\ pc = "rollback" => tree' = tree
  BY <1>3, <1>4 DEF ForgeInv, ForgeTypeOK, Content
<1>6. \A k \in Forges, pl \in Place : MadeOrIn(k, pl)' => MadeOrIn(k, pl)
  BY <1>5, ScenarioFields DEF MadeOrIn
<1>7. fpc'[f] = pc /\ fcode[f] \in {0, 1, Running} /\ fcode[f] # 0
  BY <1>1, <1>3, <1>4 DEF ForgeInv, ForgeTypeOK, Staged
<1>8. tree'[Target[f]] = tree[Target[f]]
  BY <1>3, <1>5
<1>9. Staged(f)'
  BY <1>1, <1>2, <1>3, <1>4, <1>5, <1>6, <1>7 DEF Staged, TempOf, Where, Filled
<1>10. Own(f)'
  <2>1. Alone(f)' => Alone(f)
    BY <1>1 DEF Alone
  <2> QED
    BY <1>1, <1>3, <1>7, <1>8, <2>1 DEF Own, Filling, Filled
<1>11. tree'[Target[f]] # Temp
  BY <1>8, Places DEF ForgeInv
<1>12. fcode' = [fcode EXCEPT ![f] = fcode[f]]
  BY <1>1 DEF ForgeInv, ForgeTypeOK
<1>13. dirs' \in SUBSET Agents /\ wasNew' \in [Forges -> BOOLEAN] /\ model' = model
  BY <1>1 DEF ForgeInv, ForgeTypeOK
<1> QED
  BY <1>1, <1>2, <1>4, <1>5, <1>6, <1>7, <1>9, <1>10, <1>11, <1>12, <1>13, OneForge

LEMMA Moved == ASSUME ForgeInv, NEW f \in Forges, Move(f), UNCHANGED edits PROVE ForgeInv'
<1> USE DEF Move, At, Goto, Place1
<1>1. /\ fpc[f] = "move" /\ bundle' = bundle /\ dirs' = dirs /\ wasNew' = wasNew /\ fcode' = fcode
      /\ model' = model /\ fpc' = [fpc EXCEPT ![f] = "untemp"]
  OBVIOUS
<1>2. bundle[f] # NotCalled /\ bundle[f] \in Qualities
  BY <1>1, WhoActs
<1>3. /\ Staged(f) /\ Own(f) /\ TempOf(f) \in Place /\ Target[f] \in Place
      /\ TempOf(f) # Target[f] /\ Target[f] \in Agents \X Ids
  BY Places DEF ForgeInv
<1>4. PICK by \in Forges \cup {User}, quality \in Qualities, inner \in SUBSET Forges :
        /\ tree' = [tree EXCEPT ![Target[f]] = Scenario(by, quality, inner)]
        /\ \/ tree[Target[f]] = Absent /\ by = f /\ quality = bundle[f] /\ inner = {}
           \/ /\ tree[Target[f]] # Absent /\ tree[Target[f]].kind = "scenario"
              /\ by = tree[Target[f]].by /\ inner = {f}
  <2>1. CASE tree[Target[f]] = Absent
    <3>1. tree' = [tree EXCEPT ![Target[f]] = Scenario(f, bundle[f], {})]
      BY <2>1
    <3> QED
      BY <1>2, <2>1, <3>1
  <2>2. CASE tree[Target[f]] # Absent
    <3>1. PICK by \in Forges \cup {User}, quality \in Qualities, inner \in SUBSET Forges :
            tree[Target[f]] = Scenario(by, quality, inner)
      BY <1>3, <2>2, AtPlace
    <3>2. tree' = [tree EXCEPT ![Target[f]] = Scenario(by, quality, {f})]
      BY <2>2, <3>1, ScenarioFields
    <3>3. tree[Target[f]].kind = "scenario" /\ by = tree[Target[f]].by /\ {f} \in SUBSET Forges
      BY <3>1, ScenarioFields
    <3> HIDE DEF Move
    <3> QED
      BY <2>2, <3>2, <3>3
  <2> QED
    BY <2>1, <2>2
<1>5. /\ tree' \in [Place -> Content]
      /\ tree'[Target[f]] = Scenario(by, quality, inner)
      /\ \A pl \in Place : tree'[pl] = tree[pl] \/ pl = Target[f]
  <2>1. Scenario(by, quality, inner) \in Content
    BY DEF Content
  <2>2. tree \in [Place -> Content] /\ tree' = [tree EXCEPT ![Target[f]] = Scenario(by, quality, inner)]
    BY <1>4 DEF ForgeInv, ForgeTypeOK
  <2> HIDE DEF Move
  <2> QED
    BY <1>3, <2>1, <2>2
<1>6. ASSUME NEW k \in Forges \ {f}, NEW pl \in Place, MadeOrIn(k, pl)' PROVE MadeOrIn(k, pl)
  <2>1. CASE pl # Target[f]
    BY <1>5, <1>6, <2>1 DEF MadeOrIn
  <2>2. CASE pl = Target[f]
    <3>1. by = k \/ k \in inner
      BY <1>5, <1>6, <2>2, ScenarioFields DEF MadeOrIn
    <3> QED
      BY <1>4, <2>2, <3>1 DEF MadeOrIn
  <2> QED
    BY <2>1, <2>2
<1>7. fpc'[f] = "untemp" /\ fcode[f] \in {0, 1, Running} /\ fcode[f] # 0
  BY <1>1, <1>3 DEF ForgeInv, ForgeTypeOK, Staged
<1>8. Staged(f)'
  <2>1. ASSUME NEW pl \in Place, MadeOrIn(f, pl)' PROVE pl = Target[f]
    BY <1>3, <1>5, <2>1 DEF MadeOrIn, Staged
  <2> QED
    BY <1>1, <1>2, <1>7, <2>1 DEF Staged, TempOf, Where, Filled
<1>9. Own(f)'
  <2>1. ASSUME Alone(f)' PROVE tree[Target[f]] = Absent
    <3>1. Alone(f)
      BY <1>1, <2>1 DEF Alone
    <3> QED
      BY <1>1, <1>3, <3>1 DEF Own, Filling
  <2>2. Alone(f)' => tree'[Target[f]] = Scenario(f, bundle[f], {})
    BY <1>4, <1>5, <2>1
  <2> QED
    BY <1>1, <1>7, <2>2 DEF Own, Filling, Filled
<1>10. tree'[Target[f]] # Temp
  BY <1>5, ScenarioFields
<1>11. fcode' = [fcode EXCEPT ![f] = fcode[f]]
  BY <1>1 DEF ForgeInv, ForgeTypeOK
<1>12. dirs' \in SUBSET Agents /\ wasNew' \in [Forges -> BOOLEAN]
  BY <1>1 DEF ForgeInv, ForgeTypeOK
<1> HIDE DEF Move
<1> QED
  BY <1>1, <1>2, <1>5, <1>6, <1>7, <1>8, <1>9, <1>10, <1>11, <1>12, OneForge

(***************************************************************************)
(* A step that empties one of its two places.                              *)
(***************************************************************************)
LEMMA Emptied ==
  ASSUME ForgeInv, NEW f \in Forges, RemoveTemp(f) \/ Rollback(f), UNCHANGED edits
  PROVE  ForgeInv'
<1> USE DEF RemoveTemp, Rollback, At, Goto, Place1
<1>1. /\ fpc[f] \in {"untemp", "abandon", "rollback"}
      /\ bundle' = bundle /\ dirs' = dirs /\ wasNew' = wasNew /\ model' = model
  OBVIOUS
<1>2. bundle[f] # NotCalled
  BY <1>1, WhoActs
<1>3. /\ Staged(f) /\ Own(f) /\ TempOf(f) \in Place /\ Target[f] \in Place
      /\ TempOf(f) # Target[f] /\ Target[f] \in Agents \X Ids
  BY Places DEF ForgeInv
<1>4. fcode \in [Forges -> {0, 1, Running}] /\ fcode[f] \in {0, 1, Running} /\ fcode[f] # 0
  BY <1>1, <1>3 DEF ForgeInv, ForgeTypeOK, Staged
<1>5. PICK pc \in {"validate", "rollback", "rmdir", "stuck"}, n \in {1, Running} :
        /\ fpc' = [fpc EXCEPT ![f] = pc] /\ fcode' = [fcode EXCEPT ![f] = n]
        /\ \/ /\ fpc[f] = "untemp" /\ pc = "validate" /\ tree' = [tree EXCEPT ![TempOf(f)] = Absent]
           \/ /\ fpc[f] = "abandon" /\ pc = "rollback" /\ tree' = [tree EXCEPT ![TempOf(f)] = Absent]
           \/ /\ fpc[f] = "rollback" /\ pc = "rmdir" /\ tree' = [tree EXCEPT ![Target[f]] = Absent]
           \/ /\ fpc[f] = "rollback" /\ pc = "stuck" /\ tree' = tree
  <2>1. CASE RemoveTemp(f)
    <3>1. fcode' = [fcode EXCEPT ![f] = fcode[f]] /\ fcode[f] \in {1, Running}
      BY <1>4, <2>1
    <3>2. CASE fpc[f] = "untemp"
      BY <2>1, <3>1, <3>2
    <3>3. CASE fpc[f] = "abandon"
      BY <2>1, <3>1, <3>3
    <3> QED
      BY <2>1, <3>2, <3>3
  <2>2. CASE Rollback(f) /\ fcode' = fcode /\ Place1(Target[f], Absent) /\ Goto(f, "rmdir")
    <3>1. fcode' = [fcode EXCEPT ![f] = fcode[f]] /\ fcode[f] \in {1, Running}
      BY <1>4, <2>2
    <3> QED
      BY <2>2, <3>1
  <2>3. CASE Rollback(f) /\ fcode' = [fcode EXCEPT ![f] = 1] /\ tree' = tree /\ Goto(f, "stuck")
    BY <2>3
  <2> QED
    BY <2>1, <2>2, <2>3
<1>6. /\ tree' \in [Place -> Content]
      /\ \A pl \in Place :
           tree'[pl] = tree[pl] \/ (pl \in {Target[f], TempOf(f)} /\ tree'[pl] = Absent)
      /\ pc \in {"validate", "rollback"} =>
           tree'[TempOf(f)] = Absent /\ tree'[Target[f]] = tree[Target[f]]
      /\ pc = "rmdir" => tree'[Target[f]] = Absent /\ tree'[TempOf(f)] = tree[TempOf(f)]
      /\ pc = "stuck" => tree' = tree
  <2> HIDE DEF RemoveTemp, Rollback, Place1
  <2>1. Absent \in Content /\ tree \in [Place -> Content]
    BY DEF ForgeInv, ForgeTypeOK, Content
  <2> QED
    BY <1>3, <1>5, <2>1
<1>7. \A k \in Forges, pl \in Place : MadeOrIn(k, pl)' => MadeOrIn(k, pl)
  BY <1>6, ScenarioFields DEF MadeOrIn
<1>8. fpc'[f] = pc /\ fcode'[f] = n /\ n # 0
  <2>1. fpc'[f] = pc /\ fcode'[f] = n
    BY <1>5 DEF ForgeInv, ForgeTypeOK
  <2> QED
    BY <2>1 DEF Running
<1>9. Staged(f)'
  <2>1. ASSUME NEW pl \in Place, MadeOrIn(f, pl)'
        PROVE  pl = Target[f] /\ pc \in {"validate", "rollback", "stuck"}
    <3>1. pl = Target[f]
      BY <1>3, <1>7, <2>1 DEF Staged
    <3>2. pc # "rmdir"
      BY <1>6, <2>1, <3>1, ScenarioFields DEF MadeOrIn
    <3> QED
      BY <3>1, <3>2
  <2>2. tree'[TempOf(f)] = Absent
    <3>1. fpc[f] = "rollback" => tree[TempOf(f)] = Absent
      BY <1>3 DEF Staged
    <3> QED
      BY <1>5, <1>6, <3>1
  <2> HIDE DEF RemoveTemp, Rollback
  <2> QED
    BY <1>1, <1>2, <1>8, <2>1, <2>2 DEF Staged, TempOf, Where, Filled
<1>10. Own(f)'
  <2>1. Alone(f)' => Alone(f)
    BY <1>1 DEF Alone
  <2>2. pc \in Filled => fpc[f] = "untemp" /\ tree'[Target[f]] = tree[Target[f]]
    BY <1>5, <1>6 DEF Filled
  <2>3. pc \notin Filling
    BY DEF Filling
  <2>4. Alone(f)' /\ pc \in Filled => tree'[Target[f]] = Scenario(f, bundle[f], {})
    BY <1>3, <2>1, <2>2 DEF Own, Filled
  <2> HIDE DEF RemoveTemp, Rollback
  <2> QED
    BY <1>1, <1>8, <2>3, <2>4 DEF Own
<1>11. tree'[Target[f]] # Temp
  <2>1. tree[Target[f]] # Temp
    BY <1>3 DEF ForgeInv
  <2> QED
    BY <1>3, <1>6, <2>1, ScenarioFields
<1>12. dirs' \in SUBSET Agents /\ wasNew' \in [Forges -> BOOLEAN]
  BY <1>1 DEF ForgeInv, ForgeTypeOK
<1> HIDE DEF RemoveTemp, Rollback
<1> QED
  BY <1>1, <1>2, <1>5, <1>6, <1>7, <1>9, <1>10, <1>11, <1>12, OneForge

(***************************************************************************)
(* The user writes no place that a forge is to fill.                       *)
(***************************************************************************)
LEMMA Edited == ASSUME ForgeInv, Edit PROVE ForgeInv'
<1>1. /\ bundle' = bundle /\ fpc' = fpc /\ fcode' = fcode /\ wasNew' = wasNew
      /\ edits < MaxEdits /\ edits' = edits + 1
  BY DEF Edit, forgeVars
<1>2. edits' \in 0..MaxEdits
  BY <1>1, EvalsAssumption DEF ForgeInv
<1>3. CASE EditAgent
  <2>1. tree' = tree /\ dirs' = dirs /\ model' \in [Agents -> Models \cup {NoDef}]
    BY <1>3 DEF EditAgent, ForgeInv, ForgeTypeOK
  <2>2. ForgeTypeOK'
    BY <1>1, <2>1 DEF ForgeInv, ForgeTypeOK
  <2>3. ASSUME NEW k \in Forges PROVE Staged(k)' /\ Own(k)'
    BY <1>1, <2>1 DEF ForgeInv, Staged, Own, MadeOrIn, Alone
  <2>4. \A pl \in Agents \X Ids : tree'[pl] # Temp
    BY <2>1 DEF ForgeInv
  <2> QED
    BY <1>2, <2>2, <2>3, <2>4 DEF ForgeInv
<1>4. CASE EditScenario((Agents \X Ids) \ {Target[k] : k \in Called})
  <2>1. PICK pl \in (Agents \X Ids) \ {Target[k] : k \in Called}, c \in ByTheUser :
          tree' = [tree EXCEPT ![pl] = c] /\ dirs' = dirs \cup {pl[1]} /\ model' = model
    BY <1>4 DEF EditScenario, ByTheUser
  <2>2. c \in Content /\ c # Temp /\ (c.kind = "scenario" => c.by = User /\ c.inner = {})
    <3>1. CASE c = Absent
      BY <3>1, ScenarioFields DEF Content
    <3>2. ASSUME NEW q \in Qualities, c = Scenario(User, q, {})
          PROVE  c \in Content /\ c # Temp /\ (c.kind = "scenario" => c.by = User /\ c.inner = {})
      BY <3>2, ScenarioFields DEF Content
    <3> QED
      BY <3>1, <3>2 DEF ByTheUser
  <2>3. pl \in Place /\ pl[1] \in Agents
    BY DEF Place, Names
  <2>4. tree' \in [Place -> Content] /\ tree'[pl] = c /\ \A x \in Place : x # pl => tree'[x] = tree[x]
    BY <2>1, <2>2, <2>3 DEF ForgeInv, ForgeTypeOK
  <2>5. ForgeTypeOK'
    BY <1>1, <2>1, <2>3, <2>4 DEF ForgeInv, ForgeTypeOK
  <2>6. \A x \in Agents \X Ids : tree'[x] # Temp
    <3>1. \A x \in Agents \X Ids : x \in Place
      BY DEF Place, Names
    <3> QED
      BY <2>2, <2>4, <3>1 DEF ForgeInv
  <2>7. ASSUME NEW k \in Forges PROVE Staged(k)' /\ Own(k)'
    <3>1. \A x \in Place : MadeOrIn(k, x)' => MadeOrIn(k, x)
      BY <2>2, <2>4, ForgeAssumption DEF MadeOrIn
    <3>2. TempOf(k) \in Place /\ TempOf(k) # pl
      BY Places
    <3>3. tree'[TempOf(k)] = tree[TempOf(k)]
      BY <2>4, <3>2
    <3>4. Staged(k)'
      BY <1>1, <3>1, <3>3 DEF ForgeInv, Staged, TempOf, Where
    <3>5. Own(k)'
      <4>1. CASE bundle[k] = NotCalled
        <5>1. fpc[k] = "idle" /\ fcode[k] # 0
          BY <4>1 DEF ForgeInv, Staged
        <5> QED
          BY <1>1, <5>1 DEF Own, Filling, Filled
      <4>2. CASE bundle[k] # NotCalled
        <5>1. Target[k] # pl /\ Target[k] \in Place
          BY <4>2, Places DEF Called
        <5>2. tree'[Target[k]] = tree[Target[k]]
          BY <2>4, <5>1
        <5> QED
          BY <1>1, <5>2 DEF ForgeInv, Own, Alone
      <4> QED
        BY <4>1, <4>2
    <3> QED
      BY <3>4, <3>5
  <2> QED
    BY <1>2, <2>5, <2>6, <2>7 DEF ForgeInv
<1> QED
  BY <1>3, <1>4 DEF Edit

LEMMA ForgeInvInit == Init => ForgeInv
<1> SUFFICES ASSUME Init PROVE ForgeInv
  OBVIOUS
<1>1. PICK cast \in Casts : bundle = cast.bundle /\ order = cast.order
  BY DEF Init
<1>2. bundle \in [Forges -> Bundles]
  BY <1>1, EvalsAssumption
<1>3. tree \in [Place -> ByTheUser] /\ \A pl \in Agents \X Forges : tree[pl] = Absent
  BY EvalsAssumption DEF Init
<1>4. ASSUME NEW c \in ByTheUser
      PROVE  c \in Content /\ c # Temp /\ (c.kind = "scenario" => c.by = User /\ c.inner = {})
  <2>1. CASE c = Absent
    BY <2>1, ScenarioFields DEF Content
  <2>2. ASSUME NEW q \in Qualities, c = Scenario(User, q, {})
        PROVE  c \in Content /\ c # Temp /\ (c.kind = "scenario" => c.by = User /\ c.inner = {})
    BY <2>2, ScenarioFields DEF Content
  <2> QED
    BY <2>1, <2>2 DEF ByTheUser
<1>5. tree \in [Place -> Content] /\ \A pl \in Agents \X Ids : tree[pl] # Temp
  <2>1. \A pl \in Agents \X Ids : pl \in Place
    BY DEF Place, Names
  <2> QED
    BY <1>3, <1>4, <2>1
<1>6. ForgeTypeOK
  <2>1. dirs \in SUBSET Agents /\ model \in [Agents -> Models \cup {NoDef}]
    BY EvalsAssumption DEF Init
  <2>2. /\ fpc \in [Forges -> {"idle", "plan"}] /\ wasNew \in [Forges -> BOOLEAN]
        /\ fcode \in [Forges -> {Running}]
    BY DEF Init, ForgeInit
  <2> QED
    BY <1>2, <1>5, <2>1, <2>2 DEF ForgeTypeOK
<1>7. edits \in 0..MaxEdits
  BY EvalsAssumption DEF Init
<1>8. ASSUME NEW f \in Forges PROVE Staged(f) /\ Own(f)
  <2>1. fpc[f] \in {"idle", "plan"} /\ (bundle[f] = NotCalled => fpc[f] = "idle") /\ fcode[f] # 0
    BY DEF Init, ForgeInit, Running
  <2>2. \A pl \in Place : ~MadeOrIn(f, pl)
    BY <1>3, <1>4, ForgeAssumption DEF MadeOrIn
  <2>3. tree[TempOf(f)] = Absent
    BY <1>3, Places DEF TempOf
  <2> QED
    BY <2>1, <2>2, <2>3 DEF Staged, Own, Filling, Filled
<1> QED
  BY <1>5, <1>6, <1>7, <1>8 DEF ForgeInv

LEMMA ForgeInvFrame ==
  ASSUME ForgeInv, UNCHANGED << tree, dirs, model, forgeVars, edits >>
  PROVE  ForgeInv'
<1>1. ForgeTypeOK'
  BY DEF ForgeInv, ForgeTypeOK, forgeVars
<1>2. ASSUME NEW k \in Forges PROVE Staged(k)' /\ Own(k)'
  BY DEF ForgeInv, Staged, Own, MadeOrIn, Alone, forgeVars
<1> QED
  BY <1>1, <1>2 DEF ForgeInv

LEMMA ForgeInvNext == ForgeInv /\ [Next]_vars => ForgeInv'
<1> SUFFICES ASSUME ForgeInv, [Next]_vars PROVE ForgeInv'
  OBVIOUS
<1>1. CASE Edit
  BY <1>1, Edited
<1>2. ASSUME NEW f \in Forges, Forge(f), UNCHANGED << runVars, edits >> PROVE ForgeInv'
  BY <1>2, Quiet, MadeTemp, Moved, Emptied DEF Forge
<1>3. ASSUME NEW r \in Runs, Run(r), UNCHANGED << forgeVars, edits >> PROVE ForgeInv'
  BY <1>3, ForgeInvFrame DEF Run
<1>4. CASE UNCHANGED vars
  BY <1>4, ForgeInvFrame DEF vars
<1> QED
  BY <1>1, <1>2, <1>3, <1>4 DEF Next

(***************************************************************************)
(* A forge of eval-forge.py is all or nothing, for every number of forges, *)
(* with the user at work and processes killed at any step: one that has    *)
(* reported success and was alone with its place has its scenario there,   *)
(* and one that has failed has left nothing anywhere in the tree, unless   *)
(* rmtree itself has failed.                                               *)
(***************************************************************************)
THEOREM ForgesAreAtomic == Spec => []ForgeIsAtomic
<1>1. ForgeInv => ForgeIsAtomic
  <2> SUFFICES ASSUME ForgeInv, NEW f \in Forges, Staged(f), Own(f)
               PROVE  /\ fcode[f] = 0 /\ Alone(f) => tree[Target[f]] = Scenario(f, "sound", {})
                      /\ fpc[f] = "done" /\ fcode[f] = 1 =>
                           /\ tree[TempOf(f)] = Absent
                           /\ \A pl \in Place : tree[pl].kind = "scenario" =>
                                tree[pl].by # f /\ f \notin tree[pl].inner
    BY DEF ForgeInv, ForgeIsAtomic, CommittedStays, FailureLeavesNothing
  <2>1. fcode[f] = 0 /\ Alone(f) => tree[Target[f]] = Scenario(f, "sound", {})
    BY DEF Own
  <2>2. ASSUME fpc[f] = "done", fcode[f] = 1 PROVE tree[TempOf(f)] = Absent
    BY <2>2 DEF Staged
  <2>3. ASSUME fpc[f] = "done", fcode[f] = 1 PROVE \A pl \in Place : ~MadeOrIn(f, pl)
    BY <2>3 DEF Staged, Filled
  <2> QED
    BY <2>1, <2>2, <2>3 DEF MadeOrIn
<1> QED
  BY ForgeInvInit, ForgeInvNext, <1>1, PTL DEF Spec

-----------------------------------------------------------------------------
LEMMA OrderFields ==
  ASSUME RunInv, NEW r \in Runs, rpc[r] # "idle"
  PROVE  order[r].who \in SUBSET Agents /\ order[r].which \in SUBSET Names
<1>1. order[r] \in Orders
  BY DEF RunInv, RunTypeOK, Held
<1> QED
  BY <1>1 DEF Orders, Order

(***************************************************************************)
(* A summary of passes has an agent's counts and, without an empty axis,   *)
(* all its axes.                                                           *)
(***************************************************************************)
LEMMA SummaryIsSolid ==
  ASSUME NEW p, NEW g, DOMAIN g \subseteq Place, \A pl \in DOMAIN g : g[pl].pass,
         ~EmptyAxis(Summary(p, g)), NEW r \in Runs
  PROVE  Solid([sum |-> Summary(p, g), by |-> r])
<1>1. IsFiniteSet(Place)
  BY EvalsAssumption, FS_Product DEF Place
<1>2. ASSUME NEW x \in DOMAIN Summary(p, g)
      PROVE  x \in Agents /\ Summary(p, g)[x].total \in Nat
  <2> DEFINE mine == {pl \in DOMAIN g : pl[1] = x}
  <2>1. x \in {pl[1] : pl \in DOMAIN g} /\ Summary(p, g)[x].total = Cardinality(mine)
    BY DEF Summary
  <2>2. x \in Agents
    BY <2>1 DEF Place
  <2>3. mine \subseteq Place
    OBVIOUS
  <2>4. IsFiniteSet(mine)
    BY <1>1, <2>3, FS_Subset
  <2>5. Cardinality(mine) \in Nat
    BY <2>4, FS_CardinalityType
  <2> QED
    BY <2>1, <2>2, <2>5
<1>3. \A x \in DOMAIN Summary(p, g) : Summary(p, g)[x].pass = Summary(p, g)[x].total
  BY SummaryOfPasses
<1>4. \A x \in DOMAIN Summary(p, g) : \A y \in Axes : Summary(p, g)[x][y] # {}
  BY DEF EmptyAxis
<1> DEFINE sum == Summary(p, g)
<1> HIDE DEF sum
<1> QED
  BY <1>2, <1>3, <1>4 DEF Solid, sum

LEMMA HeldFrame ==
  ASSUME NEW s, Held(s), rpc'[s] = rpc[s], plan'[s] = plan[s], res'[s] = res[s],
         rcode'[s] = rcode[s], order'[s] = order[s], against'[s] = against[s]
  PROVE  Held(s)'
BY DEF Held

(***************************************************************************)
(* A step of one run touches no other run, nor the past of a baseline.     *)
(***************************************************************************)
LEMMA SameBase ==
  ASSUME RunInv, NEW r \in Runs, rpc[r] # "done", base' = base, order' = order,
         \A s \in Runs \ {r} : rpc'[s] = rpc[s] /\ against'[s] = against[s]
  PROVE  /\ base' # NoBase => Solid(base') /\ rpc'[base'.by] = "done"
         /\ BaselineNeverWeakens'
<1>1. ASSUME base # NoBase
      PROVE  /\ Solid(base) /\ rpc[base.by] = "done" /\ base.by \in Runs
             /\ rpc'[base.by] = "done" /\ against'[base.by] = against[base.by]
  <2>1. Solid(base) /\ rpc[base.by] = "done" /\ base.by \in Runs
    BY <1>1 DEF RunInv, Solid
  <2> QED
    BY <2>1
<1>2. BaselineNeverWeakens
  BY DEF RunInv
<1>3. BaselineNeverWeakens'
  BY <1>1, <1>2 DEF BaselineNeverWeakens
<1> QED
  BY <1>1, <1>3

RunSteps == {"idle", "start", "discover", "execute", "compare", "save", "write", "done"}

Shaped(r) ==
  /\ plan[r] = Nothing \/ DOMAIN plan[r] \subseteq Place
  /\ res[r] = Nothing \/ DOMAIN res[r] = DOMAIN plan[r]

LEMMA OneRun ==
  ASSUME RunInv, NEW r \in Runs, order' = order,
         rpc' \in [Runs -> RunSteps], rcode' \in [Runs -> {0, 1, 2}], DOMAIN against' = Runs,
         \A s \in Runs \ {r} :
           /\ rpc'[s] = rpc[s] /\ plan'[s] = plan[s] /\ res'[s] = res[s]
           /\ rcode'[s] = rcode[s] /\ against'[s] = against[s],
         base' # NoBase => Solid(base') /\ rpc'[base'.by] = "done",
         BaselineNeverWeakens',
         Held(r)', Shaped(r)'
  PROVE  RunInv'
<1>1. ASSUME NEW s \in Runs PROVE Held(s)'
  <2>1. CASE s # r
    <3>1. Held(s)
      BY DEF RunInv
    <3> QED
      BY <2>1, <3>1, HeldFrame
  <2> QED
    BY <2>1
<1>2. RunTypeOK'
  <2>1. order' \in [Runs -> Orders \cup {NotCalled}]
    BY DEF RunInv, RunTypeOK
  <2>2. ASSUME NEW s \in Runs PROVE Shaped(s)'
    <3>1. CASE s # r
      BY <3>1 DEF RunInv, RunTypeOK, Shaped
    <3> QED
      BY <3>1
  <2>3. ASSUME NEW s \in Runs PROVE against'[s] = NoBase \/ against'[s].by \in Runs
    BY <1>1 DEF Held, Solid
  <2>4. base' = NoBase \/ base'.by \in Runs
    BY DEF Solid
  <2> QED
    BY <2>1, <2>2, <2>3, <2>4 DEF RunTypeOK, RunSteps, Shaped
<1> QED
  BY <1>1, <1>2 DEF RunInv

LEMMA RunFacts ==
  ASSUME RunInv, Inv, NEW r \in Runs
  PROVE  /\ DOMAIN plan = Runs /\ DOMAIN res = Runs /\ DOMAIN against = Runs
         /\ rpc \in [Runs -> RunSteps] /\ rcode \in [Runs -> {0, 1, 2}]
         /\ Held(r) /\ Shaped(r)
         /\ base # NoBase => Solid(base)
BY DEF Inv, Domains, RunInv, RunTypeOK, RunSteps, Shaped

-----------------------------------------------------------------------------
(***************************************************************************)
(* The steps that touch neither results nor baselines.                     *)
(***************************************************************************)
LEMMA RunSoFar ==
  ASSUME RunInv, Inv, NEW r \in Runs, Start(r) \/ LoadFailed(r) \/ Unavailable(r) \/ Refuse(r)
  PROVE  RunInv'
<1> USE DEF Start, LoadFailed, Unavailable, Refuse, AtRun, GotoRun, ExitRun
<1>1. /\ rpc[r] \in {"start", "discover", "save"} /\ order' = order /\ plan' = plan /\ res' = res
      /\ base' = base /\ against' = against
  OBVIOUS
<1>2. PICK pc \in {"discover", "done"}, n \in {0, 1, 2} :
        /\ rpc' = [rpc EXCEPT ![r] = pc] /\ rcode' = [rcode EXCEPT ![r] = n]
        /\ pc = "discover" => rpc[r] = "start"
  <2>1. rcode = [rcode EXCEPT ![r] = rcode[r]] /\ rcode[r] \in {0, 1, 2}
    BY RunFacts
  <2> QED
    BY <2>1
<1> HIDE DEF Start, LoadFailed, Unavailable, Refuse
<1>3. /\ rpc' \in [Runs -> RunSteps] /\ rcode' \in [Runs -> {0, 1, 2}] /\ DOMAIN against' = Runs
      /\ rpc'[r] = pc /\ rcode'[r] = n
      /\ \A s \in Runs \ {r} : rpc'[s] = rpc[s] /\ rcode'[s] = rcode[s]
  BY <1>1, <1>2, RunFacts DEF RunSteps
<1>4. Held(r)' /\ Shaped(r)'
  BY <1>1, <1>2, <1>3, RunFacts DEF Held, Shaped
<1>5. /\ base' # NoBase => Solid(base') /\ rpc'[base'.by] = "done"
      /\ BaselineNeverWeakens'
  BY <1>1, <1>3, SameBase
<1> QED
  BY <1>1, <1>3, <1>4, <1>5, OneRun

LEMMA RunDiscovered == ASSUME RunInv, Inv, NEW r \in Runs, Discovered(r) PROVE RunInv'
<1> USE DEF Discovered, AtRun, GotoRun
<1>1. /\ rpc[r] = "discover" /\ order' = order /\ res' = res /\ rcode' = rcode
      /\ base' = base /\ against' = against
  OBVIOUS
<1>2. /\ rpc' \in [Runs -> RunSteps] /\ rcode' \in [Runs -> {0, 1, 2}] /\ DOMAIN against' = Runs
      /\ rpc'[r] = "execute" /\ DOMAIN plan'[r] = Found(r)
      /\ \A s \in Runs \ {r} : rpc'[s] = rpc[s] /\ plan'[s] = plan[s]
  BY <1>1, RunFacts DEF RunSteps
<1>3. Found(r) \subseteq Place
  BY <1>1, OrderFields DEF Found, Discover, Place
<1>4. Held(r)' /\ Shaped(r)'
  <2> HIDE DEF Discovered
  <2> QED
    BY <1>1, <1>2, <1>3, RunFacts DEF Held, Shaped
<1>5. /\ base' # NoBase => Solid(base') /\ rpc'[base'.by] = "done"
      /\ BaselineNeverWeakens'
  BY <1>1, <1>2, SameBase
<1> QED
  BY <1>1, <1>2, <1>4, <1>5, OneRun

LEMMA RunExecuted == ASSUME RunInv, Inv, NEW r \in Runs, Execute(r) PROVE RunInv'
<1> USE DEF Execute, AtRun, GotoRun
<1>1. /\ rpc[r] = "execute" /\ order' = order /\ plan' = plan
      /\ base' = base /\ against' = against /\ rpc' = [rpc EXCEPT ![r] = "compare"]
  OBVIOUS
<1>2. PICK g : /\ DOMAIN g = DOMAIN plan[r] /\ res' = [res EXCEPT ![r] = g]
               /\ \E n \in {0, 1} : rcode' = [rcode EXCEPT ![r] = n]
  OBVIOUS
<1> HIDE DEF Execute
<1>3. /\ rpc' \in [Runs -> RunSteps] /\ rcode' \in [Runs -> {0, 1, 2}] /\ DOMAIN against' = Runs
      /\ rpc'[r] = "compare" /\ res'[r] = g
      /\ \A s \in Runs \ {r} : rpc'[s] = rpc[s] /\ res'[s] = res[s] /\ rcode'[s] = rcode[s]
  BY <1>1, <1>2, RunFacts DEF RunSteps
<1>4. Held(r)' /\ Shaped(r)'
  BY <1>1, <1>2, <1>3, RunFacts DEF Held, Shaped
<1>5. /\ base' # NoBase => Solid(base') /\ rpc'[base'.by] = "done"
      /\ BaselineNeverWeakens'
  BY <1>1, <1>3, SameBase
<1> QED
  BY <1>1, <1>3, <1>4, <1>5, OneRun

(***************************************************************************)
(* A comparison remembers the baseline and whether the run regresses.      *)
(***************************************************************************)
LEMMA RunCompared ==
  ASSUME RunInv, Inv, NEW r \in Runs, Compare(r) \/ CompareReport(r)
  PROVE  RunInv'
<1> USE DEF Compare, CompareReport, AtRun, GotoRun, ExitRun
<1>1. /\ rpc[r] \in {"compare", "start"} /\ order' = order /\ plan' = plan /\ res' = res
      /\ base' = base
  OBVIOUS
<1> DEFINE worse == Regresses(Summary(plan[r], res[r]), base.sum, order[r].who)
<1>2. PICK pc \in {"save", "done"}, n \in {0, 1, 2} :
        /\ rpc' = [rpc EXCEPT ![r] = pc] /\ rcode' = [rcode EXCEPT ![r] = n]
        /\ \/ against' = against /\ (pc = "save" => ~order[r].compare)
           \/ /\ base # NoBase /\ against' = [against EXCEPT ![r] = base]
              /\ pc = "save" => (n = 0 => ~worse)
        /\ pc = "save" => rpc[r] = "compare"
  <2>1. rcode = [rcode EXCEPT ![r] = rcode[r]] /\ rcode[r] \in {0, 1, 2}
    BY RunFacts
  <2>2. CASE CompareReport(r)
    BY <2>2
  <2>3. CASE Compare(r)
    BY <2>1, <2>3
  <2> QED
    BY <2>2, <2>3
<1> HIDE DEF Compare, CompareReport
<1>3. /\ rpc' \in [Runs -> RunSteps] /\ rcode' \in [Runs -> {0, 1, 2}] /\ DOMAIN against' = Runs
      /\ rpc'[r] = pc /\ rcode'[r] = n
      /\ \A s \in Runs \ {r} :
            rpc'[s] = rpc[s] /\ rcode'[s] = rcode[s] /\ against'[s] = against[s]
  BY <1>2, RunFacts DEF RunSteps
<1>4. /\ against'[r] # NoBase => Solid(against'[r])
      /\ pc = "save" /\ n = 0 /\ order[r].compare => against'[r] # NoBase /\ against'[r] = base /\ ~worse
  <2>1. CASE against' = against /\ (pc = "save" => ~order[r].compare)
    BY <2>1, RunFacts DEF Held
  <2>2. CASE /\ base # NoBase /\ against' = [against EXCEPT ![r] = base]
             /\ pc = "save" => (n = 0 => ~worse)
    <3>1. against'[r] = base
      BY <2>2, RunFacts
    <3> QED
      BY <2>2, <3>1, RunFacts
  <2> QED
    BY <1>2, <2>1, <2>2
<1>5. Held(r)'
  BY <1>1, <1>2, <1>3, <1>4, RunFacts DEF Held
<1>6. Shaped(r)'
  BY <1>1, RunFacts DEF Shaped
<1>7. /\ base' # NoBase => Solid(base') /\ rpc'[base'.by] = "done"
      /\ BaselineNeverWeakens'
  BY <1>1, <1>3, SameBase
<1> QED
  BY <1>1, <1>3, <1>5, <1>6, <1>7, OneRun

LEMMA RunBackedUp == ASSUME RunInv, Inv, NEW r \in Runs, BackUp(r) PROVE RunInv'
<1> USE DEF BackUp, AtRun, GotoRun
<1>1. /\ rpc[r] = "save" /\ order' = order /\ plan' = plan /\ res' = res /\ rcode' = rcode
      /\ base' = NoBase /\ against' = against /\ rpc' = [rpc EXCEPT ![r] = "write"]
  OBVIOUS
<1> HIDE DEF BackUp
<1>2. /\ rpc' \in [Runs -> RunSteps] /\ rcode' \in [Runs -> {0, 1, 2}] /\ DOMAIN against' = Runs
      /\ rpc'[r] = "write" /\ \A s \in Runs \ {r} : rpc'[s] = rpc[s]
  BY <1>1, RunFacts DEF RunSteps
<1>3. Held(r)' /\ Shaped(r)'
  BY <1>1, <1>2, RunFacts DEF Held, Shaped
<1>4. BaselineNeverWeakens'
  BY <1>1 DEF BaselineNeverWeakens
<1> QED
  BY <1>1, <1>2, <1>3, <1>4, OneRun

(***************************************************************************)
(* The run that writes has compared all its agents with a baseline that    *)
(* was whole, and is whole itself.                                         *)
(***************************************************************************)
LEMMA RunWritten == ASSUME RunInv, Inv, NEW r \in Runs, Write(r) PROVE RunInv'
<1> USE DEF Write, AtRun, GotoRun
<1> DEFINE sum == Summary(plan[r], res[r])
<1>1. /\ rpc[r] = "write" /\ order' = order /\ plan' = plan /\ res' = res /\ rcode' = rcode
      /\ against' = against /\ rpc' = [rpc EXCEPT ![r] = "done"]
      /\ base' = [sum |-> sum, by |-> r]
  OBVIOUS
<1> HIDE DEF Write
<1>2. /\ rpc' \in [Runs -> RunSteps] /\ rcode' \in [Runs -> {0, 1, 2}] /\ DOMAIN against' = Runs
      /\ rpc'[r] = "done" /\ \A s \in Runs \ {r} : rpc'[s] = rpc[s]
  BY <1>1, RunFacts DEF RunSteps
<1>3. Held(r)' /\ Shaped(r)'
  BY <1>1, <1>2, RunFacts DEF Held, Shaped
<1>4. Judged(r)
  BY DEF Inv
<1>5. ~Filtered(order[r]) /\ ~EmptyAxis(sum) /\ Earned(r) /\ rcode[r] = 0
  BY <1>1, <1>4 DEF Judged
<1>6. DOMAIN res[r] \subseteq Place
  BY <1>5, RunFacts DEF Earned, Shaped, Nothing
<1>7. Solid(base')
  BY <1>1, <1>5, <1>6, SummaryIsSolid DEF Earned
<1>8. ASSUME order[r].compare, NEW x \in DOMAIN against[r].sum
      PROVE  /\ x \in DOMAIN sum
             /\ sum[x].total >= against[r].sum[x].total /\ sum[x].pass >= against[r].sum[x].pass
             /\ \A y \in Axes : sum[x][y] = against[r].sum[x][y]
  <2>1. against[r] # NoBase /\ ~Regresses(sum, against[r].sum, Agents) /\ Solid(against[r])
    <3>1. order[r].who = Agents
      BY <1>5 DEF Filtered
    <3> QED
      BY <1>1, <1>5, <1>8, <3>1, RunFacts DEF Held
  <2> DEFINE c == sum[x]  b == against[r].sum[x]
  <2>2. x \in Agents /\ b.total \in Nat /\ b.pass = b.total /\ \A y \in Axes : b[y] # {}
    BY <2>1 DEF Solid
  <2>3. x \in DOMAIN sum /\ ~Worse(c, b)
    BY <2>1, <2>2 DEF Regresses
  <2>4. base'.sum = sum
    BY <1>1
  <2>5. c.total \in Nat /\ c.pass = c.total /\ \A y \in Axes : c[y] # {}
    BY <1>7, <2>3, <2>4 DEF Solid
  <2>6. \A y \in Axes : c[y] = b[y]
    BY <2>2, <2>3, <2>5 DEF Worse, AxisMismatch
  <2>7. ~(c.total < b.total)
    BY <2>3 DEF Worse
  <2>8. c.total >= b.total /\ c.pass >= b.pass
    <3> HIDE DEF sum, c, b
    <3> QED
      BY <2>2, <2>5, <2>7
  <2> QED
    BY <2>3, <2>6, <2>8
<1>9. BaselineNeverWeakens'
  <2>1. base'.sum = sum /\ base'.by = r /\ order'[r] = order[r] /\ against'[r] = against[r]
    BY <1>1
  <2> HIDE DEF sum
  <2> QED
    BY <1>8, <2>1 DEF BaselineNeverWeakens
<1> QED
  BY <1>1, <1>2, <1>3, <1>7, <1>9, OneRun

-----------------------------------------------------------------------------
LEMMA RunInvInit == Init => RunInv
<1> SUFFICES ASSUME Init PROVE RunInv
  OBVIOUS
<1>1. PICK cast \in Casts : bundle = cast.bundle /\ order = cast.order
  BY DEF Init
<1>2. order \in [Runs -> Orders \cup {NotCalled}]
  BY <1>1, EvalsAssumption
<1>3. RunInit
  BY DEF Init
<1>4. RunTypeOK /\ DOMAIN against = Runs
  BY <1>2, <1>3 DEF RunInit, RunTypeOK
<1>5. \A r \in Runs : Held(r)
  BY <1>3 DEF RunInit, Held
<1>6. base = NoBase
  BY <1>3 DEF RunInit
<1> QED
  BY <1>4, <1>5, <1>6 DEF RunInv, BaselineNeverWeakens

LEMMA RunInvFrame == ASSUME RunInv, UNCHANGED runVars PROVE RunInv'
<1>1. RunTypeOK' /\ DOMAIN against' = Runs
  BY DEF RunInv, RunTypeOK, runVars
<1>2. \A s \in Runs : Held(s)'
  BY DEF RunInv, Held, runVars
<1>3. BaselineNeverWeakens'
  BY DEF RunInv, BaselineNeverWeakens, runVars
<1>4. base' # NoBase => Solid(base') /\ rpc'[base'.by] = "done"
  BY DEF RunInv, runVars
<1> QED
  BY <1>1, <1>2, <1>3, <1>4 DEF RunInv

LEMMA RunInvNext == RunInv /\ Inv /\ [Next]_vars => RunInv'
<1> SUFFICES ASSUME RunInv, Inv, [Next]_vars PROVE RunInv'
  OBVIOUS
<1>1. ASSUME NEW r \in Runs, Run(r) PROVE RunInv'
  BY <1>1, RunSoFar, RunDiscovered, RunExecuted, RunCompared, RunBackedUp, RunWritten DEF Run
<1>2. CASE Edit
  BY <1>2, RunInvFrame DEF Edit
<1>3. ASSUME NEW f \in Forges, UNCHANGED runVars PROVE RunInv'
  BY <1>3, RunInvFrame
<1>4. CASE UNCHANGED vars
  BY <1>4, RunInvFrame DEF vars
<1> QED
  BY <1>1, <1>2, <1>3, <1>4 DEF Next

(***************************************************************************)
(* Every variable of forges, runs and the tree always has its type.        *)
(***************************************************************************)
THEOREM EvalTypes == Spec => []TypeOK
<1>1. ForgeInv /\ RunInv => TypeOK
  BY DEF ForgeInv, RunInv, TypeOK
<1> QED
  BY ForgeInvInit, ForgeInvNext, InvInit, InvNext, RunInvInit, RunInvNext, <1>1, PTL DEF Spec

(***************************************************************************)
(* A baseline that was compared with the one before keeps its agents, has  *)
(* no fewer scenarios and successes of any, and measures the same models,  *)
(* whatever happens between the comparison and the writing.                *)
(***************************************************************************)
THEOREM BaselinesNeverWeaken == Spec => []BaselineNeverWeakens
<1>1. RunInv => BaselineNeverWeakens
  BY DEF RunInv
<1> QED
  BY InvInit, InvNext, RunInvInit, RunInvNext, <1>1, PTL DEF Spec

=============================================================================
