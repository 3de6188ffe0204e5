------------------------------ MODULE EvalRun -------------------------------
(***************************************************************************)
(* run.py: run the scenarios of the tree, compare with a baseline, save a  *)
(* new one.  A run validates, then discovers, then executes, without       *)
(* protection from forges and edits in between.                            *)
(***************************************************************************)
EXTENDS EvalTree

CONSTANTS
  Runs,     \* runs of run.py
  Actual,   \* models that the CLI may report
  NoBase    \* there is no readable baseline

(***************************************************************************)
(* An order: which agents and names (the filters), and which of --compare, *)
(* --baseline and --report are given.                                      *)
(***************************************************************************)
Order(who, which, compare, save, report) ==
  [who |-> who, which |-> which, compare |-> compare, save |-> save, report |-> report]

Orders ==
  {Order(who, which, compare, save, report) :
     who \in SUBSET Agents, which \in SUBSET Names,
     compare \in BOOLEAN, save \in BOOLEAN, report \in BOOLEAN}

VARIABLES
  rpc,       \* where a run is
  order,     \* what it was asked for
  plan,      \* the places it runs, with what it has loaded
  res,       \* their results
  rcode,     \* its exit code so far
  base,      \* the baseline file: a summary, and the run that wrote it
  against    \* history: the baseline a run was compared with

runVars == << rpc, order, plan, res, rcode, base, against >>

Nothing == << >>

RunInit ==
  /\ rpc = [r \in Runs |-> IF order[r] = NotCalled THEN "idle" ELSE "start"]
  /\ plan = [r \in Runs |-> Nothing]
  /\ res = [r \in Runs |-> Nothing]
  /\ rcode = [r \in Runs |-> 0]
  /\ base = NoBase
  /\ against = [r \in Runs |-> NoBase]

AtRun(r, from) == rpc[r] = from
GotoRun(r, next) == rpc' = [rpc EXCEPT ![r] = next]
ExitRun(r, n) == GotoRun(r, "done") /\ rcode' = [rcode EXCEPT ![r] = n]

-----------------------------------------------------------------------------
(***************************************************************************)
(* run_all.  The tree may change between its validation and its discovery. *)
(***************************************************************************)
Start(r) ==
  /\ AtRun(r, "start") /\ ~order[r].report
  /\ IF ValidateAll(order[r].who, order[r].which)
       THEN GotoRun(r, "discover") /\ UNCHANGED rcode
       ELSE ExitRun(r, 1)
  /\ UNCHANGED << order, plan, res, base, against >>

(***************************************************************************)
(* What a run keeps of a place that it loads.  It dies of an agent without *)
(* a definition, and of some scenarios that are broken.                    *)
(***************************************************************************)
IsScenario(pl, quality) == tree[pl].kind = "scenario" /\ tree[pl].quality = quality

Load(pl) ==
  [model |-> model[pl[1]],
   graded |-> IsScenario(pl, "sound") \/ IsScenario(pl, "broken")]

Found(r) == Discover(order[r].who, order[r].which)

Loadable(r) == Found(r) # {} /\ \A pl \in Found(r) : model[pl[1]] # NoDef

Discovered(r) ==
  /\ AtRun(r, "discover") /\ Loadable(r)
  /\ plan' = [plan EXCEPT ![r] = [pl \in Found(r) |-> Load(pl)]]
  /\ GotoRun(r, "execute")
  /\ UNCHANGED << order, res, rcode, base, against >>

LoadFailed(r) ==
  /\ AtRun(r, "discover")
  /\ ~Loadable(r) \/ \E pl \in Found(r) : IsScenario(pl, "broken")
  /\ ExitRun(r, 1)
  /\ UNCHANGED << order, plan, res, base, against >>

Unavailable(r) ==
  /\ AtRun(r, "discover") /\ Loadable(r) /\ ExitRun(r, 2)
  /\ UNCHANGED << order, plan, res, base, against >>

(***************************************************************************)
(* run_scenario: a result passes or not, and names the primary model if    *)
(* the output of the CLI could be read and told it.  What has no           *)
(* assertions fails without being run.                                     *)
(***************************************************************************)
Result(pass, primary) == [pass |-> pass, primary |-> primary]

OutcomesVacuous(p) ==  \* variant: no assertion has failed
  {Result(pass, primary) : pass \in BOOLEAN, primary \in {{}} \cup {{m} : m \in Actual}}

Outcomes(p) ==
  IF p.graded
    THEN {Result(pass, primary) : pass \in BOOLEAN, primary \in {{}} \cup {{m} : m \in Actual}}
    ELSE {Result(FALSE, {})}

ExecuteLossy(r) ==  \* variant: what could not be graded has no result
  /\ AtRun(r, "execute") /\ GotoRun(r, "compare")
  /\ \E some \in SUBSET DOMAIN plan[r] :
       res' = [res EXCEPT ![r] = [pl \in some |-> Result(TRUE, Actual)]]
  /\ UNCHANGED << order, plan, rcode, base, against >>

Execute(r) ==
  /\ AtRun(r, "execute") /\ GotoRun(r, "compare")
  /\ \E g \in [DOMAIN plan[r] -> UNION {Outcomes(plan[r][pl]) : pl \in DOMAIN plan[r]}] :
        /\ \A pl \in DOMAIN g : g[pl] \in Outcomes(plan[r][pl])
        /\ res' = [res EXCEPT ![r] = g]
        /\ rcode' = [rcode EXCEPT ![r] = IF \A pl \in DOMAIN g : g[pl].pass THEN 0 ELSE 1]
  /\ UNCHANGED << order, plan, base, against >>

-----------------------------------------------------------------------------
(***************************************************************************)
(* summarize: per agent the counts, and the axes of the measurement.       *)
(***************************************************************************)
Summary(p, g) ==
  [a \in {pl[1] : pl \in DOMAIN g} |->
     LET mine == {pl \in DOMAIN g : pl[1] = a} IN
       [total |-> Cardinality(mine),
        pass |-> Cardinality({pl \in mine : g[pl].pass}),
        models |-> {p[pl].model : pl \in mine},
        primary |-> UNION {g[pl].primary : pl \in mine}]]

Axes == {"models", "primary"}

(***************************************************************************)
(* compare_baseline.  An axis that is not known on one side is no          *)
(* regression; an agent that is new is none either.                        *)
(***************************************************************************)
AxisMismatch(c, b) == \E x \in Axes : c[x] # {} /\ b[x] # {} /\ c[x] # b[x]

Worse(c, b) ==
  \/ AxisMismatch(c, b)
  \/ c.pass * b.total < b.pass * c.total
  \/ c.total < b.total

Regresses(cur, old, who) ==
  \E a \in DOMAIN old \cap who :
    IF a \in DOMAIN cur THEN Worse(cur[a], old[a]) ELSE TRUE

CompareUncounted(r) ==  \* variant: a regression is printed but not returned
  /\ AtRun(r, "compare")
  /\ IF order[r].compare /\ base = NoBase
       THEN ExitRun(r, 1) /\ UNCHANGED against
       ELSE /\ GotoRun(r, "save") /\ UNCHANGED rcode
            /\ against' = [against EXCEPT ![r] = IF order[r].compare THEN base ELSE NoBase]
  /\ UNCHANGED << order, plan, res, base >>

Compare(r) ==
  /\ AtRun(r, "compare")
  /\ \/ /\ ~order[r].compare
        /\ GotoRun(r, "save") /\ UNCHANGED << rcode, against >>
     \/ /\ order[r].compare /\ base = NoBase
        /\ ExitRun(r, 1) /\ UNCHANGED against
     \/ /\ order[r].compare /\ base # NoBase
        /\ GotoRun(r, "save")
        /\ against' = [against EXCEPT ![r] = base]
        /\ rcode' = [rcode EXCEPT ![r] =
                       IF Regresses(Summary(plan[r], res[r]), base.sum, order[r].who)
                         THEN 1 ELSE rcode[r]]
  /\ UNCHANGED << order, plan, res, base >>

(***************************************************************************)
(* --report: the report of an earlier run is compared, nothing is run.     *)
(* The report or the baseline may be missing or of no use.                 *)
(***************************************************************************)
CompareReport(r) ==
  /\ AtRun(r, "start") /\ order[r].report
  /\ \/ ExitRun(r, 1) /\ UNCHANGED against
     \/ /\ base # NoBase
        /\ \E k \in Runs :
             /\ res[k] # Nothing
             /\ ExitRun(r, IF Regresses(Summary(plan[k], res[k]), base.sum, order[r].who)
                             THEN 1 ELSE 0)
        /\ against' = [against EXCEPT ![r] = base]
  /\ UNCHANGED << order, plan, res, base >>

-----------------------------------------------------------------------------
(***************************************************************************)
(* --baseline.  A run with a filter, a failed run and a run with an        *)
(* unknown axis are refused; only the last of them makes it fail.          *)
(***************************************************************************)
Filtered(o) == o.who # Agents \/ o.which # Names

EmptyAxis(s) == \E a \in DOMAIN s, x \in Axes : s[a][x] = {}

Refuse(r) ==
  /\ AtRun(r, "save")
  /\ \/ ~order[r].save \/ Filtered(order[r]) \/ rcode[r] # 0
     \/ EmptyAxis(Summary(plan[r], res[r]))
  /\ ExitRun(r, IF /\ order[r].save /\ ~Filtered(order[r])
                   /\ EmptyAxis(Summary(plan[r], res[r]))
                  THEN 1 ELSE rcode[r])
  /\ UNCHANGED << order, plan, res, base, against >>

BackUpPartial(r) ==  \* variant: a run with a filter may become the baseline
  /\ AtRun(r, "save") /\ order[r].save
  /\ rcode[r] = 0 /\ ~EmptyAxis(Summary(plan[r], res[r]))
  /\ base' = NoBase
  /\ GotoRun(r, "write")
  /\ UNCHANGED << order, plan, res, rcode, against >>

BackUp(r) ==
  /\ AtRun(r, "save") /\ order[r].save /\ ~Filtered(order[r])
  /\ rcode[r] = 0 /\ ~EmptyAxis(Summary(plan[r], res[r]))
  /\ base' = NoBase
  /\ GotoRun(r, "write")
  /\ UNCHANGED << order, plan, res, rcode, against >>

Write(r) ==
  /\ AtRun(r, "write") /\ GotoRun(r, "done")
  /\ base' = [sum |-> Summary(plan[r], res[r]), by |-> r]
  /\ UNCHANGED << order, plan, res, rcode, against >>

Run(r) ==
  /\ \/ Start(r) \/ Discovered(r) \/ LoadFailed(r) \/ Unavailable(r) \/ Execute(r)
     \/ Compare(r) \/ CompareReport(r)
     \/ Refuse(r) \/ BackUp(r) \/ Write(r)
  /\ UNCHANGED << tree, dirs, model >>

-----------------------------------------------------------------------------
(***************************************************************************)
(* Properties.                                                             *)
(***************************************************************************)
RunTypeOK ==
  /\ rpc \in [Runs -> {"idle", "start", "discover", "execute", "compare", "save", "write", "done"}]
  /\ order \in [Runs -> Orders \cup {NotCalled}]
  /\ rcode \in [Runs -> {0, 1, 2}]
  /\ \A r \in Runs :
       /\ plan[r] = Nothing \/ DOMAIN plan[r] \subseteq Place
       /\ res[r] = Nothing \/ DOMAIN res[r] = DOMAIN plan[r]
  /\ base = NoBase \/ base.by \in Runs
  /\ \A r \in Runs : against[r] = NoBase \/ against[r].by \in Runs

(***************************************************************************)
(* A run that exits with 0 has run at least one scenario, and each that it *)
(* found there has passed its assertions, of which it has some.            *)
(***************************************************************************)
GreenIsGraded ==
  \A r \in Runs :
    rpc[r] = "done" /\ rcode[r] = 0 /\ ~order[r].report =>
      /\ res[r] # Nothing
      /\ \A pl \in DOMAIN res[r] : res[r][pl].pass /\ plan[r][pl].graded

(***************************************************************************)
(* A baseline comes from a run of the whole tree, all of it green, with    *)
(* every axis known for every agent.                                       *)
(***************************************************************************)
BaselineIsWhole ==
  base # NoBase =>
    /\ ~Filtered(order[base.by])
    /\ \A a \in DOMAIN base.sum :
         /\ base.sum[a].pass = base.sum[a].total
         /\ \A x \in Axes : base.sum[a][x] # {}

(***************************************************************************)
(* A baseline that was compared with an older one before it was saved has  *)
(* all its agents, as many scenarios and successes of each, and the same   *)
(* models.                                                                 *)
(***************************************************************************)
BaselineNeverWeakens ==
  base # NoBase /\ order[base.by].compare =>
    LET old == against[base.by].sum IN
      \A a \in DOMAIN old :
        /\ a \in DOMAIN base.sum
        /\ base.sum[a].total >= old[a].total /\ base.sum[a].pass >= old[a].pass
        /\ \A x \in Axes : base.sum[a][x] = old[a][x]

=============================================================================
