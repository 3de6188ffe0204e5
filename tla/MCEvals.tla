------------------------------ MODULE MCEvals -------------------------------
(***************************************************************************)
(* Instances of Evals for TLC: agent b has a scenario, agent a none; two   *)
(* forges make scenarios for a.                                            *)
(***************************************************************************)
EXTENDS Evals, TLC

CONSTANTS a, b, i, j, f, g, h, r, q, m, n

Targets == f :> << a, i >> @@ g :> << a, j >> @@ h :> << a, i >>

OneScenario ==
  {[pl \in Place |-> IF pl = << b, i >> THEN Scenario(User, "sound", {}) ELSE Absent]}

AllTheSame == {[x \in Agents |-> m]}

(***************************************************************************)
(* A first baseline; a comparison that may become the next one; a partial  *)
(* run; a report.                                                          *)
(***************************************************************************)
First == Order(Agents, Names, FALSE, TRUE, FALSE)
Compared == Order(Agents, Names, TRUE, TRUE, FALSE)
Partial == Order({b}, Names, TRUE, TRUE, FALSE)
Report == Order(Agents, Names, TRUE, FALSE, TRUE)

Cast(bf, bg, bh, or, oq) ==
  [bundle |-> f :> bf @@ g :> bg @@ h :> bh, order |-> r :> or @@ q :> oq]

SomeCasts ==
  {Cast("sound", bg, NotCalled, NotCalled, NotCalled) : bg \in {"sound", "broken"}} \cup
  {Cast(bf, NotCalled, "sound", NotCalled, NotCalled) : bf \in {"sound", "broken"}} \cup
  {Cast(bf, NotCalled, NotCalled, First, NotCalled) : bf \in {"sound", "broken"}} \cup
  {Cast(NotCalled, NotCalled, NotCalled, First, oq) : oq \in {Compared, Partial, Report}}

=============================================================================
