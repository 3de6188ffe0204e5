---------------------------- MODULE MCWorkspace -----------------------------
(***************************************************************************)
(* Instances of Workspace for TLC: texts of at most four tokens, rules     *)
(* that converge, cycle, grow, nest and collide.                           *)
(***************************************************************************)
EXTENDS Workspace, TLC

Doc(id, pattern, fix) == [id |-> id, pattern |-> pattern, fix |-> fix]

Turn == << Doc("turn", << "a" >>, << "b" >>) >>
Cycle == << Doc("there", << "a" >>, << "b" >>), Doc("back", << "b" >>, << "a" >>) >>
Grow == << Doc("grow", << "a" >>, << "a", "a" >>) >>
Nest == << Doc("outer", << "a", "b" >>, << "b", "c" >>), Doc("inner", << "b" >>, << "c", "c" >>) >>
Chain == << Doc("a", << "a" >>, << "b" >>), Doc("b", << "b" >>, << "c" >>), Doc("c", << "c" >>, << "blank" >>) >>
Clash == << Doc("one", << "a" >>, << "b" >>), Doc("two", << "a" >>, << "c" >>) >>
Overlap == << Doc("left", << "a", "b" >>, << "c" >>), Doc("right", << "b", "a" >>, << "c" >>) >>
Find == << Doc("find", << "c" >>, NoFix) >>
Twice == << Doc("turn", << "a" >>, << "b" >>), Doc("turn", << "b" >>, NoFix) >>
BuiltIn == << Doc("no-suppress-all", << "a" >>, << "b" >>) >>

MCDrafts == {<< "a" >>, << "b" >>}
MCKind == 1 :> "python" @@ 2 :> "script" @@ 3 :> "shell"

Quiet(text, documents) == Cast(1 :> text, documents, << >>, 0)

PreviewCasts ==
  {Cast(1 :> << "a" >> @@ 2 :> << "c" >>, Turn, << >>, 2),
   Quiet(<< "a", "b" >>, Cycle), Quiet(<< "b", "a" >>, Grow), Quiet(<< "a", "b" >>, Nest),
   Quiet(<< "a" >>, Chain), Quiet(<< "a" >>, Clash), Quiet(<< "a", "b", "a" >>, Overlap), Quiet(<< "a", "c" >>, Find),
   Quiet(<< "a" >>, Find), Quiet(<< "a" >>, Twice), Quiet(<< "a" >>, BuiltIn),
   Quiet(<< "a", "a", "a", "a", "a" >>, Turn)}

Ugly == << "blank", "fixable", "wrong" >>

HookCasts ==
  {Cast(1 :> Ugly @@ 2 :> Ugly, << >>, << 2, 1 >>, 1),
   Cast(3 :> Ugly, << >>, << 3 >>, 0)}

BothCasts == {Cast(1 :> << "a", "blank", "wrong" >>, Turn, << 1 >>, 0)}

MCCasts == PreviewCasts \cup HookCasts \cup BothCasts

=============================================================================
