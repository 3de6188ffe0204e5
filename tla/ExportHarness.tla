--------------------------- MODULE ExportHarness ----------------------------
(***************************************************************************)
(* export_harness.py: the rules, and the conventions if the project has    *)
(* them, are kept as two marked blocks in files like AGENTS.md, which      *)
(* belong to the user.  Runs of the tool, in mode "write" or "check", the  *)
(* user and updates of the sources take turns in any order.                *)
(***************************************************************************)
EXTENDS Integers, Sequences, FiniteSets

CONSTANTS
  Tools,       \* runs of the tool
  Count,       \* number of entrypoints
  Own,         \* lines of the user
  Inserts,     \* lines that the user may put in by hand, markers included
  Starts,      \* texts of the entrypoints to start from
  MaxVersion,  \* bound: versions of each source
  MaxEdits,    \* bound: edits by the user
  MaxUpdates   \* bound: updates of the sources

ASSUME ExportAssumption ==
  /\ Count \in Nat \ {0} /\ MaxVersion \in Nat \ {0}
  /\ MaxEdits \in Nat /\ MaxUpdates \in Nat

(***************************************************************************)
(* A text is a sequence of lines.  A block of a name space, "rules" or     *)
(* "conv", is one begin marker, which states a version, one body and one   *)
(* end marker.  A bad marker is a line that is nearly a marker.            *)
(***************************************************************************)
Spaces == {"rules", "conv"}
Versions == 1..MaxVersion

Line(kind, ns, v) == [kind |-> kind, ns |-> ns, v |-> v]
Begin(ns, v) == Line("begin", ns, v)
Body(ns, v) == Line("body", ns, v)
End(ns) == Line("end", ns, 0)
Bad(ns) == Line("bad", ns, 0)
OwnLine(u) == Line("own", u, 0)
Preamble == Line("preamble", "rules", 0)

Block(ns, v) == << Begin(ns, v), Body(ns, v), End(ns) >>

Lines ==
  {Line(kind, ns, v) : kind \in {"begin", "body"}, ns \in Spaces, v \in Versions} \cup
  {Line(kind, ns, 0) : kind \in {"end", "bad"}, ns \in Spaces} \cup
  {OwnLine(u) : u \in Own} \cup {Preamble}

Entries == 1..Count

ASSUME TextAssumption ==
  /\ Own \cap Spaces = {}
  /\ Starts \subseteq [Entries -> Seq(Lines)] /\ Inserts \subseteq Lines

NoConv == 0                \* the project has none of the files
Partial == MaxVersion + 1  \* it has some of them: they are passed over
Convs == Versions \cup {NoConv, Partial}

VARIABLES
  file,    \* the text of each entrypoint; absent is the same as empty
  rules,   \* the version of the rules
  conv,    \* that of the conventions, or NoConv, or Partial
  edits, updates,
  mode,    \* what a run is to do
  pc,      \* where it is
  src,     \* the sources it has read
  at,      \* the entrypoint it is at
  snap,    \* the text it has read there
  code,    \* its exit code so far
  seen     \* history: what it has read, left and said at each entrypoint

world == << file, rules, conv, edits, updates >>
vars == << file, rules, conv, edits, updates, mode, pc, src, at, snap, code, seen >>

Init ==
  /\ file \in Starts
  /\ rules = 1 /\ conv \in {1, NoConv} /\ edits = 0 /\ updates = 0
  /\ mode \in [Tools -> {"write", "check"}]
  /\ pc = [p \in Tools |-> "rules"]
  /\ src = [p \in Tools |-> [rules |-> 1, conv |-> NoConv]]
  /\ at = [p \in Tools |-> 1]
  /\ snap = [p \in Tools |-> << >>]
  /\ code = [p \in Tools |-> 0]
  /\ seen = [p \in Tools |-> << >>]

-----------------------------------------------------------------------------
(***************************************************************************)
(* _existing_marker, for either name space.                                *)
(***************************************************************************)
Marks(t, ns, kind) == {i \in DOMAIN t : t[i].ns = ns /\ t[i].kind = kind}
Begins(t, ns) == Marks(t, ns, "begin")
Ends(t, ns) == Marks(t, ns, "end")

Unmarked(t, ns) == Begins(t, ns) \cup Ends(t, ns) \cup Marks(t, ns, "bad") = {}

IsBlock(t, ns, b, e) ==
  Begins(t, ns) = {b} /\ Ends(t, ns) = {e} /\ b < e /\ Marks(t, ns, "bad") = {}

Marked(t, ns) == \E b, e \in DOMAIN t : IsBlock(t, ns, b, e)

Damaged(t, ns) == ~Unmarked(t, ns) /\ ~Marked(t, ns)

First(t, ns) == CHOOSE b \in DOMAIN t : b \in Begins(t, ns)
Last(t, ns) == CHOOSE e \in DOMAIN t : e \in Ends(t, ns)

(***************************************************************************)
(* The text with new in place of the block.                                *)
(***************************************************************************)
AroundTooMuch(t, ns, new) ==  \* variant: a line of the user goes with it
  SubSeq(t, 1, First(t, ns) - 1) \o new \o SubSeq(t, Last(t, ns) + 2, Len(t))

Around(t, ns, new) ==
  SubSeq(t, 1, First(t, ns) - 1) \o new \o SubSeq(t, Last(t, ns) + 1, Len(t))

(***************************************************************************)
(* _compose, _compose_conv and _strip_conv: a block is replaced where it   *)
(* is, or put at the end.                                                  *)
(***************************************************************************)
Put(t, ns, v) == IF Marked(t, ns) THEN Around(t, ns, Block(ns, v)) ELSE t \o Block(ns, v)

Strip(t) == IF Marked(t, "conv") THEN Around(t, "conv", << >>) ELSE t

WithRules(t, s) == Put(IF t = << >> THEN << Preamble >> ELSE t, "rules", s.rules)

ComposedAnyway(t, s) ==  \* variant: partial sources make a block of their own
  IF s.conv = NoConv THEN Strip(WithRules(t, s)) ELSE Put(WithRules(t, s), "conv", s.conv)

Composed(t, s) ==
  CASE s.conv \in Versions -> Put(WithRules(t, s), "conv", s.conv)
    [] s.conv = NoConv     -> Strip(WithRules(t, s))
    [] s.conv = Partial    -> WithRules(t, s)

Refused(t, s) ==
  \/ Damaged(t, "rules")
  \/ s.conv # Partial /\ Damaged(WithRules(t, s), "conv")

(***************************************************************************)
(* cmd_check: the whole block is compared, not its marker alone.           *)
(***************************************************************************)
MarkerSays(t, ns, v) ==  \* variant of HasBlock: the marker is believed
  Marked(t, ns) /\ t[First(t, ns)].v = v

HasBlock(t, ns, v) ==
  Marked(t, ns) /\ SubSeq(t, First(t, ns), Last(t, ns)) = Block(ns, v)

Agrees(t, s) ==
  /\ HasBlock(t, "rules", s.rules)
  /\ s.conv \in Versions => HasBlock(t, "conv", s.conv)
  /\ s.conv = NoConv => Unmarked(t, "conv")

-----------------------------------------------------------------------------
(***************************************************************************)
(* A run of the tool.                                                      *)
(***************************************************************************)
At(p, from) == pc[p] = from
Goto(p, next) == pc' = [pc EXCEPT ![p] = next]

ReadRules(p) ==
  /\ At(p, "rules") /\ Goto(p, "conv")
  /\ src' = [src EXCEPT ![p] = [rules |-> rules, conv |-> @.conv]]
  /\ UNCHANGED << world, mode, at, snap, code, seen >>

ReadConv(p) ==
  /\ At(p, "conv") /\ Goto(p, "entry")
  /\ src' = [src EXCEPT ![p] = [rules |-> @.rules, conv |-> conv]]
  /\ UNCHANGED << world, mode, at, snap, code, seen >>

(***************************************************************************)
(* Without rules a run ends: 1, or 2 if no plugin was found.  It ends with *)
(* 1 too if there are no entrypoints to go to or no directory to write in. *)
(***************************************************************************)
NoSources(p) ==
  /\ pc[p] \in {"rules", "conv"} /\ Goto(p, "gone")
  /\ \E n \in IF At(p, "rules") THEN {1, 2} ELSE {1} : code' = [code EXCEPT ![p] = n]
  /\ UNCHANGED << world, mode, src, at, snap, seen >>

Read(p) ==
  /\ At(p, "entry") /\ at[p] \in Entries /\ Goto(p, "act")
  /\ snap' = [snap EXCEPT ![p] = file[at[p]]]
  /\ UNCHANGED << world, mode, src, at, code, seen >>

(***************************************************************************)
(* One entrypoint is done, with text t there and exit code n so far.       *)
(***************************************************************************)
Advance(p, t, n) ==
  /\ Goto(p, "entry")
  /\ seen' = [seen EXCEPT ![p] = Append(@, [read |-> snap[p], left |-> t, rc |-> n])]
  /\ code' = [code EXCEPT ![p] = IF n = 0 THEN @ ELSE n]
  /\ at' = [at EXCEPT ![p] = @ + 1]
  /\ snap' = [snap EXCEPT ![p] = << >>]
  /\ UNCHANGED << rules, conv, edits, updates, mode, src >>

CheckEntry(p) ==
  /\ At(p, "act") /\ mode[p] = "check"
  /\ Advance(p, snap[p], IF Agrees(snap[p], src[p]) THEN 0 ELSE 1)
  /\ UNCHANGED file

RefuseEntry(p) ==
  /\ At(p, "act") /\ mode[p] = "write" /\ Refused(snap[p], src[p])
  /\ Advance(p, snap[p], 1)
  /\ UNCHANGED file

KeepEntry(p) ==
  /\ At(p, "act") /\ mode[p] = "write" /\ ~Refused(snap[p], src[p])
  /\ Composed(snap[p], src[p]) = snap[p]
  /\ Advance(p, snap[p], 0)
  /\ UNCHANGED file

WriteEntry(p) ==
  /\ At(p, "act") /\ mode[p] = "write" /\ ~Refused(snap[p], src[p])
  /\ Composed(snap[p], src[p]) # snap[p]
  /\ file' = [file EXCEPT ![at[p]] = Composed(snap[p], src[p])]
  /\ Advance(p, Composed(snap[p], src[p]), 0)

(***************************************************************************)
(* The path is outside of the project, the file cannot be read or written. *)
(***************************************************************************)
FailEntry(p) ==
  /\ at[p] \in Entries
  /\ At(p, "entry") \/ (At(p, "act") /\ mode[p] = "write")
  /\ Advance(p, snap[p], 1)
  /\ UNCHANGED file

Finish(p) ==
  /\ At(p, "entry") /\ at[p] \notin Entries /\ Goto(p, "done")
  /\ code' = [code EXCEPT ![p] =
                IF @ = 0 /\ src[p].conv = Partial THEN 3 ELSE @]
  /\ UNCHANGED << world, mode, src, at, snap, seen >>

Kill(p) ==
  /\ pc[p] \notin {"done", "gone"} /\ Goto(p, "gone")
  /\ UNCHANGED << world, mode, src, at, snap, code, seen >>

Run(p) ==
  \/ ReadRules(p) \/ ReadConv(p) \/ NoSources(p)
  \/ Read(p) \/ CheckEntry(p) \/ RefuseEntry(p) \/ KeepEntry(p) \/ WriteEntry(p)
  \/ FailEntry(p) \/ Finish(p) \/ Kill(p)

(***************************************************************************)
(* The user puts in or takes out a line; the sources change.               *)
(***************************************************************************)
Edit ==
  /\ edits < MaxEdits /\ edits' = edits + 1
  /\ \E e \in Entries : \E i \in 0..Len(file[e]) :
        \/ \E l \in Inserts :
             file' = [file EXCEPT ![e] = SubSeq(@, 1, i) \o << l >> \o SubSeq(@, i + 1, Len(@))]
        \/ /\ i > 0
           /\ file' = [file EXCEPT ![e] = SubSeq(@, 1, i - 1) \o SubSeq(@, i + 1, Len(@))]
  /\ UNCHANGED << rules, conv, updates, mode, pc, src, at, snap, code, seen >>

Update ==
  /\ updates < MaxUpdates /\ updates' = updates + 1
  /\ \/ rules < MaxVersion /\ rules' = rules + 1 /\ UNCHANGED conv
     \/ conv' \in Convs \ {conv} /\ UNCHANGED rules
  /\ UNCHANGED << file, edits, mode, pc, src, at, snap, code, seen >>

Next == (\E p \in Tools : Run(p)) \/ Edit \/ Update

Spec == Init /\ [][Next]_vars

-----------------------------------------------------------------------------
(***************************************************************************)
(* Properties.                                                             *)
(***************************************************************************)

(***************************************************************************)
(* Every variable has its type.                                            *)
(***************************************************************************)
TypeOK ==
  /\ file \in [Entries -> Seq(Lines)]
  /\ rules \in Versions /\ conv \in Convs /\ edits \in 0..MaxEdits /\ updates \in 0..MaxUpdates
  /\ mode \in [Tools -> {"write", "check"}]
  /\ pc \in [Tools -> {"rules", "conv", "entry", "act", "done", "gone"}]
  /\ src \in [Tools -> [rules : Versions, conv : Convs]]
  /\ at \in [Tools -> 1..Count + 1]
  /\ snap \in [Tools -> Seq(Lines)]
  /\ code \in [Tools -> 0..3]
  /\ seen \in [Tools -> Seq([read : Seq(Lines), left : Seq(Lines), rc : 0..1])]

(***************************************************************************)
(* The user's lines in a text, and those that no markers of some name      *)
(* spaces enclose.                                                         *)
(***************************************************************************)
OwnAt(t) == {i \in DOMAIN t : t[i].kind = "own"}

Enclosed(t, ns, i) == \E b \in Begins(t, ns), e \in Ends(t, ns) : b < i /\ i < e

Outside(t, spaces) == {i \in OwnAt(t) : \A ns \in spaces : ~Enclosed(t, ns, i)}

(***************************************************************************)
(* The user's lines of the new text are all from the old one, in their     *)
(* order; those that were outside of the markers are all there.            *)
(***************************************************************************)
KeepsOwn(t, new, spaces) ==
  \E from \in [OwnAt(new) -> OwnAt(t)] :
    /\ \A i, j \in OwnAt(new) : i < j => from[i] < from[j]
    /\ \A i \in OwnAt(new) : new[i] = t[from[i]]
    /\ \A i \in Outside(t, spaces) : \E j \in OwnAt(new) : from[j] = i

SpacesOf(s) == IF s.conv = Partial THEN {"rules"} ELSE Spaces

(***************************************************************************)
(* A write keeps the user's lines outside of the markers of the text it    *)
(* has read, in their order, and makes none up.  Without all sources it    *)
(* treats the block of the conventions as the user's.                      *)
(***************************************************************************)
OwnLinesKept ==
  [][\A p \in Tools : WriteEntry(p) =>
       KeepsOwn(snap[p], file'[at[p]], SpacesOf(src[p]))]_vars

(***************************************************************************)
(* The text is up to date: it holds the block of each source in one piece  *)
(* and no other markers.                                                   *)
(***************************************************************************)
Holds(t, ns, v) ==
  \E i \in 1..Len(t) - 2 :
    /\ SubSeq(t, i, i + 2) = Block(ns, v)
    /\ \A j \in DOMAIN t \ {i, i + 2} : t[j].ns = ns => t[j].kind \notin {"begin", "end", "bad"}

Current(t, s) ==
  /\ Holds(t, "rules", s.rules)
  /\ s.conv \in Versions => Holds(t, "conv", s.conv)
  /\ s.conv = NoConv => \A j \in DOMAIN t : t[j].ns = "conv" => t[j].kind = "body"

(***************************************************************************)
(* The markers of one name space are all before those of the other.        *)
(***************************************************************************)
Before(t, ns, other) ==
  \A i \in Marks(t, ns, "begin") \cup Marks(t, ns, "end") :
    \A j \in Marks(t, other, "begin") \cup Marks(t, other, "end") : i < j

Apart(t) == Before(t, "rules", "conv") \/ Before(t, "conv", "rules")

(***************************************************************************)
(* A run that exits with 0 has left, or found, every entrypoint current,   *)
(* blocks and bodies; with 3, as far as the rules go.  The code takes it   *)
(* that the blocks of a file are apart.                                    *)
(***************************************************************************)
ExitMeansCurrent ==
  \A p \in Tools : pc[p] = "done" /\ code[p] \in {0, 3} =>
    \A e \in DOMAIN seen[p] : Apart(seen[p][e].read) =>
      /\ Current(seen[p][e].left, src[p])
      /\ code[p] = 3 <=> src[p].conv = Partial

(***************************************************************************)
(* A failure at one entrypoint leaves none of the others out: a run that   *)
(* ends by itself has been at every entrypoint, and those at which it has  *)
(* not failed are current.                                                 *)
(***************************************************************************)
FailureIsLocal ==
  \A p \in Tools : pc[p] = "done" =>
    /\ Len(seen[p]) = Count
    /\ \A e \in Entries : seen[p][e].rc = 0 /\ Apart(seen[p][e].read) =>
         Current(seen[p][e].left, src[p])

(***************************************************************************)
(* What a run says is so, of the whole and of each entrypoint.             *)
(***************************************************************************)
VerdictIsTrue == ExitMeansCurrent /\ FailureIsLocal

(***************************************************************************)
(* The same as OwnLinesKept of the text that is replaced.  It does not     *)
(* hold: the user may have edited it since it was read.                    *)
(***************************************************************************)
OwnLinesSurvive ==
  [][\A p \in Tools : WriteEntry(p) =>
       KeepsOwn(file[at[p]], file'[at[p]], SpacesOf(src[p]))]_vars

=============================================================================
