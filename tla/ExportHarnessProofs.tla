------------------------ MODULE ExportHarnessProofs ------------------------
(***************************************************************************)
(* Theorems about ExportHarness, for any number of runs and entrypoints,   *)
(* any texts to start from and any edits of the user between the steps.    *)
(*                                                                         *)
(* 1. Every variable has its type (TypeOK).                                *)
(* 2. What a run says of the entrypoints is so (VerdictIsTrue).            *)
(* 3. A write keeps the user's lines (OwnLinesKept).                       *)
(*                                                                         *)
(* A text that the tool composes is the one it has read with a block, or   *)
(* nothing, in place of a gap that holds all marks of a name space.  One   *)
(* such splice leaves its own block held (OwnSpaceHeld), leaves that of    *)
(* the other name space held if it is apart (OtherSpaceHeld), and carries  *)
(* the user's lines (SpliceCarries).  What a run has said so far is Told.  *)
(***************************************************************************)
EXTENDS ExportHarness, SequenceTheorems, TLAPS

Texts == Seq(Lines)

(***************************************************************************)
(* Lines and blocks.                                                       *)
(***************************************************************************)
LEMMA LineIs ==
  ASSUME NEW l \in Lines
  PROVE  /\ l = Line(l.kind, l.ns, l.v)
         /\ l.ns = "conv" => l.kind \in {"begin", "body", "end", "bad"}
<1>1. CASE l \in {Line(kind, ns, v) : kind \in {"begin", "body"}, ns \in Spaces, v \in Versions}
  BY <1>1 DEF Line
<1>2. CASE l \in {Line(kind, ns, 0) : kind \in {"end", "bad"}, ns \in Spaces}
  BY <1>2 DEF Line
<1>3. CASE l \in {OwnLine(u) : u \in Own}
  BY <1>3, TextAssumption DEF OwnLine, Line, Spaces
<1>4. CASE l = Preamble
  BY <1>4 DEF Preamble, Line
<1> QED
  BY <1>1, <1>2, <1>3, <1>4 DEF Lines

LEMMA BlockIs ==
  ASSUME NEW ns \in Spaces, NEW v \in Versions
  PROVE  /\ Block(ns, v) \in Texts /\ Len(Block(ns, v)) = 3
         /\ Block(ns, v)[1] = Begin(ns, v) /\ Block(ns, v)[2] = Body(ns, v) /\ Block(ns, v)[3] = End(ns)
         /\ Begin(ns, v).ns = ns /\ Begin(ns, v).kind = "begin"
         /\ Body(ns, v).ns = ns /\ Body(ns, v).kind = "body"
         /\ End(ns).ns = ns /\ End(ns).kind = "end"
<1>1. Begin(ns, v) \in Lines /\ Body(ns, v) \in Lines
  BY DEF Begin, Body, Lines
<1>2. End(ns) \in Lines
  BY DEF End, Lines
<1>3. /\ Begin(ns, v).ns = ns /\ Begin(ns, v).kind = "begin"
      /\ Body(ns, v).ns = ns /\ Body(ns, v).kind = "body"
      /\ End(ns).ns = ns /\ End(ns).kind = "end"
  BY DEF Begin, Body, End, Line
<1> QED
  BY <1>1, <1>2, <1>3 DEF Block, Texts

(***************************************************************************)
(* r is t with new in place of the lines b..e; with b = e + 1 it is put    *)
(* between two lines.                                                      *)
(***************************************************************************)
IsSplice(t, b, e, new, r) ==
  /\ r \in Texts
  /\ Len(r) = b - 1 + Len(new) + Len(t) - e
  /\ \A i \in 1..Len(r) :
        r[i] = IF i < b THEN t[i]
               ELSE IF i < b + Len(new) THEN new[i - b + 1]
               ELSE t[i - Len(new) - b + 1 + e]

LEMMA ReplacingSplices ==
  ASSUME NEW t \in Texts, NEW b \in 1..Len(t), NEW e \in b..Len(t), NEW new \in Texts
  PROVE  IsSplice(t, b, e, new, SubSeq(t, 1, b - 1) \o new \o SubSeq(t, e + 1, Len(t)))
<1> DEFINE x == SubSeq(t, 1, b - 1)
           z == SubSeq(t, e + 1, Len(t))
           y == x \o new
           r == y \o z
<1>0. Len(t) \in Nat /\ Len(new) \in Nat /\ b \in Nat /\ e \in Nat /\ b <= e /\ e <= Len(t) /\ 1 <= b
  BY DEF Texts
<1>1. \A i \in 1..Len(t) : t[i] \in Lines
  BY DEF Texts
<1>2. x \in Texts /\ Len(x) = b - 1 /\ \A i \in 1..(b - 1) : x[i] = t[i]
  <2>1. \A i \in 1..(b - 1) : t[i] \in Lines
    BY <1>0, <1>1
  <2>2. 1 \in Int /\ b - 1 \in Int
    BY <1>0
  <2>3. /\ SubSeq(t, 1, b - 1) \in Seq(Lines)
        /\ Len(SubSeq(t, 1, b - 1)) = IF 1 <= b - 1 THEN b - 1 - 1 + 1 ELSE 0
        /\ \A i \in 1..(b - 1 - 1 + 1) : SubSeq(t, 1, b - 1)[i] = t[1 + i - 1]
    BY ONLY <2>1, <2>2, SubSeqProperties
  <2> QED
    BY <2>3, <1>0 DEF Texts
<1>3. z \in Texts /\ Len(z) = Len(t) - e /\ \A i \in 1..(Len(t) - e) : z[i] = t[e + i]
  <2>1. \A i \in (e + 1)..Len(t) : t[i] \in Lines
    BY <1>0, <1>1
  <2>2. e + 1 \in Int /\ Len(t) \in Int
    BY <1>0
  <2>3. /\ SubSeq(t, e + 1, Len(t)) \in Seq(Lines)
        /\ Len(SubSeq(t, e + 1, Len(t))) = IF e + 1 <= Len(t) THEN Len(t) - (e + 1) + 1 ELSE 0
        /\ \A i \in 1..(Len(t) - (e + 1) + 1) : SubSeq(t, e + 1, Len(t))[i] = t[e + 1 + i - 1]
    BY ONLY <2>1, <2>2, SubSeqProperties
  <2> QED
    BY <2>3, <1>0 DEF Texts
<1> HIDE DEF x, z
<1>4. /\ y \in Texts /\ Len(y) = b - 1 + Len(new)
      /\ \A i \in 1..(b - 1 + Len(new)) : y[i] = IF i <= b - 1 THEN x[i] ELSE new[i - (b - 1)]
  BY <1>2, ConcatProperties DEF Texts
<1> HIDE DEF y
<1>5. /\ r \in Texts /\ Len(r) = b - 1 + Len(new) + (Len(t) - e)
      /\ \A i \in 1..Len(r) : r[i] = IF i <= b - 1 + Len(new) THEN y[i] ELSE z[i - (b - 1 + Len(new))]
  <2>1. y \in Seq(Lines) /\ z \in Seq(Lines)
    BY <1>3, <1>4 DEF Texts
  <2>2. /\ y \o z \in Seq(Lines) /\ Len(y \o z) = Len(y) + Len(z)
        /\ \A i \in 1..(Len(y) + Len(z)) : (y \o z)[i] = IF i <= Len(y) THEN y[i] ELSE z[i - Len(y)]
    BY ONLY <2>1, ConcatProperties
  <2>3. Len(y) = b - 1 + Len(new) /\ Len(z) = Len(t) - e
    BY <1>3, <1>4
  <2>4. Len(y \o z) = b - 1 + Len(new) + (Len(t) - e)
    BY <2>2, <2>3
  <2>5. \A i \in 1..Len(y \o z) :
           (y \o z)[i] = IF i <= b - 1 + Len(new) THEN y[i] ELSE z[i - (b - 1 + Len(new))]
    BY ONLY <2>2, <2>3
  <2> QED
    BY <2>2, <2>4, <2>5 DEF Texts, r
<1> HIDE DEF r
<1>6. ASSUME NEW i \in 1..Len(r)
      PROVE  r[i] = IF i < b THEN t[i]
                    ELSE IF i < b + Len(new) THEN new[i - b + 1]
                    ELSE t[i - Len(new) - b + 1 + e]
  <2>1. CASE i < b
    <3>1. i \in 1..(b - 1) /\ i <= b - 1 + Len(new) /\ i \in 1..(b - 1 + Len(new))
      BY <1>0, <2>1
    <3> QED
      BY <3>1, <2>1, <1>2, <1>4, <1>5
  <2>2. CASE ~(i < b) /\ i < b + Len(new)
    <3>1. i <= b - 1 + Len(new) /\ i \in 1..(b - 1 + Len(new)) /\ ~(i <= b - 1) /\ i - (b - 1) = i - b + 1
      BY <1>0, <2>2
    <3> QED
      BY <3>1, <2>2, <1>4, <1>5
  <2>3. CASE ~(i < b) /\ ~(i < b + Len(new))
    <3>1. ~(i <= b - 1 + Len(new)) /\ i - (b - 1 + Len(new)) \in 1..(Len(t) - e)
      BY <1>0, <1>5, <2>3
    <3>2. e + (i - (b - 1 + Len(new))) = i - Len(new) - b + 1 + e
      BY <1>0
    <3>3. r[i] = t[e + (i - (b - 1 + Len(new)))]
      BY <3>1, <1>3, <1>5
    <3> QED
      BY <2>3, <3>2, <3>3
  <2> QED
    BY <2>1, <2>2, <2>3
<1>7. Len(r) = b - 1 + Len(new) + Len(t) - e
  BY <1>0, <1>5
<1>8. IsSplice(t, b, e, new, r)
  BY <1>5, <1>6, <1>7 DEF IsSplice
<1> QED
  BY <1>8 DEF r, x, y, z

LEMMA AppendingSplices ==
  ASSUME NEW t \in Texts, NEW new \in Texts
  PROVE  IsSplice(t, Len(t) + 1, Len(t), new, t \o new)
<1>0. Len(t) \in Nat /\ Len(new) \in Nat
  BY DEF Texts
<1>1. /\ t \o new \in Texts /\ Len(t \o new) = Len(t) + Len(new)
      /\ \A i \in 1..(Len(t) + Len(new)) :
            (t \o new)[i] = IF i <= Len(t) THEN t[i] ELSE new[i - Len(t)]
  BY ConcatProperties DEF Texts
<1>2. ASSUME NEW i \in 1..(Len(t) + Len(new))
      PROVE  /\ i <= Len(t) <=> i < Len(t) + 1
             /\ i < Len(t) + 1 + Len(new)
             /\ i - (Len(t) + 1) + 1 = i - Len(t)
  BY <1>0
<1>3. Len(t \o new) = Len(t) + 1 - 1 + Len(new) + Len(t) - Len(t)
  BY <1>0, <1>1
<1> QED
  BY <1>1, <1>2, <1>3 DEF IsSplice

(***************************************************************************)
(* Marks.  The block of a name space, or the place where it is put, is a   *)
(* gap: all marks of the name space are in it.                             *)
(***************************************************************************)
MarkKinds == {"begin", "end", "bad"}

IsMark(l, ns) == l.ns = ns /\ l.kind \in MarkKinds

Gap(t, ns, b, e) ==
  /\ b \in 1..Len(t) + 1 /\ e \in 0..Len(t) /\ b <= e + 1
  /\ \A i \in 1..Len(t) : IsMark(t[i], ns) => b <= i /\ i <= e
  /\ b <= e => b \in Begins(t, ns) /\ e \in Ends(t, ns)
  /\ b > e => b = Len(t) + 1 /\ e = Len(t)

LEMMA MarkIs ==
  ASSUME NEW t \in Texts, NEW ns, NEW i \in 1..Len(t)
  PROVE  /\ IsMark(t[i], ns) <=> i \in Begins(t, ns) \cup Ends(t, ns) \cup Marks(t, ns, "bad")
         /\ i \in Begins(t, ns) <=> t[i].ns = ns /\ t[i].kind = "begin"
         /\ i \in Ends(t, ns) <=> t[i].ns = ns /\ t[i].kind = "end"
<1>1. i \in DOMAIN t
  BY DEF Texts
<1> QED
  BY <1>1 DEF IsMark, MarkKinds, Begins, Ends, Marks

LEMMA MarkedIs ==
  ASSUME NEW t \in Texts, NEW ns, Marked(t, ns)
  PROVE  LET b == First(t, ns)
             e == Last(t, ns)
         IN  /\ b \in 1..Len(t) /\ e \in b..Len(t) /\ IsBlock(t, ns, b, e) /\ Gap(t, ns, b, e)
<1>1. PICK b \in DOMAIN t, e \in DOMAIN t : IsBlock(t, ns, b, e)
  BY DEF Marked
<1>2. DOMAIN t = 1..Len(t) /\ Len(t) \in Nat
  BY DEF Texts
<1>3. Begins(t, ns) = {b} /\ Ends(t, ns) = {e} /\ b < e /\ Marks(t, ns, "bad") = {}
  BY <1>1 DEF IsBlock
<1>4. First(t, ns) = b
  BY <1>3 DEF First
<1>5. Last(t, ns) = e
  BY <1>3 DEF Last
<1>6. b \in 1..Len(t) /\ e \in b..Len(t)
  BY <1>2, <1>3
<1>7. \A i \in 1..Len(t) : IsMark(t[i], ns) => i \in {b, e}
  BY <1>3, MarkIs
<1>8. Gap(t, ns, b, e)
  BY <1>2, <1>3, <1>6, <1>7 DEF Gap
<1> QED
  BY <1>1, <1>4, <1>5, <1>6, <1>8

LEMMA UnmarkedGap ==
  ASSUME NEW t \in Texts, NEW ns, Unmarked(t, ns)
  PROVE  Gap(t, ns, Len(t) + 1, Len(t))
<1>1. Len(t) \in Nat
  BY DEF Texts
<1>2. \A i \in 1..Len(t) : ~IsMark(t[i], ns)
  BY MarkIs DEF Unmarked
<1> QED
  BY <1>1, <1>2 DEF Gap

LEMMA PutIs ==
  ASSUME NEW t \in Texts, NEW ns \in Spaces, NEW v \in Versions, ~Damaged(t, ns)
  PROVE  \E b, e \in Int : Gap(t, ns, b, e) /\ IsSplice(t, b, e, Block(ns, v), Put(t, ns, v))
<1>1. CASE Marked(t, ns)
  <2>1. LET b == First(t, ns)
            e == Last(t, ns)
        IN  b \in 1..Len(t) /\ e \in b..Len(t) /\ Gap(t, ns, b, e)
    BY <1>1, MarkedIs
  <2>2. IsSplice(t, First(t, ns), Last(t, ns), Block(ns, v), Around(t, ns, Block(ns, v)))
    BY <2>1, BlockIs, ReplacingSplices DEF Around
  <2> QED
    BY <1>1, <2>1, <2>2 DEF Put
<1>2. CASE ~Marked(t, ns)
  <2>1. Gap(t, ns, Len(t) + 1, Len(t))
    BY <1>2, UnmarkedGap DEF Damaged
  <2>2. IsSplice(t, Len(t) + 1, Len(t), Block(ns, v), t \o Block(ns, v))
    BY BlockIs, AppendingSplices
  <2>3. Len(t) \in Nat
    BY DEF Texts
  <2> QED
    BY <1>2, <2>1, <2>2, <2>3 DEF Put
<1> QED
  BY <1>1, <1>2

LEMMA StripIs ==
  ASSUME NEW t \in Texts, ~Damaged(t, "conv")
  PROVE  \E b, e \in Int : Gap(t, "conv", b, e) /\ IsSplice(t, b, e, << >>, Strip(t))
<1>0. << >> \in Texts /\ Len(<< >>) = 0
  BY DEF Texts
<1>1. CASE Marked(t, "conv")
  <2>1. LET b == First(t, "conv")
            e == Last(t, "conv")
        IN  b \in 1..Len(t) /\ e \in b..Len(t) /\ Gap(t, "conv", b, e)
    BY <1>1, MarkedIs
  <2>2. IsSplice(t, First(t, "conv"), Last(t, "conv"), << >>, Around(t, "conv", << >>))
    BY <1>0, <2>1, ReplacingSplices DEF Around
  <2> QED
    BY <1>1, <2>1, <2>2 DEF Strip
<1>2. CASE ~Marked(t, "conv")
  <2>1. Gap(t, "conv", Len(t) + 1, Len(t))
    BY <1>2, UnmarkedGap DEF Damaged
  <2>2. Len(t) \in Nat
    BY DEF Texts
  <2>3. IsSplice(t, Len(t) + 1, Len(t), << >>, t)
    BY <1>0, <2>2 DEF IsSplice
  <2> QED
    BY <1>2, <2>1, <2>2, <2>3 DEF Strip
<1> QED
  BY <1>1, <1>2

(***************************************************************************)
(* The block of a name space is at line i, and all its marks are of it.    *)
(***************************************************************************)
HeldAt(t, ns, v, i) ==
  /\ i \in 1..Len(t) - 2
  /\ t[i] = Begin(ns, v) /\ t[i + 1] = Body(ns, v) /\ t[i + 2] = End(ns)
  /\ \A j \in 1..Len(t) : IsMark(t[j], ns) => j \in {i, i + 2}

LEMMA HeldHolds ==
  ASSUME NEW t \in Texts, NEW ns \in Spaces, NEW v \in Versions, NEW i, HeldAt(t, ns, v, i)
  PROVE  Holds(t, ns, v)
<1>1. Len(t) \in Nat /\ DOMAIN t = 1..Len(t) /\ i \in 1..Len(t) - 2
  BY DEF Texts, HeldAt
<1>2. SubSeq(t, i, i + 2) = Block(ns, v)
  <2>1. /\ i \in Int /\ i + 2 \in Int
        /\ \A j \in i..(i + 2) : t[j] \in Lines
    BY <1>1 DEF Texts
  <2>2. /\ SubSeq(t, i, i + 2) \in Seq(Lines)
        /\ Len(SubSeq(t, i, i + 2)) = IF i <= i + 2 THEN i + 2 - i + 1 ELSE 0
        /\ \A j \in 1..(i + 2 - i + 1) : SubSeq(t, i, i + 2)[j] = t[i + j - 1]
    BY ONLY <2>1, SubSeqProperties
  <2> DEFINE q == SubSeq(t, i, i + 2)
  <2>3. q \in Seq(Lines) /\ Len(q) = 3 /\ \A j \in 1..3 : q[j] = t[i + j - 1]
    BY <1>1, <2>2
  <2> HIDE DEF q
  <2>4. q[1] = t[i] /\ q[2] = t[i + 1] /\ q[3] = t[i + 2]
    BY <1>1, <2>3
  <2>5. q[1] = Block(ns, v)[1] /\ q[2] = Block(ns, v)[2] /\ q[3] = Block(ns, v)[3]
    BY <2>4, BlockIs DEF HeldAt
  <2>6. Block(ns, v) \in Seq(Lines) /\ Len(Block(ns, v)) = 3
    BY BlockIs DEF Texts
  <2>7. \A j \in 1..3 : q[j] = Block(ns, v)[j]
    BY <2>5
  <2>8. q = Block(ns, v)
    BY <2>3, <2>6, <2>7, SeqEqual
  <2> QED
    BY <2>8 DEF q
<1>3. \A j \in DOMAIN t \ {i, i + 2} : t[j].ns = ns => t[j].kind \notin {"begin", "end", "bad"}
  BY <1>1 DEF HeldAt, IsMark, MarkKinds
<1> QED
  BY <1>1, <1>2, <1>3 DEF Holds

(***************************************************************************)
(* A line of a splice comes from new, or from t.                           *)
(***************************************************************************)
Sized(t, b, e, new, r) ==
  /\ Len(t) \in Nat /\ Len(new) \in Nat /\ Len(r) \in Nat
  /\ 1 <= b /\ b <= Len(t) + 1 /\ 0 <= e /\ e <= Len(t) /\ b <= e + 1
  /\ Len(r) = b - 1 + Len(new) + Len(t) - e

Shift(b, e, new, i) == i - Len(new) - b + 1 + e

Comes(t, b, e, new, r, i) ==
  \/ i < b /\ i \in 1..Len(t) /\ r[i] = t[i]
  \/ i >= b /\ i < b + Len(new) /\ i - b + 1 \in 1..Len(new) /\ r[i] = new[i - b + 1]
  \/ /\ i >= b + Len(new) /\ Shift(b, e, new, i) \in 1..Len(t) /\ Shift(b, e, new, i) > e
     /\ r[i] = t[Shift(b, e, new, i)]

LEMMA SplicedFrom ==
  ASSUME NEW t \in Texts, NEW new \in Texts, NEW r, NEW b \in Int, NEW e \in Int, NEW ns,
         Gap(t, ns, b, e), IsSplice(t, b, e, new, r)
  PROVE  Sized(t, b, e, new, r) /\ \A i \in 1..Len(r) : Comes(t, b, e, new, r, i)
<1>1. Sized(t, b, e, new, r)
  BY DEF Gap, IsSplice, Texts, Sized
<1>2. ASSUME NEW i \in 1..Len(r)
      PROVE  Comes(t, b, e, new, r, i)
  <2>1. r[i] = IF i < b THEN t[i]
               ELSE IF i < b + Len(new) THEN new[i - b + 1]
               ELSE t[Shift(b, e, new, i)]
    BY DEF IsSplice, Shift
  <2>2. CASE i < b
    BY <1>1, <2>1, <2>2 DEF Sized, Comes
  <2>3. CASE i >= b /\ i < b + Len(new)
    BY <1>1, <2>1, <2>3 DEF Sized, Comes
  <2>4. CASE i >= b /\ i >= b + Len(new)
    BY <1>1, <2>1, <2>4 DEF Sized, Comes, Shift
  <2> QED
    BY <1>1, <2>2, <2>3, <2>4 DEF Sized
<1> QED
  BY <1>1, <1>2

(***************************************************************************)
(* A block that is put where the marks of its name space are is held.      *)
(***************************************************************************)
LEMMA OwnSpaceHeld ==
  ASSUME NEW t \in Texts, NEW ns \in Spaces, NEW v \in Versions, NEW r, NEW b \in Int, NEW e \in Int,
         Gap(t, ns, b, e), IsSplice(t, b, e, Block(ns, v), r)
  PROVE  HeldAt(r, ns, v, b)
<1> DEFINE new == Block(ns, v)
<1>0. new \in Texts /\ Len(new) = 3
  BY BlockIs
<1> HIDE DEF new
<1>1. IsSplice(t, b, e, new, r)
  BY DEF new
<1>2. Sized(t, b, e, new, r) /\ \A i \in 1..Len(r) : Comes(t, b, e, new, r, i)
  BY <1>0, <1>1, SplicedFrom
<1>3. b \in 1..Len(r) - 2 /\ b + 1 \in 1..Len(r) /\ b + 2 \in 1..Len(r) /\ b \in 1..Len(r)
  BY <1>0, <1>2 DEF Sized
<1>4. r[b] = new[1] /\ r[b + 1] = new[2] /\ r[b + 2] = new[3]
  <2>1. \A j \in 1..Len(r) :
          r[j] = IF j < b THEN t[j] ELSE IF j < b + Len(new) THEN new[j - b + 1]
                 ELSE t[j - Len(new) - b + 1 + e]
    BY <1>1 DEF IsSplice
  <2>2. /\ ~(b < b) /\ b < b + Len(new) /\ b - b + 1 = 1
        /\ ~(b + 1 < b) /\ b + 1 < b + Len(new) /\ b + 1 - b + 1 = 2
        /\ ~(b + 2 < b) /\ b + 2 < b + Len(new) /\ b + 2 - b + 1 = 3
    BY <1>0
  <2>3. r[b] = new[b - b + 1]
    BY <1>3, <2>1, <2>2
  <2>4. r[b + 1] = new[b + 1 - b + 1]
    BY <1>3, <2>1, <2>2
  <2>5. r[b + 2] = new[b + 2 - b + 1]
    BY <1>3, <2>1, <2>2
  <2> QED
    BY ONLY <2>2, <2>3, <2>4, <2>5
<1>5. r[b] = Begin(ns, v) /\ r[b + 1] = Body(ns, v) /\ r[b + 2] = End(ns)
  BY <1>4, BlockIs DEF new
<1>6. ASSUME NEW j \in 1..Len(r), IsMark(r[j], ns)
      PROVE  j \in {b, b + 2}
  <2>1. \A i \in 1..Len(t) : IsMark(t[i], ns) => b <= i /\ i <= e
    BY DEF Gap
  <2>2. ~IsMark(Body(ns, v), ns)
    BY BlockIs DEF IsMark, MarkKinds
  <2>3. CASE j < b /\ j \in 1..Len(t) /\ r[j] = t[j]
    <3>1. IsMark(t[j], ns)
      BY <1>6, <2>3
    <3>2. b <= j
      BY <2>1, <2>3, <3>1
    <3> QED
      BY <2>3, <3>2
  <2>4. CASE j >= b /\ j < b + Len(new)
    BY <1>0, <1>2, <1>5, <1>6, <2>2, <2>4 DEF Sized
  <2>5. CASE /\ Shift(b, e, new, j) \in 1..Len(t) /\ Shift(b, e, new, j) > e
             /\ r[j] = t[Shift(b, e, new, j)]
    <3>1. PICK k \in 1..Len(t) : k > e /\ r[j] = t[k]
      BY <2>5
    <3> QED
      BY <1>6, <2>1, <3>1, <1>2 DEF Sized
  <2> QED
    BY <1>2, <2>3, <2>4, <2>5 DEF Comes
<1> QED
  BY <1>3, <1>5, <1>6 DEF HeldAt

LEMMA ShiftBack ==
  ASSUME NEW n \in Int, NEW b \in Int, NEW e \in Int, NEW i \in Int
  PROVE  LET k == i + n + b - 1 - e
         IN  /\ k - n - b + 1 + e = i /\ k + 1 - n - b + 1 + e = i + 1 /\ k + 2 - n - b + 1 + e = i + 2
             /\ \A j \in Int : j - n - b + 1 + e = i => j = k
             /\ \A j \in Int : j - n - b + 1 + e = i + 2 => j = k + 2
  OBVIOUS

(***************************************************************************)
(* A block that is all before or all behind the gap stays held.            *)
(***************************************************************************)
LEMMA OtherSpaceHeld ==
  ASSUME NEW t \in Texts, NEW new \in Texts, NEW r, NEW b \in Int, NEW e \in Int, NEW ns,
         Gap(t, ns, b, e), IsSplice(t, b, e, new, r),
         NEW o, NEW w, NEW i \in Int, HeldAt(t, o, w, i), i + 2 < b \/ e < i,
         \A j \in 1..Len(new) : ~IsMark(new[j], o)
  PROVE  \E k \in Int : HeldAt(r, o, w, k)
<1>1. Sized(t, b, e, new, r) /\ \A j \in 1..Len(r) : Comes(t, b, e, new, r, j)
  BY SplicedFrom
<1>2. /\ i \in 1..Len(t) - 2
      /\ t[i] = Begin(o, w) /\ t[i + 1] = Body(o, w) /\ t[i + 2] = End(o)
      /\ \A j \in 1..Len(t) : IsMark(t[j], o) => j \in {i, i + 2}
  BY DEF HeldAt
<1>3. \A j \in 1..Len(r) :
        r[j] = IF j < b THEN t[j] ELSE IF j < b + Len(new) THEN new[j - b + 1]
               ELSE t[Shift(b, e, new, j)]
  BY DEF IsSplice, Shift
<1>4. ASSUME NEW j \in 1..Len(r), IsMark(r[j], o)
      PROVE  \/ j < b /\ j \in {i, i + 2}
             \/ j >= b + Len(new) /\ Shift(b, e, new, j) \in {i, i + 2} /\ Shift(b, e, new, j) > e
  <2>1. Comes(t, b, e, new, r, j)
    BY <1>1
  <2>2. CASE j < b /\ j \in 1..Len(t) /\ r[j] = t[j]
    <3>1. IsMark(t[j], o)
      BY <1>4, <2>2
    <3> QED
      BY <1>2, <2>2, <3>1
  <2>3. CASE j - b + 1 \in 1..Len(new) /\ r[j] = new[j - b + 1]
    BY <1>4, <2>3
  <2>4. CASE /\ j >= b + Len(new) /\ Shift(b, e, new, j) \in 1..Len(t) /\ Shift(b, e, new, j) > e
             /\ r[j] = t[Shift(b, e, new, j)]
    <3>1. IsMark(t[Shift(b, e, new, j)], o)
      BY <1>4, <2>4
    <3> QED
      BY <1>2, <2>4, <3>1
  <2> QED
    BY <2>1, <2>2, <2>3, <2>4 DEF Comes
<1>5. CASE i + 2 < b
  <2>1. /\ i \in 1..Len(r) - 2 /\ i + 1 \in 1..Len(r) /\ i + 2 \in 1..Len(r) /\ i \in 1..Len(r)
        /\ i < b /\ i + 1 < b
    BY <1>1, <1>2, <1>5 DEF Sized
  <2>2. r[i] = t[i] /\ r[i + 1] = t[i + 1] /\ r[i + 2] = t[i + 2]
    BY <1>3, <1>5, <2>1
  <2>3. ASSUME NEW j \in 1..Len(r), IsMark(r[j], o)
        PROVE  j \in {i, i + 2}
    <3>1. CASE Shift(b, e, new, j) \in {i, i + 2} /\ Shift(b, e, new, j) > e
      BY <1>1, <1>5, <3>1 DEF Sized
    <3> QED
      BY <1>4, <2>3, <3>1
  <2>4. HeldAt(r, o, w, i)
    BY <1>2, <2>1, <2>2, <2>3 DEF HeldAt
  <2> QED
    BY <2>4
<1>6. CASE e < i
  <2> DEFINE k == i + Len(new) + b - 1 - e
  <2>1. /\ k \in Int /\ k \in 1..Len(r) - 2 /\ k + 1 \in 1..Len(r) /\ k + 2 \in 1..Len(r) /\ k \in 1..Len(r)
        /\ k >= b + Len(new)
    BY <1>1, <1>2, <1>6 DEF Sized
  <2>2. /\ Shift(b, e, new, k) = i /\ Shift(b, e, new, k + 1) = i + 1 /\ Shift(b, e, new, k + 2) = i + 2
        /\ \A j \in 1..Len(r) : Shift(b, e, new, j) = i => j = k
        /\ \A j \in 1..Len(r) : Shift(b, e, new, j) = i + 2 => j = k + 2
    <3>1. Len(new) \in Int /\ b \in Int /\ e \in Int /\ i \in Int /\ \A j \in 1..Len(r) : j \in Int
      BY <1>1 DEF Sized
    <3>2. /\ k - Len(new) - b + 1 + e = i /\ k + 1 - Len(new) - b + 1 + e = i + 1
          /\ k + 2 - Len(new) - b + 1 + e = i + 2
      BY ONLY <3>1, ShiftBack
    <3>3. \A j \in 1..Len(r) : /\ j - Len(new) - b + 1 + e = i => j = k
                              /\ j - Len(new) - b + 1 + e = i + 2 => j = k + 2
      BY ONLY <3>1, ShiftBack
    <3> QED
      BY <3>2, <3>3 DEF Shift
  <2> HIDE DEF k
  <2>3. r[k] = t[i] /\ r[k + 1] = t[i + 1] /\ r[k + 2] = t[i + 2]
    <3>1. ASSUME NEW m \in 1..Len(r), m >= b + Len(new)
          PROVE  r[m] = t[Shift(b, e, new, m)]
      <4>1. ~(m < b) /\ ~(m < b + Len(new))
        BY <1>1, <3>1 DEF Sized
      <4> QED
        BY <1>3, <4>1
    <3>2. k + 1 >= b + Len(new) /\ k + 2 >= b + Len(new)
      BY <1>1, <2>1 DEF Sized
    <3> QED
      BY <2>1, <2>2, <3>1, <3>2
  <2>4. ASSUME NEW j \in 1..Len(r), IsMark(r[j], o)
        PROVE  j \in {k, k + 2}
    <3>1. CASE j < b /\ j \in {i, i + 2}
      BY <1>1, <1>6, <3>1 DEF Sized
    <3>2. CASE Shift(b, e, new, j) \in {i, i + 2}
      BY <2>2, <3>2
    <3> QED
      BY <1>4, <2>4, <3>1, <3>2
  <2>5. HeldAt(r, o, w, k)
    BY <1>2, <2>1, <2>3, <2>4 DEF HeldAt
  <2> QED
    BY <2>1, <2>5
<1> QED
  BY <1>5, <1>6

(***************************************************************************)
(* Without a block in its place no marks of the name space are left.       *)
(***************************************************************************)
LEMMA NoMarksLeft ==
  ASSUME NEW t \in Texts, NEW r, NEW b \in Int, NEW e \in Int, NEW ns,
         Gap(t, ns, b, e), IsSplice(t, b, e, << >>, r)
  PROVE  \A j \in 1..Len(r) : ~IsMark(r[j], ns)
<1>0. << >> \in Texts /\ Len(<< >>) = 0
  BY DEF Texts
<1>1. Sized(t, b, e, << >>, r) /\ \A j \in 1..Len(r) : Comes(t, b, e, << >>, r, j)
  BY <1>0, SplicedFrom
<1>2. \A j \in 1..Len(t) : IsMark(t[j], ns) => b <= j /\ j <= e
  BY DEF Gap
<1>3. SUFFICES ASSUME NEW j \in 1..Len(r), IsMark(r[j], ns)
               PROVE  FALSE
  OBVIOUS
<1>4. CASE j < b /\ j \in 1..Len(t) /\ r[j] = t[j]
  <2>1. IsMark(t[j], ns)
    BY <1>3, <1>4
  <2>2. b <= j
    BY <1>2, <1>4, <2>1
  <2> QED
    BY <1>4, <2>2
<1>5. CASE /\ Shift(b, e, << >>, j) \in 1..Len(t) /\ Shift(b, e, << >>, j) > e
           /\ r[j] = t[Shift(b, e, << >>, j)]
  <2>1. PICK k \in 1..Len(t) : k > e /\ r[j] = t[k]
    BY <1>5
  <2>2. IsMark(t[k], ns)
    BY <1>3, <2>1
  <2>3. k <= e
    BY <1>2, <2>2
  <2> QED
    BY <2>1, <2>3
<1> QED
  BY <1>0, <1>1, <1>4, <1>5 DEF Comes

(***************************************************************************)
(* cmd_check: a text that agrees is current.                               *)
(***************************************************************************)
LEMMA HasBlockHolds ==
  ASSUME NEW t \in Texts, NEW ns \in Spaces, NEW v \in Versions, HasBlock(t, ns, v)
  PROVE  Holds(t, ns, v)
<1> DEFINE b == First(t, ns)
           e == Last(t, ns)
           q == SubSeq(t, b, e)
<1>1. b \in 1..Len(t) /\ e \in b..Len(t) /\ IsBlock(t, ns, b, e) /\ Len(t) \in Nat
  BY MarkedIs DEF HasBlock, Texts
<1> HIDE DEF b, e
<1>2. b \in Int /\ e \in Int /\ \A j \in b..e : t[j] \in Lines
  BY <1>1 DEF Texts
<1>3. /\ q \in Seq(Lines) /\ Len(q) = IF b <= e THEN e - b + 1 ELSE 0
      /\ \A j \in 1..(e - b + 1) : q[j] = t[b + j - 1]
  BY ONLY <1>2, SubSeqProperties DEF q
<1>4. q = Block(ns, v)
  BY DEF HasBlock, b, e
<1> HIDE DEF q
<1>5. Len(q) = 3 /\ q[1] = Begin(ns, v) /\ q[2] = Body(ns, v) /\ q[3] = End(ns)
  BY <1>4, BlockIs
<1>6. e = b + 2 /\ b \in 1..Len(t) - 2
  <2>1. b <= e /\ b \in Int /\ e \in Int /\ 1 <= b /\ e <= Len(t) /\ Len(t) \in Int
    BY <1>1
  <2>2. e - b + 1 = 3
    BY <1>3, <1>5, <2>1
  <2> QED
    BY ONLY <2>1, <2>2
<1>7. t[b] = Begin(ns, v) /\ t[b + 1] = Body(ns, v) /\ t[b + 2] = End(ns)
  <2>1. 1 \in 1..(e - b + 1) /\ 2 \in 1..(e - b + 1) /\ 3 \in 1..(e - b + 1)
    BY <1>1, <1>6
  <2>2. b + 1 - 1 = b /\ b + 2 - 1 = b + 1 /\ b + 3 - 1 = b + 2
    BY <1>1
  <2> QED
    BY <1>3, <1>5, <2>1, <2>2
<1>8. \A j \in 1..Len(t) : IsMark(t[j], ns) => j \in {b, b + 2}
  BY <1>1, <1>6, MarkIs DEF IsBlock
<1>9. HeldAt(t, ns, v, b)
  BY <1>6, <1>7, <1>8 DEF HeldAt
<1> QED
  BY <1>9, HeldHolds

LEMMA ConvLinesAreBodies ==
  ASSUME NEW t \in Texts, \A j \in 1..Len(t) : ~IsMark(t[j], "conv")
  PROVE  \A j \in DOMAIN t : t[j].ns = "conv" => t[j].kind = "body"
<1>1. \A j \in DOMAIN t : j \in 1..Len(t) /\ t[j] \in Lines
  BY DEF Texts
<1> QED
  BY <1>1, LineIs DEF IsMark, MarkKinds

Sources == [rules : Versions, conv : Convs]

LEMMA AgreesIsCurrent ==
  ASSUME NEW t \in Texts, NEW s \in Sources, Agrees(t, s)
  PROVE  Current(t, s)
<1>1. Holds(t, "rules", s.rules)
  BY HasBlockHolds DEF Agrees, Sources, Spaces
<1>2. ASSUME s.conv \in Versions
      PROVE  Holds(t, "conv", s.conv)
  BY <1>2, HasBlockHolds DEF Agrees, Spaces
<1>3. ASSUME s.conv = NoConv
      PROVE  \A j \in DOMAIN t : t[j].ns = "conv" => t[j].kind = "body"
  <2>1. \A j \in 1..Len(t) : ~IsMark(t[j], "conv")
    BY <1>3, MarkIs DEF Agrees, Unmarked
  <2> QED
    BY <2>1, ConvLinesAreBodies
<1> QED
  BY <1>1, <1>2, <1>3 DEF Current

(***************************************************************************)
(* The rules are put first.  An empty text gets a preamble.                *)
(***************************************************************************)
Base(t) == IF t = << >> THEN << Preamble >> ELSE t

LEMMA BaseIs ==
  ASSUME NEW t \in Texts
  PROVE  /\ Base(t) \in Texts
         /\ t = << >> => Len(Base(t)) = 1 /\ Base(t)[1] = Preamble
         /\ t = << >> => \A ns : \A i \in 1..Len(Base(t)) : ~IsMark(Base(t)[i], ns)
         /\ ~Damaged(t, "rules") => ~Damaged(Base(t), "rules")
         /\ Apart(t) => Apart(Base(t))
<1>1. Preamble \in Lines
  BY DEF Lines
<1>2. << Preamble >> \in Texts /\ Len(<< Preamble >>) = 1 /\ << Preamble >>[1] = Preamble
  BY <1>1 DEF Texts
<1>3. \A ns : \A i \in 1..1 : ~IsMark(<< Preamble >>[i], ns)
  BY DEF IsMark, MarkKinds, Preamble, Line
<1>4. \A ns : /\ Begins(<< Preamble >>, ns) = {} /\ Ends(<< Preamble >>, ns) = {}
              /\ Marks(<< Preamble >>, ns, "bad") = {}
  BY DEF Begins, Ends, Marks, Preamble, Line
<1>5. ~Damaged(<< Preamble >>, "rules")
  BY <1>4 DEF Damaged, Unmarked
<1>6. Apart(<< Preamble >>)
  BY <1>4 DEF Apart, Before, Begins, Ends
<1> QED
  BY <1>2, <1>3, <1>5, <1>6 DEF Base

(***************************************************************************)
(* The markers of the conventions in the text with the rules are all       *)
(* before or all behind the block of the rules, if the blocks were apart.  *)
(***************************************************************************)
LEMMA ConvOnOneSide ==
  ASSUME NEW t \in Texts, NEW v \in Versions, NEW r, NEW b \in Int, NEW e \in Int,
         Gap(t, "rules", b, e), IsSplice(t, b, e, Block("rules", v), r), Apart(t)
  PROVE  LET C == Begins(r, "conv") \cup Ends(r, "conv")
         IN  (\A j \in C : j < b) \/ (\A j \in C : j > b + 2)
<1> DEFINE new == Block("rules", v)
           C == Begins(r, "conv") \cup Ends(r, "conv")
           D == Begins(t, "conv") \cup Ends(t, "conv")
<1>0. new \in Texts /\ Len(new) = 3 /\ \A i \in 1..3 : new[i].ns = "rules"
  BY BlockIs DEF Spaces
<1>1. IsSplice(t, b, e, new, r) /\ r \in Texts
  BY DEF IsSplice
<1> HIDE DEF new
<1>2. Sized(t, b, e, new, r) /\ \A j \in 1..Len(r) : Comes(t, b, e, new, r, j)
  BY <1>0, <1>1, SplicedFrom
<1>3. ASSUME NEW j \in C
      PROVE  \/ j < b /\ j \in D
             \/ j > b + 2 /\ \E k \in D : k > e
  <2>1. j \in 1..Len(r) /\ r[j].ns = "conv" /\ r[j].kind \in {"begin", "end"}
    BY <1>1 DEF Begins, Ends, Marks, Texts
  <2>2. Comes(t, b, e, new, r, j)
    BY <1>2, <2>1
  <2>3. CASE j < b /\ j \in 1..Len(t) /\ r[j] = t[j]
    BY <2>1, <2>3, MarkIs
  <2>4. CASE j - b + 1 \in 1..Len(new) /\ r[j] = new[j - b + 1]
    BY <1>0, <2>1, <2>4
  <2>5. CASE /\ j >= b + Len(new) /\ Shift(b, e, new, j) \in 1..Len(t) /\ Shift(b, e, new, j) > e
             /\ r[j] = t[Shift(b, e, new, j)]
    <3>1. Shift(b, e, new, j) \in D
      BY <2>1, <2>5, MarkIs
    <3>2. j > b + 2
      BY <1>0, <1>2, <2>1, <2>5 DEF Sized
    <3> QED
      BY <2>5, <3>1, <3>2
  <2> QED
    BY <2>2, <2>3, <2>4, <2>5 DEF Comes
<1>4. (\A k \in D : k <= e) \/ (\A k \in D : k >= b)
  <2>1. CASE b <= e
    <3>1. b \in Begins(t, "rules") /\ e \in Ends(t, "rules")
      BY <2>1 DEF Gap
    <3>2. \A k \in D : k \in Int
      BY DEF Begins, Ends, Marks, Texts
    <3>3. (\A k \in D : e < k) \/ (\A k \in D : k < b)
      BY <3>1 DEF Apart, Before, Begins, Ends
    <3>4. CASE \A k \in D : e < k
      BY <2>1, <3>2, <3>4
    <3>5. CASE \A k \in D : k < b
      BY <2>1, <3>2, <3>5
    <3> QED
      BY <3>3, <3>4, <3>5
  <2>2. CASE b > e
    <3>1. e = Len(t)
      BY <2>2 DEF Gap
    <3>2. \A k \in D : k \in 1..Len(t)
      BY DEF Begins, Ends, Marks, Texts
    <3> QED
      BY <1>2, <3>1, <3>2 DEF Sized
  <2> QED
    BY <2>1, <2>2
<1> HIDE DEF C, D
<1>5. CASE \A k \in D : k <= e
  <2>1. \A k \in D : ~(k > e)
    BY <1>5, <1>2 DEF Sized, D, Begins, Ends, Marks, Texts
  <2> QED
    BY <1>3, <2>1 DEF C
<1>6. CASE \A k \in D : k >= b
  <2>1. \A k \in D : ~(k < b)
    BY <1>6, <1>2 DEF Sized, D, Begins, Ends, Marks, Texts
  <2> QED
    BY <1>3, <2>1 DEF C
<1> QED
  BY <1>4, <1>5, <1>6

LEMMA RulesPut ==
  ASSUME NEW t \in Texts, NEW s \in Sources, ~Damaged(t, "rules")
  PROVE  /\ WithRules(t, s) \in Texts
         /\ \E b, e \in Int : /\ Gap(Base(t), "rules", b, e)
                              /\ IsSplice(Base(t), b, e, Block("rules", s.rules), WithRules(t, s))
                              /\ HeldAt(WithRules(t, s), "rules", s.rules, b)
<1>1. Base(t) \in Texts /\ ~Damaged(Base(t), "rules") /\ "rules" \in Spaces /\ s.rules \in Versions
  BY BaseIs DEF Sources, Spaces
<1>2. WithRules(t, s) = Put(Base(t), "rules", s.rules)
  BY DEF WithRules, Base
<1>3. PICK b \in Int, e \in Int :
        Gap(Base(t), "rules", b, e) /\ IsSplice(Base(t), b, e, Block("rules", s.rules), WithRules(t, s))
  BY <1>1, <1>2, PutIs
<1>4. HeldAt(WithRules(t, s), "rules", s.rules, b)
  BY <1>1, <1>3, OwnSpaceHeld
<1> QED
  BY <1>3, <1>4 DEF IsSplice

(***************************************************************************)
(* The block of the rules stays held when the conventions are put in or    *)
(* taken out behind it.                                                    *)
(***************************************************************************)
LEMMA RulesStayHeld ==
  ASSUME NEW t \in Texts, NEW s \in Sources, ~Damaged(t, "rules"), Apart(t),
         NEW new \in Texts, \A j \in 1..Len(new) : ~IsMark(new[j], "rules"),
         NEW b \in Int, NEW e \in Int, Gap(WithRules(t, s), "conv", b, e),
         NEW r, IsSplice(WithRules(t, s), b, e, new, r)
  PROVE  Holds(r, "rules", s.rules)
<1> DEFINE w == WithRules(t, s)
<1>1. w \in Texts
  BY RulesPut
<1>2. PICK i \in Int, k \in Int : /\ Gap(Base(t), "rules", i, k)
                                  /\ IsSplice(Base(t), i, k, Block("rules", s.rules), w)
                                  /\ HeldAt(w, "rules", s.rules, i)
  BY RulesPut
<1> HIDE DEF w
<1>3. (\A j \in Begins(w, "conv") \cup Ends(w, "conv") : j < i)
      \/ (\A j \in Begins(w, "conv") \cup Ends(w, "conv") : j > i + 2)
  BY <1>2, BaseIs, ConvOnOneSide DEF Sources
<1>4. Gap(w, "conv", b, e) /\ IsSplice(w, b, e, new, r)
  BY DEF w
<1>5. i + 2 < b \/ e < i
  <2>1. CASE b <= e
    <3>1. b \in Begins(w, "conv") /\ e \in Ends(w, "conv")
      BY <1>4, <2>1 DEF Gap
    <3> QED
      BY <1>3, <3>1
  <2>2. CASE b > e
    <3>1. b = Len(w) + 1 /\ i \in 1..Len(w) - 2 /\ Len(w) \in Nat
      BY <1>1, <1>2, <1>4, <2>2 DEF Gap, HeldAt, Texts
    <3> QED
      BY <3>1
  <2> QED
    BY <2>1, <2>2
<1>6. PICK k2 \in Int : HeldAt(r, "rules", s.rules, k2)
  BY <1>1, <1>2, <1>4, <1>5, OtherSpaceHeld
<1>7. r \in Texts /\ "rules" \in Spaces /\ s.rules \in Versions
  BY DEF IsSplice, Spaces, Sources
<1> QED
  BY <1>6, <1>7, HeldHolds

LEMMA ConvsAre ==
  ASSUME NEW s \in Sources
  PROVE  /\ s.conv \in Versions \/ s.conv = NoConv \/ s.conv = Partial
         /\ ~(s.conv \in Versions /\ s.conv = NoConv) /\ ~(s.conv \in Versions /\ s.conv = Partial)
         /\ NoConv # Partial
BY ExportAssumption DEF Sources, Convs, Versions, NoConv, Partial

LEMMA ComposedTyped ==
  ASSUME NEW t \in Texts, NEW s \in Sources, ~Refused(t, s)
  PROVE  Composed(t, s) \in Texts
<1>1. WithRules(t, s) \in Texts
  BY RulesPut DEF Refused
<1>2. CASE s.conv \in Versions
  <2>1. \E b, e \in Int : IsSplice(WithRules(t, s), b, e, Block("conv", s.conv), Put(WithRules(t, s), "conv", s.conv))
    BY <1>1, <1>2, ConvsAre, PutIs DEF Refused, Spaces
  <2> QED
    <3>1. Composed(t, s) = Put(WithRules(t, s), "conv", s.conv)
      BY <1>2, ConvsAre DEF Composed
    <3> QED
      BY <2>1, <3>1 DEF IsSplice
<1>3. CASE s.conv = NoConv
  <2>1. \E b, e \in Int : IsSplice(WithRules(t, s), b, e, << >>, Strip(WithRules(t, s)))
    BY <1>1, <1>3, ConvsAre, StripIs DEF Refused
  <2>2. Composed(t, s) = Strip(WithRules(t, s))
    BY <1>3, ConvsAre DEF Composed
  <2> QED
    BY <2>1, <2>2 DEF IsSplice
<1>4. CASE s.conv = Partial
  BY <1>1, <1>4, ConvsAre DEF Composed
<1> QED
  BY <1>2, <1>3, <1>4, ConvsAre

(***************************************************************************)
(* What a write leaves is current.                                         *)
(***************************************************************************)
LEMMA ComposedIsCurrent ==
  ASSUME NEW t \in Texts, NEW s \in Sources, ~Refused(t, s), Apart(t)
  PROVE  Current(Composed(t, s), s)
<1> DEFINE w == WithRules(t, s)
<1>0. w \in Texts /\ ~Damaged(t, "rules") /\ s.rules \in Versions
  BY RulesPut DEF Refused, Sources
<1>1. CASE s.conv \in Versions
  <2>1. PICK b \in Int, e \in Int :
          /\ Gap(w, "conv", b, e)
          /\ IsSplice(w, b, e, Block("conv", s.conv), Put(w, "conv", s.conv))
    BY <1>0, <1>1, ConvsAre, PutIs DEF Refused, Spaces
  <2>2. Composed(t, s) = Put(w, "conv", s.conv) /\ Put(w, "conv", s.conv) \in Texts
    BY <1>1, <2>1, ConvsAre DEF Composed, IsSplice
  <2>3. Holds(Put(w, "conv", s.conv), "conv", s.conv)
    BY <1>0, <1>1, <2>1, <2>2, OwnSpaceHeld, HeldHolds DEF Spaces
  <2>4. \A j \in 1..Len(Block("conv", s.conv)) : ~IsMark(Block("conv", s.conv)[j], "rules")
    <3>1. \A j \in 1..3 : Block("conv", s.conv)[j].ns = "conv"
      BY <1>1, BlockIs DEF Spaces
    <3>2. Len(Block("conv", s.conv)) = 3
      BY <1>1, BlockIs DEF Spaces
    <3> QED
      BY <3>1, <3>2 DEF IsMark
  <2>5. Block("conv", s.conv) \in Texts
    BY <1>1, BlockIs DEF Spaces
  <2>6. Holds(Put(w, "conv", s.conv), "rules", s.rules)
    BY <1>0, <2>1, <2>4, <2>5, RulesStayHeld
  <2> QED
    BY <1>1, <2>2, <2>3, <2>6, ConvsAre DEF Current
<1>2. CASE s.conv = NoConv
  <2>1. PICK b \in Int, e \in Int : Gap(w, "conv", b, e) /\ IsSplice(w, b, e, << >>, Strip(w))
    BY <1>0, <1>2, ConvsAre, StripIs DEF Refused
  <2>2. Composed(t, s) = Strip(w) /\ Strip(w) \in Texts
    BY <1>2, <2>1, ConvsAre DEF Composed, IsSplice
  <2>3. \A j \in DOMAIN Strip(w) : Strip(w)[j].ns = "conv" => Strip(w)[j].kind = "body"
    BY <1>0, <2>1, <2>2, NoMarksLeft, ConvLinesAreBodies
  <2>4. << >> \in Texts /\ \A j \in 1..Len(<< >>) : ~IsMark(<< >>[j], "rules")
    BY DEF Texts
  <2>5. Holds(Strip(w), "rules", s.rules)
    BY <1>0, <2>1, <2>4, RulesStayHeld
  <2> QED
    BY <1>2, <2>2, <2>3, <2>5, ConvsAre DEF Current
<1>3. CASE s.conv = Partial
  <2>1. Composed(t, s) = w
    BY <1>3, ConvsAre DEF Composed
  <2>2. Holds(w, "rules", s.rules)
    BY <1>0, RulesPut, HeldHolds DEF Spaces
  <2> QED
    BY <1>3, <2>1, <2>2, ConvsAre DEF Current
<1> QED
  BY <1>1, <1>2, <1>3, ConvsAre

(***************************************************************************)
(* The user's lines.  from takes each one of r to its place in t; those    *)
(* outside of the markers of S come from somewhere outside of those of Q.  *)
(***************************************************************************)
Carries(t, r, from, S, Q) ==
  /\ from \in [OwnAt(r) -> OwnAt(t)]
  /\ \A i, j \in OwnAt(r) : i < j => from[i] < from[j]
  /\ \A i \in OwnAt(r) : r[i] = t[from[i]]
  /\ \A i \in Outside(t, S) : \E j \in Outside(r, Q) : from[j] = i

LEMMA CarriesKeeps ==
  ASSUME NEW t, NEW r, NEW from, NEW S, Carries(t, r, from, S, {})
  PROVE  KeepsOwn(t, r, S)
BY DEF Carries, KeepsOwn, Outside

LEMMA CarriesOn ==
  ASSUME NEW t, NEW r, NEW u, NEW f, NEW g, NEW S, NEW Q, NEW R,
         Carries(t, r, f, S, Q), Carries(r, u, g, Q, R)
  PROVE  \E h : Carries(t, u, h, S, R)
<1> DEFINE h == [i \in OwnAt(u) |-> f[g[i]]]
<1>1. \A i \in OwnAt(u) : g[i] \in OwnAt(r)
  BY DEF Carries
<1>2. \A i \in OwnAt(r) : f[i] \in OwnAt(t)
  BY DEF Carries
<1>3. h \in [OwnAt(u) -> OwnAt(t)]
  BY <1>1, <1>2
<1>4. \A i, j \in OwnAt(u) : i < j => h[i] < h[j]
  BY <1>1 DEF Carries
<1>5. \A i \in OwnAt(u) : u[i] = t[h[i]]
  BY <1>1 DEF Carries
<1>6. ASSUME NEW i \in Outside(t, S)
      PROVE  \E j \in Outside(u, R) : h[j] = i
  <2>1. PICK k \in Outside(r, Q) : f[k] = i
    BY DEF Carries
  <2>2. PICK j \in Outside(u, R) : g[j] = k
    BY <2>1 DEF Carries
  <2>3. j \in OwnAt(u)
    BY DEF Outside
  <2> QED
    BY <2>1, <2>2, <2>3
<1> HIDE DEF h
<1>7. Carries(t, u, h, S, R)
  BY <1>3, <1>4, <1>5, <1>6 DEF Carries
<1> QED
  BY <1>7

(***************************************************************************)
(* A splice at the gap of a name space carries the user's lines, if new    *)
(* has none and no markers but those of that name space.                   *)
(***************************************************************************)
LEMMA SpliceCarries ==
  ASSUME NEW t \in Texts, NEW new \in Texts, NEW r, NEW b \in Int, NEW e \in Int, NEW ns, NEW S, ns \in S,
         Gap(t, ns, b, e), IsSplice(t, b, e, new, r),
         \A j \in 1..Len(new) : new[j].kind # "own" /\ new[j].ns = ns
  PROVE  \E from : Carries(t, r, from, S, S \ {ns})
<1> DEFINE From(i) == IF i < b THEN i ELSE Shift(b, e, new, i)
           from == [i \in OwnAt(r) |-> From(i)]
<1>1. Sized(t, b, e, new, r) /\ \A j \in 1..Len(r) : Comes(t, b, e, new, r, j)
  BY SplicedFrom
<1>2. DOMAIN r = 1..Len(r) /\ DOMAIN t = 1..Len(t)
  BY DEF IsSplice, Texts
<1>3. ASSUME NEW i \in 1..Len(r), r[i].kind = "own" \/ r[i].ns # ns
      PROVE  /\ i < b \/ i >= b + Len(new)
             /\ From(i) \in 1..Len(t) /\ r[i] = t[From(i)]
             /\ i < b => From(i) = i
             /\ i >= b + Len(new) => From(i) = Shift(b, e, new, i) /\ From(i) > e
  <2>1. Comes(t, b, e, new, r, i)
    BY <1>1
  <2>2. CASE i < b /\ i \in 1..Len(t) /\ r[i] = t[i]
    BY <1>1, <2>2 DEF Sized
  <2>3. CASE i - b + 1 \in 1..Len(new) /\ r[i] = new[i - b + 1]
    BY <1>3, <2>3
  <2>4. CASE /\ i >= b + Len(new) /\ Shift(b, e, new, i) \in 1..Len(t) /\ Shift(b, e, new, i) > e
             /\ r[i] = t[Shift(b, e, new, i)]
    BY <1>1, <2>4 DEF Sized
  <2> QED
    BY <2>1, <2>2, <2>3, <2>4 DEF Comes
<1>4. ASSUME NEW i \in 1..Len(r), r[i].kind = "own" \/ r[i].ns # ns,
             NEW j \in 1..Len(r), r[j].kind = "own" \/ r[j].ns # ns, i < j
      PROVE  From(i) < From(j)
  <2>1. CASE i < b /\ j < b
    BY <1>4, <2>1
  <2>2. CASE i < b /\ j >= b + Len(new)
    <3>1. From(i) = i /\ From(j) > e
      BY <1>3, <1>4, <2>2
    <3>2. i <= e /\ From(j) \in Int
      BY <1>1, <1>3, <1>4, <2>2 DEF Sized
    <3> HIDE DEF From
    <3> QED
      BY <1>1, <3>1, <3>2 DEF Sized
  <2>3. CASE i >= b + Len(new) /\ j >= b + Len(new)
    <3>1. From(i) = Shift(b, e, new, i) /\ From(j) = Shift(b, e, new, j)
      BY <1>3, <1>4, <2>3
    <3>2. Shift(b, e, new, i) < Shift(b, e, new, j)
      BY <1>1, <1>4 DEF Sized, Shift
    <3> QED
      BY <3>1, <3>2
  <2>4. ~(i >= b + Len(new) /\ j < b)
    BY <1>1, <1>4 DEF Sized
  <2> QED
    BY <1>3, <1>4, <2>1, <2>2, <2>3, <2>4
<1> HIDE DEF From
<1>5. \A i \in OwnAt(r) : i \in 1..Len(r) /\ r[i].kind = "own"
  BY <1>2 DEF OwnAt
<1>6. from \in [OwnAt(r) -> OwnAt(t)] /\ \A i \in OwnAt(r) : r[i] = t[from[i]]
  <2>1. \A i \in OwnAt(r) : From(i) \in OwnAt(t) /\ r[i] = t[From(i)]
    BY <1>2, <1>3, <1>5 DEF OwnAt
  <2> QED
    BY <2>1
<1>7. \A i, j \in OwnAt(r) : i < j => from[i] < from[j]
  BY <1>4, <1>5
<1>8. ASSUME NEW i \in 1..Len(t), i < b \/ i > e
      PROVE  \E j \in 1..Len(r) : /\ j < b \/ j >= b + Len(new)
                                  /\ r[j] = t[i]
                                  /\ j < b => i = j
                                  /\ j >= b + Len(new) => i = Shift(b, e, new, j)
  <2>1. \A j \in 1..Len(r) :
          r[j] = IF j < b THEN t[j] ELSE IF j < b + Len(new) THEN new[j - b + 1]
                 ELSE t[Shift(b, e, new, j)]
    BY DEF IsSplice, Shift
  <2>2. CASE i < b
    <3>1. i \in 1..Len(r) /\ ~(i >= b + Len(new))
      BY <1>1, <2>2 DEF Sized
    <3> QED
      BY <2>1, <2>2, <3>1
  <2>3. CASE i > e
    <3> DEFINE k == i + Len(new) + b - 1 - e
    <3>1. Len(new) \in Int /\ i \in Int /\ k - Len(new) - b + 1 + e = i
      <4>1. Len(new) \in Int /\ i \in Int
        BY <1>1 DEF Sized
      <4> QED
        BY ONLY <4>1, ShiftBack
    <3>2. k \in 1..Len(r) /\ k >= b + Len(new) /\ ~(k < b) /\ ~(k < b + Len(new))
      BY <1>1, <2>3 DEF Sized
    <3> HIDE DEF k
    <3>3. Shift(b, e, new, k) = i
      BY <3>1 DEF Shift
    <3>4. r[k] = t[i]
      BY <2>1, <3>2, <3>3
    <3> QED
      BY <3>2, <3>3, <3>4
  <2> QED
    BY <1>8, <2>2, <2>3
<1>9. ASSUME NEW i \in Outside(t, S)
      PROVE  \E j \in Outside(r, S \ {ns}) : from[j] = i
  <2>1. i \in OwnAt(t) /\ i \in 1..Len(t) /\ t[i].kind = "own" /\ i \in Int
    BY <1>1, <1>2 DEF Outside, OwnAt, Sized
  <2>2. i < b \/ i > e
    <3>1. CASE b <= e
      <4>1. b \in Begins(t, ns) /\ e \in Ends(t, ns)
        BY <3>1 DEF Gap
      <4>2. t[b].kind = "begin" /\ t[e].kind = "end"
        BY <4>1 DEF Begins, Ends, Marks
      <4>3. i # b /\ i # e
        BY <2>1, <4>2
      <4>4. ~(b < i /\ i < e)
        BY <4>1 DEF Outside, Enclosed
      <4> QED
        BY <2>1, <4>3, <4>4
    <3>2. CASE b > e
      BY <1>1, <2>1, <3>2 DEF Gap, Sized
    <3> QED
      BY <3>1, <3>2
  <2>3. PICK j \in 1..Len(r) : /\ j < b \/ j >= b + Len(new)
                               /\ r[j] = t[i]
                               /\ j < b => i = j
                               /\ j >= b + Len(new) => i = Shift(b, e, new, j)
    BY <1>8, <2>1, <2>2
  <2>4. j \in OwnAt(r) /\ r[j].kind = "own"
    BY <1>2, <2>1, <2>3 DEF OwnAt
  <2>5. From(j) = i
    BY <1>3, <2>3, <2>4
  <2>6. ASSUME NEW o \in S \ {ns}, NEW p \in Begins(r, o), NEW q \in Ends(r, o), p < j, j < q
        PROVE  FALSE
    <3>1. p \in 1..Len(r) /\ r[p].ns = o /\ r[p].kind = "begin"
      BY <1>2 DEF Begins, Marks
    <3>2. q \in 1..Len(r) /\ r[q].ns = o /\ r[q].kind = "end"
      BY <1>2 DEF Ends, Marks
    <3>3. From(p) < From(j) /\ From(j) < From(q)
      BY <1>4, <2>4, <2>6, <3>1, <3>2
    <3>4. From(p) \in 1..Len(t) /\ r[p] = t[From(p)]
      BY <1>3, <3>1
    <3>5. From(q) \in 1..Len(t) /\ r[q] = t[From(q)]
      BY <1>3, <3>2
    <3>6. From(p) \in Begins(t, o) /\ From(q) \in Ends(t, o)
      BY <1>2, <3>1, <3>2, <3>4, <3>5 DEF Begins, Ends, Marks
    <3>7. Enclosed(t, o, i)
      BY <2>5, <3>3, <3>6 DEF Enclosed
    <3> QED
      BY <3>7 DEF Outside
  <2>7. j \in Outside(r, S \ {ns})
    BY <2>4, <2>6 DEF Outside, Enclosed
  <2> QED
    BY <2>4, <2>5, <2>7
<1> HIDE DEF from
<1>10. Carries(t, r, from, S, S \ {ns})
  BY <1>6, <1>7, <1>9 DEF Carries
<1> QED
  BY <1>10

(***************************************************************************)
(* What a write composes keeps the user's lines.                           *)
(***************************************************************************)
LEMMA BlockIsClean ==
  ASSUME NEW ns \in Spaces, NEW v \in Versions
  PROVE  /\ Block(ns, v) \in Texts
         /\ \A j \in 1..Len(Block(ns, v)) : Block(ns, v)[j].kind # "own" /\ Block(ns, v)[j].ns = ns
<1>1. \A j \in 1..3 : Block(ns, v)[j].kind # "own" /\ Block(ns, v)[j].ns = ns
  BY BlockIs
<1> QED
  BY <1>1, BlockIs

LEMMA BaseCarries ==
  ASSUME NEW t \in Texts, NEW S
  PROVE  \E from : Carries(t, Base(t), from, S, S)
<1>1. CASE t = << >>
  <2>1. OwnAt(t) = {} /\ OwnAt(Base(t)) = {}
    BY <1>1 DEF OwnAt, Base, Preamble, Line
  <2>2. Carries(t, Base(t), [i \in OwnAt(Base(t)) |-> i], S, S)
    BY <2>1 DEF Carries, Outside
  <2> QED
    BY <2>2
<1>2. CASE t # << >>
  <2>1. Base(t) = t
    BY <1>2 DEF Base
  <2>2. Carries(t, t, [i \in OwnAt(t) |-> i], S, S)
    BY DEF Carries, Outside
  <2> QED
    BY <2>1, <2>2
<1> QED
  BY <1>1, <1>2

LEMMA ComposedKeepsOwn ==
  ASSUME NEW t \in Texts, NEW s \in Sources, ~Refused(t, s)
  PROVE  KeepsOwn(t, Composed(t, s), SpacesOf(s))
<1> DEFINE w == WithRules(t, s)
           S == SpacesOf(s)
<1>0. w \in Texts /\ ~Damaged(t, "rules") /\ s.rules \in Versions /\ "rules" \in Spaces /\ Base(t) \in Texts
  BY RulesPut, BaseIs DEF Refused, Sources, Spaces
<1>1. \E f : Carries(t, w, f, S, S \ {"rules"})
  <2>1. PICK f1 : Carries(t, Base(t), f1, S, S)
    BY BaseCarries
  <2>2. PICK b \in Int, e \in Int :
          Gap(Base(t), "rules", b, e) /\ IsSplice(Base(t), b, e, Block("rules", s.rules), w)
    BY <1>0, RulesPut
  <2>3. "rules" \in S
    BY DEF SpacesOf, Spaces
  <2>4. \E f2 : Carries(Base(t), w, f2, S, S \ {"rules"})
    <3>1. /\ Block("rules", s.rules) \in Texts
          /\ \A j \in 1..Len(Block("rules", s.rules)) :
                Block("rules", s.rules)[j].kind # "own" /\ Block("rules", s.rules)[j].ns = "rules"
      BY <1>0, BlockIsClean
    <3> QED
      BY <1>0, <2>2, <2>3, <3>1, SpliceCarries
  <2> QED
    BY <2>1, <2>4, CarriesOn
<1>2. CASE s.conv = Partial
  <2>1. Composed(t, s) = w /\ S \ {"rules"} = {}
    BY <1>2, ConvsAre DEF Composed, SpacesOf
  <2> QED
    BY <1>1, <2>1, CarriesKeeps
<1>3. CASE s.conv # Partial
  <2>1. "conv" \in S \ {"rules"} /\ (S \ {"rules"}) \ {"conv"} = {}
    BY <1>3 DEF SpacesOf, Spaces
  <2>2. \E g : Carries(w, Composed(t, s), g, S \ {"rules"}, (S \ {"rules"}) \ {"conv"})
    <3>1. CASE s.conv \in Versions
      <4>1. Composed(t, s) = Put(w, "conv", s.conv)
        BY <3>1, ConvsAre DEF Composed
      <4>2. PICK b \in Int, e \in Int :
              Gap(w, "conv", b, e) /\ IsSplice(w, b, e, Block("conv", s.conv), Composed(t, s))
        BY <1>0, <1>3, <3>1, <4>1, PutIs DEF Refused, Spaces
      <4> QED
        BY <1>0, <2>1, <3>1, <4>2, BlockIsClean, SpliceCarries DEF Spaces
    <3>2. CASE s.conv = NoConv
      <4>1. Composed(t, s) = Strip(w)
        BY <3>2, ConvsAre DEF Composed
      <4>2. PICK b \in Int, e \in Int :
              Gap(w, "conv", b, e) /\ IsSplice(w, b, e, << >>, Composed(t, s))
        BY <1>0, <1>3, <4>1, StripIs DEF Refused
      <4>3. << >> \in Texts /\ \A j \in 1..Len(<< >>) : << >>[j].kind # "own" /\ << >>[j].ns = "conv"
        BY DEF Texts
      <4> QED
        BY <1>0, <2>1, <4>2, <4>3, SpliceCarries
    <3> QED
      BY <1>3, <3>1, <3>2, ConvsAre
  <2>3. \E h : Carries(t, Composed(t, s), h, S, {})
    BY <1>1, <2>1, <2>2, CarriesOn
  <2> QED
    BY <2>3, CarriesKeeps
<1> QED
  BY <1>2, <1>3

(***************************************************************************)
(* What a run has done so far: it has been at the entrypoints before the   *)
(* one it is at, and those at which it has not failed are current.  Until  *)
(* it has read both sources it has been at none, so the sources do not     *)
(* change under what it has said.                                          *)
(***************************************************************************)
AllRight(p) == \A e \in 1..Len(seen[p]) : seen[p][e].rc = 0

Told(p) ==
  /\ Len(seen[p]) = at[p] - 1
  /\ pc[p] \in {"rules", "conv"} => at[p] = 1 /\ code[p] = 0
  /\ pc[p] = "act" => at[p] \in Entries
  /\ \A e \in 1..Len(seen[p]) : seen[p][e].rc = 0 /\ Apart(seen[p][e].read) =>
       Current(seen[p][e].left, src[p])
  /\ pc[p] \in {"entry", "act"} => code[p] \in {0, 1} /\ (code[p] = 0 => AllRight(p))
  /\ pc[p] = "done" =>
       /\ at[p] = Count + 1
       /\ code[p] \in {0, 3} => AllRight(p) /\ (code[p] = 3 <=> src[p].conv = Partial)

Inv == TypeOK /\ \A p \in Tools : Told(p)

Notes == [read : Texts, left : Texts, rc : 0..1]

LEMMA InitInv == Init => Inv
<1> SUFFICES ASSUME Init
             PROVE  Inv
  OBVIOUS
<1>1. 1 \in Versions /\ {1, NoConv} \subseteq Convs /\ 1 \in 1..Count + 1 /\ NoConv \in Convs
  BY ExportAssumption DEF Versions, Convs, NoConv
<1>2. << >> \in Seq(Lines) /\ << >> \in Seq([read : Seq(Lines), left : Seq(Lines), rc : 0..1])
  OBVIOUS
<1>3. edits \in 0..MaxEdits /\ updates \in 0..MaxUpdates /\ 0 \in 0..3
  BY ExportAssumption DEF Init
<1>4. file \in [Entries -> Seq(Lines)]
  BY TextAssumption DEF Init
<1>5. TypeOK
  BY <1>1, <1>2, <1>3, <1>4 DEF Init, TypeOK
<1>6. ASSUME NEW p \in Tools
      PROVE  Told(p)
  <2>1. seen[p] = << >> /\ at[p] = 1 /\ pc[p] = "rules" /\ code[p] = 0
    BY DEF Init
  <2>2. Len(seen[p]) = 0 /\ 1..Len(seen[p]) = {}
    BY <2>1
  <2> QED
    BY <2>1, <2>2 DEF Told
<1> QED
  BY <1>5, <1>6 DEF Inv

(***************************************************************************)
(* A run touches nothing of what another one has done.                     *)
(***************************************************************************)
LEMMA OthersKeepTold ==
  ASSUME NEW q \in Tools, Told(q),
         seen'[q] = seen[q], at'[q] = at[q], pc'[q] = pc[q], code'[q] = code[q], src'[q] = src[q]
  PROVE  Told(q)'
BY DEF Told, AllRight

(***************************************************************************)
(* An entrypoint is done.                                                  *)
(***************************************************************************)
LEMMA AdvanceInv ==
  ASSUME Inv, NEW p \in Tools, NEW t \in Texts, NEW n \in 0..1, Advance(p, t, n),
         pc[p] \in {"entry", "act"}, at[p] \in Entries,
         n = 0 /\ Apart(snap[p]) => Current(t, src[p]),
         file' \in [Entries -> Seq(Lines)]
  PROVE  Inv'
<1>0. TypeOK /\ Told(p)
  BY DEF Inv
<1>1. /\ pc' = [pc EXCEPT ![p] = "entry"]
      /\ seen' = [seen EXCEPT ![p] = Append(seen[p], [read |-> snap[p], left |-> t, rc |-> n])]
      /\ code' = [code EXCEPT ![p] = IF n = 0 THEN code[p] ELSE n]
      /\ at' = [at EXCEPT ![p] = at[p] + 1]
      /\ snap' = [snap EXCEPT ![p] = << >>]
      /\ UNCHANGED << rules, conv, edits, updates, mode, src >>
  BY DEF Advance, Goto
<1> DEFINE note == [read |-> snap[p], left |-> t, rc |-> n]
           q == Append(seen[p], note)
<1>2. note \in Notes /\ seen[p] \in Seq(Notes) /\ seen \in [Tools -> Seq(Notes)]
  BY <1>0 DEF TypeOK, Notes, Texts
<1>3. note.read = snap[p] /\ note.left = t /\ note.rc = n
  OBVIOUS
<1> HIDE DEF note
<1>4. /\ q \in Seq(Notes) /\ Len(q) = Len(seen[p]) + 1
      /\ \A i \in 1..Len(seen[p]) : q[i] = seen[p][i]
      /\ q[Len(seen[p]) + 1] = note
  BY <1>2, AppendProperties
<1>5. seen' = [seen EXCEPT ![p] = q] /\ seen'[p] = q
  BY <1>1, <1>2 DEF note
<1> HIDE DEF q
<1>6. TypeOK'
  <2>1. seen' \in [Tools -> Seq(Notes)]
    BY <1>2, <1>4, <1>5
  <2>2. at' \in [Tools -> 1..Count + 1]
    BY <1>0, <1>1, ExportAssumption DEF TypeOK, Entries
  <2>3. snap' \in [Tools -> Seq(Lines)]
    BY <1>0, <1>1 DEF TypeOK
  <2>4. code' \in [Tools -> 0..3]
    BY <1>0, <1>1 DEF TypeOK
  <2>5. pc' \in [Tools -> {"rules", "conv", "entry", "act", "done", "gone"}]
    BY <1>0, <1>1 DEF TypeOK
  <2> QED
    BY <1>0, <1>1, <2>1, <2>2, <2>3, <2>4, <2>5 DEF TypeOK, Notes, Texts
<1>7. Told(p)'
  <2>1. Len(seen[p]) \in Nat /\ Len(seen[p]) = at[p] - 1 /\ at[p] \in Int
    BY <1>0, <1>2, ExportAssumption DEF Told, Entries
  <2>2. at'[p] = at[p] + 1 /\ pc'[p] = "entry" /\ src' = src /\ code'[p] = IF n = 0 THEN code[p] ELSE n
    BY <1>0, <1>1 DEF TypeOK
  <2>3. ASSUME NEW e \in 1..Len(q)
        PROVE  \/ e \in 1..Len(seen[p]) /\ q[e] = seen[p][e]
               \/ q[e] = note
    BY <1>4, <2>1
  <2>4. \A e \in 1..Len(q) : q[e].rc = 0 /\ Apart(q[e].read) => Current(q[e].left, src[p])
    BY <1>0, <1>3, <2>3 DEF Told
  <2>5. code'[p] \in {0, 1} /\ (code'[p] = 0 => \A e \in 1..Len(q) : q[e].rc = 0)
    BY <1>0, <1>3, <2>2, <2>3 DEF Told, AllRight
  <2>6. Len(q) = at'[p] - 1
    BY <1>4, <2>1, <2>2
  <2> QED
    BY <1>5, <2>2, <2>4, <2>5, <2>6 DEF Told, AllRight
<1>8. ASSUME NEW o \in Tools, o # p
      PROVE  Told(o)'
  <2>1. seen'[o] = seen[o] /\ at'[o] = at[o] /\ pc'[o] = pc[o] /\ code'[o] = code[o] /\ src'[o] = src[o]
    BY <1>0, <1>1, <1>8 DEF TypeOK
  <2> QED
    BY <2>1, OthersKeepTold DEF Inv
<1> QED
  BY <1>6, <1>7, <1>8 DEF Inv

(***************************************************************************)
(* The other steps of a run.                                               *)
(***************************************************************************)
LEMMA StepInv ==
  ASSUME Inv, NEW p \in Tools, ReadRules(p) \/ ReadConv(p) \/ NoSources(p) \/ Read(p) \/ Finish(p) \/ Kill(p)
  PROVE  Inv'
<1>0. TypeOK /\ Told(p)
  BY DEF Inv
<1> USE DEF At, Goto, world
<1>a. ASSUME NEW o \in Tools, o # p
       PROVE  Told(o)'
  <2>1. seen' = seen /\ at' = at
    BY DEF ReadRules, ReadConv, NoSources, Read, Finish, Kill
  <2>2. pc'[o] = pc[o] /\ code'[o] = code[o] /\ src'[o] = src[o]
    BY <1>0, <1>a DEF ReadRules, ReadConv, NoSources, Read, Finish, Kill, TypeOK
  <2> QED
    BY <2>1, <2>2, OthersKeepTold DEF Inv
<1>b. ASSUME NEW next \in {"conv", "entry", "act", "done", "gone"}, pc' = [pc EXCEPT ![p] = next]
       PROVE  pc' \in [Tools -> {"rules", "conv", "entry", "act", "done", "gone"}] /\ pc'[p] = next
  BY <1>0, <1>b DEF TypeOK
<1>c. pc[p] \in {"rules", "conv"} => 1..Len(seen[p]) = {} /\ seen' = seen
  <2>1. pc[p] \in {"rules", "conv"} => Len(seen[p]) = 0
    BY <1>0 DEF Told
  <2> QED
    BY <2>1 DEF ReadRules, ReadConv, NoSources, Read, Finish, Kill
<1>1. CASE ReadRules(p)
  <2>1. TypeOK'
    BY <1>0, <1>b, <1>1 DEF ReadRules, TypeOK
  <2>2. Told(p)'
    BY <1>0, <1>b, <1>c, <1>1 DEF ReadRules, Told, AllRight
  <2> QED
    BY <1>a, <2>1, <2>2 DEF Inv
<1>2. CASE ReadConv(p)
  <2>1. TypeOK'
    BY <1>0, <1>b, <1>2 DEF ReadConv, TypeOK
  <2>2. Told(p)'
    BY <1>0, <1>b, <1>c, <1>2 DEF ReadConv, Told, AllRight
  <2> QED
    BY <1>a, <2>1, <2>2 DEF Inv
<1>3. CASE NoSources(p)
  <2>1. PICK n \in {1, 2} : code' = [code EXCEPT ![p] = n]
    BY <1>3 DEF NoSources
  <2>2. TypeOK'
    <3>1. code' \in [Tools -> 0..3]
      BY <1>0, <2>1 DEF TypeOK
    <3>2. pc' = [pc EXCEPT ![p] = "gone"] /\ UNCHANGED << world, mode, src, at, snap, seen >>
      BY <1>3 DEF NoSources
    <3> QED
      BY <1>0, <1>b, <3>1, <3>2 DEF TypeOK
  <2>3. Told(p)'
    BY <1>0, <1>b, <1>c, <1>3 DEF NoSources, Told, AllRight
  <2> QED
    BY <1>a, <2>2, <2>3 DEF Inv
<1>4. CASE Read(p)
  <2>1. snap' \in [Tools -> Seq(Lines)]
    BY <1>0, <1>4 DEF Read, TypeOK
  <2>2. TypeOK'
    BY <1>0, <1>b, <1>4, <2>1 DEF Read, TypeOK
  <2>3. Told(p)'
    BY <1>0, <1>b, <1>4 DEF Read, Told, AllRight
  <2> QED
    BY <1>a, <2>2, <2>3 DEF Inv
<1>5. CASE Finish(p)
  <2>1. code' \in [Tools -> 0..3] /\ code'[p] = IF code[p] = 0 /\ src[p].conv = Partial THEN 3 ELSE code[p]
    BY <1>0, <1>5 DEF Finish, TypeOK
  <2>2. TypeOK'
    BY <1>0, <1>b, <1>5, <2>1 DEF Finish, TypeOK
  <2>3. at[p] = Count + 1
    BY <1>0, <1>5, ExportAssumption DEF Finish, TypeOK, Entries
  <2>4. code[p] \in {0, 1} /\ (code[p] = 0 => AllRight(p))
    BY <1>0, <1>5 DEF Finish, Told
  <2>5. pc'[p] = "done" /\ seen' = seen /\ at' = at /\ src' = src
    BY <1>b, <1>5 DEF Finish
  <2>6. code'[p] \in {0, 3} => code[p] = 0 /\ (code'[p] = 3 <=> src[p].conv = Partial)
    BY <2>1, <2>4
  <2>7. Told(p)'
    BY <1>0, <2>3, <2>4, <2>5, <2>6 DEF Told, AllRight
  <2> QED
    BY <1>a, <2>2, <2>7 DEF Inv
<1>6. CASE Kill(p)
  <2>1. TypeOK'
    BY <1>0, <1>b, <1>6 DEF Kill, TypeOK
  <2>2. Told(p)'
    BY <1>0, <1>b, <1>6 DEF Kill, Told, AllRight
  <2> QED
    BY <1>a, <2>1, <2>2 DEF Inv
<1> QED
  BY <1>1, <1>2, <1>3, <1>4, <1>5, <1>6

LEMMA EntryInv ==
  ASSUME Inv, NEW p \in Tools,
         CheckEntry(p) \/ RefuseEntry(p) \/ KeepEntry(p) \/ WriteEntry(p) \/ FailEntry(p)
  PROVE  Inv'
<1>0. /\ TypeOK /\ Told(p) /\ snap[p] \in Texts /\ src[p] \in Sources
      /\ file \in [Entries -> Seq(Lines)]
      /\ pc[p] = "act" => at[p] \in Entries
  BY DEF Inv, TypeOK, Told, Texts, Sources
<1>1. CASE CheckEntry(p)
  <2> DEFINE n == IF Agrees(snap[p], src[p]) THEN 0 ELSE 1
  <2>1. n = 0 => Current(snap[p], src[p])
    BY <1>0, AgreesIsCurrent
  <2>2. n \in 0..1
    OBVIOUS
  <2>3. Advance(p, snap[p], n) /\ file' = file /\ pc[p] = "act"
    BY <1>1 DEF CheckEntry, At
  <2> HIDE DEF n
  <2>4. pc[p] \in {"entry", "act"} /\ at[p] \in Entries /\ file' \in [Entries -> Seq(Lines)]
    BY <1>0, <2>3
  <2> QED
    BY <1>0, <2>1, <2>2, <2>3, <2>4, AdvanceInv
<1>2. CASE RefuseEntry(p)
  <2>1. Advance(p, snap[p], 1) /\ file' = file /\ pc[p] = "act" /\ 1 \in 0..1 /\ 1 # 0
    BY <1>2 DEF RefuseEntry, At
  <2>3. pc[p] \in {"entry", "act"} /\ at[p] \in Entries /\ file' \in [Entries -> Seq(Lines)]
    BY <1>0, <2>1
  <2> QED
    BY <1>0, <2>1, <2>3, AdvanceInv
<1>3. CASE KeepEntry(p)
  <2>1. Advance(p, snap[p], 0) /\ file' = file /\ pc[p] = "act" /\ 0 \in 0..1
    BY <1>3 DEF KeepEntry, At
  <2>2. Apart(snap[p]) => Current(snap[p], src[p])
    BY <1>0, <1>3, ComposedIsCurrent DEF KeepEntry
  <2>3. pc[p] \in {"entry", "act"} /\ at[p] \in Entries /\ file' \in [Entries -> Seq(Lines)]
    BY <1>0, <2>1
  <2> QED
    BY <1>0, <2>1, <2>2, <2>3, AdvanceInv
<1>4. CASE WriteEntry(p)
  <2> DEFINE t == Composed(snap[p], src[p])
  <2>1. Advance(p, t, 0) /\ pc[p] = "act" /\ 0 \in 0..1
    BY <1>4 DEF WriteEntry, At
  <2>2. t \in Texts /\ (Apart(snap[p]) => Current(t, src[p]))
    BY <1>0, <1>4, ComposedTyped, ComposedIsCurrent DEF WriteEntry
  <2>3. file' = [file EXCEPT ![at[p]] = t]
    BY <1>4 DEF WriteEntry
  <2> HIDE DEF t
  <2>4. at[p] \in Entries /\ pc[p] \in {"entry", "act"} /\ t \in Seq(Lines)
    BY <1>0, <2>1, <2>2 DEF Texts
  <2>5. file' \in [Entries -> Seq(Lines)]
    BY <1>0, <2>3, <2>4
  <2> QED
    BY <1>0, <2>1, <2>2, <2>4, <2>5, AdvanceInv
<1>5. CASE FailEntry(p)
  <2>1. Advance(p, snap[p], 1) /\ file' = file /\ at[p] \in Entries /\ 1 \in 0..1 /\ 1 # 0
    BY <1>5 DEF FailEntry
  <2>2. pc[p] \in {"entry", "act"} /\ file' \in [Entries -> Seq(Lines)]
    BY <1>0, <1>5, <2>1 DEF FailEntry, At
  <2> QED
    BY <1>0, <2>1, <2>2, AdvanceInv
<1> QED
  BY <1>1, <1>2, <1>3, <1>4, <1>5

(***************************************************************************)
(* The user and the sources.                                               *)
(***************************************************************************)
LEMMA EditTyped ==
  ASSUME TypeOK, Edit
  PROVE  file' \in [Entries -> Seq(Lines)]
<1>1. PICK e \in Entries : \E i \in 0..Len(file[e]) :
        \/ \E l \in Inserts :
             file' = [file EXCEPT ![e] = SubSeq(@, 1, i) \o << l >> \o SubSeq(@, i + 1, Len(@))]
        \/ /\ i > 0
           /\ file' = [file EXCEPT ![e] = SubSeq(@, 1, i - 1) \o SubSeq(@, i + 1, Len(@))]
  BY DEF Edit
<1> DEFINE t == file[e]
<1>2. t \in Seq(Lines) /\ Len(t) \in Nat /\ \A j \in 1..Len(t) : t[j] \in Lines
  BY DEF TypeOK
<1> HIDE DEF t
<1>3. \A j, k \in Int : 1 <= j /\ k <= Len(t) => SubSeq(t, j, k) \in Seq(Lines)
  <2> TAKE j, k \in Int
  <2> HAVE 1 <= j /\ k <= Len(t)
  <2>1. \A m \in j..k : t[m] \in Lines
    BY <1>2
  <2> QED
    BY ONLY <2>1, SubSeqProperties
<1>4. PICK i \in 0..Len(t) :
        \/ \E l \in Inserts : file' = [file EXCEPT ![e] = SubSeq(t, 1, i) \o << l >> \o SubSeq(t, i + 1, Len(t))]
        \/ i > 0 /\ file' = [file EXCEPT ![e] = SubSeq(t, 1, i - 1) \o SubSeq(t, i + 1, Len(t))]
  BY <1>1 DEF t
<1>5. /\ SubSeq(t, 1, i) \in Seq(Lines) /\ SubSeq(t, i + 1, Len(t)) \in Seq(Lines)
      /\ SubSeq(t, 1, i - 1) \in Seq(Lines)
  BY <1>2, <1>3
<1>6. CASE \E l \in Inserts : file' = [file EXCEPT ![e] = SubSeq(t, 1, i) \o << l >> \o SubSeq(t, i + 1, Len(t))]
  <2>1. PICK l \in Inserts : file' = [file EXCEPT ![e] = SubSeq(t, 1, i) \o << l >> \o SubSeq(t, i + 1, Len(t))]
    BY <1>6
  <2>2. << l >> \in Seq(Lines)
    BY TextAssumption
  <2>3. SubSeq(t, 1, i) \o << l >> \in Seq(Lines)
    BY ONLY <1>5, <2>2, ConcatProperties
  <2>4. SubSeq(t, 1, i) \o << l >> \o SubSeq(t, i + 1, Len(t)) \in Seq(Lines)
    BY ONLY <1>5, <2>3, ConcatProperties
  <2> QED
    BY <2>1, <2>4 DEF TypeOK
<1>7. CASE file' = [file EXCEPT ![e] = SubSeq(t, 1, i - 1) \o SubSeq(t, i + 1, Len(t))]
  <2>1. SubSeq(t, 1, i - 1) \o SubSeq(t, i + 1, Len(t)) \in Seq(Lines)
    BY ONLY <1>5, ConcatProperties
  <2> QED
    BY <1>7, <2>1 DEF TypeOK
<1> QED
  BY <1>4, <1>6, <1>7

LEMMA NextInv == Inv /\ [Next]_vars => Inv'
<1> SUFFICES ASSUME Inv, [Next]_vars
             PROVE  Inv'
  OBVIOUS
<1>0. TypeOK
  BY DEF Inv
<1>1. ASSUME UNCHANGED << mode, pc, src, at, snap, code, seen >>, TypeOK'
      PROVE  Inv'
  <2>1. \A p \in Tools : Told(p)'
    BY <1>1, OthersKeepTold DEF Inv
  <2> QED
    BY <1>1, <2>1 DEF Inv
<1>2. CASE \E p \in Tools : Run(p)
  BY <1>2, StepInv, EntryInv DEF Run
<1>3. CASE Edit
  <2>1. edits' \in 0..MaxEdits
    BY <1>0, <1>3, ExportAssumption DEF Edit, TypeOK
  <2>2. UNCHANGED << rules, conv, updates, mode, pc, src, at, snap, code, seen >>
    BY <1>3 DEF Edit
  <2>3. TypeOK'
    BY <1>0, <1>3, <2>1, <2>2, EditTyped DEF TypeOK
  <2> QED
    BY <1>1, <2>2, <2>3
<1>4. CASE Update
  <2>1. updates' \in 0..MaxUpdates
    BY <1>0, <1>4, ExportAssumption DEF Update, TypeOK
  <2>2. rules' \in Versions /\ conv' \in Convs
    BY <1>0, <1>4, ExportAssumption DEF Update, TypeOK, Versions
  <2>3. UNCHANGED << file, edits, mode, pc, src, at, snap, code, seen >>
    BY <1>4 DEF Update
  <2>4. TypeOK'
    BY <1>0, <2>1, <2>2, <2>3 DEF TypeOK
  <2> QED
    BY <1>1, <2>3, <2>4
<1>5. CASE UNCHANGED vars
  <2>1. UNCHANGED << file, rules, conv, edits, updates, mode, pc, src, at, snap, code, seen >>
    BY <1>5 DEF vars
  <2>2. TypeOK'
    BY <1>0, <2>1 DEF TypeOK
  <2> QED
    BY <1>1, <2>1, <2>2
<1> QED
  BY <1>2, <1>3, <1>4, <1>5 DEF Next

LEMMA SpecInv == Spec => []Inv
BY InitInv, NextInv, PTL DEF Spec

(***************************************************************************)
(* Every variable has its type: whatever runs, users and updates do, an    *)
(* entrypoint is a text of lines and a run goes through the entrypoints.   *)
(***************************************************************************)
THEOREM ExportTypes == Spec => []TypeOK
<1>1. Inv => TypeOK
  BY DEF Inv
<1> QED
  BY SpecInv, <1>1, PTL

(***************************************************************************)
(* What cmd_write and cmd_check say by their exit code and of each         *)
(* entrypoint is so, for any number of entrypoints and any edits between   *)
(* the steps of a run.                                                     *)
(***************************************************************************)
THEOREM VerdictsAreTrue == Spec => []VerdictIsTrue
<1>1. Inv => VerdictIsTrue
  <2> SUFFICES ASSUME Inv, NEW p \in Tools, pc[p] = "done"
               PROVE  /\ Len(seen[p]) = Count
                      /\ \A e \in 1..Len(seen[p]) : seen[p][e].rc = 0 /\ Apart(seen[p][e].read) =>
                           Current(seen[p][e].left, src[p])
                      /\ code[p] \in {0, 3} =>
                           /\ \A e \in 1..Len(seen[p]) : seen[p][e].rc = 0
                           /\ code[p] = 3 <=> src[p].conv = Partial
    <3>1. Inv => \A p \in Tools : DOMAIN seen[p] = 1..Len(seen[p])
      BY DEF Inv, TypeOK
    <3> QED
      BY <3>1 DEF VerdictIsTrue, ExitMeansCurrent, FailureIsLocal, Entries
  <2> QED
    BY ExportAssumption DEF Inv, Told, AllRight
<1> QED
  BY SpecInv, <1>1, PTL

(***************************************************************************)
(* _compose, _compose_conv and _strip_conv: a write keeps the user's lines *)
(* outside of the markers of the text it has read, in their order.         *)
(***************************************************************************)
THEOREM OwnLinesAreKept == Spec => OwnLinesKept
<1>1. Inv /\ [Next]_vars => [\A p \in Tools : WriteEntry(p) =>
                               KeepsOwn(snap[p], file'[at[p]], SpacesOf(src[p]))]_vars
  <2> SUFFICES ASSUME Inv, NEW p \in Tools, WriteEntry(p)
               PROVE  KeepsOwn(snap[p], file'[at[p]], SpacesOf(src[p]))
    OBVIOUS
  <2>1. /\ snap[p] \in Texts /\ src[p] \in Sources /\ at[p] \in Entries
        /\ file \in [Entries -> Seq(Lines)]
    BY DEF Inv, TypeOK, Told, Texts, Sources, WriteEntry, At
  <2>2. file'[at[p]] = Composed(snap[p], src[p]) /\ ~Refused(snap[p], src[p])
    BY <2>1 DEF WriteEntry
  <2> QED
    BY <2>1, <2>2, ComposedKeepsOwn
<1> QED
  BY SpecInv, <1>1, PTL DEF Spec, OwnLinesKept
=============================================================================
