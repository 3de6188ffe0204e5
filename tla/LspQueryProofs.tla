--------------------------- MODULE LspQueryProofs ---------------------------
(***************************************************************************)
(* What holds of a query whatever the server says, for every limit on the  *)
(* queue and on the bytes.                                                 *)
(***************************************************************************)
EXTENDS LspQuery, SequenceTheorems, FiniteSetTheorems, WellFoundedInduction, TLAPS

(***************************************************************************)
(* Facts about sequences.  The prover has no induction over data: what     *)
(* holds of every finite sequence is proved of a set of sequences that has *)
(* the empty one and grows with it, by the shortest one that is missing.   *)
(***************************************************************************)
LEMMA LeastNatural ==
  ASSUME NEW T \in SUBSET Nat, T # {}
  PROVE  \E n \in T : \A m \in T : n <= m
<1>. DEFINE R == {ss \in Nat \X Nat : ss[1] < ss[2]}
<1>1. IsWellFoundedOn(R, Nat)
  BY NatLessThanWellFounded DEF OpToRel
<1>2. \A m, n \in Nat : m < n => << m, n >> \in R
  OBVIOUS
<1>. HIDE DEF R
<1>3. PICK n \in T : \A m \in T : ~(<< m, n >> \in R)
  BY <1>1, WFMin
<1>4. \A m \in T : ~(m < n)
  BY <1>2, <1>3
<1>. QED
  BY <1>3, <1>4

LEMMA SequencesByAppending ==
  ASSUME NEW A, NEW G, G \subseteq Seq(A), << >> \in G,
         \A s \in G : \A x \in A : Append(s, x) \in G
  PROVE  Seq(A) \subseteq G
<1>. SUFFICES ASSUME Seq(A) \ G # {} PROVE FALSE
  OBVIOUS
<1>. DEFINE T == {Len(s) : s \in Seq(A) \ G}
<1>1. \A s \in Seq(A) : Len(s) \in Nat
  BY LenProperties
<1>2. T \subseteq Nat /\ T # {}
  BY <1>1
<1>3. PICK n \in T : \A m \in T : n <= m
  BY <1>2, LeastNatural
<1>4. PICK s \in Seq(A) \ G : Len(s) = n
  BY <1>3
<1>5. \A t \in Seq(A) \ G : Len(s) <= Len(t)
  BY <1>3, <1>4
<1>6. s # << >> /\ s \in Seq(A)
  BY <1>4
<1>7. PICK t \in Seq(A), x \in A : s = Append(t, x)
  BY <1>6, SequenceEmptyOrAppend
<1>8. Len(t) \in Nat /\ Len(s) = Len(t) + 1
  BY <1>7, AppendProperties, LenProperties
<1>9. t \in G
  BY <1>5, <1>7, <1>8
<1>. QED
  BY <1>4, <1>7, <1>9

(***************************************************************************)
(* Selected: there is a function that satisfies its recursion, and one     *)
(* element more is kept or skipped without regard to those before it.      *)
(***************************************************************************)
Selects(f, s, S) ==
  f = [n \in 0..Len(s) |->
         IF n = 0 THEN << >>
         ELSE IF s[n] \in S THEN Append(f[n - 1], s[n]) ELSE f[n - 1]]

LEMMA SelectsExists ==
  ASSUME NEW A, NEW S, NEW s \in Seq(A)
  PROVE  \E f : Selects(f, s, S)
<1>. DEFINE G == {t \in Seq(A) : \E f : Selects(f, t, S)}
<1>1. << >> \in G
  <2>. DEFINE f == [n \in 0..0 |-> << >>]
  <2>1. Len(<< >>) = 0 /\ << >> \in Seq(A)
    OBVIOUS
  <2>2. Selects(f, << >>, S)
    BY <2>1 DEF Selects
  <2>. HIDE DEF f
  <2>. QED
    BY <2>1, <2>2
<1>2. ASSUME NEW t \in G, NEW x \in A PROVE Append(t, x) \in G
  <2>1. PICK f : Selects(f, t, S)
    OBVIOUS
  <2>. DEFINE u == Append(t, x)
              k == Len(t)
              g == [n \in 0..(k + 1) |->
                      IF n <= k THEN f[n]
                      ELSE IF x \in S THEN Append(f[k], x) ELSE f[k]]
  <2>2. /\ u \in Seq(A) /\ Len(u) = k + 1 /\ k \in Nat /\ u[k + 1] = x
        /\ \A n \in 1..k : u[n] = t[n]
    BY AppendProperties, LenProperties
  <2>. HIDE DEF u
  <2>3. ASSUME NEW n \in 0..(k + 1)
        PROVE  g[n] = IF n = 0 THEN << >>
                      ELSE IF u[n] \in S THEN Append(g[n - 1], u[n]) ELSE g[n - 1]
    <3>1. CASE n = 0
      BY <2>1, <2>2, <3>1 DEF Selects
    <3>2. CASE n \in 1..k
      <4>1. n \in 0..k /\ n - 1 \in 0..k /\ n # 0 /\ n <= k /\ n - 1 <= k
        BY <2>2, <3>2
      <4>2. g[n] = f[n] /\ g[n - 1] = f[n - 1] /\ u[n] = t[n]
        BY <2>2, <3>2, <4>1
      <4>3. f[n] = IF t[n] \in S THEN Append(f[n - 1], t[n]) ELSE f[n - 1]
        BY <2>1, <4>1 DEF Selects
      <4>. HIDE DEF g
      <4>. QED
        BY <4>1, <4>2, <4>3
    <3>3. CASE n = k + 1
      BY <2>2, <3>3
    <3>. QED
      BY <2>2, <3>1, <3>2, <3>3
  <2>4. g = [n \in 0..(k + 1) |-> g[n]]
    OBVIOUS
  <2>. HIDE DEF g
  <2>5. Selects(g, u, S)
    BY <2>2, <2>3, <2>4 DEF Selects
  <2>. QED
    BY <2>2, <2>5 DEF u
<1>. HIDE DEF G
<1>3. G \subseteq Seq(A)
  BY DEF G
<1>4. s \in G
  BY <1>1, <1>2, <1>3, SequencesByAppending
<1>. QED
  BY <1>4 DEF G

LEMMA SelectedUnfolds ==
  ASSUME NEW A, NEW S, NEW s \in Seq(A)
  PROVE  \E f : Selects(f, s, S) /\ Selected(s, S) = f[Len(s)]
<1>. DEFINE f == CHOOSE f : Selects(f, s, S)
<1>1. Selects(f, s, S)
  BY SelectsExists
<1>2. Selected(s, S) = f[Len(s)]
  BY DEF Selected, Selects
<1>. HIDE DEF f
<1>. QED
  BY <1>1, <1>2

LEMMA SelectedEmpty == \A S : Selected(<< >>, S) = << >>
<1>. TAKE S
<1>1. << >> \in Seq({}) /\ Len(<< >>) = 0
  OBVIOUS
<1>2. PICK f : Selects(f, << >>, S) /\ Selected(<< >>, S) = f[Len(<< >>)]
  BY <1>1, SelectedUnfolds
<1>. QED
  BY <1>1, <1>2 DEF Selects

LEMMA SelectedAppend ==
  ASSUME NEW A, NEW S, NEW s \in Seq(A), NEW x \in A
  PROVE  Selected(Append(s, x), S) =
           IF x \in S THEN Append(Selected(s, S), x) ELSE Selected(s, S)
<1>. DEFINE u == Append(s, x)
            k == Len(s)
<1>1. /\ u \in Seq(A) /\ Len(u) = k + 1 /\ k \in Nat /\ u[k + 1] = x
      /\ \A n \in 1..k : u[n] = s[n]
  BY AppendProperties, LenProperties
<1>2. PICK f : Selects(f, s, S) /\ Selected(s, S) = f[k]
  BY SelectedUnfolds
<1>3. PICK g : Selects(g, u, S) /\ Selected(u, S) = g[k + 1]
  BY <1>1, SelectedUnfolds
<1>. HIDE DEF u
<1>4. \A n \in 0..k : f[n] = g[n]
  <2>. DEFINE T == {n \in 0..k : f[n] # g[n]}
  <2>. SUFFICES ASSUME T # {} PROVE FALSE
    OBVIOUS
  <2>1. T \subseteq Nat
    BY <1>1
  <2>2. PICK n \in T : \A m \in T : n <= m
    BY <2>1, LeastNatural
  <2>3. n \in 0..k /\ f[n] # g[n] /\ n \in 0..(k + 1)
    BY <1>1, <2>2
  <2>4. n # 0
    BY <1>1, <1>2, <1>3, <2>3 DEF Selects
  <2>5. n - 1 \in 0..k /\ n - 1 \notin T
    BY <1>1, <2>2, <2>3, <2>4
  <2>6. f[n - 1] = g[n - 1] /\ u[n] = s[n]
    BY <1>1, <2>3, <2>4, <2>5
  <2>7. f[n] = IF s[n] \in S THEN Append(f[n - 1], s[n]) ELSE f[n - 1]
    BY <1>2, <2>3, <2>4 DEF Selects
  <2>8. g[n] = IF u[n] \in S THEN Append(g[n - 1], u[n]) ELSE g[n - 1]
    BY <1>1, <1>3, <2>3, <2>4 DEF Selects
  <2>. QED
    BY <2>3, <2>6, <2>7, <2>8
<1>5. g[k + 1] = IF x \in S THEN Append(g[k], x) ELSE g[k]
  <2>1. k + 1 \in 0..(k + 1) /\ k + 1 # 0 /\ (k + 1) - 1 = k
    BY <1>1
  <2>. QED
    BY <1>1, <1>3, <2>1 DEF Selects
<1>. QED
  BY <1>1, <1>2, <1>3, <1>4, <1>5 DEF u

LEMMA SelectedType ==
  ASSUME NEW A, NEW S, NEW s \in Seq(A)
  PROVE  Selected(s, S) \in Seq(A \cap S)
<1>. DEFINE G == {t \in Seq(A) : Selected(t, S) \in Seq(A \cap S)}
<1>1. << >> \in G
  <2>1. << >> \in Seq(A) /\ << >> \in Seq(A \cap S) /\ Selected(<< >>, S) = << >>
    BY SelectedEmpty
  <2>. QED
    BY <2>1
<1>2. ASSUME NEW t \in G, NEW x \in A PROVE Append(t, x) \in G
  <2>1. t \in Seq(A) /\ Selected(t, S) \in Seq(A \cap S)
    OBVIOUS
  <2>2. Selected(Append(t, x), S) =
          IF x \in S THEN Append(Selected(t, S), x) ELSE Selected(t, S)
    BY <2>1, SelectedAppend
  <2>3. Append(t, x) \in Seq(A)
    BY <2>1, AppendProperties
  <2>4. x \in S => Append(Selected(t, S), x) \in Seq(A \cap S)
    BY <2>1, AppendProperties
  <2>. QED
    BY <2>1, <2>2, <2>3, <2>4
<1>. HIDE DEF G
<1>3. G \subseteq Seq(A)
  BY DEF G
<1>4. s \in G
  BY <1>1, <1>2, <1>3, SequencesByAppending
<1>. QED
  BY <1>4 DEF G

LEMMA SelectedAll ==
  ASSUME NEW A, NEW S, A \subseteq S, NEW s \in Seq(A)
  PROVE  Selected(s, S) = s
<1>. DEFINE G == {t \in Seq(A) : Selected(t, S) = t}
<1>1. << >> \in G
  <2>1. << >> \in Seq(A) /\ << >> \in Seq(A \cap S) /\ Selected(<< >>, S) = << >>
    BY SelectedEmpty
  <2>. QED
    BY <2>1
<1>2. ASSUME NEW t \in G, NEW x \in A PROVE Append(t, x) \in G
  <2>1. t \in Seq(A) /\ Selected(t, S) = t /\ x \in S
    OBVIOUS
  <2>2. Selected(Append(t, x), S) = Append(t, x)
    BY <2>1, SelectedAppend
  <2>3. Append(t, x) \in Seq(A)
    BY <2>1, AppendProperties
  <2>. QED
    BY <2>2, <2>3
<1>. HIDE DEF G
<1>3. G \subseteq Seq(A)
  BY DEF G
<1>4. s \in G
  BY <1>1, <1>2, <1>3, SequencesByAppending
<1>. QED
  BY <1>4 DEF G

LEMMA ConcatAppend ==
  ASSUME NEW A, NEW s \in Seq(A), NEW t \in Seq(A), NEW x \in A
  PROVE  s \o Append(t, x) = Append(s \o t, x)
<1>1. << x >> \in Seq(A)
  OBVIOUS
<1>2. Append(t, x) = t \o << x >>
  BY AppendIsConcat
<1>3. s \o t \in Seq(A)
  BY ConcatProperties
<1>4. Append(s \o t, x) = (s \o t) \o << x >>
  BY <1>3, AppendIsConcat
<1>5. (s \o t) \o << x >> = s \o (t \o << x >>)
  BY <1>1, ConcatAssociative
<1>. QED
  BY <1>2, <1>4, <1>5

LEMMA SelectedConcat ==
  ASSUME NEW A, NEW S, NEW s \in Seq(A), NEW t \in Seq(A)
  PROVE  Selected(s \o t, S) = Selected(s, S) \o Selected(t, S)
<1>. DEFINE G == {u \in Seq(A) : Selected(s \o u, S) = Selected(s, S) \o Selected(u, S)}
<1>1. << >> \in G
  <2>1. s \o << >> = s
    BY ConcatEmptySeq
  <2>2. Selected(s, S) \in Seq(A \cap S)
    BY SelectedType
  <2>3. Selected(s, S) \o << >> = Selected(s, S)
    BY <2>2, ConcatEmptySeq
  <2>4. << >> \in Seq(A) /\ Selected(<< >>, S) = << >>
    BY SelectedEmpty
  <2>. QED
    BY <2>1, <2>3, <2>4
<1>2. ASSUME NEW u \in G, NEW x \in A PROVE Append(u, x) \in G
  <2>1. u \in Seq(A) /\ Selected(s \o u, S) = Selected(s, S) \o Selected(u, S)
    OBVIOUS
  <2>2. s \o Append(u, x) = Append(s \o u, x) /\ s \o u \in Seq(A)
    BY <2>1, ConcatAppend, ConcatProperties
  <2>3. Selected(s \o Append(u, x), S) =
          IF x \in S THEN Append(Selected(s \o u, S), x) ELSE Selected(s \o u, S)
    <3>. DEFINE v == s \o u
    <3>1. v \in Seq(A)
      BY <2>2
    <3>. HIDE DEF v
    <3>2. Selected(Append(v, x), S) = IF x \in S THEN Append(Selected(v, S), x) ELSE Selected(v, S)
      BY <3>1, SelectedAppend
    <3>. QED
      BY <2>2, <3>2 DEF v
  <2>4. Selected(Append(u, x), S) =
          IF x \in S THEN Append(Selected(u, S), x) ELSE Selected(u, S)
    BY <2>1, SelectedAppend
  <2>5. Selected(s, S) \in Seq(A) /\ Selected(u, S) \in Seq(A)
    <3>1. Seq(A \cap S) \subseteq Seq(A)
      BY SeqMonotonic
    <3>. QED
      BY <2>1, <3>1, SelectedType
  <2>6. Selected(s, S) \o Append(Selected(u, S), x) =
          Append(Selected(s, S) \o Selected(u, S), x)
    BY <2>5, ConcatAppend
  <2>7. Append(u, x) \in Seq(A)
    BY <2>1, AppendProperties
  <2>. QED
    BY <2>1, <2>3, <2>4, <2>6, <2>7
<1>. HIDE DEF G
<1>3. G \subseteq Seq(A)
  BY DEF G
<1>4. t \in G
  BY <1>1, <1>2, <1>3, SequencesByAppending
<1>. QED
  BY <1>4 DEF G

Item == Message \cup Failures

(***************************************************************************)
(* The types the limits rest on: the reader holds one element at most, so  *)
(* that putting it adds one at most.                                       *)
(***************************************************************************)
Typed ==
  /\ out \in Seq(Message)
  /\ hand \in Seq(Item) /\ Len(hand) <= 1
  /\ received \in Nat
  /\ queue \in Seq(Item)
  /\ published \in Seq(Message)

LimitInv == Typed /\ WithinLimits

(***************************************************************************)
(* From the SIGKILL to the group on the server is down, unless a signal    *)
(* was refused; only the SIGTERM can have been, so the flag is final.      *)
(***************************************************************************)
Killed == {"stdin", "stdout", "join", "done"}

GoneInv == pc \in Killed /\ ~denied => server = "down"

(***************************************************************************)
(* A pair of facts about sequences: putting one element on, taking one off.*)
(***************************************************************************)
LEMMA PutOne ==
  ASSUME NEW S, NEW q \in Seq(S), NEW h \in Seq(S), Len(h) <= 1
  PROVE  q \o h \in Seq(S) /\ Len(q \o h) <= Len(q) + 1
<1>1. q \o h \in Seq(S) /\ Len(q \o h) = Len(q) + Len(h)
  BY ConcatProperties
<1>2. Len(q) \in Nat /\ Len(h) \in Nat
  BY LenProperties
<1>. QED
  BY <1>1, <1>2

LEMMA TakeOne ==
  ASSUME NEW S, NEW q \in Seq(S), q # << >>
  PROVE  Head(q) \in S /\ Tail(q) \in Seq(S) /\ Len(Tail(q)) = Len(q) - 1
  BY HeadTailProperties

LEMMA OneOf ==
  ASSUME NEW S, NEW x \in S
  PROVE  << x >> \in Seq(S) /\ Len(<< x >>) <= 1
  OBVIOUS

LEMMA AddOne ==
  ASSUME NEW S, NEW q \in Seq(S), NEW x \in S
  PROVE  Append(q, x) \in Seq(S) /\ Len(Append(q, x)) = Len(q) + 1
  BY AppendProperties

LEMMA FailuresAreItems == \A why \in {"error", "budget"} : Failure(why) \in Item
  BY DEF Item, Failures

(***************************************************************************)
(* What the client does with a message it has taken changes the queue by   *)
(* one element; that is all the limits need to know of it.                 *)
(***************************************************************************)
LEMMA Shrinks ==
  ASSUME LimitInv, queue # << >>, queue' = Tail(queue)
  PROVE  queue' \in Seq(Item) /\ Len(queue') <= Pending
<1>1. queue \in Seq(Item) /\ Len(queue) <= Pending
  BY DEF LimitInv, Typed, WithinLimits
<1>2. Tail(queue) \in Seq(Item) /\ Len(Tail(queue)) = Len(queue) - 1
  BY <1>1, TakeOne
<1>3. Len(queue) \in Nat /\ Pending \in Nat
  BY <1>1, LenProperties, QueryAssumption
<1>. QED
  BY <1>1, <1>2, <1>3

(***************************************************************************)
(* Whatever the server writes, the queue, the notifications and the bytes  *)
(* stay within their limits (WithinLimits).                                *)
(***************************************************************************)
LEMMA LimitInit == Init => LimitInv
<1>. SUFFICES ASSUME Init PROVE LimitInv
  OBVIOUS
<1>1. << >> \in Seq(Message) /\ << >> \in Seq(Item) /\ Len(<< >>) = 0
  OBVIOUS
<1>2. Pending \in Nat /\ ByteMax \in Nat
  BY QueryAssumption
<1>. QED
  BY <1>1, <1>2 DEF Init, LimitInv, Typed, WithinLimits

LEMMA LimitReader == LimitInv /\ Reader => LimitInv'
<1>. SUFFICES ASSUME LimitInv, Reader PROVE LimitInv'
  OBVIOUS
<1>1. /\ out \in Seq(Message) /\ hand \in Seq(Item) /\ Len(hand) <= 1
      /\ received \in Nat /\ queue \in Seq(Item) /\ published \in Seq(Message)
      /\ Len(queue) <= Pending /\ Len(published) <= Pending /\ received <= ByteMax + 1
  BY DEF LimitInv, Typed, WithinLimits
<1>2. Pending \in Nat /\ ByteMax \in Nat
  BY QueryAssumption
<1>3. \A m \in Message : Put(m) => hand' \in Seq(Item) /\ Len(hand') <= 1
  <2>. TAKE m \in Message
  <2>. HAVE Put(m)
  <2>1. m \in Item
    BY DEF Item
  <2>. QED
    BY <2>1, OneOf DEF Put
<1>4. \A why \in {"error", "budget"} : Stop(why) => hand' \in Seq(Item) /\ Len(hand') <= 1
  BY FailuresAreItems, OneOf DEF Stop
<1>5. << >> \in Seq(Item) /\ Len(<< >>) <= 1
  OBVIOUS
<1>6. CASE Read
  <2>1. out # << >> /\ out' = Tail(out) /\ published' = published /\ queue' = queue
    BY <1>6 DEF Read, asking
  <2>2. Head(out) \in Message /\ out' \in Seq(Message)
    BY <1>1, <2>1, TakeOne
  <2>3. Size(Head(out)) \in 1..2
    BY DEF Size
  <2>4. received' \in Nat /\ received' <= ByteMax + 1
    BY <1>1, <1>2, <1>6, <2>3 DEF Read
  <2>5. hand' \in Seq(Item) /\ Len(hand') <= 1
    <3>1. CASE Stop("budget")
      BY <1>4, <3>1
    <3>2. CASE Accept(Head(out))
      BY <1>1, <1>3, <1>4, <2>2, <3>2 DEF Accept
    <3>. QED
      BY <1>6, <3>1, <3>2 DEF Read
  <2>. QED
    BY <1>1, <2>1, <2>2, <2>4, <2>5 DEF LimitInv, Typed, WithinLimits
<1>7. CASE ReadEnd \/ PutTimesOut
  <2>1. UNCHANGED << out, received, queue, published >>
    BY <1>7 DEF ReadEnd, PutTimesOut, asking
  <2>2. hand' \in Seq(Item) /\ Len(hand') <= 1
    BY <1>4, <1>7 DEF ReadEnd, PutTimesOut
  <2>. QED
    BY <1>1, <2>1, <2>2 DEF LimitInv, Typed, WithinLimits
<1>8. CASE PutMessage \/ PutFailure
  <2>1. UNCHANGED << out, received, published >> /\ hand' = << >>
    BY <1>8 DEF PutMessage, PutFailure, asking
  <2>2. queue' = queue \o hand /\ Len(queue) < Pending
    BY <1>8 DEF PutMessage, PutFailure
  <2>3. queue' \in Seq(Item) /\ Len(queue') <= Len(queue) + 1
    BY <1>1, <2>2, PutOne
  <2>4. Len(queue) \in Nat /\ Len(queue') \in Nat
    BY <1>1, <2>3, LenProperties
  <2>5. Len(queue') <= Pending
    BY <1>2, <2>2, <2>3, <2>4
  <2>. QED
    BY <1>1, <1>5, <2>1, <2>3, <2>5 DEF LimitInv, Typed, WithinLimits
<1>9. CASE FailureTimesOut
  <2>1. UNCHANGED << out, received, queue, published >> /\ hand' = << >>
    BY <1>9 DEF FailureTimesOut, asking
  <2>. QED
    BY <1>1, <1>5, <2>1 DEF LimitInv, Typed, WithinLimits
<1>. QED
  BY <1>6, <1>7, <1>8, <1>9 DEF Reader

LEMMA LimitQuestion == LimitInv /\ Question => LimitInv'
<1>. SUFFICES ASSUME LimitInv, Question PROVE LimitInv'
  OBVIOUS
<1>1. /\ out \in Seq(Message) /\ hand \in Seq(Item) /\ Len(hand) <= 1
      /\ received \in Nat /\ queue \in Seq(Item) /\ published \in Seq(Message)
      /\ Len(queue) <= Pending /\ Len(published) <= Pending /\ received <= ByteMax + 1
  BY DEF LimitInv, Typed, WithinLimits
<1>2. UNCHANGED << out, hand, received >>
  <2>1. UNCHANGED << out, thread >>
    BY DEF Question, Request, Notify, Conclude, Deadline, TakeFailure, TakeAsk, TakePublish,
           TakeBadPublish, TakeAnswer, DropResponse
  <2>. QED
    BY <2>1 DEF thread
<1>3. queue' \in Seq(Item) /\ Len(queue') <= Pending
  <2>1. CASE Request \/ Notify \/ Conclude \/ Deadline
    <3>1. queue' = queue
      BY <2>1 DEF Request, Notify, Conclude, Deadline
    <3>. QED
      BY <1>1, <3>1
  <2>2. CASE TakeFailure \/ TakeAsk \/ TakePublish \/ TakeBadPublish \/ TakeAnswer \/ DropResponse
    <3>1. queue # << >> /\ queue' = Tail(queue)
      BY <2>2 DEF TakeFailure, TakeAsk, TakePublish, TakeBadPublish, TakeAnswer,
                  DropResponse, Receive
    <3>. QED
      BY <3>1, Shrinks
  <2>. QED
    BY <2>1, <2>2 DEF Question
<1>4. published' \in Seq(Message) /\ Len(published') <= Pending
  <2>1. CASE TakePublish
    <3>1. PICK own \in BOOLEAN, ds \in SUBSET Diags :
             \/ published' = published
             \/ /\ ~(Len(published) >= Pending)
                /\ published' = Append(published, Publish(own, ds))
      BY <2>1 DEF TakePublish
    <3>2. Publish(own, ds) \in Message
      BY DEF Message
    <3>3. /\ Append(published, Publish(own, ds)) \in Seq(Message)
          /\ Len(Append(published, Publish(own, ds))) = Len(published) + 1
      BY <1>1, <3>2, AddOne
    <3>4. Len(published) \in Nat /\ Pending \in Nat
      BY <1>1, LenProperties, QueryAssumption
    <3>5. CASE published' = published
      BY <1>1, <3>5
    <3>6. CASE /\ ~(Len(published) >= Pending)
               /\ published' = Append(published, Publish(own, ds))
      <4>1. published' \in Seq(Message) /\ Len(published') = Len(published) + 1
        BY <3>3, <3>6
      <4>2. Len(published) + 1 <= Pending
        BY <3>4, <3>6
      <4>. QED
        BY <4>1, <4>2
    <3>. QED
      BY <3>1, <3>5, <3>6
  <2>2. CASE ~TakePublish
    <3>1. published' = published
      BY <2>2 DEF Question, Request, Notify, Conclude, Deadline, TakeFailure, TakeAsk,
                  TakeBadPublish, TakeAnswer, DropResponse
    <3>. QED
      BY <1>1, <3>1
  <2>. QED
    BY <2>1, <2>2
<1>. QED
  BY <1>1, <1>2, <1>3, <1>4 DEF LimitInv, Typed, WithinLimits

LEMMA LimitNext == LimitInv /\ [Next]_vars => LimitInv'
<1>. SUFFICES ASSUME LimitInv, [Next]_vars PROVE LimitInv'
  OBVIOUS
<1>1. CASE Emit
  <2>1. PICK m \in Talk : out' = Append(out, m)
    BY <1>1 DEF Emit
  <2>2. m \in Message
    BY QueryAssumption
  <2>3. out' \in Seq(Message)
    BY <2>1, <2>2, AddOne DEF LimitInv, Typed
  <2>4. UNCHANGED << hand, received, queue, published >>
    BY <1>1 DEF Emit, thread, asking
  <2>. QED
    BY <2>3, <2>4 DEF LimitInv, Typed, WithinLimits
<1>2. CASE Reader
  BY <1>2, LimitReader
<1>3. CASE Question
  BY <1>3, LimitQuestion
<1>4. CASE ServerExit \/ Close \/ UNCHANGED vars
  <2>1. UNCHANGED << out, hand, received, queue, published >>
    BY <1>4 DEF ServerExit, Close, Terminate, Wait, KillGroup, CloseStdin, CloseStdout, Join,
                vars, thread, asking
  <2>. QED
    BY <2>1 DEF LimitInv, Typed, WithinLimits
<1>. QED
  BY <1>1, <1>2, <1>3, <1>4 DEF Next

THEOREM StaysWithinLimits == Spec => []WithinLimits
<1>1. LimitInv => WithinLimits
  BY DEF LimitInv
<1>. QED
  BY LimitInit, LimitNext, <1>1, PTL DEF Spec

(***************************************************************************)
(* When the query has exited no server is left behind, unless the kernel   *)
(* refused to signal it (ServerIsGone): every way out goes through close.  *)
(***************************************************************************)
THEOREM LeavesNoServer == Spec => []ServerIsGone
<1>1. Init => GoneInv
  BY DEF Init, GoneInv, Killed
<1>2. GoneInv /\ [Next]_vars => GoneInv'
  <2>. SUFFICES ASSUME GoneInv, [Next]_vars PROVE GoneInv'
    OBVIOUS
  <2>1. CASE Emit \/ ServerExit \/ Reader \/ UNCHANGED vars
    <3>1. pc' = pc /\ denied' = denied
      BY <2>1 DEF Emit, ServerExit, Reader, Read, ReadEnd, PutMessage, PutTimesOut, PutFailure,
                  FailureTimesOut, vars, ending
    <3>2. server' = server \/ server' = "down"
      BY <2>1 DEF Emit, ServerExit, Reader, Read, ReadEnd, PutMessage, PutTimesOut, PutFailure,
                  FailureTimesOut, vars, world
    <3>. QED
      BY <3>1, <3>2 DEF GoneInv
  <2>2. CASE Question
    <3>1. pc' \in {"await", "request", "notify", "collect", "term"}
      BY <2>2 DEF Question, Request, Notify, Conclude, Deadline, TakeFailure, TakeAsk,
                  TakePublish, TakeBadPublish, TakeAnswer, DropResponse, Receive, Send, Raise,
                  Answered
    <3>. QED
      BY <3>1 DEF GoneInv, Killed
  <2>3. CASE Terminate \/ Wait
    BY <2>3 DEF Terminate, Wait, GoneInv, Killed
  <2>4. CASE KillGroup
    BY <2>4 DEF KillGroup, GoneInv, Killed, ending
  <2>5. CASE CloseStdin \/ CloseStdout \/ Join
    BY <2>5 DEF CloseStdin, CloseStdout, Join, GoneInv, Killed, ending, world
  <2>. QED
    BY <2>1, <2>2, <2>3, <2>4, <2>5 DEF Next, Close
<1>3. GoneInv => ServerIsGone
  BY DEF GoneInv, Killed, ServerIsGone
<1>. QED
  BY <1>1, <1>2, <1>3, PTL DEF Spec

(***************************************************************************)
(* A finite set of numbers that is not empty has a greatest one.           *)
(***************************************************************************)
LEMMA MaxIsIn ==
  ASSUME NEW n \in Nat, NEW T \in SUBSET (1..n), T # {}
  PROVE  Max(T) \in T
<1>. DEFINE D == {n - i : i \in T}
<1>1. D \subseteq Nat /\ D # {}
  <2>1. \A i \in T : i \in Int /\ n - i \in Nat
    OBVIOUS
  <2>. QED
    BY <2>1
<1>2. PICK d \in D : \A e \in D : d <= e
  BY <1>1, LeastNatural
<1>3. PICK k \in T : d = n - k
  BY <1>2
<1>4. \A i \in T : n - k <= n - i
  BY <1>2, <1>3
<1>5. \A i \in T : k >= i
  BY <1>4
<1>. QED
  BY <1>5 DEF Max

(***************************************************************************)
(* The client's program counter, its request's id and its outcome go       *)
(* together; what it keeps of the notifications are publications.          *)
(***************************************************************************)
Publishes == {Publish(own, ds) : own \in BOOLEAN, ds \in SUBSET Diags}

Asking == {"request", "await", "notify", "collect"}

ControlInv ==
  /\ pc \in Asking <=> outcome = "none"
  /\ pc = "request" => counter \in {0, 1}
  /\ pc = "await" => counter \in {1, 2}
  /\ pc \in {"notify", "collect"} => counter = 1
  /\ published \in Seq(Publishes)

TypeInv == TypeOK /\ ControlInv

LEMMA TypeInit == Init => TypeInv
<1>. SUFFICES ASSUME Init PROVE TypeInv
  OBVIOUS
<1>1. << >> \in Seq(Message) /\ << >> \in Seq(Message \cup Failures) /\ << >> \in Seq(Publishes)
      /\ Len(<< >>) = 0
  OBVIOUS
<1>2. ControlInv
  BY <1>1 DEF Init, ControlInv, Asking
<1>3. helper \in BOOLEAN
  BY DEF Init
<1>4. /\ server \in {"up", "down"} /\ rpc = "reading" /\ received \in Nat /\ kept \in Nat
      /\ pc = "request" /\ action \in {"diagnostics", "navigation"}
      /\ counter \in 0..2 /\ outcome = "none" /\ result = {} /\ code = NoCode
  BY SMT DEF Init
<1>5. provider \in BOOLEAN /\ writing \in BOOLEAN /\ closed \in BOOLEAN /\ denied \in BOOLEAN
  BY Zenon DEF Init
<1>6. /\ out \in Seq(Message) /\ sent \in Seq(Message) /\ heard \in Seq(Message \cup Failures)
      /\ hand \in Seq(Message \cup Failures) /\ Len(hand) <= 1
      /\ queue \in Seq(Message \cup Failures) /\ published \in Seq(Message)
  BY <1>1 DEF Init
<1>7. TypeOK
  BY <1>3, <1>4, <1>5, <1>6 DEF TypeOK
<1>. QED
  BY <1>2, <1>7 DEF TypeInv

(***************************************************************************)
(* What an element that is taken adds to what was heard.                   *)
(***************************************************************************)
LEMMA HeardType ==
  ASSUME TypeInv, NEW m, Receive(m)
  PROVE  /\ m \in Item /\ heard' = Append(heard, m) /\ heard' \in Seq(Item)
         /\ pc \in {"await", "collect"}
<1>1. queue \in Seq(Item) /\ heard \in Seq(Item)
  BY DEF TypeInv, TypeOK, Item
<1>2. queue # << >> /\ m = Head(queue) /\ heard' = Append(heard, m) /\ pc \in {"await", "collect"}
  BY DEF Receive
<1>3. m \in Item
  BY <1>1, <1>2, TakeOne
<1>. QED
  BY <1>1, <1>2, <1>3, AddOne

(***************************************************************************)
(* What a step of the client establishes of its own variables.             *)
(***************************************************************************)
ClientTyped ==
  /\ pc \in Asking \cup {"term"}
  /\ provider \in BOOLEAN /\ writing \in BOOLEAN
  /\ counter \in 0..2
  /\ outcome \in {"none", "complete", "unverified", "error", "budget"}
  /\ result \in SUBSET Diags
  /\ heard \in Seq(Item)
  /\ ControlInv

LEMMA ClientQuestion == TypeInv /\ Question => ClientTyped'
<1>. SUFFICES ASSUME TypeInv, Question PROVE ClientTyped'
  OBVIOUS
<1>1. /\ pc \in Asking => outcome = "none"
      /\ provider \in BOOLEAN /\ writing \in BOOLEAN /\ counter \in 0..2
      /\ outcome \in {"none", "complete", "unverified", "error", "budget"}
      /\ result \in SUBSET Diags /\ heard \in Seq(Item)
      /\ pc = "request" => counter \in {0, 1}
      /\ pc = "await" => counter \in {1, 2}
      /\ pc \in {"notify", "collect"} => counter = 1
      /\ published \in Seq(Publishes)
  BY DEF TypeInv, TypeOK, ControlInv, Item
<1>2. Severe \subseteq Diags
  BY QueryAssumption
<1>. USE DEF ClientTyped, ControlInv, Asking
<1>3. CASE Request
  <2>1. /\ pc = "request" /\ counter' = counter + 1
        /\ UNCHANGED << provider, published, result, heard >>
    BY <1>3 DEF Request
  <2>2. counter' \in {1, 2} /\ outcome = "none"
    BY <1>1, <2>1
  <2>3. /\ (pc' = "await" /\ outcome' = outcome) \/ (pc' = "term" /\ outcome' = "error")
        /\ writing' \in BOOLEAN
    BY <1>1, <1>3 DEF Request, Send, Raise
  <2>. QED
    BY <1>1, <2>1, <2>2, <2>3
<1>4. CASE Notify
  BY <1>1, <1>4 DEF Notify, Send, Raise
<1>5. CASE Deadline
  BY <1>1, <1>5 DEF Deadline, Raise
<1>6. CASE Conclude
  <2>1. /\ pc = "collect" /\ Own # {} /\ pc' = "term" /\ outcome' = "unverified"
        /\ result' = published[Max(Own)].items \cup EarlierErrors
        /\ UNCHANGED << provider, counter, published, writing, heard >>
    BY <1>6 DEF Conclude
  <2>2. Len(published) \in Nat /\ DOMAIN published = 1..Len(published)
        /\ \A i \in 1..Len(published) : published[i] \in Publishes
    BY <1>1, LenProperties, ElementOfSeq
  <2>3. Own \subseteq 1..Len(published)
    BY <2>2 DEF Own
  <2>4. Max(Own) \in Own
    BY <2>1, <2>2, <2>3, MaxIsIn
  <2>5. published[Max(Own)] \in Publishes
    BY <2>2, <2>3, <2>4
  <2>6. \A m \in Publishes : m.items \subseteq Diags
    BY DEF Publishes, Publish
  <2>7. EarlierErrors \subseteq Diags
    BY <1>2 DEF EarlierErrors
  <2>8. result' \in SUBSET Diags
    BY <2>1, <2>5, <2>6, <2>7
  <2>. QED
    BY <1>1, <2>1, <2>8
<1>7. CASE TakeFailure
  <2>1. PICK why \in {"error", "budget"} :
           Receive(Failure(why)) /\ Raise(why) /\ UNCHANGED << provider, counter, published, result >>
    BY <1>7 DEF TakeFailure
  <2>2. heard' \in Seq(Item)
    BY <2>1, HeardType
  <2>. QED
    BY <1>1, <2>1, <2>2 DEF Raise
<1>8. CASE TakeAsk
  <2>1. PICK known \in BOOLEAN :
           /\ Receive(Ask(known))
           /\ (IF known THEN Send(pc) ELSE Raise("error"))
           /\ UNCHANGED << provider, counter, published, result >>
    BY <1>8 DEF TakeAsk
  <2>2. heard' \in Seq(Item) /\ pc \in {"await", "collect"}
    BY <2>1, HeardType
  <2>. QED
    BY <1>1, <2>1, <2>2 DEF Raise, Send
<1>9. CASE TakePublish
  <2>1. PICK own \in BOOLEAN, ds \in SUBSET Diags :
           /\ Receive(Publish(own, ds))
           /\ IF Len(published) >= Pending
                THEN Raise("budget") /\ UNCHANGED published
                ELSE /\ published' = Append(published, Publish(own, ds))
                     /\ UNCHANGED << pc, outcome, writing >>
           /\ UNCHANGED << provider, counter, result >>
    BY <1>9 DEF TakePublish
  <2>2. heard' \in Seq(Item) /\ pc \in {"await", "collect"}
    BY <2>1, HeardType
  <2>3. Publish(own, ds) \in Publishes
    BY DEF Publishes
  <2>4. Append(published, Publish(own, ds)) \in Seq(Publishes)
    BY <1>1, <2>3, AddOne
  <2>5. published' \in Seq(Publishes)
    BY <1>1, <2>1, <2>4
  <2>. QED
    BY <1>1, <2>1, <2>2, <2>5 DEF Raise
<1>10. CASE TakeBadPublish
  <2>1. heard' \in Seq(Item)
    BY <1>10, HeardType DEF TakeBadPublish
  <2>. QED
    BY <1>1, <1>10, <2>1 DEF TakeBadPublish, Raise
<1>11. CASE TakeAnswer
  <2>1. PICK n \in {1, 2}, a \in Says :
           /\ pc = "await" /\ Receive(Response(n, a))
           /\ (IF n = counter /\ a \in Accepted(n)
                THEN Answered(n, a)
                ELSE Raise("error") /\ UNCHANGED << provider, result >>)
           /\ UNCHANGED << counter, published >>
    BY <1>11 DEF TakeAnswer
  <2>2. heard' \in Seq(Item)
    BY <2>1, HeardType
  <2>3. CASE n = counter /\ a \in Accepted(n)
    <3>1. Answered(n, a)
      BY <2>1, <2>3
    <3>. QED
      BY <1>1, <1>2, <2>1, <2>2, <2>3, <3>1 DEF Answered
  <2>4. CASE ~(n = counter /\ a \in Accepted(n))
    BY <1>1, <2>1, <2>2, <2>4 DEF Raise
  <2>. QED
    BY <2>3, <2>4
<1>12. CASE DropResponse
  <2>1. PICK n \in {1, 2}, a \in Says : pc = "collect" /\ Receive(Response(n, a))
    BY <1>12 DEF DropResponse
  <2>2. heard' \in Seq(Item)
    BY <2>1, HeardType
  <2>3. UNCHANGED << pc, provider, counter, published, writing, outcome, result >>
    BY <1>12 DEF DropResponse
  <2>. QED
    BY <1>1, <2>1, <2>2, <2>3
<1>. QED
  BY <1>3, <1>4, <1>5, <1>6, <1>7, <1>8, <1>9, <1>10, <1>11, <1>12 DEF Question

(***************************************************************************)
(* Every variable has its type (TypeOK).                                   *)
(***************************************************************************)
LEMMA TypeNext == TypeInv /\ LimitInv /\ [Next]_vars => TypeInv'
<1>. SUFFICES ASSUME TypeInv, LimitInv, [Next]_vars PROVE TypeInv'
  OBVIOUS
<1>1. TypeOK /\ ControlInv /\ LimitInv'
  BY LimitNext DEF TypeInv
<1>2. /\ out' \in Seq(Message) /\ hand' \in Seq(Message \cup Failures) /\ Len(hand') <= 1
      /\ received' \in Nat /\ queue' \in Seq(Message \cup Failures) /\ published' \in Seq(Message)
  BY <1>1 DEF LimitInv, Typed, Item
<1>3. CASE Emit
  <2>1. PICK m \in Talk : sent' = Append(sent, m)
    BY <1>3 DEF Emit
  <2>2. m \in Message
    BY QueryAssumption
  <2>3. sent' \in Seq(Message)
    BY <1>1, <2>1, <2>2, AddOne DEF TypeOK
  <2>4. UNCHANGED << server, helper, rpc, kept, pc, asking, ending >>
    BY <1>3 DEF Emit, thread
  <2>. QED
    BY <1>1, <1>2, <2>3, <2>4 DEF TypeInv, TypeOK, ControlInv, asking, ending
<1>4. CASE ServerExit \/ UNCHANGED vars
  <2>1. server' \in {"up", "down"}
    BY <1>1, <1>4 DEF ServerExit, vars, world, TypeOK
  <2>2. UNCHANGED << helper, sent, rpc, kept, pc, asking, ending >>
    BY <1>4 DEF ServerExit, vars, world, thread
  <2>. QED
    BY <1>1, <1>2, <2>1, <2>2 DEF TypeInv, TypeOK, ControlInv, asking, ending
<1>5. CASE Reader
  <2>1. UNCHANGED << world, pc, asking, ending >>
    BY <1>5 DEF Reader, Read, ReadEnd, PutMessage, PutTimesOut, PutFailure, FailureTimesOut
  <2>2. rpc' \in {"reading", "putting", "failing", "ended"} /\ kept' \in Nat
    <3>1. rpc \in {"reading", "putting", "failing", "ended"} /\ kept \in Nat
      BY <1>1 DEF TypeOK
    <3>2. CASE Read
      <4>1. CASE Stop("budget") /\ kept' = kept
        BY <3>1, <4>1 DEF Stop
      <4>2. CASE Accept(Head(out))
        <5>1. rpc' \in {rpc, "putting", "failing"} /\ kept' \in {kept, kept + 1}
          BY <4>2 DEF Accept, Put, Stop
        <5>. QED
          BY <3>1, <5>1
      <4>. QED
        BY <3>2, <4>1, <4>2 DEF Read
    <3>3. CASE ReadEnd \/ PutMessage \/ PutTimesOut \/ PutFailure \/ FailureTimesOut
      BY <3>1, <3>3 DEF ReadEnd, PutMessage, PutTimesOut, PutFailure, FailureTimesOut, Stop
    <3>. QED
      BY <1>5, <3>2, <3>3 DEF Reader
  <2>. QED
    BY <1>1, <1>2, <2>1, <2>2 DEF TypeInv, TypeOK, ControlInv, world, asking, ending
<1>6. CASE Question
  <2>1. ClientTyped'
    BY <1>6, ClientQuestion
  <2>2. UNCHANGED << world, rpc, kept, ending, action >>
    BY <1>6 DEF Question, Request, Notify, Conclude, Deadline, TakeFailure, TakeAsk, TakePublish,
                TakeBadPublish, TakeAnswer, DropResponse, thread
  <2>. QED
    BY <1>1, <1>2, <2>1, <2>2
    DEF TypeInv, TypeOK, ClientTyped, Asking, Item, world, ending
<1>7. CASE Close
  <2>1. UNCHANGED << helper, sent, rpc, kept, asking >>
    BY <1>7 DEF Close, Terminate, Wait, KillGroup, CloseStdin, CloseStdout, Join, world, thread
  <2>2. server' \in {"up", "down"}
    BY <1>1, <1>7 DEF Close, Terminate, Wait, KillGroup, CloseStdin, CloseStdout, Join, world, TypeOK
  <2>3. closed' \in BOOLEAN /\ denied' \in BOOLEAN
    BY <1>1, <1>7 DEF Close, Terminate, Wait, KillGroup, CloseStdin, CloseStdout, Join, ending, TypeOK
  <2>4. pc \notin Asking /\ pc' \notin Asking
        /\ pc' \in {"wait", "kill", "stdin", "stdout", "join", "done"}
    BY <1>7 DEF Close, Terminate, Wait, KillGroup, CloseStdin, CloseStdout, Join, Asking
  <2>5. code' \in {0, 1, 2, NoCode}
    <3>1. CASE Join
      <4>1. outcome \in {"complete", "unverified", "error", "budget"} /\ denied \in BOOLEAN
        BY <1>1, <2>4 DEF TypeOK, ControlInv
      <4>2. ExitCode \in {0, 1, 2}
        BY <4>1 DEF ExitCode
      <4>. QED
        BY <3>1, <4>2 DEF Join
    <3>2. CASE ~Join
      BY <1>1, <1>7, <3>2 DEF Close, Terminate, Wait, KillGroup, CloseStdin, CloseStdout, ending, TypeOK
    <3>. QED
      BY <3>1, <3>2
  <2>6. ControlInv'
    BY <1>1, <2>1, <2>4 DEF ControlInv, Asking, asking
  <2>. QED
    BY <1>1, <1>2, <2>1, <2>2, <2>3, <2>4, <2>5, <2>6 DEF TypeInv, TypeOK, asking
<1>. QED
  BY <1>3, <1>4, <1>5, <1>6, <1>7 DEF Next

THEOREM QueryTypes == Spec => []TypeOK
<1>1. TypeInv => TypeOK
  BY DEF TypeInv
<1>. QED
  BY TypeInit, TypeNext, LimitInit, LimitNext, <1>1, PTL DEF Spec

(***************************************************************************)
(* One element more: where it is, and what it adds to a count.             *)
(***************************************************************************)
LEMMA OneMore ==
  ASSUME NEW A, NEW s \in Seq(A), NEW x \in A
  PROVE  /\ Len(s) \in Nat /\ Len(Append(s, x)) = Len(s) + 1
         /\ DOMAIN s = 1..Len(s) /\ DOMAIN Append(s, x) = 1..(Len(s) + 1)
         /\ \A i \in 1..Len(s) : Append(s, x)[i] = s[i]
         /\ Append(s, x)[Len(s) + 1] = x
  BY AppendProperties, LenProperties

LEMMA CountAppend ==
  ASSUME NEW A, NEW S, NEW s \in Seq(A), NEW x \in A
  PROVE  /\ Count(s, S) \in Nat
         /\ Count(Append(s, x), S) = IF x \in S THEN Count(s, S) + 1 ELSE Count(s, S)
<1>. DEFINE u == Append(s, x)
            k == Len(s)
            I == {i \in DOMAIN s : s[i] \in S}
            J == {i \in DOMAIN u : u[i] \in S}
<1>1. /\ k \in Nat /\ DOMAIN s = 1..k /\ DOMAIN u = 1..(k + 1)
      /\ \A i \in 1..k : u[i] = s[i]
      /\ u[k + 1] = x
  BY OneMore
<1>2. IsFiniteSet(I)
  <2>1. IsFiniteSet(1..k)
    BY <1>1, FS_Interval
  <2>. QED
    BY <1>1, <2>1, FS_Subset
<1>3. J = IF x \in S THEN I \cup {k + 1} ELSE I
  <2>. HIDE DEF u
  <2>. QED
    BY <1>1
<1>4. k + 1 \notin I
  BY <1>1
<1>. HIDE DEF I, J, u
<1>5. Cardinality(I) \in Nat /\ Cardinality(I \cup {k + 1}) = Cardinality(I) + 1
  BY <1>2, <1>4, FS_CardinalityType, FS_AddElement
<1>6. Count(s, S) = Cardinality(I) /\ Count(u, S) = Cardinality(J)
  BY DEF Count, I, J
<1>. QED
  BY <1>3, <1>5, <1>6 DEF u

(***************************************************************************)
(* Which responses the client has taken: none before the answer to its     *)
(* first request, and then that one until the answer to the question.      *)
(***************************************************************************)
Responses == {i \in DOMAIN heard : heard[i].kind = "response"}

Introduced ==
  \E first \in DOMAIN heard :
    Responses = {first} /\ heard[first].id = 1 /\ heard[first].says \in Accepted(1)

ReplyInv ==
  /\ pc = "request" /\ counter = 0 => Responses = {}
  /\ pc = "await" /\ counter = 1 => Responses = {}
  /\ pc = "request" /\ counter = 1 => Introduced
  /\ pc = "await" /\ counter = 2 => Introduced
  /\ pc = "notify" => Introduced
  /\ AnswersMatch

LEMMA RepliesStay ==
  ASSUME UNCHANGED heard
  PROVE  /\ Responses' = Responses /\ (Introduced => Introduced')
         /\ outcome' = outcome => (AnswersMatch => AnswersMatch')
  BY DEF Responses, Introduced, AnswersMatch

LEMMA OtherHeard ==
  ASSUME heard \in Seq(Item), NEW m \in Item, heard' = Append(heard, m), m.kind # "response"
  PROVE  Responses' = Responses /\ (Introduced => Introduced')
<1>1. /\ Len(heard) \in Nat /\ DOMAIN heard = 1..Len(heard) /\ DOMAIN heard' = 1..(Len(heard) + 1)
      /\ \A i \in 1..Len(heard) : heard'[i] = heard[i]
      /\ heard'[Len(heard) + 1] = m
  BY OneMore
<1>2. Responses' = Responses
  BY <1>1 DEF Responses
<1>. QED
  BY <1>1, <1>2 DEF Introduced

LEMMA ResponseHeard ==
  ASSUME heard \in Seq(Item), NEW n \in {1, 2}, NEW a \in Says,
         heard' = Append(heard, Response(n, a)), a \in Accepted(n)
  PROVE  /\ n = 1 /\ Responses = {} => Introduced'
         /\ n = 2 /\ Introduced => AnswersMatch'
<1>. DEFINE m == Response(n, a)
<1>1. m \in Item /\ m.kind = "response" /\ m.id = n /\ m.says = a
  BY DEF Item, Message, Response
<1>. HIDE DEF m
<1>2. /\ Len(heard) \in Nat /\ Len(heard') = Len(heard) + 1
      /\ DOMAIN heard = 1..Len(heard) /\ DOMAIN heard' = 1..(Len(heard) + 1)
      /\ \A i \in 1..Len(heard) : heard'[i] = heard[i]
      /\ heard'[Len(heard) + 1] = m
  BY <1>1, OneMore DEF m
<1>3. Responses' = Responses \cup {Len(heard) + 1}
  BY <1>1, <1>2 DEF Responses
<1>4. ASSUME n = 1, Responses = {} PROVE Introduced'
  BY <1>1, <1>2, <1>3, <1>4 DEF Introduced
<1>5. ASSUME n = 2, Introduced PROVE AnswersMatch'
  <2>1. PICK first \in DOMAIN heard :
          Responses = {first} /\ heard[first].id = 1 /\ heard[first].says \in Accepted(1)
    BY <1>5 DEF Introduced
  <2>2. /\ first \in DOMAIN heard' /\ Len(heard) + 1 \in DOMAIN heard'
        /\ first < Len(heard) + 1 /\ heard'[first] = heard[first]
        /\ {i \in DOMAIN heard' : heard'[i].kind = "response"} = {first, Len(heard) + 1}
    BY <1>2, <1>3, <2>1 DEF Responses
  <2>. QED
    BY <1>1, <1>2, <1>5, <2>1, <2>2 DEF AnswersMatch
<1>. QED
  BY <1>4, <1>5

LEMMA ReplyNext == TypeInv /\ ReplyInv /\ [Next]_vars => ReplyInv'
<1>. SUFFICES ASSUME TypeInv, ReplyInv, [Next]_vars PROVE ReplyInv'
  OBVIOUS
<1>1. /\ pc \in Asking <=> outcome = "none"
      /\ pc \in {"notify", "collect"} => counter = 1
      /\ counter \in 0..2 /\ heard \in Seq(Item)
  BY DEF TypeInv, TypeOK, ControlInv, Item
<1>2. CASE Emit \/ ServerExit \/ Reader \/ UNCHANGED vars
  <2>1. UNCHANGED << pc, counter, outcome, heard >>
    BY <1>2 DEF Emit, ServerExit, Reader, Read, ReadEnd, PutMessage, PutTimesOut, PutFailure,
                FailureTimesOut, vars, asking
  <2>. QED
    BY <2>1, RepliesStay DEF ReplyInv
<1>3. CASE Close
  <2>1. UNCHANGED << outcome, heard >>
    BY <1>3 DEF Close, Terminate, Wait, KillGroup, CloseStdin, CloseStdout, Join, asking
  <2>2. pc' \notin Asking
    BY <1>3 DEF Close, Terminate, Wait, KillGroup, CloseStdin, CloseStdout, Join, Asking
  <2>. QED
    BY <2>1, <2>2, RepliesStay DEF ReplyInv, Asking
<1>4. ASSUME pc' = "term", outcome' \in {"error", "budget", "unverified"} PROVE ReplyInv'
  BY <1>4 DEF ReplyInv, AnswersMatch
<1>5. \A next, why : /\ Send(next) => \/ pc' = next /\ outcome' = outcome
                                      \/ pc' = "term" /\ outcome' = "error"
                     /\ Raise(why) => pc' = "term" /\ outcome' = why
  BY DEF Send, Raise
<1>6. ASSUME Question PROVE ReplyInv'
  <2>1. CASE Request
    <3>1. /\ pc = "request" /\ counter' = counter + 1 /\ UNCHANGED heard
          /\ \/ pc' = "await" /\ outcome' = outcome
             \/ pc' = "term" /\ outcome' = "error"
      BY <1>5, <2>1 DEF Request
    <3>2. /\ Responses' = Responses /\ (Introduced => Introduced')
          /\ outcome' = outcome => (AnswersMatch => AnswersMatch')
      BY <3>1, RepliesStay
    <3>3. (counter = 0 /\ counter' = 1) \/ (counter = 1 /\ counter' = 2)
      BY <1>1, <3>1 DEF TypeInv, ControlInv
    <3>4. CASE pc' = "await" /\ outcome' = outcome
      BY <3>1, <3>2, <3>3, <3>4 DEF ReplyInv
    <3>. QED
      BY <1>4, <3>1, <3>4
  <2>2. CASE Notify
    <3>1. /\ pc = "notify" /\ UNCHANGED << counter, heard >>
          /\ \/ pc' \in {"collect", "request"} /\ outcome' = outcome
             \/ pc' = "term" /\ outcome' = "error"
      BY <1>5, <2>2 DEF Notify
    <3>2. /\ Responses' = Responses /\ (Introduced => Introduced')
          /\ outcome' = outcome => (AnswersMatch => AnswersMatch')
      BY <3>1, RepliesStay
    <3>3. CASE pc' \in {"collect", "request"} /\ outcome' = outcome
      BY <1>1, <3>1, <3>2, <3>3 DEF ReplyInv
    <3>. QED
      BY <1>4, <3>1, <3>3
  <2>3. CASE Deadline \/ Conclude \/ TakeFailure \/ TakeBadPublish
    <3>1. pc' = "term" /\ outcome' \in {"error", "budget", "unverified"}
      BY <2>3 DEF Deadline, Conclude, TakeFailure, TakeBadPublish, Raise
    <3>. QED
      BY <1>4, <3>1
  <2>4. CASE TakeAsk
    <3>1. PICK known \in BOOLEAN :
             /\ Receive(Ask(known))
             /\ (IF known THEN Send(pc) ELSE Raise("error"))
             /\ UNCHANGED counter
      BY <2>4 DEF TakeAsk
    <3>2. Ask(known).kind # "response"
      BY DEF Ask
    <3>3. Responses' = Responses /\ (Introduced => Introduced') /\ pc \in {"await", "collect"}
      BY <1>1, <3>1, <3>2, HeardType, OtherHeard
    <3>4. \/ pc' = pc /\ outcome' = outcome
          \/ pc' = "term" /\ outcome' = "error"
      BY <1>5, <3>1
    <3>. QED
      BY <1>1, <1>4, <3>1, <3>3, <3>4 DEF ReplyInv, AnswersMatch, Asking
  <2>5. CASE TakePublish
    <3>1. PICK own \in BOOLEAN, ds \in SUBSET Diags :
             /\ Receive(Publish(own, ds))
             /\ Raise("budget") \/ UNCHANGED << pc, outcome >>
             /\ UNCHANGED counter
      BY <2>5 DEF TakePublish
    <3>2. Publish(own, ds).kind # "response"
      BY DEF Publish
    <3>3. Responses' = Responses /\ (Introduced => Introduced') /\ pc \in {"await", "collect"}
      BY <1>1, <3>1, <3>2, HeardType, OtherHeard
    <3>4. \/ pc' = pc /\ outcome' = outcome
          \/ pc' = "term" /\ outcome' = "budget"
      BY <1>5, <3>1
    <3>. QED
      BY <1>1, <1>4, <3>1, <3>3, <3>4 DEF ReplyInv, AnswersMatch, Asking
  <2>6. CASE TakeAnswer
    <3>1. PICK n \in {1, 2}, a \in Says :
             /\ pc = "await" /\ Receive(Response(n, a))
             /\ (IF n = counter /\ a \in Accepted(n)
                  THEN Answered(n, a)
                  ELSE Raise("error") /\ UNCHANGED << provider, result >>)
             /\ UNCHANGED counter
      BY <2>6 DEF TakeAnswer
    <3>2. heard' = Append(heard, Response(n, a))
      BY <3>1, HeardType
    <3>3. CASE n = counter /\ a \in Accepted(n)
      <4>1. Answered(n, a)
        BY <3>1, <3>3
      <4>2. CASE n = 1
        <5>1. Introduced'
          BY <1>1, <3>1, <3>2, <3>3, <4>2, ResponseHeard DEF ReplyInv
        <5>2. pc' = "notify" /\ outcome' = outcome
          BY <4>1, <4>2 DEF Answered
        <5>. QED
          BY <1>1, <3>1, <5>1, <5>2 DEF ReplyInv, AnswersMatch, Asking
      <4>3. CASE n = 2
        <5>1. AnswersMatch'
          BY <1>1, <3>1, <3>2, <3>3, <4>3, ResponseHeard DEF ReplyInv
        <5>2. pc' = "term"
          BY <4>1, <4>3 DEF Answered
        <5>. QED
          BY <5>1, <5>2 DEF ReplyInv
      <4>. QED
        BY <4>2, <4>3
    <3>4. CASE ~(n = counter /\ a \in Accepted(n))
      BY <1>4, <1>5, <3>1, <3>4
    <3>. QED
      BY <3>3, <3>4
  <2>7. CASE DropResponse
    <3>1. pc = "collect" /\ UNCHANGED << pc, outcome >>
      BY <2>7 DEF DropResponse
    <3>. QED
      BY <1>1, <3>1 DEF ReplyInv, AnswersMatch, Asking
  <2>. QED
    BY <1>6, <2>1, <2>2, <2>3, <2>4, <2>5, <2>6, <2>7 DEF Question
<1>. QED
  BY <1>2, <1>3, <1>6 DEF Next

(***************************************************************************)
(* Every publication the client has taken is among those it keeps, and it  *)
(* keeps no more than it has taken.                                        *)
(***************************************************************************)
Kept ==
  /\ \A i \in DOMAIN heard :
       heard[i].kind = "publish" => \E j \in DOMAIN published : published[j] = heard[i]
  /\ Len(published) <= Count(heard, Publications)

PublishedInv == (pc \in Asking => Kept) /\ ErrorsSurvive

LEMMA KeptOther ==
  ASSUME heard \in Seq(Item), NEW m \in Item, heard' = Append(heard, m), m.kind # "publish",
         UNCHANGED published, published \in Seq(Publishes), Kept
  PROVE  Kept'
<1>1. /\ Len(heard) \in Nat /\ DOMAIN heard = 1..Len(heard) /\ DOMAIN heard' = 1..(Len(heard) + 1)
      /\ \A i \in 1..Len(heard) : heard'[i] = heard[i]
      /\ heard'[Len(heard) + 1] = m
  BY OneMore
<1>2. \A i \in DOMAIN heard' :
        heard'[i].kind = "publish" => \E j \in DOMAIN published' : published'[j] = heard'[i]
  BY <1>1 DEF Kept
<1>3. /\ Count(heard, Publications) \in Nat /\ Count(heard', Publications) \in Nat
      /\ Count(heard', Publications) >= Count(heard, Publications)
  <2>1. /\ Count(heard, Publications) \in Nat
        /\ Count(heard', Publications) \in {Count(heard, Publications), Count(heard, Publications) + 1}
    BY CountAppend
  <2>. QED
    BY <2>1
<1>4. Len(published) \in Nat /\ Count(heard', Publications) \in Nat
  BY <1>3, LenProperties
<1>5. Len(published)' <= Count(heard', Publications)
  BY <1>3, <1>4 DEF Kept
<1>. QED
  BY <1>2, <1>5 DEF Kept

LEMMA KeptPublish ==
  ASSUME heard \in Seq(Item), NEW m \in Publishes, heard' = Append(heard, m),
         published' = Append(published, m), published \in Seq(Publishes), Kept
  PROVE  Kept'
<1>1. m \in Item /\ m \in Publications
  <2>1. PICK own \in BOOLEAN, ds \in SUBSET Diags : m = Publish(own, ds)
    BY DEF Publishes
  <2>2. Publish(own, ds) \in Message
    BY DEF Message
  <2>3. Publish(own, ds).kind = "publish"
    BY DEF Publish
  <2>. QED
    BY <2>1, <2>2, <2>3 DEF Item, Publications
<1>2. /\ Len(heard) \in Nat /\ DOMAIN heard = 1..Len(heard) /\ DOMAIN heard' = 1..(Len(heard) + 1)
      /\ \A i \in 1..Len(heard) : heard'[i] = heard[i]
      /\ heard'[Len(heard) + 1] = m
  BY <1>1, OneMore
<1>3. /\ Len(published) \in Nat /\ Len(published') = Len(published) + 1
      /\ DOMAIN published = 1..Len(published) /\ DOMAIN published' = 1..(Len(published) + 1)
      /\ \A i \in 1..Len(published) : published'[i] = published[i]
      /\ published'[Len(published) + 1] = m
  BY OneMore
<1>4. ASSUME NEW i \in DOMAIN heard', heard'[i].kind = "publish"
      PROVE  \E j \in DOMAIN published' : published'[j] = heard'[i]
  <2>1. CASE i \in DOMAIN heard
    <3>1. PICK j \in DOMAIN published : published[j] = heard[i]
      BY <1>2, <1>4, <2>1 DEF Kept
    <3>. QED
      BY <1>2, <1>3, <2>1, <3>1
  <2>2. CASE i = Len(heard) + 1
    BY <1>2, <1>3, <2>2
  <2>. QED
    BY <1>2, <1>4, <2>1, <2>2
<1>5. /\ Count(heard, Publications) \in Nat
      /\ Count(heard', Publications) = Count(heard, Publications) + 1
  BY <1>1, CountAppend
<1>6. Len(published') <= Count(heard', Publications)
  BY <1>3, <1>5 DEF Kept
<1>. QED
  BY <1>4, <1>6 DEF Kept

LEMMA PublishedNext == TypeInv /\ PublishedInv /\ [Next]_vars => PublishedInv'
<1>. SUFFICES ASSUME TypeInv, PublishedInv, [Next]_vars PROVE PublishedInv'
  OBVIOUS
<1>1. /\ pc \in Asking <=> outcome = "none"
      /\ heard \in Seq(Item) /\ published \in Seq(Publishes)
  BY DEF TypeInv, TypeOK, ControlInv, Item
<1>2. ASSUME UNCHANGED << heard, published >> PROVE Kept => Kept'
  BY <1>2 DEF Kept
<1>3. CASE Emit \/ ServerExit \/ Reader \/ UNCHANGED vars
  <2>1. UNCHANGED << pc, outcome, result, heard, published >>
    BY <1>3 DEF Emit, ServerExit, Reader, Read, ReadEnd, PutMessage, PutTimesOut, PutFailure,
                FailureTimesOut, vars, asking
  <2>. QED
    BY <1>2, <2>1 DEF PublishedInv, ErrorsSurvive
<1>4. CASE Close
  <2>1. UNCHANGED << outcome, result, heard >>
    BY <1>4 DEF Close, Terminate, Wait, KillGroup, CloseStdin, CloseStdout, Join, asking
  <2>2. pc' \notin Asking
    BY <1>4 DEF Close, Terminate, Wait, KillGroup, CloseStdin, CloseStdout, Join, Asking
  <2>. QED
    BY <2>1, <2>2 DEF PublishedInv, ErrorsSurvive
<1>5. ASSUME pc' = "term", outcome' \in {"error", "budget", "complete"} PROVE PublishedInv'
  BY <1>5 DEF PublishedInv, ErrorsSurvive, Asking
<1>6. ASSUME Kept', pc \in Asking, outcome' = outcome PROVE PublishedInv'
  BY <1>1, <1>6 DEF PublishedInv, ErrorsSurvive
<1>7. \A next, why : /\ Send(next) => \/ outcome' = outcome
                                      \/ pc' = "term" /\ outcome' = "error"
                     /\ Raise(why) => pc' = "term" /\ outcome' = why
  BY DEF Send, Raise
<1>8. ASSUME Question PROVE PublishedInv'
  <2>1. CASE Request \/ Notify
    <3>1. /\ UNCHANGED << heard, published >> /\ pc \in Asking
          /\ \/ outcome' = outcome
             \/ pc' = "term" /\ outcome' = "error"
      BY <1>7, <2>1 DEF Request, Notify, Asking
    <3>. QED
      BY <1>2, <1>5, <1>6, <3>1 DEF PublishedInv
  <2>2. CASE Deadline \/ TakeFailure \/ TakeBadPublish
    <3>1. pc' = "term" /\ outcome' \in {"error", "budget"}
      BY <2>2 DEF Deadline, TakeFailure, TakeBadPublish, Raise
    <3>. QED
      BY <1>5, <3>1
  <2>3. CASE TakeAsk
    <3>1. PICK known \in BOOLEAN :
             /\ Receive(Ask(known))
             /\ (IF known THEN Send(pc) ELSE Raise("error"))
             /\ UNCHANGED published
      BY <2>3 DEF TakeAsk
    <3>2. Ask(known).kind # "publish"
      BY DEF Ask
    <3>3. pc \in Asking /\ (Kept => Kept')
      BY <1>1, <3>1, <3>2, HeardType, KeptOther DEF Asking
    <3>4. outcome' = outcome \/ (pc' = "term" /\ outcome' = "error")
      BY <1>7, <3>1
    <3>. QED
      BY <1>5, <1>6, <3>3, <3>4 DEF PublishedInv
  <2>4. CASE TakePublish
    <3>1. PICK own \in BOOLEAN, ds \in SUBSET Diags :
             /\ Receive(Publish(own, ds))
             /\ \/ Raise("budget")
                \/ /\ published' = Append(published, Publish(own, ds))
                   /\ UNCHANGED << pc, outcome >>
      BY <2>4 DEF TakePublish
    <3>2. heard' = Append(heard, Publish(own, ds)) /\ pc \in Asking
      BY <3>1, HeardType DEF Asking
    <3>3. CASE Raise("budget")
      BY <1>5, <1>7, <3>3
    <3>4. CASE published' = Append(published, Publish(own, ds)) /\ UNCHANGED << pc, outcome >>
      <4>1. Publish(own, ds) \in Publishes
        BY DEF Publishes
      <4>2. Kept'
        BY <1>1, <3>2, <3>4, <4>1, KeptPublish DEF PublishedInv
      <4>. QED
        BY <1>6, <3>2, <3>4, <4>2
    <3>. QED
      BY <3>1, <3>3, <3>4
  <2>5. CASE TakeAnswer
    <3>1. PICK n \in {1, 2}, a \in Says :
             /\ Receive(Response(n, a))
             /\ (Answered(n, a) \/ Raise("error"))
             /\ UNCHANGED published
      BY <2>5 DEF TakeAnswer
    <3>2. Response(n, a).kind # "publish"
      BY DEF Response
    <3>3. pc \in Asking /\ (Kept => Kept')
      BY <1>1, <3>1, <3>2, HeardType, KeptOther DEF Asking
    <3>4. outcome' = outcome \/ (pc' = "term" /\ outcome' \in {"error", "complete"})
      BY <1>7, <3>1 DEF Answered
    <3>. QED
      BY <1>5, <1>6, <3>3, <3>4 DEF PublishedInv
  <2>6. CASE DropResponse
    <3>1. PICK n \in {1, 2}, a \in Says : Receive(Response(n, a))
      BY <2>6 DEF DropResponse
    <3>2. UNCHANGED << published, outcome >>
      BY <2>6 DEF DropResponse
    <3>3. Response(n, a).kind # "publish"
      BY DEF Response
    <3>4. pc \in Asking /\ (Kept => Kept')
      BY <1>1, <3>1, <3>2, <3>3, HeardType, KeptOther DEF Asking
    <3>. QED
      BY <1>6, <3>2, <3>4 DEF PublishedInv
  <2>7. CASE Conclude
    <3>1. /\ pc \in Asking /\ pc' = "term"
          /\ result' = published[Max(Own)].items \cup EarlierErrors
          /\ UNCHANGED << published, heard >>
      BY <2>7 DEF Conclude, Asking
    <3>2. ASSUME NEW i \in DOMAIN heard, heard[i].kind = "publish", heard[i].own
          PROVE  heard[i].items \cap Severe \subseteq result'
      <4>1. PICK j \in DOMAIN published : published[j] = heard[i]
        BY <3>1, <3>2 DEF PublishedInv, Kept
      <4>2. j \in Own
        BY <3>2, <4>1 DEF Own
      <4>3. CASE j = Max(Own)
        BY <3>1, <4>1, <4>3
      <4>4. CASE j # Max(Own)
        <5>1. \A d \in published[j].items : d \in UNION {published[k].items : k \in Own \ {Max(Own)}}
          BY <4>2, <4>4
        <5>2. published[j].items \cap Severe \subseteq EarlierErrors
          BY <5>1 DEF EarlierErrors
        <5>. QED
          BY <3>1, <4>1, <5>2
      <4>. QED
        BY <4>3, <4>4
    <3>3. ErrorsSurvive'
      BY <3>1, <3>2 DEF ErrorsSurvive
    <3>. QED
      BY <3>1, <3>3 DEF PublishedInv, Asking
  <2>. QED
    BY <1>8, <2>1, <2>2, <2>3, <2>4, <2>5, <2>6, <2>7 DEF Question
<1>. QED
  BY <1>3, <1>4, <1>8 DEF Next

(***************************************************************************)
(* Messages and failures are told apart by their kind.                     *)
(***************************************************************************)
LEMMA Kinds ==
  /\ \A m \in Message : m.kind # "failure" /\ (m.kind = "log" => m = Log)
  /\ \A f \in Failures : f.kind = "failure" /\ f \notin Message
  /\ Log.kind = "log" /\ Garbage.kind = "garbage" /\ Log \in Message /\ Garbage \in Message
  /\ Failure("error") \in Failures /\ Failure("budget") \in Failures
  /\ Failure("error") # Failure("budget")
<1>1. \A m \in Message : m.kind # "failure" /\ (m.kind = "log" => m = Log)
  <2>1. /\ \A n, a : Response(n, a).kind = "response"
        /\ \A own \in BOOLEAN, ds \in SUBSET Diags : Publish(own, ds).kind = "publish"
        /\ \A known \in BOOLEAN : Ask(known).kind = "ask"
        /\ BadPublish.kind = "bad publish" /\ Log.kind = "log" /\ Garbage.kind = "garbage"
    BY DEF Response, Publish, BadPublish, Ask, Log, Garbage
  <2>2. ASSUME NEW m \in Message PROVE m.kind # "failure" /\ (m.kind = "log" => m = Log)
    <3>1. \/ m \in {Response(n, a) : n \in {1, 2}, a \in Says}
          \/ m \in {Publish(own, ds) : own \in BOOLEAN, ds \in SUBSET Diags}
          \/ m \in {BadPublish, Log, Garbage}
          \/ m \in {Ask(known) : known \in BOOLEAN}
      BY DEF Message
    <3>2. CASE m \in {Response(n, a) : n \in {1, 2}, a \in Says}
      <4>1. PICK n \in {1, 2}, a \in Says : m = Response(n, a)
        BY <3>2
      <4>. QED
        BY <4>1 DEF Response
    <3>3. CASE m \in {Publish(own, ds) : own \in BOOLEAN, ds \in SUBSET Diags}
      <4>1. PICK own \in BOOLEAN, ds \in SUBSET Diags : m = Publish(own, ds)
        BY <3>3
      <4>. QED
        BY <4>1 DEF Publish
    <3>4. CASE m \in {BadPublish, Log, Garbage}
      BY <2>1, <3>4
    <3>5. CASE m \in {Ask(known) : known \in BOOLEAN}
      BY <2>1, <3>5
    <3>. QED
      BY <3>1, <3>2, <3>3, <3>4, <3>5
  <2>. QED
    BY <2>2
<1>2. \A f \in Failures : f.kind = "failure"
  BY DEF Failures, Failure
<1>3. \A f \in Failures : f \notin Message
  BY <1>1, <1>2
<1>4. Log.kind = "log" /\ Garbage.kind = "garbage" /\ Log \in Message /\ Garbage \in Message
  BY DEF Message, Log, Garbage
<1>5. Failure("error") \in Failures /\ Failure("budget") \in Failures
  BY DEF Failures
<1>6. Failure("error").why = "error" /\ Failure("budget").why = "budget"
  BY DEF Failure
<1>. QED
  BY <1>1, <1>2, <1>3, <1>4, <1>5, <1>6

(***************************************************************************)
(* The head of a sequence moved to the end of the one before it.           *)
(***************************************************************************)
LEMMA MoveOne ==
  ASSUME NEW A, NEW s \in Seq(A), NEW t \in Seq(A), t # << >>
  PROVE  Append(s, Head(t)) \o Tail(t) = s \o t
<1>. DEFINE x == Head(t)
            u == Tail(t)
<1>1. x \in A /\ u \in Seq(A) /\ t = << x >> \o u
  BY HeadTailProperties
<1>. HIDE DEF x, u
<1>2. << x >> \in Seq(A)
  BY <1>1
<1>3. Append(s, x) = s \o << x >>
  BY <1>1, AppendIsConcat
<1>4. (s \o << x >>) \o u = s \o (<< x >> \o u)
  BY <1>1, <1>2, ConcatAssociative
<1>. QED
  BY <1>1, <1>3, <1>4 DEF x, u

LEMMA RangeAppend ==
  ASSUME NEW A, NEW s \in Seq(A), NEW x \in A
  PROVE  Range(Append(s, x)) = Range(s) \cup {x}
<1>. DEFINE u == Append(s, x)
            k == Len(s)
<1>1. /\ k \in Nat /\ DOMAIN s = 1..k /\ DOMAIN u = 1..(k + 1)
      /\ \A i \in 1..k : u[i] = s[i]
      /\ u[k + 1] = x
  BY OneMore
<1>. HIDE DEF u
<1>2. Range(u) = Range(s) \cup {x}
  BY <1>1 DEF Range
<1>. QED
  BY <1>2 DEF u

(***************************************************************************)
(* What is earned stays earned when more is written.                       *)
(***************************************************************************)
Earned(s) == Len(s) + Count(s, Long) > ByteMax \/ Count(s, Publications) > Pending

LEMMA CountGrows ==
  ASSUME NEW A, NEW S, NEW s \in Seq(A), NEW t \in Seq(A)
  PROVE  /\ Count(s, S) \in Nat /\ Count(s \o t, S) \in Nat
         /\ Count(s, S) <= Count(s \o t, S)
<1>. DEFINE u == s \o t
            I == {i \in DOMAIN s : s[i] \in S}
            J == {i \in DOMAIN u : u[i] \in S}
<1>1. /\ Len(s) \in Nat /\ Len(t) \in Nat /\ u \in Seq(A) /\ Len(u) = Len(s) + Len(t)
      /\ \A i \in 1..Len(s) : u[i] = s[i]
  BY ConcatProperties, LenProperties
<1>. HIDE DEF u
<1>2. DOMAIN s = 1..Len(s) /\ DOMAIN u = 1..Len(u)
  BY <1>1, LenProperties
<1>3. IsFiniteSet(J)
  <2>1. IsFiniteSet(1..Len(u))
    BY <1>1, FS_Interval
  <2>. QED
    BY <1>2, <2>1, FS_Subset
<1>4. I \subseteq J
  BY <1>1, <1>2
<1>. HIDE DEF I, J
<1>5. /\ Cardinality(I) \in Nat /\ Cardinality(J) \in Nat /\ Cardinality(I) <= Cardinality(J)
  BY <1>3, <1>4, FS_Subset, FS_CardinalityType
<1>. QED
  BY <1>5 DEF Count, I, J, u

LEMMA EarnedGrows ==
  ASSUME NEW s \in Seq(Message), NEW t \in Seq(Message), Earned(s)
  PROVE  Earned(s \o t)
<1>1. Len(s) \in Nat /\ Len(t) \in Nat /\ Len(s \o t) = Len(s) + Len(t)
  BY ConcatProperties, LenProperties
<1>2. /\ Count(s, Long) \in Nat /\ Count(s \o t, Long) \in Nat
      /\ Count(s, Long) <= Count(s \o t, Long)
  BY CountGrows
<1>3. /\ Count(s, Publications) \in Nat /\ Count(s \o t, Publications) \in Nat
      /\ Count(s, Publications) <= Count(s \o t, Publications)
  BY CountGrows
<1>4. ByteMax \in Nat /\ Pending \in Nat
  BY QueryAssumption
<1>. QED
  BY <1>1, <1>2, <1>3, <1>4 DEF Earned

(***************************************************************************)
(* The stream.  C is what the reader has taken from the pipe; what has     *)
(* gone through to the client, and the hand, are what is retained of it,   *)
(* unless the reader fails: then a beginning of it, and the failure.       *)
(***************************************************************************)
Through == heard \o queue

Begins(P, R) == P \in Seq(Message) /\ \E U \in Seq(Message) : R = P \o U

Carried(C) ==
  /\ sent = C \o out
  /\ rpc = "reading" => hand = << >> /\ Through = Retained(C)
  /\ rpc = "putting" => \E m \in Message : hand = << m >> /\ Retained(C) = Append(Through, m)
  /\ rpc = "failing" => \E f \in Failures : hand = << f >> /\ Begins(Through, Retained(C))
  /\ rpc = "ended" =>
       /\ hand = << >>
       /\ \/ Begins(Through, Retained(C))
          \/ \E P \in Seq(Message), f \in Failures : Through = Append(P, f) /\ Begins(P, Retained(C))

(***************************************************************************)
(* The bytes and the publications are counted as long as the reader reads; *)
(* it says that a budget is exceeded only after it was.                    *)
(***************************************************************************)
Counted(C) ==
  /\ rpc \in {"reading", "putting"} =>
       /\ received = Len(C) + Count(C, Long)
       /\ kept = Count(C, Publications)
  /\ Failure("budget") \in Range(Through) \cup Range(hand) => Earned(sent)

StreamInv == \E C \in Seq(Message) : Carried(C) /\ Counted(C)

LEMMA ThroughType ==
  ASSUME TypeInv
  PROVE  heard \in Seq(Item) /\ queue \in Seq(Item) /\ Through \in Seq(Item)
<1>1. heard \in Seq(Item) /\ queue \in Seq(Item)
  BY DEF TypeInv, TypeOK, Item
<1>. QED
  BY <1>1, ConcatProperties DEF Through

LEMMA RetainedType ==
  ASSUME NEW C \in Seq(Message)
  PROVE  /\ Retained(C) \in Seq(Message)
         /\ \A x \in Message : Retained(Append(C, x)) =
              IF x = Log THEN Retained(C) ELSE Append(Retained(C), x)
<1>1. Seq(Message \cap (Message \ {Log})) \subseteq Seq(Message)
  BY SeqMonotonic
<1>2. Retained(C) \in Seq(Message)
  BY <1>1, SelectedType DEF Retained
<1>3. ASSUME NEW x \in Message
      PROVE  Retained(Append(C, x)) = IF x = Log THEN Retained(C) ELSE Append(Retained(C), x)
  <2>1. Retained(Append(C, x)) =
          IF x \in Message \ {Log} THEN Append(Retained(C), x) ELSE Retained(C)
    BY SelectedAppend DEF Retained
  <2>. QED
    BY <2>1
<1>. QED
  BY <1>2, <1>3

LEMMA BeginOfMessages ==
  ASSUME NEW s \in Seq(Item), NEW x \in Message, Append(s, x) \in Seq(Message)
  PROVE  s \in Seq(Message)
<1>. DEFINE u == Append(s, x)
<1>1. Len(s) \in Nat /\ Len(u) = Len(s) + 1 /\ \A i \in 1..Len(s) : u[i] = s[i]
  BY OneMore DEF Item
<1>2. \A i \in 1..Len(u) : u[i] \in Message
  BY ElementOfSeq
<1>. HIDE DEF u
<1>3. \A i \in 1..Len(s) : s[i] \in Message
  BY <1>1, <1>2
<1>4. s \in [1..Len(s) -> Message]
  BY <1>3, LenProperties
<1>. QED
  BY <1>1, <1>4, SeqDef

LEMMA BeginsSelf ==
  ASSUME NEW R \in Seq(Message)
  PROVE  Begins(R, R) /\ \A x \in Message : Begins(R, Append(R, x))
<1>1. << >> \in Seq(Message) /\ R \o << >> = R
  BY ConcatEmptySeq
<1>2. \A x \in Message : << x >> \in Seq(Message) /\ Append(R, x) = R \o << x >>
  BY AppendIsConcat
<1>. QED
  BY <1>1, <1>2 DEF Begins

(***************************************************************************)
(* What the reader makes of a message, by what it then does.               *)
(***************************************************************************)
LEMMA Accepts ==
  ASSUME NEW m \in Message, Accept(m)
  PROVE  \/ /\ rpc' = "failing" /\ hand' = << Failure("error") >>
         \/ /\ m = Log /\ m \notin Publications /\ UNCHANGED << rpc, hand, kept >>
         \/ /\ m \in Publications /\ kept = Pending
            /\ rpc' = "failing" /\ hand' = << Failure("budget") >>
         \/ /\ m \in Publications /\ m # Log /\ kept' = kept + 1
            /\ rpc' = "putting" /\ hand' = << m >>
         \/ /\ m \notin Publications /\ m # Log /\ kept' = kept
            /\ rpc' = "putting" /\ hand' = << m >>
<1>1. m \in Publications <=> m.kind \in {"publish", "bad publish"}
  BY DEF Publications
<1>2. m = Log => m.kind = "log"
  BY Kinds
<1>. QED
  BY <1>1, <1>2 DEF Accept, Put, Stop

LEMMA StreamRead ==
  ASSUME TypeInv, NEW C \in Seq(Message), Carried(C), Counted(C), Read
  PROVE  \E D \in Seq(Message) : Carried(D)' /\ Counted(D)'
<1>1. /\ rpc = "reading" /\ out # << >> /\ out' = Tail(out)
      /\ UNCHANGED << sent, heard, queue >>
  BY DEF Read, world, asking
<1>2. hand = << >> /\ Through = Retained(C) /\ sent = C \o out
      /\ received = Len(C) + Count(C, Long) /\ kept = Count(C, Publications)
  BY <1>1 DEF Carried, Counted
<1>3. out \in Seq(Message)
  BY DEF TypeInv, TypeOK
<1>4. PICK m \in Message : m = Head(out)
  BY <1>1, <1>3, TakeOne
<1>5. PICK D \in Seq(Message) : D = Append(C, m)
  BY AddOne
<1>6. m \in Message /\ Tail(out) \in Seq(Message) /\ D \in Seq(Message) /\ Len(D) = Len(C) + 1
  BY <1>1, <1>3, <1>5, TakeOne, AddOne
<1>7. sent' = D \o out'
  BY <1>1, <1>2, <1>3, <1>4, <1>5, MoveOne
<1>8. /\ Count(C, Long) \in Nat /\ Count(C, Publications) \in Nat
      /\ Count(D, Long) = IF m \in Long THEN Count(C, Long) + 1 ELSE Count(C, Long)
      /\ Count(D, Publications) =
           IF m \in Publications THEN Count(C, Publications) + 1 ELSE Count(C, Publications)
  BY <1>5, CountAppend
<1>9. /\ Retained(C) \in Seq(Message)
      /\ Retained(D) = IF m = Log THEN Retained(C) ELSE Append(Retained(C), m)
  BY <1>5, RetainedType
<1>10. Begins(Through, Retained(D))
  BY <1>2, <1>6, <1>9, BeginsSelf
<1>11. received + Size(m) = Len(D) + Count(D, Long)
  <2>1. Len(C) \in Nat
    BY LenProperties
  <2>. QED
    BY <1>2, <1>6, <1>8, <2>1 DEF Size
<1>12. Through' = Through
  BY <1>1 DEF Through
<1>13. Earned(D) => Earned(sent')
  BY <1>1, <1>3, <1>6, <1>7, EarnedGrows
<1>14. Failure("budget") \notin Range(Through)
  <2>1. Through \in Seq(Message)
    BY <1>2, <1>9
  <2>2. Range(Through) \subseteq Message
    BY <2>1, RangeOfSeq
  <2>. QED
    BY <2>2, Kinds
<1>15. \A x : Range(<< x >>) = {x}
  BY DEF Range
<1>16. /\ Read => \/ /\ received + Size(m) > ByteMax
                     /\ rpc' = "failing" /\ hand' = << Failure("budget") >>
                  \/ /\ received + Size(m) <= ByteMax
                     /\ received' = received + Size(m)
                     /\ Accept(m)
  BY <1>4 DEF Read, Stop
<1>17. ASSUME rpc' = "failing", NEW f \in Failures, hand' = << f >>,
              f = Failure("budget") => Earned(D)
       PROVE  Carried(D)' /\ Counted(D)'
  <2>1. Carried(D)'
    BY <1>7, <1>10, <1>12, <1>17 DEF Carried
  <2>2. Counted(D)'
    BY <1>12, <1>13, <1>14, <1>15, <1>17 DEF Counted
  <2>. QED
    BY <2>1, <2>2
<1>18. CASE received + Size(m) > ByteMax /\ rpc' = "failing" /\ hand' = << Failure("budget") >>
  BY <1>6, <1>11, <1>17, <1>18, Kinds DEF Earned
<1>19. CASE received' = received + Size(m) /\ Accept(m)
  <2>1. received' = Len(D) + Count(D, Long)
    BY <1>11, <1>19
  <2>2. CASE rpc' = "failing" /\ hand' = << Failure("error") >>
    BY <1>6, <1>17, <2>2, Kinds
  <2>3. CASE m = Log /\ m \notin Publications /\ UNCHANGED << rpc, hand, kept >>
    <3>1. Carried(D)'
      BY <1>1, <1>2, <1>7, <1>9, <1>12, <2>3 DEF Carried
    <3>2. kept' = Count(D, Publications)
      BY <1>2, <1>8, <2>3
    <3>3. Range(<< >>) = {}
      BY DEF Range
    <3>4. Counted(D)'
      BY <1>1, <1>2, <1>12, <1>14, <2>1, <2>3, <3>2, <3>3 DEF Counted
    <3>. QED
      BY <1>6, <3>1, <3>4
  <2>4. CASE m \in Publications /\ kept = Pending /\ rpc' = "failing" /\ hand' = << Failure("budget") >>
    <3>1. Count(D, Publications) > Pending
      BY <1>2, <1>8, <2>4, QueryAssumption
    <3>. QED
      BY <1>6, <1>17, <2>4, <3>1, Kinds DEF Earned
  <2>5. CASE /\ m # Log /\ rpc' = "putting" /\ hand' = << m >>
             /\ kept' = IF m \in Publications THEN kept + 1 ELSE kept
    <3>1. Carried(D)'
      BY <1>2, <1>6, <1>7, <1>9, <1>12, <2>5 DEF Carried
    <3>2. kept' = Count(D, Publications)
      BY <1>2, <1>8, <2>5
    <3>3. m # Failure("budget")
      BY <1>6, Kinds
    <3>4. Counted(D)'
      BY <1>12, <1>14, <1>15, <2>1, <2>5, <3>2, <3>3 DEF Counted
    <3>. QED
      BY <1>6, <3>1, <3>4
  <2>. QED
    BY <1>6, <1>19, <2>2, <2>3, <2>4, <2>5, Accepts
<1>. QED
  BY <1>16, <1>18, <1>19

LEMMA StreamReader ==
  ASSUME TypeInv, NEW C \in Seq(Message), Carried(C), Counted(C), Reader
  PROVE  \E D \in Seq(Message) : Carried(D)' /\ Counted(D)'
<1>1. CASE Read
  BY <1>1, StreamRead
<1>2. CASE ~Read
  <2>1. UNCHANGED << sent, out, received, kept, heard >>
    BY <1>2 DEF Reader, ReadEnd, PutMessage, PutTimesOut, PutFailure, FailureTimesOut, world, asking
  <2>2. sent = C \o out /\ sent' = C \o out'
    BY <2>1 DEF Carried
  <2>3. Retained(C) \in Seq(Message)
    BY RetainedType
  <2>4. \A x : Range(<< x >>) = {x} /\ Range(<< >>) = {}
    BY DEF Range
  <2>5. Failure("error") \in Failures /\ Failure("error") # Failure("budget")
    BY Kinds
  <2>6. Through \in Seq(Item)
    BY ThroughType
  <2>7. ASSUME NEW x \in Item, hand = << x >>, queue' = queue \o hand
        PROVE  Through' = Append(Through, x) /\ Range(Through') = Range(Through) \cup {x}
    <3>1. << x >> \in Seq(Item) /\ heard \in Seq(Item) /\ queue \in Seq(Item)
      BY ThroughType
    <3>2. Through' = (heard \o queue) \o << x >>
      BY <2>1, <2>7, <3>1, ConcatAssociative DEF Through
    <3>3. Through' = Append(Through, x)
      BY <2>6, <3>2, AppendIsConcat DEF Through
    <3>. QED
      BY <2>6, <3>3, RangeAppend
  <2>8. CASE ReadEnd \/ PutTimesOut
    <3>1. /\ rpc \in {"reading", "putting"} /\ UNCHANGED queue
          /\ rpc' = "failing" /\ hand' = << Failure("error") >>
      BY <2>8 DEF ReadEnd, PutTimesOut, Stop
    <3>2. Through' = Through
      BY <2>1, <3>1 DEF Through
    <3>3. Begins(Through, Retained(C))
      <4>1. CASE rpc = "reading"
        BY <2>3, <4>1, BeginsSelf DEF Carried
      <4>2. CASE rpc = "putting"
        <5>1. PICK m \in Message : Retained(C) = Append(Through, m)
          BY <4>2 DEF Carried
        <5>2. << m >> \in Seq(Message) /\ Append(Through, m) = Through \o << m >>
          BY <2>6, AppendIsConcat DEF Item
        <5>3. Through \in Seq(Message)
          BY <2>3, <2>6, <5>1, BeginOfMessages
        <5>. QED
          BY <5>1, <5>2, <5>3 DEF Begins
      <4>. QED
        BY <3>1, <4>1, <4>2
    <3>4. Carried(C)'
      BY <2>2, <2>5, <3>1, <3>2, <3>3 DEF Carried
    <3>5. Counted(C)'
      BY <2>1, <2>4, <2>5, <3>1, <3>2 DEF Counted
    <3>. QED
      BY <3>4, <3>5
  <2>9. CASE PutMessage
    <3>1. /\ rpc = "putting" /\ queue' = queue \o hand /\ rpc' = "reading" /\ hand' = << >>
      BY <2>9 DEF PutMessage
    <3>2. PICK m \in Message : hand = << m >> /\ Retained(C) = Append(Through, m)
      BY <3>1 DEF Carried
    <3>3. Through' = Append(Through, m) /\ Range(Through') = Range(Through) \cup {m}
      BY <2>7, <3>1, <3>2 DEF Item
    <3>4. Carried(C)'
      BY <2>2, <3>1, <3>2, <3>3 DEF Carried
    <3>5. Counted(C)'
      BY <2>1, <2>4, <3>1, <3>2, <3>3 DEF Counted
    <3>. QED
      BY <3>4, <3>5
  <2>10. CASE PutFailure
    <3>1. /\ rpc = "failing" /\ queue' = queue \o hand /\ rpc' = "ended" /\ hand' = << >>
      BY <2>10 DEF PutFailure
    <3>2. PICK f \in Failures : hand = << f >> /\ Begins(Through, Retained(C))
      BY <3>1 DEF Carried
    <3>3. Through' = Append(Through, f) /\ Range(Through') = Range(Through) \cup {f}
      BY <2>7, <3>1, <3>2 DEF Item
    <3>4. Carried(C)'
      <4>1. Through \in Seq(Message)
        BY <3>2 DEF Begins
      <4>2. PICK P \in Seq(Message) : P = Through
        BY <4>1
      <4>3. Through' = Append(P, f) /\ Begins(P, Retained(C))
        BY <3>2, <3>3, <4>2
      <4>. QED
        BY <2>2, <3>1, <4>3 DEF Carried
    <3>5. Counted(C)'
      BY <2>1, <2>4, <3>1, <3>2, <3>3 DEF Counted
    <3>. QED
      BY <3>4, <3>5
  <2>11. CASE FailureTimesOut
    <3>1. rpc = "failing" /\ UNCHANGED queue /\ rpc' = "ended" /\ hand' = << >>
      BY <2>11 DEF FailureTimesOut
    <3>2. Through' = Through
      BY <2>1, <3>1 DEF Through
    <3>3. Carried(C)'
      BY <2>2, <3>1, <3>2 DEF Carried
    <3>4. Counted(C)'
      BY <2>1, <2>4, <3>1, <3>2 DEF Counted
    <3>. QED
      BY <3>3, <3>4
  <2>. QED
    BY <1>2, <2>8, <2>9, <2>10, <2>11 DEF Reader
<1>. QED
  BY <1>1, <1>2

(***************************************************************************)
(* The client only moves the boundary between what it has heard and what   *)
(* is queued.                                                              *)
(***************************************************************************)
LEMMA StreamNext == TypeInv /\ StreamInv /\ [Next]_vars => StreamInv'
<1>. SUFFICES ASSUME TypeInv, StreamInv, [Next]_vars PROVE StreamInv'
  OBVIOUS
<1>1. PICK C \in Seq(Message) : Carried(C) /\ Counted(C)
  BY DEF StreamInv
<1>2. CASE Reader
  BY <1>1, <1>2, StreamReader DEF StreamInv
<1>3. CASE Emit
  <2>1. PICK m \in Talk : sent' = Append(sent, m) /\ out' = Append(out, m)
    BY <1>3 DEF Emit
  <2>2. UNCHANGED << rpc, hand, received, kept, heard, queue >>
    BY <1>3 DEF Emit, thread, asking
  <2>3. m \in Message /\ out \in Seq(Message) /\ sent \in Seq(Message)
    BY QueryAssumption DEF TypeInv, TypeOK
  <2>4. sent' = C \o out'
    <3>1. sent = C \o out
      BY <1>1 DEF Carried
    <3>2. C \in Seq(Message) /\ out \in Seq(Message) /\ m \in Message
      BY <2>3
    <3>3. C \o Append(out, m) = Append(C \o out, m)
      BY ONLY <3>2, ConcatAppend
    <3>. QED
      BY ONLY <2>1, <3>1, <3>3
  <2>5. Through' = Through
    BY <2>2 DEF Through
  <2>6. Earned(sent) => Earned(sent')
    <3>1. << m >> \in Seq(Message) /\ sent' = sent \o << m >>
      BY <2>1, <2>3, AppendIsConcat
    <3>. QED
      BY <2>3, <3>1, EarnedGrows
  <2>7. Carried(C)'
    BY <1>1, <2>2, <2>4, <2>5 DEF Carried
  <2>8. Counted(C)'
    BY <1>1, <2>2, <2>5, <2>6 DEF Counted
  <2>. QED
    BY <2>7, <2>8 DEF StreamInv
<1>4. CASE ServerExit \/ Question \/ Close \/ UNCHANGED vars
  <2>1. UNCHANGED << sent, out, rpc, hand, received, kept >>
    BY <1>4 DEF ServerExit, Question, Request, Notify, Conclude, Deadline, TakeFailure, TakeAsk,
                TakePublish, TakeBadPublish, TakeAnswer, DropResponse, Close, Terminate, Wait,
                KillGroup, CloseStdin, CloseStdout, Join, vars, world, thread
  <2>2. \/ UNCHANGED << heard, queue >>
        \/ queue # << >> /\ heard' = Append(heard, Head(queue)) /\ queue' = Tail(queue)
    BY <1>4 DEF ServerExit, Question, Request, Notify, Conclude, Deadline, TakeFailure, TakeAsk,
                TakePublish, TakeBadPublish, TakeAnswer, DropResponse, Receive, Close, Terminate,
                Wait, KillGroup, CloseStdin, CloseStdout, Join, vars, asking
  <2>3. Through' = Through
    BY <2>2, ThroughType, MoveOne DEF Through
  <2>4. Carried(C)'
    BY <1>1, <2>1, <2>3 DEF Carried
  <2>5. Counted(C)'
    BY <1>1, <2>1, <2>3 DEF Counted
  <2>. QED
    BY <2>4, <2>5 DEF StreamInv
<1>. QED
  BY <1>2, <1>3, <1>4 DEF Next

LEMMA StreamInit == Init => StreamInv
<1>. SUFFICES ASSUME Init PROVE StreamInv
  OBVIOUS
<1>1. /\ sent = << >> /\ out = << >> /\ heard = << >> /\ queue = << >> /\ hand = << >>
      /\ rpc = "reading" /\ received = 0 /\ kept = 0
  BY DEF Init
<1>2. << >> \in Seq(Message) /\ << >> \o << >> = << >> /\ Len(<< >>) = 0
  BY ConcatEmptySeq
<1>3. PICK C \in Seq(Message) : C = << >>
  BY <1>2
<1>4. Through = << >> /\ Retained(C) = << >>
  BY <1>1, <1>2, <1>3, SelectedEmpty DEF Through, Retained
<1>5. Carried(C)
  BY <1>1, <1>2, <1>3, <1>4 DEF Carried
<1>6. \A S : Count(<< >>, S) = 0
  <2>. TAKE S
  <2>1. {i \in DOMAIN << >> : << >>[i] \in S} = {}
    BY <1>2
  <2>. QED
    BY <2>1, FS_EmptySet DEF Count
<1>7. Range(<< >>) = {}
  BY DEF Range
<1>8. Counted(C)
  BY <1>1, <1>2, <1>3, <1>4, <1>6, <1>7 DEF Counted
<1>. QED
  BY <1>5, <1>8 DEF StreamInv

LEMMA BeginsLonger ==
  ASSUME NEW P \in Seq(Message), NEW U \in Seq(Message), NEW V \in Seq(Message)
  PROVE  (P \o U) \o V = P \o (U \o V)
  BY ConcatAssociative

(***************************************************************************)
(* What has been taken, queued and held is a beginning of what is retained *)
(* of the stream, with at most a failure at the end.                       *)
(***************************************************************************)
LEMMA Ordered ==
  ASSUME NEW C \in Seq(Message), NEW P \in Seq(Message), NEW taken,
         sent = C \o out, out \in Seq(Message), Begins(P, Retained(C)),
         taken = P \/ \E f \in Failures : taken = Append(P, f)
  PROVE  /\ IsPrefix(Spoken(taken), Retained(sent))
         /\ \A i \in DOMAIN taken : IsFailure(taken[i]) => i = Len(taken)
<1>1. Spoken(P) = P
  BY SelectedAll DEF Spoken
<1>2. Seq(Message) \subseteq Seq(Item)
  BY SeqMonotonic DEF Item
<1>3. ASSUME NEW f \in Failures, taken = Append(P, f) PROVE Spoken(taken) = P
  <2>1. f \in Item /\ f \notin Message /\ P \in Seq(Item)
    BY <1>2, Kinds DEF Item
  <2>2. Selected(Append(P, f), Message) = Selected(P, Message)
    BY <2>1, SelectedAppend
  <2>. QED
    BY <1>1, <1>3, <2>2 DEF Spoken
<1>4. Spoken(taken) = P
  BY <1>1, <1>3
<1>5. PICK U \in Seq(Message) : Retained(C) = P \o U
  BY DEF Begins
<1>6. PICK V \in Seq(Message) : V = Retained(out)
  <2>1. Retained(out) \in Seq(Message)
    BY RetainedType
  <2>. QED
    BY <2>1
<1>7. Retained(sent) = (P \o U) \o V
  <2>1. \A s, t \in Seq(Message) : Retained(s \o t) = Retained(s) \o Retained(t)
    BY SelectedConcat DEF Retained
  <2>. QED
    BY <1>5, <1>6, <2>1
<1>8. PICK W \in Seq(Message) : W = U \o V
  <2>1. U \o V \in Seq(Message)
    BY ConcatProperties
  <2>. QED
    BY <2>1
<1>9. Retained(sent) = P \o W
  <2>1. P \in Seq(Message) /\ U \in Seq(Message) /\ V \in Seq(Message)
    BY <1>5, <1>6
  <2>2. (P \o U) \o V = P \o (U \o V)
    BY ONLY <2>1, BeginsLonger
  <2>. QED
    BY ONLY <1>7, <1>8, <2>2
<1>10. /\ P \o W \in Seq(Message) /\ Len(P) \in Nat /\ Len(W) \in Nat
       /\ Len(P \o W) = Len(P) + Len(W)
       /\ \A i \in 1..Len(P) : (P \o W)[i] = P[i]
  <2>1. P \in Seq(Message) /\ W \in Seq(Message)
    BY <1>8
  <2>2. Len(P) \in Nat /\ Len(W) \in Nat
    BY ONLY <2>1, LenProperties
  <2>3. /\ P \o W \in Seq(Message) /\ Len(P \o W) = Len(P) + Len(W)
        /\ \A i \in 1..(Len(P) + Len(W)) : (P \o W)[i] = IF i <= Len(P) THEN P[i] ELSE W[i - Len(P)]
    BY ONLY <2>1, ConcatProperties
  <2>. QED
    BY ONLY <2>2, <2>3
<1>11. IsPrefix(P, P \o W)
  <2>. DEFINE R == P \o W
  <2>. HIDE DEF R
  <2>1. R \in Seq(Message) /\ Len(P) \in Nat /\ Len(P) <= Len(R) /\ \A i \in 1..Len(P) : R[i] = P[i]
    BY <1>10 DEF R
  <2>2. /\ SubSeq(P, 1, Len(P)) \in Seq(Message) /\ SubSeq(R, 1, Len(P)) \in Seq(Message)
        /\ Len(SubSeq(P, 1, Len(P))) = Len(P) /\ Len(SubSeq(R, 1, Len(P))) = Len(P)
        /\ \A i \in 1..Len(P) : SubSeq(P, 1, Len(P))[i] = P[i] /\ SubSeq(R, 1, Len(P))[i] = R[i]
    BY <2>1
  <2>3. SubSeq(P, 1, Len(P)) = SubSeq(R, 1, Len(P))
    BY <2>1, <2>2, SeqEqual
  <2>. QED
    BY <2>1, <2>3 DEF IsPrefix, R
<1>12. ASSUME NEW i \in DOMAIN taken, IsFailure(taken[i]) PROVE i = Len(taken)
  <2>1. \A j \in 1..Len(P) : P[j] \in Message /\ ~IsFailure(P[j])
    BY ElementOfSeq, Kinds DEF IsFailure
  <2>2. DOMAIN P = 1..Len(P)
    BY LenProperties
  <2>3. taken # P
    BY <1>12, <2>1, <2>2
  <2>4. PICK f \in Failures : taken = Append(P, f)
    BY <2>3
  <2>5. f \in Item /\ P \in Seq(Item)
    BY <1>2 DEF Item
  <2>6. /\ Len(P) \in Nat /\ Len(taken) = Len(P) + 1 /\ DOMAIN taken = 1..(Len(P) + 1)
        /\ \A j \in 1..Len(P) : taken[j] = P[j]
    <3>. DEFINE more == Append(P, f)
    <3>1. /\ Len(P) \in Nat /\ Len(more) = Len(P) + 1 /\ DOMAIN more = 1..(Len(P) + 1)
          /\ \A j \in 1..Len(P) : more[j] = P[j]
      BY ONLY <2>5, OneMore
    <3>. HIDE DEF more
    <3>2. taken = more
      BY ONLY <2>4 DEF more
    <3>. QED
      BY ONLY <3>1, <3>2
  <2>7. ASSUME i \in 1..Len(P) PROVE FALSE
    <3>1. taken[i] = P[i] /\ ~IsFailure(P[i])
      BY <2>1, <2>6, <2>7
    <3>. QED
      BY <1>12, <3>1 DEF IsFailure
  <2>8. i \in 1..(Len(P) + 1)
    BY ONLY <1>12, <2>6
  <2>. QED
    BY ONLY <2>6, <2>7, <2>8
<1>. QED
  BY <1>4, <1>9, <1>11, <1>12

LEMMA StreamShows == TypeInv /\ StreamInv => StreamInOrder
<1>. SUFFICES ASSUME TypeInv, StreamInv PROVE StreamInOrder
  OBVIOUS
<1>1. PICK C \in Seq(Message) : Carried(C)
  BY DEF StreamInv
<1>2. /\ sent = C \o out /\ out \in Seq(Message)
      /\ rpc \in {"reading", "putting", "failing", "ended"}
  BY <1>1 DEF Carried, TypeInv, TypeOK
<1>3. Through \in Seq(Item) /\ Retained(C) \in Seq(Message)
  BY ThroughType, RetainedType
<1>4. \A x \in Item : Through \o << x >> = Append(Through, x)
  BY <1>3, AppendIsConcat
<1>5. Through \o << >> = Through
  BY <1>3, ConcatEmptySeq
<1>6. \E P \in Seq(Message) :
        /\ Begins(P, Retained(C))
        /\ Through \o hand = P \/ \E f \in Failures : Through \o hand = Append(P, f)
  <2>1. CASE rpc = "reading"
    BY <1>1, <1>3, <1>5, <2>1, BeginsSelf DEF Carried
  <2>2. CASE rpc = "putting"
    <3>1. PICK m \in Message : hand = << m >> /\ Retained(C) = Append(Through, m)
      BY <1>1, <2>2 DEF Carried
    <3>. QED
      BY <1>3, <1>4, <3>1, BeginsSelf DEF Item
  <2>3. CASE rpc = "failing"
    <3>1. PICK f \in Failures : hand = << f >> /\ Begins(Through, Retained(C))
      BY <1>1, <2>3 DEF Carried
    <3>. QED
      BY <1>4, <3>1 DEF Item, Begins
  <2>4. CASE rpc = "ended"
    <3>1. CASE Begins(Through, Retained(C))
      BY <1>1, <1>5, <2>4, <3>1 DEF Carried, Begins
    <3>2. CASE ~Begins(Through, Retained(C))
      BY <1>1, <1>5, <2>4, <3>2 DEF Carried
    <3>. QED
      BY <3>1, <3>2
  <2>. QED
    BY <1>2, <2>1, <2>2, <2>3, <2>4
<1>7. PICK P \in Seq(Message) :
        /\ Begins(P, Retained(C))
        /\ Through \o hand = P \/ \E f \in Failures : Through \o hand = Append(P, f)
  BY <1>6
<1>. DEFINE taken == Through \o hand
<1>8. taken = P \/ \E f \in Failures : taken = Append(P, f)
  BY <1>7
<1>. HIDE DEF taken
<1>9. /\ IsPrefix(Spoken(taken), Retained(sent))
      /\ \A i \in DOMAIN taken : IsFailure(taken[i]) => i = Len(taken)
  BY <1>2, <1>7, <1>8, Ordered
<1>. QED
  BY <1>9 DEF StreamInOrder, taken, Through

(***************************************************************************)
(* A budget that the client reports is one the reader has found exceeded,  *)
(* or one its own count of what it keeps has reached.                      *)
(***************************************************************************)
LEMMA CountRetained ==
  ASSUME NEW C \in Seq(Message)
  PROVE  Count(Retained(C), Publications) = Count(C, Publications)
<1>. DEFINE G == {s \in Seq(Message) : Count(Retained(s), Publications) = Count(s, Publications)}
<1>1. << >> \in G
  <2>1. << >> \in Seq(Message) /\ Retained(<< >>) = << >>
    BY SelectedEmpty DEF Retained
  <2>. QED
    BY <2>1
<1>2. ASSUME NEW s \in G, NEW x \in Message PROVE Append(s, x) \in G
  <2>1. s \in Seq(Message) /\ Count(Retained(s), Publications) = Count(s, Publications)
    OBVIOUS
  <2>2. /\ Retained(s) \in Seq(Message)
        /\ Retained(Append(s, x)) = IF x = Log THEN Retained(s) ELSE Append(Retained(s), x)
    BY <2>1, RetainedType
  <2>3. Log \notin Publications
    BY Kinds DEF Publications
  <2>4. Count(Append(s, x), Publications) =
          IF x \in Publications THEN Count(s, Publications) + 1 ELSE Count(s, Publications)
    BY <2>1, CountAppend
  <2>5. Count(Append(Retained(s), x), Publications) =
          IF x \in Publications THEN Count(Retained(s), Publications) + 1
          ELSE Count(Retained(s), Publications)
    BY <2>2, CountAppend
  <2>6. Append(s, x) \in Seq(Message)
    BY <2>1, AppendProperties
  <2>7. Count(Retained(Append(s, x)), Publications) = Count(Append(s, x), Publications)
    <3>1. CASE x = Log
      BY <2>1, <2>2, <2>3, <2>4, <3>1
    <3>2. CASE x # Log
      BY <2>1, <2>2, <2>4, <2>5, <3>2
    <3>. QED
      BY <3>1, <3>2
  <2>. QED
    BY <2>6, <2>7
<1>. HIDE DEF G
<1>3. G \subseteq Seq(Message)
  BY DEF G
<1>4. C \in G
  BY <1>1, <1>2, <1>3, SequencesByAppending
<1>. QED
  BY <1>4 DEF G

LEMMA FewerThrough ==
  ASSUME TypeInv, StreamInv
  PROVE  Count(Through, Publications) <= Count(sent, Publications)
<1>1. PICK C \in Seq(Message) : Carried(C)
  BY DEF StreamInv
<1>2. /\ sent = C \o out /\ out \in Seq(Message)
      /\ rpc \in {"reading", "putting", "failing", "ended"}
  BY <1>1 DEF Carried, TypeInv, TypeOK
<1>3. Through \in Seq(Item) /\ Retained(C) \in Seq(Message)
  BY ThroughType, RetainedType
<1>4. \A P : Begins(P, Retained(C)) =>
        Count(P, Publications) \in Nat /\ Count(P, Publications) <= Count(C, Publications)
  <2>. TAKE P
  <2>. HAVE Begins(P, Retained(C))
  <2>1. PICK U \in Seq(Message) : Retained(C) = P \o U
    BY DEF Begins
  <2>2. P \in Seq(Message)
    BY DEF Begins
  <2>3. Count(P, Publications) \in Nat /\ Count(P, Publications) <= Count(P \o U, Publications)
    BY <2>2, CountGrows
  <2>. QED
    BY <2>1, <2>3, CountRetained
<1>5. Count(Through, Publications) \in Nat /\ Count(Through, Publications) <= Count(C, Publications)
  <2>1. CASE Begins(Through, Retained(C))
    BY <1>4, <2>1
  <2>2. CASE rpc = "reading"
    BY <1>1, <1>3, <1>4, <2>2, BeginsSelf DEF Carried
  <2>3. CASE rpc = "putting"
    <3>1. PICK m \in Message : Retained(C) = Append(Through, m)
      BY <1>1, <2>3 DEF Carried
    <3>2. Through \in Seq(Message)
      BY <1>3, <3>1, BeginOfMessages
    <3>3. Begins(Through, Retained(C))
      BY <3>1, <3>2, BeginsSelf
    <3>. QED
      BY <1>4, <3>3
  <2>4. CASE rpc = "ended" /\ ~Begins(Through, Retained(C))
    <3>1. PICK P \in Seq(Message), f \in Failures : Through = Append(P, f) /\ Begins(P, Retained(C))
      BY <1>1, <2>4 DEF Carried
    <3>2. f \in Item /\ P \in Seq(Item)
      <4>1. Seq(Message) \subseteq Seq(Item)
        BY SeqMonotonic DEF Item
      <4>. QED
        BY <4>1 DEF Item
    <3>3. f \notin Publications
      BY Kinds DEF Publications
    <3>4. Count(Append(P, f), Publications) = Count(P, Publications)
      BY <3>2, <3>3, CountAppend
    <3>. QED
      BY <1>4, <3>1, <3>4
  <2>5. rpc = "failing" => Begins(Through, Retained(C))
    BY <1>1 DEF Carried
  <2>. QED
    BY <1>2, <2>1, <2>2, <2>3, <2>4, <2>5
<1>6. /\ Count(C, Publications) \in Nat /\ Count(sent, Publications) \in Nat
      /\ Count(C, Publications) <= Count(sent, Publications)
  BY <1>2, CountGrows
<1>. QED
  BY <1>5, <1>6

LEMMA BudgetNext ==
  TypeInv /\ StreamInv /\ PublishedInv /\ BudgetIsEarned /\ [Next]_vars => BudgetIsEarned'
<1>. SUFFICES ASSUME TypeInv, StreamInv, PublishedInv, BudgetIsEarned, [Next]_vars
              PROVE  BudgetIsEarned'
  OBVIOUS
<1>1. heard \in Seq(Item) /\ queue \in Seq(Item) /\ sent \in Seq(Message)
  BY ThroughType DEF TypeInv, TypeOK
<1>2. BudgetIsEarned = (outcome = "budget" => Earned(sent))
  BY DEF BudgetIsEarned, Earned
<1>3. ASSUME Earned(sent), UNCHANGED sent PROVE BudgetIsEarned'
  BY <1>3 DEF BudgetIsEarned, Earned
<1>4. CASE Emit
  <2>1. PICK m \in Talk : sent' = Append(sent, m)
    BY <1>4 DEF Emit
  <2>2. << m >> \in Seq(Message) /\ sent' = sent \o << m >>
    BY <1>1, <2>1, AppendIsConcat, QueryAssumption
  <2>3. outcome' = outcome
    BY <1>4 DEF Emit, asking
  <2>4. outcome = "budget" => Earned(sent')
    BY <1>1, <1>2, <2>2, EarnedGrows
  <2>. QED
    BY <2>3, <2>4 DEF BudgetIsEarned, Earned
<1>5. CASE ~Emit
  <2>1. UNCHANGED sent
    BY <1>5 DEF Next, ServerExit, Reader, Read, ReadEnd, PutMessage, PutTimesOut, PutFailure,
                FailureTimesOut, Question, Request, Notify, Conclude, Deadline, TakeFailure,
                TakeAsk, TakePublish, TakeBadPublish, TakeAnswer, DropResponse, Close, Terminate,
                Wait, KillGroup, CloseStdin, CloseStdout, Join, vars, world
  <2>2. CASE TakeFailure
    <3>1. PICK why \in {"error", "budget"} : Receive(Failure(why)) /\ Raise(why)
      BY <2>2 DEF TakeFailure
    <3>2. CASE why = "error"
      BY <3>1, <3>2 DEF BudgetIsEarned, Raise
    <3>3. CASE why = "budget"
      <4>1. queue # << >> /\ Head(queue) = Failure("budget")
        BY <3>1, <3>3 DEF Receive
      <4>2. Failure("budget") \in Range(queue)
        <5>1. Len(queue) \in Nat /\ DOMAIN queue = 1..Len(queue) /\ Len(queue) >= 1
              /\ Head(queue) = queue[1]
          BY <1>1, <4>1, LenProperties, HeadTailProperties, EmptySeq
        <5>. QED
          BY <4>1, <5>1 DEF Range
      <4>3. Failure("budget") \in Range(Through)
        BY <1>1, <4>2, RangeConcatenation DEF Through
      <4>4. Earned(sent)
        BY <4>3 DEF StreamInv, Counted
      <4>. QED
        BY <1>3, <2>1, <4>4
    <3>. QED
      BY <3>1, <3>2, <3>3
  <2>3. CASE TakePublish
    <3>1. PICK own \in BOOLEAN, ds \in SUBSET Diags :
             /\ Receive(Publish(own, ds))
             /\ IF Len(published) >= Pending
                  THEN Raise("budget") /\ UNCHANGED published
                  ELSE /\ published' = Append(published, Publish(own, ds))
                       /\ UNCHANGED << pc, outcome, writing >>
      BY <2>3 DEF TakePublish
    <3>2. CASE ~(Len(published) >= Pending)
      BY <1>2, <2>1, <3>1, <3>2 DEF BudgetIsEarned, Earned
    <3>3. CASE Len(published) >= Pending
      <4>. DEFINE m == Publish(own, ds)
      <4>1. m \in Message /\ m.kind = "publish"
        BY DEF Message, Publish
      <4>. HIDE DEF m
      <4>2. m \in Publications /\ m \in Item
        BY <4>1 DEF Publications, Item
      <4>3. queue # << >> /\ m = Head(queue) /\ pc \in {"await", "collect"}
        BY <3>1 DEF Receive, m
      <4>4. PICK h \in Seq(Item) : h = Append(heard, m)
        BY <1>1, <4>2, AddOne
      <4>5. /\ Count(heard, Publications) \in Nat
            /\ Count(h, Publications) = Count(heard, Publications) + 1
        BY <1>1, <4>2, <4>4, CountAppend
      <4>6. Len(published) <= Count(heard, Publications)
        BY <4>3 DEF PublishedInv, Kept, Asking
      <4>7. Through = h \o Tail(queue) /\ Tail(queue) \in Seq(Item)
        BY <1>1, <4>3, <4>4, MoveOne, TakeOne DEF Through
      <4>8. Count(h, Publications) <= Count(Through, Publications)
            /\ Count(Through, Publications) \in Nat
        BY <4>7, CountGrows
      <4>9. Count(Through, Publications) <= Count(sent, Publications)
        BY FewerThrough
      <4>10. Count(sent, Publications) \in Nat
        BY <1>1, CountGrows
      <4>11. Pending \in Nat /\ Len(published) \in Nat
        BY QueryAssumption, LenProperties DEF TypeInv, TypeOK
      <4>12. Earned(sent)
        BY <3>3, <4>5, <4>6, <4>8, <4>9, <4>10, <4>11 DEF Earned
      <4>. QED
        BY <1>3, <2>1, <4>12
    <3>. QED
      BY <3>2, <3>3
  <2>4. CASE ~TakeFailure /\ ~TakePublish
    <3>1. outcome' = outcome \/ outcome' \in {"error", "complete", "unverified"}
      BY <1>5, <2>4 DEF Next, ServerExit, Reader, Read, ReadEnd, PutMessage, PutTimesOut,
                PutFailure, FailureTimesOut, Question, Request, Notify, Conclude, Deadline,
                TakeAsk, TakeBadPublish, TakeAnswer, DropResponse, Send, Raise, Answered, Close,
                Terminate, Wait, KillGroup, CloseStdin, CloseStdout, Join, vars, asking
    <3>. QED
      BY <1>2, <2>1, <3>1 DEF BudgetIsEarned, Earned
  <2>. QED
    BY <2>2, <2>3, <2>4
<1>. QED
  BY <1>4, <1>5

(***************************************************************************)
(* All that a query relies on, kept by every step.                         *)
(***************************************************************************)
QueryInv ==
  LimitInv /\ TypeInv /\ ReplyInv /\ PublishedInv /\ StreamInv /\ BudgetIsEarned

LEMMA QueryInitInv == Init => QueryInv
<1>. SUFFICES ASSUME Init PROVE QueryInv
  OBVIOUS
<1>1. ReplyInv /\ ErrorsSurvive /\ BudgetIsEarned
  <2>1. /\ pc = "request" /\ counter = 0 /\ outcome = "none" /\ heard = << >>
    BY DEF Init
  <2>2. Responses = {}
    BY <2>1 DEF Responses
  <2>. QED
    BY <2>1, <2>2 DEF ReplyInv, AnswersMatch, ErrorsSurvive, BudgetIsEarned
<1>2. Kept
  <2>1. heard = << >> /\ published = << >>
    BY DEF Init
  <2>2. Len(<< >>) = 0 /\ << >> \in Seq(Item)
    OBVIOUS
  <2>3. Count(heard, Publications) \in Nat
    BY <2>1, <2>2, CountGrows
  <2>. QED
    BY <2>1, <2>2, <2>3 DEF Kept
<1>. QED
  BY <1>1, <1>2, LimitInit, TypeInit, StreamInit DEF QueryInv, PublishedInv

LEMMA QueryNextInv == QueryInv /\ [Next]_vars => QueryInv'
  BY LimitNext, TypeNext, ReplyNext, PublishedNext, StreamNext, BudgetNext DEF QueryInv

(***************************************************************************)
(* Nothing of the stream is lost, doubled or reordered between the server  *)
(* and the client, and a failure comes last (StreamInOrder), however the   *)
(* three actors interleave.                                                *)
(***************************************************************************)
THEOREM KeepsTheStream == Spec => []StreamInOrder
<1>1. QueryInv => StreamInOrder
  BY StreamShows DEF QueryInv
<1>. QED
  BY QueryInitInv, QueryNextInv, <1>1, PTL DEF Spec

(***************************************************************************)
(* What the query says is so (OutcomeIsTrue): the answer is the one to its *)
(* question, no error is swallowed, and a budget that is reported as       *)
(* exceeded was exceeded.                                                  *)
(***************************************************************************)
THEOREM SaysWhatIsSo == Spec => []OutcomeIsTrue
<1>1. QueryInv => OutcomeIsTrue
  BY DEF QueryInv, ReplyInv, PublishedInv, OutcomeIsTrue
<1>. QED
  BY QueryInitInv, QueryNextInv, <1>1, PTL DEF Spec

=============================================================================
