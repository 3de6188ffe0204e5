------------------------ MODULE FeedbackLedgerProofs ------------------------
(***************************************************************************)
(* Theorems about FeedbackLedger, for every number of commands, worktrees, *)
(* patterns and days, every cap and every initial state of the files; and  *)
(* before them the lemmas about the operators of LedgerBook.               *)
(*                                                                         *)
(* 1. Types and sound books, whatever fails (TypeOK, BooksSound).          *)
(* 2. If no lock wait gives up, snapshots are fresh (SnapshotFresh) and    *)
(*    a full ledger drops only its worst rows (DropsOnlyTheWorst).         *)
(* 3. If also the git lookup never fails, the canonical ledger implements  *)
(*    AtomicLedger (ImplementsAtomicLedger).                               *)
(* 4. If the git lookup never fails, no observation is counted twice       *)
(*    (NoDoubleCount); if also no lock wait gives up, none is lost         *)
(*    (NothingLost).                                                       *)
(***************************************************************************)
EXTENDS FeedbackLedger, FiniteSetTheorems, SequenceTheorems, TLAPS

-----------------------------------------------------------------------------
(***************************************************************************)
(* The positions of a book are finite and counted by its length.           *)
(***************************************************************************)
LEMMA PositionsFinite ==
  ASSUME NEW n \in Nat
  PROVE  IsFiniteSet(1..n) /\ Cardinality(1..n) = n
<1>1. 1 \in Int /\ n \in Int
  OBVIOUS
<1>2. IsFiniteSet(1..n) /\ Cardinality(1..n) = IF 1 > n THEN 0 ELSE n - 1 + 1
  BY ONLY <1>1, FS_Interval
<1>. QED
  BY <1>2

(***************************************************************************)
(* Counting the predecessors of each element of a finite set under a       *)
(* strict total order R numbers the elements 1, 2, ... without repetition. *)
(* The sort of _decay, the new F-ids of _merge_entries and the selection   *)
(* of its new rows are all such numberings.                                *)
(***************************************************************************)
LEMMA RankIsNumbering ==
  ASSUME NEW F, IsFiniteSet(F), NEW ahead \in [F -> SUBSET F],
         \A i \in F : i \notin ahead[i],
         \A i, j \in F : i # j => i \in ahead[j] \/ j \in ahead[i],
         \A i, j, l \in F : i \in ahead[j] /\ j \in ahead[l] => i \in ahead[l],
         NEW rank, rank = [i \in F |-> Cardinality(ahead[i]) + 1]
  PROVE  /\ Cardinality(F) \in Nat
         /\ \A i \in F : rank[i] \in 1..Cardinality(F)
         /\ \A i, j \in F : rank[i] = rank[j] => i = j
         /\ \A n \in 1..Cardinality(F) : \E i \in F : rank[i] = n
<1> DEFINE N == Cardinality(F)
           D == 1..N
<1>1. N \in Nat
  BY FS_CardinalityType
<1>2. IsFiniteSet(D) /\ Cardinality(D) = N
  BY <1>1, PositionsFinite
<1>3. ASSUME NEW i \in F
      PROVE  /\ rank[i] = Cardinality(ahead[i]) + 1
             /\ IsFiniteSet(ahead[i])
             /\ Cardinality(ahead[i]) \in Nat
             /\ i \notin ahead[i]
  <2>1. IsFiniteSet(ahead[i])
    BY FS_Subset
  <2>. QED
    BY <2>1, FS_CardinalityType
<1>4. ASSUME NEW i \in F
      PROVE  rank[i] \in D
  <2>1. ahead[i] \in SUBSET (F \ {i})
    BY <1>3
  <2>2. Cardinality(F \ {i}) = N - 1 /\ IsFiniteSet(F \ {i})
    BY FS_RemoveElement
  <2>3. Cardinality(ahead[i]) <= Cardinality(F \ {i})
    BY <2>1, <2>2, FS_Subset
  <2>. HIDE DEF N
  <2>. QED
    BY <1>1, <1>3, <2>2, <2>3
<1>5. ASSUME NEW i \in F, NEW j \in F, i \in ahead[j]
      PROVE  rank[i] < rank[j]
  <2>1. ahead[i] \in SUBSET ahead[j]
    BY <1>5
  <2>2. i \in ahead[j] /\ i \notin ahead[i]
    BY <1>3, <1>5
  <2>3. /\ Cardinality(ahead[i]) <= Cardinality(ahead[j])
        /\ Cardinality(ahead[i]) # Cardinality(ahead[j])
    BY <1>3, <2>1, <2>2, FS_Subset
  <2>. QED
    BY <1>3, <2>3
<1>6. ASSUME NEW i \in F, NEW j \in F, rank[i] = rank[j]
      PROVE  i = j
  <2>1. rank[i] \in Int
    BY <1>1, <1>4
  <2>2. i \notin ahead[j] /\ j \notin ahead[i]
    BY <1>5, <1>6, <2>1
  <2>. QED
    BY <2>2
<1>7. ASSUME NEW n \in D
      PROVE  \E i \in F : rank[i] = n
  <2>1. rank \in Injection(F, D)
    BY <1>4, <1>6 DEF Injection, IsInjective
  <2>2. rank \in Surjection(F, D)
    BY <1>2, <2>1, FS_Injection
  <2>. QED
    BY <2>2 DEF Surjection
<1>. QED
  BY <1>1, <1>4, <1>6, <1>7

(***************************************************************************)
(* The rank of rows in _decay's sort is a strict total order on positions. *)
(***************************************************************************)
LEMMA BeforeIsTotalOrder ==
  ASSUME NEW s \in Book
  PROVE  /\ \A i \in DOMAIN s : ~Before(s, i, i)
         /\ \A i, j \in DOMAIN s : i # j => Before(s, i, j) \/ Before(s, j, i)
         /\ \A i, j, l \in DOMAIN s : Before(s, i, j) /\ Before(s, j, l) => Before(s, i, l)
<1>1. /\ DOMAIN s = 1..Len(s)
      /\ Len(s) \in Nat
      /\ \A i \in 1..Len(s) : s[i] \in Entry
  BY ElementOfSeq, LenProperties DEF Book
<1>2. \A i \in DOMAIN s : s[i].freq \in Nat /\ s[i].seen \in Nat
  BY <1>1 DEF Entry
<1>. QED
  BY <1>1, <1>2 DEF Before, Better

(***************************************************************************)
(* Places are distinct numbers of 1..Len(s), so the sort is a permutation. *)
(***************************************************************************)
LEMMA PlaceIsPermutation ==
  ASSUME NEW s \in Book
  PROVE  /\ \A i \in 1..Len(s) : Place(s, i) \in 1..Len(s)
         /\ \A i, j \in 1..Len(s) : Place(s, i) = Place(s, j) => i = j
         /\ \A n \in 1..Len(s) : \E i \in 1..Len(s) : Place(s, i) = n
<1> DEFINE D == 1..Len(s)
           ahead == [i \in D |-> {j \in D : Before(s, j, i)}]
           rank == [i \in D |-> Cardinality(ahead[i]) + 1]
<1>1. Len(s) \in Nat /\ DOMAIN s = D
  BY LenProperties DEF Book
<1>2. IsFiniteSet(D) /\ Cardinality(D) = Len(s)
  BY <1>1, PositionsFinite
<1>3. \A i \in D : rank[i] = Place(s, i)
  BY <1>1 DEF Place
<1>4. /\ ahead \in [D -> SUBSET D]
      /\ \A i \in D : i \notin ahead[i]
      /\ \A i, j \in D : i # j => i \in ahead[j] \/ j \in ahead[i]
      /\ \A i, j, l \in D : i \in ahead[j] /\ j \in ahead[l] => i \in ahead[l]
  BY <1>1, BeforeIsTotalOrder
<1>5. rank = [i \in D |-> Cardinality(ahead[i]) + 1]
  OBVIOUS
<1>6. D = 1..Len(s)
  OBVIOUS
<1>. HIDE DEF D, ahead, rank
<1>7. /\ \A i \in D : rank[i] \in 1..Cardinality(D)
      /\ \A i, j \in D : rank[i] = rank[j] => i = j
      /\ \A n \in 1..Cardinality(D) : \E i \in D : rank[i] = n
  BY <1>2, <1>4, <1>5, RankIsNumbering
<1>8. /\ \A i \in 1..Len(s) : rank[i] \in 1..Len(s)
      /\ \A i, j \in 1..Len(s) : rank[i] = rank[j] => i = j
      /\ \A n \in 1..Len(s) : \E i \in 1..Len(s) : rank[i] = n
  BY ONLY <1>2, <1>6, <1>7
<1>9. \A i \in 1..Len(s) : rank[i] = Place(s, i)
  BY ONLY <1>3, <1>6
<1>10. \A n \in 1..Len(s) : \E i \in 1..Len(s) : Place(s, i) = n
  BY ONLY <1>8, <1>9
<1>11. \A i \in 1..Len(s) : Place(s, i) \in 1..Len(s)
  BY ONLY <1>8, <1>9
<1>12. \A i, j \in 1..Len(s) : Place(s, i) = Place(s, j) => i = j
  BY ONLY <1>8, <1>9
<1>. QED
  BY <1>10, <1>11, <1>12

(***************************************************************************)
(* _decay: the rows in their places, of which the first Cap are kept.      *)
(***************************************************************************)
LEMMA DecayByPlace ==
  ASSUME NEW s \in Book
  PROVE  /\ Decay(s) \in Book
         /\ Len(Decay(s)) = IF Len(s) < Cap THEN Len(s) ELSE Cap
         /\ DOMAIN Decay(s) = 1..Len(Decay(s))
         /\ \A m \in 1..Len(Decay(s)) :
               \E i \in 1..Len(s) : Place(s, i) = m /\ Decay(s)[m] = s[i]
<1> DEFINE D == 1..Len(s)
           pick(n) == CHOOSE i \in D : Place(s, i) = n
           kept == IF Len(s) < Cap THEN Len(s) ELSE Cap
<1>1. Len(s) \in Nat /\ DOMAIN s = D /\ \A i \in D : s[i] \in Entry
  BY LenProperties, ElementOfSeq DEF Book
<1>2. \A n \in D : pick(n) \in D /\ Place(s, pick(n)) = n
  BY PlaceIsPermutation
<1>3. /\ Sorted(s) = [n \in D |-> s[pick(n)]]
      /\ Sorted(s) \in Seq(Entry)
      /\ Len(Sorted(s)) = Len(s)
  BY <1>1, <1>2 DEF Sorted
<1>4. kept \in Nat /\ kept <= Len(s) /\ kept <= Cap
  BY <1>1, CapAssumption
<1>5. /\ Decay(s) \in Seq(Entry)
      /\ Len(Decay(s)) = kept
      /\ \A m \in 1..kept : Decay(s)[m] = Sorted(s)[m]
  <2>1. Decay(s) = SubSeq(Sorted(s), 1, kept)
    BY DEF Decay
  <2>. HIDE DEF kept
  <2>2. \A i \in 1..kept : Sorted(s)[i] \in Entry
    <3>1. \A i \in 1..kept : i \in 1..Len(Sorted(s))
      BY <1>1, <1>3, <1>4
    <3>2. Sorted(s) \in Seq(Entry)
      BY <1>3
    <3>. QED
      BY ONLY <3>1, <3>2, ElementOfSeq
  <2>3. /\ SubSeq(Sorted(s), 1, kept) \in Seq(Entry)
        /\ Len(SubSeq(Sorted(s), 1, kept)) = IF 1 <= kept THEN kept - 1 + 1 ELSE 0
        /\ \A i \in 1..(kept - 1 + 1) :
              SubSeq(Sorted(s), 1, kept)[i] = Sorted(s)[1 + i - 1]
    <3>1. 1 \in Int /\ kept \in Int
      BY <1>4
    <3>. QED
      BY ONLY <2>2, <3>1, SubSeqProperties
  <2>. DEFINE t == SubSeq(Sorted(s), 1, kept)
  <2>. HIDE DEF t
  <2>4. t \in Seq(Entry) /\ Len(t) = kept
    BY <2>3, <1>4 DEF t
  <2>5. \A m \in 1..kept : t[m] = Sorted(s)[m]
    BY <2>3, <1>4 DEF t
  <2>6. Decay(s) = t
    BY ONLY <2>1 DEF t
  <2>. QED
    BY ONLY <2>4, <2>5, <2>6
<1>6. DOMAIN Decay(s) = 1..kept
  BY <1>5, LenProperties
<1>7. \A m \in 1..kept : m \in D /\ Decay(s)[m] = s[pick(m)] /\ pick(m) \in D /\ Place(s, pick(m)) = m
  <2>. HIDE DEF pick, kept
  <2>1. \A m \in 1..kept : m \in D
    BY <1>1, <1>4
  <2>2. \A m \in D : Sorted(s)[m] = s[pick(m)]
    BY ONLY <1>3
  <2>3. \A m \in 1..kept : Decay(s)[m] = Sorted(s)[m]
    BY ONLY <1>5
  <2>. QED
    BY ONLY <1>2, <2>1, <2>2, <2>3
<1>. QED
  <2>. HIDE DEF pick, kept
  <2>1. \A m \in 1..kept : \E i \in D : Place(s, i) = m /\ Decay(s)[m] = s[i]
    BY <1>7
  <2>. QED
    BY ONLY <1>5, <1>6, <2>1 DEF kept, Book

(***************************************************************************)
(* _decay returns a book of at most CAP rows, each of them a row of its    *)
(* argument, none of them taken twice.                                     *)
(***************************************************************************)
LEMMA DecayTakesRows ==
  ASSUME NEW s \in Book
  PROVE  /\ Decay(s) \in Book
         /\ Len(Decay(s)) <= Cap
         /\ \A m \in DOMAIN Decay(s) : \E i \in DOMAIN s : Decay(s)[m] = s[i]
         /\ \E f \in [DOMAIN Decay(s) -> DOMAIN s] :
               /\ \A m \in DOMAIN Decay(s) : Decay(s)[m] = s[f[m]]
               /\ \A m, n \in DOMAIN Decay(s) : f[m] = f[n] => m = n
<1> DEFINE t == Decay(s)
           D == DOMAIN s
           f == [m \in DOMAIN t |-> CHOOSE i \in D : Place(s, i) = m /\ t[m] = s[i]]
<1>1. /\ t \in Book /\ Len(t) = IF Len(s) < Cap THEN Len(s) ELSE Cap
      /\ DOMAIN t = 1..Len(t)
      /\ \A m \in 1..Len(t) : \E i \in 1..Len(s) : Place(s, i) = m /\ t[m] = s[i]
  BY DecayByPlace
<1>2. Len(s) \in Nat /\ D = 1..Len(s)
  BY LenProperties DEF Book
<1>. HIDE DEF t, D
<1>3. Len(t) <= Cap
  <2>1. Len(t) = IF Len(s) < Cap THEN Len(s) ELSE Cap
    BY ONLY <1>1
  <2>. QED
    BY <1>2, <2>1, CapAssumption
<1>4. \A m \in DOMAIN t : \E i \in D : Place(s, i) = m /\ t[m] = s[i]
  BY <1>1, <1>2
<1>5. f \in [DOMAIN t -> D] /\ \A m \in DOMAIN t : Place(s, f[m]) = m /\ t[m] = s[f[m]]
  BY <1>4
<1>6. \A m, n \in DOMAIN t : f[m] = f[n] => m = n
  BY <1>5
<1>. QED
  <2>. HIDE DEF f
  <2>. QED
    BY <1>1, <1>3, <1>4, <1>5, <1>6 DEF t, D

(***************************************************************************)
(* _decay keeps keys and F-ids unique, and brings in no new key or id.     *)
(***************************************************************************)
LEMMA DecayKeepsUnique ==
  ASSUME NEW s \in Book
  PROVE  /\ UniqueKeys(s) => UniqueKeys(Decay(s))
         /\ UniqueIds(s) => UniqueIds(Decay(s))
         /\ KeysOf(Decay(s)) \subseteq KeysOf(s)
<1>1. PICK f \in [DOMAIN Decay(s) -> DOMAIN s] :
               /\ \A m \in DOMAIN Decay(s) : Decay(s)[m] = s[f[m]]
               /\ \A m, n \in DOMAIN Decay(s) : f[m] = f[n] => m = n
  BY DecayTakesRows
<1>2. \A m \in DOMAIN Decay(s) : f[m] \in DOMAIN s
  OBVIOUS
<1>3. UniqueKeys(s) => UniqueKeys(Decay(s))
  BY <1>1, <1>2 DEF UniqueKeys
<1>4. UniqueIds(s) => UniqueIds(Decay(s))
  BY <1>1, <1>2 DEF UniqueIds
<1>5. KeysOf(Decay(s)) \subseteq KeysOf(s)
  BY <1>1, <1>2 DEF KeysOf
<1>. QED
  BY <1>3, <1>4, <1>5

(***************************************************************************)
(* Induction along a book, on a set of positions instead of a predicate.   *)
(***************************************************************************)
LEMMA AlongTheBook ==
  ASSUME NEW m \in Nat, NEW S, 1 \in S,
         \A n \in 1..m : n \in S /\ n + 1 <= m => n + 1 \in S
  PROVE  \A n \in 1..m : n \in S
<1> DEFINE R == OpToRel(<, Nat)
           T == {n \in Nat : n \in 1..m /\ n \notin S}
<1>1. SUFFICES ASSUME T # {}
               PROVE  FALSE
  OBVIOUS
<1>2. PICK x \in T : \A y \in T : ~(<<y, x>> \in R)
  BY <1>1, T \subseteq Nat, NatLessThanWellFounded, WFMin
<1>3. x # 1 /\ x - 1 \in 1..m /\ x - 1 \in Nat /\ (x - 1) + 1 = x /\ x <= m
  OBVIOUS
<1>4. <<x - 1, x>> \in R
  BY <1>3 DEF OpToRel
<1>5. x - 1 \in S
  BY <1>2, <1>3, <1>4
<1>. QED
  BY <1>3, <1>5

(***************************************************************************)
(* A nonempty book has a highest F-id, so the id of an appended row is new.*)
(***************************************************************************)
LEMMA NextIdIsNew ==
  ASSUME NEW s \in Book
  PROVE  NextId(s) \in Nat \ {0} /\ NextId(s) \notin IdsOf(s)
<1> DEFINE D == 1..Len(s)
<1>1. Len(s) \in Nat /\ DOMAIN s = D /\ \A i \in D : s[i] \in Entry
  BY LenProperties, ElementOfSeq DEF Book
<1>2. \A i \in D : s[i].id \in Nat \ {0}
  BY <1>1 DEF Entry
<1>3. CASE s = << >>
  BY <1>3 DEF NextId, IdsOf
<1>4. CASE s # << >>
  \* the lengths n such that one of the first n ids bounds them all
  <2> DEFINE S == {n \in D : \E i \in 1..n : \A j \in 1..n : s[i].id >= s[j].id}
  <2>1. Len(s) >= 1
    BY <1>1, <1>4, EmptySeq DEF Book
  <2>2. 1 \in S
    BY <1>1, <1>2, <2>1
  <2>3. ASSUME NEW n \in D, n \in S, n + 1 <= Len(s)
        PROVE  n + 1 \in S
    <3>1. PICK i \in 1..n : \A j \in 1..n : s[i].id >= s[j].id
      BY <2>3
    <3>2. n + 1 \in D /\ n + 1 \in 1..(n + 1) /\ i \in 1..(n + 1)
      BY <1>1, <2>3
    <3>3. CASE s[n + 1].id >= s[i].id
      <4>1. \A j \in 1..(n + 1) : s[n + 1].id >= s[j].id
        BY <1>1, <1>2, <3>1, <3>2, <3>3
      <4>. QED
        BY <3>2, <4>1
    <3>4. CASE ~(s[n + 1].id >= s[i].id)
      <4>1. \A j \in 1..(n + 1) : s[i].id >= s[j].id
        BY <1>1, <1>2, <3>1, <3>2, <3>4
      <4>. QED
        BY <3>2, <4>1
    <3>. QED
      BY <3>3, <3>4
  <2>4. Len(s) \in S
    <3>1. \A n \in 1..Len(s) : n \in S /\ n + 1 <= Len(s) => n + 1 \in S
      BY <2>3
    <3>. HIDE DEF S
    <3>2. \A n \in 1..Len(s) : n \in S
      BY <1>1, <2>2, <3>1, AlongTheBook
    <3>. QED
      BY <1>1, <2>1, <3>2
  <2>5. PICK i \in D : \A j \in D : s[i].id >= s[j].id
    BY <2>4
  <2>6. s[i].id \in IdsOf(s) /\ \A m \in IdsOf(s) : m \in Nat /\ s[i].id >= m
    BY <1>1, <1>2, <2>5 DEF IdsOf
  <2>7. Max(IdsOf(s)) \in IdsOf(s) /\ \A m \in IdsOf(s) : Max(IdsOf(s)) >= m
    BY <2>6 DEF Max
  <2>. HIDE DEF S, D
  <2>. QED
    BY <1>4, <2>6, <2>7 DEF NextId
<1>. QED
  BY <1>3, <1>4

(***************************************************************************)
(* In a book with one row per key, PositionOf finds the row of a key.      *)
(***************************************************************************)
LEMMA PositionIsFirst ==
  ASSUME NEW s \in Book, NEW k \in KeysOf(s)
  PROVE  PositionOf(s, k) \in 1..Len(s) /\ s[PositionOf(s, k)].key = k
<1> DEFINE D == 1..Len(s)
           First(i) == s[i].key = k /\ \A j \in 1..(i - 1) : s[j].key # k
           S == {n \in D : \A j \in 1..n : s[j].key # k}
<1>1. Len(s) \in Nat /\ DOMAIN s = D
  BY LenProperties DEF Book
<1>2. SUFFICES \E i \in D : First(i)
  BY <1>1 DEF PositionOf
<1>3. SUFFICES ASSUME \A i \in D : ~First(i)
               PROVE  FALSE
  OBVIOUS
<1>4. PICK i \in D : s[i].key = k
  BY <1>1 DEF KeysOf
<1>5. 1 \in S
  BY <1>1, <1>3, <1>4
<1>6. ASSUME NEW n \in D, n \in S, n + 1 <= Len(s)
      PROVE  n + 1 \in S
  <2>1. n + 1 \in D /\ (n + 1) - 1 = n
    BY <1>1, <1>6
  <2>2. s[n + 1].key # k
    BY <1>3, <1>6, <2>1
  <2>3. \A j \in 1..(n + 1) : s[j].key # k
    BY <1>6, <2>1, <2>2
  <2>. QED
    BY <2>1, <2>3
<1>7. i \in S
  <2>. HIDE DEF S
  <2>. QED
    BY <1>1, <1>5, <1>6, AlongTheBook
<1>. QED
  BY <1>1, <1>4, <1>7

(***************************************************************************)
(* upsert's new rows: a book again, keys and F-ids still unique.           *)
(***************************************************************************)
LEMMA UpsertKeepsSound ==
  ASSUME NEW s \in Book, NEW k \in Keys, NEW d \in Nat
  PROVE  /\ Upserted(s, k, d) \in Book
         /\ UniqueKeys(s) => UniqueKeys(Upserted(s, k, d))
         /\ UniqueIds(s) => UniqueIds(Upserted(s, k, d))
<1> DEFINE D == 1..Len(s)
           t == Upserted(s, k, d)
<1>1. Len(s) \in Nat /\ DOMAIN s = D /\ \A i \in D : s[i] \in Entry
  BY LenProperties, ElementOfSeq DEF Book
<1>2. CASE k \in KeysOf(s)
  <2> DEFINE i == PositionOf(s, k)
  <2>1. i \in D /\ s[i].key = k
    BY <1>2, PositionIsFirst
  <2>. HIDE DEF i
  <2>2. t = [s EXCEPT ![i] = Row(s[i].id, s[i].key, s[i].freq + 1, d)]
    BY <1>1, <1>2, <2>1 DEF Upserted, Incremented, i, Book
  <2> DEFINE r == Row(s[i].id, s[i].key, s[i].freq + 1, d)
  <2>3. r \in Entry /\ r.key = s[i].key /\ r.id = s[i].id
    <3>1. /\ s[i].id \in Nat \ {0} /\ s[i].key \in Keys
          /\ s[i].freq + 1 \in Nat \ {0}
      BY <1>1, <2>1 DEF Entry
    <3>. QED
      BY <3>1 DEF Entry, Row
  <2>. HIDE DEF r
  <2>4. t \in Book /\ DOMAIN t = D /\ \A j \in D : t[j].key = s[j].key /\ t[j].id = s[j].id
    BY <1>1, <2>1, <2>2, <2>3 DEF r, Book
  <2>. QED
    BY <1>1, <2>4 DEF UniqueKeys, UniqueIds
<1>3. CASE k \notin KeysOf(s)
  <2> DEFINE r == Row(NextId(s), k, 1, d)
  <2>1. r \in Entry /\ r.key = k /\ r.id = NextId(s)
    BY NextIdIsNew DEF Entry, Row
  <2>2. t = Append(s, r)
    BY <1>3 DEF Upserted, Added
  <2>. HIDE DEF r
  <2>3. /\ t \in Book
        /\ DOMAIN t = 1..(Len(s) + 1)
        /\ \A j \in D : t[j] = s[j]
        /\ t[Len(s) + 1] = r
    BY <1>1, <2>1, <2>2 DEF Book
  <2>4. \A j \in D : s[j].key # k /\ s[j].id # NextId(s)
    BY <1>1, <1>3, NextIdIsNew DEF KeysOf, IdsOf
  <2>5. \A j \in 1..(Len(s) + 1) : j \in D \/ j = Len(s) + 1
    BY <1>1
  <2>6. UniqueKeys(s) => UniqueKeys(t)
    BY <1>1, <2>1, <2>3, <2>4, <2>5 DEF UniqueKeys
  <2>7. UniqueIds(s) => UniqueIds(t)
    BY <1>1, <2>1, <2>3, <2>4, <2>5 DEF UniqueIds
  <2>. QED
    BY <2>3, <2>6, <2>7
<1>. QED
  BY <1>2, <1>3

(***************************************************************************)
(* The constructor of rows.                                                *)
(***************************************************************************)
LEMMA RowIsEntry ==
  ASSUME NEW n \in Nat \ {0}, NEW k \in Keys, NEW f \in Nat \ {0}, NEW d \in Nat
  PROVE  Row(n, k, f, d) \in Entry /\ Row(n, k, f, d).id = n /\ Row(n, k, f, d).key = k
BY DEF Entry, Row

(***************************************************************************)
(* Dealing the F-ids anew makes them unique and touches nothing else.      *)
(***************************************************************************)
LEMMA RenumberingIsSound ==
  ASSUME NEW s \in Book
  PROVE  /\ Renumbered(s) \in Book
         /\ UniqueIds(Renumbered(s))
         /\ UniqueKeys(s) => UniqueKeys(Renumbered(s))
<1> DEFINE D == 1..Len(s)
           ahead == [i \in D |-> {j \in D : s[j].id < s[i].id \/ (s[j].id = s[i].id /\ j < i)}]
           rank == [i \in D |-> Cardinality(ahead[i]) + 1]
           t == Renumbered(s)
<1>1. Len(s) \in Nat /\ DOMAIN s = D /\ \A i \in D : s[i] \in Entry
  BY LenProperties, ElementOfSeq DEF Book
<1>2. \A i \in D : /\ s[i].id \in Nat /\ s[i].key \in Keys
                   /\ s[i].freq \in Nat \ {0} /\ s[i].seen \in Nat
  BY <1>1 DEF Entry
<1>3. IsFiniteSet(D) /\ Cardinality(D) = Len(s)
  BY <1>1, PositionsFinite
<1>4. /\ ahead \in [D -> SUBSET D]
      /\ \A i \in D : i \notin ahead[i]
      /\ \A i, j \in D : i # j => i \in ahead[j] \/ j \in ahead[i]
      /\ \A i, j, l \in D : i \in ahead[j] /\ j \in ahead[l] => i \in ahead[l]
  BY <1>1, <1>2
<1>5. \A i \in D : PlaceById(s, i) = rank[i]
  BY <1>1 DEF PlaceById
<1>6. rank = [i \in D |-> Cardinality(ahead[i]) + 1]
  OBVIOUS
<1>7. \A i \in D : t[i] = Row(rank[i], s[i].key, s[i].freq, s[i].seen)
  BY <1>5 DEF Renumbered
<1>8. DOMAIN t = D /\ Len(t) = Len(s) /\ t = [i \in D |-> t[i]]
  BY <1>1 DEF Renumbered
<1>. HIDE DEF ahead, rank, t
<1>9. /\ Cardinality(D) \in Nat
      /\ \A i \in D : rank[i] \in 1..Cardinality(D)
      /\ \A i, j \in D : rank[i] = rank[j] => i = j
  <2>. HIDE DEF D
  <2>. QED
    BY <1>3, <1>4, <1>6, RankIsNumbering
<1>10. \A i \in D : rank[i] \in Nat \ {0}
  BY <1>9
<1>11. \A i \in D : t[i] \in Entry /\ t[i].id = rank[i] /\ t[i].key = s[i].key
  <2>. HIDE DEF D
  <2>. QED
    BY <1>2, <1>7, <1>10, RowIsEntry
<1>12. t \in Book
  BY <1>1, <1>8, <1>11 DEF Book
<1>13. UniqueIds(t)
  BY <1>8, <1>9, <1>11 DEF UniqueIds
<1>14. UniqueKeys(s) => UniqueKeys(t)
  BY <1>1, <1>8, <1>11 DEF UniqueKeys
<1>. QED
  BY <1>12, <1>13, <1>14 DEF t

(***************************************************************************)
(* The new rows of a merge are rows of the incoming book at pairwise       *)
(* different positions, with keys the base does not have.                  *)
(***************************************************************************)
LEMMA NewcomersAreNew ==
  ASSUME NEW base \in Book, NEW incoming \in Book
  PROVE  /\ Newcomers(base, incoming) \in Book
         /\ \A n \in DOMAIN Newcomers(base, incoming) :
               Newcomers(base, incoming)[n].key \notin KeysOf(base)
         /\ UniqueKeys(incoming) => UniqueKeys(Newcomers(base, incoming))
<1> DEFINE F == NewPositions(base, incoming)
           ahead == [i \in F |-> {j \in F : j < i}]
           rank == [i \in F |-> Cardinality(ahead[i]) + 1]
           N == Cardinality(F)
           pick(n) == CHOOSE i \in F : Cardinality({j \in F : j < i}) + 1 = n
           t == Newcomers(base, incoming)
<1>1. /\ Len(incoming) \in Nat /\ DOMAIN incoming = 1..Len(incoming)
      /\ \A i \in 1..Len(incoming) : incoming[i] \in Entry
  BY LenProperties, ElementOfSeq DEF Book
<1>2. /\ F \subseteq 1..Len(incoming)
      /\ \A i \in F : i \in Int /\ i \in DOMAIN incoming /\ incoming[i] \in Entry
      /\ \A i \in F : incoming[i].key \notin KeysOf(base)
  BY <1>1 DEF NewPositions
<1>3. IsFiniteSet(F)
  BY <1>1, <1>2, PositionsFinite, FS_Subset
<1>4. /\ ahead \in [F -> SUBSET F]
      /\ \A i \in F : i \notin ahead[i]
      /\ \A i, j \in F : i # j => i \in ahead[j] \/ j \in ahead[i]
      /\ \A i, j, l \in F : i \in ahead[j] /\ j \in ahead[l] => i \in ahead[l]
  BY <1>2
<1>5. rank = [i \in F |-> Cardinality(ahead[i]) + 1]
  OBVIOUS
<1>6. \A i \in F : rank[i] = Cardinality({j \in F : j < i}) + 1
  OBVIOUS
<1>7. t = [n \in 1..N |-> incoming[pick(n)]]
  BY DEF Newcomers
<1>8. \A n : (\E i \in F : rank[i] = n) => pick(n) \in F /\ rank[pick(n)] = n
  BY <1>6
<1>. HIDE DEF F, ahead, rank, t
<1>9. /\ N \in Nat
      /\ \A n \in 1..N : \E i \in F : rank[i] = n
  BY <1>3, <1>4, <1>5, RankIsNumbering
<1>. HIDE DEF N
<1>10. \A n \in 1..N : pick(n) \in F /\ rank[pick(n)] = n
  BY <1>8, <1>9
<1>. HIDE DEF pick
<1>11. \A n \in 1..N : t[n] \in Entry /\ t[n] = incoming[pick(n)]
  BY <1>2, <1>7, <1>10
<1>12. t \in Book /\ DOMAIN t = 1..N
  BY <1>7, <1>9, <1>11 DEF Book
<1>13. \A n \in 1..N : t[n].key \notin KeysOf(base)
  BY <1>2, <1>10, <1>11
<1>14. UniqueKeys(incoming) => UniqueKeys(t)
  <2>1. SUFFICES ASSUME UniqueKeys(incoming), NEW m \in 1..N, NEW n \in 1..N,
                        t[m].key = t[n].key
                 PROVE  m = n
    BY <1>12 DEF UniqueKeys
  <2>2. \A i, j \in DOMAIN incoming : incoming[i].key = incoming[j].key => i = j
    BY <2>1 DEF UniqueKeys
  <2>3. pick(m) \in DOMAIN incoming /\ pick(n) \in DOMAIN incoming
    BY <1>2, <1>10
  <2>4. pick(m) = pick(n)
    BY <1>11, <2>1, <2>2, <2>3
  <2>. QED
    BY <1>10, <2>4
<1>. QED
  BY <1>12, <1>13, <1>14 DEF t

(***************************************************************************)
(* _merge_entries of two books with one row per pattern is a book with one *)
(* row per pattern and fresh, unique F-ids.                                *)
(***************************************************************************)
LEMMA MergeKeepsSound ==
  ASSUME NEW base \in Book, NEW incoming \in Book
  PROVE  /\ Merged(base, incoming) \in Book
         /\ UniqueIds(Merged(base, incoming))
         /\ UniqueKeys(base) /\ UniqueKeys(incoming) => UniqueKeys(Merged(base, incoming))
<1> DEFINE head == [i \in 1..Len(base) |-> Absorbed(base[i], incoming)]
           tail == Newcomers(base, incoming)
           t == Joined(base, incoming)
<1>1. /\ Len(base) \in Nat /\ DOMAIN base = 1..Len(base)
      /\ \A i \in 1..Len(base) : base[i] \in Entry
  BY LenProperties, ElementOfSeq DEF Book
<1>2. /\ Len(incoming) \in Nat /\ DOMAIN incoming = 1..Len(incoming)
      /\ \A i \in 1..Len(incoming) : incoming[i] \in Entry
  BY LenProperties, ElementOfSeq DEF Book
<1>3. ASSUME NEW e \in Entry
      PROVE  Absorbed(e, incoming) \in Entry /\ Absorbed(e, incoming).key = e.key
  <2>1. CASE e.key \notin KeysOf(incoming)
    BY <2>1 DEF Absorbed
  <2>2. CASE e.key \in KeysOf(incoming)
    <3> DEFINE f == incoming[PositionOf(incoming, e.key)]
               day == IF f.seen > e.seen THEN f.seen ELSE e.seen
    <3>1. f \in Entry
      BY <1>2, <2>2, PositionIsFirst
    <3>2. /\ e.id \in Nat \ {0} /\ e.key \in Keys
          /\ e.freq + f.freq \in Nat \ {0} /\ day \in Nat
      BY <3>1 DEF Entry
    <3>3. Absorbed(e, incoming) = Row(e.id, e.key, e.freq + f.freq, day)
      BY <2>2 DEF Absorbed
    <3>. HIDE DEF f, day
    <3>. QED
      BY <3>2, <3>3 DEF Row, Entry
  <2>. QED
    BY <2>1, <2>2
<1>4. /\ head \in Seq(Entry) /\ Len(head) = Len(base)
      /\ \A i \in 1..Len(base) : head[i].key = base[i].key
  BY <1>1, <1>3
<1>5. /\ tail \in Seq(Entry) /\ Len(tail) \in Nat /\ DOMAIN tail = 1..Len(tail)
      /\ \A n \in 1..Len(tail) : tail[n].key \notin KeysOf(base)
      /\ UniqueKeys(incoming) => UniqueKeys(tail)
  BY NewcomersAreNew, LenProperties DEF Book
<1>6. t = head \o tail
  BY DEF Joined
<1>. HIDE DEF head, tail, t
<1>7. /\ t \in Book /\ Len(t) = Len(head) + Len(tail)
      /\ \A i \in 1..(Len(head) + Len(tail)) :
            t[i] = IF i <= Len(head) THEN head[i] ELSE tail[i - Len(head)]
  BY <1>4, <1>5, <1>6, ConcatProperties DEF Book
<1>8. DOMAIN t = 1..(Len(base) + Len(tail))
  BY <1>4, <1>7, LenProperties DEF Book
<1>9. \A i \in 1..(Len(base) + Len(tail)) :
         \/ i \in 1..Len(base) /\ t[i].key = base[i].key /\ t[i].key \in KeysOf(base)
         \/ /\ i - Len(base) \in 1..Len(tail)
            /\ t[i].key = tail[i - Len(base)].key /\ t[i].key \notin KeysOf(base)
  <2>1. ASSUME NEW i \in 1..(Len(base) + Len(tail)), i <= Len(base)
        PROVE  i \in 1..Len(base) /\ t[i].key = base[i].key /\ t[i].key \in KeysOf(base)
    <3>1. i \in 1..Len(base) /\ i \in 1..(Len(head) + Len(tail)) /\ i <= Len(head)
      BY <1>1, <1>4, <1>5, <2>1
    <3>2. t[i] = head[i] /\ head[i].key = base[i].key
      BY ONLY <1>4, <1>7, <3>1
    <3>. QED
      BY <1>1, <3>1, <3>2 DEF KeysOf
  <2>2. ASSUME NEW i \in 1..(Len(base) + Len(tail)), ~(i <= Len(base))
        PROVE  /\ i - Len(base) \in 1..Len(tail)
               /\ t[i].key = tail[i - Len(base)].key /\ t[i].key \notin KeysOf(base)
    <3>1. i - Len(base) \in 1..Len(tail) /\ i \in 1..(Len(head) + Len(tail)) /\ ~(i <= Len(head))
      BY <1>1, <1>4, <1>5, <2>2
    <3>2. t[i] = tail[i - Len(head)]
      BY ONLY <1>7, <3>1
    <3>. QED
      BY <1>4, <1>5, <3>1, <3>2
  <2>. QED
    BY <2>1, <2>2
<1>10. UniqueKeys(base) /\ UniqueKeys(incoming) => UniqueKeys(t)
  <2>1. SUFFICES ASSUME UniqueKeys(base), UniqueKeys(tail),
                        NEW i \in 1..(Len(base) + Len(tail)),
                        NEW j \in 1..(Len(base) + Len(tail)),
                        t[i].key = t[j].key
                 PROVE  i = j
    BY <1>5, <1>8 DEF UniqueKeys
  <2>2. \A m, n \in 1..Len(base) : base[m].key = base[n].key => m = n
    BY <1>1, <2>1 DEF UniqueKeys
  <2>3. \A m, n \in 1..Len(tail) : tail[m].key = tail[n].key => m = n
    BY <1>5, <2>1 DEF UniqueKeys
  <2>4. CASE t[i].key \in KeysOf(base)
    BY <1>9, <2>1, <2>2, <2>4
  <2>5. CASE t[i].key \notin KeysOf(base)
    <3>1. i - Len(base) = j - Len(base)
      BY <1>9, <2>1, <2>3, <2>5
    <3>. QED
      BY <1>1, <1>5, <3>1
  <2>. QED
    BY <2>4, <2>5
<1>. QED
  BY <1>7, <1>10, RenumberingIsSound DEF Merged, t

(***************************************************************************)
(* Who comes before is placed before.                                      *)
(***************************************************************************)
LEMMA PlaceFollowsOrder ==
  ASSUME NEW s \in Book, NEW i \in 1..Len(s), NEW j \in 1..Len(s), Before(s, i, j)
  PROVE  Place(s, i) < Place(s, j)
<1> DEFINE ahead(n) == {l \in DOMAIN s : Before(s, l, n)}
<1>1. Len(s) \in Nat /\ DOMAIN s = 1..Len(s)
  BY LenProperties DEF Book
<1>2. IsFiniteSet(DOMAIN s)
  BY <1>1, PositionsFinite
<1>3. ahead(i) \in SUBSET ahead(j) /\ i \in ahead(j) /\ i \notin ahead(i)
  BY <1>1, BeforeIsTotalOrder
<1>4. IsFiniteSet(ahead(i)) /\ IsFiniteSet(ahead(j))
  BY <1>2, FS_Subset
<1>5. Place(s, i) = Cardinality(ahead(i)) + 1 /\ Place(s, j) = Cardinality(ahead(j)) + 1
  BY DEF Place
<1>. HIDE DEF ahead
<1>6. /\ Cardinality(ahead(i)) <= Cardinality(ahead(j))
      /\ Cardinality(ahead(i)) # Cardinality(ahead(j))
  BY <1>3, <1>4, FS_Subset
<1>7. Cardinality(ahead(i)) \in Nat /\ Cardinality(ahead(j)) \in Nat
  BY <1>4, FS_CardinalityType
<1>. QED
  BY <1>5, <1>6, <1>7

-----------------------------------------------------------------------------
(***************************************************************************)
(* Rows and frequencies.  In a book with one row per key, Freq is what     *)
(* that row says.                                                          *)
(***************************************************************************)
LEMMA RowsOf ==
  ASSUME NEW s \in Book
  PROVE  /\ Len(s) \in Nat /\ DOMAIN s = 1..Len(s)
         /\ \A i \in 1..Len(s) : /\ s[i] \in Entry /\ s[i].key \in Keys /\ s[i].id \in Nat \ {0}
                                 /\ s[i].freq \in Nat \ {0} /\ s[i].seen \in Nat
                                 /\ s[i].key \in KeysOf(s)
         /\ \A k \in KeysOf(s) : \E i \in 1..Len(s) : s[i].key = k
<1>1. Len(s) \in Nat /\ DOMAIN s = 1..Len(s) /\ \A i \in 1..Len(s) : s[i] \in Entry
  BY LenProperties, ElementOfSeq DEF Book
<1>. QED
  BY <1>1 DEF Entry, KeysOf

LEMMA FreqIs ==
  ASSUME NEW s \in Book
  PROVE  /\ \A k : k \notin KeysOf(s) => Freq(s, k) = 0
         /\ \A k \in KeysOf(s) : Freq(s, k) \in Nat \ {0}
         /\ \A k : Freq(s, k) \in Nat
         /\ UniqueKeys(s) => \A i \in 1..Len(s) : Freq(s, s[i].key) = s[i].freq
<1>1. ASSUME NEW k \in KeysOf(s)
      PROVE  \E i \in 1..Len(s) : s[i].key = k /\ Freq(s, k) = s[i].freq
  <2> DEFINE c == CHOOSE i \in DOMAIN s : s[i].key = k
  <2>1. c \in DOMAIN s /\ s[c].key = k
    BY DEF KeysOf
  <2>2. Freq(s, k) = s[c].freq
    BY DEF Freq
  <2>. HIDE DEF c
  <2>. QED
    BY <2>1, <2>2, RowsOf
<1>2. \A k : k \notin KeysOf(s) => Freq(s, k) = 0
  BY DEF Freq
<1>3. \A k \in KeysOf(s) : Freq(s, k) \in Nat \ {0}
  BY <1>1, RowsOf
<1>4. ASSUME UniqueKeys(s), NEW i \in 1..Len(s)
      PROVE  Freq(s, s[i].key) = s[i].freq
  BY <1>1, <1>4, RowsOf DEF UniqueKeys
<1>. QED
  BY <1>2, <1>3, <1>4

(***************************************************************************)
(* _decay takes nothing from a row, and drops none while there is room.    *)
(***************************************************************************)
LEMMA DecayFreq ==
  ASSUME NEW s \in Book, UniqueKeys(s)
  PROVE  /\ \A k : Freq(Decay(s), k) <= Freq(s, k)
         /\ Len(s) <= Cap => \A k : Freq(Decay(s), k) = Freq(s, k)
<1> DEFINE t == Decay(s)
<1>1. t \in Book /\ UniqueKeys(t) /\ KeysOf(t) \subseteq KeysOf(s)
  BY DecayTakesRows, DecayKeepsUnique
<1>2. /\ Len(t) = IF Len(s) < Cap THEN Len(s) ELSE Cap
      /\ \A m \in 1..Len(t) : \E i \in 1..Len(s) : Place(s, i) = m /\ t[m] = s[i]
  BY DecayByPlace
<1>. HIDE DEF t
<1>3. ASSUME NEW k \in KeysOf(t)
      PROVE  Freq(t, k) = Freq(s, k)
  <2>1. PICK m \in 1..Len(t) : t[m].key = k
    BY <1>1, RowsOf
  <2>2. PICK i \in 1..Len(s) : t[m] = s[i]
    BY <1>2
  <2>3. Freq(t, k) = t[m].freq
    BY <1>1, <2>1, FreqIs
  <2>4. Freq(s, k) = s[i].freq
    BY <2>1, <2>2, FreqIs
  <2>. QED
    BY <2>2, <2>3, <2>4
<1>4. ASSUME NEW k, k \notin KeysOf(t)
      PROVE  Freq(t, k) = 0 /\ Freq(s, k) \in Nat
  BY <1>1, <1>4, FreqIs
<1>5. \A k : Freq(t, k) <= Freq(s, k)
  <2> TAKE k
  <2>1. CASE k \in KeysOf(t)
    <3>1. Freq(s, k) \in Nat
      BY FreqIs
    <3>. QED
      BY <1>3, <2>1, <3>1
  <2>2. CASE k \notin KeysOf(t)
    BY <1>4, <2>2
  <2>. QED
    BY <2>1, <2>2
<1>6. ASSUME Len(s) <= Cap
      PROVE  KeysOf(s) \subseteq KeysOf(t)
  <2>1. Len(t) = Len(s)
    BY <1>2, <1>6, RowsOf, CapAssumption
  <2>2. ASSUME NEW i \in 1..Len(s)
        PROVE  s[i].key \in KeysOf(t)
    <3>1. Place(s, i) \in 1..Len(t)
      BY <2>1, PlaceIsPermutation
    <3>2. PICK j \in 1..Len(s) : Place(s, j) = Place(s, i) /\ t[Place(s, i)] = s[j]
      BY <1>2, <3>1
    <3>3. t[Place(s, i)] = s[i]
      BY <3>2, PlaceIsPermutation
    <3>. QED
      BY <1>1, <3>1, <3>3, RowsOf
  <2>. QED
    BY <2>2, RowsOf
<1>7. ASSUME Len(s) <= Cap
      PROVE  \A k : Freq(t, k) = Freq(s, k)
  <2> TAKE k
  <2>1. CASE k \in KeysOf(t)
    BY <1>3, <2>1
  <2>2. CASE k \notin KeysOf(t)
    BY <1>1, <1>6, <1>7, <2>2, FreqIs
  <2>. QED
    BY <2>1, <2>2
<1>. QED
  BY <1>5, <1>7 DEF t

(***************************************************************************)
(* A row that _decay drops is no better than any it keeps.                 *)
(***************************************************************************)
LEMMA DecayDropsTheWorst ==
  ASSUME NEW s \in Book, NEW i \in 1..Len(s), s[i].key \notin KeysOf(Decay(s))
  PROVE  /\ Len(Decay(s)) = Cap
         /\ \A m \in DOMAIN Decay(s) : ~Better(s[i], Decay(s)[m])
<1> DEFINE t == Decay(s)
<1>1. t \in Book
  BY DecayTakesRows
<1>2. /\ Len(t) = IF Len(s) < Cap THEN Len(s) ELSE Cap
      /\ DOMAIN t = 1..Len(t)
      /\ \A m \in 1..Len(t) : \E j \in 1..Len(s) : Place(s, j) = m /\ t[m] = s[j]
  BY DecayByPlace
<1>3. s[i].key \notin KeysOf(t)
  OBVIOUS
<1>. HIDE DEF t
<1>4. Len(s) \in Nat /\ Len(t) \in Nat /\ Cap \in Nat /\ DOMAIN s = 1..Len(s)
  BY <1>1, RowsOf, CapAssumption
<1>5. Place(s, i) \in 1..Len(s) /\ Place(s, i) > Len(t)
  <2>1. Place(s, i) \in 1..Len(s)
    BY PlaceIsPermutation
  <2>2. CASE Place(s, i) \in 1..Len(t)
    <3>1. PICK j \in 1..Len(s) : Place(s, j) = Place(s, i) /\ t[Place(s, i)] = s[j]
      BY <1>2, <2>2
    <3>2. t[Place(s, i)] = s[i]
      BY <3>1, PlaceIsPermutation
    <3>. QED
      BY <1>1, <1>3, <2>2, <3>2, RowsOf
  <2>. QED
    BY <1>4, <2>1, <2>2
<1>6. Len(t) = Cap
  <2>1. Len(t) = IF Len(s) < Cap THEN Len(s) ELSE Cap
    BY ONLY <1>2
  <2>2. Len(s) > Len(t)
    BY ONLY <1>4, <1>5
  <2> DEFINE n == Len(s)
             m == Len(t)
  <2>3. n \in Nat /\ m \in Nat /\ Cap \in Nat /\ n > m /\ m = IF n < Cap THEN n ELSE Cap
    BY ONLY <1>4, <2>1, <2>2
  <2>. HIDE DEF n, m
  <2>4. m = Cap
    BY ONLY <2>3
  <2>. QED
    BY ONLY <2>4 DEF m
<1>7. ASSUME NEW m \in 1..Len(t)
      PROVE  ~Better(s[i], t[m])
  <2>1. PICK j \in 1..Len(s) : Place(s, j) = m /\ t[m] = s[j]
    BY <1>2
  <2>2. SUFFICES ASSUME Better(s[i], s[j])
                 PROVE  FALSE
    BY <2>1
  <2>3. Before(s, i, j)
    BY <2>2 DEF Before
  <2>4. Place(s, i) < Place(s, j)
    BY <1>4, <2>3, PlaceFollowsOrder
  <2>. QED
    BY <1>4, <1>5, <2>1, <2>4
<1>. QED
  BY <1>2, <1>6, <1>7 DEF t

-----------------------------------------------------------------------------
(***************************************************************************)
(* What a write adds: t has the rows of s, in place, with g more of each   *)
(* key, and after them a row for each further key of which g has some.     *)
(***************************************************************************)
Adds(s, t, g) ==
  /\ Len(s) <= Len(t)
  /\ \A i \in 1..Len(s) :
        /\ t[i].key = s[i].key
        /\ t[i].freq = s[i].freq + g[s[i].key]
        /\ g[s[i].key] = 0 => t[i].seen = s[i].seen
  /\ \A i \in 1..Len(t) :
        i > Len(s) => t[i].key \notin KeysOf(s) /\ t[i].freq = g[t[i].key]
  /\ \A k \in Keys \ KeysOf(t) : g[k] = 0

LEMMA AddsFreq ==
  ASSUME NEW s \in Book, NEW t \in Book, UniqueKeys(s), UniqueKeys(t),
         NEW g \in [Keys -> Nat], Adds(s, t, g)
  PROVE  /\ \A k \in Keys : Freq(t, k) = Freq(s, k) + g[k]
         /\ KeysOf(s) \subseteq KeysOf(t)
<1>1. /\ Len(s) \in Nat /\ Len(t) \in Nat /\ Len(s) <= Len(t)
      /\ \A i \in 1..Len(s) : i \in 1..Len(t)
  BY RowsOf DEF Adds
<1>2. \A i \in 1..Len(s) : t[i].key = s[i].key /\ t[i].freq = s[i].freq + g[s[i].key]
  BY DEF Adds
<1>3. \A i \in 1..Len(t) : i > Len(s) => t[i].key \notin KeysOf(s) /\ t[i].freq = g[t[i].key]
  BY DEF Adds
<1>4. \A k \in Keys \ KeysOf(t) : g[k] = 0
  BY DEF Adds
<1>5. ASSUME NEW k \in KeysOf(s)
      PROVE  k \in KeysOf(t) /\ Freq(t, k) = Freq(s, k) + g[k]
  <2>1. PICK i \in 1..Len(s) : s[i].key = k
    BY RowsOf
  <2>2. i \in 1..Len(t) /\ t[i].key = k /\ t[i].freq = s[i].freq + g[k]
    BY <1>1, <1>2, <2>1
  <2>3. k \in KeysOf(t)
    BY <2>2, RowsOf
  <2>4. Freq(s, k) = s[i].freq
    BY <2>1, FreqIs
  <2>5. Freq(t, k) = t[i].freq
    BY <2>2, FreqIs
  <2>. QED
    BY <2>2, <2>3, <2>4, <2>5
<1>6. ASSUME NEW k \in Keys, k \notin KeysOf(s)
      PROVE  Freq(t, k) = Freq(s, k) + g[k]
  <2>1. Freq(s, k) = 0 /\ g[k] \in Nat
    BY <1>6, FreqIs
  <2>2. CASE k \in KeysOf(t)
    <3>1. PICK i \in 1..Len(t) : t[i].key = k
      BY <2>2, RowsOf
    <3>2. i > Len(s)
      <4>1. i \notin 1..Len(s)
        BY <1>2, <1>6, <3>1, RowsOf
      <4>. QED
        BY <1>1, <4>1
    <3>3. Freq(t, k) = t[i].freq
      BY <3>1, FreqIs
    <3>. QED
      BY <1>3, <2>1, <3>1, <3>2, <3>3
  <2>3. CASE k \notin KeysOf(t)
    <3>1. Freq(t, k) = 0
      BY <2>3, FreqIs
    <3>. QED
      BY <1>4, <2>1, <2>3, <3>1
  <2>. QED
    BY <2>2, <2>3
<1>. QED
  BY <1>5, <1>6

(***************************************************************************)
(* upsert adds one observation of its key.                                 *)
(***************************************************************************)
LEMMA UpsertAdds ==
  ASSUME NEW s \in Book, UniqueKeys(s), NEW k \in Keys, NEW d \in Nat
  PROVE  Adds(s, Upserted(s, k, d), [j \in Keys |-> IF j = k THEN 1 ELSE 0])
<1> DEFINE t == Upserted(s, k, d)
           g == [j \in Keys |-> IF j = k THEN 1 ELSE 0]
<1>1. t \in Book
  BY UpsertKeepsSound
<1>2. \A j \in Keys : g[j] = IF j = k THEN 1 ELSE 0
  OBVIOUS
<1>. HIDE DEF g
<1>3. CASE k \in KeysOf(s)
  <2> DEFINE p == PositionOf(s, k)
  <2>1. p \in 1..Len(s) /\ s[p].key = k
    BY <1>3, PositionIsFirst
  <2>. HIDE DEF p
  <2>2. t = [s EXCEPT ![p] = Row(s[p].id, s[p].key, s[p].freq + 1, d)]
    BY <1>3 DEF Upserted, Incremented, p
  <2>. HIDE DEF t
  <2>3. Len(s) \in Nat /\ DOMAIN s = 1..Len(s)
    BY RowsOf
  <2>4. Len(t) \in Nat /\ DOMAIN t = 1..Len(t)
    BY <1>1, RowsOf
  <2>5. DOMAIN t = DOMAIN s
    BY <2>2
  <2>6. Len(t) = Len(s)
    <3> DEFINE m == Len(s)
               n == Len(t)
    <3>1. m \in Nat /\ n \in Nat /\ 1..m = 1..n
      BY <2>3, <2>4, <2>5
    <3>. HIDE DEF m, n
    <3>2. m = n
      <4>1. m <= n
        <5>1. m = 0 \/ m \in 1..n
          BY <3>1
        <5>. QED
          BY ONLY <3>1, <5>1
      <4>2. n <= m
        <5>1. n = 0 \/ n \in 1..m
          BY <3>1
        <5>. QED
          BY ONLY <3>1, <5>1
      <4>. QED
        BY <3>1, <4>1, <4>2
    <3>. QED
      BY <3>2 DEF m, n
  <2>7. ASSUME NEW i \in 1..Len(s)
        PROVE  /\ t[i].key = s[i].key
               /\ t[i].freq = s[i].freq + g[s[i].key]
               /\ g[s[i].key] = 0 => t[i].seen = s[i].seen
    <3>1. s[i].key \in Keys /\ s[i].freq \in Nat
      BY RowsOf
    <3>2. CASE i = p
      <4>1. t[i] = Row(s[p].id, s[p].key, s[p].freq + 1, d)
        BY <2>1, <2>2, <2>3, <3>2
      <4>2. g[s[i].key] = 1
        BY <1>2, <2>1, <3>2
      <4>. QED
        BY <3>2, <4>1, <4>2 DEF Row
    <3>3. CASE i # p
      <4>1. t[i] = s[i]
        BY <2>2, <2>3, <3>3
      <4>2. s[i].key # k
        BY <2>1, <2>3, <3>3 DEF UniqueKeys
      <4>3. g[s[i].key] = 0
        BY <1>2, <3>1, <4>2
      <4>. QED
        BY <3>1, <4>1, <4>3
    <3>. QED
      BY <3>2, <3>3
  <2>8. ASSUME NEW j \in Keys \ KeysOf(t)
        PROVE  g[j] = 0
    <3>1. k \in KeysOf(t)
      BY <1>1, <2>1, <2>6, <2>7, RowsOf
    <3>. QED
      BY <1>2, <3>1
  <2>9. \A i \in 1..Len(t) : ~(i > Len(s))
    BY <2>3, <2>6
  <2>. QED
    BY <2>3, <2>6, <2>7, <2>8, <2>9 DEF Adds, t, g
<1>4. CASE k \notin KeysOf(s)
  <2> DEFINE r == Row(NextId(s), k, 1, d)
  <2>1. t = Append(s, r)
    BY <1>4 DEF Upserted, Added
  <2>2. r \in Entry /\ r.key = k /\ r.freq = 1
    <3>1. NextId(s) \in Nat \ {0}
      BY NextIdIsNew
    <3>. QED
      BY <3>1 DEF Row, Entry
  <2>. HIDE DEF r
  <2>3. Len(s) \in Nat
    BY RowsOf
  <2>4. /\ Len(t) = Len(s) + 1
        /\ \A i \in 1..Len(s) : t[i] = s[i]
        /\ t[Len(s) + 1] = r
    BY <2>1, <2>2, AppendProperties DEF Book
  <2>. HIDE DEF t
  <2>5. ASSUME NEW i \in 1..Len(s)
        PROVE  /\ t[i].key = s[i].key
               /\ t[i].freq = s[i].freq + g[s[i].key]
               /\ g[s[i].key] = 0 => t[i].seen = s[i].seen
    <3>1. s[i].key \in Keys /\ s[i].freq \in Nat /\ s[i].key # k
      BY <1>4, RowsOf
    <3>2. g[s[i].key] = 0
      BY <1>2, <3>1
    <3>. QED
      BY <2>4, <3>1, <3>2
  <2>6. ASSUME NEW i \in 1..Len(t), i > Len(s)
        PROVE  t[i].key \notin KeysOf(s) /\ t[i].freq = g[t[i].key]
    <3>1. i = Len(s) + 1
      BY <2>3, <2>4, <2>6
    <3>2. t[i] = r
      BY <2>4, <3>1
    <3>. QED
      BY <1>2, <1>4, <2>2, <3>2
  <2>7. ASSUME NEW j \in Keys \ KeysOf(t)
        PROVE  g[j] = 0
    <3>1. Len(s) + 1 \in 1..Len(t)
      BY <2>3, <2>4
    <3>2. k \in KeysOf(t)
      BY <1>1, <2>2, <2>4, <3>1, RowsOf
    <3>. QED
      BY <1>2, <3>2
  <2>8. Len(s) <= Len(t)
    BY <2>3, <2>4
  <2>. QED
    BY <2>5, <2>6, <2>7, <2>8 DEF Adds, t, g
<1>. QED
  BY <1>3, <1>4

(***************************************************************************)
(* The rows a merge appends are rows of the incoming book, and among them  *)
(* is one for each key that only the incoming book has.                    *)
(***************************************************************************)
LEMMA NewcomersAreAll ==
  ASSUME NEW base \in Book, NEW incoming \in Book
  PROVE  LET t == Newcomers(base, incoming)
         IN  /\ \A n \in 1..Len(t) : \E i \in 1..Len(incoming) : t[n] = incoming[i]
             /\ \A k \in KeysOf(incoming) \ KeysOf(base) : k \in KeysOf(t)
<1> DEFINE F == NewPositions(base, incoming)
           ahead == [i \in F |-> {j \in F : j < i}]
           rank == [i \in F |-> Cardinality(ahead[i]) + 1]
           N == Cardinality(F)
           pick(n) == CHOOSE i \in F : Cardinality({j \in F : j < i}) + 1 = n
           t == Newcomers(base, incoming)
<1>1. /\ Len(incoming) \in Nat /\ DOMAIN incoming = 1..Len(incoming)
      /\ F \subseteq 1..Len(incoming)
      /\ \A i \in 1..Len(incoming) : incoming[i].key \notin KeysOf(base) => i \in F
  BY RowsOf DEF NewPositions
<1>2. IsFiniteSet(F) /\ \A i \in F : i \in Int
  BY <1>1, PositionsFinite, FS_Subset
<1>3. /\ ahead \in [F -> SUBSET F]
      /\ \A i \in F : i \notin ahead[i]
      /\ \A i, j \in F : i # j => i \in ahead[j] \/ j \in ahead[i]
      /\ \A i, j, l \in F : i \in ahead[j] /\ j \in ahead[l] => i \in ahead[l]
  BY <1>2
<1>4. rank = [i \in F |-> Cardinality(ahead[i]) + 1]
  OBVIOUS
<1>5. \A i \in F : rank[i] = Cardinality({j \in F : j < i}) + 1
  OBVIOUS
<1>6. t = [n \in 1..N |-> incoming[pick(n)]]
  BY DEF Newcomers
<1>7. \A n : (\E i \in F : rank[i] = n) => pick(n) \in F /\ rank[pick(n)] = n
  BY <1>5
<1>. HIDE DEF F, ahead, rank, t
<1>8. /\ N \in Nat
      /\ \A i \in F : rank[i] \in 1..N
      /\ \A i, j \in F : rank[i] = rank[j] => i = j
      /\ \A n \in 1..N : \E i \in F : rank[i] = n
  BY <1>2, <1>3, <1>4, RankIsNumbering
<1>. HIDE DEF N
<1>9. \A n \in 1..N : pick(n) \in F /\ rank[pick(n)] = n
  BY <1>7, <1>8
<1>. HIDE DEF pick
<1>10. DOMAIN t = 1..N /\ \A n \in 1..N : t[n] = incoming[pick(n)]
  BY <1>6
<1>11. t \in Book
  BY NewcomersAreNew DEF t
<1>12. DOMAIN t = 1..Len(t)
  BY <1>11, RowsOf
<1>13. \A n \in 1..Len(t) : \E i \in 1..Len(incoming) : t[n] = incoming[i]
  BY <1>1, <1>9, <1>10, <1>12
<1>14. ASSUME NEW k \in KeysOf(incoming) \ KeysOf(base)
       PROVE  k \in KeysOf(t)
  <2>1. PICK i \in 1..Len(incoming) : incoming[i].key = k
    BY RowsOf
  <2>2. i \in F
    BY <1>1, <2>1
  <2>3. rank[i] \in 1..N /\ pick(rank[i]) = i
    BY <1>8, <1>9, <2>2
  <2>4. rank[i] \in DOMAIN t /\ t[rank[i]].key = k
    BY <1>10, <2>1, <2>3
  <2>. QED
    BY <2>4 DEF KeysOf
<1>. QED
  BY <1>13, <1>14 DEF t

LEMMA RenumberingKeepsRows ==
  ASSUME NEW s \in Book
  PROVE  /\ Len(Renumbered(s)) = Len(s)
         /\ KeysOf(Renumbered(s)) = KeysOf(s)
         /\ \A i \in 1..Len(s) : /\ Renumbered(s)[i].key = s[i].key
                                 /\ Renumbered(s)[i].freq = s[i].freq
                                 /\ Renumbered(s)[i].seen = s[i].seen
<1>1. Len(s) \in Nat /\ DOMAIN s = 1..Len(s)
  BY RowsOf
<1>2. /\ DOMAIN Renumbered(s) = 1..Len(s)
      /\ Len(Renumbered(s)) = Len(s)
  BY <1>1 DEF Renumbered
<1>3. \A i \in 1..Len(s) : /\ Renumbered(s)[i].key = s[i].key
                           /\ Renumbered(s)[i].freq = s[i].freq
                           /\ Renumbered(s)[i].seen = s[i].seen
  BY DEF Renumbered, Row
<1>4. KeysOf(Renumbered(s)) = KeysOf(s)
  BY <1>1, <1>2, <1>3 DEF KeysOf
<1>. QED
  BY <1>2, <1>3, <1>4

(***************************************************************************)
(* _merge_entries adds all that the incoming book has observed.            *)
(***************************************************************************)
LEMMA MergeAdds ==
  ASSUME NEW base \in Book, NEW incoming \in Book, UniqueKeys(base), UniqueKeys(incoming)
  PROVE  Adds(base, Merged(base, incoming), [k \in Keys |-> Freq(incoming, k)])
<1> DEFINE head == [i \in 1..Len(base) |-> Absorbed(base[i], incoming)]
           tail == Newcomers(base, incoming)
           j == Joined(base, incoming)
           t == Merged(base, incoming)
           g == [k \in Keys |-> Freq(incoming, k)]
<1>1. g \in [Keys -> Nat] /\ \A k \in Keys : g[k] = Freq(incoming, k)
  BY FreqIs
<1>. HIDE DEF g
<1>2. ASSUME NEW e \in Entry
      PROVE  /\ Absorbed(e, incoming) \in Entry
             /\ Absorbed(e, incoming).key = e.key
             /\ Absorbed(e, incoming).freq = e.freq + g[e.key]
             /\ g[e.key] = 0 => Absorbed(e, incoming).seen = e.seen
  <2>1. /\ e.id \in Nat \ {0} /\ e.key \in Keys /\ e.freq \in Nat \ {0} /\ e.seen \in Nat
    BY DEF Entry
  <2>2. CASE e.key \notin KeysOf(incoming)
    <3>1. Absorbed(e, incoming) = e
      BY <2>2 DEF Absorbed
    <3>2. g[e.key] = 0
      BY <1>1, <2>1, <2>2, FreqIs
    <3>. QED
      BY <2>1, <3>1, <3>2
  <2>3. CASE e.key \in KeysOf(incoming)
    <3> DEFINE p == PositionOf(incoming, e.key)
               f == incoming[p]
               day == IF f.seen > e.seen THEN f.seen ELSE e.seen
    <3>1. p \in 1..Len(incoming) /\ f.key = e.key
      BY <2>3, PositionIsFirst
    <3>2. f.freq \in Nat \ {0} /\ f.seen \in Nat
      BY <3>1, RowsOf
    <3>3. f.freq = Freq(incoming, e.key)
      BY <3>1, FreqIs
    <3>4. g[e.key] = f.freq
      BY <1>1, <2>1, <3>3
    <3>5. Absorbed(e, incoming) = Row(e.id, e.key, e.freq + f.freq, day)
      BY <2>3 DEF Absorbed
    <3>6. day \in Nat
      BY <2>1, <3>2
    <3>7. e.freq + f.freq \in Nat \ {0}
      BY <2>1, <3>2
    <3>. HIDE DEF p, f, day
    <3>. QED
      BY <2>1, <3>2, <3>4, <3>5, <3>6, <3>7 DEF Row, Entry
  <2>. QED
    BY <2>2, <2>3
<1>3. /\ Len(base) \in Nat /\ DOMAIN base = 1..Len(base)
      /\ \A i \in 1..Len(base) : base[i] \in Entry
  BY RowsOf
<1>4. /\ head \in Seq(Entry) /\ Len(head) = Len(base)
      /\ \A i \in 1..Len(base) : /\ head[i].key = base[i].key
                                 /\ head[i].freq = base[i].freq + g[base[i].key]
                                 /\ g[base[i].key] = 0 => head[i].seen = base[i].seen
  BY <1>2, <1>3
<1>5. tail \in Book /\ tail \in Seq(Entry) /\ Len(tail) \in Nat
  BY NewcomersAreNew, LenProperties DEF Book
<1>6. /\ \A n \in 1..Len(tail) : tail[n].key \notin KeysOf(base) /\ tail[n].freq = g[tail[n].key]
      /\ \A k \in KeysOf(incoming) \ KeysOf(base) : \E n \in 1..Len(tail) : tail[n].key = k
  <2>1. \A n \in 1..Len(tail) : tail[n].key \notin KeysOf(base)
    BY <1>5, NewcomersAreNew, RowsOf
  <2>2. ASSUME NEW n \in 1..Len(tail)
        PROVE  tail[n].freq = g[tail[n].key]
    <3>1. PICK i \in 1..Len(incoming) : tail[n] = incoming[i]
      BY NewcomersAreAll
    <3>2. Freq(incoming, incoming[i].key) = incoming[i].freq /\ incoming[i].key \in Keys
      BY FreqIs, RowsOf
    <3>. QED
      BY <1>1, <3>1, <3>2
  <2>3. \A k \in KeysOf(incoming) \ KeysOf(base) : k \in KeysOf(tail)
    BY NewcomersAreAll
  <2>. QED
    BY <1>5, <2>1, <2>2, <2>3, RowsOf
<1>7. j = head \o tail
  BY DEF Joined
<1>. HIDE DEF head, tail, j
<1>8. /\ j \in Seq(Entry) /\ Len(j) = Len(head) + Len(tail)
      /\ \A i \in 1..(Len(head) + Len(tail)) :
            j[i] = IF i <= Len(head) THEN head[i] ELSE tail[i - Len(head)]
  <2>1. head \in Seq(Entry) /\ tail \in Seq(Entry)
    BY <1>4, <1>5
  <2>2. /\ head \o tail \in Seq(Entry) /\ Len(head \o tail) = Len(head) + Len(tail)
        /\ \A i \in 1..(Len(head) + Len(tail)) :
              (head \o tail)[i] = IF i <= Len(head) THEN head[i] ELSE tail[i - Len(head)]
    BY ONLY <2>1, ConcatProperties
  <2>. QED
    BY ONLY <1>7, <2>2
<1>9. /\ j \in Book /\ Len(j) = Len(base) + Len(tail)
      /\ \A i \in 1..Len(base) : i \in 1..Len(j) /\ j[i] = head[i]
      /\ \A i \in 1..Len(j) :
            i > Len(base) => i - Len(base) \in 1..Len(tail) /\ j[i] = tail[i - Len(base)]
      /\ \A n \in 1..Len(tail) : n + Len(base) \in 1..Len(j) /\ j[n + Len(base)] = tail[n]
  <2> DEFINE b == Len(base)
             m == Len(tail)
  <2>1. b \in Nat /\ m \in Nat /\ Len(head) = b /\ Len(j) = b + m
    BY <1>3, <1>4, <1>5, <1>8
  <2>2. \A i \in 1..(b + m) : j[i] = IF i <= b THEN head[i] ELSE tail[i - b]
    BY <1>4, <1>8
  <2>. HIDE DEF b, m
  <2>3. \A i \in 1..b : i \in 1..(b + m) /\ j[i] = head[i]
    BY ONLY <2>1, <2>2
  <2>4. \A i \in 1..(b + m) : i > b => i - b \in 1..m /\ j[i] = tail[i - b]
    BY ONLY <2>1, <2>2
  <2>5. \A n \in 1..m : n + b \in 1..(b + m) /\ j[n + b] = tail[n]
    <3>1. \A n \in 1..m : n + b \in 1..(b + m) /\ ~(n + b <= b) /\ (n + b) - b = n
      BY ONLY <2>1
    <3>. QED
      BY ONLY <2>2, <3>1
  <2>. QED
    BY <1>8, <2>1, <2>3, <2>4, <2>5 DEF b, m, Book
<1>10. /\ Len(t) = Len(j) /\ KeysOf(t) = KeysOf(j)
       /\ \A i \in 1..Len(j) : t[i].key = j[i].key /\ t[i].freq = j[i].freq /\ t[i].seen = j[i].seen
  BY <1>9, RenumberingKeepsRows DEF Merged, j
<1>. HIDE DEF t
<1>11. Len(base) <= Len(t)
  BY <1>3, <1>5, <1>9, <1>10
<1>12. \A i \in 1..Len(base) : /\ t[i].key = base[i].key
                               /\ t[i].freq = base[i].freq + g[base[i].key]
                               /\ g[base[i].key] = 0 => t[i].seen = base[i].seen
  BY <1>4, <1>9, <1>10
<1>13. \A i \in 1..Len(t) :
          i > Len(base) => t[i].key \notin KeysOf(base) /\ t[i].freq = g[t[i].key]
  BY <1>6, <1>9, <1>10
<1>14. ASSUME NEW k \in Keys \ KeysOf(t)
       PROVE  g[k] = 0
  <2>1. k \notin KeysOf(base)
    BY <1>4, <1>9, <1>10, RowsOf
  <2>2. k \notin KeysOf(incoming)
    <3>1. SUFFICES ASSUME k \in KeysOf(incoming)
                   PROVE  FALSE
      OBVIOUS
    <3>2. PICK n \in 1..Len(tail) : tail[n].key = k
      BY <1>6, <2>1, <3>1
    <3>3. n + Len(base) \in 1..Len(j) /\ j[n + Len(base)].key = k
      BY <1>9, <3>2
    <3>. QED
      BY <1>9, <1>10, <3>3, RowsOf
  <2>. QED
    BY <1>1, <2>2, FreqIs
<1>. QED
  BY <1>11, <1>12, <1>13, <1>14 DEF Adds, t, g

(***************************************************************************)
(* A write that adds and then keeps the best rows never counts more of a   *)
(* key than was there and was added; it counts all of that if the rows     *)
(* fit; and it forgets a row only for rows at least as good.               *)
(***************************************************************************)
LEMMA WriteAddsAtMost ==
  ASSUME NEW s \in Book, NEW t \in Book, UniqueKeys(s), UniqueKeys(t),
         NEW g \in [Keys -> Nat], Adds(s, t, g)
  PROVE  /\ \A k \in Keys : Freq(Decay(t), k) <= Freq(s, k) + g[k]
         /\ Len(t) <= Cap => \A k \in Keys : Freq(Decay(t), k) = Freq(s, k) + g[k]
  BY AddsFreq, DecayFreq

LEMMA WriteDropsTheWorst ==
  ASSUME NEW s \in Book, NEW t \in Book,
         NEW g \in [Keys -> Nat], Adds(s, t, g), NEW i \in Forgets(s, Decay(t))
  PROVE  /\ Len(Decay(t)) = Cap
         /\ \A m \in DOMAIN Decay(t) : ~Better(s[i], Decay(t)[m])
<1> DEFINE u == Decay(t)
<1>1. i \in 1..Len(s) /\ s[i].key \notin KeysOf(u)
  BY RowsOf DEF Forgets
<1>2. u \in Book
  BY DecayTakesRows
<1>3. i \in 1..Len(t)
  BY <1>1, RowsOf DEF Adds
<1>4. t[i].key = s[i].key /\ s[i].key \in Keys
  BY <1>1, RowsOf DEF Adds
<1>5. t[i].freq = s[i].freq + g[s[i].key] /\ (g[s[i].key] = 0 => t[i].seen = s[i].seen)
  BY <1>1 DEF Adds
<1>6. /\ Len(u) = Cap
      /\ \A m \in DOMAIN u : ~Better(t[i], u[m])
  BY <1>1, <1>3, <1>4, DecayDropsTheWorst
<1>. HIDE DEF u
<1>7. ASSUME NEW m \in DOMAIN u
      PROVE  ~Better(s[i], u[m])
  <2>1. u[m].freq \in Nat /\ u[m].seen \in Nat
    BY <1>2, RowsOf
  <2>2. s[i].freq \in Nat /\ s[i].seen \in Nat /\ t[i].freq \in Nat /\ t[i].seen \in Nat
    BY <1>1, <1>3, RowsOf
  <2>3. g[s[i].key] \in Nat
    BY <1>4
  <2>4. ~Better(t[i], u[m])
    BY <1>6
  <2>. QED
    BY <1>5, <2>1, <2>2, <2>3, <2>4 DEF Better
<1>. QED
  BY <1>6, <1>7 DEF u

-----------------------------------------------------------------------------
(***************************************************************************)
(* Sound books.  BooksSound is not inductive: a write publishes what a     *)
(* process computed from the rows in its memory, so those must be sound as *)
(* well, and a process that upserts must have a pattern to upsert.         *)
(***************************************************************************)
Sound(s) == UniqueKeys(s) /\ UniqueIds(s)

MemorySound == \A p \in Procs : Sound(snap[p]) /\ Sound(batch[p])

JobsKnown == \A p \in Procs : pc[p] \in {"ulock", "uread", "uwrite"} => job[p] \in Keys

FilesSound == \A q \in Paths : Sound(file[q]) /\ Len(file[q]) <= Cap

SoundInv == TypeOK /\ FilesSound /\ MemorySound /\ JobsKnown

LEMMA EmptyBookIsSound == << >> \in Book /\ Sound(<< >>)
BY DEF Book, Sound, UniqueKeys, UniqueIds

(***************************************************************************)
(* What the two writes put in a file is a sound book within the cap.       *)
(***************************************************************************)
LEMMA WritesAreSound ==
  ASSUME NEW s \in Book, Sound(s)
  PROVE  /\ \A k \in Keys, d \in Nat :
              LET t == Decay(Upserted(s, k, d))
              IN  t \in Book /\ Sound(t) /\ Len(t) <= Cap
         /\ \A b \in Book : Sound(b) =>
              LET t == Decay(Merged(s, b))
              IN  t \in Book /\ Sound(t) /\ Len(t) <= Cap
<1>1. ASSUME NEW k \in Keys, NEW d \in Nat
      PROVE  LET t == Decay(Upserted(s, k, d))
             IN  t \in Book /\ Sound(t) /\ Len(t) <= Cap
  <2>1. Upserted(s, k, d) \in Book /\ Sound(Upserted(s, k, d))
    BY UpsertKeepsSound DEF Sound
  <2>. QED
    BY <2>1, DecayTakesRows, DecayKeepsUnique DEF Sound
<1>2. ASSUME NEW b \in Book, Sound(b)
      PROVE  LET t == Decay(Merged(s, b))
             IN  t \in Book /\ Sound(t) /\ Len(t) <= Cap
  <2>1. Merged(s, b) \in Book /\ Sound(Merged(s, b))
    BY <1>2, MergeKeepsSound DEF Sound
  <2>. QED
    BY <2>1, DecayTakesRows, DecayKeepsUnique DEF Sound
<1>. QED
  BY <1>1, <1>2

LEMMA SoundInvInit == Init => SoundInv
<1>. SUFFICES ASSUME Init PROVE SoundInv
  OBVIOUS
<1>1. /\ file \in [Paths -> Book]
      /\ \A q \in Paths : UniqueKeys(file[q]) /\ UniqueIds(file[q]) /\ Len(file[q]) <= Cap
  BY InitFilesAssumption DEF Init
<1>2. TypeOK
  BY <1>1, EmptyBookIsSound, WorldAssumption DEF Init, TypeOK, Paths, Labels, Days
<1>3. FilesSound
  BY <1>1 DEF FilesSound, Sound
<1>4. MemorySound
  BY EmptyBookIsSound DEF Init, MemorySound
<1>5. JobsKnown
  BY DEF Init, JobsKnown
<1>. QED
  BY <1>2, <1>3, <1>4, <1>5 DEF SoundInv

(***************************************************************************)
(* Leaving a critical section keeps the variables it touches well typed.   *)
(***************************************************************************)
LEMMA LeaveKeepsSound ==
  ASSUME TypeOK, MemorySound, JobsKnown, NEW p \in Procs,
         NEW to \in {"route", "done"}, Leave(p, to), job' = job
  PROVE  /\ pc' \in [Procs -> Labels]
         /\ locks' \in [Paths -> Procs \cup {NoProc}]
         /\ snap' \in [Procs -> Book] /\ batch' \in [Procs -> Book]
         /\ MemorySound' /\ JobsKnown'
<1>1. pc' \in [Procs -> Labels] /\ locks' \in [Paths -> Procs \cup {NoProc}]
  BY DEF TypeOK, Leave, Labels
<1>2. snap' \in [Procs -> Book] /\ batch' \in [Procs -> Book]
  BY EmptyBookIsSound DEF TypeOK, Leave
<1>3. MemorySound'
  BY EmptyBookIsSound DEF TypeOK, Leave, MemorySound
<1>4. JobsKnown'
  BY DEF TypeOK, Leave, JobsKnown
<1>. QED
  BY <1>1, <1>2, <1>3, <1>4

(***************************************************************************)
(* Every step keeps the invariant, one action at a time.                   *)
(***************************************************************************)
LEMMA SoundInvNext == SoundInv /\ [Next]_vars => SoundInv'
<1>. SUFFICES ASSUME SoundInv, [Next]_vars PROVE SoundInv'
  OBVIOUS
<1>. USE DEF SoundInv
<1>1. CASE UNCHANGED vars
  BY <1>1 DEF vars, disk, memory, TypeOK, FilesSound, MemorySound, JobsKnown
<1>2. CASE NextDay
  <2>1. today' \in Days
    BY <1>2, WorldAssumption DEF NextDay, TypeOK, Days
  <2>. QED
    BY <1>2, <2>1 DEF NextDay, disk, memory, TypeOK, FilesSound, MemorySound, JobsKnown
<1>3. ASSUME NEW p \in Procs, Run(p) \/ Crash(p)
      PROVE  SoundInv'
  <2>. Home[p] \in Worktrees /\ Home[p] \in Paths /\ Canon \in Paths
    BY WorldAssumption DEF Paths
  <2>1. CASE BeginMigration(p)
    BY <2>1 DEF BeginMigration, Goto, disk, memory, TypeOK, Labels, FilesSound, MemorySound, JobsKnown
  <2>2. CASE SkipMigration(p)
    BY <2>2 DEF SkipMigration, Goto, disk, memory, TypeOK, Labels, FilesSound, MemorySound, JobsKnown
  <2>3. CASE TakeLock(p)
    BY <2>3 DEF TakeLock, EnterSection, Goto, disk, memory, TypeOK, Labels, FilesSound, MemorySound, JobsKnown
  <2>4. CASE GiveUpLock(p)
    BY <2>4 DEF GiveUpLock, EnterSection, Goto, disk, memory, TypeOK, Labels, FilesSound, MemorySound, JobsKnown
  <2>5. CASE MigGone(p)
    BY <2>5, LeaveKeepsSound DEF MigGone, disk, TypeOK, FilesSound
  <2>6. CASE MigRead(p)
    BY <2>6 DEF MigRead, Goto, disk, TypeOK, Labels, FilesSound, MemorySound, JobsKnown
  <2>7. CASE MigRename(p)
    <3>1. FilesSound'
      BY <2>7, EmptyBookIsSound, CapAssumption DEF MigRename, TypeOK, FilesSound
    <3>2. TypeOK'
      BY <2>7, EmptyBookIsSound DEF MigRename, Goto, memory, TypeOK, Labels
    <3>. QED
      BY <2>7, <3>1, <3>2 DEF MigRename, Goto, memory, TypeOK, MemorySound, JobsKnown
  <2>8. CASE MigParse(p)
    BY <2>8 DEF MigParse, Goto, disk, TypeOK, Labels, FilesSound, MemorySound, JobsKnown
  <2>9. CASE MigWrite(p)
    <3> DEFINE t == Decay(Merged(snap[p], batch[p]))
    <3>1. t \in Book /\ Sound(t) /\ Len(t) <= Cap
      BY WritesAreSound DEF TypeOK, MemorySound
    <3>. HIDE DEF t
    <3>2. file' = [file EXCEPT ![Canon] = t] /\ Leave(p, "route")
      BY <2>9 DEF MigWrite, t
    <3>. QED
      BY <2>9, <3>1, <3>2, LeaveKeepsSound DEF MigWrite, TypeOK, FilesSound
  <2>10. CASE MigFail(p)
    BY <2>10, LeaveKeepsSound DEF MigFail, disk, TypeOK, FilesSound
  <2>11. CASE Route(p)
    <3>1. PICK q \in LedgerPath(p) : path' = [path EXCEPT ![p] = q]
      BY <2>11 DEF Route
    <3>2. q \in Paths
      BY DEF LedgerPath
    <3>3. TypeOK'
      BY <2>11, <3>1, <3>2 DEF Route, Goto, disk, TypeOK, Labels
    <3>. QED
      BY <2>11, <3>3 DEF Route, Goto, disk, TypeOK, FilesSound, MemorySound, JobsKnown
  <2>12. CASE UpRead(p)
    BY <2>12 DEF UpRead, Goto, disk, TypeOK, Labels, FilesSound, MemorySound, JobsKnown
  <2>13. CASE UpWrite(p)
    <3> DEFINE t == Decay(Upserted(snap[p], job[p], date[p]))
               r == IF job[p] \in KeysOf(snap[p]) THEN "incremented" ELSE "added"
    <3>1. job[p] \in Keys /\ date[p] \in Nat
      BY <2>13, WorldAssumption DEF UpWrite, JobsKnown, TypeOK, Days
    <3>2. t \in Book /\ Sound(t) /\ Len(t) <= Cap
      BY <3>1, WritesAreSound DEF TypeOK, MemorySound
    <3>3. r \in {"incremented", "added"}
      OBVIOUS
    <3>. HIDE DEF t, r
    <3>4. /\ file' = [file EXCEPT ![path[p]] = t] /\ Leave(p, "done")
          /\ result' = [result EXCEPT ![p] = r]
          /\ noted' = [noted EXCEPT ![job[p]] = @ + 1]
      BY <2>13 DEF UpWrite, t, r
    <3>5. path[p] \in Paths
      BY DEF TypeOK
    <3>. QED
      BY <2>13, <3>1, <3>2, <3>3, <3>4, <3>5, LeaveKeepsSound DEF UpWrite, TypeOK, FilesSound
  <2>14. CASE UpSkip(p)
    BY <2>14, LeaveKeepsSound DEF UpSkip, disk, TypeOK, FilesSound
  <2>15. CASE UpFail(p)
    BY <2>15, LeaveKeepsSound DEF UpFail, disk, TypeOK, FilesSound
  <2>16. CASE ReadDigest(p)
    BY <2>16 DEF ReadDigest, Goto, disk, memory, TypeOK, Labels, FilesSound, MemorySound, JobsKnown
  <2>17. CASE Crash(p)
    BY <2>17, LeaveKeepsSound DEF Crash, disk, TypeOK, FilesSound
  <2>. QED
    BY <1>3, <2>1, <2>2, <2>3, <2>4, <2>5, <2>6, <2>7, <2>8, <2>9, <2>10, <2>11,
       <2>12, <2>13, <2>14, <2>15, <2>16, <2>17 DEF Run, Migrate, Upsert
<1>. QED
  BY <1>1, <1>2, <1>3 DEF Next

LEMMA SoundInvHolds == Spec => []SoundInv
BY SoundInvInit, SoundInvNext, PTL DEF Spec

(***************************************************************************)
(* Every variable keeps its type: whatever interleaving, failure or crash, *)
(* a ledger file holds a well-formed table of positive frequencies and     *)
(* F-ids.                                                                  *)
(***************************************************************************)
THEOREM TypeCorrect == Spec => []TypeOK
<1>1. SoundInv => TypeOK
  BY DEF SoundInv
<1>. QED
  BY <1>1, SoundInvHolds, PTL

(***************************************************************************)
(* Two rows never share a pattern or an F-id and a ledger never exceeds    *)
(* CAP rows, whatever fails -- also when lock waits give up and commands   *)
(* overwrite each other's changes.                                         *)
(***************************************************************************)
THEOREM BooksStaySound == Spec => []BooksSound
<1>1. SoundInv => BooksSound
  BY DEF SoundInv, FilesSound, BooksSound, Sound
<1>. QED
  BY <1>1, SoundInvHolds, PTL

-----------------------------------------------------------------------------
(***************************************************************************)
(* Exclusion.  SnapshotFresh follows from who holds the lock: a process in *)
(* a critical section holds the lock of the ledger it works on, and until  *)
(* it is routed that ledger is the canonical one.                          *)
(***************************************************************************)
LockHeld ==
  \A p \in Procs :
     pc[p] \in {"mread", "mrename", "mparse", "mwrite", "uread", "uwrite"}
       => locks[path[p]] = p

StartsAtCanon ==
  \A p \in Procs :
     pc[p] \in {"idle", "mlock", "mread", "mrename", "mparse", "mwrite", "route"}
       => path[p] = Canon

LockInv == TypeOK /\ LockHeld /\ StartsAtCanon /\ SnapshotFresh

LEMMA LockInvInit == Init /\ TypeOK => LockInv
BY DEF Init, LockInv, LockHeld, StartsAtCanon, SnapshotFresh

(***************************************************************************)
(* A process that leaves gives back only its own lock.                     *)
(***************************************************************************)
LEMMA LeaveKeepsLocks ==
  ASSUME LockInv, NEW p \in Procs, NEW to \in {"route", "done"}, Leave(p, to),
         path' = path, to = "route" => pc[p] \in Migrating,
         file' # file => /\ locks[path[p]] = p
                         /\ \E t : file' = [file EXCEPT ![path[p]] = t]
  PROVE  LockHeld' /\ StartsAtCanon' /\ SnapshotFresh'
<1>. USE DEF LockInv
<1>1. LockHeld'
  BY DEF Leave, LockHeld, TypeOK
<1>2. StartsAtCanon'
  BY DEF Leave, StartsAtCanon, TypeOK, Migrating
<1>3. ASSUME NEW q \in Procs, pc'[q] \in {"mwrite", "uwrite"}, path'[q] = Canon
      PROVE  snap'[q] = file'[Canon]
  <2>1. q # p /\ pc[q] = pc'[q] /\ snap'[q] = snap[q]
    BY <1>3 DEF Leave, TypeOK
  <2>2. snap[q] = file[Canon] /\ locks[Canon] = q
    BY <1>3, <2>1 DEF SnapshotFresh, LockHeld
  <2>3. ASSUME file' # file
        PROVE  file'[Canon] = file[Canon]
    <3>1. path[p] # Canon
      BY <2>1, <2>2, <2>3
    <3>2. PICK t : file' = [file EXCEPT ![path[p]] = t]
      BY <2>3
    <3>. QED
      BY <3>1, <3>2 DEF TypeOK, Paths
  <2>. QED
    BY <2>1, <2>2, <2>3
<1>. QED
  BY <1>1, <1>2, <1>3 DEF SnapshotFresh

LEMMA LockInvNext ==
  ASSUME "lock" \notin Faults
  PROVE  LockInv /\ TypeOK' /\ [Next]_vars => LockInv'
<1>. SUFFICES ASSUME LockInv, TypeOK', [Next]_vars
              PROVE  LockHeld' /\ StartsAtCanon' /\ SnapshotFresh'
  BY DEF LockInv
<1>. USE DEF LockInv
<1>1. CASE UNCHANGED vars
  BY <1>1 DEF vars, disk, memory, LockHeld, StartsAtCanon, SnapshotFresh
<1>2. CASE NextDay
  BY <1>2 DEF NextDay, disk, memory, LockHeld, StartsAtCanon, SnapshotFresh
<1>3. ASSUME NEW p \in Procs, Run(p) \/ Crash(p)
      PROVE  LockHeld' /\ StartsAtCanon' /\ SnapshotFresh'
  <2>. Home[p] \in Worktrees /\ Home[p] # Canon
    BY WorldAssumption
  <2>1. CASE BeginMigration(p)
    BY <2>1 DEF BeginMigration, Goto, disk, memory, TypeOK, LockHeld, StartsAtCanon, SnapshotFresh
  <2>2. CASE SkipMigration(p)
    BY <2>2 DEF SkipMigration, Goto, disk, memory, TypeOK, LockHeld, StartsAtCanon, SnapshotFresh
  <2>3. CASE TakeLock(p)
    <3>1. LockHeld'
      BY <2>3, WorldAssumption DEF TakeLock, EnterSection, Goto, memory, TypeOK, LockHeld
    <3>. QED
      BY <2>3, <3>1 DEF TakeLock, EnterSection, Goto, disk, memory, TypeOK, StartsAtCanon, SnapshotFresh
  <2>4. CASE GiveUpLock(p)
    BY <2>4 DEF GiveUpLock
  <2>5. CASE MigGone(p)
    BY <2>5, LeaveKeepsLocks DEF MigGone, disk, Migrating
  <2>6. CASE MigRead(p)
    BY <2>6 DEF MigRead, Goto, disk, TypeOK, LockHeld, StartsAtCanon, SnapshotFresh
  <2>7. CASE MigRename(p)
    BY <2>7 DEF MigRename, Goto, memory, TypeOK, LockHeld, StartsAtCanon, SnapshotFresh
  <2>8. CASE MigParse(p)
    BY <2>8 DEF MigParse, Goto, disk, TypeOK, LockHeld, StartsAtCanon, SnapshotFresh
  <2>9. CASE MigWrite(p)
    <3>1. path[p] = Canon /\ locks[path[p]] = p
      BY <2>9 DEF MigWrite, LockHeld, StartsAtCanon
    <3>. QED
      BY <2>9, <3>1, LeaveKeepsLocks DEF MigWrite, Migrating
  <2>10. CASE MigFail(p)
    BY <2>10, LeaveKeepsLocks DEF MigFail, disk
  <2>11. CASE Route(p)
    BY <2>11 DEF Route, Goto, disk, TypeOK, LockHeld, StartsAtCanon, SnapshotFresh
  <2>12. CASE UpRead(p)
    BY <2>12 DEF UpRead, Goto, disk, TypeOK, LockHeld, StartsAtCanon, SnapshotFresh
  <2>13. CASE UpWrite(p)
    <3>1. locks[path[p]] = p
      BY <2>13 DEF UpWrite, LockHeld
    <3>. QED
      BY <2>13, <3>1, LeaveKeepsLocks DEF UpWrite
  <2>14. CASE UpSkip(p)
    BY <2>14, LeaveKeepsLocks DEF UpSkip, disk
  <2>15. CASE UpFail(p)
    BY <2>15, LeaveKeepsLocks DEF UpFail, disk
  <2>16. CASE ReadDigest(p)
    BY <2>16 DEF ReadDigest, Goto, disk, memory, TypeOK, LockHeld, StartsAtCanon, SnapshotFresh
  <2>17. CASE Crash(p)
    BY <2>17, LeaveKeepsLocks DEF Crash, disk
  <2>. QED
    BY <1>3, <2>1, <2>2, <2>3, <2>4, <2>5, <2>6, <2>7, <2>8, <2>9, <2>10, <2>11,
       <2>12, <2>13, <2>14, <2>15, <2>16, <2>17 DEF Run, Migrate, Upsert
<1>. QED
  BY <1>1, <1>2, <1>3 DEF Next

LEMMA LockInvHolds ==
  ASSUME "lock" \notin Faults
  PROVE  Spec => []LockInv
<1>1. Spec => []TypeOK
  BY TypeCorrect
<1>. QED
  BY <1>1, LockInvInit, LockInvNext, PTL DEF Spec

(***************************************************************************)
(* As long as no lock wait gives up, nobody writes the canonical ledger    *)
(* from rows another command has replaced in the meantime.                 *)
(***************************************************************************)
THEOREM SnapshotsAreFresh ==
  ASSUME "lock" \notin Faults
  PROVE  Spec => []SnapshotFresh
<1>1. LockInv => SnapshotFresh
  BY DEF LockInv
<1>. QED
  BY <1>1, LockInvHolds, PTL

-----------------------------------------------------------------------------
(***************************************************************************)
(* The two writes on a process's memory: each is _decay of what the write  *)
(* adds to the rows the process has parsed.                                *)
(***************************************************************************)
One(k) == [j \in Keys |-> IF j = k THEN 1 ELSE 0]

AllOf(b) == [k \in Keys |-> Freq(b, k)]

LEMMA WritesAdd ==
  ASSUME NEW s \in Book, Sound(s)
  PROVE  /\ \A k \in Keys, d \in Nat :
              LET t == Upserted(s, k, d)
              IN  t \in Book /\ Sound(t) /\ One(k) \in [Keys -> Nat] /\ Adds(s, t, One(k))
         /\ \A b \in Book : Sound(b) =>
              LET t == Merged(s, b)
              IN  t \in Book /\ Sound(t) /\ AllOf(b) \in [Keys -> Nat] /\ Adds(s, t, AllOf(b))
<1>1. ASSUME NEW k \in Keys, NEW d \in Nat
      PROVE  /\ Upserted(s, k, d) \in Book /\ Sound(Upserted(s, k, d))
             /\ One(k) \in [Keys -> Nat] /\ Adds(s, Upserted(s, k, d), One(k))
  BY UpsertKeepsSound, UpsertAdds DEF Sound, One
<1>2. ASSUME NEW b \in Book, Sound(b)
      PROVE  /\ Merged(s, b) \in Book /\ Sound(Merged(s, b))
             /\ AllOf(b) \in [Keys -> Nat] /\ Adds(s, Merged(s, b), AllOf(b))
  BY <1>2, MergeKeepsSound, MergeAdds, FreqIs DEF Sound, AllOf
<1>. QED
  BY <1>1, <1>2

LEMMA CanonChanges ==
  SoundInv /\ LockInv /\ [Next]_vars =>
    \/ file'[Canon] = file[Canon]
    \/ \E t \in Book, g \in [Keys -> Nat] :
          Adds(file[Canon], t, g) /\ file'[Canon] = Decay(t)
<1>. SUFFICES ASSUME SoundInv, LockInv, [Next]_vars, file' # file
              PROVE  \/ file'[Canon] = file[Canon]
                     \/ \E t \in Book, g \in [Keys -> Nat] :
                           Adds(file[Canon], t, g) /\ file'[Canon] = Decay(t)
  OBVIOUS
<1>. /\ Canon \in Paths /\ Canon \notin Worktrees
     /\ file \in [Paths -> Book]
     /\ \A p \in Procs : /\ Home[p] \in Worktrees
                         /\ snap[p] \in Book /\ Sound(snap[p])
                         /\ batch[p] \in Book /\ Sound(batch[p])
  BY WorldAssumption DEF Paths, SoundInv, TypeOK, MemorySound
<1>1. PICK p \in Procs : MigRename(p) \/ MigWrite(p) \/ UpWrite(p)
  BY DEF Next, Run, Migrate, Upsert, vars, disk, NextDay, Crash, BeginMigration, SkipMigration,
         TakeLock, GiveUpLock, MigGone, MigRead, MigParse, MigFail, Route, UpRead, UpSkip, UpFail,
         ReadDigest
<1>2. CASE MigRename(p)
  BY <1>2 DEF MigRename
<1>3. CASE MigWrite(p)
  <2>1. snap[p] = file[Canon]
    BY <1>3 DEF MigWrite, LockInv, StartsAtCanon, SnapshotFresh
  <2>2. file'[Canon] = Decay(Merged(snap[p], batch[p]))
    BY <1>3 DEF MigWrite
  <2>3. /\ Merged(snap[p], batch[p]) \in Book
        /\ AllOf(batch[p]) \in [Keys -> Nat]
        /\ Adds(snap[p], Merged(snap[p], batch[p]), AllOf(batch[p]))
    BY WritesAdd
  <2>. QED
    BY <2>1, <2>2, <2>3
<1>4. CASE UpWrite(p) /\ path[p] # Canon
  BY <1>4 DEF UpWrite
<1>5. CASE UpWrite(p) /\ path[p] = Canon
  <2>1. snap[p] = file[Canon]
    BY <1>5 DEF UpWrite, LockInv, SnapshotFresh
  <2>2. file'[Canon] = Decay(Upserted(snap[p], job[p], date[p]))
    BY <1>5 DEF UpWrite
  <2>3. job[p] \in Keys /\ date[p] \in Nat
    BY <1>5, WorldAssumption DEF UpWrite, SoundInv, JobsKnown, TypeOK, Days
  <2>4. /\ Upserted(snap[p], job[p], date[p]) \in Book
        /\ One(job[p]) \in [Keys -> Nat]
        /\ Adds(snap[p], Upserted(snap[p], job[p], date[p]), One(job[p]))
    BY <2>3, WritesAdd
  <2>. QED
    BY <2>1, <2>2, <2>4
<1>. QED
  BY <1>1, <1>2, <1>3, <1>4, <1>5

(***************************************************************************)
(* As long as no lock wait gives up, the canonical ledger forgets a        *)
(* pattern only when it is full, and only in favour of rows that rank at   *)
(* least as high: CAP never costs a frequent or a recent pattern its row   *)
(* while a rarer or an older one stays.                                    *)
(***************************************************************************)
THEOREM OnlyTheWorstIsDropped ==
  ASSUME "lock" \notin Faults
  PROVE  Spec => DropsOnlyTheWorst
<1> DEFINE Dropping == \A i \in Forgets(file[Canon], file'[Canon]) :
                          /\ Len(file'[Canon]) = Cap
                          /\ \A j \in DOMAIN file'[Canon] : ~Better(file[Canon][i], file'[Canon][j])
<1>1. SoundInv /\ LockInv /\ [Next]_vars => [Dropping]_vars
  <2>. SUFFICES ASSUME SoundInv, LockInv, [Next]_vars,
                       NEW i \in Forgets(file[Canon], file'[Canon])
                PROVE  /\ Len(file'[Canon]) = Cap
                       /\ \A j \in DOMAIN file'[Canon] : ~Better(file[Canon][i], file'[Canon][j])
    OBVIOUS
  <2>1. file[Canon] \in Book
    BY DEF SoundInv, TypeOK, Paths
  <2>2. CASE file'[Canon] = file[Canon]
    BY <2>1, <2>2, RowsOf DEF Forgets
  <2>3. CASE \E t \in Book, g \in [Keys -> Nat] :
               Adds(file[Canon], t, g) /\ file'[Canon] = Decay(t)
    BY <2>1, <2>3, WriteDropsTheWorst
  <2>. QED
    BY <2>2, <2>3, CanonChanges
<1>. QED
  BY <1>1, SoundInvHolds, LockInvHolds, PTL DEF Spec, DropsOnlyTheWorst

-----------------------------------------------------------------------------
(***************************************************************************)
(* Refinement.  A migration must bring in a whole legacy book, so legacy   *)
(* ledgers must not change under it: they do not while the git lookup      *)
(* succeeds, because then every upsert goes to the canonical ledger.  A    *)
(* process has reported nothing before its write, so it is answered once.  *)
(***************************************************************************)
AllAtCanon == \A p \in Procs : path[p] = Canon

LegacyIntact ==
  /\ born \in InitFiles
  /\ \A w \in Worktrees : file[w] = << >> \/ file[w] = born[w]
  /\ \A p \in Procs :
        pc[p] \in {"mrename", "mparse", "mwrite"} => batch[p] = born[Home[p]]

Unreported == \A p \in Procs : pc[p] # "done" => result[p] = "none"

RefineInv == AllAtCanon /\ LegacyIntact /\ Unreported

LEMMA RefineInvInit == Init => RefineInv
BY DEF Init, RefineInv, AllAtCanon, LegacyIntact, Unreported

LEMMA LeaveKeepsRefine ==
  ASSUME TypeOK, RefineInv, NEW p \in Procs, NEW to \in {"route", "done"}, Leave(p, to),
         path' = path, born' = born,
         \A w \in Worktrees : file'[w] = file[w],
         pc[p] # "done",
         \/ result' = result
         \/ to = "done" /\ \E r : result' = [result EXCEPT ![p] = r]
  PROVE  RefineInv'
<1>1. AllAtCanon'
  BY DEF RefineInv, AllAtCanon
<1>2. LegacyIntact'
  BY DEF RefineInv, LegacyIntact, Leave, TypeOK
<1>3. Unreported'
  BY DEF RefineInv, Unreported, Leave, TypeOK
<1>. QED
  BY <1>1, <1>2, <1>3 DEF RefineInv

LEMMA RoutedToCanon ==
  ASSUME "git" \notin Faults, TypeOK, RefineInv, NEW p \in Procs, Route(p)
  PROVE  path' = path
<1>1. PICK q \in LedgerPath(p) : path' = [path EXCEPT ![p] = q]
  BY DEF Route
<1>2. q = path[p]
  BY DEF LedgerPath, RefineInv, AllAtCanon
<1>3. path \in [Procs -> Paths]
  BY DEF TypeOK
<1>. QED
  BY <1>1, <1>2, <1>3

LEMMA RefineInvNext ==
  ASSUME "git" \notin Faults
  PROVE  TypeOK /\ RefineInv /\ [Next]_vars => RefineInv'
<1>. SUFFICES ASSUME TypeOK, RefineInv, [Next]_vars
              PROVE  RefineInv'
  OBVIOUS
<1>1. CASE UNCHANGED vars
  BY <1>1 DEF vars, disk, memory, RefineInv, AllAtCanon, LegacyIntact, Unreported
<1>2. CASE NextDay
  BY <1>2 DEF NextDay, disk, memory, RefineInv, AllAtCanon, LegacyIntact, Unreported
<1>3. ASSUME NEW p \in Procs, Run(p) \/ Crash(p)
      PROVE  RefineInv'
  <2>. Home[p] \in Worktrees /\ Canon \notin Worktrees
    BY WorldAssumption
  <2>1. CASE BeginMigration(p)
    BY <2>1 DEF BeginMigration, Goto, disk, memory, TypeOK,
                RefineInv, AllAtCanon, LegacyIntact, Unreported
  <2>2. CASE SkipMigration(p)
    BY <2>2 DEF SkipMigration, Goto, disk, memory, TypeOK,
                RefineInv, AllAtCanon, LegacyIntact, Unreported
  <2>3. CASE TakeLock(p)
    BY <2>3 DEF TakeLock, EnterSection, Goto, disk, memory, TypeOK,
                RefineInv, AllAtCanon, LegacyIntact, Unreported
  <2>4. CASE GiveUpLock(p)
    BY <2>4 DEF GiveUpLock, EnterSection, Goto, disk, memory, TypeOK,
                RefineInv, AllAtCanon, LegacyIntact, Unreported
  <2>5. CASE MigGone(p)
    BY <2>5, LeaveKeepsRefine DEF MigGone, disk
  <2>6. CASE MigRead(p)
    <3>1. LegacyIntact'
      BY <2>6 DEF MigRead, Goto, disk, TypeOK, RefineInv, LegacyIntact
    <3>. QED
      BY <2>6, <3>1 DEF MigRead, Goto, TypeOK, RefineInv, AllAtCanon, Unreported
  <2>7. CASE MigRename(p)
    <3>1. LegacyIntact'
      BY <2>7 DEF MigRename, Goto, memory, TypeOK, Paths, RefineInv, LegacyIntact
    <3>. QED
      BY <2>7, <3>1 DEF MigRename, Goto, memory, TypeOK, RefineInv, AllAtCanon, Unreported
  <2>8. CASE MigParse(p)
    BY <2>8 DEF MigParse, Goto, disk, TypeOK, RefineInv, AllAtCanon, LegacyIntact, Unreported
  <2>9. CASE MigWrite(p)
    <3>1. \A w \in Worktrees : file'[w] = file[w]
      BY <2>9 DEF MigWrite, TypeOK, Paths
    <3>. QED
      BY <2>9, <3>1, LeaveKeepsRefine DEF MigWrite
  <2>10. CASE MigFail(p)
    BY <2>10, LeaveKeepsRefine DEF MigFail, disk, Migrating
  <2>11. CASE Route(p)
    <3>1. path' = path
      BY <2>11, RoutedToCanon
    <3>. QED
      BY <2>11, <3>1 DEF Route, Goto, disk, TypeOK, RefineInv, AllAtCanon, LegacyIntact, Unreported
  <2>12. CASE UpRead(p)
    BY <2>12 DEF UpRead, Goto, disk, TypeOK, RefineInv, AllAtCanon, LegacyIntact, Unreported
  <2>13. CASE UpWrite(p)
    <3>1. \A w \in Worktrees : file'[w] = file[w]
      BY <2>13 DEF UpWrite, TypeOK, Paths, RefineInv, AllAtCanon
    <3>. QED
      BY <2>13, <3>1, LeaveKeepsRefine DEF UpWrite
  <2>14. CASE UpSkip(p)
    BY <2>14, LeaveKeepsRefine DEF UpSkip, disk
  <2>15. CASE UpFail(p)
    BY <2>15, LeaveKeepsRefine DEF UpFail, disk
  <2>16. CASE ReadDigest(p)
    BY <2>16 DEF ReadDigest, Goto, disk, memory, TypeOK,
                 RefineInv, AllAtCanon, LegacyIntact, Unreported
  <2>17. CASE Crash(p)
    BY <2>17, LeaveKeepsRefine DEF Crash, disk
  <2>. QED
    BY <1>3, <2>1, <2>2, <2>3, <2>4, <2>5, <2>6, <2>7, <2>8, <2>9, <2>10, <2>11,
       <2>12, <2>13, <2>14, <2>15, <2>16, <2>17 DEF Run, Migrate, Upsert
<1>. QED
  BY <1>1, <1>2, <1>3 DEF Next

(***************************************************************************)
(* AtomicLedger computes with the operators of LedgerBook, as does         *)
(* FeedbackLedger: the two copies of each are the same.                    *)
(***************************************************************************)
LEMMA SameOperators ==
  /\ AtomicCanon!Book = Book
  /\ \A s : AtomicCanon!KeysOf(s) = KeysOf(s)
  /\ \A s : AtomicCanon!Decay(s) = Decay(s)
  /\ \A s, k, d : AtomicCanon!Upserted(s, k, d) = Upserted(s, k, d)
  /\ \A s, b : AtomicCanon!Merged(s, b) = Merged(s, b)
<1>0. \A S : AtomicCanon!Cardinality(S) = Cardinality(S)
  BY DEF AtomicCanon!Cardinality, Cardinality
<1>1. AtomicCanon!Book = Book
  BY DEF AtomicCanon!Book, AtomicCanon!Entry, Book, Entry
<1>2. \A s : AtomicCanon!KeysOf(s) = KeysOf(s)
  BY DEF AtomicCanon!KeysOf, KeysOf
<1>3. \A s : AtomicCanon!Decay(s) = Decay(s)
  BY DEF AtomicCanon!Decay, AtomicCanon!Sorted, AtomicCanon!Place, AtomicCanon!Before,
         AtomicCanon!Better, AtomicCanon!Cardinality,
         Decay, Sorted, Place, Before, Better, Cardinality
<1>4. \A s, k : AtomicCanon!PositionOf(s, k) = PositionOf(s, k)
  BY DEF AtomicCanon!PositionOf, PositionOf
<1>5. \A s : AtomicCanon!NextId(s) = NextId(s)
  BY DEF AtomicCanon!NextId, AtomicCanon!IdsOf, AtomicCanon!Max, NextId, IdsOf, Max
<1>6. \A s, k, d : AtomicCanon!Upserted(s, k, d) = Upserted(s, k, d)
  BY <1>2, <1>4, <1>5
  DEF AtomicCanon!Upserted, AtomicCanon!Incremented, AtomicCanon!Added, AtomicCanon!Row,
      Upserted, Incremented, Added, Row
<1>7. \A s, b : AtomicCanon!Newcomers(s, b) = Newcomers(s, b)
  BY DEF AtomicCanon!Newcomers, AtomicCanon!NewPositions, AtomicCanon!KeysOf,
         AtomicCanon!Cardinality, Newcomers, NewPositions, KeysOf, Cardinality
<1>8. \A e, b : AtomicCanon!Absorbed(e, b) = Absorbed(e, b)
  BY <1>2, <1>4 DEF AtomicCanon!Absorbed, AtomicCanon!Row, Absorbed, Row
<1>9. \A s, b : AtomicCanon!Joined(s, b) = Joined(s, b)
  BY <1>7, <1>8 DEF AtomicCanon!Joined, Joined
<1>10. \A s : AtomicCanon!Renumbered(s) = Renumbered(s)
  <2>1. \A s, i : AtomicCanon!PlaceById(s, i) = PlaceById(s, i)
    BY <1>0 DEF AtomicCanon!PlaceById, PlaceById
  <2>. QED
    BY <2>1 DEF AtomicCanon!Renumbered, AtomicCanon!Row, Renumbered, Row
<1>11. \A s, b : AtomicCanon!Merged(s, b) = Merged(s, b)
  BY <1>9, <1>10 DEF AtomicCanon!Merged, Merged
<1>. QED
  BY <1>1, <1>2, <1>3, <1>6, <1>11

(***************************************************************************)
(* A step of a command that writes nothing is a stutter of the abstract    *)
(* ledger.                                                                 *)
(***************************************************************************)
LEMMA QuietStep ==
  ASSUME TypeOK, RefineInv, NEW p \in Procs, path' = path, file'[Canon] = file[Canon],
         \/ result' = result
         \/ /\ pc[p] # "done"
            /\ \E r \in {"skipped", "failed", "digested", "killed"} :
                  result' = [result EXCEPT ![p] = r]
  PROVE  UNCHANGED AtomicCanon!vars
<1>1. \A q \in Procs : CanonAnswer(q)' = CanonAnswer(q)
  BY DEF TypeOK, RefineInv, Unreported, CanonAnswer
<1>2. [q \in Procs |-> CanonAnswer(q)]' = [q \in Procs |-> CanonAnswer(q)]
  BY <1>1
<1>. QED
  BY <1>2 DEF AtomicCanon!vars

LEMMA StepRefines ==
  ASSUME "git" \notin Faults
  PROVE  TypeOK /\ JobsKnown /\ SnapshotFresh /\ RefineInv /\ RefineInv' /\ [Next]_vars
           => [AtomicCanon!Next]_(AtomicCanon!vars)
<1>. SUFFICES ASSUME TypeOK, JobsKnown, SnapshotFresh, RefineInv, RefineInv', [Next]_vars
              PROVE  AtomicCanon!Next \/ UNCHANGED AtomicCanon!vars
  OBVIOUS
<1>1. CASE UNCHANGED vars
  BY <1>1 DEF vars, disk, memory, AtomicCanon!vars, CanonAnswer
<1>2. CASE NextDay
  BY <1>2 DEF NextDay, disk, memory, AtomicCanon!vars, CanonAnswer
<1>3. ASSUME NEW p \in Procs, Run(p) \/ Crash(p)
      PROVE  AtomicCanon!Next \/ UNCHANGED AtomicCanon!vars
  <2>. Home[p] \in Worktrees /\ Canon \notin Worktrees
    BY WorldAssumption
  <2>1. CASE BeginMigration(p) \/ SkipMigration(p) \/ TakeLock(p) \/ GiveUpLock(p)
    BY <2>1, QuietStep
    DEF BeginMigration, SkipMigration, TakeLock, GiveUpLock, disk, memory
  <2>2. CASE MigGone(p) \/ MigRead(p) \/ MigParse(p) \/ MigFail(p)
    BY <2>2, QuietStep DEF MigGone, MigRead, MigParse, MigFail, disk
  <2>3. CASE MigRename(p)
    <3>1. file'[Canon] = file[Canon]
      BY <2>3 DEF MigRename, TypeOK, Paths
    <3>. QED
      BY <2>3, <3>1, QuietStep DEF MigRename, memory
  <2>4. CASE MigWrite(p)
    <3>1. snap[p] = file[Canon] /\ batch[p] = born[Home[p]] /\ born \in InitFiles
      BY <2>4 DEF MigWrite, SnapshotFresh, RefineInv, AllAtCanon, LegacyIntact
    <3>2. batch[p] \in {f[w] : f \in InitFiles, w \in Worktrees}
      BY <3>1
    <3>3. file'[Canon] = Decay(Merged(file[Canon], batch[p]))
      BY <2>4, <3>1 DEF MigWrite, TypeOK, Paths
    <3>4. [q \in Procs |-> CanonAnswer(q)]' = [q \in Procs |-> CanonAnswer(q)]
      BY <2>4 DEF MigWrite, CanonAnswer
    <3>5. AtomicCanon!Absorb(batch[p])
      BY <3>3, <3>4, SameOperators DEF AtomicCanon!Absorb
    <3>. QED
      BY <3>2, <3>5 DEF AtomicCanon!Next
  <2>5. CASE Route(p)
    <3>1. path' = path
      BY <2>5, RoutedToCanon
    <3>. QED
      BY <2>5, <3>1, QuietStep DEF Route, disk
  <2>6. CASE UpRead(p) \/ UpSkip(p) \/ UpFail(p)
    BY <2>6, QuietStep DEF UpRead, UpSkip, UpFail, disk
  <2>7. CASE UpWrite(p)
    <3> DEFINE r == IF job[p] \in KeysOf(file[Canon]) THEN "incremented" ELSE "added"
    <3>1. snap[p] = file[Canon] /\ path[p] = Canon /\ job[p] \in Keys /\ date[p] \in Days
      BY <2>7 DEF UpWrite, SnapshotFresh, RefineInv, AllAtCanon, JobsKnown, TypeOK
    <3>2. file'[Canon] = Decay(Upserted(file[Canon], job[p], date[p]))
      BY <2>7, <3>1 DEF UpWrite, TypeOK, Paths
    <3>3. result[p] = "none" /\ result' = [result EXCEPT ![p] = r] /\ path' = path
      BY <2>7, <3>1 DEF UpWrite, RefineInv, Unreported
    <3>4. r \in {"added", "incremented"}
      OBVIOUS
    <3>. HIDE DEF r
    <3>5. \A q \in Procs : CanonAnswer(q)' = IF q = p THEN r ELSE CanonAnswer(q)
      BY <3>1, <3>3, <3>4 DEF CanonAnswer, TypeOK
    <3>6. CanonAnswer(p) = "none"
      BY <3>3 DEF CanonAnswer
    <3>7. [q \in Procs |-> CanonAnswer(q)]' = [[q \in Procs |-> CanonAnswer(q)] EXCEPT ![p] = r]
      BY <3>5
    <3>8. AtomicCanon!Record(p, job[p], date[p])
      BY <3>2, <3>6, <3>7, SameOperators DEF AtomicCanon!Record, r
    <3>. QED
      BY <3>1, <3>8 DEF AtomicCanon!Next
  <2>8. CASE ReadDigest(p)
    BY <2>8, QuietStep DEF ReadDigest, Goto, disk, memory
  <2>9. CASE Crash(p)
    BY <2>9, QuietStep DEF Crash, disk
  <2>. QED
    BY <1>3, <2>1, <2>2, <2>3, <2>4, <2>5, <2>6, <2>7, <2>8, <2>9 DEF Run, Migrate, Upsert
<1>. QED
  BY <1>1, <1>2, <1>3 DEF Next

(***************************************************************************)
(* The shared ledger is linearizable: with working locks and git lookups,  *)
(* concurrent commands, their crashes and their failing reads and writes   *)
(* look like whole upserts and whole migrations, one after the other, and  *)
(* every report of an upsert is the one its atomic change would give.      *)
(***************************************************************************)
THEOREM CanonIsAtomic ==
  ASSUME "lock" \notin Faults, "git" \notin Faults
  PROVE  Spec => ImplementsAtomicLedger
<1>1. Init /\ TypeOK => AtomicCanon!Init
  BY SameOperators DEF Init, TypeOK, Paths, AtomicCanon!Init, CanonAnswer
<1>2. SoundInv => TypeOK /\ JobsKnown
  BY DEF SoundInv
<1>3. Spec => []SnapshotFresh
  BY SnapshotsAreFresh
<1>. QED
  BY <1>1, <1>2, <1>3, SoundInvHolds, RefineInvInit, RefineInvNext, StepRefines, PTL
  DEF Spec, ImplementsAtomicLedger, AtomicCanon!Spec

-----------------------------------------------------------------------------
(***************************************************************************)
(* Sums.  Observed adds up with a fold of the community modules, which     *)
(* takes the elements of a set in an order nobody states.  Counted as      *)
(* units, g[x] of them for each x, the sum of g over s does not depend on  *)
(* an order, and sums over parts of a set are sums over disjoint units.    *)
(***************************************************************************)
Units(g, s) == {u \in s \X Nat : u[2] \in 1..g[u[1]]}

Sum(g, s) == Cardinality(Units(g, s))

(***************************************************************************)
(* Induction over the subsets of a finite set.                             *)
(***************************************************************************)
LEMMA AlongTheSet ==
  ASSUME NEW S, IsFiniteSet(S), NEW Q, {} \in Q,
         \A T \in SUBSET S : T # {} /\ (\A x \in T : T \ {x} \in Q) => T \in Q
  PROVE  \A T \in SUBSET S : T \in Q
<1> DEFINE bad == {T \in SUBSET S : T \notin Q}
           R == StrictSubsetOrdering(S)
<1>1. SUFFICES ASSUME bad # {}
               PROVE  FALSE
  OBVIOUS
<1>2. FiniteSubsetsOf(S) = SUBSET S
  BY FS_FiniteSubsetsOfFinite
<1>3. PICK T \in bad : \A U \in bad : ~(<<U, T>> \in R)
  <2>1. IsWellFoundedOn(R, SUBSET S)
    BY <1>2, FS_StrictSubsetOrderingWellFounded
  <2>2. bad \subseteq SUBSET S
    OBVIOUS
  <2>. HIDE DEF bad, R
  <2>. QED
    BY <1>1, <2>1, <2>2, WFMin
<1>4. ASSUME NEW x \in T
      PROVE  T \ {x} \in Q
  <2>1. <<T \ {x}, T>> \in R
    BY <1>3, <1>4 DEF StrictSubsetOrdering
  <2>. QED
    BY <1>3, <2>1
<1>. QED
  BY <1>3, <1>4

LEMMA SumIsFinite ==
  ASSUME NEW S, IsFiniteSet(S), NEW g, \A x \in S : g[x] \in Nat
  PROVE  \A s \in SUBSET S :
            /\ IsFiniteSet(Units(g, s)) /\ Sum(g, s) \in Nat
            /\ s = {} => Sum(g, s) = 0
            /\ \A x \in s : Sum(g, s) = g[x] + Sum(g, s \ {x})
<1> DEFINE Of(x) == {x} \X (1..g[x])
           Q == {s \in SUBSET S : IsFiniteSet(Units(g, s))}
<1>1. ASSUME NEW x \in S
      PROVE  IsFiniteSet(Of(x)) /\ Cardinality(Of(x)) = g[x]
  <2>1. IsFiniteSet({x}) /\ Cardinality({x}) = 1
    BY FS_Singleton
  <2>2. IsFiniteSet(1..g[x]) /\ Cardinality(1..g[x]) = g[x]
    BY PositionsFinite
  <2>3. IsFiniteSet(Of(x)) /\ Cardinality(Of(x)) = 1 * g[x]
    BY <2>1, <2>2, FS_Product
  <2>4. g[x] \in Nat
    OBVIOUS
  <2>. HIDE DEF Of
  <2>. QED
    BY <2>3, <2>4
<1>2. ASSUME NEW s \in SUBSET S, NEW x \in s
      PROVE  /\ Units(g, s) = Of(x) \cup Units(g, s \ {x})
             /\ Of(x) \cap Units(g, s \ {x}) = {}
  BY DEF Units
<1>. HIDE DEF Of
<1>3. Units(g, {}) = {}
  BY DEF Units
<1>4. {} \in Q
  BY <1>3, FS_EmptySet
<1>5. ASSUME NEW s \in SUBSET S, s # {}, \A x \in s : s \ {x} \in Q
      PROVE  s \in Q
  <2>1. PICK x \in s : IsFiniteSet(Units(g, s \ {x}))
    BY <1>5
  <2>2. IsFiniteSet(Of(x))
    BY <1>1
  <2>3. IsFiniteSet(Of(x) \cup Units(g, s \ {x}))
    BY <2>1, <2>2, FS_Union
  <2>. QED
    BY <1>2, <2>3
<1>6. \A s \in SUBSET S : s \in Q
  <2>. HIDE DEF Q
  <2>. QED
    BY <1>4, <1>5, AlongTheSet
<1>7. \A s \in SUBSET S : IsFiniteSet(Units(g, s)) /\ Sum(g, s) \in Nat
  BY <1>6, FS_CardinalityType DEF Sum
<1>8. ASSUME NEW s \in SUBSET S, NEW x \in s
      PROVE  Sum(g, s) = g[x] + Sum(g, s \ {x})
  <2>1. s \ {x} \in SUBSET S /\ x \in S
    OBVIOUS
  <2>2. IsFiniteSet(Units(g, s \ {x})) /\ Sum(g, s \ {x}) \in Nat
    BY <1>7, <2>1
  <2>3. Cardinality(Of(x) \cup Units(g, s \ {x})) =
          Cardinality(Of(x)) + Cardinality(Units(g, s \ {x})) - Cardinality(Of(x) \cap Units(g, s \ {x}))
    BY <1>1, <2>1, <2>2, FS_Union
  <2>4. Cardinality(Of(x)) = g[x] /\ g[x] \in Nat /\ Cardinality({}) = 0
    BY <1>1, <2>1, FS_EmptySet
  <2>5. Cardinality(Units(g, s)) = g[x] + Cardinality(Units(g, s \ {x})) - 0
    BY <1>2, <2>3, <2>4
  <2>. QED
    BY <2>2, <2>4, <2>5 DEF Sum
<1>9. Sum(g, {}) = 0
  BY <1>3, FS_EmptySet DEF Sum
<1>. QED
  BY <1>7, <1>8, <1>9

(***************************************************************************)
(* Observed is such a sum.                                                 *)
(***************************************************************************)
LEMMA ObservedIsSum ==
  ASSUME NEW f, IsFiniteSet(DOMAIN f), NEW k, \A q \in DOMAIN f : Freq(f[q], k) \in Nat
  PROVE  Observed(f, k) = Sum([q \in DOMAIN f |-> Freq(f[q], k)], DOMAIN f)
<1> DEFINE S == DOMAIN f
           g == [q \in S |-> Freq(f[q], k)]
           Rule(it) == it = [s \in SUBSET S |->
                               IF s = {} THEN 0
                               ELSE Freq(f[CHOOSE x \in s : TRUE], k) + it[s \ {CHOOSE x \in s : TRUE}]]
           fold == CHOOSE it : Rule(it)
           sums == [s \in SUBSET S |-> Sum(g, s)]
<1>1. \A q \in S : g[q] = Freq(f[q], k) /\ g[q] \in Nat
  OBVIOUS
<1>2. Observed(f, k) = fold[S]
  BY DEF Observed, MapThenSumSet, MapThenFoldSet
<1>. HIDE DEF g
<1>3. \A s \in SUBSET S :
         /\ Sum(g, s) \in Nat
         /\ s = {} => Sum(g, s) = 0
         /\ \A x \in s : Sum(g, s) = g[x] + Sum(g, s \ {x})
  BY <1>1, SumIsFinite
<1>4. ASSUME NEW s \in SUBSET S
      PROVE  sums[s] = IF s = {} THEN 0
                       ELSE Freq(f[CHOOSE x \in s : TRUE], k) + sums[s \ {CHOOSE x \in s : TRUE}]
  <2>1. CASE s = {}
    BY <1>3, <2>1
  <2>2. CASE s # {}
    <3> DEFINE c == CHOOSE x \in s : TRUE
    <3>1. c \in s
      BY <2>2
    <3>2. s \ {c} \in SUBSET S /\ c \in S
      BY <3>1
    <3>. HIDE DEF c
    <3>3. Sum(g, s) = g[c] + Sum(g, s \ {c})
      BY <1>3, <3>1
    <3>4. sums[s] = Freq(f[c], k) + sums[s \ {c}]
      BY <1>1, <3>2, <3>3
    <3>. QED
      BY <2>2, <3>4 DEF c
  <2>. QED
    BY <2>1, <2>2
<1>5. Rule(sums)
  BY <1>4
<1>6. Rule(fold)
  BY <1>5
<1>. HIDE DEF sums, fold
<1>7. \A s \in SUBSET S :
        fold[s] = IF s = {} THEN 0
                  ELSE Freq(f[CHOOSE x \in s : TRUE], k) + fold[s \ {CHOOSE x \in s : TRUE}]
  BY <1>6
<1> DEFINE Q == {s \in SUBSET S : fold[s] = Sum(g, s)}
<1>8. {} \in Q
  BY <1>3, <1>7
<1>9. ASSUME NEW s \in SUBSET S, s # {}, \A x \in s : s \ {x} \in Q
      PROVE  s \in Q
  <2> DEFINE c == CHOOSE x \in s : TRUE
  <2>1. c \in s
    BY <1>9
  <2>2. fold[s] = Freq(f[c], k) + fold[s \ {c}]
    BY <1>7, <1>9
  <2>. HIDE DEF c
  <2>3. fold[s \ {c}] = Sum(g, s \ {c}) /\ Freq(f[c], k) = g[c]
    BY <1>1, <1>9, <2>1
  <2>4. Sum(g, s) = g[c] + Sum(g, s \ {c})
    BY <1>3, <2>1
  <2>. QED
    BY <2>2, <2>3, <2>4
<1>10. \A s \in SUBSET S : s \in Q
  <2>. HIDE DEF Q
  <2>. QED
    BY <1>8, <1>9, AlongTheSet
<1>. QED
  BY <1>2, <1>10 DEF g

(***************************************************************************)
(* Sums with the same units are the same; more units, a greater sum; the   *)
(* sums over two disjoint parts add up.                                    *)
(***************************************************************************)
LEMMA SumAgrees ==
  ASSUME NEW g, NEW h, NEW s, NEW T, T \subseteq s,
         \A x \in s : h[x] = IF x \in T THEN g[x] ELSE 0
  PROVE  Sum(h, s) = Sum(g, T)
<1>1. Units(h, s) = Units(g, T)
  <2>1. ASSUME NEW u \in s \X Nat
        PROVE  u \in Units(h, s) <=> u \in Units(g, T)
    <3>1. u[1] \in s /\ u[2] \in Nat
      OBVIOUS
    <3>2. CASE u[1] \in T
      BY <3>1, <3>2 DEF Units
    <3>3. CASE u[1] \notin T
      BY <3>1, <3>3 DEF Units
    <3>. QED
      BY <3>2, <3>3
  <2>2. Units(h, s) \subseteq s \X Nat /\ Units(g, T) \subseteq s \X Nat
    BY DEF Units
  <2>. QED
    BY <2>1, <2>2
<1>. QED
  BY <1>1 DEF Sum

LEMMA SumGrows ==
  ASSUME NEW S, IsFiniteSet(S), NEW g, \A x \in S : g[x] \in Nat, NEW T \in SUBSET S
  PROVE  Sum(g, T) <= Sum(g, S)
<1>1. Units(g, T) \in SUBSET Units(g, S)
  BY DEF Units
<1>2. IsFiniteSet(Units(g, S))
  BY SumIsFinite
<1>. QED
  BY <1>1, <1>2, FS_Subset DEF Sum

LEMMA SumOfParts ==
  ASSUME NEW S, IsFiniteSet(S), NEW g, \A x \in S : g[x] \in Nat,
         NEW A \in SUBSET S, NEW B \in SUBSET S, A \cap B = {}
  PROVE  Sum(g, A \cup B) = Sum(g, A) + Sum(g, B)
<1>1. Units(g, A \cup B) = Units(g, A) \cup Units(g, B) /\ Units(g, A) \cap Units(g, B) = {}
  BY DEF Units
<1>2. IsFiniteSet(Units(g, A)) /\ IsFiniteSet(Units(g, B)) /\ Sum(g, A) \in Nat /\ Sum(g, B) \in Nat
  BY SumIsFinite
<1>3. Cardinality(Units(g, A) \cup Units(g, B)) =
        Cardinality(Units(g, A)) + Cardinality(Units(g, B)) - Cardinality(Units(g, A) \cap Units(g, B))
  BY <1>2, FS_Union
<1>4. Cardinality(Units(g, A \cup B)) = Cardinality(Units(g, A)) + Cardinality(Units(g, B)) - 0
  BY <1>1, <1>3, FS_EmptySet
<1>. QED
  BY <1>2, <1>4 DEF Sum

-----------------------------------------------------------------------------
(***************************************************************************)
(* Counting.  While the git lookup succeeds, what a worktree had learned   *)
(* is in exactly one of three places: in its legacy ledger; in its backup, *)
(* which is owed to the canonical ledger; or Settled, absorbed there.  A   *)
(* legacy ledger is renamed once, so one process at most absorbs it.       *)
(***************************************************************************)
Absorbing == {"mparse", "mwrite"}

OwedInv ==
  /\ \A w \in Worktrees : owed[w] => file[w] = << >> /\ backup[w] = born[w]
  /\ \A p \in Procs : pc[p] \in Absorbing => owed[Home[p]]
  /\ \A p, q \in Procs :
        pc[p] \in Absorbing /\ pc[q] \in Absorbing /\ Home[p] = Home[q] => p = q

LEMMA OwedInvInit == Init => OwedInv
BY DEF Init, OwedInv, Absorbing

LEMMA OwedInvNext ==
  ASSUME "git" \notin Faults
  PROVE  TypeOK /\ RefineInv /\ OwedInv /\ [Next]_vars => OwedInv'
<1>. SUFFICES ASSUME TypeOK, RefineInv, OwedInv, [Next]_vars
              PROVE  OwedInv'
  OBVIOUS
<1>. /\ Canon \notin Worktrees /\ Home \in [Procs -> Worktrees]
     /\ pc \in [Procs -> Labels] /\ owed \in [Worktrees -> BOOLEAN]
     /\ file \in [Paths -> Book] /\ backup \in [Worktrees -> Book]
     /\ \A w \in Worktrees : w \in Paths
  BY WorldAssumption DEF TypeOK, Paths
<1>1. CASE UNCHANGED vars
  BY <1>1 DEF vars, disk, OwedInv
<1>2. CASE NextDay
  BY <1>2 DEF NextDay, disk, OwedInv
<1>3. ASSUME NEW p \in Procs, Run(p) \/ Crash(p)
      PROVE  OwedInv'
  <2>1. CASE BeginMigration(p) \/ SkipMigration(p) \/ TakeLock(p) \/ GiveUpLock(p)
    BY <2>1 DEF BeginMigration, SkipMigration, TakeLock, GiveUpLock, EnterSection, Goto, disk,
                OwedInv, Absorbing
  <2>2. CASE MigGone(p) \/ MigRead(p) \/ MigFail(p)
    BY <2>2 DEF MigGone, MigRead, MigFail, Leave, Goto, disk, OwedInv, Absorbing
  <2>3. CASE MigRename(p)
    <3>1. file[Home[p]] = born[Home[p]] /\ file[Home[p]] # << >> /\ born' = born
      BY <2>3 DEF MigRename, RefineInv, LegacyIntact
    <3>2. ~owed[Home[p]]
      BY <3>1 DEF OwedInv
    <3>3. \A q \in Procs : pc[q] \in Absorbing => Home[q] # Home[p]
      BY <3>2 DEF OwedInv
    <3>4. \A q \in Procs : pc'[q] \in Absorbing => q = p \/ pc[q] \in Absorbing
      BY <2>3 DEF MigRename, Goto
    <3>5. \A w \in Worktrees :
             /\ w = Home[p] => owed'[w] = TRUE /\ file'[w] = << >> /\ backup'[w] = born[w]
             /\ w # Home[p] => owed'[w] = owed[w] /\ file'[w] = file[w] /\ backup'[w] = backup[w]
      BY <2>3, <3>1 DEF MigRename
    <3>. QED
      BY <3>1, <3>3, <3>4, <3>5 DEF OwedInv
  <2>4. CASE MigParse(p)
    <3>1. \A q \in Procs : pc'[q] \in Absorbing <=> pc[q] \in Absorbing
      BY <2>4 DEF MigParse, Goto, Absorbing
    <3>. QED
      BY <2>4, <3>1 DEF MigParse, disk, OwedInv
  <2>5. CASE MigWrite(p)
    <3>1. pc[p] \in Absorbing /\ born' = born /\ backup' = backup
      BY <2>5 DEF MigWrite, Absorbing
    <3>2. \A q \in Procs : pc'[q] \in Absorbing => q # p /\ pc[q] \in Absorbing
      BY <2>5 DEF MigWrite, Leave, Absorbing
    <3>3. \A w \in Worktrees :
             /\ file'[w] = file[w]
             /\ w = Home[p] => owed'[w] = FALSE
             /\ w # Home[p] => owed'[w] = owed[w]
      BY <2>5 DEF MigWrite
    <3>. QED
      BY <3>1, <3>2, <3>3 DEF OwedInv
  <2>6. CASE Route(p) \/ UpRead(p) \/ UpSkip(p) \/ UpFail(p) \/ ReadDigest(p)
    BY <2>6 DEF Route, UpRead, UpSkip, UpFail, ReadDigest, Leave, Goto, disk, OwedInv, Absorbing
  <2>7. CASE UpWrite(p)
    <3>1. \A w \in Worktrees : file'[w] = file[w]
      BY <2>7 DEF UpWrite, RefineInv, AllAtCanon
    <3>2. \A q \in Procs : pc'[q] \in Absorbing => pc[q] \in Absorbing
      BY <2>7 DEF UpWrite, Leave, Absorbing
    <3>. QED
      BY <2>7, <3>1, <3>2 DEF UpWrite, OwedInv
  <2>8. CASE Crash(p)
    BY <2>8 DEF Crash, Leave, disk, OwedInv, Absorbing
  <2>. QED
    BY <1>3, <2>1, <2>2, <2>3, <2>4, <2>5, <2>6, <2>7, <2>8 DEF Run, Migrate, Upsert
<1>. QED
  BY <1>1, <1>2, <1>3 DEF Next

(***************************************************************************)
(* What the canonical ledger may have of a pattern: what it had at the     *)
(* start, what was noted, and what the settled worktrees had.  Steps keep  *)
(* that amount, except two: an upsert writes and notes one observation; a  *)
(* migration writes and settles what its worktree had.                     *)
(***************************************************************************)
Settled == {w \in Worktrees : file[w] = << >> /\ ~owed[w]}

Born(k) == [w \in Worktrees |-> Freq(born[w], k)]

Allowed(k) == Freq(born[Canon], k) + noted[k] + Sum(Born(k), Settled)

HasSnap == {"uwrite", "mwrite"}

\* others hold what they held, or what the ledger says now
MemoryKept(but) ==
  \A q \in Procs :
     pc'[q] \in HasSnap =>
       /\ q \notin but
       /\ \/ pc[q] \in HasSnap /\ snap'[q] = snap[q]
          \/ snap'[q] = file[Canon]

QuietCount ==
  /\ file'[Canon] = file[Canon] /\ noted' = noted /\ Settled' = Settled /\ MemoryKept({})

WritesCount(p, t, g) ==
  /\ pc[p] \in HasSnap
  /\ Adds(snap[p], t, g)
  /\ file'[Canon] = Decay(t)
  /\ \/ noted' = [k \in Keys |-> noted[k] + g[k]] /\ Settled' = Settled
     \/ /\ noted' = noted /\ Home[p] \notin Settled /\ Settled' = Settled \cup {Home[p]}
        /\ \A k \in Keys : g[k] = Freq(born[Home[p]], k)
  /\ MemoryKept({p})

LEMMA StepsCount ==
  ASSUME "git" \notin Faults
  PROVE  SoundInv /\ RefineInv /\ OwedInv /\ [Next]_vars =>
           /\ born' = born
           /\ \/ QuietCount
              \/ \E p \in Procs, t \in Book, g \in [Keys -> Nat] :
                    Sound(t) /\ WritesCount(p, t, g)
<1>. SUFFICES ASSUME SoundInv, RefineInv, OwedInv, [Next]_vars
              PROVE  /\ born' = born
                     /\ \/ QuietCount
                        \/ \E p \in Procs, t \in Book, g \in [Keys -> Nat] :
                              Sound(t) /\ WritesCount(p, t, g)
  OBVIOUS
<1>. /\ Canon \notin Worktrees /\ Home \in [Procs -> Worktrees] /\ Canon \in Paths
     /\ pc \in [Procs -> Labels] /\ owed \in [Worktrees -> BOOLEAN]
     /\ file \in [Paths -> Book] /\ snap \in [Procs -> Book] /\ batch \in [Procs -> Book]
     /\ \A w \in Worktrees : w \in Paths
     /\ \A p \in Procs : Sound(snap[p]) /\ Sound(batch[p]) /\ path[p] = Canon
  BY WorldAssumption DEF SoundInv, MemorySound, TypeOK, Paths, RefineInv, AllAtCanon
<1>1. CASE UNCHANGED vars
  BY <1>1 DEF vars, disk, memory, QuietCount, MemoryKept, Settled
<1>2. CASE NextDay
  BY <1>2 DEF NextDay, disk, memory, QuietCount, MemoryKept, Settled
<1>3. ASSUME NEW p \in Procs, Run(p) \/ Crash(p)
      PROVE  /\ born' = born
             /\ \/ QuietCount
                \/ \E t \in Book, g \in [Keys -> Nat] : Sound(t) /\ WritesCount(p, t, g)
  <2>1. CASE BeginMigration(p) \/ SkipMigration(p) \/ TakeLock(p) \/ GiveUpLock(p) \/ Route(p)
             \/ ReadDigest(p) \/ MigRead(p)
    BY <2>1 DEF BeginMigration, SkipMigration, TakeLock, GiveUpLock, EnterSection, Route, ReadDigest,
                MigRead, Goto, disk, memory, QuietCount, MemoryKept, HasSnap, Settled
  <2>2. CASE MigGone(p) \/ MigFail(p) \/ UpSkip(p) \/ UpFail(p) \/ Crash(p)
    BY <2>2 DEF MigGone, MigFail, UpSkip, UpFail, Crash, Leave, disk, QuietCount, MemoryKept,
                HasSnap, Settled
  <2>3. CASE MigRename(p)
    <3>1. file[Home[p]] # << >>
      BY <2>3 DEF MigRename
    <3>2. Settled' = Settled
      BY <2>3 DEF MigRename, Settled
    <3>3. MemoryKept({})
      BY <2>3 DEF MigRename, Goto, memory, MemoryKept, HasSnap
    <3>. QED
      BY <2>3, <3>2, <3>3 DEF MigRename, QuietCount
  <2>4. CASE MigParse(p) \/ UpRead(p)
    <3>1. Settled' = Settled /\ born' = born /\ noted' = noted /\ file' = file
      BY <2>4 DEF MigParse, UpRead, disk, Settled
    <3>2. MemoryKept({})
      BY <2>4 DEF MigParse, UpRead, Goto, MemoryKept, HasSnap
    <3>. QED
      BY <3>1, <3>2 DEF QuietCount
  <2>5. CASE MigWrite(p)
    <3> DEFINE t == Merged(snap[p], batch[p])
               g == AllOf(batch[p])
    <3>1. t \in Book /\ Sound(t) /\ g \in [Keys -> Nat] /\ Adds(snap[p], t, g)
      BY WritesAdd
    <3>2. batch[p] = born[Home[p]] /\ owed[Home[p]] /\ file[Home[p]] = << >>
      BY <2>5 DEF MigWrite, RefineInv, LegacyIntact, OwedInv, Absorbing
    <3>3. \A k \in Keys : g[k] = Freq(born[Home[p]], k)
      BY <3>2 DEF AllOf
    <3>4. file'[Canon] = Decay(t) /\ noted' = noted /\ born' = born /\ pc[p] \in HasSnap
      BY <2>5 DEF MigWrite, HasSnap
    <3>. HIDE DEF t, g
    <3>5. Home[p] \notin Settled
      BY <3>2 DEF Settled
    <3>6. \A w \in Worktrees : file'[w] = file[w] /\ owed'[w] = IF w = Home[p] THEN FALSE ELSE owed[w]
      BY <2>5 DEF MigWrite
    <3>7. Settled' = Settled \cup {Home[p]}
      <4>1. Home[p] \in Settled'
        BY <3>2, <3>6 DEF Settled
      <4>2. \A w \in Worktrees : w # Home[p] => (w \in Settled' <=> w \in Settled)
        BY <3>6 DEF Settled
      <4>3. Settled' \subseteq Worktrees /\ Settled \subseteq Worktrees
        BY DEF Settled
      <4>4. Home[p] \in Worktrees
        OBVIOUS
      <4>. QED
        BY ONLY <3>5, <4>1, <4>2, <4>3, <4>4
    <3>8. MemoryKept({p})
      BY <2>5 DEF MigWrite, Leave, MemoryKept, HasSnap
    <3>. QED
      BY <3>1, <3>3, <3>4, <3>5, <3>7, <3>8 DEF WritesCount
  <2>6. CASE UpWrite(p)
    <3> DEFINE t == Upserted(snap[p], job[p], date[p])
               g == One(job[p])
    <3>1. job[p] \in Keys /\ date[p] \in Nat /\ noted \in [Keys -> Nat]
      BY <2>6, WorldAssumption DEF UpWrite, SoundInv, JobsKnown, TypeOK, Days
    <3>2. t \in Book /\ Sound(t) /\ g \in [Keys -> Nat] /\ Adds(snap[p], t, g)
      BY <3>1, WritesAdd
    <3>3. noted' = [k \in Keys |-> noted[k] + g[k]]
      <4>1. noted' = [noted EXCEPT ![job[p]] = noted[job[p]] + 1]
        BY <2>6 DEF UpWrite
      <4>2. \A k \in Keys : /\ noted[k] \in Nat
                            /\ g[k] = IF k = job[p] THEN 1 ELSE 0
        BY <3>1 DEF One
      <4>. HIDE DEF g
      <4>3. DOMAIN noted' = Keys /\ \A k \in Keys : noted'[k] = noted[k] + g[k]
        BY ONLY <3>1, <4>1, <4>2
      <4>4. noted' = [k \in DOMAIN noted' |-> noted'[k]]
        BY <3>1, <4>1
      <4>. QED
        BY ONLY <4>3, <4>4
    <3>4. file'[Canon] = Decay(t) /\ born' = born /\ pc[p] \in HasSnap
      BY <2>6 DEF UpWrite, HasSnap
    <3>. HIDE DEF t, g
    <3>5. \A w \in Worktrees : file'[w] = file[w] /\ owed'[w] = owed[w]
      BY <2>6 DEF UpWrite
    <3>6. Settled' = Settled
      BY <3>5 DEF Settled
    <3>7. MemoryKept({p})
      BY <2>6 DEF UpWrite, Leave, MemoryKept, HasSnap
    <3>. QED
      BY <3>2, <3>3, <3>4, <3>6, <3>7 DEF WritesCount
  <2>. QED
    BY <1>3, <2>1, <2>2, <2>3, <2>4, <2>5, <2>6 DEF Run, Migrate, Upsert
<1>. QED
  BY <1>1, <1>2, <1>3 DEF Next

(***************************************************************************)
(* A writing step raises the allowance by what it adds.                    *)
(***************************************************************************)
LEMMA AllowanceGrows ==
  ASSUME IsFiniteSet(Worktrees), TypeOK, born' = born, NEW k \in Keys
  PROVE  /\ Allowed(k) \in Nat
         /\ Settled' = Settled /\ noted'[k] \in Nat
              => Allowed(k)' = Allowed(k) - noted[k] + noted'[k]
         /\ \A w \in Worktrees \ Settled :
              noted' = noted /\ Settled' = Settled \cup {w}
                => Allowed(k)' = Allowed(k) + Freq(born[w], k)
<1> DEFINE b == Born(k)
           c == Freq(born[Canon], k)
           S == Settled
<1>1. \A w \in Worktrees : b[w] = Freq(born[w], k) /\ b[w] \in Nat
  BY FreqIs DEF TypeOK, Paths, Born
<1>2. c \in Nat /\ noted[k] \in Nat
  BY FreqIs DEF TypeOK, Paths
<1>3. S \in SUBSET Worktrees
  BY DEF Settled
<1>4. Allowed(k) = c + noted[k] + Sum(b, S)
  BY DEF Allowed
<1>5. Allowed(k)' = c + noted'[k] + Sum(b, Settled')
  BY DEF Allowed, Born
<1>. HIDE DEF b, c, S
<1>6. \A T \in SUBSET Worktrees :
         Sum(b, T) \in Nat /\ \A w \in T : Sum(b, T) = b[w] + Sum(b, T \ {w})
  BY <1>1, SumIsFinite
<1>7. Allowed(k) \in Nat
  BY <1>2, <1>3, <1>4, <1>6
<1>8. ASSUME Settled' = Settled, NEW n \in Nat, n = noted'[k]
      PROVE  Allowed(k)' = Allowed(k) - noted[k] + n
  <2>1. Allowed(k)' = c + n + Sum(b, S)
    BY <1>5, <1>8 DEF S
  <2>. QED
    BY <1>2, <1>3, <1>4, <1>6, <2>1
<1>9. ASSUME NEW w \in Worktrees \ Settled, noted' = noted, Settled' = Settled \cup {w}
      PROVE  Allowed(k)' = Allowed(k) + Freq(born[w], k)
  <2>1. S \cup {w} \in SUBSET Worktrees /\ (S \cup {w}) \ {w} = S /\ w \in S \cup {w}
    BY <1>3, <1>9 DEF S
  <2>2. Sum(b, S \cup {w}) = b[w] + Sum(b, S) /\ Sum(b, S) \in Nat
    BY <1>3, <1>6, <2>1
  <2>3. Allowed(k)' = c + noted[k] + Sum(b, S \cup {w})
    BY <1>5, <1>9 DEF S
  <2>. QED
    BY <1>1, <1>2, <1>4, <2>2, <2>3
<1>. QED
  BY <1>7, <1>8, <1>9

LEMMA CountedStep ==
  ASSUME "git" \notin Faults, IsFiniteSet(Worktrees),
         SoundInv, RefineInv, OwedInv, [Next]_vars
  PROVE  /\ born' = born
         /\ \/ QuietCount /\ \A k \in Keys : Allowed(k)' = Allowed(k)
            \/ \E p \in Procs, t \in Book, g \in [Keys -> Nat] :
                 /\ Sound(t)
                 /\ WritesCount(p, t, g)
                 /\ \A k \in Keys : Allowed(k)' = Allowed(k) + g[k]
<1>1. /\ born' = born
      /\ \/ QuietCount
         \/ \E p \in Procs, t \in Book, g \in [Keys -> Nat] : Sound(t) /\ WritesCount(p, t, g)
  BY StepsCount
<1>2. TypeOK /\ \A k \in Keys : noted[k] \in Nat
  BY DEF SoundInv, TypeOK
<1>3. ASSUME QuietCount, NEW k \in Keys
      PROVE  Allowed(k)' = Allowed(k)
  <2>1. noted'[k] = noted[k] /\ Settled' = Settled
    BY <1>3 DEF QuietCount
  <2>2. Allowed(k)' = Allowed(k) - noted[k] + noted'[k] /\ Allowed(k) \in Nat
    BY <1>1, <1>2, <2>1, AllowanceGrows
  <2>. QED
    BY <1>2, <2>1, <2>2
<1>4. ASSUME NEW p \in Procs, NEW t \in Book, NEW g \in [Keys -> Nat], WritesCount(p, t, g),
             NEW k \in Keys
      PROVE  Allowed(k)' = Allowed(k) + g[k]
  <2>1. CASE noted' = [j \in Keys |-> noted[j] + g[j]] /\ Settled' = Settled
    <3>1. noted'[k] = noted[k] + g[k] /\ g[k] \in Nat
      BY <2>1
    <3>2. Allowed(k)' = Allowed(k) - noted[k] + noted'[k] /\ Allowed(k) \in Nat
      BY <1>1, <1>2, <2>1, <3>1, AllowanceGrows
    <3>. QED
      BY <1>2, <3>1, <3>2
  <2>2. CASE /\ noted' = noted /\ Home[p] \notin Settled /\ Settled' = Settled \cup {Home[p]}
             /\ \A j \in Keys : g[j] = Freq(born[Home[p]], j)
    <3>1. Home[p] \in Worktrees \ Settled
      BY <2>2, WorldAssumption
    <3>2. Allowed(k)' = Allowed(k) + Freq(born[Home[p]], k)
      BY <1>1, <1>2, <2>2, <3>1, AllowanceGrows
    <3>. QED
      BY <2>2, <3>2
  <2>. QED
    BY <1>4, <2>1, <2>2 DEF WritesCount
<1>. QED
  BY <1>1, <1>3, <1>4

(***************************************************************************)
(* No more than that is ever in the canonical ledger, or in the memory of  *)
(* a process that is about to write it -- which need not be what the       *)
(* ledger says now: a stale writer overwrites, it does not add twice.      *)
(***************************************************************************)
CountInv ==
  \A k \in Keys :
    /\ Freq(file[Canon], k) <= Allowed(k)
    /\ \A p \in Procs : pc[p] \in HasSnap => Freq(snap[p], k) <= Allowed(k)

LEMMA CountInvInit ==
  ASSUME IsFiniteSet(Worktrees)
  PROVE  Init /\ TypeOK => CountInv
<1>. SUFFICES ASSUME Init, TypeOK, NEW k \in Keys
              PROVE  /\ Freq(file[Canon], k) <= Allowed(k)
                     /\ \A p \in Procs : pc[p] \in HasSnap => Freq(snap[p], k) <= Allowed(k)
  BY DEF CountInv
<1>1. \A w \in Worktrees : Born(k)[w] \in Nat
  BY FreqIs DEF TypeOK, Paths, Born
<1>2. Settled \in SUBSET Worktrees
  BY DEF Settled
<1>3. Sum(Born(k), Settled) \in Nat
  BY <1>1, <1>2, SumIsFinite
<1>4. Freq(file[Canon], k) \in Nat /\ born[Canon] = file[Canon] /\ noted[k] = 0
  BY FreqIs DEF Init, TypeOK, Paths
<1>5. \A p \in Procs : pc[p] \notin HasSnap
  BY DEF Init, HasSnap
<1>. QED
  BY <1>3, <1>4, <1>5 DEF Allowed

LEMMA CountInvNext ==
  ASSUME "git" \notin Faults, IsFiniteSet(Worktrees)
  PROVE  SoundInv /\ SoundInv' /\ RefineInv /\ OwedInv /\ CountInv /\ [Next]_vars => CountInv'
<1>. SUFFICES ASSUME SoundInv, SoundInv', RefineInv, OwedInv, CountInv, [Next]_vars,
                     NEW k \in Keys
              PROVE  /\ Freq(file'[Canon], k) <= Allowed(k)'
                     /\ \A p \in Procs : pc'[p] \in HasSnap => Freq(snap'[p], k) <= Allowed(k)'
  BY DEF CountInv
<1>1. /\ Allowed(k) \in Nat /\ Freq(file[Canon], k) \in Nat /\ Freq(file'[Canon], k) \in Nat
      /\ \A p \in Procs : /\ snap[p] \in Book /\ Sound(snap[p]) /\ Freq(snap[p], k) \in Nat
                          /\ Freq(snap'[p], k) \in Nat
  <2>1. TypeOK /\ TypeOK' /\ MemorySound
    BY DEF SoundInv
  <2>2. /\ file[Canon] \in Book /\ file'[Canon] \in Book
        /\ \A p \in Procs : snap[p] \in Book /\ snap'[p] \in Book /\ Sound(snap[p])
    BY <2>1 DEF TypeOK, Paths, MemorySound
  <2>3. born' = born
    BY CountedStep
  <2>4. Allowed(k) \in Nat
    BY <2>1, <2>3, AllowanceGrows
  <2>. QED
    BY <2>2, <2>4, FreqIs
<1>2. /\ Freq(file[Canon], k) <= Allowed(k)
      /\ \A p \in Procs : pc[p] \in HasSnap => Freq(snap[p], k) <= Allowed(k)
  BY DEF CountInv
<1>3. ASSUME NEW but, MemoryKept(but), Allowed(k) <= Allowed(k)', Allowed(k)' \in Nat,
             NEW p \in Procs, pc'[p] \in HasSnap
      PROVE  Freq(snap'[p], k) <= Allowed(k)'
  <2>1. \/ pc[p] \in HasSnap /\ snap'[p] = snap[p]
        \/ snap'[p] = file[Canon]
    BY <1>3 DEF MemoryKept
  <2>2. Freq(snap'[p], k) <= Allowed(k)
    BY <1>2, <2>1
  <2>. QED
    BY <1>1, <1>3, <2>2
<1>4. CASE QuietCount /\ Allowed(k)' = Allowed(k)
  <2>1. file'[Canon] = file[Canon] /\ MemoryKept({})
    BY <1>4 DEF QuietCount
  <2>2. Allowed(k) <= Allowed(k)' /\ Allowed(k)' \in Nat
    BY <1>1, <1>4
  <2>. QED
    BY <1>2, <1>3, <1>4, <2>1, <2>2
<1>5. ASSUME NEW p \in Procs, NEW t \in Book, NEW g \in [Keys -> Nat], Sound(t),
             WritesCount(p, t, g), Allowed(k)' = Allowed(k) + g[k]
      PROVE  /\ Freq(file'[Canon], k) <= Allowed(k)'
             /\ \A q \in Procs : pc'[q] \in HasSnap => Freq(snap'[q], k) <= Allowed(k)'
  <2>1. Allowed(k) <= Allowed(k)' /\ Allowed(k)' \in Nat
    BY <1>1, <1>5
  <2>2. file'[Canon] = Decay(t) /\ Adds(snap[p], t, g) /\ pc[p] \in HasSnap /\ MemoryKept({p})
    BY <1>5 DEF WritesCount
  <2>3. Freq(Decay(t), k) <= Freq(snap[p], k) + g[k]
    BY <1>1, <1>5, <2>2, WriteAddsAtMost DEF Sound
  <2>4. Freq(snap[p], k) <= Allowed(k)
    BY <1>2, <2>2
  <2>5. g[k] \in Nat
    OBVIOUS
  <2>6. Freq(file'[Canon], k) <= Freq(snap[p], k) + g[k]
    BY <2>2, <2>3
  <2>7. Freq(file'[Canon], k) <= Allowed(k)'
    BY <1>1, <1>5, <2>4, <2>5, <2>6
  <2>. QED
    BY <1>3, <2>1, <2>2, <2>7
<1>. QED
  BY <1>4, <1>5, CountedStep

(***************************************************************************)
(* What is observed, path by path: the canonical ledger, and worktrees     *)
(* that still have, are owed, or have settled what they had at the start.  *)
(***************************************************************************)
Legacy == {w \in Worktrees : file[w] # << >>}

OwedTo == {w \in Worktrees : owed[w]}

LEMMA OverPaths ==
  ASSUME IsFiniteSet(Worktrees), NEW k, NEW f, DOMAIN f = Paths,
         \A q \in Paths : Freq(f[q], k) \in Nat,
         NEW h, \A w \in Worktrees : h[w] = Freq(f[w], k)
  PROVE  Observed(f, k) = Freq(f[Canon], k) + Sum(h, Worktrees)
<1> DEFINE g == [q \in Paths |-> Freq(f[q], k)]
<1>1. IsFiniteSet(Paths)
  BY FS_Singleton, FS_Union DEF Paths
<1>2. Observed(f, k) = Sum(g, Paths)
  BY <1>1, ObservedIsSum
<1>3. \A q \in Paths : g[q] = Freq(f[q], k) /\ g[q] \in Nat
  OBVIOUS
<1>. HIDE DEF g
<1>4. Canon \in Paths /\ Paths \ {Canon} = Worktrees
  BY WorldAssumption DEF Paths
<1>5. Sum(g, Paths) = g[Canon] + Sum(g, Paths \ {Canon})
  BY <1>1, <1>3, <1>4, SumIsFinite
<1>6. \A w \in Worktrees : g[w] = IF w \in Worktrees THEN h[w] ELSE 0
  BY <1>3 DEF Paths
<1>7. Sum(g, Worktrees) = Sum(h, Worktrees)
  BY <1>6, SumAgrees
<1>. QED
  BY <1>2, <1>3, <1>4, <1>5, <1>7

LEMMA ObservedPathByPath ==
  ASSUME IsFiniteSet(Worktrees), TypeOK, RefineInv, OwedInv, NEW k \in Keys
  PROVE  /\ Observed(file, k) = Freq(file[Canon], k) + Sum(Born(k), Legacy)
         /\ Observed([w \in {x \in Worktrees : owed[x]} |-> backup[w]], k) = Sum(Born(k), OwedTo)
         /\ Observed(born, k) = Freq(born[Canon], k) + Sum(Born(k), Worktrees)
         /\ Sum(Born(k), Worktrees)
              = Sum(Born(k), Legacy) + Sum(Born(k), OwedTo) + Sum(Born(k), Settled)
         /\ Sum(Born(k), Legacy) \in Nat /\ Sum(Born(k), OwedTo) \in Nat
         /\ Sum(Born(k), Settled) \in Nat
<1> DEFINE b == Born(k)
<1>1. /\ file \in [Paths -> Book] /\ born \in [Paths -> Book] /\ backup \in [Worktrees -> Book]
      /\ \A w \in Worktrees : w \in Paths
  BY DEF TypeOK, Paths
<1>2. \A w \in Worktrees : b[w] = Freq(born[w], k) /\ b[w] \in Nat
  BY <1>1, FreqIs DEF Born
<1>3. /\ DOMAIN file = Paths /\ DOMAIN born = Paths
      /\ \A q \in Paths : Freq(file[q], k) \in Nat /\ Freq(born[q], k) \in Nat
  BY <1>1, FreqIs
<1>. HIDE DEF b
<1>4. Observed(born, k) = Freq(born[Canon], k) + Sum(b, Worktrees)
  BY <1>2, <1>3, OverPaths
<1>5. Observed(file, k) = Freq(file[Canon], k) + Sum(b, Legacy)
  <2> DEFINE h == [w \in Worktrees |-> Freq(file[w], k)]
  <2>1. \A w \in Worktrees : h[w] = Freq(file[w], k)
    OBVIOUS
  <2>. HIDE DEF h
  <2>2. Observed(file, k) = Freq(file[Canon], k) + Sum(h, Worktrees)
    BY <1>3, <2>1, OverPaths
  <2>3. Freq(<< >>, k) = 0
    BY DEF Freq, KeysOf
  <2>4. \A w \in Worktrees : h[w] = IF w \in Legacy THEN b[w] ELSE 0
    <3>1. \A w \in Legacy : file[w] = born[w]
      BY DEF Legacy, RefineInv, LegacyIntact
    <3>2. \A w \in Worktrees : w \notin Legacy => file[w] = << >>
      BY DEF Legacy
    <3>. QED
      BY <1>2, <2>1, <2>3, <3>1, <3>2
  <2>5. Legacy \subseteq Worktrees
    BY DEF Legacy
  <2>6. Sum(h, Worktrees) = Sum(b, Legacy)
    BY <2>4, <2>5, SumAgrees
  <2>. QED
    BY <2>2, <2>6
<1>6. Observed([w \in {x \in Worktrees : owed[x]} |-> backup[w]], k) = Sum(b, OwedTo)
  <2> DEFINE f == [w \in OwedTo |-> backup[w]]
             g == [w \in OwedTo |-> Freq(f[w], k)]
  <2>1. OwedTo \subseteq Worktrees /\ IsFiniteSet(OwedTo)
    BY FS_Subset DEF OwedTo
  <2>2. \A w \in OwedTo : f[w] = born[w]
    BY DEF OwedTo, OwedInv
  <2>3. DOMAIN f = OwedTo /\ \A w \in OwedTo : Freq(f[w], k) = b[w] /\ b[w] \in Nat
    BY <1>2, <2>1, <2>2
  <2>4. f = [w \in {x \in Worktrees : owed[x]} |-> backup[w]]
    BY DEF OwedTo
  <2>. HIDE DEF f
  <2>5. Observed(f, k) = Sum(g, OwedTo)
    BY <2>1, <2>3, ObservedIsSum
  <2>6. \A w \in OwedTo : g[w] = IF w \in OwedTo THEN b[w] ELSE 0
    BY <2>3
  <2>. HIDE DEF g
  <2>7. Sum(g, OwedTo) = Sum(b, OwedTo)
    BY <2>6, SumAgrees
  <2>. QED
    BY <2>4, <2>5, <2>7
<1>7. /\ Legacy \in SUBSET Worktrees /\ OwedTo \in SUBSET Worktrees /\ Settled \in SUBSET Worktrees
      /\ Legacy \cap OwedTo = {} /\ (Legacy \cup OwedTo) \cap Settled = {}
      /\ (Legacy \cup OwedTo) \cup Settled = Worktrees
  BY DEF Legacy, OwedTo, Settled, OwedInv
<1>8. /\ Sum(b, Legacy) \in Nat /\ Sum(b, OwedTo) \in Nat /\ Sum(b, Settled) \in Nat
  BY <1>2, <1>7, SumIsFinite
<1>9. Sum(b, Legacy \cup OwedTo) = Sum(b, Legacy) + Sum(b, OwedTo)
  BY <1>2, <1>7, SumOfParts
<1>10. Sum(b, (Legacy \cup OwedTo) \cup Settled) = Sum(b, Legacy \cup OwedTo) + Sum(b, Settled)
  <2>1. Legacy \cup OwedTo \in SUBSET Worktrees
    BY <1>7
  <2>. QED
    BY <1>2, <1>7, <2>1, SumOfParts
<1>11. Sum(b, Worktrees) = Sum(b, Legacy) + Sum(b, OwedTo) + Sum(b, Settled)
  BY <1>7, <1>9, <1>10
<1>. QED
  BY <1>4, <1>5, <1>6, <1>8, <1>11 DEF b

LEMMA CountsHold ==
  ASSUME "git" \notin Faults, IsFiniteSet(Worktrees)
  PROVE  Spec => [](SoundInv /\ RefineInv /\ OwedInv /\ CountInv)
<1>1. SoundInv => TypeOK
  BY DEF SoundInv
<1>. QED
  BY <1>1, SoundInvHolds, RefineInvInit, RefineInvNext, OwedInvInit, OwedInvNext,
     CountInvInit, CountInvNext, PTL DEF Spec

(***************************************************************************)
(* Migration is idempotent: however many commands migrate the same         *)
(* worktree, race for it, die in the middle or go on without the lock, no  *)
(* observation of a pattern is ever counted twice.                         *)
(***************************************************************************)
THEOREM CountedOnce ==
  ASSUME "git" \notin Faults, IsFiniteSet(Worktrees)
  PROVE  Spec => []NoDoubleCount
<1>1. SoundInv /\ RefineInv /\ OwedInv /\ CountInv => NoDoubleCount
  <2>. SUFFICES ASSUME SoundInv, RefineInv, OwedInv, CountInv, NEW k \in Keys
                PROVE  Observed(file, k) <= Observed(born, k) + noted[k]
    BY DEF NoDoubleCount
  <2>1. TypeOK
    BY DEF SoundInv
  <2>2. /\ Freq(file[Canon], k) \in Nat /\ Freq(born[Canon], k) \in Nat /\ noted[k] \in Nat
        /\ Freq(file[Canon], k) <= Freq(born[Canon], k) + noted[k] + Sum(Born(k), Settled)
    BY <2>1, FreqIs DEF TypeOK, Paths, CountInv, Allowed
  <2> DEFINE s == Sum(Born(k), Settled)
             l == Sum(Born(k), Legacy)
             o == Sum(Born(k), OwedTo)
             a == Sum(Born(k), Worktrees)
  <2>3. /\ s \in Nat /\ l \in Nat /\ o \in Nat /\ a = l + o + s
        /\ Observed(file, k) = Freq(file[Canon], k) + l
        /\ Observed(born, k) = Freq(born[Canon], k) + a
    BY <2>1, ObservedPathByPath
  <2>4. Freq(file[Canon], k) <= Freq(born[Canon], k) + noted[k] + s
    BY <2>2
  <2>. HIDE DEF s, l, o, a
  <2>. QED
    BY <2>2, <2>3, <2>4
<1>. QED
  BY <1>1, CountsHold, PTL

-----------------------------------------------------------------------------
(***************************************************************************)
(* Exactness.  While the patterns ever seen fit into the ledger, nothing   *)
(* decays, and with fresh snapshots no write is lost: the canonical ledger *)
(* has all it may have.                                                    *)
(***************************************************************************)
LEMMA KeysAreFew ==
  ASSUME NEW s \in Book
  PROVE  /\ IsFiniteSet(KeysOf(s))
         /\ UniqueKeys(s) => Cardinality(KeysOf(s)) = Len(s)
<1> DEFINE D == 1..Len(s)
           K == KeysOf(s)
           f == [i \in D |-> s[i].key]
<1>1. Len(s) \in Nat /\ DOMAIN s = D
  BY RowsOf
<1>2. IsFiniteSet(D) /\ Cardinality(D) = Len(s)
  BY <1>1, PositionsFinite
<1>3. f \in Surjection(D, K)
  BY <1>1 DEF KeysOf, Surjection
<1>4. UniqueKeys(s) => f \in Injection(D, K)
  BY <1>1, <1>3 DEF UniqueKeys, Injection, Surjection, IsInjective
<1>. HIDE DEF D, K, f
<1>5. IsFiniteSet(K) /\ (Cardinality(K) = Cardinality(D) <=> f \in Injection(D, K))
  BY <1>2, <1>3, FS_Surjection
<1>. QED
  BY <1>2, <1>4, <1>5 DEF K

PatternsOf(b, n) == {k \in Keys : Observed(b, k) + n[k] > 0}

Noted == {k \in Keys : noted[k] > 0}

LEMMA PatternsAreFew ==
  ASSUME IsFiniteSet(Worktrees), NEW b \in [Paths -> Book], NEW n \in [Keys -> Nat],
         IsFiniteSet({k \in Keys : n[k] > 0})
  PROVE  IsFiniteSet(PatternsOf(b, n))
<1> DEFINE N == {k \in Keys : n[k] > 0}
           f == [q \in Paths |-> KeysOf(b[q])]
           B == {KeysOf(b[q]) : q \in Paths}
<1>1. Canon \in Paths /\ \A w \in Worktrees : w \in Paths
  BY DEF Paths
<1>2. IsFiniteSet(Paths)
  BY FS_Singleton, FS_Union DEF Paths
<1>3. f \in Surjection(Paths, B)
  BY DEF Surjection
<1>4. IsFiniteSet(B)
  BY <1>2, <1>3, FS_Surjection
<1>5. IsFiniteSet(UNION B)
  <2>1. \A T \in B : IsFiniteSet(T)
    BY <1>1, KeysAreFew
  <2>. HIDE DEF B
  <2>. QED
    BY <1>4, <2>1, FS_UNION
<1>6. ASSUME NEW k \in PatternsOf(b, n), k \notin N
      PROVE  k \in UNION B
  <2>1. SUFFICES ASSUME k \notin UNION B
                 PROVE  FALSE
    OBVIOUS
  <2>2. k \in Keys /\ Observed(b, k) + n[k] > 0
    BY DEF PatternsOf
  <2>3. n[k] = 0
    BY <1>1, <1>6, <2>2
  <2>4. \A q \in Paths : Freq(b[q], k) = 0
    BY <2>1 DEF Freq
  <2> DEFINE h == [w \in Worktrees |-> 0]
  <2>5. \A w \in Worktrees : h[w] = Freq(b[w], k) /\ h[w] \in Nat
    BY <1>1, <2>4
  <2>6. Observed(b, k) = Freq(b[Canon], k) + Sum(h, Worktrees)
    <3>1. DOMAIN b = Paths /\ \A q \in Paths : Freq(b[q], k) \in Nat
      BY <1>1, <2>4
    <3>. QED
      BY <2>5, <3>1, OverPaths
  <2>7. Sum(h, Worktrees) = Sum(h, {})
    <3>1. {} \subseteq Worktrees /\ \A w \in Worktrees : h[w] = IF w \in {} THEN h[w] ELSE 0
      OBVIOUS
    <3>. HIDE DEF h
    <3>. QED
      BY ONLY <3>1, SumAgrees
  <2>8. Sum(h, {}) = 0
    <3>1. {} \in SUBSET Worktrees
      OBVIOUS
    <3>. HIDE DEF h
    <3>. QED
      BY <2>5, <3>1, SumIsFinite
  <2>. QED
    BY <1>1, <2>2, <2>3, <2>4, <2>6, <2>7, <2>8
<1>7. PatternsOf(b, n) \subseteq N \cup UNION B
  BY <1>6
<1>8. IsFiniteSet(N \cup UNION B)
  BY <1>5, FS_Union
<1>. QED
  BY <1>7, <1>8, FS_Subset

ExactInv ==
  /\ IsFiniteSet(Noted)
  /\ Cardinality(PatternsOf(born, noted)) <= Cap =>
       \A k \in Keys : Freq(file[Canon], k) = Allowed(k)

LEMMA ExactInvInit ==
  ASSUME IsFiniteSet(Worktrees)
  PROVE  Init /\ TypeOK => ExactInv
<1>. SUFFICES ASSUME Init, TypeOK
              PROVE  ExactInv
  OBVIOUS
<1>1. Noted = {}
  BY DEF Init, Noted
<1>2. IsFiniteSet(Noted)
  BY <1>1, FS_EmptySet
<1>3. ASSUME NEW k \in Keys
      PROVE  Freq(file[Canon], k) = Allowed(k)
  <2>1. \A w \in Worktrees : Born(k)[w] = Freq(born[w], k) /\ Born(k)[w] \in Nat
    BY FreqIs DEF TypeOK, Paths, Born
  <2>2. \A w \in Settled : born[w] = << >>
    BY DEF Settled, Init
  <2>3. Freq(<< >>, k) = 0
    BY DEF Freq, KeysOf
  <2>4. \A w \in Settled : Born(k)[w] = IF w \in {} THEN Born(k)[w] ELSE 0
    BY <2>1, <2>2, <2>3 DEF Settled
  <2>5. Sum(Born(k), Settled) = Sum(Born(k), {})
    BY <2>4, SumAgrees
  <2>6. Sum(Born(k), {}) = 0
    BY <2>1, SumIsFinite
  <2>7. Freq(file[Canon], k) \in Nat /\ born[Canon] = file[Canon] /\ noted[k] = 0
    BY FreqIs DEF Init, TypeOK, Paths
  <2>. QED
    BY <2>5, <2>6, <2>7 DEF Allowed
<1>. QED
  BY <1>2, <1>3 DEF ExactInv

LEMMA ExactInvNext ==
  ASSUME "git" \notin Faults, IsFiniteSet(Worktrees)
  PROVE  SoundInv /\ SoundInv' /\ RefineInv /\ OwedInv /\ SnapshotFresh /\ ExactInv /\ [Next]_vars
           => ExactInv'
<1>. SUFFICES ASSUME SoundInv, SoundInv', RefineInv, OwedInv, SnapshotFresh, ExactInv,
                     [Next]_vars
              PROVE  ExactInv'
  OBVIOUS
<1>1. /\ TypeOK /\ TypeOK' /\ MemorySound /\ born' = born
  BY CountedStep DEF SoundInv
<1>2. CASE QuietCount /\ \A k \in Keys : Allowed(k)' = Allowed(k)
  BY <1>1, <1>2 DEF ExactInv, QuietCount, Noted
<1>3. ASSUME NEW p \in Procs, NEW t \in Book, NEW g \in [Keys -> Nat], Sound(t),
             WritesCount(p, t, g), \A k \in Keys : Allowed(k)' = Allowed(k) + g[k]
      PROVE  ExactInv'
  <2>1. /\ pc[p] \in HasSnap /\ Adds(snap[p], t, g) /\ file'[Canon] = Decay(t)
        /\ snap[p] \in Book /\ UniqueKeys(snap[p]) /\ UniqueKeys(t)
    BY <1>1, <1>3 DEF WritesCount, TypeOK, MemorySound, Sound
  <2>2. snap[p] = file[Canon]
    BY <2>1 DEF SnapshotFresh, RefineInv, AllAtCanon, HasSnap
  <2>3. noted \in [Keys -> Nat] /\ noted' \in [Keys -> Nat]
    BY <1>1 DEF TypeOK
  <2>4. \A k \in Keys : noted'[k] = noted[k] \/ noted'[k] = noted[k] + g[k]
    BY <1>3 DEF WritesCount
  <2>5. IsFiniteSet(Noted)'
    <3>1. \A k \in Keys \ KeysOf(t) : g[k] = 0
      BY <2>1 DEF Adds
    <3>2. Noted' \subseteq Noted \cup KeysOf(t)
      <4>1. ASSUME NEW k \in Keys, noted'[k] > 0, k \notin KeysOf(t)
            PROVE  noted[k] > 0
        BY <2>3, <2>4, <3>1, <4>1
      <4>. QED
        BY <4>1 DEF Noted
    <3>3. IsFiniteSet(Noted) /\ IsFiniteSet(KeysOf(t))
      BY KeysAreFew DEF ExactInv
    <3>4. IsFiniteSet(Noted \cup KeysOf(t))
      BY <3>3, FS_Union
    <3>5. IsFiniteSet(Noted')
      BY <3>2, <3>4, FS_Subset
    <3>. QED
      BY <3>5
  <2> DEFINE P == PatternsOf(born, noted)
             Q == PatternsOf(born', noted')
  <2>6. \A k \in Keys : Observed(born, k) \in Nat /\ Allowed(k)' <= Observed(born, k) + noted'[k]
    <3>. SUFFICES ASSUME NEW k \in Keys
                  PROVE  Observed(born, k) \in Nat /\ Allowed(k)' <= Observed(born, k) + noted'[k]
      OBVIOUS
    <3> DEFINE s == Sum(Born(k), Settled')
               a == Sum(Born(k), Worktrees)
               c == Freq(born[Canon], k)
    <3>1. \A w \in Worktrees : Born(k)[w] \in Nat
      BY <1>1, FreqIs DEF TypeOK, Paths, Born
    <3>2. s \in Nat /\ a \in Nat /\ s <= a
      <4>1. Settled' \in SUBSET Worktrees /\ Worktrees \in SUBSET Worktrees
        BY DEF Settled
      <4>2. Sum(Born(k), Settled') <= Sum(Born(k), Worktrees)
        BY <3>1, <4>1, SumGrows
      <4>. QED
        BY <3>1, <4>1, <4>2, SumIsFinite
    <3>3. c \in Nat /\ Observed(born, k) = c + a
      BY <1>1, ObservedPathByPath, FreqIs DEF TypeOK, Paths
    <3>4. Allowed(k)' = c + noted'[k] + s
      BY <1>1 DEF Allowed, Born
    <3>5. noted'[k] \in Nat
      BY <2>3
    <3>. HIDE DEF s, a, c
    <3>. QED
      BY <3>2, <3>3, <3>4, <3>5
  <2>7. IsFiniteSet(Q)
    <3>1. born' \in [Paths -> Book] /\ IsFiniteSet({j \in Keys : noted'[j] > 0})
      BY <1>1, <2>5 DEF TypeOK, Noted
    <3>. QED
      BY <2>3, <3>1, PatternsAreFew
  <2>8. P \subseteq Q
    BY <1>1, <2>3, <2>4, <2>6 DEF PatternsOf
  <2>9. ASSUME Cardinality(Q) <= Cap, NEW k \in Keys
        PROVE  Freq(file'[Canon], k) = Allowed(k)'
    <3>1. Cardinality(P) <= Cap
      <4>1. IsFiniteSet(P) /\ Cardinality(P) <= Cardinality(Q)
        BY <2>7, <2>8, FS_Subset
      <4>2. Cardinality(P) \in Nat /\ Cardinality(Q) \in Nat /\ Cap \in Nat
        BY <2>7, <4>1, FS_CardinalityType, CapAssumption
      <4>. QED
        BY <2>9, <4>1, <4>2
    <3>2. \A j \in Keys : Freq(snap[p], j) = Allowed(j)
      BY <2>2, <3>1 DEF ExactInv
    <3>3. \A j \in Keys : Freq(t, j) = Allowed(j)'
      BY <1>3, <2>1, <3>2, AddsFreq
    <3>4. KeysOf(t) \subseteq Q
      <4>1. ASSUME NEW j \in KeysOf(t)
            PROVE  j \in Q
        <5>1. j \in Keys /\ Freq(t, j) \in Nat \ {0}
          BY RowsOf, FreqIs
        <5>2. Allowed(j)' \in Nat \ {0}
          BY <3>3, <5>1
        <5>3. Allowed(j)' <= Observed(born, j) + noted'[j] /\ Observed(born, j) \in Nat
          BY <2>6, <5>1
        <5>4. Observed(born, j) + noted'[j] > 0
          BY <2>3, <5>1, <5>2, <5>3
        <5>. QED
          BY <1>1, <5>1, <5>4 DEF PatternsOf
      <4>. QED
        BY <4>1
    <3>5. Len(t) <= Cap
      <4>1. Cardinality(KeysOf(t)) = Len(t)
        BY <2>1, KeysAreFew
      <4>2. IsFiniteSet(KeysOf(t)) /\ Cardinality(KeysOf(t)) <= Cardinality(Q)
        BY <2>7, <3>4, FS_Subset
      <4>3. Cardinality(Q) \in Nat /\ Len(t) \in Nat /\ Cap \in Nat
        BY <2>7, FS_CardinalityType, CapAssumption, RowsOf
      <4>. QED
        BY <2>9, <4>1, <4>2, <4>3
    <3>6. Freq(Decay(t), k) = Freq(snap[p], k) + g[k]
      BY <2>1, <3>5, WriteAddsAtMost
    <3>. QED
      BY <1>3, <2>1, <3>2, <3>6
  <2>. QED
    BY <2>5, <2>9 DEF ExactInv
<1>. QED
  BY <1>2, <1>3, CountedStep

(***************************************************************************)
(* Nothing learned is lost: as long as the patterns fit into the ledger,   *)
(* each observation is in a ledger, or in a backup that the canonical      *)
(* ledger has still to absorb -- also after failing reads, renames and     *)
(* writes, and after the death of a migration at any point.                *)
(***************************************************************************)
THEOREM NothingIsLost ==
  ASSUME "lock" \notin Faults, "git" \notin Faults, IsFiniteSet(Worktrees)
  PROVE  Spec => []NothingLost
<1>1. SoundInv /\ RefineInv /\ OwedInv /\ ExactInv => NothingLost
  <2>. SUFFICES ASSUME SoundInv, RefineInv, OwedInv, ExactInv,
                       Cardinality({k \in Keys : Observed(born, k) + noted[k] > 0}) <= Cap,
                       NEW k \in Keys
                PROVE  Observed(file, k)
                         + Observed([w \in {x \in Worktrees : owed[x]} |-> backup[w]], k)
                         = Observed(born, k) + noted[k]
    BY DEF NothingLost
  <2>1. TypeOK
    BY DEF SoundInv
  <2>2. /\ Freq(born[Canon], k) \in Nat /\ noted[k] \in Nat
        /\ Freq(file[Canon], k) = Freq(born[Canon], k) + noted[k] + Sum(Born(k), Settled)
    BY <2>1, FreqIs DEF TypeOK, Paths, ExactInv, PatternsOf, Allowed
  <2> DEFINE s == Sum(Born(k), Settled)
             l == Sum(Born(k), Legacy)
             o == Sum(Born(k), OwedTo)
             a == Sum(Born(k), Worktrees)
             f == Observed([w \in {x \in Worktrees : owed[x]} |-> backup[w]], k)
  <2>3. /\ s \in Nat /\ l \in Nat /\ o \in Nat /\ a = l + o + s /\ f = o
        /\ Observed(file, k) = Freq(file[Canon], k) + l
        /\ Observed(born, k) = Freq(born[Canon], k) + a
    BY <2>1, ObservedPathByPath
  <2>4. Freq(file[Canon], k) = Freq(born[Canon], k) + noted[k] + s
    BY <2>2
  <2>. HIDE DEF s, l, o, a, f
  <2>5. Observed(file, k) + f = Observed(born, k) + noted[k]
    BY <2>2, <2>3, <2>4
  <2>. QED
    BY <2>5 DEF f
<1>2. SoundInv => TypeOK
  BY DEF SoundInv
<1>3. Spec => []SnapshotFresh
  BY SnapshotsAreFresh
<1>. QED
  BY <1>1, <1>2, <1>3, SoundInvHolds, RefineInvInit, RefineInvNext, OwedInvInit, OwedInvNext,
     ExactInvInit, ExactInvNext, PTL DEF Spec

=============================================================================
