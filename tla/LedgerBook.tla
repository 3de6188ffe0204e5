----------------------------- MODULE LedgerBook -----------------------------
(***************************************************************************)
(* The feedback ledger as data: one markdown table, read and written       *)
(* whole.  A book is the sequence of its rows, in file order.  What        *)
(* feedback_ledger.py computes on a parsed book is here as operators; how  *)
(* concurrent commands read and replace the files is in FeedbackLedger.    *)
(*                                                                         *)
(* A key stands for the dedupe key _normalize(category, pattern); `seen`   *)
(* for the ISO date in last_seen, whose string order is the day order; id  *)
(* n for the cell "F-n".  The severity cell takes part in no decision and  *)
(* is left out.  An absent file and a table without rows parse alike and   *)
(* both are << >>.                                                         *)
(***************************************************************************)
EXTENDS Integers, Sequences, FiniteSets, FiniteSetsExt

CONSTANTS
  Keys,   \* dedupe keys: defect patterns that reviews report
  Cap     \* CAP, the number of rows a ledger keeps

ASSUME CapAssumption == Cap \in Nat \ {0}

Entry == [id : Nat \ {0}, key : Keys, freq : Nat \ {0}, seen : Nat]

Row(n, k, f, d) == [id |-> n, key |-> k, freq |-> f, seen |-> d]

Book == Seq(Entry)

KeysOf(s) == {s[i].key : i \in DOMAIN s}

IdsOf(s) == {s[i].id : i \in DOMAIN s}

(***************************************************************************)
(* The two promises a book keeps between writes: a pattern has one row,    *)
(* and an F-id names one row.                                              *)
(***************************************************************************)
UniqueKeys(s) == \A i, j \in DOMAIN s : s[i].key = s[j].key => i = j

UniqueIds(s) == \A i, j \in DOMAIN s : s[i].id = s[j].id => i = j

(***************************************************************************)
(* How often key k has been observed according to book s.                  *)
(***************************************************************************)
Freq(s, k) ==
  IF k \in KeysOf(s)
  THEN s[CHOOSE i \in DOMAIN s : s[i].key = k].freq
  ELSE 0

-----------------------------------------------------------------------------
(***************************************************************************)
(* _decay sorts by (frequency, last_seen), highest first, and keeps the    *)
(* first CAP rows.  Python's sort is stable also with reverse=True: rows   *)
(* of equal rank stay in file order, so the row appended last loses a tie. *)
(***************************************************************************)
Better(e, f) == e.freq > f.freq \/ (e.freq = f.freq /\ e.seen > f.seen)

Before(s, i, j) == Better(s[i], s[j]) \/ (~Better(s[j], s[i]) /\ i < j)

Place(s, i) == Cardinality({j \in DOMAIN s : Before(s, j, i)}) + 1

Sorted(s) == [n \in 1..Len(s) |-> s[CHOOSE i \in 1..Len(s) : Place(s, i) = n]]

\* variant of _decay: sorted lowest first
DecayAscending(s) ==
  LET t == Sorted(s)
  IN  SubSeq([n \in 1..Len(s) |-> t[Len(s) + 1 - n]], 1,
             IF Len(s) < Cap THEN Len(s) ELSE Cap)

Decay(s) == SubSeq(Sorted(s), 1, IF Len(s) < Cap THEN Len(s) ELSE Cap)

-----------------------------------------------------------------------------
(***************************************************************************)
(* upsert on a parsed book: the first row with the key is incremented and  *)
(* dated d, or a row is appended under the highest F-id plus one.          *)
(***************************************************************************)
PositionOf(s, k) ==
  CHOOSE i \in DOMAIN s : s[i].key = k /\ \A j \in 1..(i-1) : s[j].key # k

Incremented(s, k, d) ==
  [s EXCEPT ![PositionOf(s, k)] = Row(@.id, @.key, @.freq + 1, d)]

\* variants of the numbering: by length; from zero
NextIdFromZero(s) == IF s = << >> THEN 0 ELSE Max(IdsOf(s)) + 1

NextId(s) == IF s = << >> THEN 1 ELSE Max(IdsOf(s)) + 1

Added(s, k, d) == Append(s, Row(NextId(s), k, 1, d))

Upserted(s, k, d) ==
  IF k \in KeysOf(s) THEN Incremented(s, k, d) ELSE Added(s, k, d)

-----------------------------------------------------------------------------
(***************************************************************************)
(* _merge_entries: rows of `base` absorb the rows of `incoming` with their *)
(* key (frequencies add up, the later date wins), the other rows follow,   *)
(* and the F-ids are dealt anew in the order of the old ones.              *)
(***************************************************************************)
Absorbed(e, incoming) ==
  IF e.key \notin KeysOf(incoming) THEN e
  ELSE LET f == incoming[PositionOf(incoming, e.key)]
       IN  Row(e.id, e.key, e.freq + f.freq, IF f.seen > e.seen THEN f.seen ELSE e.seen)

NewPositions(base, incoming) ==
  {i \in DOMAIN incoming : incoming[i].key \notin KeysOf(base)}

Newcomers(base, incoming) ==
  LET F == NewPositions(base, incoming)
  IN  [n \in 1..Cardinality(F) |->
         incoming[CHOOSE i \in F : Cardinality({j \in F : j < i}) + 1 = n]]

Joined(base, incoming) ==
  [i \in 1..Len(base) |-> Absorbed(base[i], incoming)] \o Newcomers(base, incoming)

PlaceById(s, i) ==
  Cardinality({j \in DOMAIN s : s[j].id < s[i].id \/ (s[j].id = s[i].id /\ j < i)}) + 1

Renumbered(s) ==
  [i \in 1..Len(s) |-> Row(PlaceById(s, i), s[i].key, s[i].freq, s[i].seen)]

\* variant of the merge: no dedupe
MergedByAppending(base, incoming) == Renumbered(base \o incoming)

Merged(base, incoming) == Renumbered(Joined(base, incoming))

=============================================================================
