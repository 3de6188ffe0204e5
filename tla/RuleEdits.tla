----------------------------- MODULE RuleEdits ------------------------------
(***************************************************************************)
(* What code_intel_rules.py computes from the rows of one scan: which rows *)
(* are sound, which of the edits they ask for are made, and the text that  *)
(* results.  Texts are sequences of tokens and offsets count from zero, so *)
(* that t[low:high] is SubSeq(t, low + 1, high).                           *)
(***************************************************************************)
EXTENDS Integers, Sequences, FiniteSets, SequencesExt

CONSTANT NoFix   \* the rule, or the row, has no replacement

Slice(t, low, high) == SubSeq(t, low + 1, high)

(***************************************************************************)
(* A rule is a pattern and what replaces it; the scan reports every        *)
(* occurrence, and asks to replace all of it.                              *)
(***************************************************************************)
Rule(pattern, fix) == [pattern |-> pattern, fix |-> fix]

Row(f, low, high, text, id, fix) ==
  [file |-> f, low |-> low, high |-> high, text |-> text, id |-> id, fix |-> fix]

Occurrences(t, pattern) ==
  {low \in 0..Len(t) : low + Len(pattern) <= Len(t) /\ Slice(t, low, low + Len(pattern)) = pattern}

RowsOf(rules, f, t) ==
  UNION {{Row(f, low, low + Len(rules[id].pattern), rules[id].pattern, id, rules[id].fix) :
            low \in Occurrences(t, rules[id].pattern)} : id \in DOMAIN rules}

(***************************************************************************)
(* Every row is checked against the bytes that were scanned.               *)
(***************************************************************************)
Sound(row, texts, rules) ==
  /\ row.file \in DOMAIN texts
  /\ row.id \in DOMAIN rules
  /\ 0 <= row.low /\ row.low <= row.high /\ row.high <= Len(texts[row.file])
  /\ row.text = Slice(texts[row.file], row.low, row.high)
  /\ (row.fix = NoFix) <=> (rules[row.id].fix = NoFix)

EditsFor(rows, f) ==
  {[first |-> r.low, last |-> r.high, id |-> r.id, by |-> r.fix] :
     r \in {x \in rows : x.file = f /\ x.fix # NoFix}}

Earlier(d, e) == d.first < e.first \/ (d.first = e.first /\ d.last > e.last)

SameRange(d, e) == d.first = e.first /\ d.last = e.last

(***************************************************************************)
(* Two replacements for one range, and ranges of which neither contains    *)
(* the other: the tool does not guess.                                     *)
(***************************************************************************)
Ambiguous(edits) ==
  \E d, e \in edits :
     \/ d # e /\ SameRange(d, e)
     \/ Earlier(d, e) /\ e.first < d.last /\ d.last < e.last

AnyEdit(edits) == edits  \* variant: nested edits do not wait

(***************************************************************************)
(* The outermost edits are made; those inside them wait for the next scan. *)
(***************************************************************************)
Outermost(edits) ==
  {e \in edits : \A d \in edits : Earlier(d, e) => d.last <= e.first}

Replace(t, e) == Slice(t, 0, e.first) \o e.by \o Slice(t, e.last, Len(t))

(***************************************************************************)
(* From the last edit to the first, so that the offsets stay right: when   *)
(* the first one is made, all others have been.                            *)
(***************************************************************************)
FirstOf(edits) == CHOOSE e \in edits : \A d \in edits \ {e} : Earlier(e, d)

ApplyEdits(t, selected) ==
  MapThenFoldSet(LAMBDA e, made : Replace(made, e), t, LAMBDA e : e, FirstOf, selected)

=============================================================================
