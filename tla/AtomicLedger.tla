---------------------------- MODULE AtomicLedger ----------------------------
(***************************************************************************)
(* What the shared ledger promises its clients, with no files, locks or    *)
(* snapshots: an upsert is one indivisible change of the book, answered    *)
(* once with "added" or "incremented", and a migration absorbs one whole   *)
(* legacy book in one indivisible change.  FeedbackLedger is shown to      *)
(* implement this module as long as no lock wait gives up.                 *)
(***************************************************************************)
EXTENDS LedgerBook

CONSTANTS
  Clients,   \* the commands that talk to the ledger
  Days,      \* the dates a row may carry
  Legacies   \* the books a migration may bring in

VARIABLES
  book,      \* the rows of the ledger
  answer     \* what each client has been told

vars == << book, answer >>

Init ==
  /\ book \in Book
  /\ answer = [c \in Clients |-> "none"]

(***************************************************************************)
(* Client c observes pattern k on day d.                                   *)
(***************************************************************************)
Record(c, k, d) ==
  /\ answer[c] = "none"
  /\ book' = Decay(Upserted(book, k, d))
  /\ answer' = [answer EXCEPT ![c] =
                  IF k \in KeysOf(book) THEN "incremented" ELSE "added"]

Absorb(incoming) ==
  /\ book' = Decay(Merged(book, incoming))
  /\ UNCHANGED answer

Next ==
  \/ \E c \in Clients, k \in Keys, d \in Days : Record(c, k, d)
  \/ \E incoming \in Legacies : Absorb(incoming)

Spec == Init /\ [][Next]_vars

=============================================================================
