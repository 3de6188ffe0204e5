------------------------------ MODULE WorkTree ------------------------------
(***************************************************************************)
(* The files of a workspace, which its user edits while the code           *)
(* intelligence reads them and the format hook rewrites them.  No lock     *)
(* guards them: what a reader can compare is the identity a file has, its  *)
(* inode, size and time of modification, which is new after every write.   *)
(***************************************************************************)
EXTENDS Integers, Sequences, FiniteSets

CONSTANTS
  Files,     \* the names under the directory that is read, as numbers
  Tokens,    \* what texts are made of
  Gone,      \* there is no such file
  User,      \* who writes a file: the user, or
  Hook,      \* the format hook
  Drafts,    \* the texts that the user writes
  MaxEdits   \* how often the user may write

ASSUME TreeAssumption ==
  /\ Files \subseteq Nat /\ IsFiniteSet(Files)
  /\ Drafts \subseteq Seq(Tokens)
  /\ User # Hook
  /\ MaxEdits \in Nat

File(text, stamp, by) == [text |-> text, stamp |-> stamp, by |-> by]

Kept == [text : Seq(Tokens), stamp : Nat, by : {User, Hook}]

ASSUME GoneAssumption == Gone \notin Kept

VARIABLES
  tree,    \* the file that each name has, or Gone
  stamps,  \* the last identity given out
  edits    \* how often the user has written

treeVars == << tree, stamps, edits >>

Write(f, text, by) ==
  /\ tree' = [tree EXCEPT ![f] = File(text, stamps + 1, by)]
  /\ stamps' = stamps + 1

Exists(f) == tree[f] # Gone

(***************************************************************************)
(* The user writes, adds or removes a file.                                *)
(***************************************************************************)
Edit ==
  /\ edits < MaxEdits
  /\ edits' = edits + 1
  /\ \E f \in Files :
       \/ \E text \in Drafts : Write(f, text, User)
       \/ Exists(f) /\ tree' = [tree EXCEPT ![f] = Gone] /\ UNCHANGED stamps

=============================================================================
