-------------------------- MODULE MCExportHarness ---------------------------
(***************************************************************************)
(* Instances of ExportHarness for TLC.                                     *)
(***************************************************************************)
EXTENDS ExportHarness, TLC

CONSTANTS u, w, p1

(***************************************************************************)
(* The user writes a line, or writes, copies or spoils a marker.           *)
(***************************************************************************)
ByHand == {OwnLine(w), Begin("rules", 1), End("conv"), Bad("conv")}

(***************************************************************************)
(* A file of the user alone, one with a block for each source, and one     *)
(* whose user has moved the block of the rules into the other.             *)
(***************************************************************************)
Mine == << OwnLine(u) >>
Full == << OwnLine(u) >> \o Block("rules", 1) \o << OwnLine(w) >> \o Block("conv", 1)
Nested == << Begin("conv", 1) >> \o Block("rules", 1) \o << Body("conv", 1), End("conv") >>

SomeTexts == {<< Full, Mine >>, << Nested, Full >>}

=============================================================================
