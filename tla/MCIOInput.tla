------------------------------ MODULE MCIOInput ------------------------------
(***************************************************************************)
(* IOInput for TLC.  No definition tells the characters apart, and the     *)
(* properties are invariants and an action property, so the characters are *)
(* a symmetry set.                                                         *)
(***************************************************************************)
EXTENDS IOInput, TLC

CharSymmetry == Permutations(Chars)

=============================================================================
