------------------------------ MODULE MCReply ------------------------------
(***************************************************************************)
(* Reply for TLC: one ordinary digit, not the 'f' of the fill, so that a   *)
(* fill that shows up is told from a field, and two special characters,    *)
(* the one that would end a frame and the one that starts an escape.       *)
(***************************************************************************)
EXTENDS Reply

MCSymbols == {Hash, Brace}
MCDigits  == {48}

=============================================================================
