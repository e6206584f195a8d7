--------------------------- MODULE MCMasterAccess ---------------------------
(***************************************************************************)
(* MasterAccess for TLC.  One address has code, one has no translation;    *)
(* data is watched at an address that needs its low bits masked, and used  *)
(* in the same block, before and behind it.                                *)
(***************************************************************************)
EXTENDS MasterAccess

MCCallAddrs == {12}
MCProbes    == {4, 8, 12, 15, 16}
MCAccesses  == {{"read"}, {"read", "write"}}

=============================================================================
