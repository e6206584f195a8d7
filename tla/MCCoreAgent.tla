---------------------------- MODULE MCCoreAgent ----------------------------
(***************************************************************************)
(* CoreAgent for TLC.  No action reads or writes two cores, so one core    *)
(* shows every behaviour of the module.                                    *)
(***************************************************************************)
EXTENDS CoreAgent

MCInsns == {"plain", "trap"}
MCRegs  == {"DABR", "IABR"}

=============================================================================
