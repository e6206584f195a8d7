----------------------------- MODULE MCPacketIO -----------------------------
(* PacketIO for TLC: the master core is core 1, the only one that reads. *)
EXTENDS PacketIO

MCCores  == 0..2
MCChars  == {"+", "-", "$", "^C"}
NeverPoll == {FALSE}

=============================================================================
