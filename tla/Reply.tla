------------------------------- MODULE Reply -------------------------------
(***************************************************************************)
(* A reply from its fields to the wire: OutBuffer collects the fields,     *)
(* IOSendEx hands the string to PutPacket, which frames it.                *)
(***************************************************************************)
EXTENDS OutBuffer, Framing

\* Whatever fields a reply was built of, gdb finds its frame well formed and
\* reads exactly the fields that had room out of it: the fill, the escapes and
\* the checksum of PutPacket take nothing away and add nothing.  The frame and its
\* final 0 fit sWritePacketBuffer, "doubled capacity to be able to escape every
\* single char" and 4 more.
FrameCarriesReply ==
    /\ sends = "sent" /\ ~open => /\ WellFormed(Frame(packet))
                                 /\ Unescape(Body(Frame(packet))) = text
    /\ Len(Frame(packet)) + 1 <= 2 * Cap + 4

=============================================================================
