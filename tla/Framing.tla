------------------------------ MODULE Framing ------------------------------
(***************************************************************************)
(* The frame MasterAgent_PutPacket builds around a packet: '$', the packet *)
(* with its special characters escaped, '#' and two checksum digits.       *)
(* Characters are their codes, and a packet is a sequence of them without  *)
(* the terminating 0.                                                      *)
(***************************************************************************)
EXTENDS Integers, Sequences, SequencesExt

Hash == 35  Dollar == 36  Star == 42  Brace == 125

\* Mutated form: the character that starts an escape is not escaped itself.
SpecialWithoutBrace == {Hash, Dollar, Star}

Special == {Hash, Dollar, Brace, Star}

\* curChar ^ 0x20
Flip(c) == IF (c \div 32) % 2 = 1 THEN c - 32 ELSE c + 32

Escape(c) == IF c \in Special THEN <<Brace, Flip(c)>> ELSE <<c>>

\* What the loop over the packet has written for its first i characters.
Written(packet) ==
    LET written[i \in 0..Len(packet)] ==
            IF i = 0 THEN << >> ELSE written[i - 1] \o Escape(packet[i])
    IN  written

Payload(packet) == Written(packet)[Len(packet)]

ByteSum(s) == FoldLeft(+, 0, s) % 256

Checksum(packet) == ByteSum(Payload(packet))

\* sHexChars[d]
HexChar(d) == IF d < 10 THEN 48 + d ELSE 87 + d

Frame(packet) ==
    LET sum == Checksum(packet)
    IN  <<Dollar>> \o Payload(packet)
            \o <<Hash, HexChar(sum \div 16), HexChar(sum % 16)>>

-----------------------------------------------------------------------------
(* The host's side, after the remote protocol: what a frame says.          *)

\* The characters after '$' up to the first '#'.
Body(frame) == LET end == CHOOSE i \in 1..Len(frame) :
                              frame[i] = Hash /\ \A j \in 1 .. i - 1 : frame[j] # Hash
               IN  SubSeq(frame, 2, end - 1)

\* What was read, and whether a Brace was the last character of it.
Decode(read, c) ==
    IF read.escape THEN [text |-> Append(read.text, Flip(c)), escape |-> FALSE]
    ELSE IF c = Brace THEN [text |-> read.text, escape |-> TRUE]
    ELSE [text |-> Append(read.text, c), escape |-> FALSE]

Decoded(body) ==
    LET read[i \in 0..Len(body)] ==
            IF i = 0 THEN [text |-> << >>, escape |-> FALSE]
                     ELSE Decode(read[i - 1], body[i])
    IN  read

Unescape(body) == Decoded(body)[Len(body)].text

\* Well formed: one '$', no run-length mark, the checksum of the body behind.
WellFormed(frame) ==
    LET body == Body(frame)
        sum  == ByteSum(body)
    IN  /\ Head(frame) = Dollar
        /\ {Dollar, Star} \cap {body[i] : i \in 1..Len(body)} = {}
        /\ SubSeq(frame, Len(body) + 3, Len(frame))
               = <<HexChar(sum \div 16), HexChar(sum % 16)>>

=============================================================================
