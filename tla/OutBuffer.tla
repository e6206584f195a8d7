----------------------------- MODULE OutBuffer -----------------------------
(***************************************************************************)
(* The output buffer of GDB_IO.cpp.  A reply is built by IOInit, a series  *)
(* of puts and IOSendEx.  A put that does not fit is dropped as a whole;   *)
(* the hexadecimal ones then fill the rest of the buffer with 'f' without  *)
(* advancing the offset.  What is in the buffer behind the offset, from    *)
(* those fills and from earlier replies, stays there.                      *)
(***************************************************************************)
EXTENDS Integers, Sequences

CONSTANTS Cap,     \* IO_BUFFER_CAPACITY
          Symbols, \* the characters of strings (none is 0)
          Digits   \* the hexadecimal digits

ASSUME CapAssumption    == Cap \in Nat /\ Cap >= 5
ASSUME SymbolAssumption == Symbols \subseteq 1..127 /\ Digits \subseteq 1..127

VARIABLES
    offset, \* gIOOutputOffset
    out,    \* gIOOutBuffer
    open,   \* history: between IOInit and IOSendEx
    text,   \* history: the fields put since IOInit that had room
    saved,  \* an index taken by IOCurrentIndex, with `text` at that time
    packet, \* the string the last IOSendEx gave to PutPacket
    sends   \* history: "none", "sent" or "dropped", the last IOSendEx

vars == <<offset, out, open, text, saved, packet, sends>>

Room == Cap - 4

TypeOK ==
    /\ offset \in 0 .. Cap - 3
    /\ out \in [0 .. Cap - 1 -> 0..127]
    /\ open \in BOOLEAN
    /\ text \in Seq(1..127)
    /\ saved \in [index : 0..Room, text : Seq(1..127)]
    /\ packet \in Seq(1..127)
    /\ sends \in {"none", "sent", "dropped"}

Init == /\ offset = 0 /\ out = [i \in 0 .. Cap - 1 |-> 0]
        /\ open = FALSE /\ text = << >>
        /\ saved = [index |-> 0, text |-> << >>]
        /\ packet = << >> /\ sends = "none"

\* ResetIOOffsets, when another application starts.
ResetIOOffsets == /\ offset' = 0 /\ out' = [i \in 0 .. Cap - 1 |-> 0]
                  /\ open' = FALSE /\ text' = << >>
                  /\ saved' = [index |-> 0, text |-> << >>]
                  /\ packet' = << >> /\ sends' = "none"

\* MasterAgent_IOInit
IOInit == /\ offset' = 0 /\ open' = TRUE /\ text' = << >>
          /\ saved' = [index |-> 0, text |-> << >>]
          /\ UNCHANGED <<out, packet, sends>>

\* MasterAgent_IOCurrentIndex, by a caller that may have to take back what it
\* puts next.
IOCurrentIndex == /\ open
                  /\ saved' = [index |-> offset, text |-> text]
                  /\ UNCHANGED <<offset, out, open, text, packet, sends>>

\* MasterAgent_IORestoreIndex
IORestoreIndex == /\ open
                  /\ offset' = saved.index /\ text' = saved.text
                  /\ UNCHANGED <<out, open, saved, packet, sends>>

\* Mutated form: the terminating 0 and the margin are not kept free.
FitsTight(n) == offset + n <= Room + 2

Fits(n) == offset + n <= Room

\* A field of one or more characters, whole or not at all.
Store(field) ==
    /\ offset' = offset + Len(field)
    /\ out' = [i \in 0 .. Cap - 1 |->
                 IF i \in offset .. offset + Len(field) - 1
                 THEN field[i - offset + 1] ELSE out[i]]
    /\ text' = text \o field

\* Mutated form: the fill counts as content.
FillAdvances == /\ out' = [i \in 0 .. Cap - 1 |->
                             IF i \in offset .. Room - 1 THEN 102 ELSE out[i]]
                /\ offset' = IF offset < Room THEN Room ELSE offset

Fill == /\ out' = [i \in 0 .. Cap - 1 |->
                     IF i \in offset .. Room - 1 THEN 102 ELSE out[i]]
        /\ UNCHANGED offset

\* MasterAgent_IOPutChar, MasterAgent_IOPutHex4, and every character of
\* MasterAgent_IOPutString.
IOPutChar(c) == /\ open
                /\ IF Fits(1) THEN Store(<<c>>) ELSE UNCHANGED <<offset, out, text>>
                /\ UNCHANGED <<open, saved, packet, sends>>

\* MasterAgent_IOPutHex8, 16 and 32: n digits, here all the same digit.
IOPutHex(n, d) == /\ open
                  /\ LET field == [i \in 1..n |-> d]
                     IN  IF Fits(n) THEN Store(field) ELSE Fill /\ UNCHANGED text
                  /\ UNCHANGED <<open, saved, packet, sends>>

\* Every character of MasterAgent_IOPutStringAsHex.
IOPutCharAsHex(d) ==
    /\ open
    /\ IF Fits(2) THEN Store(<<d, d>>) ELSE UNCHANGED <<offset, out, text>>
    /\ UNCHANGED <<open, saved, packet, sends>>

\* The C string at the start of the buffer.
CString(buf) == LET end == CHOOSE i \in 0 .. Cap - 1 :
                              buf[i] = 0 /\ \A j \in 0 .. i - 1 : buf[j] # 0
                IN  [i \in 1..end |-> buf[i - 1]]

Terminated == [out EXCEPT ![offset] = 0]

\* MasterAgent_IOSendEx
IOSendEx ==
    /\ open /\ open' = FALSE
    /\ IF offset > Room
       THEN sends' = "dropped" /\ UNCHANGED <<offset, out, packet>>
       ELSE /\ out' = Terminated /\ offset' = offset + 1
            /\ packet' = CString(out') /\ sends' = "sent"
    /\ UNCHANGED <<text, saved>>

Next == \/ ResetIOOffsets \/ IOInit \/ IOCurrentIndex \/ IORestoreIndex \/ IOSendEx
        \/ \E c \in Symbols \cup Digits : IOPutChar(c)
        \/ \E d \in Digits : IOPutCharAsHex(d)
        \/ \E n \in {2, 4, 8}, d \in Digits : IOPutHex(n, d)

Spec == Init /\ [][Next]_vars

-----------------------------------------------------------------------------
(* Properties.                                                             *)

\* A reply is never silently dropped: whatever was put, IOSendEx finds the
\* offset low enough to end the string and send it.
ReplyIsSent == sends # "dropped" /\ (open => offset <= Room)

\* What is sent are the fields that had room, whole and in order: no part of a
\* field, no fill and nothing of an earlier reply shows up.
ReplyIsWhatWasPut == sends = "sent" /\ ~open => packet = text

=============================================================================
