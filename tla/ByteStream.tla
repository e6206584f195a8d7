----------------------------- MODULE ByteStream -----------------------------
(***************************************************************************)
(* What the input side of the stub promises to whoever reads commands: the *)
(* characters the host sends come out in the order they were sent, none    *)
(* left out, for as long as a session is up.  `got` counts the characters  *)
(* handed out; handing one out a second time is a stuttering step.         *)
(***************************************************************************)
EXTENDS Naturals, Sequences

CONSTANT Chars

VARIABLES sent, got, up

vars == <<sent, got, up>>

Init == sent = << >> /\ got = 0 /\ up = FALSE

Send == \E c \in Chars : sent' = Append(sent, c) /\ UNCHANGED <<got, up>>

Open == up' = TRUE /\ UNCHANGED <<sent, got>>

Deliver == got < Len(sent) /\ got' = got + 1 /\ UNCHANGED <<sent, up>>

\* A new application starts with an empty buffer: what was buffered is gone.
Close == up /\ up' = FALSE /\ got' \in got..Len(sent) /\ UNCHANGED sent

Next == Send \/ Open \/ Deliver \/ Close

Spec == Init /\ [][Next]_vars

=============================================================================
