------------------------------ MODULE Replies ------------------------------
(***************************************************************************)
(* How the handlers answer, seen from their side: what OutBuffer promises. *)
(* A reply is the sequence of the fields put since the last IOInit.  The   *)
(* buffer outlives a command: what is in it after one is still there when  *)
(* the next one starts.                                                    *)
(***************************************************************************)
EXTENDS Integers, Sequences

VARIABLES out,  \* the fields put since the last IOInit
          sent  \* the replies sent for the command in hand

replyvars == <<out, sent>>

EPERM  == 1
EIO    == 5
EINVAL == 22

RepliesInit == out = << >> /\ sent = << >>

\* Mutated form: the buffer is not reset, as if every caller had done so.
ErrorBehind(result) == out \o <<"E", result>>

\* MasterAgent_IOInit, an E and two digits.
ErrorText(result) == <<"E", result>>

\* MasterAgent_PutPacket of a text of the caller's own.
PutPacket(text) == sent' = Append(sent, text) /\ UNCHANGED out

\* MasterAgent_IOInit, MasterAgent_IOPut..., MasterAgent_IOSendEx.
PutAndSend(fields) == out' = fields /\ sent' = Append(sent, fields)

MasterAgent_SendResult(result) ==
    IF result = 0 THEN PutPacket(<<"OK">>)
    ELSE PutAndSend(ErrorText(result))

=============================================================================
