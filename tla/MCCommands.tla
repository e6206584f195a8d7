----------------------------- MODULE MCCommands -----------------------------
(***************************************************************************)
(* Commands for TLC.  vCont has up to two actions, good or bad, or three   *)
(* of which the second may be a C with a signal, for running threads, for  *)
(* one that runs nowhere and for all; there is one packet of every other   *)
(* kind, and one for every case of its handler.  Any packet may follow any *)
(* other.                                                                  *)
(***************************************************************************)
EXTENDS Commands

MCThreads  == {"t0", "t1", "t2"}
Acts(types, thr) == [type : types, sig : {7}, thr : thr]
OnlyC      == <<[type |-> "c", sig |-> 7, thr |-> "all"]>>

\* Behind an action that is refused nothing is parsed.
Good       == Acts({"c", "s", "S"}, {"t0", "all"})
Refused    == Acts({"c"}, {"tx"}) \cup Acts({"bad"}, {"t0"})
MCPackets  == {<< >>} \cup ([1..1 -> Good \cup Refused] \ {OnlyC})
    \cup {<<a, b>> : a \in Good, b \in Good \cup Refused}
    \cup {<<a, b, c>> : a \in Acts({"c", "s"}, {"t0"}),
                        b \in Acts({"c", "C", "s"}, {"t0", "t1"}),
                        c \in Acts({"c", "s"}, {"all"})}

MCRequests == PlainPackets
    \cup [kind : {"m"}, comma : BOOLEAN, size : 0..1]
    \cup [kind : {"p"}, id : {0, 31, 32, 63, 64, 69, 70, 71, 165, 166, 197, 198, 219, 220}]
    \cup [kind : {"qXfer:features:read:"}, annex : {"target.xml", "target.xml2", "other"}]

=============================================================================
