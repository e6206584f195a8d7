------------------------------ MODULE Commands ------------------------------
(***************************************************************************)
(* MasterAgent_ProcessPacket: the commands that the plugin takes from gdb, *)
(* the rest it passes on to coreinit.  A packet is known by its kind and   *)
(* by what the handler looks at; vCont has a module of its own.            *)
(***************************************************************************)
EXTENDS VCont, SequencesExt

CONSTANT Requests \* the packets other than vCont;...

\* Kinds are named as the code's string tests, without a ";" ("vCont_c" is vCont;c).
\* The packets whose handler looks at nothing but what tells them from others,
\* and those of which it looks at more.
PlainKinds == {"vCont?", "vCont_c", "vGetRegs", "v", "qSupported:", "qOffsets",
               "qXfer:threads:read::", "qXfer:libraries:read::", "other"}
PlainPackets    == [kind : PlainKinds]
MemoryPackets   == [kind : {"m"}, comma : BOOLEAN, size : Nat]
RegisterPackets == [kind : {"p"}, id : Nat]
FeaturePackets  == [kind : {"qXfer:features:read:"}, annex : STRING]

ASSUME RequestsAssumption ==
    \A r \in Requests : \/ r \in PlainPackets   \/ r \in MemoryPackets
                        \/ r \in RegisterPackets \/ r \in FeaturePackets

VARIABLES
    request,           \* the last packet
    busy,              \* it was not dispatched yet
    gIsDebuggerPresent

commandvars == <<request, busy, gIsDebuggerPresent>>
vars        == <<vcontvars, replyvars, commandvars>>

Init == /\ VContInit /\ RepliesInit
        /\ request = [kind |-> "none"] /\ busy = FALSE
        /\ gIsDebuggerPresent = FALSE

Idle == ~busy /\ next = 0 /\ mainState = "LOOP"

\* coreinit's reader has a packet.
Arrives(r) == /\ Idle
              /\ request' = r /\ busy' = TRUE /\ sent' = << >>
              /\ UNCHANGED <<vcontvars, out, gIsDebuggerPresent>>

Dispatches(kinds) == busy /\ request.kind \in kinds /\ busy' = FALSE /\ UNCHANGED request

Quietly == UNCHANGED <<vcontvars, gIsDebuggerPresent>>

\* real_MasterAgent_ProcessPacket and other functions of coreinit answer, and
\* use the same buffer.
CoreinitAnswers(packet) == PutAndSend(<<"coreinit", packet>>)

VContQuery == /\ Dispatches({"vCont?"}) /\ Quietly
              /\ PutPacket(<<"vCont;c;C;s;S;">>)

\* gdb_continue of coreinit: the cores run and stop again.
ContinueAll == /\ Dispatches({"vCont_c"})
               /\ CoreinitAnswers("whole")
               /\ thread' \in Assignments /\ stepBit' \in StepBits
               /\ signal' = [i \in Cores |-> "SIGTRAP"]
               /\ UNCHANGED <<flag, nextSignal, mainState, pkt, next, stepDone, result,
                              gIsDebuggerPresent>>

GetRegisters == Dispatches({"vGetRegs"}) /\ Quietly /\ CoreinitAnswers("whole")

OtherV == Dispatches({"v"}) /\ Quietly /\ PutPacket(<<"">>)

Bytes(n) == [i \in 1..n |-> "byte"]

\* gdb_mem2hex of coreinit puts the bytes, or some of them and fails.
gdb_sendmemory ==
    /\ Dispatches({"m"}) /\ Quietly
    /\ IF ~request.comma THEN MasterAgent_SendResult(EINVAL)
       ELSE \/ PutAndSend(Bytes(request.size))
            \/ request.size > 0 /\ MasterAgent_SendResult(EIO)

F0ToF31   == 32..63
PS0ToPS31 == 166..197

\* Floating point registers and paired singles have 64 bits.
Digits(id) == IF id \in F0ToF31 \cup PS0ToPS31 THEN <<"hex64">> ELSE <<"hex32">>

gdb_sendregister ==
    /\ Dispatches({"p"}) /\ Quietly
    /\ IF request.id > 219 THEN MasterAgent_SendResult(EINVAL)
                           ELSE PutAndSend(Digits(request.id))

Supported == <<"PacketSize=", "800", ";qXfer:features:read+;qXfer:threads:read+",
               ";swbreak+;hwbreak+", ";COSVer=", "21301">>

qSupported == /\ Dispatches({"qSupported:"})
              /\ gIsDebuggerPresent' = TRUE /\ PutAndSend(Supported)
              /\ UNCHANGED vcontvars

Segments == <<"TextSeg=", "hex32", ";DataSeg=", "hex32">>

\* Whether coreinit's list of modules has one that ends with rpx.
qOffsets == /\ Dispatches({"qOffsets"}) /\ Quietly
            /\ \/ PutAndSend(Segments)
               \/ PutPacket(<<"">>)

\* A page of a document (module Pager), or "l" alone at its end.
Documents == PutPacket(<<"l">>) \/ \E mark \in {"m", "l"} : PutAndSend(<<mark, "page">>)

qXferThreadRead    == Dispatches({"qXfer:threads:read::"}) /\ Quietly /\ Documents
qXferLibrariesRead == /\ Dispatches({"qXfer:libraries:read::"}) /\ Quietly
                      /\ \E mark \in {"m", "l"} : PutAndSend(<<mark, "page">>)

\* Line 105 compares 10 characters: an annex that only starts with target.xml
\* counts as well.
NamesTarget(annex) == Len(annex) >= 10 /\ SubSeq(annex, 1, 10) = "target.xml"

\* The annex is ended with a 0 in the packet itself; if it does not name the
\* target, that is what coreinit gets to see.
qXferFeaturesRead ==
    /\ Dispatches({"qXfer:features:read:"}) /\ Quietly
    /\ IF NamesTarget(request.annex) THEN Documents ELSE CoreinitAnswers("cut")

Other == Dispatches({"other"}) /\ Quietly /\ CoreinitAnswers("whole")

Handle == \/ VContQuery \/ ContinueAll \/ GetRegisters \/ OtherV
          \/ gdb_sendmemory \/ gdb_sendregister \/ qSupported \/ qOffsets
          \/ qXferThreadRead \/ qXferFeaturesRead \/ qXferLibrariesRead \/ Other

VContArrives(p) == /\ Idle /\ Receive(p)
                   /\ request' = [kind |-> "vCont"]
                   /\ UNCHANGED <<busy, gIsDebuggerPresent>>

Next == \/ \E r \in Requests : Arrives(r)
        \/ \E p \in Packets : VContArrives(p)
        \/ Handle
        \/ (VContLoop \/ RunAndStop) /\ UNCHANGED commandvars

Spec == Init /\ [][Next]_vars

-----------------------------------------------------------------------------
(* Properties.                                                             *)

\* The registers that target.xml announces, in its order.  gdb numbers them from
\* the last regnum on.
TargetRegisters == <<[count |-> 32, bits |-> "hex32", regnum |-> 0],    \* r0 .. r31
                     [count |-> 6,  bits |-> "hex32", regnum |-> 64],   \* pc .. xer
                     [count |-> 32, bits |-> "hex64", regnum |-> 32],   \* f0 .. f31
                     [count |-> 1,  bits |-> "hex32", regnum |-> 70]>>  \* fpscr

Announced(id) == {r.bits : r \in {x \in Range(TargetRegisters) :
                                     id \in x.regnum .. x.regnum + x.count - 1}}

Errors(numbers) == {<<"E", n>> : n \in numbers}
Pages           == {<<"l">>, <<"m", "page">>, <<"l", "page">>}

\* What gdb can make of as the answer to a packet.
Answers(r) ==
    CASE r.kind = "vCont"  -> {<<"OK">>} \cup Errors({EPERM, EINVAL, EIO})
      [] r.kind = "vCont?"  -> {<<"vCont;c;C;s;S;">>}
      [] r.kind = "m" -> IF r.comma THEN {Bytes(r.size)} \cup Errors({EIO})
                                    ELSE Errors({EINVAL})
      [] r.kind = "p" -> IF Announced(r.id) # {} THEN {<<d>> : d \in Announced(r.id)}
                         ELSE {<<"hex32">>, <<"hex64">>} \cup Errors({EINVAL})
      [] r.kind \in {"qXfer:threads:read::", "qXfer:libraries:read::"} -> Pages
      [] r.kind = "qXfer:features:read:" ->
             IF NamesTarget(r.annex) THEN Pages ELSE {<<"coreinit", "cut">>}
      [] r.kind \in {"vCont_c", "vGetRegs", "other"} -> {<<"coreinit", "whole">>}
      [] r.kind = "qOffsets" -> {Segments, <<"">>}
      [] r.kind = "qSupported:" -> {Supported}
      [] r.kind = "v" -> {<<"">>}

\* Every packet is answered exactly once, and the answer is one that gdb expects
\* for it: nothing of an earlier command or of a part that failed is in it, and a
\* register has as many digits as target.xml says.
AnsweredOnce ==
    ~busy /\ next = 0 /\ request.kind # "none" =>
        Len(sent) = 1 /\ sent[1] \in Answers(request)

=============================================================================
