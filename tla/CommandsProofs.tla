--------------------------- MODULE CommandsProofs ---------------------------
(***************************************************************************)
(* Theorems about vCont among the other commands, for every set of packets *)
(* and threads and every number of cores.                                  *)
(***************************************************************************)
EXTENDS Commands, TLAPS

-----------------------------------------------------------------------------
(* Types, and which function is at work.                                   *)

\* A packet is dispatched, or gdb_vpacket goes through its actions, only while
\* the cores are stopped; gdb_vpacket answers at its end.
Phase == /\ busy \in BOOLEAN
         /\ busy => next = 0 /\ mainState = "LOOP"
         /\ next # 0 => mainState = "LOOP" /\ sent = << >>

TypeInv == VContTypeOK /\ Phase

\* A packet is a finite sequence of actions whose signals are numbers.
LEMMA PacketShape ==
    ASSUME NEW p \in Packets
    PROVE  Len(p) \in Nat /\ \A k \in 1..Len(p) : p[k].sig \in Nat
  <1> DEFINE S == [type : {"c", "C", "s", "S", "bad"}, sig : Nat, thr : STRING]
  <1>1. p \in Seq(S)
    BY PacketsAssumption, Zenon
  <1>2. \A a \in S : a.sig \in Nat
    OBVIOUS
  <1> HIDE DEF S
  <1>3. Len(p) \in Nat /\ \A k \in 1..Len(p) : p[k] \in S
    BY <1>1
  <1> QED BY <1>2, <1>3

\* So is the packet at hand, which may be none.
LEMMA ActionTypes ==
    ASSUME VContTypeOK
    PROVE  /\ Len(pkt) \in Nat /\ next \in Nat
           /\ \A k \in 1..Len(pkt) : pkt[k].sig \in Nat
  <1>1. CASE pkt \in Packets
    BY <1>1, PacketShape DEF VContTypeOK
  <1>2. CASE pkt = << >>
    BY <1>2 DEF VContTypeOK
  <1> QED BY <1>1, <1>2 DEF VContTypeOK

\* An action gives the cores it is for values of the right types.
LEMMA ApplySound ==
    ASSUME VContTypeOK, InPacket, NEW set, Apply(set, Action)
    PROVE  /\ flag' \in [Cores -> {"ZERO", "STOP", "STEP", "CONT"}]
           /\ nextSignal' \in [Cores -> Nat]
           /\ signal' \in [Cores -> {"SIGTRAP", "RESUME"}]
           /\ stepDone' \in BOOLEAN
  <1>1. SignalNumber(Action) \in Nat
    BY ActionTypes DEF InPacket, Action, SignalNumber
  <1>2. FlagOf(Action) \in {"ZERO", "STOP", "STEP", "CONT"}
    BY DEF FlagOf
  <1>3. signal' \in [Cores -> {"SIGTRAP", "RESUME"}]
    BY DEF Apply, VContTypeOK
  <1>4. stepDone' \in BOOLEAN
    BY DEF Apply, VContTypeOK
  <1> QED BY <1>1, <1>2, <1>3, <1>4 DEF Apply, VContTypeOK

\* What the handlers leave alone; only gdb_continue lets the cores run.
LEMMA HandleLeaves ==
    ASSUME Handle
    PROVE  /\ busy /\ busy' = FALSE
           /\ UNCHANGED <<flag, nextSignal, mainState, pkt, next, stepDone, result>>
           /\ \/ UNCHANGED <<thread, stepBit, signal>>
              \/ /\ thread' \in Assignments /\ stepBit' \in StepBits
                 /\ signal' = [i \in Cores |-> "SIGTRAP"]
  BY DEF Handle, VContQuery, ContinueAll, GetRegisters, OtherV, gdb_sendmemory,
         gdb_sendregister, qSupported, qOffsets, qXferThreadRead,
         qXferFeaturesRead, qXferLibrariesRead, Other, Dispatches, Quietly,
         vcontvars

\* The types and the phases are kept.
THEOREM CommandTypesInductive == Spec => []TypeInv
  <1>1. Init => TypeInv
    <2> SUFFICES ASSUME Init PROVE TypeInv
      OBVIOUS
    <2>1. stepBit \in [Cores -> BOOLEAN]
      BY DEF Init, VContInit, StepBits
    <2>2. next \in 0 .. Len(pkt) + 1
      BY DEF Init, VContInit
    <2> QED BY <2>1, <2>2 DEF Init, VContInit, TypeInv, VContTypeOK, Phase
  <1>2. TypeInv /\ [Next]_vars => TypeInv'
    <2> SUFFICES ASSUME TypeInv, [Next]_vars PROVE TypeInv'
      OBVIOUS
    <2>0. Len(pkt) \in Nat /\ next \in Nat
      BY ActionTypes DEF TypeInv
    <2>1. ASSUME NEW r \in Requests, Arrives(r) PROVE TypeInv'
      BY <2>1 DEF Arrives, Idle, vcontvars, TypeInv, VContTypeOK, Phase,
                  Assignments
    <2>2. ASSUME NEW p \in Packets, VContArrives(p) PROVE TypeInv'
      <3>1. Len(p) \in Nat
        BY PacketShape
      <3>2. /\ flag' \in [Cores -> {"ZERO", "STOP", "STEP", "CONT"}]
            /\ nextSignal' \in [Cores -> Nat]
        BY <2>2 DEF VContArrives, Receive, ResetFlags
      <3>3. next' = 1 /\ pkt' = p
        BY <2>2 DEF VContArrives, Receive
      <3>4. 1 \in 0 .. Len(p) + 1
        BY <3>1
      <3>5. next' \in 0 .. Len(pkt') + 1 /\ pkt' \in Packets
        BY <3>3, <3>4
      <3> QED
        BY <2>2, <3>2, <3>5 DEF VContArrives, Idle, Receive, TypeInv,
                                VContTypeOK, Phase
    <2>3. CASE Handle
      <3>1. StepBits \subseteq [Cores -> BOOLEAN]
        BY DEF StepBits
      <3>2. thread' \in Assignments /\ stepBit' \in [Cores -> BOOLEAN]
        BY <2>3, <3>1, HandleLeaves DEF TypeInv, VContTypeOK
      <3>3. signal' \in [Cores -> {"SIGTRAP", "RESUME"}]
        BY <2>3, HandleLeaves DEF TypeInv, VContTypeOK
      <3>4. UNCHANGED <<flag, nextSignal, mainState, pkt, next, stepDone, result>>
        BY <2>3, HandleLeaves
      <3>5. VContTypeOK'
        BY <3>2, <3>3, <3>4 DEF TypeInv, VContTypeOK, Assignments
      <3>6. Phase'
        BY <2>3, <3>4, HandleLeaves DEF TypeInv, Phase
      <3> QED BY <3>5, <3>6 DEF TypeInv
    <2>4. CASE ForAll /\ UNCHANGED commandvars
      <3>1. VContTypeOK'
        BY <2>0, <2>4, ApplySound DEF ForAll, Advance, InPacket, TypeInv,
                                      VContTypeOK, Assignments
      <3>2. Phase'
        BY <2>4, <2>0 DEF ForAll, Advance, InPacket, TypeInv, Phase, replyvars,
                          commandvars
      <3> QED BY <3>1, <3>2 DEF TypeInv
    <2>5. CASE ForThread /\ UNCHANGED commandvars
      <3>1. result' \in {0, 5} /\ stepBit' \in [Cores -> BOOLEAN]
        BY <2>5 DEF ForThread, TypeInv, VContTypeOK
      <3>2. VContTypeOK'
        BY <2>0, <2>5, <3>1, ApplySound DEF ForThread, Advance, InPacket,
                                            TypeInv, VContTypeOK, Assignments
      <3>3. Phase'
        BY <2>5, <2>0 DEF ForThread, Advance, InPacket, TypeInv, Phase,
                          replyvars, commandvars
      <3> QED BY <3>2, <3>3 DEF TypeInv
    <2>6. CASE (UnknownThread \/ BadAction) /\ UNCHANGED commandvars
      <3>1. next # 0
        BY <2>6, <2>0 DEF UnknownThread, BadAction, InPacket
      <3>2. pkt' = << >> /\ next' \in 0 .. Len(pkt') + 1 /\ next' = 0
        BY <2>6 DEF UnknownThread, BadAction, Refuse, Leave
      <3> QED
        BY <2>6, <3>1, <3>2 DEF UnknownThread, BadAction, Refuse, Leave, TypeInv,
                                VContTypeOK, Phase, commandvars
    <2>7. CASE Finish /\ UNCHANGED commandvars
      <3>1. next # 0 /\ next' = 0
        BY <2>0, <2>7 DEF Finish, Leave
      <3>2. pkt' \in {pkt, << >>} /\ next' \in 0 .. Len(pkt') + 1
        BY <2>0, <2>7, <3>1 DEF Finish
      <3> QED
        BY <2>7, <3>1, <3>2 DEF Finish, Leave, TypeInv, VContTypeOK, Phase,
                                commandvars
    <2>8. CASE RunAndStop /\ UNCHANGED commandvars
      BY <2>8 DEF RunAndStop, TypeInv, VContTypeOK, Phase, StepBits, Assignments,
                  commandvars
    <2>9. CASE UNCHANGED vars
      BY <2>9 DEF vars, vcontvars, replyvars, commandvars, TypeInv, VContTypeOK,
                  Phase, Assignments
    <2> QED
      BY <2>1, <2>2, <2>3, <2>4, <2>5, <2>6, <2>7, <2>8, <2>9
      DEF Next, VContLoop
  <1> QED BY <1>1, <1>2, PTL DEF Spec

\* The variables of vCont keep their types.
THEOREM VContTypes == Spec => []VContTypeOK
  <1>1. TypeInv => VContTypeOK
    BY DEF TypeInv
  <1> QED BY <1>1, CommandTypesInductive, PTL

-----------------------------------------------------------------------------
(* A packet that is refused.                                               *)

Good(a) == /\ a.type # "bad"
           /\ a.thr = "all" \/ \E i \in Active : thread[i] = a.thr

\* The actions behind the loop could be applied.
Applied == next # 0 => \A k \in 1..Len(pkt) : k < next => Good(pkt[k])

\* The cores run only if all could, and gdb was told so.
THEOREM RefusedPacketsRunNothing == Spec => []RefusedPacketRunsNothing
  <1> DEFINE RInv == Applied /\ RefusedPacketRunsNothing
  <1>1. Init => RInv
    BY DEF Init, VContInit, Applied, RefusedPacketRunsNothing
  <1>2. TypeInv /\ RInv /\ [Next]_vars => RInv'
    <2> SUFFICES ASSUME TypeInv, RInv, [Next]_vars PROVE RInv'
      OBVIOUS
    <2>0. Len(pkt) \in Nat /\ next \in Nat
      BY ActionTypes DEF TypeInv
    <2>1. ASSUME NEW r \in Requests, Arrives(r) PROVE RInv'
      BY <2>1 DEF Arrives, Idle, vcontvars, Applied, RefusedPacketRunsNothing
    <2>2. ASSUME NEW p \in Packets, VContArrives(p) PROVE RInv'
      <3>1. Len(p) \in Nat
        BY PacketShape
      <3>2. next' = 1 /\ pkt' = p /\ mainState' = "LOOP"
        BY <2>2 DEF VContArrives, Idle, Receive
      <3>3. \A k \in 1..Len(p) : ~(k < 1)
        BY <3>1
      <3> QED BY <3>2, <3>3 DEF Applied, RefusedPacketRunsNothing
    <2>3. CASE Handle
      BY <2>3, HandleLeaves DEF TypeInv, Phase, Applied, RefusedPacketRunsNothing
    <2>4. CASE ForAll \/ ForThread
      <3>1. /\ next # 0 /\ next' = next + 1 /\ mainState' = mainState
            /\ pkt' = pkt /\ thread' = thread
        BY <2>4, <2>0 DEF ForAll, ForThread, Advance, InPacket
      <3>2. Good(pkt[next])
        BY <2>4 DEF ForAll, ForThread, Action, RunsIt, Good
      <3>3. mainState = "LOOP"
        BY <3>1 DEF TypeInv, Phase
      <3>4. ASSUME NEW k \in 1..Len(pkt), k < next + 1
            PROVE  Good(pkt[k])
        <4>1. k < next \/ k = next
          BY <2>0, <3>4
        <4> QED BY <3>1, <3>2, <4>1 DEF Applied
      <3>5. Applied'
        BY <3>1, <3>4 DEF Applied, Good
      <3> QED BY <3>1, <3>3, <3>5 DEF RefusedPacketRunsNothing
    <2>5. CASE UnknownThread \/ BadAction
      <3>1. next # 0 /\ next' = 0 /\ mainState' = mainState
        BY <2>5, <2>0 DEF UnknownThread, BadAction, InPacket, Refuse, Leave
      <3> QED
        BY <3>1 DEF TypeInv, Phase, Applied, RefusedPacketRunsNothing
    <2>6. CASE Finish
      <3>1. /\ next = Len(pkt) + 1 /\ next # 0 /\ next' = 0 /\ thread' = thread
            /\ mainState = "LOOP" /\ sent = << >>
        BY <2>6, <2>0 DEF Finish, Leave, TypeInv, Phase
      <3>2. CASE ~MayRun
        BY <2>6, <3>1, <3>2 DEF Finish, Applied, RefusedPacketRunsNothing
      <3>3. CASE MayRun
        <4>1. pkt' = pkt /\ sent' = << <<"OK">> >>
          BY <2>6, <3>1, <3>3 DEF Finish, MayRun, MasterAgent_SendResult, PutPacket
        <4>2. \A k \in 1..Len(pkt) : Good(pkt[k])
          BY <2>0, <3>1 DEF Applied
        <4> QED
          BY <3>1, <4>1, <4>2 DEF Applied, Good, RefusedPacketRunsNothing
      <3> QED BY <3>2, <3>3
    <2>7. CASE RunAndStop
      BY <2>7 DEF RunAndStop, Applied, RefusedPacketRunsNothing
    <2>8. CASE UNCHANGED vars
      BY <2>8 DEF vars, vcontvars, replyvars, Applied, Good,
                  RefusedPacketRunsNothing
    <2> QED
      BY <2>1, <2>2, <2>3, <2>4, <2>5, <2>6, <2>7, <2>8 DEF Next, VContLoop
  <1>3. RInv => RefusedPacketRunsNothing
    OBVIOUS
  <1> QED BY <1>1, <1>2, <1>3, CommandTypesInductive, PTL DEF Spec

-----------------------------------------------------------------------------
(* What the actions tell the cores.                                        *)

\* Behind the actions before the n-th: once one of them steps, so will
\* stepDone say; a core was told what its leftmost action says; one that none
\* is for is left as ResetFlags set it.
LoopInv(n) ==
    /\ n <= Len(pkt) => (stepDone <=> \E j \in 1 .. n - 1 : Stepping(pkt[j]))
    /\ \A i \in Active :
          /\ \A k \in 1 .. n - 1 :
                Leftmost(pkt, i, k) => Told(i) = Meaning(pkt, k)
          /\ (\A k \in 1 .. n - 1 : ~Matches(i, pkt[k])) => flag[i] = "STOP"

ToldInv == /\ GdbShaped(pkt) /\ next # 0 => LoopInv(next)
           /\ LeftmostActionWins

\* An action for one thread comes behind actions for others.
LEMMA ForThreadTells ==
    ASSUME TypeInv, GdbShaped(pkt), NEW n, n = next, LoopInv(n), ForThread
    PROVE  LoopInv(n + 1)'
  <1> DEFINE a == pkt[n]
  <1>0. /\ Len(pkt) \in Nat /\ n \in 1..Len(pkt) /\ n \in Nat
        /\ a.thr # "all" /\ RunsIt(a) # {} /\ Apply(RunsIt(a), a)
        /\ pkt' = pkt /\ thread' = thread
    BY ActionTypes DEF TypeInv, ForThread, InPacket, Action
  <1>1. ASSUME NEW j \in 1 .. n - 1
        PROVE  j \in 1..Len(pkt) /\ pkt[j].thr # "all" /\ pkt[j].thr # a.thr
    BY <1>0, <1>1 DEF GdbShaped
  <1>2. stepDone <=> \E j \in 1 .. n - 1 : Stepping(pkt[j])
    BY <1>0 DEF LoopInv
  <1>3. n + 1 <= Len(pkt) =>
            (stepDone' <=> \E j \in 1..n : Stepping(pkt[j]))
    <2>1. stepDone' <=> stepDone \/ Stepping(a)
      BY <1>0 DEF Apply
    <2>2. \A j \in 1..n : j \in 1 .. n - 1 \/ j = n
      BY <1>0
    <2>3. n \in 1..n /\ \A j \in 1 .. n - 1 : j \in 1..n
      BY <1>0
    <2> QED BY <1>2, <2>1, <2>2, <2>3
  <1>4. ASSUME NEW i \in Active, i \in RunsIt(a)
        PROVE  /\ Matches(i, a) /\ \A j \in 1 .. n - 1 : ~Matches(i, pkt[j])
               /\ Told(i)' = Meaning(pkt, n)
    <2>1. thread[i] = a.thr
      BY <1>4 DEF RunsIt
    <2>2. Matches(i, a) /\ \A j \in 1 .. n - 1 : ~Matches(i, pkt[j])
      BY <1>1, <2>1 DEF Matches
    <2>3. flag'[i] = FlagOf(a) /\ nextSignal'[i] = SignalNumber(a)
      BY <1>0, <1>4, CoresAssumption DEF Apply, Active
    <2>4. Told(i)' = Meaning(pkt, n)
      BY <1>2, <2>3 DEF Told, Meaning, FlagOf
    <2> QED BY <2>2, <2>4
  <1>5. ASSUME NEW i \in Active, i \notin RunsIt(a)
        PROVE  ~Matches(i, a) /\ flag'[i] = flag[i] /\ nextSignal'[i] = nextSignal[i]
    BY <1>0, <1>5, CoresAssumption DEF RunsIt, Matches, Apply, Active, TypeInv, VContTypeOK
  <1>6. ASSUME NEW i \in Active, NEW k \in 1..n, Leftmost(pkt, i, k)
        PROVE  Told(i)' = Meaning(pkt, k)
    <2>1. CASE k = n
      <3>1. i \in RunsIt(a)
        BY <1>5, <1>6, <2>1 DEF Leftmost
      <3> QED BY <1>4, <2>1, <3>1
    <2>2. CASE k # n
      <3>1. k \in 1 .. n - 1
        BY <1>0, <2>2
      <3>2. i \notin RunsIt(a)
        BY <1>4, <1>6, <3>1 DEF Leftmost
      <3>3. Told(i)' = Told(i)
        BY <1>5, <3>2 DEF Told
      <3> QED BY <1>6, <3>1, <3>3 DEF LoopInv
    <2> QED BY <2>1, <2>2
  <1>7. ASSUME NEW i \in Active, \A k \in 1..n : ~Matches(i, pkt[k])
        PROVE  flag'[i] = "STOP"
    <2>1. ~Matches(i, a) /\ \A k \in 1 .. n - 1 : ~Matches(i, pkt[k])
      BY <1>0, <1>7
    <2>2. i \notin RunsIt(a)
      BY <1>4, <2>1
    <2> QED BY <1>5, <2>1, <2>2 DEF LoopInv
  <1> HIDE DEF a
  <1>8. (n + 1) - 1 = n
    BY <1>0
  <1> QED
    BY <1>0, <1>3, <1>6, <1>7, <1>8
    DEF LoopInv, Leftmost, Matches, Meaning, Stepping, SignalNumber

\* An action for all comes last, and only continues if it is not alone.
LEMMA ForAllTells ==
    ASSUME TypeInv, GdbShaped(pkt), NEW n, n = next, LoopInv(n), ForAll
    PROVE  LoopInv(n + 1)'
  <1> DEFINE a == pkt[n]
  <1>0. /\ Len(pkt) \in Nat /\ n \in 1..Len(pkt) /\ n \in Nat
        /\ a.thr = "all" /\ Apply(Unassigned, a)
        /\ pkt' = pkt /\ thread' = thread
    BY ActionTypes DEF TypeInv, ForAll, InPacket, Action
  <1>1. n = Len(pkt) /\ (n # 1 => ~Stepping(a))
    BY <1>0 DEF GdbShaped
  <1>2. stepDone <=> \E j \in 1 .. n - 1 : Stepping(pkt[j])
    BY <1>0 DEF LoopInv
  <1>3. ASSUME NEW i \in Active
        PROVE  /\ Matches(i, a)
               /\ flag[i] = "STOP" => /\ flag'[i] = FlagOf(a)
                                     /\ nextSignal'[i] = SignalNumber(a)
               /\ flag[i] # "STOP" => /\ flag'[i] = flag[i]
                                     /\ nextSignal'[i] = nextSignal[i]
    BY <1>0, CoresAssumption DEF Matches, Unassigned, Apply, Active, TypeInv, VContTypeOK
  <1>4. ASSUME NEW i \in Active, NEW k \in 1..n, Leftmost(pkt, i, k)
        PROVE  Told(i)' = Meaning(pkt, k)
    <2>1. CASE k = n
      <3>1. flag[i] = "STOP"
        BY <1>4, <2>1 DEF LoopInv, Leftmost
      <3>2. flag'[i] = FlagOf(a) /\ nextSignal'[i] = SignalNumber(a)
        BY <1>3, <3>1
      <3> QED BY <1>2, <2>1, <3>2 DEF Told, Meaning, FlagOf
    <2>2. CASE k # n
      <3>1. k \in 1 .. n - 1 /\ n # 1
        BY <1>0, <2>2
      <3>2. Told(i) = Meaning(pkt, k)
        BY <1>4, <3>1 DEF LoopInv
      <3>3. CASE flag[i] # "STOP"
        BY <1>3, <3>2, <3>3 DEF Told
      <3>4. CASE flag[i] = "STOP"
        <4>1. Meaning(pkt, k) = <<"STOP", 0>>
          BY <3>2, <3>4 DEF Told
        <4>2. PICK j \in 1 .. k - 1 : Stepping(pkt[j])
          BY <4>1 DEF Meaning
        <4>3. stepDone
          BY <1>0, <1>2, <3>1, <4>2
        <4>4. flag'[i] = "STOP"
          BY <1>1, <1>3, <3>1, <3>4, <4>3 DEF FlagOf
        <4> QED BY <4>1, <4>4 DEF Told
      <3> QED BY <3>3, <3>4
    <2> QED BY <2>1, <2>2
  <1> HIDE DEF a
  <1>5. (n + 1) - 1 = n /\ ~(n + 1 <= Len(pkt))
    BY <1>0, <1>1
  <1>6. ASSUME NEW i \in Active PROVE ~(\A k \in 1..n : ~Matches(i, pkt[k]))
    BY <1>0, <1>3 DEF a
  <1> QED
    BY <1>0, <1>4, <1>5, <1>6
    DEF LoopInv, Leftmost, Matches, Meaning, Stepping, SignalNumber

\* An accepted packet tells every core what its leftmost action says.
THEOREM LeftmostActionsWin == Spec => []LeftmostActionWins
  <1>1. Init => ToldInv
    BY DEF Init, VContInit, ToldInv, LeftmostActionWins
  <1>2. TypeInv /\ ToldInv /\ [Next]_vars => ToldInv'
    <2> SUFFICES ASSUME TypeInv, ToldInv, [Next]_vars PROVE ToldInv'
      OBVIOUS
    <2>0. Len(pkt) \in Nat /\ next \in Nat
      BY ActionTypes DEF TypeInv
    <2>1. ASSUME NEW r \in Requests, Arrives(r) PROVE ToldInv'
      BY <2>1 DEF Arrives, Idle, vcontvars, ToldInv, LeftmostActionWins
    <2>2. ASSUME NEW p \in Packets, VContArrives(p) PROVE ToldInv'
      <3>1. /\ pkt' = p /\ next' = 1 /\ stepDone' = FALSE /\ mainState' = "LOOP"
            /\ flag' = [i \in Cores |-> "STOP"]
        BY <2>2 DEF VContArrives, Idle, Receive, ResetFlags
      <3>2. LoopInv(1)'
        BY <3>1, CoresAssumption DEF LoopInv, Active
      <3> QED BY <3>1, <3>2 DEF ToldInv, LeftmostActionWins, LoopInv
    <2>3. CASE Handle
      BY <2>3, HandleLeaves DEF TypeInv, Phase, ToldInv, LeftmostActionWins
    <2>4. CASE ForAll \/ ForThread
      <3>1. /\ next # 0 /\ next' = next + 1 /\ mainState' = mainState
            /\ pkt' = pkt /\ mainState = "LOOP"
        BY <2>4, <2>0 DEF ForAll, ForThread, Advance, InPacket, TypeInv, Phase
      <3> SUFFICES ASSUME GdbShaped(pkt) PROVE LoopInv(next)'
        BY <3>1 DEF ToldInv, LeftmostActionWins, GdbShaped, Stepping
      <3>2. PICK n : n = next
        OBVIOUS
      <3>3. LoopInv(n)
        BY <3>1, <3>2 DEF ToldInv
      <3>4. LoopInv(n + 1)'
        BY <2>4, <3>2, <3>3, ForAllTells, ForThreadTells
      <3> QED BY <3>1, <3>2, <3>4 DEF LoopInv
    <2>5. CASE UnknownThread \/ BadAction
      <3>1. next # 0 /\ next' = 0 /\ mainState' = mainState
        BY <2>5, <2>0 DEF UnknownThread, BadAction, InPacket, Refuse, Leave
      <3> QED BY <3>1 DEF TypeInv, Phase, ToldInv, LeftmostActionWins
    <2>6. CASE Finish
      <3>1. /\ next = Len(pkt) + 1 /\ next # 0 /\ next' = 0 /\ thread' = thread
            /\ mainState = "LOOP" /\ flag' = flag /\ nextSignal' = nextSignal
        BY <2>6, <2>0 DEF Finish, Leave, TypeInv, Phase
      <3>2. CASE ~MayRun
        BY <2>6, <3>1, <3>2 DEF Finish, ToldInv, LeftmostActionWins
      <3>3. CASE MayRun
        <4>1. pkt' = pkt
          BY <2>6, <3>3 DEF Finish
        <4> SUFFICES ASSUME GdbShaped(pkt) PROVE LeftmostActionWins'
          BY <3>1, <4>1 DEF ToldInv, LeftmostActionWins, GdbShaped, Stepping
        <4>2. LoopInv(next) /\ next - 1 = Len(pkt)
          BY <3>1, <2>0 DEF ToldInv
        <4> QED
          BY <3>1, <4>1, <4>2 DEF LoopInv, LeftmostActionWins, Leftmost,
                                  Matches, Told, Meaning, Stepping, SignalNumber
      <3> QED BY <3>2, <3>3
    <2>7. CASE RunAndStop
      BY <2>7 DEF RunAndStop, ToldInv, LeftmostActionWins
    <2>8. CASE UNCHANGED vars
      <3>1. UNCHANGED <<thread, flag, nextSignal, mainState, pkt, next, stepDone>>
        BY <2>8 DEF vars, vcontvars
      <3>2. LoopInv(next)' <=> LoopInv(next)
        BY <3>1 DEF LoopInv, Leftmost, Matches, Told, Meaning, Stepping,
                    SignalNumber
      <3>3. LeftmostActionWins' <=> LeftmostActionWins
        BY <3>1 DEF LeftmostActionWins, GdbShaped, Active, Leftmost, Matches,
                    Told, Meaning, Stepping, SignalNumber
      <3>4. GdbShaped(pkt)' <=> GdbShaped(pkt)
        BY <3>1 DEF GdbShaped, Stepping
      <3> QED BY <3>1, <3>2, <3>3, <3>4 DEF ToldInv
    <2> QED
      BY <2>1, <2>2, <2>3, <2>4, <2>5, <2>6, <2>7, <2>8 DEF Next, VContLoop
  <1>3. ToldInv => LeftmostActionWins
    BY DEF ToldInv
  <1> QED BY <1>1, <1>2, <1>3, CommandTypesInductive, PTL DEF Spec

-----------------------------------------------------------------------------
(* The answers.                                                            *)

\* While a packet is dispatched or gdb_vpacket is at work nothing was sent.
Answering == /\ busy => request \in Requests /\ sent = << >>
             /\ next # 0 => request.kind = "vCont"
             /\ AnsweredOnce

\* The first thing that is sent is the only one.
LEMMA OneReply == ASSUME sent = << >>, NEW x, sent' = Append(sent, x)
                  PROVE  sent' = <<x>> /\ Len(sent') = 1 /\ sent'[1] = x
  OBVIOUS

\* An error is sent alone.
LEMMA ErrorReply ==
    ASSUME sent = << >>, NEW error \in {EPERM, EIO, EINVAL}, MasterAgent_SendResult(error)
    PROVE  Len(sent') = 1 /\ sent'[1] = <<"E", error>>
  <1>1. error # 0
    BY DEF EPERM, EIO, EINVAL
  <1>2. sent' = Append(sent, <<"E", error>>)
    BY <1>1, Zenon DEF MasterAgent_SendResult, PutAndSend, ErrorText
  <1> QED
    BY <1>2, OneReply

\* OK is sent alone.
LEMMA SuccessReply ==
    ASSUME sent = << >>, MasterAgent_SendResult(0)
    PROVE  Len(sent') = 1 /\ sent'[1] = <<"OK">>
  BY OneReply DEF MasterAgent_SendResult, PutPacket

\* A text that was put after IOInit is sent alone.
LEMMA TextReply ==
    ASSUME sent = << >>, NEW x, PutPacket(x) \/ PutAndSend(x)
    PROVE  Len(sent') = 1 /\ sent'[1] = x
  BY OneReply DEF PutPacket, PutAndSend

\* Every register that target.xml announces has the digits that gdb_sendregister
\* puts, and none of them is refused.
LEMMA AnnouncedDigits ==
    ASSUME NEW id \in Nat
    PROVE  \/ Announced(id) = {}
           \/ id <= 219 /\ \E d : Announced(id) = {d} /\ Digits(id) = <<d>>
  <1> DEFINE general  == [count |-> 32, bits |-> "hex32", regnum |-> 0]
             special  == [count |-> 6,  bits |-> "hex32", regnum |-> 64]
             floating == [count |-> 32, bits |-> "hex64", regnum |-> 32]
             fpscr    == [count |-> 1,  bits |-> "hex32", regnum |-> 70]
  <1>1. Range(TargetRegisters) = {general, special, floating, fpscr}
    <2>1. TargetRegisters = <<general, special, floating, fpscr>>
      BY DEF TargetRegisters
    <2> HIDE DEF general, special, floating, fpscr
    <2> QED
      BY <2>1 DEF Range
  <1>2. /\ general.bits = "hex32" /\ general.regnum = 0 /\ general.count = 32
        /\ special.bits = "hex32" /\ special.regnum = 64 /\ special.count = 6
        /\ floating.bits = "hex64" /\ floating.regnum = 32 /\ floating.count = 32
        /\ fpscr.bits = "hex32" /\ fpscr.regnum = 70 /\ fpscr.count = 1
    OBVIOUS
  <1> HIDE DEF general, special, floating, fpscr
  <1>3. \A d : d \in Announced(id) <=> \/ d = "hex32" /\ id \in 0..31
                                       \/ d = "hex32" /\ id \in 64..69
                                       \/ d = "hex64" /\ id \in 32..63
                                       \/ d = "hex32" /\ id \in 70..70
    <2> TAKE d
    <2>1. d \in Announced(id) <=>
            \E r \in {general, special, floating, fpscr} :
                d = r.bits /\ id \in r.regnum .. r.regnum + r.count - 1
      BY <1>1, Zenon DEF Announced
    <2> QED
      BY <1>2, <2>1
  <1>4. CASE id \in 32..63
    BY <1>3, <1>4 DEF Digits, F0ToF31
  <1>5. CASE id \in 0..31 \/ id \in 64..70
    BY <1>3, <1>5 DEF Digits, F0ToF31, PS0ToPS31
  <1>6. CASE id > 70
    BY <1>3, <1>6
  <1> QED
    BY <1>4, <1>5, <1>6

\* The handlers, one by one.
LEMMA HandlersAnswer ==
    ASSUME TypeInv, Answering, Handle
    PROVE  Len(sent') = 1 /\ sent'[1] \in Answers(request)
  <1>1. busy /\ request \in Requests /\ sent = << >>
    BY HandleLeaves DEF Answering
  <1> USE DEF Dispatches
  <1>2. CASE VContQuery
    BY <1>1, <1>2, TextReply DEF VContQuery, Answers
  <1>3. CASE ContinueAll \/ GetRegisters \/ Other
    BY <1>1, <1>3, TextReply DEF ContinueAll, GetRegisters, Other, CoreinitAnswers, Answers
  <1>4. CASE OtherV
    BY <1>1, <1>4, TextReply DEF OtherV, Answers
  <1>5. CASE gdb_sendmemory
    <2>1. request.kind = "m"
      BY <1>5 DEF gdb_sendmemory
    <2>2. Answers(request) = IF request.comma THEN {Bytes(request.size)} \cup Errors({EIO})
                             ELSE Errors({EINVAL})
      BY <2>1 DEF Answers
    <2>3. CASE ~request.comma
      <3>1. Len(sent') = 1 /\ sent'[1] = <<"E", EINVAL>>
        BY <1>1, <1>5, <2>3, ErrorReply DEF gdb_sendmemory
      <3> QED
        BY <2>2, <2>3, <3>1 DEF Errors
    <2>4. CASE request.comma
      <3>1. PutAndSend(Bytes(request.size)) \/ MasterAgent_SendResult(EIO)
        BY <1>5, <2>4 DEF gdb_sendmemory
      <3>2. Len(sent') = 1 /\ sent'[1] \in {Bytes(request.size), <<"E", EIO>>}
        BY <1>1, <3>1, TextReply, ErrorReply
      <3> QED
        BY <2>2, <2>4, <3>2 DEF Errors
    <2> QED
      BY <2>3, <2>4
  <1>6. CASE gdb_sendregister
    <2>1. request.kind = "p" /\ request.id \in Nat
      BY <1>1, <1>6, RequestsAssumption
         DEF gdb_sendregister, PlainPackets, PlainKinds, MemoryPackets, RegisterPackets, FeaturePackets
    <2>2. Answers(request) =
            IF Announced(request.id) # {} THEN {<<d>> : d \in Announced(request.id)}
            ELSE {<<"hex32">>, <<"hex64">>} \cup Errors({EINVAL})
      BY <2>1 DEF Answers
    <2>3. CASE request.id > 219
      <3>1. Len(sent') = 1 /\ sent'[1] = <<"E", EINVAL>>
        BY <1>1, <1>6, <2>3, ErrorReply DEF gdb_sendregister
      <3>2. Announced(request.id) = {}
        BY <2>1, <2>3, AnnouncedDigits
      <3> QED
        BY <2>2, <3>1, <3>2 DEF Errors
    <2>4. CASE ~(request.id > 219)
      <3>1. Len(sent') = 1 /\ sent'[1] = Digits(request.id)
        BY <1>1, <1>6, <2>4, TextReply DEF gdb_sendregister
      <3>2. Digits(request.id) \in {<<"hex32">>, <<"hex64">>}
        BY DEF Digits
      <3> QED
        BY <2>1, <2>2, <3>1, <3>2, AnnouncedDigits
    <2> QED
      BY <2>3, <2>4
  <1>7. CASE qSupported
    BY <1>1, <1>7, TextReply DEF qSupported, Answers
  <1>8. CASE qOffsets
    BY <1>1, <1>8, TextReply DEF qOffsets, Answers
  <1>9. CASE qXferThreadRead \/ qXferLibrariesRead
    BY <1>1, <1>9, TextReply
       DEF qXferThreadRead, qXferLibrariesRead, Documents, Answers, Pages
  <1>10. CASE qXferFeaturesRead
    <2>1. request.kind = "qXfer:features:read:"
      BY <1>10 DEF qXferFeaturesRead
    <2>2. Answers(request) = IF NamesTarget(request.annex) THEN Pages ELSE {<<"coreinit", "cut">>}
      BY <2>1 DEF Answers
    <2> QED
      BY <1>1, <1>10, <2>2, TextReply DEF qXferFeaturesRead, Documents, CoreinitAnswers, Pages
  <1> QED
    BY <1>2, <1>3, <1>4, <1>5, <1>6, <1>7, <1>8, <1>9, <1>10 DEF Handle

\* A command that ended with one right reply was answered.
LEMMA AnsweredStep ==
    ASSUME ~busy', next' = 0, request' = request,
           Len(sent') = 1, sent'[1] \in Answers(request)
    PROVE  Answering'
  <1>1. AnsweredOnce'
    BY Zenon DEF AnsweredOnce
  <1> QED
    BY <1>1, Zenon DEF Answering

\* A vCont packet that is not at its end needs no reply yet.
LEMMA UnfinishedStep ==
    ASSUME ~busy', next' # 0, request'.kind = "vCont"
    PROVE  Answering'
  BY Zenon DEF Answering, AnsweredOnce

\* Every packet is answered exactly once, and with what gdb expects for it.
THEOREM PacketsAnsweredOnce == Spec => []AnsweredOnce
  <1>1. Init => Answering
    BY DEF Init, VContInit, Answering, AnsweredOnce
  <1>2. TypeInv /\ Answering /\ [Next]_vars => Answering'
    <2> SUFFICES ASSUME TypeInv, Answering, [Next]_vars
                 PROVE  Answering'
      OBVIOUS
    <2>1. ASSUME NEW r \in Requests, Arrives(r) PROVE Answering'
      BY <2>1 DEF Arrives, Idle, vcontvars, Answering, AnsweredOnce
    <2>2. ASSUME NEW p \in Packets, VContArrives(p) PROVE Answering'
      <3>1. /\ ~busy /\ busy' = busy /\ next' = 1
            /\ request' = [kind |-> "vCont"]
        BY <2>2 DEF VContArrives, Idle, Receive
      <3>2. request'.kind = "vCont"
        BY <3>1
      <3>3. ~busy'
        BY <3>1, Zenon
      <3>4. next' # 0
        BY <2>2 DEF VContArrives, Receive
      <3> QED
        BY <3>1, <3>2, <3>3, <3>4, UnfinishedStep, Zenon
    <2>3. CASE Handle
      <3>1. busy' = FALSE /\ next' = 0 /\ request' = request
        BY <2>3, HandleLeaves
           DEF TypeInv, Phase, Handle, VContQuery, ContinueAll, GetRegisters, OtherV,
               gdb_sendmemory, gdb_sendregister, qSupported, qOffsets, qXferThreadRead,
               qXferFeaturesRead, qXferLibrariesRead, Other, Dispatches
      <3>2. Len(sent') = 1 /\ sent'[1] \in Answers(request)
        BY <2>3, HandlersAnswer
      <3> QED
        BY <3>1, <3>2, AnsweredStep
    <2>4. CASE VContLoop /\ UNCHANGED commandvars
      <3>1. next # 0 /\ ~busy /\ sent = << >> /\ request.kind = "vCont"
        <4>1. Len(pkt) \in Nat /\ (next \in 1..Len(pkt) \/ next = Len(pkt) + 1)
          BY <2>4, ActionTypes
             DEF VContLoop, ForAll, ForThread, UnknownThread, BadAction, Finish, InPacket, TypeInv
        <4> QED
          BY <4>1 DEF TypeInv, Phase, Answering
      <3>2. Answers(request) = {<<"OK">>} \cup Errors({EPERM, EINVAL, EIO})
        BY <3>1 DEF Answers
      <3>3. CASE ForAll \/ ForThread
        <4>1. next' # 0
          BY <3>3, ActionTypes DEF ForAll, ForThread, Advance, TypeInv
        <4>2. busy' = busy /\ request' = request
          BY <2>4 DEF commandvars
        <4>3. ~busy'
          BY <3>1, <4>2, Zenon
        <4>4. request'.kind = "vCont"
          BY <3>1, <4>2, Zenon
        <4> QED
          BY <4>1, <4>3, <4>4, UnfinishedStep, Zenon
      <3>4. CASE UnknownThread \/ BadAction \/ Finish
        <4>1. /\ next' = 0
              /\ MasterAgent_SendResult(0) \/ \E e \in {EPERM, EIO, EINVAL} : MasterAgent_SendResult(e)
          BY <3>4 DEF UnknownThread, BadAction, Finish, Refuse, Leave, TypeInv, VContTypeOK, EIO
        <4>2. Len(sent') = 1 /\ sent'[1] \in Answers(request)
          BY <3>1, <3>2, <4>1, SuccessReply, ErrorReply DEF Errors
        <4>3. busy' = busy /\ request' = request
          BY <2>4 DEF commandvars
        <4> QED
          BY <3>1, <4>1, <4>2, <4>3, AnsweredStep
      <3> QED
        BY <2>4, <3>3, <3>4 DEF VContLoop
    <2>5. CASE RunAndStop /\ UNCHANGED commandvars
      BY <2>5 DEF RunAndStop, commandvars, replyvars, Answering, AnsweredOnce
    <2>6. CASE UNCHANGED vars
      BY <2>6 DEF vars, vcontvars, replyvars, commandvars, Answering, AnsweredOnce
    <2> QED
      BY <2>1, <2>2, <2>3, <2>4, <2>5, <2>6 DEF Next
  <1>3. Answering => AnsweredOnce
    BY DEF Answering
  <1> QED
    BY <1>1, <1>2, <1>3, CommandTypesInductive, PTL DEF Spec

=============================================================================
