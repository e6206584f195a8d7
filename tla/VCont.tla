------------------------------- MODULE VCont -------------------------------
(***************************************************************************)
(* gdb_vpacket: the vCont packet tells for every core whether it steps,    *)
(* continues or stays stopped.  One step of the module per action of the   *)
(* packet; the packet is a sequence of parsed actions.  The cores are all  *)
(* stopped meanwhile.  Resuming them from the flags is coreinit's part.    *)
(***************************************************************************)
EXTENDS Replies

CONSTANTS Cores,      \* 0..2
          CoreCount,  \* gCoreCount
          Threads,    \* the threads that may be running on a core
          Packets,    \* the vCont packets gdb may send
          StepCores   \* bound: cores that may stop with MSR_BIT_SE set

ASSUME CoresAssumption == Cores = 0..2 /\ CoreCount \in 1..3
ASSUME PacketsAssumption ==
    /\ Packets \subseteq Seq([type : {"c", "C", "s", "S", "bad"}, sig : Nat,
                              thr : STRING])
    /\ "all" \notin Threads

VARIABLES
    thread,     \* stoppedThread
    stepBit,    \* MSR_BIT_SE of stoppedContext
    flag,       \* flag: "ZERO", "STOP", "STEP" or "CONT"
    nextSignal, \* nextSignal__
    signal,     \* signal
    mainState,  \* gGDBStub_main_state: "LOOP" or "VCONT"
    pkt,        \* the packet
    next,       \* index of its next action; 0 outside gdb_vpacket
    stepDone,   \* stepDone
    result      \* result: 0 or an error number

vcontvars == <<thread, stepBit, flag, nextSignal, signal, mainState, pkt,
               next, stepDone, result>>

Active == 0 .. CoreCount - 1

Assignments == {f \in [Cores -> Threads] : \A i, j \in Cores : f[i] = f[j] => i = j}

StepBits == {f \in [Cores -> BOOLEAN] : \A i \in Cores : f[i] => i \in StepCores}

VContInit ==
        /\ thread \in Assignments
        /\ stepBit \in StepBits
        /\ flag = [i \in Cores |-> "ZERO"]
        /\ nextSignal = [i \in Cores |-> 0]
        /\ signal = [i \in Cores |-> "SIGTRAP"]
        /\ mainState = "LOOP" /\ pkt = << >> /\ next = 0
        /\ stepDone = FALSE /\ result = 0

\* Lines 241-244.
ResetFlags == /\ flag' = [i \in Cores |-> "STOP"]
              /\ nextSignal' = [i \in Cores |-> 0]

\* Lines 236-248.
Receive(p) == /\ next = 0 /\ mainState = "LOOP"
              /\ pkt' = p /\ next' = 1
              /\ ResetFlags
              /\ stepDone' = FALSE /\ result' = 0 /\ sent' = << >>
              /\ UNCHANGED <<thread, stepBit, signal, mainState, out>>

Action == pkt[next]
InPacket == next \in 1..Len(pkt)

Stepping(a) == a.type \in {"s", "S"}

\* Mutated form: a core continues although another one steps.
FlagAlways(a) == IF Stepping(a) THEN "STEP" ELSE "CONT"

\* Lines 267-275: once a core steps, "continue" leaves the others stopped.
FlagOf(a) == IF Stepping(a) THEN "STEP"
             ELSE IF stepDone THEN "STOP" ELSE "CONT"

\* Lines 263-265.
SignalNumber(a) == IF a.type \in {"C", "S"} THEN a.sig ELSE 0

\* Lines 279-286 and 295-300.
Apply(set, a) ==
    /\ signal' = [i \in Cores |-> IF i \in set THEN "RESUME" ELSE signal[i]]
    /\ flag' = [i \in Cores |-> IF i \in set THEN FlagOf(a) ELSE flag[i]]
    /\ nextSignal' = [i \in Cores |-> IF i \in set THEN SignalNumber(a)
                                                   ELSE nextSignal[i]]
    /\ stepDone' = (stepDone \/ (Stepping(a) /\ set # {}))

\* Mutated form: the character behind an action is skipped twice.
AdvanceTwice == next' = next + 2

\* Lines 321-323.
Advance == next' = next + 1

\* Line 279.
Unassigned == {i \in Active : flag[i] = "STOP"}

\* Lines 277-287: an action for every core that has none yet.
ForAll == /\ InPacket /\ Action.type # "bad" /\ Action.thr = "all"
          /\ Apply(Unassigned, Action)
          /\ Advance
          /\ UNCHANGED <<thread, stepBit, mainState, pkt, result, replyvars>>

RunsIt(a) == {i \in Active : thread[i] = a.thr}

\* Lines 288-307: an action for the core that runs a thread.  Its single step
\* bit is cleared; `result` is what MasterAgent_SetRegister32 returns.
ForThread == /\ InPacket /\ Action.type # "bad" /\ Action.thr # "all"
             /\ RunsIt(Action) # {}
             /\ Apply(RunsIt(Action), Action)
             /\ IF \E i \in RunsIt(Action) : stepBit[i]
                THEN /\ result' \in {0, 5}
                     /\ stepBit' = [i \in Cores |-> stepBit[i] /\
                                      ~(i \in RunsIt(Action) /\ result' = 0)]
                ELSE UNCHANGED <<result, stepBit>>
             /\ Advance
             /\ UNCHANGED <<thread, mainState, pkt, replyvars>>

\* The locals end with the call.
Leave == next' = 0 /\ stepDone' = FALSE /\ result' = 0

Refuse(error) == /\ MasterAgent_SendResult(error)
                 /\ Leave /\ pkt' = << >>
                 /\ UNCHANGED <<thread, stepBit, flag, nextSignal, signal, mainState>>

\* Lines 309-313.
UnknownThread == /\ InPacket /\ Action.type # "bad" /\ Action.thr # "all"
                 /\ RunsIt(Action) = {} /\ Refuse(EPERM)

\* Lines 315-319.
BadAction == InPacket /\ Action.type = "bad" /\ Refuse(EINVAL)

\* Mutated form: the cores are resumed whatever the actions before did.
MayRunAlways == TRUE

\* Line 251.
MayRun == result = 0

\* Lines 250-256.
Finish == /\ next = Len(pkt) + 1 /\ Leave
          /\ mainState' = IF MayRun THEN "VCONT" ELSE mainState
          /\ pkt' = IF MayRun THEN pkt ELSE << >>
          /\ MasterAgent_SendResult(result)
          /\ UNCHANGED <<thread, stepBit, flag, nextSignal, signal>>

\* coreinit lets the cores with STEP or CONT run; they stop again.
RunAndStop == /\ mainState = "VCONT" /\ next = 0 /\ mainState' = "LOOP"
              /\ thread' \in Assignments
              /\ stepBit' \in StepBits
              /\ signal' = [i \in Cores |-> "SIGTRAP"]
              /\ pkt' = << >>
              /\ UNCHANGED <<flag, nextSignal, next, stepDone, result, replyvars>>

VContLoop == ForAll \/ ForThread \/ UnknownThread \/ BadAction \/ Finish

-----------------------------------------------------------------------------
(* Properties.                                                             *)

\* Types of the variables.
VContTypeOK ==
          /\ thread \in Assignments /\ stepBit \in [Cores -> BOOLEAN]
          /\ flag \in [Cores -> {"ZERO", "STOP", "STEP", "CONT"}]
          /\ nextSignal \in [Cores -> Nat]
          /\ signal \in [Cores -> {"SIGTRAP", "RESUME"}]
          /\ mainState \in {"LOOP", "VCONT"}
          /\ pkt \in Packets \cup {<< >>} /\ next \in 0 .. Len(pkt) + 1
          /\ stepDone \in BOOLEAN /\ result \in {0, 5}

\* How gdb writes vCont: one action per thread, then "continue" for the others.
Matches(i, a) == a.thr \in {"all", thread[i]}
GdbShaped(p)  == /\ \A k \in 1 .. Len(p) - 1 : p[k].thr # "all"
                 /\ \A j, k \in 1..Len(p) : p[j].thr = p[k].thr => j = k
                 /\ \A k \in 2..Len(p) : p[k].thr = "all" => ~Stepping(p[k])

\* The remote protocol's rule: the leftmost action that matches a thread is its own.
Leftmost(p, i, k) == /\ Matches(i, p[k])
                     /\ \A j \in 1 .. k - 1 : ~Matches(i, p[j])

\* What the k-th action tells a core.  This is the code's reading (lines 267-275),
\* not the protocol's: once an action to its left stepped, what is told to
\* continue stays stopped (README.md:18, "only the for currently active
\* threads"); it then needs no signal.
Meaning(p, k) == IF Stepping(p[k]) THEN <<"STEP", SignalNumber(p[k])>>
                 ELSE IF \E j \in 1 .. k - 1 : Stepping(p[j]) THEN <<"STOP", 0>>
                 ELSE <<"CONT", SignalNumber(p[k])>>

Told(i) == IF flag[i] = "STOP" THEN <<"STOP", 0>> ELSE <<flag[i], nextSignal[i]>>

\* When a packet is accepted every core was told what its leftmost action says,
\* and to stay stopped if none is for it, whatever an earlier packet, refused
\* halfway, left in the flags.
LeftmostActionWins ==
    mainState = "VCONT" /\ GdbShaped(pkt) =>
        \A i \in Active :
            /\ \A k \in 1..Len(pkt) :
                  Leftmost(pkt, i, k) => Told(i) = Meaning(pkt, k)
            /\ (\A k \in 1..Len(pkt) : ~Matches(i, pkt[k])) => flag[i] = "STOP"

\* The cores run only if every action of the packet could be applied and gdb
\* was told so.
RefusedPacketRunsNothing ==
    mainState = "VCONT" =>
        /\ sent = << <<"OK">> >>
        /\ \A k \in 1..Len(pkt) :
              /\ pkt[k].type # "bad"
              /\ pkt[k].thr = "all" \/ \E i \in Active : thread[i] = pkt[k].thr

=============================================================================
