---------------------------- MODULE MasterAccess ----------------------------
(***************************************************************************)
(* Memory and debug registers: both are written for all three cores while  *)
(* these stop, run and take interrupts.  A core in the kernel neither      *)
(* stops nor goes on, and the master agent does nothing while its core is  *)
(* there.                                                                  *)
(***************************************************************************)
EXTENDS MemoryAccess, DebugRegisters

VARIABLE scope \* bound: a behaviour works on the memory or on the registers,
               \*   which have only the states of the cores in common

vars == <<state, memvars, regvars, scope>>

Init == /\ StatesInit /\ MemInit /\ RegInit
        /\ scope \in {"memory", "registers"}

MayMove(c) == ~InKernel(c) /\ (state[c] = "STOPPED" => ~InKernel(MasterCore))

CoresMove == \E c \in Cores : MayMove(c) /\ CoreMoves(c) /\ UNCHANGED regvars

Next == /\ \/ scope = "memory" /\ MemStep /\ UNCHANGED regvars
           \/ scope = "registers" /\ RegStep /\ UNCHANGED <<state, memvars>>
           \/ CoresMove
        /\ UNCHANGED scope

Spec == Init /\ [][Next]_vars

\* The kernel runs, and so does the code of the stub on the way to its loop; an
\* interrupt that finds interrupts on again and again is taken.
FairSpec ==
    /\ Spec
    /\ WF_vars(KeStep /\ UNCHANGED <<state, memvars, scope>>)
    /\ \A c \in Cores :
          /\ SF_vars(HandleICI(c) /\ UNCHANGED <<state, memvars, scope>>)
          /\ WF_vars(LeaveHandler(c) /\ UNCHANGED <<state, memvars, scope>>)
          /\ WF_vars(/\ ~InKernel(c) /\ Stopped(c)
                     /\ UNCHANGED <<memvars, regvars, scope>>)

-----------------------------------------------------------------------------
(* Properties.                                                             *)

CanResume(c) == state[c] = "STOPPED" /\ AgentFree /\ MayMove(c)

\* With a gdb that lets a core go on sooner or later, a call for all cores
\* returns, whoever makes it and whichever cores are in the stub then, unless
\* it is stuck: it waits for a core that waits for the master, which waits.
CallReturns == (\A c \in Cores : []<>~CanResume(c))
                   => (call.at # "idle" ~> call.at = "idle" \/ Stuck)

\* Nothing that the kernel, the cores or the master can still do ends that
\* waiting: KeSetDABR and KeSetIABR wait without a limit and the one core that
\* could end it is among those that wait.
StuckForGood == [][Stuck => Stuck']_vars

=============================================================================
