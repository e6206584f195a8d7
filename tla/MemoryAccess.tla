---------------------------- MODULE MemoryAccess ----------------------------
(***************************************************************************)
(* How the stub reads and writes the application: GetCoreMem, SetCoreMem,  *)
(* PeekWord32 and PokeInstr, over the copy of the kernel module.  Every    *)
(* core has an instruction cache of its own, which no write to the memory  *)
(* touches: the code invalidates the one of the core that it runs on, and  *)
(* PokeInstr has the agents of other cores invalidate theirs, one after    *)
(* another, while those cores stop and run.                                *)
(***************************************************************************)
EXTENDS CoreStates

CONSTANTS Addrs,    \* addresses that gdb may ask for
          Physical, \* those that OSEffectiveToPhysical translates
          Valid,    \* and those that OSIsAddressValid accepts
          Insns,    \* contents of a word
          NoLine    \* not in the instruction cache

\* KernelWriteU32 relies on the first part: it copies without a look at what
\* OSEffectiveToPhysical returned.
ASSUME MemoryAssumption == /\ Valid \subseteq Physical /\ Physical \subseteq Addrs
                           /\ Physical # {} /\ NoLine \notin Insns

VARIABLES
    mem,    \* the memory; data caches are flushed by every write
    icache, \* icache[c][a]: what core c executes at a without a look at mem
    poke,   \* PokeInstr in progress: its address and the next core of its
            \*   loop, 3 when it is over
    told    \* history: the cores that were in reach of the last write to a

memvars == <<mem, icache, poke, told>>

MemInit == /\ mem \in [Physical -> Insns]
           /\ icache = [c \in Cores |-> [a \in Physical |-> NoLine]]
           /\ poke = [addr |-> CHOOSE a \in Physical : TRUE, next |-> 3]
           /\ told = [a \in Physical |-> Cores]

Poking == poke.next < 3

\* The master agent is in its loop and can do something.
AgentFree == state[MasterCore] = "STOPPED" /\ ~Poking

\* CoreAgent_GetCoreMem: zeros where the address is not valid.
CoreMem(a) == IF a \in Valid THEN mem[a] ELSE "zero"

\* MasterAgent_PeekWord32 checks the address of its own variable, so that any
\* address is read that KernelWrite can translate; for one that it cannot, the
\* variable keeps its first value.
PeekedWord(a) == IF a \in Physical THEN mem[a] ELSE "baadf00d"

\* Mutated form: nothing is invalidated.
KeepsLine(c, a) == icache

\* ICInvalidateRange on core c.
Invalidated(c, a) == [icache EXCEPT ![c][a] = NoLine]

\* KernelWrite and KernelWriteU32 on core c; those `reach` are the cores that
\* will not miss it.
KernelWrite(c, a, v, reach) == /\ mem' = [mem EXCEPT ![a] = v]
                               /\ icache' = Invalidated(c, a)
                               /\ told' = [told EXCEPT ![a] = reach]

\* The agent of a stopped core writes; a write that is refused is reported as
\* a success as well.
CoreAgent_SetCoreMem(c, a, v) ==
    /\ state[c] = "STOPPED" /\ ~Poking
    /\ IF a \in Physical THEN KernelWrite(c, a, v, {c})
                         ELSE UNCHANGED <<mem, icache, told>>
    /\ UNCHANGED <<state, poke>>

\* MasterAgent_PokeInstr up to its loop, by the master agent, whose core is in
\* the stub.  An address that is not valid is refused with EINVAL.
MasterAgent_PokeInstr(a, v) ==
    /\ AgentFree
    /\ a \in Valid
    /\ KernelWrite(MasterCore, a, v, {c \in Cores : state[c] = "STOPPED"})
    /\ poke' = [addr |-> a, next |-> 0]
    /\ UNCHANGED state

\* Mutated form: the first core is left out.
FlushesFromOne(c) == c # 0 /\ state[c] = "STOPPED" /\ c # MasterCore

Flushes(c) == state[c] = "STOPPED" /\ c # MasterCore

\* One turn of the loop.  MasterAgent_FlushICBlock has the agent of the core
\* invalidate the line and waits for it.
PokeFlush ==
    /\ Poking
    /\ LET c == poke.next
       IN  /\ icache' = IF Flushes(c) THEN Invalidated(c, poke.addr) ELSE icache
           /\ poke' = [poke EXCEPT !.next = c + 1]
    /\ UNCHANGED <<state, mem, told>>

-----------------------------------------------------------------------------
(* The application and the cores.                                          *)

\* A running core executes what is at a; the line is in its cache then.
Execute(c, a) ==
    /\ state[c] = "RUNNING" /\ a \in Physical /\ icache[c][a] = NoLine
    /\ icache' = [icache EXCEPT ![c][a] = mem[a]]
    /\ UNCHANGED <<state, mem, poke, told>>

\* A core stops whenever it likes; it is resumed by the master agent, which
\* does one thing at a time.
CoreMoves(c) == /\ \/ Stopping(c) \/ Stopped(c)
                   \/ AgentFree /\ Resumed(c)
                /\ UNCHANGED memvars

MemStep == \/ \E a \in Addrs, v \in Insns : MasterAgent_PokeInstr(a, v)
           \/ PokeFlush
           \/ \E c \in Cores, a \in Addrs, v \in Insns : CoreAgent_SetCoreMem(c, a, v)
           \/ \E c \in Cores, a \in Addrs : Execute(c, a)

MemSpec == /\ StatesInit /\ MemInit
           /\ [][MemStep \/ \E c \in Cores : CoreMoves(c)]_<<state, memvars>>

-----------------------------------------------------------------------------
(* Properties.                                                             *)

\* Types of the variables.
MemTypeOK == /\ StatesOK
             /\ mem \in [Physical -> Insns]
             /\ icache \in [Cores -> [Physical -> Insns \cup {NoLine}]]
             /\ poke \in [addr : Physical, next : 0..3]
             /\ told \in [Physical -> SUBSET Cores]

\* A core that was stopped when an instruction was poked, or that wrote the
\* memory itself, executes from then on what the stub reads there, however the other
\* cores stop and run while PokeInstr goes through them: a breakpoint is not
\* missed, one that was removed is not met.  Of the other cores the code
\* takes no care: one that is STOPPING keeps its old line.
ExecutesWhatGdbReads ==
    \A a \in Physical : \A c \in told[a] :
        state[c] = "RUNNING" /\ icache[c][a] # NoLine =>
            /\ icache[c][a] = PeekedWord(a)
            /\ a \in Valid => icache[c][a] = CoreMem(a)

=============================================================================
