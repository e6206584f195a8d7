--------------------------- MODULE DebugRegisters ---------------------------
(***************************************************************************)
(* KeSetDABR and KeSetIABR, which the plugin puts behind two syscalls of   *)
(* coreinit: a debug register is set on the core of the caller or, with an *)
(* interrupt to the others and a rendezvous with them, on all cores.  Both *)
(* run in the kernel, with interrupts off.                                 *)
(***************************************************************************)
EXTENDS CoreStates

CONSTANTS CallAddrs, \* bound: addresses of data and code that are watched
          Probes,    \* bound: and those that the application uses
          Accesses,  \* bound: the sets of kinds of access that are watched
          MaxCalls   \* bound: calls of either function

ASSUME RegisterAssumption == /\ CallAddrs \subseteq Nat /\ Probes \subseteq Nat
                             /\ Accesses \subseteq SUBSET {"read", "write"}

VARIABLES
    reg,   \* reg[r][c]: the register r of core c
    call,  \* the call in progress: its core, register and value, what it asks
           \*   for, and `at`: "idle", "init", "send", "arrive" or "wait"
    ici,   \* ici[c]: the interrupt sent to core c: register and value
    rdv,   \* rdv[r]: the cores that arrived at the rendezvous for r
    held,  \* held[c]: the rendezvous whose handler core c is in, or "none"
    asked, \* history: asked[r] is what the last call set r to on all cores
    calls  \* bound: how many there were

regvars == <<reg, call, ici, rdv, held, asked, calls>>

Registers == {"DABR", "IABR"}
NoICI     == [r |-> "none", value |-> 0]
Nothing   == [addr |-> 0, kinds |-> {}]

RegInit == /\ reg = [r \in Registers |-> [c \in Cores |-> 0]]
           /\ call = [core |-> 0, r |-> "DABR", value |-> 0, want |-> Nothing,
                      at |-> "idle"]
           /\ ici = [c \in Cores |-> NoICI]
           /\ rdv = [r \in Registers |-> {}]
           /\ held = [c \in Cores |-> "none"]
           /\ asked = [r \in Registers |-> Nothing]
           /\ calls = 0

\* Mutated form: the bits of reads and writes are taken for one another.
MaskedSwapped(addr, kinds) ==
    8 * (addr \div 8) + 4 + (IF "write" \in kinds THEN 1 ELSE 0)
                          + (IF "read" \in kinds THEN 2 ELSE 0)

\* The low three bits of the address make room for BT (always), DW and DR.
MaskedDABR(addr, kinds) ==
    8 * (addr \div 8) + 4 + (IF "read" \in kinds THEN 1 ELSE 0)
                          + (IF "write" \in kinds THEN 2 ELSE 0)

MaskedIABR(addr) == 4 * (addr \div 4) + 3

InKernel(c) == held[c] # "none" \/ (call.at # "idle" /\ call.core = c)

\* Environment: no core is left in the handler of an earlier call.
Quiet == call.at = "idle" /\ \A c \in Cores : held[c] = "none"

\* The first part of either function, with or without allCores.
SetOwn(c, r, value, want, allCores) ==
    /\ Quiet /\ calls < MaxCalls /\ calls' = calls + 1
    /\ reg' = [reg EXCEPT ![r][c] = value]
    /\ asked' = [asked EXCEPT ![r] = Nothing]
    /\ call' = [core |-> c, r |-> r, value |-> value, want |-> want,
                at |-> IF allCores THEN "init" ELSE "idle"]
    /\ UNCHANGED <<ici, rdv, held>>

KeSetDABR(c, addr, allCores, kinds) ==
    SetOwn(c, "DABR", MaskedDABR(addr, kinds), [addr |-> addr, kinds |-> kinds],
           allCores)

KeSetIABR(c, addr, allCores) ==
    SetOwn(c, "IABR", MaskedIABR(addr), [addr |-> addr, kinds |-> {"fetch"}],
           allCores)

Goes(from, to) == call.at = from /\ call' = [call EXCEPT !.at = to]

\* Mutated form: the rendezvous of the call before is used as it is.
InitsNothing == Goes("init", "send") /\ UNCHANGED <<reg, ici, rdv, held, asked, calls>>

\* KiInitRendezvous
InitRendezvous == /\ Goes("init", "send")
                  /\ rdv' = [rdv EXCEPT ![call.r] = {}]
                  /\ UNCHANGED <<reg, ici, held, asked, calls>>

\* Mutated form: one core is not interrupted.
OthersButOne(c) == Cores \ {c, 0}

Others(c) == Cores \ {c}

\* KiSendICIToOtherCores
SendICI == /\ Goes("send", "arrive")
           /\ ici' = [c \in Cores |-> IF c \in Others(call.core)
                                      THEN [r |-> call.r, value |-> call.value]
                                      ELSE ici[c]]
           /\ UNCHANGED <<reg, rdv, held, asked, calls>>

\* KiWaitRendezvous marks the caller and waits for the mask 7.
Arrive == /\ Goes("arrive", "wait")
          /\ rdv' = [rdv EXCEPT ![call.r] = @ \cup {call.core}]
          /\ UNCHANGED <<reg, ici, held, asked, calls>>

\* Mutated form: with the mask 6.
ReturnsForTwo == /\ Goes("wait", "idle") /\ {1, 2} \subseteq rdv[call.r]
                 /\ asked' = [asked EXCEPT ![call.r] = call.want]
                 /\ UNCHANGED <<reg, ici, rdv, held, calls>>

Return == /\ Goes("wait", "idle") /\ rdv[call.r] = Cores
          /\ asked' = [asked EXCEPT ![call.r] = call.want]
          /\ UNCHANGED <<reg, ici, rdv, held, calls>>

KeStep == InitRendezvous \/ SendICI \/ Arrive \/ Return

-----------------------------------------------------------------------------
(* The kernel on the other cores.                                          *)

\* The interrupt is taken when interrupts are on: not in the stub, not in the
\* kernel.  The handler sets the register and goes to the rendezvous.
HandleICI(c) ==
    /\ ici[c] # NoICI /\ state[c] = "RUNNING" /\ ~InKernel(c)
    /\ reg' = [reg EXCEPT ![ici[c].r][c] = ici[c].value]
    /\ rdv' = [rdv EXCEPT ![ici[c].r] = @ \cup {c}]
    /\ held' = [held EXCEPT ![c] = ici[c].r]
    /\ ici' = [ici EXCEPT ![c] = NoICI]
    /\ UNCHANGED <<call, asked, calls>>

LeaveHandler(c) ==
    /\ held[c] # "none" /\ rdv[held[c]] = Cores
    /\ held' = [held EXCEPT ![c] = "none"]
    /\ UNCHANGED <<reg, call, ici, rdv, asked, calls>>

RegStep == \/ \E c \in Cores, addr \in CallAddrs, all \in BOOLEAN :
                 \/ \E kinds \in Accesses :
                       KeSetDABR(c, addr, all, kinds)
                 \/ KeSetIABR(c, addr, all)
           \/ KeStep
           \/ \E c \in Cores : HandleICI(c) \/ LeaveHandler(c)

-----------------------------------------------------------------------------
(* Properties.                                                             *)

\* Whether a register stops an access: the block, the kind and, for both, that
\* it is an access through the MMU.
Hits(r, value, addr, kind) ==
    IF r = "DABR"
    THEN /\ value \div 8 = addr \div 8 /\ (value \div 4) % 2 = 1
         /\ \/ kind = "read" /\ value % 2 = 1
            \/ kind = "write" /\ (value \div 2) % 2 = 1
    ELSE /\ value \div 4 = addr \div 4 /\ value % 4 = 3
         /\ kind = "fetch"

Block(r) == IF r = "DABR" THEN 8 ELSE 4

\* README.md:17, "with 8 byte accuracy": after a call for all cores has
\* returned, every core stops at the accesses asked for and at no other, also
\* when the cores come to the rendezvous late or arrived at an earlier one.
WatchedEverywhere ==
    \A r \in Registers : asked[r] # Nothing =>
        \A c \in Cores, addr \in Probes, kind \in {"read", "write", "fetch"} :
            Hits(r, reg[r][c], addr, kind) <=>
                /\ kind \in asked[r].kinds
                /\ addr \div Block(r) = asked[r].addr \div Block(r)

\* The call waits for a core that is in the stub while the master core, which
\* alone could resume it, is in the kernel for the same call.
Stuck == /\ call.at \in {"arrive", "wait"} /\ InKernel(MasterCore)
         /\ \E c \in Cores : ici[c] # NoICI /\ state[c] # "RUNNING"

=============================================================================
