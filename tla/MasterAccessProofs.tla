------------------------- MODULE MasterAccessProofs -------------------------
(***************************************************************************)
(* Theorems about memory and debug registers of three cores: for any       *)
(* addresses, contents, kinds of access, number of calls and master core.  *)
(***************************************************************************)
EXTENDS MasterAccess, TLAPS

-----------------------------------------------------------------------------
(* Memory and instruction caches.                                          *)

\* A core in reach of the last write has no old line, unless PokeInstr has not
\* come to it yet.
Lines == \A a \in Physical : \A c \in told[a] :
            \/ icache[c][a] \in {NoLine, mem[a]}
            \/ Poking /\ poke.addr = a /\ c # MasterCore /\ poke.next <= c

\* Such a core is stopped, and only the master agent, which is busy, resumes it.
Waiting == Poking => \A c \in told[poke.addr] : state[c] = "STOPPED"

MemInv == MemTypeOK /\ Lines /\ Waiting

MemNext == MemStep \/ \E c \in Cores : CoreMoves(c)

-----------------------------------------------------------------------------

LEMMA MemInvInit == StatesInit /\ MemInit => MemInv
  BY MemoryAssumption DEF StatesInit, MemInit, MemInv, MemTypeOK, StatesOK, Lines,
     Waiting, Poking, Cores

\* A write by core c, by SetCoreMem or PokeInstr, reaches those that it says.
LEMMA SetCoreMemKeeps ==
  ASSUME NEW c \in Cores, NEW a \in Addrs, NEW v \in Insns, MemInv,
         CoreAgent_SetCoreMem(c, a, v)
  PROVE  MemInv'
<1>1. CASE a \notin Physical
  <2>1. UNCHANGED <<state, memvars>>
    BY <1>1 DEF CoreAgent_SetCoreMem, memvars
  <2> QED
    BY <2>1 DEF MemInv, MemTypeOK, StatesOK, Lines, Waiting, Poking, memvars
<1>2. CASE a \in Physical
  <2>1. /\ mem' = [mem EXCEPT ![a] = v]
        /\ icache' = [icache EXCEPT ![c][a] = NoLine]
        /\ told' = [told EXCEPT ![a] = {c}]
        /\ UNCHANGED <<state, poke>> /\ ~Poking /\ ~Poking'
    BY <1>2 DEF CoreAgent_SetCoreMem, KernelWrite, Invalidated, Poking
  <2>2. MemTypeOK'
    BY <2>1, <1>2 DEF MemInv, MemTypeOK, StatesOK
  <2>3. ASSUME NEW b \in Physical, NEW d \in told'[b]
        PROVE  icache'[d][b] \in {NoLine, mem'[b]}
    BY <2>1, <1>2, <2>3 DEF MemInv, MemTypeOK, Lines
  <2> QED
    BY <2>1, <2>2, <2>3 DEF MemInv, Lines, Waiting
<1> QED
  BY <1>1, <1>2

LEMMA PokeKeeps ==
  ASSUME NEW a \in Addrs, NEW v \in Insns, MemInv, MasterAgent_PokeInstr(a, v)
  PROVE  MemInv'
<1> USE MasterAssumption
<1>1. /\ a \in Physical
      /\ mem' = [mem EXCEPT ![a] = v]
      /\ icache' = [icache EXCEPT ![MasterCore][a] = NoLine]
      /\ told' = [told EXCEPT ![a] = {c \in Cores : state[c] = "STOPPED"}]
      /\ poke' = [addr |-> a, next |-> 0]
      /\ state' = state /\ ~Poking
  BY MemoryAssumption DEF MasterAgent_PokeInstr, AgentFree, KernelWrite, Invalidated
<1>2. MemTypeOK'
  BY <1>1 DEF MemInv, MemTypeOK, StatesOK
<1>3. Poking' /\ poke'.addr = a /\ poke'.next = 0
  BY <1>1 DEF Poking
<1>4. ASSUME NEW b \in Physical, NEW d \in told'[b]
      PROVE  icache'[d][b] \in {NoLine, mem'[b]}
             \/ (b = a /\ d # MasterCore /\ d \in Cores)
  <2>1. CASE b = a
    BY <2>1, <1>1, <1>4 DEF MemInv, MemTypeOK
  <2>2. CASE b # a
    BY <2>2, <1>1, <1>4 DEF MemInv, MemTypeOK, Lines
  <2> QED
    BY <2>1, <2>2
<1>5. Lines'
  BY <1>3, <1>4 DEF Lines, Cores
<1>6. Waiting'
  BY <1>1, <1>3 DEF Waiting, MemInv, MemTypeOK
<1> QED
  BY <1>2, <1>5, <1>6 DEF MemInv

LEMMA PokeFlushKeeps == ASSUME MemInv, PokeFlush PROVE MemInv'
<1> DEFINE n == poke.next
<1>1. /\ n \in Cores /\ Poking
      /\ poke' = [poke EXCEPT !.next = n + 1]
      /\ icache' = IF Flushes(n) THEN [icache EXCEPT ![n][poke.addr] = NoLine]
                                 ELSE icache
      /\ UNCHANGED <<state, mem, told>>
  BY DEF PokeFlush, MemInv, MemTypeOK, Poking, Invalidated, Cores
<1>2. MemTypeOK'
  BY <1>1 DEF MemInv, MemTypeOK, StatesOK, Cores
<1>3. poke'.addr = poke.addr /\ poke'.next = n + 1
  BY <1>1 DEF MemInv, MemTypeOK
<1>4. ASSUME NEW b \in Physical, NEW d \in told'[b]
      PROVE  \/ icache'[d][b] \in {NoLine, mem'[b]}
             \/ Poking' /\ poke'.addr = b /\ d # MasterCore /\ poke'.next <= d
  <2>1. d \in Cores /\ d \in told[b]
    BY <1>1, <1>4 DEF MemInv, MemTypeOK
  <2>2. CASE icache[d][b] \in {NoLine, mem[b]}
    BY <1>1, <2>1, <2>2 DEF MemInv, MemTypeOK
  <2>3. CASE poke.addr = b /\ d # MasterCore /\ n = d
    <3>1. Flushes(n)
      BY <2>1, <2>3, <1>1 DEF Flushes, MemInv, Waiting
    <3> QED
      BY <3>1, <1>1, <2>1, <2>3 DEF MemInv, MemTypeOK
  <2>4. CASE poke.addr = b /\ d # MasterCore /\ n < d
    BY <1>1, <1>3, <2>1, <2>4 DEF Poking, Cores
  <2> QED
    BY <2>1, <2>2, <2>3, <2>4, <1>1 DEF MemInv, Lines, Cores
<1>5. Lines'
  BY <1>4 DEF Lines
<1>6. Waiting'
  BY <1>1, <1>3 DEF Waiting, MemInv
<1> QED
  BY <1>2, <1>5, <1>6 DEF MemInv

LEMMA ExecuteKeeps ==
  ASSUME NEW c \in Cores, NEW a \in Addrs, MemInv, Execute(c, a)
  PROVE  MemInv'
<1>1. /\ a \in Physical
      /\ icache' = [icache EXCEPT ![c][a] = mem[a]]
      /\ UNCHANGED <<state, mem, poke, told>>
  BY DEF Execute
<1>2. MemTypeOK'
  BY <1>1 DEF MemInv, MemTypeOK, StatesOK
<1>3. ASSUME NEW b \in Physical, NEW d \in told'[b]
      PROVE  icache'[d][b] \in {icache[d][b], mem[b]} /\ d \in told[b]
  BY <1>1, <1>3 DEF MemInv, MemTypeOK
<1>4. Lines'
  BY <1>1, <1>3 DEF Lines, MemInv, Poking
<1>5. Waiting'
  BY <1>1 DEF Waiting, MemInv, Poking
<1> QED
  BY <1>2, <1>4, <1>5 DEF MemInv

LEMMA CoreMovesKeeps == ASSUME NEW c \in Cores, MemInv, CoreMoves(c) PROVE MemInv'
<1>1. UNCHANGED memvars
  BY DEF CoreMoves
<1>2. MemTypeOK'
  BY <1>1 DEF CoreMoves, Stopping, Stopped, Resumed, Moves, MemInv, MemTypeOK,
     StatesOK, memvars, AgentFree, Poking
<1>3. Lines'
  BY <1>1 DEF Lines, MemInv, memvars, Poking
<1>4. ASSUME NEW d \in Cores, Poking, state[d] = "STOPPED"
      PROVE  state'[d] = "STOPPED"
  BY <1>4 DEF CoreMoves, AgentFree, Stopping, Stopped, Resumed, Moves, MemInv, MemTypeOK,
     StatesOK
<1>5. Waiting'
  BY <1>1, <1>4 DEF Waiting, MemInv, MemTypeOK, memvars, Poking
<1> QED
  BY <1>2, <1>3, <1>5 DEF MemInv

LEMMA MemInvNext == MemInv /\ [MemNext]_<<state, memvars>> => MemInv'
<1> SUFFICES ASSUME MemInv, [MemNext]_<<state, memvars>> PROVE MemInv'
  OBVIOUS
<1>1. CASE UNCHANGED <<state, memvars>>
  BY <1>1 DEF MemInv, MemTypeOK, StatesOK, Lines, Waiting, Poking, memvars
<1>2. CASE MemStep
  BY <1>2, SetCoreMemKeeps, PokeKeeps, PokeFlushKeeps, ExecuteKeeps DEF MemStep
<1>3. CASE \E c \in Cores : CoreMoves(c)
  BY <1>3, CoreMovesKeeps
<1> QED
  BY <1>1, <1>2, <1>3 DEF MemNext

\* Registers, kernel and interrupts do not touch the memory.
LEMMA MasterAccessMapsToMemory == [Next]_vars => [MemNext]_<<state, memvars>>
  BY DEF Next, vars, MemNext, CoresMove

LEMMA InvExecutes == MemInv => ExecutesWhatGdbReads
  BY MemoryAssumption
     DEF MemInv, MemTypeOK, Lines, Waiting, ExecutesWhatGdbReads, CoreMem, PeekedWord

-----------------------------------------------------------------------------

\* The inductive invariant of memory and instruction caches.
THEOREM MemoryInductive == Spec => []MemInv
<1>1. Init => MemInv
  BY MemInvInit DEF Init
<1>2. MemInv /\ [Next]_vars => MemInv'
  BY MemInvNext, MasterAccessMapsToMemory
<1> QED
  BY <1>1, <1>2, PTL DEF Spec

\* The types of the memory, the caches and PokeInstr (MasterAgent_Utils.cpp and
\* CoreAgent_MemorySetGet.cpp).
THEOREM MemoryTypes == Spec => []MemTypeOK
<1>1. MemInv => MemTypeOK
  BY DEF MemInv
<1> QED
  BY <1>1, MemoryInductive, PTL

\* A core that was stopped when MasterAgent_PokeInstr wrote an instruction, or
\* that wrote it itself, never executes another one from its cache.
THEOREM StoppedCoresExecuteWhatGdbReads == Spec => []ExecutesWhatGdbReads
  BY InvExecutes, MemoryInductive, PTL

-----------------------------------------------------------------------------
(* Debug registers.                                                        *)

Wants == [addr : Nat, kinds : SUBSET {"read", "write", "fetch"}]

RegTypes ==
    /\ reg \in [Registers -> [Cores -> Nat]]
    /\ call \in [core : Cores, r : Registers, value : Nat, want : Wants,
                 at : {"idle", "init", "send", "arrive", "wait"}]
    /\ ici \in [Cores -> [r : Registers \cup {"none"}, value : Nat]]
    /\ \A c \in Cores : ici[c] = NoICI \/ ici[c].r \in Registers
    /\ rdv \in [Registers -> SUBSET Cores]
    /\ asked \in [Registers -> Wants]

\* What a register holds for a wish.
Masked(r, want) == IF r = "DABR" THEN MaskedDABR(want.addr, want.kinds)
                                 ELSE MaskedIABR(want.addr)

Kinds(r) == IF r = "DABR" THEN {"read", "write"} ELSE {"fetch"}

\* The value of a call is that of its wish, and its core has it already.
OwnSet == call.at # "idle" =>
            /\ call.value = Masked(call.r, call.want)
            /\ call.r = "DABR" => call.want.kinds \subseteq Kinds("DABR")
            /\ call.r = "IABR" => call.want.kinds = Kinds("IABR")
            /\ reg[call.r][call.core] = call.value
            /\ asked[call.r] = Nothing

\* No interrupt is on its way before SendICI and after the call, and never one to
\* the caller.
NoneSent == \A c \in Cores :
               call.at \in {"idle", "init", "send"} \/ c = call.core => ici[c] = NoICI

Empty == call.at = "send" => rdv[call.r] = {}

\* After it a core has its interrupt, or has the value and is at the rendezvous.
Answered ==
    call.at \in {"arrive", "wait"} =>
        \A c \in Cores \ {call.core} :
            \/ c \notin rdv[call.r] /\ ici[c] = [r |-> call.r, value |-> call.value]
            \/ c \in rdv[call.r] /\ ici[c] = NoICI /\ reg[call.r][c] = call.value

\* What was asked for last is what all cores have.
AllSet == \A r \in Registers : asked[r] # Nothing =>
            /\ \A c \in Cores : reg[r][c] = Masked(r, asked[r])
            /\ r = "DABR" => asked[r].kinds \subseteq Kinds("DABR")
            /\ r = "IABR" => asked[r].kinds = Kinds("IABR")

RegInv == RegTypes /\ OwnSet /\ NoneSent /\ Empty /\ Answered /\ AllSet

-----------------------------------------------------------------------------
(* The bits.                                                               *)

LEMMA DABRBits ==
  ASSUME NEW q \in Nat, NEW r \in 0..1, NEW w \in 0..1
  PROVE  LET v == 8 * q + 4 + r + 2 * w
         IN  /\ v \in Nat /\ v \div 8 = q /\ (v \div 4) % 2 = 1
             /\ v % 2 = r /\ (v \div 2) % 2 = w
<1> DEFINE v == 8 * q + 4 + r + 2 * w
<1>1. v \in Nat
  OBVIOUS
<1>2. v \div 8 = q
  OBVIOUS
<1>3. v \div 4 = 2 * q + 1
  OBVIOUS
<1>4. v \div 2 = 2 * (2 * q + 1) + w
  OBVIOUS
<1>5. v % 2 = r
  OBVIOUS
<1> HIDE DEF v
<1>6. /\ v \in Nat /\ v \div 8 = q /\ (v \div 4) % 2 = 1
      /\ v % 2 = r /\ (v \div 2) % 2 = w
  BY <1>1, <1>2, <1>3, <1>4, <1>5
<1> QED
  BY <1>6 DEF v

LEMMA IABRBits ==
  ASSUME NEW a \in Nat, NEW v, v = 4 * (a \div 4) + 3
  PROVE  v \in Nat /\ v \div 4 = a \div 4 /\ v % 4 = 3
<1> DEFINE q == a \div 4
<1>1. q \in Nat
  BY Z3
<1>2. v = 4 * q + 3
  OBVIOUS
<1> HIDE DEF q
<1> QED
  BY <1>1, <1>2 DEF q

LEMMA MaskedNat == ASSUME NEW r \in Registers, NEW want \in Wants
                   PROVE  Masked(r, want) \in Nat
  BY DABRBits, IABRBits DEF Masked, MaskedDABR, MaskedIABR, Wants, Registers

\* A register with the value for a wish stops what was wished and nothing else.
LEMMA MaskedHits ==
  ASSUME NEW r \in Registers, NEW want \in Wants, NEW addr \in Nat,
         NEW kind \in {"read", "write", "fetch"},
         r = "DABR" => want.kinds \subseteq Kinds("DABR"),
         r = "IABR" => want.kinds = Kinds("IABR")
  PROVE  Hits(r, Masked(r, want), addr, kind) <=>
            kind \in want.kinds /\ addr \div Block(r) = want.addr \div Block(r)
<1> DEFINE v == Masked(r, want)
<1>0. want.addr \in Nat
  BY DEF Wants
<1>1. CASE r = "DABR"
  <2> DEFINE rd == IF "read" \in want.kinds THEN 1 ELSE 0
             wr == IF "write" \in want.kinds THEN 1 ELSE 0
  <2>1. v = 8 * (want.addr \div 8) + 4 + rd + 2 * wr
    BY <1>0, <1>1 DEF Masked, MaskedDABR
  <2>2. rd \in 0..1 /\ wr \in 0..1
    OBVIOUS
  <2>3. rd = 1 <=> "read" \in want.kinds
    OBVIOUS
  <2>4. wr = 1 <=> "write" \in want.kinds
    OBVIOUS
  <2> DEFINE q == want.addr \div 8
  <2>5. q \in Nat
    BY <1>0
  <2> HIDE DEF v, rd, wr, q
  <2>6. v = 8 * q + 4 + rd + 2 * wr
    BY <2>1 DEF q
  <2>7. /\ v \div 8 = q /\ (v \div 4) % 2 = 1
         /\ v % 2 = rd /\ (v \div 2) % 2 = wr
    BY <2>2, <2>5, <2>6, DABRBits
  <2>8. /\ v \div 8 = want.addr \div 8 /\ (v \div 4) % 2 = 1
        /\ v % 2 = rd /\ (v \div 2) % 2 = wr
    BY <2>7 DEF q
  <2>9. Hits(r, v, addr, kind) <=>
           /\ want.addr \div 8 = addr \div 8
           /\ (kind = "read" /\ rd = 1) \/ (kind = "write" /\ wr = 1)
    BY <1>1, <2>8 DEF Hits
  <2>10. Hits(r, v, addr, kind) <=>
            kind \in want.kinds /\ addr \div Block(r) = want.addr \div Block(r)
    BY <1>1, <2>3, <2>4, <2>9 DEF Block, Kinds
  <2> QED
    BY <2>10 DEF v
<1>2. CASE r = "IABR"
  <2>1. v = 4 * (want.addr \div 4) + 3
    BY <1>2 DEF Masked, MaskedIABR
  <2> HIDE DEF v
  <2>2. v \div 4 = want.addr \div 4 /\ v % 4 = 3
    BY <1>0, <2>1, IABRBits
  <2>3. Hits(r, v, addr, kind) <=>
            kind \in want.kinds /\ addr \div Block(r) = want.addr \div Block(r)
    BY <1>2, <2>2 DEF Hits, Block, Kinds
  <2> QED
    BY <2>3 DEF v
<1> QED
  BY <1>1, <1>2 DEF Registers

-----------------------------------------------------------------------------
(* The invariant.                                                          *)

LEMMA RegInvInit == RegInit => RegInv
  BY DEF RegInit, RegInv, RegTypes, OwnSet, NoneSent, Empty, Answered, AllSet,
     Registers, Cores, NoICI, Nothing, Wants

LEMMA SetOwnKeeps ==
  ASSUME NEW c \in Cores, NEW r \in Registers, NEW want \in Wants, NEW all \in BOOLEAN,
         r = "DABR" => want.kinds \subseteq Kinds("DABR"),
         r = "IABR" => want.kinds = Kinds("IABR"),
         RegInv, SetOwn(c, r, Masked(r, want), want, all)
  PROVE  RegInv'
<1> DEFINE v == Masked(r, want)
<1>1. v \in Nat
  BY MaskedNat
<1> HIDE DEF v
<1>2. /\ call.at = "idle"
      /\ reg' = [reg EXCEPT ![r][c] = v]
      /\ asked' = [asked EXCEPT ![r] = Nothing]
      /\ call' = [core |-> c, r |-> r, value |-> v, want |-> want,
                  at |-> IF all THEN "init" ELSE "idle"]
      /\ UNCHANGED <<ici, rdv>>
  BY DEF SetOwn, Quiet, v
<1>3. Nothing \in Wants
  BY DEF Nothing, Wants
<1>4. RegTypes'
  BY <1>1, <1>2, <1>3 DEF RegInv, RegTypes
<1>5. /\ reg'[r][c] = v /\ asked'[r] = Nothing
      /\ \A s \in Registers \ {r} : reg'[s] = reg[s] /\ asked'[s] = asked[s]
      /\ call'.at \in {"idle", "init"} /\ call'.r = r /\ call'.core = c
      /\ call'.value = v /\ call'.want = want
  BY <1>2 DEF RegInv, RegTypes
<1>6. OwnSet'
  BY <1>5 DEF OwnSet, v
<1>7. NoneSent' /\ Empty' /\ Answered'
  BY <1>2, <1>5 DEF RegInv, NoneSent, Empty, Answered
<1>8. AllSet'
  BY <1>5 DEF RegInv, AllSet
<1> QED
  BY <1>4, <1>6, <1>7, <1>8 DEF RegInv

LEMMA KeSetDABRKeeps ==
  ASSUME NEW c \in Cores, NEW addr \in CallAddrs, NEW all \in BOOLEAN,
         NEW kinds \in Accesses, RegInv, KeSetDABR(c, addr, all, kinds)
  PROVE  RegInv'
<1> DEFINE want == [addr |-> addr, kinds |-> kinds]
<1>1. want \in Wants /\ want.kinds \subseteq Kinds("DABR")
  BY RegisterAssumption DEF Wants, Kinds
<1>2. SetOwn(c, "DABR", Masked("DABR", want), want, all)
  BY DEF KeSetDABR, Masked
<1>3. "DABR" \in Registers
  BY DEF Registers
<1> HIDE DEF want
<1> QED
  BY <1>1, <1>2, <1>3, SetOwnKeeps

LEMMA KeSetIABRKeeps ==
  ASSUME NEW c \in Cores, NEW addr \in CallAddrs, NEW all \in BOOLEAN,
         RegInv, KeSetIABR(c, addr, all)
  PROVE  RegInv'
<1> DEFINE want == [addr |-> addr, kinds |-> {"fetch"}]
<1>1. want \in Wants /\ want.kinds = Kinds("IABR")
  BY RegisterAssumption DEF Wants, Kinds
<1>2. SetOwn(c, "IABR", Masked("IABR", want), want, all)
  BY DEF KeSetIABR, Masked
<1>3. "IABR" \in Registers
  BY DEF Registers
<1> HIDE DEF want
<1> QED
  BY <1>1, <1>2, <1>3, SetOwnKeeps

\* The steps of a call change its place and nothing else of it.
LEMMA GoesKeepsCall ==
  ASSUME RegTypes, NEW from, NEW to \in {"idle", "init", "send", "arrive", "wait"},
         Goes(from, to)
  PROVE  /\ call.at = from /\ call'.at = to
         /\ call'.core = call.core /\ call'.r = call.r
         /\ call'.value = call.value /\ call'.want = call.want
         /\ call' \in [core : Cores, r : Registers, value : Nat, want : Wants,
                       at : {"idle", "init", "send", "arrive", "wait"}]
  BY DEF RegTypes, Goes

LEMMA InitRendezvousKeeps == ASSUME RegInv, InitRendezvous PROVE RegInv'
<1>1. Goes("init", "send") /\ RegTypes
  BY DEF InitRendezvous, RegInv
<1>2. /\ rdv' = [rdv EXCEPT ![call.r] = {}]
      /\ UNCHANGED <<reg, ici, asked>>
  BY DEF InitRendezvous
<1>3. RegTypes'
  BY <1>1, <1>2, GoesKeepsCall DEF RegTypes
<1>4. OwnSet' /\ NoneSent' /\ Answered' /\ AllSet'
  BY <1>1, <1>2, GoesKeepsCall DEF RegInv, OwnSet, NoneSent, Answered, AllSet
<1>5. Empty'
  BY <1>1, <1>2, GoesKeepsCall DEF Empty, RegTypes
<1> QED
  BY <1>3, <1>4, <1>5 DEF RegInv

LEMMA SendICIKeeps == ASSUME RegInv, SendICI PROVE RegInv'
<1>1. Goes("send", "arrive") /\ RegTypes
  BY DEF SendICI, RegInv
<1>2. /\ ici' = [c \in Cores |-> IF c \in Cores \ {call.core}
                                 THEN [r |-> call.r, value |-> call.value]
                                 ELSE ici[c]]
      /\ UNCHANGED <<reg, rdv, asked>>
  BY DEF SendICI, Others
<1>3. RegTypes'
  BY <1>1, <1>2, GoesKeepsCall DEF RegTypes
<1>4. OwnSet' /\ NoneSent' /\ Empty' /\ AllSet'
  BY <1>1, <1>2, GoesKeepsCall DEF RegInv, OwnSet, NoneSent, Empty, AllSet
<1>5. Answered'
  BY <1>1, <1>2, GoesKeepsCall DEF RegInv, Empty, Answered
<1> QED
  BY <1>3, <1>4, <1>5 DEF RegInv

LEMMA ArriveKeeps == ASSUME RegInv, Arrive PROVE RegInv'
<1>1. Goes("arrive", "wait") /\ RegTypes
  BY DEF Arrive, RegInv
<1>2. /\ rdv' = [rdv EXCEPT ![call.r] = rdv[call.r] \cup {call.core}]
      /\ UNCHANGED <<reg, ici, asked>>
  BY DEF Arrive
<1>3. RegTypes'
  BY <1>1, <1>2, GoesKeepsCall DEF RegTypes
<1>4. OwnSet' /\ NoneSent' /\ Empty' /\ AllSet'
  BY <1>1, <1>2, GoesKeepsCall DEF RegInv, OwnSet, NoneSent, Empty, AllSet
<1>5. rdv'[call.r] = rdv[call.r] \cup {call.core}
  BY <1>1, <1>2 DEF RegTypes
<1>6. Answered'
  BY <1>1, <1>2, <1>5, GoesKeepsCall DEF RegInv, Answered
<1> QED
  BY <1>3, <1>4, <1>6 DEF RegInv

LEMMA ReturnKeeps == ASSUME RegInv, Return PROVE RegInv'
<1>1. Goes("wait", "idle") /\ RegTypes
  BY DEF Return, RegInv
<1>2. /\ rdv[call.r] = Cores
      /\ asked' = [asked EXCEPT ![call.r] = call.want]
      /\ UNCHANGED <<reg, ici, rdv>>
  BY DEF Return
<1>3. RegTypes'
  BY <1>1, <1>2, GoesKeepsCall DEF RegTypes
<1>4. OwnSet' /\ Empty' /\ Answered'
  BY <1>1, GoesKeepsCall DEF OwnSet, Empty, Answered
<1>5. /\ call.core \in Cores /\ reg[call.r][call.core] = call.value
      /\ \A c \in Cores \ {call.core} : ici[c] = NoICI /\ reg[call.r][c] = call.value
      /\ call.value = Masked(call.r, call.want)
  BY <1>1, <1>2, GoesKeepsCall DEF RegInv, RegTypes, OwnSet, Answered
<1>6. AllSet'
  BY <1>1, <1>2, <1>5, GoesKeepsCall DEF RegInv, RegTypes, OwnSet, AllSet
<1>7. NoneSent'
  BY <1>1, <1>2, <1>5, GoesKeepsCall DEF RegInv, RegTypes, NoneSent, Answered
<1> QED
  BY <1>3, <1>4, <1>6, <1>7 DEF RegInv

LEMMA HandleICIKeeps == ASSUME NEW c \in Cores, RegInv, HandleICI(c) PROVE RegInv'
<1>1. /\ ici[c] # NoICI /\ ici[c].r \in Registers /\ ici[c].value \in Nat
      /\ reg' = [reg EXCEPT ![ici[c].r][c] = ici[c].value]
      /\ rdv' = [rdv EXCEPT ![ici[c].r] = rdv[ici[c].r] \cup {c}]
      /\ ici' = [ici EXCEPT ![c] = NoICI]
      /\ UNCHANGED <<call, asked>>
  BY DEF HandleICI, RegInv, RegTypes
<1>2. /\ NoICI \in [r : Registers \cup {"none"}, value : Nat]
  BY DEF NoICI
<1>3. RegTypes'
  BY <1>1, <1>2 DEF RegInv, RegTypes
<1>4. call.at \in {"arrive", "wait"} /\ c # call.core
  <2>1. c # call.core \/ call.at \notin {"arrive", "wait"}
    BY <1>1 DEF HandleICI, InKernel
  <2> QED
    BY <1>1, <2>1 DEF RegInv, RegTypes, NoneSent
<1>5. ici[c] = [r |-> call.r, value |-> call.value]
  BY <1>1, <1>4 DEF RegInv, Answered
<1>6. /\ reg' = [reg EXCEPT ![call.r][c] = call.value]
      /\ rdv' = [rdv EXCEPT ![call.r] = rdv[call.r] \cup {c}]
  BY <1>1, <1>5
<1>7. OwnSet' /\ NoneSent' /\ Empty'
  BY <1>1, <1>4, <1>6 DEF RegInv, RegTypes, OwnSet, NoneSent, Empty
<1>8. Answered'
  BY <1>1, <1>4, <1>6 DEF RegInv, RegTypes, Answered
<1>9. AllSet'
  BY <1>1, <1>4, <1>6 DEF RegInv, RegTypes, OwnSet, AllSet
<1> QED
  BY <1>3, <1>7, <1>8, <1>9 DEF RegInv

LEMMA RegInvSame == RegInv /\ UNCHANGED <<reg, call, ici, rdv, asked>> => RegInv'
  BY DEF RegInv, RegTypes, OwnSet, NoneSent, Empty, Answered, AllSet

LEMMA RegInvNext == RegInv /\ [Next]_vars => RegInv'
<1> SUFFICES ASSUME RegInv, [Next]_vars PROVE RegInv'
  OBVIOUS
<1>1. CASE UNCHANGED regvars
  BY <1>1, RegInvSame DEF regvars
<1>2. CASE RegStep
  <2>1. ASSUME NEW c \in Cores, LeaveHandler(c) PROVE RegInv'
    BY <2>1, RegInvSame DEF LeaveHandler
  <2> QED
    BY <1>2, <2>1, KeSetDABRKeeps, KeSetIABRKeeps, InitRendezvousKeeps, SendICIKeeps,
       ArriveKeeps, ReturnKeeps, HandleICIKeeps DEF RegStep, KeStep
<1> QED
  BY <1>1, <1>2 DEF Next, CoresMove, vars

LEMMA RegInvWatches == RegInv => WatchedEverywhere
<1> SUFFICES ASSUME RegInv, NEW r \in Registers, asked[r] # Nothing,
                    NEW c \in Cores, NEW addr \in Probes,
                    NEW kind \in {"read", "write", "fetch"}
             PROVE  Hits(r, reg[r][c], addr, kind) <=>
                       /\ kind \in asked[r].kinds
                       /\ addr \div Block(r) = asked[r].addr \div Block(r)
  BY DEF WatchedEverywhere
<1>1. asked[r] \in Wants /\ addr \in Nat /\ reg[r][c] = Masked(r, asked[r])
  BY RegisterAssumption DEF RegInv, RegTypes, AllSet
<1>2. /\ r = "DABR" => asked[r].kinds \subseteq Kinds("DABR")
      /\ r = "IABR" => asked[r].kinds = Kinds("IABR")
  BY DEF RegInv, AllSet
<1> QED
  BY <1>1, <1>2, MaskedHits

-----------------------------------------------------------------------------

\* The inductive invariant of a call of KeSetDABR or KeSetIABR and its rendezvous.
THEOREM RegistersInductive == Spec => []RegInv
<1>1. Init => RegInv
  BY RegInvInit DEF Init
<1> QED
  BY <1>1, RegInvNext, PTL DEF Spec

\* After KeSetDABR or KeSetIABR has returned from a call for all cores, every core
\* stops at the accesses that were asked for, and at no other.
THEOREM WatchesReachAllCores == Spec => []WatchedEverywhere
  BY RegInvWatches, RegistersInductive, PTL

-----------------------------------------------------------------------------
(* A call that is stuck.                                                   *)

\* A core in a handler is there for the call in progress.
HeldHere == /\ held \in [Cores -> Registers \cup {"none"}]
            /\ \A c \in Cores : held[c] # "none" /\ call.at # "idle" => held[c] = call.r

LEMMA HeldHereNext == RegInv /\ HeldHere /\ [Next]_vars => HeldHere'
<1> SUFFICES ASSUME RegInv, HeldHere, [Next]_vars PROVE HeldHere'
  OBVIOUS
<1> USE DEF HeldHere
<1>1. CASE UNCHANGED regvars
  BY <1>1 DEF regvars
<1>2. ASSUME NEW c \in Cores, NEW r, NEW v, NEW want, NEW all, SetOwn(c, r, v, want, all)
      PROVE  HeldHere'
  BY <1>2 DEF SetOwn, Quiet
<1>3. CASE KeStep
  <2>1. held' = held /\ call'.r = call.r /\ call.at # "idle"
    BY <1>3, GoesKeepsCall
       DEF KeStep, InitRendezvous, SendICI, Arrive, Return, Goes, RegInv
  <2> QED
    BY <2>1
<1>4. ASSUME NEW c \in Cores, HandleICI(c) PROVE HeldHere'
  <2>1. call.at \in {"arrive", "wait"} /\ c # call.core
    BY <1>4 DEF HandleICI, InKernel, RegInv, RegTypes, NoneSent
  <2>2. ici[c].r = call.r /\ call.r \in Registers
    BY <1>4, <2>1 DEF HandleICI, RegInv, RegTypes, Answered
  <2> QED
    BY <1>4, <2>1, <2>2 DEF HandleICI
<1>5. ASSUME NEW c \in Cores, LeaveHandler(c) PROVE HeldHere'
  BY <1>5 DEF LeaveHandler
<1> QED
  BY <1>1, <1>2, <1>3, <1>4, <1>5
     DEF Next, RegStep, KeSetDABR, KeSetIABR, CoresMove, vars

\* While a call is stuck, no core that it waits for goes on or takes its
\* interrupt: the master agent, which would resume it, has its core in the kernel.
LEMMA StuckStates ==
  ASSUME StatesOK, Stuck, CoresMove
  PROVE  Stuck'
<1>1. PICK d \in Cores : MayMove(d) /\ CoreMoves(d)
  BY DEF CoresMove
<1>2. PICK c \in Cores : ici[c] # NoICI /\ state[c] # "RUNNING"
  BY DEF Stuck
<1>3. UNCHANGED regvars
  BY DEF CoresMove
<1>4. state'[c] # "RUNNING"
  BY <1>1, <1>2 DEF Stuck, MayMove, CoreMoves, Stopping, Stopped, Resumed, Moves, StatesOK
<1> QED
  BY <1>2, <1>3, <1>4 DEF Stuck, InKernel, regvars

LEMMA StuckCalls ==
  ASSUME RegInv, HeldHere, Stuck, RegStep, UNCHANGED state
  PROVE  Stuck'
<1> USE MasterAssumption
<1>1. PICK c \in Cores : ici[c] # NoICI /\ state[c] # "RUNNING"
  BY DEF Stuck
<1>2. call.at \in {"arrive", "wait"} /\ InKernel(MasterCore)
  BY DEF Stuck
<1>3. c # call.core /\ c \notin rdv[call.r]
  BY <1>1, <1>2 DEF RegInv, NoneSent, Answered
<1>4. CASE Arrive
  <2>1. /\ call'.at = "wait" /\ call'.core = call.core
        /\ UNCHANGED <<ici, held>>
    BY <1>4, GoesKeepsCall DEF Arrive, RegInv
  <2> QED
    BY <1>1, <1>2, <2>1 DEF Stuck, InKernel
<1>5. CASE Return
  BY <1>3, <1>5 DEF Return
<1>6. ASSUME NEW d \in Cores, HandleICI(d) PROVE Stuck'
  <2>1. /\ d # c /\ d # MasterCore /\ UNCHANGED call
        /\ ici' = [ici EXCEPT ![d] = NoICI]
        /\ held' = [held EXCEPT ![d] = ici[d].r]
    BY <1>1, <1>2, <1>6 DEF HandleICI
  <2>2. ici'[c] = ici[c] /\ held'[MasterCore] = held[MasterCore]
    BY <2>1 DEF RegInv, RegTypes, HeldHere
  <2> QED
    BY <1>1, <1>2, <2>1, <2>2 DEF Stuck, InKernel
<1>7. ASSUME NEW d \in Cores, LeaveHandler(d) PROVE Stuck'
  <2>1. held[d] = call.r /\ rdv[held[d]] = Cores
    BY <1>2, <1>7 DEF LeaveHandler, HeldHere
  <2> QED
    BY <1>3, <2>1
<1>8. ~InitRendezvous /\ ~SendICI /\ ~Quiet
  BY <1>2 DEF InitRendezvous, SendICI, Goes, Quiet
<1> QED
  BY <1>4, <1>5, <1>6, <1>7, <1>8 DEF RegStep, KeStep, KeSetDABR, KeSetIABR, SetOwn

\* A call of KeSetDABR or KeSetIABR that waits for a core in the stub, with the
\* master core in the kernel, never returns: whatever the cores do, whichever
\* core called and whatever it set.
THEOREM StuckCallsStay == Spec => StuckForGood
<1>1. Init => HeldHere
  BY DEF Init, RegInit, HeldHere
<1>2. MemInv /\ RegInv /\ HeldHere /\ [Next]_vars => [Stuck => Stuck']_vars
  <2> SUFFICES ASSUME MemInv, RegInv, HeldHere, [Next]_vars, Stuck PROVE Stuck'
    OBVIOUS
  <2>1. CASE UNCHANGED <<state, regvars>>
    BY <2>1 DEF Stuck, InKernel, regvars
  <2>2. CASE CoresMove
    BY <2>2, StuckStates DEF MemInv, MemTypeOK
  <2>3. CASE RegStep /\ UNCHANGED <<state, memvars>>
    BY <2>3, StuckCalls
  <2>4. MemStep => UNCHANGED state
    BY DEF MemStep, MasterAgent_PokeInstr, PokeFlush, CoreAgent_SetCoreMem, Execute
  <2> QED
    BY <2>1, <2>2, <2>3, <2>4 DEF Next, vars
<1> QED
  BY <1>1, <1>2, HeldHereNext, MemoryInductive, RegistersInductive, PTL
     DEF Spec, StuckForGood

=============================================================================
