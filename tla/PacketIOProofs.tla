--------------------------- MODULE PacketIOProofs ---------------------------
(***************************************************************************)
(* Theorems about IOInput, for every number of cores, capacity and length  *)
(* of the input: the window over the host's stream is sound in every state *)
(* and the PChar path implements the byte stream.  Theorems about PacketIO *)
(* on top of it, for every retry limit and number of everything that gdb   *)
(* may do.  The first part uses no assumption of PacketIO.                 *)
(***************************************************************************)
EXTENDS PacketIO, SequenceTheorems, TLAPS

-----------------------------------------------------------------------------
(* Input.                                                                  *)

\* Together the two invariants are inductive: that a poll may go back to the
\* start of the buffer depends on WindowSound, and WindowSound on the types.
IInv == InputTypeOK /\ WindowSound

\* A read returns at most Capacity characters and only ones that have arrived.
LEMMA ChunksBounded ==
    ASSUME IInv, NEW n \in Chunks
    PROVE  n \in 0..Capacity /\ base + count + n <= Len(sent)
  BY CapacityAssumption, PCharAssumption DEF IInv, InputTypeOK, WindowSound, Chunks, Arrived

\* A character is taken out of the buffer no further than one behind the
\* furthest before it; IOGetChar keeps the invariant, whatever the undo buffer
\* then holds.
LEMMA FetchSound ==
    ASSUME IInv, NEW c \in Chars, Fetch(c), UNCHANGED <<sent, ready>>,
           undo' \in Chars \cup {NoChar}
    PROVE  /\ IInv'
           /\ UsePChar => (high' = high \/ (high' = high + 1 /\ high < Len(sent)))
  <1> USE CapacityAssumption, PCharAssumption DEF IInv, InputTypeOK, WindowSound, buffer, HandOut
  <1>1. CASE undo # NoChar /\ UNCHANGED <<buffer, high>>
    BY <1>1
  <1>2. CASE /\ undo = NoChar /\ consumed < count
             /\ consumed' = consumed + 1
             /\ HandOut(base + consumed + 1)
             /\ UNCHANGED <<base, count>>
    BY <1>2
  <1>3. CASE /\ undo = NoChar /\ consumed >= count /\ ready
             /\ \E n \in Chunks \ {0} : Refill(n)
             /\ consumed' = 1
             /\ HandOut(base + count + 1)
    <2>1. PICK n \in Chunks \ {0} : Refill(n)
      BY <1>3
    <2>2. n \in 1..Capacity /\ base + count + n <= Len(sent)
      BY <2>1, ChunksBounded
    <2>3. base' = base + count /\ count' = n /\ consumed = count
      BY <1>3, <2>1 DEF Refill
    <2>4. high' = IF base + count + 1 > high THEN base + count + 1 ELSE high
      BY <1>3
    <2> QED
      BY <1>3, <2>2, <2>3, <2>4
  <1> QED
    BY <1>1, <1>2, <1>3 DEF Fetch

\* IOPendingInput keeps the invariant and hands nothing out.
LEMMA PollSound ==
    ASSUME IInv, NEW core \in Cores, NEW r \in BOOLEAN, PendingInput(core, r),
           UNCHANGED <<sent, undo, ready, high>>
    PROVE  IInv'
  <1> USE CapacityAssumption, PCharAssumption DEF IInv, InputTypeOK, WindowSound, buffer
  <1>1. CASE ~(core = MasterCore /\ ready)
    BY <1>1 DEF PendingInput
  <1>2. CASE core = MasterCore /\ ready /\ ~NeedsRead
    <2>1. UNCHANGED <<base, count>> /\ consumed' = 0 /\ UsePChar /\ count # consumed
      BY <1>2 DEF PendingInput, NeedsRead
    <2> QED
      BY <2>1
  <1>3. CASE core = MasterCore /\ ready /\ NeedsRead
    <2>1. PICK n \in Chunks : Refill(n)
      BY <1>3 DEF PendingInput
    <2>2. n \in 0..Capacity /\ base + count + n <= Len(sent)
      BY <2>1, ChunksBounded
    <2>3. base' = base + count /\ count' = n /\ consumed' = 0
      BY <1>3, <2>1 DEF PendingInput, Refill
    <2>4. UsePChar => count = consumed
      BY <1>3 DEF NeedsRead
    <2> QED
      BY <2>2, <2>3, <2>4
  <1> QED
    BY <1>1, <1>2, <1>3

\* Every call, in every order, keeps the invariant.
THEOREM WindowInductive == InputSpec => []IInv
  <1>1. InputInit => IInv
    <2> SUFFICES ASSUME InputInit
                 PROVE  IInv
      OBVIOUS
    <2> USE CapacityAssumption DEF InputInit
    <2>1. InputTypeOK
      <3>1. ready \in BOOLEAN /\ undo \in Chars \cup {NoChar}
        BY Zenon
      <3>2. sent \in Seq(Chars) /\ base \in Nat /\ high \in Nat
        OBVIOUS
      <3>3. count \in 0..Capacity /\ consumed \in 0..count
        OBVIOUS
      <3> QED
        BY <3>1, <3>2, <3>3, Zenon DEF InputTypeOK
    <2>2. WindowSound
      BY DEF WindowSound
    <2> QED
      BY <2>1, <2>2 DEF IInv
  <1>2. IInv /\ [InputNext]_inputVars => IInv'
    <2> SUFFICES ASSUME IInv, [InputNext]_inputVars
                 PROVE  IInv'
      OBVIOUS
    <2> USE CapacityAssumption, PCharAssumption
    <2>1. CASE Send
      BY <2>1 DEF Send, HostSends, IInv, InputTypeOK, WindowSound
    <2>2. CASE Connect
      BY <2>2 DEF Connect, DebuggerInitialised, buffer, IInv, InputTypeOK, WindowSound
    <2>3. CASE Poll
      BY <2>3, PollSound DEF Poll
    <2>4. CASE Get
      BY <2>4, FetchSound DEF Get, GetChar
    <2>5. CASE Peek
      BY <2>5, FetchSound DEF Peek, GetThenUnGet, UnGetChar
    <2>6. CASE ApplicationStart
      <3> USE <2>6 DEF ApplicationStart, ResetIOOffsets, IInv, InputTypeOK
      <3>1. InputTypeOK'
        <4>1. ready' \in BOOLEAN /\ undo' \in Chars \cup {NoChar}
          BY Zenon
        <4>2. sent' \in Seq(Chars) /\ base' \in Nat /\ high' \in Nat
          OBVIOUS
        <4>3. count' \in 0..Capacity /\ consumed' \in 0..count'
          OBVIOUS
        <4> QED
          BY <4>1, <4>2, <4>3, Zenon DEF InputTypeOK
      <3>2. WindowSound'
        BY DEF WindowSound
      <3> QED
        BY <3>1, <3>2
    <2>7. CASE UNCHANGED inputVars
      BY <2>7 DEF inputVars, IInv, InputTypeOK, WindowSound
    <2> QED
      BY <2>1, <2>2, <2>3, <2>4, <2>5, <2>6, <2>7 DEF InputNext
  <1> QED
    BY <1>1, <1>2, PTL DEF InputSpec

\* The variables of GDB_IO.cpp's input keep their types: gGDBCharsInIOBuffer
\* stays within the capacity and the read position within the characters.
THEOREM InputTypes == InputSpec => []InputTypeOK
  <1>1. IInv => InputTypeOK
    BY DEF IInv
  <1> QED
    BY <1>1, WindowInductive, PTL

\* The PChar path gives a buffer up only when all of it was handed out.
THEOREM InputWindow == InputSpec => []WindowSound
  <1>1. IInv => WindowSound
    BY DEF IInv
  <1> QED
    BY <1>1, WindowInductive, PTL

\* IOPendingInput, IOGetChar and IOUnGetChar together implement the byte
\* stream, each of their steps one character or none.
THEOREM InputImplementsByteStream ==
    ASSUME UsePChar = TRUE
    PROVE  InputSpec => ImplementsByteStream
  <1> USE CapacityAssumption, PCharAssumption
  <1>1. InputInit => Stream!Init
    BY DEF InputInit, Stream!Init
  <1>2. IInv /\ [InputNext]_inputVars => [Stream!Next]_(Stream!vars)
    <2> SUFFICES ASSUME IInv, [InputNext]_inputVars
                 PROVE  [Stream!Next]_(Stream!vars)
      OBVIOUS
    <2> USE DEF Stream!Next, Stream!vars
    <2>1. CASE Send
      BY <2>1 DEF Send, HostSends, Stream!Send
    <2>2. CASE Connect
      BY <2>2 DEF Connect, DebuggerInitialised, Stream!Open
    <2>3. CASE Poll
      BY <2>3 DEF Poll
    <2>4. CASE Get
      BY <2>4, FetchSound DEF Get, GetChar, Stream!Deliver
    <2>5. CASE Peek
      BY <2>5, FetchSound DEF Peek, GetThenUnGet, UnGetChar, Stream!Deliver
    <2>6. CASE ApplicationStart
      <3>1. base + count \in high .. Len(sent)
        BY DEF IInv, InputTypeOK, WindowSound
      <3> QED
        BY <2>6, <3>1 DEF ApplicationStart, Stream!Close
    <2>7. CASE UNCHANGED inputVars
      BY <2>7 DEF inputVars
    <2> QED
      BY <2>1, <2>2, <2>3, <2>4, <2>5, <2>6, <2>7 DEF InputNext
  <1> QED
    BY <1>1, <1>2, WindowInductive, PTL DEF InputSpec, ImplementsByteStream, Stream!Spec

-----------------------------------------------------------------------------
(* Types.                                                                  *)

PacketTypes ==
    /\ pc \in {"main", "drain", "drainGet", "send", "ack", "ackMore"}
    /\ checkPending \in BOOLEAN /\ tries \in Nat /\ ctrlC \in BOOLEAN
    /\ signal \in {"none", "SIGINT"} /\ cur \in Nat
    /\ outcome \in {"none", "acked", "abandoned", "preempted",
                    "drained"}
    /\ start \in Nat /\ end \in Nat /\ frames \in Nat

GdbTypes ==
    /\ gdb \in {"idle", "ackwait", "wait"} /\ accepted \subseteq Nat
    /\ nacks \in Nat /\ did \in [Bounded -> Nat]

\* IInv is the invariant of the input.
TypeInv == IInv /\ PacketTypes /\ line \in Seq(Nat) /\ GdbTypes

\* What gdb sends is one of the wire's characters and appended.
LEMMA SendSound ==
    ASSUME IInv, NEW c \in Chars, HostSends(c),
           UNCHANGED <<base, count, consumed, undo, ready, high>>
    PROVE  IInv'
  BY CapacityAssumption, PCharAssumption
     DEF IInv, InputTypeOK, WindowSound, HostSends

\* What leaves the input alone keeps its invariant.
LEMMA UnchangedSound == ASSUME IInv, UNCHANGED inputVars PROVE IInv'
  BY DEF IInv, InputTypeOK, WindowSound, inputVars

\* What the stub writes are numbers.
LEMMA WriteTypes ==
    ASSUME line \in Seq(Nat), NEW x \in Nat, Write(x)
    PROVE  line' \in Seq(Nat)
  BY DEF Write

\* The counts of what gdb does are numbers.
LEMMA DoesTypes ==
    ASSUME did \in [Bounded -> Nat], NEW d \in Bounded, Does(d)
    PROVE  did' \in [Bounded -> Nat]
  BY DEF Does

\* Before anything was sent.
LEMMA InitTypes == Init => TypeInv
  <1> SUFFICES ASSUME Init
               PROVE  TypeInv
    OBVIOUS
  <1> USE CapacityAssumption DEF Init
  <1>1. InputTypeOK
    <2>1. ready \in BOOLEAN /\ undo \in Chars \cup {NoChar}
      BY Zenon
    <2>2. sent \in Seq(Chars) /\ base \in Nat /\ high \in Nat
      OBVIOUS
    <2>3. count \in 0..Capacity /\ consumed \in 0..count
      OBVIOUS
    <2> QED
      BY <2>1, <2>2, <2>3, Zenon DEF InputTypeOK
  <1>2. WindowSound
    BY DEF WindowSound
  <1>3. PacketTypes /\ line \in Seq(Nat)
    <2>1. line \in Seq(Nat) /\ {cur, tries, start, end, frames} \subseteq Nat
      OBVIOUS
    <2> QED
      BY <2>1, Zenon DEF PacketTypes
  <1>4. GdbTypes
    BY DEF GdbTypes
  <1> QED
    BY <1>1, <1>2, <1>3, <1>4 DEF TypeInv, IInv

\* The reader of commands and PutPacket take characters, poll and write.
LEMMA CallerTypes == ASSUME TypeInv, MainIgnores \/ MainAnswers PROVE TypeInv'
  <1> USE DEF TypeInv, PacketTypes, GdbTypes
  <1>1. CASE MainIgnores
    <2>1. IInv'
      BY <1>1, FetchSound DEF MainIgnores, GetChar
    <2> QED
      BY <1>1, <2>1 DEF MainIgnores, stubVars, gdbVars
  <1>2. CASE MainAnswers
    <2>1. IInv'
      BY <1>2, FetchSound, WireAssumption DEF MainAnswers, GetChar
    <2>2. high' \in Nat
      BY <2>1 DEF IInv, InputTypeOK
    <2>3. line' \in Seq(Nat)
      BY <1>2, WriteTypes DEF MainAnswers
    <2>4. checkPending' \in BOOLEAN /\ pc' \in {"drain", "send"}
      BY <1>2, FirstAssumption DEF MainAnswers
    <2>5. /\ tries' = 0 /\ cur' = cur + 1 /\ frames' = 0
          /\ start' = high' /\ end' = high'
      BY <1>2, Zenon DEF MainAnswers
    <2>6. ctrlC' \in BOOLEAN /\ signal' = "none" /\ outcome' = "none"
      BY <1>2, Zenon DEF MainAnswers
    <2>7. GdbTypes'
      BY <1>2 DEF MainAnswers
    <2> QED
      BY <2>1, <2>2, <2>3, <2>4, <2>5, <2>6, <2>7
  <1> QED
    BY <1>1, <1>2

\* Steps of PutPacket.
LEMMA PutPacketTypes == ASSUME TypeInv, PutPacketStep PROVE TypeInv'
  <1> USE DEF TypeInv, PacketTypes, GdbTypes, gdbVars
  <1>1. CASE Drain
    <2>1. IInv'
      BY <1>1, PollSound, MasterAssumption DEF Drain
    <2> QED
      BY <1>1, <2>1 DEF Drain
  <1>2. CASE DrainPacket
    <2>1. IInv'
      BY <1>2, FetchSound, WireAssumption DEF DrainPacket, GetThenUnGet, UnGetChar
    <2> QED
      BY <1>2, <2>1 DEF DrainPacket, Return, IInv, InputTypeOK
  <1>3. CASE DrainOther
    <2>1. IInv'
      BY <1>3, FetchSound DEF DrainOther, GetChar
    <2>2. ctrlC' \in BOOLEAN
      BY <1>3, Zenon DEF DrainOther
    <2> QED
      BY <1>3, <2>1, <2>2 DEF DrainOther
  <1>4. CASE Transmit
    <2>1. IInv'
      BY <1>4, UnchangedSound DEF Transmit
    <2>2. line' \in Seq(Nat)
      BY <1>4, WriteTypes DEF Transmit
    <2>3. frames' \in Nat
      BY <1>4 DEF Transmit
    <2>4. /\ pc' = "ack"
          /\ UNCHANGED <<checkPending, tries, ctrlC, signal, cur, outcome, start, end>>
      BY <1>4, Zenon DEF Transmit
    <2>5. GdbTypes'
      BY <1>4 DEF Transmit
    <2> QED
      BY <2>1, <2>2, <2>3, <2>4, <2>5
  <1>5. CASE AckPositive
    <2>1. IInv'
      BY <1>5, FetchSound, WireAssumption DEF AckPositive, Acks, GetChar
    <2> QED
      BY <1>5, <2>1 DEF AckPositive, RecordInterrupt, Return, IInv, InputTypeOK
  <1>6. CASE AckNegative
    <2>1. IInv'
      BY <1>6, FetchSound, WireAssumption DEF AckNegative, GetChar
    <2>2. high' \in Nat
      BY <2>1 DEF IInv, InputTypeOK
    <2>3. tries' \in Nat
      BY <1>6 DEF AckNegative, CountTry
    <2>4. signal' \in {"none", "SIGINT"}
      BY <1>6, Zenon DEF AckNegative, RecordInterrupt
    <2>5. CASE GivesUp(tries')
      BY <1>6, <2>1, <2>2, <2>3, <2>4, <2>5 DEF AckNegative, Return
    <2>6. CASE ~GivesUp(tries')
      BY <1>6, <2>1, <2>2, <2>3, <2>4, <2>6 DEF AckNegative, Again
    <2> QED
      BY <2>5, <2>6
  <1>7. CASE AckPacket
    <2>1. IInv'
      BY <1>7, FetchSound, WireAssumption DEF AckPacket, GetThenUnGet, UnGetChar
    <2> QED
      BY <1>7, <2>1 DEF AckPacket, RecordInterrupt, Return, IInv, InputTypeOK
  <1>8. CASE AckOther
    <2>1. IInv'
      BY <1>8, FetchSound, WireAssumption DEF AckOther, GetChar
    <2> QED
      BY <1>8, <2>1 DEF AckOther
  <1>9. CASE AckMore
    <2>1. IInv'
      BY <1>9, PollSound, MasterAssumption DEF AckMore
    <2> QED
      BY <1>9, <2>1 DEF AckMore
  <1> QED
    BY <1>1, <1>2, <1>3, <1>4, <1>5, <1>6, <1>7, <1>8, <1>9 DEF PutPacketStep

\* Steps of gdb.
LEMMA GdbStepTypes ==
    ASSUME TypeInv,
           GdbAnswers \/ GdbNacks \/ GdbTimesOut \/ GdbGivesUp \/ GdbInterrupts
    PROVE  TypeInv'
  <1> USE WireAssumption DEF TypeInv, PacketTypes, GdbTypes, stubVars, ioVars
  <1>1. CASE GdbCommand
    <2>1. IInv'
      BY <1>1, SendSound DEF GdbCommand
    <2>2. did' \in [Bounded -> Nat]
      BY <1>1, DoesTypes DEF GdbCommand, Bounded
    <2> QED
      BY <1>1, <2>1, <2>2 DEF GdbCommand
  <1>2. CASE GdbReadsAck
    <2>1. IInv'
      BY <1>2, SendSound, UnchangedSound DEF GdbReadsAck, inputVars
    <2>2. did' \in [Bounded -> Nat]
      BY <1>2, DoesTypes DEF GdbReadsAck, Bounded
    <2>3. gdb' \in {"idle", "ackwait", "wait"} /\ line' \in Seq(Nat)
      BY <1>2, HeadTailProperties DEF GdbReadsAck
    <2> QED
      BY <1>2, <2>1, <2>2, <2>3 DEF GdbReadsAck
  <1>3. CASE GdbAccepts
    <2>1. IInv'
      BY <1>3, SendSound, UnchangedSound DEF GdbAccepts, inputVars
    <2>2. Head(line) \in Nat /\ line' \in Seq(Nat)
      BY <1>3, HeadTailProperties DEF GdbAccepts
    <2>3. accepted' \subseteq Nat /\ gdb' \in {"idle", "ackwait", "wait"}
      BY <1>3, <2>2 DEF GdbAccepts
    <2> QED
      BY <1>3, <2>1, <2>2, <2>3 DEF GdbAccepts
  <1>4. CASE GdbNacks
    <2>1. IInv'
      BY <1>4, SendSound DEF GdbNacks
    <2>2. did' \in [Bounded -> Nat]
      BY <1>4, DoesTypes DEF GdbNacks, Bounded
    <2>3. line' \in Seq(Nat)
      BY <1>4, HeadTailProperties DEF GdbNacks
    <2> QED
      BY <1>4, <2>1, <2>2, <2>3 DEF GdbNacks
  <1>5. CASE GdbTimesOut
    <2>1. IInv'
      BY <1>5, SendSound DEF GdbTimesOut
    <2>2. did' \in [Bounded -> Nat]
      BY <1>5, DoesTypes DEF GdbTimesOut, Bounded
    <2> QED
      BY <1>5, <2>1, <2>2 DEF GdbTimesOut
  <1>6. CASE GdbGivesUp
    <2>1. IInv'
      BY <1>6, UnchangedSound DEF GdbGivesUp
    <2>2. did' \in [Bounded -> Nat]
      BY <1>6, DoesTypes DEF GdbGivesUp, Bounded
    <2> QED
      BY <1>6, <2>1, <2>2 DEF GdbGivesUp
  <1>7. CASE GdbInterrupts
    <2>1. IInv'
      BY <1>7, SendSound DEF GdbInterrupts
    <2>2. did' \in [Bounded -> Nat]
      BY <1>7, DoesTypes DEF GdbInterrupts, Bounded
    <2> QED
      BY <1>7, <2>1, <2>2 DEF GdbInterrupts
  <1> QED
    BY <1>1, <1>2, <1>3, <1>4, <1>5, <1>6, <1>7 DEF GdbAnswers

\* Every interleaving of the master core and gdb keeps the types and the window.
THEOREM PacketInductive == Spec => []TypeInv
  <1>1. TypeInv /\ [Next]_vars => TypeInv'
    <2> SUFFICES ASSUME TypeInv, [Next]_vars
                 PROVE  TypeInv'
      OBVIOUS
    <2>1. CASE UNCHANGED vars
      BY <2>1, UnchangedSound DEF vars, TypeInv, PacketTypes, GdbTypes, stubVars, gdbVars
    <2> QED
      BY <2>1, CallerTypes, PutPacketTypes, GdbStepTypes DEF Next
  <1> QED
    BY <1>1, InitTypes, PTL DEF Spec

\* The variables of PutPacket keep their types.
THEOREM PacketTypeCorrect == Spec => []TypeOK
  <1>1. TypeInv => TypeOK
    BY DEF TypeInv, IInv, PacketTypes, GdbTypes, TypeOK
  <1> QED
    BY <1>1, PacketInductive, PTL

-----------------------------------------------------------------------------
(* A CTRL+C that PutPacket took.                                           *)

\* While PutPacket is at work a CTRL+C among what it took is in ctrl_c_seen.
Noticed == /\ end <= Len(sent)
           /\ pc # "main" /\ (\E p \in start + 1 .. high : sent[p] = "^C") => ctrlC
           /\ AckLoopRecordsInterrupt

\* The PChar path hands the characters out in order: a character that was not
\* handed out before is the next one.
LEMMA FetchNext ==
    ASSUME UsePChar = TRUE, IInv, NEW c \in Chars, Fetch(c)
    PROVE  high' = high \/ (high' = high + 1 /\ c = sent[high + 1])
  BY CapacityAssumption DEF IInv, InputTypeOK, WindowSound, Fetch, buffer, HandOut

\* What gdb sends later changes nothing about what PutPacket took before.
LEMMA NoticedLater ==
    ASSUME TypeInv, Noticed, UNCHANGED <<stubVars, high>>,
           sent' = sent \/ \E c \in Chars : HostSends(c)
    PROVE  Noticed'
  <1>1. Len(sent') >= Len(sent) /\ \A p \in 1 .. Len(sent) : sent'[p] = sent[p]
    BY DEF TypeInv, IInv, InputTypeOK, HostSends
  <1>2. {high, end} \subseteq Nat /\ high <= Len(sent) /\ start \in Nat /\ Len(sent) \in Nat
    BY CapacityAssumption DEF TypeInv, IInv, InputTypeOK, WindowSound, PacketTypes
  <1>3. Len(sent') \in Nat
    BY DEF TypeInv, IInv, InputTypeOK, HostSends
  <1> QED
    BY <1>1, <1>2, <1>3 DEF Noticed, AckLoopRecordsInterrupt, InterruptTaken, stubVars

\* Only what gdb sent was handed out.
Within == high \in Nat /\ high <= Len(sent)

\* No more is handed out than was sent.
LEMMA WithinSent == TypeInv => Within
  BY CapacityAssumption DEF Within, TypeInv, IInv, InputTypeOK, WindowSound

\* A character that PutPacket takes: when it is a CTRL+C it is noted, and the
\* acknowledgement loop returns on another one.
LEMMA NoticedFetch ==
    ASSUME UsePChar = TRUE, TypeInv, Within', Noticed, NEW c \in Chars, Fetch(c),
           pc # "main", UNCHANGED <<sent, start>>,
           c = "^C" => ctrlC',
           ctrlC => ctrlC',
           \/ pc' # "main" /\ end' = end
           \/ pc' = "main" /\ outcome' = "drained" /\ end' = high'
           \/ pc' = "main" /\ end' = high' /\ RecordInterrupt /\ c # "^C"
    PROVE  Noticed'
  <1>1. high' = high \/ (high' = high + 1 /\ c = sent[high + 1])
    BY FetchNext DEF TypeInv
  <1>2. high \in Nat /\ start \in Nat /\ Len(sent) \in Nat
    BY DEF TypeInv, IInv, InputTypeOK, PacketTypes
  <1>3. high' \in Nat /\ high' <= Len(sent)
    BY DEF Within
  <1>4. (\E p \in start + 1 .. high' : sent[p] = "^C")
            => c = "^C" \/ \E p \in start + 1 .. high : sent[p] = "^C"
    BY <1>1, <1>2, <1>3
  <1>5. (\E p \in start' + 1 .. high' : sent'[p] = "^C") => c = "^C" \/ ctrlC
    BY <1>4 DEF Noticed
  <1>6. end' <= Len(sent')
    BY <1>3 DEF Noticed
  <1>7. AckLoopRecordsInterrupt'
    BY <1>5 DEF AckLoopRecordsInterrupt, InterruptTaken, AckLoopReturns, RecordInterrupt
  <1> QED
    BY <1>5, <1>6, <1>7 DEF Noticed

\* A call starts behind what was handed out.
LEMMA NoticedCaller ==
    ASSUME UsePChar = TRUE, TypeInv, Within', Noticed, MainIgnores \/ MainAnswers
    PROVE  Noticed'
  <1>1. high' \in Nat /\ high' <= Len(sent')
    BY DEF Within
  <1>2. CASE MainIgnores
    BY <1>2 DEF MainIgnores, stubVars, Noticed, AckLoopRecordsInterrupt, InterruptTaken
  <1>3. CASE MainAnswers
    <2>1. start' = high' /\ end' = high' /\ outcome' = "none"
      BY <1>3 DEF MainAnswers
    <2>2. start' + 1 .. high' = {}
      <3>1. \A h \in Nat : h + 1 .. h = {}
        OBVIOUS
      <3> QED
        BY <1>1, <2>1, <3>1, Zenon
    <2>3. AckLoopRecordsInterrupt'
      BY <2>1 DEF AckLoopRecordsInterrupt, AckLoopReturns
    <2> QED
      BY <1>1, <2>1, <2>2, <2>3 DEF Noticed
  <1> QED
    BY <1>2, <1>3

\* A CTRL+C that was taken is recorded on the way out.
LEMMA NoticedPutPacket ==
    ASSUME UsePChar = TRUE, TypeInv, Within', Noticed, PutPacketStep
    PROVE  Noticed'
  <1> USE WireAssumption
  <1>1. CASE Drain
    BY <1>1 DEF Drain, Noticed, AckLoopRecordsInterrupt, InterruptTaken
  <1>2. CASE DrainPacket
    <2>1. Fetch("$") /\ pc' = "main" /\ outcome' = "drained" /\ end' = high'
      BY <1>2 DEF DrainPacket, GetThenUnGet, Return
    <2> QED
      BY <1>2, <2>1, NoticedFetch DEF DrainPacket
  <1>3. CASE DrainOther
    <2>1. PICK c \in Chars \ {"$"} : GetChar(c) /\ ctrlC' = (ctrlC \/ c = "^C")
      BY <1>3 DEF DrainOther
    <2> QED
      BY <1>3, <2>1, NoticedFetch DEF DrainOther, GetChar
  <1>4. CASE Transmit
    BY <1>4 DEF Transmit, inputVars, Noticed, AckLoopRecordsInterrupt, InterruptTaken
  <1>5. CASE AckPositive
    BY <1>5, NoticedFetch DEF AckPositive, Acks, GetChar, Return
  <1>6. CASE AckNegative
    BY <1>6, NoticedFetch DEF AckNegative, GetChar, Return, Again
  <1>7. CASE AckPacket
    BY <1>7, NoticedFetch DEF AckPacket, GetThenUnGet, Return
  <1>8. CASE AckOther
    BY <1>8, NoticedFetch DEF AckOther, GetChar
  <1>9. CASE AckMore
    BY <1>9 DEF AckMore, Noticed, AckLoopRecordsInterrupt, InterruptTaken
  <1> QED
    BY <1>1, <1>2, <1>3, <1>4, <1>5, <1>6, <1>7, <1>8, <1>9 DEF PutPacketStep

\* What gdb sends comes behind what was handed out.
LEMMA NoticedGdb ==
    ASSUME TypeInv, Noticed,
           GdbAnswers \/ GdbNacks \/ GdbTimesOut \/ GdbGivesUp \/ GdbInterrupts
    PROVE  Noticed'
  <1>1. UNCHANGED <<stubVars, high>>
    BY DEF GdbAnswers, GdbCommand, GdbReadsAck, GdbAccepts, GdbNacks, GdbTimesOut,
           GdbGivesUp, GdbInterrupts, ioVars, inputVars
  <1>2. sent' = sent \/ \E c \in Chars : HostSends(c)
    BY WireAssumption
       DEF GdbAnswers, GdbCommand, GdbReadsAck, GdbAccepts, GdbNacks, GdbTimesOut,
           GdbGivesUp, GdbInterrupts, inputVars
  <1> QED
    BY <1>1, <1>2, NoticedLater

\* A CTRL+C that PutPacket took out of the input while it waited, in whichever
\* loop and try, is recorded as SIGINT when the acknowledgement loop returns.
THEOREM InterruptRecorded ==
    ASSUME UsePChar = TRUE
    PROVE  Spec => []AckLoopRecordsInterrupt
  <1>1. Init => Noticed
    BY DEF Init, Noticed, AckLoopRecordsInterrupt, AckLoopReturns
  <1>2. TypeInv /\ Within' /\ Noticed /\ [Next]_vars => Noticed'
    <2> SUFFICES ASSUME TypeInv, Within', Noticed, [Next]_vars
                 PROVE  Noticed'
      OBVIOUS
    <2>1. CASE UNCHANGED vars
      BY <2>1 DEF vars, inputVars, stubVars, Noticed, AckLoopRecordsInterrupt, InterruptTaken
    <2> QED
      BY <2>1, NoticedCaller, NoticedPutPacket, NoticedGdb DEF Next
  <1>3. Noticed => AckLoopRecordsInterrupt
    BY DEF Noticed
  <1> QED
    BY <1>1, <1>2, <1>3, PacketInductive, WithinSent, PTL DEF Spec

-----------------------------------------------------------------------------
(* The loops that nothing leads out of, and the undone character.          *)

\* coreinit's connection stays up.
LEMMA StaysReady == Spec => [](ready = TRUE)
  <1>1. Init => ready = TRUE
    BY DEF Init
  <1>2. ready = TRUE /\ [Next]_vars => (ready = TRUE)'
    BY DEF Next, vars, inputVars, ioVars, MainIgnores, MainAnswers, PutPacketStep, Drain,
           DrainPacket, DrainOther, Transmit, AckPositive, AckNegative, AckPacket,
           AckOther, AckMore, GdbAnswers, GdbCommand, GdbReadsAck, GdbAccepts, GdbNacks,
           GdbTimesOut, GdbGivesUp, GdbInterrupts
  <1> QED
    BY <1>1, <1>2, PTL DEF Spec

\* A chunk that is not used up is kept by IOPendingInput, and taken from its
\* start again by IOGetChar.
LEMMA ChunkStays ==
    ASSUME UsePChar = TRUE, TypeInv, count > 1, undo = NoChar
    PROVE  /\ \A r \in BOOLEAN :
                 ready = TRUE /\ consumed < count /\ PendingInput(MasterCore, r)
                     => r = TRUE /\ UNCHANGED <<base, count>> /\ consumed' = 0
           /\ \A c \in Chars :
                 consumed = 0 /\ Fetch(c)
                     => c = FirstOfChunk /\ UNCHANGED <<base, count>> /\ consumed' = 1
  <1> USE DEF TypeInv, IInv, InputTypeOK
  <1>1. ASSUME NEW r \in BOOLEAN, ready = TRUE, consumed < count,
               PendingInput(MasterCore, r)
        PROVE  r = TRUE /\ UNCHANGED <<base, count>> /\ consumed' = 0
    <2>1. ~NeedsRead
      BY <1>1, CapacityAssumption DEF NeedsRead
    <2>2. UNCHANGED <<base, count>> /\ consumed' = 0 /\ r = (count' > 0)
      BY <1>1, <2>1, Zenon DEF PendingInput
    <2>3. count' > 0
      BY <2>2, CapacityAssumption
    <2> QED
      BY <2>2, <2>3, Zenon
  <1>2. ASSUME NEW c \in Chars, consumed = 0, Fetch(c)
        PROVE  c = FirstOfChunk /\ UNCHANGED <<base, count>> /\ consumed' = 1
    BY <1>2, CapacityAssumption DEF Fetch, FirstOfChunk
  <1> QED
    BY <1>1, <1>2

\* What gdb sends later comes behind the chunk.
LEMMA TrapStays ==
    ASSUME TypeInv, Trapped, UNCHANGED <<stubVars, base, count, consumed, undo>>,
           sent' = sent \/ \E c \in Chars : HostSends(c)
    PROVE  Trapped'
  <1>1. base + 1 \in 1 .. Len(sent)
    BY CapacityAssumption
       DEF Trapped, PollsForEver, SendsForEver, TypeInv, IInv, InputTypeOK, WindowSound
  <1>2. sent'[base + 1] = sent[base + 1]
    BY <1>1 DEF TypeInv, IInv, InputTypeOK, HostSends
  <1> QED
    BY <1>2 DEF Trapped, PollsForEver, SendsForEver, FirstOfChunk, stubVars

\* The polling loop goes round with the first character of the chunk.
LEMMA PollingStays ==
    ASSUME UsePChar = TRUE, TypeInv, ready = TRUE, PollsForEver, PutPacketStep
    PROVE  PollsForEver'
  <1> USE DEF PollsForEver, FirstOfChunk
  <1>1. CASE Drain
    <2>1. PICK r \in BOOLEAN : /\ PendingInput(MasterCore, r)
                               /\ pc' = IF r THEN "drainGet" ELSE "send"
      BY <1>1 DEF Drain
    <2>2. r = TRUE /\ UNCHANGED <<base, count>> /\ consumed' = 0
      BY <1>1, <2>1, ChunkStays DEF Drain
    <2> QED
      BY <1>1, <2>1, <2>2 DEF Drain
  <1>2. CASE DrainPacket
    BY <1>2, ChunkStays, WireAssumption DEF DrainPacket, GetThenUnGet
  <1>3. CASE DrainOther
    <2>1. PICK c \in Chars \ {"$"} : GetChar(c)
      BY <1>3 DEF DrainOther
    <2>2. UNCHANGED <<base, count>> /\ consumed' = 1
      BY <1>3, <2>1, ChunkStays DEF DrainOther, GetChar
    <2> QED
      BY <1>3, <2>1, <2>2 DEF DrainOther, GetChar, TypeInv, IInv, InputTypeOK
  <1> QED
    BY <1>1, <1>2, <1>3
       DEF PutPacketStep, Transmit, AckPositive, AckNegative, AckPacket, AckOther, AckMore

\* The frame is sent again for the same CTRL+C.
LEMMA SendingStays ==
    ASSUME UsePChar = TRUE, TypeInv, ready = TRUE, SendsForEver, PutPacketStep
    PROVE  SendsForEver'
  <1> USE WireAssumption DEF SendsForEver, FirstOfChunk
  <1>1. CASE Transmit
    BY <1>1 DEF Transmit, inputVars
  <1>2. CASE AckPositive \/ AckNegative \/ AckPacket
    BY <1>2, ChunkStays DEF AckPositive, AckNegative, AckPacket, Acks, GetChar, GetThenUnGet
  <1>3. CASE AckOther
    <2>1. UNCHANGED <<base, count>> /\ consumed' = 1
      BY <1>3, ChunkStays DEF AckOther, GetChar
    <2> QED
      BY <1>3, <2>1 DEF AckOther, GetChar, TypeInv, IInv, InputTypeOK
  <1>4. CASE AckMore
    <2>1. PICK r \in BOOLEAN :
             /\ PendingInput(MasterCore, r)
             /\ pc' = IF ~r THEN "ack" ELSE IF checkPending THEN "drain" ELSE "send"
      BY <1>4 DEF AckMore
    <2>2. r = TRUE /\ UNCHANGED <<base, count>> /\ consumed' = 0
      BY <1>4, <2>1, ChunkStays DEF AckMore
    <2> QED
      BY <1>4, <2>1, <2>2 DEF AckMore
  <1> QED
    BY <1>1, <1>2, <1>3, <1>4 DEF PutPacketStep, Drain, DrainPacket, DrainOther

\* No step of gdb or of the stub leads out of the two loops: what is unread
\* when PutPacket is in one of them is never read, for every size of a read,
\* every retry limit and whatever gdb sends.
THEOREM TrapsHold == ASSUME UsePChar = TRUE PROVE Spec => TrapHolds
  <1>1. TypeInv /\ ready = TRUE /\ [Next]_vars => [Trapped => Trapped']_vars
    <2> SUFFICES ASSUME TypeInv, ready = TRUE, [Next]_vars, Trapped
                 PROVE  Trapped'
      OBVIOUS
    <2>1. CASE UNCHANGED vars
      BY <2>1, TrapStays DEF vars, inputVars
    <2>2. CASE MainIgnores \/ MainAnswers
      BY <2>2 DEF Trapped, PollsForEver, SendsForEver, MainIgnores, MainAnswers
    <2>3. CASE PutPacketStep
      BY <2>3, PollingStays, SendingStays DEF Trapped
    <2>4. CASE GdbAnswers \/ GdbNacks \/ GdbTimesOut \/ GdbGivesUp \/ GdbInterrupts
      <3>1. UNCHANGED <<stubVars, base, count, consumed, undo>>
        BY <2>4 DEF GdbAnswers, GdbCommand, GdbReadsAck, GdbAccepts, GdbNacks,
                    GdbTimesOut, GdbGivesUp, GdbInterrupts, ioVars, inputVars
      <3>2. sent' = sent \/ \E c \in Chars : HostSends(c)
        BY <2>4, WireAssumption
           DEF GdbAnswers, GdbCommand, GdbReadsAck, GdbAccepts, GdbNacks, GdbTimesOut,
               GdbGivesUp, GdbInterrupts, inputVars
      <3> QED
        BY <3>1, <3>2, TrapStays
    <2> QED
      BY <2>1, <2>2, <2>3, <2>4 DEF Next
  <1> QED
    BY <1>1, PacketInductive, StaysReady, PTL DEF Spec, TrapHolds

\* The character that PutPacket puts back is read before PutPacket is called
\* again: none of its polls can miss it, for every size of a read, with
\* PChar and with Waikiki.
THEOREM UndoneIsForReader == Spec => []UndoneForReader
  <1> USE DEF UndoneForReader
  <1>1. Init => UndoneForReader
    BY DEF Init
  <1>2. UndoneForReader /\ [Next]_vars => UndoneForReader'
    <2> SUFFICES ASSUME UndoneForReader, [Next]_vars
                 PROVE  UndoneForReader'
      OBVIOUS
    <2>1. CASE UNCHANGED vars
      BY <2>1 DEF vars, inputVars, stubVars
    <2>2. CASE MainIgnores \/ MainAnswers
      BY <2>2 DEF MainIgnores, MainAnswers, GetChar
    <2>3. CASE DrainPacket \/ AckPacket
      BY <2>3 DEF DrainPacket, AckPacket, GetThenUnGet, UnGetChar, Return
    <2>4. CASE Drain \/ DrainOther \/ Transmit \/ AckPositive \/ AckNegative \/ AckOther
               \/ AckMore
      BY <2>4 DEF Drain, DrainOther, Transmit, AckPositive, AckNegative, AckOther, AckMore,
                  GetChar, inputVars
    <2>5. CASE GdbAnswers \/ GdbNacks \/ GdbTimesOut \/ GdbGivesUp \/ GdbInterrupts
      BY <2>5 DEF GdbAnswers, GdbCommand, GdbReadsAck, GdbAccepts, GdbNacks, GdbTimesOut,
                  GdbGivesUp, GdbInterrupts, ioVars, inputVars, stubVars
    <2> QED
      BY <2>1, <2>2, <2>3, <2>4, <2>5 DEF Next, PutPacketStep
  <1> QED
    BY <1>1, <1>2, PTL DEF Spec

-----------------------------------------------------------------------------
(* The conversation with a gdb that only ever refuses damaged frames.      *)

Undisturbed == MaxInterrupts = 0 /\ MaxTimeouts = 0 /\ MaxGiveUps = 0

\* What gdb sent and nobody read: nothing, one character or two.
Position    == base + consumed
NoneUnread  == undo = NoChar /\ Len(sent) = Position
Unread(c)   == undo = NoChar /\ Len(sent) = Position + 1 /\ sent[Position + 1] = c
BothUnread(c, d) == /\ undo = NoChar /\ Len(sent) = Position + 2
                    /\ sent[Position + 1] = c /\ sent[Position + 2] = d

\* The counts of a PutPacket that has been refused `tries` times.
Counted(sentFrames, refusals) == /\ frames = sentFrames /\ nacks = refusals
                                 /\ tries < RetryLimit /\ outcome = "none" /\ cur # 0

\* Nothing was asked yet, or the last answer was taken.
Settled == /\ pc = "main" /\ line = << >>
           /\ \/ outcome = "none" /\ frames = 0 /\ nacks = 0
              \/ /\ outcome = "acked" /\ cur \in accepted
                 /\ frames = nacks + 1 /\ frames <= RetryLimit

Idle  == Settled /\ gdb = "idle" /\ NoneUnread
Asked == Settled /\ gdb = "ackwait" /\ Unread("$")

\* Before the frame: gdb has the '+' for its command or finds it on the line.
Preparing == /\ pc \in {"drain", "send"} /\ NoneUnread /\ Counted(tries, tries)
             /\ \/ gdb = "ackwait" /\ line = IF MaxLine = 0 THEN << >> ELSE <<0>>
                \/ gdb = "wait" /\ line = << >>

Waiting == /\ pc = "ack" /\ NoneUnread /\ Counted(tries + 1, tries)
           /\ \/ gdb = "ackwait" /\ line \in {<< >>, <<0>>, <<0, cur>>}
              \/ gdb = "wait" /\ line \in {<< >>, <<cur>>}

Refused == /\ pc = "ack" /\ Unread("-") /\ Counted(tries + 1, tries + 1)
           /\ gdb = "wait" /\ line = << >>

\* gdb took the answer, and may have sent the next command already.
Taken == /\ pc = "ack" /\ Counted(tries + 1, tries) /\ cur \in accepted
         /\ line = << >>
         /\ \/ gdb = "idle" /\ Unread("+")
            \/ gdb = "ackwait" /\ BothUnread("+", "$")

GivenUp == /\ pc = "main" /\ outcome = "abandoned" /\ NoneUnread
           /\ gdb = "wait" /\ line = << >>
           /\ frames = RetryLimit /\ nacks = RetryLimit

Conversation == Idle \/ Asked \/ Preparing \/ Waiting \/ Refused \/ Taken \/ GivenUp

\* Lines of one or two numbers.
LEMMA ShortLines ==
    ASSUME NEW a \in Nat, NEW b \in Nat
    PROVE  /\ Append(<< >>, a) = <<a>> /\ Append(<<a>>, b) = <<a, b>>
           /\ Tail(<<a>>) = << >> /\ Tail(<<a, b>>) = <<b>>
           /\ Head(<<a>>) = a /\ Head(<<a, b>>) = a
           /\ Len(<< >>) = 0 /\ Len(<<a>>) = 1
           /\ <<a>> # << >> /\ <<a, b>> # << >>
  <1>1. Len(<< >>) = 0 /\ Len(<<a>>) = 1 /\ Len(<<a, b>>) = 2
    OBVIOUS
  <1>2. Head(<<a>>) = a /\ Head(<<a, b>>) = a
    OBVIOUS
  <1>3. <<a>> # << >> /\ <<a, b>> # << >>
    OBVIOUS
  <1>4. Append(<< >>, a) = <<a>>
    OBVIOUS
  <1>7. Append(<<a>>, b) = <<a, b>>
    <2>1. <<a>> \in Seq(Nat) /\ <<a, b>> \in Seq(Nat) /\ Append(<<a>>, b) \in Seq(Nat)
      OBVIOUS
    <2>2. Len(Append(<<a>>, b)) = 2 /\ \A i \in 1 .. 2 : Append(<<a>>, b)[i] = <<a, b>>[i]
      OBVIOUS
    <2> QED
      BY <1>1, <2>1, <2>2, SeqEqual
  <1>5. Tail(<<a>>) = << >>
    OBVIOUS
  <1>6. Tail(<<a, b>>) = <<b>>
    OBVIOUS
  <1> QED
    BY <1>1, <1>2, <1>3, <1>4, <1>5, <1>6, <1>7, Zenon

\* With nothing unread a poll finds nothing, and leaves nothing to read.
LEMMA PollNone ==
    ASSUME TypeInv, NoneUnread, NEW r \in BOOLEAN, PendingInput(MasterCore, r),
           UNCHANGED <<sent, undo>>
    PROVE  r = FALSE /\ NoneUnread'
  <1> USE CapacityAssumption, PCharAssumption
          DEF TypeInv, IInv, InputTypeOK, WindowSound, NoneUnread, Position, buffer
  <1>1. count = consumed
    OBVIOUS
  <1>2. CASE ~ready
    BY <1>2 DEF PendingInput
  <1>3. CASE ready
    <2>1. PICK n \in Chunks : Refill(n)
      BY <1>1, <1>3 DEF PendingInput, NeedsRead
    <2>2. n = 0
      BY <1>1, <2>1 DEF Chunks, Arrived
    <2>3. base' = base + count /\ count' = 0 /\ consumed' = 0
      BY <1>3, <2>1, <2>2 DEF PendingInput, Refill
    <2>4. r = (count' > 0)
      BY <1>3, Zenon DEF PendingInput
    <2>5. r = FALSE
      <3>1. ~(count' > 0)
        BY <2>3
      <3> QED
        BY <2>4, <3>1, Zenon
    <2>6. Position' = Position
      BY <1>1, <2>3
    <2> QED
      BY <2>5, <2>6, Zenon
  <1> QED
    BY <1>2, <1>3

\* The character that is taken is the first unread one.
LEMMA TakesFirst ==
    ASSUME TypeInv, undo = NoChar, NEW c \in Chars, Fetch(c)
    PROVE  /\ Position < Len(sent) /\ c = sent[Position + 1]
           /\ Position' = Position + 1
  <1> USE CapacityAssumption, PCharAssumption
          DEF TypeInv, IInv, InputTypeOK, WindowSound, Position
  <1>1. CASE consumed < count
    BY <1>1 DEF Fetch
  <1>2. CASE consumed >= count
    <2>1. PICK n \in Chunks \ {0} : Refill(n)
      BY <1>2 DEF Fetch
    <2>2. n \in 1 .. Capacity /\ base + count + n <= Len(sent)
      BY <2>1, ChunksBounded
    <2>3. consumed = count /\ c = sent[base + count + 1]
      BY <1>2 DEF Fetch
    <2>4. base' = base + count /\ consumed' = 1
      BY <1>2, <2>1 DEF Fetch, Refill
    <2> QED
      BY <2>2, <2>3, <2>4
  <1> QED
    BY <1>1, <1>2

\* What is unread after a character was taken, or after gdb sent one.
LEMMA TakesUnread ==
    ASSUME TypeInv, NEW c \in Chars, GetChar(c), UNCHANGED sent
    PROVE  /\ ~NoneUnread
           /\ \A d \in Chars : Unread(d) => c = d /\ NoneUnread'
           /\ \A d, e \in Chars : BothUnread(d, e) => c = d /\ Unread(e)'
  <1>1. undo' = NoChar
    BY DEF GetChar
  <1>2. Position \in Nat /\ Len(sent) \in Nat
    BY DEF TypeInv, IInv, InputTypeOK, Position
  <1>3. ~NoneUnread
    BY <1>2, TakesFirst DEF GetChar, NoneUnread
  <1>4. ASSUME NEW d \in Chars, Unread(d)
        PROVE  c = d /\ NoneUnread'
    BY <1>1, <1>2, <1>4, TakesFirst DEF GetChar, Unread, NoneUnread
  <1>5. ASSUME NEW d \in Chars, NEW e \in Chars, BothUnread(d, e)
        PROVE  c = d /\ Unread(e)'
    <2>1. c = d /\ Position' = Position + 1
      BY <1>5, TakesFirst DEF GetChar, BothUnread
    <2>2. sent'[Position' + 1] = e /\ Len(sent') = Position' + 1
      BY <1>2, <1>5, <2>1 DEF BothUnread
    <2> QED
      BY <1>1, <2>1, <2>2 DEF Unread
  <1> QED
    BY <1>3, <1>4, <1>5

\* A character that gdb sends to an input that was read to its end is the unread one.
LEMMA SendsUnread ==
    ASSUME TypeInv, NEW c \in Chars, HostSends(c), UNCHANGED <<base, consumed, undo>>
    PROVE  /\ NoneUnread => Unread(c)'
           /\ \A d \in Chars : Unread(d) => BothUnread(d, c)'
  <1>1. /\ sent \in Seq(Chars) /\ sent' = Append(sent, c)
        /\ Position \in Nat /\ Position' = Position
    BY DEF TypeInv, IInv, InputTypeOK, Position, HostSends
  <1>2. /\ Len(sent') = Len(sent) + 1 /\ sent'[Len(sent) + 1] = c
        /\ \A i \in 1 .. Len(sent) : sent'[i] = sent[i]
    BY <1>1
  <1> QED
    BY <1>1, <1>2 DEF NoneUnread, Unread, BothUnread

\* What does not touch the input leaves it unread.
LEMMA StaysUnread ==
    ASSUME UNCHANGED <<sent, base, consumed, undo>>
    PROVE  /\ NoneUnread => NoneUnread'
           /\ \A d : Unread(d) => Unread(d)'
           /\ \A d, e : BothUnread(d, e) => BothUnread(d, e)'
  BY DEF NoneUnread, Unread, BothUnread, Position

\* gdb's packet is the only thing the reader of commands ever finds.
LEMMA ConversationCaller ==
    ASSUME TypeInv, Conversation, MainIgnores \/ MainAnswers
    PROVE  Conversation'
  <1> USE WireAssumption
  <1>1. pc = "main" /\ \E c \in Chars : GetChar(c) /\ UNCHANGED sent
    BY DEF MainIgnores, MainAnswers
  <1>2. Asked
    <2>1. Idle \/ Asked \/ GivenUp
      BY <1>1 DEF Conversation, Preparing, Waiting, Refused, Taken
    <2> QED
      BY <1>1, <2>1, TakesUnread DEF Idle, GivenUp
  <1>3. ~MainIgnores
    BY <1>2, TakesUnread DEF MainIgnores, Asked
  <1>4. MainAnswers
    BY <1>3
  <1>5. NoneUnread'
    BY <1>2, <1>4, TakesUnread DEF MainAnswers, Asked
  <1>6. line' = IF MaxLine = 0 THEN << >> ELSE <<0>>
    <2>1. line = << >> /\ MaxLine \in Nat
      BY <1>2, BoundsAssumption DEF Asked, Settled
    <2> QED
      BY <1>4, <2>1, ShortLines DEF MainAnswers, Write
  <1>7. Counted(tries, tries)'
    <2>1. /\ tries' = 0 /\ cur' = cur + 1 /\ outcome' = "none" /\ frames' = 0
          /\ nacks' = 0
      BY <1>4 DEF MainAnswers
    <2> QED
      BY <2>1, RetryAssumption DEF Counted, TypeInv, PacketTypes
  <1>8. pc' \in {"drain", "send"} /\ gdb' = "ackwait"
    BY <1>2, <1>4 DEF MainAnswers, Asked
  <1>9. Preparing'
    BY <1>5, <1>6, <1>7, <1>8 DEF Preparing
  <1> QED
    BY <1>9 DEF Conversation

\* The frame goes out, and the wait for its acknowledgement begins.
LEMMA ConversationSends ==
    ASSUME TypeInv, Conversation, Drain \/ Transmit
    PROVE  Conversation'
  <1> USE RetryAssumption
  <1>1. Preparing
    BY DEF Conversation, Idle, Asked, Settled, Waiting, Refused, Taken, GivenUp,
           Drain, Transmit
  <1>2. CASE Drain
    <2>1. pc' = "send" /\ NoneUnread'
      BY <1>1, <1>2, PollNone DEF Drain, Preparing
    <2> QED
      BY <1>1, <1>2, <2>1 DEF Conversation, Preparing, Counted, Drain, gdbVars
  <1>3. CASE Transmit
    <2>1. NoneUnread'
      BY <1>1, <1>3, StaysUnread DEF Transmit, inputVars, Preparing
    <2>2. Counted(tries + 1, tries)'
      BY <1>1, <1>3 DEF Transmit, gdbVars, Preparing, Counted, TypeInv, PacketTypes
    <2>3. \/ gdb = "ackwait" /\ line' \in {<< >>, <<0>>, <<0, cur>>}
          \/ gdb = "wait" /\ line' \in {<< >>, <<cur>>}
      <3>1. cur \in Nat
        BY DEF TypeInv, PacketTypes
      <3>2. line' = line \/ line' = Append(line, cur)
        BY <1>3 DEF Transmit, Write
      <3>3. \/ gdb = "ackwait" /\ line \in {<< >>, <<0>>} /\ (line = << >> => MaxLine = 0)
            \/ gdb = "wait" /\ line = << >>
        BY <1>1 DEF Preparing
      <3>4. line = << >> /\ MaxLine = 0 => line' = << >>
        BY <1>3, ShortLines DEF Transmit, Write
      <3>5. line = << >> => line' \in {<< >>, <<cur>>}
        BY <3>1, <3>2, ShortLines
      <3>6. line = <<0>> => line' \in {<<0>>, <<0, cur>>}
        BY <3>1, <3>2, ShortLines
      <3> QED
        BY <3>3, <3>4, <3>5, <3>6
    <2>4. pc' = "ack" /\ UNCHANGED <<gdb, cur>>
      BY <1>3 DEF Transmit, gdbVars
    <2>5. Waiting'
      BY <2>1, <2>2, <2>3, <2>4 DEF Waiting
    <2> QED
      BY <2>5 DEF Conversation
  <1> QED
    BY <1>2, <1>3

\* What PutPacket takes while it waits is gdb's answer to the frame.
LEMMA ConversationTakes ==
    ASSUME TypeInv, Conversation,
           AckPositive \/ AckNegative \/ AckPacket \/ AckOther
    PROVE  Conversation'
  <1> USE RetryAssumption, WireAssumption
  <1>1. pc = "ack" /\ \E c \in Chars : Fetch(c) /\ UNCHANGED sent
    BY DEF AckPositive, AckNegative, AckPacket, AckOther, Acks, GetChar, GetThenUnGet
  <1>2. undo = NoChar /\ (Waiting \/ Refused \/ Taken)
    BY <1>1 DEF Conversation, Idle, Asked, Settled, Preparing, GivenUp,
                Waiting, Refused, Taken, NoneUnread, Unread, BothUnread
  <1>3. ~Waiting
    BY <1>1, <1>2, TakesFirst DEF Waiting, NoneUnread, Position, TypeInv, IInv, InputTypeOK
  <1>4. \A c \in Chars : Fetch(c) => c = IF Refused THEN "-" ELSE "+"
    BY <1>2, <1>3, TakesFirst DEF Refused, Taken, Unread, BothUnread
  <1>5. CASE Refused
    <2>1. AckNegative /\ NoneUnread'
      BY <1>4, <1>5, TakesUnread
         DEF AckPositive, AckNegative, AckPacket, AckOther, Acks, GetChar, GetThenUnGet, Refused
    <2>2. /\ tries' = tries + 1 /\ tries \in Nat /\ tries < RetryLimit
          /\ UNCHANGED <<frames, nacks, cur, gdb, line>>
          /\ frames = tries + 1 /\ nacks = tries + 1
      BY <1>5, <2>1 DEF AckNegative, CountTry, Refused, Counted, gdbVars, TypeInv, PacketTypes
    <2>3. CASE GivesUp(tries')
      <3>1. tries' = RetryLimit
        BY <2>2, <2>3 DEF GivesUp
      <3>2. GivenUp'
        BY <1>5, <2>1, <2>2, <2>3, <3>1 DEF AckNegative, Return, Refused, GivenUp
      <3> QED
        BY <3>2 DEF Conversation
    <2>4. CASE ~GivesUp(tries')
      <3>1. Counted(tries, tries)'
        BY <1>5, <2>1, <2>2, <2>4 DEF GivesUp, AckNegative, Refused, Counted
      <3>2. Preparing'
        BY <1>5, <2>1, <2>2, <2>4, <3>1 DEF AckNegative, Again, Refused, Preparing
      <3> QED
        BY <3>2 DEF Conversation
    <2> QED
      BY <2>3, <2>4
  <1>6. CASE Taken
    <2>1. ~Refused
      BY <1>6 DEF Refused, Taken, Unread, BothUnread
    <2>2. AckPositive
      BY <1>4, <2>1 DEF AckNegative, AckPacket, AckOther, GetChar, GetThenUnGet
    <2>3. Settled'
      <3>1. /\ pc' = "main" /\ outcome' = "acked"
            /\ UNCHANGED <<line, cur, accepted, frames, nacks>>
        BY <2>2 DEF AckPositive, Return, gdbVars
      <3>2. frames = nacks + 1 /\ frames <= RetryLimit
        BY <1>6 DEF Taken, Counted, TypeInv, PacketTypes
      <3> QED
        BY <1>6, <3>1, <3>2 DEF Settled, Taken
    <2>4. GetChar("+") /\ UNCHANGED <<sent, gdb>>
      BY <2>2 DEF AckPositive, Acks, gdbVars
    <2>5. Idle' \/ Asked'
      BY <1>6, <2>3, <2>4, TakesUnread DEF Taken, Idle, Asked
    <2> QED
      BY <2>5 DEF Conversation
  <1> QED
    BY <1>2, <1>3, <1>5, <1>6

\* Steps of PutPacket.
LEMMA ConversationPutPacket ==
    ASSUME TypeInv, Conversation, PutPacketStep
    PROVE  Conversation'
  <1>1. pc \notin {"drainGet", "ackMore"}
    BY DEF Conversation, Idle, Asked, Settled, Preparing, Waiting, Refused, Taken, GivenUp
  <1>2. ~DrainPacket /\ ~DrainOther /\ ~AckMore
    BY <1>1 DEF DrainPacket, DrainOther, AckMore
  <1> QED
    BY <1>2, ConversationSends, ConversationTakes DEF PutPacketStep

\* gdb sends its next command.
LEMMA ConversationCommand ==
    ASSUME TypeInv, Conversation, GdbCommand
    PROVE  Conversation'
  <1> USE WireAssumption DEF stubVars
  <1>1. /\ gdb = "idle" /\ gdb' = "ackwait" /\ HostSends("$")
        /\ UNCHANGED <<base, consumed, undo, stubVars, line, accepted, nacks>>
    BY DEF GdbCommand, ioVars
  <1>2. CASE Idle
    <2>1. Unread("$")'
      BY <1>1, <1>2, SendsUnread DEF Idle
    <2>2. Asked'
      BY <1>1, <1>2, <2>1 DEF Idle, Asked, Settled
    <2> QED
      BY <2>2 DEF Conversation
  <1>3. CASE Taken
    <2>1. Unread("+")
      BY <1>1, <1>3 DEF Taken
    <2>2. BothUnread("+", "$")'
      BY <1>1, <2>1, SendsUnread
    <2>3. Taken'
      BY <1>1, <1>3, <2>2 DEF Taken, Counted
    <2> QED
      BY <2>3 DEF Conversation
  <1> QED
    BY <1>1, <1>2, <1>3 DEF Conversation, Asked, Preparing, Waiting, Refused, GivenUp

\* gdb finds the '+' for its command.
LEMMA ConversationAck ==
    ASSUME TypeInv, Conversation, GdbReadsAck
    PROVE  Conversation'
  <1> USE DEF stubVars
  <1>1. gdb = "ackwait" /\ line # << >> /\ cur \in Nat /\ cur \in Nat
    BY DEF GdbReadsAck, TypeInv, PacketTypes
  <1>2. line \in {<<0>>, <<0, cur>>} /\ ((Preparing /\ line = <<0>>) \/ Waiting)
    BY <1>1 DEF Conversation, Idle, Asked, Settled, Preparing, Waiting, Refused, Taken, GivenUp
  <1>3. Head(line) = 0 /\ Tail(line) \in {<< >>, <<cur>>}
    BY <1>1, <1>2, ShortLines
  <1>4. /\ gdb' = "wait" /\ line' = Tail(line)
        /\ UNCHANGED <<sent, base, consumed, undo, stubVars, nacks>>
    BY <1>3 DEF GdbReadsAck, ioVars
  <1>5. NoneUnread'
    BY <1>2, <1>4, StaysUnread DEF Preparing, Waiting
  <1>6. CASE Preparing /\ line = <<0>>
    <2>1. Tail(line) = << >>
      BY <1>1, <1>6, ShortLines
    <2>2. Preparing'
      BY <1>4, <1>5, <1>6, <2>1 DEF Preparing, Counted
    <2> QED
      BY <2>2 DEF Conversation
  <1>7. CASE Waiting
    BY <1>3, <1>4, <1>5, <1>7 DEF Conversation, Waiting, Counted
  <1> QED
    BY <1>2, <1>6, <1>7

\* gdb takes or refuses the frame it waits for.
LEMMA ConversationReads ==
    ASSUME TypeInv, Conversation, GdbAccepts \/ GdbNacks
    PROVE  Conversation'
  <1> USE WireAssumption DEF stubVars
  <1>1. gdb = "wait" /\ line # << >> /\ cur \in Nat /\ line' = Tail(line)
    BY DEF GdbAccepts, GdbNacks, TypeInv, PacketTypes
  <1>2. Waiting /\ line = <<cur>> /\ cur # 0
    BY <1>1 DEF Conversation, Idle, Asked, Settled, Preparing, Waiting, Refused, Taken,
                GivenUp, Counted
  <1>3. Head(line) = cur /\ line' = << >>
    BY <1>1, <1>2, ShortLines
  <1>4. UNCHANGED <<base, consumed, undo, stubVars>>
    BY DEF GdbAccepts, GdbNacks, ioVars
  <1>5. CASE GdbAccepts
    <2>1. HostSends("+") /\ gdb' = "idle" /\ cur \in accepted' /\ UNCHANGED nacks
      BY <1>2, <1>3, <1>5 DEF GdbAccepts
    <2>2. Unread("+")'
      BY <1>2, <1>4, <2>1, SendsUnread DEF Waiting
    <2>3. Taken'
      BY <1>2, <1>3, <1>4, <2>1, <2>2 DEF Waiting, Taken, Counted
    <2> QED
      BY <2>3 DEF Conversation
  <1>6. CASE GdbNacks
    <2>1. HostSends("-") /\ nacks' = nacks + 1 /\ UNCHANGED gdb
      BY <1>6 DEF GdbNacks
    <2>2. Unread("-")'
      BY <1>2, <1>4, <2>1, SendsUnread DEF Waiting
    <2>3. Refused'
      BY <1>1, <1>2, <1>3, <1>4, <2>1, <2>2 DEF Waiting, Refused, Counted
    <2> QED
      BY <2>3 DEF Conversation
  <1> QED
    BY <1>5, <1>6

\* Every step.
LEMMA ConversationStep ==
    ASSUME Undisturbed, TypeInv, Conversation, [Next]_vars
    PROVE  Conversation'
  <1>1. ~GdbTimesOut /\ ~GdbGivesUp /\ ~GdbInterrupts
    <2>1. \A d \in {"timeout", "giveup", "interrupt"} : ~Does(d)
      BY DEF Undisturbed, Does, Limit, Bounded, TypeInv, GdbTypes
    <2> QED
      BY <2>1 DEF GdbTimesOut, GdbGivesUp, GdbInterrupts
  <1>2. CASE UNCHANGED vars
    <2>1. UNCHANGED <<sent, base, consumed, undo, stubVars, line, gdbVars>>
      BY <1>2 DEF vars, inputVars
    <2>2. /\ NoneUnread' = NoneUnread /\ \A d : Unread(d)' = Unread(d)
          /\ \A d, e : BothUnread(d, e)' = BothUnread(d, e)
      BY <2>1 DEF NoneUnread, Unread, BothUnread, Position
    <2> QED
      BY <2>1, <2>2 DEF stubVars, gdbVars, Conversation, Idle, Asked, Settled, Preparing,
                        Waiting, Refused, Taken, GivenUp, Counted
  <1> QED
    BY <1>1, <1>2, ConversationCaller, ConversationPutPacket, ConversationCommand,
       ConversationAck, ConversationReads DEF Next, GdbAnswers

\* The conversation goes round these situations.
LEMMA ConversationHolds == ASSUME Undisturbed PROVE Spec => []Conversation
  <1>1. Init => Conversation
    <2> SUFFICES ASSUME Init
                 PROVE  Conversation
      OBVIOUS
    <2>1. NoneUnread
      BY DEF Init, NoneUnread, Position
    <2> QED
      BY <2>1 DEF Init, Conversation, Idle, Settled
  <1>2. TypeInv /\ Conversation /\ [Next]_vars => Conversation'
    BY ConversationStep
  <1> QED
    BY <1>1, <1>2, PacketInductive, PTL DEF Spec

\* With a gdb that neither interrupts nor times out, the '+' that ends a
\* PutPacket is gdb's answer to that very packet, and never left over from an
\* earlier one: at each call nothing is unread but what gdb says to this frame.
THEOREM AckedAnswered == ASSUME Undisturbed PROVE Spec => []AckedMeansAccepted
  <1>1. Conversation => AckedMeansAccepted
    BY DEF Conversation, Idle, Asked, Settled, Preparing, Waiting, Refused, Taken, GivenUp,
           Counted, AckedMeansAccepted
  <1> QED
    BY <1>1, ConversationHolds, PTL

\* With such a gdb the packet is sent once and once more per NACK, at most
\* RetryLimit times, and given up only after RetryLimit NACKs.
THEOREM RetriesCounted == ASSUME Undisturbed PROVE Spec => []SentUntilLimit
  <1>1. TypeInv /\ Conversation => SentUntilLimit
    BY RetryAssumption
       DEF TypeInv, PacketTypes, GdbTypes, Conversation, Idle, Asked, Settled, Preparing,
           Waiting, Refused, Taken, GivenUp, Counted, SentUntilLimit
  <1> QED
    BY <1>1, PacketInductive, ConversationHolds, PTL

=============================================================================
