------------------------------ MODULE PacketIO ------------------------------
(***************************************************************************)
(* MasterAgent_PutPacket: send a packet, wait for gdb's acknowledgement,   *)
(* send it again on a negative one, and watch for CTRL+C meanwhile.  The   *)
(* reader of commands (coreinit's master agent loop) and gdb are external: *)
(* they are here as the code in src/ meets them.  gdb's "$" stands for a   *)
(* whole packet, the stub's frame for the number of the packet in it.      *)
(***************************************************************************)
EXTENDS IOInput

CONSTANTS RetryLimit,    \* NACKs after which PutPacket gives up: 10
          FirstPolls,    \* values callers pass as checkPendingInputFirst
          MaxCommands,   \* bounds on what gdb does: commands it sends,
          MaxInterrupts, \*   CTRL+C keys pressed while it waits,
          MaxNacks,      \*   frames it finds damaged,
          MaxTimeouts,   \*   times it asks again although nothing came,
          MaxGiveUps,    \*   answers it stops waiting for,
          MaxDupAcks,    \*   copies it acknowledges and ignores,
          MaxLine        \*   and what the stub wrote that it has not read

ASSUME RetryAssumption  == RetryLimit \in Nat \ {0}
ASSUME FirstAssumption  == FirstPolls \subseteq BOOLEAN /\ FirstPolls # {}
ASSUME BoundsAssumption == {MaxCommands, MaxInterrupts, MaxNacks, MaxTimeouts,
                            MaxGiveUps, MaxDupAcks, MaxLine} \subseteq Nat
ASSUME WireAssumption   == Chars = {"+", "-", "$", "^C"}

VARIABLES
    pc,           \* where the master core is: "main" outside PutPacket
    checkPending, \* checkPendingInput
    tries,        \* tryCount
    ctrlC,        \* ctrl_c_seen
    signal,       \* gCoreData[master].signal: SIGINT recorded or not
    cur,          \* number of the last packet given to PutPacket
    outcome,      \* history: how the last PutPacket returned
    start, end,   \* history: `high` when it was called and when it returned
    frames,       \* history: frames sent for the packet `cur`
    line,         \* what the stub wrote and gdb has not read
    gdb,          \* gdb: "idle", "ackwait" or "wait" (for the answer)
    accepted,     \* packets gdb took as answers
    nacks,        \* history: NACKs gdb sent since PutPacket was called
    did           \* how often gdb did each bounded thing

stubVars   == <<pc, checkPending, tries, ctrlC, signal, cur, outcome, start,
                end, frames>>
gdbVars    == <<gdb, accepted, nacks, did>>
ioVars     == <<base, count, consumed, undo, high>>
vars       == <<inputVars, stubVars, line, gdbVars>>

Bounded == {"command", "interrupt", "nack", "timeout", "giveup",
             "dupack"}
Limit   == [command |-> MaxCommands, interrupt |-> MaxInterrupts,
            nack |-> MaxNacks, timeout |-> MaxTimeouts, giveup |-> MaxGiveUps,
            dupack |-> MaxDupAcks]

Init == /\ sent = << >> /\ base = 0 /\ count = 0 /\ consumed = 0
        /\ undo = NoChar /\ ready = TRUE /\ high = 0
        /\ pc = "main" /\ checkPending = FALSE /\ tries = 0 /\ ctrlC = FALSE
        /\ signal = "none" /\ cur = 0 /\ outcome = "none" /\ start = 0 /\ end = 0
        /\ frames = 0 /\ line = << >> /\ gdb = "idle" /\ accepted = {}
        /\ nacks = 0 /\ did = [d \in Bounded |-> 0]

\* MasterAgent_IOWriteString.  A bound: what does not fit in MaxLine is not
\* kept; it could only be a further copy of a frame that is there already.
Write(x) == line' = IF Len(line) < MaxLine THEN Append(line, x) ELSE line

-----------------------------------------------------------------------------
(* The caller: coreinit reads characters up to a packet, acknowledges it,  *)
(* runs the command and answers it with PutPacket.                         *)

MainIgnores == /\ pc = "main"
               /\ \E c \in Chars \ {"$"} : GetChar(c)
               /\ UNCHANGED <<sent, ready, stubVars, line, gdbVars>>

MainAnswers == /\ pc = "main"
               /\ GetChar("$")
               /\ \E first \in FirstPolls :
                    /\ checkPending' = first
                    /\ pc' = IF first THEN "drain" ELSE "send"
               /\ tries' = 0 /\ ctrlC' = FALSE
               /\ signal' = "none" /\ cur' = cur + 1 /\ outcome' = "none"
               /\ start' = high' /\ end' = high' /\ frames' = 0
               /\ Write(0)                    \* the '+' for the command
               /\ nacks' = 0
               /\ UNCHANGED <<sent, ready, gdb, accepted, did>>

-----------------------------------------------------------------------------
(* MasterAgent_PutPacket.                                                  *)

Return(how) == pc' = "main" /\ outcome' = how /\ end' = high'

\* Line 227: while (IOPendingInput()), and on to the frame when nothing is.
Drain == /\ pc = "drain"
         /\ \E r \in BOOLEAN : /\ PendingInput(MasterCore, r)
                               /\ pc' = IF r THEN "drainGet" ELSE "send"
         /\ UNCHANGED <<sent, undo, ready, high, checkPending, tries, ctrlC,
                        signal, cur, outcome, start, end, frames, line,
                        gdbVars>>

\* Lines 228-235: a new packet ends the call; a CTRL+C is remembered.
DrainPacket == /\ pc = "drainGet"
               /\ GetThenUnGet("$")
               /\ Return("drained")
               /\ UNCHANGED <<sent, ready, checkPending, tries, ctrlC, signal,
                              cur, start, frames, line, gdbVars>>

DrainOther == /\ pc = "drainGet"
              /\ \E c \in Chars \ {"$"} :
                    GetChar(c) /\ ctrlC' = (ctrlC \/ c = "^C")
              /\ pc' = "drain"
              /\ UNCHANGED <<sent, ready, checkPending, tries, signal, cur,
                             outcome, start, end, frames, line, gdbVars>>

\* Lines 239-269: the frame goes out.
Transmit == /\ pc = "send"
            /\ Write(cur)
            /\ frames' = IF frames > RetryLimit THEN frames ELSE frames + 1
            /\ pc' = "ack"
            /\ UNCHANGED <<inputVars, checkPending, tries, ctrlC, signal, cur,
                           outcome, start, end, gdbVars>>

\* Mutated form: the CTRL+C seen before is not recorded.
RecordsNothing == UNCHANGED signal

\* Lines 274-276.
RecordInterrupt == signal' = IF ctrlC THEN "SIGINT" ELSE signal

\* Mutated form: any acknowledgement is taken for a positive one.
AcksConfused == {"+", "-"}

Acks == {"+"}

\* Lines 272-279.
AckPositive == /\ pc = "ack"
               /\ \E c \in Acks : GetChar(c)
               /\ RecordInterrupt /\ Return("acked")
               /\ UNCHANGED <<sent, ready, checkPending, tries, ctrlC, cur,
                              start, frames, line, gdbVars>>

\* Mutated forms: one NACK too many, or one too few.
GivesUpLate(t)  == t > RetryLimit
GivesUpEarly(t) == t > RetryLimit - 2

\* Line 282, with 10 for the limit.
GivesUp(t) == t > RetryLimit - 1

\* Mutated form: the count runs down.
CountsDown == tries' = tries - 1

\* Line 281.
CountTry == tries' = tries + 1

\* Mutated form: without the `break`.
WaitsOn == checkPending' = TRUE /\ pc' = "ackMore"

\* Lines 286-287, and the outer loop again.
Again == checkPending' = TRUE /\ pc' = "drain"

\* Lines 280-287: send again, after polling, or give up.
AckNegative == /\ pc = "ack"
               /\ GetChar("-")
               /\ RecordInterrupt /\ CountTry
               /\ IF GivesUp(tries')
                  THEN Return("abandoned") /\ UNCHANGED checkPending
                  ELSE Again /\ UNCHANGED <<outcome, end>>
               /\ UNCHANGED <<sent, ready, ctrlC, cur, start, frames, line,
                              gdbVars>>

\* Mutated form: a new packet ends the inner loop only, as a NACK does.
ResendsOnPacket ==
    /\ pc = "ack" /\ GetThenUnGet("$") /\ RecordInterrupt
    /\ pc' = IF checkPending THEN "drain" ELSE "send"
    /\ UNCHANGED <<sent, ready, checkPending, tries, ctrlC, cur, outcome, start,
                   end, frames, line, gdbVars>>

\* Lines 288-291: gdb sent a new packet instead.
AckPacket == /\ pc = "ack"
             /\ GetThenUnGet("$")
             /\ RecordInterrupt /\ Return("preempted")
             /\ UNCHANGED <<sent, ready, checkPending, tries, ctrlC, cur,
                            start, frames, line, gdbVars>>

\* Lines 293-295: anything else that is not an acknowledgement.
AckOther == /\ pc = "ack"
            /\ GetChar("^C")
            /\ ctrlC' = TRUE /\ pc' = "ackMore"
            /\ UNCHANGED <<sent, ready, checkPending, tries, signal, cur,
                           outcome, start, end, frames, line, gdbVars>>

\* Line 296: wait on when nothing is pending; when something is, leave the
\* loop, that is, send the frame again.
AckMore == /\ pc = "ackMore"
           /\ \E r \in BOOLEAN :
                /\ PendingInput(MasterCore, r)
                /\ pc' = IF ~r THEN "ack"
                         ELSE IF checkPending THEN "drain" ELSE "send"
           /\ UNCHANGED <<sent, undo, ready, high, checkPending, tries, ctrlC,
                          signal, cur, outcome, start, end, frames, line,
                        gdbVars>>

PutPacketStep == \/ Drain \/ DrainPacket \/ DrainOther \/ Transmit
                 \/ AckPositive \/ AckNegative \/ AckPacket \/ AckOther
                 \/ AckMore

-----------------------------------------------------------------------------
(* gdb.                                                                    *)

Does(d) == did[d] < Limit[d] /\ did' = [did EXCEPT ![d] = @ + 1]

GdbCommand == /\ gdb = "idle" /\ Does("command")
              /\ HostSends("$") /\ gdb' = "ackwait"
              /\ UNCHANGED <<ioVars, ready, stubVars, line, accepted, nacks>>

\* Before the '+' for its command gdb takes a packet for an old answer that
\* was sent again: it acknowledges and ignores it.
GdbReadsAck ==
    /\ gdb = "ackwait" /\ line # << >>
    /\ line' = Tail(line)
    /\ IF Head(line) = 0 THEN gdb' = "wait" /\ UNCHANGED <<sent, did>>
       ELSE HostSends("+") /\ Does("dupack") /\ UNCHANGED gdb
    /\ UNCHANGED <<ioVars, ready, stubVars, accepted, nacks>>

GdbAccepts ==
    /\ gdb = "wait" /\ line # << >>
    /\ line' = Tail(line)
    /\ IF Head(line) = 0 THEN UNCHANGED <<sent, gdb, accepted>>
       ELSE /\ HostSends("+") /\ gdb' = "idle"
            /\ accepted' = accepted \cup {Head(line)}
    /\ UNCHANGED <<ioVars, ready, stubVars, nacks, did>>

\* The frame was damaged.
GdbNacks == /\ gdb = "wait" /\ line # << >> /\ Head(line) # 0 /\ Does("nack")
            /\ line' = Tail(line)
            /\ HostSends("-") /\ nacks' = nacks + 1
            /\ UNCHANGED <<ioVars, ready, stubVars, gdb, accepted>>

\* remotetimeout is over: ask for the answer again.
GdbTimesOut == /\ gdb = "wait" /\ Does("timeout")
               /\ HostSends("-") /\ nacks' = nacks + 1
               /\ UNCHANGED <<ioVars, ready, stubVars, line, gdb, accepted>>

\* Stop waiting; the next command will be sent.
GdbGivesUp == /\ gdb = "wait" /\ Does("giveup")
              /\ did["command"] < MaxCommands
              /\ gdb' = "idle"
              /\ UNCHANGED <<inputVars, stubVars, line, accepted, nacks>>

GdbInterrupts == /\ gdb = "wait" /\ Does("interrupt")
                 /\ HostSends("^C")
                 /\ UNCHANGED <<ioVars, ready, stubVars, line, gdb, accepted,
                                nacks>>

GdbAnswers == GdbCommand \/ GdbReadsAck \/ GdbAccepts

Next == \/ MainIgnores \/ MainAnswers \/ PutPacketStep
        \/ GdbAnswers \/ GdbNacks \/ GdbTimesOut \/ GdbGivesUp
        \/ GdbInterrupts

Spec == Init /\ [][Next]_vars

\* The master core runs; gdb reads its socket and its user goes on.
FairSpec == Spec /\ WF_vars(MainIgnores \/ MainAnswers)
                 /\ WF_vars(PutPacketStep)
                 /\ WF_vars(GdbAnswers)

-----------------------------------------------------------------------------
(* Properties.                                                             *)

\* Types of the variables.
TypeOK ==
    /\ InputTypeOK
    /\ pc \in {"main", "drain", "drainGet", "send", "ack", "ackMore"}
    /\ checkPending \in BOOLEAN /\ tries \in Nat /\ ctrlC \in BOOLEAN
    /\ signal \in {"none", "SIGINT"} /\ cur \in Nat
    /\ outcome \in {"none", "acked", "abandoned", "preempted",
                    "drained"}
    /\ start \in Nat /\ end \in Nat /\ frames \in Nat /\ line \in Seq(Nat)
    /\ gdb \in {"idle", "ackwait", "wait"} /\ accepted \subseteq Nat
    /\ nacks \in Nat /\ did \in [Bounded -> Nat]

\* With a gdb that neither interrupts nor times out, the '+' that ends a
\* PutPacket is gdb's answer to that very packet, however often it was
\* damaged, and never left over from an earlier one.
AckedMeansAccepted == outcome = "acked" => cur \in accepted

\* With such a gdb the packet is sent once and once more per NACK, at most
\* RetryLimit times in all, and given up only after RetryLimit NACKs.
SentUntilLimit == /\ frames <= 1 + nacks /\ frames <= RetryLimit
                  /\ outcome = "abandoned" => nacks = RetryLimit

InterruptTaken == \E p \in start + 1 .. end : sent[p] = "^C"

AckLoopReturns == {"acked", "abandoned", "preempted"}

\* A CTRL+C that PutPacket took out of the input while it waited, in whichever
\* loop and try, is recorded as SIGINT when the acknowledgement loop returns.
AckLoopRecordsInterrupt ==
    pc = "main" /\ outcome \in AckLoopReturns /\ InterruptTaken
        => signal = "SIGINT"

\* README.md:21: "Interrupting the execution at any time via CTRL+C".  However
\* PutPacket returned, a CTRL+C it took out of the input has been recorded.
InterruptNeverLost ==
    pc = "main" /\ outcome # "none" /\ InterruptTaken => signal = "SIGINT"

\* PutPacket returns when gdb takes the packet or sends its next command; no
\* NACK and no CTRL+C (README.md:21: "at any time") keeps it from seeing that.
PutPacketReturns == pc # "main" ~> pc = "main"

NotRead(c) == \E p \in high + 1 .. Len(sent) : sent[p] = c

FirstOfChunk == sent[base + 1]

\* The polling loop takes the first of several characters; PendingInput rewinds.
PollsForEver == /\ \/ pc = "drain" /\ consumed < count
                   \/ pc = "drainGet" /\ consumed = 0
                /\ count > 1 /\ FirstOfChunk # "$" /\ undo = NoChar

\* The acknowledgement loop takes a CTRL+C and PendingInput rewinds to it.
SendsForEver == /\ \/ pc = "ackMore" /\ consumed < count
                   \/ pc \in {"send", "ack"} /\ consumed = 0
                /\ count > 1 /\ FirstOfChunk = "^C" /\ ~checkPending
                /\ undo = NoChar

Trapped == PollsForEver \/ SendsForEver

\* What keeps gdb's next packet from ending a wait are these two loops over a
\* chunk of several characters, and nothing else: no '+' that the polling
\* took away, no NACK, CTRL+C or give-up, in any order and any chunks.
PacketEndsWait == pc # "main" /\ NotRead("$") ~> pc = "main" \/ Trapped

\* No step of gdb or of the stub leads out of these loops: what they have not
\* read by then, they never read.
TrapHolds == [][Trapped => Trapped']_vars

\* PendingInput does not count the undone character.  No loop of PutPacket can
\* miss one: it is there for the packet reader only, and it is gdb's "$".
UndoneForReader == undo # NoChar => pc = "main" /\ undo = "$"

\* Every command of gdb gets its answer, however often the answer is damaged,
\* unless gdb refused it RetryLimit times.
CommandAnswered == gdb # "idle" ~> gdb = "idle" \/ nacks = RetryLimit

=============================================================================
