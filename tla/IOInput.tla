------------------------------- MODULE IOInput -------------------------------
(***************************************************************************)
(* The input half of GDB_IO.cpp.  The characters the host (gdb) sends      *)
(* arrive through DK_PCharReadAsync or Waikiki_Read in chunks of at most   *)
(* Capacity characters; gIOBuffer holds the last chunk.  The buffer's      *)
(* contents are represented by the window base+1 .. base+count of the      *)
(* history `sent`, so that a position identifies a character for good and  *)
(* a loss or a second delivery can be told.                                *)
(*                                                                         *)
(* The operations are action operators, so that PacketIO can compose them; *)
(* the specification of this module calls them in every order.             *)
(***************************************************************************)
EXTENDS Naturals, Sequences

CONSTANTS Cores, MasterCore, \* GDBStub_MasterCore()
          Capacity,          \* the most one read returns; IO_BUFFER_CAPACITY
          UsePChar,          \* bit 0x80 of __OSGetAppFlags()
          Chars, NoChar,     \* NoChar is the '\0' of sGDBCharUndoGetBuffer
          MaxSent            \* bound: characters the host sends

ASSUME MasterAssumption   == MasterCore \in Cores
ASSUME CapacityAssumption == Capacity \in Nat \ {0}
ASSUME CharAssumption     == NoChar \notin Chars
ASSUME PCharAssumption    == UsePChar \in BOOLEAN
ASSUME MaxSentAssumption  == MaxSent \in Nat

VARIABLES
    sent,     \* every character the host has sent
    base,     \* characters read before the ones now in gIOBuffer
    count,    \* gGDBCharsInIOBuffer
    consumed, \* gGDBCharsOfIOBufferConsumed
    undo,     \* sGDBCharUndoGetBuffer
    ready,    \* gIsDebuggerInitializedOnCore[masterCore]
    high      \* history: the last position of `sent` handed out so far

buffer == <<base, count, consumed>>
inputVars == <<sent, base, count, consumed, undo, ready, high>>

InputInit == /\ sent = << >> /\ base = 0 /\ count = 0 /\ consumed = 0
             /\ undo = NoChar /\ ready = FALSE /\ high = 0

-----------------------------------------------------------------------------
(* What the other side of the buffer does.                                 *)

HostSends(c) == sent' = Append(sent, c)

\* Sizes of the chunk a read returns: some prefix of what has arrived.  An
\* error (a negative result) is treated as the empty read by the code.
Arrived == Len(sent) - (base + count)
Chunks  == {n \in 0..Capacity : n <= Arrived /\ (n = 0 => Arrived = 0)}

\* coreinit marks the debugger initialised once its connection is up.
DebuggerInitialised == ready' = TRUE /\ UNCHANGED <<sent, buffer, undo, high>>

-----------------------------------------------------------------------------
(* The operations of GDB_IO.cpp.                                           *)

ResetIOOffsets == /\ base' = base + count /\ count' = 0 /\ consumed' = 0
                  /\ undo' = NoChar

\* A new read replaces the buffer with the next chunk.
Refill(n) == n \in Chunks /\ base' = base + count /\ count' = n

\* Mutated form: a new chunk in any case.
ReadsAlways == TRUE

\* With PChar a new chunk is read only when the old one is used up;
\* Waikiki_Read overwrites the buffer in any case.
NeedsRead == UsePChar => count = consumed

\* MasterAgent_IOPendingInput.  With or without a new chunk, the read position
\* returns to the start of the buffer.
PendingInput(core, result) ==
    IF core = MasterCore /\ ready
    THEN /\ IF NeedsRead THEN \E n \in Chunks : Refill(n)
                         ELSE UNCHANGED <<base, count>>
         /\ consumed' = 0
         /\ result = (count' > 0)
    ELSE result = FALSE /\ UNCHANGED buffer

UnGetChar(c) == undo' = c

HandOut(p) == high' = IF p > high THEN p ELSE high

\* The character MasterAgent_IOGetChar takes, without its effect on the undo
\* buffer: the undone one, the next of the buffer, or, after waiting for
\* input, the first of a new chunk.
Fetch(c) ==
    \/ /\ undo # NoChar
       /\ c = undo
       /\ UNCHANGED <<buffer, high>>
    \/ /\ undo = NoChar /\ consumed < count
       /\ c = sent[base + consumed + 1]
       /\ consumed' = consumed + 1
       /\ HandOut(base + consumed + 1)
       /\ UNCHANGED <<base, count>>
    \/ /\ undo = NoChar /\ consumed >= count /\ ready
       /\ \E n \in Chunks \ {0} : Refill(n)
       /\ c = sent[base + count + 1]
       /\ consumed' = 1
       /\ HandOut(base + count + 1)

GetChar(c)      == Fetch(c) /\ undo' = NoChar
GetThenUnGet(c) == Fetch(c) /\ UnGetChar(c)

-----------------------------------------------------------------------------
(* Every sequence of calls, with the application restarting in between.    *)

Send == /\ Len(sent) < MaxSent
        /\ \E c \in Chars : HostSends(c)
        /\ UNCHANGED <<base, count, consumed, undo, ready, high>>

Connect == ~ready /\ DebuggerInitialised

Poll == \E core \in Cores, r \in BOOLEAN :
            PendingInput(core, r) /\ UNCHANGED <<sent, undo, ready, high>>

Get == \E c \in Chars : GetChar(c) /\ UNCHANGED <<sent, ready>>

Peek == \E c \in Chars : GetThenUnGet(c) /\ UNCHANGED <<sent, ready>>

\* ON_APPLICATION_START; coreinit connects anew afterwards.
ApplicationStart == /\ ready
                    /\ ResetIOOffsets /\ ready' = FALSE
                    /\ high' = base + count
                    /\ UNCHANGED sent

InputNext == Send \/ Connect \/ Poll \/ Get \/ Peek \/ ApplicationStart

InputSpec == InputInit /\ [][InputNext]_inputVars

-----------------------------------------------------------------------------
(* Properties.                                                             *)

\* Types of the variables.
InputTypeOK ==
    /\ sent \in Seq(Chars)
    /\ base \in Nat /\ count \in 0..Capacity /\ consumed \in 0..count
    /\ undo \in Chars \cup {NoChar}
    /\ ready \in BOOLEAN
    /\ high \in Nat

\* The buffer holds characters the host sent, what was read from it has been
\* handed out, and the PChar path never gives the buffer up (count = consumed
\* is its condition for a new read) before all of it was handed out, although
\* PendingInput rewinds the read position.
WindowSound ==
    /\ base + count <= Len(sent)
    /\ high <= base + count
    /\ UsePChar => /\ base + consumed <= high
                   /\ consumed = count => high = base + count

Stream == INSTANCE ByteStream WITH got <- high, up <- ready

\* Whatever the order of polls, reads and undos, the PChar path hands the
\* host's characters out in order and skips none between two restarts, although
\* every poll rewinds the read position.
ImplementsByteStream == Stream!Spec

=============================================================================
