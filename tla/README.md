# Specifications of the gdbstub plugin

These modules describe the parts of `src/` that decide how a core stops, what gdb
is told and how it goes on. They are checked with TLC on small instances, and the
most important properties are proved with TLAPS for every value of the constants.
Source lines below are relative to `src/src/`.

## 1. The system

The plugin replaces functions of the debugger stub inside coreinit. Every core has
an *agent*: an exception enters `__CoreAgent_SaveState`, which saves the context in
`gCoreData[core]` and tells the *master agent*; coreinit's agent loop then waits
for a command and calls `CoreAgent_ResumeCore`. The master agent, on one of the
cores, reads packets from gdb, executes them and answers through the functions of
`GDB_IO.cpp`. The loops themselves (`CoreAgent_MasterAgentLoop`, the packet reader,
most command handlers) stay coreinit's and are *external* here: they appear only as
far as the code in `src/` shows how it is used.

| component | state it keeps | operations | talks to |
|---|---|---|---|
| Input of characters, `stub/GDB_IO.cpp` | `gIOBuffer`, `gGDBCharsInIOBuffer`, `gGDBCharsOfIOBufferConsumed`, `sGDBCharUndoGetBuffer` | `IOPendingInput`, `IOGetChar`, `IOUnGetChar`, `ResetIOOffsets` | the PChar channel or Waikiki; the packet reader; `PutPacket` |
| Output buffer, `stub/GDB_IO.cpp` | `gIOOutBuffer`, `gIOOutputOffset` | `IOInit`, the `IOPut...` family, `IOCurrentIndex`, `IORestoreIndex`, `IOSendEx` | all handlers; `PutPacket` |
| Packet exchange, `stub/GDB_IO.cpp:218` | locals `tryCount`, `ctrl_c_seen`, `checkPendingInputFirst`; `gCoreData[master].signal` | `MasterAgent_PutPacket` | input, gdb |
| Core agent, `stub/CoreAgent.cpp` | `gCoreData[core]`: state, exception level, signal, contexts, command, request, `dabr`, `iabr` | `__CoreAgent_SaveState`, `CoreAgent_ResumeCore` | the application (exceptions), the master agent (shared memory) |
| vCont, `stub/GDB_Commands.cpp:221` | `flag`, `nextSignal__`, `signal` of every core, `gGDBStub_main_state` | `gdb_vpacket` | gdb, the master agent |
| qXfer, `stub/GDB_Commands.cpp:65` | pagination buffers | the three `qXfer...Read` | gdb |
| Plugin lifecycle, `main.cpp`, `patches.cpp` | `gInitStubs`, `gHeartbeatDisabled`, syscalls 0x4B/0x4C, `gAppflags` | the hooks of the plugin loader, `OSPerGameInits`, `EntryHook` | the loader, coreinit |
| Command dispatch, `stub/GDB_Commands.cpp` | `gIsDebuggerPresent` | `MasterAgent_ProcessPacket`, `MasterAgent_SendResult` and the short commands | all of the above |
| Memory access, `stub/CoreAgent_MemorySetGet.cpp`, `stub/MasterAgent_Utils.cpp` | the memory and the instruction caches | `GetCoreMem`, `SetCoreMem`, `PeekWord32`, `PokeInstr` | the kernel module |
| Debug registers of all cores, `utils/kernel.cpp` | DABR and IABR of each core | `KeSetDABR`, `KeSetIABR` | the kernel's rendezvous |
| Thread information, `stub/MasterAgent_ThreadUtils.cpp`, `utils/IOUtils.cpp` | a bounded text buffer | thread name, list of threads | coreinit's thread list |

What is hard in it:

* **Shared memory without locks.** The master reads and writes `gCoreData[c]` while
  core `c` is somewhere inside `SaveState` or `ResumeCore`.
* **A lossy conversation.** Acknowledgements, refusals, CTRL+C and the next packet
  of gdb arrive in every order, and one read may return several of them.
* **A buffer with a position that is rewound** by the function that only asks
  whether there is something in it.
* **Long legal sequences.** Steps switch interrupts off and on again; the exception
  level must be left on every way out; a packet that is refused halfway has
  already changed what the next one starts from.
* **Caches and registers of three cores.** A breakpoint has to reach the instruction
  cache of every core, a watchpoint the register of every core, while cores stop, run
  and do not take interrupts inside the stub.
* **Boundaries**: margins of 4 characters, pages that end exactly at the end of a
  document, a reply of special characters only.
* **Load, reload and unload** of the plugin under a running application.

`PROJECT.json` lists the hazards with the line at which each bites and the
properties that would show it going wrong.

## 2. The modules

| module | models | abstract specification |
|---|---|---|
| `ByteStream` | – | what the input promises: characters in order, none skipped |
| `IOInput` | input of characters | implements `ByteStream` |
| `PacketIO` | `MasterAgent_PutPacket`; EXTENDS `IOInput`, whose operators are its reads | |
| `OutBuffer` | output buffer | |
| `Framing` | escapes and checksum of a frame, and gdb's reading of it, as operators | gdb's `Unescape` is the reference |
| `Reply` | `OutBuffer` and `Framing` together | |
| `StopGo` | – | what the agents promise: a core runs on only after the master noted its stop |
| `CoreAgent` | `SaveState` and `ResumeCore` against application and master | implements `StopGo` |
| `Replies` | how a handler answers: what `OutBuffer` promises, from the handler's side | |
| `VCont` | the vCont branch of `gdb_vpacket`; EXTENDS `Replies` | `Leftmost`, the remote protocol's rule, with `Meaning`, the code's own reading of an action that continues behind a step (`GDB_Commands.cpp:267-275`) |
| `Commands` | `MasterAgent_ProcessPacket` with every handler behind it; EXTENDS `VCont` | `Answers`: what gdb can make of as a reply to each packet |
| `ThreadList` | the text of the list of threads and `MasterAgent_ThreadExtraInfo`, as operators | gdb's reading of the document is the reference |
| `Pager` | the three qXfer readers; EXTENDS `ThreadList` | |
| `CoreStates` | the part of `CoreAgent` that the next three share | |
| `MemoryAccess` | `GetCoreMem`, `SetCoreMem`, `PeekWord32`, `PokeInstr` and the instruction caches | |
| `DebugRegisters` | `KeSetDABR`, `KeSetIABR`, the interrupts and the rendezvous | |
| `MasterAccess` | `MemoryAccess` and `DebugRegisters` over the same cores | |
| `Lifecycle` | the hooks of `main.cpp` and `patches.cpp` | |
| `PacketIOProofs`, `ReplyProofs`, `CoreAgentProofs`, `CommandsProofs`, `PagerProofs`, `MasterAccessProofs`, `LifecycleProofs` | theorems and proofs; `PacketIOProofs` also those of `IOInput`, `ReplyProofs` those of `OutBuffer` and `Framing`, `MasterAccessProofs` those of `MemoryAccess` and `DebugRegisters` | |
| `NatRecursion` | – (lemmas: what a recursive function over `0..n` is equal to and keeps) | |
| `MC...` | the instances for TLC | |

How state and actions correspond to the code:

* **IOInput.** The contents of `gIOBuffer` are the window `base+1 .. base+count` of
  the history `sent`, so a character is known by its position and a loss or a second
  delivery can be told. `count`, `consumed`, `undo` are the C variables. The
  functions are action operators (`PendingInput`, `GetChar`, `GetThenUnGet`,
  `ResetIOOffsets`); an asynchronous read is atomic and returns some non-empty prefix
  of what has arrived (or nothing when nothing has).
* **PacketIO.** `pc` is the place in `PutPacket`: `drain`/`drainGet` the polling loop
  (lines 225-237), `send` the framing and writing, `ack`/`ackMore` the inner loop.
  A packet of gdb is the one character `$`, a frame of the stub is the number of its
  packet and the `+` for a command is 0. gdb acknowledges, refuses (damage, timeout),
  interrupts, gives up and goes on.
* **OutBuffer / Reply.** One action per put function; a string is put character by
  character, as in the code. `text` is the history of fields that had room. The loops of
  `PutPacket` over a frame are recursive functions (`Written`, `ByteSum`), as is gdb's
  reading (`Decode`): element `i` is the result of `i` turns.
* **CoreAgent.** `at` is where the core is. `SaveState` is cut into `Enter`,
  `Disarm`, `Report`, `Stopped`, `Finish` and `ResumeCore` into `Resume`, `Command`,
  `Rearm`, `Load`, each a stretch that ends where the master or the processor can
  see or change something. The stub's own accesses can hit a watch where the registers are
  armed (`NestedFault`): on the way in, where the level is 1 and the core hangs, and at the
  end of `ResumeCore`, where line 218 has left the level already and the hit counts as a stop
  of the application (`at = "astray"`, the end of the model). Requests are acknowledged or not (`acked`), commands done
  or not (`done`); the values of the counters behind them are abstracted. The history
  variables `under`, `early`, `skips`, `ran`, `appEE`, `nested` only observe.
* **Commands / VCont.** `Arrives` and `VContArrives` stand for coreinit's packet reader;
  one action per handler dispatches the packet at hand. What a handler looks at in its
  packet (whether there is a comma, the register number, the annex) is in the request;
  `out` is the text in the output buffer, which outlives the command, and `sent` what
  was sent for this one. A vCont packet is the sequence of its parsed actions, with one step
  of the module per turn of the loop; `Finish` is its end. `RunAndStop` stands for
  everything coreinit does with the flags.
* **Pager / ThreadList.** A document is the sequence `1..size` of its positions; a page
  replies with a mark and a run of them. For the list of threads the text itself is kept,
  as a sequence of characters (`Char`) in which what the code writes itself (`Pieces`: a
  piece of markup, a word) and a number count for one. A name may have any character that is
  not a whole piece of markup (`Plain`), the special ones included; a number (`Figures`) has
  none of those. gdb's side is a reader that goes through the text from left to right
  (`ReadChar`): markup leads it from one place to the next (`LedTo`), what is in between
  belongs to the element, with the entities replaced; anything else it does not get over.
* **MemoryAccess.** An address is `Valid` (`OSIsAddressValid`), `Physical`
  (`OSEffectiveToPhysical` translates it) or neither. `PokeInstr` and `GetCoreMem` look at
  the first, `KernelWrite` at the second, and `PeekWord32` at neither: it checks the address
  of its own variable (`MasterAgent_Utils.cpp:13`), so it reads everything that has a
  translation. `icache[c][a]` is the line core `c` executes from without a look at
  the memory. Every write invalidates the line of the core it runs on; the loop of
  `PokeInstr` over the other cores is one step per core (`PokeFlush`), in which
  `MasterAgent_FlushICBlock` waits for the agent of that core. `told` is the history of
  which cores a write was to reach: those that were STOPPED, not one that is STOPPING.
* **DebugRegisters.** `call` is the function at work, one step per call into the kernel
  (`InitRendezvous`, `SendICI`, `Arrive`, `Return`); `HandleICI` and `LeaveHandler` are the
  interrupt handler on the other cores, which runs only outside the stub. `asked` is
  what the last call for all cores set.
* **MasterAccess.** `CoresMove`: a core stops, or the master agent lets it go on. A core in the
  kernel does neither, and while the master core is in the kernel or in `PokeInstr` no core is
  let go on.
* **Lifecycle.** A process goes through `OSPerGameInits`, `EntryHook`,
  `ON_APPLICATION_START`, ..., `ON_APPLICATION_ENDS`; the loader reloads and the user
  changes the list of plugins in between.

Mutated forms of definitions (marked as such in the modules) stand beside the
originals; each property is known to fail with one of them in place, which shows
that it can tell a plausible bug from the code.

## 3. The runs

| run | instance | shows |
|---|---|---|
| `io_input` | 2 cores, 2 characters, reads of up to 3, 5 characters sent | the window is never given up early; `ByteStream` is implemented, for every order of polls, reads, undos and restarts |
| `packet_nack` | the real limit of 10, 3 commands, 12 refusals, reads of up to 2, no CTRL+C, no timeout | at most one more frame per refusal, the give-up exactly at the limit, the acknowledgement belongs to the packet; every packet and command ends |
| `packet_chunks` | limit 2, 2 commands, 2 CTRL+C, 2 refusals, 2 timeouts, a give-up, reads of up to 3 characters | the acknowledgement loop records CTRL+C; gdb's next packet ends every wait but those in the two loops over a chunk of several characters, and nothing leads out of these; an undone `$` is for the packet reader |
| `packet_ctrlc_livelock` | 1 command, 1 CTRL+C, reads of up to 2 | **violated**, see findings |
| `packet_ctrlc_lost` | 2 commands, 1 CTRL+C, 1 refusal, 1 give-up | **violated**, see findings |
| `reply` | buffer of 8, two special characters, one digit | no dropped reply, no fill or remainder in one, every frame carries its reply |
| `core_agent` | 1 core, 2 instructions, both debug registers | level, debug registers, signals, trap skipping, steps, interrupts; `StopGo` is implemented; a commanded core runs |
| `core_agent_step_lost` | the same | **violated**, see findings |
| `commands` | 3 cores, one packet of every kind and every case of its handler, vCont packets of up to 3 actions | one answer per packet, of the right shape and with nothing left of an earlier command; leftmost action wins, a refused packet runs nothing |
| `pager` | buffer of 13, every size up to three pages and more, every page length (the same for all pages of a document, as gdb asks); up to two threads in a buffer of 31 with every special character | the whole document arrives, its threads can be read back as far as the list was not cut off, and reading ends |
| `master_access` | 3 cores, the master on core 1; an address with code and one without a translation, 2 instructions; 2 calls for debug registers at an address with low bits set | a stopped core executes what gdb reads; a watchpoint is set on every core; a call for all cores returns unless it waits for a core that only the waiting master could resume, and then it never does |
| `lifecycle` | 5 changes or failures | the application runs under the stub with its heartbeat off, and without it when the plugin is gone |

Why the bounds are enough:

* *IOInput*: all comparisons are between `count`, `consumed` and what has arrived;
  three characters per read give empty, partly and wholly used chunks, five characters
  two different chunks and a restart. The theorems hold for every capacity.
* *PacketIO*: a `PutPacket` keeps nothing for the next one but the input, so two or
  three commands show every carry-over; the limit is the code's where the count matters
  and 2 where the orders matter. `MaxLine` bounds what the stub wrote ahead of gdb;
  what would not fit is one more copy of a frame already there. `packet_chunks` reads up to
  three characters at once: a chunk can then have one that was taken, one that is taken
  again and one that never is. The loops of both livelocks below are reachable in it, and
  `Trapped` names them, so that they do not hide what else may happen. `checkPendingInputFirst` is
  FALSE at first (`NeverPoll`), as in every call in `src/`; a refusal sets it (line 286). With
  TRUE from the start and a `$` and a `+` in one read the polling puts the same `$` back in
  every call, and the packet reader runs the same command again and again: the number of
  commands has no bound then, so the instance is not finite.
* *Reply*: a margin of 4 leaves room for 4 characters in a buffer of 8, so every put
  function both fits and does not, also the one of 8 digits, which never does;
  the theorems hold for every capacity.
* *CoreAgent*: no action reads or writes two cores, so one core shows everything; the
  theorems hold for every set of cores. Instructions are only told apart as traps or
  not.
* *Commands*: 3 cores is the hardware. Any packet may follow any other: nothing in `Next` or
  the instance restricts the order. There are all kinds of packets, registers at both ends of
  every range of numbers, annexes that are, start with and are not `target.xml`. vCont packets
  have one or two actions, or three with `C` where it matters, behind a step; an action that
  is refused is the last. `StepCores = {0}` lets one core stop with `MSR_BIT_SE` set.
  `LeftmostActionWins` is claimed for packets as gdb writes them: one action per thread,
  then one that does not step for the others (`GdbShaped`). The flag STOP means both "no
  action yet" and "stays stopped", so without that shape a last action that steps takes a
  core that was told to stay; gdb does not send such a packet.
* *Pager*: lengths up to `Cap - 5`, which is what gdb asks for after `qSupported`;
  all cases of a page against the end of the document and the buffer occur. For the
  libraries all lengths below half the word, so that the doubling cannot wrap. A first
  thread always fits into the buffer of 31 pieces, a second one behind a short name only,
  so the list is whole in some cases and cut at several places in others.
* *MasterAccess*: memory and registers share only the states of the cores, which neither
  changes, so a behaviour works on one of them (`scope`). Two contents tell old from new;
  lines of different addresses are independent. An address that has a translation but is not
  valid is like a valid one to `KernelWrite`; it is not in the instance, which it would make
  ten times larger, but in the theorem. Two calls show what one leaves to the
  next; the theorems hold for any number, any addresses and any master core. A call starts
  when no core is left in the handler of an earlier one (`Quiet`): the kernel's code for
  that case is not in `src/`. The probes lie in the watched block, before and behind it.
* *Lifecycle*: the state is finite but for the count of changes; applications are
  unbounded, and five changes allow loading, removing and loading again with failures
  between.

Deadlock is checked where the system cannot stop (`lifecycle`); elsewhere the bounds
or a gdb with nothing more to say end the behaviours (`CHECK_DEADLOCK FALSE`).

Fairness. `PacketIO`: the master core runs (weak fairness of the reader and of
`PutPacketStep`) and gdb reads its socket and goes on to its next command; nothing is
assumed about damage, CTRL+C or timeouts. `CoreAgent`: a core in the stub runs with
interrupts off, so each of its steps is eventually taken, and the master answers
requests (coreinit's loop polls them). `Commands` needs none. `MasterAccess`:
the kernel's steps are taken, and a core that has interrupts on again and again takes
the interrupt sent to it (strong fairness: it may stop and run in between);
a core on its way to the stub's loop gets there. `CallReturns` has one hypothesis: gdb
lets a stopped core go on sooner or later, where the master agent can do it. It has an
exception, `Stuck`: the master core is in the kernel for the call, which waits for a core in the
stub, and that core waits for the master. `StuckForGood` says that this never ends.
`Pager`: gdb goes on reading a document it has started. `Lifecycle`: a process that
is started gets through its hooks, and a restart happens.

## 4. Findings

* **`packet_ctrlc_livelock`** – `IOPendingInput` rewinds the read position to 0
  (`GDB_IO.cpp:177`), and the condition that leaves the acknowledgement loop (line 296)
  calls it. If a CTRL+C and the `+` behind it arrive in one read, the loop is left with
  the CTRL+C readable again, the frame is sent again, and so on for ever; `README.md:21`
  promises interrupting "at any time".
  The polling loop (lines 227-236) has the same flaw and needs no CTRL+C: it takes one
  character between two calls of `IOPendingInput`, each of which goes back to the start of a
  buffer that is not used up (line 177) and reads nothing new (line 174). When one read
  returned several characters, the first of which is no `$`, the polling takes that one for
  ever: a `-` and the `+` that crossed with it are enough. What gdb sends after that is never
  read, neither its next packet nor a CTRL+C. It takes a refused frame before, for no caller
  in `src/` asks for the polling at first. `PacketEndsWait` and `TrapHolds` (run
  `packet_chunks`) say that these two loops are the only ones, and that nothing gdb can send
  ends them.
* **`packet_ctrlc_lost`** – the polling loop notes a CTRL+C in a local variable only; when
  a packet follows, line 231 returns without recording it as lines 274-276 do.
* **`core_agent_step_lost`** – `SaveState` publishes `GDBSTUB_STATE_STOPPED` (line 175)
  before it completes the previous step (lines 178-182). A master that commands a new
  step in this gap gets it acknowledged at once. Whether coreinit's master is quick
  enough is not decided by `src/`. `LateStepTaken`, checked and proved, says that this gap
  is the only one.

## 5. What is proved

All theorems are for every value of the constants that satisfies the named assumptions.

* **Input of characters** (`PacketIOProofs`, first part). `WindowInductive` proves the
  inductive invariant `InputTypeOK /\ WindowSound`; the conjunct `consumed = count => high =
  base + count` is what makes a new read safe, and it survives the rewinding only because
  a rewound position of a non-empty chunk is below its end. `InputTypes`, `InputWindow`
  follow, and `InputImplementsByteStream` shows, on the PChar path, that every call maps to
  one delivered character or none. Assumptions: a positive capacity.
* **Packet exchange** (`PacketIOProofs`). `TypeInv` is the window together with the types of
  the caller's, `PutPacket`'s and gdb's variables; `PacketTypeCorrect` follows.
  `InterruptRecorded` is `AckLoopRecordsInterrupt` for any gdb, limit and chunk size, on the
  PChar path. Its invariant `Noticed` says that as long as `PutPacket` is at work a CTRL+C among
  the characters it was handed is in `ctrl_c_seen`: not only those between `start` and `end`, for
  the polling loop rewinds, and a character it hands out again was noted when it was new.
  `AckedAnswered` and `RetriesCounted` state `AckedMeansAccepted` and `SentUntilLimit` for
  every retry limit, chunk size, first value of checkPendingInputFirst and number of
  commands and refusals. Their invariant `Conversation` names the seven situations the
  two sides can be in together (`Idle`, `Asked`, `Preparing`, `Waiting`, `Refused`, `Taken`,
  `GivenUp`), each with what is unread on either line and what was counted; every step
  leads from one to another. Both have the hypothesis `Undisturbed`: gdb sends no CTRL+C,
  does not time out and does not give up, as in `packet_nack`. It is not there for the
  proof: with one CTRL+C, one timeout or one give-up TLC finds a `+` for an earlier
  command or frame taken for the answer to the next (an acknowledgement has no number), and
  with a CTRL+C or a timeout more frames than refusals. With give-ups (limit 3) TLC finds
  `SentUntilLimit` broken only where `PutPacket` polls first *and* gdb acknowledges frames it no
  longer waits for: such a `+` in the chunk of a command lets the polling loop rewind to the
  command's `$`, the command is answered twice, and gdb's refusal of the left-over frame is
  counted against the next one. If either is excluded it holds in those instances; the theorem
  does not claim it.
* **What is undone and what is trapped** (`PacketIOProofs`). `UndoneIsForReader`: at every place of
  `PutPacket` but the return the undo buffer is empty, for the only character it puts back
  is followed by that return. `TrapsHold` is `TrapHolds` on the PChar path: while one of the two
  loops over a chunk goes on, a new read is never due (`consumed < count` whenever
  `IOPendingInput` decides) and the first character stays the same, so every step of the stub
  leads to the next place of the same loop, and gdb's steps touch neither.
* **Output buffer** (`ReplyProofs`). To the properties the invariant adds `InBuffer`: up to
  the offset the buffer holds the fields put so far, and a saved index is that of a
  prefix. `StoreSound` and `FillSound` keep it, `SentString` shows that the C
  string in the buffer then ends at the offset. `RepliesAreSent` and
  `RepliesAreWhatWasPut` follow. Assumptions: a capacity of at least 5, no character is 0.
* **Frames** (`ReplyProofs`). `FrameReadsBack`: for *every* sequence of the characters 1 to 127
  the frame that `PutPacket` builds has one `#`, behind the payload, the checksum gdb
  computes, at most twice the length and 4 more, and gdb reads the sequence out of it.
  This is an induction over the packet, along these lines: `WrittenSteps` and `DecodedSteps` turn
  the two loops into equations about one more character; a character that was escaped is
  never `#`, `$` or `*` (`WrittenClean`); what was written for a prefix is a prefix of what is
  written (`WrittenPrefix`); and gdb, having read what was written for `i` characters,
  is not behind a `}` and has the first `i` (`UnescapePayload`). `FramesCarryReplies` then is
  `FrameCarriesReply` for every capacity: `PacketFits` says that only what `IOSendEx` let through
  is framed.
* **CoreAgent** (`CoreAgentProofs`). The invariant `IInv` adds to the types, per core, six
  named parts: `LevelInv` (the exception level by place), `StateInv` (where STOPPED can
  be seen; a core beyond the loop was acknowledged), `WatchInv` (registers are
  `gCoreData`'s outside, clear inside), `CommandInv` (`MSR_BIT_SE` follows the command),
  `InterruptInv` (`MSR_BIT_EE` is there or will be put back) and `RanInv`. There is one lemma
  per action; cores that did not act keep theirs by `SameKeeps`. None of the
  properties is inductive alone: `HangsOnlyNested` needs the level at every place,
  `InterruptsNotLost` needs that a step's saved bit is set until its exception.
  `AgentImplementsStopGo` maps `Enter`, `Report`, `MasterAcks`, `Load` and `NestedFault` to
  the abstract steps and everything else to stuttering.
* **What a core reports** (`CoreAgentProofs`, on top of `IInv`). `HitInv`: while a hit of a
  watch is on its way to the report, `gCoreData` still has the watch the signal is chosen
  by; `SkipInv`: a command that `ResumeCore` has not taken yet skipped nothing, one that
  it has taken skipped the trap if there was one; `StepInv`: from the command to the next
  stop only a step is unacknowledged, and a stop that is reported was published before.
  `WatchHitIsTrap`, `SkipsTrapOnce` and `StepDoneIsStopped` follow.
* **vCont** (`CommandsProofs`). `Phase`: a packet is parsed, or another one handled, only while
  the cores are stopped and nothing was answered; `Applied`: the actions behind the
  loop could be applied, hence `RefusedPacketRunsNothing`. `LeftmostActionWins` is an
  induction over the loop with `LoopInv(n)`: behind the actions before the `n`-th, a core was
  told what its leftmost action says, one that none is for is at STOP, and `stepDone`
  says whether one of them stepped; `ForThreadTells` and `ForAllTells` are its two steps.
  STOP meaning both "none yet" and "stays stopped" is why the second needs gdb's
  shape of packets. Assumptions: a packet is a finite sequence of actions, no
  thread is named like "all"; packets of any length, 1 to 3 cores.
* **One answer** (`CommandsProofs`). `AnsweredOnce` is kept with `Answering`: while a packet is
  dispatched, or `gdb_vpacket` is in its loop, nothing was sent, and the loop is at work
  only for a vCont packet. `HandlersAnswer` has one step per kind of packet: each handler sends
  exactly one of error, success and text, and one that gdb can make something of;
  `AnnouncedDigits` compares the two tables of registers: one that `target.xml` announces has
  the width that `gdb_sendregister` puts, and none of them is refused. Assumption: a packet is
  of one of the record sets of `RequestsAssumption`, with any register number or length.
* **Documents** (`PagerProofs`). `DocumentsWhole`: for every capacity and size, what was read is
  the start of the document, and all of it when gdb was told so. `NextPage` shows that a
  page from where the last one ended continues the image, `TakeSound` that a page read whole
  keeps the invariant if only the last one is marked `l`, `ReadPageSound` that the pages of
  `target.xml` and of the threads are such, `ClampFits` that the length the code uses for
  libraries leaves room for two digits per character. The hypothesis `GdbLengths` says how
  gdb reads: for at most 5 less than the `PacketSize` that `qSupported` tells it, which is the
  capacity (`GDB_Commands.cpp:32`), and, for libraries, for less than half the word (line 81
  doubles the length). A page of `target.xml` of 4 less would be left out and still
  count as sent (line 124).
* **The list of threads** (`PagerProofs`). `DocumentFits`: for every list of threads, whatever their
  names, states and number, the text stays within `sThreadInfoBuffer` and leaves room for
  the terminating 0, through the closing tag. `PutStringFits` is the one step; entities and
  threads are two inductions over it. `ThreadsAreReadBack` states `ThreadsReadBack` for any
  threads, capacities and page lengths (`GdbLengths`). The argument has three parts. The
  buffer always holds the start of a text without a limit: `CutPut` says that a put behind
  the start of a text gives the start of a longer one, so that nothing is written
  behind a gap. gdb reads that text back: `EntityRead` does it for one character,
  `EscapedRead` for a text in any place of an element, `ThreadRead` for an element and
  `ListedRead` for the list, each with the one before and `ReadJoined` (reading two texts one
  after the other is reading them joined). What is cut off takes only elements from the end:
  `ReadGrows` says that an element that was read stays, so what gdb reads of a start is a
  start of what it reads of the whole (`DocumentRead`). `DocumentsWhole` and `OfSnapshot` (the
  size gdb reads up to is that of this text) bring it to the pages.
* **Every page advances** (`PagesAdvance`). A page brings at least one character or is marked
  as the last: of `ReadingEnds` this is what a step does, the rest is fairness.
* **Memory** (`MasterAccessProofs`). `Lines`: a core that a write was to reach holds no old line
  unless `PokeInstr` has not come to it yet; `Waiting`: such a core is stopped until then,
  because only the master agent resumes it and the master agent is in `PokeInstr`.
  `ExecutesWhatGdbReads` follows for any addresses, contents and master core. Assumption: a
  valid address has a translation (`MemoryAssumption`), which `KernelWriteU32` relies on.
* **Debug registers** (`MasterAccessProofs`). `OwnSet` (the caller has its value), `NoneSent` (no
  interrupt is left of an earlier call), `Empty` (the rendezvous has no mark when the
  interrupts go out), `Answered` (a mark stands for a core that has the value) and
  `AllSet` (what was asked for last is in all registers). `MaskedDABR` and `MaskedIABR` are
  shown to stop exactly the accesses asked for, at any address. `StuckCallsStay` is
  `StuckForGood`: an interrupt that found a core in the stub is still there (`HeldHere` says
  which cores are in the handler), so the rendezvous lacks that core's mark, the call does not
  return, and the core that could resume it is the one that waits.
* **Lifecycle** (`LifecycleProofs`). `InitStubsInv` relates `gInitStubs` to what the loader said it
  will do, `ProcessInv` says for every phase of a process which of heartbeat, stub and
  PChar are set and whom `gHeartbeatDisabled` tells of. `RunsUnderTheStub` and
  `NoStubWithoutPlugin` are its last two lines; alone they are not kept, for all is
  decided two hooks earlier.

Recursion. The library's induction theorems take an operator as a parameter, which none of
the provers can instantiate. `NatRecursion` goes around: its facts about well-founded
*relations* are first order, and `NatSets` (a set with 0 and every successor is `Nat`) follows
from the minimal element of a complement. `RecursionSolved` then shows that a function
written `f[i \in 0..n] == ...` has the value its equation says, `StaysIn` and `Joined` that what
one turn keeps or adds, all do. That is why the loops are recursive functions and not
RECURSIVE operators or folds.

Only model-checked: the liveness properties (`CommandAnswered`, `PutPacketReturns`,
`PacketEndsWait`, `CommandTakesEffect`, `ReadingEnds`,
`RestartingEnds`, `CallReturns`), for TLAPS handles neither fairness nor ENABLED. Every
other property of a passing run is stated by a theorem.

## 6. What is not modelled

* The Waikiki path keeps no promise to the stream (a read overwrites unread
  characters). The plugin always selects PChar; `IOInput` has both paths, the properties
  are about PChar.
* Text: formatting of numbers, of libraries and of `target.xml`, parsing of hexadecimal
  numbers, exception names. Of the documents only the list of threads is kept as text.
* `EnumToStringUtil.cpp`, `GDBThreadDefines.h`, `imports.cpp`, `global_vars.cpp`: tables,
  addresses and declarations without behaviour.
* Anything inside coreinit or the kernel beyond what is named external in the modules:
  the loops of the agents, which commands coreinit refuses, the kernel's rendezvous when
  two calls overlap.
* What should become of a vCont packet when `MSR_BIT_SE` could not be switched off for its first
  thread and could for its second: the model does what the code does, which accepts it
  (`GDB_Commands.cpp:303`), and no property says more.
* What a core does after an access of `ResumeCore` itself hit a watch (`astray`).
* That a step switches interrupts on for an application that had them off
  (`CoreAgent.cpp:211`): the model has it, `InterruptsNotLost` is about the other direction.
* Which addresses coreinit asks `PeekWord32` for, and so whether its check matters.
* Control characters in a thread's name, which the code does not escape: the reader of the
  model takes them like any other.
* The width of the acknowledgement counters (24 bits in the request, 32 behind it): they
  are abstracted to "acknowledged or not", since 2^24 stops are out of reach of a run.

## 7. Plan

The components with behaviour of their own are modelled; what would come next, in the
order of importance:

1. `StopResume`: `VCont` and `CoreAgent` together, the flags of a packet becoming commands of
   three cores. It needs coreinit's handling of the flags, of which `src/` shows little.
2. Proofs: `SentUntilLimit` with a gdb that gives up and callers that do not poll first.
3. A model of overlapping register calls, should the kernel's rendezvous become known.
