------------------------------ MODULE CoreAgent ------------------------------
(***************************************************************************)
(* How a core stops and goes on: __CoreAgent_SaveState, entered by every   *)
(* exception, and CoreAgent_ResumeCore, called by coreinit's agent loop    *)
(* when the master agent commands it.  The application, the agent loop and *)
(* the master agent are external; the master reads and writes gCoreData of *)
(* a core while that core is in the middle of either function, so each is  *)
(* cut where the other side can see or change something.                   *)
(***************************************************************************)
EXTENDS Naturals

CONSTANTS Cores, \* the cores with an agent
          Insns, \* instructions at the program counter of a stopped core
          Regs   \* the debug registers a master may set: DABR and IABR

ASSUME RegAssumption == "DABR" \in Regs

\* TRAP, DBGSTR, DBGMSG and DBGCTL: the instructions that call the stub.
TrapInsns == {"trap", "dbgstr", "dbgmsg", "dbgctl"}

VARIABLES
    at,     \* where the core is: "app", in SaveState "disarm", "report",
            \*   "stopped", "finish", in the agent loop "loop", in ResumeCore
            \*   "command", "rearm", "load", or "hung"; "astray" when an
            \*   ordinary stop tells of the stub and no more of the application
    state,  \* state
    level,  \* exception_level
    exc,    \* the exception SaveState was entered with
    sig,    \* signal
    cmd,    \* cmd.cmd
    done,   \* cmd.ack = cmdAckValue: the command is acknowledged
    acked,  \* req.ack = reqAckValue: the master acknowledged the request
    insn,   \* the instruction at srr0 of the stopped context
    se, ee, \* MSR_BIT_SE and MSR_BIT_EE of the context
    saved,  \* MSR_BIT_EE of stoppedContextExternalIinterruptBit
    watch,  \* dabr and iabr: set or 0
    hw,     \* the registers DABR and IABR of the core: set or 0
    ici,    \* the master interrupted the core
    appEE,  \* history: MSR_BIT_EE as the application last had it
    under,  \* history: `insn` when the last command was given
    early,  \* history: that was before the core was in the agent loop
    skips,  \* history: instructions skipped since
    ran,    \* history: the core has run since then
    nested  \* history: a fault happened inside the stub

vars == <<at, state, level, exc, sig, cmd, done, acked, insn, se, ee, saved,
          watch, hw, ici, appEE, under, early, skips, ran,
          nested>>

ctx   == <<insn, se, ee>>
ghost == <<appEE, under, early, skips, ran, nested>>

\* The exceptions as the switch of SaveState (lines 112-167) tells them apart;
\* "watch" is a DSI with DSISR_FLAG_DABRMatch.
Exceptions == {"watch", "dsi", "alignment", "interrupt", "trace",
               "breakpoint", "ici", "program", "other"}

States == {"STOPPED", "RUNNING", "STOPPING", "SINGLESTEP", "PROCESSING",
           "HUNG"}

Signals == {"SIG0", "SIGTRAP", "SIGSEGV", "SIGBUS", "SIGINT", "RESUME",
            "SIGILL"} \cup TrapInsns

Set(f, c, v) == [f EXCEPT ![c] = v]

Init == /\ at = [c \in Cores |-> "app"]
        /\ state = [c \in Cores |-> "RUNNING"]
        /\ level = [c \in Cores |-> 0]
        /\ exc = [c \in Cores |-> "other"]
        /\ sig = [c \in Cores |-> "SIG0"]
        /\ cmd = [c \in Cores |-> "idle"]
        /\ done = [c \in Cores |-> TRUE]
        /\ acked = [c \in Cores |-> TRUE]
        /\ insn \in [Cores -> Insns]
        /\ se = [c \in Cores |-> FALSE]
        /\ ee = [c \in Cores |-> TRUE]
        /\ saved = [c \in Cores |-> FALSE]
        /\ watch = [c \in Cores |-> [r \in Regs |-> FALSE]]
        /\ hw = watch
        /\ ici = [c \in Cores |-> FALSE]
        /\ appEE = ee
        /\ under = [c \in Cores |-> "none"]
        /\ early = [c \in Cores |-> FALSE]
        /\ skips = [c \in Cores |-> 0]
        /\ ran = [c \in Cores |-> TRUE]
        /\ nested = [c \in Cores |-> FALSE]

-----------------------------------------------------------------------------
(* __CoreAgent_SaveState.                                                  *)

\* What can interrupt the application, given its context and the registers.
Raises(c, e) ==
    CASE e = "watch"      -> hw[c]["DABR"]
      [] e = "breakpoint" -> "IABR" \in Regs /\ hw[c]["IABR"]
      [] e = "trace"      -> se[c]
      [] e = "ici"        -> ici[c] /\ ee[c]
      [] OTHER            -> TRUE

\* Lines 34-100.  At any level but the first the core hangs.
Enter(c, e) ==
    /\ at[c] = "app" /\ Raises(c, e)
    /\ level' = Set(level, c, level[c] + 1)
    /\ IF level'[c] # 1
       THEN /\ state' = Set(state, c, "HUNG") /\ at' = Set(at, c, "hung")
            /\ UNCHANGED exc
       ELSE /\ state' = Set(state, c, "STOPPING") /\ at' = Set(at, c, "disarm")
            /\ exc' = Set(exc, c, e)
    /\ ici' = IF e = "ici" THEN Set(ici, c, FALSE) ELSE ici
    /\ appEE' = IF se[c] THEN appEE ELSE Set(appEE, c, ee[c])
    /\ UNCHANGED <<sig, cmd, done, acked, ctx, saved, watch, hw, under, early,
                   skips, ran, nested>>

\* The same lines for an address that is watched and that the stub itself uses
\* while the registers are armed: before line 105, at level 1, and in ResumeCore
\* behind line 221, which has left the level already, so that the stub's own
\* access is taken for a stop of the application.
NestedFault(c) ==
    /\ at[c] \in {"disarm", "load"} /\ \E r \in Regs : hw[c][r]
    /\ level' = Set(level, c, level[c] + 1)
    /\ IF level'[c] # 1
       THEN state' = Set(state, c, "HUNG") /\ at' = Set(at, c, "hung")
       ELSE state' = Set(state, c, "STOPPING") /\ at' = Set(at, c, "astray")
    /\ nested' = Set(nested, c, TRUE)
    /\ UNCHANGED <<exc, sig, cmd, done, acked, ctx, saved, watch, hw, ici,
                   appEE, under, early, skips, ran>>

\* Mutated form: a DSI is a segmentation fault, watchpoint or not.
SegvForAll(e, i, watched) ==
    CASE e \in {"watch", "dsi"}           -> "SIGSEGV"
      [] e = "program" /\ i \in TrapInsns -> i
      [] OTHER                            -> "SIGTRAP"

\* Lines 103-167.
SignalOf(e, i, watched) ==
    CASE e = "watch" /\ watched           -> "SIGTRAP"
      [] e = "watch" /\ ~watched          -> "SIGSEGV"
      [] e = "dsi"                        -> "SIGSEGV"
      [] e = "alignment"                  -> "SIGBUS"
      [] e = "interrupt"                  -> "SIGINT"
      [] e \in {"trace", "breakpoint"}    -> "SIGTRAP"
      [] e = "ici"                        -> "RESUME"
      [] e = "program" /\ i \in TrapInsns -> i
      [] e = "program" /\ i \notin TrapInsns -> "SIGILL"
      [] OTHER                            -> "SIG0"

\* Mutated form: the registers stay armed.
KeepsArmed(c) == hw[c]

\* Lines 105-110.
Disarmed(c) == [r \in Regs |-> hw[c][r] /\ ~watch[c][r]]

Disarm(c) ==
    /\ at[c] = "disarm"
    /\ hw' = Set(hw, c, Disarmed(c))
    /\ sig' = Set(sig, c, SignalOf(exc[c], insn[c], watch[c]["DABR"]))
    /\ at' = Set(at, c, "report")
    /\ UNCHANGED <<state, level, exc, cmd, done, acked, ctx, saved, watch, ici,
                   ghost>>

\* Lines 169-174; other exceptions are not reported (skipSetCoreData).
Report(c) ==
    /\ at[c] = "report"
    /\ IF exc[c] = "other"
       THEN at' = Set(at, c, "finish") /\ UNCHANGED <<se, acked>>
       ELSE /\ se' = Set(se, c, FALSE) /\ acked' = Set(acked, c, FALSE)
            /\ at' = Set(at, c, "stopped")
    /\ UNCHANGED <<state, level, exc, sig, cmd, done, insn, ee, saved, watch,
                   hw, ici, ghost>>

\* Line 175.
Stopped(c) ==
    /\ at[c] = "stopped"
    /\ state' = Set(state, c, "STOPPED") /\ at' = Set(at, c, "finish")
    /\ UNCHANGED <<level, exc, sig, cmd, done, acked, ctx, saved, watch, hw,
                   ici, ghost>>

\* Mutated form: the bit saved before the step is not put back.
RestoresNothing(c) == ee[c]

\* Line 179.
RestoredEE(c) == ee[c] \/ saved[c]

\* Lines 178-182: a step is finished by the exception after it.
Finish(c) ==
    /\ at[c] = "finish" /\ at' = Set(at, c, "loop")
    /\ IF cmd[c] = "step"
       THEN ee' = Set(ee, c, RestoredEE(c)) /\ done' = Set(done, c, TRUE)
       ELSE UNCHANGED <<ee, done>>
    /\ UNCHANGED <<state, level, exc, sig, cmd, acked, insn, se, saved, watch,
                   hw, ici, ghost>>

-----------------------------------------------------------------------------
(* CoreAgent_ResumeCore, called by the agent loop as long as the command is *)
(* not acknowledged.  It returns at once before the request is.            *)

Commanded(c) == cmd[c] \in {"continue", "step"} /\ ~done[c]

\* Mutated forms: the request of the core is not waited for, or is resumed
\* only before it is acknowledged.
WaitsForNothing(c) == TRUE
Inverted(c) == ~acked[c]

\* Line 191.
MayResume(c) == acked[c]

\* Mutated form: the trap is skipped before line 191 returns.
SkipsFirst(c) ==
    /\ at[c] = "loop" /\ Commanded(c)
    /\ IF MayResume(c)
       THEN state' = Set(state, c, "PROCESSING") /\ at' = Set(at, c, "command")
       ELSE UNCHANGED <<state, at>>
    /\ IF insn[c] \in TrapInsns
       THEN /\ \E next \in Insns : insn' = Set(insn, c, next)
            /\ skips' = Set(skips, c, skips[c] + 1)
       ELSE UNCHANGED <<insn, skips>>
    /\ UNCHANGED <<level, exc, sig, cmd, done, acked, se, ee, saved, watch, hw,
                   ici, appEE, under, early, ran, nested>>

\* Lines 191-203.
Resume(c) ==
    /\ at[c] = "loop" /\ Commanded(c) /\ MayResume(c)
    /\ state' = Set(state, c, "PROCESSING") /\ at' = Set(at, c, "command")
    /\ IF insn[c] \in TrapInsns
       THEN /\ \E next \in Insns : insn' = Set(insn, c, next)
            /\ skips' = Set(skips, c, skips[c] + 1)
       ELSE UNCHANGED <<insn, skips>>
    /\ UNCHANGED <<level, exc, sig, cmd, done, acked, se, ee, saved, watch, hw,
                   ici, appEE, under, early, ran, nested>>

\* Mutated form: a step is acknowledged before it was made.
AlwaysDone(c) == TRUE

\* Lines 215-217.
DoneByResume(c) == cmd[c] = "continue" \/ done[c]

\* Mutated form: only the external interrupts are dealt with for a step.
ForgetsSE(c) == FALSE

\* Lines 208 and 212.
Steps(c) == cmd[c] = "step"

\* Lines 205-217; line 211 saves MSR_BIT_EE as set, whatever it was.
Command(c) ==
    /\ at[c] = "command" /\ at' = Set(at, c, "rearm")
    /\ IF cmd[c] = "continue"
       THEN /\ state' = Set(state, c, "RUNNING")
            /\ saved' = Set(saved, c, FALSE) /\ UNCHANGED ee
       ELSE /\ state' = Set(state, c, "SINGLESTEP")
            /\ saved' = Set(saved, c, TRUE) /\ ee' = Set(ee, c, FALSE)
    /\ se' = Set(se, c, Steps(c)) /\ done' = Set(done, c, DoneByResume(c))
    /\ UNCHANGED <<level, exc, sig, cmd, acked, insn, watch, hw, ici, ghost>>

\* Mutated form: the level is only left when the core runs freely.
LeavesLevelToRun(c) == IF cmd[c] = "continue" THEN level[c] - 1 ELSE level[c]

\* Mutated form: the level is left twice.
LeavesTwice(c) == level[c] - 2

\* Line 218.
LeftLevel(c) == level[c] - 1

\* Lines 218-225.
Rearm(c) ==
    /\ at[c] = "rearm" /\ at' = Set(at, c, "load")
    /\ level' = Set(level, c, LeftLevel(c))
    /\ hw' = Set(hw, c, [r \in Regs |-> hw[c][r] \/ watch[c][r]])
    /\ UNCHANGED <<state, exc, sig, cmd, done, acked, ctx, saved, watch, ici,
                   ghost>>

\* Lines 226-230.
Load(c) ==
    /\ at[c] = "load" /\ at' = Set(at, c, "app") /\ ran' = Set(ran, c, TRUE)
    /\ UNCHANGED <<state, level, exc, sig, cmd, done, acked, ctx, saved, watch,
                   hw, ici, appEE, under, early, skips, nested>>

-----------------------------------------------------------------------------
(* The application and the master agent.                                   *)

\* The application goes on and switches interrupts as it likes; a core that is
\* stepped executes one instruction and raises its trace exception.
AppRuns(c) == /\ at[c] = "app" /\ ~se[c]
              /\ \E i \in Insns, on \in BOOLEAN :
                    /\ insn' = Set(insn, c, i) /\ ee' = Set(ee, c, on)
                    /\ appEE' = Set(appEE, c, on)
              /\ UNCHANGED <<at, state, level, exc, sig, cmd, done, acked, se,
                             saved, watch, hw, ici, under, early, skips, ran,
                             nested>>

MasterAcks(c) == /\ ~acked[c] /\ acked' = Set(acked, c, TRUE)
                 /\ UNCHANGED <<at, state, level, exc, sig, cmd, done, ctx,
                                saved, watch, hw, ici, ghost>>

MasterInterrupts(c) ==
    /\ state[c] = "RUNNING" /\ ~ici[c] /\ ici' = Set(ici, c, TRUE)
    /\ UNCHANGED <<at, state, level, exc, sig, cmd, done, acked, ctx, saved,
                   watch, hw, ghost>>

\* The master works on a core that it finds STOPPED and without a command left;
\* the core may still be in SaveState, behind line 175.
Free(c) == state[c] = "STOPPED" /\ done[c]

\* A software breakpoint is set or removed, or the PC is changed.
MasterEdits(c) ==
    /\ Free(c)
    /\ \E i \in Insns : insn' = Set(insn, c, i)
    /\ UNCHANGED <<at, state, level, exc, sig, cmd, done, acked, se, ee, saved,
                   watch, hw, ici, ghost>>

MasterWatches(c) ==
    /\ Free(c)
    /\ \E r \in Regs, on \in BOOLEAN : watch' = [watch EXCEPT ![c][r] = on]
    /\ UNCHANGED <<at, state, level, exc, sig, cmd, done, acked, ctx, saved,
                   hw, ici, ghost>>

MasterCommands(c) ==
    /\ Free(c)
    /\ \E k \in {"continue", "step"} : cmd' = Set(cmd, c, k)
    /\ done' = Set(done, c, FALSE)
    /\ under' = Set(under, c, insn[c]) /\ early' = Set(early, c, at[c] # "loop")
    /\ skips' = Set(skips, c, 0) /\ ran' = Set(ran, c, FALSE)
    /\ UNCHANGED <<at, state, level, exc, sig, acked, ctx, saved, watch, hw,
                   ici, appEE, nested>>

CoreStep(c) == \/ Disarm(c) \/ Report(c) \/ Stopped(c) \/ Finish(c)
               \/ Resume(c) \/ Command(c) \/ Rearm(c) \/ Load(c)

MasterStep(c) == \/ MasterAcks(c) \/ MasterInterrupts(c) \/ MasterEdits(c)
                 \/ MasterWatches(c) \/ MasterCommands(c)

Next == \E c \in Cores : \/ \E e \in Exceptions : Enter(c, e)
                         \/ NestedFault(c) \/ CoreStep(c)
                         \/ AppRuns(c) \/ MasterStep(c)

Spec == Init /\ [][Next]_vars

\* A core in the stub runs, and the master answers its requests.
FairSpec == Spec /\ \A c \in Cores : /\ WF_vars(CoreStep(c))
                                     /\ WF_vars(MasterAcks(c))

-----------------------------------------------------------------------------
(* Properties.                                                             *)

InStub == {"disarm", "report", "stopped", "finish", "loop", "command",
           "rearm", "load", "astray"}

\* Types of the variables.
TypeOK ==
    /\ at \in [Cores -> InStub \cup {"app", "hung"}]
    /\ state \in [Cores -> States]
    /\ level \in [Cores -> 0..2]
    /\ exc \in [Cores -> Exceptions]
    /\ sig \in [Cores -> Signals]
    /\ cmd \in [Cores -> {"idle", "continue", "step"}]
    /\ done \in [Cores -> BOOLEAN] /\ acked \in [Cores -> BOOLEAN]
    /\ insn \in [Cores -> Insns]
    /\ se \in [Cores -> BOOLEAN] /\ ee \in [Cores -> BOOLEAN]
    /\ saved \in [Cores -> BOOLEAN]
    /\ watch \in [Cores -> [Regs -> BOOLEAN]]
    /\ hw \in [Cores -> [Regs -> BOOLEAN]]
    /\ ici \in [Cores -> BOOLEAN] /\ appEE \in [Cores -> BOOLEAN]
    /\ under \in [Cores -> Insns \cup {"none"}] /\ early \in [Cores -> BOOLEAN]
    /\ skips \in [Cores -> Nat] /\ ran \in [Cores -> BOOLEAN]
    /\ nested \in [Cores -> BOOLEAN]

Abstract == INSTANCE StopGo WITH
    running <- {c \in Cores : at[c] = "app"},
    unseen  <- {c \in Cores : ~acked[c]},
    dead    <- {c \in Cores : at[c] = "hung"}

\* However the master's acknowledgement and its command are timed, a core that
\* stopped runs on only after the master acknowledged that stop.
ImplementsStopGo == Abstract!Spec

\* A core hangs only when the stub itself faulted, never because an ordinary
\* exception found exception_level not reset by the way the core was resumed.
HangsOnlyNested == \A c \in Cores : at[c] = "hung" => nested[c]

\* Whenever the application runs, the core's DABR and IABR are what the master
\* set them to while it was stopped, and none is armed while the stub works.
WatchedWhileRunning ==
    \A c \in Cores : /\ at[c] = "app" => hw[c] = watch[c]
                     /\ at[c] \in {"report", "stopped", "finish", "loop",
                                   "command"} => \A r \in Regs : ~hw[c][r]

\* A watchpoint is reported as SIGTRAP, never as a segmentation fault.
WatchHitIsTrap ==
    \A c \in Cores : exc[c] = "watch" /\ at[c] \in {"report", "stopped",
                        "finish", "loop"} => sig[c] = "SIGTRAP"

\* A core goes past the trap it stopped at once, however often ResumeCore was
\* called before the request was acknowledged, and past nothing else.
SkipsTrapOnce ==
    \A c \in Cores :
        /\ skips[c] <= 1
        /\ at[c] \in {"rearm", "load"} =>
               (skips[c] = 1 <=> under[c] \in TrapInsns)

\* When the master finds a step acknowledged, the core has stopped again and
\* reported it, unless the step ended in an exception that is never reported.
StepDoneIsStopped ==
    \A c \in Cores :
        cmd[c] = "step" /\ done[c] =>
            at[c] = "hung" \/ state[c] = "STOPPED" \/ exc[c] = "other"

\* A step commanded while the core is in the agent loop is only acknowledged
\* after it was made.
LateStepTaken == \A c \in Cores : cmd[c] = "step" /\ done[c] /\ ~early[c] => ran[c]

\* README.md:18: "Stepping to the next instruction".  A step that the master
\* finds acknowledged was made: the core has run since the master asked for it.
StepTaken == \A c \in Cores : cmd[c] = "step" /\ done[c] => ran[c]

\* Stepping switches interrupts off for one instruction; when the core runs on
\* they are on again if the application had them on.
InterruptsNotLost ==
    \A c \in Cores : at[c] = "app" /\ ~se[c] /\ appEE[c] => ee[c]

\* A core runs with single stepping on exactly when it was told to step.
StepsWhenTold ==
    \A c \in Cores : at[c] = "app" => (se[c] <=> cmd[c] = "step")

\* A commanded core runs, unless the stub itself met a watched address.
CommandTakesEffect ==
    \A c \in Cores : Commanded(c) /\ at[c] = "loop" ~> at[c] = "app" \/ nested[c]

=============================================================================
