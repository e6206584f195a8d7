-------------------------- MODULE CoreAgentProofs --------------------------
(***************************************************************************)
(* Theorems about CoreAgent, for every set of cores, instructions and      *)
(* debug registers.                                                        *)
(***************************************************************************)
EXTENDS CoreAgent, TLAPS

\* exception_level: 1 exactly while the core is in the stub, and 2 only after a
\* fault of the stub.
LevelInv(c) == /\ at[c] \in {"app", "load"} => level[c] = 0
               /\ at[c] \in InStub \ {"load"} => level[c] = 1
               /\ at[c] = "hung" => level[c] = 2
               /\ at[c] \in {"hung", "astray"} => nested[c]

\* Where the core is when the master reads STOPPED, and when it need not have
\* acknowledged the stop.
StateInv(c) == /\ state[c] = "STOPPED" => at[c] \in {"finish", "loop"}
               /\ at[c] \notin {"stopped", "finish", "loop"} => acked[c]

\* The debug registers follow gCoreData outside the stub and are clear inside.
WatchInv(c) == IF at[c] \in {"app", "disarm", "load"} THEN hw[c] = watch[c]
               ELSE at[c] \in {"hung", "astray"} \/ \A r \in Regs : ~hw[c][r]

\* A command is carried out before it is acknowledged, and MSR_BIT_SE follows it.
CommandInv(c) ==
    /\ at[c] = "command" => cmd[c] \in {"continue", "step"} /\ ~done[c]
    /\ at[c] \in {"rearm", "load", "app", "disarm", "report"} =>
           (se[c] <=> cmd[c] = "step")
    /\ at[c] \in {"rearm", "load", "app"} /\ se[c] => saved[c] /\ ~done[c]

\* MSR_BIT_EE is on where the application had it on, except for a step, which
\* will put it back.
InterruptInv(c) ==
    /\ at[c] \in {"loop", "command"} => (appEE[c] => ee[c])
    /\ at[c] \in {"rearm", "load", "app"} => se[c] \/ (appEE[c] => ee[c])
    /\ at[c] \in {"disarm", "report", "stopped", "finish"} =>
           (appEE[c] => ee[c]) \/ (cmd[c] = "step" /\ saved[c] /\ ~done[c])

\* The core has run since it was commanded, where a step is acknowledged.
RanInv(c) == /\ at[c] \in {"app", "disarm", "report", "stopped"} => ran[c]
             /\ at[c] = "finish" => ran[c] \/ early[c]
             /\ cmd[c] = "step" /\ done[c] /\ ~early[c] => ran[c]

CoreInv(c) == /\ LevelInv(c) /\ StateInv(c) /\ WatchInv(c)
              /\ CommandInv(c) /\ InterruptInv(c) /\ RanInv(c)

IInv == TypeOK /\ \A c \in Cores : CoreInv(c)

\* Nothing of a core changed.
Same(c) == /\ at'[c] = at[c] /\ state'[c] = state[c] /\ level'[c] = level[c]
           /\ cmd'[c] = cmd[c] /\ done'[c] = done[c] /\ acked'[c] = acked[c]
           /\ se'[c] = se[c] /\ ee'[c] = ee[c] /\ saved'[c] = saved[c]
           /\ watch'[c] = watch[c] /\ hw'[c] = hw[c] /\ appEE'[c] = appEE[c]
           /\ early'[c] = early[c] /\ ran'[c] = ran[c] /\ nested'[c] = nested[c]

\* A core that nothing changed of keeps its invariant.
LEMMA SameKeeps == ASSUME NEW c \in Cores, CoreInv(c), Same(c)
                   PROVE  CoreInv(c)'
  BY DEF Same, CoreInv, LevelInv, StateInv, WatchInv, CommandInv, InterruptInv,
         RanInv

\* The values of a function stay in their set when one of them is replaced.
LEMMA SetSound ==
    ASSUME NEW S, NEW f \in [Cores -> S], NEW c \in Cores, NEW v \in S
    PROVE  Set(f, c, v) \in [Cores -> S]
  BY DEF Set

\* The same, where the function may also be kept.
LEMMA KeptOrSet ==
    ASSUME NEW S, NEW f \in [Cores -> S], NEW c \in Cores, NEW v \in S,
           NEW g, g = f \/ g = Set(f, c, v)
    PROVE  g \in [Cores -> S]
  BY DEF Set

\* An exception enters the stub at exception level 1.
LEMMA EnterSound == ASSUME IInv, NEW c \in Cores, NEW e \in Exceptions, Enter(c, e)
                    PROVE  IInv'
  <1> USE DEF IInv
  <1>0. /\ at[c] = "app" /\ level[c] = 0 /\ acked[c]
        /\ state' = Set(state, c, "STOPPING") /\ at' = Set(at, c, "disarm")
        /\ level' = Set(level, c, 1) /\ exc' = Set(exc, c, e)
    <2>1. at[c] = "app" /\ level[c] = 0 /\ acked[c]
      BY DEF Enter, CoreInv, LevelInv, StateInv
    <2>2. level' = Set(level, c, 1)
      BY <2>1 DEF Enter
    <2>3. level'[c] = 1
      BY <2>2 DEF Set, TypeOK
    <2> QED BY <2>1, <2>2, <2>3 DEF Enter
  <1>1. TypeOK'
    <2>1. /\ at' \in [Cores -> InStub \cup {"app", "hung"}]
          /\ state' \in [Cores -> States] /\ level' \in [Cores -> 0..2]
          /\ exc' \in [Cores -> Exceptions]
      <3>1. "STOPPING" \in States /\ "disarm" \in InStub \cup {"app", "hung"} /\ 1 \in 0..2
        BY DEF States, InStub
      <3> QED BY <1>0, <3>1, SetSound, Zenon DEF TypeOK
    <2>2. ici' \in [Cores -> BOOLEAN]
      BY SetSound, Zenon DEF Enter, TypeOK
    <2>3. appEE' \in [Cores -> BOOLEAN]
      BY SetSound, Zenon DEF Enter, TypeOK
    <2> QED BY <2>1, <2>2, <2>3 DEF Enter, TypeOK, ctx
  <1>2. CoreInv(c)'
    <2>1. at'[c] = "disarm" /\ level'[c] = 1 /\ state'[c] = "STOPPING"
      BY <1>0 DEF Set, TypeOK
    <2>2. (appEE'[c] => ee[c]) \/ se[c]
      <3>1. CASE se[c]
        BY <3>1
      <3>2. CASE ~se[c]
        <4>1. appEE' = Set(appEE, c, ee[c])
          BY <3>2 DEF Enter
        <4> QED BY <4>1 DEF Set, TypeOK
      <3> QED BY <3>1, <3>2
    <2> QED
      BY <1>0, <2>1, <2>2 DEF Enter, ctx, CoreInv, LevelInv, StateInv,
                              WatchInv, CommandInv, InterruptInv, RanInv,
                              InStub
  <1>3. ASSUME NEW d \in Cores, d # c PROVE CoreInv(d)'
    <2>1. Same(d)
      BY <1>3 DEF Enter, TypeOK, Set, ctx, ghost, Same
    <2> QED BY <2>1, SameKeeps
  <1> QED BY <1>1, <1>2, <1>3

\* The debug registers are cleared before the stop is reported.
LEMMA DisarmSound == ASSUME IInv, NEW c \in Cores, Disarm(c)
                     PROVE  IInv'
  <1> USE DEF IInv
  <1>0. at[c] = "disarm" /\ (at'[c] = "report" /\ (\A r \in Regs : ~hw'[c][r]))
    BY DEF Disarm, Set, TypeOK, CoreInv, WatchInv, Disarmed
  <1>1. TypeOK'
    BY DEF Disarm, TypeOK, Set, ctx, ghost, InStub, Disarmed, SignalOf, States,
           Signals, Exceptions, TrapInsns
  <1>2. CoreInv(c)'
    BY <1>0 DEF Disarm, ctx, ghost, InStub, CoreInv, LevelInv, StateInv,
                WatchInv, CommandInv, InterruptInv, RanInv
  <1>3. ASSUME NEW d \in Cores, d # c
        PROVE  CoreInv(d)'
    <2>1. Same(d)
      BY <1>3 DEF Disarm, TypeOK, Set, ctx, ghost, Same
    <2> QED BY <2>1, SameKeeps
  <1> QED BY <1>1, <1>2, <1>3

\* STOPPED is only published after the report.
LEMMA StoppedSound == ASSUME IInv, NEW c \in Cores, Stopped(c)
                      PROVE  IInv'
  <1> USE DEF IInv
  <1>0. at[c] = "stopped" /\ (at'[c] = "finish" /\ state'[c] = "STOPPED")
    BY DEF Stopped, Set, TypeOK, CoreInv, WatchInv, Disarmed
  <1>1. TypeOK'
    BY DEF Stopped, TypeOK, Set, ctx, ghost, InStub, States
  <1>2. CoreInv(c)'
    BY <1>0 DEF Stopped, ctx, ghost, InStub, CoreInv, LevelInv, StateInv,
                WatchInv, CommandInv, InterruptInv, RanInv
  <1>3. ASSUME NEW d \in Cores, d # c
        PROVE  CoreInv(d)'
    <2>1. Same(d)
      BY <1>3 DEF Stopped, TypeOK, Set, ctx, ghost, Same
    <2> QED BY <2>1, SameKeeps
  <1> QED BY <1>1, <1>2, <1>3

\* The exception after a step puts MSR_BIT_EE back.
LEMMA FinishSound == ASSUME IInv, NEW c \in Cores, Finish(c)
                     PROVE  IInv'
  <1> USE DEF IInv
  <1>1. TypeOK'
    <2>1. "loop" \in InStub \cup {"app", "hung"}
      BY DEF InStub
    <2>2. at' \in [Cores -> InStub \cup {"app", "hung"}]
      BY <2>1, SetSound, Zenon DEF Finish, TypeOK
    <2>3. RestoredEE(c) \in BOOLEAN
      BY DEF RestoredEE
    <2>4. /\ ee' = Set(ee, c, RestoredEE(c)) \/ ee' = ee
          /\ done' = Set(done, c, TRUE) \/ done' = done
      BY DEF Finish
    <2>5. ee \in [Cores -> BOOLEAN] /\ done \in [Cores -> BOOLEAN]
      BY DEF TypeOK
    <2>6. ee' \in [Cores -> BOOLEAN] /\ done' \in [Cores -> BOOLEAN]
      BY <2>3, <2>4, <2>5, KeptOrSet, Zenon
    <2> QED BY <2>2, <2>6 DEF Finish, TypeOK, ghost
  <1>2. CoreInv(c)'
    <2>1. at[c] = "finish" /\ at'[c] = "loop"
      BY DEF Finish, Set, TypeOK
    <2>2. CASE cmd[c] = "step"
      <3>1. (ee'[c] <=> ee[c] \/ saved[c]) /\ done'[c]
        BY <2>2 DEF Finish, Set, TypeOK, RestoredEE
      <3> QED
        BY <2>1, <2>2, <3>1 DEF Finish, ghost, InStub, CoreInv, LevelInv,
           StateInv, WatchInv, CommandInv, InterruptInv, RanInv
    <2>3. CASE cmd[c] # "step"
      BY <2>1, <2>3 DEF Finish, ghost, InStub, CoreInv, LevelInv, StateInv,
                        WatchInv, CommandInv, InterruptInv, RanInv
    <2> QED BY <2>2, <2>3
  <1>3. ASSUME NEW d \in Cores, d # c
        PROVE  CoreInv(d)'
    <2>1. Same(d)
      BY <1>3 DEF Finish, TypeOK, Set, ctx, ghost, Same
    <2> QED BY <2>1, SameKeeps
  <1> QED BY <1>1, <1>2, <1>3

\* A command is taken up only after the stop was acknowledged.
LEMMA ResumeSound == ASSUME IInv, NEW c \in Cores, Resume(c)
                     PROVE  IInv'
  <1> USE DEF IInv
  <1>0. /\ at[c] = "loop" /\ at'[c] = "command" /\ state'[c] = "PROCESSING"
        /\ acked[c] /\ cmd[c] \in {"continue", "step"} /\ ~done[c]
    BY DEF Resume, MayResume, Commanded, Set, TypeOK
  <1>1. TypeOK'
    <2>1. "PROCESSING" \in States /\ "command" \in InStub \cup {"app", "hung"}
      BY DEF States, InStub
    <2>2. at' \in [Cores -> InStub \cup {"app", "hung"}] /\ state' \in [Cores -> States]
      BY <2>1, SetSound, Zenon DEF Resume, TypeOK
    <2>3. /\ insn' = insn \/ \E next \in Insns : insn' = Set(insn, c, next)
          /\ skips' = skips \/ skips' = Set(skips, c, skips[c] + 1)
      BY DEF Resume
    <2>4. insn \in [Cores -> Insns] /\ skips \in [Cores -> Nat] /\ skips[c] + 1 \in Nat
      BY DEF TypeOK
    <2>5. insn' \in [Cores -> Insns] /\ skips' \in [Cores -> Nat]
      BY <2>3, <2>4, KeptOrSet, Zenon
    <2> QED BY <2>2, <2>5 DEF Resume, TypeOK
  <1>2. CoreInv(c)'
    BY <1>0 DEF Resume, InStub, CoreInv, LevelInv, StateInv, WatchInv,
                CommandInv, InterruptInv, RanInv
  <1>3. ASSUME NEW d \in Cores, d # c
        PROVE  CoreInv(d)'
    <2>1. Same(d)
      BY <1>3 DEF Resume, TypeOK, Set, ctx, ghost, Same
    <2> QED BY <2>1, SameKeeps
  <1> QED BY <1>1, <1>2, <1>3

\* The level is left and the debug registers are what the master set.
LEMMA RearmSound == ASSUME IInv, NEW c \in Cores, Rearm(c)
                    PROVE  IInv'
  <1> USE DEF IInv
  <1>0. at[c] = "rearm" /\ at'[c] = "load" /\ level'[c] = 0 /\ hw'[c] = watch[c]
    <2>1. at[c] = "rearm" /\ at'[c] = "load" /\ level'[c] = 0
      BY DEF Rearm, CoreInv, LevelInv, InStub, Set, TypeOK, LeftLevel
    <2>2. \A r \in Regs : ~hw[c][r]
      BY <2>1 DEF CoreInv, WatchInv
    <2>3. hw'[c] = [r \in Regs |-> hw[c][r] \/ watch[c][r]]
      BY DEF Rearm, Set, TypeOK
    <2>4. hw'[c] = [r \in Regs |-> watch[c][r]]
      <3>1. \A r \in Regs : (hw[c][r] \/ watch[c][r]) = watch[c][r]
        <4>1. \A r \in Regs : watch[c][r] \in BOOLEAN
          BY DEF TypeOK
        <4> QED BY <2>2, <4>1, Zenon
      <3> QED BY <2>3, <3>1, Zenon
    <2>5. watch[c] = [r \in Regs |-> watch[c][r]]
      BY DEF TypeOK
    <2> QED BY <2>1, <2>4, <2>5
  <1>1. TypeOK'
    BY DEF Rearm, TypeOK, Set, ctx, ghost, InStub, LeftLevel, CoreInv, LevelInv
  <1>2. CoreInv(c)'
    BY <1>0 DEF Rearm, ctx, ghost, InStub, CoreInv, LevelInv, StateInv,
                WatchInv, CommandInv, InterruptInv, RanInv
  <1>3. ASSUME NEW d \in Cores, d # c
        PROVE  CoreInv(d)'
    <2>1. Same(d)
      BY <1>3 DEF Rearm, TypeOK, Set, ctx, ghost, Same
    <2> QED BY <2>1, SameKeeps
  <1> QED BY <1>1, <1>2, <1>3

\* The application goes on.
LEMMA LoadSound == ASSUME IInv, NEW c \in Cores, Load(c)
                   PROVE  IInv'
  <1> USE DEF IInv
  <1>1. TypeOK'
    BY DEF Load, TypeOK, Set, ctx, ghost, InStub
  <1>2. CoreInv(c)'
    <2>1. at[c] = "load" /\ at'[c] = "app" /\ ran'[c] = TRUE
      BY DEF Load, Set, TypeOK
    <2> QED
      BY <2>1 DEF Load, ctx, InStub, CoreInv, LevelInv, StateInv, WatchInv,
                  CommandInv, InterruptInv, RanInv
  <1>3. ASSUME NEW d \in Cores, d # c
        PROVE  CoreInv(d)'
    <2>1. Same(d)
      BY <1>3 DEF Load, TypeOK, Set, ctx, ghost, Same
    <2> QED BY <2>1, SameKeeps
  <1> QED BY <1>1, <1>2, <1>3

\* The application switches interrupts while it is not stepped.
LEMMA AppRunsSound == ASSUME IInv, NEW c \in Cores, AppRuns(c)
                      PROVE  IInv'
  <1> USE DEF IInv
  <1>0. at[c] = "app" /\ ~se[c] /\ (ee'[c] <=> appEE'[c])
    BY DEF AppRuns, Set, TypeOK, CoreInv, WatchInv, Disarmed
  <1>1. TypeOK'
    BY DEF AppRuns, TypeOK, Set, ctx, ghost, InStub
  <1>2. CoreInv(c)'
    BY <1>0 DEF AppRuns, ctx, ghost, InStub, CoreInv, LevelInv, StateInv,
                WatchInv, CommandInv, InterruptInv, RanInv
  <1>3. ASSUME NEW d \in Cores, d # c
        PROVE  CoreInv(d)'
    <2>1. Same(d)
      BY <1>3 DEF AppRuns, TypeOK, Set, ctx, ghost, Same
    <2> QED BY <2>1, SameKeeps
  <1> QED BY <1>1, <1>2, <1>3

\* The master acknowledges a stop.
LEMMA MasterAcksSound == ASSUME IInv, NEW c \in Cores, MasterAcks(c)
                         PROVE  IInv'
  <1> USE DEF IInv
  <1>1. TypeOK'
    BY DEF MasterAcks, TypeOK, Set, ctx, ghost, InStub
  <1>2. CoreInv(c)'
    BY DEF MasterAcks, TypeOK, Set, ctx, ghost, InStub, CoreInv, LevelInv,
           StateInv, WatchInv, CommandInv, InterruptInv, RanInv
  <1>3. ASSUME NEW d \in Cores, d # c
        PROVE  CoreInv(d)'
    <2>1. Same(d)
      BY <1>3 DEF MasterAcks, TypeOK, Set, ctx, ghost, Same
    <2> QED BY <2>1, SameKeeps
  <1> QED BY <1>1, <1>2, <1>3

\* The master interrupts a running core.
LEMMA MasterInterruptsSound == ASSUME IInv, NEW c \in Cores, MasterInterrupts(c)
                               PROVE  IInv'
  <1> USE DEF IInv
  <1>1. TypeOK'
    BY DEF MasterInterrupts, TypeOK, Set, ctx, ghost, InStub
  <1>2. CoreInv(c)'
    BY DEF MasterInterrupts, TypeOK, Set, ctx, ghost, InStub, CoreInv,
           LevelInv, StateInv, WatchInv, CommandInv, InterruptInv, RanInv
  <1>3. ASSUME NEW d \in Cores, d # c
        PROVE  CoreInv(d)'
    <2>1. Same(d)
      BY <1>3 DEF MasterInterrupts, TypeOK, Set, ctx, ghost, Same
    <2> QED BY <2>1, SameKeeps
  <1> QED BY <1>1, <1>2, <1>3

\* The master edits the context of a stopped core only.
LEMMA MasterEditsSound == ASSUME IInv, NEW c \in Cores, MasterEdits(c)
                          PROVE  IInv'
  <1> USE DEF IInv
  <1>1. TypeOK'
    BY DEF MasterEdits, TypeOK, Set, ctx, ghost, InStub
  <1>2. CoreInv(c)'
    BY DEF MasterEdits, TypeOK, Set, ctx, ghost, InStub, Free, CoreInv,
           LevelInv, StateInv, WatchInv, CommandInv, InterruptInv, RanInv
  <1>3. ASSUME NEW d \in Cores, d # c
        PROVE  CoreInv(d)'
    <2>1. Same(d)
      BY <1>3 DEF MasterEdits, TypeOK, Set, ctx, ghost, Same
    <2> QED BY <2>1, SameKeeps
  <1> QED BY <1>1, <1>2, <1>3

\* The master sets the debug registers of a stopped core only.
LEMMA MasterWatchesSound == ASSUME IInv, NEW c \in Cores, MasterWatches(c)
                            PROVE  IInv'
  <1> USE DEF IInv
  <1>0. at[c] \in {"finish", "loop"}
    BY DEF MasterWatches, Free, CoreInv, StateInv
  <1>1. TypeOK'
    BY DEF MasterWatches, TypeOK, Set, ctx, ghost, InStub
  <1>2. CoreInv(c)'
    BY <1>0 DEF MasterWatches, ctx, ghost, InStub, CoreInv, LevelInv, StateInv,
                WatchInv, CommandInv, InterruptInv, RanInv
  <1>3. ASSUME NEW d \in Cores, d # c
        PROVE  CoreInv(d)'
    <2>1. Same(d)
      BY <1>3 DEF MasterWatches, TypeOK, Set, ctx, ghost, Same
    <2> QED BY <2>1, SameKeeps
  <1> QED BY <1>1, <1>2, <1>3

\* The master commands a stopped core only, at its last line or in its loop.
LEMMA MasterCommandsSound == ASSUME IInv, NEW c \in Cores, MasterCommands(c)
                             PROVE  IInv'
  <1> USE DEF IInv
  <1>0. /\ at[c] \in {"finish", "loop"} /\ UNCHANGED at /\ done[c] /\ ~done'[c]
        /\ at[c] = "finish" => early'[c]
    BY DEF MasterCommands, Free, CoreInv, StateInv, Set, TypeOK
  <1>1. TypeOK'
    BY DEF MasterCommands, TypeOK, Set, ctx, ghost, InStub
  <1>2. CoreInv(c)'
    <2>1. LevelInv(c)' /\ StateInv(c)' /\ WatchInv(c)'
      BY <1>0 DEF MasterCommands, ctx, CoreInv, LevelInv, StateInv, WatchInv
    <2>2. CommandInv(c)'
      BY <1>0 DEF CommandInv
    <2>3. InterruptInv(c)'
      BY <1>0 DEF MasterCommands, ctx, CoreInv, InterruptInv
    <2>4. RanInv(c)'
      BY <1>0 DEF RanInv
    <2> QED BY <2>1, <2>2, <2>3, <2>4 DEF CoreInv
  <1>3. ASSUME NEW d \in Cores, d # c
        PROVE  CoreInv(d)'
    <2>1. Same(d)
      BY <1>3 DEF MasterCommands, TypeOK, Set, ctx, ghost, Same
    <2> QED BY <2>1, SameKeeps
  <1> QED BY <1>1, <1>2, <1>3

\* The single step bit and MSR_BIT_EE follow the command.
LEMMA CommandSound == ASSUME IInv, NEW c \in Cores, Command(c)
                      PROVE  IInv'
  <1> USE DEF IInv
  <1>0. at[c] = "command" /\ cmd[c] \in {"continue", "step"} /\ ~done[c]
    BY DEF Command, CoreInv, CommandInv
  <1>5. /\ at' = Set(at, c, "rearm")
        /\ UNCHANGED <<level, cmd, acked, hw, watch, appEE, early, ran>>
        /\ se' = Set(se, c, cmd[c] = "step") /\ done' = Set(done, c, cmd[c] = "continue")
        /\ \/ /\ cmd[c] = "continue" /\ state' = Set(state, c, "RUNNING")
              /\ saved' = Set(saved, c, FALSE) /\ UNCHANGED ee
           \/ /\ cmd[c] = "step" /\ state' = Set(state, c, "SINGLESTEP")
              /\ saved' = Set(saved, c, TRUE) /\ ee' = Set(ee, c, FALSE)
    BY <1>0 DEF Command, Steps, DoneByResume, ghost
  <1>1. TypeOK'
    <2>1. /\ "RUNNING" \in States /\ "SINGLESTEP" \in States
          /\ "rearm" \in InStub \cup {"app", "hung"}
      BY DEF States, InStub
    <2>2. /\ at' = Set(at, c, "rearm")
          /\ state' = Set(state, c, "RUNNING") \/ state' = Set(state, c, "SINGLESTEP")
          /\ ee' = ee \/ ee' = Set(ee, c, FALSE)
          /\ saved' = Set(saved, c, FALSE) \/ saved' = Set(saved, c, TRUE)
          /\ se' = Set(se, c, cmd[c] = "step")
          /\ done' = Set(done, c, cmd[c] = "continue")
      BY <1>5
    <2>3. /\ at \in [Cores -> InStub \cup {"app", "hung"}] /\ state \in [Cores -> States]
          /\ ee \in [Cores -> BOOLEAN] /\ saved \in [Cores -> BOOLEAN]
          /\ se \in [Cores -> BOOLEAN] /\ done \in [Cores -> BOOLEAN]
      BY DEF TypeOK
    <2>4. at' \in [Cores -> InStub \cup {"app", "hung"}] /\ state' \in [Cores -> States]
      BY <2>1, <2>2, <2>3, KeptOrSet, Zenon
    <2>5. /\ ee' \in [Cores -> BOOLEAN] /\ saved' \in [Cores -> BOOLEAN]
          /\ se' \in [Cores -> BOOLEAN] /\ done' \in [Cores -> BOOLEAN]
      BY <2>2, <2>3, KeptOrSet, Zenon
    <2> QED BY <2>4, <2>5 DEF Command, TypeOK, ghost
  <1>2. CoreInv(c)'
    <2>1. at'[c] = "rearm" /\ state'[c] # "STOPPED"
      BY <1>5 DEF Set, TypeOK
    <2>2. se'[c] <=> cmd[c] = "step"
      BY <1>5 DEF Set, TypeOK
    <2>3. done'[c] <=> cmd[c] = "continue"
      BY <1>5 DEF Set, TypeOK
    <2>4. cmd[c] = "continue" => (ee'[c] <=> ee[c])
      BY <1>5
    <2>5. cmd[c] = "step" => saved'[c]
      BY <1>5 DEF Set, TypeOK
    <2> QED
      BY <1>0, <1>5, <2>1, <2>2, <2>3, <2>4, <2>5 DEF InStub, CoreInv, LevelInv,
         StateInv, WatchInv, CommandInv, InterruptInv, RanInv
  <1>3. ASSUME NEW d \in Cores, d # c
        PROVE  CoreInv(d)'
    <2>1. Same(d)
      BY <1>3 DEF Command, TypeOK, Set, ctx, ghost, Same
    <2> QED BY <2>1, SameKeeps
  <1> QED BY <1>1, <1>2, <1>3

\* A stop is reported with the single step bit cleared.
LEMMA ReportSound == ASSUME IInv, NEW c \in Cores, Report(c)
                     PROVE  IInv'
  <1> USE DEF IInv
  <1>0. /\ at[c] = "report" /\ state[c] # "STOPPED"
        /\ \/ at' = Set(at, c, "finish") /\ UNCHANGED <<se, acked>>
           \/ at' = Set(at, c, "stopped") /\ se' = Set(se, c, FALSE)
              /\ acked' = Set(acked, c, FALSE)
    BY DEF Report, CoreInv, StateInv
  <1>1. TypeOK'
    <2>1. "finish" \in InStub \cup {"app", "hung"} /\ "stopped" \in InStub \cup {"app", "hung"}
      BY DEF InStub
    <2>2. /\ at' = Set(at, c, "finish") \/ at' = Set(at, c, "stopped")
          /\ se' = se \/ se' = Set(se, c, FALSE)
          /\ acked' = acked \/ acked' = Set(acked, c, FALSE)
      BY <1>0
    <2>3. /\ at \in [Cores -> InStub \cup {"app", "hung"}]
          /\ se \in [Cores -> BOOLEAN] /\ acked \in [Cores -> BOOLEAN]
      BY DEF TypeOK
    <2>4. /\ at' \in [Cores -> InStub \cup {"app", "hung"}]
          /\ se' \in [Cores -> BOOLEAN] /\ acked' \in [Cores -> BOOLEAN]
      BY <2>1, <2>2, <2>3, KeptOrSet, Zenon
    <2> QED BY <2>4 DEF Report, TypeOK, ghost
  <1>2. CoreInv(c)'
    <2>1. (at'[c] = "finish" /\ UNCHANGED <<se, acked>>) \/ at'[c] = "stopped"
      BY <1>0 DEF Set, TypeOK
    <2> QED
      BY <1>0, <2>1 DEF Report, ghost, InStub, CoreInv, LevelInv, StateInv,
                        WatchInv, CommandInv, InterruptInv, RanInv
  <1>3. ASSUME NEW d \in Cores, d # c
        PROVE  CoreInv(d)'
    <2>1. Same(d)
      BY <1>3 DEF Report, TypeOK, Set, ctx, ghost, Same
    <2> QED BY <2>1, SameKeeps
  <1> QED BY <1>1, <1>2, <1>3

\* A fault of the stub is the only way to the level at which a core hangs, and
\* hangs it unless ResumeCore has left the level before.
LEMMA NestedFaultSound == ASSUME IInv, NEW c \in Cores, NestedFault(c)
                          PROVE  IInv'
  <1> USE DEF IInv
  <1> DEFINE l == IF at[c] = "disarm" THEN 2 ELSE 1
             s == IF at[c] = "disarm" THEN "HUNG" ELSE "STOPPING"
             a == IF at[c] = "disarm" THEN "hung" ELSE "astray"
  <1>0. /\ at[c] \in {"disarm", "load"} /\ level' = Set(level, c, l)
        /\ at' = Set(at, c, a) /\ state' = Set(state, c, s)
    <2>1. at[c] \in {"disarm", "load"}
      BY DEF NestedFault
    <2>2. level[c] + 1 = l
      BY <2>1 DEF CoreInv, LevelInv, InStub
    <2>3. level' = Set(level, c, l) /\ level'[c] = l
      BY <2>2 DEF NestedFault, Set, TypeOK
    <2> QED BY <2>1, <2>3 DEF NestedFault
  <1>1. TypeOK'
    <2>1. s \in States /\ a \in InStub \cup {"app", "hung"} /\ l \in 0..2
      BY DEF States, InStub
    <2>2. /\ at' \in [Cores -> InStub \cup {"app", "hung"}]
          /\ state' \in [Cores -> States] /\ level' \in [Cores -> 0..2]
      BY <1>0, <2>1, SetSound, Zenon DEF TypeOK
    <2>3. nested' \in [Cores -> BOOLEAN]
      BY SetSound, Zenon DEF NestedFault, TypeOK
    <2> QED BY <2>2, <2>3 DEF NestedFault, TypeOK, ctx
  <1>2. CoreInv(c)'
    <2>1. at'[c] = a /\ state'[c] = s /\ level'[c] = l
      BY <1>0 DEF Set, TypeOK
    <2>2. nested'[c] = TRUE
      BY Zenon DEF NestedFault, Set, TypeOK
    <2> QED
      BY <1>0, <2>1, <2>2 DEF NestedFault, ctx, InStub, CoreInv, LevelInv,
                              StateInv, WatchInv, CommandInv, InterruptInv,
                              RanInv
  <1>3. ASSUME NEW d \in Cores, d # c
        PROVE  CoreInv(d)'
    <2>1. Same(d)
      BY <1>3 DEF NestedFault, TypeOK, Set, ctx, ghost, Same
    <2> QED BY <2>1, SameKeeps
  <1> QED BY <1>1, <1>2, <1>3

\* Every step of a core and of its master keeps the invariant.
THEOREM AgentInductive == Spec => []IInv
  <1>1. Init => IInv
    <2> SUFFICES ASSUME Init PROVE IInv
      OBVIOUS
    <2>1. TypeOK
      <3>1. /\ at \in [Cores -> InStub \cup {"app", "hung"}]
            /\ state \in [Cores -> States] /\ level \in [Cores -> 0..2]
            /\ exc \in [Cores -> Exceptions] /\ sig \in [Cores -> Signals]
            /\ cmd \in [Cores -> {"idle", "continue", "step"}]
            /\ insn \in [Cores -> Insns] /\ under \in [Cores -> Insns \cup {"none"}]
            /\ skips \in [Cores -> Nat]
        BY DEF Init, States, Exceptions, Signals
      <3>2. /\ done \in [Cores -> BOOLEAN] /\ acked \in [Cores -> BOOLEAN]
            /\ se \in [Cores -> BOOLEAN] /\ ee \in [Cores -> BOOLEAN]
            /\ saved \in [Cores -> BOOLEAN] /\ ici \in [Cores -> BOOLEAN]
            /\ appEE \in [Cores -> BOOLEAN] /\ early \in [Cores -> BOOLEAN]
            /\ ran \in [Cores -> BOOLEAN] /\ nested \in [Cores -> BOOLEAN]
        BY DEF Init
      <3>3. watch \in [Cores -> [Regs -> BOOLEAN]] /\ hw \in [Cores -> [Regs -> BOOLEAN]]
        BY DEF Init
      <3> QED BY <3>1, <3>2, <3>3 DEF TypeOK
    <2>2. ASSUME NEW c \in Cores
          PROVE  CoreInv(c)
      BY DEF Init, InStub, CoreInv, LevelInv, StateInv, WatchInv, CommandInv,
             InterruptInv, RanInv
    <2> QED BY <2>1, <2>2 DEF IInv
  <1>2. IInv /\ [Next]_vars => IInv'
    <2> SUFFICES ASSUME IInv, [Next]_vars
                 PROVE  IInv'
      OBVIOUS
    <2>1. ASSUME NEW c \in Cores, NEW e \in Exceptions, Enter(c, e)
          PROVE  IInv'
      BY <2>1, EnterSound
    <2>2. ASSUME NEW c \in Cores, NestedFault(c)
          PROVE  IInv'
      BY <2>2, NestedFaultSound
    <2>3. ASSUME NEW c \in Cores, CoreStep(c)
          PROVE  IInv'
      BY <2>3, DisarmSound, ReportSound, StoppedSound, FinishSound, ResumeSound,
         CommandSound, RearmSound, LoadSound DEF CoreStep
    <2>4. ASSUME NEW c \in Cores, AppRuns(c)
          PROVE  IInv'
      BY <2>4, AppRunsSound
    <2>5. ASSUME NEW c \in Cores, MasterStep(c)
          PROVE  IInv'
      BY <2>5, MasterAcksSound, MasterInterruptsSound, MasterEditsSound,
         MasterWatchesSound, MasterCommandsSound DEF MasterStep
    <2>6. CASE UNCHANGED vars
      <3>1. TypeOK'
        BY <2>6 DEF vars, IInv, TypeOK
      <3>2. ASSUME NEW c \in Cores
            PROVE  CoreInv(c)'
        BY <2>6, SameKeeps DEF vars, IInv, Same
      <3> QED BY <3>1, <3>2 DEF IInv
    <2> QED BY <2>1, <2>2, <2>3, <2>4, <2>5, <2>6 DEF Next
  <1> QED BY <1>1, <1>2, PTL DEF Spec

\* The variables of the model keep their types.
THEOREM AgentTypes == Spec => []TypeOK
  <1>1. IInv => TypeOK
    BY DEF IInv
  <1> QED BY <1>1, AgentInductive, PTL

\* An ordinary exception never finds exception_level as it is in the stub.
THEOREM OnlyNestedFaultsHang == Spec => []HangsOnlyNested
  <1>1. IInv => HangsOnlyNested
    BY DEF IInv, CoreInv, LevelInv, HangsOnlyNested
  <1> QED BY <1>1, AgentInductive, PTL

\* The debug registers are those of gCoreData in the application, and clear
\* while the stub works.
THEOREM DebugRegistersFollow == Spec => []WatchedWhileRunning
  <1>1. IInv => WatchedWhileRunning
    BY DEF IInv, CoreInv, WatchInv, WatchedWhileRunning
  <1> QED BY <1>1, AgentInductive, PTL

\* MSR_BIT_SE of a running core is set exactly when its last command is a step.
THEOREM CoreStepsWhenTold == Spec => []StepsWhenTold
  <1>1. IInv => StepsWhenTold
    BY DEF IInv, CoreInv, CommandInv, StepsWhenTold
  <1> QED BY <1>1, AgentInductive, PTL

\* No sequence of steps and continues leaves the interrupts switched off.
THEOREM InterruptsComeBack == Spec => []InterruptsNotLost
  <1>1. IInv => InterruptsNotLost
    BY DEF IInv, CoreInv, InterruptInv, InterruptsNotLost
  <1> QED BY <1>1, AgentInductive, PTL

\* A step commanded in the agent loop is acknowledged only after it was made.
THEOREM LateStepsAreTaken == Spec => []LateStepTaken
  <1>1. IInv => LateStepTaken
    BY DEF IInv, CoreInv, RanInv, LateStepTaken
  <1> QED BY <1>1, AgentInductive, PTL

\* A core runs on only after the master acknowledged its stop.
THEOREM AgentImplementsStopGo == Spec => ImplementsStopGo
  <1>1. Init => Abstract!Init
    BY DEF Init, Abstract!Init
  <1>2. IInv /\ [Next]_vars => [Abstract!Next]_(Abstract!vars)
    <2> SUFFICES ASSUME IInv, [Next]_vars
                 PROVE  [Abstract!Next]_(Abstract!vars)
      OBVIOUS
    <2>1. ASSUME NEW c \in Cores, NEW e \in Exceptions, Enter(c, e)
          PROVE  Abstract!Stop(c)
      <3>1. at[c] = "app" /\ at' = Set(at, c, "disarm") /\ acked' = acked
        BY <2>1 DEF Enter, IInv, CoreInv, LevelInv, Set, TypeOK
      <3> QED BY <3>1 DEF Abstract!Stop, Set, IInv, TypeOK
    <2>2. ASSUME NEW c \in Cores, NestedFault(c)
          PROVE  Abstract!Die(c) \/ UNCHANGED Abstract!vars
      <3>1. /\ at[c] \in {"disarm", "load"} /\ acked' = acked
            /\ at' = Set(at, c, "hung") \/ at' = Set(at, c, "astray")
        BY <2>2 DEF NestedFault
      <3>2. CASE at' = Set(at, c, "hung")
        BY <3>1, <3>2 DEF Abstract!Die, Set, IInv, TypeOK
      <3>3. CASE at' = Set(at, c, "astray")
        BY <3>1, <3>3 DEF Abstract!vars, Set, IInv, TypeOK
      <3> QED BY <3>1, <3>2, <3>3
    <2>3. ASSUME NEW c \in Cores, Report(c)
          PROVE  Abstract!Announce(c) \/ UNCHANGED Abstract!vars
      <3>1. CASE exc[c] = "other"
        BY <2>3, <3>1 DEF Report, Abstract!vars, Set, IInv, TypeOK
      <3>2. CASE exc[c] # "other"
        BY <2>3, <3>2 DEF Report, Abstract!Announce, Set, IInv, TypeOK
      <3> QED BY <3>1, <3>2
    <2>4. ASSUME NEW c \in Cores, Load(c)
          PROVE  Abstract!Go(c)
      <3>1. at[c] = "load" /\ acked[c] /\ at' = Set(at, c, "app") /\ acked' = acked
        BY <2>4 DEF Load, IInv, CoreInv, StateInv
      <3> QED BY <3>1 DEF Abstract!Go, Set, IInv, TypeOK
    <2>5. ASSUME NEW c \in Cores, MasterAcks(c)
          PROVE  Abstract!Note(c)
      BY <2>5 DEF MasterAcks, Abstract!Note, Set, IInv, TypeOK
    <2>6. ASSUME NEW c \in Cores,
                 Disarm(c) \/ Stopped(c) \/ Finish(c) \/ Resume(c) \/ Command(c)
                    \/ Rearm(c)
          PROVE  UNCHANGED Abstract!vars
      <3>1. acked' = acked /\ at[c] \in InStub
        BY <2>6 DEF Disarm, Stopped, Finish, Resume, Command, Rearm, InStub
      <3>2. \E p \in InStub \ {"hung", "app"} : at' = Set(at, c, p)
        BY <2>6 DEF Disarm, Stopped, Finish, Resume, Command, Rearm, InStub
      <3> QED BY <3>1, <3>2 DEF Abstract!vars, Set, IInv, TypeOK, InStub
    <2>7. ASSUME NEW c \in Cores,
                 AppRuns(c) \/ MasterInterrupts(c) \/ MasterEdits(c)
                    \/ MasterWatches(c) \/ MasterCommands(c)
          PROVE  UNCHANGED Abstract!vars
      <3>1. acked' = acked /\ at' = at
        BY <2>7 DEF AppRuns, MasterInterrupts, MasterEdits, MasterWatches,
                    MasterCommands
      <3> QED BY <3>1 DEF Abstract!vars
    <2>8. CASE UNCHANGED vars
      BY <2>8 DEF vars, Abstract!vars
    <2> QED
      BY <2>1, <2>2, <2>3, <2>4, <2>5, <2>6, <2>7, <2>8
      DEF Next, CoreStep, MasterStep, Abstract!Next
  <1> QED
    BY <1>1, <1>2, AgentInductive, PTL DEF Spec, ImplementsStopGo,
       Abstract!Spec

-----------------------------------------------------------------------------
(* What a core reports of a stop and what it makes of a command: an        *)
(* invariant that rests on the one above.                                  *)

\* The core on its way from a command to the stop after it.
Underway == {"rearm", "load", "astray", "app", "disarm", "report", "stopped"}

\* An exception by a watched address finds the watch set in gCoreData, from
\* which the signal is chosen.
HitInv(c) ==
    exc[c] = "watch" =>
        /\ at[c] = "disarm" => watch[c]["DABR"]
        /\ at[c] \in {"report", "stopped", "finish", "loop"} =>
               sig[c] = "SIGTRAP"

\* A command that ResumeCore has not taken yet skipped nothing, and nobody
\* changed the instruction behind it; a step left over in "finish" is about to
\* be acknowledged.
SkipInv(c) ==
    /\ skips[c] \in {0, 1}
    /\ \/ at[c] = "loop" /\ ~done[c]
       \/ at[c] = "finish" /\ ~done[c] /\ cmd[c] # "step"
       => skips[c] = 0 /\ under[c] = insn[c]
    /\ at[c] \in {"command", "rearm", "load"} =>
           (skips[c] = 1 <=> under[c] \in TrapInsns)

\* Only a step waits for the next stop to be acknowledged, and SaveState has
\* published a stop that it reports before it acknowledges.
StepInv(c) ==
    /\ at[c] \in Underway => (done[c] <=> cmd[c] # "step")
    /\ at[c] \in {"finish", "loop"} => state[c] = "STOPPED" \/ exc[c] = "other"

ReportInv == \A c \in Cores : HitInv(c) /\ SkipInv(c) /\ StepInv(c)

\* A step of the stub keeps the invariant.
LEMMA CoreStepSound ==
    ASSUME IInv, ReportInv, NEW c \in Cores, CoreStep(c)
    PROVE  ReportInv'
  <1> SUFFICES ASSUME NEW d \in Cores
               PROVE  (HitInv(d) /\ SkipInv(d) /\ StepInv(d))'
    BY DEF ReportInv
  <1> USE RegAssumption DEF IInv, TypeOK, ReportInv, HitInv, SkipInv, StepInv,
                            Underway, Set, ctx, ghost
  <1>1. CASE Disarm(c)
    <2>1. /\ at[c] = "disarm" /\ at' = Set(at, c, "report")
          /\ exc' = exc /\ done' = done /\ cmd' = cmd /\ skips' = skips
          /\ state' = state /\ watch' = watch /\ under' = under /\ insn' = insn
      BY <1>1 DEF Disarm
    <2>2. sig' = Set(sig, c, SignalOf(exc[c], insn[c], watch[c]["DABR"]))
      BY <1>1 DEF Disarm
    <2>3. exc[c] = "watch" => sig'[c] = "SIGTRAP"
      <3> SUFFICES ASSUME exc[c] = "watch" PROVE sig'[c] = "SIGTRAP"
        OBVIOUS
      <3>1. watch[c]["DABR"]
        BY <2>1
      <3>2. SignalOf(exc[c], insn[c], watch[c]["DABR"]) = "SIGTRAP"
        BY <3>1, Zenon DEF SignalOf
      <3> QED BY <2>2, <3>2
    <2>4. d # c => sig'[d] = sig[d]
      BY <2>2
    <2>5. HitInv(d)'
      BY <2>1, <2>3, <2>4
    <2>6. (SkipInv(d) /\ StepInv(d))'
      BY <2>1
    <2> QED BY <2>5, <2>6
  <1>2. CASE Report(c)
    BY <1>2 DEF Report
  <1>3. CASE Stopped(c)
    BY <1>3 DEF Stopped
  <1>4. CASE Finish(c)
    BY <1>4 DEF Finish
  <1>5. CASE Resume(c)
    BY <1>5 DEF Resume, Commanded
  <1>6. CASE Command(c)
    <2>1. at[c] = "command" /\ cmd[c] \in {"continue", "step"} /\ ~done[c]
      BY <1>6 DEF Command, CoreInv, CommandInv
    <2>2. /\ at' = Set(at, c, "rearm") /\ done' = Set(done, c, cmd[c] = "continue")
          /\ exc' = exc /\ sig' = sig /\ cmd' = cmd /\ skips' = skips
          /\ watch' = watch /\ under' = under /\ insn' = insn
      BY <2>1, <1>6 DEF Command, DoneByResume
    <2>3. d # c => state'[d] = state[d]
      BY <1>6 DEF Command
    <2> QED BY <2>1, <2>2, <2>3
  <1>7. CASE Rearm(c)
    BY <1>7 DEF Rearm
  <1>8. CASE Load(c)
    BY <1>8 DEF Load
  <1> QED BY <1>1, <1>2, <1>3, <1>4, <1>5, <1>6, <1>7, <1>8 DEF CoreStep

\* A step of the master agent keeps it: it works on cores that are STOPPED and
\* whose last command is acknowledged.
LEMMA MasterStepSound ==
    ASSUME IInv, ReportInv, NEW c \in Cores, MasterStep(c)
    PROVE  ReportInv'
  <1> SUFFICES ASSUME NEW d \in Cores
               PROVE  (HitInv(d) /\ SkipInv(d) /\ StepInv(d))'
    BY DEF ReportInv
  <1> USE DEF IInv, TypeOK, ReportInv, HitInv, SkipInv, StepInv, Underway, Set,
              ctx, ghost
  <1>0. Free(c) => at[c] \in {"finish", "loop"} /\ done[c]
    BY DEF Free, CoreInv, StateInv
  <1>1. CASE MasterAcks(c)
    BY <1>1 DEF MasterAcks
  <1>2. CASE MasterInterrupts(c)
    BY <1>2 DEF MasterInterrupts
  <1>3. CASE MasterEdits(c)
    BY <1>0, <1>3 DEF MasterEdits
  <1>4. CASE MasterWatches(c)
    BY <1>0, <1>4 DEF MasterWatches
  <1>5. CASE MasterCommands(c)
    BY <1>0, <1>5 DEF MasterCommands
  <1> QED BY <1>1, <1>2, <1>3, <1>4, <1>5 DEF MasterStep

\* The invariant of a core's reports and commands.
THEOREM ReportInductive == Spec => []ReportInv
  <1>1. Init => ReportInv
    <2> SUFFICES ASSUME Init, NEW c \in Cores
                 PROVE  HitInv(c) /\ SkipInv(c) /\ StepInv(c)
      BY DEF ReportInv
    <2>1. /\ at[c] = "app" /\ exc[c] = "other" /\ done[c] /\ cmd[c] = "idle"
          /\ skips[c] = 0
      BY DEF Init
    <2> QED BY <2>1 DEF HitInv, SkipInv, StepInv, Underway
  <1>2. IInv /\ ReportInv /\ [Next]_vars => ReportInv'
    <2> SUFFICES ASSUME IInv, ReportInv, [Next]_vars PROVE ReportInv'
      OBVIOUS
    <2>1. ASSUME NEW c \in Cores, NEW e \in Exceptions, Enter(c, e)
          PROVE  ReportInv'
      <3>1. /\ at[c] = "app" /\ Raises(c, e) /\ hw[c] = watch[c]
            /\ at' = Set(at, c, "disarm") /\ exc' = Set(exc, c, e)
        BY <2>1 DEF Enter, IInv, CoreInv, LevelInv, WatchInv, Set, TypeOK
      <3> SUFFICES ASSUME NEW d \in Cores
                   PROVE  (HitInv(d) /\ SkipInv(d) /\ StepInv(d))'
        BY DEF ReportInv
      <3> QED
        BY <2>1, <3>1 DEF Enter, Raises, IInv, TypeOK, ReportInv, HitInv,
                          SkipInv, StepInv, Underway, Set, ctx
    <2>2. ASSUME NEW c \in Cores, NestedFault(c) PROVE ReportInv'
      BY <2>2 DEF NestedFault, IInv, TypeOK, ReportInv, HitInv, SkipInv,
                  StepInv, Underway, Set, ctx
    <2>3. ASSUME NEW c \in Cores, AppRuns(c) PROVE ReportInv'
      BY <2>3 DEF AppRuns, IInv, TypeOK, ReportInv, HitInv, SkipInv, StepInv,
                  Underway, Set
    <2>4. CASE UNCHANGED vars
      BY <2>4 DEF vars, ctx, ghost, ReportInv, HitInv, SkipInv, StepInv,
                  Underway
    <2> QED BY <2>1, <2>2, <2>3, <2>4, CoreStepSound, MasterStepSound DEF Next
  <1> QED BY <1>1, <1>2, AgentInductive, PTL DEF Spec

\* A hit of a watchpoint is a SIGTRAP, although the register that raised it was
\* cleared and the master may have removed the watch before.
THEOREM WatchHitsAreTraps == Spec => []WatchHitIsTrap
  <1>1. ReportInv => WatchHitIsTrap
    BY DEF ReportInv, HitInv, WatchHitIsTrap
  <1> QED BY <1>1, ReportInductive, PTL

\* ResumeCore skips the trap a core stopped at once and skips nothing else,
\* however often it is called before the request is acknowledged.
THEOREM TrapsAreSkippedOnce == Spec => []SkipsTrapOnce
  <1>1. ReportInv => SkipsTrapOnce
    <2> SUFFICES ASSUME ReportInv, NEW c \in Cores
                 PROVE  /\ skips[c] <= 1
                        /\ at[c] \in {"rearm", "load"} =>
                               (skips[c] = 1 <=> under[c] \in TrapInsns)
      BY DEF SkipsTrapOnce
    <2>1. SkipInv(c)
      BY DEF ReportInv
    <2>2. skips[c] <= 1
      BY <2>1 DEF SkipInv
    <2> QED BY <2>1, <2>2 DEF SkipInv
  <1> QED BY <1>1, ReportInductive, PTL

\* A step that the master finds acknowledged has ended in a stop it was told.
THEOREM StepsEndStopped == Spec => []StepDoneIsStopped
  <1>1. IInv /\ ReportInv => StepDoneIsStopped
    BY DEF IInv, TypeOK, CoreInv, CommandInv, ReportInv, StepInv, Underway,
           InStub, StepDoneIsStopped
  <1> QED BY <1>1, ReportInductive, AgentInductive, PTL

=============================================================================
