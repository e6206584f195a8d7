----------------------------- MODULE Lifecycle -----------------------------
(***************************************************************************)
(* main.cpp and patches.cpp: how the plugin gets an application under the  *)
(* stub.  The loader and coreinit call its hooks in this order: for every  *)
(* process OSPerGameInits and EntryHook, then ON_APPLICATION_START, and at *)
(* its end ON_APPLICATION_ENDS.  The plugin is loaded while an application *)
(* runs; a plugin list that changed makes the loader reload all plugins    *)
(* before the next application starts.                                     *)
(***************************************************************************)
EXTENDS Naturals

CONSTANT MaxChanges \* bound: changes of the plugin list and API failures

ASSUME MaxChangesAssumption == MaxChanges \in Nat

VARIABLES
    phase,             \* of the process: "none", "inits", "entry", "start",
                       \*   "running", "ending" or "restarting"
    loaded,            \* the plugin is loaded
    reload,            \* the loader will reload the plugins
    gInitStubs, gHeartbeatDisabled,
    syscalls,          \* 0x4B and 0x4C: "plugin" or "original"
    heartbeat,         \* the heartbeat of the running process is on
    stub, pchar,       \* bits 0x01 and 0x80 of gAppflags of that process
    failed,            \* the loader could not tell of a reload it will make
    changes            \* how often the list changed or the API failed

vars == <<phase, loaded, reload, gInitStubs, gHeartbeatDisabled, syscalls,
          heartbeat, stub, pchar, failed, changes>>

plugin  == <<gInitStubs, gHeartbeatDisabled, syscalls>>
process == <<heartbeat, stub, pchar>>

Init == /\ phase = "running" /\ loaded = FALSE /\ reload = FALSE
        /\ gInitStubs = FALSE /\ gHeartbeatDisabled = FALSE
        /\ syscalls = "original" /\ heartbeat = TRUE
        /\ stub = FALSE /\ pchar = FALSE
        /\ failed = FALSE /\ changes = 0

-----------------------------------------------------------------------------
(* The plugin.                                                             *)

\* INITIALIZE_PLUGIN of a freshly loaded copy: its variables are at their
\* initial values.
Initialize == /\ loaded' = TRUE /\ gInitStubs' = TRUE
              /\ gHeartbeatDisabled' = FALSE
              /\ syscalls' = "plugin"

\* Mutated form: the syscalls still point into the plugin.
LeavesSyscalls == loaded' = FALSE /\ UNCHANGED syscalls

\* DEINITIALIZE_PLUGIN
Deinitialize == loaded' = FALSE /\ syscalls' = "original"

\* Mutated form: it is forgotten that the heartbeat is disabled.
ForgetsHeartbeat == heartbeat' = FALSE /\ UNCHANGED gHeartbeatDisabled

DisableHeartbeat == heartbeat' = FALSE /\ gHeartbeatDisabled' = TRUE

\* The replaced OSPerGameInits; the heartbeat of a new process is on.
OSPerGameInits ==
    /\ phase = "inits" /\ phase' = "entry"
    /\ IF loaded /\ gInitStubs /\ ~gHeartbeatDisabled
       THEN DisableHeartbeat
       ELSE UNCHANGED <<heartbeat, gHeartbeatDisabled>>
    /\ UNCHANGED <<loaded, reload, gInitStubs, syscalls, stub, pchar,
                   failed, changes>>

\* Mutated form: the flags are set whether or not the stub is to be used.
HookAlways == loaded

HookActive == loaded /\ gInitStubs

EntryHook ==
    /\ phase = "entry" /\ phase' = "start"
    /\ stub' = HookActive /\ pchar' = HookActive
    /\ UNCHANGED <<loaded, reload, plugin, heartbeat, failed, changes>>

\* Mutated form: the application starts whatever its heartbeat does.
StartsAnyway == TRUE

Ready == gHeartbeatDisabled

\* ON_APPLICATION_START, with OSRestartGame when the heartbeat is on; its
\* ResetIOOffsets is IOInput's.  Without the plugin nothing is hooked.
ApplicationStart ==
    /\ phase = "start"
    /\ phase' = IF loaded /\ ~Ready THEN "restarting" ELSE "running"
    /\ UNCHANGED <<loaded, reload, plugin, process, failed, changes>>

FlagCleared == gHeartbeatDisabled' = FALSE

\* ON_APPLICATION_ENDS; WUPSBackend_WillReloadPluginsOnNextLaunch may fail.
ApplicationEnds ==
    /\ phase \in {"running", "restarting"} /\ phase' = "ending"
    /\ IF loaded
       THEN /\ FlagCleared
            /\ \/ /\ gInitStubs' = (gInitStubs /\ ~reload)
                  /\ failed' = FALSE /\ UNCHANGED changes
               \/ /\ changes < MaxChanges /\ changes' = changes + 1
                  /\ failed' = reload /\ UNCHANGED gInitStubs
       ELSE UNCHANGED <<gHeartbeatDisabled, gInitStubs, failed, changes>>
    /\ UNCHANGED <<loaded, reload, syscalls, process>>

-----------------------------------------------------------------------------
(* The loader.                                                             *)

\* The plugin is loaded over the network: OSPerGameInits of the application
\* that runs was not replaced when it started.
Wiiload == /\ phase = "running" /\ ~loaded /\ changes < MaxChanges
           /\ changes' = changes + 1
           /\ reload' = FALSE /\ Initialize
           /\ phase' = "start"
           /\ failed' = FALSE /\ UNCHANGED process

\* The list of plugins changes while an application runs.
ListChanges == /\ phase = "running" /\ loaded /\ ~reload /\ changes < MaxChanges
               /\ changes' = changes + 1 /\ reload' = TRUE
               /\ UNCHANGED <<phase, loaded, plugin, process, failed>>

\* The next process starts with its heartbeat on and coreinit's own flags.
Launch == /\ phase = "ending" /\ phase' = "inits"
          /\ heartbeat' = TRUE /\ stub' = FALSE /\ pchar' = FALSE
          /\ UNCHANGED <<loaded, reload, plugin, failed, changes>>

\* All plugins are unloaded and loaded again, this one maybe no longer.
Reload == /\ phase = "start" /\ reload /\ loaded /\ reload' = FALSE
          /\ Initialize
          /\ UNCHANGED <<phase, process, failed, changes>>

Unload == /\ phase = "start" /\ reload /\ loaded /\ reload' = FALSE
          /\ Deinitialize
          /\ UNCHANGED <<phase, gInitStubs, gHeartbeatDisabled, process, failed,
                         changes>>

\* The loader has reloaded before it calls ON_APPLICATION_START.
Next == \/ OSPerGameInits \/ EntryHook \/ (~reload /\ ApplicationStart)
        \/ ApplicationEnds \/ Wiiload \/ ListChanges \/ Launch \/ Reload \/ Unload

\* A process that is started gets through its hooks, and a restart happens.
Spec == Init /\ [][Next]_vars
             /\ WF_vars(OSPerGameInits) /\ WF_vars(EntryHook)
             /\ WF_vars(Reload \/ Unload) /\ WF_vars(~reload /\ ApplicationStart)
             /\ WF_vars(phase = "restarting" /\ ApplicationEnds)
             /\ WF_vars(Launch)

-----------------------------------------------------------------------------
(* Properties.                                                             *)

\* Types of the variables; coreinit's syscalls lead into the plugin only while
\* it is loaded (main.cpp:25-28: they "would point to invalid memory").
TypeOK == /\ phase \in {"inits", "entry", "start", "running", "ending", "restarting"}
          /\ {loaded, reload, gInitStubs, gHeartbeatDisabled} \subseteq BOOLEAN
          /\ {heartbeat, stub, pchar, failed} \subseteq BOOLEAN
          /\ changes \in 0..MaxChanges
          /\ syscalls = IF loaded THEN "plugin" ELSE "original"

\* An application that runs while the plugin is loaded runs under the stub,
\* which talks through the replaced functions, and its own heartbeat is off: a
\* core that stays in the stub is not taken for a hang.  gHeartbeatDisabled
\* must not tell of an earlier process or an earlier copy of the plugin.
RunsUnderTheStub == phase = "running" /\ loaded => stub /\ pchar /\ ~heartbeat

\* When the plugin is gone, because a reload left it out, the application that
\* starts is not under a stub whose I/O functions are unloaded.  The plugin
\* prevents it when it ends the application before, unless the loader could
\* not tell it (main.cpp:43-49).
NoStubWithoutPlugin == phase = "running" /\ ~loaded /\ ~failed => ~stub /\ heartbeat

\* OSRestartGame restarts an application at most until its heartbeat is off:
\* where the plugin is loaded an application gets to run under the stub.
RestartingEnds == loaded ~> (phase = "running" /\ stub) \/ ~loaded

=============================================================================
