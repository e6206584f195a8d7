-------------------------- MODULE LifecycleProofs --------------------------
(***************************************************************************)
(* Proofs about Lifecycle for any number of changes and failures.          *)
(***************************************************************************)
EXTENDS Lifecycle, TLAPS

Booleans == /\ loaded \in BOOLEAN /\ reload \in BOOLEAN
            /\ gInitStubs \in BOOLEAN /\ gHeartbeatDisabled \in BOOLEAN
            /\ heartbeat \in BOOLEAN /\ stub \in BOOLEAN /\ pchar \in BOOLEAN
            /\ failed \in BOOLEAN

Places == /\ phase \in {"inits", "entry", "start", "running", "ending", "restarting"}
          /\ syscalls = IF loaded THEN "plugin" ELSE "original"

Counted == changes \in 0..MaxChanges

Starting == phase \in {"ending", "inits", "entry", "start"}

\* The stub is prepared for the next process, unless the loader has said that it
\* will reload the plugins.
InitStubsInv == /\ ~loaded => ~reload
                /\ loaded /\ ~reload => gInitStubs
                /\ loaded /\ reload /\ ~failed /\ Starting => ~gInitStubs

Fresh == heartbeat /\ ~stub /\ ~pchar

UnderStub == stub /\ pchar /\ ~heartbeat

\* gHeartbeatDisabled tells of the process that starts, and of no earlier one.
ProcessInv ==
    /\ phase = "ending" /\ loaded => ~gHeartbeatDisabled
    /\ phase = "inits" => Fresh /\ (loaded => ~gHeartbeatDisabled)
    /\ phase = "entry" =>
          /\ ~stub /\ ~pchar
          /\ loaded => gHeartbeatDisabled = gInitStubs /\ heartbeat = ~gInitStubs
          /\ ~loaded => heartbeat
    /\ phase = "start" =>
          /\ loaded /\ gHeartbeatDisabled => UnderStub
          /\ loaded /\ reload /\ ~gInitStubs => Fresh
          /\ ~loaded /\ ~failed => Fresh
    /\ phase = "running" =>
          /\ loaded => UnderStub
          /\ ~loaded /\ ~failed => Fresh

LInv == Booleans /\ Places /\ Counted /\ InitStubsInv /\ ProcessInv

-----------------------------------------------------------------------------

LEMMA LInvInit == Init => LInv
<1> SUFFICES ASSUME Init PROVE LInv
  OBVIOUS
<1>1. Counted
  BY MaxChangesAssumption DEF Init, Counted
<1>2. Booleans /\ Places
  BY DEF Init, Booleans, Places
<1>3. InitStubsInv /\ ProcessInv
  BY DEF Init, InitStubsInv, Starting, ProcessInv, Fresh, UnderStub
<1> QED
  BY <1>1, <1>2, <1>3 DEF LInv

LEMMA CountedNext == Counted /\ [Next]_vars => Counted'
  BY MaxChangesAssumption DEF Counted, Next, vars, OSPerGameInits, EntryHook,
     ApplicationStart, ApplicationEnds, Wiiload, ListChanges, Launch, Reload, Unload

LEMMA LInvNext == LInv /\ [Next]_vars => LInv'
<1> SUFFICES ASSUME LInv, [Next]_vars PROVE LInv'
  OBVIOUS
<1> DEFINE Rest == Booleans /\ Places /\ InitStubsInv /\ ProcessInv
<1> USE DEF LInv, Booleans, Places, InitStubsInv, Starting, ProcessInv, Fresh,
            UnderStub, plugin, process
<1>1. ASSUME OSPerGameInits PROVE Rest'
  BY <1>1 DEF OSPerGameInits, DisableHeartbeat
<1>2. ASSUME EntryHook PROVE Rest'
  BY <1>2 DEF EntryHook, HookActive
<1>3. ASSUME ~reload /\ ApplicationStart PROVE Rest'
  BY <1>3 DEF ApplicationStart, Ready
<1>4. ASSUME ApplicationEnds PROVE Rest'
  BY <1>4 DEF ApplicationEnds, FlagCleared
<1>5. ASSUME Wiiload PROVE Rest'
  BY <1>5 DEF Wiiload, Initialize
<1>6. ASSUME ListChanges PROVE Rest'
  BY <1>6 DEF ListChanges
<1>7. ASSUME Launch PROVE Rest'
  BY <1>7 DEF Launch
<1>8. ASSUME Reload PROVE Rest'
  BY <1>8 DEF Reload, Initialize
<1>9. ASSUME Unload PROVE Rest'
  BY <1>9 DEF Unload, Deinitialize
<1>10. ASSUME UNCHANGED vars PROVE Rest'
  BY <1>10 DEF vars
<1>11. Counted'
  BY CountedNext
<1>12. Rest'
  BY <1>1, <1>2, <1>3, <1>4, <1>5, <1>6, <1>7, <1>8, <1>9, <1>10 DEF Next
<1> QED
  BY <1>11, <1>12

-----------------------------------------------------------------------------

\* The inductive invariant of the plugin and the process that starts.
THEOREM LifecycleInductive == Spec => []LInv
  BY LInvInit, LInvNext, PTL DEF Spec

\* coreinit's syscalls lead into the plugin exactly while it is loaded
\* (main.cpp:25-28), and the variables keep their types.
THEOREM LifecycleTypes == Spec => []TypeOK
<1>1. LInv => TypeOK
  BY DEF LInv, Booleans, Places, Counted, TypeOK
<1> QED
  BY <1>1, LifecycleInductive, PTL

\* While the plugin is loaded every application that runs is under the stub with
\* its own heartbeat off (patches.cpp, main.cpp:31-37).
THEOREM ApplicationsRunUnderTheStub == Spec => []RunsUnderTheStub
<1>1. LInv => RunsUnderTheStub
  BY DEF LInv, ProcessInv, UnderStub, RunsUnderTheStub
<1> QED
  BY <1>1, LifecycleInductive, PTL

\* When the plugin is gone, no application runs under its stub, unless the loader
\* failed to announce the reload (main.cpp:39-50).
THEOREM NoStubIsLeftBehind == Spec => []NoStubWithoutPlugin
<1>1. LInv => NoStubWithoutPlugin
  BY DEF LInv, ProcessInv, Fresh, NoStubWithoutPlugin
<1> QED
  BY <1>1, LifecycleInductive, PTL

=============================================================================
