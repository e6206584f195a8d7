----------------------------- MODULE CoreStates -----------------------------
(***************************************************************************)
(* The part of the core agents (module CoreAgent) that the rest of the     *)
(* stub works with: whether a core runs the application, is on its way     *)
(* into the agent loop, or stays there until the master resumes it.        *)
(***************************************************************************)
EXTENDS Naturals

CONSTANT MasterCore \* GDBStub_MasterCore()

Cores == 0..2

ASSUME MasterAssumption == MasterCore \in Cores

VARIABLE state \* gCoreData[core].state

StatesOK == state \in [Cores -> {"RUNNING", "STOPPING", "STOPPED"}]

Moves(c, from, to) == state[c] = from /\ state' = [state EXCEPT ![c] = to]

StatesInit == state = [c \in Cores |-> "RUNNING"]

\* __CoreAgent_SaveState as far as the state goes, and CoreAgent_ResumeCore.
Stopping(c) == Moves(c, "RUNNING", "STOPPING")
Stopped(c)  == Moves(c, "STOPPING", "STOPPED")
Resumed(c)  == Moves(c, "STOPPED", "RUNNING")

=============================================================================
