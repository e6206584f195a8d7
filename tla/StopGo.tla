------------------------------- MODULE StopGo -------------------------------
(***************************************************************************)
(* What the core agents promise to the master agent: a core that stopped   *)
(* runs again only after the master has taken note of that very stop.      *)
(***************************************************************************)
CONSTANT Cores

VARIABLES
    running, \* the cores that run the application
    unseen,  \* the cores whose last stop the master has not taken note of
    dead     \* the cores that will never run again

vars == <<running, unseen, dead>>

Init == running = Cores /\ unseen = {} /\ dead = {}

\* A stop is announced to the master, ...
Stop(c) == /\ c \in running
           /\ running' = running \ {c} /\ UNCHANGED <<unseen, dead>>

Announce(c) == /\ c \notin running \cup dead
               /\ unseen' = unseen \cup {c} /\ UNCHANGED <<running, dead>>

\* ... which takes note of it ...
Note(c) == /\ c \in unseen
           /\ unseen' = unseen \ {c} /\ UNCHANGED <<running, dead>>

\* ... before the core goes on.
Go(c) == /\ c \notin running \cup unseen \cup dead
         /\ running' = running \cup {c} /\ UNCHANGED <<unseen, dead>>

\* A fault inside the stub.
Die(c) == /\ c \notin dead
          /\ dead' = dead \cup {c} /\ running' = running \ {c}
          /\ UNCHANGED unseen

Next == \E c \in Cores : Stop(c) \/ Announce(c) \/ Note(c) \/ Go(c) \/ Die(c)

Spec == Init /\ [][Next]_vars

=============================================================================
