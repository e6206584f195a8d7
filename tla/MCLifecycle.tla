---------------------------- MODULE MCLifecycle ----------------------------
(***************************************************************************)
(* Lifecycle for TLC: five changes of the plugin list or failures of the   *)
(* loader's API, any number of applications.                               *)
(***************************************************************************)
EXTENDS Lifecycle

MCMaxChanges == 5

=============================================================================
