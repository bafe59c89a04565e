---------------------------- MODULE MCLifecycle ----------------------------
(* Instances of Lifecycle for TLC. *)
EXTENDS Lifecycle
CONSTANTS main_thread, h1, h2
TwoHandlers == {h1, h2}
OneHandler  == {h1}
=============================================================================
