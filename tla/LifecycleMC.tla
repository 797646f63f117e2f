---------------------------- MODULE LifecycleMC ----------------------------
(* Instances of Lifecycle for TLC. *)
EXTENDS Lifecycle
=============================================================================
