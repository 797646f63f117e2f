--------------------------- MODULE ApplicationMC ---------------------------
(* Instances of the two programs for TLC. *)
EXTENDS Application
=============================================================================
