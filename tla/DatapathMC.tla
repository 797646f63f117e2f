----------------------------- MODULE DatapathMC -----------------------------
(* Small instances of Datapath for TLC. *)
EXTENDS DatapathSessions, TLC

(* Buffers are interchangeable, and so are write requests and links. *)
Symmetry == Permutations(Links) \cup Permutations(Buffers) \cup Permutations(WriteReqs)
=============================================================================
