------------------------------ MODULE PluginMC ------------------------------
(* Instances of Plugin, and of the managed helpers beside it, for TLC. *)
EXTENDS Plugin, Util

(* The helpers keep no state: it is enough to try them in one, before servlynx_start. *)
BeforeStart == PluginInit

(***************************************************************************)
(* HtoN reverses the bytes of a value of any of its widths, so that an     *)
(* address or port is in network order, and NtoH (the same code) undoes it *)
(* (the 64-bit one is put together from two 32-bit halves).                *)
(***************************************************************************)
ByteOrderReversed == BeforeStart => ReversesBytes

(***************************************************************************)
(* For every length, MemCpy between regions that do not overlap copies     *)
(* exactly the bytes asked for and touches no other, and MemCmp sees a     *)
(* difference in each of those bytes and in no other, although both go by  *)
(* words and a tail of overlapping accesses (Copy3, Copy5 to Copy7).       *)
(***************************************************************************)
MemoryExact == BeforeStart => CopiesAndCompares

(***************************************************************************)
(* MemSet fills exactly the bytes asked for with its value over and over,  *)
(* also where the length cuts the value: for a ulong, a byte, and a short  *)
(* or int that is not negative (the sign of a negative one runs into the   *)
(* rest of the pattern).                                                   *)
(***************************************************************************)
MemSetRepeats == BeforeStart => FillsRepeatedly
=============================================================================
