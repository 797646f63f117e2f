-------------------------- MODULE DatapathSessions --------------------------
(***************************************************************************)
(* Datapath implements Sessions: the session of a link is read off its     *)
(* stream and the free list, the queue is the events in flight.            *)
(***************************************************************************)
EXTENDS Datapath

SessionOf(l) ==
    CASE handle[l] = "connecting" -> "connecting"
      [] handle[l] = "reading"    -> "open"
      [] handle[l] = "closing"    -> "ending"
      [] OTHER                     -> IF l \in client_list_free THEN "idle" ELSE "lost"

SessionMap == [l \in Links |-> SessionOf(l)]

S == INSTANCE Sessions
        WITH Clients   <- Links,
             Payloads  <- Buffers,
             NoPayload <- NoBuf,
             Capacity  <- EventCount,
             session   <- SessionMap,
             queue     <- events

(***************************************************************************)
(* Whatever the interleaving of callbacks, commands, stops, restarts and   *)
(* event batches, the application gets the stream of events that Sessions  *)
(* describes: no callback order queues a READ outside a session, ends one  *)
(* without a CLOSE while an event is free, or reuses an id before its      *)
(* CLOSE is queued (on_recv_cb, on_close_link_cb, svl_link_list_open).     *)
(***************************************************************************)
ImplementsSessions == S!Spec
=============================================================================
