--------------------------- MODULE SessionsProofs ---------------------------
(***************************************************************************)
(* The refinement: every step of Datapath is a step of Sessions or leaves  *)
(* sessions and queue alone, for any sets of links, buffers and write      *)
(* requests and any numbers of events and commands.                        *)
(***************************************************************************)
EXTENDS DatapathProofs, DatapathSessions

(* Sessions of links that a step does not touch stay; one link changes to s. *)
LEMMA SessionUpdate ==
    ASSUME NEW l \in Links, NEW s,
           \A m \in Links \ {l} : /\ handle'[m] = handle[m]
                                  /\ m \in client_list_free' <=> m \in client_list_free,
           SessionOf(l)' = s
    PROVE  S!Become(l, s)
<1>1. \A m \in Links \ {l} : SessionOf(m)' = SessionOf(m)
  BY DEF SessionOf
<1>2. SessionMap' = [m \in Links |-> SessionOf(m)']
  BY DEF SessionMap
<1>3. [SessionMap EXCEPT ![l] = s] = [m \in Links |-> IF m = l THEN s ELSE SessionOf(m)]
  BY DEF SessionMap
<1>4. \A m \in Links : SessionOf(m)' = IF m = l THEN s ELSE SessionOf(m)
  BY <1>1
<1> QED
  BY <1>2, <1>3, <1>4 DEF S!Become

(* A step that leaves streams and free list alone leaves the sessions alone. *)
LEMMA SessionStay ==
    ASSUME UNCHANGED <<handle, client_list_free>>
    PROVE  UNCHANGED SessionMap
BY DEF SessionMap, SessionOf

(* A free event is room in the queue, none is a full queue. *)
LEMMA QueueRoom ==
    ASSUME EventInv
    PROVE  /\ events_free > 0 => Len(events) < EventCount
           /\ events_free = 0 => Len(events) = EventCount
<1>1. events_free \in Nat /\ Len(events) \in Nat /\ events_free + Len(events) = EventCount
  BY DatapathAssumption DEF EventInv, EventTypeOK
<1> QED
  BY <1>1, DatapathAssumption

(* PushEvent is Tell. *)
LEMMA PushTells ==
    ASSUME EventInv, NEW type, NEW l, NEW b,
           PushEvent([type |-> type, client |-> l, buf |-> b])
    PROVE  S!Tell(type, l, b)
BY QueueRoom DEF PushEvent, S!Tell

(* A connection callback opens the session of a link that had none, or fails to. *)
LEMMA AnnounceRefines ==
    ASSUME NEW l \in Links, TypeInv, Announce(l),
           SessionOf(l) \in {"idle", "connecting"},
           \A m \in Links \ {l} : m \in client_list_free' <=> m \in client_list_free
    PROVE  S!Open(l) \/ S!OpenFails(l)
<1>0. LinkTypeOK /\ EventInv /\ S!NotYetOpen(l)
  BY DEF TypeInv, S!NotYetOpen, SessionMap
<1>1. \A m \in Links \ {l} : handle'[m] = handle[m]
  BY <1>0 DEF Announce, StartReading, CloseHandle, LinkTypeOK
<1>2. ASSUME StartReading(l) PROVE S!Become(l, "open")
  <2>1. SessionOf(l)' = "open"
    BY <1>0, <1>2 DEF StartReading, SessionOf, LinkTypeOK
  <2> QED
    BY <1>1, <2>1, SessionUpdate
<1>3. ASSUME CloseHandle(l) PROVE S!Become(l, "ending")
  <2>1. SessionOf(l)' = "ending"
    BY <1>0, <1>3 DEF CloseHandle, SessionOf, LinkTypeOK
  <2> QED
    BY <1>1, <2>1, SessionUpdate
<1>4. ASSUME PushEvent(OpenEvent(l)) PROVE S!Tell("OPEN", l, NoBuf)
  BY <1>0, <1>4, PushTells DEF OpenEvent
<1> QED
  BY <1>0, <1>2, <1>3, <1>4 DEF Announce, S!Open, S!OpenFails, eventVars

(* Closing a reading stream ends its session. *)
LEMMA CloseHandleRefines ==
    ASSUME NEW l \in Links, LinkTypeOK, CloseHandle(l), handle[l] = "reading",
           UNCHANGED <<client_list_free, events>>
    PROVE  S!End(l)
<1>1. SessionOf(l) = "open" /\ SessionOf(l)' = "ending"
  BY DEF CloseHandle, SessionOf, LinkTypeOK
<1>2. \A m \in Links \ {l} : handle'[m] = handle[m]
  BY DEF CloseHandle, LinkTypeOK
<1> QED
  BY <1>1, <1>2, SessionUpdate DEF S!End, SessionMap

(* The close callback reports the end of the session, or loses it. *)
LEMMA CloseRefines ==
    ASSUME NEW l \in Links, TypeInv, on_close_link_cb(l), l \notin client_list_free
    PROVE  S!Close(l) \/ S!Lose(l)
<1>0. LinkTypeOK /\ EventInv /\ handle[l] = "closing" /\ ReportClose(l)
  BY DEF TypeInv, on_close_link_cb
<1>1. handle'[l] = "none" /\ \A m \in Links \ {l} : handle'[m] = handle[m]
  BY <1>0 DEF on_close_link_cb, LinkTypeOK
<1>2. SessionMap[l] = "ending"
  BY <1>0 DEF SessionMap, SessionOf
<1>3. CASE PushEvent(CloseEvent(l)) /\ svl_link_list_close(l)
  <2>1. SessionOf(l)' = "idle"
    BY <1>1, <1>3 DEF SessionOf, svl_link_list_close
  <2>2. S!Become(l, "idle")
    BY <1>1, <1>3, <2>1, SessionUpdate DEF svl_link_list_close
  <2>3. S!Tell("CLOSE", l, NoBuf)
    BY <1>0, <1>3, PushTells DEF CloseEvent
  <2> QED
    BY <1>2, <2>2, <2>3 DEF S!Close
<1>4. CASE events_free = 0 /\ UNCHANGED <<eventVars, client_list_free>>
  <2>1. SessionOf(l)' = "lost"
    BY <1>1, <1>4 DEF SessionOf
  <2>2. S!Become(l, "lost")
    BY <1>1, <1>4, <2>1, SessionUpdate
  <2> QED
    BY <1>0, <1>2, <1>4, <2>2, QueueRoom DEF S!Lose, eventVars
<1> QED
  BY <1>0, <1>3, <1>4 DEF ReportClose

(* Every step of Datapath is a step of Sessions or a stutter. *)
LEMMA StepRefines ==
    TypeInv /\ HandleInv /\ [Next]_vars => [S!Next]_<<SessionMap, events>>
<1> SUFFICES ASSUME TypeInv, HandleInv, [Next]_vars
             PROVE  S!Next \/ UNCHANGED <<SessionMap, events>>
  OBVIOUS
<1> DEFINE Goal == S!Next \/ UNCHANGED <<SessionMap, events>>
<1>0. LinkTypeOK /\ EventInv /\ FreeIdle
  BY DEF TypeInv, HandleInv
<1>s. ASSUME NEW l \in Links, S!Step(l) PROVE Goal
  BY <1>s DEF S!Next
<1>u. ASSUME UNCHANGED <<handle, client_list_free, events>> PROVE Goal
  BY <1>u, SessionStay
<1>1. ASSUME NEW l \in Links, on_inbound_connection_cb(l) PROVE Goal
  <2>1. /\ Announce(l) /\ SessionOf(l) = "idle"
        /\ \A m \in Links \ {l} : m \in client_list_free' <=> m \in client_list_free
    BY <1>0, <1>1 DEF on_inbound_connection_cb, svl_link_list_open, SessionOf, FreeIdle
  <2> QED
    BY <1>s, <2>1, AnnounceRefines DEF S!Step
<1>2. ASSUME NEW l \in Links, on_outbound_connection_cb(l) PROVE Goal
  <2>1. Announce(l) /\ SessionOf(l) = "connecting" /\ UNCHANGED client_list_free
    BY <1>2 DEF on_outbound_connection_cb, SessionOf
  <2> QED
    BY <1>s, <2>1, AnnounceRefines DEF S!Step
<1>3. ASSUME NEW l \in Links, RecvData(l) PROVE Goal
  <2>1. UNCHANGED <<handle, client_list_free>> /\ SessionMap[l] = "open"
    BY <1>3 DEF RecvData, linkVars, SessionMap, SessionOf
  <2>2. ASSUME NEW b \in Buffers, RecvDeliver(l, b) PROVE S!Read(l)
    <3>1. S!Tell("READ", l, b)
      BY <1>0, <2>2, PushTells DEF RecvDeliver, ReadEvent
    <3> QED
      BY <2>1, <3>1, SessionStay DEF S!Read
  <2>3. CASE UNCHANGED eventVars
    BY <1>u, <2>1, <2>3 DEF eventVars
  <2> QED
    BY <1>3, <1>s, <2>2, <2>3 DEF RecvData, RecvKeep, S!Step
<1>4. ASSUME NEW l \in Links, RecvAgain(l) PROVE Goal
  BY <1>4, <1>u DEF RecvAgain, linkVars, eventVars
<1>5. ASSUME NEW l \in Links, RecvError(l) PROVE Goal
  BY <1>0, <1>5, <1>s, CloseHandleRefines DEF RecvError, eventVars, S!Step
<1>6. ASSUME NEW r \in WriteReqs, on_send_cb(r) PROVE Goal
  BY <1>6, <1>u DEF on_send_cb, linkVars, eventVars
<1>7. CASE PollDone \/ CheckDone \/ ClosingDone \/ LoopExit \/ on_timer_cb \/ NoTimerDue
           \/ svl_service_stop \/ svl_service_start \/ on_sigint_cb
  BY <1>7, <1>u DEF PollDone, CheckDone, ClosingDone, LoopExit, on_timer_cb, NoTimerDue,
     svl_service_stop, svl_service_start, on_sigint_cb, linkVars, eventVars
<1>8. CASE on_check_cb
  <2>0. UNCHANGED events
    BY <1>8 DEF on_check_cb, eventVars
  <2>1. ASSUME NEW l \in Links, OpenConnecting(l) PROVE Goal
    <3>1. /\ SessionOf(l) = "idle" /\ SessionOf(l)' = "connecting"
          /\ \A m \in Links \ {l} : /\ handle'[m] = handle[m]
                                    /\ m \in client_list_free' <=> m \in client_list_free
      BY <1>0, <2>1 DEF OpenConnecting, svl_link_list_open, SessionOf, FreeIdle, LinkTypeOK
    <3>2. S!Dial(l)
      BY <2>0, <3>1, SessionUpdate DEF S!Dial, SessionMap
    <3> QED
      BY <1>s, <3>2 DEF S!Step
  <2>2. ASSUME UNCHANGED <<handle, client_list_free>> PROVE Goal
    BY <1>u, <2>0, <2>2
  <2>3. CASE handle_cmd_open
    BY <2>1, <2>2, <2>3 DEF handle_cmd_open, OpenRefused, linkVars
  <2>4. ASSUME NEW c, handle_cmd_close(c) PROVE Goal
    <3>1. CASE LinkUsable(c)
      <4>1. c \in Links /\ handle[c] = "reading"
        BY <3>1 DEF LinkUsable, svl_link_list_get, HandleInv, HandleLive
      <4> QED
        BY <1>0, <1>s, <2>0, <2>4, <3>1, <4>1, CloseHandleRefines
        DEF handle_cmd_close, S!Step
    <3>2. CASE ~LinkUsable(c)
      BY <2>2, <2>4, <3>2 DEF handle_cmd_close
    <3> QED
      BY <3>1, <3>2
  <2>5. ASSUME NEW c, handle_cmd_send(c) PROVE Goal
    BY <2>2, <2>5 DEF handle_cmd_send, linkVars
  <2> QED
    BY <1>8, <2>3, <2>4, <2>5 DEF on_check_cb
<1>9. ASSUME NEW l \in Links, on_close_link_cb(l) PROVE Goal
  <2>1. l \notin client_list_free
    BY <1>0, <1>9 DEF on_close_link_cb, FreeIdle
  <2> QED
    BY <1>9, <1>s, <2>1, CloseRefines DEF S!Step
<1>10. ASSUME NEW type, NEW c, QueueCmd(type, c) PROVE Goal
  BY <1>10, <1>u DEF QueueCmd, linkVars, eventVars
<1>11. CASE svl_service_cmd_open
  BY <1>10, <1>11 DEF svl_service_cmd_open
<1>12. ASSUME NEW c, svl_service_cmd_close(c) \/ svl_service_cmd_send(c) PROVE Goal
  BY <1>10, <1>12 DEF svl_service_cmd_close, svl_service_cmd_send
<1>13. CASE svl_service_events_acquire
  BY <1>13, <1>u DEF svl_service_events_acquire, linkVars
<1>14. CASE svl_service_events_release
  <2>1. events # << >> /\ events' = Tail(events) /\ UNCHANGED <<handle, client_list_free>>
    BY <1>0, <1>14, ReleaseTail DEF svl_service_events_release, linkVars
  <2> QED
    BY <2>1, SessionStay DEF S!Consume, S!Next
<1>15. CASE UNCHANGED vars
  BY <1>15, <1>u DEF vars, linkVars, eventVars
<1> QED
  BY <1>1, <1>2, <1>3, <1>4, <1>5, <1>6, <1>7, <1>8, <1>9, <1>11, <1>12, <1>13, <1>14, <1>15
  DEF Next, IoThread, Poll, Closing, Main, Finished

(* A service just set up has only idle sessions. *)
LEMMA InitRefines == Init => S!Init
BY DEF Init, svl_link_list_setup, S!Init, SessionMap, SessionOf

(***************************************************************************)
(* Datapath implements Sessions: callbacks, commands, stops, restarts and  *)
(* event batches together give the application exactly the streams of      *)
(* OPEN, READ and CLOSE that Sessions allows.                              *)
(***************************************************************************)
THEOREM DatapathImplementsSessions == Spec => ImplementsSessions
<1> QED
  BY InitTyping, StepTyping, InitHandle, StepHandle, InitRefines, StepRefines, PTL
  DEF Spec, ImplementsSessions, S!Spec
=============================================================================
