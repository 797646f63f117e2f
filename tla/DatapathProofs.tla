--------------------------- MODULE DatapathProofs ---------------------------
(***************************************************************************)
(* Proofs about Datapath, for any sets of links, buffers and write         *)
(* requests and any numbers of events and commands.                        *)
(***************************************************************************)
EXTENDS Datapath, TLAPS

(* READ events, and only they, carry a buffer. *)
EventShape ==
    \A i \in 1..Len(events) :
        events[i].buf # NoBuf <=> events[i].type = "READ"

EventInv == EventTypeOK /\ EventShape /\ events_free + Len(events) = EventCount
CmdInv   == CmdTypeOK /\ cmds_free + Len(cmds_ready) = CmdCount

(* The typing part of the inductive invariant: the counters need the conservation law. *)
TypeInv == LoopTypeOK /\ LinkTypeOK /\ BufTypeOK /\ EventInv /\ CmdInv /\ SendTypeOK

-----------------------------------------------------------------------------
(* The events that are pushed are well formed. *)
LEMMA EventTyping ==
    ASSUME NEW l \in Links
    PROVE  /\ OpenEvent(l) \in Event /\ OpenEvent(l).buf = NoBuf /\ OpenEvent(l).type = "OPEN"
           /\ CloseEvent(l) \in Event /\ CloseEvent(l).buf = NoBuf /\ CloseEvent(l).type = "CLOSE"
           /\ \A b \in Buffers : /\ ReadEvent(l, b) \in Event
                                 /\ ReadEvent(l, b).buf = b
                                 /\ ReadEvent(l, b).type = "READ"
                                 /\ b # NoBuf
BY DatapathAssumption DEF Event, EventType, OpenEvent, CloseEvent, ReadEvent

(* PushEvent appends one event. *)
LEMMA PushAppends ==
    ASSUME NEW e \in Event, EventInv, PushEvent(e)
    PROVE  /\ events' \in Seq(Event)
           /\ Len(events) \in Nat
           /\ Len(events') = Len(events) + 1
           /\ \A i \in 1..Len(events) : events'[i] = events[i]
           /\ events'[Len(events')] = e
BY DEF PushEvent, EventInv, EventTypeOK

(* Pushing a well-formed event keeps the event list well formed. *)
LEMMA PushTyping ==
    ASSUME NEW e \in Event, EventInv, PushEvent(e),
           e.buf # NoBuf <=> e.type = "READ"
    PROVE  EventInv'
<1>1. /\ events' \in Seq(Event) /\ Len(events) \in Nat /\ Len(events') = Len(events) + 1
      /\ \A i \in 1..Len(events) : events'[i] = events[i]
      /\ events'[Len(events')] = e
  BY PushAppends
<1>2. EventShape'
  <2>1. \A i \in 1..Len(events') : i \in 1..Len(events) \/ i = Len(events')
    BY <1>1
  <2> QED
    BY <1>1, <2>1 DEF EventShape, EventInv
<1>3. /\ events_free \in Nat /\ events_free > 0 /\ events_free' = events_free - 1
      /\ events_free + Len(events) = EventCount
  BY DatapathAssumption DEF EventInv, EventTypeOK, PushEvent
<1>4. events_free' \in 0..EventCount /\ events_free' + Len(events') = EventCount
  BY <1>1, <1>3, DatapathAssumption
<1>5. event_updates_count' \in 0..Len(events') /\ app_open' \subseteq Links
  BY <1>1 DEF EventInv, EventTypeOK, PushEvent
<1> QED
  BY <1>1, <1>2, <1>4, <1>5 DEF EventInv, EventTypeOK

(* svl_service_events_release removes the oldest event. *)
LEMMA ReleaseTail ==
    ASSUME EventInv, svl_service_events_release
    PROVE  /\ events # << >> /\ Len(events) \in Nat \ {0}
           /\ Head(events) = events[1] /\ Head(events) \in Event
           /\ events' \in Seq(Event)
           /\ Len(events') = Len(events) - 1
           /\ \A i \in 1..Len(events') : i + 1 \in 1..Len(events) /\ events'[i] = events[i + 1]
<1>1. events \in Seq(Event) /\ Len(events) > 0 /\ events' = Tail(events)
  BY DEF EventInv, EventTypeOK, svl_service_events_release
<1> QED
  BY <1>1

LEMMA InitTyping == Init => TypeInv
<1> SUFFICES ASSUME Init PROVE TypeInv
  OBVIOUS
<1>1. LoopTypeOK /\ LinkTypeOK /\ SendTypeOK
  BY DEF Init, svl_link_list_setup, LoopTypeOK, LinkTypeOK, SendTypeOK
<1>2. BufTypeOK
  BY DatapathAssumption DEF Init, svl_link_list_setup, BufTypeOK
<1>3. EventInv
  BY DatapathAssumption DEF Init, svl_link_list_setup, EventInv, EventTypeOK, EventShape
<1>4. CmdInv
  BY DatapathAssumption DEF Init, svl_link_list_setup, CmdInv, CmdTypeOK
<1> QED
  BY <1>1, <1>2, <1>3, <1>4 DEF TypeInv

-----------------------------------------------------------------------------
(* What a step leaves alone keeps its type. *)
LEMMA Frame ==
    ASSUME TypeInv
    PROVE  /\ UNCHANGED loopVars => LoopTypeOK'
           /\ UNCHANGED linkVars => LinkTypeOK'
           /\ UNCHANGED bufVars => BufTypeOK'
           /\ UNCHANGED eventVars => EventInv'
           /\ UNCHANGED cmdVars => CmdInv'
           /\ UNCHANGED sendVars => SendTypeOK'
<1>1. UNCHANGED loopVars => LoopTypeOK'
  BY DEF TypeInv, LoopTypeOK, loopVars
<1>2. UNCHANGED linkVars => LinkTypeOK'
  BY DEF TypeInv, LinkTypeOK, linkVars
<1>3. UNCHANGED bufVars => BufTypeOK'
  BY DEF TypeInv, BufTypeOK, bufVars
<1>4. UNCHANGED eventVars => EventInv'
  BY DEF TypeInv, EventInv, EventTypeOK, EventShape, eventVars
<1>5. UNCHANGED cmdVars => CmdInv'
  BY DEF TypeInv, CmdInv, CmdTypeOK, cmdVars
<1>6. UNCHANGED sendVars => SendTypeOK'
  BY DEF TypeInv, SendTypeOK, sendVars
<1> QED
  BY <1>1, <1>2, <1>3, <1>4, <1>5, <1>6

(* Announce keeps the link states and the event list well formed. *)
LEMMA AnnounceTyping ==
    ASSUME NEW l \in Links, TypeInv, Announce(l), client_list_free' \subseteq Links
    PROVE  LinkTypeOK' /\ EventInv'
<1>1. LinkTypeOK'
  BY DEF Announce, StartReading, CloseHandle, TypeInv, LinkTypeOK
<1>2. EventInv'
  <2>1. CASE PushEvent(OpenEvent(l))
    BY <2>1, EventTyping, PushTyping DEF TypeInv
  <2>2. CASE UNCHANGED eventVars
    BY <2>2, Frame
  <2> QED
    BY <2>1, <2>2 DEF Announce
<1> QED
  BY <1>1, <1>2

(* Reads keep the buffers well formed: in particular no more bytes than fit. *)
LEMMA RecvTyping ==
    ASSUME NEW l \in Links, NEW b \in Buffers, TypeInv, on_recv_alloc_cb(l, b)
    PROVE  /\ read_buffer' = [read_buffer EXCEPT ![l] = b] /\ UNCHANGED read_len => BufTypeOK'
           /\ RecvDeliver(l, b) => BufTypeOK' /\ EventInv'
           /\ \A n \in 1..Remaining(l) : RecvKeep(l, b, n) => BufTypeOK'
<1>1. pool_read' \subseteq Buffers
  BY DEF on_recv_alloc_cb, TypeInv, BufTypeOK
<1>2. read_buffer' = [read_buffer EXCEPT ![l] = b] /\ UNCHANGED read_len => BufTypeOK'
  BY <1>1 DEF TypeInv, BufTypeOK
<1>3. ASSUME RecvDeliver(l, b) PROVE BufTypeOK' /\ EventInv'
  <2>1. BufTypeOK'
    BY <1>1, <1>3, DatapathAssumption DEF RecvDeliver, ClearBuffer, TypeInv, BufTypeOK
  <2>2. EventInv'
    BY <1>3, EventTyping, PushTyping DEF RecvDeliver, TypeInv
  <2> QED
    BY <2>1, <2>2
<1>4. ASSUME NEW n \in 1..Remaining(l), RecvKeep(l, b, n) PROVE BufTypeOK'
  <2>1. read_len[l] \in 0..BufCap /\ read_len[l] + n \in 0..BufCap
    BY DatapathAssumption DEF Remaining, TypeInv, BufTypeOK
  <2> QED
    BY <1>1, <1>4, <2>1 DEF RecvKeep, TypeInv, BufTypeOK
<1> QED
  BY <1>2, <1>3, <1>4

(* Commands go back to the free list; what they do keeps links and requests well formed. *)
LEMMA CheckTyping ==
    ASSUME TypeInv, on_check_cb
    PROVE  LinkTypeOK' /\ BufTypeOK' /\ CmdInv' /\ SendTypeOK'
<1>1. CmdInv' /\ Head(cmds_ready) \in Command
  <2>1. /\ cmds_ready \in Seq(Command) /\ cmds_ready # << >>
        /\ cmds_ready' = Tail(cmds_ready) /\ cmds_free' = cmds_free + 1
        /\ cmds_free \in Nat /\ cmds_free + Len(cmds_ready) = CmdCount
    BY DatapathAssumption DEF on_check_cb, TypeInv, CmdInv, CmdTypeOK
  <2>2. /\ cmds_ready' \in Seq(Command) /\ Len(cmds_ready) \in Nat \ {0}
        /\ Len(cmds_ready') = Len(cmds_ready) - 1 /\ Head(cmds_ready) \in Command
    BY <2>1
  <2>3. cmds_free' \in 0..CmdCount /\ cmds_free' + Len(cmds_ready') = CmdCount
    BY <2>1, <2>2, DatapathAssumption
  <2> QED
    BY <2>2, <2>3 DEF CmdInv, CmdTypeOK
<1> DEFINE c == Head(cmds_ready).client
<1>2. c \in Links \cup {NoLink}
  BY <1>1 DEF Command
<1>3. CASE handle_cmd_open
  <2>1. SendTypeOK'
    BY <1>3, Frame DEF handle_cmd_open
  <2>2. ASSUME NEW l \in Links, OpenConnecting(l) \/ OpenRefused(l), UNCHANGED pool_read
        PROVE  LinkTypeOK' /\ BufTypeOK'
    <3>1. LinkTypeOK'
      BY <2>2 DEF OpenConnecting, OpenRefused, svl_link_list_open, TypeInv, LinkTypeOK
    <3>2. BufTypeOK'
      BY <2>2, DatapathAssumption DEF OpenConnecting, OpenRefused, ClearBuffer, TypeInv, BufTypeOK
    <3> QED
      BY <3>1, <3>2
  <2>3. ASSUME UNCHANGED <<linkVars, read_buffer, read_len>>, UNCHANGED pool_read
        PROVE  LinkTypeOK' /\ BufTypeOK'
    BY <2>3, Frame DEF bufVars
  <2> QED
    BY <1>1, <1>3, <2>1, <2>2, <2>3 DEF handle_cmd_open
<1>4. CASE handle_cmd_close(c)
  <2>1. BufTypeOK' /\ SendTypeOK'
    BY <1>4, Frame DEF handle_cmd_close
  <2>2. LinkTypeOK'
    BY <1>4 DEF handle_cmd_close, LinkUsable, svl_link_list_get, CloseHandle, TypeInv, LinkTypeOK
  <2> QED
    BY <1>1, <2>1, <2>2
<1>5. CASE handle_cmd_send(c)
  <2>1. LinkTypeOK' /\ BufTypeOK'
    BY <1>5, Frame DEF handle_cmd_send
  <2>2. SendTypeOK'
    BY <1>2, <1>5 DEF handle_cmd_send, SendOn, TypeInv, SendTypeOK, sendVars
  <2> QED
    BY <1>1, <2>1, <2>2
<1> QED
  BY <1>3, <1>4, <1>5 DEF on_check_cb

(* The close callback keeps links, buffers, events and requests well formed. *)
LEMMA CloseTyping ==
    ASSUME NEW l \in Links, TypeInv, on_close_link_cb(l)
    PROVE  LinkTypeOK' /\ BufTypeOK' /\ EventInv' /\ SendTypeOK'
<1>1. LinkTypeOK'
  BY DEF on_close_link_cb, ReportClose, svl_link_list_close, TypeInv, LinkTypeOK
<1>2. BufTypeOK'
  BY DatapathAssumption DEF on_close_link_cb, ReturnBuffer, ClearBuffer, TypeInv, BufTypeOK
<1>3. SendTypeOK'
  BY DEF on_close_link_cb, InFlight, TypeInv, SendTypeOK
<1>4. EventInv'
  <2>1. CASE PushEvent(CloseEvent(l))
    BY <2>1, EventTyping, PushTyping DEF TypeInv
  <2>2. CASE UNCHANGED eventVars
    BY <2>2, Frame
  <2> QED
    BY <2>1, <2>2 DEF on_close_link_cb, ReportClose, svl_link_list_close
<1> QED
  BY <1>1, <1>2, <1>3, <1>4

(* Releasing an event returns a real buffer, and one event. *)
LEMMA ReleaseTyping ==
    ASSUME TypeInv, svl_service_events_release
    PROVE  BufTypeOK' /\ EventInv'
<1>1. EventInv
  BY DEF TypeInv
<1>2. /\ Len(events) \in Nat \ {0} /\ Head(events) = events[1] /\ Head(events) \in Event
      /\ events' \in Seq(Event) /\ Len(events') = Len(events) - 1
      /\ \A i \in 1..Len(events') : i + 1 \in 1..Len(events) /\ events'[i] = events[i + 1]
  BY <1>1, ReleaseTail
<1>3. BufTypeOK'
  <2>1. Head(events).type = "READ" => Head(events).buf \in Buffers
    BY <1>1, <1>2 DEF EventInv, EventShape, Event
  <2> QED
    BY <2>1 DEF svl_service_events_release, EventBuffer, TypeInv, BufTypeOK
<1>4. EventShape'
  BY <1>1, <1>2 DEF EventInv, EventShape
<1>5. /\ events_free \in Nat /\ events_free' = events_free + 1
      /\ events_free + Len(events) = EventCount
      /\ event_updates_count \in 1..Len(events)
      /\ event_updates_count' = event_updates_count - 1
  BY <1>1, <1>2, DatapathAssumption DEF svl_service_events_release, EventInv, EventTypeOK
<1>6. /\ events_free' \in 0..EventCount /\ events_free' + Len(events') = EventCount
      /\ event_updates_count' \in 0..Len(events')
  <2>1. Len(events') \in Nat /\ Len(events) = Len(events') + 1
    BY <1>2
  <2>2. events_free' \in 0..EventCount /\ events_free' + Len(events') = EventCount
    BY <1>5, <2>1, DatapathAssumption
  <2>3. event_updates_count' \in 0..Len(events')
    BY <1>5, <2>1
  <2> QED
    BY <2>2, <2>3
<1>7. app_open' \subseteq Links
  <2>1. Head(events).client \in Links /\ Head(events).type \in EventType
    BY <1>2 DEF Event
  <2> QED
    BY <1>1, <2>1 DEF svl_service_events_release, Consumed, EventInv, EventTypeOK, EventType
<1> QED
  BY <1>2, <1>3, <1>4, <1>6, <1>7 DEF EventInv, EventTypeOK

(* Every step preserves the typing part of the invariant. *)
LEMMA StepTyping == TypeInv /\ [Next]_vars => TypeInv'
<1> SUFFICES ASSUME TypeInv, [Next]_vars PROVE TypeInv'
  OBVIOUS
<1>1. CASE UNCHANGED vars
  BY <1>1, Frame DEF vars, TypeInv
<1>2. ASSUME NEW l \in Links, on_inbound_connection_cb(l) PROVE TypeInv'
  <2>1. client_list_free' \subseteq Links
    BY <1>2 DEF on_inbound_connection_cb, svl_link_list_open, TypeInv, LinkTypeOK
  <2>2. LinkTypeOK' /\ EventInv'
    BY <1>2, <2>1, AnnounceTyping DEF on_inbound_connection_cb
  <2>3. BufTypeOK'
    BY <1>2, DatapathAssumption DEF on_inbound_connection_cb, ClearBuffer, TypeInv, BufTypeOK
  <2> QED
    BY <1>2, <2>2, <2>3, Frame DEF on_inbound_connection_cb, TypeInv
<1>3. ASSUME NEW l \in Links, on_outbound_connection_cb(l) PROVE TypeInv'
  <2>1. client_list_free' \subseteq Links
    BY <1>3 DEF on_outbound_connection_cb, TypeInv, LinkTypeOK
  <2>2. LinkTypeOK' /\ EventInv'
    BY <1>3, <2>1, AnnounceTyping DEF on_outbound_connection_cb
  <2> QED
    BY <1>3, <2>2, Frame DEF on_outbound_connection_cb, TypeInv
<1>4. ASSUME NEW l \in Links, RecvData(l) PROVE TypeInv'
  <2>1. PICK b \in Buffers :
          /\ on_recv_alloc_cb(l, b)
          /\ RecvDeliver(l, b) \/ \E n \in 1..Remaining(l) : RecvKeep(l, b, n)
    BY <1>4 DEF RecvData
  <2>2. BufTypeOK' /\ EventInv'
    <3>1. CASE RecvDeliver(l, b)
      BY <2>1, <3>1, RecvTyping
    <3>2. CASE \E n \in 1..Remaining(l) : RecvKeep(l, b, n)
      BY <2>1, <3>2, RecvTyping, Frame DEF RecvKeep
    <3> QED
      BY <2>1, <3>1, <3>2
  <2> QED
    BY <1>4, <2>2, Frame DEF RecvData, TypeInv
<1>5. ASSUME NEW l \in Links, RecvAgain(l) PROVE TypeInv'
  <2>1. BufTypeOK'
    BY <1>5, RecvTyping DEF RecvAgain
  <2> QED
    BY <1>5, <2>1, Frame DEF RecvAgain, TypeInv
<1>6. ASSUME NEW l \in Links, RecvError(l) PROVE TypeInv'
  <2>1. CASE RecvEnd(l)
    BY <1>6, <2>1, RecvTyping, Frame DEF RecvEnd, RecvError, CloseHandle, TypeInv, LinkTypeOK
  <2>2. CASE RecvNoBufs(l)
    BY <1>6, <2>2, Frame DEF RecvNoBufs, RecvError, CloseHandle, TypeInv, LinkTypeOK, bufVars
  <2> QED
    BY <1>6, <2>1, <2>2 DEF RecvError
<1>7. ASSUME NEW r \in WriteReqs, on_send_cb(r) PROVE TypeInv'
  BY <1>7, Frame DEF on_send_cb, TypeInv, SendTypeOK
<1>8. CASE PollDone \/ CheckDone \/ ClosingDone \/ LoopExit \/ on_timer_cb \/ NoTimerDue
           \/ svl_service_stop \/ on_sigint_cb
  BY <1>8, Frame DEF PollDone, on_sigint_cb, CheckDone, ClosingDone, LoopExit, on_timer_cb, KeepOpen,
     NoTimerDue, svl_service_stop, TypeInv, LoopTypeOK
<1>9. CASE on_check_cb
  BY <1>9, CheckTyping, Frame DEF on_check_cb, TypeInv
<1>10. ASSUME NEW l \in Links, on_close_link_cb(l) PROVE TypeInv'
  BY <1>10, CloseTyping, Frame DEF on_close_link_cb, TypeInv
<1>11. ASSUME NEW c \in Links \cup {NoLink}, NEW type \in {"OPEN", "CLOSE", "SEND"},
              QueueCmd(type, c)
       PROVE  TypeInv'
  <2>1. [type |-> type, client |-> c] \in Command
    BY DEF Command
  <2>2. /\ cmds_ready \in Seq(Command) /\ cmds_free \in Nat
        /\ cmds_free + Len(cmds_ready) = CmdCount
    BY DatapathAssumption DEF TypeInv, CmdInv, CmdTypeOK
  <2>3. cmds_ready' \in Seq(Command) /\ Len(cmds_ready') = Len(cmds_ready) + 1
    BY <1>11, <2>1, <2>2 DEF QueueCmd
  <2>4. cmds_free' \in 0..CmdCount /\ cmds_free' + Len(cmds_ready') = CmdCount
    BY <1>11, <2>2, <2>3, DatapathAssumption DEF QueueCmd
  <2> QED
    BY <1>11, <2>3, <2>4, Frame DEF QueueCmd, TypeInv, CmdInv, CmdTypeOK
<1>12. CASE svl_service_cmd_open
  BY <1>11, <1>12 DEF svl_service_cmd_open
<1>13. ASSUME NEW c \in Links \cup {NoLink}, svl_service_cmd_close(c) \/ svl_service_cmd_send(c)
       PROVE  TypeInv'
  BY <1>11, <1>13 DEF svl_service_cmd_close, svl_service_cmd_send
<1>14. CASE svl_service_events_acquire
  <2>1. EventInv'
    BY <1>14 DEF svl_service_events_acquire, TypeInv, EventInv, EventTypeOK, EventShape
  <2> QED
    BY <1>14, <2>1, Frame DEF svl_service_events_acquire, TypeInv
<1>15. CASE svl_service_events_release
  BY <1>15, ReleaseTyping, Frame DEF svl_service_events_release, TypeInv
<1>16. CASE svl_service_start
  BY <1>16, Frame DEF svl_service_start, TypeInv, LoopTypeOK, SendTypeOK
<1> QED
  BY <1>1, <1>2, <1>3, <1>4, <1>5, <1>6, <1>7, <1>8, <1>9, <1>10, <1>12, <1>13, <1>14,
     <1>15, <1>16
  DEF Next, IoThread, Poll, Closing, Main, Finished

(***************************************************************************)
(* Type correctness: every variable keeps its type in every behaviour; in  *)
(* particular a read never stores more bytes than the buffer holds and no  *)
(* free-list count leaves its range (on_recv_cb, PushEvent, QueueCmd).     *)
(***************************************************************************)
THEOREM TypeCorrect == Spec => []TypeOK
<1>1. TypeInv => TypeOK
  BY DEF TypeInv, TypeOK, EventInv, CmdInv
<1> QED
  BY <1>1, InitTyping, StepTyping, PTL DEF Spec

(***************************************************************************)
(* No event and no command is ever lost or invented between the free list, *)
(* the queue and the thread that holds it.                                 *)
(***************************************************************************)
THEOREM ListsAreConserved == Spec => []ListsConserved
<1>1. TypeInv => ListsConserved
  BY DEF TypeInv, ListsConserved, EventInv, CmdInv
<1> QED
  BY <1>1, InitTyping, StepTyping, PTL DEF Spec

-----------------------------------------------------------------------------
(* A link on the free list has no stream, and no stream outlives the loop. *)
FreeIdle == \A l \in client_list_free : handle[l] = "none"
OffQuiet == phase = "off" => \A l \in Links : handle[l] = "none"

(* Links, their states and their streams agree. *)
HandleInv == HandleLive /\ FreeIdle /\ OffQuiet

(* Every step preserves the agreement of links and streams. *)
LEMMA StepHandle == TypeInv /\ HandleInv /\ [Next]_vars => HandleInv'
<1> SUFFICES ASSUME TypeInv, HandleInv, [Next]_vars PROVE HandleInv'
  OBVIOUS
<1> USE DEF HandleInv, HandleLive, FreeIdle, OffQuiet
<1>0. LinkTypeOK
  BY DEF TypeInv
<1>1. CASE UNCHANGED <<linkVars, phase>>
  BY <1>1 DEF linkVars
<1>2. ASSUME NEW l \in Links, on_inbound_connection_cb(l) PROVE HandleInv'
  BY <1>0, <1>2 DEF on_inbound_connection_cb, svl_link_list_open, Announce, StartReading,
     CloseHandle, loopVars, LinkTypeOK
<1>3. ASSUME NEW l \in Links, on_outbound_connection_cb(l) PROVE HandleInv'
  BY <1>0, <1>3 DEF on_outbound_connection_cb, Announce, StartReading, CloseHandle,
     loopVars, LinkTypeOK
<1>4. ASSUME NEW l \in Links, RecvData(l) \/ RecvAgain(l) PROVE HandleInv'
  BY <1>1, <1>4 DEF RecvData, RecvAgain, loopVars
<1>5. ASSUME NEW l \in Links, RecvError(l) PROVE HandleInv'
  BY <1>0, <1>5 DEF RecvError, CloseHandle, loopVars, LinkTypeOK
<1>6. ASSUME NEW r \in WriteReqs, on_send_cb(r) PROVE HandleInv'
  BY <1>1, <1>6 DEF on_send_cb, loopVars
<1>7. CASE PollDone \/ CheckDone \/ ClosingDone \/ on_timer_cb \/ NoTimerDue
  BY <1>7 DEF PollDone, CheckDone, ClosingDone, on_timer_cb, NoTimerDue, linkVars
<1>8. CASE LoopExit
  BY <1>8 DEF LoopExit, LoopAlive, linkVars
<1>9. CASE on_check_cb
  <2>1. CASE handle_cmd_open
    BY <1>0, <1>9, <2>1 DEF on_check_cb, handle_cmd_open, OpenConnecting, OpenRefused,
       svl_link_list_open, linkVars, loopVars, LinkTypeOK
  <2>2. ASSUME NEW c, handle_cmd_close(c) PROVE HandleInv'
    BY <1>0, <1>9, <2>2 DEF on_check_cb, handle_cmd_close, LinkUsable, svl_link_list_get, CloseHandle,
       linkVars, loopVars, LinkTypeOK
  <2>3. ASSUME NEW c, handle_cmd_send(c) PROVE HandleInv'
    BY <1>1, <1>9, <2>3 DEF on_check_cb, handle_cmd_send, loopVars
  <2> QED
    BY <1>9, <2>1, <2>2, <2>3 DEF on_check_cb
<1>10. ASSUME NEW l \in Links, on_close_link_cb(l) PROVE HandleInv'
  BY <1>0, <1>10 DEF on_close_link_cb, ReportClose, svl_link_list_close, loopVars, LinkTypeOK
<1>11. ASSUME NEW type, NEW c, QueueCmd(type, c) PROVE HandleInv'
  BY <1>1, <1>11 DEF QueueCmd, loopVars
<1>12. CASE svl_service_cmd_open
  BY <1>11, <1>12 DEF svl_service_cmd_open
<1>13. ASSUME NEW c, svl_service_cmd_close(c) \/ svl_service_cmd_send(c) PROVE HandleInv'
  BY <1>11, <1>13 DEF svl_service_cmd_close, svl_service_cmd_send
<1>14. CASE svl_service_events_acquire \/ svl_service_events_release \/ svl_service_stop
            \/ on_sigint_cb
  BY <1>1, <1>14 DEF on_sigint_cb, svl_service_events_acquire, svl_service_events_release,
     svl_service_stop, loopVars
<1>15. CASE svl_service_start
  BY <1>15 DEF svl_service_start, linkVars
<1>16. CASE UNCHANGED vars
  BY <1>1, <1>16 DEF vars, loopVars
<1> QED
  BY <1>2, <1>3, <1>4, <1>5, <1>6, <1>7, <1>8, <1>9, <1>10, <1>12, <1>13, <1>14, <1>15, <1>16
  DEF Next, IoThread, Poll, Closing, Main, Finished

LEMMA InitHandle == Init => HandleInv
BY DEF Init, svl_link_list_setup, HandleInv, HandleLive, FreeIdle, OffQuiet

(***************************************************************************)
(* handle_cmd_close and handle_cmd_send never follow link->priv to a       *)
(* stream that is gone: OPEN links, and only they, have a reading stream.  *)
(***************************************************************************)
THEOREM HandlesAreLive == Spec => []HandleLive
<1>1. HandleInv => HandleLive
  BY DEF HandleInv
<1> QED
  BY <1>1, InitTyping, StepTyping, InitHandle, StepHandle, PTL DEF Spec

-----------------------------------------------------------------------------
(* Every step keeps every write request in flight on a live stream. *)
LEMMA StepWrites == TypeInv /\ HandleInv /\ WritesLive /\ [Next]_vars => WritesLive'
<1> SUFFICES ASSUME TypeInv, HandleInv, WritesLive, [Next]_vars PROVE WritesLive'
  OBVIOUS
<1> USE DEF WritesLive
<1>0. LinkTypeOK /\ SendTypeOK
  BY DEF TypeInv
<1>1. CASE UNCHANGED <<handle, sendVars, phase>>
  BY <1>1 DEF sendVars
<1>2. ASSUME NEW l \in Links, on_inbound_connection_cb(l) PROVE WritesLive'
  BY <1>0, <1>2 DEF on_inbound_connection_cb, svl_link_list_open, Announce, StartReading,
     CloseHandle, loopVars, sendVars, LinkTypeOK, HandleInv, FreeIdle
<1>3. ASSUME NEW l \in Links, on_outbound_connection_cb(l) PROVE WritesLive'
  BY <1>0, <1>3 DEF on_outbound_connection_cb, Announce, StartReading, CloseHandle,
     loopVars, sendVars, LinkTypeOK
<1>4. ASSUME NEW l \in Links, RecvData(l) \/ RecvAgain(l) PROVE WritesLive'
  BY <1>1, <1>4 DEF RecvData, RecvAgain, loopVars, linkVars
<1>5. ASSUME NEW l \in Links, RecvError(l) PROVE WritesLive'
  BY <1>0, <1>5 DEF RecvError, CloseHandle, loopVars, sendVars, LinkTypeOK
<1>6. ASSUME NEW r \in WriteReqs, on_send_cb(r) PROVE WritesLive'
  BY <1>6 DEF on_send_cb, loopVars, linkVars
<1>7. CASE PollDone \/ CheckDone \/ ClosingDone \/ on_timer_cb \/ NoTimerDue
  BY <1>7 DEF PollDone, CheckDone, ClosingDone, on_timer_cb, NoTimerDue, linkVars, sendVars
<1>8. CASE LoopExit
  BY <1>8 DEF LoopExit, LoopAlive, linkVars, sendVars
<1>9. CASE on_check_cb
  <2>1. CASE handle_cmd_open
    BY <1>0, <1>9, <2>1 DEF on_check_cb, handle_cmd_open, OpenConnecting, OpenRefused,
       svl_link_list_open, linkVars, loopVars, sendVars, LinkTypeOK, HandleInv, FreeIdle
  <2>2. ASSUME NEW c, handle_cmd_close(c) PROVE WritesLive'
    BY <1>0, <1>9, <2>2 DEF on_check_cb, handle_cmd_close, LinkUsable, svl_link_list_get, CloseHandle,
       sendVars, loopVars, LinkTypeOK
  <2>3. ASSUME NEW c, handle_cmd_send(c) PROVE WritesLive'
    BY <1>0, <1>9, <2>3 DEF on_check_cb, handle_cmd_send, SendOn, LinkUsable, svl_link_list_get, sendVars,
       loopVars, linkVars, SendTypeOK, HandleInv, HandleLive
  <2> QED
    BY <1>9, <2>1, <2>2, <2>3 DEF on_check_cb
<1>10. ASSUME NEW l \in Links, on_close_link_cb(l) PROVE WritesLive'
  BY <1>0, <1>10 DEF on_close_link_cb, InFlight, loopVars, LinkTypeOK
<1>11. ASSUME NEW type, NEW c, QueueCmd(type, c) PROVE WritesLive'
  BY <1>1, <1>11 DEF QueueCmd, loopVars, linkVars
<1>12. CASE svl_service_cmd_open
  BY <1>11, <1>12 DEF svl_service_cmd_open
<1>13. ASSUME NEW c, svl_service_cmd_close(c) \/ svl_service_cmd_send(c) PROVE WritesLive'
  BY <1>11, <1>13 DEF svl_service_cmd_close, svl_service_cmd_send
<1>14. CASE svl_service_events_acquire \/ svl_service_events_release \/ svl_service_stop
            \/ on_sigint_cb
  BY <1>1, <1>14 DEF on_sigint_cb, svl_service_events_acquire, svl_service_events_release,
     svl_service_stop, loopVars, linkVars
<1>15. CASE svl_service_start
  BY <1>15 DEF svl_service_start
<1>16. CASE UNCHANGED vars
  BY <1>1, <1>16 DEF vars, loopVars, linkVars
<1> QED
  BY <1>2, <1>3, <1>4, <1>5, <1>6, <1>7, <1>8, <1>9, <1>10, <1>12, <1>13, <1>14, <1>15, <1>16
  DEF Next, IoThread, Poll, Closing, Main, Finished

(***************************************************************************)
(* A write request in flight is always on a stream libuv still knows, and  *)
(* none is in flight once the loop has ended and its memory is freed.      *)
(***************************************************************************)
THEOREM WritesAreLive == Spec => []WritesLive
<1>1. Init => WritesLive
  BY DEF Init, svl_link_list_setup, WritesLive
<1> QED
  BY <1>1, InitTyping, StepTyping, InitHandle, StepHandle, StepWrites, PTL DEF Spec

-----------------------------------------------------------------------------
(* Only a link with a reading or closing stream holds a buffer or bytes. *)
IdleNoBuffer ==
    \A l \in Links : handle[l] \in {"none", "connecting"} =>
        read_buffer[l] = NoBuf /\ read_len[l] = 0

(* Every read buffer has exactly one owner. *)
BufInv == BufferExclusive /\ BuffersConserved /\ IdleNoBuffer

(* A step that moves neither buffers nor READ events, and idles no link, keeps the owners. *)
LEMMA BuffersStay ==
    ASSUME BufInv, UNCHANGED <<bufVars, events>>,
           \A l \in Links : handle'[l] \in {"none", "connecting"} =>
               handle[l] \in {"none", "connecting"}
    PROVE  BufInv'
BY DEF BufInv, BufferExclusive, BuffersConserved, IdleNoBuffer, bufVars

(* Nor does pushing an event without a buffer change the owners. *)
LEMMA BuffersStayPush ==
    ASSUME TypeInv, BufInv, UNCHANGED bufVars,
           NEW e \in Event, e.buf = NoBuf, e.type # "READ", PushEvent(e),
           \A l \in Links : handle'[l] \in {"none", "connecting"} =>
               handle[l] \in {"none", "connecting"}
    PROVE  BufInv'
<1>1. /\ Len(events) \in Nat /\ Len(events') = Len(events) + 1
      /\ \A i \in 1..Len(events) : events'[i] = events[i]
      /\ events'[Len(events')] = e
  BY PushAppends DEF TypeInv
<1>2. /\ \A i \in 1..Len(events') : i \in 1..Len(events) \/ i = Len(events')
      /\ \A i \in 1..Len(events) : i \in 1..Len(events')
  BY <1>1
<1>3. BufferExclusive'
  <2>1. NoBuf \notin pool_read
    BY DatapathAssumption DEF TypeInv, BufTypeOK
  <2> QED
    BY <1>1, <1>2, <2>1 DEF BufInv, BufferExclusive, bufVars
<1>4. BuffersConserved'
  BY <1>1, <1>2 DEF BufInv, BuffersConserved, bufVars
<1>5. IdleNoBuffer'
  BY DEF BufInv, IdleNoBuffer, bufVars
<1> QED
  BY <1>3, <1>4, <1>5 DEF BufInv

(* Announcing a link that holds no buffer changes no owner. *)
LEMMA BuffersAnnounce ==
    ASSUME NEW l \in Links, TypeInv, BufInv, Announce(l), UNCHANGED bufVars
    PROVE  BufInv'
<1>1. \A m \in Links : handle'[m] \in {"none", "connecting"} =>
          handle[m] \in {"none", "connecting"}
  BY DEF Announce, StartReading, CloseHandle, TypeInv, LinkTypeOK
<1>2. CASE PushEvent(OpenEvent(l))
  BY <1>1, <1>2, BuffersStayPush, EventTyping
<1>3. CASE UNCHANGED eventVars
  BY <1>1, <1>3, BuffersStay DEF eventVars, bufVars
<1> QED
  BY <1>2, <1>3 DEF Announce

(* Attaching the buffer that on_recv_alloc_cb chose moves it from the pool to the link. *)
LEMMA BuffersAttach ==
    ASSUME NEW l \in Links, NEW b \in Buffers, TypeInv, BufInv,
           handle[l] = "reading", handle'[l] \in {"reading", "closing"},
           \A m \in Links \ {l} : handle'[m] = handle[m],
           on_recv_alloc_cb(l, b), UNCHANGED events,
           read_buffer' = [read_buffer EXCEPT ![l] = b],
           \A m \in Links \ {l} : read_len'[m] = read_len[m]
    PROVE  BufInv'
<1>1. b # NoBuf /\ NoBuf \notin pool_read
  BY DatapathAssumption DEF TypeInv, BufTypeOK
<1>2. /\ read_buffer'[l] = b
      /\ \A m \in Links : m # l => read_buffer'[m] = read_buffer[m]
  BY DEF TypeInv, BufTypeOK
<1>3. BufferExclusive'
  BY <1>1, <1>2 DEF BufInv, BufferExclusive, on_recv_alloc_cb
<1>4. BuffersConserved'
  <2> SUFFICES ASSUME NEW c \in Buffers
               PROVE  \/ c \in pool_read' \/ \E m \in Links : read_buffer'[m] = c
                      \/ \E i \in 1..Len(events') : events'[i].type = "READ" /\ events'[i].buf = c
    BY DEF BuffersConserved
  <2>1. CASE c = b
    BY <1>2, <2>1
  <2>2. CASE c # b /\ c \in pool_read
    BY <2>2 DEF on_recv_alloc_cb
  <2>3. ASSUME c # b, NEW m \in Links, read_buffer[m] = c PROVE read_buffer'[m] = c
    BY <1>2, <2>3, DatapathAssumption DEF on_recv_alloc_cb
  <2>4. CASE \E i \in 1..Len(events) : events[i].type = "READ" /\ events[i].buf = c
    BY <2>4
  <2> QED
    BY <2>1, <2>2, <2>3, <2>4 DEF BufInv, BuffersConserved
<1>5. IdleNoBuffer'
  BY <1>2 DEF BufInv, IdleNoBuffer
<1> QED
  BY <1>3, <1>4, <1>5 DEF BufInv

(* Delivering a buffer moves it into the READ event. *)
LEMMA BuffersDeliver ==
    ASSUME NEW l \in Links, NEW b \in Buffers, TypeInv, BufInv,
           handle[l] = "reading", UNCHANGED handle,
           on_recv_alloc_cb(l, b), RecvDeliver(l, b)
    PROVE  BufInv'
<1>1. b # NoBuf /\ NoBuf \notin pool_read
  BY DatapathAssumption DEF TypeInv, BufTypeOK
<1>2. /\ read_buffer'[l] = NoBuf /\ read_len'[l] = 0
      /\ \A m \in Links : m # l => read_buffer'[m] = read_buffer[m] /\ read_len'[m] = read_len[m]
  BY DEF RecvDeliver, ClearBuffer, TypeInv, BufTypeOK
<1>3. /\ Len(events) \in Nat /\ Len(events') = Len(events) + 1
      /\ \A i \in 1..Len(events) : events'[i] = events[i]
      /\ events'[Len(events')].buf = b /\ events'[Len(events')].type = "READ"
  BY PushAppends, EventTyping DEF TypeInv, RecvDeliver
<1>4. /\ \A i \in 1..Len(events') : i \in 1..Len(events) \/ i = Len(events')
      /\ \A i \in 1..Len(events) : i \in 1..Len(events')
      /\ Len(events') \in 1..Len(events')
  BY <1>3
<1>5. BufferExclusive'
  <2>1. \A m \in Links : read_buffer'[m] \notin pool_read'
    BY <1>1, <1>2 DEF BufInv, BufferExclusive, on_recv_alloc_cb
  <2>2. \A m, n \in Links : m # n /\ read_buffer'[m] # NoBuf => read_buffer'[m] # read_buffer'[n]
    BY <1>1, <1>2 DEF BufInv, BufferExclusive
  <2>3. /\ b \notin pool_read'
        /\ \A m \in Links : read_buffer'[m] # b
        /\ \A i \in 1..Len(events) : events[i].buf # b
    BY <1>1, <1>2 DEF BufInv, BufferExclusive, on_recv_alloc_cb
  <2>4. \A i \in 1..Len(events') : events'[i].buf \notin pool_read'
    BY <1>3, <1>4, <2>3 DEF BufInv, BufferExclusive, on_recv_alloc_cb
  <2>5. \A i \in 1..Len(events') : \A m \in Links :
            read_buffer'[m] # NoBuf => events'[i].buf # read_buffer'[m]
    BY <1>2, <1>3, <1>4, <2>3 DEF BufInv, BufferExclusive
  <2>6. \A i, j \in 1..Len(events') :
            i # j /\ events'[i].buf # NoBuf => events'[i].buf # events'[j].buf
    BY <1>1, <1>3, <1>4, <2>3 DEF BufInv, BufferExclusive
  <2> QED
    BY <2>1, <2>2, <2>4, <2>5, <2>6 DEF BufferExclusive
<1>6. BuffersConserved'
  BY <1>1, <1>2, <1>3, <1>4 DEF BufInv, BuffersConserved, on_recv_alloc_cb
<1>7. IdleNoBuffer'
  BY <1>2 DEF BufInv, IdleNoBuffer
<1> QED
  BY <1>5, <1>6, <1>7 DEF BufInv

(* Closing a link moves the buffer it holds, if any, to the pool. *)
LEMMA BuffersClose ==
    ASSUME NEW l \in Links, TypeInv, BufInv, on_close_link_cb(l)
    PROVE  BufInv'
<1>1. NoBuf \notin pool_read
  BY DatapathAssumption DEF TypeInv, BufTypeOK
<1>2. /\ read_buffer'[l] = NoBuf /\ read_len'[l] = 0
      /\ \A m \in Links : m # l => read_buffer'[m] = read_buffer[m] /\ read_len'[m] = read_len[m]
      /\ \A m \in Links : m # l => handle'[m] = handle[m]
      /\ pool_read' = pool_read \cup ({read_buffer[l]} \ {NoBuf})
  BY DEF on_close_link_cb, ReturnBuffer, ClearBuffer, TypeInv, BufTypeOK, LinkTypeOK
<1>3. /\ Len(events) \in Nat /\ Len(events') \in Nat
      /\ \A i \in 1..Len(events) : i \in 1..Len(events') /\ events'[i] = events[i]
      /\ \A i \in 1..Len(events') : i \in 1..Len(events) \/ events'[i].buf = NoBuf
  <2>1. CASE PushEvent(CloseEvent(l))
    <3>1. /\ Len(events) \in Nat /\ Len(events') = Len(events) + 1
          /\ \A i \in 1..Len(events) : events'[i] = events[i]
          /\ events'[Len(events')].buf = NoBuf
      BY <2>1, PushAppends, EventTyping DEF TypeInv
    <3>2. \A i \in 1..Len(events') : i \in 1..Len(events) \/ i = Len(events')
      BY <3>1
    <3> QED
      BY <3>1, <3>2
  <2>2. CASE UNCHANGED eventVars
    BY <2>2 DEF eventVars, TypeInv, EventInv, EventTypeOK
  <2> QED
    BY <2>1, <2>2 DEF on_close_link_cb, ReportClose, svl_link_list_close
<1>4. BufferExclusive'
  <2>1. \A m \in Links : read_buffer'[m] \notin pool_read'
    BY <1>1, <1>2 DEF BufInv, BufferExclusive
  <2>2. \A m, n \in Links : m # n /\ read_buffer'[m] # NoBuf => read_buffer'[m] # read_buffer'[n]
    BY <1>2 DEF BufInv, BufferExclusive
  <2>3. \A i \in 1..Len(events') : events'[i].buf \notin pool_read'
    BY <1>1, <1>2, <1>3 DEF BufInv, BufferExclusive
  <2>4. \A i \in 1..Len(events') : \A m \in Links :
            read_buffer'[m] # NoBuf => events'[i].buf # read_buffer'[m]
    BY <1>2, <1>3 DEF BufInv, BufferExclusive
  <2>5. \A i, j \in 1..Len(events') :
            i # j /\ events'[i].buf # NoBuf => events'[i].buf # events'[j].buf
    BY <1>3 DEF BufInv, BufferExclusive
  <2> QED
    BY <2>1, <2>2, <2>3, <2>4, <2>5 DEF BufferExclusive
<1>5. BuffersConserved'
  <2> SUFFICES ASSUME NEW b \in Buffers
               PROVE  \/ b \in pool_read' \/ \E m \in Links : read_buffer'[m] = b
                      \/ \E i \in 1..Len(events') : events'[i].type = "READ" /\ events'[i].buf = b
    BY DEF BuffersConserved
  <2>1. CASE b \in pool_read \/ read_buffer[l] = b
    BY <1>2, <2>1, DatapathAssumption
  <2>2. ASSUME NEW m \in Links, m # l, read_buffer[m] = b
        PROVE  read_buffer'[m] = b
    BY <1>2, <2>2
  <2>3. ASSUME NEW i \in 1..Len(events), events[i].type = "READ" /\ events[i].buf = b
        PROVE  i \in 1..Len(events') /\ events'[i].type = "READ" /\ events'[i].buf = b
    BY <1>3, <2>3
  <2> QED
    BY <2>1, <2>2, <2>3 DEF BufInv, BuffersConserved
<1>6. IdleNoBuffer'
  BY <1>2 DEF BufInv, IdleNoBuffer
<1> QED
  BY <1>4, <1>5, <1>6 DEF BufInv

(* Releasing an event moves its buffer, if any, to the pool. *)
LEMMA BuffersRelease ==
    ASSUME TypeInv, BufInv, svl_service_events_release
    PROVE  BufInv'
<1>1. /\ Len(events) \in Nat \ {0} /\ Head(events) = events[1]
      /\ Len(events') = Len(events) - 1
      /\ \A i \in 1..Len(events') : i + 1 \in 1..Len(events) /\ events'[i] = events[i + 1]
  BY ReleaseTail DEF TypeInv
<1>2. /\ 1 \in 1..Len(events) /\ Len(events') \in Nat
      /\ \A i \in 1..Len(events) : i # 1 => i - 1 \in 1..Len(events') /\ events'[i - 1] = events[i]
  BY <1>1
<1>3. /\ UNCHANGED <<read_buffer, read_len, handle>>
      /\ pool_read' = pool_read \cup EventBuffer(events[1])
      /\ EventBuffer(events[1]) = IF events[1].buf = NoBuf THEN {} ELSE {events[1].buf}
  BY <1>1, <1>2 DEF svl_service_events_release, EventBuffer, linkVars, TypeInv, EventInv, EventShape
<1>4. BufferExclusive'
  <2>1. \A m \in Links : read_buffer'[m] \notin pool_read'
    BY <1>2, <1>3 DEF BufInv, BufferExclusive
  <2>2. \A m, n \in Links : m # n /\ read_buffer'[m] # NoBuf => read_buffer'[m] # read_buffer'[n]
    BY <1>3 DEF BufInv, BufferExclusive
  <2>3. \A i \in 1..Len(events') : events'[i].buf \notin pool_read'
    <3> SUFFICES ASSUME NEW i \in 1..Len(events') PROVE events'[i].buf \notin pool_read'
      OBVIOUS
    <3>1. i + 1 \in 1..Len(events) /\ i + 1 # 1 /\ events'[i] = events[i + 1]
      BY <1>1
    <3> QED
      BY <1>2, <1>3, <3>1 DEF BufInv, BufferExclusive
  <2>4. \A i \in 1..Len(events') : \A m \in Links :
            read_buffer'[m] # NoBuf => events'[i].buf # read_buffer'[m]
    BY <1>1, <1>3 DEF BufInv, BufferExclusive
  <2>5. \A i, j \in 1..Len(events') :
            i # j /\ events'[i].buf # NoBuf => events'[i].buf # events'[j].buf
    <3> SUFFICES ASSUME NEW i \in 1..Len(events'), NEW j \in 1..Len(events'), i # j,
                        events'[i].buf # NoBuf
                 PROVE  events'[i].buf # events'[j].buf
      OBVIOUS
    <3>1. /\ i + 1 \in 1..Len(events) /\ events'[i] = events[i + 1]
          /\ j + 1 \in 1..Len(events) /\ events'[j] = events[j + 1]
          /\ i + 1 # j + 1
      BY <1>1
    <3> QED
      BY <3>1 DEF BufInv, BufferExclusive
  <2> QED
    BY <2>1, <2>2, <2>3, <2>4, <2>5 DEF BufferExclusive
<1>5. BuffersConserved'
  <2> SUFFICES ASSUME NEW b \in Buffers
               PROVE  \/ b \in pool_read' \/ \E l \in Links : read_buffer'[l] = b
                      \/ \E i \in 1..Len(events') : events'[i].type = "READ" /\ events'[i].buf = b
    BY DEF BuffersConserved
  <2>1. CASE b \in pool_read \/ \E l \in Links : read_buffer[l] = b
    BY <1>3, <2>1
  <2>2. ASSUME NEW i \in 1..Len(events), events[i].type = "READ" /\ events[i].buf = b
        PROVE  b \in pool_read' \/ \E k \in 1..Len(events') : events'[k].type = "READ" /\ events'[k].buf = b
    <3>1. CASE i = 1
      BY <1>3, <2>2, <3>1, DatapathAssumption
    <3>2. CASE i # 1
      BY <1>2, <2>2, <3>2
    <3> QED
      BY <3>1, <3>2
  <2> QED
    BY <2>1, <2>2 DEF BufInv, BuffersConserved
<1>6. IdleNoBuffer'
  BY <1>3 DEF BufInv, IdleNoBuffer
<1> QED
  BY <1>4, <1>5, <1>6 DEF BufInv

(* Every step preserves the ownership of buffers. *)
LEMMA StepBuffers == TypeInv /\ HandleInv /\ BufInv /\ [Next]_vars => BufInv'
<1> SUFFICES ASSUME TypeInv, HandleInv, BufInv, [Next]_vars PROVE BufInv'
  OBVIOUS
<1>1. CASE UNCHANGED <<bufVars, events, handle>>
  BY <1>1, BuffersStay DEF bufVars
<1>2. ASSUME NEW l \in client_list_free, ClearBuffer(l) PROVE UNCHANGED <<read_buffer, read_len>>
  <2>1. l \in Links /\ read_buffer[l] = NoBuf /\ read_len[l] = 0
    BY DEF TypeInv, LinkTypeOK, HandleInv, FreeIdle, BufInv, IdleNoBuffer
  <2> QED
    BY <1>2, <2>1 DEF ClearBuffer, TypeInv, BufTypeOK
<1>3. ASSUME NEW l \in Links, on_inbound_connection_cb(l) PROVE BufInv'
  <2>1. UNCHANGED bufVars
    BY <1>2, <1>3 DEF on_inbound_connection_cb, svl_link_list_open, bufVars
  <2> QED
    BY <1>3, <2>1, BuffersAnnounce DEF on_inbound_connection_cb
<1>4. ASSUME NEW l \in Links, on_outbound_connection_cb(l) PROVE BufInv'
  BY <1>4, BuffersAnnounce DEF on_outbound_connection_cb
<1>5. ASSUME NEW l \in Links, RecvData(l) PROVE BufInv'
  <2>1. PICK b \in Buffers :
          /\ on_recv_alloc_cb(l, b)
          /\ RecvDeliver(l, b) \/ \E n \in 1..Remaining(l) : RecvKeep(l, b, n)
    BY <1>5 DEF RecvData
  <2>2. handle[l] = "reading" /\ UNCHANGED handle
    BY <1>5 DEF RecvData, linkVars
  <2>3. CASE RecvDeliver(l, b)
    BY <2>1, <2>2, <2>3, BuffersDeliver
  <2>4. ASSUME NEW n \in 1..Remaining(l), RecvKeep(l, b, n) PROVE BufInv'
    <3>1. /\ read_buffer' = [read_buffer EXCEPT ![l] = b] /\ UNCHANGED events
          /\ \A m \in Links \ {l} : read_len'[m] = read_len[m]
      BY <2>4 DEF RecvKeep, eventVars, TypeInv, BufTypeOK
    <3> QED
      BY <2>1, <2>2, <3>1, BuffersAttach
  <2> QED
    BY <2>1, <2>3, <2>4
<1>6. ASSUME NEW l \in Links, RecvAgain(l) PROVE BufInv'
  <2>1. PICK b \in Buffers : on_recv_alloc_cb(l, b) /\ read_buffer' = [read_buffer EXCEPT ![l] = b]
    BY <1>6 DEF RecvAgain
  <2>2. handle[l] = "reading" /\ UNCHANGED <<handle, events, read_len>>
    BY <1>6 DEF RecvAgain, linkVars, eventVars
  <2> QED
    BY <2>1, <2>2, BuffersAttach
<1>7. ASSUME NEW l \in Links, RecvError(l) PROVE BufInv'
  <2>1. /\ handle[l] = "reading" /\ UNCHANGED <<events, read_len>>
        /\ handle'[l] = "closing" /\ \A m \in Links \ {l} : handle'[m] = handle[m]
    BY <1>7 DEF RecvError, CloseHandle, eventVars, TypeInv, LinkTypeOK
  <2>2. CASE RecvEnd(l)
    BY <2>1, <2>2, BuffersAttach DEF RecvEnd
  <2>3. CASE RecvNoBufs(l)
    BY <2>1, <2>3, BuffersStay DEF RecvNoBufs, bufVars
  <2> QED
    BY <1>7, <2>2, <2>3 DEF RecvError
<1>8. ASSUME NEW r \in WriteReqs, on_send_cb(r) PROVE BufInv'
  BY <1>1, <1>8 DEF on_send_cb, linkVars, eventVars
<1>9. CASE PollDone \/ CheckDone \/ ClosingDone \/ LoopExit \/ on_timer_cb \/ NoTimerDue
           \/ svl_service_stop \/ svl_service_start \/ on_sigint_cb
  BY <1>1, <1>9 DEF PollDone, on_sigint_cb, CheckDone, ClosingDone, LoopExit, on_timer_cb, NoTimerDue,
     svl_service_stop, svl_service_start, linkVars, eventVars
<1>10. CASE on_check_cb
  <2>0. UNCHANGED events
    BY <1>10 DEF on_check_cb, eventVars
  <2>1. CASE handle_cmd_open
    <3>1. UNCHANGED pool_read
      BY <2>1 DEF handle_cmd_open
    <3>2. ASSUME NEW l \in Links, OpenConnecting(l) \/ OpenRefused(l) PROVE BufInv'
      <4>1. UNCHANGED bufVars /\ handle[l] = "none"
        BY <1>2, <3>1, <3>2
        DEF OpenConnecting, OpenRefused, svl_link_list_open, bufVars, HandleInv, FreeIdle
      <4>2. \A m \in Links : handle'[m] \in {"none", "connecting"} =>
                handle[m] \in {"none", "connecting"}
        BY <3>2, <4>1 DEF OpenConnecting, OpenRefused, TypeInv, LinkTypeOK
      <4> QED
        BY <2>0, <4>1, <4>2, BuffersStay
    <3>3. CASE UNCHANGED <<linkVars, read_buffer, read_len>>
      BY <1>1, <2>0, <3>1, <3>3 DEF linkVars, bufVars
    <3> QED
      BY <2>1, <3>2, <3>3 DEF handle_cmd_open
  <2>2. ASSUME NEW c, handle_cmd_close(c) PROVE BufInv'
    <3>1. \A m \in Links : handle'[m] \in {"none", "connecting"} =>
              handle[m] \in {"none", "connecting"}
      BY <2>2 DEF handle_cmd_close, CloseHandle, LinkUsable, svl_link_list_get, TypeInv, LinkTypeOK
    <3> QED
      BY <2>0, <2>2, <3>1, BuffersStay DEF handle_cmd_close
  <2>3. ASSUME NEW c, handle_cmd_send(c) PROVE BufInv'
    BY <1>1, <2>0, <2>3 DEF handle_cmd_send, linkVars
  <2> QED
    BY <1>10, <2>1, <2>2, <2>3 DEF on_check_cb
<1>11. ASSUME NEW l \in Links, on_close_link_cb(l) PROVE BufInv'
  BY <1>11, BuffersClose
<1>12. ASSUME NEW type, NEW c, QueueCmd(type, c) PROVE BufInv'
  BY <1>1, <1>12 DEF QueueCmd, linkVars, eventVars
<1>13. CASE svl_service_cmd_open
  BY <1>12, <1>13 DEF svl_service_cmd_open
<1>14. ASSUME NEW c, svl_service_cmd_close(c) \/ svl_service_cmd_send(c) PROVE BufInv'
  BY <1>12, <1>14 DEF svl_service_cmd_close, svl_service_cmd_send
<1>15. CASE svl_service_events_acquire
  BY <1>1, <1>15 DEF svl_service_events_acquire, linkVars
<1>16. CASE svl_service_events_release
  BY <1>16, BuffersRelease
<1>17. CASE UNCHANGED vars
  BY <1>1, <1>17 DEF vars, linkVars, eventVars
<1> QED
  BY <1>3, <1>4, <1>5, <1>6, <1>7, <1>8, <1>9, <1>10, <1>11, <1>13, <1>14, <1>15, <1>16, <1>17
  DEF Next, IoThread, Poll, Closing, Main, Finished

LEMMA InitBuffers == Init => BufInv
BY DatapathAssumption DEF Init, svl_link_list_setup, BufInv, BufferExclusive, BuffersConserved, IdleNoBuffer

(***************************************************************************)
(* A read buffer has one owner at a time: the IO thread never fills a      *)
(* buffer that main is still reading, however reads, closes and releases   *)
(* interleave.                                                             *)
(***************************************************************************)
THEOREM BuffersAreExclusive == Spec => []BufferExclusive
<1>1. BufInv => BufferExclusive
  BY DEF BufInv
<1> QED
  BY <1>1, InitTyping, StepTyping, InitHandle, StepHandle, InitBuffers, StepBuffers, PTL DEF Spec

(***************************************************************************)
(* No read buffer is ever lost: pool_read, the links and the undelivered   *)
(* READ events account for all of them.                                    *)
(***************************************************************************)
THEOREM BuffersAreConserved == Spec => []BuffersConserved
<1>1. BufInv => BuffersConserved
  BY DEF BufInv
<1> QED
  BY <1>1, InitTyping, StepTyping, InitHandle, StepHandle, InitBuffers, StepBuffers, PTL DEF Spec

(***************************************************************************)
(* A link is returned to the free list only when nothing is attached to    *)
(* it, so opening it again overwrites nothing.                             *)
(***************************************************************************)
THEOREM FreeLinksAreQuiescent == Spec => []FreeLinkQuiescent
<1>1. TypeInv /\ HandleInv /\ BufInv => FreeLinkQuiescent
  BY DEF TypeInv, LinkTypeOK, HandleInv, FreeIdle, BufInv, IdleNoBuffer, FreeLinkQuiescent
<1> QED
  BY <1>1, InitTyping, StepTyping, InitHandle, StepHandle, InitBuffers, StepBuffers, PTL DEF Spec

-----------------------------------------------------------------------------
(* Each event makes sense after those before it, and each link after all of them. *)
EventsInOrder ==
    \A i \in 1..Len(events) :
        /\ events[i].type = "READ" => Told(events, app_open, events[i].client, i - 1)
        /\ events[i].type = "OPEN" => ~Told(events, app_open, events[i].client, i - 1)
ReadingTold == \A l \in Links : handle[l] = "reading" => Told(events, app_open, l, Len(events))
UnopenedNotTold ==
    \A l \in Links : l \in client_list_free \/ handle[l] = "connecting" => ~Told(events, app_open, l, Len(events))

OrderInv == EventsInOrder /\ ReadingTold /\ UnopenedNotTold

(* Pushing an event changes the belief only at the end of the queue. *)
LEMMA ToldPush ==
    ASSUME NEW e \in Event, EventInv, PushEvent(e), NEW l \in Links
    PROVE  /\ \A n \in 0..Len(events) : Told(events', app_open', l, n) <=> Told(events, app_open, l, n)
           /\ Told(events', app_open', l, Len(events')) <=>
                IsOpen(e, l) \/ (Told(events, app_open, l, Len(events)) /\ ~IsClose(e, l))
<1>1. /\ Len(events) \in Nat /\ Len(events') = Len(events) + 1
      /\ \A i \in 1..Len(events) : events'[i] = events[i]
      /\ events'[Len(events')] = e
  BY PushAppends
<1>2. app_open' = app_open
  BY DEF PushEvent
<1>3. ASSUME NEW n \in 0..Len(events) PROVE Told(events', app_open', l, n) <=> Told(events, app_open, l, n)
  <2>1. /\ \A k \in 1..n : k \in 1..Len(events)
        /\ \A j \in 1..n : \A k \in (j + 1)..n : k \in 1..n
    BY <1>1
  <2> QED
    BY <1>1, <1>2, <2>1 DEF Told, IsOpen, IsClose
<1> DEFINE N == Len(events)
<1>4. ASSUME IsOpen(e, l) PROVE Told(events', app_open', l, N + 1)
  <2>1. N + 1 \in 1..(N + 1) /\ \A k \in (N + 1 + 1)..(N + 1) : FALSE
    BY <1>1
  <2> QED
    BY <1>1, <1>4, <2>1 DEF Told, IsOpen
<1>5. ASSUME Told(events, app_open, l, N), ~IsClose(e, l) PROVE Told(events', app_open', l, N + 1)
  <2>1. CASE l \in app_open /\ \A k \in 1..N : ~IsClose(events[k], l)
    <3>1. \A k \in 1..(N + 1) : k \in 1..N \/ k = N + 1
      BY <1>1
    <3> QED
      BY <1>1, <1>2, <1>5, <2>1, <3>1 DEF Told, IsClose
  <2>2. CASE \E j \in 1..N : IsOpen(events[j], l) /\ \A k \in (j + 1)..N : ~IsClose(events[k], l)
    <3>1. PICK j \in 1..N : IsOpen(events[j], l) /\ \A k \in (j + 1)..N : ~IsClose(events[k], l)
      BY <2>2
    <3>2. /\ j \in 1..(N + 1)
          /\ \A k \in (j + 1)..(N + 1) : (k \in (j + 1)..N /\ k \in 1..N) \/ k = N + 1
      BY <1>1
    <3>3. IsOpen(events'[j], l) /\ \A k \in (j + 1)..(N + 1) : ~IsClose(events'[k], l)
      BY <1>1, <1>5, <3>1, <3>2
    <3> QED
      BY <1>1, <3>2, <3>3 DEF Told, IsOpen, IsClose
  <2> QED
    BY <1>5, <2>1, <2>2 DEF Told
<1>6. ASSUME Told(events', app_open', l, N + 1), ~IsOpen(e, l) PROVE Told(events, app_open, l, N) /\ ~IsClose(e, l)
  <2>1. CASE l \in app_open' /\ \A k \in 1..(N + 1) : ~IsClose(events'[k], l)
    <3>1. /\ \A k \in 1..N : k \in 1..(N + 1)
          /\ N + 1 \in 1..(N + 1)
      BY <1>1
    <3> QED
      BY <1>1, <1>2, <2>1, <3>1 DEF Told
  <2>2. ASSUME NEW j \in 1..(N + 1), IsOpen(events'[j], l),
               \A k \in (j + 1)..(N + 1) : ~IsClose(events'[k], l)
        PROVE  Told(events, app_open, l, N) /\ ~IsClose(e, l)
    <3>1. j # N + 1
      BY <1>1, <1>6, <2>2
    <3>2. /\ j \in 1..N /\ N + 1 \in (j + 1)..(N + 1)
          /\ \A k \in (j + 1)..N : k \in (j + 1)..(N + 1) /\ k \in 1..N
      BY <1>1, <3>1
    <3> QED
      BY <1>1, <2>2, <3>2 DEF Told
  <2> QED
    BY <1>6, <2>1, <2>2 DEF Told, IsOpen, IsClose
<1> QED
  BY <1>1, <1>3, <1>4, <1>5, <1>6

(* Consuming the oldest event changes no belief about the rest. *)
LEMMA ToldRelease ==
    ASSUME EventInv, svl_service_events_release, NEW l \in Links, NEW n \in 0..Len(events')
    PROVE  Told(events', app_open', l, n) <=> Told(events, app_open, l, n + 1)
<1>1. /\ Len(events) \in Nat \ {0} /\ Head(events) = events[1] /\ events[1] \in Event
      /\ Len(events') = Len(events) - 1
      /\ \A i \in 1..Len(events') : i + 1 \in 1..Len(events) /\ events'[i] = events[i + 1]
  BY ReleaseTail
<1>2. app_open' = Consumed(events[1])
  BY <1>1 DEF svl_service_events_release
<1>3. l \in app_open' <=> IsOpen(events[1], l) \/ (l \in app_open /\ ~IsClose(events[1], l))
  BY <1>1, <1>2 DEF Consumed, IsOpen, IsClose, Event, EventType
<1>4. ~(IsOpen(events[1], l) /\ IsClose(events[1], l))
  BY DEF IsOpen, IsClose
<1>5. n \in Nat /\ \A k \in 1..n : k \in 1..Len(events') /\ events'[k] = events[k + 1]
  BY <1>1
<1>6. ASSUME Told(events', app_open', l, n) PROVE Told(events, app_open, l, n + 1)
  <2>1. CASE l \in app_open' /\ \A k \in 1..n : ~IsClose(events'[k], l)
    <3>1. \A k \in 2..(n + 1) : k - 1 \in 1..n /\ (k - 1) + 1 = k
      BY <1>5
    <3>2. \A k \in 2..(n + 1) : ~IsClose(events[k], l)
      BY <1>5, <2>1, <3>1
    <3>3. CASE IsOpen(events[1], l)
      BY <1>5, <3>2, <3>3 DEF Told
    <3>4. CASE l \in app_open /\ ~IsClose(events[1], l)
      <4>1. \A k \in 1..(n + 1) : k = 1 \/ k \in 2..(n + 1)
        BY <1>5
      <4> QED
        BY <3>2, <3>4, <4>1 DEF Told
    <3> QED
      BY <1>3, <2>1, <3>3, <3>4
  <2>2. ASSUME NEW j \in 1..n, IsOpen(events'[j], l), \A k \in (j + 1)..n : ~IsClose(events'[k], l)
        PROVE  Told(events, app_open, l, n + 1)
    <3>1. /\ j + 1 \in 1..(n + 1) /\ events'[j] = events[j + 1]
          /\ \A k \in (j + 1 + 1)..(n + 1) : k - 1 \in (j + 1)..n /\ k - 1 \in 1..n /\ (k - 1) + 1 = k
      BY <1>5
    <3>2. \A k \in (j + 1 + 1)..(n + 1) : ~IsClose(events[k], l)
      BY <1>5, <2>2, <3>1
    <3> QED
      BY <2>2, <3>1, <3>2 DEF Told
  <2> QED
    BY <1>6, <2>1, <2>2 DEF Told, IsOpen, IsClose
<1>7. ASSUME Told(events, app_open, l, n + 1) PROVE Told(events', app_open', l, n)
  <2>1. CASE l \in app_open /\ \A k \in 1..(n + 1) : ~IsClose(events[k], l)
    <3>1. 1 \in 1..(n + 1) /\ \A k \in 1..n : k + 1 \in 1..(n + 1)
      BY <1>5
    <3> QED
      BY <1>3, <1>5, <2>1, <3>1 DEF Told, IsOpen, IsClose
  <2>2. ASSUME NEW j \in 1..(n + 1), IsOpen(events[j], l),
               \A k \in (j + 1)..(n + 1) : ~IsClose(events[k], l)
        PROVE  Told(events', app_open', l, n)
    <3>1. CASE j = 1
      <4>1. \A k \in 1..n : k + 1 \in (j + 1)..(n + 1)
        BY <1>5, <3>1
      <4> QED
        BY <1>3, <1>5, <2>2, <3>1, <4>1 DEF Told, IsOpen, IsClose
    <3>2. CASE j # 1
      <4>1. /\ j - 1 \in 1..n /\ (j - 1) + 1 = j
            /\ \A k \in ((j - 1) + 1)..n : k + 1 \in (j + 1)..(n + 1) /\ k \in 1..n
        BY <1>5, <3>2
      <4>2. /\ IsOpen(events'[j - 1], l)
            /\ \A k \in ((j - 1) + 1)..n : ~IsClose(events'[k], l)
        BY <1>5, <2>2, <4>1
      <4> QED
        BY <4>1, <4>2 DEF Told, IsOpen, IsClose
    <3> QED
      BY <3>1, <3>2
  <2> QED
    BY <1>7, <2>1, <2>2 DEF Told
<1> QED
  BY <1>6, <1>7

(* A link not yet announced: free, or connecting. *)
Unopened(l) == l \in client_list_free \/ handle[l] = "connecting"

(* A step without events keeps the order if no link starts reading or becomes unopened. *)
LEMMA OrderStay ==
    ASSUME OrderInv, UNCHANGED <<events, app_open>>,
           \A l \in Links : handle'[l] = "reading" => handle[l] = "reading",
           \A l \in Links : Unopened(l)' => Unopened(l)
    PROVE  OrderInv'
BY DEF OrderInv, EventsInOrder, ReadingTold, UnopenedNotTold, Unopened

(* Pushing an event that makes sense keeps the order. *)
LEMMA OrderPush ==
    ASSUME NEW e \in Event, NEW l \in Links, EventInv, OrderInv, PushEvent(e), e.client = l,
           e.type = "READ" => Told(events, app_open, l, Len(events)),
           e.type = "OPEN" => ~Told(events, app_open, l, Len(events)),
           \A m \in Links \ {l} : handle'[m] = "reading" => handle[m] = "reading",
           \A m \in Links \ {l} : Unopened(m)' => Unopened(m),
           handle'[l] = "reading" => e.type \in {"OPEN", "READ"},
           Unopened(l)' => e.type = "CLOSE"
    PROVE  OrderInv'
<1> DEFINE N == Len(events)
<1>1. /\ N \in Nat /\ Len(events') = N + 1
      /\ \A i \in 1..N : events'[i] = events[i]
      /\ events'[Len(events')] = e
      /\ \A i \in 1..N : events[i] \in Event
  BY PushAppends DEF EventInv, EventTypeOK
<1>2. \A m \in Links : \A n \in 0..N :
          Told(events', app_open', m, n) <=> Told(events, app_open, m, n)
  BY ToldPush
<1>3. \A m \in Links : Told(events', app_open', m, Len(events')) <=>
          IsOpen(e, m) \/ (Told(events, app_open, m, N) /\ ~IsClose(e, m))
  BY ToldPush
<1>4. EventsInOrder'
  <2> SUFFICES ASSUME NEW i \in 1..Len(events')
               PROVE  /\ events'[i].type = "READ" =>
                             Told(events', app_open', events'[i].client, i - 1)
                      /\ events'[i].type = "OPEN" =>
                             ~Told(events', app_open', events'[i].client, i - 1)
    BY DEF EventsInOrder
  <2>1. CASE i \in 1..N
    <3>1. i - 1 \in 0..N /\ events[i].client \in Links
      BY <1>1, <2>1 DEF Event
    <3> QED
      BY <1>1, <1>2, <2>1, <3>1 DEF OrderInv, EventsInOrder
  <2>2. CASE i = N + 1
    <3>1. i - 1 = N /\ N \in 0..N
      BY <1>1, <2>2
    <3> QED
      BY <1>1, <1>2, <2>2, <3>1
  <2> QED
    BY <1>1, <2>1, <2>2
<1>5. ReadingTold'
  <2> SUFFICES ASSUME NEW m \in Links, handle'[m] = "reading"
               PROVE  Told(events', app_open', m, Len(events'))
    BY DEF ReadingTold
  <2>1. CASE m = l
    BY <1>3, <2>1 DEF IsOpen, IsClose
  <2>2. CASE m # l
    BY <1>3, <2>2 DEF IsClose, OrderInv, ReadingTold
  <2> QED
    BY <2>1, <2>2
<1>6. UnopenedNotTold'
  <2> SUFFICES ASSUME NEW m \in Links, Unopened(m)'
               PROVE  ~Told(events', app_open', m, Len(events'))
    BY DEF UnopenedNotTold, Unopened
  <2>1. CASE m = l
    BY <1>3, <2>1 DEF IsOpen, IsClose
  <2>2. CASE m # l
    BY <1>3, <2>2 DEF IsOpen, OrderInv, UnopenedNotTold, Unopened
  <2> QED
    BY <2>1, <2>2
<1> QED
  BY <1>4, <1>5, <1>6 DEF OrderInv

(* Consuming an event keeps the order of the rest. *)
LEMMA OrderRelease ==
    ASSUME EventInv, OrderInv, svl_service_events_release
    PROVE  OrderInv'
<1>1. /\ Len(events) \in Nat \ {0} /\ Len(events') = Len(events) - 1
      /\ \A i \in 1..Len(events') : i + 1 \in 1..Len(events) /\ events'[i] = events[i + 1]
      /\ \A i \in 1..Len(events) : events[i] \in Event
  BY ReleaseTail DEF EventInv, EventTypeOK
<1>2. \A l \in Links : \A n \in 0..Len(events') :
          Told(events', app_open', l, n) <=> Told(events, app_open, l, n + 1)
  BY ToldRelease
<1>3. EventsInOrder'
  <2> SUFFICES ASSUME NEW i \in 1..Len(events')
               PROVE  /\ events'[i].type = "READ" =>
                             Told(events', app_open', events'[i].client, i - 1)
                      /\ events'[i].type = "OPEN" =>
                             ~Told(events', app_open', events'[i].client, i - 1)
    BY DEF EventsInOrder
  <2>1. /\ i + 1 \in 1..Len(events) /\ events'[i] = events[i + 1] /\ i - 1 \in 0..Len(events')
        /\ (i + 1) - 1 = (i - 1) + 1 /\ events'[i].client \in Links
    BY <1>1 DEF Event
  <2> QED
    BY <1>2, <2>1 DEF OrderInv, EventsInOrder
<1>4. \A l \in Links : Told(events', app_open', l, Len(events')) <=>
          Told(events, app_open, l, Len(events))
  <2>1. Len(events') \in 0..Len(events') /\ Len(events') + 1 = Len(events)
    BY <1>1
  <2> QED
    BY <1>2, <2>1
<1>5. UNCHANGED <<handle, client_list_free>>
  BY DEF svl_service_events_release, linkVars
<1> QED
  BY <1>3, <1>4, <1>5 DEF OrderInv, ReadingTold, UnopenedNotTold

(* Announcing an unopened link keeps the order. *)
LEMMA OrderAnnounce ==
    ASSUME NEW l \in Links, TypeInv, OrderInv, Announce(l), Unopened(l),
           l \notin client_list_free', client_list_free' \subseteq client_list_free
    PROVE  OrderInv'
<1>1. /\ handle'[l] \in {"reading", "closing"}
      /\ \A m \in Links \ {l} : handle'[m] = handle[m]
  BY DEF Announce, StartReading, CloseHandle, TypeInv, LinkTypeOK
<1>2. /\ ~Unopened(l)'
      /\ \A m \in Links \ {l} : Unopened(m)' => Unopened(m)
  BY <1>1 DEF Unopened
<1>3. CASE PushEvent(OpenEvent(l))
  <2>1. OpenEvent(l) \in Event /\ OpenEvent(l).client = l /\ OpenEvent(l).type = "OPEN"
    BY EventTyping DEF OpenEvent
  <2>2. ~Told(events, app_open, l, Len(events))
    BY DEF OrderInv, UnopenedNotTold, Unopened
  <2>3. EventInv
    BY DEF TypeInv
  <2> QED
    BY <1>1, <1>2, <1>3, <2>1, <2>2, <2>3, OrderPush
<1>4. CASE CloseHandle(l) /\ UNCHANGED eventVars
  <2>1. handle'[l] = "closing"
    BY <1>4 DEF CloseHandle, TypeInv, LinkTypeOK
  <2> QED
    BY <1>1, <1>2, <1>4, <2>1, OrderStay DEF eventVars
<1> QED
  BY <1>3, <1>4 DEF Announce

(* Every step keeps the event order. *)
LEMMA StepOrder == TypeInv /\ HandleInv /\ OrderInv /\ [Next]_vars => OrderInv'
<1> SUFFICES ASSUME TypeInv, HandleInv, OrderInv, [Next]_vars PROVE OrderInv'
  OBVIOUS
<1>0. EventInv /\ LinkTypeOK
  BY DEF TypeInv
<1>1. CASE UNCHANGED <<linkVars, events, app_open>>
  BY <1>1, OrderStay DEF linkVars, Unopened
<1>2. ASSUME NEW l \in Links, on_inbound_connection_cb(l) PROVE OrderInv'
  BY <1>2, OrderAnnounce DEF on_inbound_connection_cb, svl_link_list_open, Unopened
<1>3. ASSUME NEW l \in Links, on_outbound_connection_cb(l) PROVE OrderInv'
  <2>1. Unopened(l) /\ l \notin client_list_free /\ UNCHANGED client_list_free
    BY <1>3 DEF on_outbound_connection_cb, Unopened, HandleInv, FreeIdle
  <2> QED
    BY <1>3, <2>1, OrderAnnounce DEF on_outbound_connection_cb
<1>4. ASSUME NEW l \in Links, RecvData(l) PROVE OrderInv'
  <2>1. handle[l] = "reading" /\ UNCHANGED linkVars
    BY <1>4 DEF RecvData
  <2>2. ASSUME NEW b \in Buffers, RecvDeliver(l, b) PROVE OrderInv'
    <3>1. /\ ReadEvent(l, b) \in Event /\ ReadEvent(l, b).client = l
          /\ ReadEvent(l, b).type = "READ" /\ PushEvent(ReadEvent(l, b))
      BY <2>2, EventTyping DEF ReadEvent, RecvDeliver
    <3>2. Told(events, app_open, l, Len(events))
      BY <2>1 DEF OrderInv, ReadingTold
    <3>3. ~Unopened(l)' /\ \A m \in Links \ {l} : Unopened(m)' => Unopened(m)
      BY <2>1 DEF Unopened, linkVars, HandleInv, FreeIdle
    <3>4. UNCHANGED handle
      BY <2>1 DEF linkVars
    <3> QED
      BY <1>0, <3>1, <3>2, <3>3, <3>4, OrderPush
  <2>3. CASE UNCHANGED eventVars
    BY <1>1, <2>1, <2>3 DEF eventVars
  <2> QED
    BY <1>4, <2>2, <2>3 DEF RecvData, RecvKeep
<1>5. ASSUME NEW l \in Links, RecvAgain(l) PROVE OrderInv'
  BY <1>1, <1>5 DEF RecvAgain, eventVars
<1>6. ASSUME NEW l \in Links, CloseHandle(l), UNCHANGED <<client_list_free, events, app_open>>
      PROVE  OrderInv'
  <2>1. \A m \in Links : handle'[m] = IF m = l THEN "closing" ELSE handle[m]
    BY <1>0, <1>6 DEF CloseHandle, LinkTypeOK
  <2> QED
    BY <1>6, <2>1, OrderStay DEF Unopened
<1>7. ASSUME NEW l \in Links, RecvError(l) PROVE OrderInv'
  BY <1>6, <1>7 DEF RecvError, eventVars
<1>8. ASSUME NEW r \in WriteReqs, on_send_cb(r) PROVE OrderInv'
  BY <1>1, <1>8 DEF on_send_cb, eventVars
<1>9. CASE PollDone \/ CheckDone \/ ClosingDone \/ LoopExit \/ on_timer_cb \/ NoTimerDue
           \/ svl_service_stop \/ svl_service_start \/ on_sigint_cb
  BY <1>1, <1>9 DEF PollDone, on_sigint_cb, CheckDone, ClosingDone, LoopExit, on_timer_cb, NoTimerDue,
     svl_service_stop, svl_service_start, eventVars
<1>10. CASE on_check_cb
  <2>0. UNCHANGED <<events, app_open>>
    BY <1>10 DEF on_check_cb, eventVars
  <2>1. CASE handle_cmd_open
    <3>1. ASSUME NEW l \in Links, OpenConnecting(l) PROVE OrderInv'
      <4>1. /\ \A m \in Links : handle'[m] = IF m = l THEN "connecting" ELSE handle[m]
            /\ l \in client_list_free /\ client_list_free' \subseteq client_list_free
        BY <1>0, <3>1 DEF OpenConnecting, svl_link_list_open, LinkTypeOK
      <4> QED
        BY <2>0, <4>1, OrderStay DEF Unopened
    <3>2. ASSUME NEW l \in Links, OpenRefused(l) PROVE OrderInv'
      BY <2>0, <3>2, OrderStay DEF OpenRefused, Unopened
    <3>3. CASE UNCHANGED <<linkVars, read_buffer, read_len>>
      BY <1>1, <2>0, <3>3
    <3> QED
      BY <2>1, <3>1, <3>2, <3>3 DEF handle_cmd_open
  <2>2. ASSUME NEW c, handle_cmd_close(c) PROVE OrderInv'
    <3>1. CASE LinkUsable(c)
      BY <1>6, <2>0, <2>2, <3>1 DEF handle_cmd_close, LinkUsable, svl_link_list_get
    <3>2. CASE ~LinkUsable(c)
      BY <1>1, <2>0, <2>2, <3>2 DEF handle_cmd_close, linkVars
    <3> QED
      BY <3>1, <3>2
  <2>3. ASSUME NEW c, handle_cmd_send(c) PROVE OrderInv'
    BY <1>1, <2>0, <2>3 DEF handle_cmd_send
  <2> QED
    BY <1>10, <2>1, <2>2, <2>3 DEF on_check_cb
<1>11. ASSUME NEW l \in Links, on_close_link_cb(l) PROVE OrderInv'
  <2>1. \A m \in Links : handle'[m] = IF m = l THEN "none" ELSE handle[m]
    BY <1>0, <1>11 DEF on_close_link_cb, LinkTypeOK
  <2>2. CASE PushEvent(CloseEvent(l)) /\ client_list_free' = client_list_free \cup {l}
    <3>1. CloseEvent(l) \in Event /\ CloseEvent(l).client = l /\ CloseEvent(l).type = "CLOSE"
      BY EventTyping DEF CloseEvent
    <3>2. \A m \in Links \ {l} : Unopened(m)' => Unopened(m)
      BY <2>1, <2>2 DEF Unopened
    <3> QED
      BY <1>0, <2>1, <2>2, <3>1, <3>2, OrderPush
  <2>3. CASE UNCHANGED <<eventVars, client_list_free>>
    BY <2>1, <2>3, OrderStay DEF eventVars, Unopened
  <2> QED
    BY <1>11, <2>2, <2>3 DEF on_close_link_cb, ReportClose, svl_link_list_close
<1>12. ASSUME NEW type, NEW c, QueueCmd(type, c) PROVE OrderInv'
  BY <1>1, <1>12 DEF QueueCmd, eventVars
<1>13. CASE svl_service_cmd_open
  BY <1>12, <1>13 DEF svl_service_cmd_open
<1>14. ASSUME NEW c, svl_service_cmd_close(c) \/ svl_service_cmd_send(c) PROVE OrderInv'
  BY <1>12, <1>14 DEF svl_service_cmd_close, svl_service_cmd_send
<1>15. CASE svl_service_events_acquire
  BY <1>1, <1>15 DEF svl_service_events_acquire
<1>16. CASE svl_service_events_release
  BY <1>0, <1>16, OrderRelease
<1>17. CASE UNCHANGED vars
  BY <1>1, <1>17 DEF vars, eventVars
<1> QED
  BY <1>2, <1>3, <1>4, <1>5, <1>7, <1>8, <1>9, <1>10, <1>11, <1>13, <1>14, <1>15, <1>16, <1>17
  DEF Next, IoThread, Poll, Closing, Main, Finished

LEMMA InitOrder == Init => OrderInv
BY DEF Init, svl_link_list_setup, OrderInv, EventsInOrder, ReadingTold, UnopenedNotTold, Told

(***************************************************************************)
(* The application's event stream makes sense: data only from clients it   *)
(* was told of, no client opened twice, with ids reused and a slow         *)
(* consumer.                                                               *)
(***************************************************************************)
THEOREM EventsAreOrdered == Spec => []AppOrder
<1>1. TypeInv /\ OrderInv => AppOrder
  <2> SUFFICES ASSUME TypeInv, OrderInv, events # << >>
               PROVE  /\ Head(events).type = "READ" => Head(events).client \in app_open
                      /\ Head(events).type = "OPEN" => Head(events).client \notin app_open
    BY DEF AppOrder
  <2>1. 1 \in 1..Len(events) /\ Head(events) = events[1] /\ 1 - 1 = 0
    BY DEF TypeInv, EventInv, EventTypeOK
  <2>2. \A l : Told(events, app_open, l, 0) <=> l \in app_open
    BY DEF Told
  <2> QED
    BY <2>1, <2>2 DEF OrderInv, EventsInOrder
<1> QED
  BY <1>1, InitTyping, StepTyping, InitHandle, StepHandle, InitOrder, StepOrder, PTL DEF Spec

(***************************************************************************)
(* The id of a client the application believes open is reused only behind  *)
(* a CLOSE event for it.                                                   *)
(***************************************************************************)
THEOREM ClosesAreSeen == Spec => []CloseWillBeSeen
<1>1. TypeInv /\ OrderInv => CloseWillBeSeen
  <2> SUFFICES ASSUME TypeInv, OrderInv, NEW l \in client_list_free \cap app_open
               PROVE  \E i \in 1..Len(events) : events[i].type = "CLOSE" /\ events[i].client = l
    BY DEF CloseWillBeSeen
  <2>1. ~Told(events, app_open, l, Len(events))
    BY DEF OrderInv, UnopenedNotTold, TypeInv, LinkTypeOK
  <2> QED
    BY <2>1 DEF Told, IsClose
<1> QED
  BY <1>1, InitTyping, StepTyping, InitHandle, StepHandle, InitOrder, StepOrder, PTL DEF Spec

-----------------------------------------------------------------------------
(* A step that leaves the writes alone and queues nothing, an OPEN or a READ. *)
LEMMA AnnouncedStay ==
    ASSUME EventInv, WritesLive, WritesAnnounced, UNCHANGED sendVars,
           \/ UNCHANGED <<events, app_open>>
           \/ \E e \in Event : e.type # "CLOSE" /\ PushEvent(e)
    PROVE  WritesAnnounced'
<1>1. CASE UNCHANGED <<events, app_open>>
  BY <1>1 DEF WritesAnnounced, sendVars
<1>2. ASSUME NEW e \in Event, e.type # "CLOSE", PushEvent(e) PROVE WritesAnnounced'
  <2> SUFFICES ASSUME NEW r \in WriteReqs \ send_req_list
               PROVE  Told(events', app_open', svl_link[r], Len(events'))
    BY DEF WritesAnnounced, sendVars
  <2>1. svl_link[r] \in Links /\ Told(events, app_open, svl_link[r], Len(events))
    BY DEF WritesAnnounced, WritesLive
  <2> QED
    BY <1>2, <2>1, ToldPush DEF IsClose
<1> QED
  BY <1>1, <1>2

(* Every step keeps the writes on connections the application is told of. *)
LEMMA StepAnnounced ==
    TypeInv /\ HandleInv /\ WritesLive /\ OrderInv /\ WritesAnnounced /\ [Next]_vars
        => WritesAnnounced'
<1> SUFFICES ASSUME TypeInv, HandleInv, WritesLive, OrderInv, WritesAnnounced, [Next]_vars
             PROVE  WritesAnnounced'
  OBVIOUS
<1>0. EventInv /\ LinkTypeOK /\ SendTypeOK
  BY DEF TypeInv
<1>1. CASE UNCHANGED <<sendVars, events, app_open>>
  BY <1>0, <1>1, AnnouncedStay
<1>2. ASSUME NEW l \in Links, on_inbound_connection_cb(l) \/ on_outbound_connection_cb(l)
      PROVE  WritesAnnounced'
  <2>1. OpenEvent(l) \in Event /\ OpenEvent(l).type # "CLOSE"
    BY EventTyping DEF OpenEvent
  <2> QED
    BY <1>0, <1>2, <2>1, AnnouncedStay
    DEF on_inbound_connection_cb, on_outbound_connection_cb, Announce, eventVars
<1>3. ASSUME NEW l \in Links, RecvData(l) PROVE WritesAnnounced'
  <2>1. \A b \in Buffers : ReadEvent(l, b) \in Event /\ ReadEvent(l, b).type # "CLOSE"
    BY EventTyping DEF ReadEvent
  <2> QED
    BY <1>0, <1>3, <2>1, AnnouncedStay DEF RecvData, RecvDeliver, RecvKeep, eventVars
<1>4. ASSUME NEW l \in Links, RecvAgain(l) \/ RecvError(l) PROVE WritesAnnounced'
  BY <1>1, <1>4 DEF RecvAgain, RecvError, eventVars
<1>5. ASSUME NEW r \in WriteReqs, on_send_cb(r) PROVE WritesAnnounced'
  BY <1>5 DEF on_send_cb, eventVars, WritesAnnounced
<1>6. CASE PollDone \/ CheckDone \/ ClosingDone \/ LoopExit \/ on_timer_cb \/ NoTimerDue
           \/ svl_service_stop \/ on_sigint_cb \/ svl_service_events_acquire
  BY <1>1, <1>6 DEF PollDone, CheckDone, ClosingDone, LoopExit, on_timer_cb, NoTimerDue,
     svl_service_stop, on_sigint_cb, svl_service_events_acquire, eventVars
<1>7. CASE on_check_cb
  <2>0. UNCHANGED <<events, app_open>>
    BY <1>7 DEF on_check_cb, eventVars
  <2>1. CASE UNCHANGED sendVars
    BY <1>1, <2>0, <2>1
  <2>2. ASSUME NEW c, LinkUsable(c), NEW r \in WriteReqs, SendOn(c, r) PROVE WritesAnnounced'
    <3>1. Told(events, app_open, c, Len(events))
      BY <2>2 DEF LinkUsable, svl_link_list_get, HandleInv, HandleLive, OrderInv, ReadingTold
    <3>2. \A q \in WriteReqs \ send_req_list' :
             \/ q = r /\ svl_link'[q] = c
             \/ q \notin send_req_list /\ svl_link'[q] = svl_link[q]
      BY <1>0, <2>2 DEF SendOn, SendTypeOK
    <3> QED
      BY <2>0, <3>1, <3>2 DEF WritesAnnounced
  <2> QED
    BY <1>7, <2>1, <2>2 DEF on_check_cb, handle_cmd_open, handle_cmd_close, handle_cmd_send
<1>8. ASSUME NEW l \in Links, on_close_link_cb(l) PROVE WritesAnnounced'
  <2> SUFFICES ASSUME NEW r \in WriteReqs \ send_req_list'
               PROVE  Told(events', app_open', svl_link'[r], Len(events'))
    BY DEF WritesAnnounced
  <2>1. r \notin send_req_list /\ svl_link[r] # l /\ svl_link' = svl_link
    BY <1>8 DEF on_close_link_cb, InFlight
  <2>2. svl_link[r] \in Links /\ Told(events, app_open, svl_link[r], Len(events))
    BY <2>1 DEF WritesAnnounced, WritesLive
  <2>3. CASE PushEvent(CloseEvent(l))
    <3>1. CloseEvent(l) \in Event /\ CloseEvent(l).client = l
      BY EventTyping DEF CloseEvent
    <3> QED
      BY <1>0, <2>1, <2>2, <2>3, <3>1, ToldPush DEF IsClose
  <2>4. CASE UNCHANGED eventVars
    BY <2>1, <2>2, <2>4 DEF eventVars
  <2> QED
    BY <1>8, <2>3, <2>4 DEF on_close_link_cb, ReportClose
<1>9. ASSUME NEW type, NEW c, QueueCmd(type, c) PROVE WritesAnnounced'
  BY <1>1, <1>9 DEF QueueCmd, eventVars
<1>10. CASE svl_service_cmd_open
  BY <1>9, <1>10 DEF svl_service_cmd_open
<1>11. ASSUME NEW c, svl_service_cmd_close(c) \/ svl_service_cmd_send(c) PROVE WritesAnnounced'
  BY <1>9, <1>11 DEF svl_service_cmd_close, svl_service_cmd_send
<1>12. CASE svl_service_events_release
  <2> SUFFICES ASSUME NEW r \in WriteReqs \ send_req_list
               PROVE  Told(events', app_open', svl_link[r], Len(events'))
    BY <1>12 DEF WritesAnnounced, svl_service_events_release, sendVars
  <2>1. svl_link[r] \in Links /\ Told(events, app_open, svl_link[r], Len(events))
    BY DEF WritesAnnounced, WritesLive
  <2>2. Len(events') \in 0..Len(events') /\ Len(events') + 1 = Len(events)
    BY <1>0, <1>12, ReleaseTail
  <2> QED
    BY <1>0, <1>12, <2>1, <2>2, ToldRelease
<1>13. CASE svl_service_start
  BY <1>13 DEF svl_service_start, WritesAnnounced
<1>14. CASE UNCHANGED vars
  BY <1>1, <1>14 DEF vars, eventVars
<1> QED
  BY <1>2, <1>3, <1>4, <1>5, <1>6, <1>7, <1>8, <1>10, <1>11, <1>12, <1>13, <1>14
  DEF Next, IoThread, Poll, Closing, Main, Finished

(***************************************************************************)
(* Whatever ids the sends carry, stale or made up, a write is in flight    *)
(* only on a connection whose OPEN the application has consumed or will    *)
(* find in its queue, with no CLOSE of it queued.                          *)
(***************************************************************************)
THEOREM WritesAreAnnounced == Spec => []WritesAnnounced
<1>1. Init => WritesLive /\ WritesAnnounced
  BY DEF Init, svl_link_list_setup, WritesLive, WritesAnnounced
<1> QED
  BY <1>1, InitTyping, StepTyping, InitHandle, StepHandle, StepWrites, InitOrder, StepOrder,
     StepAnnounced, PTL DEF Spec

-----------------------------------------------------------------------------
(***************************************************************************)
(* The only step that loses a link is a close callback that finds no free  *)
(* event.                                                                  *)
(***************************************************************************)
THEOREM LinksLostOnlyWithoutEvents == Spec => LostOnlyWithoutEvents
<1> DEFINE Safe == \A l \in Links : Lost(l)' /\ ~Lost(l) => events_free = 0
<1>1. ASSUME TypeInv, [Next]_vars PROVE [Safe]_vars
  <2>0. LinkTypeOK
    BY <1>1 DEF TypeInv
  <2>1. ASSUME UNCHANGED <<handle, client_list_free>> PROVE Safe
    BY <2>1 DEF Lost
  <2>2. ASSUME NEW l \in Links, Announce(l), \A m \in Links \ {l} : m \in client_list_free =>
               m \in client_list_free'
        PROVE  Safe
    BY <2>0, <2>2 DEF Announce, StartReading, CloseHandle, Lost, LinkTypeOK
  <2>3. ASSUME NEW l \in Links, on_inbound_connection_cb(l) \/ on_outbound_connection_cb(l)
        PROVE  Safe
    BY <2>2, <2>3 DEF on_inbound_connection_cb, on_outbound_connection_cb, svl_link_list_open
  <2>4. ASSUME NEW l \in Links, RecvData(l) \/ RecvAgain(l) PROVE Safe
    BY <2>1, <2>4 DEF RecvData, RecvAgain, linkVars
  <2>5. ASSUME NEW l \in Links, CloseHandle(l), UNCHANGED client_list_free PROVE Safe
    BY <2>0, <2>5 DEF CloseHandle, Lost, LinkTypeOK
  <2>6. ASSUME NEW l \in Links, RecvError(l) PROVE Safe
    BY <2>5, <2>6 DEF RecvError
  <2>7. ASSUME NEW r \in WriteReqs, on_send_cb(r) PROVE Safe
    BY <2>1, <2>7 DEF on_send_cb, linkVars
  <2>8. CASE PollDone \/ CheckDone \/ ClosingDone \/ LoopExit \/ on_timer_cb \/ NoTimerDue
             \/ svl_service_stop \/ svl_service_start \/ on_sigint_cb
    BY <2>1, <2>8 DEF PollDone, on_sigint_cb, CheckDone, ClosingDone, LoopExit, on_timer_cb, NoTimerDue,
       svl_service_stop, svl_service_start, linkVars
  <2>9. CASE on_check_cb
    <3>1. ASSUME NEW l \in Links, OpenConnecting(l) \/ OpenRefused(l) PROVE Safe
      BY <2>0, <3>1 DEF OpenConnecting, OpenRefused, svl_link_list_open, Lost, LinkTypeOK
    <3>2. ASSUME UNCHANGED linkVars PROVE Safe
      BY <2>1, <3>2 DEF linkVars
    <3>3. ASSUME NEW c, handle_cmd_close(c) PROVE Safe
      BY <2>1, <2>5, <3>3 DEF handle_cmd_close, LinkUsable, svl_link_list_get
    <3> QED
      BY <2>9, <3>1, <3>2, <3>3 DEF on_check_cb, handle_cmd_open, handle_cmd_send
  <2>10. ASSUME NEW l \in Links, on_close_link_cb(l) PROVE Safe
    BY <2>0, <2>10 DEF on_close_link_cb, ReportClose, svl_link_list_close, Lost, LinkTypeOK
  <2>11. CASE svl_service_cmd_open \/ svl_service_events_acquire \/ svl_service_events_release
    BY <2>1, <2>11 DEF svl_service_cmd_open, QueueCmd, svl_service_events_acquire,
       svl_service_events_release, linkVars
  <2>12. ASSUME NEW c, svl_service_cmd_close(c) \/ svl_service_cmd_send(c) PROVE Safe
    BY <2>1, <2>12 DEF svl_service_cmd_close, svl_service_cmd_send, QueueCmd, linkVars
  <2>13. CASE UNCHANGED vars
    BY <2>13
  <2> QED
    BY <1>1, <2>3, <2>4, <2>6, <2>7, <2>8, <2>9, <2>10, <2>11, <2>12, <2>13
    DEF Next, IoThread, Poll, Closing, Main, Finished
<1> QED
  BY <1>1, InitTyping, StepTyping, PTL DEF Spec, LostOnlyWithoutEvents

=============================================================================
