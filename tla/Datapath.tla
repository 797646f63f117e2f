------------------------------ MODULE Datapath ------------------------------
(***************************************************************************)
(* The data path of one service: the IO thread's libuv callbacks           *)
(* (service_internal.c), the link list (link.c) and the calls by which the *)
(* application's main thread talks to them (service.c): commands go one    *)
(* way, events the other, and read buffers, events, commands and write     *)
(* requests circulate through fixed pools.                                 *)
(*                                                                         *)
(* One IO thread runs every callback, so a callback is one action; the     *)
(* main thread's calls interleave with them at queue operations.  A call   *)
(* or callback that takes an error return before it changes anything is a  *)
(* stuttering step and has no action.  The life of the IO thread itself,   *)
(* step by step, is module Lifecycle; here the service is started, asked   *)
(* to stop (by main or by SIGINT), or stopped.                             *)
(***************************************************************************)
EXTENDS Naturals, Sequences, FiniteSets

CONSTANTS Links,       \* link_list.client_map[], one slot per allowed client
          Buffers,     \* the buffers of pool_read
          WriteReqs,   \* priv->send_req[]
          EventCount,  \* events allocated by tn_event_list_setup
          CmdCount,    \* commands allocated by tn_cmd_list_setup
          BufCap,      \* capacity of a read buffer (SVL_SERVICE_MAX_RECV)
          NoBuf,       \* a NULL read_buffer
          NoLink       \* a client id outside client_map

(* The code makes Buffers, WriteReqs, EventCount and CmdCount all          *)
(* 4 * max_clients; nothing below depends on that.                         *)
ASSUME DatapathAssumption ==
    /\ NoBuf \notin Buffers
    /\ NoLink \notin Links
    /\ EventCount \in Nat
    /\ CmdCount \in Nat
    /\ BufCap \in Nat \ {0}

VARIABLES
    state,               \* service->state
    joining,             \* main is inside svl_service_stop, waiting for the IO thread
    svcOpen,             \* the listener, timer, prepare, check and signal handles are open
    phase,               \* where the IO thread is in a uv_run iteration
    link_state,          \* link->state
    handle,              \* the libuv stream behind link->priv
    read_buffer,         \* link->read_buffer
    read_len,            \* bytes in link->read_buffer
    client_list_free,    \* link_list.client_list_free
    pool_read,           \* service->pool_read
    events_free,         \* number of events in the free list
    events,              \* events in flight, oldest first ...
    event_updates_count, \* ... of which main has popped this many into event_updates
    cmds_free,           \* number of commands in the free list
    cmds_ready,          \* commands queued for the IO thread
    send_req_list,       \* write requests not in flight
    svl_link,            \* send_req->svl_link
    app_open             \* history: clients whose last consumed OPEN/CLOSE event is OPEN

linkVars  == <<link_state, handle, client_list_free>>
bufVars   == <<read_buffer, read_len, pool_read>>
eventVars == <<events_free, events, event_updates_count, app_open>>
cmdVars   == <<cmds_free, cmds_ready>>
sendVars  == <<send_req_list, svl_link>>
loopVars  == <<state, joining, svcOpen, phase>>
vars == <<linkVars, bufVars, eventVars, cmdVars, sendVars, loopVars>>

EventType == {"OPEN", "READ", "CLOSE"}
Event   == [type : EventType, client : Links, buf : Buffers \cup {NoBuf}]
Command == [type : {"OPEN", "CLOSE", "SEND"}, client : Links \cup {NoLink}]

LoopTypeOK ==
    /\ state \in {"NEW", "STARTED", "STOPPING", "STOPPED"}
    /\ joining \in BOOLEAN /\ svcOpen \in BOOLEAN
    /\ phase \in {"off", "timers", "poll", "check", "closing"}
LinkTypeOK ==
    /\ link_state \in [Links -> {"NEW", "OPEN", "CLOSING", "CLOSED"}]
    /\ handle \in [Links -> {"none", "connecting", "reading", "closing"}]
    /\ client_list_free \subseteq Links
BufTypeOK ==
    /\ read_buffer \in [Links -> Buffers \cup {NoBuf}]
    /\ read_len \in [Links -> 0..BufCap]
    /\ pool_read \subseteq Buffers
EventTypeOK ==
    /\ events_free \in 0..EventCount
    /\ events \in Seq(Event)
    /\ event_updates_count \in 0..Len(events)
    /\ app_open \subseteq Links
CmdTypeOK ==
    /\ cmds_free \in 0..CmdCount
    /\ cmds_ready \in Seq(Command)
SendTypeOK ==
    /\ send_req_list \subseteq WriteReqs
    /\ svl_link \in [WriteReqs -> Links \cup {NoLink}]
TypeOK ==
    /\ LoopTypeOK /\ LinkTypeOK /\ BufTypeOK
    /\ EventTypeOK /\ CmdTypeOK /\ SendTypeOK

(* client_map is zeroed and every link goes to the free list. *)
svl_link_list_setup ==
    /\ link_state = [l \in Links |-> "NEW"]
    /\ handle = [l \in Links |-> "none"]
    /\ read_buffer = [l \in Links |-> NoBuf]
    /\ read_len = [l \in Links |-> 0]
    /\ client_list_free = Links

(***************************************************************************)
(* svl_service_setup: every link, buffer, event and command is free.  The  *)
(* write requests are allocated by the IO thread when it starts.           *)
(***************************************************************************)
Init ==
    /\ state = "NEW" /\ joining = FALSE /\ svcOpen = FALSE /\ phase = "off"
    /\ svl_link_list_setup
    /\ pool_read = Buffers
    /\ events_free = EventCount /\ events = << >> /\ event_updates_count = 0
    /\ cmds_free = CmdCount /\ cmds_ready = << >>
    /\ send_req_list = WriteReqs
    /\ svl_link = [r \in WriteReqs |-> NoLink]
    /\ app_open = {}

-----------------------------------------------------------------------------
(* Queue and pool primitives (tn) and small steps shared by the callbacks. *)

OpenEvent(l)    == [type |-> "OPEN", client |-> l, buf |-> NoBuf]
CloseEvent(l)   == [type |-> "CLOSE", client |-> l, buf |-> NoBuf]
ReadEvent(l, b) == [type |-> "READ", client |-> l, buf |-> b]

(* tn_event_list_free_pop_* then tn_event_list_ready_push: needs a free event. *)
PushEvent(e) ==
    /\ events_free > 0
    /\ events_free' = events_free - 1
    /\ events' = Append(events, e)
    /\ UNCHANGED <<event_updates_count, app_open>>

Remaining_OffByOne(l) == BufCap - read_len[l] + 1

(* tn_buffer_remaining(link->read_buffer) *)
Remaining(l) == BufCap - read_len[l]

(* A link whose read_buffer is NULL and holds no bytes. *)
ClearBuffer(l) ==
    /\ read_buffer' = [read_buffer EXCEPT ![l] = NoBuf]
    /\ read_len' = [read_len EXCEPT ![l] = 0]

CloseHandle_NoState(l) ==
    /\ UNCHANGED link_state
    /\ handle' = [handle EXCEPT ![l] = "closing"]

(* link->state = SVL_LINK_CLOSING; uv_close(handle, on_close_link_cb) *)
CloseHandle(l) ==
    /\ link_state' = [link_state EXCEPT ![l] = "CLOSING"]
    /\ handle' = [handle EXCEPT ![l] = "closing"]

(* link->state = SVL_LINK_OPEN; uv_read_start(handle, ...) succeeds *)
StartReading(l) ==
    /\ link_state' = [link_state EXCEPT ![l] = "OPEN"]
    /\ handle' = [handle EXCEPT ![l] = "reading"]

Announce_WithoutEvent(l) ==
    \/ PushEvent(OpenEvent(l)) /\ StartReading(l)
    \/ StartReading(l) /\ UNCHANGED eventVars

(***************************************************************************)
(* The common tail of the two connection callbacks.  The OPEN event is     *)
(* pushed before reading starts, and a failure after the push leaves the   *)
(* event in the queue.                                                     *)
(***************************************************************************)
Announce(l) ==
    \/ PushEvent(OpenEvent(l)) /\ StartReading(l)
    \/ PushEvent(OpenEvent(l)) /\ CloseHandle(l)         \* uv_read_start failed
    \/ CloseHandle(l) /\ UNCHANGED eventVars             \* no address, or no free event
-----------------------------------------------------------------------------
(* Poll phase: connection callbacks. *)

svl_link_list_open_Peek(l) ==
    /\ l \in client_list_free
    /\ UNCHANGED client_list_free

(* svl_link_list_open: pop a link, whichever the list yields. *)
svl_link_list_open(l) ==
    /\ l \in client_list_free
    /\ client_list_free' = client_list_free \ {l}

svl_link_list_close(l) == client_list_free' = client_list_free \cup {l}

on_inbound_connection_cb(l) ==
    /\ phase = "poll" /\ svcOpen
    /\ svl_link_list_open(l)
    /\ ClearBuffer(l)
    /\ Announce(l)
    /\ UNCHANGED <<pool_read, cmdVars, sendVars, loopVars>>

(* status >= 0; the failed connect is module ConnectFailure. *)
on_outbound_connection_cb(l) ==
    /\ phase = "poll"
    /\ handle[l] = "connecting"
    /\ Announce(l)
    /\ UNCHANGED <<client_list_free, bufVars, cmdVars, sendVars, loopVars>>

-----------------------------------------------------------------------------
(* Poll phase: reads.  libuv calls on_recv_alloc_cb and then on_recv_cb.   *)

(* on_recv_alloc_cb hands libuv buffer b: the link's own, or one from the pool. *)
on_recv_alloc_cb(l, b) ==
    IF read_buffer[l] = NoBuf
    THEN b \in pool_read /\ pool_read' = pool_read \ {b}
    ELSE b = read_buffer[l] /\ UNCHANGED pool_read

(* on_recv_alloc_cb yields no room: no buffer, or a full one; libuv reports UV_ENOBUFS. *)
NoRoom(l) ==
    \/ read_buffer[l] = NoBuf /\ pool_read = {}
    \/ read_buffer[l] # NoBuf /\ Remaining(l) = 0

(* Data arrives and an event is free: the buffer leaves the link inside it. *)
RecvDeliver(l, b) ==
    /\ PushEvent(ReadEvent(l, b))
    /\ ClearBuffer(l)

(* Data arrives and no event is free: the link keeps the buffer and the bytes. *)
RecvKeep(l, b, n) ==
    /\ events_free = 0
    /\ read_buffer' = [read_buffer EXCEPT ![l] = b]
    /\ read_len' = [read_len EXCEPT ![l] = @ + n]
    /\ UNCHANGED eventVars

(* on_recv_cb with nread > 0 *)
RecvData(l) ==
    /\ phase = "poll" /\ handle[l] = "reading"
    /\ ~NoRoom(l)
    /\ \E b \in Buffers :
        /\ on_recv_alloc_cb(l, b)
        /\ \/ RecvDeliver(l, b)
           \/ \E n \in 1..Remaining(l) : RecvKeep(l, b, n)
    /\ UNCHANGED <<linkVars, cmdVars, sendVars, loopVars>>

(* on_recv_cb with nread = 0 (EAGAIN): the buffer stays attached. *)
RecvAgain(l) ==
    /\ phase = "poll" /\ handle[l] = "reading"
    /\ ~NoRoom(l)
    /\ \E b \in Buffers :
        /\ on_recv_alloc_cb(l, b)
        /\ read_buffer' = [read_buffer EXCEPT ![l] = b]
    /\ UNCHANGED <<read_len, linkVars, eventVars, cmdVars, sendVars, loopVars>>

(* on_recv_cb with nread < 0: end of file or an error, after the allocation ... *)
RecvEnd(l) ==
    /\ ~NoRoom(l)
    /\ \E b \in Buffers :
        /\ on_recv_alloc_cb(l, b)
        /\ read_buffer' = [read_buffer EXCEPT ![l] = b]

(* ... or UV_ENOBUFS because there was none. *)
RecvNoBufs(l) ==
    /\ NoRoom(l)
    /\ UNCHANGED <<read_buffer, pool_read>>

RecvError(l) ==
    /\ phase = "poll" /\ handle[l] = "reading"
    /\ RecvEnd(l) \/ RecvNoBufs(l)
    /\ CloseHandle(l)
    /\ UNCHANGED <<read_len, client_list_free, eventVars, cmdVars, sendVars, loopVars>>

(* A write finished: its request goes back to the list. *)
on_send_cb(r) ==
    /\ phase = "poll"
    /\ r \notin send_req_list
    /\ send_req_list' = send_req_list \cup {r}
    /\ UNCHANGED <<svl_link, linkVars, bufVars, eventVars, cmdVars, loopVars>>

(* SIGINT, one shot: svl_service_stop_signal.  Nobody joins the thread for it. *)
on_sigint_cb ==
    /\ phase = "poll" /\ svcOpen
    /\ state = "STARTED"
    /\ state' = "STOPPING"
    /\ UNCHANGED <<joining, svcOpen, phase, linkVars, bufVars, eventVars, cmdVars, sendVars>>

PollDone ==
    /\ phase = "poll"
    /\ phase' = IF svcOpen THEN "check" ELSE "closing"
    /\ UNCHANGED <<state, joining, svcOpen, linkVars, bufVars, eventVars, cmdVars, sendVars>>

-----------------------------------------------------------------------------
(* Check phase: on_check_cb drains the command queue. *)

(* svl_link_list_get: the id is one of client_map's. *)
svl_link_list_get(c) == c \in Links

LinkUsable_AnyState(c) ==
    /\ svl_link_list_get(c)
    /\ handle[c] # "closing"

(* The client exists and is open on a handle not yet closing. *)
LinkUsable(c) ==
    /\ svl_link_list_get(c)
    /\ link_state[c] = "OPEN"
    /\ handle[c] # "closing"

(* handle_cmd_open: a link is taken and uv_tcp_connect accepted. *)
OpenConnecting(l) ==
    /\ svl_link_list_open(l)
    /\ link_state' = [link_state EXCEPT ![l] = "NEW"]
    /\ handle' = [handle EXCEPT ![l] = "connecting"]
    /\ ClearBuffer(l)

OpenRefused_NotReturned(l) ==
    /\ svl_link_list_open(l)
    /\ link_state' = [link_state EXCEPT ![l] = "NEW"]
    /\ ClearBuffer(l)
    /\ UNCHANGED handle

(* uv_tcp_connect refused at once: svl_link_list_close puts the link back. *)
OpenRefused(l) ==
    /\ l \in client_list_free
    /\ link_state' = [link_state EXCEPT ![l] = "NEW"]
    /\ ClearBuffer(l)
    /\ UNCHANGED <<handle, client_list_free>>

(* A failing uv_tcp_init, after which the code closes the handle all the same, is ConnectFailure's. *)
handle_cmd_open ==
    /\ \/ \E l \in Links : OpenConnecting(l) \/ OpenRefused(l)
       \/ UNCHANGED <<linkVars, read_buffer, read_len>>   \* no memory, or no free link
    /\ UNCHANGED <<pool_read, sendVars>>

handle_cmd_close(c) ==
    /\ IF LinkUsable(c) THEN CloseHandle(c) ELSE UNCHANGED <<link_state, handle>>
    /\ UNCHANGED <<client_list_free, bufVars, sendVars>>

(* uv_write accepted request r for link c, or refused it and r went back. *)
SendOn(c, r) ==
    /\ r \in send_req_list
    /\ svl_link' = [svl_link EXCEPT ![r] = c]
    /\ send_req_list' \in {send_req_list \ {r}, send_req_list}

handle_cmd_send(c) ==
    /\ IF LinkUsable(c) /\ send_req_list # {}
       THEN \E r \in WriteReqs : SendOn(c, r)
       ELSE UNCHANGED sendVars
    /\ UNCHANGED <<linkVars, bufVars>>

(* One turn of the loop in on_check_cb: pop, dispatch, return to the free list. *)
on_check_cb ==
    /\ phase = "check" /\ cmds_ready # << >>
    /\ LET cmd == Head(cmds_ready)
       IN \/ cmd.type = "OPEN"  /\ handle_cmd_open
          \/ cmd.type = "CLOSE" /\ handle_cmd_close(cmd.client)
          \/ cmd.type = "SEND"  /\ handle_cmd_send(cmd.client)
    /\ cmds_ready' = Tail(cmds_ready)
    /\ cmds_free' = cmds_free + 1
    /\ UNCHANGED <<eventVars, loopVars>>

CheckDone ==
    /\ phase = "check" /\ cmds_ready = << >>
    /\ phase' = "closing"
    /\ UNCHANGED <<state, joining, svcOpen, linkVars, bufVars, eventVars, cmdVars, sendVars>>

-----------------------------------------------------------------------------
(* Closing phase. *)

(* The write requests in flight on link l. *)
InFlight(l) == {r \in WriteReqs \ send_req_list : svl_link[r] = l}

ReturnBuffer_NoReset(l) ==
    /\ pool_read' = pool_read \cup ({read_buffer[l]} \ {NoBuf})
    /\ UNCHANGED <<read_buffer, read_len>>

(* The buffer a closing link still holds goes back to the pool. *)
ReturnBuffer(l) ==
    /\ pool_read' = pool_read \cup ({read_buffer[l]} \ {NoBuf})
    /\ ClearBuffer(l)

ReportClose_StrandsEvent(l) ==
    /\ events_free > 0
    /\ events_free' = events_free - 1
    /\ svl_link_list_close(l)
    /\ UNCHANGED <<events, event_updates_count, app_open>>

ReportClose_ReturnsAnyway(l) ==
    /\ svl_link_list_close(l)
    /\ \/ PushEvent(CloseEvent(l))
       \/ events_free = 0 /\ UNCHANGED eventVars

(* The CLOSE event and the return to the free list; without a free event, neither. *)
ReportClose(l) ==
    \/ /\ PushEvent(CloseEvent(l))
       /\ svl_link_list_close(l)
    \/ /\ events_free = 0
       /\ UNCHANGED <<eventVars, client_list_free>>

(* libuv cancels the stream's pending writes (on_send_cb) before the close callback. *)
on_close_link_cb(l) ==
    /\ phase = "closing" /\ handle[l] = "closing"
    /\ send_req_list' = send_req_list \cup InFlight(l)
    /\ link_state' = [link_state EXCEPT ![l] = "CLOSED"]
    /\ handle' = [handle EXCEPT ![l] = "none"]
    /\ ReturnBuffer(l)
    /\ ReportClose(l)
    /\ UNCHANGED <<svl_link, cmdVars, loopVars>>

(* uv__loop_alive: some handle is still open. *)
LoopAlive == svcOpen \/ \E l \in Links : handle[l] # "none"

ClosingDone ==
    /\ phase = "closing" /\ LoopAlive
    /\ \A l \in Links : handle[l] # "closing"
    /\ phase' = "timers"
    /\ UNCHANGED <<state, joining, svcOpen, linkVars, bufVars, eventVars, cmdVars, sendVars>>

(* uv_run returns, send_req is freed, the thread ends and the join of a waiting main returns. *)
LoopExit ==
    /\ phase = "closing" /\ ~LoopAlive
    /\ phase' = "off"
    /\ state' = IF joining THEN "STOPPED" ELSE state
    /\ joining' = FALSE
    /\ UNCHANGED <<svcOpen, linkVars, bufVars, eventVars, cmdVars, sendVars>>

-----------------------------------------------------------------------------
(* Timers phase: on_timer_cb runs when the 100 ms timer is due. *)

KeepOpen_UntilStopped == state # "STOPPED"

(* The service handles stay open only while the service is STARTED. *)
KeepOpen == state = "STARTED"

on_timer_cb ==
    /\ phase = "timers" /\ svcOpen
    /\ svcOpen' = KeepOpen
    /\ phase' = "poll"
    /\ UNCHANGED <<state, joining, linkVars, bufVars, eventVars, cmdVars, sendVars>>

NoTimerDue ==
    /\ phase = "timers"
    /\ phase' = "poll"
    /\ UNCHANGED <<state, joining, svcOpen, linkVars, bufVars, eventVars, cmdVars, sendVars>>

-----------------------------------------------------------------------------
(* The main thread.  A SIGINT does not stop it from collecting events. *)

MainFree == ~joining

(* tn_cmd_list_free_pop_*, then tn_cmd_list_ready_push *)
QueueCmd(type, c) ==
    /\ cmds_free > 0
    /\ cmds_free' = cmds_free - 1
    /\ cmds_ready' = Append(cmds_ready, [type |-> type, client |-> c])
    /\ UNCHANGED <<linkVars, bufVars, eventVars, sendVars, loopVars>>

svl_service_cmd_open     == state = "STARTED" /\ QueueCmd("OPEN", NoLink)
svl_service_cmd_close(c) == state = "STARTED" /\ QueueCmd("CLOSE", c)
svl_service_cmd_send(c)  == state = "STARTED" /\ QueueCmd("SEND", c)

(* The caller releases one batch before it acquires the next. *)
svl_service_events_acquire ==
    /\ MainFree
    /\ event_updates_count = 0 /\ events # << >>
    /\ event_updates_count' = Len(events)
    /\ UNCHANGED <<events_free, events, app_open, linkVars, bufVars, cmdVars, sendVars, loopVars>>

(* What the application believes after consuming event e. *)
Consumed(e) ==
    CASE e.type = "OPEN"  -> app_open \cup {e.client}
      [] e.type = "CLOSE" -> app_open \ {e.client}
      [] e.type = "READ"  -> app_open

EventBuffer_Dropped(e) == {}

(* The buffer an event carries, if it is a READ. *)
EventBuffer(e) == IF e.type = "READ" THEN {e.buf} ELSE {}

(* One turn of the release loop; the IO thread may run between two turns. *)
svl_service_events_release ==
    /\ MainFree
    /\ event_updates_count > 0
    /\ event_updates_count' = event_updates_count - 1
    /\ pool_read' = pool_read \cup EventBuffer(Head(events))
    /\ events' = Tail(events)
    /\ events_free' = events_free + 1
    /\ app_open' = Consumed(Head(events))
    /\ UNCHANGED <<read_buffer, read_len, linkVars, cmdVars, sendVars, loopVars>>

(* svl_service_start and the IO thread's set-up, which allocates fresh write requests. *)
svl_service_start ==
    /\ state \in {"NEW", "STOPPED"}
    /\ state' = "STARTED" /\ svcOpen' = TRUE /\ phase' = "timers"
    /\ send_req_list' = WriteReqs
    /\ svl_link' = [r \in WriteReqs |-> NoLink]
    /\ UNCHANGED <<joining, linkVars, bufVars, eventVars, cmdVars>>

svl_service_stop ==
    /\ state = "STARTED"
    /\ state' = "STOPPING" /\ joining' = TRUE
    /\ UNCHANGED <<svcOpen, phase, linkVars, bufVars, eventVars, cmdVars, sendVars>>

-----------------------------------------------------------------------------
Poll ==
    \/ \E l \in Links : \/ on_inbound_connection_cb(l)
                        \/ on_outbound_connection_cb(l)
                        \/ RecvData(l)
                        \/ RecvAgain(l)
                        \/ RecvError(l)
    \/ \E r \in WriteReqs : on_send_cb(r)
    \/ on_sigint_cb
    \/ PollDone

Closing ==
    \/ \E l \in Links : on_close_link_cb(l)
    \/ ClosingDone
    \/ LoopExit

IoThread == Poll \/ on_check_cb \/ CheckDone \/ Closing \/ on_timer_cb \/ NoTimerDue

Main ==
    \/ svl_service_start
    \/ svl_service_stop
    \/ svl_service_cmd_open
    \/ \E c \in Links \cup {NoLink} : svl_service_cmd_close(c) \/ svl_service_cmd_send(c)
    \/ svl_service_events_acquire
    \/ svl_service_events_release

(* After a SIGINT the service can only be cleaned up. *)
Finished ==
    /\ phase = "off" /\ state = "STOPPING"
    /\ UNCHANGED vars

Next == IoThread \/ Main \/ Finished

(***************************************************************************)
(* The IO thread is scheduled and uv_run walks its phases; the repeating   *)
(* timer is due again and again; and, for each connection, the peer closes *)
(* it or answers the connect in the end, which the code cannot enforce.    *)
(***************************************************************************)
LoopProgress ==
    /\ WF_vars(PollDone)
    /\ WF_vars(on_check_cb)
    /\ WF_vars(CheckDone)
    /\ WF_vars(Closing)
    /\ WF_vars(NoTimerDue)
    /\ SF_vars(on_timer_cb)

PeerProgress ==
    \A l \in Links : SF_vars(RecvError(l)) /\ SF_vars(on_outbound_connection_cb(l))

Spec     == Init /\ [][Next]_vars
FairSpec == Spec /\ LoopProgress /\ PeerProgress

-----------------------------------------------------------------------------
(***************************************************************************)
(* A read buffer has one owner: the pool, a link, or an undelivered READ   *)
(* event.  Two owners would let the IO thread write into bytes that main   *)
(* is reading (on_recv_cb and on_close_link_cb against                     *)
(* svl_service_events_release).                                            *)
(***************************************************************************)
BufferExclusive ==
    /\ \A l \in Links : read_buffer[l] \notin pool_read
    /\ \A l, m \in Links :
         l # m /\ read_buffer[l] # NoBuf => read_buffer[l] # read_buffer[m]
    /\ \A i \in 1..Len(events) :
         /\ events[i].buf \notin pool_read
         /\ \A l \in Links : read_buffer[l] # NoBuf => events[i].buf # read_buffer[l]
         /\ \A j \in 1..Len(events) :
              i # j /\ events[i].buf # NoBuf => events[i].buf # events[j].buf

(***************************************************************************)
(* No read buffer is lost, whatever order of reads, failures, closes and   *)
(* releases: a lost one would shrink pool_read for the service's life.     *)
(***************************************************************************)
BuffersConserved ==
    \A b \in Buffers :
        \/ b \in pool_read
        \/ \E l \in Links : read_buffer[l] = b
        \/ \E i \in 1..Len(events) : events[i].type = "READ" /\ events[i].buf = b

(***************************************************************************)
(* Events and commands are never lost or invented between the free lists   *)
(* and the queues, so no push onto a full queue can strand one             *)
(* (the error branches at on_close_link_cb and on_check_cb).               *)
(***************************************************************************)
ListsConserved ==
    /\ events_free + Len(events) = EventCount
    /\ cmds_free + Len(cmds_ready) = CmdCount

(***************************************************************************)
(* handle_cmd_close and handle_cmd_send look at link->priv only when the   *)
(* link is OPEN: then, and only then, the stream exists and is reading.    *)
(* CLOSING goes with a handle whose close callback is still due.           *)
(***************************************************************************)
HandleLive ==
    \A l \in Links : /\ link_state[l] = "OPEN" <=> handle[l] = "reading"
                     /\ link_state[l] = "CLOSING" <=> handle[l] = "closing"
                     /\ handle[l] = "connecting" => link_state[l] = "NEW"

(***************************************************************************)
(* A link on the free list is finished with: no stream, no buffer, no      *)
(* bytes.  Both connection paths overwrite priv and read_buffer of the     *)
(* link they pop, which would leak anything still there.                   *)
(***************************************************************************)
FreeLinkQuiescent ==
    \A l \in client_list_free : /\ handle[l] = "none"
                                /\ read_buffer[l] = NoBuf
                                /\ read_len[l] = 0

(***************************************************************************)
(* A write request in flight belongs to a stream that libuv still knows,   *)
(* so on_send_cb will come for it; in particular none is in flight when    *)
(* the loop has ended and svl_service_io_thread frees send_req.            *)
(***************************************************************************)
WritesLive ==
    \A r \in WriteReqs \ send_req_list :
        /\ svl_link[r] \in Links
        /\ handle[svl_link[r]] \in {"reading", "closing"}
        /\ phase # "off"

(***************************************************************************)
(* What the application reads makes sense to it: data comes only from a    *)
(* client it was told of and not told closed, and no client is opened      *)
(* twice, although ids are reused as soon as a link is free.               *)
(***************************************************************************)
AppOrder ==
    events # << >> =>
        LET e == Head(events)
        IN /\ e.type = "READ" => e.client \in app_open
           /\ e.type = "OPEN" => e.client \notin app_open

(***************************************************************************)
(* The application is not left with a dead client whose id is about to be  *)
(* reused: if it believes a client open and the link is already free, the  *)
(* CLOSE event is on its way.                                              *)
(***************************************************************************)
CloseWillBeSeen ==
    \A l \in client_list_free \cap app_open :
        \E i \in 1..Len(events) : events[i].type = "CLOSE" /\ events[i].client = l

(***************************************************************************)
(* What the application, which now believes the clients of open to be      *)
(* open, will believe of client l once it has consumed the first n events  *)
(* of queue q: the last OPEN or CLOSE event decides.                       *)
(***************************************************************************)
IsOpen(e, l)  == e.type = "OPEN" /\ e.client = l
IsClose(e, l) == e.type = "CLOSE" /\ e.client = l

Told(q, open, l, n) ==
    \/ /\ l \in open
       /\ \A k \in 1..n : ~IsClose(q[k], l)
    \/ \E j \in 1..n : /\ IsOpen(q[j], l)
                       /\ \A k \in (j + 1)..n : ~IsClose(q[k], l)

(***************************************************************************)
(* A send carries a client id that may have gone stale on its way through  *)
(* the queue, and then reaches the id's next connection.  All the same a   *)
(* write is in flight only on a connection the application has been told   *)
(* of, or will be by the events already queued, and no CLOSE of it is      *)
(* queued: with any ids, reuse and shortage of events.                     *)
(***************************************************************************)
WritesAnnounced ==
    \A r \in WriteReqs \ send_req_list : Told(events, app_open, svl_link[r], Len(events))

(* A link that is neither in use nor on the free list can never be used again. *)
Lost(l) == handle[l] = "none" /\ l \notin client_list_free

(***************************************************************************)
(* A link is lost only by on_close_link_cb running while every event is    *)
(* out: no other order of opens, refusals and closes leaks one.            *)
(***************************************************************************)
LostOnlyWithoutEvents ==
    [][\A l \in Links : Lost(l)' /\ ~Lost(l) => events_free = 0]_vars

(***************************************************************************)
(* The service stays able to serve as many connections as it was set up    *)
(* for (service.h: link_concurrency, "to how many connections ... are we   *)
(* bounded"): no link is lost.                                             *)
(***************************************************************************)
CapacityKept == \A l \in Links : ~Lost(l)

(***************************************************************************)
(* A stop, main's or SIGINT's, ends the loop, and svl_service_stop returns *)
(* if main called it: the timer closes the service handles, the last link  *)
(* closes, and uv_run ends, commands still queued or events never consumed *)
(* notwithstanding.                                                        *)
(***************************************************************************)
StopCompletes == state = "STOPPING" ~> phase = "off" /\ ~joining
=============================================================================
