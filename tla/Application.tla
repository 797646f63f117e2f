---------------------------- MODULE Application ----------------------------
(***************************************************************************)
(* The two programs on top of the library: the server (svlynx_sv.c) and    *)
(* the load generator (svlynx_lg.c).  Both run the same main loop; they    *)
(* differ in whether they listen and in what they do with an event and at  *)
(* the end of a frame.  The IO thread is Datapath's.                       *)
(*                                                                         *)
(* Datapath assumes a main thread that releases a batch of events once.    *)
(* Here the batch is the array event_updates with its count, which         *)
(* svl_service_events_release walks and does not reset, and the programs   *)
(* call it in every frame, also when nothing was acquired.                 *)
(***************************************************************************)
EXTENDS Naturals, Sequences

CONSTANTS Links, Buffers, WriteReqs, EventCount, CmdCount, BufCap, NoBuf, NoLink,
          SendEvery,  \* the load generator sends in every SendEvery-th frame (64)
          FrameMod    \* its frame counter wraps here (2^32: uint32_t)

(* The second part is Datapath's assumption on the same constants. *)
ASSUME ApplicationAssumption ==
    /\ SendEvery \in Nat \ {0} /\ FrameMod \in Nat \ {0}
    /\ NoBuf \notin Buffers /\ NoLink \notin Links
    /\ EventCount \in Nat /\ CmdCount \in Nat /\ BufCap \in Nat \ {0}

VARIABLES
    role,                \* which program this is
    pc,                  \* where its main thread is
    idx,                 \* eidx of the dispatch loop, i of the release loop
    event_updates,       \* service->event_updates, still there when it has been released
    event_updates_count, \* service->event_updates_count
    ready,               \* events pushed and not popped
    frame,               \* the load generator's frame counter
    client_id,           \* the load generator's client, NoLink for TN_CMD_INVALID
    cmd_buffer,          \* the read buffer each queued command points into, if any
    uv_buf               \* the read buffer a pending write's uv_buf points into, if any

(* Datapath's, shared with the IO thread. *)
VARIABLES state, joining, svcOpen, phase, link_state, handle, read_buffer, read_len,
          client_list_free, pool_read, events_free, cmds_free, cmds_ready,
          send_req_list, svl_link, app_open

loopVars == <<role, pc, idx, frame, client_id>>
batchVars == <<event_updates, event_updates_count>>
pointerVars == <<cmd_buffer, uv_buf>>
ioVars == <<state, joining, svcOpen, phase, link_state, handle, read_buffer, read_len,
            client_list_free, pool_read, events_free, ready, cmds_free, cmds_ready,
            send_req_list, svl_link, app_open>>
vars == <<loopVars, batchVars, pointerVars, ioVars>>

(* The IO thread sees the queue only. *)
IO == INSTANCE Datapath
         WITH events <- ready, event_updates_count <- 0

AppTypeOK ==
    /\ role \in {"server", "loadgen"}
    /\ pc \in {"start", "loop", "acquire", "dispatch", "release", "frame", "stop", "end",
              "crashed"}
    /\ idx \in 1..(EventCount + 1)
    /\ event_updates \in Seq(IO!Event) /\ event_updates_count \in 0..Len(event_updates)
    /\ frame \in 0..(FrameMod - 1)
    /\ client_id \in Links \cup {NoLink}
    /\ Len(cmd_buffer) = Len(cmds_ready)
    /\ uv_buf \in [WriteReqs -> Buffers \cup {NoBuf}]
    /\ IO!TypeOK

(* main up to svl_service_setup and svl_service_listen; events and memory as setup left them. *)
Init ==
    /\ IO!Init
    /\ role \in {"server", "loadgen"}
    /\ pc = "start" /\ idx = 1
    /\ event_updates = << >> /\ event_updates_count = 0
    /\ frame = 0 /\ client_id = NoLink
    /\ cmd_buffer = << >>
    /\ uv_buf = [r \in WriteReqs |-> NoBuf]

-----------------------------------------------------------------------------
(* The main loop. *)

Goto(p) == pc' = p /\ UNCHANGED <<role, frame, client_id>>

(* svl_service_start, then a second of sleep in which the loop has come up. *)
Start ==
    /\ pc = "start" /\ IO!svl_service_start
    /\ Goto("loop")
    /\ UNCHANGED <<idx, batchVars, pointerVars>>

(* while (svl_service_state(&svl_service) == SVL_SERVICE_STARTED) *)
LoopTest ==
    /\ pc = "loop"
    /\ Goto(IF state = "STARTED" THEN "acquire" ELSE "stop")
    /\ UNCHANGED <<idx, batchVars, pointerVars, ioVars>>

svl_service_events_acquire_NoReset ==
    IF ready = << >> THEN UNCHANGED <<batchVars, ready>>
    ELSE event_updates' = ready /\ event_updates_count' = Len(ready) /\ ready' = << >>

(***************************************************************************)
(* The count is cleared before the pop is tried; a failed pop leaves it at *)
(* 0, and what the array then still holds is not read again.               *)
(***************************************************************************)
svl_service_events_acquire ==
    IF ready = << >>
    THEN event_updates' = << >> /\ event_updates_count' = 0 /\ UNCHANGED ready
    ELSE event_updates' = ready /\ event_updates_count' = Len(ready) /\ ready' = << >>

Acquire ==
    /\ pc = "acquire"
    /\ svl_service_events_acquire
    /\ idx' = 1 /\ Goto("dispatch")
    /\ UNCHANGED <<pointerVars, state, joining, svcOpen, phase, link_state, handle, read_buffer,
                   read_len, client_list_free, pool_read, events_free, cmds_free,
                   cmds_ready, send_req_list, svl_link, app_open>>

(* svl_service_cmd_*: refused without STARTED or a free command; msg is not copied. *)
Command(type, c, msg) ==
    IF state = "STARTED" /\ cmds_free > 0
    THEN /\ IO!QueueCmd(type, c)
         /\ cmd_buffer' = Append(cmd_buffer, msg)
         /\ UNCHANGED uv_buf
    ELSE UNCHANGED <<pointerVars, ioVars>>

EchoRead_RepeatsAccepted(e) ==
    /\ \E c \in Links \cup {NoLink} : Command("SEND", c, e.buf)
    /\ idx' = IF state = "STARTED" /\ cmds_free > 0 THEN idx ELSE idx + 1
    /\ Goto("dispatch")

(***************************************************************************)
(* The server's handle_client_read: link is not initialised (the lookup is *)
(* commented out), so link->id is any number, or reading it ends the       *)
(* process.                                                                *)
(***************************************************************************)
EchoRead(e) ==
    \/ /\ \E c \in Links \cup {NoLink} : Command("SEND", c, e.buf)
       /\ Goto("dispatch") /\ idx' = idx + 1
    \/ /\ Goto("crashed")
       /\ UNCHANGED <<idx, pointerVars, ioVars>>

(***************************************************************************)
(* The load generator's handle_client_open when cmd_open_id == evt->cmd_id *)
(* (else it logs).  Ids of commands are not modelled, so an OPEN may be    *)
(* either; until the counter wraps there is one command and its OPEN.      *)
(***************************************************************************)
LearnClient(e) ==
    /\ client_id' = e.client
    /\ idx' = idx + 1
    /\ UNCHANGED <<role, pc, frame, pointerVars, ioVars>>

(* Events whose handler only logs, or looks the link up and returns. *)
JustLog ==
    /\ idx' = idx + 1 /\ Goto("dispatch")
    /\ UNCHANGED <<pointerVars, ioVars>>

Dispatch ==
    /\ pc = "dispatch" /\ idx <= event_updates_count
    /\ LET e == event_updates[idx]
       IN \/ role = "server" /\ e.type = "READ" /\ EchoRead(e)
          \/ role = "loadgen" /\ e.type = "OPEN" /\ LearnClient(e)
          \/ <<role, e.type>> # <<"server", "READ">> /\ JustLog
    /\ UNCHANGED batchVars

DispatchDone ==
    /\ pc = "dispatch" /\ idx > event_updates_count
    /\ idx' = 1 /\ Goto("release")
    /\ UNCHANGED <<batchVars, pointerVars, ioVars>>

(* One turn of the loop in svl_service_events_release; the count stays. *)
Release ==
    /\ pc = "release" /\ idx <= event_updates_count
    /\ LET e == event_updates[idx]
       IN /\ pool_read' = pool_read \cup IO!EventBuffer(e)
          /\ app_open' = IO!Consumed(e)
    /\ events_free' = events_free + 1
    /\ idx' = idx + 1 /\ Goto("release")
    /\ UNCHANGED <<batchVars, pointerVars, state, joining, svcOpen, phase, link_state, handle,
                   read_buffer, read_len, client_list_free, ready, cmds_free, cmds_ready,
                   send_req_list, svl_link>>

ReleaseDone ==
    /\ pc = "release" /\ idx > event_updates_count
    /\ idx' = 1 /\ Goto("frame")
    /\ UNCHANGED <<batchVars, pointerVars, ioVars>>

(* The frames in which the load generator connects and in which it sends. *)
OpensNow == frame = 0
SendsNow == frame # 0 /\ frame % SendEvery = 0 /\ client_id # NoLink

(* The end of a frame.  When the counter has wrapped, the load generator connects again. *)
EndFrame ==
    /\ pc = "frame"
    /\ \/ role = "loadgen" /\ OpensNow /\ Command("OPEN", NoLink, NoBuf)
       \/ role = "loadgen" /\ SendsNow /\ Command("SEND", client_id, NoBuf)
       \/ /\ role = "server" \/ ~(OpensNow \/ SendsNow)
          /\ UNCHANGED <<pointerVars, ioVars>>
    /\ frame' = IF role = "loadgen" THEN (frame + 1) % FrameMod ELSE frame
    /\ pc' = "loop"
    /\ UNCHANGED <<role, idx, client_id, batchVars>>

(* svl_service_stop finds STOPPING and returns; what follows it is in Lifecycle. *)
Stop ==
    /\ pc = "stop"
    /\ Goto("end")
    /\ UNCHANGED <<idx, batchVars, pointerVars, ioVars>>

Main == \/ Start \/ LoopTest \/ Acquire \/ Dispatch \/ DispatchDone
        \/ Release \/ ReleaseDone \/ EndFrame \/ Stop

-----------------------------------------------------------------------------
(* The IO thread, while the process lives. *)

Alive == pc \notin {"end", "crashed"}

IoQuiet ==
    /\ Alive
    /\ \/ \E l \in Links : \/ role = "server" /\ IO!on_inbound_connection_cb(l)
                           \/ IO!on_outbound_connection_cb(l)
                           \/ IO!RecvData(l) \/ IO!RecvAgain(l) \/ IO!RecvError(l)
       \/ \E r \in WriteReqs : IO!on_send_cb(r)
       \/ IO!on_sigint_cb \/ IO!PollDone \/ IO!CheckDone
       \/ IO!Closing \/ IO!on_timer_cb \/ IO!NoTimerDue
    /\ uv_buf' = [r \in WriteReqs |-> IF r \in send_req_list' THEN NoBuf ELSE uv_buf[r]]
    /\ UNCHANGED <<loopVars, batchVars, cmd_buffer>>

(* on_check_cb also passes cmd_send->buffer on to the write request it takes. *)
IoCommand ==
    /\ Alive
    /\ IO!on_check_cb
    /\ cmd_buffer' = Tail(cmd_buffer)
    /\ uv_buf' = [r \in WriteReqs |-> IF r \in send_req_list \ send_req_list'
                                      THEN Head(cmd_buffer) ELSE uv_buf[r]]
    /\ UNCHANGED <<loopVars, batchVars>>

(* The process has ended. *)
Ended == ~Alive /\ UNCHANGED vars

Next == Main \/ IoQuiet \/ IoCommand \/ Ended

(* The IO thread is inside on_check_cb. *)
IoDrain == phase = "check" /\ (IoCommand \/ IoQuiet)

(* The main thread is scheduled, and the IO thread does not stop inside a callback. *)
Spec == Init /\ [][Next]_vars /\ WF_vars(Main) /\ WF_vars(IoDrain)

-----------------------------------------------------------------------------
(* The part of the batch that is not yet back in the free list. *)
Unreleased ==
    CASE pc \in {"dispatch", "crashed"} -> SubSeq(event_updates, 1, event_updates_count)
      [] pc = "release" -> SubSeq(event_updates, idx, event_updates_count)
      [] OTHER -> << >>

DP == INSTANCE Datapath
         WITH events <- Unreleased \o ready,
              event_updates_count <- Len(Unreleased)

(***************************************************************************)
(* The programs use the library as Datapath assumes: a release in every    *)
(* frame, with a count that release does not clear, never puts an event or *)
(* a read buffer back twice, because svl_service_events_acquire clears the *)
(* count even when it fails.  With it every invariant of Datapath holds    *)
(* for the programs.                                                       *)
(***************************************************************************)
ImplementsDatapath == DP!Spec

(***************************************************************************)
(* The server cannot hold its own IO thread in on_check_cb, which drains   *)
(* the command queue until it finds it empty while main goes on queueing:  *)
(* every command of the server answers a READ event, and those come from   *)
(* the poll phase that the IO thread is kept from.                         *)
(***************************************************************************)
EchoDrains == role = "server" => (phase = "check" ~> phase # "check" \/ ~Alive)

(***************************************************************************)
(* What the program sends is not overwritten before it is sent: memory a   *)
(* queued or pending send points into is not at the IO thread's disposal   *)
(* for receiving (pool_read is the "IO thread's buffer pool for recv").    *)
(***************************************************************************)
RecvOwned == pool_read \cup {read_buffer[l] : l \in Links}
SentMemoryStable ==
    /\ \A r \in WriteReqs \ send_req_list : uv_buf[r] \notin RecvOwned \ {NoBuf}
    /\ \A i \in 1..Len(cmds_ready) :
         cmds_ready[i].type = "SEND" => cmd_buffer[i] \notin RecvOwned \ {NoBuf}
=============================================================================
