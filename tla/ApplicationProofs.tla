------------------------- MODULE ApplicationProofs -------------------------
(***************************************************************************)
(* The two programs use the library as Datapath assumes, for any sets of   *)
(* links, buffers and write requests and any pool sizes; and what is       *)
(* proved of Datapath then holds for the programs.                         *)
(***************************************************************************)
EXTENDS Application, TLAPS

(* The theorems about the library, for the events that the programs have in flight. *)
Lib == INSTANCE SessionsProofs
          WITH events <- Unreleased \o ready,
               event_updates_count <- Len(Unreleased)

LEMMA LibAssumption == Lib!DatapathAssumption
BY ApplicationAssumption DEF Lib!DatapathAssumption

(* The batch is well formed and idx stays within it. *)
BatchInv ==
    /\ event_updates \in Seq(Lib!Event)
    /\ event_updates_count \in 0..Len(event_updates)
    /\ event_updates_count <= EventCount
    /\ idx \in 1..(event_updates_count + 1)
    /\ ready \in Seq(Lib!Event)

(* The pointers that go along with commands and writes are to read buffers or to none. *)
PointerInv ==
    /\ cmd_buffer \in Seq(Buffers \cup {NoBuf})
    /\ Len(cmd_buffer) = Len(cmds_ready)
    /\ uv_buf \in [WriteReqs -> Buffers \cup {NoBuf}]

LoopInv ==
    /\ role \in {"server", "loadgen"}
    /\ pc \in {"start", "loop", "acquire", "dispatch", "release", "frame", "stop", "end",
              "crashed"}
    /\ frame \in 0..(FrameMod - 1)
    /\ client_id \in Links \cup {NoLink}
    /\ joining = FALSE

AppInv == BatchInv /\ PointerInv /\ LoopInv /\ Lib!TypeInv

-----------------------------------------------------------------------------
(* The IO thread works on the queue alone: its steps are steps of the library. *)

(* What main still has of its batch is a sequence of events. *)
LEMMA UnreleasedTyped == ASSUME BatchInv PROVE Unreleased \in Seq(Lib!Event)
<1>1. /\ event_updates_count \in Nat /\ event_updates_count <= Len(event_updates)
      /\ idx \in Nat /\ idx >= 1 /\ Len(event_updates) \in Nat
  BY DEF BatchInv
<1>2. \A m \in {1, idx} : SubSeq(event_updates, m, event_updates_count) \in Seq(Lib!Event)
  BY <1>1 DEF BatchInv
<1>3. << >> \in Seq(Lib!Event)
  OBVIOUS
<1> QED
  BY <1>2, <1>3 DEF Unreleased

LEMMA PushRefines ==
    ASSUME NEW e \in Lib!Event, BatchInv, UNCHANGED Unreleased, IO!PushEvent(e)
    PROVE  Lib!PushEvent(e) /\ ready' \in Seq(Lib!Event)
<1>1. Unreleased \in Seq(Lib!Event) /\ ready \in Seq(Lib!Event) /\ ready' = Append(ready, e)
  BY UnreleasedTyped DEF BatchInv, IO!PushEvent
<1>2. Unreleased' \o ready' = Append(Unreleased \o ready, e)
  BY <1>1
<1> QED
  BY <1>1, <1>2 DEF IO!PushEvent, Lib!PushEvent

LEMMA StayRefines ==
    ASSUME BatchInv, UNCHANGED Unreleased, UNCHANGED IO!eventVars
    PROVE  UNCHANGED Lib!eventVars /\ ready' \in Seq(Lib!Event)
BY DEF BatchInv, IO!eventVars, Lib!eventVars

(* The callbacks of the poll phase that tell the application something. *)
LEMMA AnnounceRefines ==
    ASSUME NEW l \in Links, BatchInv, UNCHANGED Unreleased, IO!Announce(l)
    PROVE  Lib!Announce(l) /\ ready' \in Seq(Lib!Event)
<1>1. Lib!OpenEvent(l) \in Lib!Event /\ IO!OpenEvent(l) = Lib!OpenEvent(l)
  BY DEF Lib!Event, Lib!EventType, Lib!OpenEvent, IO!OpenEvent
<1> QED
  BY <1>1, PushRefines, StayRefines
  DEF IO!Announce, Lib!Announce, IO!StartReading, Lib!StartReading,
      IO!CloseHandle, Lib!CloseHandle

LEMMA RecvRefines ==
    ASSUME NEW l \in Links, BatchInv, UNCHANGED Unreleased, IO!RecvData(l)
    PROVE  Lib!RecvData(l) /\ ready' \in Seq(Lib!Event)
<1>1. \A b \in Buffers : Lib!ReadEvent(l, b) \in Lib!Event /\ IO!ReadEvent(l, b) = Lib!ReadEvent(l, b)
  BY DEF Lib!Event, Lib!EventType, Lib!ReadEvent, IO!ReadEvent
<1>2. /\ \A b \in Buffers : IO!on_recv_alloc_cb(l, b) <=> Lib!on_recv_alloc_cb(l, b)
      /\ IO!NoRoom(l) <=> Lib!NoRoom(l)
      /\ IO!Remaining(l) = Lib!Remaining(l)
  BY DEF IO!on_recv_alloc_cb, Lib!on_recv_alloc_cb, IO!NoRoom, Lib!NoRoom,
         IO!Remaining, Lib!Remaining
<1>3. PICK b \in Buffers :
        /\ IO!on_recv_alloc_cb(l, b)
        /\ \/ IO!RecvDeliver(l, b)
           \/ \E n \in 1..IO!Remaining(l) : IO!RecvKeep(l, b, n)
  BY DEF IO!RecvData
<1>4. ASSUME IO!RecvDeliver(l, b) PROVE Lib!RecvDeliver(l, b) /\ ready' \in Seq(Lib!Event)
  BY <1>1, <1>4, PushRefines DEF IO!RecvDeliver, Lib!RecvDeliver, IO!ClearBuffer, Lib!ClearBuffer
<1>5. ASSUME NEW n, IO!RecvKeep(l, b, n) PROVE Lib!RecvKeep(l, b, n) /\ ready' \in Seq(Lib!Event)
  BY <1>5, StayRefines DEF IO!RecvKeep, Lib!RecvKeep
<1>6. /\ phase = "poll" /\ handle[l] = "reading" /\ ~Lib!NoRoom(l)
      /\ UNCHANGED <<Lib!linkVars, Lib!cmdVars, Lib!sendVars, Lib!loopVars>>
  BY <1>2 DEF IO!RecvData, IO!linkVars, IO!cmdVars, IO!sendVars, IO!loopVars,
      Lib!linkVars, Lib!cmdVars, Lib!sendVars, Lib!loopVars
<1> QED
  BY <1>2, <1>3, <1>4, <1>5, <1>6 DEF Lib!RecvData

LEMMA CloseRefines ==
    ASSUME NEW l \in Links, BatchInv, UNCHANGED Unreleased, IO!on_close_link_cb(l)
    PROVE  Lib!on_close_link_cb(l) /\ ready' \in Seq(Lib!Event)
<1>1. Lib!CloseEvent(l) \in Lib!Event /\ IO!CloseEvent(l) = Lib!CloseEvent(l)
  BY DEF Lib!Event, Lib!EventType, Lib!CloseEvent, IO!CloseEvent
<1>2. Lib!ReportClose(l) /\ ready' \in Seq(Lib!Event)
  BY <1>1, PushRefines, StayRefines
  DEF IO!on_close_link_cb, IO!ReportClose, Lib!ReportClose, IO!svl_link_list_close,
      Lib!svl_link_list_close
<1> QED
  BY <1>2
  DEF IO!on_close_link_cb, Lib!on_close_link_cb, IO!InFlight, Lib!InFlight,
      IO!ReturnBuffer, Lib!ReturnBuffer, IO!ClearBuffer, Lib!ClearBuffer,
      IO!cmdVars, Lib!cmdVars, IO!loopVars, Lib!loopVars

(* The two connection callbacks. *)
LEMMA ConnectionRefines ==
    ASSUME NEW l \in Links, BatchInv, UNCHANGED Unreleased
    PROVE  /\ IO!on_inbound_connection_cb(l) =>
                Lib!on_inbound_connection_cb(l) /\ ready' \in Seq(Lib!Event)
           /\ IO!on_outbound_connection_cb(l) =>
                Lib!on_outbound_connection_cb(l) /\ ready' \in Seq(Lib!Event)
BY AnnounceRefines
DEF IO!on_inbound_connection_cb, Lib!on_inbound_connection_cb, IO!on_outbound_connection_cb,
    Lib!on_outbound_connection_cb, IO!svl_link_list_open, Lib!svl_link_list_open,
    IO!ClearBuffer, Lib!ClearBuffer, IO!bufVars, Lib!bufVars, IO!cmdVars, Lib!cmdVars,
    IO!sendVars, Lib!sendVars, IO!loopVars, Lib!loopVars

(* The steps of the IO thread that tell the application nothing. *)
LEMMA QuietRefines ==
    ASSUME BatchInv, UNCHANGED Unreleased, UNCHANGED ready
    PROVE  /\ \A l \in Links : /\ IO!RecvAgain(l) => Lib!RecvAgain(l)
                               /\ IO!RecvError(l) => Lib!RecvError(l)
           /\ \A r \in WriteReqs : IO!on_send_cb(r) => Lib!on_send_cb(r)
           /\ IO!on_sigint_cb => Lib!on_sigint_cb
           /\ IO!PollDone => Lib!PollDone
           /\ IO!CheckDone => Lib!CheckDone
           /\ IO!ClosingDone => Lib!ClosingDone
           /\ IO!LoopExit => Lib!LoopExit
           /\ IO!on_timer_cb => Lib!on_timer_cb
           /\ IO!NoTimerDue => Lib!NoTimerDue
           /\ IO!on_check_cb => Lib!on_check_cb
<1>1. \A l \in Links : IO!RecvAgain(l) => Lib!RecvAgain(l)
  BY DEF IO!RecvAgain, Lib!RecvAgain, IO!NoRoom, Lib!NoRoom, IO!Remaining, Lib!Remaining,
      IO!on_recv_alloc_cb, Lib!on_recv_alloc_cb,
      IO!linkVars, Lib!linkVars, IO!eventVars, Lib!eventVars, IO!cmdVars, Lib!cmdVars,
      IO!sendVars, Lib!sendVars, IO!loopVars, Lib!loopVars
<1>2. \A l \in Links : IO!RecvError(l) => Lib!RecvError(l)
  BY DEF IO!RecvError, Lib!RecvError, IO!RecvEnd, Lib!RecvEnd, IO!RecvNoBufs, Lib!RecvNoBufs,
      IO!NoRoom, Lib!NoRoom, IO!Remaining, Lib!Remaining, IO!on_recv_alloc_cb,
      Lib!on_recv_alloc_cb, IO!CloseHandle, Lib!CloseHandle,
      IO!eventVars, Lib!eventVars, IO!cmdVars, Lib!cmdVars,
      IO!sendVars, Lib!sendVars, IO!loopVars, Lib!loopVars
<1>3. /\ \A r \in WriteReqs : IO!on_send_cb(r) => Lib!on_send_cb(r)
      /\ IO!on_sigint_cb => Lib!on_sigint_cb
      /\ IO!PollDone => Lib!PollDone
      /\ IO!CheckDone => Lib!CheckDone
      /\ IO!ClosingDone => Lib!ClosingDone
      /\ IO!LoopExit => Lib!LoopExit
      /\ IO!on_timer_cb => Lib!on_timer_cb
      /\ IO!NoTimerDue => Lib!NoTimerDue
  BY DEF IO!on_send_cb, Lib!on_send_cb, IO!on_sigint_cb, Lib!on_sigint_cb,
      IO!PollDone, Lib!PollDone, IO!CheckDone, Lib!CheckDone, IO!ClosingDone, Lib!ClosingDone,
      IO!LoopExit, Lib!LoopExit, IO!LoopAlive, Lib!LoopAlive, IO!on_timer_cb, Lib!on_timer_cb,
      IO!KeepOpen, Lib!KeepOpen, IO!NoTimerDue, Lib!NoTimerDue,
      IO!linkVars, Lib!linkVars, IO!bufVars, Lib!bufVars, IO!eventVars, Lib!eventVars,
      IO!cmdVars, Lib!cmdVars, IO!sendVars, Lib!sendVars, IO!loopVars, Lib!loopVars
<1>4. IO!on_check_cb => Lib!on_check_cb
  BY DEF IO!on_check_cb, Lib!on_check_cb, IO!handle_cmd_open, Lib!handle_cmd_open,
      IO!OpenConnecting, Lib!OpenConnecting, IO!OpenRefused, Lib!OpenRefused,
      IO!svl_link_list_open, Lib!svl_link_list_open, IO!ClearBuffer, Lib!ClearBuffer,
      IO!handle_cmd_close, Lib!handle_cmd_close, IO!CloseHandle, Lib!CloseHandle,
      IO!LinkUsable, Lib!LinkUsable, IO!svl_link_list_get, Lib!svl_link_list_get,
      IO!handle_cmd_send, Lib!handle_cmd_send, IO!SendOn, Lib!SendOn,
      IO!linkVars, Lib!linkVars, IO!bufVars, Lib!bufVars, IO!eventVars, Lib!eventVars,
      IO!sendVars, Lib!sendVars, IO!loopVars, Lib!loopVars
<1> QED
  BY <1>1, <1>2, <1>3, <1>4

(* An IO step of a program is an IO step of the library. *)
LEMMA IoRefines ==
    ASSUME BatchInv, IoQuiet \/ IoCommand
    PROVE  Lib!IoThread /\ ready' \in Seq(Lib!Event) /\ UNCHANGED <<loopVars, batchVars>>
<1>1. UNCHANGED <<loopVars, batchVars>>
  BY DEF IoQuiet, IoCommand
<1>2. UNCHANGED Unreleased
  BY <1>1 DEF loopVars, batchVars, Unreleased
<1>r. ready \in Seq(Lib!Event)
  BY DEF BatchInv
<1> DEFINE Goal == Lib!IoThread /\ ready' \in Seq(Lib!Event)
<1>3. ASSUME NEW l \in Links, IO!on_inbound_connection_cb(l) \/ IO!on_outbound_connection_cb(l)
      PROVE  Goal
  BY <1>2, <1>3, ConnectionRefines DEF Lib!IoThread, Lib!Poll
<1>4. ASSUME NEW l \in Links, IO!RecvData(l) PROVE Goal
  BY <1>2, <1>4, RecvRefines DEF Lib!IoThread, Lib!Poll
<1>5. ASSUME NEW l \in Links, IO!on_close_link_cb(l) PROVE Goal
  BY <1>2, <1>5, CloseRefines DEF Lib!IoThread, Lib!Closing
<1>6. ASSUME NEW l \in Links, IO!RecvAgain(l) \/ IO!RecvError(l) PROVE Goal
  <2>1. UNCHANGED ready
    BY <1>6 DEF IO!RecvAgain, IO!RecvError, IO!eventVars
  <2> QED
    BY <1>2, <1>6, <1>r, <2>1, QuietRefines DEF Lib!IoThread, Lib!Poll
<1>7. ASSUME NEW r \in WriteReqs, IO!on_send_cb(r) PROVE Goal
  <2>1. UNCHANGED ready
    BY <1>7 DEF IO!on_send_cb, IO!eventVars
  <2> QED
    BY <1>2, <1>7, <1>r, <2>1, QuietRefines DEF Lib!IoThread, Lib!Poll
<1>8. CASE IO!on_sigint_cb \/ IO!PollDone \/ IO!CheckDone \/ IO!ClosingDone \/ IO!LoopExit
           \/ IO!on_timer_cb \/ IO!NoTimerDue \/ IO!on_check_cb
  <2>1. UNCHANGED ready
    BY <1>8 DEF IO!on_sigint_cb, IO!PollDone, IO!CheckDone, IO!ClosingDone, IO!LoopExit,
       IO!on_timer_cb, IO!NoTimerDue, IO!on_check_cb, IO!eventVars
  <2> QED
    BY <1>1, <1>2, <1>8, <1>r, <2>1, QuietRefines DEF Lib!IoThread, Lib!Poll, Lib!Closing
<1> QED
  BY <1>1, <1>3, <1>4, <1>5, <1>6, <1>7, <1>8 DEF IoQuiet, IoCommand, IO!Closing

-----------------------------------------------------------------------------
(* The main loop: each of its steps is one call of the library, or none. *)

(* A step that leaves the library's variables and the unreleased events alone. *)
LEMMA LibStays ==
    ASSUME UNCHANGED <<ioVars, Unreleased>>
    PROVE  UNCHANGED Lib!vars
BY DEF ioVars, Lib!vars, Lib!linkVars, Lib!bufVars, Lib!eventVars, Lib!cmdVars, Lib!sendVars,
   Lib!loopVars

(* A command is queued by the library's call, or refused. *)
LEMMA CommandRefines ==
    ASSUME NEW type, NEW c, NEW msg, Command(type, c, msg), UNCHANGED Unreleased
    PROVE  \/ state = "STARTED" /\ Lib!QueueCmd(type, c) /\ UNCHANGED ready
           \/ UNCHANGED Lib!vars /\ UNCHANGED ioVars
<1>1. CASE state = "STARTED" /\ cmds_free > 0
  BY <1>1 DEF Command, IO!QueueCmd, Lib!QueueCmd,
     IO!linkVars, Lib!linkVars, IO!bufVars, Lib!bufVars, IO!eventVars, Lib!eventVars,
     IO!sendVars, Lib!sendVars, IO!loopVars, Lib!loopVars
<1>2. CASE ~(state = "STARTED" /\ cmds_free > 0)
  BY <1>2, LibStays DEF Command
<1> QED
  BY <1>1, <1>2

(* Acquiring takes the whole queue into the batch, or finds it empty. *)
LEMMA AcquireRefines ==
    ASSUME AppInv, Acquire
    PROVE  Lib!svl_service_events_acquire \/ UNCHANGED Lib!vars
<1>1. Unreleased = << >> /\ ready \in Seq(Lib!Event) /\ Unreleased \o ready = ready
      /\ Len(Unreleased) = 0
  BY DEF Acquire, Unreleased, AppInv, BatchInv
<1>2. Unreleased' = SubSeq(event_updates', 1, event_updates_count')
  BY DEF Acquire, Goto, Unreleased
<1>3. UNCHANGED <<events_free, app_open, Lib!linkVars, Lib!bufVars, Lib!cmdVars,
                  Lib!sendVars, Lib!loopVars>>
  BY DEF Acquire, Lib!linkVars, Lib!bufVars, Lib!cmdVars, Lib!sendVars, Lib!loopVars
<1>4. CASE ready = << >>
  <2>1. Unreleased' = << >> /\ ready' = << >>
    BY <1>2, <1>4 DEF Acquire, svl_service_events_acquire
  <2> QED
    BY <1>1, <1>3, <1>4, <2>1 DEF Lib!vars, Lib!eventVars
<1>5. CASE ready # << >>
  <2>1. Unreleased' = SubSeq(ready, 1, Len(ready)) /\ ready' = << >>
    BY <1>2, <1>5 DEF Acquire, svl_service_events_acquire
  <2>2. SubSeq(ready, 1, Len(ready)) = ready /\ ready \o << >> = ready
    BY <1>1
  <2> QED
    BY <1>1, <1>3, <1>5, <2>1, <2>2
    DEF Lib!svl_service_events_acquire, Lib!MainFree, AppInv, LoopInv
<1> QED
  BY <1>4, <1>5

(* A part of a sequence without its first element is the part that starts one later. *)
LEMMA SubSeqTail ==
    ASSUME NEW S, NEW s \in Seq(S), NEW i \in Nat \ {0}, NEW n \in Nat, i <= n, n <= Len(s)
    PROVE  /\ SubSeq(s, i, n) \in Seq(S) /\ Len(SubSeq(s, i, n)) = n - i + 1
           /\ SubSeq(s, i, n)[1] = s[i]
           /\ SubSeq(s, i + 1, n) = Tail(SubSeq(s, i, n))
<1> DEFINE t == SubSeq(s, i, n)
           u == SubSeq(s, i + 1, n)
<1>1. t \in Seq(S) /\ Len(t) = n - i + 1 /\ \A k \in 1..Len(t) : t[k] = s[i + k - 1]
  OBVIOUS
<1>2. u \in Seq(S) /\ Len(u) = n - i /\ \A k \in 1..Len(u) : u[k] = s[i + 1 + k - 1]
  OBVIOUS
<1> HIDE DEF t, u
<1>3. Len(t) \in Nat \ {0} /\ t # << >>
  BY <1>1
<1>4. Tail(t) \in Seq(S) /\ Len(Tail(t)) = n - i /\ \A k \in 1..Len(Tail(t)) : Tail(t)[k] = t[k + 1]
  BY <1>1, <1>3
<1>5. \A k \in 1..Len(u) : u[k] = Tail(t)[k]
  <2> TAKE k \in 1..Len(u)
  <2>1. k \in 1..Len(Tail(t)) /\ k + 1 \in 1..Len(t) /\ i + (k + 1) - 1 = i + 1 + k - 1
    BY <1>1, <1>2, <1>4
  <2> QED
    BY <1>1, <1>2, <1>4, <2>1
<1>6. u = Tail(t)
  BY <1>2, <1>4, <1>5
<1>7. t[1] = s[i]
  BY <1>1
<1> QED
  BY <1>1, <1>6, <1>7 DEF t, u

LEMMA ConcatTail ==
    ASSUME NEW S, NEW t \in Seq(S), NEW r \in Seq(S), Len(t) \in Nat \ {0}
    PROVE  Head(t \o r) = t[1] /\ Tail(t \o r) = Tail(t) \o r
<1>1. t \o r \in Seq(S) /\ Len(t \o r) = Len(t) + Len(r) /\ t \o r # << >>
  OBVIOUS
<1>2. Head(t \o r) = t[1]
  BY <1>1
<1>3. Tail(t) \in Seq(S) /\ Len(Tail(t)) = Len(t) - 1
  OBVIOUS
<1>4. /\ Tail(t \o r) \in Seq(S) /\ Tail(t) \o r \in Seq(S)
      /\ Len(Tail(t \o r)) = Len(Tail(t) \o r)
  BY <1>1, <1>3
<1>5. \A k \in 1..Len(Tail(t) \o r) : Tail(t \o r)[k] = (Tail(t) \o r)[k]
  BY <1>1, <1>3
<1> QED
  BY <1>2, <1>4, <1>5

(* A turn of the release loop takes the oldest event. *)
LEMMA ReleaseRefines ==
    ASSUME AppInv, Release
    PROVE  Lib!svl_service_events_release
<1>1. /\ idx \in Nat /\ idx >= 1 /\ event_updates_count \in Nat /\ idx <= event_updates_count
      /\ event_updates_count <= Len(event_updates) /\ Len(event_updates) \in Nat
      /\ event_updates \in Seq(Lib!Event) /\ ready \in Seq(Lib!Event)
  BY DEF AppInv, BatchInv, Release
<1>2. /\ Unreleased = SubSeq(event_updates, idx, event_updates_count)
      /\ Unreleased' = SubSeq(event_updates, idx + 1, event_updates_count)
  BY DEF Release, Goto, Unreleased, batchVars
<1>3. /\ Unreleased \in Seq(Lib!Event) /\ Len(Unreleased) = event_updates_count - idx + 1
      /\ Len(Unreleased) \in Nat \ {0} /\ Unreleased[1] = event_updates[idx]
      /\ Unreleased' = Tail(Unreleased)
  <2>1. /\ SubSeq(event_updates, idx, event_updates_count) \in Seq(Lib!Event)
        /\ Len(SubSeq(event_updates, idx, event_updates_count)) = event_updates_count - idx + 1
        /\ SubSeq(event_updates, idx, event_updates_count)[1] = event_updates[idx]
        /\ SubSeq(event_updates, idx + 1, event_updates_count)
             = Tail(SubSeq(event_updates, idx, event_updates_count))
    <3>1. /\ event_updates \in Seq(Lib!Event) /\ idx \in Nat \ {0} /\ event_updates_count \in Nat
          /\ idx <= event_updates_count /\ event_updates_count <= Len(event_updates)
      BY <1>1
    <3>2. ASSUME NEW s \in Seq(Lib!Event), NEW i \in Nat \ {0}, NEW n \in Nat, i <= n, n <= Len(s)
          PROVE  /\ SubSeq(s, i, n) \in Seq(Lib!Event) /\ Len(SubSeq(s, i, n)) = n - i + 1
                 /\ SubSeq(s, i, n)[1] = s[i]
                 /\ SubSeq(s, i + 1, n) = Tail(SubSeq(s, i, n))
      BY <3>2, SubSeqTail
    <3> QED
      BY ONLY <3>1, <3>2, Zenon
  <2>2. event_updates_count - idx + 1 \in Nat \ {0}
    BY <1>1
  <2> QED
    BY <1>2, <2>1, <2>2
<1>4. /\ Head(Unreleased \o ready) = event_updates[idx]
      /\ Tail(Unreleased \o ready) = Unreleased' \o ready
  <2>1. Head(Unreleased \o ready) = Unreleased[1] /\ Tail(Unreleased \o ready) = Tail(Unreleased) \o ready
    BY <1>1, <1>3, ConcatTail, Zenon
  <2> QED
    BY <1>3, <2>1
<1>5. /\ pool_read' = pool_read \cup Lib!EventBuffer(event_updates[idx])
      /\ app_open' = Lib!Consumed(event_updates[idx])
  BY DEF Release, IO!EventBuffer, Lib!EventBuffer, IO!Consumed, Lib!Consumed
<1>6. /\ events_free' = events_free + 1 /\ ready' = ready /\ joining = FALSE
      /\ UNCHANGED <<read_buffer, read_len, Lib!linkVars, Lib!cmdVars, Lib!sendVars,
                     Lib!loopVars>>
  BY DEF Release, AppInv, LoopInv, Lib!linkVars, Lib!cmdVars, Lib!sendVars, Lib!loopVars
<1> QED
  BY <1>3, <1>4, <1>5, <1>6 DEF Lib!svl_service_events_release, Lib!MainFree

(* A step of the main loop is a call of the library, or leaves it alone. *)
LEMMA MainRefines ==
    ASSUME AppInv, Main
    PROVE  Lib!Next \/ UNCHANGED Lib!vars
<1>0. /\ event_updates_count \in Nat /\ idx \in Nat
      /\ event_updates_count <= Len(event_updates)
      /\ event_updates \in Seq(Lib!Event)
  BY DEF AppInv, BatchInv
<1>1. CASE Start
  <2>1. UNCHANGED <<Unreleased, ready>>
    BY <1>1 DEF Start, Goto, Unreleased, IO!svl_service_start, IO!eventVars
  <2>2. Lib!svl_service_start
    BY <1>1, <2>1 DEF Start, IO!svl_service_start, Lib!svl_service_start,
       IO!linkVars, Lib!linkVars, IO!bufVars, Lib!bufVars, IO!eventVars, Lib!eventVars,
       IO!cmdVars, Lib!cmdVars
  <2> QED
    BY <2>2 DEF Lib!Next, Lib!Main
<1>2. CASE LoopTest \/ Stop
  <2>1. UNCHANGED <<Unreleased, ioVars>>
    BY <1>2 DEF LoopTest, Stop, Goto, Unreleased
  <2> QED
    BY <2>1, LibStays
<1>3. CASE Acquire
  BY <1>3, AcquireRefines DEF Lib!Next, Lib!Main
<1>4. CASE Dispatch
  <2>1. UNCHANGED Unreleased
    BY <1>4 DEF Dispatch, EchoRead, LearnClient, JustLog, Goto, Unreleased, batchVars
  <2>2. \/ \E c \in Links \cup {NoLink} : Command("SEND", c, event_updates[idx].buf)
        \/ UNCHANGED ioVars
    BY <1>4 DEF Dispatch, EchoRead, LearnClient, JustLog
  <2>3. ASSUME NEW c \in Links \cup {NoLink}, Command("SEND", c, event_updates[idx].buf)
        PROVE  Lib!Next \/ UNCHANGED Lib!vars
    BY <2>1, <2>3, CommandRefines DEF Lib!Next, Lib!Main, Lib!svl_service_cmd_send
  <2> QED
    BY <2>1, <2>2, <2>3, LibStays
<1>5. CASE DispatchDone
  <2>1. UNCHANGED <<Unreleased, ioVars>>
    BY <1>5 DEF DispatchDone, Goto, Unreleased, batchVars
  <2> QED
    BY <2>1, LibStays
<1>6. CASE Release
  BY <1>6, ReleaseRefines DEF Lib!Next, Lib!Main
<1>7. CASE ReleaseDone
  <2>1. Unreleased = SubSeq(event_updates, idx, event_updates_count) /\ Unreleased' = << >>
    BY <1>7 DEF ReleaseDone, Goto, Unreleased
  <2>2. SubSeq(event_updates, idx, event_updates_count) = << >>
    BY <1>0, <1>7 DEF ReleaseDone
  <2> QED
    BY <1>7, <2>1, <2>2, LibStays DEF ReleaseDone
<1>8. CASE EndFrame
  <2>1. UNCHANGED Unreleased
    BY <1>8 DEF EndFrame, Unreleased
  <2>2. \/ Command("OPEN", NoLink, NoBuf)
        \/ Command("SEND", client_id, NoBuf)
        \/ UNCHANGED ioVars
    BY <1>8 DEF EndFrame
  <2>3. client_id \in Links \cup {NoLink}
    BY DEF AppInv, LoopInv
  <2>4. CASE Command("OPEN", NoLink, NoBuf)
    BY <2>1, <2>4, CommandRefines DEF Lib!Next, Lib!Main, Lib!svl_service_cmd_open
  <2>5. CASE Command("SEND", client_id, NoBuf)
    BY <2>1, <2>3, <2>5, CommandRefines DEF Lib!Next, Lib!Main, Lib!svl_service_cmd_send
  <2> QED
    BY <2>1, <2>2, <2>4, <2>5, LibStays
<1> QED
  BY <1>1, <1>2, <1>3, <1>4, <1>5, <1>6, <1>7, <1>8 DEF Main

(* Every step of a program is a step of the library or a stutter of it. *)
LEMMA StepRefines == AppInv /\ [Next]_vars => [Lib!Next]_Lib!vars
<1> SUFFICES ASSUME AppInv, [Next]_vars PROVE Lib!Next \/ UNCHANGED Lib!vars
  OBVIOUS
<1>1. CASE Main
  BY <1>1, MainRefines
<1>2. CASE IoQuiet \/ IoCommand
  BY <1>2, IoRefines DEF AppInv, Lib!Next
<1>3. CASE UNCHANGED vars
  <2>1. UNCHANGED <<Unreleased, ioVars>>
    BY <1>3 DEF vars, loopVars, batchVars, Unreleased
  <2> QED
    BY <2>1, LibStays
<1> QED
  BY <1>1, <1>2, <1>3 DEF Next, Ended

-----------------------------------------------------------------------------
(* The invariant. *)

LEMMA InitRefines == Init => Lib!Init
<1> SUFFICES ASSUME Init PROVE Lib!Init
  OBVIOUS
<1>1. Unreleased = << >> /\ ready = << >> /\ Unreleased \o ready = << >> /\ Len(Unreleased) = 0
  BY DEF Init, IO!Init, Unreleased
<1> QED
  BY <1>1 DEF Init, IO!Init, Lib!Init, IO!svl_link_list_setup, Lib!svl_link_list_setup

LEMMA InitInv == Init => AppInv
<1> SUFFICES ASSUME Init PROVE AppInv
  OBVIOUS
<1>1. Lib!TypeInv
  BY InitRefines, LibAssumption, Lib!InitTyping
<1>2. BatchInv /\ PointerInv
  BY ApplicationAssumption DEF Init, IO!Init, BatchInv, PointerInv
<1>3. LoopInv
  BY ApplicationAssumption DEF Init, IO!Init, LoopInv
<1> QED
  BY <1>1, <1>2, <1>3 DEF AppInv

(* What an IO step may do to the rest of what the programs look at. *)
LEMMA IoEffects ==
    ASSUME LoopInv, IoQuiet \/ IoCommand
    PROVE  /\ joining' = FALSE
           /\ IoQuiet => UNCHANGED <<cmds_ready, cmd_buffer>>
<1>1. IoCommand => joining' = joining
  BY DEF IoCommand, IO!on_check_cb, IO!loopVars
<1>2. ASSUME NEW l \in Links,
             \/ IO!on_inbound_connection_cb(l) \/ IO!on_outbound_connection_cb(l)
             \/ IO!RecvData(l) \/ IO!RecvAgain(l) \/ IO!RecvError(l) \/ IO!on_close_link_cb(l)
      PROVE  UNCHANGED <<joining, cmds_ready>>
  BY <1>2 DEF IO!on_inbound_connection_cb, IO!on_outbound_connection_cb, IO!RecvData,
     IO!RecvAgain, IO!RecvError, IO!on_close_link_cb, IO!cmdVars, IO!loopVars
<1>3. ASSUME NEW r \in WriteReqs, IO!on_send_cb(r) PROVE UNCHANGED <<joining, cmds_ready>>
  BY <1>3 DEF IO!on_send_cb, IO!cmdVars, IO!loopVars
<1>4. ASSUME \/ IO!on_sigint_cb \/ IO!PollDone \/ IO!CheckDone \/ IO!ClosingDone \/ IO!LoopExit
             \/ IO!on_timer_cb \/ IO!NoTimerDue
      PROVE  joining' \in {joining, FALSE} /\ UNCHANGED cmds_ready
  BY <1>4 DEF IO!on_sigint_cb, IO!PollDone, IO!CheckDone, IO!ClosingDone, IO!LoopExit,
     IO!on_timer_cb, IO!NoTimerDue, IO!cmdVars
<1>5. IoQuiet => joining' \in {joining, FALSE} /\ UNCHANGED <<cmds_ready, cmd_buffer>>
  BY <1>2, <1>3, <1>4 DEF IoQuiet, IO!Closing
<1> QED
  BY <1>1, <1>5 DEF LoopInv

LEMMA StepBatch == ASSUME AppInv, [Next]_vars PROVE BatchInv'
<1>0. BatchInv
  BY DEF AppInv
<1>1. CASE IoQuiet \/ IoCommand
  BY <1>0, <1>1, IoRefines DEF BatchInv, loopVars, batchVars
<1>2. CASE Acquire
  <2>1. ready \in Seq(Lib!Event) /\ Len(ready) \in Nat /\ Len(ready) <= EventCount
    <3>1. /\ Unreleased \o ready \in Seq(Lib!Event) /\ events_free \in Nat
          /\ events_free + Len(Unreleased \o ready) = EventCount
      BY ApplicationAssumption DEF AppInv, Lib!TypeInv, Lib!EventInv, Lib!EventTypeOK
    <3>2. Unreleased = << >> /\ ready \in Seq(Lib!Event)
      BY <1>0, <1>2 DEF Acquire, Unreleased, BatchInv
    <3> QED
      BY <3>1, <3>2, ApplicationAssumption
  <2>2. << >> \in Seq(Lib!Event) /\ Len(<< >>) = 0
    OBVIOUS
  <2>3. /\ event_updates' = ready /\ event_updates_count' = Len(ready) /\ ready' = << >>
        /\ idx' = 1
    BY <1>2, <2>1 DEF Acquire, svl_service_events_acquire
  <2>4. idx' \in 1..(event_updates_count' + 1)
    BY <2>1, <2>3
  <2> QED
    BY <2>1, <2>2, <2>3, <2>4 DEF BatchInv
<1>3. ASSUME UNCHANGED <<batchVars, ready>>, idx' \in {idx, 1} PROVE BatchInv'
  BY <1>0, <1>3 DEF BatchInv, batchVars
<1>4. ASSUME UNCHANGED <<batchVars, ready>>, idx <= event_updates_count, idx' \in {idx, idx + 1}
      PROVE  BatchInv'
  BY <1>0, <1>4 DEF BatchInv, batchVars
<1>5. CASE Start \/ LoopTest \/ DispatchDone \/ ReleaseDone \/ Stop
  BY <1>3, <1>5 DEF Start, LoopTest, DispatchDone, ReleaseDone, Stop, ioVars,
     IO!svl_service_start, IO!eventVars
<1>6. ASSUME NEW type, NEW c, NEW msg, Command(type, c, msg) PROVE UNCHANGED ready
  BY <1>6 DEF Command, IO!QueueCmd, IO!eventVars, ioVars
<1>7. CASE Dispatch
  <2>1. UNCHANGED ready
    BY <1>6, <1>7 DEF Dispatch, EchoRead, LearnClient, JustLog, ioVars
  <2> QED
    BY <1>4, <1>7, <2>1 DEF Dispatch, EchoRead, LearnClient, JustLog
<1>8. CASE Release
  BY <1>4, <1>8 DEF Release
<1>9. CASE EndFrame
  <2>1. UNCHANGED ready
    BY <1>6, <1>9 DEF EndFrame, ioVars
  <2> QED
    BY <1>3, <1>9, <2>1 DEF EndFrame
<1>10. CASE UNCHANGED vars
  BY <1>3, <1>10 DEF vars, ioVars, loopVars
<1> QED
  BY <1>1, <1>2, <1>5, <1>7, <1>8, <1>9, <1>10 DEF Next, Main, Ended

LEMMA StepPointers == ASSUME AppInv, [Next]_vars PROVE PointerInv'
<1>0. PointerInv /\ BatchInv /\ cmds_ready \in Seq(Lib!Command)
  BY DEF AppInv, Lib!TypeInv, Lib!CmdInv, Lib!CmdTypeOK
<1> DEFINE Pointer == Buffers \cup {NoBuf}
<1>1. ASSUME UNCHANGED <<pointerVars, cmds_ready>> PROVE PointerInv'
  BY <1>0, <1>1 DEF PointerInv, pointerVars
<1>2. ASSUME NEW type, NEW c, NEW msg \in Pointer, Command(type, c, msg) PROVE PointerInv'
  <2>1. CASE /\ cmds_ready' = Append(cmds_ready, [type |-> type, client |-> c])
             /\ cmd_buffer' = Append(cmd_buffer, msg) /\ UNCHANGED uv_buf
    BY <1>0, <2>1 DEF PointerInv
  <2>2. CASE UNCHANGED <<pointerVars, ioVars>>
    BY <1>1, <2>2 DEF ioVars
  <2> QED
    BY <1>2, <2>1, <2>2 DEF Command, IO!QueueCmd
<1>3. CASE IoQuiet
  <2>1. UNCHANGED <<cmds_ready, cmd_buffer>>
    BY <1>3, IoEffects DEF AppInv
  <2>2. uv_buf' \in [WriteReqs -> Pointer]
    BY <1>0, <1>3 DEF IoQuiet, PointerInv
  <2> QED
    BY <1>0, <2>1, <2>2 DEF PointerInv
<1>4. CASE IoCommand
  <2>1. cmds_ready # << >> /\ cmds_ready' = Tail(cmds_ready) /\ cmd_buffer' = Tail(cmd_buffer)
    BY <1>4 DEF IoCommand, IO!on_check_cb
  <2>2. Len(cmds_ready) > 0 /\ cmd_buffer # << >>
    BY <1>0, <2>1 DEF PointerInv
  <2>3. /\ Head(cmd_buffer) \in Pointer /\ cmd_buffer' \in Seq(Pointer)
        /\ Len(cmd_buffer') = Len(cmds_ready')
    BY <1>0, <2>1, <2>2 DEF PointerInv
  <2>4. uv_buf' \in [WriteReqs -> Pointer]
    BY <1>0, <1>4, <2>3 DEF IoCommand, PointerInv
  <2> QED
    BY <2>3, <2>4 DEF PointerInv
<1>5. CASE Dispatch
  <2>1. event_updates[idx].buf \in Pointer
    <3>1. idx \in 1..Len(event_updates) /\ event_updates \in Seq(Lib!Event)
      BY <1>0, <1>5 DEF Dispatch, BatchInv
    <3>2. event_updates[idx] \in Lib!Event
      BY <3>1
    <3> QED
      BY <3>2 DEF Lib!Event
  <2>2. \/ \E c \in Links \cup {NoLink} : Command("SEND", c, event_updates[idx].buf)
        \/ UNCHANGED <<pointerVars, ioVars>>
    BY <1>5 DEF Dispatch, EchoRead, LearnClient, JustLog
  <2> QED
    BY <1>1, <1>2, <2>1, <2>2 DEF ioVars
<1>6. CASE EndFrame
  <2>1. \/ Command("OPEN", NoLink, NoBuf) \/ Command("SEND", client_id, NoBuf)
        \/ UNCHANGED <<pointerVars, ioVars>>
    BY <1>6 DEF EndFrame
  <2> QED
    BY <1>1, <1>2, <2>1 DEF ioVars
<1>7. CASE \/ Start \/ LoopTest \/ Acquire \/ DispatchDone \/ Release \/ ReleaseDone \/ Stop
           \/ UNCHANGED vars
  BY <1>1, <1>7 DEF Start, LoopTest, Acquire, DispatchDone, Release, ReleaseDone, Stop, vars,
     ioVars, pointerVars, IO!svl_service_start, IO!cmdVars
<1> QED
  BY <1>3, <1>4, <1>5, <1>6, <1>7 DEF Next, Main, Ended

LEMMA StepLoop == ASSUME AppInv, [Next]_vars PROVE LoopInv'
<1>0. LoopInv /\ BatchInv
  BY DEF AppInv
<1>1. CASE IoQuiet \/ IoCommand
  BY <1>0, <1>1, IoRefines, IoEffects DEF LoopInv, loopVars
<1>2. ASSUME NEW type, NEW c, NEW msg, Command(type, c, msg) PROVE UNCHANGED joining
  BY <1>2 DEF Command, IO!QueueCmd, IO!loopVars, ioVars
<1>3. CASE Dispatch
  <2>1. event_updates[idx].client \in Links
    <3>1. idx \in 1..Len(event_updates) /\ event_updates \in Seq(Lib!Event)
      BY <1>0, <1>3 DEF Dispatch, BatchInv
    <3>2. event_updates[idx] \in Lib!Event
      BY <3>1
    <3> QED
      BY <3>2 DEF Lib!Event
  <2>2. UNCHANGED joining
    BY <1>2, <1>3 DEF Dispatch, EchoRead, LearnClient, JustLog, ioVars
  <2> QED
    BY <1>0, <1>3, <2>1, <2>2 DEF Dispatch, EchoRead, LearnClient, JustLog, Goto, LoopInv
<1>4. CASE EndFrame
  <2>1. UNCHANGED joining
    BY <1>2, <1>4 DEF EndFrame, ioVars
  <2>2. frame' \in 0..(FrameMod - 1)
    BY <1>0, <1>4, ApplicationAssumption DEF EndFrame, LoopInv
  <2> QED
    BY <1>0, <1>4, <2>1, <2>2 DEF EndFrame, LoopInv
<1>5. CASE Start \/ LoopTest \/ Acquire \/ DispatchDone \/ Release \/ ReleaseDone \/ Stop
  BY <1>0, <1>5 DEF Start, LoopTest, Acquire, DispatchDone, Release, ReleaseDone, Stop, Goto,
     ioVars, IO!svl_service_start, LoopInv
<1>6. CASE UNCHANGED vars
  BY <1>0, <1>6 DEF vars, loopVars, ioVars, LoopInv
<1> QED
  BY <1>1, <1>3, <1>4, <1>5, <1>6 DEF Next, Main, Ended

LEMMA StepInv == AppInv /\ [Next]_vars => AppInv'
<1> SUFFICES ASSUME AppInv, [Next]_vars PROVE AppInv'
  OBVIOUS
<1>1. Lib!TypeInv'
  <2>1. Lib!TypeInv /\ [Lib!Next]_Lib!vars
    BY StepRefines DEF AppInv
  <2> QED
    BY <2>1, LibAssumption, Lib!StepTyping
<1> QED
  BY <1>1, StepBatch, StepPointers, StepLoop DEF AppInv

(***************************************************************************)
(* Types of the programs' main loop and of the library below it: idx never *)
(* leaves the batch, and every queued command has its pointer.             *)
(***************************************************************************)
THEOREM ProgramsTyped == Spec => []AppTypeOK
<1>1. AppInv => AppTypeOK
  <2> SUFFICES ASSUME AppInv PROVE AppTypeOK
    OBVIOUS
  <2>1. IO!LoopTypeOK /\ IO!LinkTypeOK /\ IO!BufTypeOK /\ IO!CmdTypeOK /\ IO!SendTypeOK
    BY DEF AppInv, Lib!TypeInv, Lib!CmdInv, IO!LoopTypeOK, Lib!LoopTypeOK, IO!LinkTypeOK,
       Lib!LinkTypeOK, IO!BufTypeOK, Lib!BufTypeOK, IO!CmdTypeOK, Lib!CmdTypeOK,
       IO!SendTypeOK, Lib!SendTypeOK, IO!Command, Lib!Command
  <2>2. IO!Event = Lib!Event
    BY DEF IO!Event, Lib!Event, IO!EventType, Lib!EventType
  <2>3. IO!EventTypeOK
    BY <2>2 DEF AppInv, BatchInv, Lib!TypeInv, Lib!EventInv, IO!EventTypeOK, Lib!EventTypeOK
  <2>4. idx \in 1..(EventCount + 1)
    BY ApplicationAssumption DEF AppInv, BatchInv
  <2> QED
    BY <2>1, <2>2, <2>3, <2>4
    DEF AppInv, BatchInv, PointerInv, LoopInv, AppTypeOK, IO!TypeOK
<1> QED
  BY <1>1, InitInv, StepInv, PTL DEF Spec

-----------------------------------------------------------------------------
(* DP and Lib are the same library under the same mapping. *)
LEMMA SameLibrary ==
    /\ Lib!Init <=> DP!Init
    /\ Lib!Next <=> DP!Next
    /\ UNCHANGED Lib!vars <=> UNCHANGED DP!vars
BY DEF DP!Init, Lib!Init, DP!svl_link_list_setup, Lib!svl_link_list_setup,
   DP!Next, Lib!Next, DP!IoThread, Lib!IoThread, DP!Poll, Lib!Poll, DP!on_inbound_connection_cb,
   Lib!on_inbound_connection_cb, DP!svl_link_list_open, Lib!svl_link_list_open, DP!ClearBuffer,
   Lib!ClearBuffer, DP!Announce, Lib!Announce, DP!PushEvent, Lib!PushEvent, DP!OpenEvent,
   Lib!OpenEvent, DP!StartReading, Lib!StartReading, DP!CloseHandle, Lib!CloseHandle,
   DP!on_outbound_connection_cb, Lib!on_outbound_connection_cb, DP!RecvData, Lib!RecvData,
   DP!NoRoom, Lib!NoRoom, DP!Remaining, Lib!Remaining, DP!on_recv_alloc_cb,
   Lib!on_recv_alloc_cb, DP!RecvDeliver, Lib!RecvDeliver, DP!ReadEvent, Lib!ReadEvent,
   DP!RecvKeep, Lib!RecvKeep, DP!RecvAgain, Lib!RecvAgain, DP!RecvError, Lib!RecvError,
   DP!RecvEnd, Lib!RecvEnd, DP!RecvNoBufs, Lib!RecvNoBufs, DP!on_send_cb, Lib!on_send_cb,
   DP!on_sigint_cb, Lib!on_sigint_cb, DP!PollDone, Lib!PollDone, DP!on_check_cb,
   Lib!on_check_cb, DP!handle_cmd_open, Lib!handle_cmd_open, DP!OpenConnecting,
   Lib!OpenConnecting, DP!OpenRefused, Lib!OpenRefused, DP!handle_cmd_close,
   Lib!handle_cmd_close, DP!LinkUsable, Lib!LinkUsable, DP!svl_link_list_get,
   Lib!svl_link_list_get, DP!handle_cmd_send, Lib!handle_cmd_send, DP!SendOn, Lib!SendOn,
   DP!CheckDone, Lib!CheckDone, DP!Closing, Lib!Closing, DP!on_close_link_cb,
   Lib!on_close_link_cb, DP!InFlight, Lib!InFlight, DP!ReturnBuffer, Lib!ReturnBuffer,
   DP!ReportClose, Lib!ReportClose, DP!CloseEvent, Lib!CloseEvent, DP!svl_link_list_close,
   Lib!svl_link_list_close, DP!ClosingDone, Lib!ClosingDone, DP!LoopAlive, Lib!LoopAlive,
   DP!LoopExit, Lib!LoopExit, DP!on_timer_cb, Lib!on_timer_cb, DP!KeepOpen, Lib!KeepOpen,
   DP!NoTimerDue, Lib!NoTimerDue, DP!Main, Lib!Main, DP!svl_service_start,
   Lib!svl_service_start, DP!svl_service_stop, Lib!svl_service_stop, DP!svl_service_cmd_open,
   Lib!svl_service_cmd_open, DP!QueueCmd, Lib!QueueCmd, DP!svl_service_cmd_close,
   Lib!svl_service_cmd_close, DP!svl_service_cmd_send, Lib!svl_service_cmd_send,
   DP!svl_service_events_acquire, Lib!svl_service_events_acquire, DP!MainFree, Lib!MainFree,
   DP!svl_service_events_release, Lib!svl_service_events_release, DP!Consumed, Lib!Consumed,
   DP!EventBuffer, Lib!EventBuffer, DP!Finished, Lib!Finished, DP!vars, Lib!vars, DP!linkVars,
   Lib!linkVars, DP!bufVars, Lib!bufVars, DP!eventVars, Lib!eventVars, DP!cmdVars, Lib!cmdVars,
   DP!sendVars, Lib!sendVars, DP!loopVars, Lib!loopVars

LEMMA SpecRefines == Spec => Lib!Spec
BY InitInv, StepInv, InitRefines, StepRefines, PTL DEF Spec, Lib!Spec

(***************************************************************************)
(* Both programs use the library as Datapath assumes: the batch with its   *)
(* count that svl_service_events_release does not clear, walked in every   *)
(* frame, gives each event back once, oldest first, whatever the IO thread *)
(* does between two turns.                                                 *)
(***************************************************************************)
THEOREM ProgramsImplementDatapath == Spec => ImplementsDatapath
<1>1. Lib!Init => DP!Init
  BY SameLibrary
<1>2. [Lib!Next]_Lib!vars => [DP!Next]_DP!vars
  BY SameLibrary
<1> QED
  BY <1>1, <1>2, SpecRefines, PTL DEF Lib!Spec, DP!Spec, ImplementsDatapath

(***************************************************************************)
(* For the programs too, counting what main still holds in its batch: a    *)
(* read buffer, an event and a command are in one place at a time and none *)
(* is lost.                                                                *)
(***************************************************************************)
THEOREM ProgramsKeepPools ==
    Spec => [](DP!BufferExclusive /\ DP!BuffersConserved /\ DP!ListsConserved)
<1>1. /\ Lib!BufferExclusive <=> DP!BufferExclusive
      /\ Lib!BuffersConserved <=> DP!BuffersConserved
      /\ Lib!ListsConserved <=> DP!ListsConserved
  BY DEF Lib!BufferExclusive, DP!BufferExclusive, Lib!BuffersConserved, DP!BuffersConserved,
     Lib!ListsConserved, DP!ListsConserved
<1> QED
  BY <1>1, SpecRefines, LibAssumption, Lib!BuffersAreExclusive, Lib!BuffersAreConserved,
     Lib!ListsAreConserved, PTL

(***************************************************************************)
(* For the programs too: a command or a write never meets a stream that is *)
(* gone, a write goes only to a connection the program is told of, though  *)
(* the server's link->id is any number and the load generator never        *)
(* forgets its client_id, and a link on the free list is finished with.    *)
(***************************************************************************)
THEOREM ProgramsKeepStreams ==
    Spec => [](DP!HandleLive /\ DP!WritesLive /\ DP!WritesAnnounced /\ DP!FreeLinkQuiescent)
<1>1. /\ Lib!HandleLive <=> DP!HandleLive
      /\ Lib!WritesLive <=> DP!WritesLive
      /\ Lib!WritesAnnounced <=> DP!WritesAnnounced
      /\ Lib!FreeLinkQuiescent <=> DP!FreeLinkQuiescent
  BY DEF Lib!HandleLive, DP!HandleLive, Lib!WritesLive, DP!WritesLive,
     Lib!WritesAnnounced, DP!WritesAnnounced, Lib!Told, DP!Told, Lib!IsOpen, DP!IsOpen,
     Lib!IsClose, DP!IsClose, Lib!FreeLinkQuiescent, DP!FreeLinkQuiescent
<1> QED
  BY <1>1, SpecRefines, LibAssumption, Lib!HandlesAreLive, Lib!WritesAreLive,
     Lib!WritesAreAnnounced, Lib!FreeLinksAreQuiescent, PTL

(***************************************************************************)
(* The programs handle events that make sense: data only from a client     *)
(* they were told of, no client opened twice, and a CLOSE on its way for   *)
(* every client they believe open whose link is free again.                *)
(***************************************************************************)
THEOREM ProgramsSeeOrder == Spec => [](DP!AppOrder /\ DP!CloseWillBeSeen)
<1>1. /\ Lib!AppOrder <=> DP!AppOrder
      /\ Lib!CloseWillBeSeen <=> DP!CloseWillBeSeen
  BY DEF Lib!AppOrder, DP!AppOrder, Lib!CloseWillBeSeen, DP!CloseWillBeSeen
<1> QED
  BY <1>1, SpecRefines, LibAssumption, Lib!EventsAreOrdered, Lib!ClosesAreSeen, PTL

(***************************************************************************)
(* The two refinements composed: the events a program handles, batch and   *)
(* queue together, are those of Sessions.                                  *)
(***************************************************************************)
THEOREM ProgramsSeeSessions == Spec => Lib!ImplementsSessions
BY SpecRefines, LibAssumption, Lib!DatapathImplementsSessions, PTL
=============================================================================
