------------------------------ MODULE Sessions ------------------------------
(***************************************************************************)
(* What a service promises the application, without threads, loops, pools  *)
(* or streams: each client id goes through sessions, and the application   *)
(* learns of them through one bounded queue of events, in order.           *)
(*                                                                         *)
(* A session that was announced gives its data and then a CLOSE; one that  *)
(* failed before its OPEN could be queued gives a CLOSE alone.  A session  *)
(* whose CLOSE finds the queue full is lost, and its id with it.           *)
(***************************************************************************)
EXTENDS Naturals, Sequences

CONSTANTS Clients, Payloads, NoPayload, Capacity

VARIABLES session,  \* where each client id is in its current session
          queue     \* events the application has not finished with, oldest first

SessionState == {"idle", "connecting", "open", "ending", "lost"}

Init ==
    /\ session = [c \in Clients |-> "idle"]
    /\ queue = << >>

Become(c, s) == session' = [session EXCEPT ![c] = s]

Tell(type, c, p) ==
    /\ Len(queue) < Capacity
    /\ queue' = Append(queue, [type |-> type, client |-> c, buf |-> p])

NotYetOpen(c) == session[c] \in {"idle", "connecting"}

(* The application's own connect is under way. *)
Dial(c) == session[c] = "idle" /\ Become(c, "connecting") /\ UNCHANGED queue

(* The OPEN event is queued, also for a session that fails right after. *)
Open(c) ==
    /\ NotYetOpen(c)
    /\ Tell("OPEN", c, NoPayload)
    /\ Become(c, "open") \/ Become(c, "ending")

OpenFails(c) == NotYetOpen(c) /\ Become(c, "ending") /\ UNCHANGED queue

Read(c) ==
    /\ session[c] = "open"
    /\ \E p \in Payloads : Tell("READ", c, p)
    /\ UNCHANGED session

End(c) == session[c] = "open" /\ Become(c, "ending") /\ UNCHANGED queue

Close(c) ==
    /\ session[c] = "ending"
    /\ Tell("CLOSE", c, NoPayload)
    /\ Become(c, "idle")

Lose(c) ==
    /\ session[c] = "ending"
    /\ Len(queue) = Capacity
    /\ Become(c, "lost")
    /\ UNCHANGED queue

Consume ==
    /\ queue # << >>
    /\ queue' = Tail(queue)
    /\ UNCHANGED session

Step(c) == \/ Dial(c) \/ Open(c) \/ OpenFails(c) \/ Read(c)
           \/ End(c) \/ Close(c) \/ Lose(c)

Next == Consume \/ \E c \in Clients : Step(c)

Spec == Init /\ [][Next]_<<session, queue>>
=============================================================================
