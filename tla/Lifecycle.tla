------------------------------ MODULE Lifecycle ------------------------------
(***************************************************************************)
(* The life of a service and of its IO thread (service.c, with the timer,  *)
(* signal and walk callbacks of service_internal.c).  service->state is an *)
(* atomic that the main thread and the IO thread both load, decide on and  *)
(* store without holding anything in between, so here every load and every *)
(* store that can race is a step of its own.  The links are abstracted to  *)
(* their number: module Datapath has them.                                 *)
(***************************************************************************)
EXTENDS Naturals

CONSTANTS MaxConns,  \* client_count_max: the links, one for each open connection
          Faults,    \* failures the environment may inject
          Sigint,    \* the process may receive SIGINT
          Patient    \* main stops only once the IO thread is through its start-up,
                     \* and frees the service only once that thread has ended

FaultKinds == {"setup", "launch", "init", "string_get"}

ASSUME LifecycleAssumption ==
    /\ MaxConns \in Nat
    /\ Faults \subseteq FaultKinds
    /\ Sigint \in BOOLEAN
    /\ Patient \in BOOLEAN

VARIABLES
    state,        \* service->state
    priv,         \* service->priv and the pools are allocated
    host_listen,  \* service->host_listen names an address to listen on
    main,         \* where the main thread is inside svl_service_stop
    stop_ok,      \* nothing started, or the last svl_service_stop returned TN_SUCCESS
    io,           \* where the IO thread is
    handlesOpen,  \* listener, timer, prepare, check and signal handles are open
    conns,        \* connections with an open stream
    sigArmed      \* the one-shot signal handler has not fired

mainVars == <<main, stop_ok, priv, host_listen>>
loopVars == <<handlesOpen, conns, sigArmed>>
vars == <<state, io, mainVars, loopVars>>

States == {"NEW", "STARTING", "STARTED", "STOPPING", "STOPPED", "ERROR"}

(* The IO thread executes code that uses service and priv. *)
IoPoints == {"init", "check_state", "set_started", "run", "sig_store", "close", "walk", "fail"}
IoAlive == io \in IoPoints

TypeOK ==
    /\ state \in States
    /\ priv \in BOOLEAN /\ host_listen \in BOOLEAN /\ stop_ok \in BOOLEAN
    /\ main \in {"idle", "stop_store", "join", "stop_done"}
    /\ io \in IoPoints \cup {"none", "exited", "joined"}
    /\ handlesOpen \in BOOLEAN /\ sigArmed \in BOOLEAN
    /\ conns \in 0..MaxConns

(* After svl_service_setup. *)
Init ==
    /\ state = "NEW" /\ priv = TRUE /\ host_listen = FALSE
    /\ main = "idle" /\ stop_ok = TRUE
    /\ io = "none"
    /\ handlesOpen = FALSE /\ conns = 0 /\ sigArmed = FALSE

-----------------------------------------------------------------------------
(* The main thread. *)

ListenAllowed_Starting == state \in {"NEW", "STARTING", "STOPPED", "ERROR"}

ListenAllowed == state \in {"NEW", "STOPPED", "ERROR"}

svl_service_listen ==
    /\ main = "idle"
    /\ ListenAllowed
    /\ host_listen' = ~host_listen
    /\ UNCHANGED <<state, io, main, stop_ok, priv, loopVars>>

(***************************************************************************)
(* The load and the store of STARTING are one step: no thread but main     *)
(* runs while state is NEW or STOPPED (StoppedMeansJoined).  The thread    *)
(* returns at once if the service has no priv.                             *)
(***************************************************************************)
svl_service_start ==
    /\ main = "idle"
    /\ state \in {"NEW", "STOPPED"}
    /\ state' = "STARTING"
    /\ stop_ok' = FALSE
    /\ \/ io' = IF priv THEN "init" ELSE "exited"
       \/ "launch" \in Faults /\ io' = "none"
    /\ UNCHANGED <<main, priv, host_listen, loopVars>>

(* svl_service_stop: load state and decide.  ERROR returns TN_ERROR and changes nothing. *)
StopDone(s) == s \in {"NEW", "STOPPING", "STOPPED"}

svl_service_stop ==
    /\ main = "idle"
    /\ Patient => ~(state = "STARTING" /\ IoAlive)
    /\ \/ StopDone(state) /\ stop_ok' = TRUE /\ UNCHANGED main
       \/ state \in {"STARTING", "STARTED"} /\ main' = "stop_store" /\ UNCHANGED stop_ok
    /\ UNCHANGED <<state, io, priv, host_listen, loopVars>>

StopStore ==
    /\ main = "stop_store"
    /\ state' = "STOPPING"
    /\ main' = "join"
    /\ UNCHANGED <<io, stop_ok, priv, host_listen, loopVars>>

(* tn_thread_join returns when the thread has ended ... *)
JoinReady == io = "exited"

Joined_NoWait ==
    /\ main = "join"
    /\ main' = "stop_done"
    /\ UNCHANGED <<state, io, stop_ok, priv, host_listen, loopVars>>

Joined ==
    /\ main = "join" /\ JoinReady
    /\ io' = "joined"
    /\ main' = "stop_done"
    /\ UNCHANGED <<state, stop_ok, priv, host_listen, loopVars>>

(* ... and fails when there is no thread to join. *)
JoinFailed ==
    /\ main = "join" /\ io = "none"
    /\ state' = "ERROR"
    /\ main' = "idle"
    /\ UNCHANGED <<io, stop_ok, priv, host_listen, loopVars>>

StopStopped ==
    /\ main = "stop_done"
    /\ state' = "STOPPED"
    /\ main' = "idle" /\ stop_ok' = TRUE
    /\ UNCHANGED <<io, priv, host_listen, loopVars>>

CleanupAllowed_Always == TRUE

(***************************************************************************)
(* The callers clean up when svl_service_stop has returned TN_SUCCESS; a   *)
(* patient one also gives a signalled IO thread the time to end.           *)
(***************************************************************************)
CleanupAllowed == stop_ok /\ (Patient => ~IoAlive)

svl_service_cleanup ==
    /\ main = "idle" /\ priv
    /\ CleanupAllowed
    /\ priv' = FALSE
    /\ UNCHANGED <<state, io, main, stop_ok, host_listen, loopVars>>

(* A set-up that fails half-way releases priv again. *)
svl_service_setup ==
    /\ main = "idle" /\ ~priv
    /\ state' = "NEW" /\ host_listen' = FALSE
    /\ priv' = TRUE \/ ("setup" \in Faults /\ priv' = FALSE)
    /\ UNCHANGED <<io, main, stop_ok, loopVars>>

-----------------------------------------------------------------------------
(* The IO thread: svl_service_io_thread. *)

(* Every handle is initialised, and the listener bound if host_listen names an address. *)
IoInit ==
    /\ io = "init"
    /\ io' = "check_state"
    /\ handlesOpen' = TRUE /\ sigArmed' = TRUE /\ conns' = 0
    /\ UNCHANGED <<state, mainVars>>

(* An allocation or a uv call failed: cleanup with ret set. *)
IoInitFails ==
    /\ io = "init" /\ "init" \in Faults
    /\ io' = "fail"
    /\ UNCHANGED <<state, mainVars, loopVars>>

(* tn_endpoint_string_get failed: cleanup with ret still TN_SUCCESS, state untouched. *)
IoInitFailsSilently ==
    /\ io = "init" /\ "string_get" \in Faults /\ host_listen
    /\ io' = "exited"
    /\ UNCHANGED <<state, mainVars, loopVars>>

IoCheckState ==
    /\ io = "check_state"
    /\ io' = IF state = "STARTING" THEN "set_started" ELSE "close"
    /\ UNCHANGED <<state, mainVars, loopVars>>

IoSetStarted_Forgotten == UNCHANGED state

IoSetStarted == state' = "STARTED"

IoRun ==
    /\ io = "set_started"
    /\ IoSetStarted
    /\ io' = "run"
    /\ UNCHANGED <<mainVars, loopVars>>

TimerCloses_Always == TRUE

TimerCloses_WhenStopped == state \in {"STOPPED", "ERROR"}

(* on_timer_cb loads state and, unless STARTED, closes every service handle. *)
TimerCloses == state # "STARTED"

on_timer_cb ==
    /\ io = "run" /\ handlesOpen
    /\ TimerCloses
    /\ handlesOpen' = FALSE /\ sigArmed' = FALSE
    /\ UNCHANGED <<state, io, mainVars, conns>>

(* on_sigint_cb, svl_service_stop_signal: load ... *)
on_sigint_cb ==
    /\ io = "run" /\ sigArmed /\ Sigint
    /\ sigArmed' = FALSE
    /\ io' = IF state \in {"STOPPING", "STOPPED", "ERROR"} THEN io ELSE "sig_store"
    /\ UNCHANGED <<state, mainVars, handlesOpen, conns>>

(* ... and store. *)
SigStore ==
    /\ io = "sig_store"
    /\ state' = "STOPPING"
    /\ io' = "run"
    /\ UNCHANGED <<mainVars, loopVars>>

LinkFree_Unchecked == TRUE

(* svl_link_list_open finds a link on the free list. *)
LinkFree == conns < MaxConns

(* A connection is accepted by the listener or made by a command (which on_check_cb reads). *)
ConnOpen ==
    /\ io = "run" /\ handlesOpen /\ LinkFree
    /\ conns' = conns + 1
    /\ UNCHANGED <<state, io, mainVars, handlesOpen, sigArmed>>

(* The peer, a command or an error closes one. *)
ConnClose ==
    /\ io = "run" /\ conns > 0
    /\ conns' = conns - 1
    /\ UNCHANGED <<state, io, mainVars, handlesOpen, sigArmed>>

(* uv_run returns when no handle is left. *)
RunExit ==
    /\ io = "run" /\ ~handlesOpen /\ conns = 0
    /\ io' = "close"
    /\ UNCHANGED <<state, mainVars, loopVars>>

(* uv_loop_close succeeds on an empty loop, and is busy while handles are open. *)
IoLoopClose ==
    /\ io = "close"
    /\ io' = IF handlesOpen THEN "walk" ELSE "exited"
    /\ UNCHANGED <<state, mainVars, loopVars>>

(***************************************************************************)
(* uv_walk closes every handle, but a closing handle stays in the loop     *)
(* until uv_run is called again, so the second uv_loop_close is busy too.  *)
(***************************************************************************)
IoWalk ==
    /\ io = "walk"
    /\ handlesOpen' = FALSE /\ sigArmed' = FALSE
    /\ io' = "fail"
    /\ UNCHANGED <<state, mainVars, conns>>

IoFail ==
    /\ io = "fail"
    /\ state' = "ERROR"
    /\ io' = "exited"
    /\ UNCHANGED <<mainVars, loopVars>>

-----------------------------------------------------------------------------
StopReturn == StopStore \/ Joined \/ JoinFailed \/ StopStopped

(* The programs go on only with a service whose svl_service_setup succeeded. *)
Main ==
    \/ priv /\ (svl_service_listen \/ svl_service_start \/ svl_service_stop)
    \/ StopReturn
    \/ svl_service_cleanup \/ svl_service_setup

IoStart == IoInit \/ IoInitFails \/ IoInitFailsSilently \/ IoCheckState \/ IoRun
IoEnd   == RunExit \/ IoLoopClose \/ IoWalk \/ IoFail
IoLoop  == on_timer_cb \/ on_sigint_cb \/ SigStore \/ ConnOpen \/ ConnClose

Next == Main \/ IoStart \/ IoEnd \/ IoLoop

(***************************************************************************)
(* Both threads are scheduled; uv_run runs a due timer; peers disconnect   *)
(* in the end.  Main is not obliged to call anything.                      *)
(***************************************************************************)
Fairness ==
    /\ WF_vars(StopReturn)
    /\ WF_vars(IoStart) /\ WF_vars(IoEnd)
    /\ WF_vars(on_timer_cb) /\ WF_vars(SigStore) /\ WF_vars(ConnClose)

Spec     == Init /\ [][Next]_vars
FairSpec == Spec /\ Fairness

-----------------------------------------------------------------------------
(***************************************************************************)
(* The memory of the service outlives the thread that uses it: while the   *)
(* IO thread runs, service->priv is allocated, which each callback asserts *)
(* (TN_ASSERT(priv) in on_timer_cb and on_send_cb).                        *)
(***************************************************************************)
PrivLive == IoAlive => priv

(***************************************************************************)
(* NEW and STOPPED, the states svl_service_start launches a thread from,   *)
(* mean that no thread is left: a restart never has two IO threads on one  *)
(* set of queues, nor overwrites thread_io of a thread not joined.         *)
(***************************************************************************)
StoppedMeansJoined == state \in {"NEW", "STOPPED"} => io \in {"none", "joined"}

(***************************************************************************)
(* STARTED, the state svl_service_cmd_open, _close and _send test, means   *)
(* that a loop is running whose check handle is open and will take the     *)
(* command, whatever stores of the two threads were interleaved.           *)
(***************************************************************************)
StartedMeansServed == state = "STARTED" => io \in {"run", "sig_store"} /\ handlesOpen

(***************************************************************************)
(* svl_service_listen never writes host_listen while the IO thread may be  *)
(* reading it in its set-up, although neither holds a lock.                *)
(***************************************************************************)
ListenNotRaced == [][host_listen' # host_listen => io # "init"]_vars

(***************************************************************************)
(* A call of svl_service_stop returns (test_service.c asserts it does,     *)
(* also right after svl_service_start).                                    *)
(***************************************************************************)
StopReturns == main = "join" ~> main = "idle"

(***************************************************************************)
(* Start-up resolves: the service leaves STARTING for STARTED or ERROR,    *)
(* what service_state_wait of plugin.c polls for, with two exceptions and  *)
(* no third.  A launch that failed leaves STARTING with no thread, and a   *)
(* failing tn_endpoint_string_get ends the thread of a listening service   *)
(* without a store: in both cases STARTING lasts until somebody stops the  *)
(* service.                                                                *)
(***************************************************************************)
NeverLaunched  == io = "none"
EndedUnnoticed == io = "exited" /\ host_listen
StartResolves ==
    state = "STARTING" ~> state # "STARTING" \/ NeverLaunched \/ EndedUnnoticed
=============================================================================
