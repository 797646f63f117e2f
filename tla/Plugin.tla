------------------------------- MODULE Plugin -------------------------------
(***************************************************************************)
(* The plugin's C interface to a service (servlynx_* in plugin.c), called  *)
(* by the Unity scripts from one thread.  Its stop polls service->state    *)
(* around svl_service_stop, with a time limit, while the IO thread of      *)
(* module Lifecycle runs; its cleanup frees the service whatever stop      *)
(* returned, and never calls svl_service_cleanup.                          *)
(***************************************************************************)
EXTENDS Lifecycle

CONSTANT MaxPolls   \* polls of 50 ms in the 500 ms that service_state_wait gets

ASSUME PluginAssumption == MaxPolls \in Nat \ {0}

VARIABLES
    service,  \* *service_ptr is allocated
    plug,     \* where the caller is inside the plugin
    purpose,  \* who called service_stop
    waited,   \* polls made by the current service_state_wait
    result    \* of the last service_stop, "none" once servlynx_start follows

plugVars == <<service, plug, purpose, waited, result>>
allVars  == <<vars, plugVars>>

PluginTypeOK ==
    /\ TypeOK
    /\ service \in BOOLEAN
    /\ plug \in {"idle", "start", "wait_started", "stop", "in_stop", "wait_stopped", "done"}
    /\ purpose \in {"stop", "cleanup"}
    /\ waited \in 0..MaxPolls
    /\ result \in {"none", "success", "error", "timeout"}

(* After servlynx_setup. *)
PluginInit ==
    /\ Init
    /\ service = TRUE /\ plug = "idle" /\ purpose = "stop" /\ waited = 0 /\ result = "none"

-----------------------------------------------------------------------------
(***************************************************************************)
(* A service is allocated and set up.  sl_sys_setup or the allocation may  *)
(* fail and leave everything as it was; if svl_service_setup fails, the    *)
(* caller has a service without priv.  The new service has no thread: one  *)
(* that a cleanup left behind runs on in freed memory, where what it does  *)
(* is undefined, and is not followed further (see ServiceLive).            *)
(***************************************************************************)
servlynx_setup ==
    /\ plug = "idle" /\ ~service
    /\ service' = TRUE /\ result' = "none"
    /\ priv' = TRUE \/ ("setup" \in Faults /\ priv' = FALSE)
    /\ state' = "NEW" /\ host_listen' = FALSE
    /\ io' = "none" /\ stop_ok' = TRUE
    /\ handlesOpen' = FALSE /\ conns' = 0 /\ sigArmed' = FALSE
    /\ UNCHANGED <<main, plug, purpose, waited>>

(* servlynx_start: svl_service_listen if there is an endpoint ... *)
servlynx_start ==
    /\ plug = "idle" /\ service
    /\ svl_service_listen \/ UNCHANGED vars
    /\ plug' = "start"
    /\ UNCHANGED <<service, purpose, waited, result>>

(* ... then svl_service_start, which does nothing in any other state. *)
StartCall ==
    /\ plug = "start" /\ plug' = "idle"
    /\ \/ svl_service_start /\ result' = "none"
       \/ state \notin {"NEW", "STOPPED"} /\ UNCHANGED <<vars, result>>
    /\ UNCHANGED <<service, purpose, waited>>

FirstStep_StartingToo(s) == IF s \in {"STARTING", "STARTED"} THEN "stop" ELSE "wait_stopped"

FirstStep_StartedIsDone(s) == IF s \in {"NEW", "STOPPING", "STOPPED"} THEN "wait_stopped" ELSE "done"

(* Where the switch of service_stop goes from state s. *)
FirstStep(s) ==
    CASE s = "STARTING" -> "wait_started"
      [] s = "STARTED"  -> "stop"
      [] s \in {"NEW", "STOPPING", "STOPPED"} -> "wait_stopped"
      [] s = "ERROR"    -> "done"

(* Called by servlynx_stop and by servlynx_cleanup. *)
service_stop ==
    /\ plug = "idle" /\ service
    /\ purpose' \in {"stop", "cleanup"}
    /\ plug' = FirstStep(state)
    /\ waited' = 0 /\ result' = "error"
    /\ UNCHANGED <<vars, service>>

GiveUp_AsSuccess(next) == plug' = next /\ waited' = 0 /\ result' = "success"

(* service_state_wait returns TN_ERROR and service_stop passes it on. *)
GiveUp(next) == plug' = "done" /\ result' = "timeout" /\ UNCHANGED waited

PollsLeft_OneMore == waited <= MaxPolls

(* total_wait_ms < wait_ms *)
PollsLeft == waited < MaxPolls

(***************************************************************************)
(* One load of the state by service_state_wait.  After the last sleep the  *)
(* time limit is tested before the state just loaded.                      *)
(***************************************************************************)
service_state_wait(here, desired, next, outcome) ==
    /\ plug = here
    /\ \/ ~PollsLeft /\ GiveUp(next)
       \/ /\ PollsLeft /\ state = desired
          /\ plug' = next /\ waited' = 0 /\ result' = outcome
       \/ /\ PollsLeft /\ state # desired
          /\ waited' = waited + 1
          /\ UNCHANGED <<plug, result>>
    /\ UNCHANGED <<vars, service, purpose>>

WaitStarted == service_state_wait("wait_started", "STARTED", "stop", "error")
WaitStopped == service_state_wait("wait_stopped", "STOPPED", "done", "success")

(* The call of svl_service_stop, which fails at once in state ERROR. *)
StopCall ==
    /\ plug = "stop"
    /\ \/ svl_service_stop /\ plug' = "in_stop"
       \/ state = "ERROR" /\ plug' = "done" /\ UNCHANGED vars
    /\ UNCHANGED <<service, purpose, waited, result>>

(* Inside svl_service_stop: see Lifecycle. *)
InStop ==
    /\ plug = "in_stop"
    /\ StopReturn
    /\ UNCHANGED plugVars

(* svl_service_stop has returned, with an error if its join failed. *)
StopCalled ==
    /\ plug = "in_stop" /\ main = "idle"
    /\ plug' = IF stop_ok THEN "wait_stopped" ELSE "done"
    /\ UNCHANGED <<vars, service, purpose, waited, result>>

(* service_stop returns; servlynx_cleanup then frees the service in any case. *)
Return ==
    /\ plug = "done" /\ plug' = "idle"
    /\ service' = (purpose = "stop")
    /\ UNCHANGED <<vars, purpose, waited, result>>

-----------------------------------------------------------------------------
PluginCall == StartCall \/ WaitStarted \/ StopCall \/ InStop \/ StopCalled \/ WaitStopped \/ Return

(* A step of the IO thread, which leaves the caller where it is. *)
Io(step) == step /\ UNCHANGED plugVars

PluginNext ==
    \/ servlynx_setup \/ servlynx_start \/ service_stop
    \/ PluginCall
    \/ Io(IoStart) \/ Io(IoEnd) \/ Io(IoLoop)

(* As in Lifecycle: both threads are scheduled and peers disconnect in the end. *)
PluginFairness ==
    /\ WF_allVars(PluginCall)
    /\ WF_allVars(Io(IoStart)) /\ WF_allVars(Io(IoEnd))
    /\ WF_allVars(Io(on_timer_cb)) /\ WF_allVars(Io(SigStore)) /\ WF_allVars(Io(ConnClose))

PluginSpec     == PluginInit /\ [][PluginNext]_allVars
PluginFairSpec == PluginSpec /\ PluginFairness

-----------------------------------------------------------------------------
(***************************************************************************)
(* servlynx_stop returns TN_SUCCESS only when the IO thread is gone, even  *)
(* if SIGINT, a failed start or a time limit came in between: STOPPED is   *)
(* stored by nobody but svl_service_stop after its join.                   *)
(***************************************************************************)
SuccessMeansJoined == result = "success" => ~IoAlive

(***************************************************************************)
(* Only a service_state_wait that gave up makes servlynx_cleanup free a    *)
(* service under its IO thread: no failure of the thread itself does.      *)
(***************************************************************************)
FreedOnlyByTimeout == IoAlive /\ ~service => result = "timeout"

(***************************************************************************)
(* Every call into the plugin returns: polling for STARTED before calling  *)
(* svl_service_stop keeps the stop from being overwritten by the IO        *)
(* thread's store of STARTED, which the bare svl_service_stop is open to.  *)
(* Given that the peers leave in the end (WF of ConnClose): no time limit  *)
(* covers the join, so a peer that stays connected holds the caller in it. *)
(***************************************************************************)
PluginReturns == plug # "idle" ~> plug = "idle"

(***************************************************************************)
(* The IO thread never runs on a service that was freed, which the service *)
(* functions it calls assert: TN_ASSERT(service) in svl_service_state.     *)
(***************************************************************************)
ServiceLive == IoAlive => service
=============================================================================
