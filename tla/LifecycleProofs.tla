--------------------------- MODULE LifecycleProofs ---------------------------
(***************************************************************************)
(* Proofs about Lifecycle when the process receives no SIGINT: for any     *)
(* number of connections, any injected failures, patient callers or not.   *)
(* With SIGINT the properties are false: on_sigint_cb stores STOPPING      *)
(* outside svl_service_stop, which NoSignal below rules out.               *)
(***************************************************************************)
EXTENDS Lifecycle, TLAPS

(* STOPPING means that main is inside svl_service_stop and will join. *)
StoppingJoins == state = "STOPPING" => main \in {"join", "stop_done"}

(* Past the join there is no thread; and whoever may clean up never started one since. *)
JoinedAtDone == main = "stop_done" => io = "joined"
OkMeansIdle  == stop_ok => state \in {"NEW", "STOPPED"}
FreedMeansOk == ~priv => stop_ok
StopNotOk    == main # "idle" => ~stop_ok

(* During set-up the state is what start or stop stored; then the handles are open. *)
InitState    == io = "init" => state \in {"STARTING", "STOPPING"}
HandlesReady == io \in {"check_state", "set_started"} => handlesOpen

NoSignal == io # "sig_store"

(* The inductive invariant. *)
LifeInv ==
    /\ NoSignal
    /\ StoppedMeansJoined /\ StartedMeansServed /\ PrivLive
    /\ StoppingJoins /\ JoinedAtDone /\ OkMeansIdle /\ FreedMeansOk /\ StopNotOk
    /\ InitState /\ HandlesReady
Inv == TypeOK /\ LifeInv

LEMMA InitInv == Init => Inv
<1> SUFFICES ASSUME Init PROVE Inv
  OBVIOUS
<1>1. TypeOK
  <2>1. conns \in 0..MaxConns
    BY LifecycleAssumption DEF Init
  <2> QED
    BY <2>1 DEF Init, TypeOK, States, IoPoints
<1>2. LifeInv
  BY DEF Init, LifeInv, IoPoints, NoSignal, StoppedMeansJoined, StartedMeansServed, PrivLive,
     IoAlive, StoppingJoins, JoinedAtDone, OkMeansIdle, FreedMeansOk, StopNotOk, InitState, HandlesReady
<1> QED
  BY <1>1, <1>2 DEF Inv

(* Every step of main or of the IO thread preserves the invariant. *)
LEMMA StepType == TypeOK /\ [Next]_vars => TypeOK'
<1> SUFFICES ASSUME TypeOK, [Next]_vars PROVE TypeOK'
  OBVIOUS
<1> USE LifecycleAssumption DEF TypeOK, States, IoPoints, mainVars, loopVars
<1>1. CASE svl_service_listen
  BY <1>1 DEF svl_service_listen, ListenAllowed
<1>2. CASE svl_service_start
  BY <1>2 DEF svl_service_start
<1>3. CASE svl_service_stop
  BY <1>3 DEF svl_service_stop, StopDone
<1>4. CASE StopStore
  BY <1>4 DEF StopStore
<1>5. CASE Joined
  BY <1>5 DEF Joined, JoinReady
<1>6. CASE JoinFailed
  BY <1>6 DEF JoinFailed
<1>7. CASE StopStopped
  BY <1>7 DEF StopStopped
<1>8. CASE svl_service_cleanup
  BY <1>8 DEF svl_service_cleanup, CleanupAllowed
<1>9. CASE svl_service_setup
  BY <1>9 DEF svl_service_setup
<1>10. CASE IoInit
  BY <1>10 DEF IoInit
<1>11. CASE IoInitFails \/ IoInitFailsSilently
  BY <1>11 DEF IoInitFails, IoInitFailsSilently
<1>12. CASE IoCheckState
  BY <1>12 DEF IoCheckState
<1>13. CASE IoRun
  BY <1>13 DEF IoRun, IoSetStarted
<1>14. CASE on_timer_cb
  BY <1>14 DEF on_timer_cb, TimerCloses
<1>15. CASE on_sigint_cb \/ SigStore
  BY <1>15 DEF on_sigint_cb, SigStore
<1>16. CASE ConnOpen
  BY <1>16 DEF ConnOpen, LinkFree
<1>17. CASE ConnClose
  BY <1>17 DEF ConnClose
<1>18. CASE RunExit \/ IoLoopClose
  BY <1>18 DEF RunExit, IoLoopClose
<1>19. CASE IoWalk \/ IoFail
  BY <1>19 DEF IoWalk, IoFail
<1>20. CASE UNCHANGED vars
  BY <1>20 DEF vars
<1> QED
  BY <1>1, <1>2, <1>3, <1>4, <1>5, <1>6, <1>7, <1>8, <1>9, <1>10, <1>11, <1>12, <1>13,
     <1>14, <1>15, <1>16, <1>17, <1>18, <1>19, <1>20
  DEF Next, Main, StopReturn, IoStart, IoEnd, IoLoop

LEMMA StepLife == Sigint = FALSE /\ LifeInv /\ [Next]_vars => LifeInv'
<1> SUFFICES ASSUME Sigint = FALSE, LifeInv, [Next]_vars PROVE LifeInv'
  OBVIOUS
<1> USE DEF LifeInv, IoPoints, NoSignal, StoppedMeansJoined, StartedMeansServed,
        PrivLive, IoAlive, StoppingJoins, JoinedAtDone, OkMeansIdle, FreedMeansOk, StopNotOk, InitState,
        HandlesReady, mainVars, loopVars
<1>1. CASE svl_service_listen
  BY <1>1 DEF svl_service_listen, ListenAllowed
<1>2. CASE priv /\ svl_service_start
  <2>1. /\ state' = "STARTING" /\ ~stop_ok' /\ priv /\ priv' = priv
        /\ main = "idle" /\ main' = main /\ io' \in {"init", "none"}
    BY <1>2 DEF svl_service_start
  <2> QED
    BY <2>1
<1>3. CASE svl_service_stop
  BY <1>3 DEF svl_service_stop, StopDone
<1>4. CASE StopStore
  BY <1>4 DEF StopStore
<1>5. CASE Joined
  BY <1>5 DEF Joined, JoinReady
<1>6. CASE JoinFailed
  BY <1>6 DEF JoinFailed
<1>7. CASE StopStopped
  BY <1>7 DEF StopStopped
<1>8. CASE svl_service_cleanup
  BY <1>8 DEF svl_service_cleanup, CleanupAllowed
<1>9. CASE svl_service_setup
  BY <1>9 DEF svl_service_setup
<1>10. CASE IoInit
  BY <1>10 DEF IoInit
<1>11. CASE IoInitFails \/ IoInitFailsSilently
  BY <1>11 DEF IoInitFails, IoInitFailsSilently
<1>12. CASE IoCheckState
  BY <1>12 DEF IoCheckState
<1>13. CASE IoRun
  BY <1>13 DEF IoRun, IoSetStarted
<1>14. CASE on_timer_cb
  BY <1>14 DEF on_timer_cb, TimerCloses
<1>15. CASE on_sigint_cb \/ SigStore
  BY <1>15 DEF on_sigint_cb, SigStore
<1>16. CASE ConnOpen
  BY <1>16 DEF ConnOpen, LinkFree
<1>17. CASE ConnClose
  BY <1>17 DEF ConnClose
<1>18. CASE RunExit \/ IoLoopClose
  BY <1>18 DEF RunExit, IoLoopClose
<1>19. CASE IoWalk \/ IoFail
  BY <1>19 DEF IoWalk, IoFail
<1>20. CASE UNCHANGED vars
  BY <1>20 DEF vars
<1> QED
  BY <1>1, <1>2, <1>3, <1>4, <1>5, <1>6, <1>7, <1>8, <1>9, <1>10, <1>11, <1>12, <1>13,
     <1>14, <1>15, <1>16, <1>17, <1>18, <1>19, <1>20
  DEF Next, Main, StopReturn, IoStart, IoEnd, IoLoop

(***************************************************************************)
(* Every variable keeps its type, with SIGINT or without: the number of    *)
(* connections, above all, stays within its bound.                         *)
(***************************************************************************)
THEOREM LifecycleTyped == Spec => []TypeOK
<1>1. Init => TypeOK
  BY InitInv DEF Inv
<1> QED
  BY <1>1, StepType, PTL DEF Spec

LEMMA StepInv == Sigint = FALSE /\ Inv /\ [Next]_vars => Inv'
BY StepType, StepLife DEF Inv

(***************************************************************************)
(* Without SIGINT, svl_service_cleanup never frees what the IO thread is   *)
(* still using, if it is called after svl_service_stop returned            *)
(* TN_SUCCESS, whatever failed on the way.                                 *)
(***************************************************************************)
THEOREM PrivOutlivesThread == Sigint = FALSE => (Spec => []PrivLive)
<1>1. Inv => PrivLive
  BY DEF Inv, LifeInv
<1> SUFFICES ASSUME Sigint = FALSE PROVE Spec => []PrivLive
  OBVIOUS
<1>2. Inv /\ [Next]_vars => Inv'
  BY StepInv
<1> QED
  BY <1>1, <1>2, InitInv, PTL DEF Spec

(***************************************************************************)
(* Without SIGINT, svl_service_start is only ever let through when no IO   *)
(* thread of the service is left.                                          *)
(***************************************************************************)
THEOREM RestartFindsNoThread == Sigint = FALSE => (Spec => []StoppedMeansJoined)
<1>1. Inv => StoppedMeansJoined
  BY DEF Inv, LifeInv
<1> SUFFICES ASSUME Sigint = FALSE PROVE Spec => []StoppedMeansJoined
  OBVIOUS
<1>2. Inv /\ [Next]_vars => Inv'
  BY StepInv
<1> QED
  BY <1>1, <1>2, InitInv, PTL DEF Spec

(***************************************************************************)
(* Without SIGINT, a command is accepted only while a loop with an open    *)
(* check handle is there to take it, lost stops included.                  *)
(***************************************************************************)
THEOREM CommandsAreServed == Sigint = FALSE => (Spec => []StartedMeansServed)
<1>1. Inv => StartedMeansServed
  BY DEF Inv, LifeInv
<1> SUFFICES ASSUME Sigint = FALSE PROVE Spec => []StartedMeansServed
  OBVIOUS
<1>2. Inv /\ [Next]_vars => Inv'
  BY StepInv
<1> QED
  BY <1>1, <1>2, InitInv, PTL DEF Spec

(***************************************************************************)
(* Without SIGINT, main never rewrites host_listen under the IO thread's   *)
(* set-up.                                                                 *)
(***************************************************************************)
THEOREM ListenIsNotRaced == Sigint = FALSE => (Spec => ListenNotRaced)
<1> SUFFICES ASSUME Sigint = FALSE PROVE Spec => ListenNotRaced
  OBVIOUS
<1> DEFINE Safe == host_listen' # host_listen => io # "init"
<1>1. ASSUME Inv, [Next]_vars PROVE [Safe]_vars
  <2> USE DEF mainVars
  <2>1. ASSUME svl_service_listen \/ svl_service_setup PROVE Safe
    BY <1>1, <2>1 DEF svl_service_listen, ListenAllowed, svl_service_setup, Inv, LifeInv, InitState,
       PrivLive, IoAlive, IoPoints
  <2>2. ASSUME svl_service_start \/ svl_service_stop \/ StopReturn \/ svl_service_cleanup PROVE Safe
    BY <2>2 DEF svl_service_start, svl_service_stop, StopReturn, StopStore, Joined, JoinFailed,
       StopStopped, svl_service_cleanup
  <2>3. ASSUME IoStart \/ IoEnd \/ IoLoop PROVE Safe
    BY <2>3 DEF IoStart, IoInit, IoInitFails, IoInitFailsSilently, IoCheckState, IoRun,
       IoEnd, RunExit, IoLoopClose, IoWalk, IoFail,
       IoLoop, on_timer_cb, on_sigint_cb, SigStore, ConnOpen, ConnClose
  <2> QED
    BY <1>1, <2>1, <2>2, <2>3 DEF Next, Main
<1>2. Inv /\ [Next]_vars => Inv'
  BY StepInv
<1> QED
  BY <1>1, <1>2, InitInv, PTL DEF Spec, ListenNotRaced
=============================================================================
