---------------------------- MODULE PluginProofs ----------------------------
(***************************************************************************)
(* Proofs about Plugin: for any time limit, any number of connections, any *)
(* injected failures, and with SIGINT at any time.                         *)
(***************************************************************************)
EXTENDS Plugin, TLAPS

(* The caller is inside svl_service_stop only while the plugin waits for it, past its join alone. *)
StopInside   == main # "idle" => plug = "in_stop"
JoinedAtDone == main = "stop_done" => io = "joined"

(* A thread that ends in ERROR, or could not be joined, is gone. *)
ErrorMeansGone == state = "ERROR" => ~IoAlive
JoinFailedGone == plug = "in_stop" /\ main = "idle" /\ ~stop_ok => ~IoAlive

(* What the result says in the middle of a stop and once it is known. *)
Undecided == {"wait_started", "stop", "in_stop", "wait_stopped"}
ResultUndecided == plug \in Undecided => result = "error"
SuccessStays    == result = "success" => state = "STOPPED"
FailedMeansGone == plug = "done" /\ result = "error" => ~IoAlive
DoneHasResult   == plug = "done" => result \in {"success", "error", "timeout"}
FreedIsIdle     == ~service => plug = "idle"

(* The inductive invariant. *)
StopInv ==
    /\ state \in States /\ StopInside /\ JoinedAtDone /\ StoppedMeansJoined
    /\ ErrorMeansGone /\ JoinFailedGone
ResultInv ==
    /\ ResultUndecided /\ SuccessStays /\ FailedMeansGone /\ DoneHasResult
    /\ FreedIsIdle /\ FreedOnlyByTimeout
PlugInv == StopInv /\ ResultInv

LEMMA InitPlug == PluginInit => PlugInv
BY DEF PluginInit, Init, PlugInv, StopInv, ResultInv, States, StopInside, JoinedAtDone, StoppedMeansJoined,
   ErrorMeansGone, JoinFailedGone, Undecided, ResultUndecided, SuccessStays, FailedMeansGone,
   DoneHasResult, FreedIsIdle, FreedOnlyByTimeout, IoAlive, IoPoints

(* The steps of the IO thread. *)
LEMMA IoPlug == PlugInv /\ (Io(IoStart) \/ Io(IoEnd) \/ Io(IoLoop)) => PlugInv'
<1> SUFFICES ASSUME PlugInv, Io(IoStart) \/ Io(IoEnd) \/ Io(IoLoop) PROVE PlugInv'
  OBVIOUS
<1> USE DEF PlugInv, StopInv, ResultInv, States, StopInside, JoinedAtDone, StoppedMeansJoined,
        ErrorMeansGone, JoinFailedGone, Undecided, ResultUndecided, SuccessStays, FailedMeansGone,
        DoneHasResult, FreedIsIdle, FreedOnlyByTimeout, IoAlive, IoPoints, mainVars, loopVars, plugVars, Io
<1>1. CASE Io(IoStart)
  <2>1. CASE IoInit
    BY <1>1, <2>1 DEF IoInit
  <2>2. CASE IoInitFails \/ IoInitFailsSilently
    BY <1>1, <2>2 DEF IoInitFails, IoInitFailsSilently
  <2>3. CASE IoCheckState
    BY <1>1, <2>3 DEF IoCheckState
  <2>4. CASE IoRun
    BY <1>1, <2>4 DEF IoRun, IoSetStarted
  <2> QED
    BY <1>1, <2>1, <2>2, <2>3, <2>4 DEF IoStart
<1>2. CASE Io(IoEnd)
  <2>1. CASE RunExit \/ IoLoopClose
    BY <1>2, <2>1 DEF RunExit, IoLoopClose
  <2>2. CASE IoWalk
    BY <1>2, <2>2 DEF IoWalk
  <2>3. CASE IoFail
    BY <1>2, <2>3 DEF IoFail
  <2> QED
    BY <1>2, <2>1, <2>2, <2>3 DEF IoEnd
<1>3. CASE Io(IoLoop)
  <2>1. CASE on_timer_cb
    BY <1>3, <2>1 DEF on_timer_cb
  <2>2. CASE on_sigint_cb
    BY <1>3, <2>2 DEF on_sigint_cb
  <2>3. CASE SigStore
    BY <1>3, <2>3 DEF SigStore
  <2>4. CASE ConnOpen \/ ConnClose
    BY <1>3, <2>4 DEF ConnOpen, LinkFree, ConnClose
  <2> QED
    BY <1>3, <2>1, <2>2, <2>3, <2>4 DEF IoLoop
<1> QED
  BY <1>1, <1>2, <1>3

(* The steps of the caller. *)
LEMMA CallPlug == PlugInv /\ (servlynx_setup \/ servlynx_start \/ service_stop \/ PluginCall) => PlugInv'
<1> SUFFICES ASSUME PlugInv, servlynx_setup \/ servlynx_start \/ service_stop \/ PluginCall
             PROVE  PlugInv'
  OBVIOUS
<1> USE DEF PlugInv, StopInv, ResultInv, States, StopInside, JoinedAtDone, StoppedMeansJoined,
        ErrorMeansGone, JoinFailedGone, Undecided, ResultUndecided, SuccessStays, FailedMeansGone,
        DoneHasResult, FreedIsIdle, FreedOnlyByTimeout, IoAlive, IoPoints, mainVars, loopVars, plugVars, vars
<1>1. CASE servlynx_setup
  BY <1>1 DEF servlynx_setup
<1>2. CASE servlynx_start
  BY <1>2 DEF servlynx_start, svl_service_listen
<1>3. CASE StartCall
  BY <1>3 DEF StartCall, svl_service_start
<1>4. CASE service_stop
  <2>1. \/ plug' \in {"wait_started", "stop", "wait_stopped"}
        \/ plug' = "done" /\ state = "ERROR"
    BY <1>4 DEF service_stop, FirstStep
  <2> QED
    BY <1>4, <2>1 DEF service_stop
<1>5. CASE WaitStarted
  BY <1>5 DEF WaitStarted, service_state_wait, GiveUp, PollsLeft
<1>6. CASE StopCall
  BY <1>6 DEF StopCall, svl_service_stop
<1>7. CASE InStop
  <2>1. CASE StopStore
    BY <1>7, <2>1 DEF InStop, StopStore
  <2>2. CASE Joined
    BY <1>7, <2>2 DEF InStop, Joined, JoinReady
  <2>3. CASE JoinFailed
    BY <1>7, <2>3 DEF InStop, JoinFailed
  <2>4. CASE StopStopped
    BY <1>7, <2>4 DEF InStop, StopStopped
  <2> QED
    BY <1>7, <2>1, <2>2, <2>3, <2>4 DEF InStop, StopReturn
<1>8. CASE StopCalled
  BY <1>8 DEF StopCalled
<1>9. CASE WaitStopped
  BY <1>9 DEF WaitStopped, service_state_wait, GiveUp, PollsLeft
<1>10. CASE Return
  BY <1>10 DEF Return
<1> QED
  BY <1>1, <1>2, <1>3, <1>4, <1>5, <1>6, <1>7, <1>8, <1>9, <1>10 DEF PluginCall

LEMMA StepPlug == PlugInv /\ [PluginNext]_allVars => PlugInv'
<1>1. PlugInv /\ UNCHANGED allVars => PlugInv'
  BY DEF allVars, vars, mainVars, loopVars, plugVars, PlugInv, StopInv, ResultInv, States, StopInside,
     JoinedAtDone, StoppedMeansJoined, ErrorMeansGone, JoinFailedGone, Undecided, ResultUndecided,
     SuccessStays, FailedMeansGone, DoneHasResult, FreedIsIdle, FreedOnlyByTimeout, IoAlive
<1> QED
  BY <1>1, IoPlug, CallPlug DEF PluginNext

(***************************************************************************)
(* A servlynx_stop that returned TN_SUCCESS leaves no IO thread, whatever  *)
(* the time limit and whether or not SIGINT came.                          *)
(***************************************************************************)
THEOREM StopSuccessIsFinal == PluginSpec => []SuccessMeansJoined
<1>1. PlugInv => SuccessMeansJoined
  BY DEF PlugInv, StopInv, ResultInv, SuccessStays, StoppedMeansJoined, SuccessMeansJoined, IoAlive, IoPoints
<1> QED
  BY <1>1, InitPlug, StepPlug, PTL DEF PluginSpec

(***************************************************************************)
(* servlynx_cleanup frees a service under its IO thread only after a       *)
(* service_state_wait that gave up.                                        *)
(***************************************************************************)
THEOREM OnlyTimeoutFreesLive == PluginSpec => []FreedOnlyByTimeout
<1>1. PlugInv => FreedOnlyByTimeout
  BY DEF PlugInv, ResultInv
<1> QED
  BY <1>1, InitPlug, StepPlug, PTL DEF PluginSpec

(* The types: the IO thread's steps and main's inside Lifecycle, then the plugin's own. *)
LEMMA IoTypes == TypeOK /\ (IoStart \/ IoEnd \/ IoLoop) => TypeOK'
<1> SUFFICES ASSUME TypeOK, IoStart \/ IoEnd \/ IoLoop PROVE TypeOK'
  OBVIOUS
<1> USE LifecycleAssumption DEF TypeOK, States, IoPoints, mainVars, loopVars
<1>1. CASE IoInit
  BY <1>1 DEF IoInit
<1>2. CASE IoInitFails \/ IoInitFailsSilently
  BY <1>2 DEF IoInitFails, IoInitFailsSilently
<1>3. CASE IoCheckState \/ IoRun
  BY <1>3 DEF IoCheckState, IoRun, IoSetStarted
<1>4. CASE RunExit \/ IoLoopClose
  BY <1>4 DEF RunExit, IoLoopClose
<1>5. CASE IoWalk \/ IoFail
  BY <1>5 DEF IoWalk, IoFail
<1>6. CASE on_timer_cb \/ on_sigint_cb \/ SigStore
  BY <1>6 DEF on_timer_cb, on_sigint_cb, SigStore
<1>7. CASE ConnOpen \/ ConnClose
  BY <1>7 DEF ConnOpen, LinkFree, ConnClose
<1> QED
  BY <1>1, <1>2, <1>3, <1>4, <1>5, <1>6, <1>7 DEF IoStart, IoEnd, IoLoop

LEMMA MainTypes ==
    TypeOK /\ (svl_service_listen \/ svl_service_start \/ svl_service_stop \/ StopReturn) => TypeOK'
<1> SUFFICES ASSUME TypeOK, svl_service_listen \/ svl_service_start \/ svl_service_stop \/ StopReturn
             PROVE  TypeOK'
  OBVIOUS
<1> USE DEF TypeOK, States, IoPoints, mainVars, loopVars
<1>1. CASE svl_service_listen
  BY <1>1 DEF svl_service_listen
<1>2. CASE svl_service_start \/ svl_service_stop
  BY <1>2 DEF svl_service_start, svl_service_stop, StopDone
<1>3. CASE StopReturn
  BY <1>3 DEF StopReturn, StopStore, Joined, JoinReady, JoinFailed, StopStopped
<1> QED
  BY <1>1, <1>2, <1>3

LEMMA PlugTypes == PluginTypeOK /\ [PluginNext]_allVars => PluginTypeOK'
<1> SUFFICES ASSUME PluginTypeOK, [PluginNext]_allVars PROVE PluginTypeOK'
  OBVIOUS
<1>0. TypeOK /\ UNCHANGED vars => TypeOK'
  BY DEF TypeOK, vars, mainVars, loopVars
<1> USE PluginAssumption DEF PluginTypeOK, plugVars
<1>1. CASE servlynx_setup
  <2>1. TypeOK'
    <3>1. priv' \in BOOLEAN
      BY <1>1 DEF servlynx_setup
    <3>2. 0 \in 0..MaxConns
      BY LifecycleAssumption
    <3> QED
      BY <1>1, <3>1, <3>2 DEF servlynx_setup, TypeOK, States, IoPoints
  <2> QED
    BY <1>1, <2>1 DEF servlynx_setup
<1>2. CASE servlynx_start
  BY <1>2, <1>0, MainTypes DEF servlynx_start
<1>3. CASE StartCall
  BY <1>3, <1>0, MainTypes DEF StartCall
<1>4. CASE service_stop
  <2>1. FirstStep(state) \in {"wait_started", "stop", "wait_stopped", "done"}
    BY DEF FirstStep, TypeOK, States
  <2> QED
    BY <1>4, <1>0, <2>1 DEF service_stop
<1>5. CASE WaitStarted \/ WaitStopped
  BY <1>5, <1>0 DEF WaitStarted, WaitStopped, service_state_wait, GiveUp, PollsLeft
<1>6. CASE StopCall \/ InStop \/ StopCalled
  BY <1>6, <1>0, MainTypes DEF StopCall, InStop, StopCalled
<1>7. CASE Return
  BY <1>7, <1>0 DEF Return
<1>8. CASE Io(IoStart) \/ Io(IoEnd) \/ Io(IoLoop)
  BY <1>8, IoTypes DEF Io
<1>9. CASE UNCHANGED allVars
  BY <1>9, <1>0 DEF allVars
<1> QED
  BY <1>1, <1>2, <1>3, <1>4, <1>5, <1>6, <1>7, <1>8, <1>9 DEF PluginNext, PluginCall

(***************************************************************************)
(* Every variable of the plugin and of the service under it keeps its      *)
(* type: above all, service_state_wait never polls beyond its time limit.  *)
(***************************************************************************)
THEOREM PluginTyped == PluginSpec => []PluginTypeOK
<1>1. PluginInit => PluginTypeOK
  <2>1. 0 \in 0..MaxPolls /\ 0 \in 0..MaxConns
    BY PluginAssumption, LifecycleAssumption
  <2> QED
    BY <2>1 DEF PluginInit, Init, PluginTypeOK, TypeOK, States, IoPoints
<1> QED
  BY <1>1, PlugTypes, PTL DEF PluginSpec
=============================================================================
