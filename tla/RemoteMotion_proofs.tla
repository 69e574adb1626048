------------------------- MODULE RemoteMotion_proofs -------------------------
(* Theorems about RemoteMotion: the hardware interface inside the whole is    *)
(* the one of MiraculousSystem, and what the watchdog reports as stopped is.  *)
EXTENDS RemoteMotion, TLAPS

-----------------------------------------------------------------------------
(* The watchdog and the controller. *)

WatchdogTypeOK ==
  /\ Watchdog!TypeOK
  /\ controller_active \in BOOLEAN /\ activation \in BOOLEAN

\* The strengthening.  A request of the current generation is outstanding only
\* while the watchdog is stopping; an "ok" on its way stands for a controller
\* that is inactive and that no operator is activating.
StopIsKnown ==
  /\ state = "latched" => stop_confirmed /\ ~controller_active /\ ~activation
  /\ request # "none" => state = "stopping"
  /\ request = "ok" => ~controller_active /\ ~activation
  /\ activation => ~controller_active

WatchdogInv == WatchdogTypeOK /\ StopIsKnown

LEMMA WatchdogInitInv == Init => WatchdogInv
BY DEF Init, Watchdog!Init, WatchdogInv, WatchdogTypeOK, Watchdog!TypeOK, StopIsKnown

LEMMA ServedKeeps ==
  ASSUME WatchdogInv, NEW result \in {"ok", "refused"}, Watchdog!Served(result)
  PROVE  /\ Watchdog!TypeOK'
         /\ state' = state /\ stop_confirmed' = stop_confirmed
         /\ request' # request => request = "sent" /\ request' = result
<1>1. CASE request = "sent" /\ request' = result /\ UNCHANGED stale_requests
  BY <1>1 DEF Watchdog!Served, WatchdogInv, WatchdogTypeOK, Watchdog!TypeOK
<1>2. CASE "sent" \in stale_requests /\ UNCHANGED request
  <2>1. PICK more \in SUBSET {"sent"} :
          stale_requests' = (stale_requests \ {"sent"}) \cup more
                              \cup ({result} \cap {"ok"})
    BY <1>2 DEF Watchdog!Served
  <2>2. stale_requests' \subseteq {"sent", "ok"}
    BY <2>1 DEF WatchdogInv, WatchdogTypeOK, Watchdog!TypeOK
  <2>3. QED
    BY <1>2, <2>2 DEF Watchdog!Served, WatchdogInv, WatchdogTypeOK, Watchdog!TypeOK
<1>3. QED
  BY <1>1, <1>2 DEF Watchdog!Served

LEMMA WatchdogInvariance == WatchdogInv /\ [Next]_vars => WatchdogInv'
<1> SUFFICES ASSUME WatchdogInv, [Next]_vars PROVE WatchdogInv'
  OBVIOUS
<1> USE DEF WatchdogInv, WatchdogTypeOK, Watchdog!TypeOK, watchdogVars, remoteVars
<1>1. CASE UNCHANGED <<watchdogVars, remoteVars>>
  BY <1>1 DEF StopIsKnown
<1>2. CASE WatchdogStep
  <2>1. UNCHANGED remoteVars
    BY <1>2 DEF WatchdogStep
  <2>2. CASE Watchdog!Monitor
    <3>1. /\ state' \in {"waiting", "monitoring", "stopping", "latched"}
          /\ stop_confirmed' \in BOOLEAN
          /\ \/ state' = state /\ stop_confirmed' = stop_confirmed
             \/ /\ state = "monitoring" /\ state' = "stopping"
                /\ stop_confirmed' = FALSE
      BY <2>2 DEF Watchdog!Monitor, Watchdog!LostHeartbeat, Watchdog!BeginFaultStop
    <3>2. /\ request' \in {"none", "sent", "ok", "refused"}
          /\ request' \notin {"none", request} =>
               request' = "sent" /\ state' \in {"stopping", "latched"} /\ ~stop_confirmed'
      BY <2>2 DEF Watchdog!Monitor, Watchdog!AskWhenDue
    <3>3. stale_requests' \subseteq {"sent", "ok"} /\ heartbeat_fresh' \in BOOLEAN
      BY <2>2 DEF Watchdog!Monitor, Watchdog!Superseded
    <3>4. QED
      BY <2>1, <3>1, <3>2, <3>3 DEF StopIsKnown
  <2>3. CASE Watchdog!StopMotion
    BY <2>1, <2>3 DEF Watchdog!StopMotion, Watchdog!BeginFaultStop, StopIsKnown
  <2>4. CASE Watchdog!Answer
    BY <2>1, <2>4 DEF Watchdog!Answer, StopIsKnown
  <2>5. CASE Watchdog!AnswerStale
    BY <2>1, <2>5 DEF Watchdog!AnswerStale, StopIsKnown
  <2>6. CASE Watchdog!ResetFault
    BY <2>1, <2>6 DEF Watchdog!ResetFault, StopIsKnown
  <2>7. CASE Watchdog!SoftTimeout
    BY <2>1, <2>7 DEF Watchdog!SoftTimeout, StopIsKnown
  <2>8. QED
    BY <1>2, <2>2, <2>3, <2>4, <2>5, <2>6, <2>7 DEF WatchdogStep, Watchdog!OwnStep
<1>3. CASE Heartbeat
  <2>1. UNCHANGED watchdogVars \/ Watchdog!ReceiveHeartbeat
    BY <1>3 DEF Heartbeat
  <2>2. UNCHANGED remoteVars
    BY <1>3 DEF Heartbeat
  <2>3. QED
    BY <2>1, <2>2 DEF Watchdog!ReceiveHeartbeat, StopIsKnown
<1>4. CASE AskActivation
  BY <1>4 DEF AskActivation, StopIsKnown
<1>5. CASE ActivateController
  <2>1. controller_active' \in BOOLEAN
    BY <1>5 DEF ActivateController
  <2>2. QED
    BY <1>5, <2>1 DEF ActivateController, StopIsKnown
<1>6. CASE DeactivateController
  <2>1. controller_active' = FALSE /\ activation' = activation
    BY <1>6 DEF DeactivateController
  <2>2. CASE controller_active
    <3>1. Watchdog!Served("ok")
      BY <1>6, <2>2 DEF DeactivateController
    <3>2. ~activation
      BY <2>2 DEF StopIsKnown
    <3>3. QED
      BY <2>1, <3>1, <3>2, ServedKeeps DEF StopIsKnown
  <2>3. CASE ~controller_active
    <3>1. Watchdog!Served("refused")
      BY <1>6, <2>3 DEF DeactivateController
    <3>2. QED
      BY <2>1, <3>1, ServedKeeps DEF StopIsKnown
  <2>4. QED
    BY <2>2, <2>3
<1>7. CASE DeactivationTimesOut
  BY <1>7, ServedKeeps DEF DeactivationTimesOut, StopIsKnown
<1>8. CASE ExecuteGoal
  BY <1>8 DEF ExecuteGoal, StopIsKnown
<1>9. CASE HardwareError
  BY <1>9 DEF HardwareError, StopIsKnown
<1>10. CASE RestartManager
  BY <1>10 DEF RestartManager, StopIsKnown
<1>11. QED
  BY <1>1, <1>2, <1>3, <1>4, <1>5, <1>6, <1>7, <1>8, <1>9, <1>10
  DEF Next, SystemStep, RemoteStep, vars

\* A watchdog that reports a stop has stopped the trajectory controller, and
\* reset_fault resumes nothing: whatever the order of answers and activations.
THEOREM StopIsReal == Spec => []LatchedMeansStopped
<1>1. WatchdogInv => LatchedMeansStopped
  BY DEF WatchdogInv, StopIsKnown, LatchedMeansStopped
<1>2. QED
  BY <1>1, WatchdogInitInv, WatchdogInvariance, PTL DEF Spec

-----------------------------------------------------------------------------
(* The hardware interface. *)

LEMMA StepRefines == [Next]_vars => [System!Next]_systemVars
<1> SUFFICES ASSUME [Next]_vars, ~UNCHANGED systemVars PROVE System!Next
  OBVIOUS
<1>1. CASE SystemStep
  BY <1>1 DEF SystemStep, System!Next
<1>2. CASE RemoteStep
  BY <1>2
  DEF RemoteStep, Heartbeat, AskActivation, ActivateController,
      DeactivateController, DeactivationTimesOut, ExecuteGoal, HardwareError,
      RestartManager, System!Next
<1>3. QED
  BY <1>1, <1>2 DEF Next, WatchdogStep, vars

\* The interface inside the whole behaves as MiraculousSystem says, whatever the
\* watchdog, controller_manager, the network and the operator do: everything that
\* is proved of MiraculousSystem holds of the whole.
THEOREM Implements == Spec => System!Spec
<1>1. Init => System!Init
  BY DEF Init
<1>2. QED
  BY <1>1, StepRefines, PTL DEF Spec, System!Spec, systemVars, System!vars

\* The theorems of MiraculousSystem, for the interface inside the whole.  Proofs
\* is a second instance of that module: SameNext says that its actions are those
\* of System.
Proofs == INSTANCE MiraculousSystem_proofs

LEMMA SameNext == System!Next => Proofs!Next
BY DEF System!latch, System!drives, System!inputs, System!faults, System!vars,
  System!SafeSnapshots, System!StopDrives, System!Latch, System!FailSafeStop,
  System!ShutdownArm, System!StopRemoteWatchdog, System!Idle, System!Reject,
  System!ConfigureLatched, System!ConfigureFails, System!Configure,
  System!ActivateAllowed, System!Activate, System!EnableCsp,
  System!EnableCspFails, System!Confirm, System!ConfirmFails,
  System!Deactivate, System!DeactivateFails, System!Cleanup, System!Shutdown,
  System!OnError, System!Restart, System!InCycle, System!FaultSeen,
  System!FeedbackRejected, System!LostInMotion, System!NextStreak,
  System!FollowingErrorTrips, System!ReadFails, System!Read,
  System!CommandAdvanced, System!WriteRefused, System!WriteFails,
  System!Write, System!Send, System!SendFails, System!HeartbeatFrame,
  System!ReceiveHeartbeat, System!HardTimeout, System!DriveFault,
  System!InputFrame, System!NewFeedback, System!Settle, System!Update,
  System!LifecycleStep, System!CycleStep, System!PlantStep, System!Next,
  Proofs!latch, Proofs!drives, Proofs!inputs, Proofs!faults, Proofs!vars,
  Proofs!SafeSnapshots, Proofs!StopDrives, Proofs!Latch, Proofs!FailSafeStop,
  Proofs!ShutdownArm, Proofs!StopRemoteWatchdog, Proofs!Idle, Proofs!Reject,
  Proofs!ConfigureLatched, Proofs!ConfigureFails, Proofs!Configure,
  Proofs!ActivateAllowed, Proofs!Activate, Proofs!EnableCsp,
  Proofs!EnableCspFails, Proofs!Confirm, Proofs!ConfirmFails,
  Proofs!Deactivate, Proofs!DeactivateFails, Proofs!Cleanup, Proofs!Shutdown,
  Proofs!OnError, Proofs!Restart, Proofs!InCycle, Proofs!FaultSeen,
  Proofs!FeedbackRejected, Proofs!LostInMotion, Proofs!NextStreak,
  Proofs!FollowingErrorTrips, Proofs!ReadFails, Proofs!Read,
  Proofs!CommandAdvanced, Proofs!WriteRefused, Proofs!WriteFails,
  Proofs!Write, Proofs!Send, Proofs!SendFails, Proofs!HeartbeatFrame,
  Proofs!ReceiveHeartbeat, Proofs!HardTimeout, Proofs!DriveFault,
  Proofs!InputFrame, Proofs!NewFeedback, Proofs!Settle, Proofs!Update,
  Proofs!LifecycleStep, Proofs!CycleStep, Proofs!PlantStep, Proofs!Next

LEMMA SameVars == System!vars = Proofs!vars
BY DEF System!vars, Proofs!vars

LEMMA SameInit == System!Init => Proofs!Init
BY DEF System!Init, Proofs!Init

LEMMA SameSpec == System!Spec => Proofs!Spec
<1>1. [System!Next]_System!vars => [Proofs!Next]_Proofs!vars
  BY SameNext, SameVars DEF System!vars, Proofs!vars
<1>2. QED
  BY <1>1, SameInit, PTL DEF System!Spec, Proofs!Spec

\* No drive has power without an owner, whatever happens around the interface.
THEOREM RemotePowerIsOwned == Spec => []PowerHasOwner
<1>1. Proofs!PowerHasOwner => PowerHasOwner
  BY DEF PowerHasOwner, System!PowerHasOwner, Proofs!PowerHasOwner
<1>2. Proofs!Spec => []Proofs!PowerHasOwner
  BY Proofs!PowerIsOwned, CyclesAssumption
<1>3. QED
  BY <1>1, <1>2, Implements, SameSpec, PTL

\* A Quick Stop is the end of power until controller_manager is restarted.
THEOREM RemoteStopIsFinal == Spec => NoPowerAfterStop
<1>1. Proofs!Spec => Proofs!NoPowerAfterStop
  BY Proofs!StopIsFinal, CyclesAssumption
<1>2. QED
  BY <1>1, Implements, SameSpec, SameVars, PTL
  DEF NoPowerAfterStop, System!NoPowerAfterStop, Proofs!NoPowerAfterStop,
      System!vars, Proofs!vars

\* A fault that latched the interface is the end of motion control as well:
\* whatever the watchdog reports or is reset, and whoever activates a controller,
\* nothing is enabled or sent until controller_manager is restarted.
THEOREM RemoteFaultIsFinal ==
  Spec => [](fault_latched => ~active /\ call \in {"none", "error"})
<1>1. Proofs!FaultHoldsStill => (fault_latched => ~active /\ call \in {"none", "error"})
  BY DEF Proofs!FaultHoldsStill
<1>2. Proofs!Spec => []Proofs!FaultHoldsStill
  BY Proofs!FaultIsFinal, CyclesAssumption
<1>3. QED
  BY <1>1, <1>2, Implements, SameSpec, PTL

\* The types of the whole.
THEOREM RemoteTypeCorrect == Spec => []TypeOK
<1>1. Proofs!Spec => []Proofs!TypeOK
  BY Proofs!TypeCorrect, CyclesAssumption
<1>2. Proofs!TypeOK /\ WatchdogInv => TypeOK
  BY DEF TypeOK, System!TypeOK, Proofs!TypeOK, System!SafeSnapshots,
      Proofs!SafeSnapshots, WatchdogInv, WatchdogTypeOK
<1>3. QED
  BY <1>1, <1>2, Implements, SameSpec, WatchdogInitInv, WatchdogInvariance, PTL
  DEF Spec

=============================================================================
