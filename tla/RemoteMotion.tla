---------------------------- MODULE RemoteMotion ----------------------------
(***************************************************************************)
(* Motion ordered by an external PC: its best-effort heartbeat, the soft   *)
(* watchdog of the board (RemoteWatchdog), controller_manager with the     *)
(* trajectory controller, and the hardware interface with the hard guard   *)
(* (MiraculousSystem).  The two guards hear the same heartbeat, each with  *)
(* losses of its own, and know nothing of each other.                      *)
(*                                                                         *)
(* controller_manager and the trajectory controller are ROS 2 Humble, not  *)
(* of this repository: they are modelled by what its code relies on.  The  *)
(* operator follows the documented recovery: reset_fault, then activation. *)
(***************************************************************************)
EXTENDS SystemParameters

VARIABLES
  lifecycle, call, has_arm, active, fault_latched, stop_issued, emcy_latched,
  fault_detected, following_error_streak, remote_fresh,
  snapshot, command, powered, moving, unreached, stops,
  state, heartbeat_fresh, stop_confirmed, request,
  stale_requests,
  controller_active,  \* arm_controller is active: goals run in it and end as they like
  activation          \* an operator's activation request is on its way

System == INSTANCE MiraculousSystem
Watchdog == INSTANCE RemoteWatchdog

systemVars == <<lifecycle, call, has_arm, active, fault_latched, stop_issued,
                emcy_latched, fault_detected, following_error_streak,
                remote_fresh, snapshot, command,
                powered, moving, unreached, stops>>
watchdogVars == <<state, heartbeat_fresh, stop_confirmed,
                  request, stale_requests>>
remoteVars == <<controller_active, activation>>
vars == <<systemVars, watchdogVars, remoteVars>>

TypeOK ==
  /\ System!TypeOK /\ Watchdog!TypeOK
  /\ controller_active \in BOOLEAN /\ activation \in BOOLEAN

-----------------------------------------------------------------------------
(* The PC. *)

\* One heartbeat; either guard may miss it, and a PC or a network that is gone
\* sends none.
Heartbeat ==
  /\ \/ System!ReceiveHeartbeat /\ UNCHANGED watchdogVars
     \/ Watchdog!ReceiveHeartbeat /\ UNCHANGED systemVars
     \/ System!ReceiveHeartbeat /\ Watchdog!ReceiveHeartbeat
  /\ UNCHANGED remoteVars

-----------------------------------------------------------------------------
(* The operator, controller_manager and the trajectory controller. *)

\* switch_controllers --activate, at the start and after reset_fault.
AskActivation ==
  /\ state \in {"waiting", "monitoring"}
  /\ ~controller_active /\ ~activation
  /\ activation' = TRUE
  /\ UNCHANGED <<systemVars, watchdogVars, controller_active>>

\* Activation needs the command interfaces of active hardware.
ActivateController ==
  /\ activation /\ activation' = FALSE
  /\ controller_active' = (controller_active \/ lifecycle = "active")
  /\ UNCHANGED <<systemVars, watchdogVars>>

\* A deactivation that is carried out ends the goal.  With STRICT it is refused
\* for a controller that is not active.
DeactivateController ==
  /\ Watchdog!Served(IF controller_active THEN "ok" ELSE "refused")
  /\ controller_active' = FALSE
  /\ UNCHANGED <<systemVars, activation>>

\* controller_manager gives up within its own timeout.
DeactivationTimesOut ==
  /\ Watchdog!Served("refused")
  /\ UNCHANGED <<systemVars, remoteVars>>

\* One cycle of a goal, whatever the watchdog thinks; without one the command
\* is held.  A cancelled or aborted goal has no further cycle.
ExecuteGoal ==
  /\ controller_active
  /\ System!Update
  /\ UNCHANGED <<watchdogVars, remoteVars>>

\* The framework deactivates the controllers of hardware that failed.
HardwareError ==
  /\ System!OnError
  /\ controller_active' = FALSE
  /\ UNCHANGED <<watchdogVars, activation>>

RestartManager ==
  /\ System!Restart
  /\ controller_active' = FALSE /\ activation' = FALSE
  /\ UNCHANGED watchdogVars

-----------------------------------------------------------------------------
Init ==
  /\ System!Init /\ Watchdog!Init
  /\ controller_active = FALSE /\ activation = FALSE

SystemStep ==
  /\ \/ System!LifecycleStep \/ System!CycleStep \/ System!PlantStep
     \/ System!HardTimeout
  /\ UNCHANGED <<watchdogVars, remoteVars>>

WatchdogStep ==
  /\ Watchdog!OwnStep \/ Watchdog!SoftTimeout
  /\ UNCHANGED <<systemVars, remoteVars>>

RemoteStep ==
  \/ Heartbeat
  \/ AskActivation \/ ActivateController
  \/ DeactivateController \/ DeactivationTimesOut
  \/ ExecuteGoal
  \/ HardwareError \/ RestartManager

Next == SystemStep \/ WatchdogStep \/ RemoteStep

Spec == Init /\ [][Next]_vars

\* The control loop calls read again and again, and calls return.  Read looks at
\* velocities of some time ago: it sees a motion that lasts, and may miss one that
\* ends.  Nothing is assumed of the watchdog, of controller_manager, of the network,
\* of the operator, nor that joints come to rest.
SystemFairness ==
  /\ WF_vars(System!ReadFails(FALSE) /\ UNCHANGED <<watchdogVars, remoteVars>>)
  /\ <>[]moving =>
       SF_vars(System!ReadFails(TRUE) /\ UNCHANGED <<watchdogVars, remoteVars>>)
  /\ WF_vars((System!Send \/ System!SendFails) /\ UNCHANGED <<watchdogVars, remoteVars>>)

FairSpec == Spec /\ SystemFairness

-----------------------------------------------------------------------------
(* Properties. *)

\* "latched" is what the board reports as stopped and what reset_fault accepts:
\* the trajectory controller is then inactive, and no goal of before the stop can
\* go on after the reset.  Answers to superseded requests, operators and
\* activations on their way may come in any order.
LatchedMeansStopped == state = "latched" => ~controller_active

\* The properties of MiraculousSystem, of the whole: no drive has power without
\* an owner, a Quick Stop is the end of power in this process, a fault takes the
\* component out of active, and a lost PC leaves the arm at rest or stopped although
\* the soft watchdog may do nothing at all.
PowerHasOwner == System!PowerHasOwner
NoPowerAfterStop == System!NoPowerAfterStop
FaultStops == System!FaultStops
LostPcStandsStill == System!LostPcStandsStill

=============================================================================
