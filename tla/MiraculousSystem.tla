-------------------------- MODULE MiraculousSystem --------------------------
(***************************************************************************)
(* The ros2_control hardware interface (miraculous_system.cpp): lifecycle  *)
(* callbacks, the realtime read and write of one control cycle, the fault  *)
(* latch, and the hard guard on the heartbeat of the external PC.          *)
(*                                                                         *)
(* The framework serialises callbacks, read and write: active_,            *)
(* fault_latched_ and the command bookkeeping are plain members.  EMCY     *)
(* frames (SDK receive thread), heartbeats (their own executor thread),    *)
(* feedback, drive faults and the passing of time interleave with every    *)
(* step.  The arm is known by what ArmCsp shows of it: a call succeeds, or *)
(* it fails and may leave drives in Operation Enabled.                     *)
(***************************************************************************)
EXTENDS SystemParameters

VARIABLES
  lifecycle,              \* state of the component, kept by the framework
  call,                   \* what the framework is inside of
  has_arm,                \* arm_ # nullptr
  active,                 \* active_
  fault_latched,          \* fault_latched_
  stop_issued,            \* stop_issued_
  emcy_latched,           \* emcy_latched_; it counts while there is an arm
  fault_detected,         \* arm_->has_fault()
  following_error_streak, \* following_error_streak_
  remote_fresh,           \* remote_heartbeat_is_fresh()
  snapshot,               \* what read finds in get_feedback_snapshot
  command,                \* position_commands_ against last_sent_commands_
  powered,                \* some drive is in Operation Enabled
  moving,                 \* a powered joint is faster than the stop threshold
  unreached,              \* history: the last stop left powered drives behind
  stops                   \* history: Quick Stops since the process started

latch == <<active, fault_latched, stop_issued, stops>>
drives == <<powered, unreached, moving>>
inputs == <<snapshot, command>>
faults == <<emcy_latched, fault_detected>>
vars == <<lifecycle, call, has_arm, active, fault_latched, stop_issued,
          emcy_latched, fault_detected, following_error_streak,
          remote_fresh, snapshot, command, powered,
          moving, unreached, stops>>

\* A fresh, finite snapshot within the limits: one that was compared already, or
\* a new set with a small or a large following error.  Any other is "bad".
SafeSnapshots == {"seen", "small", "large"}

TypeOK ==
  /\ lifecycle \in {"unconfigured", "inactive", "active", "finalized"}
  /\ call \in {"none", "enable", "confirm", "send", "error"}
  /\ has_arm \in BOOLEAN /\ active \in BOOLEAN
  /\ fault_latched \in BOOLEAN /\ stop_issued \in BOOLEAN
  /\ emcy_latched \in BOOLEAN /\ fault_detected \in BOOLEAN
  /\ following_error_streak \in 0 .. FollowingErrorCycles - 1
  /\ remote_fresh \in BOOLEAN
  /\ snapshot \in SafeSnapshots \cup {"bad"}
  /\ command \in {"held", "next", "rejected"}
  /\ powered \in BOOLEAN /\ moving \in BOOLEAN
  /\ unreached \in BOOLEAN /\ stops \in 0 .. 1

-----------------------------------------------------------------------------
(* Stopping. *)

\* A stop sequence sent to drives of which p says whether one has power and m
\* whether one moves: they obey, or some keep power and motion.
StopDrives(p, m) ==
  /\ powered' \in {FALSE, p}
  /\ unreached' = powered'
  /\ moving' = (m /\ powered')

\* Mutant of Latch: the fault is not latched.
LatchForgotten ==
  /\ active' = FALSE
  /\ stop_issued' = TRUE
  /\ stops' = IF stop_issued \/ ~has_arm THEN stops ELSE stops + 1
  /\ UNCHANGED fault_latched

\* What fail_safe_stop does to the component.
Latch ==
  /\ active' = FALSE
  /\ fault_latched' = TRUE /\ stop_issued' = TRUE
  /\ stops' = IF stop_issued \/ ~has_arm THEN stops ELSE stops + 1

\* fail_safe_stop and the error that is returned.  One Quick Stop, not repeated
\* whatever it reached; p, m: a drive has power, moves before.
FailSafeStop(p, m) ==
  /\ Latch
  /\ IF stop_issued \/ ~has_arm
     THEN powered' = p /\ moving' = m /\ UNCHANGED unreached
     ELSE StopDrives(p, m)
  /\ call' = "error"
  /\ UNCHANGED <<lifecycle, has_arm, faults, following_error_streak,
                 remote_fresh, inputs>>

\* Mutant of ShutdownArm: the arm object goes, its drives are left as they are.
ShutdownArmOnly ==
  /\ has_arm' = FALSE /\ emcy_latched' = FALSE /\ fault_detected' = FALSE
  /\ snapshot' = "bad" /\ command' = "held"
  /\ UNCHANGED drives

\* shutdown_arm: MiraculousArm::shutdown writes Disable Voltage to every drive.
\* Nothing of its feedback, its faults and the commands for it counts any more.
ShutdownArm ==
  /\ has_arm' = FALSE /\ emcy_latched' = FALSE /\ fault_detected' = FALSE
  /\ snapshot' = "bad" /\ command' = "held"
  /\ IF has_arm THEN StopDrives(powered, moving) ELSE UNCHANGED drives

\* stop_remote_watchdog: no heartbeat has been seen any more.
StopRemoteWatchdog == remote_fresh' = FALSE

-----------------------------------------------------------------------------
(* Lifecycle callbacks. *)

Idle == call = "none"

Reject == call' = "error"

\* Refused: a latched fault needs a new process.
ConfigureLatched ==
  /\ Idle /\ lifecycle = "unconfigured" /\ fault_latched
  /\ Reject
  /\ UNCHANGED <<lifecycle, has_arm, latch, faults, following_error_streak,
                 remote_fresh, inputs, drives>>

\* A parameter is refused, the arm does not initialise, or no safe encoder seed
\* arrives in time.  An arm that did initialise is shut down again.
ConfigureFails ==
  /\ Idle /\ lifecycle = "unconfigured" /\ ~fault_latched
  /\ StopDrives(powered, moving) /\ StopRemoteWatchdog
  /\ Reject
  /\ UNCHANGED <<lifecycle, has_arm, latch, faults, following_error_streak, inputs>>

\* EMCYs of the time before the callback is registered show in has_fault only.
Configure ==
  /\ Idle /\ lifecycle = "unconfigured" /\ ~fault_latched
  /\ lifecycle' = "inactive"
  /\ has_arm' = TRUE /\ active' = FALSE
  /\ emcy_latched' = FALSE /\ fault_detected' \in BOOLEAN
  /\ snapshot' = "seen" /\ command' = "held"
  /\ following_error_streak' = 0
  /\ stop_issued' = FALSE
  /\ remote_fresh' = FALSE
  /\ UNCHANGED <<call, fault_latched, drives, stops>>

ActivateAllowed ==
  /\ has_arm /\ ~fault_latched /\ ~emcy_latched
  /\ remote_fresh
  /\ snapshot \in SafeSnapshots

\* on_activate up to enable_csp: refused without a latch, or enabling.
Activate ==
  /\ Idle /\ lifecycle = "inactive"
  /\ call' = IF ActivateAllowed THEN "enable" ELSE "error"
  /\ UNCHANGED <<lifecycle, has_arm, latch, faults, following_error_streak,
                 remote_fresh, inputs, drives>>

EnableCsp ==
  /\ call = "enable"
  /\ call' = "confirm"
  /\ powered' = TRUE /\ unreached' = FALSE
  /\ UNCHANGED <<lifecycle, has_arm, latch, faults, following_error_streak,
                 remote_fresh, inputs, moving>>

\* enable_csp rolled back, completely or not.
EnableCspFails ==
  /\ call = "enable"
  /\ \E rolled_back \in BOOLEAN : FailSafeStop(~rolled_back, moving)

\* Feedback is looked at once more before the component becomes active.
Confirm ==
  /\ call = "confirm"
  /\ snapshot \in SafeSnapshots
  /\ active' = TRUE
  /\ following_error_streak' = 0
  /\ snapshot' = "seen" /\ command' = "held"
  /\ lifecycle' = "active" /\ call' = "none"
  /\ UNCHANGED <<has_arm, fault_latched, stop_issued, stops, faults,
                 remote_fresh, drives>>

ConfirmFails ==
  /\ call = "confirm"
  /\ snapshot \notin SafeSnapshots
  /\ FailSafeStop(powered, moving)

Deactivate ==
  /\ Idle /\ lifecycle = "active"
  /\ active' = FALSE
  /\ following_error_streak' = 0
  /\ lifecycle' = "inactive"
  /\ IF has_arm /\ active THEN powered' = FALSE /\ unreached' = FALSE /\ moving' = FALSE
                          ELSE UNCHANGED drives
  /\ UNCHANGED <<call, has_arm, fault_latched, stop_issued, stops, faults,
                 remote_fresh, inputs>>

\* disable() could not confirm every drive.
DeactivateFails ==
  /\ Idle /\ lifecycle = "active" /\ has_arm /\ active
  /\ Latch
  /\ StopDrives(powered, moving)
  /\ following_error_streak' = 0
  /\ call' = "error"
  /\ UNCHANGED <<lifecycle, has_arm, faults, remote_fresh, inputs>>

Cleanup ==
  /\ Idle /\ lifecycle = "inactive"
  /\ lifecycle' = "unconfigured"
  /\ active' = FALSE
  /\ StopRemoteWatchdog /\ ShutdownArm
  /\ UNCHANGED <<call, fault_latched, stop_issued, stops,
                 following_error_streak>>

\* An active component sends Quick Stop first.
Shutdown ==
  /\ Idle /\ lifecycle # "finalized"
  /\ lifecycle' = "finalized"
  /\ stops' = IF active /\ has_arm /\ ~stop_issued THEN stops + 1 ELSE stops
  /\ active' = FALSE
  /\ StopRemoteWatchdog /\ ShutdownArm
  /\ UNCHANGED <<call, fault_latched, stop_issued,
                 following_error_streak>>

\* Every ERROR leads here, and from here to unconfigured.
OnError ==
  /\ call = "error"
  /\ call' = "none" /\ lifecycle' = "unconfigured"
  /\ IF active \/ fault_latched THEN Latch ELSE UNCHANGED latch
  /\ StopRemoteWatchdog /\ ShutdownArm
  /\ UNCHANGED following_error_streak

\* controller_manager ends and starts again; the destructors shut the arm down.
Restart ==
  /\ Idle
  /\ lifecycle' = "unconfigured"
  /\ ShutdownArm /\ StopRemoteWatchdog
  /\ active' = FALSE /\ fault_latched' = FALSE /\ stop_issued' = FALSE
  /\ following_error_streak' = 0 /\ stops' = 0
  /\ UNCHANGED call

-----------------------------------------------------------------------------
(* The control cycle.  The framework calls read and write while the component *)
(* is inactive or active; an ERROR of theirs is followed by on_error.         *)

InCycle == Idle /\ lifecycle \in {"inactive", "active"}

\* Mutant of FaultSeen: read and write look at the feedback only.
FaultUnseen == FALSE

FaultSeen == emcy_latched \/ fault_detected

FeedbackRejected == snapshot = "bad"

\* Still moving although the PC is lost, by the velocities of the snapshot: fast
\* if one exceeds the stop threshold, which may be so before a motion is seen and
\* after it has ended.
LostInMotion(fast) == active /\ ~remote_fresh /\ fast

\* following_error_is_safe compares a feedback set once; a frozen set neither
\* counts nor clears the streak.
NextStreak ==
  IF snapshot = "seen" THEN following_error_streak
  ELSE IF snapshot = "small" THEN 0
  ELSE following_error_streak + 1

\* Mutant of FollowingErrorTrips: one more large error is let through.
FollowingErrorTripsLate ==
  /\ active /\ snapshot = "large"
  /\ NextStreak > FollowingErrorCycles

\* The count that trips is not kept: what follows is a stop for good.
FollowingErrorTrips ==
  /\ active /\ snapshot = "large"
  /\ NextStreak >= FollowingErrorCycles

\* An inactive component refuses bad feedback without consequences.
ReadFails(fast) ==
  /\ InCycle /\ has_arm
  /\ \/ FaultSeen
     \/ active /\ (FeedbackRejected \/ LostInMotion(fast) \/ FollowingErrorTrips)
  /\ FailSafeStop(powered, moving)

Read(fast) ==
  /\ InCycle /\ has_arm
  /\ ~FaultSeen /\ ~FeedbackRejected
  /\ ~LostInMotion(fast) /\ ~FollowingErrorTrips
  /\ IF active
     THEN /\ following_error_streak' = NextStreak
          /\ snapshot' = "seen"
     ELSE UNCHANGED <<following_error_streak, snapshot>>
  /\ UNCHANGED <<lifecycle, call, has_arm, latch, faults, remote_fresh,
                 command, drives>>

\* remote_command_advanced; last_command_valid_ holds whenever active_ does.
CommandAdvanced == command # "held"

\* Mutant of WriteRefused: the guard on the heartbeat is left to read.
WriteRefusedLocally == FaultSeen \/ command = "rejected"

\* What stops the arm instead of being sent: a fault, an advancing command of a
\* lost PC, a command that is not finite, out of limits or too large a step.
WriteRefused ==
  \/ FaultSeen
  \/ ~remote_fresh /\ CommandAdvanced
  \/ command = "rejected"

WriteFails ==
  /\ InCycle /\ active /\ has_arm
  /\ WriteRefused
  /\ FailSafeStop(powered, moving)

Write ==
  /\ InCycle /\ active /\ has_arm
  /\ ~WriteRefused
  /\ call' = "send"
  /\ UNCHANGED <<lifecycle, has_arm, latch, faults, following_error_streak,
                 remote_fresh, inputs, drives>>

\* set_targets_rad: one batch, one SYNC, fresh feedback of every joint.
Send ==
  /\ call = "send"
  /\ call' = "none"
  /\ moving' = (moving \/ command = "next")
  /\ command' = "held"
  /\ UNCHANGED <<lifecycle, has_arm, active, fault_latched, stop_issued, stops,
                 faults, following_error_streak, remote_fresh, snapshot,
                 powered, unreached>>

\* A write failed before the SYNC, or the feedback after it was missing or off.
SendFails ==
  /\ call = "send"
  /\ \E sent \in BOOLEAN :
       FailSafeStop(powered, moving \/ (sent /\ command = "next"))

-----------------------------------------------------------------------------
(* What happens to the component. *)

HeartbeatFrame ==
  UNCHANGED <<lifecycle, call, has_arm, latch, faults, following_error_streak,
              inputs, drives>>

\* A heartbeat with the expected fingerprint, while the guard is subscribed.
ReceiveHeartbeat ==
  /\ has_arm
  /\ remote_fresh' = TRUE
  /\ HeartbeatFrame

\* The hard timeout passes without one, or the guard's thread fails.
HardTimeout ==
  /\ remote_fresh' = FALSE
  /\ HeartbeatFrame

\* An EMCY frame, or a fault in a polled statusword; faulty drives lose power.
DriveFault ==
  /\ has_arm
  /\ fault_detected' = TRUE
  /\ emcy_latched' \in {emcy_latched, TRUE}
  /\ powered' \in {FALSE, powered}
  /\ unreached' = (unreached /\ powered') /\ moving' = (moving /\ powered')
  /\ UNCHANGED <<lifecycle, call, has_arm, latch, following_error_streak,
                 remote_fresh, inputs>>

InputFrame ==
  UNCHANGED <<lifecycle, call, has_arm, latch, faults, following_error_streak,
              remote_fresh, powered, unreached>>

\* A new set, or the last one grows too old.
NewFeedback ==
  /\ has_arm
  /\ snapshot' \in {"small", "large", "bad"}
  /\ UNCHANGED <<command, moving>>
  /\ InputFrame

\* Joints that get no new target come to rest.
Settle ==
  /\ moving' = FALSE
  /\ UNCHANGED <<snapshot, command>>
  /\ InputFrame

\* The update of a controller that executes a trajectory.  What controllers
\* command before activation is overwritten by the seed.
Update ==
  /\ Idle /\ active
  /\ command' \in {"next", "rejected"}
  /\ UNCHANGED <<snapshot, moving>>
  /\ InputFrame

-----------------------------------------------------------------------------
Init ==
  /\ lifecycle = "unconfigured" /\ call = "none"
  /\ has_arm = FALSE /\ active = FALSE
  /\ fault_latched = FALSE /\ stop_issued = FALSE
  /\ emcy_latched = FALSE /\ fault_detected = FALSE
  /\ following_error_streak = 0
  /\ remote_fresh = FALSE
  /\ snapshot = "bad" /\ command = "held"
  /\ powered = FALSE /\ moving = FALSE
  /\ unreached = FALSE /\ stops = 0

LifecycleStep ==
  \/ ConfigureLatched \/ ConfigureFails \/ Configure
  \/ Activate \/ EnableCsp \/ EnableCspFails \/ Confirm \/ ConfirmFails
  \/ Deactivate \/ DeactivateFails \/ Cleanup \/ Shutdown

CycleStep ==
  \/ \E fast \in BOOLEAN : ReadFails(fast) \/ Read(fast)
  \/ WriteFails \/ Write \/ Send \/ SendFails

PlantStep == DriveFault \/ NewFeedback \/ Settle

Next ==
  \/ LifecycleStep \/ OnError \/ Restart \/ CycleStep
  \/ PlantStep \/ ReceiveHeartbeat \/ HardTimeout \/ Update

Spec == Init /\ [][Next]_vars

-----------------------------------------------------------------------------
(* Properties. *)

\* Drives have power only while the component is active or about to be, or
\* while a stop sequence is known to have failed: no path through the callbacks
\* and the control cycle forgets powered drives.
PowerHasOwner == powered => active \/ call = "confirm" \/ unreached

\* Once a Quick Stop was sent, no drive gets power again in this process: not
\* by activating, reconfiguring or recovering in the framework.
NoPowerAfterStop == [][stops > 0 /\ ~powered => ~powered']_vars

\* An EMCY or a drive fault of an active component ends in a component that is
\* not active and in drives without power, or in a stop known to have failed.
FaultStops ==
  (active /\ (emcy_latched \/ fault_detected)) ~> (~active /\ (powered => unreached))

\* When the heartbeat stays away the arm ends at rest or stopped by Quick Stop,
\* whatever the controllers go on commanding and whether or not the joints come
\* to rest by themselves.  It takes both guards: write refuses what would move the
\* arm again, read stops an arm that goes on moving under a held command.
LostPcStandsStill == <>[]~remote_fresh => <>[](moving => ~active)

=============================================================================
