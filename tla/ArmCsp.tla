------------------------------- MODULE ArmCsp -------------------------------
(***************************************************************************)
(* The coordinated CSP power stage of MiraculousArm (miraculous_arm.cpp):  *)
(* one control thread runs enable_csp, set_targets_rad, disable,           *)
(* quick_stop, shutdown and init; the background read_loop polls feedback; *)
(* in timer mode the SDK receive thread emits periodic SYNC frames.  They  *)
(* share sdk_mutex_, csp_active_, exclusive_sdk_io_ and the CiA 402        *)
(* drives, which latch the last received RPDO target on every SYNC edge.   *)
(*                                                                         *)
(* Data is abstracted to what the properties tell apart.  A target is the  *)
(* batch it was written in: the seed of one enable attempt or the targets  *)
(* of one set_targets_rad call.  Batches that nothing refers to any more   *)
(* are reused, so that no counter has to be bounded.  Every SDK call may   *)
(* fail; a controlword write that fails may still have reached the drive.  *)
(***************************************************************************)
EXTENDS Integers, FiniteSets, Cia402

CONSTANTS
  NumJoints,      \* configured joints, in config_.joints order
  Batches,        \* identities of target batches
  NoBatch,        \* no target written / last_targets_valid_ is false
  TimerSync,      \* sync_period_us # 0
  TrustedRestart  \* init() only runs when no drive is in Operation Enabled

ASSUME NumJointsAssumption == NumJoints \in Nat \ {0}
ASSUME NoBatchAssumption == NoBatch \notin Batches
ASSUME BatchesAssumption ==
  IsFiniteSet(Batches) /\ Cardinality(Batches) >= 2 * NumJoints + 2
ASSUME ModeAssumption == TimerSync \in BOOLEAN /\ TrustedRestart \in BOOLEAN

VARIABLES
  drive,              \* CiA 402 state of each drive
  pending,            \* last RPDO target each drive received
  latched,            \* target each drive latched at the last SYNC edge
  csp_active,         \* csp_active_
  exclusive_sdk_io,   \* exclusive_sdk_io_
  sync_timer_running, \* sync_timer_running_, and the SDK's shared SYNC timer
  last_targets,       \* batch in last_targets_rad_, NoBatch when not valid
  sdk_mutex,          \* owner of sdk_mutex_
  pc,                 \* where the control thread is
  axis,               \* loop index over config_.joints
  tried,              \* axes whose stage is kEnableAttempted or later
  batch,              \* batch being written by the current call
  was_active,         \* disable(): csp_active_.exchange(false)
  verified,           \* disable(): release_exclusive_io
  reader,             \* where read_loop is
  receiver            \* where the SDK receive thread is in co_sync_handle_tick

devices == <<drive, pending, latched>>
control == <<pc, axis, tried, batch, was_active, verified>>
vars == <<drive, pending, latched, csp_active, exclusive_sdk_io,
          sync_timer_running, last_targets, sdk_mutex, pc, axis, tried,
          batch, was_active, verified, reader, receiver>>

Joints == 1 .. NumJoints

\* Control-thread positions of enable_csp while it holds sdk_mutex_.
Enabling == {"pauseTimer", "prepare", "switchOn", "seedFeedback", "writeSeed",
             "latchSeed", "enableAxis", "writeHold", "latchHold",
             "finalCheck", "resumeTimer", "rollbackStop", "rollbackDisable"}
Targeting == {"stepCheck", "writeTarget", "cycleSync", "followCheck"}
Holding == Enabling \cup Targeting
             \cup {"stopAll", "disableAll", "disableVoltage", "shutDisable"}
Outside == {"idle", "enableLock", "setLock", "disableLock", "disableRelease",
            "quickStopPublish", "quickStopLock", "join", "shutLock", "closed"}

TypeOK ==
  /\ drive \in [Joints -> DriveStates]
  /\ pending \in [Joints -> Batches \cup {NoBatch}]
  /\ latched \in [Joints -> Batches \cup {NoBatch}]
  /\ csp_active \in BOOLEAN
  /\ exclusive_sdk_io \in BOOLEAN
  /\ sync_timer_running \in BOOLEAN
  /\ last_targets \in Batches \cup {NoBatch}
  /\ sdk_mutex \in {"free", "control", "reader"}
  /\ pc \in Holding \cup Outside
  /\ axis \in Joints
  /\ tried \in 0 .. NumJoints
  /\ batch \in Batches \cup {NoBatch}
  /\ was_active \in BOOLEAN
  /\ verified \in BOOLEAN
  /\ reader \in {"sleep", "lock", "recheck", "cycle", "stopped"}
  /\ receiver \in {"poll", "tick"}

-----------------------------------------------------------------------------
(* The drives and the bus, as the SDK calls see them. *)

\* The drives in reached executed the command.
Execute(command, reached) ==
  drive' = [j \in Joints |-> IF j \in reached THEN After(command, drive[j])
                                              ELSE drive[j]]

\* One controlword written to the joints of S, every one attempted, and the
\* state expected of all of them verified; ok is what the caller concludes.
CommandAll(command, S, expected, ok) ==
  \E reached \in SUBSET S :
    /\ Execute(command, reached)
    /\ ok => reached = S /\ \A j \in S : drive'[j] = expected

\* A SYNC edge on the bus: every drive latches its pending target.
SyncEdge == latched' = pending

\* sync_and_wait_for_fresh_feedback_locked: not sent, sent but some drive's
\* TPDO2 missed the deadline, or every drive answered.
SyncAndWait(ok) ==
  \/ SyncEdge
  \/ ~ok /\ UNCHANGED latched

\* The next batch gets an identity nothing refers to; there always is one
\* (BatchesAssumption).
Unused == Batches \ ({pending[j] : j \in Joints} \cup {latched[j] : j \in Joints}
                       \cup {last_targets})

NewBatch ==
  /\ Unused # {}
  /\ batch' = CHOOSE b \in Unused : TRUE

DriveFault(j) ==
  /\ drive[j] # "Fault"
  /\ drive' = [drive EXCEPT ![j] = "Fault"]
  /\ UNCHANGED <<pending, latched, csp_active, exclusive_sdk_io, last_targets,
                 sync_timer_running, sdk_mutex, control, reader, receiver>>

\* The fault is cleared at the drive: no code path of the driver resets it.
DriveReset(j) ==
  /\ drive[j] = "Fault"
  /\ drive' = [drive EXCEPT ![j] = "SwitchOnDisabled"]
  /\ UNCHANGED <<pending, latched, csp_active, exclusive_sdk_io, last_targets,
                 sync_timer_running, sdk_mutex, control, reader, receiver>>

\* co_sync_handle_tick in the SDK receive thread, without sdk_mutex_ and
\* without the lock of the timer: one SYNC that is due when the timer is
\* stopped can still be sent afterwards.
TickRead ==
  /\ receiver = "poll"
  /\ sync_timer_running
  /\ receiver' = "tick"
  /\ UNCHANGED <<devices, csp_active, exclusive_sdk_io, last_targets,
                 sync_timer_running, sdk_mutex, control, reader>>

TickSend ==
  /\ receiver = "tick"
  /\ receiver' = "poll"
  /\ SyncEdge \/ UNCHANGED latched
  /\ UNCHANGED <<drive, pending, csp_active, exclusive_sdk_io, last_targets,
                 sync_timer_running, sdk_mutex, control, reader>>

TimerTick == TickRead \/ TickSend

-----------------------------------------------------------------------------
(* enable_csp. *)

\* Exclusive ownership is published before sdk_mutex_ is requested.  (With
\* csp_active_ already true the call returns at once and changes nothing.)
EnableEnter ==
  /\ pc = "idle"
  /\ ~csp_active
  /\ exclusive_sdk_io' = TRUE
  /\ pc' = "enableLock"
  /\ UNCHANGED <<devices, csp_active, sync_timer_running, last_targets, sdk_mutex,
                 axis, tried, batch, was_active, verified, reader, receiver>>

EnableLock ==
  /\ pc = "enableLock"
  /\ sdk_mutex = "free"
  /\ sdk_mutex' = "control"
  /\ csp_active' = FALSE
  /\ pc' = IF TimerSync THEN "pauseTimer" ELSE "prepare"
  /\ axis' = 1
  /\ tried' = 0
  /\ UNCHANGED <<devices, exclusive_sdk_io, sync_timer_running, last_targets,
                 batch, was_active, verified, reader, receiver>>

\* The frame of every later step of enable_csp up to its commit or rollback.
EnableFrame ==
  UNCHANGED <<csp_active, exclusive_sdk_io, last_targets, sdk_mutex,
              was_active, verified, reader, receiver>>

PauseTimer ==
  /\ pc = "pauseTimer"
  /\ \/ sync_timer_running' = FALSE /\ pc' = "prepare"
     \/ UNCHANGED sync_timer_running /\ pc' = "rollbackStop"
  /\ EnableFrame
  /\ UNCHANGED <<devices, axis, tried, batch>>

\* Mutant of Advance: the loop bound is off by one.
AdvancePastEnd(here, next) ==
  IF axis <= NumJoints THEN axis' = axis + 1 /\ pc' = here
                       ELSE axis' = 1 /\ pc' = next

\* Next joint of the current loop, or the next phase after the last one.
Advance(here, next) ==
  IF axis < NumJoints THEN axis' = axis + 1 /\ pc' = here
                      ELSE axis' = 1 /\ pc' = next

Abort == pc' = "rollbackStop" /\ axis' = 1

\* One iteration of a transition loop: the joint reaches the state that the
\* following wait_state verifies, or the call fails with the command executed
\* or not.
Transition(here, command, expected, next) ==
  /\ pc = here
  /\ \/ /\ After(command, drive[axis]) = expected
        /\ Execute(command, {axis})
        /\ Advance(here, next)
     \/ /\ \E reached \in SUBSET {axis} : Execute(command, reached)
        /\ Abort
  /\ EnableFrame
  /\ UNCHANGED <<pending, latched, sync_timer_running, batch>>

\* Fault check, Shutdown, Ready to Switch On and CSP mode of one joint.
Prepare ==
  /\ Transition("prepare", "Shutdown", "ReadyToSwitchOn", "switchOn")
  /\ UNCHANGED tried

SwitchOn ==
  /\ Transition("switchOn", "SwitchOn", "SwitchedOn", "seedFeedback")
  /\ UNCHANGED tried

\* The stage is recorded before the write: a failed write may have arrived.
EnableAxis ==
  /\ Transition("enableAxis", "EnableOperation", "OperationEnabled", "writeHold")
  /\ tried' = axis

\* acquire_fresh_seed_positions_locked: the positions read after the SYNC
\* become a new batch of targets.
SeedFeedback ==
  /\ pc = "seedFeedback"
  /\ \/ /\ SyncAndWait(TRUE)
        /\ NewBatch
        /\ pc' = "writeSeed" /\ axis' = 1
     \/ /\ SyncAndWait(FALSE)
        /\ UNCHANGED batch
        /\ Abort
  /\ EnableFrame
  /\ UNCHANGED <<drive, pending, sync_timer_running, tried>>

WriteBatch(here, next) ==
  /\ pc = here
  /\ \/ /\ pending' = [pending EXCEPT ![axis] = batch]
        /\ Advance(here, next)
     \/ /\ UNCHANGED pending
        /\ Abort
  /\ EnableFrame
  /\ UNCHANGED <<drive, latched, sync_timer_running, tried, batch>>

WriteSeed == WriteBatch("writeSeed", "latchSeed")
WriteHold == WriteBatch("writeHold", "latchHold")

LatchBatch(here, next) ==
  /\ pc = here
  /\ \/ SyncAndWait(TRUE) /\ pc' = next /\ axis' = 1
     \/ SyncAndWait(FALSE) /\ Abort
  /\ EnableFrame
  /\ UNCHANGED <<drive, pending, sync_timer_running, tried, batch>>

\* Mutant of LatchSeed: the SYNC that latches the seed is left out.
LatchSeedSkipped ==
  /\ pc = "latchSeed"
  /\ pc' = "enableAxis" /\ axis' = 1
  /\ EnableFrame
  /\ UNCHANGED <<devices, sync_timer_running, tried, batch>>

LatchSeed == LatchBatch("latchSeed", "enableAxis")
LatchHold == LatchBatch("latchHold", "finalCheck")

FinalCheck ==
  /\ pc = "finalCheck"
  /\ \/ /\ \A j \in Joints : drive[j] = "OperationEnabled"
        /\ pc' = "resumeTimer"
        /\ UNCHANGED axis
     \/ Abort
  /\ EnableFrame
  /\ UNCHANGED <<devices, sync_timer_running, tried, batch>>

\* Timer restart (timer mode), then the commit of the transaction.
ResumeTimer ==
  /\ pc = "resumeTimer"
  /\ \/ /\ sync_timer_running' = TimerSync
        /\ csp_active' = TRUE
        /\ last_targets' = batch
        /\ exclusive_sdk_io' = ~TimerSync
        /\ sdk_mutex' = "free"
        /\ pc' = "idle" /\ tried' = 0 /\ batch' = NoBatch
        /\ UNCHANGED <<devices, axis, was_active, verified, reader, receiver>>
     \/ /\ TimerSync
        /\ Abort
        /\ EnableFrame
        /\ UNCHANGED <<devices, sync_timer_running, tried, batch>>

\* rollback_csp_enable_locked, first part: stop the timer and quick-stop the
\* axes an Enable Operation write may have reached.
RollbackStop ==
  /\ pc = "rollbackStop"
  /\ csp_active' = FALSE
  /\ \E stopped \in BOOLEAN, quick \in BOOLEAN :
       /\ sync_timer_running' = IF stopped THEN FALSE ELSE sync_timer_running
       /\ stopped \/ TimerSync
       /\ \E reached \in SUBSET (1 .. tried) :
            /\ Execute("QuickStop", reached)
            /\ quick => reached = 1 .. tried
       /\ verified' = (stopped /\ quick)
  /\ pc' = "rollbackDisable"
  /\ UNCHANGED <<pending, latched, exclusive_sdk_io, last_targets, sdk_mutex,
                 axis, tried, batch, was_active, reader, receiver>>

\* Mutant of RollbackDisable: the quarantine depends on the first part only.
RollbackDisableTrusting ==
  /\ pc = "rollbackDisable"
  /\ \E ok \in BOOLEAN : CommandAll("DisableVoltage", Joints, "SwitchOnDisabled", ok)
  /\ exclusive_sdk_io' = ~verified
  /\ sdk_mutex' = "free"
  /\ pc' = "idle" /\ tried' = 0 /\ batch' = NoBatch /\ verified' = FALSE
  /\ UNCHANGED <<pending, latched, csp_active, sync_timer_running, last_targets,
                 axis, was_active, reader, receiver>>

\* Second part: cut the voltage of every joint and verify it; the quarantine
\* is kept unless everything succeeded.
RollbackDisable ==
  /\ pc = "rollbackDisable"
  /\ \E ok \in BOOLEAN :
       /\ CommandAll("DisableVoltage", Joints, "SwitchOnDisabled", ok)
       /\ exclusive_sdk_io' = ~(ok /\ verified)
  /\ sdk_mutex' = "free"
  /\ pc' = "idle" /\ tried' = 0 /\ batch' = NoBatch /\ verified' = FALSE
  /\ UNCHANGED <<pending, latched, csp_active, sync_timer_running, last_targets,
                 axis, was_active, reader, receiver>>

-----------------------------------------------------------------------------
(* set_targets_rad and the stop it ends in on any failure. *)

\* Within limits: wait for sdk_mutex_.  Out of limits: quick_stop() and return
\* without writing anything, which is QuickStopEnter.
SetEnter ==
  /\ pc = "idle"
  /\ csp_active
  /\ pc' = "setLock"
  /\ UNCHANGED <<devices, csp_active, exclusive_sdk_io, sync_timer_running,
                 last_targets, sdk_mutex, axis, tried, batch, was_active,
                 verified, reader, receiver>>

SetLock ==
  /\ pc = "setLock"
  /\ sdk_mutex = "free"
  /\ sdk_mutex' = "control"
  /\ pc' = "stepCheck"
  /\ NewBatch
  /\ UNCHANGED <<devices, csp_active, exclusive_sdk_io, sync_timer_running,
                 last_targets, axis, tried, was_active, verified, reader, receiver>>

\* Mutant of SetFail: csp_active_ is not cleared.
SetFailStaysActive ==
  /\ UNCHANGED csp_active
  /\ exclusive_sdk_io' = TRUE
  /\ pc' = "stopAll" /\ axis' = 1 /\ batch' = NoBatch

\* csp_active_ false, exclusive_sdk_io_ true, then quick_stop_locked.
SetFail ==
  /\ csp_active' = FALSE
  /\ exclusive_sdk_io' = TRUE
  /\ pc' = "stopAll" /\ axis' = 1 /\ batch' = NoBatch

SetFrame ==
  UNCHANGED <<drive, sync_timer_running, last_targets, sdk_mutex, tried,
              was_active, verified, reader, receiver>>

\* The command step of every joint is compared with last_targets_rad_.
StepCheck ==
  /\ pc = "stepCheck"
  /\ \/ /\ pc' = "writeTarget" /\ axis' = 1
        /\ UNCHANGED <<csp_active, exclusive_sdk_io, batch>>
     \/ SetFail
  /\ SetFrame
  /\ UNCHANGED <<pending, latched>>

\* Mutant of WriteTarget: a failed RPDO write is skipped.
WriteTargetContinues ==
  /\ pc = "writeTarget"
  /\ pending' \in {pending, [pending EXCEPT ![axis] = batch]}
  /\ Advance("writeTarget", IF TimerSync THEN "followCheck" ELSE "cycleSync")
  /\ SetFrame
  /\ UNCHANGED <<latched, csp_active, exclusive_sdk_io, batch>>

\* RPDO writes stop at the first joint that fails.
WriteTarget ==
  /\ pc = "writeTarget"
  /\ \/ /\ pending' = [pending EXCEPT ![axis] = batch]
        /\ Advance("writeTarget", IF TimerSync THEN "followCheck" ELSE "cycleSync")
        /\ UNCHANGED <<csp_active, exclusive_sdk_io, batch>>
     \/ UNCHANGED pending /\ SetFail
  /\ SetFrame
  /\ UNCHANGED latched

\* refresh_feedback_locked(true, ...): one SYNC for the whole arm, the fresh
\* feedback it must bring and the reading of the position and velocity caches.
CycleSync ==
  /\ pc = "cycleSync"
  /\ \/ /\ SyncAndWait(TRUE) /\ pc' = "followCheck"
        /\ UNCHANGED <<csp_active, exclusive_sdk_io, axis, batch>>
     \/ SyncAndWait(FALSE) /\ SetFail
  /\ SetFrame
  /\ UNCHANGED pending

\* Mutant of FollowCheck: last_targets_rad_ is not updated.
FollowCheckForgets ==
  /\ pc = "followCheck"
  /\ sdk_mutex' = "free"
  /\ pc' = "idle" /\ batch' = NoBatch
  /\ UNCHANGED <<devices, csp_active, exclusive_sdk_io, last_targets, axis,
                 sync_timer_running, tried, was_active, verified, reader, receiver>>

\* Following error of the fresh snapshot, then the targets are accepted.
FollowCheck ==
  /\ pc = "followCheck"
  /\ \/ /\ last_targets' = batch
        /\ sdk_mutex' = "free"
        /\ pc' = "idle" /\ batch' = NoBatch
        /\ UNCHANGED <<csp_active, exclusive_sdk_io, axis, drive,
                       sync_timer_running, tried, was_active, verified, reader, receiver>>
     \/ SetFail /\ SetFrame
  /\ UNCHANGED <<pending, latched>>

\* quick_stop_locked and the release of sdk_mutex_.  Its verdict changes
\* nothing: the arm stays quarantined either way.
StopAll ==
  /\ pc = "stopAll"
  /\ last_targets' = NoBatch
  /\ \/ sync_timer_running' = FALSE
     \/ UNCHANGED sync_timer_running
  /\ CommandAll("QuickStop", Joints, "QuickStopActive", FALSE)
  /\ sdk_mutex' = "free"
  /\ pc' = "idle"
  /\ UNCHANGED <<pending, latched, csp_active, exclusive_sdk_io, axis, tried,
                 batch, was_active, verified, reader, receiver>>

\* quick_stop: two stores before sdk_mutex_ is requested.
QuickStopEnter ==
  /\ pc = "idle"
  /\ csp_active' = FALSE
  /\ pc' = "quickStopPublish"
  /\ UNCHANGED <<devices, exclusive_sdk_io, sync_timer_running, last_targets,
                 sdk_mutex, axis, tried, batch, was_active, verified, reader, receiver>>

QuickStopPublish ==
  /\ pc = "quickStopPublish"
  /\ exclusive_sdk_io' = TRUE
  /\ pc' = "quickStopLock"
  /\ UNCHANGED <<devices, csp_active, sync_timer_running, last_targets,
                 sdk_mutex, axis, tried, batch, was_active, verified, reader, receiver>>

QuickStopLock ==
  /\ pc = "quickStopLock"
  /\ sdk_mutex = "free"
  /\ sdk_mutex' = "control"
  /\ pc' = "stopAll"
  /\ UNCHANGED <<devices, csp_active, exclusive_sdk_io, sync_timer_running,
                 last_targets, axis, tried, batch, was_active, verified, reader, receiver>>

-----------------------------------------------------------------------------
(* disable. *)

DisableEnter ==
  /\ pc = "idle"
  /\ was_active' = csp_active
  /\ csp_active' = FALSE
  /\ pc' = "disableLock"
  /\ UNCHANGED <<devices, exclusive_sdk_io, sync_timer_running, last_targets,
                 sdk_mutex, axis, tried, batch, verified, reader, receiver>>

\* A quarantine left by an earlier call selects the disable-voltage path.
DisableLock ==
  /\ pc = "disableLock"
  /\ sdk_mutex = "free"
  /\ sdk_mutex' = "control"
  /\ pc' = IF ~was_active /\ exclusive_sdk_io THEN "disableVoltage" ELSE "disableAll"
  /\ was_active' = FALSE
  /\ UNCHANGED <<devices, csp_active, exclusive_sdk_io, sync_timer_running,
                 last_targets, axis, tried, batch, verified, reader, receiver>>

DisableJoints(here, command, expected) ==
  /\ pc = here
  /\ \E ok \in BOOLEAN :
       /\ CommandAll(command, Joints, expected, ok)
       /\ verified' = ok
  /\ last_targets' = NoBatch
  /\ sdk_mutex' = "free"
  /\ pc' = "disableRelease"
  /\ UNCHANGED <<pending, latched, csp_active, exclusive_sdk_io, axis, tried,
                 sync_timer_running, batch, was_active, reader, receiver>>

DisableAll == DisableJoints("disableAll", "DisableOperation", "SwitchedOn")
DisableVoltage == DisableJoints("disableVoltage", "DisableVoltage", "SwitchOnDisabled")

\* Mutant of DisableRelease: the quarantine is lifted whatever was verified.
DisableReleaseAlways ==
  /\ pc = "disableRelease"
  /\ exclusive_sdk_io' = FALSE
  /\ verified' = FALSE
  /\ pc' = "idle"
  /\ UNCHANGED <<devices, csp_active, sync_timer_running, last_targets,
                 sdk_mutex, axis, tried, batch, was_active, reader, receiver>>

\* The quarantine is decided after sdk_mutex_ was released.
DisableRelease ==
  /\ pc = "disableRelease"
  /\ exclusive_sdk_io' = ~verified
  /\ verified' = FALSE
  /\ pc' = "idle"
  /\ UNCHANGED <<devices, csp_active, sync_timer_running, last_targets,
                 sdk_mutex, axis, tried, batch, was_active, reader, receiver>>

-----------------------------------------------------------------------------
(* shutdown, process death and the next init. *)

\* read_thread_running_ = false; the join waits for the current cycle.
ShutdownEnter ==
  /\ pc = "idle"
  /\ pc' = "join"
  /\ UNCHANGED <<devices, csp_active, exclusive_sdk_io, sync_timer_running,
                 last_targets, sdk_mutex, axis, tried, batch, was_active,
                 verified, reader, receiver>>

ShutdownJoin ==
  /\ pc = "join"
  /\ reader = "sleep"
  /\ reader' = "stopped"
  /\ csp_active' = FALSE
  /\ exclusive_sdk_io' = FALSE
  /\ pc' = "shutLock"
  /\ UNCHANGED <<devices, sync_timer_running, last_targets, sdk_mutex, axis,
                 tried, batch, was_active, verified, receiver>>

ShutdownLock ==
  /\ pc = "shutLock"
  /\ sdk_mutex = "free"
  /\ sdk_mutex' = "control"
  /\ pc' = "shutDisable"
  /\ UNCHANGED <<devices, csp_active, exclusive_sdk_io, sync_timer_running,
                 last_targets, axis, tried, batch, was_active, verified, reader, receiver>>

\* disable_voltage_locked (a failure is only logged), then close_motors, which
\* stops the timer and joins the receive thread.
ShutdownDisable ==
  /\ pc = "shutDisable"
  /\ receiver = "poll"
  /\ CommandAll("DisableVoltage", Joints, "SwitchOnDisabled", FALSE)
  /\ sync_timer_running' = FALSE
  /\ sdk_mutex' = "free"
  /\ pc' = "closed"
  /\ UNCHANGED <<pending, latched, csp_active, exclusive_sdk_io, last_targets,
                 axis, tried, batch, was_active, verified, reader, receiver>>

\* The process dies: its timer, threads and locks go, the drives stay.
Crash ==
  /\ pc # "closed"
  /\ pc' = "closed" /\ axis' = 1 /\ tried' = 0 /\ batch' = NoBatch
  /\ reader' = "stopped" /\ receiver' = "poll"
  /\ sdk_mutex' = "free"
  /\ sync_timer_running' = FALSE
  /\ csp_active' = FALSE /\ exclusive_sdk_io' = FALSE
  /\ last_targets' = NoBatch /\ was_active' = FALSE /\ verified' = FALSE
  /\ UNCHANGED devices

NoneEnabled == \A j \in Joints : drive[j] # "OperationEnabled"

\* A new MiraculousArm: init configures the bus without touching the power
\* stage and starts read_loop.
InitArm ==
  /\ pc = "closed"
  /\ TrustedRestart => NoneEnabled
  /\ pc' = "idle"
  /\ reader' = "sleep"
  /\ last_targets' = NoBatch
  /\ csp_active' = FALSE /\ exclusive_sdk_io' = FALSE
  /\ sync_timer_running' = FALSE
  /\ UNCHANGED <<devices, sdk_mutex, axis, tried, batch, was_active, verified,
                 receiver>>

-----------------------------------------------------------------------------
(* read_loop. *)

ReaderFrame ==
  UNCHANGED <<drive, pending, csp_active, exclusive_sdk_io, sync_timer_running,
              last_targets, control, receiver>>

\* Mutant of ReaderCheck: exclusive_sdk_io_ is only looked at under the mutex.
ReaderCheckBlind ==
  /\ reader = "sleep"
  /\ pc # "join"
  /\ reader' = "lock"
  /\ ReaderFrame
  /\ UNCHANGED <<latched, sdk_mutex>>

\* Wake up, unless shutdown cleared read_thread_running_ or the SDK is taken.
ReaderCheck ==
  /\ reader = "sleep"
  /\ pc # "join"
  /\ ~exclusive_sdk_io
  /\ reader' = "lock"
  /\ ReaderFrame
  /\ UNCHANGED <<latched, sdk_mutex>>

ReaderLock ==
  /\ reader = "lock"
  /\ sdk_mutex = "free"
  /\ sdk_mutex' = "reader"
  /\ reader' = "recheck"
  /\ ReaderFrame
  /\ UNCHANGED latched

\* Mutant of ReaderRecheck: exclusive_sdk_io_ is not read again under the mutex.
ReaderRecheckSkipped ==
  /\ reader = "recheck"
  /\ reader' = "cycle"
  /\ ReaderFrame
  /\ UNCHANGED <<latched, sdk_mutex>>

ReaderRecheck ==
  /\ reader = "recheck"
  /\ IF exclusive_sdk_io
     THEN reader' = "sleep" /\ sdk_mutex' = "free"
     ELSE reader' = "cycle" /\ UNCHANGED sdk_mutex
  /\ ReaderFrame
  /\ UNCHANGED latched

\* The background feedback SYNC is sent only while CSP is inactive and no
\* timer is running.
BackgroundSync == reader = "cycle" /\ ~csp_active /\ ~sync_timer_running

ReaderCycle ==
  /\ reader = "cycle"
  /\ IF BackgroundSync THEN SyncAndWait(FALSE) ELSE UNCHANGED latched
  /\ sdk_mutex' = "free"
  /\ reader' = "sleep"
  /\ ReaderFrame

-----------------------------------------------------------------------------
Init ==
  /\ drive = [j \in Joints |-> "SwitchOnDisabled"]   \* power-up state
  /\ pending = [j \in Joints |-> NoBatch]
  /\ latched = [j \in Joints |-> NoBatch]
  /\ csp_active = FALSE
  /\ exclusive_sdk_io = FALSE
  /\ sync_timer_running = FALSE
  /\ last_targets = NoBatch
  /\ sdk_mutex = "free"
  /\ pc = "closed"
  /\ axis = 1
  /\ tried = 0
  /\ batch = NoBatch
  /\ was_active = FALSE
  /\ verified = FALSE
  /\ reader = "stopped"
  /\ receiver = "poll"

EnableStep ==
  \/ EnableEnter \/ EnableLock \/ PauseTimer \/ Prepare \/ SwitchOn
  \/ SeedFeedback \/ WriteSeed \/ LatchSeed \/ EnableAxis \/ WriteHold
  \/ LatchHold \/ FinalCheck \/ ResumeTimer \/ RollbackStop \/ RollbackDisable

TargetStep ==
  \/ SetEnter \/ SetLock \/ StepCheck \/ WriteTarget \/ CycleSync \/ FollowCheck

StopStep ==
  \/ QuickStopEnter \/ QuickStopPublish \/ QuickStopLock \/ StopAll
  \/ DisableEnter \/ DisableLock \/ DisableAll \/ DisableVoltage \/ DisableRelease

LifecycleStep ==
  \/ ShutdownEnter \/ ShutdownJoin \/ ShutdownLock \/ ShutdownDisable
  \/ Crash \/ InitArm

ReaderStep == ReaderCheck \/ ReaderLock \/ ReaderRecheck \/ ReaderCycle

Next ==
  \/ EnableStep \/ TargetStep \/ StopStep \/ LifecycleStep \/ ReaderStep
  \/ TimerTick
  \/ \E j \in Joints : DriveFault(j) \/ DriveReset(j)

Spec == Init /\ [][Next]_vars

\* Running threads keep running, and a thread that can take sdk_mutex_ for
\* ever takes it; std::mutex is not fair, so nothing stronger is assumed.
Fairness ==
  /\ WF_vars(ReaderStep)
  /\ WF_vars(EnableLock)
  /\ WF_vars(QuickStopLock)

FairSpec == Spec /\ Fairness

-----------------------------------------------------------------------------
(* Properties. *)

\* csp_active_ is published only over an arm whose drives all passed the
\* enable transaction: none is at rest in a state below Operation Enabled
\* unless it faulted (and was reset) on its own.
ActiveMeansEnabled ==
  csp_active => \A j \in Joints :
    drive[j] \in {"OperationEnabled", "Fault", "SwitchOnDisabled"}

\* A drive with power is never left to the background feedback path: SDK I/O
\* is exclusive, the arm-wide timer owns the SYNC edges, or read_loop is gone.
EnabledIsGuarded ==
  NoneEnabled \/ exclusive_sdk_io \/ sync_timer_running \/ reader = "stopped"

\* read_loop never emits its feedback SYNC, which latches whatever targets
\* are pending, while a drive is in Operation Enabled.
BackgroundSyncSafe == BackgroundSync => NoneEnabled

\* A drive that enters Operation Enabled has latched the seed of this enable
\* attempt, not a target left over from an earlier session.
SeedBeforeEnable ==
  [][\A j \in Joints :
       drive[j] # "OperationEnabled" /\ drive'[j] = "OperationEnabled"
         => batch # NoBatch /\ latched[j] = batch]_vars

\* Manual SYNC: the power stage implements CoordinatedPower.  A drive enters
\* Operation Enabled only when all joints latched the same batch, and an edge
\* moves a powered arm to one whole batch, never to the mix that a partial RPDO
\* write leaves in the drives.
Coordinated ==
  INSTANCE CoordinatedPower
  WITH Targets <- Batches \cup {NoBatch},
       power   <- [j \in Joints |-> drive[j] = "OperationEnabled"],
       target  <- latched

CoordinatedMotion == Coordinated!Spec

\* Manual SYNC: an edge moves a powered drive only away from the targets that
\* the command step guard compared the new ones with.
StepGuardSeesLatchedTarget ==
  [][\A j \in Joints :
       drive[j] = "OperationEnabled" /\ latched'[j] # latched[j]
         => latched[j] = last_targets]_vars

\* What the caller of MiraculousArm sees: the call in progress, or the state the
\* flags give the arm between calls.
Phase ==
  CASE pc = "closed" -> "closed"
    [] pc \in Enabling \cup {"enableLock"} -> "enabling"
    [] pc \in Targeting \cup {"setLock"} -> "setting"
    [] pc \in {"quickStopPublish", "quickStopLock", "stopAll"} -> "stopping"
    [] pc \in {"disableLock", "disableAll", "disableVoltage", "disableRelease"}
         -> "disabling"
    [] pc \in {"join", "shutLock", "shutDisable"} -> "shutting"
    [] OTHER -> IF csp_active THEN "active"
                ELSE IF exclusive_sdk_io THEN "quarantined" ELSE "resting"

Contract == INSTANCE ArmContract WITH phase <- Phase

\* Both SYNC modes: every call keeps the contract of MiraculousArm, on every path
\* of failure, with read_loop and the timer running next to it.
KeepsContract == Contract!Spec

\* enable_csp and quick_stop are not starved of sdk_mutex_ by read_loop, even
\* on a mutex without fairness: they raised exclusive_sdk_io_ first.
ExclusiveCallerGetsMutex ==
  pc \in {"enableLock", "quickStopLock"} ~> sdk_mutex = "control" \/ pc = "closed"

=============================================================================
