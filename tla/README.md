# Verification of the Miraculous arm motion stack

TLA+ modules, TLC runs and TLAPS proofs for the motion stack under `src/`: a C
SDK for CANopen/CiA 402 drives (`miraculous_sdk`) and the ROS 2 driver that runs
a robot arm with it (`ros2_ws/src/arm_motion_stack/miraculous_driver`).

Paths below are relative to `src/`; `arm.cpp` is
`ros2_ws/src/arm_motion_stack/miraculous_driver/src/miraculous_arm.cpp`.

## 1. The system

| Component | State it keeps | Operations | What makes it correct |
|---|---|---|---|
| `MiraculousArm` power stage (`arm.cpp`) | `csp_active_`, `exclusive_sdk_io_`, `sync_timer_running_`, `last_targets_rad_`, `sdk_mutex_` | `enable_csp` (transaction with rollback), `set_targets_rad`, `disable`, `quick_stop`, `shutdown`, `init`, `read_loop` | all joints are powered and moved as one; no foreign SYNC edge reaches a powered arm; failures end in a stop and a quarantine |
| `MiraculousArm` feedback (`arm.cpp`) | TPDO2 generations, caches, passive samples | `sync_and_wait_for_fresh_feedback_locked`, callbacks, `read_passive_feedback` | a position used as seed or shown as fresh was measured after the SYNC it answers |
| SDO client (`co_sdo.c`, `motion_state.c`) | one pending slot per node, a list of asynchronous tasks per motor | read, write, asynchronous read and write, dispatch, expiry | each call gets its own answer, each callback comes at most once |
| Periodic SYNC (`co_sync.c`, `co_master.c`) | timerfd, period, reference count; epoll set | start, stop, tick, registration | the timer lives while somebody holds it, and ticks |
| Bus registry, motor handles (`motion_state.c`, `co_master.c`) | masters per interface, `motor_by_node`, reference counts | open, close | no handle outlives its master, no callback runs on a freed handle |
| CiA 402 helpers (`motion_state.c`, `motion_pp.c`) | state word cache | `full_enable`, `fault_reset`, profile moves | each transition is verified |
| Heartbeat, EMCY, PDO registry (`co_heartbeat.c`, `co_emcy.c`, `co_pdo.c`) | tables of consumers and callbacks | set, dispatch, time out | one report for a lost node, none for a live one |
| `MiraculousSystem` (`miraculous_system.cpp`) | lifecycle state, fault latch, watchdog and heartbeat times | ros2_control lifecycle, `read`, `write` | fail closed: a fault stays latched and the arm stays stopped |
| Playback, teach and trajectory nodes | node state, a worker thread or timer | ROS services | they never leave the arm powered when they end |
| Remote motion watchdog (`arm_remote_control`) | state machine, generation of the pending request | heartbeat, timeout, stop, reset | a stop is latched until it was confirmed and reset |
| Isaac bridge, kinematics, planning, launch files, robot description | - | - | simulation, numeric demos and data: not modelled |

How they interact.  An application node or the ros2_control thread calls
`MiraculousArm`.  Its calls serialise on `sdk_mutex_` with the background
`read_loop`; `csp_active_` and `exclusive_sdk_io_` are atomics that are read and
written outside the mutex as well.  `MiraculousArm` calls the SDK, which sends
CAN frames from the calling thread.  One receive thread per bus dispatches the
answers: it wakes SDO callers, runs TPDO, EMCY, heartbeat and asynchronous SDO
callbacks, and sends the periodic SYNC.  The drives latch the last RPDO target
they received on each SYNC edge, whoever sent it.  That is why a stray SYNC at a
wrong moment moves the arm, and why the driver goes to such length about who may
send one.

What is hard: the check/lock race between `read_loop` and the calls that take
the bus; calls that fail half way through the joints, when a failed write may
have arrived; targets left in the drives by an earlier session; a SYNC of the
receive thread that is under way while the timer is stopped; answers later than
their deadline; process death with powered drives.  `PROJECT.json` lists these
hazards, each at its line, with the property that covers it or the reason none
does yet.

## 2. Modules

| Module | Content | Source |
|---|---|---|
| `Cia402` | power state machine of one drive | the controlword calls of `motion_state.c` |
| `ArmCsp` | the power stage, `read_loop`, the receive thread's SYNC, the drives | `arm.cpp`, `co_sync.c` |
| `CoordinatedPower` | what the power stage promises of a whole arm (abstract specification) | - |
| `ArmContract` | what each call of `MiraculousArm` may do to the drives and what its return value says of them (abstract specification) | - |
| `SdoNode` | SDO calls with one node | `co_sdo.c`, `motion_state.c` |
| `SyncTimer` | the shared periodic SYNC and the receive thread that serves it | `co_sync.c`, `co_master.c` |
| `BusRegistry` | opening and closing motors, the masters they share, the callbacks | `motion_state.c`, `co_master.c`, `co_pdo.c` |
| `MotorHandles` | what the SDK promises of motor handles (abstract specification) | - |
| `MiraculousSystem` | the ros2_control hardware interface | `miraculous_system.cpp` |
| `RemoteWatchdog` | the soft watchdog of the board | `remote_motion_watchdog.cpp` |
| `RemoteMotion` | both of these, controller_manager, the operator, a PC that comes and goes | composition |
| `ArmApi` | the calls of `MiraculousArm` as an application sees them | `arm.cpp` |
| `TeachRecord`, `Playback`, `TrajectoryTest` | the three application nodes | the node of that name |
| `ArmApplications` | the nodes one after the other on one arm, each killed at any moment | composition |
| `SystemParameters` | a parameter of the hardware interface with its assumption | |
| `MCArmCsp`, `MCSdoNode`, `MCSyncTimer`, `MCBusRegistry` | values for TLC | |
| `ArmCsp_proofs`, `ArmCspMotion_proofs`, `SdoNode_proofs`, `SyncTimer_proofs`, `BusRegistry_proofs`, `MiraculousSystem_proofs`, `RemoteMotion_proofs`, `ArmApplications_proofs` | theorems | |

There are two views of `MiraculousArm`.  `ArmCsp` looks inside its calls, step by
step, against the threads that run next to them.  `ArmApi` looks from outside: a
call is one step, with every outcome and every state of the drives that the
inside view allows.  The hardware interface uses the coarsest view, in which
only "some drive has power" is left.  What lies between the views is
`ArmContract`: per call the controlwords it may send, when a drive can get power,
and what each return value says of the drives.  That `ArmCsp` keeps this contract
is checked (`KeepsContract`) and proved.  That `ArmApi` allows every outcome the
contract allows is an argument by inspection: a call is many steps of the one and
one step of the other, and the two differ in what drives do by themselves (in
`ArmApi` a quick stop also runs out, and faults are cleared only while no process
runs).

### ArmCsp

One action per step of the control thread between two points where another
thread or a drive can interfere: a store outside the mutex, taking the mutex,
each SDK call (one iteration of a loop over the joints that writes), each SYNC,
the release.  `pc` names the step and `axis` is the loop index.  A controlword
and the `wait_state` that follows it are one step per joint; in `disable`, the
rollback and `quick_stop_locked` every joint is attempted whatever fails, and
the pass over all joints is one step (`CommandAll`).

Every SDK call may fail, and a failed controlword may have been executed.  A
failed wait for feedback may have sent its SYNC.  The position, velocity and
state caches, limits, step sizes and following errors are abstracted to the
choice between the branches they select.  A target is abstracted to the batch it
was written in: the seed of one enable attempt, or one `set_targets_rad` call.
`pending[j]` is what drive `j` received last, `latched[j]` what it follows.
Identities of batches that nothing refers to are reused; at most `2N + 1` are
referred to at a time (`pending`, `latched`, `last_targets`), so that `2N + 2`
(`BatchesAssumption`) are enough and no behaviour is cut off (`BatchIsLeft`).

External, modelled from how the code uses it: the CiA 402 drive (`Effective`,
`LeadsTo`, `After`; a fault at any time; a fault is cleared only at the drive),
and process death (`Crash`).

Assumptions and omissions:
- The calls that move or stop the arm come from one control thread, as in each
  node of the repository.  The re-checks of `csp_active_` under the mutex (lines
  551 and 1158) guard against a second such thread and are not reached.
  `MiraculousSystem` is called by the ros2_control framework, which runs its
  callbacks and its control cycle one at a time (see MiraculousSystem below).
- `enable()`, `fault_reset()` and `send_sync()`, which no code of the repository
  calls, are left out; so is the passive (teaching) path with
  `disable_voltage()`, which only the teach node uses, on an arm that it never
  enables: it is in `ArmApi`.
- RPDO frames are not lost on the wire once `write()` accepted them.
- `TrustedRestart` is the assumption that `init()` never meets a drive in
  Operation Enabled.  The code does not establish it: see `ArmRestart`.

### SdoNode

Callers go through `send` and `wait` with the slot (`busy`, `pending`,
`rx_buf`) shared as in the code: it is written under `sdo_node_lock`, which is
released before the request is sent.  An object stands for index and subindex.
Frames carry the identity of their request, which no guard reads.  Requests and
responses may be lost or delayed, and the deadline may pass at any time.  An
asynchronous task is linked before its fields are filled, so that the receive
thread may expire a task that is still being filled.  In the code the stores
that follow are then writes to freed memory; the model has the mildest outcome,
that nobody reads them, and claims nothing about the others.  `sdo_wait_queue`
is never filled by any code and is left out; the path for it always falls
through to the asynchronous tasks.

`Overlap = FALSE` makes the synchronous callers exclude each other, as
`sdk_mutex_` does for `MiraculousArm`.

### SyncTimer

`Share`, `Rebuild`, `SyncStartFails` and `SyncStop` are the branches of
`miraculous_co_sync_start` and `_stop`, each under `sync->lock`.  Closing a
timerfd takes it out of the epoll set (the kernel does).  The receive thread is
followed event by event.  It reads `timer_fd` and `running` without the lock,
several times a turn, and each time it may find another timer: the choice between
tick and drain, the tick itself, the look at the timer before it is registered, the
label of its events (`ev.data.fd`), `EPOLL_CTL_MOD` and `EPOLL_CTL_ADD` are steps of
their own.  The stores of one start or stop are one step.  `InitTimer` stands for the timer branch of the four cyclic modes.  A
repeated `*_init` and a failed write of 0x1006 (in all but CSP mode) keep a
reference that nothing returns, and the model has both.

### BusRegistry

`miraculous_motor_open` and `miraculous_motor_close` from several threads: search
the registry, create a master outside the lock when there is none, search again
and free the spare one, enter the motor in `motor_by_node`, hook the callbacks of
TPDO2 and TPDO3; and back.  `g_bus_lock`, `pdo->lock` and `motor_registry_lock`
are modelled where their owner can block while it holds them: across the join of
a receive thread and across a callback.  The receive thread of a master takes a
TPDO, an SDO answer or another frame at any time.  Identities of masters are
reused once the object is freed, as addresses are; two per thread always leave
one (`MastersAssumption`), so that no behaviour is cut off (`IdentityIsLeft`).

Assumptions: a thread has one motor at a time; the application's callbacks do
not open or close motors (one that closes its own motor would wait for itself:
`motion_state.c:351`).  Left out: the bootstrap frames and `co_poll`.

### MiraculousSystem

One action per way out of a lifecycle callback or of `read` and `write`.  The
fault latch, the Quick Stop that is sent once, the streak of following errors and
the hard guard on the PC's heartbeat are as in the code; a snapshot is
distinguished by what its checks make of it (already seen, near the command, far
from it, refused), a command by whether it advances and whether it is accepted.
`on_activate` and `write` are split where they call the arm, so that an EMCY, a
lost heartbeat or new feedback may come in between; `read` makes no SDK call.
Whether its snapshot moves is an input of `read`: the sample may be older than the
beginning or the end of a motion.  A failed `set_targets_rad` may have moved the
arm before the Quick Stop.
`unreached` and `stops` are history variables: what the last stop left behind,
and the Quick Stops of this process.

Assumption: the framework runs the callbacks of a component and its control cycle
one at a time.  That is ros2_control's contract, and the code relies on it:
`active_` and the bookkeeping of commands are plain members.

### RemoteWatchdog, RemoteMotion

All callbacks of the watchdog run in one executor, each is one action.  Deadlines
(`cancel_hold_`, the retry period, the deadline of a request) may have passed or
not whenever `monitor` looks.  The generation counter is abstracted to "current"
or "superseded"; of the superseded requests the model keeps what their answers can
still do.  `RemoteMotion` adds controller_manager, the trajectory controller and
the operator, who are ROS 2 and people, modelled from what the code relies on:
`STRICT` deactivation refuses a controller that is not active, activation needs
active hardware, hardware that failed takes its controllers with it.  The soft
and the hard guard lose heartbeats independently.

One consequence is in the model without being a property: after a stop that met
an inactive controller every deactivation is refused, the watchdog stays
"stopping" and `reset_fault` refuses.  The recovery in
`REMOTE_MOVEIT_DEPLOYMENT.md` section 8 begins with `reset_fault` and does not
treat this case; the modelled operator follows that section.

A soft or hard timeout of 0, which switches the guard off, is not modelled.

### ArmApi, TeachRecord, Playback, TrajectoryTest, ArmApplications

The nodes are followed service by service and timer by timer; `pc` is the place
of the active call chain.  Every call of the arm may fail, and a failed one may
have reached any of the drives (`Scattered`).  EMCY callbacks come on the SDK's
receive thread between any two steps.  In `Playback` the services run next to the
play thread; the destructor joins it.  Points, file contents, waveforms and
reports are left out; parsing and checks of parameters and trajectories are the
choice between accepted and refused.

`ArmApplications` runs the nodes after each other, kills them at any moment and
keeps the drives.  Assumptions: one process owns the bus at a time, which the
manuals demand and no code enforces; playback and the test are not started on
drives that a killed application left enabled (the same `TrustedRestart` as in
`ArmCsp`).  Teach nodes are started on anything.

## 3. Runs

| Run | Instance | States | Shows |
|---|---|---|---|
| `ArmManual` | 2 joints, driver-owned SYNC | 145 396 | the power stage, with whole-arm moves |
| `ArmTimer` | 2 joints, timer SYNC | 985 404 | the guards of a powered arm and the seed, where edges come at any time |
| `ArmRestart` | `TrustedRestart = FALSE` | - | violation of `BackgroundSyncSafe` |
| `SdoSerial` | 1 caller with 3 calls, 1 asynchronous task, 2 objects | 221 661 | SDO calls that exclude each other |
| `SdoLate` | 1 caller with 2 calls | - | violation of `AnswersThisCall` |
| `SdoOverlap` | 2 callers with 1 call each | - | violation of `ResponseMatchesObject` |
| `SyncShared` | 2 motors, 1 period, at most 4 references, traffic on the bus | 9 638 | the shared SYNC timer |
| `SyncIdle` | 1 motor, no traffic | - | violation of `RunningTimerTicks` |
| `BusRegistry` | 3 threads, 2 interfaces, 4 drives; 1 bus slot, 5 TPDO slots | 591 318 | opening and closing; no deadlock |
| `RemoteStop` | 2 following-error cycles | 206 000 | motion ordered by a PC |
| `ArmApplications` | 3 joints, 2 misses, looping | 12 700 | the application nodes |
| `EmcyForgotten` | 1 joint | - | violation of `EmcyStopsTest` |

Power stage:
- `EnabledIsGuarded`: a drive with power is always protected from the background
  reader by exclusive ownership, by the running timer, or because the reader has
  ended.
- `BackgroundSyncSafe`: `read_loop` is never about to send its SYNC while a drive
  is in Operation Enabled.
- `SeedBeforeEnable`: a drive enters Operation Enabled only over the seed of this
  attempt.
- `CoordinatedMotion`: with driver-owned SYNC the power stage implements
  `CoordinatedPower`: joints are powered only when all hold one batch, and one
  edge moves a powered arm from one whole batch to another.
- `StepGuardSeesLatchedTarget`: a powered drive moves only away from the target
  that the step guard compared with.
- `ActiveMeansEnabled`: `csp_active_` is never set over drives that were stopped
  or disabled by the driver.
- `KeepsContract`: the power stage implements `ArmContract`: only `enable_csp`
  powers a drive; `disable` returns true over drives it saw at rest; a rollback
  that failed, a refused target and a quick stop leave the arm quarantined, never
  resting.
- `ExclusiveCallerGetsMutex` (liveness): `enable_csp` and `quick_stop` get
  `sdk_mutex_`.

`TypeOK` and `ActiveMeansEnabled` are checked in manual mode only, and
`SeedBeforeEnable` in timer mode only, where an edge may come between any two
steps; the theorems are for both modes.  Timer mode cannot have `CoordinatedMotion`: the timer may fire between two RPDO
writes of one call.  `MiraculousSystem` therefore refuses a period other than
zero for the full arm, and the property is checked where it is promised.

SDK:
- `AnswerMatchesObject`: the answer of a call is for the object it asked for.
  `BusyHasOwner`: a busy slot belongs to a call that will release it.
  `CallbackAtMostOnce`, `ListedIsCalledBack` (liveness): an asynchronous call is
  called back at most once; one that is on the list when it is complete is called
  back, with its answer or at its deadline.
- `HoldersKeepTimer`: nobody's close stops a timer another motor holds.
  `EpollIsCurrent`: only the living timerfd is polled.  `RunningTimerTicks`
  (liveness): a running timer sends SYNC.
- `ReferencesExact`: the count of a master is the number of those who use it, so
  that it is freed neither early nor never.  `RegisteredIsAlive`: the registry
  names no master that is being freed.  `OneHandlePerDrive`: racing opens do not
  give a drive two handles.  `NoCallbackAfterFree`: no callback is for a motor
  that was freed.  `SomebodyCanGo`: calls do not wait for each other in a circle, nor
  for a receive thread that is gone, although `g_bus_lock` is held across a join.
  `HandlesKept`: opening and closing implement `MotorHandles`, in which masters,
  counts and locks are not visible: a handle exists on a bus that is up and stays
  up under it, and goes only while none of its callbacks runs.

Hardware interface and remote motion:
- `PowerHasOwner`: drives have power only while the component is active or about
  to be, or while a stop is known to have failed.
- `NoPowerAfterStop`: after a Quick Stop no drive gets power in this process.
- `FaultStops` (liveness): a fault of an active component takes it out of active
  and the power from the drives, or leaves a stop known to have failed.
- `LostPcStandsStill` (liveness): if the hard guard hears no more heartbeats, the
  arm ends at rest or stopped, although joints need not come to rest by
  themselves.  It needs the guard of `read` and the guard of `write`: without the
  first a motion under a held command lasts, without the second short motions go
  on that `read` may miss.
- `LatchedMeansStopped`: a watchdog that reports "latched" has an inactive
  trajectory controller, in every order of requests, answers and activations.

Applications:
- `PoweredMeansUsed`: no failed call leaves powered drives that `read_loop` would
  take for idle ones.  `IdleMeansDisarmed`: between two plays or tests nothing is
  driven.  `TeachWithoutPower`: hand guiding never meets a powered drive.
- `FaultEndsRecording`, `StopEndsPlayback` (liveness): an EMCY ends the recording
  it hits, a stop ends the playback it reaches, in any phase and lap.

Bounds.  Two joints are enough for every partial failure (before, at and after
the failing joint) and for a mixed arm; three in `ArmApplications`, where the
commands of one call scatter.  Three calls of one caller let an answer arrive in
the next call and the one after it.  `MaxRefs` = 4 exceeds the references two
motors and a start take at once.  A single period is what the driver uses; a
change of period forgets the earlier references, and this is listed as a hazard.
In `BusRegistry` two threads compete for a drive and three for a bus; the second
interface does not fit in the registry and the TPDO table is one entry short, so
that both refusals happen and are undone.  Two following-error cycles are a
streak that can grow, be broken and trip; two misses the same for teach.
`SdoNode` ends when all calls are used up (`MaxCalls`), hence
`CHECK_DEADLOCK FALSE` there; everywhere else deadlock is checked.

Fairness.
- `ArmCsp`: the reader thread runs (it is a loop that always wakes up), and a
  thread whose mutex stays free takes it; `std::mutex` is not fair, so there is
  only weak fairness.
- `SdoNode`: threads run and deadlines pass; the bus and the node owe nothing.
- `SyncTimer`: the kernel expires timers and the receive thread runs; frames keep
  coming only with `Traffic`.
- `RemoteMotion`: `read` is called again and again and the calls return (each has
  a timeout).  The velocities `read` looks at are those of an earlier sample, so
  that it may find any; it is assumed to see a motion that lasts, because samples
  older than `feedback_stale_timeout` are refused.  Nothing is assumed of the
  watchdog, controller_manager, the network and the operator, nor that joints come
  to rest.
- `ArmApplications`: the executor serves the timers of the nodes, the play thread
  runs.  No service is ever called by necessity, and nothing makes a fault clear.
- `BusRegistry` has none: its properties are safety and the absence of deadlock.

## 4. What the violations show

- `ArmRestart`: `read_loop` assumes drives that are not enabled before the first
  enable (`arm.cpp:1422`), and the implementation notes say the bootstrap resets
  the nodes; `co_master.c:332` deliberately sends no reset and `init()` reads no
  state.  After a crash, or after a shutdown whose disable failed and was only
  logged, drives may be in Operation Enabled and are polled with SYNC.
- `SdoLate`: the check of index and subindex keeps late answers out only when
  they are for another object; a poll of the same object takes them.
- `SdoOverlap`: the lock per node does not cover the request, so that calls from
  two threads to one node are not serialised by the SDK.  In the counterexample
  both begin, the object of the second overwrites that of the first, both send, and
  the response to the second wakes the first, which returns it as its own.  (In the
  same instance a failed send of the second caller releases the slot of the first,
  which then returns success with an empty buffer: `AnswerMatchesObject` fails
  without any response.)  The driver is not affected: it serialises its calls.
- `SyncIdle`: the receive thread looks for a new timer only after an event; on a
  silent bus the timer never ticks.
- `EmcyForgotten`: `start_test` clears `fault_flag_` after the arm was enabled
  and has settled (`trajectory_tracking_test_node.cpp:421`); an EMCY of that
  window is forgotten and the test runs on, although
  `TRAJECTORY_TEST_DOCUMENTATION.md:90` promises to monitor the whole test.  A
  faulted drive may still end the test through a failed write or feedback wait;
  the counterexample is the run in which those succeed.

## 5. Proofs

Checked by TLAPS for all values of the constants that satisfy the named
assumptions of the modules.

**`ArmCsp_proofs`, `ArmCspMotion_proofs`** (every number of joints, every set of
batches).
- `TypeCorrect`, one step per action; `LockCorrect`: `sdk_mutex_` is owned by who
  is in a critical section, and the sections of `enable_csp` and the stop run
  under `exclusive_sdk_io_`.
- `PoweredArmIsGuarded`, `ReaderSyncIsSafe` (both SYNC modes, `TrustedRestart`).
  `EnabledIsGuarded` is not inductive: `disable` lifts the quarantine after it
  released the mutex, and the reader decides to send after its check.  `PowerInv`
  adds that a verified `disable` leaves no drive powered until it returns, and
  that a reader past its check either found no powered drive or does not send.
  `EnableAxis` is the only action that powers a drive, and it runs under the
  exclusive flag.
- `BatchIsLeft`: a call that needs a new batch always finds an identity, by
  counting the references.
- `SeededEnable` (both modes), from `SeedInv`, which says how far the seed has come
  in each phase (written up to `axis`, pending in all, latched in all) and that
  no drive has power before.  A tick that is still under way latches what is
  pending, which is the seed.
- `CoordinatedArm` (manual SYNC, `TrustedRestart`): every step of `ArmCsp` is a
  step of `CoordinatedPower` or a stutter.  `MotionInv` says that an active arm
  has latched `last_targets_rad_` on all joints, except between the edge of a
  call and its acceptance, when all have latched the batch of the call.
  `PoweredArmIsUniform` is the abstract invariant, carried over; `StepGuardIsCurrent`
  follows from `MotionInv`; `ActiveArmIsEnabled` needs no assumption on restarts.
- `ContractKept` (both modes, any restart): every step of `ArmCsp` is a step of
  `ArmContract` or a stutter.  `Phase` maps `pc` and the two flags to the call in
  progress or to what the last one left behind.  `ContractInv` adds to types, locks
  and the invariant of `ActiveMeansEnabled` what a call relies on where it returns
  (`ReturnInv`): `set_targets_rad` still has an active arm, and a `disable` that is
  about to report success saw every drive at rest.  `RestingArmIsUnpowered` and
  `OnlyEnableCspPowers` are proved of the contract and carried over.

**`SdoNode_proofs`** (any number of callers, tasks, objects and calls).
`TypeCorrect`, `SlotIsOwned`, `OneCallback`.  The invariant adds that the task
list holds a task once and none that was called back, which the unlinking in the
middle of the list (`WithoutUnlinks`) preserves.  `SerialAnswers` assumes
`~Overlap`: the receive buffer of a slot that is no longer busy holds an answer
for the object of the one caller.  So does `AnswersAreUsedOnce`: no response is
returned by two calls, nor by a call and then matched with an asynchronous task.
The invariant (`OnePlace`, `SentBefore`) follows each request from the bus to the
node, back to the host, into the buffer or to the tasks, and to the caller: it is in
one place at a time, and in none before it is sent.  TLC refutes it for two callers
that overlap, whom one response wakes both.

**`SyncTimer_proofs`**.  `TypeCorrect`, `EpollStaysCurrent` (any mixture of
periods).  `SharedTimerKept` assumes `OnePeriod`: the reference count is then at
least the number of motors that hold the timer plus the unmatched starts, whatever
leaks add to it.  With two periods the property is false (see the hazards).

**`BusRegistry_proofs`** (any number of threads, interfaces, drives and table
sizes).  `CountIsExact`, `RegistryIsAlive`, `DriveHasOneHandle`,
`CallbackHasMotor`, `TypeCorrect`.  None is inductive alone.  The invariant adds
what each place of a call knows: a created master that was not yet looked up
again is private to its thread (`Unshared`), a used master is the registered one
of its interface until the last reference goes (`Found`), whoever drops or joins
owns `g_bus_lock` (`OneOwner`), every table entry belongs to a motor at a place
where it exists (`Hooked`, `Listed`), and a callback under way has its entry still
in the table, since removal waits for it (`Served`).

- `HandlesImplemented`: every step is a step of `MotorHandles` or a stutter.  A
  handle appears when the motor is entered in `motor_by_node` and goes when it is
  taken out, a bus comes up with its entry in the registry.  The mapping needs that
  a master is registered for one interface (`Distinct`) and that a call is for a
  drive of its thread (`Asked`).
- `CallsNeverDeadlock`: whoever owns `g_bus_lock` is not blocked, because the
  receive thread it joins is still there and its callback ends; the other locks are
  held across a callback only.  `ReceiverIsReaped` (invariant `Reaped`): no receive
  thread is left without a user or somebody who joins it.
- `IdentityIsLeft`: a thread that creates a master refers to none, each other one
  to at most two.

**`MiraculousSystem_proofs`, `RemoteMotion_proofs`** (any number of
following-error cycles).  `PowerIsOwned` and `StopIsFinal` hold of the interface
alone; `StopIsKept` adds that a Quick Stop is remembered by the latch or by the
end of the component, and that who has power or is about to get it has an arm and
no stop behind it.  `Implements` shows that the whole implements
`MiraculousSystem`, and `RemotePowerIsOwned`, `RemoteStopIsFinal` and
`RemoteTypeCorrect` carry the theorems over.  `FaultIsFinal` and
`RemoteFaultIsFinal`: a latched fault excludes an active component and a call that
enables or sends, through every lifecycle callback, until the process is replaced.
`StopIsReal` is about the watchdog:
`StopIsKnown` adds that a deactivation answered "ok" and not yet received means a
controller that is inactive with no activation on its way.

**`ArmApplications_proofs`** (any number of joints, any miss limit).
`PowerIsUsed`, `IdleIsDisarmed`, `TeachingIsPassive`, `TypeCorrect`.  The
strengthening says which arm object each application has and that the places
before an enable find `csp_active_` cleared; that every `Scattered` command other
than Enable Operation powers nobody is a lemma about `Cia402`.  From it follows
`PowerComesFromEnable`: whatever is killed or fails half way, only `EnableArm` and
`StartTest` power a drive.  `RecordingStaysOff` and `StopStaysRequested` are the
safety side of two liveness properties: what a fault latched in teach_record, or a
stop asked of playback, is not undone by any callback.

Only model-checked: the liveness properties (`ExclusiveCallerGetsMutex`,
`ListedIsCalledBack`, `RunningTimerTicks`, `FaultStops`, `LostPcStandsStill`,
`FaultEndsRecording`, `StopEndsPlayback`), since proofs under fairness and with
ENABLED are out of the prover's reach, and the absence of deadlock, which is an
ENABLED of the whole; for `BusRegistry`, `SomebodyCanGo` says what it comes to
without ENABLED and is proved.  Nothing is proved about what the violation runs
refute (`AnswersThisCall`, `EmcyStopsTest`), nor where the named assumption of a
theorem fails: restarts over enabled drives, overlapping SDO callers, two periods.

## 6. Not modelled

- Feedback acquisition inside `MiraculousArm`: TPDO generations, the wait on the
  condition variable, the values and ages in the cache.  Callers see its outcome.
  Two hazards remain without a property: a late TPDO that counts as fresh
  (`arm.cpp:401`), and `read_loop` storing its sample after it released
  `sdk_mutex_` (`arm.cpp:1496`), possibly over a newer one.
- `fault_reset()`, `enable()`, `send_sync()`, `sdo_wait_queue`: no code of the
  repository uses them.
- Heartbeat supervision in the SDK and `miraculous_co_wait_state`: the driver does
  not use them.  PDO mapping, `full_enable` and the mode setters are sequences of
  SDO writes; what their callers see of them is in `ArmApi` and `SyncTimer`.
- CAN socket, NMT, unit conversion, version: system calls and arithmetic.
- The Isaac bridge, kinematics and planning demos, launch files, robot
  description, SDK examples: simulation, numerics, data.

## 7. Plan

Done: all modules of section 2 with their runs and theorems.  Worth doing next:

1. `FreshFeedback`: SYNC, TPDO callbacks, the wait and the cache, for the two
   hazards above, with two joints and two SYNCs in flight.
2. `ArmApi` against `ArmContract`, call by call: the closure of the steps of a call
   under the controlwords it may send.
3. The SYNC timer with several periods, and the failure of `timerfd_create`
   after the old timer was closed.
4. The asynchronous call that expires before it is complete
   (`motion_state.c:1169`): its callback never comes, although the manual of the
   SDK promises one for every expired task (`miraculous_sdk/README.md:94`).

## 8. Running

    tlc -workers 2 -config ArmCspManual.cfg MCArmCsp
    tlc -workers 2 -config RemoteStop.cfg RemoteMotion
    tlapm BusRegistry_proofs.tla

The largest runs, `ArmTimer` and `RemoteStop`, take one to two minutes each;
every proof module takes a few minutes at most.
