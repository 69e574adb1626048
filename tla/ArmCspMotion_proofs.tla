------------------------- MODULE ArmCspMotion_proofs -------------------------
(* What the drives latch: an enable attempt powers them over its own seed, and *)
(* with manual SYNC a powered arm follows one batch, so that ArmCsp implements *)
(* CoordinatedPower.                                                           *)
EXTENDS ArmCsp_proofs

AllPending(b) == \A j \in Joints : pending[j] = b
AllLatched(b) == \A j \in Joints : latched[j] = b

\* Phases of enable_csp in which no drive has power yet, in which the batch is
\* chosen, and in which it is latched.
Unpowered == {"switchOn", "seedFeedback", "writeSeed", "latchSeed"}
Latched   == {"enableAxis", "writeHold", "latchHold", "finalCheck", "resumeTimer"}
SeedPhases == Unpowered \cup Latched \cup {"pauseTimer", "prepare"}

SeedInv ==
  /\ pc = "pauseTimer" => axis = 1
  /\ pc = "prepare"
       => \A j \in Joints : j < axis => drive[j] # "OperationEnabled"
  /\ pc \in Unpowered => NoneEnabled
  /\ pc = "writeSeed" => \A j \in Joints : j < axis => pending[j] = batch
  /\ pc \in Latched \cup {"latchSeed"} => AllPending(batch)
  /\ pc \in Latched => AllLatched(batch)
  /\ pc \in Latched \cup {"latchSeed", "writeSeed"} => batch \in Batches

\* A step of another thread or of a drive, seen from the control thread.
OtherStep ==
  ReaderStep \/ TimerTick \/ \E j \in Joints : DriveFault(j) \/ DriveReset(j)

LEMMA OtherFrame ==
  TypeOK /\ LockInv /\ OtherStep
    => /\ UNCHANGED <<pending, last_targets, csp_active, sync_timer_running,
                      pc, axis, batch>>
       /\ latched' # latched =>
            /\ UNCHANGED drive
            /\ \/ TickSend /\ latched' = pending
               \/ reader = "cycle" /\ ~csp_active /\ ~sync_timer_running
                  /\ pc \notin Holding
<1> SUFFICES ASSUME TypeOK, LockInv, OtherStep
             PROVE  /\ UNCHANGED <<pending, last_targets, csp_active,
                                   sync_timer_running, pc, axis, batch>>
                    /\ latched' # latched =>
                         /\ UNCHANGED drive
                         /\ \/ TickSend /\ latched' = pending
                            \/ reader = "cycle" /\ ~csp_active
                               /\ ~sync_timer_running /\ pc \notin Holding
  OBVIOUS
<1>1. CASE ReaderStep
  BY <1>1
  DEF ReaderStep, ReaderCheck, ReaderLock, ReaderRecheck, ReaderCycle,
      ReaderFrame, BackgroundSync, control, LockInv
<1>2. CASE TimerTick
  BY <1>2 DEF TimerTick, TickRead, TickSend, SyncEdge, devices, control
<1>3. CASE \E j \in Joints : DriveFault(j) \/ DriveReset(j)
  BY <1>3 DEF DriveFault, DriveReset, control
<1>4. QED
  BY <1>1, <1>2, <1>3 DEF OtherStep

\* Steps of the control thread that are outside SeedPhases when they end.
LEMMA SeedElsewhere ==
  \/ EnableEnter \/ RollbackStop \/ RollbackDisable
  \/ TargetStep \/ StopStep \/ LifecycleStep
  => pc' \notin SeedPhases
BY DEF EnableEnter, RollbackStop, RollbackDisable, TargetStep, StopStep,
       LifecycleStep, SetEnter, SetLock, StepCheck, WriteTarget, CycleSync,
       FollowCheck, SetFail, Advance, QuickStopEnter, QuickStopPublish,
       QuickStopLock, StopAll, DisableEnter, DisableLock, DisableAll,
       DisableVoltage, DisableJoints, DisableRelease, ShutdownEnter,
       ShutdownJoin, ShutdownLock, ShutdownDisable, Crash, InitArm,
       SeedPhases, Unpowered, Latched

LEMMA SeedInvariance == TypeOK /\ LockInv /\ SeedInv /\ [Next]_vars => SeedInv'
<1> SUFFICES ASSUME TypeOK, LockInv, SeedInv, [Next]_vars PROVE SeedInv'
  OBVIOUS
<1> USE DEF AllPending, AllLatched, Unpowered, Latched
<1>1. axis \in Joints /\ drive \in [Joints -> DriveStates]
        /\ pending \in [Joints -> Batches \cup {NoBatch}] /\ Joints = 1 .. NumJoints
        /\ NumJoints \in Nat \ {0}
  BY NumJointsAssumption DEF TypeOK, Joints
<1>2. CASE EnableEnter \/ RollbackStop \/ RollbackDisable \/ TargetStep
             \/ StopStep \/ LifecycleStep
  BY <1>2, SeedElsewhere DEF SeedPhases, SeedInv
<1>3. CASE EnableLock
  <2>1. axis' = 1 /\ pc' \in {"pauseTimer", "prepare"}
    BY <1>3 DEF EnableLock
  <2>2. QED
    BY <2>1, <1>1 DEF SeedInv
<1>4. CASE PauseTimer
  <2>1. axis' = 1 /\ pc' \in {"prepare", "rollbackStop"}
    BY <1>4 DEF PauseTimer, SeedInv
  <2>2. QED
    BY <2>1, <1>1 DEF SeedInv
<1>5. CASE Prepare
  <2>1. CASE pc' = "rollbackStop"
    BY <2>1 DEF SeedInv
  <2>2. CASE pc' # "rollbackStop"
    <3>1. /\ pc = "prepare"
          /\ \A j \in Joints : drive'[j] = "OperationEnabled" => drive[j] = "OperationEnabled"
          /\ drive'[axis] # "OperationEnabled"
          /\ Advance("prepare", "switchOn")
      BY <1>1, <1>5, <2>2, OnlyEnableEnables
      DEF Prepare, Transition, Abort, Execute, Commands
    <3>2. QED
      BY <1>1, <3>1 DEF SeedInv, Advance, NoneEnabled
  <2>3. QED
    BY <2>1, <2>2
<1>6. CASE SwitchOn
  <2>1. NoneEnabled => NoneEnabled'
    BY <1>1, <1>6, ExecuteNoPowerOn
    DEF SwitchOn, Transition, Commands, NoneEnabled, NoPowerOn
  <2>2. pc = "switchOn" /\ pc' \in {"switchOn", "seedFeedback", "rollbackStop"}
    BY <1>6 DEF SwitchOn, Transition, Advance, Abort
  <2>3. QED
    BY <2>1, <2>2 DEF SeedInv
<1>7. CASE SeedFeedback
  <2>1. /\ pc = "seedFeedback" /\ UNCHANGED drive
        /\ \/ pc' = "writeSeed" /\ axis' = 1 /\ NewBatch
           \/ pc' = "rollbackStop"
    BY <1>7 DEF SeedFeedback, Abort
  <2>2. QED
    BY <1>1, <2>1, NewBatchType DEF SeedInv, NoneEnabled
<1>8. CASE WriteSeed
  <2>1. /\ pc = "writeSeed" /\ UNCHANGED <<drive, batch>>
        /\ \/ pending' = [pending EXCEPT ![axis] = batch] /\ Advance("writeSeed", "latchSeed")
           \/ pc' = "rollbackStop"
    BY <1>8 DEF WriteSeed, WriteBatch, Abort
  <2>2. QED
    BY <1>1, <2>1 DEF SeedInv, NoneEnabled, Advance
<1>9. CASE LatchSeed
  <2>1. /\ pc = "latchSeed" /\ UNCHANGED <<pending, batch>>
        /\ pc' \in {"enableAxis", "rollbackStop"}
    BY <1>9 DEF LatchSeed, LatchBatch, Abort, SyncAndWait, SyncEdge
  <2>2. pc' = "enableAxis" => latched' = pending
    BY <1>9 DEF LatchSeed, LatchBatch, Abort, SyncAndWait, SyncEdge
  <2>3. QED
    BY <2>1, <2>2 DEF SeedInv
<1>10. CASE EnableAxis \/ WriteHold
  <2>1. /\ pc \in {"enableAxis", "writeHold"} /\ UNCHANGED <<latched, batch>>
        /\ pc' \in {"enableAxis", "writeHold", "latchHold", "rollbackStop"}
        /\ pending' = pending \/ pending' = [pending EXCEPT ![axis] = batch]
    BY <1>10
    DEF EnableAxis, Transition, WriteHold, WriteBatch, EnableFrame, Abort, Advance
  <2>2. QED
    BY <1>1, <2>1 DEF SeedInv
<1>11. CASE LatchHold
  <2>1. /\ pc = "latchHold" /\ pc' \in {"finalCheck", "rollbackStop"}
        /\ UNCHANGED <<pending, batch>>
        /\ latched' = pending \/ UNCHANGED latched
    BY <1>11 DEF LatchHold, LatchBatch, Abort, SyncAndWait, SyncEdge
  <2>2. QED
    BY <2>1 DEF SeedInv
<1>12. CASE FinalCheck \/ ResumeTimer
  <2>1. /\ pc \in {"finalCheck", "resumeTimer"}
        /\ pc' \in {"resumeTimer", "rollbackStop", "idle"}
        /\ pc' = "resumeTimer" => UNCHANGED <<pending, latched, batch>>
    BY <1>12 DEF FinalCheck, ResumeTimer, Abort, devices
  <2>2. QED
    BY <2>1 DEF SeedInv
<1>13. CASE OtherStep
  <2>1. UNCHANGED <<pending, pc, axis, batch>>
    BY <1>13, OtherFrame
  <2>2. \A j \in Joints : drive'[j] = "OperationEnabled" => drive[j] = "OperationEnabled"
    BY <1>1, <1>13
    DEF OtherStep, DriveFault, DriveReset, TimerTick, TickRead, TickSend, devices,
        ReaderStep, ReaderCheck, ReaderLock, ReaderRecheck, ReaderCycle, ReaderFrame
  <2>3. pc \in Latched => latched' = latched \/ latched' = pending
    BY <1>13, OtherFrame DEF Holding, Enabling
  <2>4. QED
    BY <1>1, <2>1, <2>2, <2>3 DEF SeedInv, NoneEnabled
<1>14. CASE UNCHANGED vars
  BY <1>14 DEF vars, SeedInv, NoneEnabled
<1>15. QED
  BY <1>2, <1>3, <1>4, <1>5, <1>6, <1>7, <1>8, <1>9, <1>10, <1>11, <1>12,
     <1>13, <1>14
  DEF Next, EnableStep, OtherStep

LEMMA SeedInvInit == Init => SeedInv
BY DEF Init, SeedInv, Unpowered, Latched

\* A drive enters Operation Enabled over the seed of this enable attempt.
THEOREM SeededEnable == Spec => SeedBeforeEnable
<1>1. TypeOK /\ LockInv /\ SeedInv /\ [Next]_vars
        => [\A j \in Joints :
              drive[j] # "OperationEnabled" /\ drive'[j] = "OperationEnabled"
                => batch # NoBatch /\ latched[j] = batch]_vars
  <2> SUFFICES ASSUME TypeOK, LockInv, SeedInv, [Next]_vars, NEW j \in Joints,
                      drive[j] # "OperationEnabled", drive'[j] = "OperationEnabled"
               PROVE  batch # NoBatch /\ latched[j] = batch
    OBVIOUS
  <2>1. EnableAxis
    BY OnlyEnableAxisPowers DEF NoPowerOn
  <2>2. pc = "enableAxis"
    BY <2>1 DEF EnableAxis, Transition
  <2>3. QED
    BY <2>2, NoBatchAssumption DEF SeedInv, Latched, AllLatched
<1>2. QED
  BY <1>1, SeedInvInit, SeedInvariance, TypeCorrect, LockCorrect, PTL
  DEF Spec, SeedBeforeEnable

-----------------------------------------------------------------------------
(* Manual SYNC: sync_period_us = 0. *)

Uniform == \A i, j \in Joints : latched[i] = latched[j]

MotionInv ==
  /\ ~sync_timer_running /\ receiver = "poll"
  /\ csp_active => pc \in Targeting \cup {"idle", "setLock", "join"}
  /\ pc \in Targeting \cup {"setLock"} => csp_active
  /\ csp_active /\ pc # "followCheck" => AllLatched(last_targets)
  /\ pc = "followCheck" => AllLatched(batch)
  /\ pc = "writeTarget" => \A j \in Joints : j < axis => pending[j] = batch
  /\ pc = "cycleSync" => AllPending(batch)
  /\ NoneEnabled \/ Uniform

ManualInv == TypeOK /\ LockInv /\ PowerInv /\ SeedInv /\ MotionInv

\* Every change of the latched targets is a poll or a seed of an unpowered arm,
\* or one edge that latches the batch being written, in all drives.
LEMMA EdgeKinds ==
  ASSUME ManualInv, [Next]_vars, latched' # latched
  PROVE  /\ UNCHANGED drive
         /\ \/ NoneEnabled /\ ~csp_active
            \/ /\ latched' = [j \in Joints |-> batch]
               /\ \/ pc = "latchHold" /\ batch' = batch /\ ~csp_active'
                  \/ CycleSync
<1> USE DEF ManualInv
<1>1. CASE SeedFeedback \/ LatchSeed
  BY <1>1
  DEF SeedFeedback, LatchSeed, LatchBatch, SeedInv, Unpowered, MotionInv, Targeting
<1>2. CASE LatchHold
  <2>1. latched' = pending /\ pc = "latchHold" /\ UNCHANGED <<drive, batch, csp_active>>
    BY <1>2 DEF LatchHold, LatchBatch, SyncAndWait, SyncEdge, EnableFrame
  <2>2. pending = [j \in Joints |-> batch]
    BY <2>1 DEF SeedInv, Latched, AllPending, TypeOK
  <2>3. QED
    BY <2>1, <2>2 DEF MotionInv, Targeting
<1>3. CASE CycleSync
  <2>1. latched' = pending /\ pc = "cycleSync" /\ UNCHANGED drive
    BY <1>3 DEF CycleSync, SyncAndWait, SyncEdge, SetFrame
  <2>2. pending = [j \in Joints |-> batch]
    BY <2>1 DEF MotionInv, AllPending, TypeOK
  <2>3. QED
    BY <1>3, <2>1, <2>2
<1>4. CASE OtherStep
  BY <1>4, OtherFrame DEF TickSend, PowerInv, MotionInv
<1>5. CASE \/ EnableEnter \/ EnableLock \/ PauseTimer \/ Prepare \/ SwitchOn
           \/ WriteSeed \/ EnableAxis \/ WriteHold \/ FinalCheck \/ ResumeTimer
           \/ RollbackStop \/ RollbackDisable
  BY <1>5
  DEF EnableEnter, EnableLock, PauseTimer, Prepare, SwitchOn, WriteSeed,
      EnableAxis, WriteHold, FinalCheck, ResumeTimer, RollbackStop,
      RollbackDisable, Transition, WriteBatch, devices
<1>6. CASE SetEnter \/ SetLock \/ StepCheck \/ WriteTarget \/ FollowCheck
  BY <1>6 DEF SetEnter, SetLock, StepCheck, WriteTarget, FollowCheck, devices
<1>7. CASE StopStep \/ LifecycleStep
  BY <1>7
  DEF StopStep, LifecycleStep, QuickStopEnter, QuickStopPublish, QuickStopLock,
      StopAll, DisableEnter, DisableLock, DisableAll, DisableVoltage,
      DisableJoints, DisableRelease, ShutdownEnter, ShutdownJoin, ShutdownLock,
      ShutdownDisable, Crash, InitArm, devices
<1>8. QED
  BY <1>1, <1>2, <1>3, <1>4, <1>5, <1>6, <1>7
  DEF Next, EnableStep, TargetStep, OtherStep, vars

\* A drive gets power only over targets that all drives share.
LEMMA UniformKept == ManualInv /\ [Next]_vars => (NoneEnabled \/ Uniform)'
<1> SUFFICES ASSUME ManualInv, [Next]_vars PROVE (NoneEnabled \/ Uniform)'
  OBVIOUS
<1>1. CASE latched' # latched
  BY <1>1, EdgeKinds DEF NoneEnabled, Uniform
<1>2. CASE latched' = latched /\ EnableAxis
  <2>1. AllLatched(batch)
    BY <1>2 DEF ManualInv, SeedInv, EnableAxis, Transition, Latched
  <2>2. QED
    BY <1>2, <2>1 DEF Uniform, AllLatched
<1>3. CASE latched' = latched /\ ~EnableAxis
  BY <1>3, OnlyEnableAxisPowers
  DEF ManualInv, MotionInv, NoneEnabled, NoPowerOn, Uniform
<1>4. QED
  BY <1>1, <1>2, <1>3

\* Without a timer the receive thread never has a SYNC of its own to send.
LEMMA NoTick == ManualInv /\ [Next]_vars => receiver' = "poll"
<1> SUFFICES ASSUME ManualInv, [Next]_vars PROVE receiver' = "poll"
  OBVIOUS
<1>1. receiver = "poll" /\ ~sync_timer_running
  BY DEF ManualInv, MotionInv
<1>2. CASE EnableStep
  BY <1>1, <1>2
  DEF EnableStep, EnableEnter, EnableLock, PauseTimer, Prepare, SwitchOn,
      SeedFeedback, WriteSeed, LatchSeed, EnableAxis, WriteHold, LatchHold,
      FinalCheck, ResumeTimer, RollbackStop, RollbackDisable, Transition,
      WriteBatch, LatchBatch, EnableFrame
<1>3. CASE TargetStep
  BY <1>1, <1>3
  DEF TargetStep, SetEnter, SetLock, StepCheck, WriteTarget, CycleSync,
      FollowCheck, SetFrame
<1>4. CASE StopStep
  BY <1>1, <1>4
  DEF StopStep, QuickStopEnter, QuickStopPublish, QuickStopLock, StopAll,
      DisableEnter, DisableLock, DisableAll, DisableVoltage, DisableJoints,
      DisableRelease
<1>5. CASE LifecycleStep
  BY <1>1, <1>5
  DEF LifecycleStep, ShutdownEnter, ShutdownJoin, ShutdownLock,
      ShutdownDisable, Crash, InitArm
<1>6. CASE OtherStep
  BY <1>1, <1>6
  DEF OtherStep, ReaderStep, ReaderCheck, ReaderLock, ReaderRecheck,
      ReaderCycle, ReaderFrame, TimerTick, TickRead, TickSend, DriveFault,
      DriveReset
<1>7. CASE UNCHANGED vars
  BY <1>1, <1>7 DEF vars
<1>8. QED
  BY <1>2, <1>3, <1>4, <1>5, <1>6, <1>7 DEF Next, OtherStep

LEMMA MotionInvariance ==
  ASSUME ~TimerSync
  PROVE  ManualInv /\ [Next]_vars => MotionInv'
<1> SUFFICES ASSUME ManualInv, [Next]_vars PROVE MotionInv'
  OBVIOUS
<1> DEFINE Rest == /\ ~sync_timer_running'
                   /\ csp_active' => pc' \in Targeting \cup {"idle", "setLock", "join"}
                   /\ pc' \in Targeting \cup {"setLock"} => csp_active'
                   /\ csp_active' /\ pc' # "followCheck" => AllLatched(last_targets)'
                   /\ pc' = "followCheck" => AllLatched(batch)'
                   /\ pc' = "writeTarget" =>
                        \A j \in Joints : j < axis' => pending'[j] = batch'
                   /\ pc' = "cycleSync" => AllPending(batch)'
<1> SUFFICES Rest
  BY UniformKept, NoTick DEF MotionInv
<1> USE DEF ManualInv, AllPending, AllLatched
<1>1. axis \in Joints /\ pending \in [Joints -> Batches \cup {NoBatch}]
        /\ Joints = 1 .. NumJoints /\ NumJoints \in Nat \ {0}
  BY NumJointsAssumption DEF TypeOK, Joints
<1>2. /\ csp_active \in BOOLEAN /\ sync_timer_running \in BOOLEAN
      /\ pc \notin Targeting \cup {"idle", "setLock", "join"} => csp_active = FALSE
      /\ sync_timer_running = FALSE
  BY DEF TypeOK, MotionInv
<1>3. csp_active' = FALSE /\ sync_timer_running' = FALSE /\ pc' \notin Targeting \cup {"setLock"}
        => Rest
  BY DEF Targeting
<1>4. CASE EnableEnter \/ EnableLock \/ RollbackDisable
  <2>1. csp_active' = FALSE /\ sync_timer_running' = FALSE
        /\ pc' \notin Targeting \cup {"setLock"}
    BY <1>2, <1>4
    DEF EnableEnter, EnableLock, RollbackDisable, Targeting
  <2>2. QED
    BY <1>3, <2>1
<1>5. CASE EnablingStep
  <2>1. pc \in Enabling /\ pc' \in Enabling
    BY <1>5, EnablingFrame
  <2>2. csp_active' = FALSE
    BY <1>2, <1>5, <2>1
    DEF EnablingStep, PauseTimer, Prepare, SwitchOn, SeedFeedback, WriteSeed,
        LatchSeed, EnableAxis, WriteHold, LatchHold, FinalCheck, RollbackStop,
        Transition, WriteBatch, LatchBatch, EnableFrame, Enabling, Targeting
  <2>3. sync_timer_running' = FALSE
    BY <1>2, <1>5
    DEF EnablingStep, PauseTimer, Prepare, SwitchOn, SeedFeedback, WriteSeed,
        LatchSeed, EnableAxis, WriteHold, LatchHold, FinalCheck, RollbackStop,
        Transition, WriteBatch, LatchBatch, devices
  <2>4. QED
    BY <1>3, <2>1, <2>2, <2>3 DEF Enabling, Targeting
<1>6. CASE ResumeTimer
  BY <1>6
  DEF ResumeTimer, MotionInv, SeedInv, Latched, Targeting, devices
<1>7. CASE SetEnter \/ SetLock
  <2>1. /\ pc \in {"idle", "setLock"} /\ pc' \in {"setLock", "stepCheck"}
        /\ pc' = "stepCheck" => pc = "setLock"
        /\ UNCHANGED <<csp_active, last_targets, latched, sync_timer_running>>
    BY <1>7 DEF SetEnter, SetLock, devices
  <2>2. csp_active = TRUE
    BY <1>2, <1>7 DEF SetEnter, SetLock, MotionInv
  <2>3. QED
    BY <1>2, <2>1, <2>2 DEF MotionInv, Targeting
<1>8. CASE StepCheck
  <2>1. pc = "stepCheck" /\ UNCHANGED <<latched, last_targets, sync_timer_running>>
        /\ \/ pc' = "writeTarget" /\ axis' = 1 /\ UNCHANGED csp_active
           \/ pc' = "stopAll" /\ csp_active' = FALSE
    BY <1>8 DEF StepCheck, SetFail, SetFrame
  <2>2. CASE pc' = "stopAll"
    BY <1>2, <1>3, <2>1, <2>2 DEF Targeting
  <2>3. CASE pc' = "writeTarget"
    BY <1>1, <1>2, <2>1, <2>3 DEF MotionInv, Targeting
  <2>4. QED
    BY <2>1, <2>2, <2>3
<1>9. CASE WriteTarget
  <2>1. pc = "writeTarget" /\ UNCHANGED <<latched, last_targets, sync_timer_running>>
        /\ \/ /\ pending' = [pending EXCEPT ![axis] = batch]
              /\ Advance("writeTarget", "cycleSync")
              /\ UNCHANGED <<csp_active, batch>>
           \/ pc' = "stopAll" /\ csp_active' = FALSE
    BY <1>9 DEF WriteTarget, SetFail, SetFrame
  <2>2. CASE pc' = "stopAll"
    BY <1>2, <1>3, <2>1, <2>2 DEF Targeting, Advance
  <2>3. CASE pc' # "stopAll"
    <3>1. csp_active' /\ ~sync_timer_running' /\ pc' \in Targeting \ {"followCheck"}
      BY <1>2, <2>1, <2>3 DEF Advance, MotionInv, Targeting
    <3>2. AllLatched(last_targets)'
      BY <2>1, <2>3 DEF MotionInv, Targeting
    <3>3. \A j \in Joints : j <= axis => pending'[j] = batch'
      BY <1>1, <2>1, <2>3 DEF MotionInv
    <3>4. QED
      BY <1>1, <2>1, <2>3, <3>1, <3>2, <3>3 DEF Advance
  <2>4. QED
    BY <2>2, <2>3
<1>10. CASE CycleSync
  BY <1>10
  DEF CycleSync, SyncAndWait, SyncEdge, SetFail, SetFrame, MotionInv, Targeting
<1>11. CASE FollowCheck
  <2>1. pc = "followCheck" /\ UNCHANGED <<latched, sync_timer_running>>
        /\ \/ pc' = "idle" /\ last_targets' = batch /\ UNCHANGED csp_active
           \/ pc' = "stopAll" /\ csp_active' = FALSE
    BY <1>11 DEF FollowCheck, SetFail, SetFrame
  <2>2. QED
    BY <1>2, <2>1 DEF MotionInv, Targeting
<1>12. CASE StopStep \/ ShutdownJoin \/ ShutdownLock \/ ShutdownDisable
              \/ Crash \/ InitArm
  <2>1. csp_active' = FALSE
    BY <1>2, <1>12
    DEF StopStep, QuickStopEnter, QuickStopPublish, QuickStopLock, StopAll,
        DisableEnter, DisableLock, DisableAll, DisableVoltage, DisableJoints,
        DisableRelease, ShutdownJoin, ShutdownLock, ShutdownDisable, Crash,
        InitArm, Targeting
  <2>2. sync_timer_running' = FALSE /\ pc' \notin Targeting \cup {"setLock"}
    BY <1>2, <1>12
    DEF StopStep, QuickStopEnter, QuickStopPublish, QuickStopLock, StopAll,
        DisableEnter, DisableLock, DisableAll, DisableVoltage, DisableJoints,
        DisableRelease, ShutdownJoin, ShutdownLock, ShutdownDisable, Crash,
        InitArm, Targeting
  <2>3. QED
    BY <1>3, <2>1, <2>2
<1>13. CASE ShutdownEnter
  BY <1>2, <1>13 DEF ShutdownEnter, MotionInv, Targeting, devices
<1>14. CASE OtherStep
  <2>1. /\ UNCHANGED <<pending, last_targets, csp_active, sync_timer_running, pc, axis, batch>>
        /\ latched' # latched => ~csp_active
    BY <1>14, OtherFrame DEF TickSend, MotionInv
  <2>2. QED
    BY <2>1 DEF MotionInv, Targeting
<1>15. CASE UNCHANGED vars
  BY <1>15 DEF vars, MotionInv
<1>16. QED
  BY <1>4, <1>5, <1>6, <1>7, <1>8, <1>9, <1>10, <1>11, <1>12, <1>13, <1>14, <1>15
  DEF Next, EnableStep, EnablingStep, TargetStep, LifecycleStep, OtherStep

LEMMA ManualInvariant ==
  ASSUME ~TimerSync, TrustedRestart
  PROVE  Spec => []ManualInv
<1>1. Init => PowerInv /\ MotionInv
  BY DEF Init, PowerInv, EnabledIsGuarded, MotionInv, Targeting, NoneEnabled
<1>2. TypeOK /\ LockInv /\ PowerInv /\ SeedInv /\ MotionInv /\ [Next]_vars
        => PowerInv' /\ SeedInv' /\ MotionInv'
  BY PowerInvariance, SeedInvariance, MotionInvariance DEF ManualInv
<1>3. QED
  BY <1>1, <1>2, SeedInvInit, TypeCorrect, LockCorrect, PTL DEF Spec, ManualInv

-----------------------------------------------------------------------------
(* Refinement. *)

Powered == [j \in Joints |-> drive[j] = "OperationEnabled"]

LEMMA RefinementStep ==
  ManualInv /\ ManualInv' /\ [Next]_vars => [Coordinated!Next]_(Coordinated!vars)
<1> SUFFICES ASSUME ManualInv, ManualInv', [Next]_vars
             PROVE  [Coordinated!Next]_(Coordinated!vars)
  OBVIOUS
<1>1. latched' \in [Joints -> Batches \cup {NoBatch}]
        /\ latched \in [Joints -> Batches \cup {NoBatch}]
        /\ drive \in [Joints -> DriveStates] /\ batch \in Batches \cup {NoBatch}
        /\ axis \in Joints
  BY DEF ManualInv, TypeOK
<1>2. CASE latched' # latched
  <2>1. Powered' = Powered
    BY <1>2, EdgeKinds DEF Powered
  <2>2. CASE NoneEnabled
    <3>1. Coordinated!Refresh
      BY <1>1, <2>1, <2>2 DEF Coordinated!Refresh, Powered, NoneEnabled
    <3>2. QED
      BY <3>1 DEF Coordinated!Next
  <2>3. CASE latched' = [j \in Joints |-> batch]
    <3>1. Coordinated!Move(batch)
      BY <2>1, <2>3 DEF Coordinated!Move, Powered
    <3>2. QED
      BY <1>1, <3>1 DEF Coordinated!Next
  <2>4. QED
    BY <1>2, <2>2, <2>3, EdgeKinds
<1>3. CASE latched' = latched /\ ~EnableAxis
  <2>1. NoPowerOn
    BY <1>3, OnlyEnableAxisPowers DEF ManualInv
  <2>2. Coordinated!PowerOff
    BY <1>3, <2>1 DEF Coordinated!PowerOff, NoPowerOn
  <2>3. QED
    BY <2>2 DEF Coordinated!Next
<1>4. CASE latched' = latched /\ EnableAxis
  <2>1. AllLatched(batch)
    BY <1>4 DEF ManualInv, SeedInv, EnableAxis, Transition, Latched
  <2>2. PICK a \in Joints : a = axis
    BY <1>1
  <2>3. /\ \A j \in Joints \ {a} : drive'[j] = drive[j]
        /\ drive'[a] \in {drive[a], "OperationEnabled"}
    BY <1>1, <1>4, <2>2
    DEF EnableAxis, Transition, Execute, After, Effective, LeadsTo
  <2>4. CASE drive'[a] = drive[a]
    BY <1>4, <2>3, <2>4 DEF Coordinated!vars
  <2>5. CASE drive'[a] = "OperationEnabled"
    <3>1. Powered' = [Powered EXCEPT ![a] = TRUE]
      BY <2>3, <2>5 DEF Powered
    <3>2. Coordinated!PowerOn(a)
      BY <1>4, <2>1, <3>1
      DEF Coordinated!PowerOn, Coordinated!OneTarget, Powered, AllLatched
    <3>3. QED
      BY <3>2 DEF Coordinated!Next
  <2>6. QED
    BY <2>3, <2>4, <2>5
<1>5. QED
  BY <1>2, <1>3, <1>4

\* Manual SYNC: the power stage implements CoordinatedPower, so that a powered
\* arm follows one batch of targets through faults, stops, crashes and restarts.
THEOREM CoordinatedArm ==
  ~TimerSync /\ TrustedRestart => (Spec => CoordinatedMotion)
<1> SUFFICES ASSUME ~TimerSync, TrustedRestart PROVE Spec => CoordinatedMotion
  OBVIOUS
<1>1. Init => Coordinated!Init
  BY DEF Init, Coordinated!Init, DriveStates
<1>2. QED
  BY <1>1, RefinementStep, ManualInvariant, PTL
  DEF Spec, CoordinatedMotion, Coordinated!Spec

\* Manual SYNC: while any drive has power, the latched targets of all joints
\* are one batch: the arm never holds half of a set_targets_rad call.
THEOREM PoweredArmIsUniform ==
  ~TimerSync /\ TrustedRestart => (Spec => []Coordinated!PoweredFollowsOneBatch)
<1> SUFFICES ASSUME ~TimerSync, TrustedRestart
             PROVE  Spec => []Coordinated!PoweredFollowsOneBatch
  OBVIOUS
<1>1. ManualInv => Coordinated!PoweredFollowsOneBatch
  BY DEF ManualInv, MotionInv, NoneEnabled, Uniform,
         Coordinated!PoweredFollowsOneBatch, Coordinated!OneTarget
<1>2. QED
  BY <1>1, ManualInvariant, PTL

\* Manual SYNC: an edge moves a powered drive only away from the targets that
\* the command step guard of set_targets_rad compared the new ones with.
THEOREM StepGuardIsCurrent ==
  ~TimerSync /\ TrustedRestart => (Spec => StepGuardSeesLatchedTarget)
<1> SUFFICES ASSUME ~TimerSync, TrustedRestart
             PROVE  Spec => StepGuardSeesLatchedTarget
  OBVIOUS
<1>1. ManualInv /\ [Next]_vars
        => [\A j \in Joints :
              drive[j] = "OperationEnabled" /\ latched'[j] # latched[j]
                => latched[j] = last_targets]_vars
  <2> SUFFICES ASSUME ManualInv, [Next]_vars, NEW j \in Joints,
                      drive[j] = "OperationEnabled", latched'[j] # latched[j]
               PROVE  latched[j] = last_targets
    OBVIOUS
  <2>1. CASE CycleSync
    BY <2>1 DEF CycleSync, ManualInv, MotionInv, Targeting, AllLatched
  <2>2. CASE pc = "latchHold"
    BY <2>2, EdgeKinds DEF ManualInv, SeedInv, Latched, AllLatched, NoneEnabled, CycleSync
  <2>3. QED
    BY <2>1, <2>2, EdgeKinds DEF NoneEnabled
<1>2. QED
  BY <1>1, ManualInvariant, PTL DEF Spec, StepGuardSeesLatchedTarget

-----------------------------------------------------------------------------
(* csp_active_ in both SYNC modes. *)

AtWork == \A j \in Joints : drive[j] \in {"OperationEnabled", "Fault", "SwitchOnDisabled"}

ActiveInv ==
  /\ csp_active => pc \in Targeting \cup {"idle", "setLock", "join"}
  /\ csp_active \/ pc = "resumeTimer" => AtWork

LEMMA ActiveInvariance == TypeOK /\ LockInv /\ ActiveInv /\ [Next]_vars => ActiveInv'
<1> SUFFICES ASSUME TypeOK, LockInv, ActiveInv, [Next]_vars PROVE ActiveInv'
  OBVIOUS
<1>1. /\ csp_active \in BOOLEAN
      /\ pc \notin Targeting \cup {"idle", "setLock", "join"} => csp_active = FALSE
  BY DEF TypeOK, ActiveInv
<1>2. csp_active' = FALSE /\ pc' # "resumeTimer" => ActiveInv'
  BY DEF ActiveInv
<1>3. CASE EnableEnter \/ EnableLock \/ RollbackDisable
  <2>1. csp_active' = FALSE /\ pc' # "resumeTimer"
    BY <1>1, <1>3 DEF EnableEnter, EnableLock, RollbackDisable, Targeting
  <2>2. QED
    BY <1>2, <2>1
<1>4. CASE EnablingStep /\ ~FinalCheck
  <2>1. pc \in Enabling
    BY <1>4, EnablingFrame
  <2>2. csp_active' = FALSE
    BY <1>1, <1>4, <2>1
    DEF EnablingStep, PauseTimer, Prepare, SwitchOn, SeedFeedback, WriteSeed,
        LatchSeed, EnableAxis, WriteHold, LatchHold, RollbackStop, Transition,
        WriteBatch, LatchBatch, EnableFrame, Enabling, Targeting
  <2>3. pc' # "resumeTimer"
    BY <1>4
    DEF EnablingStep, PauseTimer, Prepare, SwitchOn, SeedFeedback, WriteSeed,
        LatchSeed, EnableAxis, WriteHold, LatchHold, RollbackStop, Transition,
        WriteBatch, LatchBatch, Advance, Abort
  <2>4. QED
    BY <1>2, <2>2, <2>3
<1>5. CASE FinalCheck
  <2>1. pc' = "resumeTimer" => AtWork'
    BY <1>5 DEF FinalCheck, Abort, AtWork, devices
  <2>2. csp_active' = FALSE
    BY <1>1, <1>5 DEF FinalCheck, EnableFrame, Targeting
  <2>3. QED
    BY <2>1, <2>2 DEF ActiveInv
<1>6. CASE ResumeTimer
  <2>1. AtWork'
    BY <1>6 DEF ResumeTimer, ActiveInv, AtWork, devices
  <2>2. csp_active' => pc' = "idle"
    BY <1>1, <1>6 DEF ResumeTimer, EnableFrame, Targeting
  <2>3. QED
    BY <2>1, <2>2 DEF ActiveInv
<1>7. CASE TargetStep
  <2>1. /\ UNCHANGED drive /\ pc' # "resumeTimer"
        /\ csp_active' => csp_active /\ pc' \in Targeting \cup {"idle", "setLock", "join"}
    <3>1. CASE SetEnter \/ SetLock \/ StepCheck
      BY <3>1 DEF SetEnter, SetLock, StepCheck, SetFail, SetFrame, Targeting, devices
    <3>2. CASE WriteTarget
      BY <3>2 DEF WriteTarget, SetFail, SetFrame, Advance, Targeting
    <3>3. CASE CycleSync
      BY <3>3 DEF CycleSync, SyncAndWait, SyncEdge, SetFail, SetFrame, Targeting
    <3>4. CASE FollowCheck
      BY <3>4 DEF FollowCheck, SetFail, SetFrame, Targeting
    <3>5. QED
      BY <1>7, <3>1, <3>2, <3>3, <3>4 DEF TargetStep
  <2>2. QED
    BY <2>1 DEF ActiveInv, AtWork
<1>8. CASE StopStep \/ ShutdownJoin \/ ShutdownLock \/ ShutdownDisable
             \/ Crash \/ InitArm
  <2>1. csp_active' = FALSE /\ pc' # "resumeTimer"
    BY <1>1, <1>8
    DEF StopStep, QuickStopEnter, QuickStopPublish, QuickStopLock, StopAll,
        DisableEnter, DisableLock, DisableAll, DisableVoltage, DisableJoints,
        DisableRelease, ShutdownJoin, ShutdownLock, ShutdownDisable, Crash,
        InitArm, Targeting
  <2>2. QED
    BY <1>2, <2>1
<1>9. CASE ShutdownEnter
  BY <1>9 DEF ShutdownEnter, ActiveInv, AtWork, devices
<1>10. CASE OtherStep
  <2>1. UNCHANGED <<pc, csp_active>>
    BY <1>10, OtherFrame
  <2>2. AtWork => AtWork'
    BY <1>10
    DEF OtherStep, DriveFault, DriveReset, TimerTick, TickRead, TickSend, devices,
        ReaderStep, ReaderCheck, ReaderLock, ReaderRecheck, ReaderCycle,
        ReaderFrame, AtWork, TypeOK
  <2>3. QED
    BY <2>1, <2>2 DEF ActiveInv
<1>11. CASE UNCHANGED vars
  BY <1>11 DEF vars, ActiveInv, AtWork
<1>12. QED
  BY <1>3, <1>4, <1>5, <1>6, <1>7, <1>8, <1>9, <1>10, <1>11
  DEF Next, EnableStep, EnablingStep, LifecycleStep, OtherStep

\* csp_active_ is raised only over an arm that passed the whole enable
\* transaction; after that only the drives themselves take power away.
THEOREM ActiveArmIsEnabled == Spec => []ActiveMeansEnabled
<1>1. Init => ActiveInv
  BY DEF Init, ActiveInv
<1>2. ActiveInv => ActiveMeansEnabled
  BY DEF ActiveInv, ActiveMeansEnabled, AtWork
<1>3. QED
  BY <1>1, <1>2, ActiveInvariance, TypeCorrect, LockCorrect, PTL DEF Spec

-----------------------------------------------------------------------------
(* The contract of the calls, in both SYNC modes and after any restart. *)

AtRest == \A j \in Joints : drive[j] \in {"SwitchedOn", "SwitchOnDisabled", "Fault"}

\* What a call relies on where it returns: set_targets_rad still has an active
\* arm, and disable reports success only over drives it saw at rest.
ReturnInv ==
  /\ pc \in Targeting \cup {"setLock"} => csp_active
  /\ pc = "disableRelease" /\ verified => AtRest

LEMMA ReturnInvariance == TypeOK /\ LockInv /\ ReturnInv /\ [Next]_vars => ReturnInv'
<1> SUFFICES ASSUME TypeOK, LockInv, ReturnInv, [Next]_vars PROVE ReturnInv'
  OBVIOUS
<1>1. CASE EnableStep
  <2>1. pc' \notin Targeting \cup {"setLock", "disableRelease"}
    <3>1. CASE EnablingStep
      BY <3>1, EnablingFrame DEF Enabling, Targeting
    <3>2. CASE EnableEnter \/ EnableLock \/ ResumeTimer \/ RollbackDisable
      BY <3>2
      DEF EnableEnter, EnableLock, ResumeTimer, Abort, RollbackDisable, Targeting
    <3>3. QED
      BY <1>1, <3>1, <3>2 DEF EnableStep, EnablingStep
  <2>2. QED
    BY <2>1 DEF ReturnInv
<1>2. CASE TargetStep
  <2>1. pc' \in Targeting \cup {"setLock"} => csp_active'
    <3> pc \in Targeting \cup {"setLock"} => csp_active = TRUE
      BY DEF ReturnInv, TypeOK
    <3>1. CASE SetEnter \/ SetLock
      BY <3>1 DEF SetEnter, SetLock, devices
    <3>2. CASE StepCheck
      BY <3>2 DEF StepCheck, SetFail, SetFrame, devices, Targeting
    <3>3. CASE WriteTarget
      BY <3>3 DEF WriteTarget, SetFail, SetFrame, devices, Targeting
    <3>4. CASE CycleSync
      BY <3>4 DEF CycleSync, SetFail, SetFrame, devices, Targeting
    <3>5. CASE FollowCheck
      BY <3>5 DEF FollowCheck, SetFail, Targeting
    <3>6. QED
      BY <1>2, <3>1, <3>2, <3>3, <3>4, <3>5 DEF TargetStep
  <2>2. pc' # "disableRelease"
    BY <1>2
    DEF TargetStep, SetEnter, SetLock, StepCheck, WriteTarget, CycleSync,
        FollowCheck, SetFail, Advance
  <2>3. QED
    BY <2>1, <2>2 DEF ReturnInv
<1>3. CASE DisableAll \/ DisableVoltage
  <2>1. pc' = "disableRelease" /\ (verified' => AtRest')
    BY <1>3 DEF DisableAll, DisableVoltage, DisableJoints, CommandAll, AtRest
  <2>2. QED
    BY <2>1 DEF ReturnInv, Targeting
<1>4. CASE LifecycleStep \/ (StopStep /\ ~DisableAll /\ ~DisableVoltage)
  <2>1. pc' \notin Targeting \cup {"setLock", "disableRelease"}
    BY <1>4
    DEF StopStep, QuickStopEnter, QuickStopPublish, QuickStopLock, StopAll,
        DisableEnter, DisableLock, DisableRelease, LifecycleStep,
        ShutdownEnter, ShutdownJoin, ShutdownLock, ShutdownDisable, Crash,
        InitArm, Targeting
  <2>2. QED
    BY <2>1 DEF ReturnInv
<1>5. CASE OtherStep
  <2>1. UNCHANGED <<pc, csp_active>>
    BY <1>5, OtherFrame
  <2>2. UNCHANGED verified /\ (AtRest => AtRest')
    BY <1>5
    DEF OtherStep, DriveFault, DriveReset, TimerTick, TickRead, TickSend, devices,
        ReaderStep, ReaderCheck, ReaderLock, ReaderRecheck, ReaderCycle,
        ReaderFrame, AtRest, TypeOK, control
  <2>3. QED
    BY <2>1, <2>2 DEF ReturnInv
<1>6. CASE UNCHANGED vars
  BY <1>6 DEF vars, ReturnInv, AtRest
<1>7. QED
  BY <1>1, <1>2, <1>3, <1>4, <1>5, <1>6 DEF Next, OtherStep, StopStep

ContractInv == TypeOK /\ LockInv /\ ActiveInv /\ ReturnInv

\* Both copies of Cia402 speak of the same drive.
LEMMA SameDrive ==
  /\ Contract!DriveStates = DriveStates
  /\ Contract!Commands = Commands
  /\ \A c, s : Contract!After(c, s) = After(c, s)
BY DEF Contract!DriveStates, DriveStates, Contract!Commands, Commands,
       Contract!After, After, Contract!Effective, Effective,
       Contract!LeadsTo, LeadsTo

LEMMA ExecuteObeys ==
  ASSUME drive \in [Joints -> DriveStates], NEW words \in SUBSET Commands,
         NEW c \in words, NEW R, Execute(c, R)
  PROVE  Contract!Obey(words)
BY ExecuteType, SameDrive DEF Execute, Contract!Obey

LEMMA StillObeys ==
  ASSUME drive \in [Joints -> DriveStates], UNCHANGED drive, NEW words
  PROVE  Contract!Obey(words)
BY SameDrive DEF Contract!Obey

\* Phase, one place of the control thread after the other.
PhaseTable ==
  /\ pc = "closed" => Phase = "closed"
  /\ pc \in Enabling \cup {"enableLock"} => Phase = "enabling"
  /\ pc \in Targeting \cup {"setLock"} => Phase = "setting"
  /\ pc \in {"quickStopPublish", "quickStopLock", "stopAll"} => Phase = "stopping"
  /\ pc \in {"disableLock", "disableAll", "disableVoltage", "disableRelease"}
       => Phase = "disabling"
  /\ pc \in {"join", "shutLock", "shutDisable"} => Phase = "shutting"
  /\ pc = "idle" => Phase = IF csp_active THEN "active"
                            ELSE IF exclusive_sdk_io THEN "quarantined" ELSE "resting"

LEMMA PhaseIs == PhaseTable
BY DEF PhaseTable, Phase, Enabling, Targeting

LEMMA PhaseIsNext == PhaseTable'
BY DEF PhaseTable, Phase, Enabling, Targeting

LEMMA WordsAre ==
  /\ Contract!Words["enabling"] = Commands \ {"DisableOperation"}
  /\ Contract!Words["setting"] = {}
  /\ Contract!Words["stopping"] = {"QuickStop"}
  /\ Contract!Words["disabling"] = {"DisableOperation", "DisableVoltage"}
  /\ Contract!Words["shutting"] = {"DisableVoltage"}
  /\ DOMAIN Contract!Words = {"enabling", "setting", "stopping", "disabling", "shutting"}
BY SameDrive DEF Contract!Words

\* A step of the call in progress, and a step that no caller can see.
LEMMA WorkStep ==
  ASSUME NEW p \in DOMAIN Contract!Words, Phase = p, Phase' = p,
         Contract!Obey(Contract!Words[p])
  PROVE  Contract!Next
BY DEF Contract!Next, Contract!Work

LEMMA EnterStep ==
  ASSUME NEW p, NEW q, Phase = p, Phase' = q, UNCHANGED drive,
         \/ p \in {"resting", "quarantined"} /\ q = "enabling"
         \/ p = "active" /\ q = "setting"
         \/ p \in Contract!Ready \cup {"setting"} /\ q = "stopping"
         \/ p \in Contract!Ready /\ q \in {"disabling", "shutting"}
  PROVE  Contract!Next
BY DEF Contract!Next, Contract!Call, Contract!Enter, Contract!Ready

LEMMA EnablingWorks ==
  TypeOK /\ EnablingStep => Contract!Obey(Contract!Words["enabling"])
<1> SUFFICES ASSUME TypeOK, EnablingStep
             PROVE  Contract!Obey(Contract!Words["enabling"])
  OBVIOUS
<1>1. drive \in [Joints -> DriveStates]
        /\ Contract!Words["enabling"] \in SUBSET Commands
        /\ {"Shutdown", "SwitchOn", "EnableOperation", "QuickStop"}
             \subseteq Contract!Words["enabling"]
  BY WordsAre DEF TypeOK, Commands
<1>2. CASE \E c \in {"Shutdown", "SwitchOn", "EnableOperation", "QuickStop"} :
             \E R : Execute(c, R)
  BY <1>1, <1>2, ExecuteObeys
<1>3. CASE UNCHANGED drive
  BY <1>1, <1>3, StillObeys
<1>4. CASE Prepare \/ SwitchOn \/ EnableAxis
  BY <1>2, <1>4 DEF Prepare, SwitchOn, EnableAxis, Transition
<1>5. CASE RollbackStop
  BY <1>2, <1>5 DEF RollbackStop
<1>6. CASE PauseTimer \/ SeedFeedback \/ WriteSeed \/ LatchSeed \/ WriteHold
             \/ LatchHold \/ FinalCheck
  BY <1>3, <1>6
  DEF PauseTimer, SeedFeedback, WriteSeed, LatchSeed, WriteHold, LatchHold,
      FinalCheck, WriteBatch, LatchBatch, devices
<1>7. QED
  BY <1>4, <1>5, <1>6 DEF EnablingStep

LEMMA ContractStep ==
  ContractInv /\ [Next]_vars => [Contract!Next]_(Contract!vars)
<1> SUFFICES ASSUME ContractInv, [Next]_vars
             PROVE  [Contract!Next]_(Contract!vars)
  OBVIOUS
<1> USE PhaseIs, PhaseIsNext
<1>1. drive \in [Joints -> DriveStates] /\ csp_active \in BOOLEAN
        /\ (pc \notin Targeting \cup {"idle", "setLock", "join"} => csp_active = FALSE)
        /\ (pc \in Targeting \cup {"setLock"} => csp_active = TRUE)
  BY DEF ContractInv, TypeOK, ActiveInv, ReturnInv
<1>2. CASE UNCHANGED <<drive, Phase>>
  BY <1>2 DEF Contract!vars
<1>3. CASE EnableEnter
  <2>1. Phase \in {"resting", "quarantined"} /\ Phase' = "enabling"
    BY <1>3 DEF EnableEnter, PhaseTable
  <2>2. UNCHANGED drive
    BY <1>3 DEF EnableEnter, devices
  <2>3. QED
    BY <2>1, <2>2, EnterStep
<1>4. CASE EnableLock
  <2>1. pc = "enableLock" /\ pc' \in Enabling /\ UNCHANGED drive
    BY <1>4 DEF EnableLock, Enabling, devices
  <2>2. QED
    BY <1>2, <2>1 DEF PhaseTable
<1>5. CASE EnablingStep
  <2>1. Phase = "enabling" /\ Phase' = "enabling"
    BY <1>5, EnablingFrame DEF PhaseTable
  <2>2. QED
    BY <1>5, <2>1, EnablingWorks, WorkStep, WordsAre DEF ContractInv
<1>6. CASE ResumeTimer
  <2>1. pc = "resumeTimer" /\ UNCHANGED drive
    BY <1>6 DEF ResumeTimer, devices
  <2>2. Phase = "enabling"
    BY <2>1 DEF PhaseTable, Enabling
  <2>3. CASE pc' = "idle"
    <3>1. csp_active' = TRUE
      BY <1>6, <2>3 DEF ResumeTimer, Abort
    <3>2. Phase' = "active"
      BY <2>3, <3>1 DEF PhaseTable
    <3>3. Contract!Obey(Contract!Words["enabling"])
      BY <1>1, <2>1, StillObeys
    <3>4. AtWork
      BY <2>1 DEF ContractInv, ActiveInv
    <3>5. Contract!Enabled
      BY <2>1, <2>2, <3>2, <3>3, <3>4 DEF Contract!Enabled, Contract!Return, AtWork
    <3>6. QED
      BY <3>5 DEF Contract!Next
  <2>4. CASE pc' # "idle"
    <3>1. pc' = "rollbackStop"
      BY <1>6, <2>4 DEF ResumeTimer, Abort
    <3>2. Phase' = "enabling"
      BY <3>1 DEF PhaseTable, Enabling
    <3>3. QED
      BY <1>2, <2>1, <2>2, <3>2
  <2>5. QED
    BY <2>3, <2>4
<1>7. CASE RollbackDisable
  <2>1. PICK ok \in BOOLEAN :
          /\ CommandAll("DisableVoltage", Joints, "SwitchOnDisabled", ok)
          /\ exclusive_sdk_io' = ~(ok /\ verified)
    BY <1>7 DEF RollbackDisable
  <2>2. pc = "rollbackDisable" /\ pc' = "idle" /\ UNCHANGED csp_active
    BY <1>7 DEF RollbackDisable
  <2>3. Phase = "enabling" /\ csp_active' = FALSE
    BY <1>1, <2>2 DEF PhaseTable, Enabling, Targeting
  <2>4. Contract!Obey(Contract!Words["enabling"])
    BY <1>1, <2>1, ExecuteObeys, WordsAre DEF CommandAll, Commands
  <2>5. CASE exclusive_sdk_io'
    <3>1. Phase' = "quarantined"
      BY <2>2, <2>3, <2>5 DEF PhaseTable
    <3>2. Contract!Obey({"DisableVoltage"})
      BY <1>1, <2>1, ExecuteObeys DEF CommandAll, Commands
    <3>3. Contract!RollbackFails
      BY <2>3, <3>1, <3>2 DEF Contract!RollbackFails
    <3>4. QED
      BY <3>3 DEF Contract!Next
  <2>6. CASE ~exclusive_sdk_io'
    <3>1. Phase' = "resting"
      BY <2>2, <2>3, <2>6 DEF PhaseTable
    <3>2. ok = TRUE
      BY <2>1, <2>6
    <3>3. drive' = [j \in Joints |-> "SwitchOnDisabled"]
      BY <2>1, <3>2 DEF CommandAll, Execute
    <3>4. Contract!RolledBack
      BY <2>3, <2>4, <3>1, <3>3 DEF Contract!RolledBack, Contract!Return
    <3>5. QED
      BY <3>4 DEF Contract!Next
  <2>7. QED
    BY <2>5, <2>6
<1>8. CASE SetEnter
  <2>1. UNCHANGED drive /\ Phase = "active" /\ Phase' = "setting"
    BY <1>8 DEF SetEnter, devices, PhaseTable
  <2>2. QED
    BY <2>1, EnterStep
<1>9. CASE SetLock \/ StepCheck \/ WriteTarget \/ CycleSync
  <2>1. UNCHANGED drive /\ pc \in Targeting \cup {"setLock"}
          /\ pc' \in Targeting \cup {"stopAll"}
    BY <1>9
    DEF SetLock, StepCheck, WriteTarget, CycleSync, SetFail, SetFrame, Advance,
        Targeting, devices
  <2>2. Phase = "setting" /\ Phase' \in {"setting", "stopping"}
    BY <2>1 DEF PhaseTable
  <2>3. QED
    BY <1>2, <2>1, <2>2, EnterStep
<1>10. CASE FollowCheck
  <2>1. /\ pc = "followCheck" /\ UNCHANGED drive
        /\ pc' = "stopAll" \/ (pc' = "idle" /\ csp_active' = TRUE)
    <3>1. pc = "followCheck" /\ csp_active = TRUE
      BY <1>1, <1>10 DEF FollowCheck, Targeting
    <3>2. CASE SetFail /\ SetFrame
      BY <3>1, <3>2 DEF SetFail, SetFrame
    <3>3. CASE pc' = "idle" /\ UNCHANGED <<csp_active, drive>>
      BY <3>1, <3>3
    <3>4. QED
      BY <1>10, <3>2, <3>3 DEF FollowCheck
  <2>2. Phase = "setting" /\ Phase' \in {"active", "stopping"}
    BY <2>1 DEF PhaseTable, Targeting
  <2>3. CASE Phase' = "active"
    <3>1. Contract!Obey(Contract!Words["setting"])
      BY <1>1, <2>1, StillObeys
    <3>2. Contract!Accepted
      BY <2>2, <2>3, <3>1 DEF Contract!Accepted, Contract!Return
    <3>3. QED
      BY <3>2 DEF Contract!Next
  <2>4. QED
    BY <2>1, <2>2, <2>3, EnterStep
<1>11. CASE QuickStopEnter \/ DisableEnter \/ ShutdownEnter
  <2>1. UNCHANGED drive /\ pc = "idle" /\ pc' \in {"quickStopPublish", "disableLock", "join"}
    BY <1>11 DEF QuickStopEnter, DisableEnter, ShutdownEnter, devices
  <2>2. Phase \in Contract!Ready /\ Phase' \in {"stopping", "disabling", "shutting"}
    BY <2>1 DEF PhaseTable, Contract!Ready
  <2>3. QED
    BY <2>1, <2>2, EnterStep
<1>12. CASE QuickStopPublish \/ QuickStopLock \/ DisableLock \/ ShutdownJoin
              \/ ShutdownLock
  <2>1. UNCHANGED <<drive, Phase>>
    BY <1>12
    DEF QuickStopPublish, QuickStopLock, DisableLock, ShutdownJoin,
        ShutdownLock, devices, PhaseTable
  <2>2. QED
    BY <1>2, <2>1
<1>13. CASE StopAll
  <2>1. pc = "stopAll" /\ pc' = "idle" /\ UNCHANGED <<csp_active, exclusive_sdk_io>>
          /\ \E R : Execute("QuickStop", R)
    BY <1>13 DEF StopAll, CommandAll
  <2>2. Phase = "stopping" /\ Phase' = "quarantined"
    BY <1>1, <2>1 DEF PhaseTable, Targeting, ContractInv, LockInv
  <2>3. Contract!Obey(Contract!Words["stopping"])
    BY <1>1, <2>1, ExecuteObeys, WordsAre DEF Commands
  <2>4. Contract!Stopped
    BY <2>2, <2>3 DEF Contract!Stopped, Contract!Return
  <2>5. QED
    BY <2>4 DEF Contract!Next
<1>14. CASE DisableAll \/ DisableVoltage
  <2>1. pc \in {"disableAll", "disableVoltage"} /\ pc' = "disableRelease"
          /\ \E c \in {"DisableOperation", "DisableVoltage"} : \E R : Execute(c, R)
    BY <1>14 DEF DisableAll, DisableVoltage, DisableJoints, CommandAll
  <2>2. Phase = "disabling" /\ Phase' = "disabling"
    BY <2>1 DEF PhaseTable
  <2>3. Contract!Obey(Contract!Words["disabling"])
    BY <1>1, <2>1, ExecuteObeys, WordsAre DEF Commands
  <2>4. QED
    BY <2>2, <2>3, WorkStep, WordsAre
<1>15. CASE DisableRelease
  <2>1. pc = "disableRelease" /\ pc' = "idle" /\ UNCHANGED <<drive, csp_active>>
          /\ exclusive_sdk_io' = ~verified
    BY <1>15 DEF DisableRelease, devices
  <2>2. Phase = "disabling" /\ csp_active' = FALSE
    BY <1>1, <2>1 DEF PhaseTable, Targeting
  <2>3. Contract!Obey(Contract!Words["disabling"])
    BY <1>1, <2>1, StillObeys
  <2>4. CASE verified
    <3>1. Phase' = "resting" /\ AtRest
      BY <2>1, <2>2, <2>4 DEF PhaseTable, ContractInv, ReturnInv
    <3>2. Contract!Disabled
      BY <2>1, <2>2, <2>3, <3>1 DEF Contract!Disabled, Contract!Return, AtRest
    <3>3. QED
      BY <3>2 DEF Contract!Next
  <2>5. CASE ~verified
    <3>1. Phase' = "quarantined"
      BY <2>1, <2>2, <2>5 DEF PhaseTable
    <3>2. Contract!DisableFails
      BY <2>1, <2>2, <2>3, <3>1 DEF Contract!DisableFails, Contract!Return
    <3>3. QED
      BY <3>2 DEF Contract!Next
  <2>6. QED
    BY <2>4, <2>5
<1>16. CASE ShutdownDisable
  <2>1. pc = "shutDisable" /\ pc' = "closed" /\ \E R : Execute("DisableVoltage", R)
    BY <1>16 DEF ShutdownDisable, CommandAll
  <2>2. Phase = "shutting" /\ Phase' = "closed"
    BY <2>1 DEF PhaseTable
  <2>3. Contract!Obey(Contract!Words["shutting"])
    BY <1>1, <2>1, ExecuteObeys, WordsAre DEF Commands
  <2>4. Contract!Closed
    BY <2>2, <2>3 DEF Contract!Closed, Contract!Return
  <2>5. QED
    BY <2>4 DEF Contract!Next
<1>17. CASE Crash
  <2>1. UNCHANGED drive /\ Phase' = "closed"
    BY <1>17 DEF Crash, devices, PhaseTable
  <2>2. Phase \in Contract!Phases
    BY WordsAre
    DEF ContractInv, TypeOK, Holding, Outside, PhaseTable, Contract!Phases, Contract!Ready
  <2>3. Phase = "closed" \/ Contract!Killed
    BY <2>1, <2>2 DEF Contract!Killed, Contract!Enter
  <2>4. QED
    BY <1>2, <2>1, <2>3 DEF Contract!Next
<1>18. CASE InitArm
  <2>1. Phase = "closed" /\ Phase' = "resting" /\ UNCHANGED drive
    BY <1>18 DEF InitArm, devices, PhaseTable
  <2>2. TrustedRestart => Contract!NoPower
    BY <1>18 DEF InitArm, NoneEnabled, Contract!NoPower
  <2>3. Contract!Start
    BY <2>1, <2>2 DEF Contract!Start, Contract!Enter
  <2>4. QED
    BY <2>3 DEF Contract!Next
<1>19. CASE OtherStep
  <2>1. UNCHANGED <<pc, csp_active>> /\ UNCHANGED exclusive_sdk_io
    BY <1>19, OtherFrame
    DEF ContractInv, OtherStep, DriveFault, DriveReset, TimerTick, TickRead,
        TickSend, ReaderStep, ReaderCheck, ReaderLock, ReaderRecheck,
        ReaderCycle, ReaderFrame
  <2>2. UNCHANGED Phase
    BY <2>1 DEF Phase
  <2>3. UNCHANGED drive \/ \E j \in Joints : DriveFault(j) \/ DriveReset(j)
    BY <1>19
    DEF OtherStep, TimerTick, TickRead, TickSend, devices, ReaderStep,
        ReaderCheck, ReaderLock, ReaderRecheck, ReaderCycle, ReaderFrame
  <2>4. QED
    BY <1>2, <2>2, <2>3
    DEF DriveFault, DriveReset, Contract!Next, Contract!DriveMoves
<1>20. CASE UNCHANGED vars
  <2>1. UNCHANGED <<drive, pc, csp_active, exclusive_sdk_io>>
    BY <1>20 DEF vars
  <2>2. QED
    BY <1>2, <2>1 DEF Phase
<1>21. QED
  BY <1>3, <1>4, <1>5, <1>6, <1>7, <1>8, <1>9, <1>10, <1>11, <1>12, <1>13,
     <1>14, <1>15, <1>16, <1>17, <1>18, <1>19, <1>20
  DEF Next, EnableStep, EnablingStep, TargetStep, StopStep, LifecycleStep, OtherStep

LEMMA ContractType == Contract!Spec => []Contract!TypeOK
<1> USE DEF Contract!TypeOK
<1>1. Contract!Init => Contract!TypeOK
  BY DEF Contract!Init, Contract!DriveStates, Contract!Phases
<1>2. Contract!TypeOK /\ [Contract!Next]_(Contract!vars) => Contract!TypeOK'
  <2> SUFFICES ASSUME Contract!TypeOK, [Contract!Next]_(Contract!vars)
               PROVE  Contract!TypeOK'
    OBVIOUS
  <2> USE WordsAre DEF Contract!Phases, Contract!Ready
  <2>1. CASE UNCHANGED Contract!vars
    BY <2>1 DEF Contract!vars
  <2>2. CASE Contract!Start \/ Contract!Call \/ Contract!Killed
    BY <2>2 DEF Contract!Start, Contract!Call, Contract!Killed, Contract!Enter
  <2>3. CASE Contract!Work
    BY <2>3 DEF Contract!Work, Contract!Obey
  <2>4. CASE \/ Contract!Enabled \/ Contract!RolledBack \/ Contract!RollbackFails
             \/ Contract!Accepted \/ Contract!Stopped \/ Contract!Disabled
             \/ Contract!DisableFails \/ Contract!Closed
    BY <2>4
    DEF Contract!Enabled, Contract!RolledBack, Contract!RollbackFails,
        Contract!Accepted, Contract!Stopped, Contract!Disabled,
        Contract!DisableFails, Contract!Closed, Contract!Return, Contract!Obey,
        Contract!DriveStates
  <2>5. CASE \E j \in Joints : Contract!DriveMoves(j)
    BY <2>5 DEF Contract!DriveMoves, Contract!DriveStates
  <2>6. QED
    BY <2>1, <2>2, <2>3, <2>4, <2>5 DEF Contract!Next
<1>3. QED
  BY <1>1, <1>2, PTL DEF Contract!Spec

\* A drive that obeys only words other than Enable Operation gets no power.
LEMMA ObeyNoPowerOn ==
  ASSUME drive \in [Joints -> DriveStates], NEW words \in SUBSET Commands,
         "EnableOperation" \notin words, Contract!Obey(words)
  PROVE  NoPowerOn
BY OnlyEnableEnables, SameDrive DEF Contract!Obey, NoPowerOn

\* In a step of the contract drives get power inside enable_csp or not at all.
LEMMA ContractPowers ==
  Contract!TypeOK /\ [Contract!Next]_(Contract!vars)
    => NoPowerOn \/ (Phase = "enabling" /\ Phase' = "enabling")
<1> SUFFICES ASSUME Contract!TypeOK, [Contract!Next]_(Contract!vars)
             PROVE  NoPowerOn \/ (Phase = "enabling" /\ Phase' = "enabling")
  OBVIOUS
<1>1. drive \in [Joints -> DriveStates]
  BY SameDrive DEF Contract!TypeOK
<1>2. CASE UNCHANGED drive
  BY <1>2 DEF NoPowerOn
<1>3. CASE \E p \in {"setting", "stopping", "disabling", "shutting"} :
             Contract!Obey(Contract!Words[p])
  <2>1. PICK p \in {"setting", "stopping", "disabling", "shutting"} :
          Contract!Obey(Contract!Words[p])
    BY <1>3
  <2>2. Contract!Words[p] \in SUBSET Commands
          /\ "EnableOperation" \notin Contract!Words[p]
    BY WordsAre DEF Commands
  <2>3. QED
    BY <1>1, <2>1, <2>2, ObeyNoPowerOn
<1>4. CASE Contract!Start \/ Contract!Call \/ Contract!Killed \/ Contract!Enabled
             \/ Contract!Disabled \/ Contract!DisableFails
  BY <1>2, <1>4
  DEF Contract!Start, Contract!Call, Contract!Killed, Contract!Enter,
      Contract!Enabled, Contract!Disabled, Contract!DisableFails
<1>5. CASE Contract!Accepted \/ Contract!Stopped \/ Contract!Closed
  BY <1>3, <1>5
  DEF Contract!Accepted, Contract!Stopped, Contract!Closed, Contract!Return
<1>6. CASE Contract!Work
  BY <1>3, <1>6, WordsAre DEF Contract!Work
<1>7. CASE Contract!RolledBack
  BY <1>7 DEF Contract!RolledBack, NoPowerOn
<1>8. CASE Contract!RollbackFails
  BY <1>1, <1>8, ObeyNoPowerOn DEF Contract!RollbackFails, Commands
<1>9. CASE \E j \in Joints : Contract!DriveMoves(j)
  BY <1>1, <1>9 DEF Contract!DriveMoves, NoPowerOn
<1>10. CASE UNCHANGED Contract!vars
  BY <1>2, <1>10 DEF Contract!vars
<1>11. QED
  BY <1>4, <1>5, <1>6, <1>7, <1>8, <1>9, <1>10 DEF Contract!Next

\* Both SYNC modes, after any restart: the power stage implements the contract of
\* MiraculousArm on every path of success and failure of every call.
THEOREM ContractKept == Spec => KeepsContract
<1>1. Init => Contract!Init /\ ActiveInv /\ ReturnInv
  BY DEF Init, Contract!Init, Phase, ActiveInv, ReturnInv, Targeting, Enabling
<1>2. QED
  BY <1>1, ContractStep, ActiveInvariance, ReturnInvariance, TypeCorrect,
     LockCorrect, PTL
  DEF Spec, KeepsContract, Contract!Spec, ContractInv

\* An arm that rests between two calls has no drive in Operation Enabled, also
\* when its SYNC timer was left running.
THEOREM RestingArmIsUnpowered == Spec => []Contract!RestIsUnpowered
<1>1. Contract!Init => Contract!RestIsUnpowered
  BY DEF Contract!Init, Contract!RestIsUnpowered
<1>2. Contract!TypeOK /\ Contract!RestIsUnpowered /\ [Contract!Next]_(Contract!vars)
        => Contract!RestIsUnpowered'
  <2> SUFFICES ASSUME Contract!TypeOK, Contract!RestIsUnpowered,
                      [Contract!Next]_(Contract!vars),
                      TrustedRestart, Phase' = "resting"
               PROVE  Contract!NoPower'
    BY DEF Contract!RestIsUnpowered
  <2>1. NoPowerOn
    BY ContractPowers
  <2>2. CASE Contract!NoPower
    BY <2>1, <2>2 DEF NoPowerOn, Contract!NoPower
  <2>3. CASE Contract!RolledBack \/ Contract!Disabled
    BY <2>3 DEF Contract!RolledBack, Contract!Disabled, Contract!NoPower
  <2>4. CASE Phase = "resting" \/ Contract!Start
    BY <2>2, <2>4 DEF Contract!RestIsUnpowered, Contract!Start
  <2>5. QED
    BY <2>3, <2>4, WordsAre
    DEF Contract!Next, Contract!Call, Contract!Enter, Contract!Work, Contract!Enabled,
        Contract!RollbackFails, Contract!Accepted, Contract!Stopped,
        Contract!DisableFails, Contract!Closed, Contract!Killed, Contract!Return,
        Contract!DriveMoves, Contract!vars
<1>3. QED
  BY <1>1, <1>2, ContractKept, ContractType, PTL DEF KeepsContract, Contract!Spec

\* Drives get power inside enable_csp only: no other call, no thread and no
\* restart ever gives it to them.
THEOREM OnlyEnableCspPowers == Spec => Contract!OnlyEnablePowers
<1>1. Contract!TypeOK /\ [Contract!Next]_(Contract!vars)
        => [\A j \in Joints :
              drive[j] # "OperationEnabled" /\ drive'[j] = "OperationEnabled"
                => Phase = "enabling" /\ Phase' = "enabling"]_(Contract!vars)
  BY ContractPowers DEF NoPowerOn
<1>2. QED
  BY <1>1, ContractKept, ContractType, PTL
  DEF KeepsContract, Contract!Spec, Contract!OnlyEnablePowers

=============================================================================
