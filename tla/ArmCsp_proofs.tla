--------------------------- MODULE ArmCsp_proofs ---------------------------
(* Theorems about ArmCsp, for every number of joints and both SYNC modes. *)
EXTENDS ArmCsp, FiniteSetTheorems, TLAPS

LEMMA AfterType ==
  ASSUME NEW s \in DriveStates, NEW c \in Commands
  PROVE  After(c, s) \in DriveStates
BY DEF After, Effective, LeadsTo, DriveStates, Commands

\* Only Enable Operation puts a drive into Operation Enabled.
LEMMA OnlyEnableEnables ==
  ASSUME NEW s \in DriveStates, NEW c \in Commands,
         c # "EnableOperation", s # "OperationEnabled"
  PROVE  After(c, s) # "OperationEnabled"
BY DEF After, Effective, LeadsTo, DriveStates, Commands

LEMMA NewBatchType == NewBatch => batch' \in Batches
BY DEF NewBatch, Unused

LEMMA ExecuteType ==
  ASSUME drive \in [Joints -> DriveStates], NEW c \in Commands,
         NEW R, Execute(c, R)
  PROVE  drive' \in [Joints -> DriveStates]
BY AfterType DEF Execute

LEMMA CommandAllType ==
  ASSUME drive \in [Joints -> DriveStates], NEW c \in Commands,
         NEW S, NEW e, NEW ok, CommandAll(c, S, e, ok)
  PROVE  drive' \in [Joints -> DriveStates]
BY ExecuteType DEF CommandAll

LEMMA AdvanceType ==
  ASSUME axis \in Joints, NEW here, NEW next, Advance(here, next)
  PROVE  axis' \in Joints /\ pc' \in {here, next}
BY NumJointsAssumption DEF Advance, Joints

LEMMA FirstAxis == 1 \in Joints
BY NumJointsAssumption DEF Joints

LEMMA NoAxisTried == 0 \in 0 .. NumJoints
BY NumJointsAssumption

\* Every step of a transition loop of enable_csp keeps the types.
LEMMA TransitionType ==
  ASSUME TypeOK, NEW c \in Commands, NEW e,
         NEW here, NEW next \in Enabling, here \in Enabling,
         Transition(here, c, e, next), tried' \in 0 .. NumJoints
  PROVE  TypeOK'
<1>1. drive' \in [Joints -> DriveStates]
  BY ExecuteType DEF Transition, TypeOK
<1>2. axis' \in Joints /\ pc' \in Holding
  BY AdvanceType, FirstAxis DEF Transition, Abort, TypeOK, Holding, Enabling
<1>3. QED
  BY <1>1, <1>2 DEF Transition, EnableFrame, TypeOK

\* A step of set_targets_rad either fails or leaves the flags alone.
LEMMA SetStepType ==
  ASSUME TypeOK, SetFail \/ UNCHANGED <<csp_active, exclusive_sdk_io, batch>>,
         SetFrame, pc' \in Holding \cup Outside,
         SetFail \/ axis' \in Joints,
         pending' \in [Joints -> Batches \cup {NoBatch}],
         latched' \in [Joints -> Batches \cup {NoBatch}]
  PROVE  TypeOK'
<1>1. /\ csp_active' \in BOOLEAN /\ exclusive_sdk_io' \in BOOLEAN
      /\ axis' \in Joints /\ batch' \in Batches \cup {NoBatch}
  BY FirstAxis DEF SetFail, TypeOK
<1>2. QED
  BY <1>1 DEF SetFrame, TypeOK

LEMMA TypeInvariance == TypeOK /\ [Next]_vars => TypeOK'
<1> SUFFICES ASSUME TypeOK, [Next]_vars PROVE TypeOK'
  OBVIOUS
<1> USE FirstAxis, NoAxisTried
<1>1. CASE EnableEnter
  <2>1. pc' \in Outside
    BY <1>1 DEF EnableEnter, Outside
  <2>2. QED
    BY <1>1, <2>1 DEF EnableEnter, TypeOK, devices
<1>2. CASE EnableLock
  <2>1. pc' \in Holding
    BY <1>2 DEF EnableLock, Holding, Enabling
  <2>2. QED
    BY <1>2, <2>1 DEF EnableLock, TypeOK, devices
<1>3. CASE PauseTimer
  <2>1. pc' \in Holding
    BY <1>3 DEF PauseTimer, Holding, Enabling
  <2>2. sync_timer_running' \in BOOLEAN
    BY <1>3 DEF PauseTimer, TypeOK
  <2>3. QED
    BY <1>3, <2>1, <2>2 DEF PauseTimer, EnableFrame, TypeOK, devices
<1>4. CASE Prepare
  <2>1. tried' \in 0 .. NumJoints
    BY <1>4 DEF Prepare, TypeOK
  <2>2. QED
    BY <1>4, <2>1, TransitionType DEF Prepare, Enabling, Commands
<1>5. CASE SwitchOn
  <2>1. tried' \in 0 .. NumJoints
    BY <1>5 DEF SwitchOn, TypeOK
  <2>2. QED
    BY <1>5, <2>1, TransitionType DEF SwitchOn, Enabling, Commands
<1>6. CASE SeedFeedback
  BY <1>6, NewBatchType
  DEF SeedFeedback, SyncAndWait, SyncEdge, Abort, EnableFrame, TypeOK,
      Holding, Enabling
<1>7. CASE WriteSeed
  BY <1>7, AdvanceType
  DEF WriteSeed, WriteBatch, Abort, EnableFrame, TypeOK, Holding, Enabling
<1>8. CASE LatchSeed
  BY <1>8
  DEF LatchSeed, LatchBatch, SyncAndWait, SyncEdge, Abort, EnableFrame, TypeOK,
      Holding, Enabling
<1>9. CASE EnableAxis
  <2>1. tried' \in 0 .. NumJoints
    BY <1>9, NumJointsAssumption DEF EnableAxis, TypeOK, Joints
  <2>2. QED
    BY <1>9, <2>1, TransitionType DEF EnableAxis, Enabling, Commands
<1>10. CASE WriteHold
  BY <1>10, AdvanceType
  DEF WriteHold, WriteBatch, Abort, EnableFrame, TypeOK, Holding, Enabling
<1>11. CASE LatchHold
  BY <1>11
  DEF LatchHold, LatchBatch, SyncAndWait, SyncEdge, Abort, EnableFrame, TypeOK,
      Holding, Enabling
<1>12. CASE FinalCheck
  BY <1>12
  DEF FinalCheck, Abort, EnableFrame, TypeOK, devices, Holding, Enabling
<1>13. CASE ResumeTimer
  <2>1. pc' \in Holding \cup Outside
    BY <1>13 DEF ResumeTimer, Abort, Holding, Enabling, Outside
  <2>2. CASE pc' = "idle"
    <3>1. /\ UNCHANGED <<devices, axis, was_active, verified, reader, receiver>>
          /\ csp_active' \in BOOLEAN /\ exclusive_sdk_io' \in BOOLEAN
          /\ sync_timer_running' \in BOOLEAN
      BY <1>13, <2>2, ModeAssumption DEF ResumeTimer, Abort
    <3>2. /\ last_targets' = batch /\ batch' = NoBatch
          /\ sdk_mutex' = "free" /\ tried' = 0
      BY <1>13, <2>2 DEF ResumeTimer, Abort
    <3>3. QED
      BY <2>1, <3>1, <3>2 DEF TypeOK, devices
  <2>3. CASE pc' # "idle"
    BY <1>13, <2>1, <2>3 DEF ResumeTimer, Abort, EnableFrame, TypeOK, devices
  <2>4. QED
    BY <2>2, <2>3
<1>14. CASE RollbackStop
  <2>1. drive' \in [Joints -> DriveStates]
    BY <1>14, ExecuteType DEF RollbackStop, TypeOK, Commands
  <2>2. QED
    BY ZenonT(60), <1>14, <2>1 DEF RollbackStop, TypeOK, Holding, Enabling
<1>15. CASE RollbackDisable
  <2>1. drive' \in [Joints -> DriveStates]
    BY <1>15, CommandAllType DEF RollbackDisable, TypeOK, Commands
  <2>2. QED
    BY <1>15, <2>1 DEF RollbackDisable, TypeOK, Outside
<1>16. CASE SetEnter
  <2>1. pc' \in Outside
    BY <1>16 DEF SetEnter, Outside
  <2>2. QED
    BY <1>16, <2>1 DEF SetEnter, TypeOK, devices
<1>17. CASE SetLock
  BY <1>17, NewBatchType DEF SetLock, TypeOK, devices, Holding, Targeting
<1>18. CASE StepCheck
  <2>1. pc' \in Holding
    BY <1>18 DEF StepCheck, SetFail, Holding, Targeting
  <2>2. SetFail \/ axis' \in Joints
    BY <1>18 DEF StepCheck
  <2>3. QED
    BY <1>18, <2>1, <2>2, SetStepType DEF StepCheck, TypeOK
<1>19. CASE WriteTarget
  <2>1. pc' \in Holding
    BY <1>19 DEF WriteTarget, Advance, SetFail, Holding, Targeting
  <2>2. SetFail \/ axis' \in Joints
    BY <1>19, AdvanceType DEF WriteTarget, TypeOK
  <2>3. pending' \in [Joints -> Batches \cup {NoBatch}]
    BY <1>19 DEF WriteTarget, TypeOK
  <2>4. QED
    BY <1>19, <2>1, <2>2, <2>3, SetStepType DEF WriteTarget, TypeOK
<1>20. CASE CycleSync
  <2>1. pc' \in Holding
    BY <1>20 DEF CycleSync, SetFail, Holding, Targeting
  <2>2. SetFail \/ axis' \in Joints
    BY <1>20 DEF CycleSync, TypeOK
  <2>3. latched' \in [Joints -> Batches \cup {NoBatch}]
    BY <1>20 DEF CycleSync, SyncAndWait, SyncEdge, TypeOK
  <2>4. QED
    BY <1>20, <2>1, <2>2, <2>3, SetStepType DEF CycleSync, TypeOK
<1>21. CASE FollowCheck
  <2>1. pc' \in Holding \cup Outside
    BY <1>21 DEF FollowCheck, SetFail, Holding, Outside
  <2>2. CASE SetFail /\ SetFrame
    BY <1>21, <2>1, <2>2, SetStepType DEF FollowCheck, TypeOK
  <2>3. CASE pc' = "idle"
    BY <1>21, <2>1, <2>3 DEF FollowCheck, SetFail, TypeOK
  <2>4. QED
    BY <1>21, <2>2, <2>3 DEF FollowCheck
<1>22. CASE QuickStopEnter
  <2>1. pc' \in Outside
    BY <1>22 DEF QuickStopEnter, Outside
  <2>2. QED
    BY ZenonT(60), <1>22, <2>1 DEF QuickStopEnter, TypeOK, devices
<1>23. CASE QuickStopPublish
  <2>1. pc' \in Outside
    BY <1>23 DEF QuickStopPublish, Outside
  <2>2. QED
    BY <1>23, <2>1 DEF QuickStopPublish, TypeOK, devices
<1>24. CASE QuickStopLock
  <2>1. pc' \in Holding
    BY <1>24 DEF QuickStopLock, Holding
  <2>2. QED
    BY <1>24, <2>1 DEF QuickStopLock, TypeOK, devices
<1>25. CASE StopAll
  <2>1. drive' \in [Joints -> DriveStates]
    BY <1>25, CommandAllType DEF StopAll, TypeOK, Commands
  <2>2. QED
    BY <1>25, <2>1 DEF StopAll, TypeOK, Outside
<1>26. CASE DisableEnter
  <2>1. pc' \in Outside
    BY <1>26 DEF DisableEnter, Outside
  <2>2. QED
    BY ZenonT(60), <1>26, <2>1 DEF DisableEnter, TypeOK, devices
<1>27. CASE DisableLock
  <2>1. pc' \in Holding
    BY <1>27 DEF DisableLock, Holding
  <2>2. QED
    BY <1>27, <2>1 DEF DisableLock, TypeOK, devices
<1>28. CASE DisableAll \/ DisableVoltage
  <2>1. drive' \in [Joints -> DriveStates]
    BY <1>28, CommandAllType
    DEF DisableAll, DisableVoltage, DisableJoints, TypeOK, Commands
  <2>2. QED
    BY <1>28, <2>1 DEF DisableAll, DisableVoltage, DisableJoints, TypeOK, Outside
<1>29. CASE DisableRelease
  <2>1. pc' \in Outside
    BY <1>29 DEF DisableRelease, Outside
  <2>2. QED
    BY ZenonT(60), <1>29, <2>1 DEF DisableRelease, TypeOK, devices
<1>30. CASE ShutdownEnter \/ ShutdownJoin \/ ShutdownLock
  <2>1. pc' \in Holding \cup Outside
    BY <1>30 DEF ShutdownEnter, ShutdownJoin, ShutdownLock, Outside, Holding
  <2>2. QED
    BY ZenonT(60), <1>30, <2>1 DEF ShutdownEnter, ShutdownJoin, ShutdownLock, TypeOK, devices
<1>31. CASE ShutdownDisable
  <2>1. drive' \in [Joints -> DriveStates]
    BY <1>31, CommandAllType DEF ShutdownDisable, TypeOK, Commands
  <2>2. QED
    BY <1>31, <2>1 DEF ShutdownDisable, TypeOK, Outside
<1>32. CASE Crash \/ InitArm
  BY <1>32 DEF Crash, InitArm, TypeOK, devices, Outside
<1>33. CASE ReaderStep
  BY <1>33
  DEF ReaderStep, ReaderCheck, ReaderLock, ReaderRecheck, ReaderCycle,
      ReaderFrame, SyncAndWait, SyncEdge, TypeOK, control
<1>34. CASE TimerTick
  BY <1>34 DEF TimerTick, TickRead, TickSend, SyncEdge, TypeOK, devices, control
<1>35. CASE \E j \in Joints : DriveFault(j) \/ DriveReset(j)
  BY <1>35 DEF DriveFault, DriveReset, TypeOK, control, DriveStates
<1>36. CASE UNCHANGED vars
  BY <1>36 DEF vars, TypeOK
<1>37. QED
  BY <1>1, <1>2, <1>3, <1>4, <1>5, <1>6, <1>7, <1>8, <1>9, <1>10, <1>11, <1>12,
     <1>13, <1>14, <1>15, <1>16, <1>17, <1>18, <1>19, <1>20, <1>21, <1>22,
     <1>23, <1>24, <1>25, <1>26, <1>27, <1>28, <1>29, <1>30, <1>31, <1>32,
     <1>33, <1>34, <1>35, <1>36
  DEF Next, EnableStep, TargetStep, StopStep, LifecycleStep

\* Every variable keeps its type: in particular the loop index stays within
\* config_.joints in every loop, and every drive is in a CiA 402 state.
THEOREM TypeCorrect == Spec => []TypeOK
<1>1. Init => TypeOK
  BY FirstAxis, NoAxisTried DEF Init, TypeOK, DriveStates, Outside
<1>2. QED
  BY <1>1, TypeInvariance, PTL DEF Spec

-----------------------------------------------------------------------------
(* Who owns sdk_mutex_, and when exclusive_sdk_io_ is certainly raised. *)

LockInv ==
  /\ sdk_mutex = "control" <=> pc \in Holding
  /\ sdk_mutex = "reader" <=> reader \in {"recheck", "cycle"}
  /\ reader = "stopped" <=> pc \in {"closed", "shutLock", "shutDisable"}
  /\ pc \in Enabling \cup {"enableLock", "quickStopLock", "stopAll"}
       => exclusive_sdk_io

\* The steps of enable_csp that neither commit nor finish a rollback.
EnablingStep ==
  \/ PauseTimer \/ Prepare \/ SwitchOn \/ SeedFeedback \/ WriteSeed \/ LatchSeed
  \/ EnableAxis \/ WriteHold \/ LatchHold \/ FinalCheck \/ RollbackStop

LEMMA EnablingFrame ==
  EnablingStep => /\ pc \in Enabling /\ pc' \in Enabling
                  /\ UNCHANGED <<exclusive_sdk_io, last_targets, sdk_mutex, reader>>
<1> SUFFICES ASSUME EnablingStep
             PROVE  /\ pc \in Enabling /\ pc' \in Enabling
                    /\ UNCHANGED <<exclusive_sdk_io, last_targets, sdk_mutex, reader>>
  OBVIOUS
<1>1. CASE PauseTimer \/ FinalCheck \/ RollbackStop
  BY <1>1 DEF PauseTimer, FinalCheck, RollbackStop, EnableFrame, Abort, Enabling
<1>2. CASE Prepare \/ SwitchOn \/ EnableAxis
  BY <1>2
  DEF Prepare, SwitchOn, EnableAxis, Transition, Advance, EnableFrame, Abort, Enabling
<1>3. CASE WriteSeed \/ WriteHold
  BY <1>3
  DEF WriteSeed, WriteHold, WriteBatch, Advance, EnableFrame, Abort, Enabling
<1>4. CASE SeedFeedback \/ LatchSeed \/ LatchHold
  BY <1>4
  DEF SeedFeedback, LatchSeed, LatchHold, LatchBatch, EnableFrame, Abort, Enabling
<1>5. QED
  BY <1>1, <1>2, <1>3, <1>4 DEF EnablingStep

LEMMA LockInvariance == TypeOK /\ LockInv /\ [Next]_vars => LockInv'
<1> SUFFICES ASSUME TypeOK, LockInv, [Next]_vars PROVE LockInv'
  OBVIOUS
<1>1. CASE EnableEnter \/ EnableLock
  BY <1>1 DEF EnableEnter, EnableLock, LockInv, Holding, Enabling, Targeting, TypeOK
<1>2. CASE EnablingStep
  BY <1>2, EnablingFrame DEF LockInv, Holding, Enabling
<1>3. CASE ResumeTimer
  BY <1>3 DEF ResumeTimer, EnableFrame, Abort, LockInv, Holding, Enabling, Targeting
<1>4. CASE RollbackDisable
  BY <1>4 DEF RollbackDisable, LockInv, Holding, Enabling, Targeting
<1>5. CASE SetEnter \/ SetLock
  BY <1>5 DEF SetEnter, SetLock, LockInv, Holding, Enabling, Targeting
<1>6. CASE StepCheck \/ CycleSync
  BY <1>6
  DEF StepCheck, CycleSync, SetFail, SetFrame, LockInv, Holding, Enabling, Targeting
<1>7. CASE WriteTarget
  BY <1>7
  DEF WriteTarget, Advance, SetFail, SetFrame, LockInv, Holding, Enabling, Targeting
<1>8. CASE FollowCheck
  BY <1>8 DEF FollowCheck, SetFail, SetFrame, LockInv, Holding, Enabling, Targeting
<1>9. CASE QuickStopEnter \/ QuickStopPublish \/ QuickStopLock \/ StopAll
  BY <1>9
  DEF QuickStopEnter, QuickStopPublish, QuickStopLock, StopAll, LockInv,
      Holding, Enabling, Targeting
<1>10. CASE DisableEnter \/ DisableLock \/ DisableAll \/ DisableVoltage \/ DisableRelease
  BY <1>10
  DEF DisableEnter, DisableLock, DisableAll, DisableVoltage, DisableJoints,
      DisableRelease, LockInv, Holding, Enabling, Targeting
<1>11. CASE ShutdownEnter \/ ShutdownJoin \/ ShutdownLock \/ ShutdownDisable
  BY <1>11
  DEF ShutdownEnter, ShutdownJoin, ShutdownLock, ShutdownDisable, LockInv,
      Holding, Enabling, Targeting
<1>12. CASE Crash \/ InitArm
  BY <1>12 DEF Crash, InitArm, LockInv, Holding, Enabling, Targeting
<1>13. CASE ReaderStep
  BY <1>13
  DEF ReaderStep, ReaderCheck, ReaderLock, ReaderRecheck, ReaderCycle,
      ReaderFrame, control, LockInv, TypeOK
<1>14. CASE TimerTick
  BY <1>14 DEF TimerTick, TickRead, TickSend, control, LockInv
<1>15. CASE \E j \in Joints : DriveFault(j) \/ DriveReset(j)
  BY <1>15 DEF DriveFault, DriveReset, control, LockInv
<1>16. CASE UNCHANGED vars
  BY <1>16 DEF vars, LockInv
<1>17. QED
  BY <1>1, <1>2, <1>3, <1>4, <1>5, <1>6, <1>7, <1>8, <1>9, <1>10, <1>11, <1>12,
     <1>13, <1>14, <1>15, <1>16
  DEF Next, EnableStep, EnablingStep, TargetStep, StopStep, LifecycleStep

\* sdk_mutex_ is held by the thread that is inside a critical section and by no
\* other; enable_csp and quick_stop raised exclusive_sdk_io_ before they took it.
THEOREM LockCorrect == Spec => []LockInv
<1>1. Init => LockInv
  BY DEF Init, LockInv, Holding, Enabling, Targeting
<1>2. QED
  BY <1>1, LockInvariance, TypeCorrect, PTL DEF Spec

-----------------------------------------------------------------------------
(* The background read loop never disturbs a powered arm, provided that init  *)
(* only runs when no drive is in Operation Enabled (TrustedRestart).          *)

\* No drive enters Operation Enabled.
NoPowerOn ==
  \A j \in Joints : drive'[j] = "OperationEnabled" => drive[j] = "OperationEnabled"

LEMMA ExecuteNoPowerOn ==
  ASSUME drive \in [Joints -> DriveStates], NEW c \in Commands,
         c # "EnableOperation", NEW R, Execute(c, R)
  PROVE  NoPowerOn
BY OnlyEnableEnables DEF Execute, NoPowerOn

LEMMA CommandAllNoPowerOn ==
  ASSUME drive \in [Joints -> DriveStates], NEW c \in Commands,
         c # "EnableOperation", NEW S, NEW e, NEW ok, CommandAll(c, S, e, ok)
  PROVE  NoPowerOn
BY ExecuteNoPowerOn DEF CommandAll

\* EnableAxis is the only step that powers a drive.
LEMMA OnlyEnableAxisPowers == TypeOK /\ [Next]_vars => EnableAxis \/ NoPowerOn
<1> SUFFICES ASSUME TypeOK, [Next]_vars, ~EnableAxis PROVE NoPowerOn
  OBVIOUS
<1>1. drive \in [Joints -> DriveStates]
  BY DEF TypeOK
<1>2. CASE UNCHANGED drive
  BY <1>2 DEF NoPowerOn
<1>3. CASE Prepare \/ SwitchOn
  BY <1>1, <1>3, ExecuteNoPowerOn DEF Prepare, SwitchOn, Transition, Commands
<1>4. CASE RollbackStop
  BY <1>1, <1>4, ExecuteNoPowerOn DEF RollbackStop, Commands
<1>5. CASE RollbackDisable
  BY <1>1, <1>5, CommandAllNoPowerOn DEF RollbackDisable, Commands
<1>6. CASE StopAll
  BY <1>1, <1>6, CommandAllNoPowerOn DEF StopAll, Commands
<1>7. CASE DisableAll \/ DisableVoltage
  BY <1>1, <1>7, CommandAllNoPowerOn
  DEF DisableAll, DisableVoltage, DisableJoints, Commands
<1>8. CASE ShutdownDisable
  BY <1>1, <1>8, CommandAllNoPowerOn DEF ShutdownDisable, Commands
<1>9. CASE \E j \in Joints : DriveFault(j) \/ DriveReset(j)
  BY <1>1, <1>9 DEF DriveFault, DriveReset, NoPowerOn
<1>10. CASE EnableEnter \/ EnableLock \/ PauseTimer \/ SeedFeedback \/ WriteSeed
             \/ LatchSeed \/ WriteHold \/ LatchHold \/ FinalCheck \/ ResumeTimer
  BY <1>2, <1>10
  DEF EnableEnter, EnableLock, PauseTimer, SeedFeedback, WriteSeed, LatchSeed,
      WriteHold, LatchHold, FinalCheck, ResumeTimer, WriteBatch, LatchBatch, devices
<1>11. CASE TargetStep
  BY <1>2, <1>11
  DEF TargetStep, SetEnter, SetLock, StepCheck, WriteTarget, CycleSync,
      FollowCheck, SetFrame, devices
<1>12. CASE QuickStopEnter \/ QuickStopPublish \/ QuickStopLock \/ DisableEnter
              \/ DisableLock \/ DisableRelease
  BY <1>2, <1>12
  DEF QuickStopEnter, QuickStopPublish, QuickStopLock, DisableEnter,
      DisableLock, DisableRelease, devices
<1>13. CASE ShutdownEnter \/ ShutdownJoin \/ ShutdownLock \/ Crash \/ InitArm
  BY <1>2, <1>13
  DEF ShutdownEnter, ShutdownJoin, ShutdownLock, Crash, InitArm, devices
<1>14. CASE ReaderStep \/ TimerTick
  BY <1>2, <1>14
  DEF ReaderStep, ReaderCheck, ReaderLock, ReaderRecheck, ReaderCycle,
      ReaderFrame, TimerTick, TickRead, TickSend, devices
<1>15. CASE UNCHANGED vars
  BY <1>2, <1>15 DEF vars
<1>16. QED
  BY <1>3, <1>4, <1>5, <1>6, <1>7, <1>8, <1>9, <1>10, <1>11, <1>12, <1>13,
     <1>14, <1>15
  DEF Next, EnableStep, StopStep, LifecycleStep

-----------------------------------------------------------------------------
(* EnabledIsGuarded is not inductive: read_loop tests exclusive_sdk_io_ before *)
(* its cycle, and disable releases the quarantine after sdk_mutex_.            *)

PowerInv ==
  /\ EnabledIsGuarded
  /\ reader = "cycle" => NoneEnabled \/ sync_timer_running
  /\ pc = "disableRelease" /\ verified => NoneEnabled

\* disable and its quarantined variant verified every joint or report failure.
LEMMA CommandAllVerifies ==
  ASSUME NEW c, NEW e, e # "OperationEnabled", CommandAll(c, Joints, e, TRUE)
  PROVE  NoneEnabled'
BY DEF CommandAll, NoneEnabled

LEMMA PowerInvariance ==
  ASSUME TrustedRestart
  PROVE  TypeOK /\ LockInv /\ PowerInv /\ [Next]_vars => PowerInv'
<1> SUFFICES ASSUME TypeOK, LockInv, PowerInv, [Next]_vars PROVE PowerInv'
  OBVIOUS
<1>1. ~EnableAxis /\ NoneEnabled => NoneEnabled'
  BY OnlyEnableAxisPowers DEF NoneEnabled, NoPowerOn
<1>2. CASE EnableEnter
  BY <1>1, <1>2
  DEF EnableEnter, EnableAxis, Transition, PowerInv, EnabledIsGuarded
<1>3. CASE EnablingStep
  BY <1>3, EnablingFrame
  DEF LockInv, PowerInv, EnabledIsGuarded, Holding, Enabling
<1>4. CASE EnableLock \/ SetEnter \/ SetLock \/ QuickStopEnter \/ QuickStopPublish
             \/ QuickStopLock \/ DisableEnter \/ DisableLock \/ ShutdownEnter
             \/ ShutdownLock
  BY <1>1, <1>4
  DEF EnableLock, SetEnter, SetLock, QuickStopEnter, QuickStopPublish,
      QuickStopLock, DisableEnter, DisableLock, ShutdownEnter, ShutdownLock,
      devices, PowerInv, EnabledIsGuarded, NoneEnabled
<1>5. CASE ResumeTimer
  BY <1>5, ModeAssumption
  DEF ResumeTimer, EnableFrame, Abort, devices, LockInv, PowerInv,
      EnabledIsGuarded, NoneEnabled, Holding, Enabling
<1>6. CASE RollbackDisable
  <2>1. reader # "cycle" /\ pc' = "idle"
    BY <1>6 DEF RollbackDisable, LockInv, Holding, Enabling
  <2>2. ~exclusive_sdk_io' => NoneEnabled'
    BY <1>6, CommandAllVerifies DEF RollbackDisable
  <2>3. QED
    BY <1>6, <2>1, <2>2 DEF RollbackDisable, PowerInv, EnabledIsGuarded
<1>7. CASE StepCheck \/ WriteTarget \/ CycleSync \/ FollowCheck
  BY <1>7
  DEF StepCheck, WriteTarget, CycleSync, FollowCheck, SetFail, SetFrame, Advance,
      PowerInv, EnabledIsGuarded, NoneEnabled
<1>8. CASE StopAll
  BY <1>8
  DEF StopAll, LockInv, PowerInv, EnabledIsGuarded, Holding
<1>9. CASE DisableAll \/ DisableVoltage
  <2>1. verified' => NoneEnabled'
    BY <1>9, CommandAllVerifies DEF DisableAll, DisableVoltage, DisableJoints
  <2>2. NoneEnabled => NoneEnabled'
    BY <1>1, <1>9
    DEF DisableAll, DisableVoltage, DisableJoints, EnableAxis, Transition
  <2>3. QED
    BY <1>9, <2>1, <2>2
    DEF DisableAll, DisableVoltage, DisableJoints, PowerInv, EnabledIsGuarded
<1>10. CASE DisableRelease
  BY <1>10
  DEF DisableRelease, devices, PowerInv, EnabledIsGuarded, NoneEnabled, TypeOK
<1>11. CASE ShutdownJoin \/ ShutdownDisable \/ Crash
  BY <1>11
  DEF ShutdownJoin, ShutdownDisable, Crash, LockInv, PowerInv, EnabledIsGuarded
<1>12. CASE InitArm
  BY <1>12 DEF InitArm, devices, PowerInv, EnabledIsGuarded, NoneEnabled
<1>13. CASE ReaderStep
  <2>1. UNCHANGED <<drive, exclusive_sdk_io, sync_timer_running, pc, verified>>
    BY <1>13
    DEF ReaderStep, ReaderCheck, ReaderLock, ReaderRecheck, ReaderCycle,
        ReaderFrame, control
  <2>2. reader # "stopped" /\ (reader' = "cycle" => ~exclusive_sdk_io)
    BY <1>13 DEF ReaderStep, ReaderCheck, ReaderLock, ReaderRecheck, ReaderCycle
  <2>3. QED
    BY <2>1, <2>2 DEF PowerInv, EnabledIsGuarded, NoneEnabled
<1>14. CASE TimerTick
  BY <1>14
  DEF TimerTick, TickRead, TickSend, devices, control, PowerInv,
      EnabledIsGuarded, NoneEnabled
<1>15. CASE \E j \in Joints : DriveFault(j) \/ DriveReset(j)
  BY <1>15, <1>1
  DEF DriveFault, DriveReset, control, PowerInv, EnabledIsGuarded, NoneEnabled, TypeOK
<1>16. CASE UNCHANGED vars
  BY <1>16 DEF vars, PowerInv, EnabledIsGuarded, NoneEnabled
<1>17. QED
  BY <1>2, <1>3, <1>4, <1>5, <1>6, <1>7, <1>8, <1>9, <1>10, <1>11, <1>12,
     <1>13, <1>14, <1>15, <1>16
  DEF Next, EnableStep, EnablingStep, TargetStep, StopStep, LifecycleStep

LEMMA PowerIsGuarded ==
  ASSUME TrustedRestart
  PROVE  Spec => []PowerInv
<1>1. Init => PowerInv
  BY DEF Init, PowerInv, EnabledIsGuarded
<1>2. TypeOK /\ LockInv /\ PowerInv /\ [Next]_vars => PowerInv'
  BY TrustedRestart, PowerInvariance
<1>3. QED
  BY <1>1, <1>2, TypeCorrect, LockCorrect, PTL DEF Spec

\* A drive with power is never left to the background feedback path.
THEOREM PoweredArmIsGuarded == TrustedRestart => (Spec => []EnabledIsGuarded)
<1> SUFFICES ASSUME TrustedRestart
             PROVE  Spec => []EnabledIsGuarded
  OBVIOUS
<1>1. PowerInv => EnabledIsGuarded
  BY DEF PowerInv
<1>2. QED
  BY <1>1, PowerIsGuarded, PTL

\* read_loop never emits its feedback SYNC over a powered drive, although it
\* tests exclusive_sdk_io_ some steps before.
THEOREM ReaderSyncIsSafe == TrustedRestart => (Spec => []BackgroundSyncSafe)
<1> SUFFICES ASSUME TrustedRestart
             PROVE  Spec => []BackgroundSyncSafe
  OBVIOUS
<1>1. PowerInv => BackgroundSyncSafe
  BY DEF PowerInv, BackgroundSyncSafe, BackgroundSync
<1>2. QED
  BY <1>1, PowerIsGuarded, PTL

-----------------------------------------------------------------------------
(* Identities of batches are reused, and there is always one to use.          *)

LEMMA RangeIsSmall ==
  ASSUME NEW T, NEW f \in [Joints -> T]
  PROVE  /\ IsFiniteSet({f[j] : j \in Joints})
         /\ Cardinality({f[j] : j \in Joints}) \in 0 .. NumJoints
<1>1. IsFiniteSet(Joints) /\ Cardinality(Joints) = NumJoints
  BY NumJointsAssumption, FS_Interval DEF Joints
<1>2. f \in Surjection(Joints, {f[j] : j \in Joints})
  BY DEF Surjection
<1>3. /\ IsFiniteSet({f[j] : j \in Joints})
      /\ Cardinality({f[j] : j \in Joints}) <= NumJoints
  BY <1>1, <1>2, FS_Surjection
<1>4. QED
  BY <1>3, NumJointsAssumption, FS_CardinalityType

LEMMA UnionIsSmall ==
  ASSUME NEW S, NEW T, IsFiniteSet(S), IsFiniteSet(T),
         NEW m \in Nat, NEW n \in Nat, Cardinality(S) <= m, Cardinality(T) <= n
  PROVE  IsFiniteSet(S \cup T) /\ Cardinality(S \cup T) <= m + n
<1>1. /\ IsFiniteSet(S \cup T)
      /\ Cardinality(S \cup T)
           = Cardinality(S) + Cardinality(T) - Cardinality(S \cap T)
  BY FS_Union
<1>2. Cardinality(S) \in Nat /\ Cardinality(T) \in Nat /\ Cardinality(S \cap T) \in Nat
  BY FS_Intersection, FS_CardinalityType
<1>3. QED
  BY <1>1, <1>2

LEMMA SomeUnused == TypeOK => Unused # {}
<1> SUFFICES ASSUME TypeOK, Unused = {} PROVE FALSE
  OBVIOUS
<1> DEFINE P == {pending[j] : j \in Joints}
           L == {latched[j] : j \in Joints}
<1>1. /\ IsFiniteSet(P) /\ Cardinality(P) <= NumJoints
      /\ IsFiniteSet(L) /\ Cardinality(L) <= NumJoints
  <2>1. pending \in [Joints -> Batches \cup {NoBatch}]
          /\ latched \in [Joints -> Batches \cup {NoBatch}]
    BY DEF TypeOK
  <2>2. IsFiniteSet(P) /\ Cardinality(P) \in 0 .. NumJoints
    BY <2>1, RangeIsSmall
  <2>3. IsFiniteSet(L) /\ Cardinality(L) \in 0 .. NumJoints
    BY <2>1, RangeIsSmall
  <2>4. QED
    BY <2>2, <2>3, NumJointsAssumption
<1>2. IsFiniteSet({last_targets}) /\ Cardinality({last_targets}) <= 1
  <2>1. IsFiniteSet({last_targets}) /\ Cardinality({last_targets}) = 1
    BY FS_Singleton
  <2>2. QED
    BY <2>1
<1>3. Batches \subseteq (P \cup L) \cup {last_targets}
  BY DEF Unused
<1> HIDE DEF P, L
<1>4. IsFiniteSet(P \cup L) /\ Cardinality(P \cup L) <= NumJoints + NumJoints
  BY <1>1, UnionIsSmall, NumJointsAssumption
<1>5. /\ IsFiniteSet((P \cup L) \cup {last_targets})
      /\ Cardinality((P \cup L) \cup {last_targets}) <= (NumJoints + NumJoints) + 1
  <2>1. NumJoints + NumJoints \in Nat /\ 1 \in Nat
    BY NumJointsAssumption
  <2>2. QED
    BY <1>2, <1>4, <2>1, UnionIsSmall
<1>6. Cardinality(Batches) <= Cardinality((P \cup L) \cup {last_targets})
  BY <1>3, <1>5, FS_Subset
<1>7. Cardinality(Batches) \in Nat /\ Cardinality((P \cup L) \cup {last_targets}) \in Nat
  BY <1>5, BatchesAssumption, FS_CardinalityType
<1>8. QED
  BY <1>5, <1>6, <1>7, BatchesAssumption, NumJointsAssumption

\* A new seed and a new set of targets always find an identity: the guard of
\* NewBatch, which the code does not have, never holds a call up.
THEOREM BatchIsLeft == Spec => [](Unused # {})
BY SomeUnused, TypeCorrect, PTL

=============================================================================
