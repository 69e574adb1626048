----------------------- MODULE MiraculousSystem_proofs -----------------------
(* Theorems about MiraculousSystem, for every FollowingErrorCycles.          *)
EXTENDS MiraculousSystem, TLAPS

\* The strengthening.  A Quick Stop is remembered, by the latch or by the end of
\* the component; who has power or is about to get it has an arm and no stop
\* behind it.
StopIsKept ==
  /\ active => has_arm /\ ~stop_issued /\ lifecycle = "active"
  /\ stop_issued => fault_latched
  /\ stops > 0 => stop_issued \/ lifecycle = "finalized"
  /\ call \in {"enable", "confirm"} =>
       lifecycle = "inactive" /\ has_arm /\ ~stop_issued
  /\ lifecycle = "finalized" => call = "none" /\ ~has_arm

Inv == TypeOK /\ StopIsKept /\ PowerHasOwner

LEMMA StreakStart == 0 \in 0 .. FollowingErrorCycles - 1
BY CyclesAssumption

\* The calls of fail_safe_stop: the latch, and power that is accounted for.
LEMMA LatchKeeps ==
  ASSUME Inv, Latch
  PROVE  /\ active' = FALSE /\ fault_latched' = TRUE /\ stop_issued' = TRUE
         /\ stops' \in 0 .. 1
<1>1. ~stop_issued /\ has_arm => stops = 0
  BY DEF Inv, StopIsKept, TypeOK
<1>2. QED
  BY <1>1 DEF Latch, Inv, TypeOK

LEMMA StopDrivesKeeps ==
  ASSUME NEW p \in BOOLEAN, NEW m \in BOOLEAN, StopDrives(p, m)
  PROVE  /\ powered' \in BOOLEAN /\ unreached' \in BOOLEAN /\ moving' \in BOOLEAN
         /\ powered' => unreached' /\ p
<1>1. powered' = FALSE \/ powered' = p
  BY DEF StopDrives
<1>a. powered' \in BOOLEAN /\ (powered' => p)
  <2>1. CASE powered' = FALSE
    BY <2>1
  <2>2. CASE powered' = p
    BY <2>2
  <2>3. QED
    BY <1>1, <2>1, <2>2
<1>2. unreached' = powered'
  BY DEF StopDrives
<1>3. moving' \in BOOLEAN
  BY ZenonT(20) DEF StopDrives
<1>4. QED
  BY <1>a, <1>2, <1>3

LEMMA FailSafeStopKeeps ==
  ASSUME Inv, NEW p \in BOOLEAN, NEW m \in BOOLEAN, FailSafeStop(p, m),
         lifecycle # "finalized",
         p # powered => call = "enable"
  PROVE  Inv'
<1>1. /\ active' = FALSE /\ fault_latched' = TRUE /\ stop_issued' = TRUE
      /\ stops' \in 0 .. 1
  BY LatchKeeps DEF FailSafeStop
<1>2. /\ powered' \in BOOLEAN /\ unreached' \in BOOLEAN /\ moving' \in BOOLEAN
      /\ powered' => unreached'
  <2>1. CASE stop_issued \/ ~has_arm
    <3>1. p = powered
      BY <2>1 DEF Inv, StopIsKept
    <3>2. powered' = powered /\ unreached' = unreached /\ moving' = m
      BY <2>1, <3>1 DEF FailSafeStop
    <3>3. powered => unreached
      BY <2>1 DEF Inv, StopIsKept, PowerHasOwner
    <3>4. QED
      BY <3>2, <3>3 DEF Inv, TypeOK
  <2>2. CASE ~(stop_issued \/ ~has_arm)
    BY <2>2, StopDrivesKeeps DEF FailSafeStop, Inv, TypeOK
  <2>3. QED
    BY <2>1, <2>2
<1>3. QED
  BY <1>1, <1>2 DEF FailSafeStop, faults, inputs, Inv, TypeOK, StopIsKept, PowerHasOwner

\* shutdown_arm, in every callback that ends with it and clears active_.
LEMMA ShutdownArmKeeps ==
  ASSUME Inv, ShutdownArm, call # "confirm", ~active \/ has_arm
  PROVE  /\ has_arm' = FALSE /\ emcy_latched' = FALSE /\ fault_detected' = FALSE
         /\ snapshot' = "bad" /\ command' = "held"
         /\ powered' \in BOOLEAN /\ unreached' \in BOOLEAN /\ moving' \in BOOLEAN
         /\ powered' => unreached'
<1>1. CASE has_arm
  BY <1>1, StopDrivesKeeps DEF ShutdownArm, Inv, TypeOK
<1>2. CASE ~has_arm
  BY <1>2 DEF ShutdownArm, drives, Inv, TypeOK, StopIsKept, PowerHasOwner
<1>3. QED
  BY <1>1, <1>2

\* The strengthened invariant holds through every callback, every cycle and every
\* fault of the plant.
THEOREM Invariance == Inv /\ [Next]_vars => Inv'
<1> SUFFICES ASSUME Inv, [Next]_vars PROVE Inv'
  OBVIOUS
<1> USE StreakStart DEF latch, drives, inputs, faults
<1>1. CASE ConfigureLatched
  BY <1>1 DEF ConfigureLatched, Idle, Reject, Inv, TypeOK, StopIsKept, PowerHasOwner
<1>2. CASE ConfigureFails
  <2>1. /\ powered' \in BOOLEAN /\ unreached' \in BOOLEAN /\ moving' \in BOOLEAN
        /\ powered' => unreached'
    BY <1>2, StopDrivesKeeps DEF ConfigureFails, Inv, TypeOK
  <2>2. QED
    BY <1>2, <2>1
    DEF ConfigureFails, StopRemoteWatchdog, Idle, Reject, Inv, TypeOK,
        StopIsKept, PowerHasOwner
<1>3. CASE Configure
  BY <1>3 DEF Configure, Idle, SafeSnapshots, Inv, TypeOK, StopIsKept, PowerHasOwner
<1>4. CASE Activate
  BY <1>4 DEF Activate, ActivateAllowed, Idle, Inv, TypeOK, StopIsKept, PowerHasOwner
<1>5. CASE EnableCsp
  BY <1>5 DEF EnableCsp, Inv, TypeOK, StopIsKept, PowerHasOwner
<1>6. CASE EnableCspFails
  <2>1. PICK rolled_back \in BOOLEAN : FailSafeStop(~rolled_back, moving)
    BY <1>6 DEF EnableCspFails
  <2>2. lifecycle # "finalized" /\ call = "enable" /\ moving \in BOOLEAN
    BY <1>6 DEF EnableCspFails, Inv, TypeOK, StopIsKept
  <2>3. QED
    BY <2>1, <2>2, FailSafeStopKeeps
<1>7. CASE Confirm
  BY <1>7 DEF Confirm, SafeSnapshots, Inv, TypeOK, StopIsKept, PowerHasOwner
<1>8. CASE ConfirmFails
  BY <1>8, FailSafeStopKeeps DEF ConfirmFails, Inv, TypeOK, StopIsKept
<1>9. CASE Deactivate
  <2>1. TypeOK'
    <3>1. powered' \in BOOLEAN /\ unreached' \in BOOLEAN /\ moving' \in BOOLEAN
      BY <1>9 DEF Deactivate, drives, Inv, TypeOK
    <3>2. following_error_streak' \in 0 .. FollowingErrorCycles - 1
      BY <1>9, StreakStart DEF Deactivate
    <3>3. QED
      BY <1>9, <3>1, <3>2 DEF Deactivate, faults, inputs, Idle, Inv, TypeOK
  <2>2. StopIsKept'
    BY <1>9 DEF Deactivate, Idle, Inv, TypeOK, StopIsKept
  <2>3. PowerHasOwner'
    BY <1>9 DEF Deactivate, Idle, Inv, StopIsKept, PowerHasOwner
  <2>4. QED
    BY <2>1, <2>2, <2>3 DEF Inv
<1>10. CASE DeactivateFails
  <2>1. /\ active' = FALSE /\ fault_latched' = TRUE /\ stop_issued' = TRUE
        /\ stops' \in 0 .. 1
    BY <1>10, LatchKeeps DEF DeactivateFails
  <2>2. /\ powered' \in BOOLEAN /\ unreached' \in BOOLEAN /\ moving' \in BOOLEAN
        /\ powered' => unreached'
    BY <1>10, StopDrivesKeeps DEF DeactivateFails, Inv, TypeOK
  <2>3. QED
    BY <1>10, <2>1, <2>2
    DEF DeactivateFails, Idle, Inv, TypeOK, StopIsKept, PowerHasOwner
<1>11. CASE Cleanup
  <2>1. ShutdownArm /\ call = "none" /\ (~active \/ has_arm)
    BY <1>11 DEF Cleanup, Idle, Inv, StopIsKept
  <2>2. QED
    BY <1>11, <2>1, ShutdownArmKeeps
    DEF Cleanup, StopRemoteWatchdog, Idle, SafeSnapshots, Inv, TypeOK, StopIsKept, PowerHasOwner
<1>12. CASE Shutdown
  <2>1. ShutdownArm /\ call = "none" /\ (~active \/ has_arm)
    BY <1>12 DEF Shutdown, Idle, Inv, StopIsKept
  <2>2. stops' \in 0 .. 1
    BY <1>12 DEF Shutdown, Inv, TypeOK, StopIsKept
  <2>3. QED
    BY <1>12, <2>1, <2>2, ShutdownArmKeeps
    DEF Shutdown, StopRemoteWatchdog, Idle, SafeSnapshots, Inv, TypeOK, StopIsKept, PowerHasOwner
<1>13. CASE OnError
  <2>1. ShutdownArm /\ call = "error" /\ (~active \/ has_arm)
    BY <1>13 DEF OnError, Inv, StopIsKept
  <2>2. /\ active' = FALSE
        /\ fault_latched' \in BOOLEAN /\ stop_issued' \in BOOLEAN
        /\ stop_issued' => fault_latched' /\ stops' \in 0 .. 1
        /\ stops' \in 0 .. 1 /\ (stops' > 0 => stop_issued')
    <3>1. CASE active \/ fault_latched
      BY <1>13, <3>1, LatchKeeps DEF OnError
    <3>2. CASE ~(active \/ fault_latched)
      <4>1. UNCHANGED latch
        BY <1>13, <3>2 DEF OnError
      <4>2. lifecycle # "finalized"
        BY <2>1 DEF Inv, StopIsKept
      <4>3. QED
        BY <3>2, <4>1, <4>2 DEF Inv, TypeOK, StopIsKept
    <3>3. QED
      BY <3>1, <3>2
  <2>3. QED
    BY <1>13, <2>1, <2>2, ShutdownArmKeeps
    DEF OnError, StopRemoteWatchdog, SafeSnapshots, Inv, TypeOK, StopIsKept, PowerHasOwner
<1>14. CASE Restart
  <2>1. ShutdownArm /\ call = "none" /\ (~active \/ has_arm)
    BY <1>14 DEF Restart, Idle, Inv, StopIsKept
  <2>2. /\ active' \in BOOLEAN /\ fault_latched' \in BOOLEAN
        /\ stop_issued' \in BOOLEAN /\ remote_fresh' \in BOOLEAN
    BY <1>14 DEF Restart, StopRemoteWatchdog
  <2>3. TypeOK'
    <3>1. stops' \in 0 .. 1
      BY <1>14 DEF Restart
    <3>2. QED
      BY <1>14, <2>1, <2>2, <3>1, ShutdownArmKeeps DEF Restart, Inv, TypeOK
  <2>4. StopIsKept'
    <3>1. /\ active' = FALSE /\ stop_issued' = FALSE /\ stops' = 0
          /\ lifecycle' = "unconfigured" /\ call' = "none"
      BY <1>14, <2>1 DEF Restart
    <3>2. QED
      BY <3>1 DEF StopIsKept
  <2>5. PowerHasOwner'
    BY <2>1, ShutdownArmKeeps DEF PowerHasOwner
  <2>6. QED
    BY <2>3, <2>4, <2>5 DEF Inv
<1>15. ASSUME NEW fast \in BOOLEAN, ReadFails(fast) PROVE Inv'
  BY <1>15, FailSafeStopKeeps DEF ReadFails, InCycle, Inv, TypeOK
<1>16. ASSUME NEW fast \in BOOLEAN, Read(fast) PROVE Inv'
  <2>1. following_error_streak' \in 0 .. FollowingErrorCycles - 1
    <3>1. CASE active
      <4>1. following_error_streak' = NextStreak
        BY <1>16, <3>1 DEF Read
      <4>2. CASE snapshot = "large"
        BY <1>16, <3>1, <4>1, <4>2, CyclesAssumption
        DEF Read, FollowingErrorTrips, NextStreak, Inv, TypeOK
      <4>3. CASE snapshot # "large"
        <5>1. snapshot \in {"seen", "small"}
          BY <1>16, <4>3 DEF Read, FeedbackRejected, SafeSnapshots, Inv, TypeOK
        <5>2. QED
          BY <4>1, <5>1 DEF NextStreak, Inv, TypeOK
      <4>4. QED
        BY <4>2, <4>3
    <3>2. CASE ~active
      BY <1>16, <3>2 DEF Read, Inv, TypeOK
    <3>3. QED
      BY <3>1, <3>2
  <2>2. snapshot' \in SafeSnapshots \cup {"bad"}
    BY <1>16 DEF Read, SafeSnapshots, Inv, TypeOK
  <2>3. QED
    BY <1>16, <2>1, <2>2 DEF Read, Inv, TypeOK, StopIsKept, PowerHasOwner
<1>17. CASE WriteFails
  BY <1>17, FailSafeStopKeeps DEF WriteFails, InCycle, Inv, TypeOK
<1>18. CASE Write
  BY <1>18 DEF Write, InCycle, Idle, Inv, TypeOK, StopIsKept, PowerHasOwner
<1>19. CASE Send
  BY <1>19 DEF Send, Inv, TypeOK, StopIsKept, PowerHasOwner
<1>20. CASE SendFails
  <2>1. PICK sent \in BOOLEAN :
          FailSafeStop(powered, moving \/ (sent /\ command = "next"))
    BY <1>20 DEF SendFails
  <2>2. (moving \/ (sent /\ command = "next")) \in BOOLEAN
    OBVIOUS
  <2>3. lifecycle # "finalized" /\ powered \in BOOLEAN
    BY <1>20 DEF SendFails, Inv, TypeOK, StopIsKept
  <2>4. QED
    BY <2>1, <2>2, <2>3, FailSafeStopKeeps
<1>21. CASE DriveFault
  <2>1. TypeOK'
    <3>1. /\ emcy_latched' \in BOOLEAN /\ fault_detected' \in BOOLEAN
          /\ powered' \in BOOLEAN
      BY <1>21 DEF DriveFault, Inv, TypeOK
    <3>2. unreached' \in BOOLEAN /\ moving' \in BOOLEAN
      BY <1>21, ZenonT(20) DEF DriveFault
    <3>3. QED
      BY <1>21, <3>1, <3>2 DEF DriveFault, Inv, TypeOK
  <2>2. StopIsKept'
    BY <1>21 DEF DriveFault, Inv, TypeOK, StopIsKept
  <2>3. PowerHasOwner'
    BY <1>21 DEF DriveFault, Inv, StopIsKept, PowerHasOwner
  <2>4. QED
    BY <2>1, <2>2, <2>3 DEF Inv
<1>22. CASE NewFeedback
  BY <1>22 DEF NewFeedback, InputFrame, SafeSnapshots, Inv, TypeOK, StopIsKept, PowerHasOwner
<1>23. CASE Settle
  <2>1. TypeOK'
    <3>1. moving' \in BOOLEAN
      BY <1>23 DEF Settle
    <3>2. QED
      BY <1>23, <3>1 DEF Settle, InputFrame, Inv, TypeOK
  <2>2. StopIsKept'
    BY <1>23 DEF Settle, InputFrame, Inv, TypeOK, StopIsKept
  <2>3. PowerHasOwner'
    BY <1>23 DEF Settle, InputFrame, Inv, StopIsKept, PowerHasOwner
  <2>4. QED
    BY <2>1, <2>2, <2>3 DEF Inv
<1>24. CASE ReceiveHeartbeat \/ HardTimeout
  <2>1. TypeOK'
    <3>1. remote_fresh' \in BOOLEAN
      BY <1>24 DEF ReceiveHeartbeat, HardTimeout
    <3>2. HeartbeatFrame
      BY <1>24 DEF ReceiveHeartbeat, HardTimeout
    <3>3. QED
      BY <3>1, <3>2 DEF HeartbeatFrame, Inv, TypeOK
  <2>2. StopIsKept'
    BY <1>24 DEF ReceiveHeartbeat, HardTimeout, HeartbeatFrame, Inv, TypeOK, StopIsKept
  <2>3. PowerHasOwner'
    BY <1>24 DEF ReceiveHeartbeat, HardTimeout, HeartbeatFrame, Inv, StopIsKept, PowerHasOwner
  <2>4. QED
    BY <2>1, <2>2, <2>3 DEF Inv
<1>25. CASE Update
  BY <1>25 DEF Update, InputFrame, Inv, TypeOK, StopIsKept, PowerHasOwner
<1>26. CASE UNCHANGED vars
  BY <1>26 DEF vars, Inv, TypeOK, StopIsKept, PowerHasOwner
<1>27. QED
  BY <1>1, <1>2, <1>3, <1>4, <1>5, <1>6, <1>7, <1>8, <1>9, <1>10, <1>11, <1>12,
     <1>13, <1>14, <1>15, <1>16, <1>17, <1>18, <1>19, <1>20, <1>21, <1>22, <1>23,
     <1>24, <1>25, <1>26
  DEF Next, LifecycleStep, CycleStep, PlantStep

LEMMA InitInv == Init => Inv
<1> SUFFICES ASSUME Init PROVE Inv
  OBVIOUS
<1>1. following_error_streak \in 0 .. FollowingErrorCycles - 1 /\ stops \in 0 .. 1
  BY StreakStart DEF Init
<1>a. TypeOK
  BY <1>1 DEF Init, TypeOK
<1>2. StopIsKept /\ PowerHasOwner
  BY DEF Init, StopIsKept, PowerHasOwner
<1>3. QED
  BY <1>a, <1>2 DEF Inv

LEMMA AlwaysInv == Spec => []Inv
BY InitInv, Invariance, PTL DEF Spec

\* The types of the hardware interface, the bound on the streak of following
\* errors and "at most one Quick Stop per process" among them.
THEOREM TypeCorrect == Spec => []TypeOK
<1>1. Inv => TypeOK
  BY DEF Inv
<1>2. QED
  BY <1>1, AlwaysInv, PTL

\* No path through the callbacks of miraculous_system.cpp forgets powered drives.
THEOREM PowerIsOwned == Spec => []PowerHasOwner
<1>1. Inv => PowerHasOwner
  BY DEF Inv
<1>2. QED
  BY <1>1, AlwaysInv, PTL

\* The action property that no step of the interface gives power after a stop.
LEMMA StepNoPowerAfterStop ==
  Inv /\ [Next]_vars => [stops > 0 /\ ~powered => ~powered']_vars
<1> SUFFICES ASSUME Inv, [Next]_vars, stops > 0, ~powered PROVE ~powered'
  BY DEF vars
<1>1. call \notin {"enable", "confirm"}
  BY DEF Inv, TypeOK, StopIsKept
<1>3. ASSUME NEW m, FailSafeStop(powered, m) PROVE ~powered'
  BY <1>3 DEF FailSafeStop, StopDrives, Inv, TypeOK
<1>4. ASSUME ShutdownArm PROVE ~powered'
  BY <1>4 DEF ShutdownArm, drives, StopDrives, Inv, TypeOK
<1>5. QED
  BY <1>1, <1>3, <1>4
  DEF Next, LifecycleStep, CycleStep, PlantStep, vars, latch, drives, inputs,
      ConfigureLatched, ConfigureFails, Configure, Activate, EnableCsp,
      EnableCspFails, Confirm, ConfirmFails, Deactivate, DeactivateFails,
      Cleanup, Shutdown, OnError, Restart, ReadFails, Read, WriteFails, Write,
      Send, SendFails, DriveFault, NewFeedback, Settle, ReceiveHeartbeat,
      HardTimeout, Update, InputFrame, HeartbeatFrame, StopDrives

\* A Quick Stop is the end of power in this process.
THEOREM StopIsFinal == Spec => NoPowerAfterStop
BY AlwaysInv, StepNoPowerAfterStop, PTL DEF Spec, NoPowerAfterStop

-----------------------------------------------------------------------------
(* What a latched fault excludes. *)

\* The component does not drive and is in no call that enables or sends.
FaultHoldsStill == fault_latched => ~active /\ call \in {"none", "error"}

LEMMA StepFaultHoldsStill == Inv /\ FaultHoldsStill /\ [Next]_vars => FaultHoldsStill'
<1> SUFFICES ASSUME Inv, FaultHoldsStill, [Next]_vars, fault_latched'
             PROVE  ~active' /\ call' \in {"none", "error"}
  BY DEF FaultHoldsStill
<1>1. ASSUME NEW p, NEW m, FailSafeStop(p, m) PROVE ~active' /\ call' = "error"
  BY <1>1 DEF FailSafeStop, Latch
<1>2. ASSUME UNCHANGED <<active, call, fault_latched>>
      PROVE  ~active' /\ call' \in {"none", "error"}
  BY <1>2 DEF FaultHoldsStill
<1>3. CASE LifecycleStep
  <2>1. CASE EnableCspFails
    BY <1>1, <2>1 DEF EnableCspFails
  <2>2. CASE ConfirmFails
    BY <1>1, <2>2 DEF ConfirmFails
  <2>3. CASE ConfigureLatched \/ ConfigureFails \/ Configure
    <3>1. fault_latched' = fault_latched /\ (active' = FALSE \/ active' = active)
      BY <2>3 DEF ConfigureLatched, ConfigureFails, Configure, latch
    <3>2. call' \in {"none", "error"}
      BY <2>3 DEF ConfigureLatched, ConfigureFails, Configure, Reject, Idle
    <3>3. active' => active
      BY <3>1
    <3>4. QED
      BY <3>1, <3>2, <3>3 DEF FaultHoldsStill
  <2>4. CASE Activate
    <3>1. UNCHANGED <<active, fault_latched>>
      BY <2>4 DEF Activate, latch
    <3>2. fault_latched => call' = "error"
      BY <2>4 DEF Activate, ActivateAllowed
    <3>3. QED
      BY <3>1, <3>2 DEF FaultHoldsStill
  <2>5. CASE EnableCsp \/ Confirm
    <3>1. fault_latched' = fault_latched /\ call \in {"enable", "confirm"}
      BY <2>5 DEF EnableCsp, Confirm, latch
    <3>2. QED
      BY <3>1 DEF FaultHoldsStill
  <2>6. CASE Deactivate \/ DeactivateFails \/ Cleanup \/ Shutdown
    BY <2>6 DEF Deactivate, DeactivateFails, Latch, Cleanup, Shutdown, Idle, FaultHoldsStill
  <2>7. QED
    BY <1>3, <2>1, <2>2, <2>3, <2>4, <2>5, <2>6 DEF LifecycleStep
<1>4. CASE OnError
  BY <1>4 DEF OnError, Latch, latch, FaultHoldsStill
<1>5. CASE Restart
  BY <1>5 DEF Restart
<1>6. CASE (\E fast \in BOOLEAN : ReadFails(fast)) \/ WriteFails \/ SendFails
  BY <1>1, <1>6 DEF ReadFails, WriteFails, SendFails
<1>7. CASE \E fast \in BOOLEAN : Read(fast)
  BY <1>2, <1>7 DEF Read, latch
<1>8. CASE Write
  BY <1>8 DEF Write, latch, FaultHoldsStill
<1>9. CASE Send
  BY <1>9 DEF Send, FaultHoldsStill
<1>10. CASE PlantStep \/ ReceiveHeartbeat \/ HardTimeout \/ Update
  BY <1>2, <1>10
  DEF PlantStep, DriveFault, NewFeedback, Settle, ReceiveHeartbeat, HardTimeout, Update,
      InputFrame, HeartbeatFrame, latch
<1>11. CASE UNCHANGED vars
  BY <1>2, <1>11 DEF vars
<1>12. QED
  BY <1>3, <1>4, <1>5, <1>6, <1>7, <1>8, <1>9, <1>10, <1>11 DEF Next, CycleStep

\* A latched fault of fail_safe_stop outlasts every lifecycle callback: until the
\* process is replaced nothing is enabled, activated or sent.
THEOREM FaultIsFinal == Spec => []FaultHoldsStill
<1>1. Init => FaultHoldsStill
  BY DEF Init, FaultHoldsStill
<1>2. QED
  BY <1>1, AlwaysInv, StepFaultHoldsStill, PTL DEF Spec

==============================================================================
