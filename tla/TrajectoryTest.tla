--------------------------- MODULE TrajectoryTest ---------------------------
(***************************************************************************)
(* The trajectory tracking test node (trajectory_tracking_test_node.cpp):  *)
(* services and the control timer run on the one executor thread, so that  *)
(* ~/start blocks it while the arm settles; an EMCY arrives on the SDK     *)
(* receive thread at any moment.  running_ is pc \in Running.              *)
(***************************************************************************)
EXTENDS ArmApi

VARIABLES
  fault_flag, \* fault_flag_
  emcy_seen   \* an EMCY reached the node since the arm was enabled (history)

testVars == <<fault_flag, emcy_seen>>

Running == {"running", "written"}
TestAt == Running \cup {"idle", "settle", "stopping"}

TestTypeOK == fault_flag \in BOOLEAN /\ emcy_seen \in BOOLEAN

TestInit == fault_flag = FALSE /\ emcy_seen = FALSE

TestEnds == fault_flag' = FALSE /\ emcy_seen' = FALSE

-----------------------------------------------------------------------------

TestLaunch ==
  /\ node = "none"
  /\ \E ok \in BOOLEAN :
       /\ InitCsp(ok)
       /\ IF ok THEN node' = "test" /\ pc' = "idle" ELSE UNCHANGED <<node, pc>>
  /\ UNCHANGED testVars

\* start_test up to the settling time.
StartTest ==
  /\ node = "test" /\ pc = "idle"
  /\ \E ok \in BOOLEAN : EnableCsp(ok) /\ pc' = IF ok THEN "settle" ELSE "idle"
  /\ emcy_seen' = FALSE
  /\ UNCHANGED <<node, fault_flag>>

\* The settled position leaves room for the waveform and the file opens.
Settled ==
  /\ node = "test" /\ pc = "settle" /\ pc' = "running"
  /\ fault_flag' = FALSE
  /\ UNCHANGED <<armVars, node, emcy_seen>>

\* Mutant of SettleRefused: one of the refusals forgets the power stage.
SettleRefusedEnabled ==
  /\ node = "test" /\ pc = "settle" /\ pc' = "idle"
  /\ UNCHANGED <<armVars, node, testVars>>

\* It does not: the arm is disabled and the start refused.
SettleRefused ==
  /\ node = "test" /\ pc = "settle" /\ pc' = "idle"
  /\ \E ok \in BOOLEAN : Disable(ok)
  /\ UNCHANGED <<node, testVars>>

\* ~/stop, the end of the configured duration, or on_timer without feedback.
StopTest ==
  /\ node = "test" /\ pc = "running" /\ pc' = "stopping"
  /\ UNCHANGED <<armVars, node, testVars>>

\* on_timer: the next target of the waveform; a failure, or no feedback after it,
\* stops the test.
WaveformStep ==
  /\ node = "test" /\ pc = "running"
  /\ \/ pc' \in {"written", "stopping"} /\ SetTargets(TRUE)
     \/ pc' = "stopping" /\ SetTargets(FALSE)
  /\ UNCHANGED <<node, testVars>>

\* The end of on_timer: the row is written, a flagged EMCY stops the test.
FaultCheck ==
  /\ node = "test" /\ pc = "written"
  /\ pc' = IF fault_flag THEN "stopping" ELSE "running"
  /\ UNCHANGED <<armVars, node, testVars>>

\* stop_test: the timer is gone, the arm is disabled.
TestStopped ==
  /\ node = "test" /\ pc = "stopping" /\ pc' = "idle"
  /\ \E ok \in BOOLEAN : Disable(ok)
  /\ UNCHANGED <<node, testVars>>

TestExit ==
  /\ node = "test" /\ pc = "idle"
  /\ Shutdown /\ TestEnds

TestEmcy ==
  /\ node = "test" /\ EmcyFrame
  /\ fault_flag' = TRUE /\ emcy_seen' = TRUE

TestNext ==
  \/ TestLaunch \/ StartTest \/ Settled \/ SettleRefused \/ StopTest
  \/ WaveformStep \/ FaultCheck \/ TestStopped \/ TestExit \/ TestEmcy

=============================================================================
