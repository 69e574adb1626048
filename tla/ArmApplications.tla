--------------------------- MODULE ArmApplications ---------------------------
(***************************************************************************)
(* The three stand-alone applications on one arm, one process at a time:   *)
(* teach_record, playback and the trajectory test.  Each may be killed at  *)
(* any moment and leave the drives as they are; any of them may follow.    *)
(***************************************************************************)
EXTENDS TeachRecord, Playback, TrajectoryTest

vars == <<armVars, node, pc, teachVars, playVars, testVars>>

TypeOK ==
  /\ ArmTypeOK /\ TeachTypeOK /\ PlayTypeOK /\ TestTypeOK
  /\ pc \in CASE node = "none" -> {"none"}
              [] node = "teach" -> TeachAt \cup {"throw"}
              [] node = "playback" -> PlayAt
              [] node = "test" -> TestAt

Init == ArmInit /\ TeachInit /\ PlayInit /\ TestInit

Powered == {j \in Joints : drive[j] = "OperationEnabled"}

Kill == Killed /\ TeachEnds /\ PlayEnds /\ TestEnds

\* The operator does not start a CSP application on drives a killed one left
\* enabled (see TrustedRestart in ArmCsp); teach_record may always be started.
CspLaunch ==
  /\ Powered = {}
  /\ \/ PlayLaunch /\ UNCHANGED <<teachVars, testVars>>
     \/ TestLaunch /\ UNCHANGED <<teachVars, playVars>>

Environment ==
  \/ ReadLoop \/ DriveMoves \/ DrivesReset

Next ==
  \/ TeachNext /\ UNCHANGED <<playVars, testVars>>
  \/ CspLaunch
  \/ node = "playback" /\ PlayNext /\ UNCHANGED <<teachVars, testVars>>
  \/ node = "test" /\ TestNext /\ UNCHANGED <<teachVars, playVars>>
  \/ Kill
  \/ Environment /\ UNCHANGED <<teachVars, playVars, testVars>>

Spec == Init /\ [][Next]_vars

\* The executor of a teach node and of a test serves its timer, and the play
\* thread runs; every call they make has a timeout.
FairSpec ==
  /\ Spec
  /\ WF_vars(TeachServed /\ UNCHANGED <<playVars, testVars>>)
  /\ WF_vars(PlayThread /\ UNCHANGED <<teachVars, testVars>>)
  /\ WF_vars((WaveformStep \/ FaultCheck \/ TestStopped) /\ UNCHANGED <<teachVars, playVars>>)

-----------------------------------------------------------------------------

\* A powered drive is being driven, or the process knows it lost track of it:
\* whatever call failed, read_loop never treats an enabled arm as idle.
PoweredMeansUsed ==
  node \in {"playback", "test"} /\ Powered # {} => csp_active \/ exclusive

\* Between two plays or tests nothing is driven, however the last one ended;
\* a drive that could not be disabled is under quarantine.
IdleMeansDisarmed ==
  node \in {"playback", "test"} /\ pc = "idle"
    => ~csp_active /\ (Powered # {} => exclusive)

\* Hand guiding never happens on a powered drive, also right after a playback
\* that was killed in motion.
TeachWithoutPower == node = "teach" /\ pc # "throw" => Powered = {}

\* An EMCY ends the recording it hits, whatever callback it interrupts, even the
\* one that is just starting the recording.
FaultEndsRecording ==
  (node = "teach" /\ recording /\ emcy_pending) ~> ~recording

\* A stop that reaches a running playback ends it, in any phase and lap.
StopEndsPlayback ==
  (node = "playback" /\ pc # "idle" /\ stop_requested)
    ~> (node = "none" \/ pc = "idle")

\* TRAJECTORY_TEST_DOCUMENTATION.md section 2.4: the EMCY state is monitored
\* for the whole test, and a fault stops it and disables the motors.
EmcyStopsTest ==
  (node = "test" /\ pc \in Running /\ emcy_seen) ~> (pc \notin Running)

=============================================================================
