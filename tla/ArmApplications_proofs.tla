----------------------- MODULE ArmApplications_proofs -----------------------
(* Theorems about ArmApplications, for every number of joints.               *)
EXTENDS ArmApplications, TLAPS

CspNode == node \in {"playback", "test"}

\* What the next application finds of the last one: an arm object exists exactly
\* while an application runs, with the configuration it asked for.
ArmOfNode ==
  /\ node = "none" => arm = "none" /\ ~csp_active /\ ~exclusive
  /\ node = "teach" => arm = "passive"
  /\ CspNode => arm = "csp"

\* Before the enable and after the disable nothing is driven.
Unarmed == {"idle", "check", "enable"}

PowerInv ==
  /\ CspNode /\ Powered # {} => csp_active \/ exclusive
  /\ CspNode /\ pc \in Unarmed => ~csp_active
  /\ node = "teach" => Powered = {}

\* A recording is always some misses away from its abort.
MissesLeft == recording => misses < MaxMisses

PcTypeOK ==
  pc \in CASE node = "none" -> {"none"}
           [] node = "teach" -> TeachAt \cup {"throw"}
           [] node = "playback" -> PlayAt
           [] node = "test" -> TestAt

Inv ==
  /\ ArmTypeOK /\ TeachTypeOK /\ PlayTypeOK /\ TestTypeOK /\ PcTypeOK
  /\ ArmOfNode /\ PowerInv /\ MissesLeft

-----------------------------------------------------------------------------
(* The drives. *)

LEMMA AfterType ==
  ASSUME NEW s \in DriveStates, NEW c \in Commands
  PROVE  /\ After(c, s) \in DriveStates
         /\ c # "EnableOperation" /\ After(c, s) = "OperationEnabled"
              => s = "OperationEnabled"
BY DEF After, Effective, LeadsTo, DriveStates, Commands

\* No command of these calls powers a drive.
LEMMA ScatteredPowersNone ==
  ASSUME drive \in [Joints -> DriveStates],
         NEW C \in SUBSET (Commands \ {"EnableOperation"}), Scattered(C)
  PROVE  drive' \in [Joints -> DriveStates] /\ Powered' \subseteq Powered
<1>1. drive' \in [Joints -> DriveStates]
  BY DEF Scattered
<1>2. ASSUME NEW j \in Joints, drive'[j] = "OperationEnabled"
      PROVE  drive[j] = "OperationEnabled"
  <2>1. CASE drive'[j] = drive[j]
    BY <1>2, <2>1
  <2>2. ASSUME NEW c \in C, drive'[j] = After(c, drive[j])
        PROVE  drive[j] = "OperationEnabled"
    BY <1>2, <2>2, AfterType
  <2>3. QED
    BY <2>1, <2>2 DEF Scattered
<1>3. QED
  BY <1>1, <1>2 DEF Powered

\* Disabling ends in no power, or in drives that are no more powered than before.
LEMMA DisableDrives ==
  ASSUME drive \in [Joints -> DriveStates], NEW ok \in BOOLEAN,
         Disable(ok) \/ DisableVoltage(ok)
  PROVE  /\ drive' \in [Joints -> DriveStates] /\ Powered' \subseteq Powered
         /\ csp_active' = FALSE /\ exclusive' = ~ok
         /\ Powered' # {} => ~ok
         /\ UNCHANGED <<arm, fault_detected, cache_valid>>
<1>1. csp_active' = FALSE /\ exclusive' = ~ok /\ UNCHANGED <<arm, fault_detected, cache_valid>>
  BY DEF Disable, DisableVoltage
<1>2. PICK c \in {"DisableOperation", "DisableVoltage"},
           s \in {"SwitchedOn", "SwitchOnDisabled"} : Command(c, s, ok)
  BY DEF Disable, DisableVoltage
<1>3. CASE ok
  <2>1. drive' = [j \in Joints |-> s] /\ s \in DriveStates /\ s # "OperationEnabled"
    BY <1>2, <1>3 DEF Command, Confirmed, DriveStates
  <2>2. drive' \in [Joints -> DriveStates] /\ Powered' = {}
    BY <2>1 DEF Powered
  <2>3. QED
    BY <1>1, <2>2
<1>4. CASE ~ok
  <2>1. Scattered({c})
    BY <1>2, <1>4 DEF Command
  <2>2. {c} \in SUBSET (Commands \ {"EnableOperation"})
    BY DEF Commands
  <2>3. drive' \in [Joints -> DriveStates] /\ Powered' \subseteq Powered
    BY <2>1, <2>2, ScatteredPowersNone
  <2>4. QED
    BY <1>1, <1>4, <2>3
<1>5. QED
  BY <1>3, <1>4

LEMMA SetTargetsDrives ==
  ASSUME ArmTypeOK, NEW ok \in BOOLEAN, SetTargets(ok)
  PROVE  /\ drive' \in [Joints -> DriveStates] /\ Powered' \subseteq Powered
         /\ csp_active' \in BOOLEAN /\ exclusive' \in BOOLEAN /\ cache_valid' \in BOOLEAN
         /\ csp_active \/ exclusive => csp_active' \/ exclusive'
         /\ csp_active' => csp_active
         /\ UNCHANGED <<arm, fault_detected>>
<1>1. CASE ok
  BY <1>1 DEF SetTargets, ArmTypeOK, Powered
<1>2. CASE ~ok /\ ~csp_active
  BY <1>2 DEF SetTargets, ArmTypeOK, Powered
<1>3. CASE ~ok /\ csp_active
  <2>1. Scattered({"QuickStop"}) /\ csp_active' = FALSE /\ exclusive' = TRUE
        /\ UNCHANGED <<arm, fault_detected, cache_valid>>
    BY <1>3 DEF SetTargets
  <2>2. {"QuickStop"} \in SUBSET (Commands \ {"EnableOperation"})
    BY DEF Commands
  <2>3. QED
    BY <2>1, <2>2, ScatteredPowersNone DEF ArmTypeOK
<1>4. QED
  BY <1>1, <1>2, <1>3

LEMMA EnableDrives ==
  ASSUME ArmTypeOK, NEW ok \in BOOLEAN, EnableCsp(ok)
  PROVE  /\ drive' \in [Joints -> DriveStates]
         /\ csp_active' \in BOOLEAN /\ exclusive' \in BOOLEAN /\ cache_valid' \in BOOLEAN
         /\ ok => csp_active'
         /\ ~ok => ~csp_active' /\ (exclusive' \/ Powered' = {})
         /\ UNCHANGED <<arm, fault_detected>>
<1>1. CASE ok
  BY <1>1 DEF EnableCsp, ArmTypeOK, DriveStates
<1>2. CASE ~ok
  <2>1. UNCHANGED <<arm, fault_detected, csp_active, cache_valid>> /\ ~csp_active
    BY <1>2 DEF EnableCsp
  <2>2. CASE drive' = [j \in Joints |-> "SwitchOnDisabled"] /\ exclusive' = FALSE
    <3>1. drive' \in [Joints -> DriveStates] /\ Powered' = {}
      BY <2>2 DEF DriveStates, Powered
    <3>2. QED
      BY <1>2, <2>1, <2>2, <3>1 DEF ArmTypeOK
  <2>3. CASE drive' \in [Joints -> DriveStates] /\ exclusive' = TRUE
    BY <1>2, <2>1, <2>3 DEF ArmTypeOK
  <2>4. QED
    BY <1>2, <2>2, <2>3 DEF EnableCsp
<1>3. QED
  BY <1>1, <1>2

\* A process ends; its drives stay as they are or lose power.
LEMMA EndKeeps ==
  ASSUME Inv, ProcessEnds, TeachTypeOK', MissesLeft', PlayTypeOK', TestTypeOK',
         drive' \in [Joints -> DriveStates]
  PROVE  Inv'
<1>1. ArmTypeOK'
  BY DEF ProcessEnds, ArmTypeOK, Nodes
<1>2. PcTypeOK' /\ ArmOfNode' /\ PowerInv'
  BY DEF ProcessEnds, PcTypeOK, ArmOfNode, PowerInv, CspNode
<1>3. QED
  BY <1>1, <1>2 DEF Inv

LEMMA ShutdownTypes ==
  ASSUME NEW C, Scattered(C)
  PROVE  drive' \in [Joints -> DriveStates]
BY DEF Scattered

LEMMA TeachEnded ==
  ASSUME TeachEnds
  PROVE  TeachTypeOK' /\ MissesLeft'
<1>1. recording' = FALSE /\ fault_latched' = FALSE /\ emcy_pending' = FALSE
  BY DEF TeachEnds
<1>2. misses' \in 0 .. MaxMisses
  BY MaxMissesAssumption DEF TeachEnds
<1>3. QED
  BY <1>1, <1>2 DEF TeachTypeOK, MissesLeft

-----------------------------------------------------------------------------
(* teach_record. *)

\* What a step of a teach node changes, as far as Inv can tell.
TeachMove ==
  /\ drive' \in [Joints -> DriveStates] /\ Powered' \subseteq Powered
  /\ csp_active' \in BOOLEAN /\ exclusive' \in BOOLEAN
  /\ fault_detected' \in BOOLEAN /\ cache_valid' \in BOOLEAN
  /\ UNCHANGED <<arm, node>>
  /\ pc' \in TeachAt \cup {"throw"}
  /\ TeachTypeOK' /\ MissesLeft'

LEMMA TeachMoveKeeps ==
  ASSUME Inv, node = "teach", TeachMove, UNCHANGED <<playVars, testVars>>
  PROVE  Inv'
<1>1. node' = "teach" /\ arm' = "passive"
  BY DEF TeachMove, Inv, ArmOfNode
<1>2. ArmTypeOK'
  BY <1>1 DEF TeachMove, ArmTypeOK, Nodes
<1>3. PlayTypeOK' /\ TestTypeOK'
  BY DEF Inv, PlayTypeOK, TestTypeOK, playVars, testVars
<1>4. PcTypeOK'
  BY <1>1 DEF TeachMove, PcTypeOK
<1>5. ArmOfNode' /\ PowerInv'
  BY <1>1 DEF TeachMove, Inv, ArmOfNode, PowerInv, CspNode
<1>6. QED
  BY <1>2, <1>3, <1>4, <1>5 DEF TeachMove, Inv

LEMMA SafetyFaultMoves ==
  ASSUME Inv, node = "teach", HandleSafetyFault, pc' \in TeachAt \cup {"throw"},
         node' = node
  PROVE  TeachMove
<1>1. CASE fault_latched
  BY <1>1 DEF HandleSafetyFault, TeachMove, Inv, ArmTypeOK, TeachTypeOK, MissesLeft, armVars,
     teachVars, Powered
<1>2. CASE ~fault_latched
  <2>1. PICK ok \in BOOLEAN : DisableVoltage(ok)
    BY <1>2 DEF HandleSafetyFault
  <2>2. /\ drive' \in [Joints -> DriveStates] /\ Powered' \subseteq Powered
        /\ csp_active' = FALSE /\ exclusive' = ~ok
        /\ UNCHANGED <<arm, fault_detected, cache_valid>>
    BY <2>1, DisableDrives DEF Inv, ArmTypeOK
  <2>3. recording' = FALSE /\ fault_latched' = TRUE /\ UNCHANGED <<emcy_pending, misses>>
    BY <1>2 DEF HandleSafetyFault
  <2>4. QED
    BY <2>2, <2>3 DEF TeachMove, Inv, ArmTypeOK, TeachTypeOK, MissesLeft
<1>3. QED
  BY <1>1, <1>2

\* A step that leaves the arm alone, or takes a sample.
LEMMA SampleMoves ==
  ASSUME Inv, node = "teach", node' = node, pc' \in TeachAt \cup {"throw"},
         UNCHANGED <<drive, arm, csp_active, exclusive, fault_detected>>,
         cache_valid' \in BOOLEAN, TeachTypeOK', MissesLeft'
  PROVE  TeachMove
BY DEF TeachMove, Inv, ArmTypeOK, Powered

LEMMA TeachKeeps ==
  ASSUME Inv, TeachNext, UNCHANGED <<playVars, testVars>>
  PROVE  Inv'
<1> USE MaxMissesAssumption
<1>1. CASE TeachLaunch
  <2>1. PICK ok \in BOOLEAN :
          InitPassive(ok) /\ IF ok THEN node' = "teach" /\ pc' = "startup"
                                   ELSE UNCHANGED <<node, pc>>
    BY <1>1 DEF TeachLaunch
  <2>2. /\ node = "none" /\ arm = "none" /\ ~csp_active /\ ~exclusive /\ pc = "none"
        /\ UNCHANGED <<csp_active, exclusive, fault_detected, cache_valid, teachVars>>
    BY <1>1, <2>1 DEF TeachLaunch, InitPassive, Inv, ArmOfNode, PcTypeOK
  <2>3. drive' \in [Joints -> DriveStates] /\ (ok => Powered' = {})
        /\ arm' = IF ok THEN "passive" ELSE "none"
    <3>1. CASE ok
      <4>1. drive' = [j \in Joints |-> "ReadyToSwitchOn"]
        BY <2>1, <3>1 DEF InitPassive, Confirmed
      <4>2. QED
        BY <2>1, <3>1, <4>1 DEF InitPassive, DriveStates, Powered
    <3>2. CASE ~ok
      BY <2>1, <3>2 DEF InitPassive, Scattered
    <3>3. QED
      BY <3>1, <3>2
  <2>4. TeachTypeOK' /\ MissesLeft' /\ PlayTypeOK' /\ TestTypeOK'
    BY <2>2 DEF Inv, TeachTypeOK, MissesLeft, PlayTypeOK, TestTypeOK, teachVars, playVars,
       testVars
  <2>5. node' = (IF ok THEN "teach" ELSE "none") /\ pc' = (IF ok THEN "startup" ELSE "none")
    BY <2>1, <2>2
  <2>6. ArmTypeOK'
    BY <2>2, <2>3, <2>5 DEF Inv, ArmTypeOK, Nodes
  <2>7. PcTypeOK' /\ ArmOfNode' /\ PowerInv'
    BY <2>2, <2>3, <2>5 DEF PcTypeOK, TeachAt, ArmOfNode, PowerInv, CspNode
  <2>8. QED
    BY <2>4, <2>6, <2>7 DEF Inv
<1>2. CASE StartupFeedback
  BY <1>2, SampleMoves, TeachMoveKeeps
  DEF StartupFeedback, ReadPassiveFeedback, TeachAt, Inv, ArmTypeOK, TeachTypeOK, MissesLeft,
      teachVars
<1>3. CASE StartupFails
  <2>1. PICK ok \in BOOLEAN : DisableVoltage(ok)
    BY <1>3 DEF StartupFails
  <2>2. TeachMove
    BY <1>3, <2>1, DisableDrives
    DEF StartupFails, TeachMove, Inv, ArmTypeOK, TeachTypeOK, MissesLeft, teachVars
  <2>3. QED
    BY <1>3, <2>2, TeachMoveKeeps DEF StartupFails
<1>4. CASE StartRecording
  <2>1. pc' \in TeachAt \cup {"throw"} /\ node = "teach" /\ node' = node
    BY <1>4 DEF StartRecording, Refused, TeachAt
  <2>2. HandleSafetyFault \/ UNCHANGED <<armVars, teachVars>>
    BY <1>4 DEF StartRecording
  <2>3. CASE HandleSafetyFault
    BY <2>1, <2>3, SafetyFaultMoves, TeachMoveKeeps
  <2>4. CASE UNCHANGED <<armVars, teachVars>>
    BY <2>1, <2>4, SampleMoves, TeachMoveKeeps
    DEF Inv, ArmTypeOK, TeachTypeOK, MissesLeft, armVars, teachVars
  <2>5. QED
    BY <2>2, <2>3, <2>4
<1>5. CASE FirstSample
  <2>1. pc' \in TeachAt \cup {"throw"} /\ node = "teach" /\ node' = node
    BY <1>5 DEF FirstSample, Refused, TeachAt
  <2>2. TeachTypeOK' /\ MissesLeft'
    <3>1. CASE recording' = TRUE /\ misses' = 0 /\ UNCHANGED <<fault_latched, emcy_pending>>
      BY <3>1 DEF Inv, TeachTypeOK, MissesLeft
    <3>2. CASE misses' \in {misses, 0} /\ UNCHANGED <<recording, fault_latched, emcy_pending>>
      BY <3>2 DEF Inv, TeachTypeOK, MissesLeft
    <3>3. QED
      BY <1>5, <3>1, <3>2 DEF FirstSample
  <2>3. QED
    BY <1>5, <2>1, <2>2, SampleMoves, TeachMoveKeeps
    DEF FirstSample, ReadPassiveFeedback, Inv, ArmTypeOK
<1>6. CASE FirstSampleMissing
  <2>1. pc' \in TeachAt \cup {"throw"} /\ node = "teach" /\ node' = node
    BY <1>6 DEF FirstSampleMissing, Refused, TeachAt
  <2>2. CASE HandleSafetyFault
    BY <2>1, <2>2, SafetyFaultMoves, TeachMoveKeeps
  <2>3. CASE UNCHANGED <<armVars, teachVars>>
    BY <2>1, <2>3, SampleMoves, TeachMoveKeeps
    DEF Inv, ArmTypeOK, TeachTypeOK, MissesLeft, armVars, teachVars
  <2>4. QED
    BY <1>6, <2>2, <2>3 DEF FirstSampleMissing
<1>7. CASE StopRecording
  BY <1>7, SampleMoves, TeachMoveKeeps
  DEF StopRecording, TeachAt, Inv, ArmTypeOK, TeachTypeOK, MissesLeft, armVars
<1>8. CASE TimerTick
  <2>1. pc' \in TeachAt \cup {"throw"} /\ node = "teach" /\ node' = node
    BY <1>8 DEF TimerTick, TeachAt
  <2>2. CASE HandleSafetyFault
    BY <2>1, <2>2, SafetyFaultMoves, TeachMoveKeeps
  <2>3. CASE UNCHANGED <<armVars, teachVars>>
    BY <2>1, <2>3, SampleMoves, TeachMoveKeeps
    DEF Inv, ArmTypeOK, TeachTypeOK, MissesLeft, armVars, teachVars
  <2>4. QED
    BY <1>8, <2>2, <2>3 DEF TimerTick
<1>9. CASE TimerSample
  <2>1. pc' \in TeachAt \cup {"throw"} /\ node = "teach" /\ node' = node
    BY <1>9 DEF TimerSample, TeachAt
  <2>2. CASE HandleSafetyFault
    BY <2>1, <2>2, SafetyFaultMoves, TeachMoveKeeps
  <2>3. CASE ~FaultSeen
    <3>1. TeachTypeOK' /\ MissesLeft'
      <4>1. recording' \in BOOLEAN
        BY <1>9, <2>3 DEF TimerSample, Inv, TeachTypeOK
      <4>2. misses' = 0 /\ UNCHANGED <<fault_latched, emcy_pending>>
        BY <1>9, <2>3 DEF TimerSample
      <4>3. QED
        BY <4>1, <4>2 DEF Inv, TeachTypeOK, MissesLeft
    <3>2. QED
      BY <1>9, <2>1, <2>3, <3>1, SampleMoves, TeachMoveKeeps
      DEF TimerSample, ReadPassiveFeedback, Inv, ArmTypeOK
  <2>4. QED
    BY <1>9, <2>2, <2>3 DEF TimerSample
<1>10. CASE TimerMiss
  <2>1. pc' \in TeachAt \cup {"throw"} /\ node = "teach" /\ node' = node
    BY <1>10 DEF TimerMiss, TeachAt
  <2>2. CASE HandleSafetyFault
    BY <2>1, <2>2, SafetyFaultMoves, TeachMoveKeeps
  <2>3. CASE ~FaultSeen
    <3>1. UNCHANGED armVars /\ UNCHANGED <<fault_latched, emcy_pending>>
      BY <1>10, <2>3 DEF TimerMiss
    <3>2. TeachTypeOK' /\ MissesLeft'
      <4>1. CASE recording
        <5>1. misses' = misses + 1 /\ recording' = (misses + 1 < MaxMisses)
          BY <1>10, <2>3, <4>1 DEF TimerMiss
        <5>2. misses \in 0 .. MaxMisses /\ misses < MaxMisses
          BY <4>1 DEF Inv, TeachTypeOK, MissesLeft
        <5>3. misses' \in 0 .. MaxMisses
          BY <5>1, <5>2
        <5>4. recording' \in BOOLEAN
          BY <5>1
        <5>5. recording' => misses' < MaxMisses
          BY <5>1
        <5>6. QED
          BY <3>1, <5>3, <5>4, <5>5 DEF Inv, TeachTypeOK, MissesLeft
      <4>2. CASE ~recording
        BY <1>10, <2>3, <3>1, <4>2 DEF TimerMiss, Inv, TeachTypeOK, MissesLeft
      <4>3. QED
        BY <4>1, <4>2
    <3>3. QED
      BY <2>1, <3>1, <3>2, SampleMoves, TeachMoveKeeps DEF armVars, Inv, ArmTypeOK
  <2>4. QED
    BY <1>10, <2>2, <2>3 DEF TimerMiss
<1>11. CASE TeachQuit
  <2>1. ProcessEnds /\ drive' \in [Joints -> DriveStates]
    BY <1>11, ShutdownTypes DEF TeachQuit, Shutdown
  <2>2. TeachTypeOK' /\ MissesLeft'
    BY <1>11, TeachEnded DEF TeachQuit
  <2>3. PlayTypeOK' /\ TestTypeOK'
    BY DEF Inv, PlayTypeOK, TestTypeOK, playVars, testVars
  <2>4. QED
    BY <2>1, <2>2, <2>3, EndKeeps
<1>12. CASE TeachEmcy
  BY <1>12, TeachMoveKeeps
  DEF TeachEmcy, EmcyFrame, TeachMove, Inv, ArmTypeOK, TeachTypeOK, MissesLeft, PcTypeOK, Powered
<1>13. QED
  BY <1>1, <1>2, <1>3, <1>4, <1>5, <1>6, <1>7, <1>8, <1>9, <1>10, <1>11, <1>12 DEF TeachNext

-----------------------------------------------------------------------------
(* playback and the trajectory test. *)

\* What a step of a CSP node changes, as far as Inv can tell.
CspMove ==
  /\ drive' \in [Joints -> DriveStates]
  /\ csp_active' \in BOOLEAN /\ exclusive' \in BOOLEAN
  /\ fault_detected' \in BOOLEAN /\ cache_valid' \in BOOLEAN
  /\ UNCHANGED <<arm, node>>
  /\ Powered' # {} => csp_active' \/ exclusive'
  /\ pc' \in Unarmed => ~csp_active'

LEMMA CspMoveKeeps ==
  ASSUME Inv, CspNode, CspMove, PcTypeOK', PlayTypeOK', TestTypeOK', UNCHANGED teachVars
  PROVE  Inv'
<1>1. node' = node /\ arm' = "csp"
  BY DEF CspMove, Inv, ArmOfNode
<1>2. ArmTypeOK'
  BY <1>1 DEF CspMove, Inv, ArmTypeOK
<1>3. TeachTypeOK' /\ MissesLeft'
  BY DEF Inv, TeachTypeOK, MissesLeft, teachVars
<1>4. ArmOfNode' /\ PowerInv'
  BY <1>1 DEF CspMove, ArmOfNode, PowerInv, CspNode
<1>5. QED
  BY <1>2, <1>3, <1>4 DEF Inv

LEMMA QuietMoves ==
  ASSUME Inv, CspNode, UNCHANGED armVars, node' = node,
         pc' \in Unarmed => pc \in Unarmed
  PROVE  CspMove
BY DEF CspMove, Inv, ArmTypeOK, PowerInv, armVars, Powered

LEMMA EnableMoves ==
  ASSUME Inv, CspNode, NEW ok \in BOOLEAN, EnableCsp(ok), node' = node,
         pc' \in Unarmed => ~ok
  PROVE  CspMove
<1>1. CASE ok
  BY <1>1, EnableDrives DEF CspMove, Inv, ArmTypeOK
<1>2. CASE ~ok
  BY <1>2, EnableDrives DEF CspMove, Inv, ArmTypeOK
<1>3. QED
  BY <1>1, <1>2

LEMMA TargetMoves ==
  ASSUME Inv, CspNode, NEW ok \in BOOLEAN, SetTargets(ok), node' = node, pc' \notin Unarmed
  PROVE  CspMove
<1>1. /\ drive' \in [Joints -> DriveStates] /\ Powered' \subseteq Powered
      /\ csp_active' \in BOOLEAN /\ exclusive' \in BOOLEAN /\ cache_valid' \in BOOLEAN
      /\ csp_active \/ exclusive => csp_active' \/ exclusive'
      /\ UNCHANGED <<arm, fault_detected>>
  BY SetTargetsDrives DEF Inv
<1>2. Powered # {} => csp_active \/ exclusive
  BY DEF Inv, PowerInv
<1>3. QED
  BY <1>1, <1>2 DEF CspMove, Inv, ArmTypeOK

LEMMA DisableMoves ==
  ASSUME Inv, CspNode, NEW ok \in BOOLEAN, Disable(ok), node' = node
  PROVE  CspMove
<1>1. /\ drive' \in [Joints -> DriveStates]
      /\ csp_active' = FALSE /\ exclusive' = ~ok
      /\ Powered' # {} => ~ok
      /\ UNCHANGED <<arm, fault_detected, cache_valid>>
  BY DisableDrives DEF Inv, ArmTypeOK
<1>2. exclusive' \in BOOLEAN /\ (~ok => exclusive')
  BY <1>1
<1>3. QED
  BY <1>1, <1>2 DEF CspMove, Inv, ArmTypeOK

\* init() of a CSP application: the drives were found without power.
LEMMA LaunchKeeps ==
  ASSUME Inv, Powered = {}, NEW n \in {"playback", "test"}, NEW ok \in BOOLEAN,
         InitCsp(ok), node = "none",
         IF ok THEN node' = n /\ pc' = "idle" ELSE UNCHANGED <<node, pc>>,
         UNCHANGED <<teachVars, playVars, testVars>>
  PROVE  Inv'
<1>1. /\ UNCHANGED <<drive, csp_active, exclusive, fault_detected, cache_valid>>
      /\ arm' = (IF ok THEN "csp" ELSE "none")
      /\ ~csp_active /\ ~exclusive /\ pc = "none"
  BY DEF InitCsp, Inv, ArmOfNode, PcTypeOK
<1>2. node' = (IF ok THEN n ELSE "none") /\ pc' = (IF ok THEN "idle" ELSE "none")
  BY <1>1
<1>3. ArmTypeOK' /\ Powered' = {}
  BY <1>1, <1>2 DEF Inv, ArmTypeOK, Nodes, Powered
<1>4. PcTypeOK'
  BY <1>2 DEF PcTypeOK, PlayAt, TestAt
<1>5. ArmOfNode' /\ PowerInv'
  BY <1>1, <1>2, <1>3 DEF ArmOfNode, PowerInv, CspNode
<1>6. TeachTypeOK' /\ PlayTypeOK' /\ TestTypeOK' /\ MissesLeft'
  BY DEF Inv, TeachTypeOK, PlayTypeOK, TestTypeOK, MissesLeft, teachVars, playVars, testVars
<1>7. QED
  BY <1>3, <1>4, <1>5, <1>6 DEF Inv

\* The play thread and the executor thread of the playback node.
LEMMA PlayKeeps ==
  ASSUME Inv, node = "playback", PlayNext, UNCHANGED <<teachVars, testVars>>
  PROVE  Inv'
<1>0. CspNode /\ pc \in PlayAt /\ TestTypeOK'
  BY DEF CspNode, Inv, PcTypeOK, TestTypeOK, testVars
<1>1. CASE OnPlay \/ OnStop \/ PlayQuit \/ CheckPosition \/ Wait \/ LapEnds
  <2>1. /\ UNCHANGED armVars /\ node' = node /\ pc' \in PlayAt
        /\ pc' \in Unarmed => pc \in Unarmed
    BY <1>0, <1>1
    DEF OnPlay, OnStop, PlayQuit, CheckPosition, Wait, LapEnds, At, PlayAt, Unarmed
  <2>2. stop_requested' \in BOOLEAN /\ quitting' \in BOOLEAN
    BY <1>1
    DEF OnPlay, OnStop, PlayQuit, CheckPosition, Wait, LapEnds, playVars, Inv, PlayTypeOK
  <2>3. PcTypeOK' /\ PlayTypeOK'
    BY <2>1, <2>2 DEF PcTypeOK, PlayTypeOK
  <2>4. QED
    BY <1>0, <2>1, <2>3, QuietMoves, CspMoveKeeps
<1>2. CASE PlayExit
  <2>1. ProcessEnds /\ drive' \in [Joints -> DriveStates]
    BY <1>2, ShutdownTypes DEF PlayExit
  <2>2. TeachTypeOK' /\ MissesLeft'
    BY DEF Inv, TeachTypeOK, MissesLeft, teachVars
  <2>3. PlayTypeOK'
    BY <1>2 DEF PlayExit, PlayEnds, PlayTypeOK
  <2>4. QED
    BY <1>0, <2>1, <2>2, <2>3, EndKeeps
<1>3. CASE EnableArm \/ ApproachStart \/ ApproachStep \/ PlayPoint \/ DisableArm
  <2>1. node' = node /\ UNCHANGED playVars
        /\ pc' \in PlayAt /\ (pc' \in Unarmed => DisableArm)
    BY <1>3
    DEF EnableArm, ApproachStart, ApproachStep, PlayPoint, DisableArm, At, PlayAt, Unarmed
  <2>2. PcTypeOK' /\ PlayTypeOK'
    BY <2>1 DEF PcTypeOK, Inv, PlayTypeOK, playVars
  <2>3. CASE \E ok \in BOOLEAN : EnableCsp(ok) /\ pc' \notin Unarmed
    BY <1>0, <2>1, <2>3, EnableMoves, <2>2, CspMoveKeeps
  <2>4. CASE \E ok \in BOOLEAN : SetTargets(ok) /\ pc' \notin Unarmed
    BY <1>0, <2>1, <2>4, TargetMoves, <2>2, CspMoveKeeps
  <2>5. CASE \E ok \in BOOLEAN : Disable(ok)
    BY <1>0, <2>1, <2>5, DisableMoves, <2>2, CspMoveKeeps
  <2>6. CASE UNCHANGED armVars /\ pc' \notin Unarmed
    BY <1>0, <2>1, <2>6, QuietMoves, <2>2, CspMoveKeeps
  <2>7. CASE EnableArm
    BY <2>3, <2>7 DEF EnableArm, At, Unarmed
  <2>8. CASE ApproachStart \/ ApproachStep \/ PlayPoint
    BY <2>4, <2>6, <2>8 DEF ApproachStart, ApproachStep, PlayPoint, At, Unarmed
  <2>9. CASE DisableArm
    BY <2>5, <2>9 DEF DisableArm
  <2>10. QED
    BY <1>3, <2>7, <2>8, <2>9
<1>4. CASE PlayEmcy
  <2>1. CspMove /\ PcTypeOK' /\ PlayTypeOK'
    BY <1>0, <1>4
    DEF PlayEmcy, EmcyFrame, CspMove, Inv, ArmTypeOK, PowerInv, PcTypeOK, PlayTypeOK,
        playVars, Powered
  <2>2. QED
    BY <1>0, <2>1, CspMoveKeeps
<1>5. ~PlayLaunch
  BY DEF PlayLaunch
<1>6. QED
  BY <1>1, <1>2, <1>3, <1>4, <1>5 DEF PlayNext, PlayThread

LEMMA TestKeeps ==
  ASSUME Inv, node = "test", TestNext, UNCHANGED <<teachVars, playVars>>
  PROVE  Inv'
<1>0. CspNode /\ pc \in TestAt /\ PlayTypeOK'
  BY DEF CspNode, Inv, PcTypeOK, PlayTypeOK, playVars
<1>1. CASE StartTest
  <2>1. PICK ok \in BOOLEAN : EnableCsp(ok) /\ pc' = IF ok THEN "settle" ELSE "idle"
    BY <1>1 DEF StartTest
  <2>2. node' = node /\ emcy_seen' = FALSE /\ fault_flag' = fault_flag
    BY <1>1 DEF StartTest
  <2>3. PcTypeOK' /\ TestTypeOK'
    BY <2>1, <2>2 DEF PcTypeOK, TestAt, Inv, TestTypeOK
  <2>4. pc' \in Unarmed => ~ok
    BY <2>1 DEF Unarmed
  <2>5. QED
    BY <1>0, <2>1, <2>2, <2>3, <2>4, EnableMoves, CspMoveKeeps
<1>2. CASE Settled \/ StopTest \/ FaultCheck
  <2>1. UNCHANGED armVars /\ node' = node /\ pc' \in TestAt /\ pc' \notin Unarmed
    BY <1>2 DEF Settled, StopTest, FaultCheck, TestAt, Running, Unarmed
  <2>2. fault_flag' \in BOOLEAN /\ emcy_seen' \in BOOLEAN
    BY <1>2 DEF Settled, StopTest, FaultCheck, testVars, Inv, TestTypeOK
  <2>3. PcTypeOK' /\ TestTypeOK'
    BY <2>1, <2>2 DEF PcTypeOK, TestTypeOK
  <2>4. QED
    BY <1>0, <2>1, <2>3, QuietMoves, CspMoveKeeps
<1>3. CASE SettleRefused \/ TestStopped
  <2>1. PICK ok \in BOOLEAN : Disable(ok)
    BY <1>3 DEF SettleRefused, TestStopped
  <2>2. node' = node /\ pc' = "idle" /\ UNCHANGED testVars
    BY <1>3 DEF SettleRefused, TestStopped
  <2>3. PcTypeOK' /\ TestTypeOK'
    BY <2>2 DEF PcTypeOK, TestAt, Inv, TestTypeOK, testVars
  <2>4. QED
    BY <1>0, <2>1, <2>2, <2>3, DisableMoves, CspMoveKeeps
<1>4. CASE WaveformStep
  <2>1. PICK ok \in BOOLEAN : SetTargets(ok)
    BY <1>4 DEF WaveformStep
  <2>2. node' = node /\ pc' \in {"written", "stopping"} /\ UNCHANGED testVars
    BY <1>4 DEF WaveformStep
  <2>3. PcTypeOK' /\ TestTypeOK' /\ pc' \notin Unarmed
    BY <2>2 DEF PcTypeOK, TestAt, Running, Unarmed, Inv, TestTypeOK, testVars
  <2>4. QED
    BY <1>0, <2>1, <2>2, <2>3, TargetMoves, CspMoveKeeps
<1>5. CASE TestExit
  <2>1. ProcessEnds /\ drive' \in [Joints -> DriveStates]
    BY <1>5, ShutdownTypes DEF TestExit, Shutdown
  <2>2. TeachTypeOK' /\ MissesLeft'
    BY DEF Inv, TeachTypeOK, MissesLeft, teachVars
  <2>3. TestTypeOK'
    BY <1>5 DEF TestExit, TestEnds, TestTypeOK
  <2>4. QED
    BY <1>0, <2>1, <2>2, <2>3, EndKeeps
<1>6. CASE TestEmcy
  <2>1. CspMove /\ PcTypeOK' /\ TestTypeOK'
    BY <1>0, <1>6
    DEF TestEmcy, EmcyFrame, CspMove, Inv, ArmTypeOK, PowerInv, PcTypeOK, TestTypeOK, Powered
  <2>2. QED
    BY <1>0, <2>1, CspMoveKeeps
<1>7. ~TestLaunch
  BY DEF TestLaunch
<1>8. QED
  BY <1>1, <1>2, <1>3, <1>4, <1>5, <1>6, <1>7 DEF TestNext

-----------------------------------------------------------------------------
(* The other steps, and the theorems. *)

LEMMA KillKeeps ==
  ASSUME Inv, Kill
  PROVE  Inv'
<1>1. ProcessEnds /\ drive' \in [Joints -> DriveStates]
  BY DEF Kill, Killed, Inv, ArmTypeOK
<1>2. TeachTypeOK' /\ MissesLeft'
  BY TeachEnded DEF Kill
<1>3. PlayTypeOK' /\ TestTypeOK'
  BY DEF Kill, PlayEnds, TestEnds, PlayTypeOK, TestTypeOK
<1>4. QED
  BY <1>1, <1>2, <1>3, EndKeeps

LEMMA EnvironmentKeeps ==
  ASSUME Inv, Environment, UNCHANGED <<teachVars, playVars, testVars>>
  PROVE  Inv'
<1>1. TeachTypeOK' /\ PlayTypeOK' /\ TestTypeOK' /\ MissesLeft'
  BY DEF Inv, TeachTypeOK, PlayTypeOK, TestTypeOK, MissesLeft, teachVars, playVars, testVars
<1>2. UNCHANGED <<arm, csp_active, exclusive, node, pc>>
  BY DEF Environment, ReadLoop, DriveMoves, DrivesReset
<1>3. drive' \in [Joints -> DriveStates] /\ Powered' \subseteq Powered
  <2>1. CASE ReadLoop
    BY <2>1 DEF ReadLoop, Inv, ArmTypeOK, Powered
  <2>2. CASE DriveMoves
    BY <2>2 DEF DriveMoves, Inv, ArmTypeOK, Powered, DriveStates
  <2>3. CASE DrivesReset
    BY <2>3 DEF DrivesReset, Powered, DriveStates
  <2>4. QED
    BY <2>1, <2>2, <2>3 DEF Environment
<1>4. cache_valid' \in BOOLEAN
  BY DEF Environment, ReadLoop, DriveMoves, DrivesReset, Inv, ArmTypeOK
<1>5. fault_detected' \in BOOLEAN
  <2>1. \/ fault_detected' = fault_detected
        \/ fault_detected' = (fault_detected \/ \E j \in Joints : drive[j] = "Fault")
    BY DEF Environment, ReadLoop, DriveMoves, DrivesReset
  <2>2. QED
    BY <2>1, Zenon DEF Inv, ArmTypeOK
<1>6. ArmTypeOK' /\ PcTypeOK'
  BY <1>2, <1>3, <1>4, <1>5 DEF Inv, ArmTypeOK, PcTypeOK
<1>7. ArmOfNode' /\ PowerInv'
  BY <1>2, <1>3 DEF Inv, ArmOfNode, PowerInv, CspNode
<1>8. QED
  BY <1>1, <1>6, <1>7 DEF Inv

\* The applications keep the strengthened invariant, whoever is killed when and
\* whoever follows.
THEOREM Invariance == Spec => []Inv
<1>1. Init => Inv
  <2> SUFFICES ASSUME Init PROVE Inv
    OBVIOUS
  <2>1. drive \in [Joints -> DriveStates]
    BY DEF Init, ArmInit
  <2>2. NoArm
    BY DEF Init, ArmInit
  <2>3. ArmTypeOK /\ PcTypeOK /\ ArmOfNode /\ PowerInv
    BY <2>1, <2>2 DEF NoArm, ArmTypeOK, Nodes, PcTypeOK, ArmOfNode, PowerInv, CspNode
  <2>4. misses \in 0 .. MaxMisses
    BY MaxMissesAssumption DEF Init, TeachInit
  <2>5. TeachTypeOK /\ MissesLeft
    BY <2>4 DEF Init, TeachInit, TeachTypeOK, MissesLeft
  <2>6. PlayTypeOK /\ TestTypeOK
    BY DEF Init, PlayInit, TestInit, PlayTypeOK, TestTypeOK
  <2>7. QED
    BY <2>3, <2>5, <2>6 DEF Inv
<1>2. Inv /\ [Next]_vars => Inv'
  <2> SUFFICES ASSUME Inv, [Next]_vars PROVE Inv'
    OBVIOUS
  <2>1. CASE TeachNext /\ UNCHANGED <<playVars, testVars>>
    BY <2>1, TeachKeeps
  <2>2. CASE CspLaunch
    BY <2>2, LaunchKeeps DEF CspLaunch, PlayLaunch, TestLaunch
  <2>3. CASE node = "playback" /\ PlayNext /\ UNCHANGED <<teachVars, testVars>>
    BY <2>3, PlayKeeps
  <2>4. CASE node = "test" /\ TestNext /\ UNCHANGED <<teachVars, playVars>>
    BY <2>4, TestKeeps
  <2>5. CASE Kill
    BY <2>5, KillKeeps
  <2>6. CASE Environment /\ UNCHANGED <<teachVars, playVars, testVars>>
    BY <2>6, EnvironmentKeeps
  <2>7. CASE UNCHANGED vars
    <3>1. /\ drive' = drive /\ arm' = arm /\ node' = node /\ pc' = pc
          /\ UNCHANGED <<csp_active, exclusive, fault_detected, cache_valid>>
      BY <2>7 DEF vars, armVars
    <3>2. UNCHANGED teachVars /\ UNCHANGED playVars /\ UNCHANGED testVars
      BY <2>7, Zenon DEF vars
    <3>3. ArmTypeOK'
      BY <3>1 DEF Inv, ArmTypeOK
    <3>4. TeachTypeOK' /\ MissesLeft'
      BY <3>2 DEF teachVars, Inv, TeachTypeOK, MissesLeft
    <3>5. PlayTypeOK' /\ TestTypeOK'
      BY <3>2 DEF playVars, testVars, Inv, PlayTypeOK, TestTypeOK
    <3>6. PcTypeOK'
      BY <3>1 DEF Inv, PcTypeOK
    <3>7. Powered' = Powered
      BY <3>1 DEF Powered
    <3>8. ArmOfNode' /\ PowerInv'
      BY <3>1, <3>7, Zenon DEF Inv, ArmOfNode, PowerInv, CspNode
    <3>9. QED
      BY <3>3, <3>4, <3>5, <3>6, <3>8 DEF Inv
  <2>8. QED
    BY <2>1, <2>2, <2>3, <2>4, <2>5, <2>6, <2>7 DEF Next
<1>3. QED
  BY <1>1, <1>2, PTL DEF Spec

\* Every variable keeps its type, and every application stays at its own places.
THEOREM TypeCorrect == Spec => []TypeOK
<1>1. Inv => TypeOK
  BY DEF Inv, TypeOK, PcTypeOK
<1>2. QED
  BY <1>1, Invariance, PTL

\* However a call of playback or the test fails, read_loop never takes an arm
\* with power for an idle one.
THEOREM PowerIsUsed == Spec => []PoweredMeansUsed
<1>1. Inv => PoweredMeansUsed
  BY DEF Inv, PowerInv, CspNode, PoweredMeansUsed
<1>2. QED
  BY <1>1, Invariance, PTL

\* Every way out of a play or a test (stop, fault, refused start, end) ends the
\* motion, and a drive still powered is under quarantine.
THEOREM IdleIsDisarmed == Spec => []IdleMeansDisarmed
<1>1. Inv => IdleMeansDisarmed
  BY DEF Inv, PowerInv, CspNode, Unarmed, IdleMeansDisarmed
<1>2. QED
  BY <1>1, Invariance, PTL

\* init_passive verifies what a killed application left behind: hand guiding
\* never happens on a powered drive.
THEOREM TeachingIsPassive == Spec => []TeachWithoutPower
<1>1. Inv => TeachWithoutPower
  BY DEF Inv, PowerInv, TeachWithoutPower
<1>2. QED
  BY <1>1, Invariance, PTL

-----------------------------------------------------------------------------
(* What faults and stops leave behind: the safety side of FaultEndsRecording  *)
(* and StopEndsPlayback.                                                      *)

\* Nothing is recorded, and no recording is being started.
FaultBarsRecording ==
  fault_latched => ~recording /\ pc \notin {"first", "autoFirst"}

LEMMA StepFaultBarsRecording ==
  Inv /\ FaultBarsRecording /\ [Next]_vars => FaultBarsRecording'
<1> SUFFICES ASSUME Inv, FaultBarsRecording, [Next]_vars PROVE FaultBarsRecording'
  OBVIOUS
<1>1. ASSUME UNCHANGED teachVars, pc' \notin {"first", "autoFirst"} \/ pc' = pc
      PROVE  FaultBarsRecording'
  BY <1>1 DEF teachVars, FaultBarsRecording
<1>2. ASSUME HandleSafetyFault, pc' \notin {"first", "autoFirst"}
      PROVE  FaultBarsRecording'
  BY <1>2 DEF HandleSafetyFault, teachVars, FaultBarsRecording
<1>3. ASSUME TeachEnds PROVE FaultBarsRecording'
  BY <1>3 DEF TeachEnds, FaultBarsRecording
<1>4. CASE TeachNext
  <2>1. CASE TeachLaunch
    <3>1. pc' = "startup" \/ pc' = pc
      BY <2>1 DEF TeachLaunch
    <3>2. QED
      BY <1>1, <2>1, <3>1 DEF TeachLaunch
  <2>2. CASE StartupFeedback \/ StartupFails
    BY <1>1, <2>2 DEF StartupFeedback, StartupFails
  <2>3. CASE StartRecording
    <3>1. CASE fault_latched \/ FaultSeen
      BY <1>2, <2>3, <3>1 DEF StartRecording, Refused
    <3>2. CASE ~(fault_latched \/ FaultSeen)
      BY <2>3, <3>2 DEF StartRecording, teachVars, FaultBarsRecording
    <3>3. QED
      BY <3>1, <3>2
  <2>4. CASE FirstSample
    BY <2>4 DEF FirstSample, FaultBarsRecording
  <2>5. CASE FirstSampleMissing
    <3>1. pc' \notin {"first", "autoFirst"}
      BY <2>5 DEF FirstSampleMissing, Refused
    <3>2. QED
      BY <1>1, <1>2, <2>5, <3>1 DEF FirstSampleMissing
  <2>6. CASE StopRecording
    BY <2>6 DEF StopRecording, FaultBarsRecording
  <2>7. CASE TimerTick
    BY <1>1, <1>2, <2>7 DEF TimerTick
  <2>8. CASE TimerSample \/ TimerMiss
    <3>1. pc' = "idle"
      BY <2>8 DEF TimerSample, TimerMiss
    <3>2. CASE FaultSeen
      BY <1>2, <2>8, <3>1, <3>2 DEF TimerSample, TimerMiss
    <3>3. CASE ~FaultSeen
      <4>1. fault_latched' = fault_latched /\ (~recording => ~recording')
        BY <2>8, <3>3 DEF TimerSample, TimerMiss
      <4>2. QED
        BY <3>1, <4>1 DEF FaultBarsRecording
    <3>4. QED
      BY <3>2, <3>3
  <2>9. CASE TeachQuit
    BY <1>3, <2>9 DEF TeachQuit
  <2>10. CASE TeachEmcy
    BY <2>10 DEF TeachEmcy, EmcyFrame, FaultBarsRecording
  <2>11. QED
    BY <1>4, <2>1, <2>2, <2>3, <2>4, <2>5, <2>6, <2>7, <2>8, <2>9, <2>10 DEF TeachNext
<1>5. CASE CspLaunch
  <2>1. UNCHANGED teachVars /\ pc' \in {"idle", pc}
    BY <1>5 DEF CspLaunch, PlayLaunch, TestLaunch
  <2>2. QED
    BY <1>1, <2>1
<1>6. CASE node = "playback" /\ PlayNext /\ UNCHANGED <<teachVars, testVars>>
  <2>1. pc' \notin {"first", "autoFirst"}
    BY <1>6
    DEF PlayNext, PlayLaunch, OnPlay, OnStop, PlayQuit, PlayExit, ProcessEnds, PlayThread,
        CheckPosition, EnableArm, ApproachStart, Wait, ApproachStep, PlayPoint, LapEnds,
        DisableArm, At, PlayEmcy, EmcyFrame, Inv, PcTypeOK, PlayAt
  <2>2. QED
    BY <1>1, <1>6, <2>1
<1>7. CASE node = "test" /\ TestNext /\ UNCHANGED <<teachVars, playVars>>
  <2>1. pc' \notin {"first", "autoFirst"}
    BY <1>7
    DEF TestNext, TestLaunch, StartTest, Settled, SettleRefused, StopTest, FaultCheck,
        WaveformStep, TestStopped, TestExit, Shutdown, ProcessEnds, TestEmcy, EmcyFrame,
        Inv, PcTypeOK, TestAt, Running
  <2>2. QED
    BY <1>1, <1>7, <2>1
<1>8. CASE Kill
  BY <1>3, <1>8 DEF Kill
<1>9. CASE Environment /\ UNCHANGED <<teachVars, playVars, testVars>>
  <2>1. pc' = pc
    BY <1>9 DEF Environment, ReadLoop, DriveMoves, DrivesReset
  <2>2. QED
    BY <1>1, <1>9, <2>1
<1>10. CASE UNCHANGED vars
  BY <1>1, <1>10 DEF vars
<1>11. QED
  BY <1>4, <1>5, <1>6, <1>7, <1>8, <1>9, <1>10 DEF Next

\* handle_safety_fault is final: once it latched, no callback of teach_record
\* records or starts to record, also not one that it interrupted.
THEOREM RecordingStaysOff == Spec => []FaultBarsRecording
<1>1. Init => FaultBarsRecording
  BY DEF Init, TeachInit, FaultBarsRecording
<1>2. QED
  BY <1>1, Invariance, StepFaultBarsRecording, PTL DEF Spec

\* Only the end of the play thread, or of the process, clears the request.
StopRequestStays ==
  [][node = "playback" /\ pc # "idle" /\ stop_requested /\ node' = "playback"
       => stop_requested']_vars

\* A stop that reached a running playback is not lost before the play thread is
\* back at idle: not in the window between on_play and the thread's first step,
\* and not from one lap to the next.
THEOREM StopStaysRequested == Spec => StopRequestStays
<1>1. [Next]_vars => [node = "playback" /\ pc # "idle" /\ stop_requested
                        /\ node' = "playback" => stop_requested']_vars
  <2> SUFFICES ASSUME [Next]_vars, node = "playback", pc # "idle", stop_requested,
                      node' = "playback"
               PROVE  stop_requested'
    BY DEF vars
  <2>1. ASSUME UNCHANGED playVars PROVE stop_requested'
    BY <2>1 DEF playVars
  <2>2. CASE PlayNext
    BY <2>1, <2>2
    DEF PlayNext, PlayLaunch, OnPlay, OnStop, PlayQuit, PlayExit, PlayThread, CheckPosition,
        EnableArm, ApproachStart, Wait, ApproachStep, PlayPoint, LapEnds, DisableArm, PlayEmcy
  <2>3. CASE CspLaunch
    BY <2>3 DEF CspLaunch, PlayLaunch, TestLaunch
  <2>4. CASE Kill
    BY <2>4 DEF Kill, Killed, ProcessEnds
  <2>5. CASE UNCHANGED vars
    BY <2>5 DEF vars, playVars
  <2>6. QED
    BY <2>1, <2>2, <2>3, <2>4, <2>5 DEF Next
<1>2. QED
  BY <1>1, PTL DEF Spec, StopRequestStays

-----------------------------------------------------------------------------
(* Who gives power. *)

\* A drive gets power only inside the enable_csp of a playback or of a test.
OnlyEnablePowers ==
  [][Powered' \subseteq Powered \/ EnableArm \/ StartTest]_vars

LEMMA SameDrives == drive' = drive => Powered' \subseteq Powered
BY DEF Powered

LEMMA EndPowersNone ==
  ASSUME drive \in [Joints -> DriveStates],
         Shutdown \/ Scattered({"DisableOperation", "DisableVoltage"})
  PROVE  Powered' \subseteq Powered
<1>1. PICK C \in SUBSET (Commands \ {"EnableOperation"}) : Scattered(C)
  <2>1. /\ {"DisableVoltage"} \in SUBSET (Commands \ {"EnableOperation"})
        /\ {"DisableOperation", "DisableVoltage"} \in SUBSET (Commands \ {"EnableOperation"})
    BY DEF Commands
  <2>2. QED
    BY <2>1 DEF Shutdown
<1>2. QED
  BY <1>1, ScatteredPowersNone

LEMMA TeachPowersNone ==
  ASSUME Inv, TeachNext
  PROVE  Powered' \subseteq Powered
<1> USE DEF Inv, ArmTypeOK
<1>1. ASSUME HandleSafetyFault PROVE Powered' \subseteq Powered
  <2>1. drive' = drive \/ \E ok \in BOOLEAN : DisableVoltage(ok)
    BY <1>1 DEF HandleSafetyFault, armVars
  <2>2. QED
    BY <2>1, SameDrives, DisableDrives
<1>2. CASE TeachLaunch
  <2>1. PICK ok \in BOOLEAN : InitPassive(ok)
    BY <1>2 DEF TeachLaunch
  <2>2. CASE ok
    <3>1. drive' = [j \in Joints |-> "ReadyToSwitchOn"]
      BY <2>1, <2>2 DEF InitPassive, Confirmed
    <3>2. QED
      BY <3>1 DEF Powered
  <2>3. CASE ~ok
    <3>1. Scattered({"Shutdown", "DisableVoltage"})
      BY <2>1, <2>3 DEF InitPassive
    <3>2. {"Shutdown", "DisableVoltage"} \in SUBSET (Commands \ {"EnableOperation"})
      BY DEF Commands
    <3>3. QED
      BY <3>1, <3>2, ScatteredPowersNone
  <2>4. QED
    BY <2>2, <2>3
<1>3. CASE StartupFails
  BY <1>3, DisableDrives DEF StartupFails
<1>4. CASE StartRecording \/ FirstSampleMissing \/ TimerTick
  <2>1. HandleSafetyFault \/ drive' = drive
    BY <1>4 DEF StartRecording, FirstSampleMissing, TimerTick, armVars
  <2>2. QED
    BY <2>1, <1>1, SameDrives
<1>5. CASE TimerSample \/ TimerMiss
  <2>1. HandleSafetyFault \/ drive' = drive
    BY <1>5 DEF TimerSample, TimerMiss, ReadPassiveFeedback, armVars
  <2>2. QED
    BY <2>1, <1>1, SameDrives
<1>6. CASE StartupFeedback \/ FirstSample \/ StopRecording \/ TeachEmcy
  BY <1>6, SameDrives
  DEF StartupFeedback, FirstSample, StopRecording, TeachEmcy, ReadPassiveFeedback, EmcyFrame,
      armVars
<1>7. CASE TeachQuit
  BY <1>7, EndPowersNone DEF TeachQuit
<1>8. QED
  BY <1>2, <1>3, <1>4, <1>5, <1>6, <1>7 DEF TeachNext

LEMMA PlayPowersNone ==
  ASSUME Inv, node = "playback", PlayNext, ~EnableArm
  PROVE  Powered' \subseteq Powered
<1> USE DEF Inv, ArmTypeOK
<1>1. CASE OnPlay \/ OnStop \/ PlayQuit \/ CheckPosition \/ Wait \/ LapEnds \/ PlayEmcy
  BY <1>1, SameDrives
  DEF OnPlay, OnStop, PlayQuit, CheckPosition, Wait, LapEnds, PlayEmcy, EmcyFrame, armVars
<1>2. CASE PlayExit
  BY <1>2, EndPowersNone DEF PlayExit
<1>3. CASE ApproachStart \/ ApproachStep \/ PlayPoint
  <2>1. drive' = drive \/ \E ok \in BOOLEAN : SetTargets(ok)
    BY <1>3 DEF ApproachStart, ApproachStep, PlayPoint, armVars
  <2>2. QED
    BY <2>1, SameDrives, SetTargetsDrives
<1>4. CASE DisableArm
  BY <1>4, DisableDrives DEF DisableArm
<1>5. ~PlayLaunch
  BY DEF PlayLaunch
<1>6. QED
  BY <1>1, <1>2, <1>3, <1>4, <1>5 DEF PlayNext, PlayThread

LEMMA TestPowersNone ==
  ASSUME Inv, node = "test", TestNext, ~StartTest
  PROVE  Powered' \subseteq Powered
<1> USE DEF Inv, ArmTypeOK
<1>1. CASE Settled \/ StopTest \/ FaultCheck \/ TestEmcy
  BY <1>1, SameDrives DEF Settled, StopTest, FaultCheck, TestEmcy, EmcyFrame, armVars
<1>2. CASE SettleRefused \/ TestStopped
  BY <1>2, DisableDrives DEF SettleRefused, TestStopped
<1>3. CASE WaveformStep
  BY <1>3, SetTargetsDrives DEF WaveformStep
<1>4. CASE TestExit
  BY <1>4, EndPowersNone DEF TestExit
<1>5. ~TestLaunch
  BY DEF TestLaunch
<1>6. QED
  BY <1>1, <1>2, <1>3, <1>4, <1>5 DEF TestNext

\* No call of the applications but enable_csp powers a drive: not init_passive,
\* not a command that failed part-way, not a restart on whatever was left.
THEOREM PowerComesFromEnable == Spec => OnlyEnablePowers
<1>1. Inv /\ [Next]_vars => [Powered' \subseteq Powered \/ EnableArm \/ StartTest]_vars
  <2> SUFFICES ASSUME Inv, [Next]_vars, ~EnableArm, ~StartTest
               PROVE  Powered' \subseteq Powered
    OBVIOUS
  <2>1. CASE CspLaunch
    <3>1. drive' = drive
      BY <2>1 DEF CspLaunch, PlayLaunch, TestLaunch, InitCsp
    <3>2. QED
      BY <3>1, SameDrives
  <2>2. CASE Kill
    BY <2>2, SameDrives DEF Kill, Killed
  <2>3. CASE Environment
    <3>1. drive \in [Joints -> DriveStates]
      BY DEF Inv, ArmTypeOK
    <3>2. QED
      BY <2>3, <3>1, SameDrives
      DEF Environment, ReadLoop, DriveMoves, DrivesReset, Powered, DriveStates
  <2>4. CASE UNCHANGED vars
    BY <2>4, SameDrives DEF vars, armVars
  <2>5. QED
    BY <2>1, <2>2, <2>3, <2>4, TeachPowersNone, PlayPowersNone, TestPowersNone DEF Next
<1>2. QED
  BY <1>1, Invariance, PTL DEF Spec, OnlyEnablePowers

=============================================================================
