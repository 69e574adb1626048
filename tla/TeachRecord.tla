----------------------------- MODULE TeachRecord -----------------------------
(***************************************************************************)
(* The teach_record node (teach_record_node.cpp): the arm is held without  *)
(* power, samples are taken by one explicit SYNC each and written to a     *)
(* file while recording.  Services and timer run one at a time on the      *)
(* executor thread; an EMCY arrives on the SDK receive thread at any       *)
(* moment, also while a callback waits for feedback.                       *)
(***************************************************************************)
EXTENDS ArmApi, Integers

CONSTANT MaxMisses   \* max_consecutive_misses_
ASSUME MaxMissesAssumption == MaxMisses \in Nat \ {0}

VARIABLES
  recording,     \* recording_
  fault_latched, \* fault_latched_
  emcy_pending,  \* emcy_pending_
  misses         \* consecutive_misses_

teachVars == <<recording, fault_latched, emcy_pending, misses>>

\* "auto" and "autoFirst" are start_recording called by the constructor.
TeachAt == {"startup", "auto", "autoFirst", "idle", "first", "sample"}

TeachTypeOK ==
  /\ recording \in BOOLEAN /\ fault_latched \in BOOLEAN
  /\ emcy_pending \in BOOLEAN
  /\ misses \in 0 .. MaxMisses

TeachInit ==
  /\ recording = FALSE /\ fault_latched = FALSE
  /\ emcy_pending = FALSE /\ misses = 0

TeachEnds ==
  /\ recording' = FALSE /\ fault_latched' = FALSE
  /\ emcy_pending' = FALSE /\ misses' = 0

FaultSeen == emcy_pending \/ fault_detected

\* Mutant of HandleSafetyFault: the recording goes on.
HandleSafetyFaultKeepsFile ==
  IF fault_latched THEN UNCHANGED <<armVars, teachVars>>
  ELSE /\ fault_latched' = TRUE
       /\ \E ok \in BOOLEAN : DisableVoltage(ok)
       /\ UNCHANGED <<recording, emcy_pending, misses>>

\* handle_safety_fault: latched once, the recording aborted, the voltage dropped
\* once; a drive that does not confirm is only logged.
HandleSafetyFault ==
  IF fault_latched THEN UNCHANGED <<armVars, teachVars>>
  ELSE /\ fault_latched' = TRUE
       /\ recording' = FALSE
       /\ \E ok \in BOOLEAN : DisableVoltage(ok)
       /\ UNCHANGED <<emcy_pending, misses>>

\* What start_recording's caller does with a refusal: the service answers, the
\* constructor throws and the arm is shut down.
Refused == IF pc \in {"idle", "first"} THEN pc' = "idle" ELSE pc' = "throw"

-----------------------------------------------------------------------------

\* The constructor up to the EMCY callback.
TeachLaunch ==
  /\ node = "none"
  /\ \E ok \in BOOLEAN :
       /\ InitPassive(ok)
       /\ IF ok THEN node' = "teach" /\ pc' = "startup" ELSE UNCHANGED <<node, pc>>
  /\ UNCHANGED teachVars

\* wait_for_startup_feedback, then the rest of the constructor.
StartupFeedback ==
  /\ node = "teach" /\ pc = "startup" /\ ~FaultSeen
  /\ ReadPassiveFeedback(TRUE)
  /\ pc' \in {"idle", "auto"}
  /\ UNCHANGED <<node, teachVars>>

\* A fault, or no complete feedback set in the start-up window: the voltage is
\* dropped and the constructor throws.
StartupFails ==
  /\ node = "teach" /\ pc = "startup"
  /\ \E ok \in BOOLEAN : DisableVoltage(ok)
  /\ pc' = "throw"
  /\ UNCHANGED <<node, teachVars>>

\* start_recording up to the first sample.
StartRecording ==
  /\ node = "teach" /\ pc \in {"idle", "auto"} /\ ~recording
  /\ IF fault_latched \/ FaultSeen THEN HandleSafetyFault /\ Refused
     ELSE /\ UNCHANGED <<armVars, teachVars>>
          /\ \/ Refused
             \/ /\ PassiveReady(TRUE)
                /\ pc' = IF pc = "idle" THEN "first" ELSE "autoFirst"
  /\ UNCHANGED node

\* The rest of start_recording: the first sample arrives, the file is opened and
\* the first row written.
FirstSample ==
  /\ node = "teach" /\ pc \in {"first", "autoFirst"}
  /\ ReadPassiveFeedback(TRUE)
  /\ \/ /\ recording' = TRUE /\ misses' = 0 /\ pc' = "idle"
        /\ UNCHANGED <<fault_latched, emcy_pending>>
     \/ /\ Refused /\ misses' \in {misses, 0}
        /\ UNCHANGED <<recording, fault_latched, emcy_pending>>
  /\ UNCHANGED node

FirstSampleMissing ==
  /\ node = "teach" /\ pc \in {"first", "autoFirst"}
  /\ IF FaultSeen THEN HandleSafetyFault ELSE UNCHANGED <<armVars, teachVars>>
  /\ Refused
  /\ UNCHANGED node

StopRecording ==
  /\ node = "teach" /\ pc = "idle" /\ recording
  /\ recording' = FALSE
  /\ UNCHANGED <<armVars, node, pc, fault_latched, emcy_pending, misses>>

\* on_timer up to its SYNC.
TimerTick ==
  /\ node = "teach" /\ pc = "idle"
  /\ IF FaultSeen THEN HandleSafetyFault /\ UNCHANGED pc
     ELSE pc' = "sample" /\ UNCHANGED <<armVars, teachVars>>
  /\ UNCHANGED node

\* on_timer with its sample: no row once a fault is seen; a failed write ends the
\* recording.
TimerSample ==
  /\ node = "teach" /\ pc = "sample" /\ pc' = "idle"
  /\ IF FaultSeen
     THEN HandleSafetyFault
     ELSE /\ ReadPassiveFeedback(TRUE)
          /\ misses' = 0
          /\ recording' \in {recording, FALSE}
          /\ UNCHANGED <<fault_latched, emcy_pending>>
  /\ UNCHANGED node

\* Mutant of TimerMiss: the recording ends one miss too late.
TimerMissLate ==
  /\ node = "teach" /\ pc = "sample" /\ pc' = "idle"
  /\ IF FaultSeen THEN HandleSafetyFault
     ELSE /\ UNCHANGED armVars
          /\ IF recording
             THEN /\ recording' = (misses + 1 <= MaxMisses)
                  /\ misses' = misses + 1
             ELSE UNCHANGED <<recording, misses>>
          /\ UNCHANGED <<fault_latched, emcy_pending>>
  /\ UNCHANGED node

\* on_timer without its sample: too many misses in a row end the recording.
TimerMiss ==
  /\ node = "teach" /\ pc = "sample" /\ pc' = "idle"
  /\ IF FaultSeen THEN HandleSafetyFault
     ELSE /\ UNCHANGED armVars
          /\ IF recording
             THEN /\ recording' = (misses + 1 < MaxMisses)
                  /\ misses' = misses + 1
             ELSE UNCHANGED <<recording, misses>>
          /\ UNCHANGED <<fault_latched, emcy_pending>>
  /\ UNCHANGED node

\* The destructor, or an exception in the constructor.
TeachQuit ==
  /\ node = "teach" /\ pc \in {"idle", "throw"}
  /\ Shutdown /\ TeachEnds

\* The node's EMCY callback, set once init_passive has returned.
TeachEmcy ==
  /\ node = "teach" /\ EmcyFrame
  /\ emcy_pending' = TRUE
  /\ UNCHANGED <<recording, fault_latched, misses>>

TeachNext ==
  \/ TeachLaunch \/ StartupFeedback \/ StartupFails
  \/ StartRecording \/ FirstSample \/ FirstSampleMissing \/ StopRecording
  \/ TimerTick \/ TimerSample \/ TimerMiss
  \/ TeachQuit \/ TeachEmcy

\* The executor serves its timer, and every wait for feedback has a timeout.
TeachServed == FirstSampleMissing \/ FirstSample \/ TimerTick \/ TimerSample \/ TimerMiss

=============================================================================
