------------------------------ MODULE Playback ------------------------------
(***************************************************************************)
(* The playback node (playback_node.cpp): services on the executor thread, *)
(* one play thread that enables the arm, approaches the first point, plays *)
(* the points, lap after lap when looping, and disables the arm.  Points   *)
(* are not counted: a lap ends at any step.  playing_ is pc # "idle".      *)
(***************************************************************************)
EXTENDS ArmApi

CONSTANT Loop   \* loop_
ASSUME LoopAssumption == Loop \in BOOLEAN

VARIABLES
  stop_requested, \* stop_requested_
  quitting        \* the executor has returned; the destructor waits to join

playVars == <<stop_requested, quitting>>

PlayAt == {"idle", "check", "enable", "start", "approach", "step",
           "play", "point", "disable"}

PlayTypeOK == stop_requested \in BOOLEAN /\ quitting \in BOOLEAN

PlayInit == stop_requested = FALSE /\ quitting = FALSE

PlayEnds == stop_requested' = FALSE /\ quitting' = FALSE

-----------------------------------------------------------------------------
(* The executor thread. *)

PlayLaunch ==
  /\ node = "none"
  /\ \E ok \in BOOLEAN :
       /\ InitCsp(ok)
       /\ IF ok THEN node' = "playback" /\ pc' = "idle" ELSE UNCHANGED <<node, pc>>
  /\ UNCHANGED playVars

\* ~/play with a trajectory that was accepted.
OnPlay ==
  /\ node = "playback" /\ pc = "idle" /\ ~quitting
  /\ stop_requested' = FALSE
  /\ pc' = "check"
  /\ UNCHANGED <<armVars, node, quitting>>

OnStop ==
  /\ node = "playback" /\ ~quitting
  /\ stop_requested' = TRUE
  /\ UNCHANGED <<armVars, node, pc, quitting>>

\* The destructor asks the play thread to end.
PlayQuit ==
  /\ node = "playback" /\ ~quitting
  /\ quitting' = TRUE /\ stop_requested' = TRUE
  /\ UNCHANGED <<armVars, node, pc>>

\* It has ended: disable_arm, then shutdown.
PlayExit ==
  /\ node = "playback" /\ quitting /\ pc = "idle"
  /\ Scattered({"DisableOperation", "DisableVoltage"})
  /\ ProcessEnds /\ PlayEnds

-----------------------------------------------------------------------------
(* The play thread. *)

At(here, there) == node = "playback" /\ pc = here /\ pc' = there

\* Mutant of CheckPosition: the thread, not on_play, clears the stop request.
CheckPositionClearsStop ==
  /\ \/ At("check", "idle")
     \/ At("check", "enable") /\ cache_valid
  /\ stop_requested' = FALSE
  /\ UNCHANGED <<armVars, node, quitting>>

\* Feedback is there and within the limits, or the playback is rejected.
CheckPosition ==
  /\ \/ At("check", "idle")
     \/ At("check", "enable") /\ cache_valid
  /\ UNCHANGED <<armVars, node, playVars>>

EnableArm ==
  /\ \/ At("enable", "start") /\ EnableCsp(TRUE)
     \/ At("enable", "disable") /\ EnableCsp(FALSE)
  /\ UNCHANGED <<node, playVars>>

\* approach_first_point, up to the first wait: refused, already near the first
\* point (one hold target, written without a look at stop_requested), or far.
ApproachStart ==
  /\ \/ At("start", "disable") /\ UNCHANGED armVars
     \/ At("start", "approach") /\ UNCHANGED armVars
     \/ At("start", "play") /\ SetTargets(TRUE)
     \/ At("start", "disable") /\ SetTargets(FALSE)
  /\ UNCHANGED <<node, playVars>>

\* sleep_until_interruptible ends the wait early on a stop or a fault.
Interrupted == stop_requested \/ fault_detected

\* The wait for the next target, of the approach or of the trajectory.
Wait ==
  /\ \/ Interrupted /\ (At("approach", "disable") \/ At("play", "disable"))
     \/ ~Interrupted /\ (At("approach", "step") \/ At("play", "point"))
  /\ UNCHANGED <<armVars, node, playVars>>

\* One step of the approach; the last one leads to the trajectory.
ApproachStep ==
  /\ \/ At("step", "approach") /\ ~fault_detected /\ SetTargets(TRUE)
     \/ At("step", "play") /\ ~fault_detected /\ SetTargets(TRUE)
     \/ At("step", "disable") /\ fault_detected /\ SetTargets(TRUE)
     \/ At("step", "disable") /\ SetTargets(FALSE)
  /\ UNCHANGED <<node, playVars>>

\* One point of the trajectory.
PlayPoint ==
  /\ \/ At("point", "play") /\ ~fault_detected /\ SetTargets(TRUE)
     \/ At("point", "disable") /\ fault_detected /\ SetTargets(TRUE)
     \/ At("point", "disable") /\ SetTargets(FALSE)
  /\ UNCHANGED <<node, playVars>>

\* The last point was written.
LapEnds ==
  /\ IF Loop /\ ~stop_requested THEN At("play", "start") ELSE At("play", "disable")
  /\ UNCHANGED <<armVars, node, playVars>>

\* disable_arm; playing_ = false.
DisableArm ==
  /\ At("disable", "idle")
  /\ \E ok \in BOOLEAN : Disable(ok)
  /\ UNCHANGED <<node, playVars>>

PlayThread ==
  \/ CheckPosition \/ EnableArm \/ ApproachStart \/ Wait \/ ApproachStep
  \/ PlayPoint \/ LapEnds \/ DisableArm

\* The node sets no EMCY callback: it polls has_fault().
PlayEmcy == node = "playback" /\ EmcyFrame /\ UNCHANGED playVars

PlayNext ==
  \/ PlayLaunch \/ OnPlay \/ OnStop \/ PlayQuit \/ PlayExit \/ PlayThread \/ PlayEmcy

=============================================================================
