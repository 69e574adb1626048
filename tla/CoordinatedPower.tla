--------------------------- MODULE CoordinatedPower ---------------------------
(***************************************************************************)
(* What the power stage promises of a whole arm when every SYNC edge is    *)
(* sent by the driver (sync_period_us = 0): the joints of a powered arm    *)
(* always follow one and the same batch of targets.  How the batch reaches *)
(* the drives, who owns the SDK, and what happens on errors are not        *)
(* visible here.                                                           *)
(***************************************************************************)
CONSTANTS Joints, Targets

VARIABLES
  power,   \* power[j]: drive j is in Operation Enabled
  target   \* target[j]: the target drive j follows while it has power

vars == <<power, target>>

OneTarget == \A i, j \in Joints : target[i] = target[j]

Init ==
  /\ power = [j \in Joints |-> FALSE]
  /\ target \in [Joints -> Targets]

\* A joint gets power only when all joints hold the same batch.
PowerOn(j) ==
  /\ OneTarget
  /\ power' = [power EXCEPT ![j] = TRUE]
  /\ UNCHANGED target

\* Joints lose power: a stop, a disable, a fault.
PowerOff ==
  /\ power' \in [Joints -> BOOLEAN]
  /\ \A j \in Joints : power'[j] => power[j]
  /\ UNCHANGED target

\* Nothing moves: feedback polling and seeding may leave any targets behind.
Refresh ==
  /\ \A j \in Joints : ~power[j]
  /\ target' \in [Joints -> Targets]
  /\ UNCHANGED power

\* The arm moves on to the next batch in one SYNC edge.
Move(b) ==
  /\ target' = [j \in Joints |-> b]
  /\ UNCHANGED power

Next ==
  \/ PowerOff \/ Refresh
  \/ \E j \in Joints : PowerOn(j)
  \/ \E b \in Targets : Move(b)

Spec == Init /\ [][Next]_vars

\* A powered arm follows one batch: this is what CSP coordination is about.
PoweredFollowsOneBatch == (\E j \in Joints : power[j]) => OneTarget

=============================================================================
