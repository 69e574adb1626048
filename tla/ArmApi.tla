------------------------------- MODULE ArmApi -------------------------------
(***************************************************************************)
(* MiraculousArm as an application process sees it (miraculous_arm.cpp):   *)
(* each call of its interface is one step, from entry to return, with the  *)
(* outcomes the caller can observe and every state the drives may be left  *)
(* in.  What happens inside a call, against read_loop and the SYNC timer,  *)
(* is the subject of ArmCsp.  The applications use manual SYNC only        *)
(* (sync_period_us = 0).                                                   *)
(*                                                                         *)
(* The module also holds what the applications share: which of them runs,  *)
(* its death at any moment, and the drives, which outlive it.  That the    *)
(* CAN bus has one owner process at a time is assumed, as the manuals      *)
(* demand; nothing in the code enforces it.                                *)
(***************************************************************************)
EXTENDS Cia402, FiniteSets

CONSTANT Joints
ASSUME JointsAssumption == IsFiniteSet(Joints) /\ Joints # {}

VARIABLES
  drive,          \* CiA 402 state of each drive
  arm,            \* initialized_ and passive_: "none", "csp" or "passive"
  csp_active,     \* csp_active_
  exclusive,      \* exclusive_sdk_io_
  fault_detected, \* fault_detected_
  cache_valid,    \* cache_valid_
  node,           \* the application that owns the bus
  pc              \* where its one active call chain is; "idle" between calls

armVars == <<drive, arm, csp_active, exclusive, fault_detected, cache_valid>>

Nodes == {"none", "teach", "playback", "test"}

ArmTypeOK ==
  /\ drive \in [Joints -> DriveStates]
  /\ arm \in {"none", "csp", "passive"}
  /\ csp_active \in BOOLEAN /\ exclusive \in BOOLEAN
  /\ fault_detected \in BOOLEAN /\ cache_valid \in BOOLEAN
  /\ node \in Nodes

NoArm ==
  /\ arm = "none" /\ csp_active = FALSE /\ exclusive = FALSE
  /\ fault_detected = FALSE /\ cache_valid = FALSE
  /\ node = "none" /\ pc = "none"

ArmInit == drive \in [Joints -> DriveStates \ {"OperationEnabled"}] /\ NoArm

-----------------------------------------------------------------------------
(* What a call does to the drives. *)

\* A call that failed part-way: each drive executed one of the commands or none.
Scattered(commands) ==
  /\ drive' \in [Joints -> DriveStates]
  /\ \A j \in Joints :
       drive'[j] \in {drive[j]} \cup {After(c, drive[j]) : c \in commands}

\* The command reached every drive and every drive confirmed the state.
Confirmed(command, state) ==
  /\ \A j \in Joints : After(command, drive[j]) = state
  /\ drive' = [j \in Joints |-> state]

\* One controlword to every joint and a verified wait for the state it leads to.
Command(command, state, ok) ==
  IF ok THEN Confirmed(command, state) ELSE Scattered({command})

-----------------------------------------------------------------------------
(* The interface.  ok is what the call returns. *)

\* init(): NMT and CSP configuration; no power-state command is written.
InitCsp(ok) ==
  /\ arm = "none"
  /\ arm' = IF ok THEN "csp" ELSE "none"
  /\ UNCHANGED <<drive, csp_active, exclusive, fault_detected, cache_valid>>

\* Mutant of InitPassive: a Shutdown that was accepted is not verified.
InitPassiveUnverified(ok) ==
  /\ arm = "none"
  /\ Scattered({"Shutdown"})
  /\ arm' = IF ok THEN "passive" ELSE "none"
  /\ UNCHANGED <<csp_active, exclusive, fault_detected, cache_valid>>

\* init_passive(): Shutdown on every drive, verified.  When it is not, the drives
\* are asked to drop voltage before the handles are closed.
InitPassive(ok) ==
  /\ arm = "none"
  /\ IF ok THEN Confirmed("Shutdown", "ReadyToSwitchOn")
           ELSE Scattered({"Shutdown", "DisableVoltage"})
  /\ arm' = IF ok THEN "passive" ELSE "none"
  /\ UNCHANGED <<csp_active, exclusive, fault_detected, cache_valid>>

\* A drive that is enabled by the all-axes transaction started anywhere but in
\* a fault or a quick stop; 4 commands take it there.
Enabled == \A j \in Joints : drive[j] \notin {"Fault", "QuickStopActive"}

\* enable_csp(): all axes enabled; or rolled back and verified; or an incomplete
\* rollback, after which the bus stays quarantined.
EnableCsp(ok) ==
  /\ arm = "csp" /\ ~csp_active
  /\ IF ok THEN /\ Enabled /\ drive' = [j \in Joints |-> "OperationEnabled"]
                /\ csp_active' = TRUE /\ exclusive' = TRUE
                /\ cache_valid' = TRUE
     ELSE /\ \/ /\ \A j \in Joints : drive[j] # "Fault"
                /\ drive' = [j \in Joints |-> "SwitchOnDisabled"]
                /\ exclusive' = FALSE
             \/ /\ drive' \in [Joints -> DriveStates]
                /\ \A j \in Joints : drive'[j] = "Fault" <=> drive[j] = "Fault"
                /\ exclusive' = TRUE
          /\ UNCHANGED <<csp_active, cache_valid>>
  /\ UNCHANGED <<arm, fault_detected>>

\* Mutant of SetTargets: the failure path ends the motion but not the power.
SetTargetsNoQuarantine(ok) ==
  /\ IF ok THEN csp_active /\ cache_valid' = TRUE /\ UNCHANGED <<drive, csp_active, exclusive>>
     ELSE IF ~csp_active THEN UNCHANGED <<drive, csp_active, exclusive, cache_valid>>
     ELSE /\ Scattered({"QuickStop"})
          /\ csp_active' = FALSE /\ exclusive' = FALSE
          /\ UNCHANGED cache_valid
  /\ UNCHANGED <<arm, fault_detected>>

\* set_targets_rad(): a refused target, a failed write, a missing answer or a
\* following error quick-stops the arm and quarantines the bus.
SetTargets(ok) ==
  /\ IF ok THEN csp_active /\ cache_valid' = TRUE /\ UNCHANGED <<drive, csp_active, exclusive>>
     ELSE IF ~csp_active THEN UNCHANGED <<drive, csp_active, exclusive, cache_valid>>
     ELSE /\ Scattered({"QuickStop"})
          /\ csp_active' = FALSE /\ exclusive' = TRUE
          /\ UNCHANGED cache_valid
  /\ UNCHANGED <<arm, fault_detected>>

\* disable(): after an incomplete rollback or a quick stop the verified
\* disable-voltage path, else Disable Operation to Switched On.
Disable(ok) ==
  /\ arm # "none"
  /\ IF ~csp_active /\ exclusive
     THEN Command("DisableVoltage", "SwitchOnDisabled", ok)
     ELSE Command("DisableOperation", "SwitchedOn", ok)
  /\ csp_active' = FALSE /\ exclusive' = ~ok
  /\ UNCHANGED <<arm, fault_detected, cache_valid>>

DisableVoltage(ok) ==
  /\ arm # "none"
  /\ Command("DisableVoltage", "SwitchOnDisabled", ok)
  /\ csp_active' = FALSE /\ exclusive' = ~ok
  /\ UNCHANGED <<arm, fault_detected, cache_valid>>

\* is_passive_ready(): every state word is read and is Ready to Switch On.
PassiveReady(ok) == ok => \A j \in Joints : drive[j] = "ReadyToSwitchOn"

\* read_passive_feedback(): one SYNC, an answer of every drive.
ReadPassiveFeedback(ok) ==
  /\ cache_valid' = (cache_valid \/ ok)
  /\ UNCHANGED <<drive, arm, csp_active, exclusive, fault_detected>>

\* The process ends: by its destructors, which drop the voltage of every drive
\* the calls reach, or by being killed, which leaves the drives as they are.
ProcessEnds ==
  /\ arm' = "none" /\ node' = "none" /\ pc' = "none"
  /\ csp_active' = FALSE /\ exclusive' = FALSE
  /\ fault_detected' = FALSE /\ cache_valid' = FALSE

Shutdown == Scattered({"DisableVoltage"}) /\ ProcessEnds

Killed == node # "none" /\ UNCHANGED drive /\ ProcessEnds

-----------------------------------------------------------------------------
(* What the arm's other threads and the drives do between the calls. *)

\* emcy_trampoline, up to the application's callback.
EmcyFrame ==
  /\ arm # "none"
  /\ fault_detected' = TRUE
  /\ UNCHANGED <<drive, arm, csp_active, exclusive, cache_valid, node, pc>>

\* One cycle of read_loop (a CSP arm only): feedback, and now and then the state
\* words of the drives.
ReadLoop ==
  /\ arm = "csp" /\ ~exclusive
  /\ cache_valid' \in {cache_valid, TRUE}
  /\ fault_detected' \in {fault_detected,
                          fault_detected \/ \E j \in Joints : drive[j] = "Fault"}
  /\ UNCHANGED <<drive, arm, csp_active, exclusive, node, pc>>

\* A drive faults by itself, or a quick stop runs out.
DriveMoves ==
  /\ \E j \in Joints :
       \/ drive[j] # "Fault" /\ drive' = [drive EXCEPT ![j] = "Fault"]
       \/ drive[j] = "QuickStopActive" /\ drive' = [drive EXCEPT ![j] = "SwitchOnDisabled"]
  /\ UNCHANGED <<arm, csp_active, exclusive, fault_detected, cache_valid, node, pc>>

\* With no process on the bus the operator resets the drives.
DrivesReset ==
  /\ node = "none"
  /\ drive' = [j \in Joints |-> "SwitchOnDisabled"]
  /\ UNCHANGED <<arm, csp_active, exclusive, fault_detected, cache_valid, node, pc>>

=============================================================================
