----------------------------- MODULE ArmContract -----------------------------
(***************************************************************************)
(* What MiraculousArm promises the thread that calls it, whoever sends the *)
(* SYNC edges: which controlwords each call may give to the drives, when a *)
(* drive can get power, and what every return value says of the drives.    *)
(* Locks, flags, targets, read_loop and the SYNC timer are not visible.    *)
(***************************************************************************)
EXTENDS Cia402

CONSTANTS Joints, TrustedRestart

VARIABLES
  drive,  \* CiA 402 state of each drive
  phase   \* the call in progress, or what the last one left behind

vars == <<drive, phase>>

\* The controlwords a call may send to any drive, each any number of times.
Words ==
  [enabling  |-> Commands \ {"DisableOperation"},
   setting   |-> {},
   stopping  |-> {"QuickStop"},
   disabling |-> {"DisableOperation", "DisableVoltage"},
   shutting  |-> {"DisableVoltage"}]

\* Between calls an arm rests, or follows targets, or is quarantined: its drives
\* are in no state the driver vouches for.
Ready == {"resting", "active", "quarantined"}
Phases == DOMAIN Words \cup Ready \cup {"closed"}

NoPower == \A j \in Joints : drive[j] # "OperationEnabled"

TypeOK == drive \in [Joints -> DriveStates] /\ phase \in Phases

Init == drive = [j \in Joints |-> "SwitchOnDisabled"] /\ phase = "closed"

\* Each drive executed one of the words or none.
Obey(words) ==
  /\ drive' \in [Joints -> DriveStates]
  /\ \A j \in Joints :
       drive'[j] \in {drive[j]} \cup {After(c, drive[j]) : c \in words}

Enter(from, to) == phase \in from /\ phase' = to /\ UNCHANGED drive
Return(from, to) == phase = from /\ phase' = to /\ Obey(Words[from])

-----------------------------------------------------------------------------
Start ==
  /\ TrustedRestart => NoPower
  /\ Enter({"closed"}, "resting")

Call ==
  \/ Enter(Ready \ {"active"}, "enabling")
  \/ Enter({"active"}, "setting")
  \/ Enter(Ready \cup {"setting"}, "stopping")   \* refused targets stop the arm
  \/ Enter(Ready, "disabling")
  \/ Enter(Ready, "shutting")

\* A step of the call in progress.
Work == phase \in DOMAIN Words /\ Obey(Words[phase]) /\ UNCHANGED phase

\* enable_csp: every drive took part, and may only have dropped out by itself;
\* or every drive was verified to be without voltage; or it is not known.
Enabled ==
  /\ Return("enabling", "active")
  /\ UNCHANGED drive
  /\ \A j \in Joints : drive[j] \in {"OperationEnabled", "Fault", "SwitchOnDisabled"}

RolledBack ==
  /\ Return("enabling", "resting")
  /\ drive' = [j \in Joints |-> "SwitchOnDisabled"]

RollbackFails ==
  /\ phase = "enabling" /\ phase' = "quarantined"
  /\ Obey({"DisableVoltage"})

Accepted == Return("setting", "active")

\* Whatever quick_stop achieved, the arm is quarantined.
Stopped == Return("stopping", "quarantined")

\* disable returns true only over drives that it saw at rest.
Disabled ==
  /\ Return("disabling", "resting")
  /\ UNCHANGED drive
  /\ \A j \in Joints : drive[j] \in {"SwitchedOn", "SwitchOnDisabled", "Fault"}

DisableFails == Return("disabling", "quarantined") /\ UNCHANGED drive

Closed == Return("shutting", "closed")

Killed == Enter(Phases \ {"closed"}, "closed")

\* A drive faults, or its fault is cleared at the drive.
DriveMoves(j) ==
  /\ \/ drive[j] # "Fault" /\ drive' = [drive EXCEPT ![j] = "Fault"]
     \/ drive[j] = "Fault" /\ drive' = [drive EXCEPT ![j] = "SwitchOnDisabled"]
  /\ UNCHANGED phase

Next ==
  \/ Start \/ Call \/ Work \/ Enabled \/ RolledBack \/ RollbackFails
  \/ Accepted \/ Stopped \/ Disabled \/ DisableFails \/ Closed \/ Killed
  \/ \E j \in Joints : DriveMoves(j)

Spec == Init /\ [][Next]_vars

-----------------------------------------------------------------------------
(* Consequences of the contract, which its implementations inherit. *)

\* An arm that rests has no drive in Operation Enabled: enable_csp starts from
\* drives without power, and the owner may leave the arm alone.
RestIsUnpowered == TrustedRestart /\ phase = "resting" => NoPower

\* No call but enable_csp gives power to a drive, and nothing between calls does.
OnlyEnablePowers ==
  [][\A j \in Joints :
       drive[j] # "OperationEnabled" /\ drive'[j] = "OperationEnabled"
         => phase = "enabling" /\ phase' = "enabling"]_vars

=============================================================================
