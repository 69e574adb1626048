------------------------------- MODULE Cia402 -------------------------------
(***************************************************************************)
(* The CiA 402 power state machine of one drive, as the SDK's controlword  *)
(* calls see it (motion_state.c).  The transient states in which a drive   *)
(* accepts no command (Not Ready to Switch On, Fault Reaction Active) are  *)
(* part of "SwitchOnDisabled" and "Fault".                                 *)
(***************************************************************************)

DriveStates == {"SwitchOnDisabled", "ReadyToSwitchOn", "SwitchedOn",
                "OperationEnabled", "QuickStopActive", "Fault"}

Commands == {"Shutdown", "SwitchOn", "EnableOperation", "DisableOperation",
             "DisableVoltage", "QuickStop"}

\* The transitions of a CiA 402 drive: where each controlword is effective and
\* where it leads.  Switch On and Disable Operation both write 0x0007.
Effective ==
  [Shutdown         |-> {"SwitchOnDisabled", "SwitchedOn", "OperationEnabled"},
   SwitchOn         |-> {"ReadyToSwitchOn", "OperationEnabled"},
   EnableOperation  |-> {"SwitchedOn"},
   DisableOperation |-> {"ReadyToSwitchOn", "OperationEnabled"},
   DisableVoltage   |-> DriveStates \ {"Fault"},
   QuickStop        |-> {"ReadyToSwitchOn", "SwitchedOn", "OperationEnabled"}]

LeadsTo ==
  [Shutdown         |-> "ReadyToSwitchOn",
   SwitchOn         |-> "SwitchedOn",
   EnableOperation  |-> "OperationEnabled",
   DisableOperation |-> "SwitchedOn",
   DisableVoltage   |-> "SwitchOnDisabled",
   QuickStop        |-> "SwitchOnDisabled"]

\* CiA 402 state a drive is in after it received a controlword.
After(command, s) ==
  IF s \notin Effective[command] THEN s
  ELSE IF command = "QuickStop" /\ s = "OperationEnabled" THEN "QuickStopActive"
  ELSE LeadsTo[command]

=============================================================================
