----------------------------- MODULE MCSyncTimer -----------------------------
(* Values of the constants of SyncTimer for TLC. *)
EXTENDS SyncTimer

MCPeriods == {1000}

=============================================================================
