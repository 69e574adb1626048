------------------------------ MODULE MCSdoNode ------------------------------
(* Values of the constants of SdoNode for TLC. *)
EXTENDS SdoNode

CONSTANTS c1, c2, t1, o1, o2

MCCallers == {c1, c2}
MCOneCaller == {c1}
MCTasks == {t1}
MCNoTasks == {}
MCObjects == {o1, o2}

=============================================================================
