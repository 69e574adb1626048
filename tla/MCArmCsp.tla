------------------------------ MODULE MCArmCsp ------------------------------
(* Values of the constants of ArmCsp for TLC. *)
EXTENDS ArmCsp

MCBatches == 1 .. 2 * NumJoints + 2
MCNoBatch == 0

=============================================================================
