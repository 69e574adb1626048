-------------------------- MODULE SystemParameters --------------------------
(* Parameters of MiraculousSystem that the specification depends on.       *)
EXTENDS Naturals

CONSTANT FollowingErrorCycles   \* following_error_cycles_, 0 would switch the
                                \* check off

ASSUME CyclesAssumption == FollowingErrorCycles \in Nat \ {0}

=============================================================================
