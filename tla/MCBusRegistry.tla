---------------------------- MODULE MCBusRegistry ----------------------------
(* Values of the constants of BusRegistry for TLC. *)
EXTENDS BusRegistry

CONSTANTS can0, can1, n1, n2, n3, t1, t2, t3

\* Two threads compete for a drive, three for the bus, whose TPDO table is one
\* entry short for them all; the other bus does not fit in the registry.
MCDrives == {<<can0, n1>>, <<can0, n2>>, <<can0, n3>>, <<can1, n1>>}
MCThreads == {t1, t2, t3}
MCOpens == [t \in MCThreads |->
              CASE t = t1 -> {<<can0, n1>>}
                [] t = t2 -> {<<can0, n1>>, <<can0, n2>>}
                [] t = t3 -> {<<can0, n3>>, <<can1, n1>>}]

=============================================================================
