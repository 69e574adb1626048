----------------------------- MODULE MotorHandles -----------------------------
(***************************************************************************)
(* What the SDK promises of motor handles: a drive has one handle at a     *)
(* time, which lives on a bus that is up, and closing it waits for its     *)
(* callbacks.  Masters, reference counts, locks and receive threads are    *)
(* not visible.                                                            *)
(***************************************************************************)
CONSTANTS
  Threads,  \* application threads
  Ifaces,   \* CAN interfaces
  Drives,   \* pairs of interface and node id
  Opens,    \* the drives each thread may open
  None

VARIABLES
  handle,   \* the thread that has a handle on each drive
  running,  \* threads whose handle has a callback running
  up        \* interfaces whose bus is up

vars == <<handle, running, up>>

Init ==
  /\ handle = [d \in Drives |-> None]
  /\ running = {}
  /\ up = {}

BusUp(i) ==
  /\ i \notin up
  /\ up' = up \cup {i}
  /\ UNCHANGED <<handle, running>>

\* A bus goes down only under no handle.
BusDown(i) ==
  /\ i \in up
  /\ \A d \in Drives : d[1] = i => handle[d] = None
  /\ up' = up \ {i}
  /\ UNCHANGED <<handle, running>>

Open(t, d) ==
  /\ d[1] \in up
  /\ handle[d] = None
  /\ \A e \in Drives : handle[e] # t
  /\ handle' = [handle EXCEPT ![d] = t]
  /\ UNCHANGED <<running, up>>

\* The handle is freed only while none of its callbacks runs.
Close(t, d) ==
  /\ handle[d] = t
  /\ t \notin running
  /\ handle' = [handle EXCEPT ![d] = None]
  /\ UNCHANGED <<running, up>>

\* A callback is for a handle that exists.
CallbackBegins(t) ==
  /\ t \notin running
  /\ \E d \in Drives : handle[d] = t
  /\ running' = running \cup {t}
  /\ UNCHANGED <<handle, up>>

CallbackEnds(t) ==
  /\ t \in running
  /\ running' = running \ {t}
  /\ UNCHANGED <<handle, up>>

Next ==
  \/ \E i \in Ifaces : BusUp(i) \/ BusDown(i)
  \/ \E t \in Threads :
       \/ \E d \in Opens[t] : Open(t, d)
       \/ \E d \in Drives : Close(t, d)
       \/ CallbackBegins(t) \/ CallbackEnds(t)

Spec == Init /\ [][Next]_vars

=============================================================================
