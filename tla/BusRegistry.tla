----------------------------- MODULE BusRegistry -----------------------------
(***************************************************************************)
(* Opening and closing motor handles (miraculous_motor_open and            *)
(* miraculous_motor_close, motion_state.c) from several threads: the       *)
(* process-wide registry of CANopen masters, one per CAN interface, their  *)
(* reference counts, and each master's receive thread, which runs the TPDO *)
(* callbacks and the asynchronous SDO dispatch of the open motors.         *)
(*                                                                         *)
(* A mutex is modelled where its owner can block while it holds it:        *)
(* g_bus_lock across the join of a receive thread, and pdo->lock and       *)
(* motor_registry_lock across a callback.  Every other critical section is *)
(* one step.  A thread has at most one motor and names it.  The CANopen    *)
(* callbacks of the application do not open or close motors themselves.    *)
(***************************************************************************)
EXTENDS Naturals, FiniteSets

CONSTANTS
  Threads,    \* application threads; each names the motor it opens
  Ifaces,     \* CAN interface names
  NodeIds,    \* CANopen node ids
  Drives,     \* pairs of interface and node id
  Opens,      \* the drives each thread may open
  Masters,    \* identities of MiraCoMaster objects, reused once freed
  None,
  MaxBuses,   \* MAX_BUS_REGISTRY
  MaxTpdo     \* MAX_TPDO_CBS

ASSUME MastersAssumption ==
  IsFiniteSet(Threads) /\ IsFiniteSet(Masters)
    /\ Cardinality(Masters) >= 2 * Cardinality(Threads)
ASSUME NoneAssumption == None \notin Threads \cup Masters \cup Ifaces
ASSUME DrivesAssumption == Drives \subseteq Ifaces \X NodeIds
                             /\ Opens \in [Threads -> SUBSET Drives]
ASSUME LimitsAssumption == MaxBuses \in Nat /\ MaxTpdo \in Nat

VARIABLES
  registry,      \* g_bus_reg: the master registered for each interface
  refcount,      \* refcount of each master; 0 when the object does not exist
  receiving,     \* what the receive thread does
  serving,       \* the motor whose callback the receive thread runs
  tpdo,          \* entries of the PDO registry: motor and PDO number
  motor_by_node, \* motor_by_node of each master
  pc,            \* where a thread is
  drive,         \* interface and node id it opens, None when it has no call
  co,            \* the master it refers to
  spare,         \* a master it created and has to free again
  motor          \* its MiraMotor object exists

busVars == <<registry, refcount>>
recvVars == <<receiving, serving>>
callbackVars == <<tpdo, motor_by_node>>
threadVars == <<pc, drive, co, spare, motor>>
vars == <<busVars, recvVars, callbackVars, threadVars>>

Working == {"create", "recheck", "freeSpare", "joinSpare", "list",
            "hook2", "hook3", "unhook", "unlist", "release", "drop", "join"}

TypeOK ==
  /\ registry \in [Ifaces -> Masters \cup {None}]
  /\ refcount \in [Masters -> 0 .. Cardinality(Threads)]
  /\ receiving \in [Masters -> {"off", "poll", "tpdo", "sdo", "other"}]
  /\ serving \in [Masters -> Threads \cup {None}]
  /\ tpdo \in [Masters -> SUBSET (Threads \X {2, 3})]
  /\ \A m \in Masters : Cardinality(tpdo[m]) <= MaxTpdo
  /\ motor_by_node \in [Masters -> [NodeIds -> Threads \cup {None}]]
  /\ pc \in [Threads -> Working \cup {"out", "open"}]
  /\ drive \in [Threads -> Drives \cup {None}]
  /\ co \in [Threads -> Masters \cup {None}]
  /\ spare \in [Threads -> Masters \cup {None}]
  /\ motor \in [Threads -> BOOLEAN]

Init ==
  /\ registry = [i \in Ifaces |-> None]
  /\ refcount = [m \in Masters |-> 0]
  /\ receiving = [m \in Masters |-> "off"]
  /\ serving = [m \in Masters |-> None]
  /\ tpdo = [m \in Masters |-> {}]
  /\ motor_by_node = [m \in Masters |-> [n \in NodeIds |-> None]]
  /\ pc = [t \in Threads |-> "out"]
  /\ drive = [t \in Threads |-> None]
  /\ co = [t \in Threads |-> None]
  /\ spare = [t \in Threads |-> None]
  /\ motor = [t \in Threads |-> FALSE]

-----------------------------------------------------------------------------

Goto(t, there) == pc' = [pc EXCEPT ![t] = there]

CallEnds(t) == Goto(t, "out") /\ drive' = [drive EXCEPT ![t] = None]

\* release_master holds g_bus_lock across miraculous_co_free.
BusLockFree == \A t \in Threads : pc[t] \notin {"drop", "join"}

\* pdo->lock and motor_registry_lock are held across the callbacks.
PdoLockFree(m) == receiving[m] # "tpdo"
RegistryLockFree(m) == receiving[m] # "sdo"

Registered == {i \in Ifaces : registry[i] # None}

\* Mutant of OpenFind: the reference is only counted after the lock.
OpenFindUnreferenced(t, d) ==
  /\ pc[t] = "out" /\ BusLockFree
  /\ drive' = [drive EXCEPT ![t] = d]
  /\ co' = [co EXCEPT ![t] = registry[d[1]]]
  /\ UNCHANGED refcount
  /\ Goto(t, IF registry[d[1]] # None THEN "list" ELSE "create")
  /\ UNCHANGED <<registry, recvVars, callbackVars, spare, motor>>

\* motor_open: the interface has a master, or one is created.
OpenFind(t, d) ==
  /\ pc[t] = "out" /\ BusLockFree
  /\ drive' = [drive EXCEPT ![t] = d]
  /\ co' = [co EXCEPT ![t] = registry[d[1]]]
  /\ IF registry[d[1]] # None
     THEN refcount' = [refcount EXCEPT ![registry[d[1]]] = @ + 1] /\ Goto(t, "list")
     ELSE UNCHANGED refcount /\ Goto(t, "create")
  /\ UNCHANGED <<registry, recvVars, callbackVars, spare, motor>>

\* miraculous_can_open or miraculous_co_init fails.
CreateFails(t) ==
  /\ pc[t] = "create" /\ CallEnds(t)
  /\ UNCHANGED <<busVars, recvVars, callbackVars, co, spare, motor>>

\* Identities that no object has; there always are some (MastersAssumption).
Unborn == {m \in Masters : refcount[m] = 0 /\ receiving[m] = "off"}

\* miraculous_co_init: one reference, a receive thread that runs.
CreateMaster(t) ==
  /\ pc[t] = "create" /\ Goto(t, "recheck")
  /\ Unborn # {}
  /\ LET m == CHOOSE m \in Unborn : TRUE
     IN /\ refcount' = [refcount EXCEPT ![m] = 1]
        /\ receiving' = [receiving EXCEPT ![m] = "poll"]
        /\ co' = [co EXCEPT ![t] = m]
  /\ UNCHANGED <<registry, serving, callbackVars, drive, spare, motor>>

\* Mutant of OpenRecheck: the registry is not searched a second time.
OpenRecheckBlind(t) ==
  /\ pc[t] = "recheck" /\ BusLockFree
  /\ registry' = [registry EXCEPT ![drive[t][1]] = co[t]]
  /\ Goto(t, "list")
  /\ UNCHANGED <<refcount, recvVars, callbackVars, drive, co, spare, motor>>

\* The second look, under the lock: another thread was first, or the master is
\* registered, or the registry is full.
OpenRecheck(t) ==
  /\ pc[t] = "recheck" /\ BusLockFree
  /\ LET existing == registry[drive[t][1]]
     IN IF existing # None
        THEN /\ refcount' = [refcount EXCEPT ![existing] = @ + 1]
             /\ co' = [co EXCEPT ![t] = existing]
             /\ spare' = [spare EXCEPT ![t] = co[t]]
             /\ Goto(t, "freeSpare") /\ UNCHANGED registry
        ELSE IF Cardinality(Registered) < MaxBuses
        THEN /\ registry' = [registry EXCEPT ![drive[t][1]] = co[t]]
             /\ Goto(t, "list") /\ UNCHANGED <<refcount, co, spare>>
        ELSE /\ co' = [co EXCEPT ![t] = None]
             /\ spare' = [spare EXCEPT ![t] = co[t]]
             /\ Goto(t, "freeSpare") /\ UNCHANGED <<registry, refcount>>
  /\ UNCHANGED <<recvVars, callbackVars, drive, motor>>

\* miraculous_co_free of a master nobody else knows: recv_stop is set ...
FreeSpare(t) ==
  /\ pc[t] = "freeSpare" /\ Goto(t, "joinSpare")
  /\ refcount' = [refcount EXCEPT ![spare[t]] = @ - 1]
  /\ UNCHANGED <<registry, recvVars, callbackVars, drive, co, spare, motor>>

\* ... and the receive thread joined.
JoinSpare(t) ==
  /\ pc[t] = "joinSpare" /\ receiving[spare[t]] = "poll"
  /\ receiving' = [receiving EXCEPT ![spare[t]] = "off"]
  /\ spare' = [spare EXCEPT ![t] = None]
  /\ IF co[t] = None THEN CallEnds(t) ELSE Goto(t, "list") /\ UNCHANGED drive
  /\ UNCHANGED <<busVars, serving, callbackVars, co, motor>>

\* The motor object is made and listed.
ListMotor(t) ==
  LET m == co[t] IN
  /\ pc[t] = "list" /\ RegistryLockFree(m)
  /\ motor_by_node[m][drive[t][2]] = None
  /\ motor_by_node' = [motor_by_node EXCEPT ![m][drive[t][2]] = t]
  /\ motor' = [motor EXCEPT ![t] = TRUE]
  /\ Goto(t, "hook2")
  /\ UNCHANGED <<busVars, recvVars, tpdo, drive, co, spare>>

\* No memory for it, or the node is open already: the object is thrown away.
ListRefused(t) ==
  /\ pc[t] = "list" /\ Goto(t, "release")
  /\ UNCHANGED <<busVars, recvVars, callbackVars, drive, co, spare, motor>>

\* Mutant of SetTpdoCallback: the table is checked one entry too late.
SetTpdoCallbackLate(t, pdo) ==
  /\ PdoLockFree(co[t])
  /\ tpdo' = [tpdo EXCEPT ![co[t]] = IF Cardinality(@) <= MaxTpdo
                                     THEN @ \cup {<<t, pdo>>} ELSE @]
  /\ UNCHANGED <<busVars, recvVars, motor_by_node, drive, co, spare, motor>>

\* miraculous_co_pdo_set_tpdo_callback: an entry, or the table is full.
SetTpdoCallback(t, pdo) ==
  /\ PdoLockFree(co[t])
  /\ tpdo' = [tpdo EXCEPT ![co[t]] = IF Cardinality(@) < MaxTpdo
                                     THEN @ \cup {<<t, pdo>>} ELSE @]
  /\ UNCHANGED <<busVars, recvVars, motor_by_node, drive, co, spare, motor>>

HookTpdo2(t) == pc[t] = "hook2" /\ SetTpdoCallback(t, 2) /\ Goto(t, "hook3")

\* Both callbacks are there, or the open is undone.
HookTpdo3(t) ==
  /\ pc[t] = "hook3" /\ SetTpdoCallback(t, 3)
  /\ Goto(t, IF {<<t, 2>>, <<t, 3>>} \subseteq tpdo'[co[t]] THEN "open" ELSE "unhook")

CloseMotor(t) ==
  /\ pc[t] = "open" /\ Goto(t, "unhook")
  /\ UNCHANGED <<busVars, recvVars, callbackVars, drive, co, spare, motor>>

\* Mutant of RemoveCallbacks: pdo->lock is not held across the callbacks, so that
\* the removal does not wait for one that is running.
RemoveCallbacksUnlocked(t) ==
  /\ pc[t] = "unhook" /\ Goto(t, "unlist")
  /\ tpdo' = [tpdo EXCEPT ![co[t]] = {e \in @ : e[1] # t}]
  /\ UNCHANGED <<busVars, recvVars, motor_by_node, drive, co, spare, motor>>

\* miraculous_co_pdo_remove_tpdo_callbacks: waits for a callback in progress.
RemoveCallbacks(t) ==
  /\ pc[t] = "unhook" /\ PdoLockFree(co[t]) /\ Goto(t, "unlist")
  /\ tpdo' = [tpdo EXCEPT ![co[t]] = {e \in @ : e[1] # t}]
  /\ UNCHANGED <<busVars, recvVars, motor_by_node, drive, co, spare, motor>>

\* Mutant of UnlistMotor: motor_registry_lock is not held across the callback.
UnlistMotorUnlocked(t) ==
  /\ pc[t] = "unlist" /\ Goto(t, "release")
  /\ motor_by_node' =
       [motor_by_node EXCEPT ![co[t]][drive[t][2]] = IF @ = t THEN None ELSE @]
  /\ motor' = [motor EXCEPT ![t] = FALSE]
  /\ UNCHANGED <<busVars, recvVars, tpdo, drive, co, spare>>

\* The handle leaves the SDO dispatch, its tasks and then itself are freed.
UnlistMotor(t) ==
  /\ pc[t] = "unlist" /\ RegistryLockFree(co[t]) /\ Goto(t, "release")
  /\ motor_by_node' =
       [motor_by_node EXCEPT ![co[t]][drive[t][2]] = IF @ = t THEN None ELSE @]
  /\ motor' = [motor EXCEPT ![t] = FALSE]
  /\ UNCHANGED <<busVars, recvVars, tpdo, drive, co, spare>>

\* Mutant of ReleaseMaster: the last holder leaves the master registered.
ReleaseMasterRegistered(t) ==
  /\ pc[t] = "release" /\ BusLockFree /\ Goto(t, "drop")
  /\ UNCHANGED <<busVars, recvVars, callbackVars, drive, co, spare, motor>>

\* release_master takes g_bus_lock; the last holder unregisters the master ...
ReleaseMaster(t) ==
  /\ pc[t] = "release" /\ BusLockFree /\ Goto(t, "drop")
  /\ registry' = IF refcount[co[t]] <= 1
                 THEN [i \in Ifaces |-> IF registry[i] = co[t] THEN None ELSE registry[i]]
                 ELSE registry
  /\ UNCHANGED <<refcount, recvVars, callbackVars, drive, co, spare, motor>>

\* Mutant of DropReference: the second to last holder joins the receive thread.
DropReferenceEarly(t) ==
  /\ pc[t] = "drop"
  /\ refcount' = [refcount EXCEPT ![co[t]] = @ - 1]
  /\ IF refcount[co[t]] > 2 THEN CallEnds(t) /\ co' = [co EXCEPT ![t] = None]
                            ELSE Goto(t, "join") /\ UNCHANGED <<drive, co>>
  /\ UNCHANGED <<registry, recvVars, callbackVars, spare, motor>>

\* ... drops its reference in miraculous_co_free ...
DropReference(t) ==
  /\ pc[t] = "drop"
  /\ refcount' = [refcount EXCEPT ![co[t]] = @ - 1]
  /\ IF refcount[co[t]] > 1 THEN CallEnds(t) /\ co' = [co EXCEPT ![t] = None]
                            ELSE Goto(t, "join") /\ UNCHANGED <<drive, co>>
  /\ UNCHANGED <<registry, recvVars, callbackVars, spare, motor>>

\* ... and, when it was the last one, joins the receive thread and frees.
JoinReceiver(t) ==
  /\ pc[t] = "join" /\ receiving[co[t]] = "poll" /\ CallEnds(t)
  /\ receiving' = [receiving EXCEPT ![co[t]] = "off"]
  /\ co' = [co EXCEPT ![t] = None]
  /\ UNCHANGED <<busVars, serving, callbackVars, spare, motor>>

-----------------------------------------------------------------------------
(* The receive thread of a master, until recv_stop is set. *)

\* co_pdo_handle_tpdo: pdo->lock is taken, the callback of one entry runs.
DispatchTpdo(m) ==
  /\ receiving[m] = "poll" /\ refcount[m] > 0
  /\ \E e \in tpdo[m] : serving' = [serving EXCEPT ![m] = e[1]]
  /\ receiving' = [receiving EXCEPT ![m] = "tpdo"]
  /\ UNCHANGED <<busVars, callbackVars, threadVars>>

\* miraculous_co_sdo_wait_dispatch: the node's motor, under motor_registry_lock.
DispatchSdo(m) ==
  /\ receiving[m] = "poll" /\ refcount[m] > 0
  /\ \E n \in NodeIds : /\ motor_by_node[m][n] # None
                        /\ serving' = [serving EXCEPT ![m] = motor_by_node[m][n]]
  /\ receiving' = [receiving EXCEPT ![m] = "sdo"]
  /\ UNCHANGED <<busVars, callbackVars, threadVars>>

\* A heartbeat or EMCY callback, or any other frame: no lock is held.
DispatchOther(m) ==
  /\ receiving[m] = "poll" /\ refcount[m] > 0
  /\ receiving' = [receiving EXCEPT ![m] = "other"]
  /\ UNCHANGED <<busVars, serving, callbackVars, threadVars>>

CallbackReturns(m) ==
  /\ receiving[m] \in {"tpdo", "sdo", "other"}
  /\ receiving' = [receiving EXCEPT ![m] = "poll"]
  /\ serving' = [serving EXCEPT ![m] = None]
  /\ UNCHANGED <<busVars, callbackVars, threadVars>>

-----------------------------------------------------------------------------

\* The steps of a call that has been made.
Step(t) ==
  \/ CreateFails(t) \/ CreateMaster(t) \/ OpenRecheck(t) \/ FreeSpare(t)
  \/ JoinSpare(t) \/ ListMotor(t) \/ ListRefused(t) \/ HookTpdo2(t) \/ HookTpdo3(t)
  \/ RemoveCallbacks(t) \/ UnlistMotor(t) \/ ReleaseMaster(t)
  \/ DropReference(t) \/ JoinReceiver(t)

Next ==
  \/ \E t \in Threads : \/ \E d \in Opens[t] : OpenFind(t, d)
                        \/ CloseMotor(t)
                        \/ Step(t)
  \/ \E m \in Masters : \/ DispatchTpdo(m) \/ DispatchSdo(m)
                        \/ DispatchOther(m) \/ CallbackReturns(m)

Spec == Init /\ [][Next]_vars

-----------------------------------------------------------------------------

Holders(m) ==
  {t \in Threads : co[t] = m /\ pc[t] # "join"} \cup
  {t \in Threads : spare[t] = m /\ pc[t] # "joinSpare"}

\* The count of a master is the number of threads that still use it: none is
\* freed under a thread that found it in the registry, and none leaks.
ReferencesExact == \A m \in Masters : refcount[m] = Cardinality(Holders(m))

\* A registered master exists, so that the next open finds a live one.
RegisteredIsAlive ==
  \A i \in Ifaces : registry[i] # None =>
    /\ refcount[registry[i]] > 0
    /\ receiving[registry[i]] # "off"

\* Two opens of one drive never both succeed, also when they race to create the
\* master of the bus.
OneHandlePerDrive ==
  \A t, u \in Threads :
    pc[t] = "open" /\ pc[u] = "open" /\ drive[t] = drive[u] => t = u

\* The receive thread never runs a callback for a motor that was freed.
NoCallbackAfterFree ==
  \A m \in Masters : serving[m] # None => motor[serving[m]] /\ co[serving[m]] = m

\* Opening and closing implement MotorHandles.
Handles ==
  INSTANCE MotorHandles
  WITH handle  <- [d \in Drives |->
                     IF registry[d[1]] = None THEN None
                     ELSE motor_by_node[registry[d[1]]][d[2]]],
       running <- {t \in Threads : \E m \in Masters : serving[m] = t},
       up      <- Registered

\* Racing opens and closes look to their callers like calls that happen one at a
\* time: one handle per drive, callbacks for handles that exist, no bus that goes
\* down under a handle.
HandlesKept == Handles!Spec

\* What a call in progress waits for: a lock, or the end of a receive thread.
Blocked(t) ==
  \/ pc[t] \in {"recheck", "release"} /\ ~BusLockFree
  \/ pc[t] \in {"hook2", "hook3", "unhook"} /\ ~PdoLockFree(co[t])
  \/ pc[t] = "unlist" /\ ~RegistryLockFree(co[t])
  \/ pc[t] = "joinSpare" /\ receiving[spare[t]] # "poll"
  \/ pc[t] = "join" /\ receiving[co[t]] # "poll"

InCall == {t \in Threads : pc[t] \notin {"out", "open"}}
CallbackRuns == \E m \in Masters : receiving[m] \in {"tpdo", "sdo", "other"}

\* Calls never wait for each other in a circle, nor for a receive thread that is
\* gone: one of them can go on, or a callback is still running that will return.
SomebodyCanGo == InCall # {} => CallbackRuns \/ \E t \in InCall : ~Blocked(t)

=============================================================================
