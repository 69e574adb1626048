------------------------- MODULE BusRegistry_proofs -------------------------
(* Theorems about BusRegistry, for every set of threads, drives and masters
   and every table size.                                                     *)
EXTENDS BusRegistry, FiniteSetTheorems, TLAPS

HasMotor == {"hook2", "hook3", "open", "unhook", "unlist"}
Uses == HasMotor \cup {"list", "release"}
Freeing == {"freeSpare", "joinSpare"}

\* What each place of a call says of the variables of its thread.
Placed ==
  \A t \in Threads :
    /\ pc[t] # "out" => drive[t] \in Drives
    /\ pc[t] \in {"out", "create"} => co[t] = None
    /\ pc[t] \in Uses \cup {"recheck", "drop", "join"} => co[t] \in Masters
    /\ spare[t] # None <=> pc[t] \in Freeing
    /\ motor[t] <=> pc[t] \in HasMotor

\* g_bus_lock has one owner.
OneOwner ==
  \A t, u \in Threads :
    pc[t] \in {"drop", "join"} /\ pc[u] \in {"drop", "join"} => t = u

\* A thread that uses a master found it registered for its interface, and there
\* it stays until the last reference goes.
Found ==
  \A t \in Threads :
    /\ pc[t] \in Uses \/ (pc[t] \in Freeing /\ co[t] # None)
         => registry[drive[t][1]] = co[t]
    /\ pc[t] = "drop" => \A i \in Ifaces : registry[i] = co[t] => refcount[co[t]] > 1
    /\ pc[t] = "join" => refcount[co[t]] = 0 /\ receiving[co[t]] # "off"
    /\ pc[t] = "joinSpare" => refcount[spare[t]] = 0 /\ receiving[spare[t]] # "off"

Alive ==
  /\ \A i \in Ifaces : registry[i] # None => refcount[registry[i]] > 0
  /\ \A m \in Masters : refcount[m] > 0 => receiving[m] # "off"

\* Nobody but t knows m.
Private(t, m) ==
  /\ \A i \in Ifaces : registry[i] # m
  /\ \A u \in Threads \ {t} : co[u] # m /\ spare[u] # m

Unshared ==
  \A t \in Threads :
    /\ pc[t] = "recheck" => Private(t, co[t])
    /\ pc[t] \in Freeing => Private(t, spare[t]) /\ co[t] # spare[t]

\* The callbacks a master may run belong to motors that exist.
Hooked ==
  \A m \in Masters : \A e \in tpdo[m] : co[e[1]] = m /\ pc[e[1]] \in {"hook3", "open", "unhook"}
Listed ==
  /\ \A m \in Masters, n \in NodeIds :
       LET t == motor_by_node[m][n]
       IN t # None => co[t] = m /\ pc[t] \in HasMotor /\ drive[t][2] = n
  /\ \A t \in Threads : pc[t] \in HasMotor => motor_by_node[co[t]][drive[t][2]] = t
Served ==
  \A m \in Masters : serving[m] # None =>
    \/ receiving[m] = "tpdo" /\ \E k \in {2, 3} : <<serving[m], k>> \in tpdo[m]
    \/ receiving[m] = "sdo" /\ \E n \in NodeIds : motor_by_node[m][n] = serving[m]

TablesFinite == \A m \in Masters : IsFiniteSet(tpdo[m])

Inv == /\ TypeOK /\ ReferencesExact /\ Placed /\ OneOwner /\ Found /\ Alive
       /\ Unshared /\ Hooked /\ Listed /\ Served /\ TablesFinite

-----------------------------------------------------------------------------
(* Counting references. *)

LEMMA HoldersFinite ==
  ASSUME NEW m
  PROVE  /\ IsFiniteSet(Holders(m))
         /\ Cardinality(Holders(m)) \in 0 .. Cardinality(Threads)
<1>1. Holders(m) \subseteq Threads /\ IsFiniteSet(Threads)
  BY MastersAssumption DEF Holders
<1>2. /\ IsFiniteSet(Holders(m))
      /\ Cardinality(Holders(m)) <= Cardinality(Threads)
  BY <1>1, FS_Subset
<1>3. Cardinality(Holders(m)) \in Nat /\ Cardinality(Threads) \in Nat
  BY <1>1, <1>2, FS_CardinalityType
<1>4. QED
  BY <1>2, <1>3

\* The next state's holders are threads, too.
LEMMA HoldersFiniteNext ==
  ASSUME NEW m
  PROVE  /\ IsFiniteSet(Holders(m)')
         /\ Cardinality(Holders(m)') \in 0 .. Cardinality(Threads)
<1>1. Holders(m)' \subseteq Threads /\ IsFiniteSet(Threads)
  BY MastersAssumption DEF Holders
<1>2. /\ IsFiniteSet(Holders(m)')
      /\ Cardinality(Holders(m)') <= Cardinality(Threads)
  BY <1>1, FS_Subset
<1>3. Cardinality(Holders(m)') \in Nat /\ Cardinality(Threads) \in Nat
  BY <1>1, <1>2, FS_CardinalityType
<1>4. QED
  BY <1>2, <1>3

\* What the exact count says of one or two threads that use a master.
LEMMA HolderCounts ==
  ASSUME ReferencesExact, NEW m \in Masters, NEW t \in Holders(m)
  PROVE  /\ refcount[m] \in Nat /\ refcount[m] >= 1
         /\ \A u \in Holders(m) : u # t => refcount[m] >= 2
<1>1. IsFiniteSet(Holders(m)) /\ refcount[m] = Cardinality(Holders(m))
  BY HoldersFinite DEF ReferencesExact
<1>2. refcount[m] \in Nat
  BY <1>1, FS_CardinalityType
<1>3. refcount[m] # 0
  BY <1>1, FS_EmptySet
<1>4. ASSUME NEW u \in Holders(m), u # t
      PROVE  refcount[m] >= 2
  <2>1. /\ IsFiniteSet(Holders(m) \ {t})
        /\ Cardinality(Holders(m) \ {t}) = Cardinality(Holders(m)) - 1
    BY <1>1, FS_RemoveElement
  <2>2. Holders(m) \ {t} # {}
    BY <1>4
  <2>3. Cardinality(Holders(m) \ {t}) # 0
    BY <2>1, <2>2, FS_EmptySet
  <2>4. QED
    BY <1>1, <1>2, <1>3, <2>1, <2>3
<1>5. QED
  BY <1>2, <1>3, <1>4

LEMMA NoHolder ==
  ASSUME ReferencesExact, NEW m \in Masters, refcount[m] = 0
  PROVE  Holders(m) = {}
BY HoldersFinite, FS_EmptySet DEF ReferencesExact

\* One thread t moves, and the count follows it.
LEMMA CountFollows ==
  ASSUME ReferencesExact, NEW t \in Threads,
         \A u \in Threads \ {t}, m \in Masters : u \in Holders(m)' <=> u \in Holders(m),
         \A m \in Masters :
           \/ /\ t \in Holders(m) <=> t \in Holders(m)'
              /\ refcount'[m] = refcount[m]
           \/ /\ t \notin Holders(m) /\ t \in Holders(m)'
              /\ refcount'[m] = refcount[m] + 1
           \/ /\ t \in Holders(m) /\ t \notin Holders(m)'
              /\ refcount'[m] = refcount[m] - 1
  PROVE  ReferencesExact'
<1>1. SUFFICES ASSUME NEW m \in Masters
               PROVE  refcount'[m] = Cardinality(Holders(m)')
  BY DEF ReferencesExact
<1>2. IsFiniteSet(Holders(m)) /\ refcount[m] = Cardinality(Holders(m))
  BY HoldersFinite DEF ReferencesExact
<1>3. Holders(m) \subseteq Threads /\ Holders(m)' \subseteq Threads
  BY DEF Holders
<1>4. CASE t \in Holders(m) <=> t \in Holders(m)'
  <2>1. Holders(m)' = Holders(m)
    BY <1>3, <1>4
  <2>2. QED
    BY <1>2, <1>4, <2>1
<1>5. CASE t \notin Holders(m) /\ t \in Holders(m)'
  <2>1. Holders(m)' = Holders(m) \cup {t}
    BY <1>3, <1>5
  <2>2. Cardinality(Holders(m)') = Cardinality(Holders(m)) + 1
    BY <1>2, <1>5, <2>1, FS_AddElement
  <2>3. QED
    BY <1>2, <1>5, <2>2
<1>6. CASE t \in Holders(m) /\ t \notin Holders(m)'
  <2>1. Holders(m)' = Holders(m) \ {t}
    BY <1>3, <1>6
  <2>2. Cardinality(Holders(m)') = Cardinality(Holders(m)) - 1
    BY <1>2, <1>6, <2>1, FS_RemoveElement
  <2>3. QED
    BY <1>2, <1>6, <2>2
<1>7. QED
  BY <1>4, <1>5, <1>6

\* A step that touches no holder.
LEMMA CountStays ==
  ASSUME ReferencesExact, refcount' = refcount, co' = co, spare' = spare,
         \A u \in Threads : (pc[u] = "join" <=> pc'[u] = "join")
                              /\ (pc[u] = "joinSpare" <=> pc'[u] = "joinSpare")
  PROVE  ReferencesExact'
<1>1. \A m \in Masters : Holders(m)' = Holders(m)
  BY DEF Holders
<1>2. QED
  BY <1>1 DEF ReferencesExact

-----------------------------------------------------------------------------
(* Each action keeps the invariant. *)

LEMMA OpenFindKeeps ==
  ASSUME Inv, NEW t \in Threads, NEW d \in Opens[t], OpenFind(t, d)
  PROVE  Inv'
<1> USE DEF Inv, OpenFind, Goto, BusLockFree, busVars, recvVars, callbackVars
<1>0. d \in Drives
  BY DrivesAssumption
<1>a. /\ d \in Drives /\ d[1] \in Ifaces /\ d[2] \in NodeIds /\ None \notin Masters
      /\ registry[d[1]] \in Masters \cup {None} /\ co[t] = None /\ spare[t] = None
  BY <1>0, DrivesAssumption, NoneAssumption DEF TypeOK, Placed, Freeing
<1>b. refcount \in [Masters -> Nat]
  BY DEF TypeOK
<1>1. ReferencesExact'
  <2>1. CASE registry[d[1]] = None
    <3>1. co' = co
      BY <1>a, <2>1 DEF TypeOK
    <3>2. QED
      BY <2>1, <3>1, CountStays DEF TypeOK
  <2>2. CASE registry[d[1]] \in Masters
    <3>1. \A u \in Threads \ {t}, x \in Masters : u \in Holders(x)' <=> u \in Holders(x)
      BY DEF TypeOK, Holders
    <3>2. \A x \in Masters : t \notin Holders(x)
      BY <1>a DEF Holders
    <3>3. \A x \in Masters : t \in Holders(x)' <=> x = registry[d[1]]
      BY <1>a, <2>2 DEF TypeOK, Holders
    <3>4. \A x \in Masters :
            refcount'[x] = IF x = registry[d[1]] THEN refcount[x] + 1 ELSE refcount[x]
      BY <1>a, <2>2 DEF TypeOK
    <3>5. QED
      BY <3>1, <3>2, <3>3, <3>4, CountFollows
  <2>3. QED
    BY <1>a, <2>1, <2>2
<1>2. TypeOK'
  <2>1. refcount' \in [Masters -> 0 .. Cardinality(Threads)]
    <3>1. \A x \in Masters : refcount'[x] \in 0 .. Cardinality(Threads)
      BY <1>1, HoldersFiniteNext DEF ReferencesExact
    <3>2. QED
      BY <3>1 DEF TypeOK
  <2>2. QED
    BY <2>1, <1>a, DrivesAssumption, NoneAssumption DEF TypeOK, Placed, Working,
       Uses, HasMotor, Freeing
<1>3. Placed'
  BY <1>a DEF TypeOK, Placed, Uses, HasMotor, Freeing
<1>4. OneOwner'
  BY DEF TypeOK, OneOwner
<1>5. Found'
  BY <1>a, <1>b DEF TypeOK, Placed, Found, Alive, Unshared, Private, Uses, HasMotor,
     Freeing
<1>6. Alive'
  <2>1. CASE registry[d[1]] = None
    BY <1>a, <2>1 DEF TypeOK, Alive
  <2>2. CASE registry[d[1]] \in Masters
    <3>1. /\ registry' = registry /\ receiving' = receiving
          /\ \A x \in Masters :
               refcount'[x] = IF x = registry[d[1]] THEN refcount[x] + 1 ELSE refcount[x]
      BY <1>a, <2>2 DEF TypeOK
    <3>2. \A x \in Masters : refcount'[x] > 0 <=> refcount[x] > 0
      BY <1>a, <1>b, <2>2, <3>1 DEF Alive
    <3>3. QED
      BY <3>1, <3>2 DEF TypeOK, Alive
  <2>3. QED
    BY <1>a, <2>1, <2>2
<1>7. Unshared'
  BY <1>a DEF TypeOK, Placed, Unshared, Private, Freeing
<1>8. Hooked'
  BY NoneAssumption DEF TypeOK, Placed, Hooked, Freeing, HasMotor
<1>9. Listed'
  BY DrivesAssumption, NoneAssumption DEF TypeOK, Placed, Listed, Uses, HasMotor,
     Freeing
<1>10. Served'
  BY NoneAssumption DEF TypeOK, Served
<1>11. TablesFinite'
  BY DEF TypeOK, TablesFinite
<1>12. QED
  BY <1>1, <1>2, <1>3, <1>4, <1>5, <1>6, <1>7, <1>8, <1>9, <1>10, <1>11

LEMMA CreateFailsKeeps ==
  ASSUME Inv, NEW t \in Threads, CreateFails(t)
  PROVE  Inv'
<1> USE DEF Inv, CreateFails, CallEnds, Goto, busVars, recvVars, callbackVars
<1>1. ReferencesExact'
  BY CountStays DEF TypeOK
<1>2. TypeOK'
  BY <1>1, HoldersFiniteNext, DrivesAssumption, NoneAssumption DEF TypeOK, Working,
     ReferencesExact, Placed, Uses, HasMotor, Freeing
<1>3. Placed'
  BY DrivesAssumption, NoneAssumption DEF TypeOK, Placed, Uses, HasMotor, Freeing
<1>4. OneOwner'
  BY DEF TypeOK, OneOwner
<1>5. Found'
  BY DrivesAssumption, NoneAssumption DEF TypeOK, Found, Placed, Alive, Uses,
     HasMotor, Freeing
<1>6. Alive'
  BY DrivesAssumption, NoneAssumption DEF TypeOK, Found, Placed, Alive
<1>7. Unshared'
  BY DrivesAssumption, NoneAssumption DEF TypeOK, Placed, Unshared, Private, Freeing
<1>8. Hooked'
  BY NoneAssumption DEF TypeOK, Placed, Hooked, Freeing, HasMotor
<1>9. Listed'
  BY DrivesAssumption, NoneAssumption DEF TypeOK, Placed, Listed, Uses, HasMotor,
     Freeing
<1>10. Served'
  BY NoneAssumption DEF TypeOK, Served
<1>11. TablesFinite'
  BY DEF TypeOK, TablesFinite
<1>12. QED
  BY <1>1, <1>2, <1>3, <1>4, <1>5, <1>6, <1>7, <1>8, <1>9, <1>10, <1>11

LEMMA CreateMasterKeeps ==
  ASSUME Inv, NEW t \in Threads, CreateMaster(t)
  PROVE  Inv'
<1> USE DEF Inv
<1> DEFINE m == CHOOSE x \in Unborn : TRUE
<1>a. m \in Masters /\ refcount[m] = 0 /\ receiving[m] = "off" /\ None \notin Masters
  BY NoneAssumption DEF CreateMaster, Unborn
<1>b. /\ refcount' = [refcount EXCEPT ![m] = 1]
      /\ receiving' = [receiving EXCEPT ![m] = "poll"]
      /\ co' = [co EXCEPT ![t] = m]
      /\ pc[t] = "create" /\ pc' = [pc EXCEPT ![t] = "recheck"]
      /\ UNCHANGED <<registry, serving, tpdo, motor_by_node, drive, spare, motor>>
  BY DEF CreateMaster, Goto, callbackVars
<1>c. Holders(m) = {}
  BY <1>a, NoHolder
<1>d. co[t] = None /\ spare[t] = None /\ refcount \in [Masters -> Nat]
  BY <1>b DEF TypeOK, Placed, Freeing
<1>e. \A u \in Threads : co[u] # m /\ spare[u] # m
  <2>1. ASSUME NEW u \in Threads
        PROVE  (pc[u] = "join" => co[u] # m) /\ (pc[u] = "joinSpare" => spare[u] # m)
    BY <1>a DEF Found
  <2> HIDE DEF Inv, m
  <2>2. QED
    BY <1>c, <2>1 DEF Holders
<1>f. \A i \in Ifaces : registry[i] # m
  BY <1>a, NoneAssumption DEF Alive
<1>g. serving[m] = None
  BY <1>a DEF Served
<1> HIDE DEF m
<1>1. ReferencesExact'
  <2>1. \A u \in Threads \ {t}, x \in Masters : u \in Holders(x)' <=> u \in Holders(x)
    BY <1>b DEF TypeOK, Holders
  <2>2. \A x \in Masters : t \notin Holders(x)
    BY <1>a, <1>d DEF Holders
  <2>3. \A x \in Masters : t \in Holders(x)' <=> x = m
    BY <1>a, <1>b, <1>d DEF TypeOK, Holders
  <2>4. \A x \in Masters : refcount'[x] = IF x = m THEN refcount[x] + 1 ELSE refcount[x]
    BY <1>a, <1>b, <1>d
  <2>5. QED
    BY <2>1, <2>2, <2>3, <2>4, CountFollows
<1>2. TypeOK'
  <2>1. refcount' \in [Masters -> 0 .. Cardinality(Threads)]
    <3>1. \A x \in Masters : refcount'[x] \in 0 .. Cardinality(Threads)
      BY <1>1, HoldersFiniteNext DEF ReferencesExact
    <3>2. QED
      BY <1>b, <3>1 DEF TypeOK
  <2>2. QED
    BY <2>1, <1>a, <1>b, DrivesAssumption, NoneAssumption DEF TypeOK, Placed,
       Working, Uses, HasMotor, Freeing
<1>3. Placed'
  BY <1>a, <1>b DEF TypeOK, Placed, Uses, HasMotor, Freeing
<1>4. OneOwner'
  BY <1>b DEF TypeOK, OneOwner
<1>5. Found'
  BY <1>a, <1>b, <1>d, <1>e DEF TypeOK, Placed, Found, Uses, HasMotor, Freeing
<1>6. Alive'
  BY <1>a, <1>b, <1>d, <1>f, NoneAssumption DEF TypeOK, Alive
<1>7. Unshared'
  BY <1>a, <1>b, <1>e, <1>f DEF TypeOK, Placed, Unshared, Private, Freeing
<1>8. Hooked'
  BY <1>b, <1>e DEF TypeOK, Hooked
<1>9. Listed'
  BY <1>b, <1>d, <1>e, NoneAssumption DEF TypeOK, Placed, Listed, HasMotor
<1>10. Served'
  BY <1>a, <1>b, <1>g DEF TypeOK, Served
<1>11. TablesFinite'
  BY <1>b DEF TypeOK, TablesFinite
<1>12. QED
  BY <1>1, <1>2, <1>3, <1>4, <1>5, <1>6, <1>7, <1>8, <1>9, <1>10, <1>11

LEMMA OpenRecheckKeeps ==
  ASSUME Inv, NEW t \in Threads, OpenRecheck(t)
  PROVE  Inv'
<1> USE DEF Inv, OpenRecheck, Goto, BusLockFree, busVars, recvVars, callbackVars
<1>a. /\ drive[t] \in Drives /\ drive[t][1] \in Ifaces /\ None \notin Masters
      /\ registry[drive[t][1]] \in Masters \cup {None}
      /\ co[t] \in Masters /\ spare[t] = None /\ refcount \in [Masters -> Nat]
  BY DrivesAssumption, NoneAssumption DEF TypeOK, Placed, Uses, Freeing
<1>b. Private(t, co[t])
  BY DEF Unshared
<1>c. refcount[co[t]] >= 1
  BY <1>a, HolderCounts DEF Holders
<1>1. ReferencesExact'
  <2>1. \A u \in Threads \ {t}, x \in Masters : u \in Holders(x)' <=> u \in Holders(x)
    BY DEF TypeOK, Holders
  <2>2. CASE registry[drive[t][1]] = None
    <3>1. \A x \in Masters : t \in Holders(x) <=> t \in Holders(x)'
      BY <1>a, <2>2 DEF TypeOK, Holders
    <3>2. refcount' = refcount
      BY <2>2
    <3>3. QED
      BY <2>1, <3>1, <3>2, CountFollows
  <2>3. CASE registry[drive[t][1]] \in Masters
    <3>1. \A x \in Masters : t \in Holders(x) <=> x = co[t]
      BY <1>a DEF Holders
    <3>2. \A x \in Masters : t \in Holders(x)' <=> x = co[t] \/ x = registry[drive[t][1]]
      BY <1>a, <2>3 DEF TypeOK, Holders
    <3>3. registry[drive[t][1]] # co[t]
      BY <1>a, <1>b DEF Private
    <3>4. \A x \in Masters : refcount'[x] = IF x = registry[drive[t][1]]
                                           THEN refcount[x] + 1 ELSE refcount[x]
      BY <1>a, <2>3
    <3>5. QED
      BY <2>1, <3>1, <3>2, <3>3, <3>4, CountFollows
  <2>4. QED
    BY <1>a, <2>2, <2>3
<1>2. TypeOK'
  <2>1. refcount' \in [Masters -> 0 .. Cardinality(Threads)]
    <3>1. \A x \in Masters : refcount'[x] \in 0 .. Cardinality(Threads)
      BY <1>1, HoldersFiniteNext DEF ReferencesExact
    <3>2. QED
      BY <3>1 DEF TypeOK
  <2>2. registry' \in [Ifaces -> Masters \cup {None}] /\ pc' \in [Threads -> Working \cup {"out", "open"}]
    BY <1>a DEF TypeOK, Working
  <2>3. co' \in [Threads -> Masters \cup {None}] /\ spare' \in [Threads -> Masters \cup {None}]
    <3>1. /\ co \in [Threads -> Masters \cup {None}]
          /\ spare \in [Threads -> Masters \cup {None}]
      BY DEF TypeOK
    <3>2. /\ \/ co' = co \/ co' = [co EXCEPT ![t] = None]
             \/ co' = [co EXCEPT ![t] = registry[drive[t][1]]]
          /\ spare' = spare \/ spare' = [spare EXCEPT ![t] = co[t]]
      OBVIOUS
    <3> HIDE DEF Inv, OpenRecheck
    <3>3. QED
      BY <1>a, <3>1, <3>2
  <2>4. QED
    BY <2>1, <2>2, <2>3 DEF TypeOK
<1>3. Placed'
  BY DrivesAssumption, NoneAssumption DEF TypeOK, Placed, Uses, HasMotor, Freeing
<1>4. OneOwner'
  BY DEF TypeOK, OneOwner
<1>5. Found'
  BY DrivesAssumption, NoneAssumption DEF TypeOK, Found, Placed, Alive, Uses,
     HasMotor, Freeing
<1>6. Alive'
  <2>1. CASE registry[drive[t][1]] = None
    <3>1. refcount' = refcount /\ receiving' = receiving
      BY <2>1
    <3>2. \A i \in Ifaces : registry'[i] = registry[i] \/ registry'[i] = co[t]
      BY <1>a, <2>1 DEF TypeOK
    <3>3. QED
      BY <1>a, <1>c, <3>1, <3>2 DEF Alive
  <2>2. CASE registry[drive[t][1]] \in Masters
    <3>1. registry' = registry /\ receiving' = receiving
      BY <1>a, <2>2
    <3>2. \A x \in Masters : refcount'[x] > 0 <=> refcount[x] > 0
      BY <1>a, <2>2 DEF Alive
    <3>3. QED
      BY <3>1, <3>2 DEF TypeOK, Alive
  <2>3. QED
    BY <1>a, <2>1, <2>2
<1>7. Unshared'
  BY DrivesAssumption, NoneAssumption DEF TypeOK, Placed, Unshared, Private, Freeing
<1>8. Hooked'
  BY NoneAssumption DEF TypeOK, Placed, Hooked, Freeing, HasMotor
<1>9. Listed'
  <2>1. /\ motor_by_node' = motor_by_node /\ drive' = drive
        /\ \A u \in Threads \ {t} : pc'[u] = pc[u] /\ co'[u] = co[u]
        /\ pc[t] = "recheck" /\ pc'[t] \in {"freeSpare", "list"}
    BY DEF TypeOK
  <2>2. ASSUME NEW m \in Masters, NEW n \in NodeIds, motor_by_node[m][n] # None
        PROVE  LET u == motor_by_node[m][n]
               IN u \in Threads \ {t} /\ co[u] = m /\ pc[u] \in HasMotor /\ drive[u][2] = n
    BY <2>1, <2>2 DEF TypeOK, Listed, HasMotor
  <2>3. ASSUME NEW u \in Threads, pc'[u] \in HasMotor
        PROVE  u # t /\ motor_by_node[co[u]][drive[u][2]] = u
    BY <2>1, <2>3 DEF Listed, HasMotor
  <2>4. QED
    BY <2>1, <2>2, <2>3 DEF Listed
<1>10. Served'
  BY NoneAssumption DEF TypeOK, Served
<1>11. TablesFinite'
  BY DEF TypeOK, TablesFinite
<1>12. QED
  BY <1>1, <1>2, <1>3, <1>4, <1>5, <1>6, <1>7, <1>8, <1>9, <1>10, <1>11

LEMMA FreeSpareKeeps ==
  ASSUME Inv, NEW t \in Threads, FreeSpare(t)
  PROVE  Inv'
<1> USE DEF Inv, FreeSpare, Goto, busVars, recvVars, callbackVars
<1>a. spare[t] \in Masters /\ refcount \in [Masters -> Nat] /\ None \notin Masters
  BY NoneAssumption DEF TypeOK, Placed, Freeing
<1>b. Private(t, spare[t]) /\ co[t] # spare[t]
  BY DEF Unshared, Freeing
<1>c. Holders(spare[t]) = {t}
  BY <1>b DEF Holders, Private
<1>d. refcount[spare[t]] = 1
  BY <1>a, <1>c, FS_Singleton DEF ReferencesExact
<1>1. ReferencesExact'
  <2>1. \A u \in Threads \ {t}, x \in Masters : u \in Holders(x)' <=> u \in Holders(x)
    BY DEF TypeOK, Holders
  <2>2. \A x \in Masters : t \in Holders(x) <=> x = co[t] \/ x = spare[t]
    BY DEF Holders
  <2>3. \A x \in Masters : t \in Holders(x)' <=> x = co[t]
    BY DEF TypeOK, Holders
  <2>4. \A x \in Masters : refcount'[x] = IF x = spare[t] THEN refcount[x] - 1 ELSE refcount[x]
    BY <1>a
  <2>5. QED
    BY <1>b, <2>1, <2>2, <2>3, <2>4, CountFollows
<1>2. TypeOK'
  BY <1>1, HoldersFiniteNext, DrivesAssumption, NoneAssumption DEF TypeOK, Working,
     ReferencesExact, Placed, Uses, HasMotor, Freeing
<1>3. Placed'
  BY DrivesAssumption, NoneAssumption DEF TypeOK, Placed, Uses, HasMotor, Freeing
<1>4. OneOwner'
  BY DEF TypeOK, OneOwner
<1>5. Found'
  BY <1>a, <1>b, <1>d DEF TypeOK, Placed, Found, Alive, Private, Uses, HasMotor,
     Freeing
<1>6. Alive'
  BY <1>a, <1>b, <1>d DEF TypeOK, Alive, Private
<1>7. Unshared'
  BY DrivesAssumption, NoneAssumption DEF TypeOK, Placed, Unshared, Private, Freeing
<1>8. Hooked'
  BY NoneAssumption DEF TypeOK, Placed, Hooked, Freeing, HasMotor
<1>9. Listed'
  BY DrivesAssumption, NoneAssumption DEF TypeOK, Placed, Listed, Uses, HasMotor,
     Freeing
<1>10. Served'
  BY NoneAssumption DEF TypeOK, Served
<1>11. TablesFinite'
  BY DEF TypeOK, TablesFinite
<1>12. QED
  BY <1>1, <1>2, <1>3, <1>4, <1>5, <1>6, <1>7, <1>8, <1>9, <1>10, <1>11

LEMMA JoinSpareKeeps ==
  ASSUME Inv, NEW t \in Threads, JoinSpare(t)
  PROVE  Inv'
<1> USE DEF Inv, JoinSpare, Goto, CallEnds, busVars, recvVars, callbackVars
<1>a. /\ spare[t] \in Masters /\ refcount \in [Masters -> Nat] /\ None \notin Masters
      /\ drive[t] \in Drives /\ drive[t][1] \in Ifaces
  BY DrivesAssumption, NoneAssumption DEF TypeOK, Placed, Freeing
<1>b. Private(t, spare[t]) /\ co[t] # spare[t] /\ refcount[spare[t]] = 0
  BY DEF Unshared, Freeing, Found
<1>1. ReferencesExact'
  <2>1. \A u \in Threads \ {t}, x \in Masters : u \in Holders(x)' <=> u \in Holders(x)
    BY DEF TypeOK, Holders
  <2>2. \A x \in Masters : t \in Holders(x) <=> x = co[t]
    BY DEF Holders
  <2>3. \A x \in Masters : t \in Holders(x)' <=> x = co[t]
    BY <1>a DEF TypeOK, Holders
  <2>4. QED
    BY <2>1, <2>2, <2>3, CountFollows
<1>2. TypeOK'
  BY <1>a, <1>1, HoldersFiniteNext DEF TypeOK, Placed, Working
<1>3. Placed'
  BY DrivesAssumption, NoneAssumption DEF TypeOK, Placed, Uses, HasMotor, Freeing
<1>4. OneOwner'
  BY DEF TypeOK, OneOwner
<1>5. Found'
  BY <1>a, <1>b DEF TypeOK, Placed, Found, Alive, Unshared, Private, Uses, HasMotor,
     Freeing
<1>6. Alive'
  BY <1>a, <1>b DEF TypeOK, Alive
<1>7. Unshared'
  BY DrivesAssumption, NoneAssumption DEF TypeOK, Placed, Unshared, Private, Freeing
<1>8. Hooked'
  BY NoneAssumption DEF TypeOK, Placed, Hooked, Freeing, HasMotor
<1>9. Listed'
  <2>1. /\ UNCHANGED <<motor_by_node, co>> /\ Listed
        /\ pc[t] \notin HasMotor /\ pc'[t] \notin HasMotor
        /\ \A u \in Threads \ {t} : pc'[u] = pc[u] /\ drive'[u] = drive[u]
        /\ motor_by_node \in [Masters -> [NodeIds -> Threads \cup {None}]]
    BY DEF TypeOK, HasMotor
  <2> HIDE DEF Inv, JoinSpare, Goto, CallEnds
  <2>2. QED
    BY <2>1 DEF Listed
<1>10. Served'
  BY NoneAssumption DEF TypeOK, Served
<1>11. TablesFinite'
  BY DEF TypeOK, TablesFinite
<1>12. QED
  BY <1>1, <1>2, <1>3, <1>4, <1>5, <1>6, <1>7, <1>8, <1>9, <1>10, <1>11

LEMMA ListMotorKeeps ==
  ASSUME Inv, NEW t \in Threads, ListMotor(t)
  PROVE  Inv'
<1> USE DEF Inv, ListMotor, Goto, RegistryLockFree, busVars, recvVars, callbackVars
<1>1. ReferencesExact'
  BY CountStays DEF TypeOK
<1>2. TypeOK'
  BY <1>1, HoldersFiniteNext, DrivesAssumption, NoneAssumption DEF TypeOK, Working,
     ReferencesExact, Placed, Uses, HasMotor, Freeing
<1>3. Placed'
  BY DrivesAssumption, NoneAssumption DEF TypeOK, Placed, Uses, HasMotor, Freeing
<1>4. OneOwner'
  BY DEF TypeOK, OneOwner
<1>5. Found'
  BY DrivesAssumption, NoneAssumption DEF TypeOK, Found, Placed, Alive, Uses,
     HasMotor, Freeing
<1>6. Alive'
  BY DrivesAssumption, NoneAssumption DEF TypeOK, Found, Placed, Alive
<1>7. Unshared'
  BY DrivesAssumption, NoneAssumption DEF TypeOK, Placed, Unshared, Private, Freeing
<1>8. Hooked'
  BY NoneAssumption DEF TypeOK, Placed, Hooked, Freeing, HasMotor
<1>9. Listed'
  BY DrivesAssumption, NoneAssumption DEF TypeOK, Placed, Listed, Uses, HasMotor,
     Freeing
<1>10. Served'
  BY NoneAssumption DEF TypeOK, Served
<1>11. TablesFinite'
  BY DEF TypeOK, TablesFinite
<1>12. QED
  BY <1>1, <1>2, <1>3, <1>4, <1>5, <1>6, <1>7, <1>8, <1>9, <1>10, <1>11

LEMMA ListRefusedKeeps ==
  ASSUME Inv, NEW t \in Threads, ListRefused(t)
  PROVE  Inv'
<1> USE DEF Inv, ListRefused, Goto, busVars, recvVars, callbackVars
<1>1. ReferencesExact'
  BY CountStays DEF TypeOK
<1>2. TypeOK'
  BY <1>1, HoldersFiniteNext, DrivesAssumption, NoneAssumption DEF TypeOK, Working,
     ReferencesExact, Placed, Uses, HasMotor, Freeing
<1>3. Placed'
  BY DrivesAssumption, NoneAssumption DEF TypeOK, Placed, Uses, HasMotor, Freeing
<1>4. OneOwner'
  BY DEF TypeOK, OneOwner
<1>5. Found'
  BY DrivesAssumption, NoneAssumption DEF TypeOK, Found, Placed, Alive, Uses,
     HasMotor, Freeing
<1>6. Alive'
  BY DrivesAssumption, NoneAssumption DEF TypeOK, Found, Placed, Alive
<1>7. Unshared'
  BY DrivesAssumption, NoneAssumption DEF TypeOK, Placed, Unshared, Private, Freeing
<1>8. Hooked'
  BY NoneAssumption DEF TypeOK, Placed, Hooked, Freeing, HasMotor
<1>9. Listed'
  BY DrivesAssumption, NoneAssumption DEF TypeOK, Placed, Listed, Uses, HasMotor,
     Freeing
<1>10. Served'
  BY NoneAssumption DEF TypeOK, Served
<1>11. TablesFinite'
  BY DEF TypeOK, TablesFinite
<1>12. QED
  BY <1>1, <1>2, <1>3, <1>4, <1>5, <1>6, <1>7, <1>8, <1>9, <1>10, <1>11

LEMMA HookTpdo2Keeps ==
  ASSUME Inv, NEW t \in Threads, HookTpdo2(t)
  PROVE  Inv'
<1> USE DEF Inv, HookTpdo2, Goto, SetTpdoCallback, PdoLockFree, busVars, recvVars, callbackVars
<1>1. ReferencesExact'
  BY CountStays DEF TypeOK
<1>2. TypeOK'
  <2>1. ASSUME NEW x \in Masters
        PROVE  Cardinality(tpdo'[x]) <= MaxTpdo
    <3>1. CASE tpdo'[x] = tpdo[x]
      BY <3>1 DEF TypeOK
    <3>2. CASE /\ Cardinality(tpdo[x]) < MaxTpdo
               /\ tpdo'[x] = tpdo[x] \cup {<<t, 2>>}
      <4>1. IsFiniteSet(tpdo[x]) /\ Cardinality(tpdo[x]) \in Nat
        BY FS_CardinalityType DEF TablesFinite
      <4>2. Cardinality(tpdo[x] \cup {<<t, 2>>}) =
              IF <<t, 2>> \in tpdo[x] THEN Cardinality(tpdo[x]) ELSE Cardinality(tpdo[x]) + 1
        BY <4>1, FS_AddElement
      <4>3. Cardinality(tpdo'[x]) \in {Cardinality(tpdo[x]), Cardinality(tpdo[x]) + 1}
        BY <3>2, <4>2
      <4>4. QED
        BY <3>2, <4>1, <4>3, LimitsAssumption
    <3>3. QED
      BY <3>1, <3>2 DEF TypeOK
  <2>2. QED
    <3>1. tpdo' \in [Masters -> SUBSET (Threads \X {2, 3})]
      <4>1. <<t, 2>> \in Threads \X {2, 3}
        OBVIOUS
      <4>2. \A x \in Masters : tpdo'[x] = tpdo[x] \/ tpdo'[x] = tpdo[x] \cup {<<t, 2>>}
        BY DEF TypeOK
      <4>3. \A x \in Masters : tpdo[x] \in SUBSET (Threads \X {2, 3})
        BY DEF TypeOK
      <4>4. \A x \in Masters : tpdo'[x] \in SUBSET (Threads \X {2, 3})
        BY <4>1, <4>2, <4>3
      <4>5. DOMAIN tpdo' = Masters /\ tpdo' = [x \in Masters |-> tpdo'[x]]
        BY DEF TypeOK
      <4>6. QED
        BY <4>4, <4>5
    <3>2. pc' \in [Threads -> Working \cup {"out", "open"}]
      BY DEF TypeOK, Working
    <3>3. QED
      BY <2>1, <3>1, <3>2 DEF TypeOK
<1>3. Placed'
  BY DrivesAssumption, NoneAssumption DEF TypeOK, Placed, Uses, HasMotor, Freeing
<1>4. OneOwner'
  BY DEF TypeOK, OneOwner
<1>5. Found'
  BY DrivesAssumption, NoneAssumption DEF TypeOK, Found, Placed, Alive, Uses,
     HasMotor, Freeing
<1>6. Alive'
  BY DrivesAssumption, NoneAssumption DEF TypeOK, Found, Placed, Alive
<1>7. Unshared'
  BY DrivesAssumption, NoneAssumption DEF TypeOK, Placed, Unshared, Private, Freeing
<1>8. Hooked'
  BY NoneAssumption DEF TypeOK, Placed, Hooked, Freeing, HasMotor
<1>9. Listed'
  BY DrivesAssumption, NoneAssumption DEF TypeOK, Placed, Listed, Uses, HasMotor,
     Freeing
<1>10. Served'
  BY NoneAssumption DEF TypeOK, Served
<1>11. TablesFinite'
  <2>1. \A x \in Masters : tpdo'[x] = tpdo[x] \/ tpdo'[x] = tpdo[x] \cup {<<t, 2>>}
    BY DEF TypeOK
  <2>2. ASSUME NEW x \in Masters
        PROVE  IsFiniteSet(tpdo[x] \cup {<<t, 2>>})
    <3>1. IsFiniteSet(tpdo[x])
      BY DEF TablesFinite
    <3>2. QED
      BY <3>1, FS_AddElement
  <2>3. QED
    BY <2>1, <2>2 DEF TablesFinite
<1>12. QED
  BY <1>1, <1>2, <1>3, <1>4, <1>5, <1>6, <1>7, <1>8, <1>9, <1>10, <1>11

LEMMA HookTpdo3Keeps ==
  ASSUME Inv, NEW t \in Threads, HookTpdo3(t)
  PROVE  Inv'
<1> USE DEF Inv, HookTpdo3, Goto, SetTpdoCallback, PdoLockFree, busVars, recvVars, callbackVars
<1>1. ReferencesExact'
  BY CountStays DEF TypeOK
<1>2. TypeOK'
  <2>1. ASSUME NEW x \in Masters
        PROVE  Cardinality(tpdo'[x]) <= MaxTpdo
    <3>1. CASE tpdo'[x] = tpdo[x]
      BY <3>1 DEF TypeOK
    <3>2. CASE /\ Cardinality(tpdo[x]) < MaxTpdo
               /\ tpdo'[x] = tpdo[x] \cup {<<t, 3>>}
      <4>1. IsFiniteSet(tpdo[x]) /\ Cardinality(tpdo[x]) \in Nat
        BY FS_CardinalityType DEF TablesFinite
      <4>2. Cardinality(tpdo[x] \cup {<<t, 3>>}) =
              IF <<t, 3>> \in tpdo[x] THEN Cardinality(tpdo[x]) ELSE Cardinality(tpdo[x]) + 1
        BY <4>1, FS_AddElement
      <4>3. Cardinality(tpdo'[x]) \in {Cardinality(tpdo[x]), Cardinality(tpdo[x]) + 1}
        BY <3>2, <4>2
      <4>4. QED
        BY <3>2, <4>1, <4>3, LimitsAssumption
    <3>3. QED
      BY <3>1, <3>2 DEF TypeOK
  <2>2. QED
    <3>1. tpdo' \in [Masters -> SUBSET (Threads \X {2, 3})]
      <4>1. <<t, 3>> \in Threads \X {2, 3}
        OBVIOUS
      <4>2. \A x \in Masters : tpdo'[x] = tpdo[x] \/ tpdo'[x] = tpdo[x] \cup {<<t, 3>>}
        BY DEF TypeOK
      <4>3. \A x \in Masters : tpdo[x] \in SUBSET (Threads \X {2, 3})
        BY DEF TypeOK
      <4>4. \A x \in Masters : tpdo'[x] \in SUBSET (Threads \X {2, 3})
        BY <4>1, <4>2, <4>3
      <4>5. DOMAIN tpdo' = Masters /\ tpdo' = [x \in Masters |-> tpdo'[x]]
        BY DEF TypeOK
      <4>6. QED
        BY <4>4, <4>5
    <3>2. pc' \in [Threads -> Working \cup {"out", "open"}]
      BY DEF TypeOK, Working
    <3>3. QED
      BY <2>1, <3>1, <3>2 DEF TypeOK
<1>3. Placed'
  BY DrivesAssumption, NoneAssumption DEF TypeOK, Placed, Uses, HasMotor, Freeing
<1>4. OneOwner'
  BY DEF TypeOK, OneOwner
<1>5. Found'
  BY DrivesAssumption, NoneAssumption DEF TypeOK, Found, Placed, Alive, Uses,
     HasMotor, Freeing
<1>6. Alive'
  BY DrivesAssumption, NoneAssumption DEF TypeOK, Found, Placed, Alive
<1>7. Unshared'
  BY DrivesAssumption, NoneAssumption DEF TypeOK, Placed, Unshared, Private, Freeing
<1>8. Hooked'
  BY NoneAssumption DEF TypeOK, Placed, Hooked, Freeing, HasMotor
<1>9. Listed'
  BY DrivesAssumption, NoneAssumption DEF TypeOK, Placed, Listed, Uses, HasMotor,
     Freeing
<1>10. Served'
  BY NoneAssumption DEF TypeOK, Served
<1>11. TablesFinite'
  <2>1. \A x \in Masters : tpdo'[x] = tpdo[x] \/ tpdo'[x] = tpdo[x] \cup {<<t, 3>>}
    BY DEF TypeOK
  <2>2. ASSUME NEW x \in Masters
        PROVE  IsFiniteSet(tpdo[x] \cup {<<t, 3>>})
    <3>1. IsFiniteSet(tpdo[x])
      BY DEF TablesFinite
    <3>2. QED
      BY <3>1, FS_AddElement
  <2>3. QED
    BY <2>1, <2>2 DEF TablesFinite
<1>12. QED
  BY <1>1, <1>2, <1>3, <1>4, <1>5, <1>6, <1>7, <1>8, <1>9, <1>10, <1>11

LEMMA CloseMotorKeeps ==
  ASSUME Inv, NEW t \in Threads, CloseMotor(t)
  PROVE  Inv'
<1> USE DEF Inv, CloseMotor, Goto, busVars, recvVars, callbackVars
<1>1. ReferencesExact'
  BY CountStays DEF TypeOK
<1>2. TypeOK'
  BY <1>1, HoldersFiniteNext, DrivesAssumption, NoneAssumption DEF TypeOK, Working,
     ReferencesExact, Placed, Uses, HasMotor, Freeing
<1>3. Placed'
  BY DrivesAssumption, NoneAssumption DEF TypeOK, Placed, Uses, HasMotor, Freeing
<1>4. OneOwner'
  BY DEF TypeOK, OneOwner
<1>5. Found'
  BY DrivesAssumption, NoneAssumption DEF TypeOK, Found, Placed, Alive, Uses,
     HasMotor, Freeing
<1>6. Alive'
  BY DrivesAssumption, NoneAssumption DEF TypeOK, Found, Placed, Alive
<1>7. Unshared'
  BY DrivesAssumption, NoneAssumption DEF TypeOK, Placed, Unshared, Private, Freeing
<1>8. Hooked'
  BY NoneAssumption DEF TypeOK, Placed, Hooked, Freeing, HasMotor
<1>9. Listed'
  BY DrivesAssumption, NoneAssumption DEF TypeOK, Placed, Listed, Uses, HasMotor,
     Freeing
<1>10. Served'
  BY NoneAssumption DEF TypeOK, Served
<1>11. TablesFinite'
  BY DEF TypeOK, TablesFinite
<1>12. QED
  BY <1>1, <1>2, <1>3, <1>4, <1>5, <1>6, <1>7, <1>8, <1>9, <1>10, <1>11

LEMMA RemoveCallbacksKeeps ==
  ASSUME Inv, NEW t \in Threads, RemoveCallbacks(t)
  PROVE  Inv'
<1> USE DEF Inv, RemoveCallbacks, Goto, PdoLockFree, busVars, recvVars, callbackVars
<1>1. ReferencesExact'
  BY CountStays DEF TypeOK
<1>2. TypeOK'
  <2>1. ASSUME NEW x \in Masters
        PROVE  Cardinality(tpdo'[x]) <= MaxTpdo
    <3>1. tpdo'[x] \subseteq tpdo[x] /\ IsFiniteSet(tpdo[x])
      BY DEF TypeOK, TablesFinite
    <3>2. /\ IsFiniteSet(tpdo'[x]) /\ Cardinality(tpdo[x]) <= MaxTpdo
          /\ Cardinality(tpdo'[x]) <= Cardinality(tpdo[x])
      BY <3>1, FS_Subset DEF TypeOK
    <3>3. Cardinality(tpdo[x]) \in Nat /\ Cardinality(tpdo'[x]) \in Nat
      BY <3>1, <3>2, FS_CardinalityType
    <3>4. QED
      BY <3>2, <3>3, LimitsAssumption
  <2>2. QED
    BY <2>1 DEF TypeOK, Working
<1>3. Placed'
  BY DrivesAssumption, NoneAssumption DEF TypeOK, Placed, Uses, HasMotor, Freeing
<1>4. OneOwner'
  BY DEF TypeOK, OneOwner
<1>5. Found'
  BY DrivesAssumption, NoneAssumption DEF TypeOK, Found, Placed, Alive, Uses,
     HasMotor, Freeing
<1>6. Alive'
  BY DrivesAssumption, NoneAssumption DEF TypeOK, Found, Placed, Alive
<1>7. Unshared'
  BY DrivesAssumption, NoneAssumption DEF TypeOK, Placed, Unshared, Private, Freeing
<1>8. Hooked'
  BY NoneAssumption DEF TypeOK, Placed, Hooked, Freeing, HasMotor
<1>9. Listed'
  BY DrivesAssumption, NoneAssumption DEF TypeOK, Placed, Listed, Uses, HasMotor,
     Freeing
<1>10. Served'
  BY NoneAssumption DEF TypeOK, Served
<1>11. TablesFinite'
  <2>1. \A x \in Masters : tpdo'[x] \subseteq tpdo[x]
    BY DEF TypeOK
  <2>2. QED
    BY <2>1, FS_Subset DEF TablesFinite
<1>12. QED
  BY <1>1, <1>2, <1>3, <1>4, <1>5, <1>6, <1>7, <1>8, <1>9, <1>10, <1>11

LEMMA UnlistMotorKeeps ==
  ASSUME Inv, NEW t \in Threads, UnlistMotor(t)
  PROVE  Inv'
<1> USE DEF Inv, UnlistMotor, Goto, RegistryLockFree, busVars, recvVars, callbackVars
<1>1. ReferencesExact'
  BY CountStays DEF TypeOK
<1>2. TypeOK'
  BY <1>1, HoldersFiniteNext, DrivesAssumption, NoneAssumption DEF TypeOK, Working,
     ReferencesExact, Placed, Uses, HasMotor, Freeing
<1>3. Placed'
  BY DrivesAssumption, NoneAssumption DEF TypeOK, Placed, Uses, HasMotor, Freeing
<1>4. OneOwner'
  BY DEF TypeOK, OneOwner
<1>5. Found'
  BY DrivesAssumption, NoneAssumption DEF TypeOK, Found, Placed, Alive, Uses,
     HasMotor, Freeing
<1>6. Alive'
  BY DrivesAssumption, NoneAssumption DEF TypeOK, Found, Placed, Alive
<1>7. Unshared'
  BY DrivesAssumption, NoneAssumption DEF TypeOK, Placed, Unshared, Private, Freeing
<1>8. Hooked'
  BY NoneAssumption DEF TypeOK, Placed, Hooked, Freeing, HasMotor
<1>9. Listed'
  <2>1. /\ pc[t] = "unlist" /\ pc'[t] = "release" /\ UNCHANGED <<drive, co>> /\ Listed
        /\ \A u \in Threads \ {t} : pc'[u] = pc[u]
        /\ co[t] \in Masters /\ drive[t][2] \in NodeIds
        /\ motor_by_node \in [Masters -> [NodeIds -> Threads \cup {None}]]
        /\ \A u \in Threads : pc[u] \in HasMotor => co[u] \in Masters /\ drive[u][2] \in NodeIds
    BY DrivesAssumption DEF TypeOK, Placed, Uses, HasMotor
  <2>2. motor_by_node[co[t]][drive[t][2]] = t
    BY <2>1 DEF Listed, HasMotor
  <2>3. motor_by_node' = [motor_by_node EXCEPT ![co[t]][drive[t][2]] = None]
    BY <2>1, <2>2
  <2> HIDE DEF Inv, UnlistMotor, Goto
  <2>4. ASSUME NEW m \in Masters, NEW n \in NodeIds
        PROVE  motor_by_node'[m][n] = IF m = co[t] /\ n = drive[t][2]
                                      THEN None ELSE motor_by_node[m][n]
    BY <2>1, <2>3
  <2>5. ASSUME NEW m \in Masters, NEW n \in NodeIds, motor_by_node'[m][n] # None
        PROVE  LET u == motor_by_node'[m][n]
               IN co'[u] = m /\ pc'[u] \in HasMotor /\ drive'[u][2] = n
    <3>1. motor_by_node[m][n] = motor_by_node'[m][n] /\ motor_by_node[m][n] \in Threads
      BY <2>1, <2>4, <2>5
    <3>2. motor_by_node[m][n] # t
      BY <2>1, <2>4, <2>5, <3>1 DEF Listed
    <3>3. QED
      BY <2>1, <2>5, <3>1, <3>2 DEF Listed
  <2>6. ASSUME NEW u \in Threads, pc'[u] \in HasMotor
        PROVE  motor_by_node'[co'[u]][drive'[u][2]] = u
    <3>1. u # t
      BY <2>1, <2>6 DEF HasMotor
    <3>2. pc[u] \in HasMotor
      BY <2>1, <2>6, <3>1
    <3>3. motor_by_node[co[u]][drive[u][2]] = u
      BY <2>1, <3>2 DEF Listed
    <3>4. QED
      BY <2>1, <2>2, <2>4, <3>1, <3>2, <3>3
  <2>7. QED
    BY <2>5, <2>6 DEF Listed
<1>10. Served'
  BY NoneAssumption DEF TypeOK, Served
<1>11. TablesFinite'
  BY DEF TypeOK, TablesFinite
<1>12. QED
  BY <1>1, <1>2, <1>3, <1>4, <1>5, <1>6, <1>7, <1>8, <1>9, <1>10, <1>11

LEMMA ReleaseMasterKeeps ==
  ASSUME Inv, NEW t \in Threads, ReleaseMaster(t)
  PROVE  Inv'
<1> USE DEF Inv, ReleaseMaster, Goto, BusLockFree, busVars, recvVars, callbackVars
<1>a. /\ co[t] \in Masters /\ None \notin Masters /\ refcount \in [Masters -> Nat]
      /\ \A u \in Threads : pc[u] \in Uses \cup Freeing => drive[u][1] \in Ifaces
  BY DrivesAssumption, NoneAssumption DEF TypeOK, Placed, Uses, HasMotor, Freeing
<1>b. ASSUME refcount[co[t]] <= 1
      PROVE  \A u \in Threads : u # t /\ pc[u] \in Uses \cup Freeing => co[u] # co[t]
  BY <1>a, <1>b, HolderCounts DEF Holders, Uses, HasMotor, Freeing
<1>1. ReferencesExact'
  BY CountStays DEF TypeOK
<1>2. TypeOK'
  BY <1>1, HoldersFiniteNext, DrivesAssumption, NoneAssumption DEF TypeOK, Working,
     ReferencesExact, Placed, Uses, HasMotor, Freeing
<1>3. Placed'
  BY DrivesAssumption, NoneAssumption DEF TypeOK, Placed, Uses, HasMotor, Freeing
<1>4. OneOwner'
  BY DEF TypeOK, OneOwner
<1>5. Found'
  <2>1. CASE refcount[co[t]] <= 1
    BY <1>a, <1>b, <2>1 DEF TypeOK, Placed, Found, Uses, HasMotor, Freeing
  <2>2. CASE refcount[co[t]] > 1
    BY <1>a, <2>2 DEF TypeOK, Placed, Found, Uses, HasMotor, Freeing
  <2>3. QED
    BY <1>a, <2>1, <2>2
<1>6. Alive'
  BY DrivesAssumption, NoneAssumption DEF TypeOK, Found, Placed, Alive
<1>7. Unshared'
  BY DrivesAssumption, NoneAssumption DEF TypeOK, Placed, Unshared, Private, Freeing
<1>8. Hooked'
  BY NoneAssumption DEF TypeOK, Placed, Hooked, Freeing, HasMotor
<1>9. Listed'
  BY DrivesAssumption, NoneAssumption DEF TypeOK, Placed, Listed, Uses, HasMotor,
     Freeing
<1>10. Served'
  BY NoneAssumption DEF TypeOK, Served
<1>11. TablesFinite'
  BY DEF TypeOK, TablesFinite
<1>12. QED
  BY <1>1, <1>2, <1>3, <1>4, <1>5, <1>6, <1>7, <1>8, <1>9, <1>10, <1>11

LEMMA DropReferenceKeeps ==
  ASSUME Inv, NEW t \in Threads, DropReference(t)
  PROVE  Inv'
<1> USE DEF Inv, DropReference, Goto, CallEnds, busVars, recvVars, callbackVars
<1>a. /\ co[t] \in Masters /\ spare[t] = None /\ None \notin Masters
      /\ refcount \in [Masters -> Nat]
  BY NoneAssumption DEF TypeOK, Placed, Freeing
<1>b. refcount[co[t]] >= 1
  BY <1>a, HolderCounts DEF Holders
<1>c. /\ refcount' = [refcount EXCEPT ![co[t]] = @ - 1]
      /\ \A u \in Threads \ {t} : pc'[u] = pc[u] /\ co'[u] = co[u] /\ drive'[u] = drive[u]
      /\ \/ refcount[co[t]] > 1 /\ pc'[t] = "out" /\ co'[t] = None
         \/ refcount[co[t]] = 1 /\ pc'[t] = "join" /\ co'[t] = co[t] /\ drive' = drive
  BY <1>a, <1>b DEF TypeOK
<1>d. \A u \in Threads \ {t} :
        /\ pc[u] \notin {"drop", "join"}
        /\ pc[u] = "joinSpare" => spare[u] # co[t]
  BY DEF OneOwner, Unshared, Private, Freeing
<1>1. ReferencesExact'
  <2>1. \A u \in Threads \ {t}, x \in Masters : u \in Holders(x)' <=> u \in Holders(x)
    BY <1>c DEF TypeOK, Holders
  <2>2. \A x \in Masters : t \in Holders(x) <=> x = co[t]
    BY <1>a DEF Holders
  <2>3. \A x \in Masters : t \notin Holders(x)'
    BY <1>a, <1>c DEF TypeOK, Holders
  <2>4. \A x \in Masters : refcount'[x] = IF x = co[t] THEN refcount[x] - 1 ELSE refcount[x]
    BY <1>a, <1>c
  <2>5. QED
    BY <2>1, <2>2, <2>3, <2>4, CountFollows
<1>2. TypeOK'
  <2>1. refcount' \in [Masters -> 0 .. Cardinality(Threads)]
    <3>1. \A x \in Masters : refcount'[x] \in 0 .. Cardinality(Threads)
      BY <1>1, HoldersFiniteNext DEF ReferencesExact
    <3>2. QED
      BY <3>1 DEF TypeOK
  <2>2. /\ pc' \in [Threads -> Working \cup {"out", "open"}]
        /\ drive' \in [Threads -> Drives \cup {None}]
    BY DEF TypeOK, Working
  <2>3. co' \in [Threads -> Masters \cup {None}]
    BY DEF TypeOK
  <2>4. QED
    BY <2>1, <2>2, <2>3 DEF TypeOK
<1>3. Placed'
  BY DrivesAssumption, NoneAssumption DEF TypeOK, Placed, Uses, HasMotor, Freeing
<1>4. OneOwner'
  BY DEF TypeOK, OneOwner
<1>5. Found'
  BY <1>a, <1>b, <1>c, <1>d DEF TypeOK, Placed, Found, Alive, Uses, HasMotor,
     Freeing
<1>6. Alive'
  BY <1>a, <1>b, <1>c DEF TypeOK, Alive, Found
<1>7. Unshared'
  BY DrivesAssumption, NoneAssumption DEF TypeOK, Placed, Unshared, Private, Freeing
<1>8. Hooked'
  <2>1. /\ tpdo' = tpdo /\ tpdo \in [Masters -> SUBSET (Threads \X {2, 3})]
        /\ pc[t] = "drop" /\ Hooked
    BY DEF TypeOK
  <2> HIDE DEF Inv, DropReference, Goto, CallEnds
  <2>2. ASSUME NEW m \in Masters, NEW e \in tpdo[m]
        PROVE  e[1] \in Threads \ {t} /\ co[e[1]] = m /\ pc[e[1]] \in {"hook3", "open", "unhook"}
    BY <2>1 DEF Hooked
  <2>3. QED
    BY <1>c, <2>1, <2>2 DEF Hooked
<1>9. Listed'
  <2>1. /\ motor_by_node' = motor_by_node
        /\ pc[t] = "drop" /\ pc'[t] \in {"out", "join"}
    BY DEF TypeOK
  <2>2. ASSUME NEW m \in Masters, NEW n \in NodeIds, motor_by_node[m][n] # None
        PROVE  LET u == motor_by_node[m][n]
               IN u \in Threads \ {t} /\ co[u] = m /\ pc[u] \in HasMotor /\ drive[u][2] = n
    BY <1>c, <2>1, <2>2 DEF TypeOK, Listed, HasMotor
  <2>3. ASSUME NEW u \in Threads, pc'[u] \in HasMotor
        PROVE  u # t /\ motor_by_node[co[u]][drive[u][2]] = u
    BY <1>c, <2>1, <2>3 DEF Listed, HasMotor
  <2>4. QED
    BY <1>c, <2>1, <2>2, <2>3 DEF Listed
<1>10. Served'
  BY NoneAssumption DEF TypeOK, Served
<1>11. TablesFinite'
  BY DEF TypeOK, TablesFinite
<1>12. QED
  BY <1>1, <1>2, <1>3, <1>4, <1>5, <1>6, <1>7, <1>8, <1>9, <1>10, <1>11

LEMMA JoinReceiverKeeps ==
  ASSUME Inv, NEW t \in Threads, JoinReceiver(t)
  PROVE  Inv'
<1> USE DEF Inv, JoinReceiver, Goto, CallEnds, busVars, recvVars, callbackVars
<1>a. /\ co[t] \in Masters /\ spare[t] = None /\ None \notin Masters
      /\ refcount \in [Masters -> Nat] /\ refcount[co[t]] = 0
  <2>1. co[t] \in Masters /\ spare[t] = None /\ None \notin Masters
    BY NoneAssumption DEF Placed, Freeing
  <2>2. refcount \in [Masters -> Nat]
    BY DEF TypeOK
  <2>3. refcount[co[t]] = 0
    BY DEF Found
  <2>4. QED
    BY <2>1, <2>2, <2>3
<1>b. \A u \in Threads \ {t} :
        /\ pc[u] # "join"
        /\ pc[u] = "joinSpare" => spare[u] # co[t]
  BY DEF OneOwner, Unshared, Private, Freeing
<1>1. ReferencesExact'
  <2>1. \A u \in Threads \ {t}, x \in Masters : u \in Holders(x)' <=> u \in Holders(x)
    BY DEF TypeOK, Holders
  <2>2. \A x \in Masters : t \notin Holders(x) /\ t \notin Holders(x)'
    BY <1>a DEF TypeOK, Holders
  <2>3. QED
    BY <2>1, <2>2, CountFollows
<1>2. TypeOK'
  BY <1>1, HoldersFiniteNext, DrivesAssumption, NoneAssumption DEF TypeOK, Working,
     ReferencesExact, Placed, Uses, HasMotor, Freeing
<1>3. Placed'
  BY DrivesAssumption, NoneAssumption DEF TypeOK, Placed, Uses, HasMotor, Freeing
<1>4. OneOwner'
  BY DEF TypeOK, OneOwner
<1>5. Found'
  BY <1>a, <1>b DEF TypeOK, Placed, Found, Uses, HasMotor, Freeing
<1>6. Alive'
  BY <1>a DEF TypeOK, Alive
<1>7. Unshared'
  BY DrivesAssumption, NoneAssumption DEF TypeOK, Placed, Unshared, Private, Freeing
<1>8. Hooked'
  BY NoneAssumption DEF TypeOK, Placed, Hooked, Freeing, HasMotor
<1>9. Listed'
  BY DrivesAssumption, NoneAssumption DEF TypeOK, Placed, Listed, Uses, HasMotor,
     Freeing
<1>10. Served'
  BY NoneAssumption DEF TypeOK, Served
<1>11. TablesFinite'
  BY DEF TypeOK, TablesFinite
<1>12. QED
  BY <1>1, <1>2, <1>3, <1>4, <1>5, <1>6, <1>7, <1>8, <1>9, <1>10, <1>11

LEMMA DispatchTpdoKeeps ==
  ASSUME Inv, NEW m \in Masters, DispatchTpdo(m)
  PROVE  Inv'
<1> USE DEF Inv, DispatchTpdo, threadVars, busVars, recvVars, callbackVars
<1>1. ReferencesExact'
  BY CountStays DEF TypeOK
<1>2. TypeOK'
  BY <1>1, HoldersFiniteNext, DrivesAssumption, NoneAssumption DEF TypeOK, Working,
     ReferencesExact, Placed, Uses, HasMotor, Freeing
<1>3. Placed'
  BY DrivesAssumption, NoneAssumption DEF TypeOK, Placed, Uses, HasMotor, Freeing
<1>4. OneOwner'
  BY DEF TypeOK, OneOwner
<1>5. Found'
  BY DrivesAssumption, NoneAssumption DEF TypeOK, Found, Placed, Alive, Uses,
     HasMotor, Freeing
<1>6. Alive'
  BY DrivesAssumption, NoneAssumption DEF TypeOK, Found, Placed, Alive
<1>7. Unshared'
  BY DrivesAssumption, NoneAssumption DEF TypeOK, Placed, Unshared, Private, Freeing
<1>8. Hooked'
  BY NoneAssumption DEF TypeOK, Placed, Hooked, Freeing, HasMotor
<1>9. Listed'
  BY DrivesAssumption, NoneAssumption DEF TypeOK, Placed, Listed, Uses, HasMotor,
     Freeing
<1>10. Served'
  <2>1. PICK e \in tpdo[m] : serving' = [serving EXCEPT ![m] = e[1]]
    OBVIOUS
  <2>2. e[2] \in {2, 3} /\ e = <<e[1], e[2]>>
    BY <2>1 DEF TypeOK
  <2>3. /\ receiving' = [receiving EXCEPT ![m] = "tpdo"]
        /\ UNCHANGED <<tpdo, motor_by_node>>
        /\ receiving \in [Masters -> {"off", "poll", "tpdo", "sdo", "other"}]
        /\ serving \in [Masters -> Threads \cup {None}] /\ Served
    BY DEF TypeOK
  <2> HIDE DEF Inv, DispatchTpdo
  <2>4. serving'[m] = e[1] /\ receiving'[m] = "tpdo" /\ <<e[1], e[2]>> \in tpdo'[m]
    BY <2>1, <2>2, <2>3
  <2>5. \A x \in Masters \ {m} : serving'[x] = serving[x] /\ receiving'[x] = receiving[x]
    BY <2>1, <2>3
  <2>6. QED
    BY <2>2, <2>3, <2>4, <2>5 DEF Served
<1>11. TablesFinite'
  BY DEF TypeOK, TablesFinite
<1>12. QED
  BY <1>1, <1>2, <1>3, <1>4, <1>5, <1>6, <1>7, <1>8, <1>9, <1>10, <1>11

LEMMA DispatchSdoKeeps ==
  ASSUME Inv, NEW m \in Masters, DispatchSdo(m)
  PROVE  Inv'
<1> USE DEF Inv, DispatchSdo, threadVars, busVars, recvVars, callbackVars
<1>1. ReferencesExact'
  BY CountStays DEF TypeOK
<1>2. TypeOK'
  BY <1>1, HoldersFiniteNext, DrivesAssumption, NoneAssumption DEF TypeOK, Working,
     ReferencesExact, Placed, Uses, HasMotor, Freeing
<1>3. Placed'
  BY DrivesAssumption, NoneAssumption DEF TypeOK, Placed, Uses, HasMotor, Freeing
<1>4. OneOwner'
  BY DEF TypeOK, OneOwner
<1>5. Found'
  BY DrivesAssumption, NoneAssumption DEF TypeOK, Found, Placed, Alive, Uses,
     HasMotor, Freeing
<1>6. Alive'
  BY DrivesAssumption, NoneAssumption DEF TypeOK, Found, Placed, Alive
<1>7. Unshared'
  BY DrivesAssumption, NoneAssumption DEF TypeOK, Placed, Unshared, Private, Freeing
<1>8. Hooked'
  BY NoneAssumption DEF TypeOK, Placed, Hooked, Freeing, HasMotor
<1>9. Listed'
  BY DrivesAssumption, NoneAssumption DEF TypeOK, Placed, Listed, Uses, HasMotor,
     Freeing
<1>10. Served'
  <2>1. PICK n \in NodeIds : serving' = [serving EXCEPT ![m] = motor_by_node[m][n]]
    OBVIOUS
  <2>2. QED
    BY <2>1 DEF TypeOK, Served
<1>11. TablesFinite'
  BY DEF TypeOK, TablesFinite
<1>12. QED
  BY <1>1, <1>2, <1>3, <1>4, <1>5, <1>6, <1>7, <1>8, <1>9, <1>10, <1>11

LEMMA DispatchOtherKeeps ==
  ASSUME Inv, NEW m \in Masters, DispatchOther(m)
  PROVE  Inv'
<1> USE DEF Inv, DispatchOther, threadVars, busVars, recvVars, callbackVars
<1>a. serving[m] = None
  BY DEF Served
<1>1. ReferencesExact'
  BY CountStays DEF TypeOK
<1>2. TypeOK'
  BY <1>1, HoldersFiniteNext, DrivesAssumption, NoneAssumption DEF TypeOK, Working,
     ReferencesExact, Placed, Uses, HasMotor, Freeing
<1>3. Placed'
  BY DrivesAssumption, NoneAssumption DEF TypeOK, Placed, Uses, HasMotor, Freeing
<1>4. OneOwner'
  BY DEF TypeOK, OneOwner
<1>5. Found'
  BY DrivesAssumption, NoneAssumption DEF TypeOK, Found, Placed, Alive, Uses,
     HasMotor, Freeing
<1>6. Alive'
  BY DrivesAssumption, NoneAssumption DEF TypeOK, Found, Placed, Alive
<1>7. Unshared'
  BY DrivesAssumption, NoneAssumption DEF TypeOK, Placed, Unshared, Private, Freeing
<1>8. Hooked'
  BY NoneAssumption DEF TypeOK, Placed, Hooked, Freeing, HasMotor
<1>9. Listed'
  BY DrivesAssumption, NoneAssumption DEF TypeOK, Placed, Listed, Uses, HasMotor,
     Freeing
<1>10. Served'
  BY <1>a DEF TypeOK, Served
<1>11. TablesFinite'
  BY DEF TypeOK, TablesFinite
<1>12. QED
  BY <1>1, <1>2, <1>3, <1>4, <1>5, <1>6, <1>7, <1>8, <1>9, <1>10, <1>11

LEMMA CallbackReturnsKeeps ==
  ASSUME Inv, NEW m \in Masters, CallbackReturns(m)
  PROVE  Inv'
<1> USE DEF Inv, CallbackReturns, threadVars, busVars, recvVars, callbackVars
<1>1. ReferencesExact'
  BY CountStays DEF TypeOK
<1>2. TypeOK'
  BY <1>1, HoldersFiniteNext, DrivesAssumption, NoneAssumption DEF TypeOK, Working,
     ReferencesExact, Placed, Uses, HasMotor, Freeing
<1>3. Placed'
  BY DrivesAssumption, NoneAssumption DEF TypeOK, Placed, Uses, HasMotor, Freeing
<1>4. OneOwner'
  BY DEF TypeOK, OneOwner
<1>5. Found'
  BY DrivesAssumption, NoneAssumption DEF TypeOK, Found, Placed, Alive, Uses,
     HasMotor, Freeing
<1>6. Alive'
  BY DrivesAssumption, NoneAssumption DEF TypeOK, Found, Placed, Alive
<1>7. Unshared'
  BY DrivesAssumption, NoneAssumption DEF TypeOK, Placed, Unshared, Private, Freeing
<1>8. Hooked'
  BY NoneAssumption DEF TypeOK, Placed, Hooked, Freeing, HasMotor
<1>9. Listed'
  BY DrivesAssumption, NoneAssumption DEF TypeOK, Placed, Listed, Uses, HasMotor,
     Freeing
<1>10. Served'
  BY NoneAssumption DEF TypeOK, Served
<1>11. TablesFinite'
  BY DEF TypeOK, TablesFinite
<1>12. QED
  BY <1>1, <1>2, <1>3, <1>4, <1>5, <1>6, <1>7, <1>8, <1>9, <1>10, <1>11

-----------------------------------------------------------------------------
(* The theorems. *)

LEMMA InvStart == Init => Inv
<1> SUFFICES ASSUME Init PROVE Inv
  OBVIOUS
<1>1. ReferencesExact
  <2>1. \A m \in Masters : Holders(m) = {}
    BY NoneAssumption DEF Init, Holders
  <2>2. QED
    BY <2>1, FS_EmptySet DEF Init, ReferencesExact
<1>2. TypeOK
  <2>1. Cardinality(Threads) \in Nat /\ IsFiniteSet({}) /\ Cardinality({}) = 0
    BY MastersAssumption, FS_CardinalityType, FS_EmptySet
  <2>2. QED
    BY <2>1, LimitsAssumption DEF Init, TypeOK
<1>3. Placed /\ OneOwner /\ Found
  BY DEF Init, Placed, OneOwner, Found, Uses, HasMotor, Freeing
<1>4. Alive /\ Unshared /\ Hooked /\ Listed /\ Served
  BY DEF Init, Alive, Unshared, Hooked, Listed, Served, HasMotor, Freeing
<1>5. TablesFinite
  BY FS_EmptySet DEF Init, TablesFinite
<1>6. QED
  BY <1>1, <1>2, <1>3, <1>4, <1>5 DEF Inv

LEMMA InvStep == Inv /\ [Next]_vars => Inv'
<1> SUFFICES ASSUME Inv, [Next]_vars PROVE Inv'
  OBVIOUS
<1>1. ASSUME NEW t \in Threads, NEW d \in Opens[t], OpenFind(t, d)
      PROVE  Inv'
  BY <1>1, OpenFindKeeps
<1>2. ASSUME NEW t \in Threads, CloseMotor(t)
      PROVE  Inv'
  BY <1>2, CloseMotorKeeps
<1>3. ASSUME NEW t \in Threads, Step(t)
      PROVE  Inv'
  BY <1>3, CreateFailsKeeps, CreateMasterKeeps, OpenRecheckKeeps, FreeSpareKeeps,
     JoinSpareKeeps, ListMotorKeeps, ListRefusedKeeps, HookTpdo2Keeps, HookTpdo3Keeps,
     RemoveCallbacksKeeps, UnlistMotorKeeps, ReleaseMasterKeeps, DropReferenceKeeps,
     JoinReceiverKeeps DEF Step
<1>4. ASSUME NEW m \in Masters,
             \/ DispatchTpdo(m) \/ DispatchSdo(m)
             \/ DispatchOther(m) \/ CallbackReturns(m)
      PROVE  Inv'
  BY <1>4, DispatchTpdoKeeps, DispatchSdoKeeps, DispatchOtherKeeps,
     CallbackReturnsKeeps
<1>5. CASE UNCHANGED vars
  <2>1. UNCHANGED <<registry, refcount, receiving, serving, tpdo, motor_by_node,
                    pc, drive, co, spare, motor>>
    BY <1>5 DEF vars, busVars, recvVars, callbackVars, threadVars
  <2>2. ReferencesExact'
    BY <2>1, CountStays DEF Inv
  <2>3. TypeOK' /\ Placed' /\ OneOwner' /\ Found' /\ Alive'
    BY <2>1 DEF Inv, TypeOK, Placed, OneOwner, Found, Alive
  <2>4. Unshared' /\ Hooked' /\ Listed' /\ Served' /\ TablesFinite'
    BY <2>1 DEF Inv, Unshared, Private, Hooked, Listed, Served, TablesFinite
  <2>5. QED
    BY <2>2, <2>3, <2>4 DEF Inv
<1>6. QED
  BY <1>1, <1>2, <1>3, <1>4, <1>5 DEF Next

\* Every reachable state of opening and closing threads has the strengthened
\* invariant, whatever their number and whatever they open.
THEOREM Invariance == Spec => []Inv
<1>1. Init => Inv
  BY InvStart
<1>2. Inv /\ [Next]_vars => Inv'
  BY InvStep
<1>3. QED
  BY <1>1, <1>2, PTL DEF Spec

\* The variables keep their types; the TPDO table of a master is never written
\* past its end (miraculous_co_pdo_set_tpdo_callback).
THEOREM TypeCorrect == Spec => []TypeOK
<1>1. Inv => TypeOK
  BY DEF Inv
<1>2. QED
  BY <1>1, Invariance, PTL

\* The reference count of a master is at every moment the number of threads that
\* use it: miraculous_co_free never frees one in use and never leaks one.
THEOREM CountIsExact == Spec => []ReferencesExact
<1>1. Inv => ReferencesExact
  BY DEF Inv
<1>2. QED
  BY <1>1, Invariance, PTL

\* What motor_open finds in g_bus_reg is a living master.
THEOREM RegistryIsAlive == Spec => []RegisteredIsAlive
<1>1. Inv => RegisteredIsAlive
  <2>1. SUFFICES ASSUME Inv, NEW i \in Ifaces, registry[i] # None
                 PROVE  refcount[registry[i]] > 0 /\ receiving[registry[i]] # "off"
    BY DEF RegisteredIsAlive
  <2>2. registry[i] \in Masters
    BY <2>1 DEF Inv, TypeOK
  <2>3. QED
    BY <2>1, <2>2 DEF Inv, Alive
<1>2. QED
  BY <1>1, Invariance, PTL

\* Of all opens of one drive at most one is in force, also when several threads
\* race to create the master of the bus.
THEOREM DriveHasOneHandle == Spec => []OneHandlePerDrive
<1>1. Inv => OneHandlePerDrive
  <2>1. SUFFICES ASSUME Inv, NEW t \in Threads, NEW u \in Threads,
                        pc[t] = "open", pc[u] = "open", drive[t] = drive[u]
                 PROVE  t = u
    BY DEF OneHandlePerDrive
  <2>2. co[t] = co[u]
    BY <2>1 DEF Inv, Found, Uses, HasMotor
  <2>3. motor_by_node[co[t]][drive[t][2]] = t /\ motor_by_node[co[u]][drive[u][2]] = u
    BY <2>1 DEF Inv, Listed, HasMotor
  <2>4. QED
    BY <2>1, <2>2, <2>3
<1>2. QED
  BY <1>1, Invariance, PTL

\* The receive thread never runs a callback of a motor that motor_close freed:
\* the removal from each table waits for the callback in progress.
THEOREM CallbackHasMotor == Spec => []NoCallbackAfterFree
<1>1. Inv => NoCallbackAfterFree
  <2>1. SUFFICES ASSUME Inv, NEW m \in Masters, serving[m] # None
                 PROVE  motor[serving[m]] /\ co[serving[m]] = m
    BY DEF NoCallbackAfterFree
  <2>2. serving[m] \in Threads
    BY <2>1 DEF Inv, TypeOK
  <2>3. co[serving[m]] = m /\ pc[serving[m]] \in HasMotor
    <3>1. CASE \E k \in {2, 3} : <<serving[m], k>> \in tpdo[m]
      <4>1. PICK k \in {2, 3} : <<serving[m], k>> \in tpdo[m]
        BY <3>1
      <4>2. <<serving[m], k>>[1] = serving[m]
        OBVIOUS
      <4>3. QED
        BY <4>1, <4>2, <2>1 DEF Inv, Hooked, HasMotor
    <3>2. CASE \E n \in NodeIds : motor_by_node[m][n] = serving[m]
      <4>1. PICK n \in NodeIds : motor_by_node[m][n] = serving[m]
        BY <3>2
      <4>2. QED
        BY <4>1, <2>1 DEF Inv, Listed
    <3>3. QED
      BY <2>1, <3>1, <3>2 DEF Inv, Served
  <2>4. motor[serving[m]] <=> pc[serving[m]] \in HasMotor
    BY <2>1, <2>2, Zenon DEF Inv, Placed
  <2>5. QED
    BY <2>3, <2>4
<1>2. QED
  BY <1>1, Invariance, PTL

-----------------------------------------------------------------------------
(* What the handles and the absence of deadlock need besides. *)

\* A master is registered for one interface.
Distinct ==
  \A i, j \in Ifaces : registry[i] # None /\ registry[i] = registry[j] => i = j

\* A call is for a drive its thread may open.
Asked == \A t \in Threads : pc[t] # "out" => drive[t] \in Opens[t]

\* A receive thread that runs serves a master in use, or somebody is about to
\* join it.
Reaped ==
  \A m \in Masters : receiving[m] # "off" =>
    \/ refcount[m] > 0
    \/ \E t \in Threads : \/ pc[t] = "join" /\ co[t] = m
                          \/ pc[t] = "joinSpare" /\ spare[t] = m

HandleInv == Distinct /\ Asked /\ Reaped

LEMMA DistinctStep == Inv /\ Distinct /\ [Next]_vars => Distinct'
<1> SUFFICES ASSUME Inv, Distinct, [Next]_vars PROVE Distinct'
  OBVIOUS
<1>1. ASSUME NEW t \in Threads, OpenRecheck(t)
      PROVE  Distinct'
  <2>1. Private(t, co[t]) /\ drive[t] \in Drives /\ registry \in [Ifaces -> Masters \cup {None}]
    BY <1>1 DEF OpenRecheck, Inv, Unshared, Placed, TypeOK
  <2>2. \/ registry' = registry
        \/ registry' = [registry EXCEPT ![drive[t][1]] = co[t]]
    BY <1>1 DEF OpenRecheck
  <2>3. QED
    BY <2>1, <2>2 DEF Distinct, Private
<1>2. ASSUME NEW t \in Threads, ReleaseMaster(t)
      PROVE  Distinct'
  <2>1. \A i \in Ifaces : registry'[i] \in {registry[i], None}
    BY <1>2 DEF ReleaseMaster
  <2>2. QED
    BY <2>1 DEF Distinct
<1>3. CASE registry' = registry
  BY <1>3 DEF Distinct
<1>4. \/ \E t \in Threads : OpenRecheck(t) \/ ReleaseMaster(t)
      \/ registry' = registry
  BY DEF Next, Step, OpenFind, CloseMotor, CreateFails, CreateMaster, FreeSpare, JoinSpare,
     ListMotor, ListRefused, HookTpdo2, HookTpdo3, SetTpdoCallback, RemoveCallbacks,
     UnlistMotor, DropReference, JoinReceiver, DispatchTpdo, DispatchSdo,
     DispatchOther, CallbackReturns, vars, busVars
<1>5. QED
  BY <1>1, <1>2, <1>3, <1>4

LEMMA AskedStep == Inv /\ Asked /\ [Next]_vars => Asked'
<1> SUFFICES ASSUME Inv, Asked, [Next]_vars PROVE Asked'
  OBVIOUS
<1>a. /\ pc \in [Threads -> Working \cup {"out", "open"}]
      /\ drive \in [Threads -> Drives \cup {None}]
  BY DEF Inv, TypeOK
<1>1. ASSUME NEW t \in Threads, NEW d \in Opens[t], OpenFind(t, d)
      PROVE  Asked'
  <2>1. drive' = [drive EXCEPT ![t] = d] /\ \A u \in Threads \ {t} : pc'[u] = pc[u]
    BY <1>1, <1>a DEF OpenFind, Goto
  <2>2. QED
    BY <2>1, <1>a DEF Asked
<1>2. ASSUME NEW t \in Threads, CallEnds(t)
      PROVE  Asked'
  BY <1>2, <1>a DEF CallEnds, Goto, Asked
<1>3. ASSUME drive' = drive, \A t \in Threads : pc[t] = "out" => pc'[t] = "out"
      PROVE  Asked'
  BY <1>3 DEF Asked
<1>4. ASSUME NEW t \in Threads, CloseMotor(t) \/ Step(t),
             ~CallEnds(t)
      PROVE  drive' = drive /\ \A u \in Threads : pc[u] = "out" => pc'[u] = "out"
  BY <1>4, <1>a DEF Step, CloseMotor, CreateFails, CreateMaster, OpenRecheck, FreeSpare,
     JoinSpare, ListMotor, ListRefused, HookTpdo2, HookTpdo3, SetTpdoCallback,
     RemoveCallbacks, UnlistMotor, ReleaseMaster, DropReference, JoinReceiver, Goto
<1>5. ASSUME NEW m \in Masters,
             \/ DispatchTpdo(m) \/ DispatchSdo(m)
             \/ DispatchOther(m) \/ CallbackReturns(m)
      PROVE  Asked'
  BY <1>5, <1>3 DEF DispatchTpdo, DispatchSdo, DispatchOther, CallbackReturns, threadVars
<1>6. CASE UNCHANGED vars
  BY <1>6, <1>3 DEF vars, threadVars
<1>7. QED
  BY <1>1, <1>2, <1>3, <1>4, <1>5, <1>6 DEF Next

LEMMA ReapedStep == Inv /\ Inv' /\ Reaped /\ [Next]_vars => Reaped'
<1> SUFFICES ASSUME Inv, Inv', Reaped, [Next]_vars, NEW m \in Masters, receiving'[m] # "off"
             PROVE  \/ refcount'[m] > 0
                    \/ \E t \in Threads : \/ pc'[t] = "join" /\ co'[t] = m
                                          \/ pc'[t] = "joinSpare" /\ spare'[t] = m
  BY DEF Reaped
<1> DEFINE Joined(t) == \/ pc[t] = "join" /\ co[t] = m
                        \/ pc[t] = "joinSpare" /\ spare[t] = m
<1>a. /\ pc \in [Threads -> Working \cup {"out", "open"}]
      /\ co \in [Threads -> Masters \cup {None}] /\ spare \in [Threads -> Masters \cup {None}]
      /\ receiving \in [Masters -> {"off", "poll", "tpdo", "sdo", "other"}]
      /\ refcount \in [Masters -> Nat]
  BY DEF Inv, TypeOK
<1>b. refcount'[m] \in Nat
  BY DEF Inv, TypeOK
<1>1. ASSUME NEW t \in Threads, FreeSpare(t)
      PROVE  refcount'[m] > 0 \/ \E u \in Threads : Joined(u)'
  <2>1. /\ spare[t] \in Masters /\ pc[t] = "freeSpare"
        /\ pc' = [pc EXCEPT ![t] = "joinSpare"]
        /\ refcount' = [refcount EXCEPT ![spare[t]] = @ - 1]
        /\ UNCHANGED <<co, spare, receiving>>
    BY <1>1, <1>a DEF FreeSpare, Goto, recvVars, Inv, Placed, Freeing
  <2>2. CASE m = spare[t]
    BY <2>1, <2>2, <1>a
  <2>3. CASE m # spare[t]
    BY <2>1, <2>3, <1>a DEF Reaped
  <2>4. QED
    BY <2>2, <2>3
<1>2. ASSUME NEW t \in Threads, DropReference(t)
      PROVE  refcount'[m] > 0 \/ \E u \in Threads : Joined(u)'
  <2>1. /\ co[t] \in Masters /\ pc[t] = "drop"
        /\ refcount' = [refcount EXCEPT ![co[t]] = @ - 1]
        /\ UNCHANGED <<spare, receiving>>
    BY <1>2 DEF DropReference, recvVars, Inv, Placed
  <2>2. CASE m = co[t] /\ refcount[m] > 1
    BY <2>1, <2>2, <1>a
  <2>3. CASE m = co[t] /\ ~(refcount[m] > 1)
    <3>1. pc' = [pc EXCEPT ![t] = "join"] /\ co' = co
      BY <1>2, <2>3 DEF DropReference, Goto
    <3>2. QED
      BY <3>1, <2>3, <1>a
  <2>4. CASE m # co[t]
    <3>1. \A u \in Threads \ {t} : pc'[u] = pc[u] /\ co'[u] = co[u]
      BY <1>2, <1>a DEF DropReference, Goto, CallEnds
    <3>2. QED
      BY <2>1, <2>4, <3>1, <1>a DEF Reaped
  <2>5. QED
    BY <2>2, <2>3, <2>4
<1>3. ASSUME NEW t \in Threads, JoinSpare(t)
      PROVE  refcount'[m] > 0 \/ \E u \in Threads : Joined(u)'
  <2>1. /\ spare[t] \in Masters /\ receiving' = [receiving EXCEPT ![spare[t]] = "off"]
        /\ pc[t] = "joinSpare" /\ refcount' = refcount /\ co' = co
    BY <1>3, <1>a DEF JoinSpare, Inv, Placed, Freeing, busVars
  <2>2. m # spare[t]
    BY <2>1, <1>a
  <2>3. \A u \in Threads \ {t} : pc'[u] = pc[u] /\ spare'[u] = spare[u]
    BY <1>3, <1>a DEF JoinSpare, Goto, CallEnds
  <2>4. QED
    BY <2>1, <2>2, <2>3, <1>a DEF Reaped
<1>4. ASSUME NEW t \in Threads, JoinReceiver(t)
      PROVE  refcount'[m] > 0 \/ \E u \in Threads : Joined(u)'
  <2>1. /\ co[t] \in Masters /\ receiving' = [receiving EXCEPT ![co[t]] = "off"]
        /\ pc[t] = "join" /\ refcount' = refcount /\ spare' = spare
    BY <1>4, <1>a DEF JoinReceiver, Inv, Placed, busVars
  <2>2. m # co[t]
    BY <2>1, <1>a
  <2>3. \A u \in Threads \ {t} : pc'[u] = pc[u] /\ co'[u] = co[u]
    BY <1>4, <1>a DEF JoinReceiver, Goto, CallEnds
  <2>4. QED
    BY <2>1, <2>2, <2>3, <1>a DEF Reaped
<1>5. ASSUME NEW t \in Threads, CreateMaster(t)
      PROVE  refcount'[m] > 0 \/ \E u \in Threads : Joined(u)'
  <2> DEFINE b == CHOOSE x \in Unborn : TRUE
  <2>1. /\ refcount' = [refcount EXCEPT ![b] = 1]
        /\ receiving' = [receiving EXCEPT ![b] = "poll"]
        /\ co' = [co EXCEPT ![t] = b] /\ spare' = spare
        /\ pc[t] = "create" /\ pc' = [pc EXCEPT ![t] = "recheck"]
    BY <1>5 DEF CreateMaster, Goto
  <2> HIDE DEF b
  <2>2. CASE m = b
    BY <2>1, <2>2, <1>a
  <2>3. CASE m # b
    BY <2>1, <2>3, <1>a DEF Reaped
  <2>4. QED
    BY <2>2, <2>3
<1>6. ASSUME refcount'[m] >= refcount[m], receiving[m] # "off",
             \A u \in Threads : /\ pc[u] = "join" => pc'[u] = "join" /\ co'[u] = co[u]
                                /\ pc[u] = "joinSpare" =>
                                     pc'[u] = "joinSpare" /\ spare'[u] = spare[u]
      PROVE  refcount'[m] > 0 \/ \E u \in Threads : Joined(u)'
  BY <1>6, <1>a, <1>b DEF Reaped
<1>7. ASSUME NEW t \in Threads, NEW d \in Opens[t], OpenFind(t, d)
      PROVE  refcount'[m] > 0 \/ \E u \in Threads : Joined(u)'
  <2>1. refcount'[m] >= refcount[m]
    BY <1>7, <1>a DEF OpenFind
  <2>2. QED
    BY <1>6, <1>7, <2>1, <1>a DEF OpenFind, Goto, recvVars
<1>8. ASSUME NEW t \in Threads, OpenRecheck(t)
      PROVE  refcount'[m] > 0 \/ \E u \in Threads : Joined(u)'
  <2>1. refcount'[m] >= refcount[m]
    BY <1>8, <1>a DEF OpenRecheck
  <2>2. QED
    BY <1>6, <1>8, <2>1, <1>a DEF OpenRecheck, Goto, recvVars
<1>9. ASSUME NEW t \in Threads,
             \/ CloseMotor(t) \/ CreateFails(t) \/ ListMotor(t) \/ ListRefused(t)
             \/ HookTpdo2(t) \/ HookTpdo3(t) \/ RemoveCallbacks(t) \/ UnlistMotor(t)
             \/ ReleaseMaster(t)
      PROVE  refcount'[m] > 0 \/ \E u \in Threads : Joined(u)'
  <2>1. /\ UNCHANGED <<refcount, receiving, co, spare>>
        /\ pc[t] \notin {"join", "joinSpare"}
        /\ \A u \in Threads \ {t} : pc'[u] = pc[u]
    BY <1>9, <1>a DEF CloseMotor, CreateFails, CallEnds, Goto, ListMotor, ListRefused,
       HookTpdo2, HookTpdo3, SetTpdoCallback, RemoveCallbacks, UnlistMotor,
       ReleaseMaster, busVars, recvVars
  <2>2. QED
    BY <1>6, <2>1, <1>a
<1>10. ASSUME NEW n \in Masters,
              \/ DispatchTpdo(n) \/ DispatchSdo(n)
              \/ DispatchOther(n) \/ CallbackReturns(n)
       PROVE  refcount'[m] > 0 \/ \E u \in Threads : Joined(u)'
  <2>1. /\ UNCHANGED <<refcount, co, spare, pc>>
        /\ receiving[m] = "off" => receiving'[m] = "off"
    BY <1>10, <1>a DEF DispatchTpdo, DispatchSdo, DispatchOther, CallbackReturns,
       threadVars, busVars
  <2>2. QED
    BY <1>6, <2>1, <1>a
<1>11. CASE UNCHANGED vars
  <2>1. UNCHANGED <<refcount, co, spare, pc, receiving>>
    BY <1>11 DEF vars, busVars, recvVars, threadVars
  <2>2. QED
    BY <1>6, <2>1, <1>a
<1>12. QED
  BY <1>1, <1>2, <1>3, <1>4, <1>5, <1>7, <1>8, <1>9, <1>10, <1>11 DEF Next, Step

LEMMA HandleInvariance == Spec => []HandleInv
<1>1. Init => HandleInv
  BY DEF Init, HandleInv, Distinct, Asked, Reaped
<1>2. Inv /\ Inv' /\ HandleInv /\ [Next]_vars => HandleInv'
  BY DistinctStep, AskedStep, ReapedStep DEF HandleInv
<1>3. QED
  BY <1>1, <1>2, Invariance, PTL DEF Spec

-----------------------------------------------------------------------------
(* Nobody waits forever for another call. *)

\* Threads that open and close motors never wait for each other in a circle,
\* nor for a receive thread that is gone: g_bus_lock is held across the join of a
\* receive thread, which is there and comes back from its callback.
THEOREM CallsNeverDeadlock == Spec => []SomebodyCanGo
<1>1. Inv => SomebodyCanGo
  <2> SUFFICES ASSUME Inv, NEW t \in InCall, ~CallbackRuns
               PROVE  \E u \in InCall : ~Blocked(u)
    BY DEF SomebodyCanGo
  <2>1. \A m \in Masters : receiving[m] \in {"off", "poll"}
    BY DEF Inv, TypeOK, CallbackRuns
  <2>2. \A u \in Threads : pc[u] \in {"hook2", "hook3", "unhook", "unlist"}
                             => PdoLockFree(co[u]) /\ RegistryLockFree(co[u])
    BY <2>1 DEF Inv, Placed, Uses, HasMotor, PdoLockFree, RegistryLockFree
  <2>3. \A u \in Threads : pc[u] = "joinSpare" => receiving[spare[u]] = "poll"
    BY <2>1 DEF Inv, TypeOK, Placed, Found, Freeing
  <2>4. \A u \in Threads : pc[u] = "join" => receiving[co[u]] = "poll"
    BY <2>1 DEF Inv, Placed, Found
  <2>5. CASE BusLockFree
    BY <2>2, <2>3, <2>4, <2>5 DEF Blocked, InCall
  <2>6. CASE ~BusLockFree
    <3>1. PICK u \in Threads : pc[u] \in {"drop", "join"}
      BY <2>6 DEF BusLockFree
    <3>2. u \in InCall /\ ~Blocked(u)
      BY <2>4, <3>1 DEF Blocked, InCall
    <3>3. QED
      BY <3>2
  <2>7. QED
    BY <2>5, <2>6
<1>2. QED
  BY <1>1, Invariance, PTL

\* No receive thread leaks: each serves a master that is in use, or the thread
\* that dropped the last reference is about to join it.
THEOREM ReceiverIsReaped == Spec => []Reaped
<1>1. HandleInv => Reaped
  BY DEF HandleInv
<1>2. QED
  BY <1>1, HandleInvariance, PTL

-----------------------------------------------------------------------------
(* The identities of MastersAssumption suffice. *)

LEMMA RangeIsSmall ==
  ASSUME NEW S \in SUBSET Threads, NEW f
  PROVE  /\ IsFiniteSet({f[t] : t \in S})
         /\ Cardinality({f[t] : t \in S}) <= Cardinality(S)
         /\ Cardinality({f[t] : t \in S}) \in Nat /\ Cardinality(S) \in Nat
<1> DEFINE g == [t \in S |-> f[t]]
<1>1. IsFiniteSet(S) /\ Cardinality(S) \in Nat
  BY MastersAssumption, FS_Subset, FS_CardinalityType
<1>2. g \in Surjection(S, {f[t] : t \in S})
  BY DEF Surjection
<1>3. /\ IsFiniteSet({f[t] : t \in S})
      /\ Cardinality({f[t] : t \in S}) <= Cardinality(S)
  BY <1>1, <1>2, FS_Surjection
<1>4. QED
  BY <1>1, <1>3, FS_CardinalityType

\* Each thread knows at most two masters and a thread that creates one knows
\* none, so that CreateMaster always finds an identity that is free: the model
\* has no state in which miraculous_co_init could not make an object.
THEOREM IdentityIsLeft == Spec => [](\A t \in Threads : pc[t] = "create" => Unborn # {})
<1>1. ASSUME Inv, Reaped, NEW t \in Threads, pc[t] = "create", Unborn = {}
      PROVE  FALSE
  <2> DEFINE S == Threads \ {t}
             A == {co[u] : u \in S}
             B == {spare[u] : u \in S}
  <2>1. co[t] = None /\ spare[t] = None /\ None \notin Masters
    BY <1>1, NoneAssumption DEF Inv, Placed, Freeing
  <2>2. ASSUME NEW m \in Masters
        PROVE  m \in A \cup B
    <3>1. refcount[m] # 0 \/ receiving[m] # "off"
      BY <1>1 DEF Unborn
    <3>2. \E u \in Threads : co[u] = m \/ spare[u] = m
      <4>1. CASE refcount[m] # 0
        <5>1. Holders(m) # {}
          BY <1>1, <4>1, FS_EmptySet DEF Inv, ReferencesExact
        <5>2. QED
          BY <5>1 DEF Holders
      <4>2. CASE refcount[m] = 0 /\ receiving[m] # "off"
        BY <1>1, <4>2 DEF Reaped
      <4>3. QED
        BY <3>1, <4>1, <4>2
    <3>3. PICK u \in Threads : co[u] = m \/ spare[u] = m
      BY <3>2
    <3>4. u \in S
      BY <2>1, <3>3
    <3>5. QED
      BY <3>3, <3>4
  <2>3. /\ IsFiniteSet(A) /\ IsFiniteSet(B)
        /\ Cardinality(A) <= Cardinality(S) /\ Cardinality(B) <= Cardinality(S)
        /\ Cardinality(A) \in Nat /\ Cardinality(B) \in Nat /\ Cardinality(S) \in Nat
    BY RangeIsSmall
  <2>4. /\ IsFiniteSet(Threads) /\ Cardinality(Threads) \in Nat
        /\ Cardinality(S) = Cardinality(Threads) - 1
    BY MastersAssumption, FS_CardinalityType, FS_RemoveElement
  <2> HIDE DEF S, A, B
  <2>5. IsFiniteSet(A \cup B) /\ Cardinality(A \cup B) <= Cardinality(A) + Cardinality(B)
    <3>1. /\ IsFiniteSet(A \cup B)
          /\ Cardinality(A \cup B) = Cardinality(A) + Cardinality(B) - Cardinality(A \cap B)
      BY <2>3, FS_Union
    <3>2. Cardinality(A \cap B) \in Nat
      BY <2>3, FS_Intersection, FS_CardinalityType
    <3>3. QED
      BY <2>3, <3>1, <3>2
  <2>6. Masters \subseteq A \cup B
    BY <2>2
  <2>7. Cardinality(Masters) <= Cardinality(A \cup B)
    BY <2>5, <2>6, FS_Subset
  <2>8. Cardinality(Masters) \in Nat /\ Cardinality(A \cup B) \in Nat
    BY <2>5, MastersAssumption, FS_CardinalityType
  <2>9. Cardinality(Masters) >= 2 * Cardinality(Threads)
    BY MastersAssumption
  <2>10. QED
    BY <2>3, <2>4, <2>5, <2>7, <2>8, <2>9
<1>2. Inv /\ HandleInv => (\A t \in Threads : pc[t] = "create" => Unborn # {})
  BY <1>1 DEF HandleInv
<1>3. QED
  BY <1>2, Invariance, HandleInvariance, PTL

-----------------------------------------------------------------------------
(* Opening and closing implement MotorHandles. *)

HandleOf == [d \in Drives |-> IF registry[d[1]] = None THEN None
                              ELSE motor_by_node[registry[d[1]]][d[2]]]
Serving == {t \in Threads : \E m \in Masters : serving[m] = t}

\* A drive's handle belongs to the thread that has a motor object for it.
HandlesMapped ==
  \A d \in Drives :
    /\ HandleOf[d] \in Threads \cup {None}
    /\ \A t \in Threads : HandleOf[d] = t <=> pc[t] \in HasMotor /\ drive[t] = d

LEMMA HandleIff == Inv /\ Distinct => HandlesMapped
<1> SUFFICES ASSUME Inv, Distinct, NEW d \in Drives
             PROVE  /\ HandleOf[d] \in Threads \cup {None}
                    /\ \A t \in Threads :
                         HandleOf[d] = t <=> pc[t] \in HasMotor /\ drive[t] = d
  BY DEF HandlesMapped
<1>1. /\ d[1] \in Ifaces /\ d[2] \in NodeIds /\ d = <<d[1], d[2]>>
      /\ None \notin Threads \cup Masters
  BY DrivesAssumption, NoneAssumption
<1>2. registry[d[1]] \in Masters \cup {None}
  BY <1>1 DEF Inv, TypeOK
<1>3. HandleOf[d] \in Threads \cup {None}
  BY <1>1, <1>2 DEF HandleOf, Inv, TypeOK
<1>4. ASSUME NEW t \in Threads, HandleOf[d] = t
      PROVE  pc[t] \in HasMotor /\ drive[t] = d
  <2>1. registry[d[1]] \in Masters /\ motor_by_node[registry[d[1]]][d[2]] = t
    BY <1>1, <1>2, <1>4 DEF HandleOf
  <2>2. co[t] = registry[d[1]] /\ pc[t] \in HasMotor /\ drive[t][2] = d[2]
    BY <2>1, <1>1 DEF Inv, Listed
  <2>3. drive[t] \in Drives /\ registry[drive[t][1]] = registry[d[1]]
    BY <2>2 DEF Inv, Placed, Found, Uses, HasMotor
  <2>4. drive[t] = <<drive[t][1], drive[t][2]>> /\ drive[t][1] \in Ifaces
    BY <2>3, DrivesAssumption
  <2>5. drive[t][1] = d[1]
    BY <1>1, <2>1, <2>3, <2>4 DEF Distinct
  <2>6. QED
    BY <1>1, <2>2, <2>4, <2>5
<1>5. ASSUME NEW t \in Threads, pc[t] \in HasMotor, drive[t] = d
      PROVE  HandleOf[d] = t
  <2>1. registry[d[1]] = co[t] /\ co[t] \in Masters
    BY <1>5 DEF Inv, Found, Placed, Uses
  <2>2. motor_by_node[co[t]][d[2]] = t
    BY <1>5 DEF Inv, Listed
  <2>3. QED
    BY <1>1, <2>1, <2>2 DEF HandleOf
<1>6. QED
  BY <1>3, <1>4, <1>5

LEMMA HandleIffNext == Inv' /\ Distinct' => HandlesMapped'
BY HandleIff, PTL

LEMMA HandleStays ==
  ASSUME Inv, Distinct, Inv', Distinct',
         \A t \in Threads : pc[t] \in HasMotor \/ pc'[t] \in HasMotor =>
           pc[t] \in HasMotor /\ pc'[t] \in HasMotor /\ drive'[t] = drive[t]
  PROVE  HandleOf' = HandleOf
<1>1. ASSUME NEW d \in Drives
      PROVE  HandleOf'[d] = HandleOf[d]
  BY HandleIff, HandleIffNext, NoneAssumption DEF HandlesMapped
<1>2. HandleOf = [d \in Drives |-> HandleOf[d]] /\ HandleOf' = [d \in Drives |-> HandleOf'[d]]
  BY DEF HandleOf
<1>3. QED
  BY <1>1, <1>2

\* One thread comes to have a motor, or no longer has it.
LEMMA HandleFollows ==
  ASSUME Inv, Distinct, Inv', Distinct', NEW t \in Threads,
         drive' = drive, drive[t] \in Drives,
         \A u \in Threads \ {t} : pc'[u] = pc[u]
  PROVE  /\ pc[t] \notin HasMotor /\ pc'[t] \in HasMotor
              => HandleOf' = [HandleOf EXCEPT ![drive[t]] = t]
         /\ pc[t] \in HasMotor /\ pc'[t] \notin HasMotor
              => HandleOf' = [HandleOf EXCEPT ![drive[t]] = None]
<1>1. HandleOf = [d \in Drives |-> HandleOf[d]] /\ HandleOf' = [d \in Drives |-> HandleOf'[d]]
  BY DEF HandleOf
<1>2. ASSUME NEW d \in Drives, d # drive[t]
      PROVE  HandleOf'[d] = HandleOf[d]
  BY <1>2, HandleIff, HandleIffNext, NoneAssumption DEF HandlesMapped
<1>3. ASSUME pc[t] \notin HasMotor, pc'[t] \in HasMotor
      PROVE  HandleOf'[drive[t]] = t
  BY <1>3, HandleIffNext DEF HandlesMapped
<1>4. ASSUME pc[t] \in HasMotor, pc'[t] \notin HasMotor
      PROVE  HandleOf'[drive[t]] = None
  <2>1. HandleOf[drive[t]] = t
    BY <1>4, HandleIff DEF HandlesMapped
  <2>2. ASSUME NEW u \in Threads PROVE HandleOf'[drive[t]] # u
    BY <2>1, <1>4, HandleIff, HandleIffNext DEF HandlesMapped
  <2>3. QED
    BY <2>2, HandleIffNext DEF HandlesMapped
<1>5. QED
  BY <1>1, <1>2, <1>3, <1>4

\* A thread whose callback runs has a motor, on the master that runs it.
LEMMA RunningHasMotor ==
  ASSUME Inv, NEW m \in Masters, NEW t \in Threads, serving[m] = t
  PROVE  /\ co[t] = m /\ pc[t] \in HasMotor
         /\ \/ receiving[m] = "tpdo" /\ pc[t] \in {"hook3", "open", "unhook"}
           \/ receiving[m] = "sdo"
<1>1. serving[m] # None
  BY NoneAssumption
<1>2. CASE receiving[m] = "tpdo" /\ \E k \in {2, 3} : <<serving[m], k>> \in tpdo[m]
  <2>1. PICK k \in {2, 3} : <<t, k>> \in tpdo[m]
    BY <1>2
  <2>2. <<t, k>>[1] = t
    OBVIOUS
  <2>3. QED
    BY <2>1, <2>2, <1>2 DEF Inv, Hooked, HasMotor
<1>3. CASE receiving[m] = "sdo" /\ \E n \in NodeIds : motor_by_node[m][n] = serving[m]
  BY <1>1, <1>3 DEF Inv, Listed
<1>4. QED
  BY <1>1, <1>2, <1>3 DEF Inv, Served

HandleState == <<HandleOf, Serving, Registered>>

LEMMA HandleVars == Handles!vars = HandleState
BY DEF Handles!vars, HandleState, HandleOf, Serving, Registered

LEMMA HandleVarsNext == Handles!vars' = HandleState'
BY DEF Handles!vars, HandleState, HandleOf, Serving, Registered

\* A thread that has no motor gets one: its handle is opened.
LEMMA ListMotorOpens ==
  ASSUME Inv, HandleInv, Inv', HandleInv', NEW t \in Threads, ListMotor(t)
  PROVE  \E d \in Opens[t] : Handles!Open(t, d)
<1>1. /\ pc[t] = "list" /\ pc' = [pc EXCEPT ![t] = "hook2"] /\ drive' = drive
      /\ motor_by_node[co[t]][drive[t][2]] = None
      /\ UNCHANGED <<registry, serving>>
  BY DEF ListMotor, Goto, busVars, recvVars
<1>2. drive[t] \in Drives /\ drive[t] \in Opens[t] /\ co[t] \in Masters
        /\ registry[drive[t][1]] = co[t] /\ drive[t][1] \in Ifaces
  BY <1>1, DrivesAssumption DEF Inv, HandleInv, Asked, Placed, Found, Uses
<1>3. pc'[t] = "hook2" /\ \A u \in Threads \ {t} : pc'[u] = pc[u]
  BY <1>1 DEF Inv, TypeOK
<1>4. HandleOf' = [HandleOf EXCEPT ![drive[t]] = t]
  BY <1>1, <1>2, <1>3, HandleFollows DEF HandleInv, HasMotor
<1>5. HandleOf[drive[t]] = None
  BY <1>1, <1>2 DEF HandleOf
<1>6. \A e \in Drives : HandleOf[e] # t
  BY <1>1, HandleIff DEF HandleInv, HandlesMapped, HasMotor
<1>7. drive[t][1] \in Registered
  BY <1>2, NoneAssumption DEF Registered
<1>8. Serving' = Serving /\ Registered' = Registered
  BY <1>1 DEF Serving, Registered
<1>9. PICK d \in Opens[t] : d = drive[t]
  BY <1>2
<1>10. Handles!Open(t, d)
  BY <1>4, <1>5, <1>6, <1>7, <1>8, <1>9 DEF Handles!Open, HandleOf, Serving
<1>11. QED
  BY <1>10

\* Its handle is closed, and none of its callbacks runs.
LEMMA UnlistMotorCloses ==
  ASSUME Inv, HandleInv, Inv', HandleInv', NEW t \in Threads, UnlistMotor(t)
  PROVE  \E d \in Drives : Handles!Close(t, d)
<1>1. /\ pc[t] = "unlist" /\ pc' = [pc EXCEPT ![t] = "release"] /\ drive' = drive
      /\ receiving[co[t]] # "sdo"
      /\ UNCHANGED <<registry, serving>>
  BY DEF UnlistMotor, Goto, busVars, recvVars, RegistryLockFree
<1>2. drive[t] \in Drives
  BY <1>1 DEF Inv, Placed
<1>3. pc'[t] = "release" /\ \A u \in Threads \ {t} : pc'[u] = pc[u]
  BY <1>1 DEF Inv, TypeOK
<1>4. HandleOf' = [HandleOf EXCEPT ![drive[t]] = None]
  BY <1>1, <1>2, <1>3, HandleFollows DEF HandleInv, HasMotor
<1>5. HandleOf[drive[t]] = t
  BY <1>1, <1>2, HandleIff DEF HandleInv, HandlesMapped, HasMotor
<1>6. t \notin Serving
  BY <1>1, RunningHasMotor DEF Serving
<1>7. Serving' = Serving /\ Registered' = Registered
  BY <1>1 DEF Serving, Registered
<1>8. PICK d \in Drives : d = drive[t]
  BY <1>2
<1>9. Handles!Close(t, d)
  BY <1>4, <1>5, <1>6, <1>7, <1>8 DEF Handles!Close, HandleOf, Serving, Registered
<1>10. QED
  BY <1>9

\* The master that is registered comes up without a handle.
LEMMA OpenRecheckComesUp ==
  ASSUME Inv, HandleInv, Inv', HandleInv', NEW t \in Threads, OpenRecheck(t)
  PROVE  \/ UNCHANGED HandleState
         \/ drive[t][1] \in Ifaces /\ Handles!BusUp(drive[t][1])
<1>1. pc[t] = "recheck" /\ UNCHANGED <<serving, drive>> /\ co[t] \in Masters
  BY DEF OpenRecheck, recvVars, Inv, Placed
<1>2. /\ \A u \in Threads \ {t} : pc'[u] = pc[u]
      /\ pc'[t] \in {"list", "freeSpare"}
  BY DEF OpenRecheck, Goto, Inv, TypeOK
<1>3. HandleOf' = HandleOf
  BY <1>1, <1>2, HandleStays DEF HandleInv, HasMotor
<1>4. drive[t][1] \in Ifaces /\ None \notin Masters /\ registry \in [Ifaces -> Masters \cup {None}]
  BY <1>1, DrivesAssumption, NoneAssumption DEF Inv, Placed, TypeOK
<1>5. Serving' = Serving
  BY <1>1 DEF Serving
<1>6. CASE registry' = registry
  BY <1>3, <1>5, <1>6 DEF HandleState, Registered
<1>7. CASE registry' # registry
  <2>1. registry[drive[t][1]] = None /\ registry' = [registry EXCEPT ![drive[t][1]] = co[t]]
    BY <1>7 DEF OpenRecheck
  <2>2. drive[t][1] \notin Registered /\ Registered' = Registered \cup {drive[t][1]}
    BY <1>1, <1>4, <2>1 DEF Registered
  <2>3. QED
    BY <1>3, <1>4, <1>5, <2>2 DEF Handles!BusUp, HandleOf, Serving, Registered
<1>8. QED
  BY <1>6, <1>7

\* The master that the last holder unregisters has no handle left.
LEMMA ReleaseMasterGoesDown ==
  ASSUME Inv, HandleInv, Inv', HandleInv', NEW t \in Threads, ReleaseMaster(t)
  PROVE  \/ UNCHANGED HandleState
         \/ drive[t][1] \in Ifaces /\ Handles!BusDown(drive[t][1])
<1>1. pc[t] = "release" /\ UNCHANGED <<serving, drive>> /\ co[t] \in Masters
  BY DEF ReleaseMaster, recvVars, Inv, Placed, Uses
<1>2. /\ \A u \in Threads \ {t} : pc'[u] = pc[u]
      /\ pc'[t] = "drop"
  BY DEF ReleaseMaster, Goto, Inv, TypeOK
<1>3. HandleOf' = HandleOf
  BY <1>1, <1>2, HandleStays DEF HandleInv, HasMotor
<1>4. /\ drive[t][1] \in Ifaces /\ None \notin Masters
      /\ registry \in [Ifaces -> Masters \cup {None}] /\ registry[drive[t][1]] = co[t]
  BY <1>1, DrivesAssumption, NoneAssumption DEF Inv, Placed, TypeOK, Found, Uses
<1>5. Serving' = Serving
  BY <1>1 DEF Serving
<1>6. CASE registry' = registry
  BY <1>3, <1>5, <1>6 DEF HandleState, Registered
<1>7. CASE registry' # registry
  <2>1. /\ refcount[co[t]] <= 1
        /\ registry' = [i \in Ifaces |-> IF registry[i] = co[t] THEN None ELSE registry[i]]
    BY <1>7 DEF ReleaseMaster
  <2>2. \A i \in Ifaces : registry[i] = co[t] <=> i = drive[t][1]
    BY <1>1, <1>4 DEF HandleInv, Distinct
  <2>3. drive[t][1] \in Registered /\ Registered' = Registered \ {drive[t][1]}
    BY <1>1, <1>4, <2>1, <2>2 DEF Registered
  <2>4. ASSUME NEW d \in Drives, d[1] = drive[t][1], HandleOf[d] # None
        PROVE  FALSE
    <3>1. PICK u \in Threads : pc[u] \in HasMotor /\ drive[u] = d
      BY <2>4, HandleIff DEF HandleInv, HandlesMapped
    <3>2. co[u] = co[t] /\ u # t
      BY <1>1, <1>4, <2>4, <3>1 DEF Inv, Found, Uses, HasMotor
    <3>3. u \in Holders(co[t]) /\ t \in Holders(co[t])
      BY <1>1, <3>1, <3>2 DEF Holders, HasMotor
    <3>4. refcount[co[t]] \in Nat /\ refcount[co[t]] >= 2
      BY <1>1, <3>2, <3>3, HolderCounts DEF Inv
    <3>5. QED
      BY <2>1, <3>4
  <2>5. QED
    BY <1>3, <1>4, <1>5, <2>3, <2>4 DEF Handles!BusDown, HandleOf, Serving, Registered
<1>8. QED
  BY <1>6, <1>7

\* A callback starts for a motor whose handle exists and that has none running.
LEMMA DispatchBegins ==
  ASSUME Inv, HandleInv, Inv', HandleInv', NEW m \in Masters,
         DispatchTpdo(m) \/ DispatchSdo(m)
  PROVE  \E t \in Threads : Handles!CallbackBegins(t)
<1>1. /\ UNCHANGED <<registry, pc, drive>>
      /\ receiving[m] = "poll" /\ receiving'[m] \in {"tpdo", "sdo"}
  BY DEF DispatchTpdo, DispatchSdo, busVars, threadVars, Inv, TypeOK
<1>2. PICK t \in Threads : serving' = [serving EXCEPT ![m] = t]
  <2>1. CASE DispatchTpdo(m)
    <3>1. PICK e \in tpdo[m] : serving' = [serving EXCEPT ![m] = e[1]]
      BY <2>1 DEF DispatchTpdo
    <3>2. e[1] \in Threads
      BY <3>1 DEF Inv, TypeOK
    <3>3. QED
      BY <3>1, <3>2
  <2>2. CASE DispatchSdo(m)
    <3>1. PICK n \in NodeIds : /\ motor_by_node[m][n] # None
                               /\ serving' = [serving EXCEPT ![m] = motor_by_node[m][n]]
      BY <2>2 DEF DispatchSdo
    <3>2. motor_by_node[m][n] \in Threads
      BY <3>1 DEF Inv, TypeOK
    <3>3. QED
      BY <3>1, <3>2
  <2>3. QED
    BY <2>1, <2>2
<1>3. serving \in [Masters -> Threads \cup {None}] /\ serving'[m] = t
  BY <1>2 DEF Inv, TypeOK
<1>4. serving[m] = None
  BY <1>1 DEF Inv, Served
<1>5. co'[t] = m /\ pc'[t] \in HasMotor
  <2>1. (co[t] = m /\ pc[t] \in HasMotor)'
    <3>1. serving'[m] # None
      BY <1>3, NoneAssumption
    <3>2. CASE \E k \in {2, 3} : <<t, k>> \in tpdo'[m]
      <4>1. PICK k \in {2, 3} : <<t, k>> \in tpdo'[m]
        BY <3>2
      <4>2. <<t, k>>[1] = t
        OBVIOUS
      <4>3. QED
        BY <4>1, <4>2 DEF Inv, Hooked, HasMotor
    <3>3. CASE \E n \in NodeIds : motor_by_node'[m][n] = serving'[m]
      BY <3>1, <3>3, <1>3 DEF Inv, Listed
    <3>4. QED
      BY <1>3, <3>1, <3>2, <3>3 DEF Inv, Served
  <2>2. QED
    BY <2>1
<1>6. co[t] = m /\ pc[t] \in HasMotor
  BY <1>5 DEF DispatchTpdo, DispatchSdo, threadVars
<1>7. t \notin Serving
  <2>1. ASSUME NEW n \in Masters, serving[n] = t
        PROVE  FALSE
    <3>1. n = m
      BY <1>6, <2>1, RunningHasMotor
    <3>2. QED
      BY <1>4, <2>1, <3>1, NoneAssumption
  <2>2. QED
    BY <2>1 DEF Serving
<1>8. Serving' = Serving \cup {t}
  BY <1>2, <1>3, <1>4, NoneAssumption DEF Serving
<1>9. \E d \in Drives : HandleOf[d] = t
  <2>1. drive[t] \in Drives
    BY <1>6 DEF Inv, Placed, HasMotor
  <2>2. QED
    BY <1>6, <2>1, HandleIff DEF HandleInv, HandlesMapped
<1>10. HandleOf' = HandleOf /\ Registered' = Registered
  BY <1>1, HandleStays DEF HandleInv, Registered
<1>11. QED
  BY <1>7, <1>8, <1>9, <1>10 DEF Handles!CallbackBegins, HandleOf, Serving, Registered

LEMMA ReturnEnds ==
  ASSUME Inv, HandleInv, Inv', HandleInv', NEW m \in Masters, CallbackReturns(m)
  PROVE  \/ UNCHANGED HandleState
         \/ \E t \in Threads : Handles!CallbackEnds(t)
<1>1. /\ UNCHANGED <<registry, pc, drive>>
      /\ serving' = [serving EXCEPT ![m] = None]
      /\ serving \in [Masters -> Threads \cup {None}]
  BY DEF CallbackReturns, busVars, threadVars, Inv, TypeOK
<1>2. HandleOf' = HandleOf /\ Registered' = Registered
  BY <1>1, HandleStays DEF HandleInv, Registered
<1>3. CASE serving[m] = None
  <2>1. serving' = serving
    BY <1>1, <1>3
  <2>2. QED
    BY <1>2, <2>1 DEF HandleState, Serving
<1>4. CASE serving[m] # None
  <2>1. PICK t \in Threads : serving[m] = t
    BY <1>1, <1>4
  <2>2. \A n \in Masters : serving[n] = t => n = m
    BY <2>1, RunningHasMotor
  <2>3. t \in Serving /\ Serving' = Serving \ {t}
    BY <1>1, <2>1, <2>2, NoneAssumption DEF Serving
  <2>4. QED
    BY <1>2, <2>3 DEF Handles!CallbackEnds, HandleOf, Serving, Registered
<1>5. QED
  BY <1>3, <1>4

\* No other step is visible.
LEMMA OthersStutter ==
  ASSUME Inv, HandleInv, Inv', HandleInv',
         \/ \E t \in Threads :
              \/ \E d \in Opens[t] : OpenFind(t, d)
              \/ CloseMotor(t) \/ CreateFails(t) \/ CreateMaster(t) \/ FreeSpare(t)
              \/ JoinSpare(t) \/ ListRefused(t) \/ HookTpdo2(t) \/ HookTpdo3(t)
              \/ RemoveCallbacks(t) \/ DropReference(t) \/ JoinReceiver(t)
         \/ \E m \in Masters : DispatchOther(m)
         \/ UNCHANGED vars
  PROVE  UNCHANGED HandleState
<1>1. UNCHANGED <<registry, serving>>
  BY DEF OpenFind, CloseMotor, CreateFails, CreateMaster, FreeSpare, JoinSpare,
     ListRefused, HookTpdo2, HookTpdo3, SetTpdoCallback, RemoveCallbacks,
     DropReference, JoinReceiver, DispatchOther, busVars, recvVars, vars
<1>a. /\ pc \in [Threads -> Working \cup {"out", "open"}]
      /\ drive \in [Threads -> Drives \cup {None}]
  BY DEF Inv, TypeOK
<1> DEFINE Same(u) ==
      pc[u] \in HasMotor \/ pc'[u] \in HasMotor =>
        pc[u] \in HasMotor /\ pc'[u] \in HasMotor /\ drive'[u] = drive[u]
<1>2. \A u \in Threads : Same(u)
  <2>1. ASSUME NEW t \in Threads, NEW d \in Opens[t], OpenFind(t, d)
        PROVE  \A u \in Threads : Same(u)
    BY <2>1, <1>a DEF OpenFind, Goto, HasMotor
  <2>2. ASSUME NEW t \in Threads,
               \/ CreateFails(t) \/ JoinSpare(t) \/ DropReference(t) \/ JoinReceiver(t)
        PROVE  \A u \in Threads : Same(u)
    BY <2>2, <1>a DEF CreateFails, JoinSpare, DropReference, JoinReceiver, CallEnds, Goto,
       HasMotor
  <2>3. ASSUME NEW t \in Threads,
               \/ CloseMotor(t) \/ CreateMaster(t) \/ FreeSpare(t) \/ ListRefused(t)
               \/ HookTpdo2(t) \/ HookTpdo3(t) \/ RemoveCallbacks(t)
        PROVE  \A u \in Threads : Same(u)
    BY <2>3, <1>a DEF CloseMotor, CreateMaster, FreeSpare, ListRefused, HookTpdo2,
       HookTpdo3, SetTpdoCallback, RemoveCallbacks, Goto, HasMotor
  <2>4. ASSUME UNCHANGED <<pc, drive>>
        PROVE  \A u \in Threads : Same(u)
    BY <2>4
  <2>5. QED
    BY <2>1, <2>2, <2>3, <2>4 DEF DispatchOther, vars, threadVars
<1>3. HandleOf' = HandleOf
  BY <1>2, HandleStays DEF HandleInv
<1>4. QED
  BY <1>1, <1>3 DEF HandleState, Serving, Registered

LEMMA HandlesStep ==
  Inv /\ HandleInv /\ Inv' /\ HandleInv' /\ [Next]_vars => [Handles!Next]_(Handles!vars)
<1> SUFFICES ASSUME Inv, HandleInv, Inv', HandleInv', [Next]_vars
             PROVE  Handles!Next \/ UNCHANGED HandleState
  BY HandleVars, HandleVarsNext
<1>1. ASSUME NEW t \in Threads, ListMotor(t)
      PROVE  Handles!Next
  BY <1>1, ListMotorOpens DEF Handles!Next
<1>2. ASSUME NEW t \in Threads, UnlistMotor(t)
      PROVE  Handles!Next
  BY <1>2, UnlistMotorCloses DEF Handles!Next
<1>3. ASSUME NEW t \in Threads, OpenRecheck(t)
      PROVE  Handles!Next \/ UNCHANGED HandleState
  BY <1>3, OpenRecheckComesUp DEF Handles!Next
<1>4. ASSUME NEW t \in Threads, ReleaseMaster(t)
      PROVE  Handles!Next \/ UNCHANGED HandleState
  BY <1>4, ReleaseMasterGoesDown DEF Handles!Next
<1>5. ASSUME NEW m \in Masters, DispatchTpdo(m) \/ DispatchSdo(m)
      PROVE  Handles!Next
  BY <1>5, DispatchBegins DEF Handles!Next
<1>6. ASSUME NEW m \in Masters, CallbackReturns(m)
      PROVE  Handles!Next \/ UNCHANGED HandleState
  BY <1>6, ReturnEnds DEF Handles!Next
<1>7. QED
  BY <1>1, <1>2, <1>3, <1>4, <1>5, <1>6, OthersStutter DEF Next, Step

\* Racing opens and closes look to their callers like calls that happen one at a
\* time: a drive has one handle, on a bus that is up and stays up under it;
\* callbacks are for handles that exist, and closing waits for them.
THEOREM HandlesImplemented == Spec => HandlesKept
<1>1. Init => Handles!Init
  <2> SUFFICES ASSUME Init PROVE Handles!Init
    OBVIOUS
  <2>1. HandleOf = [d \in Drives |-> None]
    BY DrivesAssumption DEF Init, HandleOf
  <2>2. Serving = {} /\ Registered = {}
    BY NoneAssumption DEF Init, Serving, Registered
  <2>3. QED
    BY <2>1, <2>2 DEF Handles!Init, HandleOf, Serving, Registered
<1>2. QED
  BY <1>1, HandlesStep, Invariance, HandleInvariance, PTL DEF Spec, HandlesKept, Handles!Spec

=============================================================================
