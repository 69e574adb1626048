-------------------------- MODULE SyncTimer_proofs --------------------------
(* Theorems about SyncTimer, for every set of motors and every bound.        *)
EXTENDS SyncTimer, FiniteSetTheorems, TLAPS

\* The timer runs exactly while references are counted; nothing but its own
\* timerfd is polled.
Inv == TypeOK /\ (running <=> refcount > 0) /\ EpollIsCurrent

\* What a call of sync_start or sync_stop makes of the timer's own variables.
TimerInv ==
  /\ running \in BOOLEAN /\ refcount \in 0 .. MaxRefs
  /\ period_us \in Periods \cup {0} /\ timer_fd \in Fds \cup {NoFd}
  /\ expired \in BOOLEAN /\ epoll \subseteq Fds
  /\ running <=> refcount > 0
  /\ EpollIsCurrent

LEMMA SyncStartKeeps ==
  ASSUME Inv, NEW p \in Periods, SyncStart(p)
  PROVE  TimerInv'
<1>1. CASE Share(p)
  <2>1. refcount' \in 0 .. MaxRefs /\ refcount' > 0
    BY <1>1, MaxRefsAssumption DEF Share, Inv, TypeOK
  <2>2. running' = TRUE
    BY <1>1 DEF Share, Inv, TypeOK
  <2>3. QED
    BY <1>1, <2>1, <2>2 DEF Share, Inv, TypeOK, TimerInv, EpollIsCurrent
<1>2. CASE Rebuild(p)
  <2>1. refcount' \in 0 .. MaxRefs /\ refcount' > 0
    BY <1>2, MaxRefsAssumption DEF Rebuild
  <2>2. running' = TRUE /\ expired' = FALSE
    BY <1>2 DEF Rebuild
  <2>3. epoll' = {}
    BY <1>2 DEF Rebuild, Inv, EpollIsCurrent
  <2>4. QED
    BY <1>2, <2>1, <2>2, <2>3 DEF Rebuild, TimerInv, EpollIsCurrent
<1>3. QED
  BY <1>1, <1>2 DEF SyncStart

LEMMA SyncStartFailsKeeps ==
  ASSUME Inv, NEW p \in Periods, SyncStartFails(p)
  PROVE  TimerInv'
<1>1. epoll' = {} /\ expired' = FALSE /\ timer_fd' = NoFd
  BY DEF SyncStartFails, Inv, EpollIsCurrent
<1>2. QED
  BY <1>1 DEF SyncStartFails, Inv, TypeOK, TimerInv, EpollIsCurrent

LEMMA SyncStopKeeps ==
  ASSUME Inv, SyncStop
  PROVE  TimerInv'
<1>1. CASE refcount = 0
  BY <1>1 DEF SyncStop, timerVars, Inv, TypeOK, TimerInv, EpollIsCurrent
<1>2. CASE refcount > 1
  <2>1. refcount' \in 0 .. MaxRefs /\ refcount' > 0
    BY <1>2, MaxRefsAssumption DEF SyncStop, Inv, TypeOK
  <2>2. running' = running /\ running
    BY <1>2 DEF SyncStop, Inv, TypeOK
  <2>3. QED
    BY <1>2, <2>1, <2>2 DEF SyncStop, Inv, TypeOK, TimerInv, EpollIsCurrent
<1>3. CASE refcount = 1
  <2>1. refcount' = 0 /\ running' = FALSE /\ expired' = FALSE
    BY <1>3 DEF SyncStop
  <2>2. epoll' = {}
    BY <1>3 DEF SyncStop, Inv, EpollIsCurrent
  <2>3. period_us' \in Periods \cup {0} /\ timer_fd' \in Fds \cup {NoFd}
    BY <1>3 DEF SyncStop
  <2>4. refcount' \in 0 .. MaxRefs /\ ~(refcount' > 0)
    BY <2>1, MaxRefsAssumption
  <2>5. QED
    BY <2>1, <2>2, <2>3, <2>4 DEF TimerInv, EpollIsCurrent
<1>4. QED
  BY <1>1, <1>2, <1>3 DEF Inv, TypeOK

LEMMA MotorStepKeeps ==
  ASSUME Inv, MotorStep
  PROVE  Inv'
<1>1. ASSUME NEW m \in Motors, NEW p \in Periods, InitTimer(m, p)
      PROVE  Inv'
  <2>1. TimerInv'
    BY <1>1, SyncStartKeeps, SyncStartFailsKeeps DEF InitTimer
  <2>2. sync_active' \in [Motors -> BOOLEAN]
    BY <1>1 DEF InitTimer, Inv, TypeOK
  <2>3. QED
    BY <1>1, <2>1, <2>2 DEF InitTimer, Inv, TypeOK, TimerInv
<1>2. ASSUME NEW m \in Motors, InitManual(m)
      PROVE  Inv'
  <2>1. sync_active' \in [Motors -> BOOLEAN]
    BY <1>2 DEF InitManual, Inv, TypeOK
  <2>2. QED
    BY <1>2, <2>1 DEF InitManual, timerVars, Inv, TypeOK, EpollIsCurrent
<1>3. ASSUME NEW m \in Motors, Close(m)
      PROVE  Inv'
  <2>1. TimerInv'
    <3>1. CASE sync_active[m]
      BY <1>3, <3>1, SyncStopKeeps DEF Close
    <3>2. CASE ~sync_active[m]
      BY <1>3, <3>2 DEF Close, timerVars, Inv, TypeOK, TimerInv, EpollIsCurrent
    <3>3. QED
      BY <3>1, <3>2
  <2>2. sync_active' \in [Motors -> BOOLEAN]
    BY <1>3 DEF Close, Inv, TypeOK
  <2>3. QED
    BY <1>3, <2>1, <2>2 DEF Close, Inv, TypeOK, TimerInv
<1>4. ASSUME NEW p \in Periods, PublicStart(p)
      PROVE  Inv'
  <2>1. TimerInv'
    BY <1>4, SyncStartKeeps, SyncStartFailsKeeps DEF PublicStart
  <2>2. started' \in 0 .. MaxRefs
    BY <1>4, MaxRefsAssumption DEF PublicStart, Inv, TypeOK
  <2>3. QED
    BY <1>4, <2>1, <2>2 DEF PublicStart, Inv, TypeOK, TimerInv
<1>5. CASE PublicStop
  <2>1. TimerInv'
    BY <1>5, SyncStopKeeps DEF PublicStop
  <2>2. started' \in 0 .. MaxRefs
    BY <1>5, MaxRefsAssumption DEF PublicStop, Inv, TypeOK
  <2>3. QED
    BY <1>5, <2>1, <2>2 DEF PublicStop, Inv, TypeOK, TimerInv
<1>6. QED
  BY <1>1, <1>2, <1>3, <1>4, <1>5 DEF MotorStep

LEMMA ReceiverKeeps ==
  ASSUME Inv, Expire \/ RecvStep
  PROVE  Inv'
<1> USE DEF Inv, TypeOK, EpollIsCurrent, timerVars
<1>1. CASE Expire
  BY <1>1 DEF Expire
<1>2. ASSUME NEW frame \in BOOLEAN, EpollReturn(frame)
      PROVE  Inv'
  <2>1. events' \subseteq Fds \cup {NoFd, Frame}
    BY <1>2 DEF EpollReturn
  <2>2. QED
    BY <1>2, <2>1 DEF EpollReturn
<1>3. CASE ServeFrame
  BY <1>3 DEF ServeFrame
<1>4. CASE ServeTimer
  BY <1>4 DEF ServeTimer
<1>5. CASE HandleTick
  <2>1. /\ events' \subseteq events
        /\ recv' \in {"serve", "send"}
    BY <1>5 DEF HandleTick
  <2>2. expired' \in BOOLEAN
    <3>1. expired' = FALSE \/ expired' = expired
      BY <1>5 DEF HandleTick
    <3>2. QED
      BY <3>1
  <2>3. QED
    BY <1>5, <2>1, <2>2 DEF HandleTick
<1>6. CASE Drain
  <2>1. events' \subseteq events
    BY <1>6 DEF Drain
  <2>2. expired' \in BOOLEAN
    BY <1>6 DEF Drain
  <2>3. QED
    BY <1>6, <2>1, <2>2 DEF Drain
<1>7. CASE SendSync
  BY <1>7 DEF SendSync
<1>8. CASE LookAtTimer \/ LabelTimer \/ ModifyTimer
  BY <1>8 DEF LookAtTimer, LabelTimer, ModifyTimer, RegisterFrame
<1>9. CASE AddTimer
  <2>1. epoll' \subseteq Fds /\ epoll' \subseteq {timer_fd}
    BY <1>9 DEF AddTimer
  <2>2. QED
    BY <1>9, <2>1 DEF AddTimer, RegisterFrame
<1>10. QED
  BY <1>1, <1>2, <1>3, <1>4, <1>5, <1>6, <1>7, <1>8, <1>9 DEF RecvStep

LEMMA InvStart == Init => Inv
<1> SUFFICES ASSUME Init PROVE Inv
  OBVIOUS
<1>1. 0 \in 0 .. MaxRefs
  BY MaxRefsAssumption
<1>2. refcount \in 0 .. MaxRefs /\ started \in 0 .. MaxRefs /\ ~(refcount > 0)
  BY <1>1 DEF Init
<1>3. sync_active \in [Motors -> BOOLEAN]
  BY DEF Init
<1>4. running = FALSE /\ expired = FALSE
  BY DEF Init
<1>5. EpollIsCurrent /\ epoll \subseteq Fds /\ events \subseteq Fds \cup {NoFd, Frame}
  BY DEF Init, EpollIsCurrent
<1>6. period_us \in Periods \cup {0} /\ timer_fd \in Fds \cup {NoFd}
        /\ data \in Fds \cup {NoFd} /\ recv = "wait"
  BY DEF Init
<1>7. QED
  BY <1>2, <1>3, <1>4, <1>5, <1>6 DEF Inv, TypeOK

\* The timer's references, its timerfd and the epoll set stay consistent, for
\* every mixture of periods.
THEOREM Invariance == Spec => []Inv
<1>1. Init => Inv
  BY InvStart
<1>2. Inv /\ [Next]_vars => Inv'
  <2>1. Inv /\ UNCHANGED vars => Inv'
    BY DEF vars, Inv, TypeOK, EpollIsCurrent
  <2>2. QED
    BY <2>1, MotorStepKeeps, ReceiverKeeps DEF Next
<1>3. QED
  BY <1>1, <1>2, PTL DEF Spec

\* Every variable keeps its type.
THEOREM TypeCorrect == Spec => []TypeOK
<1>1. Inv => TypeOK
  BY DEF Inv
<1>2. QED
  BY <1>1, Invariance, PTL

\* The receive thread never polls a timerfd that sync_start or sync_stop closed.
THEOREM EpollStaysCurrent == Spec => []EpollIsCurrent
<1>1. Inv => EpollIsCurrent
  BY DEF Inv
<1>2. QED
  BY <1>1, Invariance, PTL

-----------------------------------------------------------------------------
(* All users of a bus ask for the same period. *)

OnePeriod == \A p, q \in Periods : p = q

\* Every holder has a reference of its own.
Counted == Cardinality(Holders) + started <= refcount

\* A timer that runs has its timerfd and the period all ask for.
Running == running => timer_fd # NoFd /\ period_us \in Periods

SharedInv == Inv /\ Counted /\ Running

LEMMA HoldersFinite == IsFiniteSet(Holders) /\ Cardinality(Holders) \in Nat
<1>1. Holders \subseteq Motors
  BY DEF Holders
<1>2. QED
  BY <1>1, MotorsAssumption, FS_Subset, FS_CardinalityType

\* One motor's sync_active changes.
LEMMA HoldersChange ==
  ASSUME TypeOK, NEW m \in Motors, NEW b \in BOOLEAN,
         sync_active' = [sync_active EXCEPT ![m] = b]
  PROVE  /\ Cardinality(Holders') \in Nat
         /\ b /\ sync_active[m] => Cardinality(Holders') = Cardinality(Holders)
         /\ b /\ ~sync_active[m] => Cardinality(Holders') = Cardinality(Holders) + 1
         /\ ~b /\ sync_active[m] => Cardinality(Holders') = Cardinality(Holders) - 1
         /\ ~b /\ ~sync_active[m] => Cardinality(Holders') = Cardinality(Holders)
<1>0. \A u \in Motors : sync_active'[u] <=> IF u = m THEN b ELSE sync_active[u]
  BY DEF TypeOK
<1>1. /\ b => Holders' = Holders \cup {m}
      /\ ~b => Holders' = Holders \ {m}
      /\ m \in Holders <=> sync_active[m]
  BY <1>0 DEF Holders
<1>2. /\ IsFiniteSet(Holders \cup {m}) /\ IsFiniteSet(Holders \ {m})
      /\ Cardinality(Holders \cup {m}) =
           IF m \in Holders THEN Cardinality(Holders) ELSE Cardinality(Holders) + 1
      /\ Cardinality(Holders \ {m}) =
           IF m \in Holders THEN Cardinality(Holders) - 1 ELSE Cardinality(Holders)
  BY HoldersFinite, FS_AddElement, FS_RemoveElement
<1>3. Cardinality(Holders \cup {m}) \in Nat /\ Cardinality(Holders \ {m}) \in Nat
  BY <1>2, FS_CardinalityType
<1>4. CASE b
  BY <1>1, <1>2, <1>3, <1>4
<1>5. CASE ~b
  BY <1>1, <1>2, <1>3, <1>5
<1>6. QED
  BY <1>4, <1>5

LEMMA HoldersAtMost ==
  ASSUME TypeOK, NEW m \in Motors, NEW b \in BOOLEAN,
         sync_active' = [sync_active EXCEPT ![m] = b]
  PROVE  /\ Cardinality(Holders') \in Nat
         /\ Cardinality(Holders') <= Cardinality(Holders) + 1
         /\ ~b => Cardinality(Holders') <= Cardinality(Holders)
<1>1. Cardinality(Holders) \in Nat /\ Cardinality(Holders') \in Nat
  BY HoldersFinite, HoldersChange
<1>2. /\ b /\ sync_active[m] => Cardinality(Holders') = Cardinality(Holders)
      /\ b /\ ~sync_active[m] => Cardinality(Holders') = Cardinality(Holders) + 1
      /\ ~b /\ sync_active[m] => Cardinality(Holders') = Cardinality(Holders) - 1
      /\ ~b /\ ~sync_active[m] => Cardinality(Holders') = Cardinality(Holders)
  BY HoldersChange
<1>3. \/ Cardinality(Holders') = Cardinality(Holders)
      \/ Cardinality(Holders') = Cardinality(Holders) + 1
      \/ Cardinality(Holders') = Cardinality(Holders) - 1
  <2>1. CASE b
    BY <1>2, <2>1, Zenon
  <2>2. CASE ~b
    BY <1>2, <2>2, Zenon
  <2>3. QED
    BY <2>1, <2>2
<1>4. ~b => Cardinality(Holders') = Cardinality(Holders)
              \/ Cardinality(Holders') = Cardinality(Holders) - 1
  BY <1>2, Zenon
<1>5. QED
  BY <1>1, <1>3, <1>4

\* A start takes one reference; one that fails found no reference taken.
LEMMA StartCounts ==
  ASSUME OnePeriod, SharedInv, NEW p \in Periods
  PROVE  /\ SyncStart(p) => refcount' = refcount + 1 /\ Running'
         /\ SyncStartFails(p) => refcount' = refcount /\ Running'
<1>1. running => ~(~(running /\ period_us = p /\ timer_fd # NoFd))
  BY DEF OnePeriod, SharedInv, Running
<1>2. ASSUME Share(p)
      PROVE  refcount' = refcount + 1 /\ Running'
  BY <1>2 DEF Share, SharedInv, Running
<1>3. ASSUME Rebuild(p)
      PROVE  refcount' = refcount + 1 /\ Running'
  <2>1. ~running
    BY <1>1, <1>3 DEF Rebuild
  <2>2. refcount = 0
    BY <2>1 DEF SharedInv, Inv, TypeOK
  <2>3. QED
    BY <1>3, <2>2, NoFdAssumption DEF Rebuild, Running
<1>4. ASSUME SyncStartFails(p)
      PROVE  refcount' = refcount /\ Running'
  BY <1>1, <1>4 DEF SyncStartFails, Running
<1>5. QED
  BY <1>2, <1>3, <1>4 DEF SyncStart

\* A stop gives one reference back.
LEMMA StopCounts ==
  ASSUME SharedInv, SyncStop
  PROVE  /\ refcount > 0 => refcount' = refcount - 1
         /\ refcount = 0 => refcount' = 0
         /\ Running'
<1>1. refcount \in Nat
  BY DEF SharedInv, Inv, TypeOK
<1>2. CASE refcount = 0
  BY <1>2 DEF SyncStop, timerVars, SharedInv, Running
<1>3. CASE refcount > 1
  BY <1>3 DEF SyncStop, SharedInv, Running
<1>4. CASE refcount = 1
  BY <1>4 DEF SyncStop, SharedInv, Running
<1>5. QED
  BY <1>1, <1>2, <1>3, <1>4

LEMMA CountKept ==
  ASSUME OnePeriod, SharedInv, [Next]_vars
  PROVE  Counted' /\ Running'
<1>0. refcount \in Nat /\ started \in Nat /\ Cardinality(Holders) \in Nat
  BY HoldersFinite DEF SharedInv, Inv, TypeOK
<1>1. ASSUME NEW m \in Motors, NEW p \in Periods, InitTimer(m, p)
      PROVE  Counted' /\ Running'
  <2>1. PICK b \in BOOLEAN :
          /\ sync_active' = [sync_active EXCEPT ![m] = b]
          /\ SyncStart(p) \/ (SyncStartFails(p) /\ ~b)
    BY <1>1 DEF InitTimer
  <2>2. started' = started
    BY <1>1 DEF InitTimer
  <2>3. /\ Cardinality(Holders') \in Nat
        /\ Cardinality(Holders') <= Cardinality(Holders) + 1
        /\ ~b => Cardinality(Holders') <= Cardinality(Holders)
    BY <1>0, <2>1, HoldersAtMost DEF SharedInv, Inv
  <2>4. CASE SyncStart(p)
    BY <1>0, <2>2, <2>3, <2>4, StartCounts DEF SharedInv, Counted
  <2>5. CASE SyncStartFails(p) /\ ~b
    BY <1>0, <2>2, <2>3, <2>5, StartCounts DEF SharedInv, Counted
  <2>6. QED
    BY <2>1, <2>4, <2>5
<1>2. ASSUME NEW m \in Motors, InitManual(m)
      PROVE  Counted' /\ Running'
  <2>1. /\ sync_active' = [sync_active EXCEPT ![m] = FALSE]
        /\ UNCHANGED <<running, refcount, period_us, timer_fd, started>>
    BY <1>2 DEF InitManual, timerVars
  <2>2. Cardinality(Holders') \in Nat /\ Cardinality(Holders') <= Cardinality(Holders)
    BY <1>0, <2>1, HoldersAtMost DEF SharedInv, Inv
  <2>3. QED
    BY <1>0, <2>1, <2>2 DEF SharedInv, Counted, Running
<1>3. ASSUME NEW m \in Motors, Close(m)
      PROVE  Counted' /\ Running'
  <2>1. sync_active' = [sync_active EXCEPT ![m] = FALSE] /\ started' = started
    BY <1>3 DEF Close
  <2>2. CASE sync_active[m]
    <3>1. Cardinality(Holders') \in Nat /\ Cardinality(Holders') = Cardinality(Holders) - 1
      BY <2>1, <2>2, HoldersChange DEF SharedInv, Inv
    <3>2. SyncStop
      BY <1>3, <2>2 DEF Close
    <3>3. QED
      BY <1>0, <2>1, <3>1, <3>2, StopCounts DEF SharedInv, Counted
  <2>3. CASE ~sync_active[m]
    <3>1. Cardinality(Holders') = Cardinality(Holders)
      BY <2>1, <2>3, HoldersChange DEF SharedInv, Inv
    <3>2. UNCHANGED <<running, refcount, period_us, timer_fd>>
      BY <1>3, <2>3 DEF Close, timerVars
    <3>3. QED
      BY <2>1, <3>1, <3>2 DEF SharedInv, Counted, Running
  <2>4. QED
    BY <2>2, <2>3
<1>4. ASSUME NEW p \in Periods, PublicStart(p)
      PROVE  Counted' /\ Running'
  <2>1. Holders' = Holders
    BY <1>4 DEF PublicStart, Holders
  <2>2. QED
    BY <1>0, <1>4, <2>1, StartCounts DEF PublicStart, SharedInv, Counted
<1>5. CASE PublicStop
  <2>1. Holders' = Holders
    BY <1>5 DEF PublicStop, Holders
  <2>2. Running' /\ (refcount > 0 => refcount' = refcount - 1)
                 /\ (refcount = 0 => refcount' = 0)
    BY <1>5, StopCounts DEF PublicStop
  <2>3. started' = IF started > 0 THEN started - 1 ELSE 0
    BY <1>5 DEF PublicStop
  <2>4. CASE started > 0
    BY <1>0, <2>1, <2>2, <2>3, <2>4 DEF SharedInv, Counted
  <2>5. CASE started = 0
    <3>1. refcount = 0
      BY <1>5, <2>5 DEF PublicStop
    <3>2. QED
      BY <1>0, <2>1, <2>2, <2>3, <2>5, <3>1 DEF SharedInv, Counted
  <2>6. QED
    BY <1>0, <2>4, <2>5
<1>6. CASE Expire \/ RecvStep \/ UNCHANGED vars
  <2>1. UNCHANGED <<running, refcount, period_us, timer_fd, sync_active, started>>
    BY <1>6 DEF Expire, RecvStep, EpollReturn, ServeFrame, ServeTimer, HandleTick, Drain,
       SendSync, LookAtTimer, LabelTimer, ModifyTimer, AddTimer, RegisterFrame, vars, timerVars
  <2>2. Holders' = Holders
    BY <2>1 DEF Holders
  <2>3. QED
    BY <2>1, <2>2 DEF SharedInv, Counted, Running
<1>7. QED
  BY <1>1, <1>2, <1>3, <1>4, <1>5, <1>6 DEF Next, MotorStep

\* With one period on the bus nobody's close or sync_stop stops the SYNC timer
\* that another motor or an unmatched sync_start still counts on.
THEOREM SharedTimerKept ==
  ASSUME OnePeriod
  PROVE  Spec => []HoldersKeepTimer
<1>1. Init => SharedInv
  <2>1. ASSUME Init
        PROVE  Holders = {}
    BY <2>1 DEF Init, Holders
  <2>2. Init => Counted /\ Running
    <3>1. ASSUME Init
          PROVE  Cardinality(Holders) = 0 /\ started = 0 /\ refcount = 0
      BY <2>1, <3>1, FS_EmptySet DEF Init
    <3>2. Init => Running
      BY DEF Init, Running
    <3>3. QED
      BY <3>1, <3>2 DEF Counted
  <2>3. Init => Inv
    BY InvStart
  <2>4. QED
    BY <2>2, <2>3 DEF SharedInv
<1>2. SharedInv /\ [Next]_vars => SharedInv'
  <2>1. Inv /\ UNCHANGED vars => Inv'
    BY DEF vars, Inv, TypeOK, EpollIsCurrent
  <2>2. Inv /\ [Next]_vars => Inv'
    BY <2>1, MotorStepKeeps, ReceiverKeeps DEF Next
  <2>3. SharedInv /\ [Next]_vars => Counted' /\ Running'
    BY OnePeriod, CountKept
  <2>4. QED
    BY <2>2, <2>3 DEF SharedInv
<1>3. SharedInv => HoldersKeepTimer
  <2>1. SUFFICES ASSUME SharedInv, Holders # {} \/ started > 0
                 PROVE  running /\ timer_fd # NoFd
    BY DEF HoldersKeepTimer
  <2>2. Cardinality(Holders) \in Nat /\ (Holders # {} => Cardinality(Holders) # 0)
    BY HoldersFinite, FS_EmptySet
  <2>3. refcount > 0
    BY <2>1, <2>2 DEF SharedInv, Counted, Inv, TypeOK
  <2>4. running
    BY <2>1, <2>3, Zenon DEF SharedInv, Inv
  <2>5. QED
    BY <2>1, <2>4 DEF SharedInv, Running
<1>4. QED
  BY <1>1, <1>2, <1>3, PTL DEF Spec

=============================================================================
