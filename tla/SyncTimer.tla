------------------------------ MODULE SyncTimer ------------------------------
(***************************************************************************)
(* The shared periodic SYNC of one bus (co_sync.c): a timerfd counted by    *)
(* references, started by the timer-mode initialisation of each motor or by *)
(* sync_start, and served by the receive thread (co_master.c), which adds   *)
(* the timerfd to its epoll set on its own initiative.                      *)
(***************************************************************************)
EXTENDS Naturals, FiniteSets

CONSTANTS
  Motors,    \* open motor handles of the bus
  Periods,   \* SYNC periods in use, in microseconds
  Fds,       \* file descriptors the kernel may hand out
  NoFd,      \* -1
  MaxRefs,   \* bound on the references taken
  Traffic    \* TRUE: CAN frames keep arriving; FALSE: the bus may go idle

ASSUME PeriodsAssumption == Periods \subseteq Nat \ {0}
ASSUME NoFdAssumption == NoFd \notin Fds
ASSUME MotorsAssumption == IsFiniteSet(Motors)
ASSUME MaxRefsAssumption == MaxRefs \in Nat
ASSUME TrafficAssumption == Traffic \in BOOLEAN

VARIABLES
  running,      \* sync->running
  refcount,     \* sync->refcount
  period_us,    \* sync->period_us, 0 when stopped
  timer_fd,     \* sync->timer_fd
  expired,      \* timer_fd has expirations nobody read
  sync_active,  \* motor->sync_active
  started,      \* sync_start calls not yet matched by a sync_stop
  epoll,        \* timerfds in the epoll set of the receive thread
  data,         \* ev.data.fd: what an event of the polled timerfd is labelled with
  recv,         \* where the receive thread is
  events        \* what epoll_wait returned and is not served yet

timerVars == <<running, refcount, period_us, timer_fd>>
vars == <<running, refcount, period_us, timer_fd, expired, sync_active, started,
          epoll, data, recv, events>>

Frame == "frame"

TypeOK ==
  /\ running \in BOOLEAN
  /\ refcount \in 0 .. MaxRefs
  /\ period_us \in Periods \cup {0}
  /\ timer_fd \in Fds \cup {NoFd}
  /\ expired \in BOOLEAN
  /\ sync_active \in [Motors -> BOOLEAN]
  /\ started \in 0 .. MaxRefs
  /\ epoll \subseteq Fds
  /\ data \in Fds \cup {NoFd}
  /\ recv \in {"wait", "serve", "tick", "drain", "send", "label", "modify", "add"}
  /\ events \subseteq Fds \cup {NoFd, Frame}

-----------------------------------------------------------------------------
(* miraculous_co_sync_start and _stop, each under sync->lock. *)

\* The timer already runs with this period: one more reference.
Share(p) ==
  /\ running /\ period_us = p /\ timer_fd # NoFd
  /\ refcount < MaxRefs
  /\ refcount' = refcount + 1
  /\ UNCHANGED <<running, period_us, timer_fd, expired, epoll>>

\* First start or another period.  Closing the old timerfd also takes it out
\* of the epoll set; the references counted so far are forgotten.
Rebuild(p) ==
  /\ ~(running /\ period_us = p /\ timer_fd # NoFd)
  /\ MaxRefs > 0
  /\ timer_fd' \in Fds
  /\ epoll' = epoll \ {timer_fd}
  /\ expired' = FALSE
  /\ running' = TRUE /\ period_us' = p /\ refcount' = 1

SyncStart(p) == Share(p) \/ Rebuild(p)

\* timerfd_create or timerfd_settime fails after the old timerfd was closed.
SyncStartFails(p) ==
  /\ ~(running /\ period_us = p /\ timer_fd # NoFd)
  /\ timer_fd' = NoFd
  /\ epoll' = epoll \ {timer_fd}
  /\ expired' = FALSE
  /\ UNCHANGED <<running, refcount, period_us>>

\* Mutants of SyncStop: every stop is the last one; the timerfd is forgotten
\* without being closed; a stop of a stopped timer is counted too.
SyncStopAlways ==
  /\ refcount' = 0 /\ running' = FALSE /\ period_us' = 0
  /\ timer_fd' = NoFd
  /\ epoll' = epoll \ {timer_fd}
  /\ expired' = FALSE

SyncStopLeaks ==
  IF refcount # 1
  THEN /\ refcount' = IF refcount = 0 THEN 0 ELSE refcount - 1
       /\ UNCHANGED <<running, period_us, timer_fd, expired, epoll>>
  ELSE /\ refcount' = 0 /\ running' = FALSE /\ period_us' = 0
       /\ timer_fd' = NoFd
       /\ expired' = FALSE
       /\ UNCHANGED epoll

SyncStopUnchecked ==
  /\ refcount' = refcount - 1
  /\ IF refcount > 1
     THEN UNCHANGED <<running, period_us, timer_fd, expired, epoll>>
     ELSE /\ running' = FALSE /\ period_us' = 0
          /\ timer_fd' = NoFd
          /\ epoll' = epoll \ {timer_fd}
          /\ expired' = FALSE

SyncStop ==
  IF refcount = 0
  THEN UNCHANGED <<timerVars, expired, epoll>>
  ELSE /\ refcount' = refcount - 1
       /\ IF refcount > 1
          THEN UNCHANGED <<running, period_us, timer_fd, expired, epoll>>
          ELSE /\ running' = FALSE /\ period_us' = 0
               /\ timer_fd' = NoFd
               /\ epoll' = epoll \ {timer_fd}
               /\ expired' = FALSE

-----------------------------------------------------------------------------
(* The motors. *)

\* csp_init, csv_init, cst_init and mit_init in timer mode: sync_active is
\* cleared first, so that a repeated call takes a second reference.  All but
\* csp_init return on a failed write of 0x1006 and keep the reference.
InitTimer(m, p) ==
  /\ \/ SyncStart(p) /\ sync_active' = [sync_active EXCEPT ![m] = TRUE]
     \/ SyncStart(p) /\ sync_active' = [sync_active EXCEPT ![m] = FALSE]
     \/ SyncStartFails(p) /\ sync_active' = [sync_active EXCEPT ![m] = FALSE]
  /\ UNCHANGED <<started, data, recv, events>>

\* csp_init in manual mode, and the other modes with period 0.
InitManual(m) ==
  /\ sync_active' = [sync_active EXCEPT ![m] = FALSE]
  /\ UNCHANGED <<timerVars, expired, started, epoll, data, recv, events>>

Close(m) ==
  /\ IF sync_active[m] THEN SyncStop ELSE UNCHANGED <<timerVars, expired, epoll>>
  /\ sync_active' = [sync_active EXCEPT ![m] = FALSE]
  /\ UNCHANGED <<started, data, recv, events>>

\* miraculous_motor_sync_start and _stop, as the driver uses them: it stops
\* what it started, and a timer that is stopped already.
PublicStart(p) ==
  /\ \/ SyncStart(p) /\ started < MaxRefs /\ started' = started + 1
     \/ SyncStartFails(p) /\ UNCHANGED started
  /\ UNCHANGED <<sync_active, data, recv, events>>

PublicStop ==
  /\ started > 0 \/ refcount = 0
  /\ SyncStop
  /\ started' = IF started > 0 THEN started - 1 ELSE 0
  /\ UNCHANGED <<sync_active, data, recv, events>>

-----------------------------------------------------------------------------
(* The kernel and the receive thread, which reads timer_fd and running without *)
(* the lock, several times a turn: each time it may find another timer.        *)

Expire ==
  /\ timer_fd # NoFd
  /\ expired' = TRUE
  /\ UNCHANGED <<timerVars, sync_active, started, epoll, data, recv, events>>

TimerReady == timer_fd \in epoll /\ expired

\* epoll_wait returns what is ready.  After a timeout without events the loop
\* continues at once, without a look at the SYNC timer.
EpollReturn(frame) ==
  /\ recv = "wait"
  /\ events' = (IF TimerReady THEN {data} ELSE {}) \cup (IF frame THEN {Frame} ELSE {})
  /\ events' # {}
  /\ recv' = "serve"
  /\ UNCHANGED <<timerVars, expired, sync_active, started, epoll, data>>

ServeFrame ==
  /\ recv = "serve"
  /\ Frame \in events
  /\ events' = events \ {Frame}
  /\ UNCHANGED <<timerVars, expired, sync_active, started, epoll, data, recv>>

TimerEvents == events \ {Frame}

\* A timer event is for the timer that runs now, or for a closed one.
ServeTimer ==
  /\ recv = "serve"
  /\ \E fd \in TimerEvents :
       recv' = IF timer_fd = fd /\ running THEN "tick" ELSE "drain"
  /\ UNCHANGED <<timerVars, expired, sync_active, started, epoll, data, events>>

\* co_sync_handle_tick reads the expirations; a closed timerfd, or a new one
\* that has none, gives no SYNC.
HandleTick ==
  /\ recv = "tick"
  /\ IF timer_fd # NoFd /\ running /\ expired
     THEN recv' = "send" /\ expired' = FALSE
     ELSE recv' = "serve" /\ UNCHANGED expired
  /\ events' = events \ TimerEvents
  /\ UNCHANGED <<timerVars, sync_active, started, epoll, data>>

\* The expirations of another descriptor are read and thrown away: those of the
\* new timer when it has got the same descriptor by now.
Drain ==
  /\ recv = "drain"
  /\ expired' = (expired /\ timer_fd \notin TimerEvents)
  /\ events' = events \ TimerEvents
  /\ recv' = "serve"
  /\ UNCHANGED <<timerVars, sync_active, started, epoll, data>>

SendSync ==
  /\ recv = "send"
  /\ recv' = "serve"
  /\ UNCHANGED <<timerVars, expired, sync_active, started, epoll, data, events>>

\* What registering leaves alone.
RegisterFrame ==
  UNCHANGED <<timerVars, expired, sync_active, started, events>>

\* Mutant of LookAtTimer: only the first timerfd is registered.
LookAtTimerOnce ==
  /\ recv = "serve" /\ events = {}
  /\ recv' = IF timer_fd # NoFd /\ running /\ data = NoFd THEN "label" ELSE "wait"
  /\ RegisterFrame /\ UNCHANGED <<epoll, data>>

\* Every event served: is there a running timer to register?
LookAtTimer ==
  /\ recv = "serve" /\ events = {}
  /\ recv' = IF timer_fd # NoFd /\ running THEN "label" ELSE "wait"
  /\ RegisterFrame /\ UNCHANGED <<epoll, data>>

LabelTimer ==
  /\ recv = "label"
  /\ data' = timer_fd
  /\ recv' = "modify"
  /\ RegisterFrame /\ UNCHANGED epoll

\* EPOLL_CTL_MOD of a timerfd that is not polled yet leads to the ADD.  One that
\* succeeds leaves errno as it was: the ADD may follow then, too.
ModifyTimer ==
  /\ recv = "modify"
  /\ \/ timer_fd # NoFd /\ recv' = "add"
     \/ timer_fd \in epoll \cup {NoFd} /\ recv' = "wait"
  /\ RegisterFrame /\ UNCHANGED <<epoll, data>>

AddTimer ==
  /\ recv = "add"
  /\ epoll' = epoll \cup ({timer_fd} \ {NoFd})
  /\ recv' = "wait"
  /\ RegisterFrame /\ UNCHANGED data

-----------------------------------------------------------------------------
Init ==
  /\ running = FALSE /\ refcount = 0 /\ period_us = 0 /\ timer_fd = NoFd
  /\ expired = FALSE
  /\ sync_active = [m \in Motors |-> FALSE]
  /\ started = 0
  /\ epoll = {}
  /\ data = NoFd
  /\ recv = "wait" /\ events = {}

MotorStep ==
  \/ \E m \in Motors : \/ \E p \in Periods : InitTimer(m, p)
                       \/ InitManual(m) \/ Close(m)
  \/ \E p \in Periods : PublicStart(p)
  \/ PublicStop

RecvStep ==
  \/ \E frame \in BOOLEAN : EpollReturn(frame)
  \/ ServeFrame \/ ServeTimer \/ HandleTick \/ Drain \/ SendSync
  \/ LookAtTimer \/ LabelTimer \/ ModifyTimer \/ AddTimer

Next == MotorStep \/ Expire \/ RecvStep

Spec == Init /\ [][Next]_vars

\* The receive thread and the timer run; frames arrive for ever only on a bus
\* with traffic of its own, such as heartbeats.
Fairness ==
  /\ WF_vars(Expire)
  /\ WF_vars(EpollReturn(FALSE))
  /\ WF_vars(ServeFrame) /\ WF_vars(ServeTimer) /\ WF_vars(HandleTick)
  /\ WF_vars(Drain) /\ WF_vars(SendSync)
  /\ WF_vars(LookAtTimer) /\ WF_vars(LabelTimer) /\ WF_vars(ModifyTimer)
  /\ WF_vars(AddTimer)
  /\ Traffic => WF_vars(EpollReturn(TRUE))

FairSpec == Spec /\ Fairness

-----------------------------------------------------------------------------
(* Properties. *)

Holders == {m \in Motors : sync_active[m]}

\* Only the last holder stops the timer: while a motor counts on the periodic
\* SYNC, or a sync_start is not matched, the timerfd is there and runs.
HoldersKeepTimer ==
  Holders # {} \/ started > 0 => running /\ timer_fd # NoFd

\* The receive thread never polls a timerfd that was closed.
EpollIsCurrent == epoll \subseteq {timer_fd}

\* A running timer sends SYNC frames, one after the other, until it is stopped.
RunningTimerTicks == running ~> recv = "send" \/ ~running

=============================================================================
