--------------------------- MODULE RemoteWatchdog ---------------------------
(***************************************************************************)
(* The soft watchdog of the board (remote_motion_watchdog.cpp).  When the  *)
(* heartbeat of the external PC is missing it cancels the trajectory goals *)
(* and asks controller_manager to deactivate the trajectory controller,    *)
(* again and again until one answer confirms it.  All callbacks run in one *)
(* single-threaded executor, one after the other.                          *)
(*                                                                         *)
(* The soft timeout is a Boolean; cancel_hold_, retry_period_ and the      *)
(* deadline of a request may have passed or not whenever monitor looks.    *)
(* Requests of the current generation are told from earlier ones; of those *)
(* only what their answers may still do is kept.                           *)
(***************************************************************************)
VARIABLES
  state,             \* state_
  heartbeat_fresh,   \* heartbeat_is_fresh()
  stop_confirmed,    \* controller_stop_confirmed_
  request,           \* the deactivation whose generation is the current one
  stale_requests     \* deactivations of earlier generations

vars == <<state, heartbeat_fresh, stop_confirmed, request, stale_requests>>

Pending == request # "none"   \* switch_request_pending_

TypeOK ==
  /\ state \in {"waiting", "monitoring", "stopping", "latched"}
  /\ heartbeat_fresh \in BOOLEAN /\ stop_confirmed \in BOOLEAN
  /\ request \in {"none", "sent", "ok", "refused"}
  /\ stale_requests \subseteq {"sent", "ok"}

-----------------------------------------------------------------------------
\* The first heartbeat arms the supervision; a stop ordered before it stays.
ReceiveHeartbeat ==
  /\ heartbeat_fresh' = TRUE
  /\ state' = IF state = "waiting" THEN "monitoring" ELSE state
  /\ UNCHANGED <<stop_confirmed, request,
                 stale_requests>>

SoftTimeout ==
  /\ heartbeat_fresh' = FALSE
  /\ UNCHANGED <<state, stop_confirmed, request,
                 stale_requests>>

\* begin_fault_stop of a watchdog that is not stopped yet.  Cancelling the goals
\* is best effort: an action server that is not there only makes the
\* deactivation due at once.
BeginFaultStop == state' = "stopping" /\ stop_confirmed' = FALSE

\* The end of monitor(): the next deactivation request, when none is pending (r),
\* one is due and the service is there.
AskWhenDue(r) ==
  \/ request' = r
  \/ /\ state' \in {"stopping", "latched"} /\ ~stop_confirmed' /\ r = "none"
     /\ request' = "sent"

\* The generation of an unanswered request is over.
Superseded == stale_requests \cup ({request} \cap {"sent", "ok"})

LostHeartbeat == state = "monitoring" /\ ~heartbeat_fresh

\* One callback of the monitor timer; the deadline of a pending request may have
\* passed by then.
Monitor ==
  /\ IF LostHeartbeat THEN BeginFaultStop ELSE UNCHANGED <<state, stop_confirmed>>
  /\ \/ AskWhenDue(request) /\ UNCHANGED stale_requests
     \/ Pending /\ AskWhenDue("none") /\ stale_requests' = Superseded
  /\ UNCHANGED heartbeat_fresh

\* The stop_motion service: it does nothing when a stop is under way or done.
StopMotion ==
  /\ state \in {"waiting", "monitoring"}
  /\ BeginFaultStop
  /\ UNCHANGED <<heartbeat_fresh, request, stale_requests>>

\* The answer to the current request.
Answer ==
  /\ request \in {"ok", "refused"}
  /\ request' = "none"
  /\ IF request = "ok"
     THEN state' = "latched" /\ stop_confirmed' = TRUE
     ELSE UNCHANGED <<state, stop_confirmed>>
  /\ UNCHANGED <<heartbeat_fresh, stale_requests>>

\* Mutant of AnswerStale: the generation of an answer is not looked at.
AnswerStaleAccepted ==
  /\ "ok" \in stale_requests
  /\ stale_requests' = stale_requests \ {"ok"}
  /\ request' = "none" /\ state' = "latched" /\ stop_confirmed' = TRUE
  /\ UNCHANGED heartbeat_fresh

\* An answer whose generation is over changes nothing.
AnswerStale ==
  /\ "ok" \in stale_requests
  /\ stale_requests' = stale_requests \ {"ok"}
  /\ UNCHANGED <<state, heartbeat_fresh, stop_confirmed,
                 request>>

\* reset_fault; it is refused, without an effect, in every other state.
ResetFault ==
  /\ state = "latched" /\ stop_confirmed /\ heartbeat_fresh
  /\ state' = "monitoring" /\ stop_confirmed' = FALSE
  /\ UNCHANGED <<heartbeat_fresh, request,
                 stale_requests>>

-----------------------------------------------------------------------------
(* What controller_manager and the action server make of the requests. *)

Served(result) ==
  /\ \/ /\ request = "sent" /\ request' = result
        /\ UNCHANGED stale_requests
     \/ /\ "sent" \in stale_requests
        /\ \E more \in SUBSET {"sent"} :
             stale_requests' = (stale_requests \ {"sent"}) \cup more
                                 \cup ({result} \cap {"ok"})
        /\ UNCHANGED request
  /\ UNCHANGED <<state, heartbeat_fresh, stop_confirmed>>

Init ==
  /\ state = "waiting"
  /\ heartbeat_fresh = FALSE /\ stop_confirmed = FALSE
  /\ request = "none" /\ stale_requests = {}

OwnStep ==
  \/ Monitor \/ StopMotion
  \/ Answer \/ AnswerStale \/ ResetFault

=============================================================================
