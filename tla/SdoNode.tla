------------------------------- MODULE SdoNode -------------------------------
(***************************************************************************)
(* SDO traffic of the SDK with one CANopen node (co_sdo.c, motion_state.c). *)
(* Application threads make synchronous calls, which share one pending slot *)
(* per node, and asynchronous ones, which hang a task on the motor's list.  *)
(* The receive thread dispatches the responses and expires the tasks.       *)
(*                                                                         *)
(* An object stands for an index/subindex pair.  A frame carries the        *)
(* identity of the request it belongs to: the protocol does not, so that no *)
(* guard reads it; only the properties do.                                  *)
(***************************************************************************)
EXTENDS Naturals, Sequences

CONSTANTS
  Callers,   \* application threads that make synchronous calls
  Tasks,     \* asynchronous calls, each made at most once
  Objects,   \* index/subindex pairs of the node's dictionary
  NoObject,
  MaxCalls,  \* bound: synchronous calls of each thread
  Overlap    \* FALSE: callers exclude each other, as under sdk_mutex_

ASSUME NoObjectAssumption == NoObject \notin Objects
ASSUME MaxCallsAssumption == MaxCalls \in Nat
ASSUME OverlapAssumption == Overlap \in BOOLEAN

VARIABLES
  busy,       \* sdo_node_busy
  pending,    \* sdo_node_pending_idx and _sub
  rx_buf,     \* sdo_node_rx_buf
  pc,         \* where each synchronous caller is
  asked,      \* object of the current or last call of each caller
  calls,      \* number of calls each caller has begun
  result,     \* what the last call of each caller returned
  to_node,    \* request frames on their way
  to_host,    \* response frames not yet dispatched
  recv,       \* receive thread: "idle", or "match" between its two locks
  held,       \* the frame it carries there
  task_list,  \* sdo_async_list, newest first
  task_pc,    \* where the thread making each asynchronous call is
  task_obj,   \* object of each asynchronous call
  callback    \* statuses each task's callback was called with

syncVars == <<busy, pending, pc, asked, calls, result, rx_buf>>
taskVars == <<task_list, task_pc, task_obj, callback>>
recvVars == <<recv, held>>
vars == <<busy, pending, rx_buf, pc, asked, calls, result, to_node, to_host,
          recv, held, task_list, task_pc, task_obj, callback>>

Ids == (Callers \X (1 .. MaxCalls)) \cup (Tasks \X {0})
Frames == [id : Ids, obj : Objects, abort : BOOLEAN]
NoFrame == [id |-> <<>>, obj |-> NoObject, abort |-> FALSE]

TypeOK ==
  /\ busy \in BOOLEAN
  /\ pending \in Objects \cup {NoObject}
  /\ rx_buf \in Frames \cup {NoFrame}
  /\ pc \in [Callers -> {"idle", "send", "wait"}]
  /\ asked \in [Callers -> Objects \cup {NoObject}]
  /\ calls \in [Callers -> 0 .. MaxCalls]
  /\ result \in [Callers -> [status : {"none", "ok", "abort", "timeout", "error"},
                             frame : Frames \cup {NoFrame}]]
  /\ to_node \in Seq(Frames)
  /\ to_host \in Seq(Frames)
  /\ recv \in {"idle", "match"}
  /\ held \in Frames \cup {NoFrame}
  /\ task_list \in Seq(Tasks)
  /\ task_pc \in [Tasks -> {"new", "linked", "callback", "send", "done", "failed"}]
  /\ task_obj \in [Tasks -> Objects \cup {NoObject}]
  /\ callback \in [Tasks -> Seq({"ok", "timeout"})]

-----------------------------------------------------------------------------
(* Synchronous calls: sdo_read, sdo_write and sdo_wait_node. *)

\* The request is recorded in the node's slot, whether or not it is in use.
Begin(c, o) ==
  /\ pc[c] = "idle"
  /\ calls[c] < MaxCalls
  /\ Overlap \/ \A d \in Callers : pc[d] = "idle"
  /\ busy' = TRUE
  /\ pending' = o
  /\ asked' = [asked EXCEPT ![c] = o]
  /\ calls' = [calls EXCEPT ![c] = @ + 1]
  /\ pc' = [pc EXCEPT ![c] = "send"]
  /\ result' = [result EXCEPT ![c] = [status |-> "none", frame |-> NoFrame]]
  /\ UNCHANGED <<rx_buf, to_node, to_host, recvVars, taskVars>>

Return(c, status, frame) ==
  /\ pc' = [pc EXCEPT ![c] = "idle"]
  /\ result' = [result EXCEPT ![c] = [status |-> status, frame |-> frame]]

Send(c) ==
  /\ pc[c] = "send"
  /\ to_node' = Append(to_node,
       [id |-> <<c, calls[c]>>, obj |-> asked[c], abort |-> FALSE])
  /\ pc' = [pc EXCEPT ![c] = "wait"]
  /\ UNCHANGED <<busy, pending, rx_buf, asked, calls, result, to_host, recvVars,
                 taskVars>>

SendFails(c) ==
  /\ pc[c] = "send"
  /\ busy' = FALSE
  /\ Return(c, "error", NoFrame)
  /\ UNCHANGED <<pending, rx_buf, asked, calls, to_node, to_host, recvVars, taskVars>>

\* Mutant of Wake: on an abort the command specifier is returned in place of an
\* error code.
WakeRawAbort(c) ==
  /\ pc[c] = "wait"
  /\ ~busy
  /\ Return(c, IF rx_buf.abort THEN "scs" ELSE "ok", rx_buf)
  /\ UNCHANGED <<busy, pending, rx_buf, asked, calls, to_node, to_host, recvVars,
                 taskVars>>

\* The slot is not busy any more, whoever released it: the caller takes what
\* the receive buffer holds.
Wake(c) ==
  /\ pc[c] = "wait"
  /\ ~busy
  /\ Return(c, IF rx_buf.abort THEN "abort" ELSE "ok", rx_buf)
  /\ UNCHANGED <<busy, pending, rx_buf, asked, calls, to_node, to_host, recvVars,
                 taskVars>>

\* Mutant of Timeout: the slot stays busy.
TimeoutKeepsSlot(c) ==
  /\ pc[c] = "wait"
  /\ Return(c, "timeout", NoFrame)
  /\ UNCHANGED <<busy, pending, rx_buf, asked, calls, to_node, to_host, recvVars,
                 taskVars>>

\* pthread_cond_timedwait reports the deadline, even when the answer arrived
\* meanwhile.
Timeout(c) ==
  /\ pc[c] = "wait"
  /\ busy' = FALSE
  /\ Return(c, "timeout", NoFrame)
  /\ UNCHANGED <<pending, rx_buf, asked, calls, to_node, to_host, recvVars, taskVars>>

-----------------------------------------------------------------------------
(* Asynchronous calls: sdo_read_async and sdo_write_async. *)

\* async_sdo_alloc links a zeroed task: no callback, expired since ever.
Alloc(t) ==
  /\ task_pc[t] = "new"
  /\ task_list' = <<t>> \o task_list
  /\ task_pc' = [task_pc EXCEPT ![t] = "linked"]
  /\ UNCHANGED <<syncVars, to_node, to_host, recvVars, task_obj, callback>>

\* Object, callback, then the deadline, written without sdo_async_lock.  When
\* the receive thread freed the task meanwhile these are writes to freed
\* memory; the outcome modelled is the mildest one, that nobody reads them.
FillCallback(t, o) ==
  /\ task_pc[t] = "linked"
  /\ task_obj' = [task_obj EXCEPT ![t] = o]
  /\ task_pc' = [task_pc EXCEPT ![t] = "callback"]
  /\ UNCHANGED <<syncVars, to_node, to_host, recvVars, task_list, callback>>

FillDeadline(t) ==
  /\ task_pc[t] = "callback"
  /\ task_pc' = [task_pc EXCEPT ![t] = "send"]
  /\ UNCHANGED <<syncVars, to_node, to_host, recvVars, task_list, task_obj, callback>>

\* The walk of async_sdo_free and of the receive thread: t is unlinked, if it
\* is on the list.
Without(t) ==
  LET at == {i \in DOMAIN task_list : task_list[i] = t}
      hole == CHOOSE i \in at : TRUE
  IN IF at = {} THEN task_list
     ELSE [k \in 1 .. Len(task_list) - 1 |->
             task_list[IF k < hole THEN k ELSE k + 1]]

SendTask(t) ==
  /\ task_pc[t] = "send"
  /\ \/ /\ to_node' = Append(to_node,
             [id |-> <<t, 0>>, obj |-> task_obj[t], abort |-> FALSE])
        /\ task_pc' = [task_pc EXCEPT ![t] = "done"]
        /\ UNCHANGED task_list
     \/ /\ task_list' = Without(t)      \* async_sdo_free
        /\ task_pc' = [task_pc EXCEPT ![t] = "failed"]
        /\ UNCHANGED to_node
  /\ UNCHANGED <<syncVars, to_host, recvVars, task_obj, callback>>

-----------------------------------------------------------------------------
(* The node and the bus. *)

Answer ==
  /\ to_node # <<>>
  /\ \E abort \in BOOLEAN :
       to_host' = Append(to_host, [Head(to_node) EXCEPT !.abort = abort])
  /\ to_node' = Tail(to_node)
  /\ UNCHANGED <<syncVars, recvVars, taskVars>>

LoseRequest ==
  /\ to_node # <<>>
  /\ to_node' = Tail(to_node)
  /\ UNCHANGED <<syncVars, to_host, recvVars, taskVars>>

LoseResponse ==
  /\ to_host # <<>>
  /\ to_host' = Tail(to_host)
  /\ UNCHANGED <<syncVars, to_node, recvVars, taskVars>>

-----------------------------------------------------------------------------
(* The receive thread: miraculous_co_sdo_wait_dispatch and _timeout_check. *)

\* Mutant of Dispatch: index and subindex are not compared.
DispatchUnchecked ==
  /\ recv = "idle"
  /\ to_host # <<>>
  /\ to_host' = Tail(to_host)
  /\ \/ ~busy /\ recv' = "match" /\ held' = Head(to_host) /\ UNCHANGED <<busy, rx_buf>>
     \/ busy /\ rx_buf' = Head(to_host) /\ busy' = FALSE /\ UNCHANGED recvVars
  /\ UNCHANGED <<pending, pc, asked, calls, result, to_node, taskVars>>

Dispatch ==
  /\ recv = "idle"
  /\ to_host # <<>>
  /\ to_host' = Tail(to_host)
  /\ LET frame == Head(to_host) IN
       \/ /\ ~busy                       \* look for an asynchronous task
          /\ recv' = "match" /\ held' = frame
          /\ UNCHANGED <<busy, rx_buf>>
       \/ /\ busy /\ frame.obj # pending   \* dropped
          /\ UNCHANGED <<busy, rx_buf, recvVars>>
       \/ /\ busy /\ frame.obj = pending
          /\ rx_buf' = frame
          /\ busy' = FALSE
          /\ UNCHANGED recvVars
  /\ UNCHANGED <<pending, pc, asked, calls, result, to_node, taskVars>>

Matching ==
  {i \in DOMAIN task_list : /\ task_pc[task_list[i]] # "linked"
                            /\ task_obj[task_list[i]] = held.obj}

\* The newest task for the object is removed and called back, with an abort
\* reported as MIRA_SDO_OK as well.
MatchTask ==
  /\ recv = "match"
  /\ recv' = "idle" /\ held' = NoFrame
  /\ \/ Matching = {} /\ UNCHANGED <<task_list, callback>>
     \/ \E i \in Matching :
          /\ \A k \in Matching : i <= k
          /\ task_list' = Without(task_list[i])
          /\ callback' = [callback EXCEPT ![task_list[i]] = Append(@, "ok")]
  /\ UNCHANGED <<syncVars, to_node, to_host, task_pc, task_obj>>

\* Mutants of ExpireTask: the task stays on the list; its callback is not called.
ExpireTaskKeeps(t) ==
  /\ recv = "idle"
  /\ \E i \in DOMAIN task_list : task_list[i] = t
  /\ task_pc[t] # "linked"
  /\ Len(callback[t]) < 2
  /\ callback' = [callback EXCEPT ![t] = Append(@, "timeout")]
  /\ UNCHANGED <<syncVars, to_node, to_host, recvVars, task_list, task_pc, task_obj>>

ExpireTaskSilent(t) ==
  /\ recv = "idle"
  /\ \E i \in DOMAIN task_list : task_list[i] = t
  /\ task_list' = Without(t)
  /\ UNCHANGED <<syncVars, to_node, to_host, recvVars, task_pc, task_obj, callback>>

\* The deadline of a task passes; one not filled in yet has none and expires
\* at the next check, without a callback as long as that is not set.
ExpireTask(t) ==
  /\ recv = "idle"
  /\ \E i \in DOMAIN task_list : task_list[i] = t
  /\ task_list' = Without(t)
  /\ callback' = IF task_pc[t] = "linked" THEN callback
                 ELSE [callback EXCEPT ![t] = Append(@, "timeout")]
  /\ UNCHANGED <<syncVars, to_node, to_host, recvVars, task_pc, task_obj>>

-----------------------------------------------------------------------------
Init ==
  /\ busy = FALSE
  /\ pending = NoObject
  /\ rx_buf = NoFrame
  /\ pc = [c \in Callers |-> "idle"]
  /\ asked = [c \in Callers |-> NoObject]
  /\ calls = [c \in Callers |-> 0]
  /\ result = [c \in Callers |-> [status |-> "none", frame |-> NoFrame]]
  /\ to_node = <<>>
  /\ to_host = <<>>
  /\ recv = "idle"
  /\ held = NoFrame
  /\ task_list = <<>>
  /\ task_pc = [t \in Tasks |-> "new"]
  /\ task_obj = [t \in Tasks |-> NoObject]
  /\ callback = [t \in Tasks |-> <<>>]

CallStep(c) ==
  \/ \E o \in Objects : Begin(c, o)
  \/ Send(c) \/ SendFails(c) \/ Wake(c) \/ Timeout(c)

TaskStep(t) ==
  \/ Alloc(t)
  \/ \E o \in Objects : FillCallback(t, o)
  \/ FillDeadline(t) \/ SendTask(t)

BusStep == Answer \/ LoseRequest \/ LoseResponse

RecvStep == Dispatch \/ MatchTask \/ \E t \in Tasks : ExpireTask(t)

Next ==
  \/ \E c \in Callers : CallStep(c)
  \/ \E t \in Tasks : TaskStep(t)
  \/ BusStep \/ RecvStep

Spec == Init /\ [][Next]_vars

\* Threads keep running and deadlines pass.
Fairness ==
  /\ \A c \in Callers : WF_vars(Send(c) \/ SendFails(c)) /\ WF_vars(Timeout(c))
  /\ \A t \in Tasks : WF_vars(\E o \in Objects : FillCallback(t, o))
                        /\ WF_vars(FillDeadline(t) \/ SendTask(t))
                        /\ WF_vars(ExpireTask(t))
  /\ WF_vars(MatchTask)

FairSpec == Spec /\ Fairness

-----------------------------------------------------------------------------
(* Properties. *)

\* The slot is never left busy without a caller: a slot that stays busy would
\* swallow every response the asynchronous tasks of the node wait for.
BusyHasOwner == busy => \E c \in Callers : pc[c] # "idle"

\* A call that returns success or an abort was answered for its own object.
AnswerMatchesObject ==
  \A c \in Callers :
    result[c].status \in {"ok", "abort"} => result[c].frame.obj = asked[c]

\* A late response does not pollute the next operation: the answer of a call
\* is the response to the request that this very call sent.
AnswersThisCall ==
  \A c \in Callers :
    result[c].status \in {"ok", "abort"} => result[c].frame.id = <<c, calls[c]>>

\* Whatever a call returns as a response is the response for its own object.
\* Weaker than AnswerMatchesObject, which also excludes success without one.
ResponseMatchesObject ==
  \A c \in Callers :
    result[c].frame # NoFrame => result[c].frame.obj = asked[c]

\* The callback of a task is called at most once, whatever the order of the
\* caller's stores, the response, the deadline and a send that fails.
CallbackAtMostOnce == \A t \in Tasks : Len(callback[t]) <= 1

Listed(t) == \E i \in DOMAIN task_list : task_list[i] = t

\* An asynchronous call that was accepted ends in its callback, with the response
\* or with the timeout, although responses are lost, aborted, or dropped because a
\* synchronous call is waiting.  A task that expired before its fields were stored
\* is not on the list any more: its callback never comes.
ListedIsCalledBack ==
  \A t \in Tasks : task_pc[t] = "done" /\ Listed(t) ~> callback[t] # <<>>

=============================================================================
