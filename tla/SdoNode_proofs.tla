--------------------------- MODULE SdoNode_proofs ---------------------------
(* Theorems about SdoNode, for every number of callers, tasks and objects.   *)
EXTENDS SdoNode, SequenceTheorems, TLAPS

\* A call that was begun has an object and a number.
Begun ==
  /\ \A c \in Callers : pc[c] # "idle" => asked[c] \in Objects /\ calls[c] \in 1 .. MaxCalls
  /\ \A t \in Tasks : task_pc[t] \in {"callback", "send"} => task_obj[t] \in Objects

\* The list holds a task once, and none that was called back.
ListInv ==
  /\ \A i, k \in DOMAIN task_list : task_list[i] = task_list[k] => i = k
  /\ \A t \in Tasks : Listed(t) => task_pc[t] # "new" /\ callback[t] = <<>>
  /\ \A t \in Tasks : task_pc[t] = "new" => callback[t] = <<>>

Inv == TypeOK /\ Begun /\ BusyHasOwner /\ ListInv /\ CallbackAtMostOnce

-----------------------------------------------------------------------------
(* Unlinking. *)

LEMMA WithoutUnlinks ==
  ASSUME task_list \in Seq(Tasks), NEW t \in Tasks,
         \A i, k \in DOMAIN task_list : task_list[i] = task_list[k] => i = k
  PROVE  /\ Without(t) \in Seq(Tasks)
         /\ \A k \in DOMAIN Without(t) : Without(t)[k] # t /\ Listed(Without(t)[k])
         /\ \A i, k \in DOMAIN Without(t) : Without(t)[i] = Without(t)[k] => i = k
<1> DEFINE at == {i \in DOMAIN task_list : task_list[i] = t}
           hole == CHOOSE i \in at : TRUE
           n == Len(task_list)
<1>1. n \in Nat /\ DOMAIN task_list = 1 .. n /\ \A i \in 1 .. n : task_list[i] \in Tasks
  OBVIOUS
<1>2. CASE at = {}
  <2>1. Without(t) = task_list
    BY <1>2 DEF Without
  <2>2. QED
    BY <1>2, <2>1 DEF Listed
<1>3. CASE at # {}
  <2>1. hole \in 1 .. n /\ task_list[hole] = t
    BY <1>1, <1>3
  <2> HIDE DEF hole
  <2>2. Without(t) = [k \in 1 .. n - 1 |-> task_list[IF k < hole THEN k ELSE k + 1]]
    BY <1>3 DEF Without, hole
  <2>3. \A k \in 1 .. n - 1 : (IF k < hole THEN k ELSE k + 1) \in (1 .. n) \ {hole}
    BY <1>1, <2>1
  <2>4. n - 1 \in Nat
    BY <1>1, <2>1
  <2>5. Without(t) \in Seq(Tasks) /\ DOMAIN Without(t) = 1 .. n - 1
    BY <1>1, <2>2, <2>3, <2>4
  <2>6. ASSUME NEW k \in 1 .. n - 1
        PROVE  Without(t)[k] # t /\ Listed(Without(t)[k])
    <3> DEFINE i == IF k < hole THEN k ELSE k + 1
    <3>1. i \in (1 .. n) \ {hole} /\ Without(t)[k] = task_list[i]
      BY <2>2, <2>3
    <3>2. QED
      BY <1>1, <2>1, <3>1 DEF Listed
  <2>7. ASSUME NEW i \in 1 .. n - 1, NEW k \in 1 .. n - 1, Without(t)[i] = Without(t)[k]
        PROVE  i = k
    <3>1. task_list[IF i < hole THEN i ELSE i + 1] = task_list[IF k < hole THEN k ELSE k + 1]
      BY <2>2, <2>7
    <3>2. (IF i < hole THEN i ELSE i + 1) = (IF k < hole THEN k ELSE k + 1)
      BY <1>1, <2>3, <3>1
    <3>3. QED
      BY <1>1, <2>1, <3>2
  <2>8. QED
    BY <2>5, <2>6, <2>7
<1>4. QED
  BY <1>2, <1>3

-----------------------------------------------------------------------------
(* The steps. *)

LEMMA BeginKeeps ==
  ASSUME Inv, NEW c \in Callers, NEW o \in Objects, Begin(c, o)
  PROVE  Inv'
<1> USE DEF Begin, recvVars, taskVars
<1>1. calls[c] + 1 \in 1 .. MaxCalls
  BY MaxCallsAssumption DEF Inv, TypeOK
<1>2. TypeOK'
  BY <1>1, MaxCallsAssumption DEF Inv, TypeOK
<1>3. Begun'
  BY <1>1 DEF Inv, TypeOK, Begun
<1>4. BusyHasOwner'
  BY DEF Inv, TypeOK, BusyHasOwner
<1>5. ListInv' /\ CallbackAtMostOnce'
  BY DEF Inv, ListInv, Listed, CallbackAtMostOnce
<1>6. QED
  BY <1>2, <1>3, <1>4, <1>5 DEF Inv

\* The frame that Send puts on the bus is one.
LEMMA RequestIsFrame ==
  ASSUME NEW id \in Ids, NEW o \in Objects, NEW b \in BOOLEAN
  PROVE  [id |-> id, obj |-> o, abort |-> b] \in Frames
BY DEF Frames

LEMMA CallKeeps ==
  ASSUME Inv, NEW c \in Callers, Send(c) \/ SendFails(c) \/ Wake(c) \/ Timeout(c)
  PROVE  Inv'
<1> USE DEF recvVars, taskVars, Return
<1>1. ListInv' /\ CallbackAtMostOnce'
  BY DEF Inv, ListInv, Listed, CallbackAtMostOnce, Send, SendFails, Wake, Timeout
<1>2. Begun' /\ BusyHasOwner'
  <2>1. Begun'
    BY DEF Inv, TypeOK, Begun, Send, SendFails, Wake, Timeout
  <2>2. CASE Send(c)
    <3>1. pc'[c] # "idle"
      BY <2>2 DEF Inv, TypeOK, Send
    <3>2. QED
      BY <2>1, <3>1 DEF BusyHasOwner
  <2>3. CASE ~Send(c)
    <3>1. ~busy'
      BY <2>3, Zenon DEF SendFails, Wake, Timeout
    <3>2. QED
      BY <2>1, <3>1 DEF BusyHasOwner
  <2>4. QED
    BY <2>1, <2>2, <2>3
<1>3. TypeOK'
  <2>1. CASE Send(c)
    <3>1. [id |-> <<c, calls[c]>>, obj |-> asked[c], abort |-> FALSE] \in Frames
      <4>1. <<c, calls[c]>> \in Ids /\ asked[c] \in Objects
        BY <2>1 DEF Inv, Begun, Send, Ids
      <4>2. QED
        BY <4>1, RequestIsFrame
    <3>2. to_node' \in Seq(Frames)
      BY <2>1, <3>1 DEF Inv, TypeOK, Send
    <3>3. QED
      BY <2>1, <3>2 DEF Inv, TypeOK, Send
  <2>2. CASE SendFails(c)
    BY <2>2 DEF Inv, TypeOK, SendFails
  <2>3. CASE Wake(c)
    BY <2>3 DEF Inv, TypeOK, Wake
  <2>4. CASE Timeout(c)
    BY <2>4 DEF Inv, TypeOK, Timeout
  <2>5. QED
    BY <2>1, <2>2, <2>3, <2>4
<1>4. QED
  BY <1>1, <1>2, <1>3 DEF Inv

LEMMA AllocKeeps ==
  ASSUME Inv, NEW t \in Tasks, Alloc(t)
  PROVE  Inv'
<1> USE DEF Alloc, syncVars, recvVars
<1>1. /\ task_list' \in Seq(Tasks) /\ Len(task_list') = Len(task_list) + 1
      /\ \A k \in 1 .. Len(task_list) + 1 :
           task_list'[k] = IF k = 1 THEN t ELSE task_list[k - 1]
  BY DEF Inv, TypeOK
<1>2. Len(task_list) \in Nat /\ DOMAIN task_list = 1 .. Len(task_list)
      /\ DOMAIN task_list' = 1 .. Len(task_list) + 1
  BY <1>1 DEF Inv, TypeOK
<1>3. ~Listed(t) /\ callback[t] = <<>>
  BY DEF Inv, ListInv
<1>4. \A i, k \in DOMAIN task_list' : task_list'[i] = task_list'[k] => i = k
  <2>1. \A i \in 1 .. Len(task_list) : task_list[i] # t
    BY <1>2, <1>3 DEF Listed
  <2>2. SUFFICES ASSUME NEW i \in 1 .. Len(task_list) + 1, NEW k \in 1 .. Len(task_list) + 1,
                        task_list'[i] = task_list'[k]
                 PROVE  i = k
    BY <1>2
  <2>3. CASE i = 1 \/ k = 1
    BY <1>1, <1>2, <2>1, <2>2, <2>3
  <2>4. CASE i # 1 /\ k # 1
    <3>1. i - 1 \in DOMAIN task_list /\ k - 1 \in DOMAIN task_list
      BY <1>2, <2>4
    <3>2. task_list[i - 1] = task_list[k - 1]
      BY <1>1, <2>2, <2>4
    <3>3. i - 1 = k - 1
      BY <3>1, <3>2 DEF Inv, ListInv
    <3>4. QED
      BY <3>3
  <2>5. QED
    BY <2>3, <2>4
<1>5. \A u \in Tasks : Listed(u)' => u = t \/ Listed(u)
  <2>1. SUFFICES ASSUME NEW u \in Tasks, NEW k \in 1 .. Len(task_list) + 1,
                        task_list'[k] = u, u # t
                 PROVE  Listed(u)
    BY <1>2 DEF Listed
  <2>2. k - 1 \in DOMAIN task_list /\ task_list[k - 1] = u
    BY <1>1, <1>2, <2>1
  <2>3. QED
    BY <2>2 DEF Listed
<1>6. ListInv'
  BY <1>3, <1>4, <1>5 DEF Inv, TypeOK, ListInv
<1>7. TypeOK'
  BY <1>1 DEF Inv, TypeOK
<1>8. Begun' /\ BusyHasOwner' /\ CallbackAtMostOnce'
  BY DEF Inv, TypeOK, Begun, BusyHasOwner, CallbackAtMostOnce
<1>9. QED
  BY <1>6, <1>7, <1>8 DEF Inv

LEMMA FillKeeps ==
  ASSUME Inv, NEW t \in Tasks,
         (\E o \in Objects : FillCallback(t, o)) \/ FillDeadline(t)
  PROVE  Inv'
<1> USE DEF FillCallback, FillDeadline, syncVars, recvVars
<1>1. TypeOK' /\ Begun'
  <2>1. task_pc' \in [Tasks -> {"new", "linked", "callback", "send", "done", "failed"}]
    BY DEF Inv, TypeOK
  <2>2. task_obj' \in [Tasks -> Objects \cup {NoObject}]
    BY DEF Inv, TypeOK
  <2>3. \A u \in Tasks : task_pc'[u] \in {"callback", "send"} => task_obj'[u] \in Objects
    <3>1. ASSUME NEW o \in Objects, FillCallback(t, o)
          PROVE  \A u \in Tasks : task_pc'[u] \in {"callback", "send"} => task_obj'[u] \in Objects
      BY <3>1 DEF Inv, TypeOK, Begun
    <3>2. CASE FillDeadline(t)
      BY <3>2 DEF Inv, TypeOK, Begun
    <3>3. QED
      BY <3>1, <3>2
  <2>4. UNCHANGED <<busy, pending, pc, asked, calls, result, rx_buf, to_node, to_host,
                    recv, held, task_list, callback>>
    OBVIOUS
  <2>5. QED
    BY <2>1, <2>2, <2>3, <2>4 DEF Inv, TypeOK, Begun
<1>2. BusyHasOwner' /\ CallbackAtMostOnce'
  BY DEF Inv, BusyHasOwner, CallbackAtMostOnce
<1>3. ListInv'
  BY DEF Inv, TypeOK, ListInv, Listed
<1>4. QED
  BY <1>1, <1>2, <1>3 DEF Inv

\* The list after a removal.
LEMMA RemovalKeepsList ==
  ASSUME Inv, NEW t \in Tasks, task_list' = Without(t), task_pc' = task_pc,
         \A u \in Tasks : u # t => callback'[u] = callback[u],
         task_pc[t] = "new" => callback'[t] = callback[t]
  PROVE  task_list' \in Seq(Tasks) /\ ListInv'
<1>1. /\ Without(t) \in Seq(Tasks)
      /\ \A k \in DOMAIN Without(t) : Without(t)[k] # t /\ Listed(Without(t)[k])
      /\ \A i, k \in DOMAIN Without(t) : Without(t)[i] = Without(t)[k] => i = k
  BY WithoutUnlinks DEF Inv, TypeOK, ListInv
<1>2. \A u \in Tasks : Listed(u)' => u # t /\ Listed(u)
  BY <1>1 DEF Listed
<1>3. QED
  BY <1>1, <1>2 DEF Inv, ListInv

LEMMA SendTaskKeeps ==
  ASSUME Inv, NEW t \in Tasks, SendTask(t)
  PROVE  Inv'
<1> USE DEF syncVars, recvVars
<1>1. Begun' /\ BusyHasOwner' /\ CallbackAtMostOnce'
  BY DEF SendTask, Inv, TypeOK, Begun, BusyHasOwner, CallbackAtMostOnce
<1>2. CASE task_list' = task_list
  <2>1. [id |-> <<t, 0>>, obj |-> task_obj[t], abort |-> FALSE] \in Frames
    <3>1. <<t, 0>> \in Ids /\ task_obj[t] \in Objects
      BY DEF SendTask, Inv, Begun, Ids
    <3>2. QED
      BY <3>1, RequestIsFrame
  <2>2. to_node' \in Seq(Frames)
    <3> DEFINE frame == [id |-> <<t, 0>>, obj |-> task_obj[t], abort |-> FALSE]
    <3>1. to_node' = to_node \/ to_node' = Append(to_node, frame)
      BY DEF SendTask
    <3>2. frame \in Frames /\ to_node \in Seq(Frames)
      BY <2>1 DEF Inv, TypeOK
    <3> HIDE DEF frame
    <3>3. QED
      BY <3>1, <3>2
  <2>3. TypeOK'
    BY <1>2, <2>2 DEF SendTask, Inv, TypeOK
  <2>4. ListInv'
    BY <1>2 DEF SendTask, Inv, TypeOK, ListInv, Listed
  <2>5. QED
    BY <1>1, <2>3, <2>4 DEF Inv
<1>3. CASE task_list' = Without(t) /\ to_node' = to_node
             /\ task_pc' = [task_pc EXCEPT ![t] = "failed"]
  <2>1. /\ Without(t) \in Seq(Tasks)
        /\ \A k \in DOMAIN Without(t) : Without(t)[k] # t /\ Listed(Without(t)[k])
        /\ \A i, k \in DOMAIN Without(t) : Without(t)[i] = Without(t)[k] => i = k
    BY WithoutUnlinks DEF Inv, TypeOK, ListInv
  <2>2. \A u \in Tasks : Listed(u)' => u # t /\ Listed(u)
    BY <1>3, <2>1 DEF Listed
  <2>3. ListInv'
    BY <1>3, <2>1, <2>2 DEF SendTask, Inv, TypeOK, ListInv
  <2>4. TypeOK'
    BY <1>3, <2>1 DEF SendTask, Inv, TypeOK
  <2>5. QED
    BY <1>1, <2>3, <2>4 DEF Inv
<1>4. QED
  BY <1>2, <1>3 DEF SendTask

LEMMA BusKeeps ==
  ASSUME Inv, BusStep
  PROVE  Inv'
<1> USE DEF syncVars, recvVars, taskVars
<1>1. to_node' \in Seq(Frames) /\ to_host' \in Seq(Frames)
  <2>1. CASE Answer
    <3>1. PICK abort \in BOOLEAN :
            to_host' = Append(to_host, [Head(to_node) EXCEPT !.abort = abort])
      BY <2>1 DEF Answer
    <3>2. Head(to_node) \in Frames
      BY <2>1 DEF Answer, Inv, TypeOK
    <3>3. [Head(to_node) EXCEPT !.abort = abort] \in Frames
      BY <3>2 DEF Frames
    <3>4. to_host' \in Seq(Frames)
      BY <3>1, <3>3 DEF Inv, TypeOK
    <3>5. QED
      BY <2>1, <3>4 DEF Answer, Inv, TypeOK
  <2>2. CASE LoseRequest
    BY <2>2 DEF LoseRequest, Inv, TypeOK
  <2>3. CASE LoseResponse
    BY <2>3 DEF LoseResponse, Inv, TypeOK
  <2>4. QED
    BY <2>1, <2>2, <2>3 DEF BusStep
<1>2. UNCHANGED <<busy, pending, pc, asked, calls, result, rx_buf, recv, held,
                  task_list, task_pc, task_obj, callback>>
  BY DEF BusStep, Answer, LoseRequest, LoseResponse
<1>3. TypeOK'
  BY <1>1, <1>2 DEF Inv, TypeOK
<1>4. Begun' /\ BusyHasOwner' /\ ListInv' /\ CallbackAtMostOnce'
  BY <1>2 DEF Inv, Begun, BusyHasOwner, ListInv, Listed, CallbackAtMostOnce
<1>5. QED
  BY <1>3, <1>4 DEF Inv

LEMMA DispatchKeeps ==
  ASSUME Inv, Dispatch
  PROVE  Inv'
<1> USE DEF Dispatch, recvVars, taskVars
<1>1. Head(to_host) \in Frames /\ to_host' \in Seq(Frames)
  BY DEF Inv, TypeOK
<1>2. /\ busy' \in BOOLEAN /\ (busy' => busy)
      /\ rx_buf' \in Frames \cup {NoFrame} /\ held' \in Frames \cup {NoFrame}
      /\ recv' \in {"idle", "match"}
  <2>1. busy' = busy \/ busy' = FALSE
    BY Zenon
  <2>2. rx_buf' = rx_buf \/ rx_buf' = Head(to_host)
    BY Zenon
  <2>3. held' = held \/ held' = Head(to_host)
    BY Zenon
  <2>4. recv' = recv \/ recv' = "match"
    BY Zenon
  <2>5. busy' \in BOOLEAN /\ (busy' => busy)
    <3>1. CASE busy' = busy
      BY <3>1 DEF Inv, TypeOK
    <3>2. CASE busy' = FALSE
      BY <3>2
    <3>3. QED
      BY <2>1, <3>1, <3>2
  <2>6. QED
    BY <1>1, <2>2, <2>3, <2>4, <2>5 DEF Inv, TypeOK
<1>3. TypeOK'
  BY <1>1, <1>2 DEF Inv, TypeOK
<1>4. Begun' /\ ListInv' /\ CallbackAtMostOnce'
  BY DEF Inv, Begun, ListInv, Listed, CallbackAtMostOnce
<1>5. BusyHasOwner'
  BY <1>2 DEF Inv, BusyHasOwner
<1>6. QED
  BY <1>3, <1>4, <1>5 DEF Inv

\* A listed task is removed and called back, at most once.
LEMMA CallbackKeeps ==
  ASSUME Inv, NEW t \in Tasks, Listed(t), NEW s \in {"ok", "timeout"},
         task_list' = Without(t), task_pc' = task_pc,
         callback' = callback \/ callback' = [callback EXCEPT ![t] = Append(@, s)]
  PROVE  /\ task_list' \in Seq(Tasks) /\ ListInv' /\ CallbackAtMostOnce'
         /\ callback' \in [Tasks -> Seq({"ok", "timeout"})]
<1>1. callback[t] = <<>> /\ task_pc[t] # "new"
  BY DEF Inv, ListInv
<1>2. task_list' \in Seq(Tasks) /\ ListInv'
  BY <1>1, RemovalKeepsList DEF Inv, TypeOK
<1>3. CASE callback' = callback
  BY <1>2, <1>3 DEF Inv, TypeOK, CallbackAtMostOnce
<1>4. CASE callback' = [callback EXCEPT ![t] = Append(@, s)]
  <2>1. callback' = [callback EXCEPT ![t] = <<s>>]
    BY <1>1, <1>4 DEF Inv, TypeOK
  <2>2. <<s>> \in Seq({"ok", "timeout"}) /\ Len(<<s>>) = 1
    OBVIOUS
  <2>3. QED
    BY <1>2, <2>1, <2>2 DEF Inv, TypeOK, CallbackAtMostOnce
<1>5. QED
  BY <1>3, <1>4

LEMMA MatchTaskKeeps ==
  ASSUME Inv, MatchTask
  PROVE  Inv'
<1> USE DEF MatchTask, syncVars
<1>1. /\ task_list' \in Seq(Tasks) /\ ListInv' /\ CallbackAtMostOnce'
      /\ callback' \in [Tasks -> Seq({"ok", "timeout"})]
  <2>1. CASE UNCHANGED <<task_list, callback>>
    BY <2>1 DEF Inv, TypeOK, ListInv, Listed, CallbackAtMostOnce
  <2>2. ASSUME NEW i \in Matching,
               task_list' = Without(task_list[i]),
               callback' = [callback EXCEPT ![task_list[i]] = Append(@, "ok")]
        PROVE  /\ task_list' \in Seq(Tasks) /\ ListInv' /\ CallbackAtMostOnce'
               /\ callback' \in [Tasks -> Seq({"ok", "timeout"})]
    <3>1. i \in DOMAIN task_list /\ task_list[i] \in Tasks /\ Listed(task_list[i])
      BY <2>2 DEF Matching, Listed, Inv, TypeOK
    <3>2. QED
      BY <2>2, <3>1, CallbackKeeps
  <2>3. QED
    BY <2>1, <2>2
<1>2. TypeOK'
  BY <1>1 DEF Inv, TypeOK
<1>3. Begun' /\ BusyHasOwner'
  BY DEF Inv, Begun, BusyHasOwner
<1>4. QED
  BY <1>1, <1>2, <1>3 DEF Inv

LEMMA ExpiryKeeps ==
  ASSUME Inv, NEW t \in Tasks, ExpireTask(t)
  PROVE  Inv'
<1> USE DEF ExpireTask, syncVars, recvVars
<1>1. /\ task_list' \in Seq(Tasks) /\ ListInv' /\ CallbackAtMostOnce'
      /\ callback' \in [Tasks -> Seq({"ok", "timeout"})]
  BY CallbackKeeps DEF Listed
<1>2. TypeOK'
  BY <1>1 DEF Inv, TypeOK
<1>3. Begun' /\ BusyHasOwner'
  BY DEF Inv, Begun, BusyHasOwner
<1>4. QED
  BY <1>1, <1>2, <1>3 DEF Inv

-----------------------------------------------------------------------------
(* The theorems. *)

\* The state of the node's SDO traffic is well formed, however calls overlap and
\* whatever frames are lost.
THEOREM Invariance == Spec => []Inv
<1>1. Init => Inv
  <2>1. ASSUME Init
        PROVE  TypeOK
    <3>1. calls \in [Callers -> 0 .. MaxCalls]
      BY <2>1, MaxCallsAssumption DEF Init
    <3>2. to_node \in Seq(Frames) /\ to_host \in Seq(Frames) /\ task_list \in Seq(Tasks)
      BY <2>1 DEF Init
    <3>3. callback \in [Tasks -> Seq({"ok", "timeout"})]
      BY <2>1 DEF Init
    <3>4. busy \in BOOLEAN
      BY <2>1 DEF Init
    <3>5. result \in [Callers -> [status : {"none", "ok", "abort", "timeout", "error"},
                                  frame : Frames \cup {NoFrame}]]
      BY <2>1 DEF Init
    <3>6. /\ pc \in [Callers -> {"idle", "send", "wait"}]
          /\ asked \in [Callers -> Objects \cup {NoObject}]
          /\ task_pc \in [Tasks -> {"new", "linked", "callback", "send", "done", "failed"}]
          /\ task_obj \in [Tasks -> Objects \cup {NoObject}]
      BY <2>1 DEF Init
    <3>7. QED
      BY <2>1, <3>1, <3>2, <3>3, <3>4, <3>5, <3>6 DEF Init, TypeOK
  <2>2. Init => Begun /\ BusyHasOwner
    BY DEF Init, Begun, BusyHasOwner
  <2>3. Init => ListInv /\ CallbackAtMostOnce
    BY DEF Init, ListInv, Listed, CallbackAtMostOnce
  <2>4. QED
    BY <2>1, <2>2, <2>3 DEF Inv
<1>2. Inv /\ [Next]_vars => Inv'
  <2> SUFFICES ASSUME Inv, [Next]_vars PROVE Inv'
    OBVIOUS
  <2>1. ASSUME NEW c \in Callers, CallStep(c)
        PROVE  Inv'
    BY <2>1, BeginKeeps, CallKeeps DEF CallStep
  <2>2. ASSUME NEW t \in Tasks, TaskStep(t)
        PROVE  Inv'
    BY <2>2, AllocKeeps, FillKeeps, SendTaskKeeps DEF TaskStep
  <2>3. CASE BusStep
    BY <2>3, BusKeeps
  <2>4. CASE RecvStep
    BY <2>4, DispatchKeeps, MatchTaskKeeps, ExpiryKeeps DEF RecvStep
  <2>5. CASE UNCHANGED vars
    BY <2>5 DEF vars, Inv, TypeOK, Begun, BusyHasOwner, ListInv, Listed, CallbackAtMostOnce
  <2>6. QED
    BY <2>1, <2>2, <2>3, <2>4, <2>5 DEF Next
<1>3. QED
  BY <1>1, <1>2, PTL DEF Spec

\* Every variable keeps its type.
THEOREM TypeCorrect == Spec => []TypeOK
<1>1. Inv => TypeOK
  BY DEF Inv
<1>2. QED
  BY <1>1, Invariance, PTL

\* The node's slot is only busy during a call, also when calls overlap, fail to
\* send or time out (sdo_wait_node releases it on every way out).
THEOREM SlotIsOwned == Spec => []BusyHasOwner
<1>1. Inv => BusyHasOwner
  BY DEF Inv
<1>2. QED
  BY <1>1, Invariance, PTL

\* Response, deadline and the caller's stores race for a task; its callback is
\* called by one of them at most.
THEOREM OneCallback == Spec => []CallbackAtMostOnce
<1>1. Inv => CallbackAtMostOnce
  BY DEF Inv
<1>2. QED
  BY <1>1, Invariance, PTL

-----------------------------------------------------------------------------
(* Callers that exclude each other, as under sdk_mutex_ of the driver. *)

\* The one caller's request is in the slot until it is answered, and then the
\* receive buffer holds an answer for its object.
Serial ==
  /\ \A c, d \in Callers : pc[c] # "idle" /\ pc[d] # "idle" => c = d
  /\ \A c \in Callers :
       /\ pc[c] # "idle" => result[c].status = "none"
       /\ pc[c] # "idle" => IF busy THEN pending = asked[c] ELSE rx_buf.obj = asked[c]

SerialInv == Inv /\ Serial /\ AnswerMatchesObject

LEMMA SerialCall ==
  ASSUME ~Overlap, SerialInv, NEW c \in Callers, CallStep(c)
  PROVE  Serial' /\ AnswerMatchesObject'
<1> USE DEF SerialInv, Inv, TypeOK
<1>1. ASSUME NEW o \in Objects, Begin(c, o)
      PROVE  Serial' /\ AnswerMatchesObject'
  <2>1. /\ \A d \in Callers : pc[d] = "idle"
        /\ busy' = TRUE /\ pending' = o
        /\ pc' = [pc EXCEPT ![c] = "send"] /\ asked' = [asked EXCEPT ![c] = o]
        /\ result' = [result EXCEPT ![c] = [status |-> "none", frame |-> NoFrame]]
    BY <1>1 DEF Begin
  <2>2. Serial'
    BY <2>1 DEF Serial
  <2>3. AnswerMatchesObject'
    BY <2>1 DEF AnswerMatchesObject
  <2>4. QED
    BY <2>2, <2>3
<1>2. CASE Send(c)
  <2>1. /\ pc[c] = "send" /\ pc' = [pc EXCEPT ![c] = "wait"]
        /\ UNCHANGED <<busy, pending, rx_buf, asked, result>>
    BY <1>2 DEF Send
  <2>2. Serial'
    BY <2>1 DEF Serial
  <2>3. AnswerMatchesObject'
    BY <2>1 DEF AnswerMatchesObject
  <2>4. QED
    BY <2>2, <2>3
<1>3. CASE SendFails(c) \/ Wake(c) \/ Timeout(c)
  <2>1. /\ pc[c] # "idle" /\ pc' = [pc EXCEPT ![c] = "idle"]
        /\ asked' = asked
        /\ \A d \in Callers \ {c} : result'[d] = result[d]
    BY <1>3 DEF SendFails, Wake, Timeout, Return
  <2>2. result'[c].status \in {"ok", "abort"} => result'[c].frame.obj = asked[c]
    <3>1. CASE SendFails(c) \/ Timeout(c)
      BY <3>1 DEF SendFails, Timeout, Return
    <3>2. CASE Wake(c)
      <4>1. rx_buf.obj = asked[c]
        BY <3>2 DEF Wake, Serial
      <4>2. result'[c].frame = rx_buf
        BY <3>2 DEF Wake, Return
      <4>3. QED
        BY <4>1, <4>2
    <3>3. QED
      BY <1>3, <3>1, <3>2
  <2>3. \A d \in Callers : pc'[d] = "idle"
    BY <2>1 DEF Serial
  <2>4. Serial'
    BY <2>3 DEF Serial
  <2>5. AnswerMatchesObject'
    BY <2>1, <2>2 DEF AnswerMatchesObject
  <2>6. QED
    BY <2>4, <2>5
<1>4. QED
  BY <1>1, <1>2, <1>3 DEF CallStep

LEMMA SerialDispatch ==
  ASSUME SerialInv, Dispatch
  PROVE  Serial' /\ AnswerMatchesObject'
<1>1. UNCHANGED <<pending, pc, asked, calls, result>>
  BY DEF Dispatch
<1>2. CASE busy' = busy /\ rx_buf' = rx_buf
  BY <1>1, <1>2 DEF SerialInv, Serial, AnswerMatchesObject
<1>3. CASE busy /\ busy' = FALSE /\ rx_buf'.obj = pending
  <2>1. AnswerMatchesObject'
    BY <1>1 DEF SerialInv, AnswerMatchesObject
  <2>2. ASSUME NEW c \in Callers, pc[c] # "idle"
        PROVE  pending = asked[c] /\ result[c].status = "none"
    BY <1>3, <2>2 DEF SerialInv, Serial
  <2>3. Serial'
    BY <1>1, <1>3, <2>2 DEF SerialInv, Serial
  <2>4. QED
    BY <2>1, <2>3
<1>4. QED
  BY <1>2, <1>3 DEF Dispatch, recvVars

LEMMA SerialOther ==
  ASSUME SerialInv,
         \/ \E t \in Tasks : TaskStep(t) \/ ExpireTask(t)
         \/ BusStep \/ MatchTask \/ UNCHANGED vars
  PROVE  Serial' /\ AnswerMatchesObject'
<1>1. UNCHANGED syncVars
  BY DEF TaskStep, Alloc, FillCallback, FillDeadline, SendTask, ExpireTask, BusStep, Answer,
     LoseRequest, LoseResponse, MatchTask, vars, syncVars
<1>2. UNCHANGED <<busy, pending, pc, asked, result, rx_buf>>
  BY <1>1 DEF syncVars
<1>3. QED
  BY <1>2 DEF SerialInv, Serial, AnswerMatchesObject

LEMMA SerialInvariance ==
  ASSUME ~Overlap
  PROVE  Spec => []SerialInv
<1>1. Init => Serial /\ AnswerMatchesObject
  BY DEF Init, Serial, AnswerMatchesObject
<1>2. Serial /\ AnswerMatchesObject /\ Inv /\ [Next]_vars => Serial' /\ AnswerMatchesObject'
  <2> SUFFICES ASSUME Serial, AnswerMatchesObject, Inv, [Next]_vars
               PROVE  Serial' /\ AnswerMatchesObject'
    OBVIOUS
  <2>1. SerialInv
    BY DEF SerialInv
  <2>2. ASSUME NEW c \in Callers, CallStep(c)
        PROVE  Serial' /\ AnswerMatchesObject'
    BY <2>1, <2>2, ~Overlap, SerialCall
  <2>3. CASE Dispatch
    BY <2>1, <2>3, SerialDispatch
  <2>4. ASSUME \/ \E t \in Tasks : TaskStep(t) \/ ExpireTask(t)
               \/ BusStep \/ MatchTask \/ UNCHANGED vars
        PROVE  Serial' /\ AnswerMatchesObject'
    BY <2>1, <2>4, SerialOther
  <2>5. QED
    BY <2>2, <2>3, <2>4 DEF Next, RecvStep
<1>3. Inv /\ Serial /\ AnswerMatchesObject => SerialInv
  BY DEF SerialInv
<1>4. QED
  BY <1>1, <1>2, <1>3, Invariance, PTL DEF Spec

\* When the callers of a node exclude each other, a call that returns success or
\* an abort was answered for the object it asked for, whatever was lost, delayed
\* or timed out before.
THEOREM SerialAnswers ==
  ASSUME ~Overlap
  PROVE  Spec => []AnswerMatchesObject
<1>1. SerialInv => AnswerMatchesObject
  BY DEF SerialInv
<1>2. QED
  BY <1>1, SerialInvariance, ~Overlap, PTL

-----------------------------------------------------------------------------
(* An answer is used once.                                                    *)

Answered(c) == result[c].status \in {"ok", "abort"}

\* The places where a request or its response can be, as identities: on the bus
\* either way, with the receive thread between its two locks, in the receive
\* buffer for the caller that waits, returned to a caller.
IdsOf(s) == {s[i].id : i \in DOMAIN s}
Requests == IdsOf(to_node)
Responses == IdsOf(to_host)
InHand == {id \in {held.id} : recv = "match"}
InBuffer == {id \in {rx_buf.id} : ~busy /\ \E c \in Callers : pc[c] # "idle"}
Given == {result[c].frame.id : c \in {d \in Callers : Answered(d)}}

\* No response is returned by two calls, nor by a call and then found by the
\* receive thread for an asynchronous task or a later call.
UsedOnce ==
  /\ \A c, d \in Callers :
       Answered(c) /\ Answered(d) /\ result[c].frame.id = result[d].frame.id => c = d
  /\ Given \cap (Requests \cup Responses \cup InHand \cup InBuffer) = {}

Circulating == Requests \cup Responses \cup InHand \cup InBuffer \cup Given

\* Every identity that is anywhere belongs to a request that was sent.
SentBefore ==
  /\ \A c \in Callers : pc[c] = "send" => <<c, calls[c]>> \notin Circulating
  /\ \A c \in Callers, k \in 1 .. MaxCalls : <<c, k>> \in Circulating => k <= calls[c]
  /\ \A t \in Tasks : <<t, 0>> \in Circulating => task_pc[t] = "done"

OneEach(s) == \A i, k \in DOMAIN s : s[i].id = s[k].id => i = k

\* Each is in one place.
OnePlace ==
  /\ OneEach(to_node) /\ OneEach(to_host)
  /\ Requests \cap (Responses \cup InHand \cup InBuffer) = {}
  /\ Responses \cap (InHand \cup InBuffer) = {}
  /\ InHand \cap InBuffer = {}
  /\ UsedOnce

AnswerInv == SerialInv /\ SentBefore /\ OnePlace

LEMMA AppendedIds ==
  ASSUME NEW s \in Seq(Frames), NEW f \in Frames, OneEach(s), f.id \notin IdsOf(s)
  PROVE  IdsOf(Append(s, f)) = IdsOf(s) \cup {f.id} /\ OneEach(Append(s, f))
<1> DEFINE a == Append(s, f)
<1>1. /\ Len(s) \in Nat /\ DOMAIN s = 1 .. Len(s) /\ DOMAIN a = 1 .. Len(s) + 1
      /\ \A i \in 1 .. Len(s) : a[i] = s[i]
      /\ a[Len(s) + 1] = f
  OBVIOUS
<1> HIDE DEF a
<1>2. IdsOf(a) = IdsOf(s) \cup {f.id}
  <2>1. ASSUME NEW id \in IdsOf(a) PROVE id \in IdsOf(s) \cup {f.id}
    <3>1. PICK i \in 1 .. Len(s) + 1 : id = a[i].id
      BY <1>1, <2>1 DEF IdsOf
    <3>2. CASE i = Len(s) + 1
      BY <1>1, <3>1, <3>2
    <3>3. CASE i \in 1 .. Len(s)
      BY <1>1, <3>1, <3>3 DEF IdsOf
    <3>4. QED
      BY <1>1, <3>2, <3>3
  <2>2. ASSUME NEW id \in IdsOf(s) PROVE id \in IdsOf(a)
    <3>1. PICK i \in 1 .. Len(s) : id = s[i].id
      BY <1>1, <2>2 DEF IdsOf
    <3>2. i \in DOMAIN a /\ id = a[i].id
      BY <1>1, <3>1
    <3>3. QED
      BY <3>2 DEF IdsOf
  <2>3. f.id \in IdsOf(a)
    <3>1. Len(s) + 1 \in DOMAIN a
      BY <1>1
    <3>2. QED
      BY <1>1, <3>1 DEF IdsOf
  <2>4. QED
    BY <2>1, <2>2, <2>3
<1>3. OneEach(a)
  <2> SUFFICES ASSUME NEW i \in 1 .. Len(s) + 1, NEW k \in 1 .. Len(s) + 1, a[i].id = a[k].id
               PROVE  i = k
    BY <1>1 DEF OneEach
  <2>1. ASSUME NEW j \in 1 .. Len(s) PROVE a[j].id # f.id
    BY <1>1, <2>1 DEF IdsOf
  <2>2. CASE i \in 1 .. Len(s) /\ k \in 1 .. Len(s)
    BY <1>1, <2>2 DEF OneEach
  <2>3. CASE i = Len(s) + 1 /\ k \in 1 .. Len(s)
    BY <1>1, <2>1, <2>3
  <2>4. CASE i \in 1 .. Len(s) /\ k = Len(s) + 1
    BY <1>1, <2>1, <2>4
  <2>5. QED
    BY <1>1, <2>2, <2>3, <2>4
<1>4. QED
  BY <1>2, <1>3 DEF a

LEMMA TakenIds ==
  ASSUME NEW s \in Seq(Frames), s # <<>>, OneEach(s)
  PROVE  /\ Head(s) \in Frames /\ Head(s).id \in IdsOf(s)
         /\ IdsOf(Tail(s)) = IdsOf(s) \ {Head(s).id} /\ OneEach(Tail(s))
<1> DEFINE n == Len(s)
           u == Tail(s)
<1>1. /\ n \in Nat \ {0} /\ DOMAIN s = 1 .. n /\ DOMAIN u = 1 .. n - 1
      /\ \A i \in 1 .. n - 1 : u[i] = s[i + 1]
      /\ Head(s) = s[1] /\ s[1] \in Frames
  OBVIOUS
<1> HIDE DEF n, u
<1>2. Head(s).id \in IdsOf(s)
  BY <1>1 DEF IdsOf
<1>3. ASSUME NEW id \in IdsOf(u) PROVE id \in IdsOf(s) /\ id # Head(s).id
  <2>1. PICK i \in 1 .. n - 1 : id = u[i].id
    BY <1>1, <1>3 DEF IdsOf
  <2>2. i + 1 \in 1 .. n /\ i + 1 # 1 /\ id = s[i + 1].id
    BY <1>1, <2>1
  <2>3. id \in IdsOf(s)
    BY <1>1, <2>2 DEF IdsOf
  <2>4. 1 \in DOMAIN s /\ i + 1 \in DOMAIN s
    BY <1>1, <2>2
  <2>5. id # Head(s).id
    BY <1>1, <2>2, <2>4 DEF OneEach
  <2>6. QED
    BY <2>3, <2>5
<1>4. ASSUME NEW id \in IdsOf(s), id # Head(s).id PROVE id \in IdsOf(u)
  <2>1. PICK i \in 1 .. n : id = s[i].id
    BY <1>1, <1>4 DEF IdsOf
  <2>2. i # 1
    BY <1>1, <1>4, <2>1
  <2>3. i - 1 \in 1 .. n - 1 /\ (i - 1) + 1 = i
    BY <1>1, <2>2
  <2>4. id = u[i - 1].id
    BY <1>1, <2>1, <2>3
  <2>5. QED
    BY <1>1, <2>3, <2>4 DEF IdsOf
<1>5. OneEach(u)
  <2> SUFFICES ASSUME NEW i \in 1 .. n - 1, NEW k \in 1 .. n - 1, u[i].id = u[k].id
               PROVE  i = k
    BY <1>1 DEF OneEach
  <2>1. i + 1 \in 1 .. n /\ k + 1 \in 1 .. n /\ s[i + 1].id = s[k + 1].id
    BY <1>1
  <2>2. i + 1 = k + 1
    BY <1>1, <2>1 DEF OneEach
  <2>3. QED
    BY <2>2
<1>6. IdsOf(u) = IdsOf(s) \ {Head(s).id}
  BY <1>3, <1>4
<1>7. QED
  BY <1>1, <1>2, <1>5, <1>6 DEF u

\* A step that sends nothing: every identity stays where it was, moves to one
\* place it was not in, or is gone.
LEMMA NothingNew ==
  ASSUME SentBefore, Circulating' \subseteq Circulating, calls' = calls,
         \A c \in Callers : pc'[c] = "send" => pc[c] = "send",
         \A t \in Tasks : task_pc[t] = "done" => task_pc'[t] = "done"
  PROVE  SentBefore'
BY DEF SentBefore

LEMMA FewerPlaces ==
  ASSUME OnePlace, OneEach(to_node)', OneEach(to_host)',
         Requests' \subseteq Requests, Responses' \subseteq Responses,
         InHand' \subseteq InHand, InBuffer' \subseteq InBuffer,
         \A c \in Callers : Answered(c)' => Answered(c) /\ result'[c] = result[c]
  PROVE  OnePlace' /\ Circulating' \subseteq Circulating
<1>1. Given' \subseteq Given
  BY DEF Given
<1>2. UsedOnce'
  BY <1>1 DEF OnePlace, UsedOnce
<1>3. QED
  BY <1>1, <1>2 DEF OnePlace, Circulating

LEMMA BeginAnswers ==
  ASSUME ~Overlap, AnswerInv, NEW c \in Callers, NEW o \in Objects, Begin(c, o)
  PROVE  SentBefore' /\ OnePlace'
<1>1. /\ UNCHANGED <<to_node, to_host, recv, held, task_pc>>
      /\ busy' = TRUE /\ calls' = [calls EXCEPT ![c] = @ + 1]
      /\ pc' = [pc EXCEPT ![c] = "send"]
      /\ result' = [result EXCEPT ![c] = [status |-> "none", frame |-> NoFrame]]
      /\ calls[c] < MaxCalls
  BY DEF Begin, recvVars, taskVars
<1>2. /\ calls \in [Callers -> 0 .. MaxCalls] /\ DOMAIN pc = Callers
      /\ DOMAIN result = Callers /\ MaxCalls \in Nat
  BY MaxCallsAssumption DEF AnswerInv, SerialInv, Inv, TypeOK
<1>3. /\ OneEach(to_node)' /\ OneEach(to_host)'
      /\ Requests' = Requests /\ Responses' = Responses
      /\ InHand' = InHand /\ InBuffer' = {}
  BY <1>1 DEF AnswerInv, OnePlace, OneEach, IdsOf, Requests, Responses, InHand, InBuffer
<1>4. \A d \in Callers : Answered(d)' => Answered(d) /\ result'[d] = result[d]
  BY <1>1, <1>2 DEF Answered
<1>5. OnePlace' /\ Circulating' \subseteq Circulating
  BY <1>3, <1>4, FewerPlaces DEF AnswerInv
<1>6. SentBefore'
  <2>1. \A d \in Callers : calls'[d] >= calls[d] /\ calls'[d] \in 0 .. MaxCalls
    BY <1>1, <1>2
  <2>2. ASSUME NEW d \in Callers, NEW k \in 1 .. MaxCalls, <<d, k>> \in Circulating'
        PROVE  k <= calls'[d] /\ k <= calls[d]
    BY <1>2, <1>5, <2>1, <2>2 DEF AnswerInv, SentBefore
  <2>3. ASSUME NEW d \in Callers, pc'[d] = "send"
        PROVE  <<d, calls'[d]>> \notin Circulating'
    <3>1. CASE d = c
      <4>1. calls'[c] = calls[c] + 1 /\ calls'[c] \in 1 .. MaxCalls
        BY <1>1, <1>2
      <4>2. QED
        BY <1>2, <2>2, <3>1, <4>1
    <3>2. CASE d # c
      <4>1. pc[d] = "send" /\ calls'[d] = calls[d]
        BY <1>1, <1>2, <2>3, <3>2
      <4>2. QED
        BY <1>5, <4>1 DEF AnswerInv, SentBefore
    <3>3. QED
      BY <3>1, <3>2
  <2>4. \A t \in Tasks : <<t, 0>> \in Circulating' => task_pc'[t] = "done"
    BY <1>1, <1>5 DEF AnswerInv, SentBefore
  <2>5. QED
    BY <2>2, <2>3, <2>4 DEF SentBefore
<1>7. QED
  BY <1>5, <1>6

\* One more request on the bus, with an identity that was not used.
LEMMA RequestSent ==
  ASSUME AnswerInv, NEW f \in Frames, f.id \notin Circulating,
         to_node' = Append(to_node, f),
         UNCHANGED <<busy, rx_buf, result, to_host, recv, held, calls>>,
         (\E c \in Callers : pc'[c] # "idle") => \E c \in Callers : pc[c] # "idle"
  PROVE  OnePlace' /\ Circulating' \subseteq Circulating \cup {f.id}
<1>1. to_node \in Seq(Frames) /\ OneEach(to_node)
  BY DEF AnswerInv, SerialInv, Inv, TypeOK, OnePlace
<1>2. f.id \notin IdsOf(to_node)
  BY DEF Circulating, Requests
<1>3. Requests' = Requests \cup {f.id} /\ OneEach(to_node)'
  <2>1. /\ IdsOf(Append(to_node, f)) = IdsOf(to_node) \cup {f.id}
        /\ OneEach(Append(to_node, f))
    BY <1>1, <1>2, AppendedIds
  <2>2. QED
    BY <2>1 DEF Requests, IdsOf, OneEach
<1>4. /\ Responses' = Responses /\ OneEach(to_host)' /\ InHand' = InHand
      /\ InBuffer' \subseteq InBuffer /\ Given' = Given
  BY DEF AnswerInv, OnePlace, Responses, IdsOf, OneEach, InHand, InBuffer, Given, Answered
<1>5. UsedOnce'
  BY <1>3, <1>4 DEF AnswerInv, OnePlace, UsedOnce, Circulating, Answered
<1>6. QED
  BY <1>3, <1>4, <1>5 DEF AnswerInv, OnePlace, Circulating

LEMMA SendAnswers ==
  ASSUME AnswerInv, NEW c \in Callers, Send(c)
  PROVE  SentBefore' /\ OnePlace'
<1> DEFINE f == [id |-> <<c, calls[c]>>, obj |-> asked[c], abort |-> FALSE]
<1>1. /\ pc[c] = "send" /\ pc' = [pc EXCEPT ![c] = "wait"]
      /\ to_node' = Append(to_node, f)
      /\ UNCHANGED <<busy, rx_buf, calls, result, to_host, recv, held, task_pc>>
  BY DEF Send, recvVars, taskVars
<1>2. /\ DOMAIN pc = Callers /\ calls \in [Callers -> 0 .. MaxCalls]
      /\ calls[c] \in 1 .. MaxCalls /\ asked[c] \in Objects
  BY <1>1 DEF AnswerInv, SerialInv, Inv, TypeOK, Begun
<1>3. f \in Frames /\ f.id = <<c, calls[c]>>
  <2>1. <<c, calls[c]>> \in Ids
    BY <1>2 DEF Ids
  <2>2. QED
    BY <1>2, <2>1, RequestIsFrame
<1>4. f.id \notin Circulating
  BY <1>1, <1>3 DEF AnswerInv, SentBefore
<1> HIDE DEF f
<1>5. OnePlace' /\ Circulating' \subseteq Circulating \cup {<<c, calls[c]>>}
  <2>1. \E d \in Callers : pc[d] # "idle"
    BY <1>1
  <2>2. QED
    BY <1>1, <1>3, <1>4, <2>1, RequestSent
<1>6. SentBefore'
  <2>1. ASSUME NEW d \in Callers, NEW k \in 1 .. MaxCalls, <<d, k>> \in Circulating'
        PROVE  k <= calls'[d]
    <3>1. CASE <<d, k>> \in Circulating
      BY <1>1, <3>1 DEF AnswerInv, SentBefore
    <3>2. CASE d = c /\ k = calls[c]
      BY <1>1, <1>2, <3>2
    <3>3. QED
      BY <1>5, <2>1, <3>1, <3>2
  <2>2. ASSUME NEW d \in Callers, pc'[d] = "send"
        PROVE  <<d, calls'[d]>> \notin Circulating'
    <3>1. d # c /\ pc[d] = "send"
      BY <1>1, <1>2, <2>2
    <3>2. <<d, calls[d]>> \notin Circulating
      BY <3>1 DEF AnswerInv, SentBefore
    <3>3. QED
      BY <1>1, <1>5, <3>1, <3>2
  <2>3. ASSUME NEW t \in Tasks, <<t, 0>> \in Circulating'
        PROVE  task_pc'[t] = "done"
    <3>1. <<t, 0>> # <<c, calls[c]>>
      BY <1>2
    <3>2. <<t, 0>> \in Circulating
      BY <1>5, <2>3, <3>1
    <3>3. QED
      BY <1>1, <3>2 DEF AnswerInv, SentBefore
  <2>4. QED
    BY <2>1, <2>2, <2>3 DEF SentBefore
<1>7. QED
  BY <1>5, <1>6

LEMMA SendTaskAnswers ==
  ASSUME AnswerInv, NEW t \in Tasks, SendTask(t)
  PROVE  SentBefore' /\ OnePlace'
<1> DEFINE f == [id |-> <<t, 0>>, obj |-> task_obj[t], abort |-> FALSE]
<1>1. /\ task_pc[t] = "send" /\ task_pc \in [Tasks -> {"new", "linked", "callback", "send", "done", "failed"}]
      /\ UNCHANGED <<busy, rx_buf, calls, pc, result, to_host, recv, held>>
  BY DEF SendTask, syncVars, recvVars, AnswerInv, SerialInv, Inv, TypeOK
<1>2. /\ f \in Frames /\ f.id = <<t, 0>>
  <2>1. <<t, 0>> \in Ids /\ task_obj[t] \in Objects
    BY <1>1 DEF Ids, AnswerInv, SerialInv, Inv, Begun
  <2>2. QED
    BY <2>1, RequestIsFrame
<1>3. CASE to_node' = Append(to_node, f) /\ task_pc' = [task_pc EXCEPT ![t] = "done"]
  <2>1. f.id \notin Circulating
    BY <1>1, <1>2 DEF AnswerInv, SentBefore
  <2> HIDE DEF f
  <2>2. OnePlace' /\ Circulating' \subseteq Circulating \cup {<<t, 0>>}
    BY <1>1, <1>2, <1>3, <2>1, RequestSent
  <2>3. ASSUME NEW c \in Callers, NEW k \in 1 .. MaxCalls, <<c, k>> \in Circulating'
        PROVE  <<c, k>> \in Circulating
    BY <2>2, <2>3
  <2>4. ASSUME NEW c \in Callers, pc'[c] = "send" PROVE <<c, calls'[c]>> \notin Circulating'
    <3>1. calls[c] \in 1 .. MaxCalls
      BY <1>1, <2>4 DEF AnswerInv, SerialInv, Inv, Begun
    <3>2. QED
      BY <1>1, <2>3, <2>4, <3>1 DEF AnswerInv, SentBefore
  <2>5. ASSUME NEW u \in Tasks, <<u, 0>> \in Circulating' PROVE task_pc'[u] = "done"
    <3>1. CASE u = t
      BY <1>1, <1>3, <3>1
    <3>2. CASE u # t
      BY <1>1, <1>3, <2>2, <2>5, <3>2 DEF AnswerInv, SentBefore
    <3>3. QED
      BY <3>1, <3>2
  <2>6. QED
    BY <1>1, <2>2, <2>3, <2>4, <2>5 DEF AnswerInv, SentBefore
<1>4. CASE to_node' = to_node /\ task_pc' = [task_pc EXCEPT ![t] = "failed"]
  <2>1. OnePlace' /\ Circulating' \subseteq Circulating
    BY <1>1, <1>4, FewerPlaces
    DEF AnswerInv, OnePlace, OneEach, IdsOf, Requests, Responses, InHand, InBuffer, Answered
  <2>2. \A u \in Tasks : task_pc[u] = "done" => task_pc'[u] = "done"
    BY <1>1, <1>4
  <2>3. QED
    BY <1>1, <2>1, <2>2, NothingNew DEF AnswerInv
<1>5. QED
  BY <1>3, <1>4 DEF SendTask

\* The node answers a request, or a frame is lost.
LEMMA BusAnswers ==
  ASSUME AnswerInv, BusStep
  PROVE  SentBefore' /\ OnePlace'
<1>1. UNCHANGED <<busy, rx_buf, calls, pc, result, recv, held, task_pc>>
  BY DEF BusStep, Answer, LoseRequest, LoseResponse, syncVars, recvVars, taskVars
<1>2. InHand' = InHand /\ InBuffer' = InBuffer /\ Given' = Given
      /\ \A c \in Callers : Answered(c)' => Answered(c) /\ result'[c] = result[c]
  BY <1>1 DEF InHand, InBuffer, Given, Answered
<1>3. to_node \in Seq(Frames) /\ to_host \in Seq(Frames) /\ OneEach(to_node) /\ OneEach(to_host)
  BY DEF AnswerInv, SerialInv, Inv, TypeOK, OnePlace
<1>4. OnePlace' /\ Circulating' \subseteq Circulating
  <2>1. CASE Answer
    <3>1. PICK b \in BOOLEAN : /\ to_node # <<>> /\ to_node' = Tail(to_node)
                               /\ to_host' = Append(to_host, [Head(to_node) EXCEPT !.abort = b])
      BY <2>1 DEF Answer
    <3> DEFINE f == [Head(to_node) EXCEPT !.abort = b]
    <3>2. /\ Head(to_node) \in Frames /\ Head(to_node).id \in Requests
          /\ Requests' = Requests \ {Head(to_node).id} /\ OneEach(to_node)'
      <4>1. /\ Head(to_node) \in Frames /\ Head(to_node).id \in IdsOf(to_node)
            /\ IdsOf(Tail(to_node)) = IdsOf(to_node) \ {Head(to_node).id}
            /\ OneEach(Tail(to_node))
        BY <1>3, <3>1, TakenIds
      <4>2. QED
        BY <3>1, <4>1 DEF Requests, IdsOf, OneEach
    <3>3. f \in Frames /\ f.id = Head(to_node).id
      BY <3>2 DEF Frames
    <3>4. f.id \notin Responses
      BY <3>2, <3>3 DEF AnswerInv, OnePlace
    <3> HIDE DEF f
    <3>5. Responses' = Responses \cup {f.id} /\ OneEach(to_host)'
      <4>1. /\ IdsOf(Append(to_host, f)) = IdsOf(to_host) \cup {f.id}
            /\ OneEach(Append(to_host, f))
        BY <1>3, <3>3, <3>4, AppendedIds DEF Responses
      <4>2. to_host' = Append(to_host, f)
        BY <3>1 DEF f
      <4>3. QED
        BY <4>1, <4>2 DEF Responses, IdsOf, OneEach
    <3>6. UsedOnce'
      BY <1>1, <1>2, <3>2, <3>3, <3>5 DEF AnswerInv, OnePlace, UsedOnce, Answered
    <3>7. Circulating' \subseteq Circulating
      BY <1>2, <3>2, <3>3, <3>5 DEF Circulating
    <3>8. QED
      BY <1>2, <3>2, <3>3, <3>5, <3>6, <3>7 DEF AnswerInv, OnePlace
  <2>2. CASE LoseRequest
    <3>1. IdsOf(Tail(to_node)) \subseteq IdsOf(to_node) /\ OneEach(Tail(to_node))
      BY <1>3, <2>2, TakenIds DEF LoseRequest
    <3>2. /\ Requests' \subseteq Requests /\ OneEach(to_node)'
          /\ Responses' = Responses /\ OneEach(to_host)'
      BY <1>3, <2>2, <3>1 DEF LoseRequest, Requests, Responses, IdsOf, OneEach
    <3>3. QED
      BY <1>2, <3>2, FewerPlaces DEF AnswerInv
  <2>3. CASE LoseResponse
    <3>1. IdsOf(Tail(to_host)) \subseteq IdsOf(to_host) /\ OneEach(Tail(to_host))
      BY <1>3, <2>3, TakenIds DEF LoseResponse
    <3>2. /\ Responses' \subseteq Responses /\ OneEach(to_host)'
          /\ Requests' = Requests /\ OneEach(to_node)'
      BY <1>3, <2>3, <3>1 DEF LoseResponse, Requests, Responses, IdsOf, OneEach
    <3>3. QED
      BY <1>2, <3>2, FewerPlaces DEF AnswerInv
  <2>4. QED
    BY <2>1, <2>2, <2>3 DEF BusStep
<1>5. SentBefore'
  BY <1>1, <1>4, NothingNew DEF AnswerInv
<1>6. QED
  BY <1>4, <1>5

\* A response leaves the bus: for the slot, for the asynchronous tasks, or dropped.
LEMMA DispatchAnswers ==
  ASSUME AnswerInv, Dispatch
  PROVE  SentBefore' /\ OnePlace'
<1> DEFINE f == Head(to_host)
<1>1. /\ recv = "idle" /\ to_host # <<>> /\ to_host' = Tail(to_host)
      /\ UNCHANGED <<pc, calls, result, to_node, task_pc>>
  BY DEF Dispatch, taskVars
<1>2. /\ f.id \in Responses /\ Responses' = Responses \ {f.id} /\ OneEach(to_host)'
  <2>1. /\ to_host \in Seq(Frames) /\ OneEach(to_host)
    BY DEF AnswerInv, SerialInv, Inv, TypeOK, OnePlace
  <2>2. /\ f.id \in IdsOf(to_host) /\ OneEach(Tail(to_host))
        /\ IdsOf(Tail(to_host)) = IdsOf(to_host) \ {f.id}
    BY <1>1, <2>1, TakenIds
  <2>3. QED
    BY <1>1, <2>2 DEF Responses, IdsOf, OneEach
<1>3. /\ Requests' = Requests /\ OneEach(to_node)' /\ Given' = Given /\ InHand = {}
  BY <1>1 DEF AnswerInv, OnePlace, Requests, IdsOf, OneEach, Given, Answered, InHand
<1>4. /\ InHand' \cup InBuffer' \subseteq InBuffer \cup {f.id}
      /\ InHand' \cap InBuffer' = {}
  <2>1. CASE ~busy /\ recv' = "match" /\ held' = f /\ UNCHANGED <<busy, rx_buf>>
    <3>1. InHand' = {f.id} /\ InBuffer' = InBuffer
      BY <1>1, <2>1 DEF InHand, InBuffer
    <3>2. f.id \notin InBuffer
      BY <1>2 DEF AnswerInv, OnePlace
    <3>3. QED
      BY <3>1, <3>2
  <2>2. CASE busy /\ UNCHANGED <<busy, rx_buf, recv, held>>
    BY <1>1, <2>2 DEF InHand, InBuffer
  <2>3. CASE busy /\ rx_buf' = f /\ busy' = FALSE /\ UNCHANGED <<recv, held>>
    <3>1. InHand' = {} /\ InBuffer' \subseteq {f.id}
      BY <1>1, <2>3 DEF InHand, InBuffer
    <3>2. QED
      BY <3>1
  <2>4. QED
    BY <2>1, <2>2, <2>3 DEF Dispatch, recvVars
<1> HIDE DEF f
<1>5. UsedOnce'
  BY <1>1, <1>2, <1>3, <1>4 DEF AnswerInv, OnePlace, UsedOnce, Answered
<1>6. OnePlace'
  BY <1>2, <1>3, <1>4, <1>5 DEF AnswerInv, OnePlace
<1>7. Circulating' \subseteq Circulating
  BY <1>2, <1>3, <1>4 DEF Circulating
<1>8. SentBefore'
  BY <1>1, <1>7, NothingNew DEF AnswerInv
<1>9. QED
  BY <1>6, <1>8

\* The caller takes the answer out of the buffer: no other call is there to take
\* it a second time.
LEMMA WakeAnswers ==
  ASSUME AnswerInv, NEW c \in Callers, Wake(c)
  PROVE  SentBefore' /\ OnePlace'
<1>1. /\ pc[c] = "wait" /\ ~busy /\ busy' = busy /\ pc' = [pc EXCEPT ![c] = "idle"]
      /\ \A d \in Callers \ {c} : result'[d] = result[d]
      /\ result'[c].frame = rx_buf
      /\ UNCHANGED <<rx_buf, calls, to_node, to_host, recv, held, task_pc>>
  BY DEF Wake, Return, recvVars, taskVars, AnswerInv, SerialInv, Inv, TypeOK
<1>2. DOMAIN pc = Callers /\ \A d \in Callers \ {c} : pc[d] = "idle"
  BY <1>1 DEF AnswerInv, SerialInv, Serial, Inv, TypeOK
<1>3. InBuffer = {rx_buf.id} /\ InBuffer' = {}
  BY <1>1, <1>2 DEF InBuffer
<1>4. /\ Requests' = Requests /\ OneEach(to_node)' /\ Responses' = Responses
      /\ OneEach(to_host)' /\ InHand' = InHand
  BY <1>1 DEF AnswerInv, OnePlace, Requests, Responses, IdsOf, OneEach, InHand
<1>5. \A d \in Callers \ {c} : Answered(d)' => Answered(d) /\ result[d].frame.id \in Given
  BY <1>1 DEF Answered, Given
<1>6. Given' \subseteq Given \cup {rx_buf.id}
  BY <1>1, <1>5 DEF Given
<1>7. UsedOnce'
  <2>1. ASSUME NEW d \in Callers, NEW e \in Callers, Answered(d)', Answered(e)',
               result'[d].frame.id = result'[e].frame.id
        PROVE  d = e
    <3>1. rx_buf.id \notin Given
      BY <1>3 DEF AnswerInv, OnePlace, UsedOnce
    <3>2. CASE d # c /\ e # c
      BY <1>1, <1>5, <2>1, <3>2 DEF AnswerInv, OnePlace, UsedOnce
    <3>3. CASE d = c \/ e = c
      BY <1>1, <1>5, <2>1, <3>1, <3>3
    <3>4. QED
      BY <3>2, <3>3
  <2>2. Given' \cap (Requests' \cup Responses' \cup InHand' \cup InBuffer') = {}
    BY <1>3, <1>4, <1>6 DEF AnswerInv, OnePlace, UsedOnce
  <2>3. QED
    BY <2>1, <2>2 DEF UsedOnce
<1>8. OnePlace'
  BY <1>3, <1>4, <1>7 DEF AnswerInv, OnePlace
<1>9. Circulating' \subseteq Circulating
  BY <1>3, <1>4, <1>6 DEF Circulating
<1>10. SentBefore'
  BY <1>1, <1>2, <1>9, NothingNew DEF AnswerInv
<1>11. QED
  BY <1>8, <1>10

\* The other steps take no answer.
LEMMA OtherAnswers ==
  ASSUME AnswerInv,
         \/ \E c \in Callers : SendFails(c) \/ Timeout(c)
         \/ \E t \in Tasks : \/ Alloc(t) \/ FillDeadline(t) \/ ExpireTask(t)
                             \/ \E o \in Objects : FillCallback(t, o)
         \/ MatchTask \/ UNCHANGED vars
  PROVE  SentBefore' /\ OnePlace'
<1>1. UNCHANGED <<to_node, to_host, rx_buf, calls>>
  BY DEF SendFails, Timeout, Alloc, FillDeadline, ExpireTask, FillCallback, MatchTask, vars,
     syncVars
<1>2. InHand' \subseteq InHand
  BY DEF SendFails, Timeout, Alloc, FillDeadline, ExpireTask, FillCallback, MatchTask, vars,
     recvVars, InHand
<1>3. /\ \A d \in Callers : pc'[d] # "idle" => pc'[d] = pc[d]
      /\ \A d \in Callers : Answered(d)' => Answered(d) /\ result'[d] = result[d]
      /\ InBuffer' \subseteq InBuffer
  <2>1. CASE UNCHANGED <<pc, result, busy>>
    BY <1>1, <2>1 DEF Answered, InBuffer
  <2>2. ASSUME NEW c \in Callers, SendFails(c) \/ Timeout(c)
        PROVE  /\ \A d \in Callers : pc'[d] # "idle" => pc'[d] = pc[d]
               /\ \A d \in Callers : Answered(d)' => Answered(d) /\ result'[d] = result[d]
               /\ InBuffer' \subseteq InBuffer
    <3>1. /\ pc[c] # "idle" /\ pc' = [pc EXCEPT ![c] = "idle"]
          /\ \A d \in Callers \ {c} : result'[d] = result[d]
          /\ result'[c].status \in {"error", "timeout"}
          /\ DOMAIN pc = Callers
      BY <2>2 DEF SendFails, Timeout, Return, AnswerInv, SerialInv, Inv, TypeOK
    <3>2. \A d \in Callers : pc'[d] = "idle"
      BY <3>1 DEF AnswerInv, SerialInv, Serial
    <3>3. InBuffer' = {}
      BY <3>2 DEF InBuffer
    <3>4. QED
      BY <3>1, <3>2, <3>3 DEF Answered
  <2>3. QED
    BY <2>1, <2>2
    DEF Alloc, FillDeadline, ExpireTask, FillCallback, MatchTask, vars, syncVars
<1>4. \A t \in Tasks : task_pc[t] = "done" => task_pc'[t] = "done"
  BY DEF SendFails, Timeout, Alloc, FillDeadline, ExpireTask, FillCallback, MatchTask, vars,
     taskVars, AnswerInv, SerialInv, Inv, TypeOK
<1>5. /\ Requests' = Requests /\ OneEach(to_node)' /\ Responses' = Responses
      /\ OneEach(to_host)'
  BY <1>1 DEF AnswerInv, OnePlace, Requests, Responses, IdsOf, OneEach
<1>6. OnePlace' /\ Circulating' \subseteq Circulating
  BY <1>2, <1>3, <1>5, FewerPlaces DEF AnswerInv
<1>7. SentBefore'
  BY <1>1, <1>3, <1>4, <1>6, NothingNew DEF AnswerInv
<1>8. QED
  BY <1>6, <1>7

\* When the callers of a node exclude each other, no response serves twice: two
\* calls never return the same one, although the buffer keeps it, and none is
\* returned and then matched with an asynchronous task.  Without the exclusion
\* two callers that wait are woken by one response and both return it.
THEOREM AnswersAreUsedOnce ==
  ASSUME ~Overlap
  PROVE  Spec => []UsedOnce
<1>1. Init => SentBefore /\ OnePlace
  <2> SUFFICES ASSUME Init PROVE SentBefore /\ OnePlace
    OBVIOUS
  <2>1. /\ Requests = {} /\ Responses = {} /\ InHand = {} /\ InBuffer = {} /\ Given = {}
        /\ OneEach(to_node) /\ OneEach(to_host) /\ \A c \in Callers : ~Answered(c)
    BY DEF Init, Requests, Responses, IdsOf, InHand, InBuffer, Given, Answered, OneEach
  <2>2. QED
    BY <2>1 DEF SentBefore, OnePlace, UsedOnce, Circulating
<1>2. SerialInv /\ SentBefore /\ OnePlace /\ [Next]_vars => SentBefore' /\ OnePlace'
  <2> SUFFICES ASSUME AnswerInv, [Next]_vars PROVE SentBefore' /\ OnePlace'
    BY DEF AnswerInv
  <2>1. ASSUME NEW c \in Callers, CallStep(c) PROVE SentBefore' /\ OnePlace'
    BY <2>1, ~Overlap, BeginAnswers, SendAnswers, WakeAnswers, OtherAnswers DEF CallStep
  <2>2. ASSUME NEW t \in Tasks, TaskStep(t) PROVE SentBefore' /\ OnePlace'
    BY <2>2, SendTaskAnswers, OtherAnswers DEF TaskStep
  <2>3. CASE BusStep
    BY <2>3, BusAnswers
  <2>4. CASE RecvStep
    BY <2>4, DispatchAnswers, OtherAnswers DEF RecvStep
  <2>5. CASE UNCHANGED vars
    BY <2>5, OtherAnswers
  <2>6. QED
    BY <2>1, <2>2, <2>3, <2>4, <2>5 DEF Next
<1>3. Spec => []SerialInv
  BY ~Overlap, SerialInvariance
<1>4. OnePlace => UsedOnce
  BY DEF OnePlace
<1>5. QED
  BY <1>1, <1>2, <1>3, <1>4, PTL DEF Spec

=============================================================================
