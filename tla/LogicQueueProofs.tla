-------------------------- MODULE LogicQueueProofs --------------------------
(***************************************************************************)
(* Proofs, for any number of producers, any MAX_RECVQUE and any number of  *)
(* posts, of the safety properties of LogicQueue and of the safety part of *)
(* its refinement of BoundedFifo.                                          *)
(***************************************************************************)
EXTENDS LogicQueue, TLAPS

(* Between the mutex and the condition variable: what the worker knows of  *)
(* the queue where it is.  It holds the mutex in "park", so the queue is   *)
(* still empty there, and a push into an empty queue wakes it when it is   *)
(* asleep.                                                                 *)
WorkerKnows ==
  /\ at \in {"park", "asleep", "exited"} => que = <<>>
  /\ at = "pop" => que # <<>> \/ stop
  /\ at = "handle" <=> node # None
  /\ at = "exited" => stop
  /\ stop => main # "serving" /\ main # "ended"

(* The numbers of one producer's messages increase along the queue, lie    *)
(* behind those handled and do not exceed those posted.                    *)
Numbered ==
  /\ \A p \in Producer : handled[p] <= posted[p]
  /\ \A i \in 1 .. Len(que) :
       handled[que[i].from] < que[i].n /\ que[i].n <= posted[que[i].from]
  /\ \A i, j \in 1 .. Len(que) :
       i < j /\ que[i].from = que[j].from => que[i].n < que[j].n
  /\ node # None =>
       /\ handled[node.from] < node.n /\ node.n <= posted[node.from]
       /\ \A i \in 1 .. Len(que) : que[i].from = node.from => node.n < que[i].n

IInv == TypeOK /\ WorkerKnows /\ Numbered

-----------------------------------------------------------------------------
LEMMA NoneIsNoMsg == None \notin Msg
  BY QueueAssumption DEF Msg

LEMMA AppendFacts ==
  ASSUME NEW S, NEW q \in Seq(S), NEW e \in S
  PROVE  /\ Append(q, e) \in Seq(S) /\ Append(q, e) # <<>>
         /\ Len(Append(q, e)) = Len(q) + 1 /\ Len(q) \in Nat
         /\ Append(q, e)[Len(q) + 1] = e
         /\ \A i \in 1 .. Len(q) : Append(q, e)[i] = q[i]
  OBVIOUS

LEMMA TailFacts ==
  ASSUME NEW S, NEW q \in Seq(S), q # <<>>
  PROVE  /\ 1 \in 1 .. Len(q) /\ Head(q) = q[1] /\ q[1] \in S
         /\ Tail(q) \in Seq(S)
         /\ \A i \in 1 .. Len(Tail(q)) :
              i \in Nat /\ i + 1 \in 1 .. Len(q) /\ Tail(q)[i] = q[i + 1]
  OBVIOUS

(* What posting does to the queue and to the worker.                       *)
LEMMA PostMoves ==
  ASSUME TypeOK, NEW p \in Producer, PostMsgToQue(p),
         NEW m, m = [from |-> p, n |-> posted[p] + 1]
  PROVE  /\ m \in Msg /\ posted' = [posted EXCEPT ![p] = posted[p] + 1]
         /\ posted' \in [Producer -> 0 .. MaxPosts]
         /\ UNCHANGED <<stop, main, node, handled>>
         /\ main = "serving" /\ ~WorkerHoldsMutex
         /\ \/ UNCHANGED <<que, at>>
            \/ /\ que' = Append(que, m) /\ Len(que) < MaxRecvQue
               /\ at' = IF que = <<>> THEN Woken ELSE at
<1>1. posted' = [posted EXCEPT ![p] = posted[p] + 1] /\ posted[p] + 1 \in 1 .. MaxPosts
  BY QueueAssumption DEF PostMsgToQue, TypeOK
<1>2. posted' \in [Producer -> 0 .. MaxPosts] /\ posted'[p] = posted[p] + 1
  BY <1>1, QueueAssumption DEF TypeOK
<1>3. m \in Msg
  BY <1>1 DEF Msg
<1>4. Len(Append(que, m)) = 1 <=> que = <<>>
  <2>1. Len(que) = 0 <=> que = <<>>
    BY DEF TypeOK
  <2> QED
    BY <1>3, <2>1, AppendFacts DEF TypeOK
<1>5. CASE Len(que) >= MaxRecvQue
  BY <1>1, <1>2, <1>3, <1>5 DEF PostMsgToQue, workerVars
<1>6. CASE ~(Len(que) >= MaxRecvQue)
  <2>1. que' = Append(que, m) /\ at' = IF Len(que') = 1 THEN Woken ELSE at
    BY <1>2, <1>6 DEF PostMsgToQue
  <2>2. Len(que) < MaxRecvQue
    BY <1>6, QueueAssumption DEF TypeOK
  <2> QED
    BY <1>1, <1>2, <1>3, <1>4, <2>1, <2>2 DEF PostMsgToQue, workerVars
<1> QED
  BY <1>5, <1>6

(* Taking the front.                                                       *)
LEMMA PopMoves ==
  ASSUME TypeOK, WorkerKnows, Pop
  PROVE  \/ stop /\ que = <<>> /\ at' = "exited" /\ UNCHANGED <<que, node>>
         \/ /\ que # <<>> /\ at' = "handle"
            /\ node' = Head(que) /\ node' \in Msg
            /\ que' = Tail(que) /\ que' \in Seq(Msg)
<1>1. CASE que = <<>>
  BY <1>1 DEF Pop, WorkerKnows
<1>2. CASE que # <<>>
  <2>1. node' = Head(que) /\ que' = Tail(que) /\ at' = "handle"
    BY <1>2 DEF Pop
  <2> QED
    BY <1>2, <2>1, TailFacts DEF TypeOK
<1> QED
  BY <1>1, <1>2

-----------------------------------------------------------------------------
LEMMA TypeStep ==
  ASSUME IInv, [Next]_vars
  PROVE  TypeOK'
<1> USE DEF IInv, TypeOK, producerVars, workerVars
<1>1. CASE UNCHANGED vars
  BY <1>1 DEF vars
<1>2. ASSUME NEW p \in Producer, PostMsgToQue(p) PROVE TypeOK'
  <2> DEFINE m == [from |-> p, n |-> posted[p] + 1]
  <2>1. que' \in Seq(Msg)
    <3>1. m \in Msg /\ (que' = que \/ que' = Append(que, m))
      BY <1>2, PostMoves
    <3> HIDE DEF m
    <3>2. CASE que' = Append(que, m)
      BY <3>1, <3>2, AppendFacts
    <3> QED
      BY <3>1, <3>2
  <2>2. at' \in {at, Woken}
    BY <1>2, PostMoves
  <2> QED
    BY <1>2, <2>1, <2>2, PostMoves DEF Woken
<1>3. CASE Lock           BY <1>3 DEF Lock
<1>4. CASE TestPredicate  BY <1>4 DEF TestPredicate
<1>5. CASE Park           BY <1>5 DEF Park
<1>6. CASE SpuriousWake   BY <1>6 DEF SpuriousWake
<1>7. CASE Pop            BY <1>7, PopMoves DEF Pop
<1>8. CASE Handle         BY <1>8, NoneIsNoMsg DEF Handle, WorkerKnows, Msg
<1>9. CASE PoolStopped    BY <1>9 DEF PoolStopped
<1>10. CASE SetStop       BY <1>10 DEF SetStop
<1>11. CASE NotifyStop    BY <1>11 DEF NotifyStop, Woken
<1>12. CASE Join          BY <1>12 DEF Join
<1> QED
  BY <1>1, <1>2, <1>3, <1>4, <1>5, <1>6, <1>7, <1>8, <1>9, <1>10, <1>11, <1>12
  DEF Next, DealMsg, Destructor

LEMMA WorkerKnowsStep ==
  ASSUME IInv, [Next]_vars
  PROVE  WorkerKnows'
<1> USE DEF IInv, WorkerKnows, producerVars, workerVars
<1>1. CASE UNCHANGED vars
  BY <1>1 DEF vars
<1>2. ASSUME NEW p \in Producer, PostMsgToQue(p) PROVE WorkerKnows'
  <2>1. UNCHANGED <<stop, main, node>> /\ main = "serving" /\ ~WorkerHoldsMutex
    BY <1>2, PostMoves
  <2>2. \/ UNCHANGED <<que, at>>
        \/ que' # <<>> /\ at' = IF que = <<>> THEN Woken ELSE at
    <3> DEFINE m == [from |-> p, n |-> posted[p] + 1]
    <3>1. \/ UNCHANGED <<que, at>>
          \/ /\ m \in Msg /\ que' = Append(que, m)
             /\ at' = IF que = <<>> THEN Woken ELSE at
      BY <1>2, PostMoves
    <3> HIDE DEF m
    <3> QED
      BY <3>1, AppendFacts DEF TypeOK
  <2> QED
    BY <2>1, <2>2 DEF Woken, WorkerHoldsMutex
<1>3. CASE Lock           BY <1>3 DEF Lock
<1>4. CASE TestPredicate  BY <1>4 DEF TestPredicate
<1>5. CASE Park           BY <1>5 DEF Park
<1>6. CASE SpuriousWake   BY <1>6 DEF SpuriousWake
<1>7. CASE Pop            BY <1>7, PopMoves, NoneIsNoMsg DEF Pop
<1>8. CASE Handle         BY <1>8 DEF Handle
<1>9. CASE PoolStopped    BY <1>9 DEF PoolStopped
<1>10. CASE SetStop       BY <1>10 DEF SetStop
<1>11. CASE NotifyStop    BY <1>11 DEF NotifyStop, Woken
<1>12. CASE Join          BY <1>12 DEF Join
<1> QED
  BY <1>1, <1>2, <1>3, <1>4, <1>5, <1>6, <1>7, <1>8, <1>9, <1>10, <1>11, <1>12
  DEF Next, DealMsg, Destructor

LEMMA NumberedStep ==
  ASSUME IInv, [Next]_vars
  PROVE  Numbered'
<1>1. CASE UNCHANGED <<que, node, posted, handled>>
  BY <1>1 DEF IInv, Numbered
<1>2. \A i \in 1 .. Len(que) :
        que[i] \in Msg /\ que[i].from \in Producer /\ que[i].n \in Nat
  <2>1. \A i \in 1 .. Len(que) : que[i] \in Msg
    BY DEF IInv, TypeOK
  <2>2. \A m \in Msg : m.from \in Producer /\ m.n \in Nat
    BY DEF Msg
  <2> QED
    BY <2>1, <2>2
<1>3. Len(que) \in Nat
  BY DEF IInv, TypeOK
<1>4. \A p \in Producer : posted[p] \in Nat /\ handled[p] \in Nat
  BY QueueAssumption DEF IInv, TypeOK
<1>5. node # None => node \in Msg /\ node.from \in Producer /\ node.n \in Nat
  BY DEF IInv, TypeOK, Msg
<1> USE DEF IInv, Numbered
<1>6. ASSUME NEW p \in Producer, PostMsgToQue(p) PROVE Numbered'
  <2> DEFINE m == [from |-> p, n |-> posted[p] + 1]
  <2>1. /\ m \in Msg /\ UNCHANGED <<node, handled>>
        /\ posted' = [posted EXCEPT ![p] = posted[p] + 1]
        /\ que' = que \/ que' = Append(que, m)
    BY <1>6, PostMoves
  <2>2. \A q \in Producer : posted[q] <= posted'[q] /\ posted'[q] \in Nat
    BY <1>4, <2>1 DEF TypeOK
  <2>3. CASE que' = que
    BY <1>2, <1>4, <1>5, <2>1, <2>2, <2>3
  <2>4. CASE que' = Append(que, m)
    <3>1. /\ Len(que') = Len(que) + 1 /\ que'[Len(que) + 1] = m
          /\ \A i \in 1 .. Len(que) : que'[i] = que[i]
      <4> HIDE DEF m
      <4> QED
        BY <2>1, <2>4, AppendFacts DEF TypeOK
    <3>2. posted'[p] = posted[p] + 1 /\ m.from = p /\ m.n = posted[p] + 1
      BY <2>1 DEF TypeOK
    <3>3. \A i \in 1 .. Len(que') : i \in 1 .. Len(que) \/ i = Len(que) + 1
      BY <1>3, <3>1
    <3> HIDE DEF m
    <3>4. \A q \in Producer : handled'[q] <= posted'[q]
      BY <1>4, <2>1, <2>2
    <3>5. ASSUME NEW i \in 1 .. Len(que')
          PROVE  /\ handled'[que'[i].from] < que'[i].n
                 /\ que'[i].n <= posted'[que'[i].from]
      <4>1. CASE i \in 1 .. Len(que)
        BY <1>2, <1>4, <2>1, <2>2, <3>1, <4>1
      <4>2. CASE i = Len(que) + 1
        BY <1>4, <2>1, <3>1, <3>2, <4>2
      <4> QED
        BY <3>3, <4>1, <4>2
    <3>6. ASSUME NEW i \in 1 .. Len(que'), NEW j \in 1 .. Len(que'),
                 i < j, que'[i].from = que'[j].from
          PROVE  que'[i].n < que'[j].n
      <4>1. i \in 1 .. Len(que)
        BY <1>3, <3>1, <3>6
      <4>2. CASE j \in 1 .. Len(que)
        BY <3>1, <3>6, <4>1, <4>2
      <4>3. CASE j = Len(que) + 1
        <5>1. que[i].from = p /\ que[i].n <= posted[p]
          BY <3>1, <3>2, <3>6, <4>1, <4>3
        <5> QED
          BY <1>2, <1>4, <3>1, <3>2, <4>1, <4>3, <5>1
      <4> QED
        BY <3>3, <4>2, <4>3
    <3>7. ASSUME node' # None
          PROVE  /\ handled'[node'.from] < node'.n /\ node'.n <= posted'[node'.from]
                 /\ \A i \in 1 .. Len(que') :
                      que'[i].from = node'.from => node'.n < que'[i].n
      <4>1. handled'[node'.from] < node'.n /\ node'.n <= posted'[node'.from]
        BY <1>4, <1>5, <2>1, <2>2, <3>7
      <4>2. ASSUME NEW i \in 1 .. Len(que'), que'[i].from = node'.from
            PROVE  node'.n < que'[i].n
        <5>1. CASE i \in 1 .. Len(que)
          BY <2>1, <3>1, <3>7, <4>2, <5>1
        <5>2. CASE i = Len(que) + 1
          BY <1>4, <1>5, <2>1, <3>1, <3>2, <3>7, <4>2, <5>2
        <5> QED
          BY <3>3, <5>1, <5>2
      <4> QED
        BY <4>1, <4>2
    <3> QED
      BY <3>4, <3>5, <3>6, <3>7
  <2> QED
    BY <2>1, <2>3, <2>4
<1>7. CASE Pop
  <2>1. UNCHANGED <<posted, handled>>
    BY <1>7 DEF Pop, producerVars
  <2>2. CASE UNCHANGED <<que, node>>
    BY <2>1, <2>2
  <2>3. CASE que # <<>> /\ node' = Head(que) /\ que' = Tail(que)
    <3>1. 1 \in 1 .. Len(que) /\ node' = que[1]
      BY <2>3, TailFacts DEF TypeOK
    <3>2. \A i \in 1 .. Len(que') :
            i \in Nat /\ i + 1 \in 1 .. Len(que) /\ que'[i] = que[i + 1] /\ 1 < i + 1
      BY <2>3, TailFacts DEF TypeOK
    <3>3. \A i \in 1 .. Len(que') :
            handled'[que'[i].from] < que'[i].n /\ que'[i].n <= posted'[que'[i].from]
      BY <2>1, <3>2
    <3>4. ASSUME NEW i \in 1 .. Len(que'), NEW j \in 1 .. Len(que'),
                 i < j, que'[i].from = que'[j].from
          PROVE  que'[i].n < que'[j].n
      <4>1. i + 1 < j + 1
        BY <3>2, <3>4
      <4> QED
        BY <3>2, <3>4, <4>1
    <3>5. \A i \in 1 .. Len(que') : que'[i].from = node'.from => node'.n < que'[i].n
      BY <3>1, <3>2
    <3> QED
      BY <2>1, <3>1, <3>3, <3>4, <3>5
  <2> QED
    BY <1>7, <2>2, <2>3, PopMoves
<1>8. CASE Handle
  <2>1. node # None
    BY <1>8 DEF Handle, WorkerKnows
  <2>2. /\ handled' = [handled EXCEPT ![node.from] = node.n]
        /\ node' = None /\ UNCHANGED <<que, posted>>
    BY <1>8 DEF Handle, producerVars
  <2> QED
    BY <1>2, <1>4, <1>5, <2>1, <2>2 DEF TypeOK
<1> QED
  BY <1>1, <1>6, <1>7, <1>8
  DEF Next, DealMsg, Destructor, vars, producerVars, workerVars, Lock, TestPredicate,
      Park, SpuriousWake, PoolStopped, SetStop, NotifyStop, Join

LEMMA IInvHolds == Spec => []IInv
<1>1. Init => IInv
  <2> SUFFICES ASSUME Init PROVE IInv
    OBVIOUS
  <2>1. 0 \in 0 .. MaxPosts /\ <<>> \in Seq(Msg)
    BY QueueAssumption
  <2>2. TypeOK
    BY <2>1 DEF Init, TypeOK
  <2>3. WorkerKnows
    BY DEF Init, WorkerKnows
  <2>4. Numbered
    BY DEF Init, Numbered
  <2> QED
    BY <2>2, <2>3, <2>4 DEF IInv
<1>2. IInv /\ [Next]_vars => IInv'
  BY TypeStep, WorkerKnowsStep, NumberedStep DEF IInv
<1> QED
  BY <1>1, <1>2, PTL DEF Spec

-----------------------------------------------------------------------------
(* The theorems.                                                           *)

(* The variables of the queue keep their types.                            *)
THEOREM TypeCorrect == Spec => []TypeOK
<1>1. IInv => TypeOK
  BY DEF IInv
<1> QED
  BY <1>1, IInvHolds, PTL

(* Notifying only on the transition from empty to one message never leaves *)
(* the worker asleep over a message, for any number of io threads.         *)
THEOREM NoLostWakeup == Spec => []SleepsOnlyWhenEmpty
<1>1. IInv => SleepsOnlyWhenEmpty
  BY DEF IInv, WorkerKnows, SleepsOnlyWhenEmpty
<1> QED
  BY <1>1, IInvHolds, PTL

(* The worker pops from a queue that has a front, also after a spurious    *)
(* wake-up and also while the destructor sets _b_stop without the mutex.   *)
THEOREM FrontExists == Spec => []PopsSomething
<1>1. IInv => PopsSomething
  BY DEF IInv, WorkerKnows, PopsSomething
<1> QED
  BY <1>1, IInvHolds, PTL

(* When the worker has left its loop nothing accepted is unhandled.        *)
THEOREM WorkerDrains == Spec => []DrainedAtExit
<1>1. IInv => DrainedAtExit
  BY DEF IInv, WorkerKnows, DrainedAtExit
<1> QED
  BY <1>1, IInvHolds, PTL

(* The requests of a connection are handled in order, none twice.          *)
THEOREM OrderOfHandling == Spec => HandledInOrder
<1>1. IInv /\ [Next]_vars =>
        [\A p \in Producer : handled'[p] # handled[p] => handled'[p] > handled[p]]_vars
  <2> SUFFICES ASSUME IInv, Next, NEW p \in Producer, handled'[p] # handled[p]
               PROVE  handled'[p] > handled[p]
    OBVIOUS
  <2>1. Handle
    BY PostMoves DEF IInv, Next, DealMsg, Destructor, workerVars, Lock, TestPredicate,
       Park, SpuriousWake, Pop, PoolStopped, SetStop, NotifyStop, Join
  <2>2. node \in Msg /\ node # None
    BY <2>1, NoneIsNoMsg DEF Handle, IInv, WorkerKnows, TypeOK
  <2> QED
    BY <2>1, <2>2 DEF Handle, IInv, Numbered, TypeOK, Msg
<1> QED
  BY <1>1, IInvHolds, PTL DEF Spec, HandledInOrder

(* Every step of the queue is a step of the bounded queue BoundedFifo or   *)
(* leaves it alone: the mutex and the condition variable are invisible.    *)
THEOREM StepsOfFifo == Spec => Fifo!FifoInit /\ [][Fifo!FifoNext]_(Fifo!fifoVars)
<1>1. Init => Fifo!FifoInit
  BY DEF Init, Fifo!FifoInit
<1>2. IInv /\ [Next]_vars => [Fifo!FifoNext]_(Fifo!fifoVars)
  <2> SUFFICES ASSUME IInv, [Next]_vars, ~UNCHANGED <<que, node>> PROVE Fifo!FifoNext
    BY DEF Fifo!fifoVars
  <2>1. ASSUME NEW p \in Producer, PostMsgToQue(p) PROVE \E m \in Msg : Fifo!Accept(m)
    BY <2>1, PostMoves DEF IInv, Fifo!Accept
  <2>2. CASE Pop
    <3>1. at = "pop" /\ at # "handle"
      BY <2>2 DEF Pop
    <3> QED
      BY <2>2, <3>1, PopMoves DEF IInv, WorkerKnows, Fifo!Take, Fifo!FifoNext
  <2>3. CASE Handle
    BY <2>3 DEF Handle, IInv, WorkerKnows, Fifo!Finish, Fifo!FifoNext
  <2> QED
    BY <2>1, <2>2, <2>3
    DEF Fifo!FifoNext, Next, DealMsg, Destructor, vars, producerVars, workerVars, Lock,
        TestPredicate, Park, SpuriousWake, PoolStopped, SetStop, NotifyStop, Join
<1> QED
  BY <1>1, <1>2, IInvHolds, PTL DEF Spec
=============================================================================
