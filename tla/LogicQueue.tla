----------------------------- MODULE LogicQueue -----------------------------
(***************************************************************************)
(* LogicSystem's message queue: the io threads post to it                  *)
(* (PostMsgToQue), one worker thread serves it (DealMsg), and the          *)
(* destructor stops the worker and joins it.                               *)
(*                                                                         *)
(* _mutex is held from one step to the next only by the worker, between    *)
(* the test of its wait condition and what follows from it; the posting    *)
(* threads do everything under it in one step.  The destructor does not    *)
(* take _mutex at all.                                                     *)
(***************************************************************************)
EXTENDS Naturals, Sequences

CONSTANTS
  Producer,     \* the sessions, which post from their io threads
  None,         \* no message
  MaxRecvQue,   \* MAX_RECVQUE
  MaxPosts      \* bound: messages posted by one producer

ASSUME QueueAssumption == /\ MaxRecvQue \in Nat \ {0}
                          /\ MaxPosts \in Nat
                          /\ None \notin [from : Producer, n : Nat]

Msg == [from : Producer, n : 1 .. MaxPosts]

VARIABLES
  que,     \* LogicSystem::_msg_que
  at,      \* where the worker is in DealMsg
  node,    \* msg_node
  stop,    \* LogicSystem::_b_stop
  main,    \* the main thread: serving, or how far it is in ~LogicSystem
  posted,  \* how many messages a producer has posted, for numbering them
  handled  \* the number of the last message of a producer that was handled

producerVars == posted
workerVars   == <<node, handled>>
vars == <<que, at, stop, main, producerVars, workerVars>>

TypeOK ==
  /\ que \in Seq(Msg)
  /\ at \in {"lock", "test", "park", "asleep", "pop", "handle", "exited"}
  /\ node \in Msg \cup {None}
  /\ stop \in BOOLEAN
  /\ main \in {"serving", "ended", "flagged", "joining", "joined"}
  /\ posted \in [Producer -> 0 .. MaxPosts]
  /\ handled \in [Producer -> 0 .. MaxPosts]

Init ==
  /\ que = <<>>
  /\ at = "lock"
  /\ node = None
  /\ stop = FALSE
  /\ main = "serving"
  /\ posted = [p \in Producer |-> 0]
  /\ handled = [p \in Producer |-> 0]

-----------------------------------------------------------------------------
WorkerHoldsMutex == at \in {"test", "park", "pop"}

(* _consume.notify_one(): wakes the worker if it sleeps, else does nothing.*)
Woken == IF at = "asleep" THEN "lock" ELSE at

\* Faulty variant: the worker is notified when a second message comes.
PostNotifiesLate(p) ==
  /\ main = "serving" /\ ~WorkerHoldsMutex
  /\ posted[p] < MaxPosts
  /\ posted' = [posted EXCEPT ![p] = @ + 1]
  /\ IF Len(que) >= MaxRecvQue
     THEN UNCHANGED <<que, at>>
     ELSE /\ que' = Append(que, [from |-> p, n |-> posted'[p]])
          /\ at' = IF Len(que') = 2 THEN Woken ELSE at
  /\ UNCHANGED <<stop, main, workerVars>>

\* Faulty variant: a full queue takes one more.
PostOverfills(p) ==
  /\ main = "serving" /\ ~WorkerHoldsMutex
  /\ posted[p] < MaxPosts
  /\ posted' = [posted EXCEPT ![p] = @ + 1]
  /\ IF Len(que) > MaxRecvQue
     THEN UNCHANGED <<que, at>>
     ELSE /\ que' = Append(que, [from |-> p, n |-> posted'[p]])
          /\ at' = IF Len(que') = 1 THEN Woken ELSE at
  /\ UNCHANGED <<stop, main, workerVars>>

(* PostMsgToQue: drop when full, push, notify if the queue was empty.  The *)
(* io threads are gone once main has stopped the pool.                     *)
PostMsgToQue(p) ==
  /\ main = "serving" /\ ~WorkerHoldsMutex
  /\ posted[p] < MaxPosts
  /\ posted' = [posted EXCEPT ![p] = @ + 1]
  /\ IF Len(que) >= MaxRecvQue
     THEN UNCHANGED <<que, at>>
     ELSE /\ que' = Append(que, [from |-> p, n |-> posted'[p]])
          /\ at' = IF Len(que') = 1 THEN Woken ELSE at
  /\ UNCHANGED <<stop, main, workerVars>>

-----------------------------------------------------------------------------
(* DealMsg.                                                                *)

Lock ==
  /\ at = "lock"
  /\ at' = "test"
  /\ UNCHANGED <<que, stop, main, producerVars, workerVars>>

(* The predicate of _consume.wait, evaluated under the mutex.              *)
TestPredicate ==
  /\ at = "test"
  /\ at' = IF que # <<>> \/ stop THEN "pop" ELSE "park"
  /\ UNCHANGED <<que, stop, main, producerVars, workerVars>>

(* wait() gives the mutex back and goes to sleep in one step.              *)
Park ==
  /\ at = "park"
  /\ at' = "asleep"
  /\ UNCHANGED <<que, stop, main, producerVars, workerVars>>

(* A condition variable may wake up without being notified.                *)
SpuriousWake ==
  /\ at = "asleep"
  /\ at' = "lock"
  /\ UNCHANGED <<que, stop, main, producerVars, workerVars>>

\* Faulty variant: the worker leaves as soon as it is told to stop.
PopUnlessStopped ==
  /\ at = "pop"
  /\ IF stop
     THEN at' = "exited" /\ UNCHANGED <<que, node>>
     ELSE /\ node' = Head(que)
          /\ que' = Tail(que)
          /\ at' = "handle"
  /\ UNCHANGED <<stop, main, handled, producerVars>>

(* Leave the loop, or take the front and give the mutex back.              *)
Pop ==
  /\ at = "pop"
  /\ IF stop /\ que = <<>>
     THEN at' = "exited" /\ UNCHANGED <<que, node>>
     ELSE /\ node' = Head(que)
          /\ que' = Tail(que)
          /\ at' = "handle"
  /\ UNCHANGED <<stop, main, handled, producerVars>>

(* The callback, or none for an unregistered id, outside the mutex; what   *)
(* it throws is caught.                                                    *)
Handle ==
  /\ at = "handle"
  /\ handled' = [handled EXCEPT ![node.from] = node.n]
  /\ node' = None
  /\ at' = "lock"
  /\ UNCHANGED <<que, stop, main, producerVars>>

DealMsg == Lock \/ TestPredicate \/ Park \/ Pop \/ Handle

-----------------------------------------------------------------------------
(* The main thread.                                                        *)

(* The pool is stopped: its threads have been joined.                      *)
PoolStopped ==
  /\ main = "serving"
  /\ main' = "ended"
  /\ UNCHANGED <<que, at, stop, producerVars, workerVars>>

(* ~LogicSystem: _b_stop = true, without the mutex,                        *)
SetStop ==
  /\ main = "ended"
  /\ stop' = TRUE
  /\ main' = "flagged"
  /\ UNCHANGED <<que, at, producerVars, workerVars>>

\* Faulty variant: nobody is notified.
NotifyNobody ==
  /\ main = "flagged"
  /\ main' = "joining"
  /\ UNCHANGED <<que, at, stop, producerVars, workerVars>>

(* then _consume.notify_one(),                                             *)
NotifyStop ==
  /\ main = "flagged"
  /\ at' = Woken
  /\ main' = "joining"
  /\ UNCHANGED <<que, stop, producerVars, workerVars>>

(* then _worker_thread.join().                                             *)
Join ==
  /\ main = "joining" /\ at = "exited"
  /\ main' = "joined"
  /\ UNCHANGED <<que, at, stop, producerVars, workerVars>>

Destructor == SetStop \/ NotifyStop \/ Join

Next ==
  \/ \E p \in Producer : PostMsgToQue(p)
  \/ DealMsg \/ SpuriousWake
  \/ PoolStopped \/ Destructor

Spec == Init /\ [][Next]_vars

(***************************************************************************)
(* The worker and the destructor run.  Nobody is obliged to post, the      *)
(* server need not end, and no wake-up comes by itself.                    *)
(***************************************************************************)
FairSpec == Spec /\ WF_vars(DealMsg) /\ WF_vars(Destructor)

-----------------------------------------------------------------------------
(* Safety.                                                                 *)

(* The worker never sleeps over a message: notifying only when the queue   *)
(* becomes nonempty is enough, since one worker takes everything.          *)
SleepsOnlyWhenEmpty == at = "asleep" => que = <<>>

(* Front and pop never see an empty queue.                                 *)
PopsSomething == at = "pop" => que # <<>> \/ stop

(* ~LogicSystem lets the worker finish: when it has left its loop, every   *)
(* accepted message has been handled and none can be posted any more.      *)
DrainedAtExit == at = "exited" => que = <<>> /\ node = None /\ main # "serving"

(* The requests of one connection are handled in the order they were read, *)
(* and none of them twice, whatever was dropped in between.                *)
HandledInOrder ==
  [][\A p \in Producer : handled'[p] # handled[p] => handled'[p] > handled[p]]_vars

-----------------------------------------------------------------------------
(* Refinement and liveness.                                                *)

Fifo == INSTANCE BoundedFifo WITH buf <- que, cur <- node, Capacity <- MaxRecvQue

(* The queue, its mutex and its condition variable implement the bounded   *)
(* first-in-first-out queue, including that the worker keeps taking.       *)
ImplementsFifo == Fifo!FifoSpec

(* The destructor returns, with the queue drained, unless its stop comes   *)
(* just between the worker's test of the predicate and its going to sleep. *)
JoinReturnsUnlessParked == main = "flagged" /\ at # "park" ~> main = "joined"

(* ~LogicSystem "signals the worker thread to stop and joins it": the join *)
(* returns.                                                                *)
JoinReturns == main = "joining" ~> main = "joined"
=============================================================================
