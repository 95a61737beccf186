------------------------ MODULE ServerShutdownProofs ------------------------
(***************************************************************************)
(* Proofs, for a pool of any size and any number of connections and        *)
(* requests, of the safety properties of ServerShutdown.                   *)
(***************************************************************************)
EXTENDS ServerShutdown, TLAPS

AllRunning == \A i \in Ctx : guard[i] /\ thread[i] = "running"
AllJoined  == \A i \in Ctx : thread[i] = "joined"

(* Before the server has been constructed there is nothing that could post *)
(* a request.                                                              *)
NothingYet ==
  server = "none" =>
    /\ accept = "none" /\ worker = "none" /\ db = "none"
    /\ \A i \in Ctx : conns[i] = 0

(* What has been done when the main thread is where it is.                 *)
MainKnows ==
  /\ main \in {"listen", "serving"} => AllRunning
  /\ main \in {"serving", "joining", "stopped"} => server = "alive"
  /\ main \in {"listen", "failed"} => server = "none"
  /\ main = "serving" => accept # "none"
  /\ main = "joining" => \A i \in Ctx : i < joining => thread[i] = "joined"
  /\ main = "stopped" => AllJoined
  /\ main \notin {"serving", "joining", "stopped"} => server # "alive"

(* What has been destroyed had no thread left to use it.                   *)
DestroyedLast ==
  /\ server = "destroyed" => AllJoined
  /\ db = "destroyed" => server = "destroyed"

(* LogicSystem is told to stop when its turn to be destroyed has come, and *)
(* its worker leaves when it has been told and has nothing left to handle. *)
LogicLast ==
  /\ worker = "none" => backlog = 0
  /\ worker = "ended" => stop /\ backlog = 0
  /\ stop => main \in {"notify", "joinLogic"} \/ LogicDestroyed
  /\ LogicDestroyed => worker \in {"none", "ended"}

IInv ==
  /\ TypeOK /\ NothingYet /\ MainKnows /\ NoOrphanedSession /\ DestroyedLast /\ LogicLast

-----------------------------------------------------------------------------
LEMMA NextIsContext == ASSUME NEW i \in Ctx PROVE NextIOService(i) \in Ctx
  BY PoolAssumption DEF NextIOService, Ctx

LEMMA FirstIsContext == Acceptor \in Ctx
  BY PoolAssumption DEF Acceptor, Ctx

LEMMA InitHolds == Init => IInv
<1> SUFFICES ASSUME Init PROVE IInv
  OBVIOUS
<1>1. TypeOK
  <2>1. 0 \in 0 .. PoolSize /\ Acceptor \in Ctx
    BY FirstIsContext, PoolAssumption
  <2>2. guard \in [Ctx -> BOOLEAN] /\ stop \in BOOLEAN
    BY DEF Init
  <2>3. thread \in [Ctx -> {"running", "ended", "joined"}] /\ conns \in [Ctx -> Nat]
    BY DEF Init
  <2> QED
    BY <2>1, <2>2, <2>3 DEF Init, TypeOK
<1>2. NothingYet /\ MainKnows /\ NoOrphanedSession /\ DestroyedLast
  BY DEF Init, NothingYet, MainKnows, NoOrphanedSession, DestroyedLast, AllRunning
<1>3. LogicLast
  BY DEF Init, LogicLast, LogicDestroyed
<1> QED
  BY <1>1, <1>2, <1>3 DEF IInv

LEMMA TypeStep ==
  ASSUME IInv, [Next]_vars
  PROVE  TypeOK'
<1> USE DEF IInv, TypeOK, poolVars, acceptVars, logicVars
<1>1. CASE UNCHANGED vars
  BY <1>1 DEF vars
<1>2. CASE Listen
  BY <1>2, NextIsContext DEF Listen, StartAccept
<1>3. CASE Signal
  <2>1. 0 \in 0 .. PoolSize
    BY PoolAssumption
  <2> QED
    BY <1>3, <2>1 DEF Signal, Stop
<1>4. CASE Join
  BY <1>4, PoolAssumption DEF Join, Ctx
<1>5. CASE MainReturns
  BY <1>5 DEF MainReturns
<1>6. CASE DestroyDatabase
  BY <1>6 DEF DestroyDatabase
<1>7. CASE StopLogic \/ NotifyStop \/ JoinLogic
  BY <1>7 DEF StopLogic, NotifyStop, JoinLogic, Woken
<1>8. CASE DestroyPool
  <2>1. 0 \in 0 .. PoolSize
    BY PoolAssumption
  <2> QED
    BY <1>8, <2>1 DEF DestroyPool, Stop
<1>9. CASE Worker \/ SpuriousWake
  BY <1>9 DEF Worker, WorkerTakes, WorkerHandles, WorkerExits, WorkerParks, WorkerSleeps,
     SpuriousWake
<1>10. CASE AcceptCompletes
  BY <1>10 DEF AcceptCompletes
<1>11. CASE HandleAccept
  BY <1>11, NextIsContext DEF HandleAccept, StartAccept
<1>12. ASSUME NEW i \in Ctx, SessionEnds(i) PROVE TypeOK'
  BY <1>12 DEF SessionEnds
<1>13. ASSUME NEW i \in Ctx, Post(i) PROVE TypeOK'
  BY <1>13 DEF Post, Woken
<1>14. ASSUME NEW i \in Ctx, RunReturns(i) PROVE TypeOK'
  BY <1>14 DEF RunReturns
<1> QED
  BY <1>1, <1>2, <1>3, <1>4, <1>5, <1>6, <1>7, <1>8, <1>9, <1>10, <1>11, <1>12, <1>13, <1>14
  DEF Next, MainThread

(* Nobody joins a thread but Stop, and only one that has left run().       *)
LEMMA JoinedStays ==
  ASSUME IInv, [Next]_vars, NEW i \in Ctx, thread[i] = "joined"
  PROVE  thread'[i] = "joined"
<1> USE DEF IInv, TypeOK, poolVars, acceptVars, logicVars
<1>1. CASE Join
  BY <1>1 DEF Join
<1>2. ASSUME NEW j \in Ctx, RunReturns(j) PROVE thread'[i] = "joined"
  BY <1>2 DEF RunReturns
<1>3. CASE UNCHANGED thread
  BY <1>3
<1> QED
  BY <1>1, <1>2, <1>3
  DEF Next, vars, MainThread, Worker, Listen, Signal, Stop, MainReturns, DestroyDatabase,
      StopLogic, NotifyStop, JoinLogic, DestroyPool, WorkerTakes, WorkerHandles, WorkerExits,
      WorkerParks, WorkerSleeps, SpuriousWake, AcceptCompletes, HandleAccept, SessionEnds, Post

LEMMA NothingYetStep ==
  ASSUME IInv, [Next]_vars
  PROVE  NothingYet'
<1> USE DEF IInv, TypeOK, NothingYet, poolVars, acceptVars, logicVars
<1>1. CASE Listen
  BY <1>1 DEF Listen
<1>2. CASE HandleAccept
  BY <1>2 DEF HandleAccept
<1>3. CASE AcceptCompletes
  BY <1>3 DEF AcceptCompletes
<1>4. CASE Worker \/ SpuriousWake
  BY <1>4 DEF Worker, WorkerTakes, WorkerHandles, WorkerExits, WorkerParks, WorkerSleeps,
     SpuriousWake
<1>5. ASSUME NEW i \in Ctx, SessionEnds(i) \/ Post(i) PROVE NothingYet'
  BY <1>5 DEF SessionEnds, Post
<1>6. CASE MainReturns
  BY <1>6 DEF MainReturns
<1>7. CASE DestroyDatabase
  BY <1>7 DEF DestroyDatabase
<1>8. CASE UNCHANGED <<server, acceptVars, worker, db>>
  BY <1>8
<1>9. CASE NotifyStop
  BY <1>9 DEF NotifyStop, Woken
<1> QED
  BY <1>1, <1>2, <1>3, <1>4, <1>5, <1>6, <1>7, <1>8, <1>9
  DEF Next, vars, MainThread, Signal, Stop, Join, StopLogic, JoinLogic, DestroyPool, RunReturns

(* A context that gets a session has its thread in run(), and does not     *)
(* leave it before the session has ended.                                  *)
LEMMA OrphanStep ==
  ASSUME IInv, [Next]_vars
  PROVE  NoOrphanedSession'
<1> USE DEF IInv, TypeOK, NoOrphanedSession, poolVars, acceptVars, logicVars
<1>1. CASE HandleAccept
  BY <1>1 DEF HandleAccept
<1>2. ASSUME NEW i \in Ctx, SessionEnds(i) PROVE NoOrphanedSession'
  BY <1>2 DEF SessionEnds
<1>3. ASSUME NEW i \in Ctx, RunReturns(i) PROVE NoOrphanedSession'
  <2>1. conns[i] = 0
    BY <1>3 DEF RunReturns, HasWork
  <2> QED
    BY <1>3, <2>1 DEF RunReturns
<1>4. CASE Join
  BY <1>4, PoolAssumption DEF Join, Ctx
<1>5. CASE UNCHANGED <<thread, conns>>
  BY <1>5
<1> QED
  BY <1>1, <1>2, <1>3, <1>4, <1>5
  DEF Next, vars, MainThread, Worker, Listen, Signal, Stop, MainReturns, DestroyDatabase,
      StopLogic, NotifyStop, JoinLogic, DestroyPool, WorkerTakes, WorkerHandles, WorkerExits,
      WorkerParks, WorkerSleeps, SpuriousWake, AcceptCompletes, Post

LEMMA MainStep ==
  ASSUME IInv, [Next]_vars
  PROVE  MainKnows'
<1> USE DEF IInv, TypeOK, MainKnows, poolVars, acceptVars, logicVars
<1>1. CASE Listen
  BY <1>1 DEF Listen, StartAccept, AllRunning
<1>2. CASE Signal
  BY <1>2, PoolAssumption DEF Signal, Stop, AllRunning, Ctx
<1>3. CASE Join
  <2>1. CASE joining < PoolSize /\ thread[joining] = "ended"
            /\ thread' = [thread EXCEPT ![joining] = "joined"]
            /\ joining' = joining + 1 /\ UNCHANGED main
    <3>1. \A i \in Ctx : i < joining' => i < joining \/ i = joining
      BY <2>1, PoolAssumption DEF Ctx
    <3>2. main \in {"joining", "poolJoining"} /\ UNCHANGED <<server, accept>>
      BY <1>3 DEF Join
    <3>3. main = "joining" => \A i \in Ctx : i < joining' => thread'[i] = "joined"
      BY <2>1, <3>1
    <3> QED
      BY <2>1, <3>2, <3>3
  <2>2. CASE joining = PoolSize /\ UNCHANGED <<thread, joining>>
            /\ main' = IF main = "joining" THEN "stopped" ELSE "exited"
    <3>1. \A i \in Ctx : i < joining
      BY <2>2, PoolAssumption DEF Ctx
    <3>2. main \in {"joining", "poolJoining"} /\ UNCHANGED <<server, accept>>
      BY <1>3 DEF Join
    <3> QED
      BY <2>2, <3>1, <3>2 DEF AllJoined
  <2> QED
    BY <1>3, <2>1, <2>2 DEF Join
<1>4. CASE MainReturns
  BY <1>4 DEF MainReturns
<1>5. CASE DestroyDatabase \/ StopLogic \/ NotifyStop \/ JoinLogic
  BY <1>5 DEF DestroyDatabase, StopLogic, NotifyStop, JoinLogic
<1>6. CASE DestroyPool
  BY <1>6 DEF DestroyPool, Stop
<1>7. CASE HandleAccept
  BY <1>7 DEF HandleAccept, StartAccept, AllRunning, AllJoined
<1>8. CASE AcceptCompletes
  BY <1>8 DEF AcceptCompletes, AllRunning, AllJoined
<1>9. ASSUME NEW i \in Ctx, RunReturns(i) PROVE MainKnows'
  <2>1. ~guard[i] /\ UNCHANGED <<main, joining, server, guard, accept>>
    BY <1>9 DEF RunReturns, HasWork
  <2>2. main \notin {"listen", "serving"}
    BY <2>1 DEF AllRunning
  <2>3. \A j \in Ctx : thread[j] = "joined" => thread'[j] = "joined"
    BY <1>9 DEF RunReturns
  <2> QED
    BY <2>1, <2>2, <2>3 DEF AllJoined
<1>10. CASE UNCHANGED <<main, joining, server, guard, thread, accept>>
  BY <1>10 DEF AllRunning, AllJoined
<1> QED
  BY <1>1, <1>2, <1>3, <1>4, <1>5, <1>6, <1>7, <1>8, <1>9, <1>10
  DEF Next, vars, MainThread, Worker, WorkerTakes, WorkerHandles, WorkerExits, WorkerParks,
      WorkerSleeps, SpuriousWake, SessionEnds, Post

LEMMA DestroyedStep ==
  ASSUME IInv, [Next]_vars
  PROVE  DestroyedLast'
<1> USE DEF IInv, TypeOK, DestroyedLast, poolVars, acceptVars, logicVars
<1>1. AllJoined => AllJoined'
  BY JoinedStays DEF AllJoined
<1>2. CASE Listen
  BY <1>2, <1>1 DEF Listen, MainKnows
<1>3. CASE MainReturns
  BY <1>3, <1>1 DEF MainReturns, MainKnows
<1>4. CASE DestroyDatabase
  <2>1. db = "open" => server = "destroyed"
    BY <1>4 DEF DestroyDatabase, NothingYet, MainKnows
  <2> QED
    BY <1>4, <1>1, <2>1 DEF DestroyDatabase
<1>5. CASE WorkerHandles
  BY <1>5, <1>1 DEF WorkerHandles
<1>6. CASE UNCHANGED <<server, db>>
  BY <1>6, <1>1
<1> QED
  BY <1>2, <1>3, <1>4, <1>5, <1>6
  DEF Next, vars, MainThread, Worker, Signal, Stop, Join, StopLogic, NotifyStop, JoinLogic,
      DestroyPool, WorkerTakes, WorkerExits, WorkerParks, WorkerSleeps, SpuriousWake,
      AcceptCompletes, HandleAccept, SessionEnds, Post, RunReturns

(* When there is no CServer (any more), no session is left.                *)
LEMMA NobodyPosts ==
  ASSUME IInv, server # "alive", NEW i \in Ctx
  PROVE  conns[i] = 0
<1>1. CASE server = "none"
  BY <1>1 DEF IInv, NothingYet
<1>2. CASE server = "destroyed"
  BY <1>2 DEF IInv, DestroyedLast, AllJoined, NoOrphanedSession
<1> QED
  BY <1>1, <1>2 DEF IInv, TypeOK

LEMMA LogicStep ==
  ASSUME IInv, [Next]_vars
  PROVE  LogicLast'
<1> USE DEF IInv, TypeOK, LogicLast, LogicDestroyed, poolVars, acceptVars, logicVars
<1>1. ASSUME NEW i \in Ctx, Post(i) PROVE LogicLast'
  <2>1. server = "alive"
    BY <1>1, NobodyPosts DEF Post
  <2>2. ~stop /\ ~LogicDestroyed
    BY <2>1 DEF MainKnows
  <2> QED
    BY <1>1, <2>2 DEF Post, Woken
<1>2. CASE Worker \/ SpuriousWake
  BY <1>2 DEF Worker, WorkerTakes, WorkerHandles, WorkerExits, WorkerParks, WorkerSleeps,
     SpuriousWake
<1>3. CASE StopLogic \/ NotifyStop \/ JoinLogic
  BY <1>3 DEF StopLogic, NotifyStop, JoinLogic, Woken
<1>4. CASE DestroyPool
  BY <1>4 DEF DestroyPool, Stop
<1>5. CASE Listen \/ Signal \/ Join \/ MainReturns \/ DestroyDatabase
  BY <1>5 DEF Listen, Signal, Stop, Join, MainReturns, DestroyDatabase
<1>6. CASE UNCHANGED <<main, backlog, worker, stop>>
  BY <1>6
<1> QED
  BY <1>1, <1>2, <1>3, <1>4, <1>5, <1>6
  DEF Next, vars, MainThread, AcceptCompletes, HandleAccept, SessionEnds, RunReturns

LEMMA StepHolds == IInv /\ [Next]_vars => IInv'
  BY TypeStep, NothingYetStep, MainStep, OrphanStep, DestroyedStep, LogicStep DEF IInv

LEMMA Invariance == Spec => []IInv
  BY InitHolds, StepHolds, PTL DEF Spec

-----------------------------------------------------------------------------
(* The variables of the process keep their types; in particular the index  *)
(* that GetIOService computes is one of the pool's.                        *)
THEOREM TypeCorrect == Spec => []TypeOK
<1>1. IInv => TypeOK
  BY DEF IInv
<1> QED
  BY Invariance, <1>1, PTL

(* The server listens as long as it serves: StartAccept at the end of      *)
(* HandleAccept always finds both threads it needs.                        *)
THEOREM ListensAlways == Spec => []AlwaysListening
<1>1. IInv => AlwaysListening
  BY FirstIsContext DEF IInv, TypeOK, MainKnows, AllRunning, AlwaysListening
<1> QED
  BY Invariance, <1>1, PTL

(* A session is never left without the thread that runs its coroutine.     *)
THEOREM NoSessionOrphaned == Spec => []NoOrphanedSession
<1>1. IInv => NoOrphanedSession
  BY DEF IInv
<1> QED
  BY Invariance, <1>1, PTL

(* CServer, DBManager and UserManager are destroyed after the last thread  *)
(* of the pool, which accepts, clears and closes sessions, has been        *)
(* joined; LogicSystem after its last session, request and worker.         *)
THEOREM DestroyedAfterThreads == Spec => []ThreadsEndFirst
<1>1. IInv => ThreadsEndFirst
  <2> SUFFICES ASSUME IInv PROVE ThreadsEndFirst
    OBVIOUS
  <2>1. server = "destroyed" \/ db = "destroyed" => \A i \in Ctx : thread[i] # "running"
    BY DEF IInv, DestroyedLast, AllJoined
  <2>2. LogicDestroyed => \A i \in Ctx : conns[i] = 0
    BY NobodyPosts DEF IInv, MainKnows, LogicDestroyed
  <2>3. LogicDestroyed => worker \in {"none", "ended"} /\ backlog = 0
    BY DEF IInv, LogicLast
  <2> QED
    BY <2>1, <2>2, <2>3 DEF ThreadsEndFirst
<1> QED
  BY Invariance, <1>1, PTL
=============================================================================
