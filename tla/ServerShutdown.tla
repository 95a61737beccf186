--------------------------- MODULE ServerShutdown ---------------------------
(***************************************************************************)
(* The server as a process: main, the threads of AsioIOServicePool, the    *)
(* acceptor of CServer and the pending accept it always has, the worker of *)
(* LogicSystem, and how all of them end: a signal, the pool's Stop, the    *)
(* destructor of CServer and those of the static objects.                  *)
(*                                                                         *)
(* The thread of an io_context stays in run() while the context has work:  *)
(* its work guard, open sessions, and the accept, which counts for the     *)
(* acceptor's context and, through bind_executor, for the context of the   *)
(* session that is to be accepted.                                         *)
(***************************************************************************)
EXTENDS Naturals

CONSTANTS
  PoolSize,  \* hardware_concurrency()
  MaxConns,  \* bound: connections accepted
  MaxPosts   \* bound: requests read

ASSUME PoolAssumption == PoolSize \in Nat \ {0} /\ MaxConns \in Nat /\ MaxPosts \in Nat

Ctx == 0 .. PoolSize - 1

Acceptor == 0    \* the context of CServer::_acceptor, the first one given out

VARIABLES
  main,     \* where the main thread is
  joining,  \* the next thread Stop joins
  guard,    \* AsioIOServicePool::_works
  thread,   \* the threads of the pool: in run(), ended, or joined
  accept,   \* the accept: none yet, pending, or completed with its handler queued
  target,   \* the context of the session that is to be accepted
  conns,    \* how many sessions are open on each context
  server,   \* main's CServer: none yet, alive, or destroyed
  backlog,  \* how many requests are in LogicSystem's queue
  worker,   \* LogicSystem's thread: not constructed, about to test its wait
            \* condition, holding the mutex after it was false, asleep, busy, ended
  stop,     \* LogicSystem::_b_stop
  db,       \* DBManager and UserManager: not constructed, open, or destroyed
  made,     \* number of connections accepted
  posts     \* number of requests read

poolVars   == <<guard, thread>>
acceptVars == <<accept, target, conns, made>>
logicVars  == <<backlog, worker, stop, db, posts>>
vars == <<main, joining, server, poolVars, acceptVars, logicVars>>

TypeOK ==
  /\ main \in {"listen", "serving", "joining", "stopped", "failed", "statics",
               "logic", "notify", "joinLogic", "pool", "poolJoining", "exited"}
  /\ joining \in 0 .. PoolSize
  /\ guard \in [Ctx -> BOOLEAN]
  /\ thread \in [Ctx -> {"running", "ended", "joined"}]
  /\ accept \in {"none", "pending", "queued"}
  /\ target \in Ctx
  /\ conns \in [Ctx -> Nat]
  /\ server \in {"none", "alive", "destroyed"}
  /\ backlog \in Nat
  /\ worker \in {"none", "idle", "parking", "asleep", "busy", "ended"}
  /\ stop \in BOOLEAN
  /\ db \in {"none", "open", "destroyed"}
  /\ made \in Nat /\ posts \in Nat

(* The pool has been constructed: guards held and threads running.         *)
Init ==
  /\ main = "listen" /\ joining = 0
  /\ guard = [i \in Ctx |-> TRUE]
  /\ thread = [i \in Ctx |-> "running"]
  /\ accept = "none" /\ target = Acceptor
  /\ conns = [i \in Ctx |-> 0]
  /\ server = "none"
  /\ backlog = 0 /\ worker = "none" /\ stop = FALSE /\ db = "none"
  /\ made = 0 /\ posts = 0

-----------------------------------------------------------------------------
(* Accepting.                                                              *)

(* GetIOService: round robin.                                              *)
NextIOService(i) == (i + 1) % PoolSize

(* The next session goes to the next context; the accept is pending.       *)
StartAccept ==
  /\ target' = NextIOService(target)
  /\ accept' = "pending"

(* The constructor of CServer: the port may be in use, which it throws.    *)
Listen ==
  /\ main = "listen"
  /\ \/ /\ main' = "serving" /\ server' = "alive"
        /\ StartAccept
     \/ /\ main' = "failed"
        /\ UNCHANGED <<server, accept, target>>
  /\ UNCHANGED <<joining, poolVars, conns, made, logicVars>>

(* A client connects, or the accept fails: the acceptor's thread queues    *)
(* the handler on the context of the new session.                          *)
AcceptCompletes ==
  /\ accept = "pending" /\ thread[Acceptor] = "running"
  /\ accept' = "queued"
  /\ UNCHANGED <<main, joining, server, poolVars, target, conns, made, logicVars>>

\* Faulty variant: a failed accept is not followed by another.
HandleAcceptGivesUp ==
  /\ accept = "queued" /\ thread[target] = "running"
  /\ \/ /\ made < MaxConns
        /\ made' = made + 1
        /\ conns' = [conns EXCEPT ![target] = @ + 1]
        /\ StartAccept
     \/ accept' = "none" /\ UNCHANGED <<made, conns, target>>
  /\ UNCHANGED <<main, joining, server, poolVars, logicVars>>

(* HandleAccept, on the new session's thread: start the session, or report *)
(* the error, and accept the next one.                                     *)
HandleAccept ==
  /\ accept = "queued" /\ thread[target] = "running"
  /\ \/ /\ made < MaxConns
        /\ made' = made + 1
        /\ conns' = [conns EXCEPT ![target] = @ + 1]
     \/ UNCHANGED <<made, conns>>
  /\ StartAccept
  /\ UNCHANGED <<main, joining, server, poolVars, logicVars>>

-----------------------------------------------------------------------------
(* Sessions and requests.                                                  *)

(* A session is closed and forgotten.                                      *)
SessionEnds(i) ==
  /\ thread[i] = "running" /\ conns[i] > 0
  /\ conns' = [conns EXCEPT ![i] = @ - 1]
  /\ UNCHANGED <<main, joining, server, poolVars, accept, target, made, logicVars>>

(* _consume.notify_one().                                                  *)
Woken == IF worker = "asleep" THEN "idle" ELSE worker

(* A session posts a request, under the mutex.  The first one constructs   *)
(* LogicSystem; one that finds the queue empty wakes the worker.           *)
Post(i) ==
  /\ thread[i] = "running" /\ conns[i] > 0 /\ posts < MaxPosts
  /\ worker # "parking"
  /\ posts' = posts + 1
  /\ backlog' = backlog + 1
  /\ worker' = IF worker = "none" THEN "idle" ELSE IF backlog = 0 THEN Woken ELSE worker
  /\ UNCHANGED <<main, joining, server, poolVars, acceptVars, stop, db>>

(* DealMsg: LogicQueue has it in more detail.  The wait condition holds,   *)
(* and the worker takes a request, or leaves since it is told to stop ...  *)
WorkerTakes ==
  /\ worker = "idle" /\ backlog > 0
  /\ worker' = "busy" /\ backlog' = backlog - 1
  /\ UNCHANGED <<main, joining, server, poolVars, acceptVars, stop, db, posts>>

WorkerExits ==
  /\ worker = "idle" /\ backlog = 0 /\ stop
  /\ worker' = "ended"
  /\ UNCHANGED <<main, joining, server, poolVars, acceptVars, backlog, stop, db, posts>>

(* ... or it does not hold, and the worker goes to sleep: the mutex keeps  *)
(* a request, but not the stop, from coming in between.                    *)
WorkerParks ==
  /\ worker = "idle" /\ backlog = 0 /\ ~stop
  /\ worker' = "parking"
  /\ UNCHANGED <<main, joining, server, poolVars, acceptVars, backlog, stop, db, posts>>

WorkerSleeps ==
  /\ worker = "parking"
  /\ worker' = "asleep"
  /\ UNCHANGED <<main, joining, server, poolVars, acceptVars, backlog, stop, db, posts>>

SpuriousWake ==
  /\ worker = "asleep"
  /\ worker' = "idle"
  /\ UNCHANGED <<main, joining, server, poolVars, acceptVars, backlog, stop, db, posts>>

(* A handler; one that needs the database or the map of users constructs   *)
(* them when it is the first.                                              *)
WorkerHandles ==
  /\ worker = "busy"
  /\ worker' = "idle"
  /\ db' \in {db, IF db = "none" THEN "open" ELSE db}
  /\ UNCHANGED <<main, joining, server, poolVars, acceptVars, backlog, stop, posts>>

-----------------------------------------------------------------------------
(* The threads of the pool.                                                *)

HasWork(i) ==
  \/ guard[i]
  \/ conns[i] > 0
  \/ accept = "pending" /\ i \in {Acceptor, target}
  \/ accept = "queued" /\ i = target

(* _ioService[i].run() returns.                                            *)
RunReturns(i) ==
  /\ thread[i] = "running" /\ ~HasWork(i)
  /\ thread' = [thread EXCEPT ![i] = "ended"]
  /\ UNCHANGED <<main, joining, server, guard, acceptVars, logicVars>>

-----------------------------------------------------------------------------
(* Ending.                                                                 *)

\* Faulty variant: the guards are kept.
StopKeepsGuards(next) ==
  /\ joining' = 0
  /\ main' = next
  /\ UNCHANGED <<server, poolVars, acceptVars, logicVars>>

(* AsioIOServicePool::Stop: reset the guards, then join every thread.      *)
Stop(next) ==
  /\ guard' = [i \in Ctx |-> FALSE]
  /\ joining' = 0
  /\ main' = next
  /\ UNCHANGED <<server, thread, acceptVars, logicVars>>

(* The signal handler, on the main thread: io_context.stop(), pool.Stop(). *)
Signal == main = "serving" /\ Stop("joining")

\* Faulty variant: all threads but the last are joined.
JoinButOne ==
  /\ main \in {"joining", "poolJoining"}
  /\ \/ /\ joining < PoolSize - 1 /\ thread[joining] = "ended"
        /\ thread' = [thread EXCEPT ![joining] = "joined"]
        /\ joining' = joining + 1
        /\ UNCHANGED main
     \/ /\ joining = PoolSize - 1
        /\ main' = IF main = "joining" THEN "stopped" ELSE "exited"
        /\ UNCHANGED <<thread, joining>>
  /\ UNCHANGED <<server, guard, acceptVars, logicVars>>

Join ==
  /\ main \in {"joining", "poolJoining"}
  /\ \/ /\ joining < PoolSize /\ thread[joining] = "ended"
        /\ thread' = [thread EXCEPT ![joining] = "joined"]
        /\ joining' = joining + 1
        /\ UNCHANGED main
     \/ /\ joining = PoolSize
        /\ main' = IF main = "joining" THEN "stopped" ELSE "exited"
        /\ UNCHANGED <<thread, joining>>
  /\ UNCHANGED <<server, guard, acceptVars, logicVars>>

(* io_context.run() has returned, or the constructor of CServer has        *)
(* thrown: main returns, and CServer is destroyed.                         *)
MainReturns ==
  /\ main \in {"stopped", "failed"}
  /\ server' = IF main = "stopped" THEN "destroyed" ELSE server
  /\ main' = "statics"
  /\ UNCHANGED <<joining, poolVars, acceptVars, logicVars>>

(* Static objects are destroyed in the reverse order of their              *)
(* construction: first UserManager and DBManager,                          *)
DestroyDatabase ==
  /\ main = "statics"
  /\ db' = IF db = "open" THEN "destroyed" ELSE db
  /\ main' = "logic"
  /\ UNCHANGED <<joining, server, poolVars, acceptVars, backlog, worker, stop, posts>>

(* then LogicSystem, if it was constructed: _b_stop = true, without the    *)
(* mutex,                                                                  *)
StopLogic ==
  /\ main = "logic"
  /\ IF worker = "none"
     THEN main' = "pool" /\ UNCHANGED stop
     ELSE main' = "notify" /\ stop' = TRUE
  /\ UNCHANGED <<joining, server, poolVars, acceptVars, backlog, worker, db, posts>>

(* _consume.notify_one(),                                                  *)
NotifyStop ==
  /\ main = "notify"
  /\ worker' = Woken
  /\ main' = "joinLogic"
  /\ UNCHANGED <<joining, server, poolVars, acceptVars, backlog, stop, db, posts>>

(* and the join of the worker, which first handles what is left;           *)
JoinLogic ==
  /\ main = "joinLogic" /\ worker = "ended"
  /\ main' = "pool"
  /\ UNCHANGED <<joining, server, poolVars, acceptVars, logicVars>>

(* then the pool, whose destructor calls Stop; joining threads a second    *)
(* time throws, which it catches.                                          *)
DestroyPool ==
  /\ main = "pool"
  /\ \/ thread[0] = "joined" /\ Stop("exited")
     \/ thread[0] # "joined" /\ Stop("poolJoining")

-----------------------------------------------------------------------------
MainThread ==
  \/ Listen \/ Join \/ MainReturns
  \/ DestroyDatabase \/ StopLogic \/ NotifyStop \/ JoinLogic \/ DestroyPool

Worker == WorkerTakes \/ WorkerExits \/ WorkerParks \/ WorkerSleeps \/ WorkerHandles

Next ==
  \/ MainThread \/ Signal \/ Worker \/ SpuriousWake
  \/ AcceptCompletes \/ HandleAccept
  \/ \E i \in Ctx : SessionEnds(i) \/ Post(i) \/ RunReturns(i)

Spec == Init /\ [][Next]_vars

(***************************************************************************)
(* Threads run.  Nobody need connect, post, leave or send a signal, and    *)
(* nothing but a notification need wake the worker.                        *)
(***************************************************************************)
FairSpec ==
  /\ Spec
  /\ WF_vars(MainThread) /\ WF_vars(Worker) /\ WF_vars(HandleAccept)
  /\ \A i \in Ctx : WF_vars(RunReturns(i))

(* In addition every client leaves in the end.                             *)
QuietSpec == FairSpec /\ \A i \in Ctx : WF_vars(SessionEnds(i))

-----------------------------------------------------------------------------
(* Safety.                                                                 *)

(* While main serves, the listening never stops: an accept is pending or   *)
(* about to be handled, and the two threads it takes are in run().         *)
AlwaysListening ==
  main = "serving" =>
    accept # "none" /\ thread[Acceptor] = "running" /\ thread[target] = "running"

(* No session is left on a context that nobody runs, also when the pool    *)
(* is stopped while clients connect.                                       *)
NoOrphanedSession == \A i \in Ctx : thread[i] # "running" => conns[i] = 0

LogicDestroyed == main \in {"pool", "poolJoining", "exited"}

(* No thread of the pool is in run() any more when CServer, which          *)
(* HandleAccept and ClearSession use, or DBManager and UserManager, which  *)
(* Close uses, are destroyed.  LogicSystem, to which they post, is         *)
(* destroyed when no session is left, its worker has ended and nothing is  *)
(* in its queue.  The worker itself is not so lucky: it may still handle   *)
(* requests without DBManager and UserManager (see HandlersHaveDatabase).  *)
ThreadsEndFirst ==
  /\ server = "destroyed" \/ db = "destroyed" => \A i \in Ctx : thread[i] # "running"
  /\ LogicDestroyed =>
       worker \in {"none", "ended"} /\ backlog = 0 /\ \A i \in Ctx : conns[i] = 0

-----------------------------------------------------------------------------
(* Liveness.                                                               *)

Stranded == accept = "queued" /\ thread[target] # "running"

(* ~LogicSystem waits for a worker that has slept through its stop.        *)
Overslept == main = "joinLogic" /\ worker = "asleep"

(* The process ends when the port cannot be listened on.  After a signal,  *)
(* once the accept has gone to a context without a thread and everybody    *)
(* has left, Stop returns, and the process ends unless the stop of         *)
(* ~LogicSystem was lost; the second Stop, of the pool's destructor, does  *)
(* not wait for anything.                                                  *)
EndsUnlessListening ==
  /\ main = "failed" ~> main = "exited"
  /\ main = "joining" /\ Stranded /\ (\A i \in Ctx : conns[i] = 0) ~>
       main = "exited" \/ Overslept

-----------------------------------------------------------------------------
(* What the documents say and the code does not do.                        *)

(* "Gracefully stop all io_context workers and join threads.": Stop        *)
(* returns, at least when every client leaves.                             *)
StopReturns == main = "joining" ~> main = "stopped"

(* Ctrl+C "triggers proper cleanup": no handler runs when the database has *)
(* been closed.                                                            *)
HandlersHaveDatabase == worker = "busy" => db # "destroyed"
=============================================================================
