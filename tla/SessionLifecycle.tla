-------------------------- MODULE SessionLifecycle --------------------------
(***************************************************************************)
(* The life of the CSession objects of the server: accepted by CServer,    *)
(* read by one coroutine on the thread of their io_context, bound to a     *)
(* user and entered in UserManager's map by the LogicSystem worker, kicked *)
(* by the worker when the user logs in elsewhere, and closed by whoever    *)
(* notices first that the connection is gone.                              *)
(*                                                                         *)
(* Actors.  Every session has the thread of its io_context, which runs one *)
(* completion handler at a time (HandleAccept, a resumption of the read    *)
(* coroutine, HandleWrite).  Worker is the single LogicSystem thread.      *)
(* Sessions that share an io_context have fewer interleavings than the     *)
(* ones considered here, where each has a thread of its own.               *)
(*                                                                         *)
(* CSession::Close is entered by all of them, so its progress is kept per  *)
(* actor in "close".                                                       *)
(***************************************************************************)
EXTENDS Naturals, Sequences, FiniteSets

CONSTANTS
  Session,       \* the CSession objects, one for each connection
  Uid,           \* the user ids (positive int64 values)
  Worker,        \* the LogicSystem worker thread
  None,          \* nullptr, uid 0, no request
  Credentials,   \* the accounts the client of a session logs into
  PeerMayLeave,  \* may a peer close its side, break, or send a bad header?
  MaxRecvQue,    \* MAX_RECVQUE
  MaxRequests    \* bound: messages read from one connection

ASSUME ActorsAssumption   == /\ Worker \notin Session
                             /\ None \notin Session
                             /\ None \notin Uid
ASSUME ClientsAssumption  == /\ Credentials \in [Session -> SUBSET Uid]
                             /\ PeerMayLeave \in BOOLEAN
ASSUME BoundsAssumption   == /\ MaxRecvQue \in Nat
                             /\ MaxRequests \in Nat

Actor == Session \cup {Worker}

(***************************************************************************)
(* What the handlers of LogicSystem do to the state of this module:        *)
(*   login  LoginRequest with accepted credentials of the user uid         *)
(*   push   ChatMessageRequest and AddFriendRequest: look the user uid up  *)
(*          and, when found, Send to its session                           *)
(*   reply  every other handler and every error path: only answers         *)
(***************************************************************************)
LoginOf(s)   == [from : {s}, kind : {"login"}, uid : Credentials[s]]
PushOf(s)    == [from : {s}, kind : {"push"}, uid : Uid]
ReplyOf(s)   == [from : {s}, kind : {"reply"}, uid : {None}]
RequestOf(s) == LoginOf(s) \cup PushOf(s) \cup ReplyOf(s)

Request == {r \in [from : Session, kind : {"login", "push", "reply"},
                   uid : Uid \cup {None}] : r.kind # "reply" => r.uid \in Uid}

VARIABLES
  stop,      \* CSession::_b_stop
  open,      \* is CSession::_socket open?
  loginUid,  \* CSession::_login_uid
  reader,    \* the read coroutine: not accepted yet, suspended in async_read,
             \* in its catch block, or returned
  io,        \* what the thread of the session's io_context is running
  write,     \* is the send queue empty, being written, or left by a failure?
  sessions,  \* CServer::_sessions
  online,    \* UserManager::_online_users, without the expired entries' keys
  close,     \* each actor's call of CSession::Close
  que,       \* LogicSystem::_msg_que
  read,      \* number of messages read so far, for the bound MaxRequests
  pc,        \* the worker's position in DealMsg and its handlers
  req,       \* the request the worker handles (msg_node)
  peer,      \* the session GetSessionByUid returned to the handler
  outbox     \* the sessions the handler has still to Send to

sessionVars == <<stop, open, loginUid>>
serverVars  == <<sessions, online>>
ioVars      == <<reader, io, write, read>>
workerVars  == <<pc, req, peer, outbox>>
vars == <<sessionVars, serverVars, ioVars, workerVars, close, que>>

NotClosing == [at |-> "out", on |-> None, uid |-> None]
Closing(s) == [at |-> "cas", on |-> s, uid |-> None]

TypeOK ==
  /\ stop \in [Session -> BOOLEAN]
  /\ open \in [Session -> BOOLEAN]
  /\ loginUid \in [Session -> Uid \cup {None}]
  /\ reader \in [Session -> {"new", "parked", "failed", "done"}]
  /\ io \in [Session -> {"idle", "insert", "test", "clear"}]
  /\ write \in [Session -> {"none", "inflight", "failed"}]
  /\ sessions \in SUBSET Session
  /\ online \in [Uid -> Session \cup {None}]
  /\ close \in [Actor -> [at  : {"out", "cas", "socket", "take", "remove"},
                          on  : Session \cup {None},
                          uid : Uid \cup {None}]]
  /\ que \in Seq(Request)
  /\ read \in [Session -> Nat]
  /\ pc \in {"wait", "lookup", "kick", "bind", "register", "send", "write"}
  /\ req \in Request \cup {None}
  /\ peer \in Session \cup {None}
  /\ outbox \in Seq(Session)

Init ==
  /\ stop = [s \in Session |-> FALSE]
  /\ open = [s \in Session |-> FALSE]
  /\ loginUid = [s \in Session |-> None]
  /\ reader = [s \in Session |-> "new"]
  /\ io = [s \in Session |-> "idle"]
  /\ write = [s \in Session |-> "none"]
  /\ sessions = {}
  /\ online = [u \in Uid |-> None]
  /\ close = [a \in Actor |-> NotClosing]
  /\ que = <<>>
  /\ read = [s \in Session |-> 0]
  /\ pc = "wait"
  /\ req = None
  /\ peer = None
  /\ outbox = <<>>

-----------------------------------------------------------------------------
(* CServer: accepting a connection.                                        *)

(* HandleAccept starts the coroutine, which runs up to its first           *)
(* async_read; StartAccept at its end is what allows the next accept.      *)
AcceptStart(s) ==
  /\ reader[s] = "new"
  /\ \A t \in Session : io[t] # "insert"
  /\ open' = [open EXCEPT ![s] = TRUE]
  /\ reader' = [reader EXCEPT ![s] = "parked"]
  /\ io' = [io EXCEPT ![s] = "insert"]
  /\ UNCHANGED <<stop, loginUid, write, read, serverVars, workerVars, close, que>>

(* The rest of the same handler: still on the session's io thread.         *)
AcceptInsert(s) ==
  /\ io[s] = "insert"
  /\ sessions' = sessions \cup {s}
  /\ io' = [io EXCEPT ![s] = "idle"]
  /\ UNCHANGED <<sessionVars, reader, write, read, online, workerVars, close, que>>

(* A failed accept drops the new session, whose destructor calls Close.    *)
AcceptFail(s) ==
  /\ reader[s] = "new"
  /\ \A t \in Session : io[t] # "insert"
  /\ stop' = [stop EXCEPT ![s] = TRUE]
  /\ reader' = [reader EXCEPT ![s] = "done"]
  /\ UNCHANGED <<open, loginUid, io, write, read, serverVars, workerVars, close, que>>

-----------------------------------------------------------------------------
(* CSession::Start: the read coroutine on the io thread.                   *)

(* A whole message has been read; it is posted unless the queue is full.   *)
(* A read that had completed is delivered even if the socket has been      *)
(* closed since.                                                           *)
ReadMsg(s) ==
  /\ reader[s] = "parked" /\ io[s] = "idle"
  /\ read[s] < MaxRequests
  /\ \E r \in RequestOf(s) :
       que' = IF Len(que) >= MaxRecvQue THEN que ELSE Append(que, r)
  /\ read' = [read EXCEPT ![s] = @ + 1]
  /\ io' = [io EXCEPT ![s] = "test"]
  /\ UNCHANGED <<sessionVars, serverVars, reader, write, workerVars, close>>

(* for (; !_b_stop;): the next read, or the end of the coroutine.          *)
LoopTest(s) ==
  /\ io[s] = "test"
  /\ reader' = [reader EXCEPT ![s] = IF stop[s] THEN "done" ELSE "parked"]
  /\ io' = [io EXCEPT ![s] = "idle"]
  /\ UNCHANGED <<sessionVars, serverVars, write, read, workerVars, close, que>>

\* Faulty variant: the coroutine ends without closing its session.
ReadFailKeepsOpen(s) ==
  /\ reader[s] = "parked" /\ io[s] = "idle"
  /\ ~open[s] \/ PeerMayLeave
  /\ reader' = [reader EXCEPT ![s] = "failed"]
  /\ io' = [io EXCEPT ![s] = "clear"]
  /\ UNCHANGED <<sessionVars, serverVars, write, read, workerVars, close, que>>

(* async_read throws, or the header is rejected: Close, then ClearSession. *)
ReadFail(s) ==
  /\ reader[s] = "parked" /\ io[s] = "idle"
  /\ ~open[s] \/ PeerMayLeave
  /\ reader' = [reader EXCEPT ![s] = "failed"]
  /\ io' = [io EXCEPT ![s] = "clear"]
  /\ close' = [close EXCEPT ![s] = Closing(s)]
  /\ UNCHANGED <<sessionVars, serverVars, write, read, workerVars, que>>

(* HandleWrite without error, the last queued message being written.       *)
WriteDone(s) ==
  /\ write[s] = "inflight" /\ io[s] = "idle"
  /\ write' = [write EXCEPT ![s] = "none"]
  /\ UNCHANGED <<sessionVars, serverVars, reader, io, read, workerVars, close, que>>

(* HandleWrite with an error: the queue keeps its front, Close follows,    *)
(* then ClearSession.                                                      *)
WriteFail(s) ==
  /\ write[s] = "inflight" /\ io[s] = "idle"
  /\ ~open[s] \/ PeerMayLeave
  /\ write' = [write EXCEPT ![s] = "failed"]
  /\ io' = [io EXCEPT ![s] = "clear"]
  /\ close' = [close EXCEPT ![s] = Closing(s)]
  /\ UNCHANGED <<sessionVars, serverVars, reader, read, workerVars, que>>

\* Faulty variant: the session is erased before Close gets to its guard.
ClearSessionFirst(s) ==
  /\ io[s] = "clear"
  /\ sessions' = sessions \ {s}
  /\ reader' = [reader EXCEPT ![s] = IF @ = "failed" THEN "done" ELSE @]
  /\ io' = [io EXCEPT ![s] = "idle"]
  /\ UNCHANGED <<sessionVars, online, write, read, workerVars, close, que>>

\* Faulty variant: only the session of the failed coroutine is forgotten.
ClearSessionForgets(s) ==
  /\ io[s] = "clear"
  /\ close[s].at = "out"
  /\ io' = [io EXCEPT ![s] = "idle"]
  /\ UNCHANGED <<sessionVars, serverVars, reader, write, read, workerVars, close, que>>

(* CServer::ClearSession, after Close has returned.                        *)
ClearSession(s) ==
  /\ io[s] = "clear"
  /\ close[s].at = "out"
  /\ sessions' = sessions \ {s}
  /\ reader' = [reader EXCEPT ![s] = IF @ = "failed" THEN "done" ELSE @]
  /\ io' = [io EXCEPT ![s] = "idle"]
  /\ UNCHANGED <<sessionVars, online, write, read, workerVars, close, que>>

-----------------------------------------------------------------------------
(* CSession::Close, called by the actor a on the session close[a].on.      *)

\* Faulty variant: _b_stop is set without looking at it.
CloseCasBlind(a) ==
  /\ close[a].at = "cas"
  /\ close' = [close EXCEPT ![a].at = "socket"]
  /\ stop' = [stop EXCEPT ![close[a].on] = TRUE]
  /\ UNCHANGED <<open, loginUid, serverVars, ioVars, workerVars, que>>

\* Faulty variant: a second caller waits for the first one for ever.
CloseCasWaits(a) ==
  /\ close[a].at = "cas" /\ ~stop[close[a].on]
  /\ close' = [close EXCEPT ![a].at = "socket"]
  /\ stop' = [stop EXCEPT ![close[a].on] = TRUE]
  /\ UNCHANGED <<open, loginUid, serverVars, ioVars, workerVars, que>>

(* _b_stop.compare_exchange_strong: only the first caller goes on.         *)
CloseCas(a) ==
  LET s == close[a].on IN
  /\ close[a].at = "cas"
  /\ IF stop[s]
     THEN /\ close' = [close EXCEPT ![a] = NotClosing]
          /\ UNCHANGED stop
     ELSE /\ close' = [close EXCEPT ![a].at = "socket"]
          /\ stop' = [stop EXCEPT ![s] = TRUE]
  /\ UNCHANGED <<open, loginUid, serverVars, ioVars, workerVars, que>>

\* Faulty variant: the socket stays open, so its pending read does too.
CloseSocketForgets(a) ==
  /\ close[a].at = "socket"
  /\ close' = [close EXCEPT ![a].at = "take"]
  /\ UNCHANGED <<sessionVars, serverVars, ioVars, workerVars, que>>

(* _socket.close(ec)                                                       *)
CloseSocket(a) ==
  /\ close[a].at = "socket"
  /\ open' = [open EXCEPT ![close[a].on] = FALSE]
  /\ close' = [close EXCEPT ![a].at = "take"]
  /\ UNCHANGED <<stop, loginUid, serverVars, ioVars, workerVars, que>>

(* Under _login_mutex: take _login_uid and reset it.                       *)
CloseTakeUid(a) ==
  LET s == close[a].on IN
  /\ close[a].at = "take"
  /\ IF loginUid[s] = None
     THEN /\ close' = [close EXCEPT ![a] = NotClosing]
          /\ UNCHANGED loginUid
     ELSE /\ close' = [close EXCEPT ![a].at = "remove", ![a].uid = loginUid[s]]
          /\ loginUid' = [loginUid EXCEPT ![s] = None]
  /\ UNCHANGED <<stop, open, serverVars, ioVars, workerVars, que>>

(* UserManager::RemoveOnlineUser(uid_copy): by uid, whoever holds it.      *)
RemoveOnlineUser(a) ==
  /\ close[a].at = "remove"
  /\ online' = [online EXCEPT ![close[a].uid] = None]
  /\ close' = [close EXCEPT ![a] = NotClosing]
  /\ UNCHANGED <<sessionVars, sessions, ioVars, workerVars, que>>

Close(a) ==
  CloseCas(a) \/ CloseSocket(a) \/ CloseTakeUid(a) \/ RemoveOnlineUser(a)

-----------------------------------------------------------------------------
(* LogicSystem::DealMsg and the handlers, on the worker thread.            *)

(* Is a shared_ptr to s held by CServer::_sessions, the coroutine frame, a *)
(* running handler, a pending write, a queued LogicNode or the worker?     *)
Referenced(s) ==
  \/ s \in sessions
  \/ reader[s] # "done"
  \/ io[s] # "idle"
  \/ write[s] = "inflight"
  \/ \E i \in 1 .. Len(que) : que[i].from = s
  \/ req # None /\ req.from = s
  \/ peer = s

(* Pop the next node and enter its handler.  A push needs a logged-in      *)
(* sender (GetLoginUid); what fails its checks is only answered, or, with  *)
(* no handler registered for its id, not even that.                        *)
Dequeue ==
  LET r == Head(que)
      looksUp == r.kind = "login" \/ (r.kind = "push" /\ loginUid[r.from] # None)
  IN
  /\ pc = "wait" /\ que # <<>>
  /\ que' = Tail(que)
  /\ req' = r
  /\ pc' = IF looksUp THEN "lookup" ELSE "send"
  /\ outbox' \in IF looksUp THEN {<<>>} ELSE {<<>>, <<r.from>>}
  /\ UNCHANGED <<sessionVars, serverVars, ioVars, close, peer>>

\* Faulty variant: the session found is not closed by a login.
LoginWithoutKick ==
  /\ pc = "lookup"
  /\ peer' = online[req.uid]
  /\ IF req.kind = "login"
     THEN pc' = "bind" /\ UNCHANGED outbox
     ELSE /\ pc' = "send"
          /\ outbox' = IF peer' = None THEN <<req.from>> ELSE <<peer', req.from>>
  /\ UNCHANGED <<sessionVars, serverVars, ioVars, close, que, req>>

\* Faulty variant: the push is written to the sender.
PushToCaller ==
  /\ pc = "lookup"
  /\ peer' = online[req.uid]
  /\ IF req.kind = "login"
     THEN pc' = "bind" /\ UNCHANGED outbox
     ELSE /\ pc' = "send"
          /\ outbox' = IF peer' = None THEN <<req.from>> ELSE <<req.from, peer'>>
  /\ UNCHANGED <<sessionVars, serverVars, ioVars, close, que, req>>

(* UserManager::GetSessionByUid: lock the weak_ptr, erase an expired one.  *)
(* A login goes on to close the session found; a push will Send to it.     *)
GetSessionByUid ==
  LET found == IF online[req.uid] # None /\ Referenced(online[req.uid])
               THEN online[req.uid] ELSE None
  IN
  /\ pc = "lookup"
  /\ peer' = found
  /\ online' = [online EXCEPT ![req.uid] = found]
  /\ \/ /\ req.kind = "login" /\ found # None
        /\ pc' = "kick"
        /\ close' = [close EXCEPT ![Worker] = Closing(found)]
        /\ UNCHANGED outbox
     \/ /\ req.kind = "login" /\ found = None
        /\ pc' = "bind"
        /\ UNCHANGED <<close, outbox>>
     \/ /\ req.kind = "push"
        /\ pc' = "send"
        /\ outbox' = IF found = None THEN <<req.from>> ELSE <<found, req.from>>
        /\ UNCHANGED close
  /\ UNCHANGED <<sessionVars, sessions, ioVars, que, req>>

\* Faulty variant: the login goes on while the old session is closed.
KickInBackground ==
  /\ pc = "kick"
  /\ pc' = "bind"
  /\ UNCHANGED <<sessionVars, serverVars, ioVars, close, que, req, peer, outbox>>

(* old_session->Close() has returned.                                      *)
KickDone ==
  /\ pc = "kick"
  /\ close[Worker].at = "out"
  /\ pc' = "bind"
  /\ UNCHANGED <<sessionVars, serverVars, ioVars, close, que, req, peer, outbox>>

\* Faulty variant: the session is entered in the map without being bound.
SkipSetLoginUid ==
  /\ pc = "bind"
  /\ pc' = "register"
  /\ UNCHANGED <<sessionVars, serverVars, ioVars, close, que, req, peer, outbox>>

(* session->SetLoginUid(uid)                                               *)
SetLoginUid ==
  /\ pc = "bind"
  /\ loginUid' = [loginUid EXCEPT ![req.from] = req.uid]
  /\ pc' = "register"
  /\ UNCHANGED <<stop, open, serverVars, ioVars, close, que, req, peer, outbox>>

(* UserManager::AddOnlineUser; then the offline batch, if there is one,    *)
(* and the answer are sent.                                                *)
AddOnlineUser ==
  /\ pc = "register"
  /\ online' = [online EXCEPT ![req.uid] = req.from]
  /\ outbox' \in {<<req.from>>, <<req.from, req.from>>}
  /\ pc' = "send"
  /\ UNCHANGED <<sessionVars, sessions, ioVars, close, que, req, peer>>

(* CSession::Send reads _b_stop without a lock and drops the message of a  *)
(* closing session.                                                        *)
SendTest ==
  /\ pc = "send" /\ outbox # <<>>
  /\ IF stop[Head(outbox)]
     THEN outbox' = Tail(outbox) /\ UNCHANGED pc
     ELSE pc' = "write" /\ UNCHANGED outbox
  /\ UNCHANGED <<sessionVars, serverVars, ioVars, close, que, req, peer>>

(* The message is queued; async_write starts when the queue was empty.     *)
SendWrite ==
  LET s == Head(outbox) IN
  /\ pc = "write"
  /\ write' = [write EXCEPT ![s] = IF @ = "none" THEN "inflight" ELSE @]
  /\ outbox' = Tail(outbox)
  /\ pc' = "send"
  /\ UNCHANGED <<sessionVars, serverVars, reader, io, read, close, que, req, peer>>

(* The handler returns; its shared_ptrs and msg_node go out of scope.      *)
HandlerReturn ==
  /\ pc = "send" /\ outbox = <<>>
  /\ pc' = "wait" /\ req' = None /\ peer' = None
  /\ UNCHANGED <<sessionVars, serverVars, ioVars, close, que, outbox>>

-----------------------------------------------------------------------------
Handler ==
  \/ Dequeue \/ GetSessionByUid \/ KickDone \/ SetLoginUid \/ AddOnlineUser
  \/ SendTest \/ SendWrite \/ HandlerReturn

IoThread(s) ==
  \/ AcceptStart(s) \/ AcceptInsert(s) \/ AcceptFail(s)
  \/ ReadMsg(s) \/ LoopTest(s) \/ ReadFail(s)
  \/ WriteDone(s) \/ WriteFail(s) \/ ClearSession(s)

Next == Handler \/ (\E s \in Session : IoThread(s)) \/ (\E a \in Actor : Close(a))

Spec == Init /\ [][Next]_vars

(***************************************************************************)
(* Threads run: a handler that has begun is finished, the worker serves    *)
(* its queue, and an operation pending on a closed socket completes.  The  *)
(* peers owe nothing: no fairness on accepts, on messages, or on failures  *)
(* of a socket that is open.                                               *)
(***************************************************************************)
Fairness ==
  /\ WF_vars(Handler)
  /\ \A a \in Actor : WF_vars(Close(a))
  /\ \A s \in Session :
       /\ WF_vars(AcceptInsert(s) \/ LoopTest(s) \/ ClearSession(s))
       /\ WF_vars(~open[s] /\ ReadFail(s))
       /\ WF_vars(~open[s] /\ (WriteDone(s) \/ WriteFail(s)))

FairSpec == Spec /\ Fairness
-----------------------------------------------------------------------------
(* Safety, in every environment.                                           *)

InTeardown(a, s) == close[a].on = s /\ close[a].at \in {"socket", "take", "remove"}

(* The body of Close behind the compare-exchange on _b_stop runs once per  *)
(* session: no two actors are in it for the same session ("Idempotent",    *)
(* "CAS-guard for Close()" in CSession.h).                                 *)
TeardownOnce ==
  \A s \in Session, a, b \in Actor :
    InTeardown(a, s) /\ InTeardown(b, s) => a = b

(* A connection in use is in CServer::_sessions: HandleAccept, which       *)
(* starts the coroutine before it inserts the session, loses no race with  *)
(* ClearSession, and ClearSession never comes before Close has won.        *)
OpenIsCataloged ==
  \A s \in Session :
    reader[s] # "new" /\ io[s] # "insert" /\ ~stop[s] => s \in sessions

(* A session that nothing references any more (its destructor has run) has *)
(* no open socket and is not being torn down: the last reference is not    *)
(* given up while some thread is still inside Close.                       *)
NoLiveGarbage ==
  \A s \in Session :
    ~Referenced(s) => ~open[s] /\ \A a \in Actor : ~InTeardown(a, s)

-----------------------------------------------------------------------------
(* Safety that needs clients to behave, see the runs.                      *)

(* At most one open session is bound to a user: a login closes the session *)
(* that held the user before (LoginRequest, "close old session if user     *)
(* already online").                                                       *)
SingleLogin ==
  \A s, t \in Session :
    loginUid[s] # None /\ loginUid[s] = loginUid[t] /\ ~stop[s] /\ ~stop[t]
      => s = t

(* Once its login is complete an open session is found under its uid, so   *)
(* that pushes reach it and a later login can kick it.                     *)
BoundIsOnline ==
  \A s \in Session :
    loginUid[s] # None /\ ~stop[s] /\ ~(pc = "register" /\ req.from = s)
      => online[loginUid[s]] = s

(* An entry of UserManager's map that leads to an open session leads to    *)
(* one that is logged in as that very user.                                *)
OnlineIsOwner ==
  \A u \in Uid, s \in Session : online[u] = s /\ ~stop[s] => loginUid[s] = u

(* A chat message or friend request for a user is written only to sessions *)
(* of that user, whatever happened between the lookup and the write.       *)
PushToOwner ==
  pc = "write" /\ req.kind = "push" /\ Len(outbox) = 2 /\ ~stop[Head(outbox)]
    => loginUid[Head(outbox)] = req.uid

(* The session a login closes is another one than the session logging in.  *)
KickSparesCaller == pc = "kick" => peer # req.from

Settled(s) ==
  /\ reader[s] = "done" /\ io[s] = "idle" /\ write[s] # "inflight"
  /\ req = None /\ \A i \in 1 .. Len(que) : que[i].from # s

(* When a session has closed and nothing is left to run for it, it is out  *)
(* of CServer::_sessions.                                                  *)
ClosedIsCleared == \A s \in Session : Settled(s) => s \notin sessions

(* When a session has closed and nothing is left to run for it, Close has  *)
(* taken it out of UserManager's map.                                      *)
ClosedIsOffline == \A s \in Session, u \in Uid : Settled(s) => online[u] # s

-----------------------------------------------------------------------------
(* Liveness.                                                               *)

(* The worker gets out of every handler and serves every queued request:   *)
(* closing a session that another thread is closing does not block it.     *)
RequestsAreServed == que # <<>> ~> que = <<>> /\ pc = "wait"

(* Closing a session, whoever does it, ends its coroutine.                 *)
StopEndsReader == \A s \in Session : stop[s] ~> reader[s] = "done"

(* A session whose connection failed is taken out of CServer::_sessions.   *)
FailureIsCleared == \A s \in Session : reader[s] = "failed" ~> s \notin sessions
=============================================================================
