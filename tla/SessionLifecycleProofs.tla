----------------------- MODULE SessionLifecycleProofs -----------------------
(***************************************************************************)
(* Proofs, for every set of sessions and users and every bound, of the     *)
(* safety properties of SessionLifecycle: first those that hold in every   *)
(* environment, then who is logged in, where each client has one account   *)
(* or where no Close removes the entry of a newer login.                   *)
(***************************************************************************)
EXTENDS SessionLifecycle, TLAPS

(* A session's io thread is inside Close only between the failure it       *)
(* noticed and its ClearSession; the worker is inside Close only while it  *)
(* kicks the session GetSessionByUid gave it.                              *)
CloserHolds ==
  /\ \A s \in Session :
       close[s].at # "out" => close[s].on = s /\ io[s] = "clear"
  /\ close[Worker].at # "out" =>
       pc = "kick" /\ peer \in Session /\ close[Worker].on = peer

(* The worker has a request, of the kind its position in the handlers      *)
(* calls for, and a receiver when it is about to queue a message.          *)
WorkerBusy ==
  /\ pc # "wait" => req \in Request
  /\ pc \in {"lookup", "kick", "bind", "register"} => req.kind # "reply"
  /\ pc = "write" => outbox # <<>>

(* Who is behind the compare-exchange of Close has set _b_stop.            *)
TeardownStops ==
  \A a \in Actor :
    close[a].at \in {"socket", "take", "remove"} => stop[close[a].on]

(* Between the failure and ClearSession somebody's Close has won, once     *)
(* this thread's own has left the compare-exchange.                        *)
ClearAfterStop ==
  \A s \in Session : io[s] = "clear" /\ close[s].at # "cas" => stop[s]

(* The loop of the coroutine is where the coroutine is.                    *)
LoopIsParked == \A s \in Session : io[s] = "test" => reader[s] = "parked"

(* A session is unknown to everybody until it is accepted.                 *)
NewIsUnknown ==
  \A s \in Session : reader[s] = "new" =>
    /\ ~stop[s] /\ ~open[s] /\ io[s] = "idle" /\ write[s] = "none"
    /\ peer # s
    /\ pc # "wait" => req.from # s
    /\ \A i \in 1 .. Len(que) : que[i].from # s
    /\ \A i \in 1 .. Len(outbox) : outbox[i] # s
    /\ \A u \in Uid : online[u] # s

(* A socket is open at most until the step of Close that follows the       *)
(* compare-exchange.                                                       *)
OpenUntilClosed ==
  \A s \in Session :
    open[s] /\ stop[s] =>
      \E a \in Actor : close[a].at = "socket" /\ close[a].on = s

IInv ==
  /\ TypeOK /\ CloserHolds /\ WorkerBusy /\ TeardownStops /\ ClearAfterStop
  /\ LoopIsParked /\ NewIsUnknown /\ OpenUntilClosed
  /\ TeardownOnce /\ OpenIsCataloged

-----------------------------------------------------------------------------
(* The steps of Close.                                                     *)

CloseRecord == [at  : {"out", "cas", "socket", "take", "remove"},
                on  : Session \cup {None},
                uid : Uid \cup {None}]

(* A step of an actor's Close moves that actor only, forward, and leaves   *)
(* it on the session it was called for.                                    *)
LEMMA CloseMoves ==
  ASSUME TypeOK, CloserHolds, NEW a \in Actor, Close(a)
  PROVE  /\ close' \in [Actor -> CloseRecord]
         /\ \A b \in Actor : b # a => close'[b] = close[b]
         /\ close'[a].at # "out" => close'[a].on = close[a].on
         /\ \/ close[a].at # "out" /\ close'[a].at = "out"
            \/ close[a].at = "cas" /\ close'[a].at = "socket"
            \/ close[a].at = "socket" /\ close'[a].at = "take"
            \/ close[a].at = "take" /\ close'[a].at = "remove"
<1> USE DEF CloseRecord
<1>1. close \in [Actor -> CloseRecord] /\ NotClosing \in CloseRecord
  BY DEF TypeOK, NotClosing
<1>2. CASE CloseCas(a)
  BY <1>1, <1>2 DEF CloseCas, NotClosing
<1>3. CASE CloseSocket(a)
  BY <1>1, <1>3 DEF CloseSocket
<1>4. CASE CloseTakeUid(a)
  <2>1. CASE close' = [close EXCEPT ![a] = NotClosing]
    BY <1>1, <1>4, <2>1 DEF CloseTakeUid, NotClosing
  <2>2. ASSUME close' = [close EXCEPT ![a].at = "remove",
                                      ![a].uid = loginUid[close[a].on]]
        PROVE  close'[a] = [close[a] EXCEPT !.at = "remove",
                                            !.uid = loginUid[close[a].on]]
    BY <1>1, <2>2
  <2>3. close[a].on \in Session /\ loginUid[close[a].on] \in Uid \cup {None}
    BY <1>4, ActorsAssumption DEF CloseTakeUid, CloserHolds, TypeOK, Actor
  <2> QED
    BY <1>1, <1>4, <2>1, <2>2, <2>3 DEF CloseTakeUid
<1>5. CASE RemoveOnlineUser(a)
  BY <1>1, <1>5 DEF RemoveOnlineUser, NotClosing
<1> QED
  BY <1>2, <1>3, <1>4, <1>5 DEF Close

(* Seen from any actor b: its Close goes on where it was, or ends.         *)
LEMMA CloseStays ==
  ASSUME TypeOK, CloserHolds, NEW a \in Actor, Close(a), NEW b \in Actor
  PROVE  close'[b].at # "out" => close[b].at # "out" /\ close'[b].on = close[b].on
<1>1. CASE b = a
  BY <1>1, CloseMoves
<1>2. CASE b # a
  BY <1>2, CloseMoves
<1> QED
  BY <1>1, <1>2

(* What the lookup finds decides how the handler goes on: a login closes   *)
(* the session found, a push will write to it.                             *)
LEMMA LookupMoves ==
  ASSUME TypeOK, WorkerBusy, GetSessionByUid
  PROVE  /\ req \in Request /\ req.uid \in Uid /\ req.from \in Session
         /\ peer' \in {None, online[req.uid]} /\ peer' \in Session \cup {None}
         /\ online' = [online EXCEPT ![req.uid] = peer']
         /\ \/ /\ pc' = "kick" /\ peer' \in Session /\ req.kind = "login"
               /\ close' = [close EXCEPT ![Worker] = Closing(peer')]
               /\ UNCHANGED outbox
            \/ /\ pc' = "bind" /\ req.kind = "login"
               /\ UNCHANGED <<close, outbox>>
            \/ /\ pc' = "send" /\ UNCHANGED close
               /\ \/ outbox' = <<req.from>>
                  \/ peer' \in Session /\ outbox' = <<peer', req.from>>
<1>1. req \in Request /\ req.uid \in Uid /\ req.from \in Session
  BY DEF GetSessionByUid, WorkerBusy, Request
<1>2. /\ peer' \in {None, online[req.uid]}
      /\ online' = [online EXCEPT ![req.uid] = peer']
  BY DEF GetSessionByUid
<1>3. peer' \in Session \cup {None}
  BY <1>1, <1>2 DEF TypeOK
<1> QED
  BY <1>1, <1>2, <1>3 DEF GetSessionByUid

-----------------------------------------------------------------------------
(* Type correctness.                                                       *)

(* Every thread of an io_context keeps the types.                          *)
LEMMA IoTypes ==
  ASSUME TypeOK, NEW s \in Session, IoThread(s)
  PROVE  TypeOK'
<1> USE DEF TypeOK, sessionVars, serverVars, ioVars, workerVars
<1>1. CASE AcceptStart(s)   BY <1>1 DEF AcceptStart
<1>2. CASE AcceptInsert(s)  BY <1>2 DEF AcceptInsert
<1>3. CASE AcceptFail(s)    BY <1>3 DEF AcceptFail
<1>4. CASE ReadMsg(s)
  <2>1. RequestOf(s) \subseteq Request
    BY ClientsAssumption DEF RequestOf, LoginOf, PushOf, ReplyOf, Request
  <2>2. que' \in Seq(Request)
    BY <1>4, <2>1 DEF ReadMsg
  <2> QED
    BY <1>4, <2>2 DEF ReadMsg
<1>5. CASE LoopTest(s)      BY <1>5 DEF LoopTest
<1>6. CASE ReadFail(s)      BY <1>6 DEF ReadFail, Closing, Actor
<1>7. CASE WriteDone(s)     BY <1>7 DEF WriteDone
<1>8. CASE WriteFail(s)     BY <1>8 DEF WriteFail, Closing, Actor
<1>9. CASE ClearSession(s)  BY <1>9 DEF ClearSession
<1> QED
  BY <1>1, <1>2, <1>3, <1>4, <1>5, <1>6, <1>7, <1>8, <1>9 DEF IoThread

(* So does Close, whoever runs it.                                         *)
LEMMA CloseTypes ==
  ASSUME TypeOK, CloserHolds, NEW a \in Actor, Close(a)
  PROVE  TypeOK'
<1>1. close' \in [Actor -> CloseRecord]
  BY CloseMoves
<1>2. /\ stop' \in [Session -> BOOLEAN] /\ open' \in [Session -> BOOLEAN]
      /\ loginUid' \in [Session -> Uid \cup {None}]
      /\ online' \in [Uid -> Session \cup {None}]
      /\ UNCHANGED <<sessions, ioVars, workerVars, que>>
  <2> USE DEF TypeOK, sessionVars, serverVars
  <2>1. CASE CloseCas(a)          BY <2>1 DEF CloseCas
  <2>2. CASE CloseSocket(a)       BY <2>2 DEF CloseSocket
  <2>3. CASE CloseTakeUid(a)      BY <2>3 DEF CloseTakeUid
  <2>4. CASE RemoveOnlineUser(a)  BY <2>4 DEF RemoveOnlineUser
  <2> QED
    BY <2>1, <2>2, <2>3, <2>4 DEF Close
<1> QED
  BY <1>1, <1>2 DEF TypeOK, CloseRecord, ioVars, workerVars

(* So does the worker, whose handlers have the request they need.          *)
LEMMA HandlerTypes ==
  ASSUME TypeOK, WorkerBusy, Handler
  PROVE  TypeOK'
<1> USE DEF TypeOK, sessionVars, serverVars, ioVars, workerVars
<1>1. CASE Dequeue
  <2>1. Head(que) \in Request /\ Tail(que) \in Seq(Request)
    BY <1>1 DEF Dequeue
  <2>2. outbox' = <<>> \/ outbox' = <<Head(que).from>>
    BY <1>1 DEF Dequeue
  <2>3. outbox' \in Seq(Session)
    <3>1. Head(que).from \in Session
      BY <2>1 DEF Request
    <3>2. CASE outbox' = <<Head(que).from>>
      BY <3>1, <3>2
    <3>3. CASE outbox' = <<>>
      BY <3>3
    <3> QED
      BY <2>2, <3>2, <3>3
  <2> QED
    BY <1>1, <2>1, <2>3 DEF Dequeue
<1>2. CASE GetSessionByUid
  <2>1. outbox' \in Seq(Session) /\ pc' \in {"kick", "bind", "send"}
    <3>1. /\ req.from \in Session /\ pc' \in {"kick", "bind", "send"}
          /\ \/ outbox' = outbox
             \/ outbox' = <<req.from>>
             \/ peer' \in Session /\ outbox' = <<peer', req.from>>
      BY <1>2, LookupMoves
    <3>2. CASE outbox' = <<req.from>>
      BY <3>1, <3>2
    <3>3. CASE peer' \in Session /\ outbox' = <<peer', req.from>>
      BY <3>1, <3>3
    <3> QED
      BY <3>1, <3>2, <3>3
  <2>2. close' \in [Actor -> [at  : {"out", "cas", "socket", "take", "remove"},
                              on  : Session \cup {None},
                              uid : Uid \cup {None}]]
    BY <1>2, LookupMoves DEF Closing
  <2> QED
    BY <1>2, <2>1, <2>2, LookupMoves DEF GetSessionByUid
<1>3. CASE KickDone       BY <1>3 DEF KickDone
<1>4. CASE SetLoginUid    BY <1>4 DEF SetLoginUid, WorkerBusy, Request
<1>5. CASE AddOnlineUser
  <2>1. req.from \in Session
    BY <1>5 DEF AddOnlineUser, WorkerBusy, Request
  <2>2. <<req.from>> \in Seq(Session) /\ <<req.from, req.from>> \in Seq(Session)
    BY <2>1
  <2> QED
    BY <1>5, <2>1, <2>2 DEF AddOnlineUser
<1>6. CASE SendTest
  <2>1. Tail(outbox) \in Seq(Session)
    BY <1>6 DEF SendTest
  <2> QED
    BY <1>6, <2>1 DEF SendTest
<1>7. CASE SendWrite      BY <1>7 DEF SendWrite, WorkerBusy
<1>8. CASE HandlerReturn  BY <1>8 DEF HandlerReturn
<1> QED
  BY <1>1, <1>2, <1>3, <1>4, <1>5, <1>6, <1>7, <1>8 DEF Handler

-----------------------------------------------------------------------------
(* The parts of the invariant.                                             *)

(* The worker has what its position asks for after every step: only its    *)
(* own handlers touch what WorkerBusy speaks of.                           *)
LEMMA WorkerBusyStep ==
  ASSUME TypeOK, WorkerBusy, [Next]_vars
  PROVE  WorkerBusy'
<1>1. CASE UNCHANGED workerVars
  BY <1>1 DEF WorkerBusy, workerVars
<1>2. CASE Dequeue
  <2>1. Head(que) \in Request
    BY <1>2 DEF Dequeue, TypeOK
  <2> QED
    BY <1>2, <2>1 DEF Dequeue, WorkerBusy, Request
<1>3. CASE GetSessionByUid
  BY <1>3, LookupMoves DEF GetSessionByUid, WorkerBusy
<1>4. CASE KickDone       BY <1>4 DEF KickDone, WorkerBusy
<1>5. CASE SetLoginUid    BY <1>5 DEF SetLoginUid, WorkerBusy
<1>6. CASE AddOnlineUser  BY <1>6 DEF AddOnlineUser, WorkerBusy
<1>7. CASE SendTest       BY <1>7 DEF SendTest, WorkerBusy
<1>8. CASE SendWrite      BY <1>8 DEF SendWrite, WorkerBusy
<1>9. CASE HandlerReturn  BY <1>9 DEF HandlerReturn, WorkerBusy
<1>10. ASSUME NEW s \in Session, IoThread(s) PROVE UNCHANGED workerVars
  BY <1>10 DEF IoThread, AcceptStart, AcceptInsert, AcceptFail, ReadMsg, LoopTest,
               ReadFail, WriteDone, WriteFail, ClearSession
<1>11. ASSUME NEW a \in Actor, Close(a) PROVE UNCHANGED workerVars
  BY <1>11 DEF Close, CloseCas, CloseSocket, CloseTakeUid, RemoveOnlineUser
<1> QED
  BY <1>1, <1>2, <1>3, <1>4, <1>5, <1>6, <1>7, <1>8, <1>9, <1>10, <1>11
  DEF Next, Handler, vars

(* Only the failure of a read or write and the kick start a Close, and     *)
(* nothing else goes on in that thread until it returns.                   *)
LEMMA CloserHoldsStep ==
  ASSUME TypeOK, CloserHolds, WorkerBusy, NewIsUnknown, [Next]_vars
  PROVE  CloserHolds'
<1> USE ActorsAssumption DEF CloserHolds, Actor
<1>1. CASE UNCHANGED <<close, io, pc, peer>>
  BY <1>1
<1>2. ASSUME NEW s \in Session, IoThread(s)
      PROVE  CloserHolds'
  <2> USE DEF TypeOK, ioVars, workerVars
  <2>1. CASE AcceptStart(s)   BY <2>1 DEF AcceptStart, NewIsUnknown
  <2>2. CASE AcceptInsert(s)  BY <2>2 DEF AcceptInsert
  <2>3. CASE AcceptFail(s)    BY <2>3 DEF AcceptFail
  <2>4. CASE ReadMsg(s)       BY <2>4 DEF ReadMsg
  <2>5. CASE LoopTest(s)      BY <2>5 DEF LoopTest
  <2>6. CASE ReadFail(s)      BY <2>6 DEF ReadFail, Closing
  <2>7. CASE WriteDone(s)     BY <2>7 DEF WriteDone
  <2>8. CASE WriteFail(s)     BY <2>8 DEF WriteFail, Closing
  <2>9. CASE ClearSession(s)  BY <2>9 DEF ClearSession
  <2> QED
    BY <1>2, <2>1, <2>2, <2>3, <2>4, <2>5, <2>6, <2>7, <2>8, <2>9 DEF IoThread
<1>3. ASSUME NEW a \in Actor, Close(a)
      PROVE  CloserHolds'
  <2>1. UNCHANGED <<io, pc, peer>>
    BY <1>3 DEF Close, CloseCas, CloseSocket, CloseTakeUid, RemoveOnlineUser,
                ioVars, workerVars
  <2>2. \A b \in Actor :
          close'[b].at # "out" => close[b].at # "out" /\ close'[b].on = close[b].on
    BY <1>3, CloseStays
  <2> QED
    BY <2>1, <2>2
<1>4. CASE GetSessionByUid
  <2>1. close[Worker].at = "out" /\ UNCHANGED io
    BY <1>4 DEF GetSessionByUid, ioVars
  <2>2. CASE UNCHANGED close
    BY <2>1, <2>2
  <2>3. CASE /\ pc' = "kick" /\ peer' \in Session
             /\ close' = [close EXCEPT ![Worker] = Closing(peer')]
    BY <2>1, <2>3 DEF Closing, TypeOK
  <2> QED
    BY <1>4, <2>2, <2>3, LookupMoves
<1>5. CASE Handler /\ ~GetSessionByUid
  BY <1>5 DEF Handler, Dequeue, KickDone, SetLoginUid, AddOnlineUser, SendTest,
              SendWrite, HandlerReturn, ioVars
<1> QED
  BY <1>1, <1>2, <1>3, <1>4, <1>5 DEF Next, vars, ioVars, workerVars

(* stop is never reset, and set before the body of Close is entered.       *)
LEMMA TeardownStopsStep ==
  ASSUME TypeOK, CloserHolds, WorkerBusy, TeardownStops, [Next]_vars
  PROVE  TeardownStops'
<1>1. CASE UNCHANGED <<close, stop>>
  BY <1>1 DEF TeardownStops
<1>2. ASSUME NEW s \in Session, AcceptFail(s)
      PROVE  TeardownStops'
  BY <1>2 DEF AcceptFail, TeardownStops, TypeOK
<1>3. ASSUME NEW s \in Session, ReadFail(s) \/ WriteFail(s)
      PROVE  TeardownStops'
  <2>1. close' = [close EXCEPT ![s] = Closing(s)] /\ UNCHANGED stop
    BY <1>3 DEF ReadFail, WriteFail, sessionVars
  <2> QED
    BY <2>1 DEF Closing, TeardownStops, TypeOK, Actor
<1>4. ASSUME NEW a \in Actor, Close(a)
      PROVE  TeardownStops'
  <2>1. ASSUME NEW b \in Actor, close[b].at # "out" PROVE close[b].on \in Session
    BY <2>1, ActorsAssumption DEF CloserHolds, Actor
  <2>2. \A b \in Actor : b # a => close'[b] = close[b]
    BY <1>4, CloseMoves
  <2>3. CASE close'[a].at = "out"
    <3>1. \A s \in Session : stop[s] => stop'[s]
      BY <1>4 DEF Close, CloseCas, CloseSocket, CloseTakeUid, RemoveOnlineUser,
                  sessionVars, TypeOK
    <3> QED
      BY <2>1, <2>2, <2>3, <3>1 DEF TeardownStops
  <2>4. CASE close[a].at = "cas" /\ close'[a].at = "socket"
    <3>1. stop' = [stop EXCEPT ![close[a].on] = TRUE]
      BY <1>4, <2>4 DEF Close, CloseCas, CloseSocket, CloseTakeUid,
                        RemoveOnlineUser, NotClosing, TypeOK
    <3>2. close'[a].on = close[a].on
      BY <1>4, <2>4, CloseMoves
    <3> QED
      BY <2>1, <2>2, <2>4, <3>1, <3>2 DEF TeardownStops, TypeOK
  <2>5. CASE close[a].at \in {"socket", "take"} /\ close'[a].at # "out"
    <3>1. UNCHANGED stop
      BY <1>4, <2>5 DEF Close, CloseCas, CloseSocket, CloseTakeUid,
                        RemoveOnlineUser, sessionVars
    <3>2. close'[a].on = close[a].on
      BY <1>4, <2>5, CloseMoves
    <3> QED
      BY <2>2, <2>5, <3>1, <3>2 DEF TeardownStops
  <2> QED
    BY <1>4, <2>3, <2>4, <2>5, CloseMoves
<1>5. CASE GetSessionByUid
  <2>1. UNCHANGED stop /\ \/ UNCHANGED close
                          \/ close' = [close EXCEPT ![Worker] = Closing(peer')]
    BY <1>5, LookupMoves DEF GetSessionByUid, sessionVars
  <2> QED
    BY <2>1 DEF Closing, TeardownStops, TypeOK, Actor
<1> QED
  BY <1>1, <1>2, <1>3, <1>4, <1>5
  DEF Next, IoThread, Handler, vars, sessionVars, AcceptStart, AcceptInsert, ReadMsg,
      LoopTest, WriteDone, ClearSession, Dequeue, KickDone, SetLoginUid,
      AddOnlineUser, SendTest, SendWrite, HandlerReturn

(* When ClearSession may run, Close has returned, and it returns only once *)
(* some caller has set stop.                                               *)
LEMMA ClearAfterStopStep ==
  ASSUME TypeOK, CloserHolds, WorkerBusy, ClearAfterStop, [Next]_vars
  PROVE  ClearAfterStop'
<1> USE DEF ClearAfterStop
<1>1. CASE UNCHANGED <<io, close, stop>>
  BY <1>1
<1>2. ASSUME NEW s \in Session, IoThread(s)
      PROVE  ClearAfterStop'
  <2> USE DEF TypeOK, sessionVars
  <2>1. CASE AcceptStart(s)   BY <2>1 DEF AcceptStart
  <2>2. CASE AcceptInsert(s)  BY <2>2 DEF AcceptInsert
  <2>3. CASE AcceptFail(s)    BY <2>3 DEF AcceptFail, ioVars
  <2>4. CASE ReadMsg(s)       BY <2>4 DEF ReadMsg
  <2>5. CASE LoopTest(s)      BY <2>5 DEF LoopTest
  <2>6. CASE ReadFail(s)      BY <2>6 DEF ReadFail, Closing, Actor
  <2>7. CASE WriteDone(s)     BY <2>7 DEF WriteDone
  <2>8. CASE WriteFail(s)     BY <2>8 DEF WriteFail, Closing, Actor
  <2>9. CASE ClearSession(s)  BY <2>9 DEF ClearSession
  <2> QED
    BY <1>2, <2>1, <2>2, <2>3, <2>4, <2>5, <2>6, <2>7, <2>8, <2>9 DEF IoThread
<1>3. ASSUME NEW a \in Actor, Close(a)
      PROVE  ClearAfterStop'
  <2>1. UNCHANGED io /\ \A s \in Session : stop[s] => stop'[s]
    BY <1>3 DEF Close, CloseCas, CloseSocket, CloseTakeUid, RemoveOnlineUser,
                ioVars, sessionVars, TypeOK
  <2>2. \A b \in Actor : b # a => close'[b] = close[b]
    BY <1>3, CloseMoves
  <2>3. ASSUME a \in Session, close[a].at = "cas" PROVE stop'[a]
    <3>1. CloseCas(a)
      BY <1>3, <2>3 DEF Close, CloseSocket, CloseTakeUid, RemoveOnlineUser
    <3>2. close[a].on = a
      BY <2>3 DEF CloserHolds
    <3> QED
      BY <2>3, <3>1, <3>2 DEF CloseCas, TypeOK
  <2> QED
    BY <2>1, <2>2, <2>3 DEF Actor
<1>4. CASE GetSessionByUid
  <2>1. UNCHANGED <<io, stop>> /\ \A s \in Session : close'[s] = close[s]
    BY <1>4, LookupMoves, ActorsAssumption
    DEF GetSessionByUid, ioVars, sessionVars, TypeOK, Actor
  <2> QED
    BY <2>1
<1> QED
  BY <1>1, <1>2, <1>3, <1>4
  DEF Next, Handler, vars, sessionVars, ioVars, Dequeue, KickDone, SetLoginUid,
      AddOnlineUser, SendTest, SendWrite, HandlerReturn

(* The loop condition is evaluated by a coroutine that has just read a     *)
(* message: no other handler of the thread comes in between.               *)
LEMMA LoopIsParkedStep ==
  ASSUME TypeOK, LoopIsParked, [Next]_vars
  PROVE  LoopIsParked'
<1>1. CASE UNCHANGED <<io, reader>>
  BY <1>1 DEF LoopIsParked
<1>2. ASSUME NEW s \in Session, IoThread(s)
      PROVE  LoopIsParked'
  BY <1>2 DEF LoopIsParked, TypeOK, IoThread, AcceptStart, AcceptInsert, AcceptFail,
     ReadMsg, LoopTest, ReadFail, WriteDone, WriteFail, ClearSession, ioVars
<1> QED
  BY <1>1, <1>2
  DEF Next, vars, ioVars, Handler, Dequeue, GetSessionByUid, KickDone, SetLoginUid,
      AddOnlineUser, SendTest, SendWrite, HandlerReturn,
      Close, CloseCas, CloseSocket, CloseTakeUid, RemoveOnlineUser

(* Whatever the worker and the other threads know of a session comes from  *)
(* a message it sent, and only an accepted session sends messages.         *)
LEMMA NewIsUnknownStep ==
  ASSUME TypeOK, CloserHolds, WorkerBusy, NewIsUnknown, [Next]_vars
  PROVE  NewIsUnknown'
<1> USE DEF NewIsUnknown
<1>1. CASE UNCHANGED vars
  BY <1>1 DEF vars, sessionVars, serverVars, ioVars, workerVars
<1>2. ASSUME NEW s \in Session, IoThread(s)
      PROVE  NewIsUnknown'
  <2> USE DEF TypeOK, sessionVars, serverVars, workerVars
  <2>1. CASE AcceptStart(s)   BY <2>1 DEF AcceptStart
  <2>2. CASE AcceptInsert(s)  BY <2>2 DEF AcceptInsert
  <2>3. CASE AcceptFail(s)    BY <2>3 DEF AcceptFail
  <2>4. CASE ReadMsg(s)
    <3>1. PICK r \in RequestOf(s) :
            que' = IF Len(que) >= MaxRecvQue THEN que ELSE Append(que, r)
      BY <2>4 DEF ReadMsg
    <3>2. r.from = s
      BY <3>1 DEF RequestOf, LoginOf, PushOf, ReplyOf
    <3>3. \A t \in Session : t # s => \A i \in 1 .. Len(que') :
            que'[i].from = t => i \in 1 .. Len(que) /\ que[i].from = t
      BY <3>1, <3>2
    <3> QED
      BY <2>4, <3>3 DEF ReadMsg
  <2>5. CASE LoopTest(s)      BY <2>5 DEF LoopTest
  <2>6. CASE ReadFail(s)      BY <2>6 DEF ReadFail
  <2>7. CASE WriteDone(s)     BY <2>7 DEF WriteDone
  <2>8. CASE WriteFail(s)     BY <2>8 DEF WriteFail
  <2>9. CASE ClearSession(s)  BY <2>9 DEF ClearSession
  <2> QED
    BY <1>2, <2>1, <2>2, <2>3, <2>4, <2>5, <2>6, <2>7, <2>8, <2>9 DEF IoThread
<1>3. ASSUME NEW a \in Actor, Close(a)
      PROVE  NewIsUnknown'
  <2>1. close[a].on \in Session /\ reader[close[a].on] # "new"
    BY <1>3, ActorsAssumption
    DEF Close, CloseCas, CloseSocket, CloseTakeUid, RemoveOnlineUser, CloserHolds, Actor
  <2>2. /\ \A s \in Session : s # close[a].on => stop'[s] = stop[s]
        /\ \A s \in Session : open'[s] => open[s]
        /\ \A u \in Uid : online'[u] \in {online[u], None}
        /\ UNCHANGED <<ioVars, workerVars, que>>
    BY <1>3, <2>1 DEF Close, CloseCas, CloseSocket, CloseTakeUid, RemoveOnlineUser,
                      sessionVars, serverVars, TypeOK
  <2> QED
    BY <2>1, <2>2, ActorsAssumption DEF ioVars, workerVars
<1>4. CASE Dequeue
  <2>1. /\ req' = que[1] /\ 1 \in 1 .. Len(que) /\ que[1] \in Request
        /\ \A i \in 1 .. Len(que') : i + 1 \in 1 .. Len(que) /\ que'[i] = que[i + 1]
    BY <1>4 DEF Dequeue, TypeOK
  <2>2. outbox' = <<>> \/ outbox' = <<que[1].from>>
    BY <1>4 DEF Dequeue
  <2> QED
    BY <1>4, <2>1, <2>2 DEF Dequeue, sessionVars, serverVars, ioVars
<1>5. CASE GetSessionByUid
  <2>1. UNCHANGED <<sessionVars, sessions, ioVars, que, req>>
    BY <1>5 DEF GetSessionByUid
  <2>2. ASSUME NEW s \in Session, reader[s] = "new"
        PROVE  peer' # s /\ req.from # s /\ \A u \in Uid : online'[u] # s
    BY <1>5, <2>2, LookupMoves, ActorsAssumption DEF GetSessionByUid, TypeOK
  <2>3. \/ outbox' = outbox \/ outbox' = <<req.from>> \/ outbox' = <<peer', req.from>>
    BY <1>5, LookupMoves
  <2> QED
    BY <2>1, <2>2, <2>3 DEF sessionVars, ioVars
<1>6. CASE KickDone       BY <1>6 DEF KickDone, sessionVars, serverVars, ioVars
<1>7. CASE SetLoginUid    BY <1>7 DEF SetLoginUid, serverVars, ioVars
<1>8. CASE AddOnlineUser
  <2>1. req \in Request /\ req.uid \in Uid
    BY <1>8 DEF AddOnlineUser, WorkerBusy, Request
  <2>2. \A i \in 1 .. Len(outbox') : outbox'[i] = req.from
    BY <1>8 DEF AddOnlineUser
  <2> QED
    BY <1>8, <2>1, <2>2 DEF AddOnlineUser, sessionVars, ioVars, TypeOK
<1>9. CASE SendTest \/ SendWrite \/ HandlerReturn
  <2>1. /\ outbox' = outbox \/ (outbox # <<>> /\ outbox' = Tail(outbox))
        /\ pc # "wait" /\ (pc' = "wait" \/ req' = req) /\ peer' \in {peer, None}
        /\ UNCHANGED <<stop, open, serverVars, reader, io, que>>
    BY <1>9 DEF SendTest, SendWrite, HandlerReturn, sessionVars, ioVars, WorkerBusy
  <2>2. ASSUME NEW s \in Session, write'[s] # "none", write[s] = "none"
        PROVE  outbox # <<>> /\ outbox[1] = s
    BY <1>9, <2>2 DEF SendTest, SendWrite, HandlerReturn, ioVars, WorkerBusy, TypeOK
  <2>3. \A i \in 1 .. Len(outbox') :
          \E j \in 1 .. Len(outbox) : outbox'[i] = outbox[j]
    <3>1. CASE outbox' = outbox
      BY <3>1
    <3>2. CASE outbox # <<>> /\ outbox' = Tail(outbox)
      <4>1. \A i \in 1 .. Len(outbox') :
              i + 1 \in 1 .. Len(outbox) /\ outbox'[i] = outbox[i + 1]
        BY <3>2 DEF TypeOK
      <4> QED
        BY <4>1
    <3> QED
      BY <2>1, <3>1, <3>2
  <2>4. ASSUME NEW s \in Session, reader[s] = "new"
        PROVE  write'[s] = "none"
    <3>1. outbox # <<>> => 1 \in 1 .. Len(outbox)
      BY DEF TypeOK
    <3> QED
      BY <2>2, <2>4, <3>1
  <2>5. ASSUME NEW s \in Session, reader[s] = "new"
        PROVE  peer' # s /\ (pc' # "wait" => req'.from # s)
    BY <2>1, <2>5, ActorsAssumption
  <2>6. ASSUME NEW s \in Session, reader[s] = "new", NEW i \in 1 .. Len(outbox')
        PROVE  outbox'[i] # s
    BY <2>3, <2>6
  <2> QED
    BY <2>1, <2>4, <2>5, <2>6 DEF serverVars
<1> QED
  BY <1>1, <1>2, <1>3, <1>4, <1>5, <1>6, <1>7, <1>8, <1>9 DEF Next, Handler

(* Only the accept opens a socket; whoever sets stop goes on to close it.  *)
LEMMA OpenUntilClosedStep ==
  ASSUME TypeOK, CloserHolds, WorkerBusy, NewIsUnknown, OpenUntilClosed, [Next]_vars
  PROVE  OpenUntilClosed'
<1> USE DEF OpenUntilClosed
<1>1. CASE UNCHANGED <<close, stop, open>>
  BY <1>1
<1>2. ASSUME NEW s \in Session, AcceptStart(s) \/ AcceptFail(s)
      PROVE  OpenUntilClosed'
  <2>1. UNCHANGED close /\ ~(open'[s] /\ stop'[s])
    BY <1>2 DEF AcceptStart, AcceptFail, NewIsUnknown, TypeOK
  <2>2. \A t \in Session : t # s => open'[t] = open[t] /\ stop'[t] = stop[t]
    BY <1>2 DEF AcceptStart, AcceptFail, TypeOK
  <2> QED
    BY <2>1, <2>2
<1>3. ASSUME NEW s \in Session, ReadFail(s) \/ WriteFail(s)
      PROVE  OpenUntilClosed'
  <2>1. /\ UNCHANGED <<stop, open>> /\ close[s].at = "out"
        /\ close' = [close EXCEPT ![s] = Closing(s)]
    BY <1>3 DEF ReadFail, WriteFail, sessionVars, CloserHolds
  <2> QED
    BY <2>1 DEF TypeOK
<1>4. ASSUME NEW a \in Actor, Close(a)
      PROVE  OpenUntilClosed'
  <2>1. ASSUME NEW b \in Actor, close[b].at # "out" PROVE close[b].on \in Session
    BY <2>1, ActorsAssumption DEF CloserHolds, Actor
  <2>2. \A b \in Actor : b # a => close'[b] = close[b]
    BY <1>4, CloseMoves
  <2>3. CASE CloseSocket(a)
    <3>1. open' = [open EXCEPT ![close[a].on] = FALSE] /\ UNCHANGED stop
      BY <2>3 DEF CloseSocket
    <3>2. ASSUME NEW t \in Session, open'[t] /\ stop'[t]
          PROVE  t # close[a].on /\ open[t] /\ stop[t]
      BY <3>1, <3>2 DEF TypeOK
    <3> QED
      BY <2>2, <3>2
  <2>4. CASE CloseCas(a) /\ ~stop[close[a].on]
    <3>1. stop' = [stop EXCEPT ![close[a].on] = TRUE] /\ UNCHANGED open
      BY <2>4 DEF CloseCas
    <3>2. close'[a].at = "socket" /\ close'[a].on = close[a].on
      BY <1>4, <2>4, CloseMoves DEF CloseCas, TypeOK
    <3>3. close[a].at # "socket"
      BY <2>4 DEF CloseCas
    <3>4. ASSUME NEW t \in Session, t # close[a].on, open'[t] /\ stop'[t]
          PROVE  open[t] /\ stop[t]
      BY <3>1, <3>4 DEF TypeOK
    <3> QED
      BY <2>2, <3>2, <3>3, <3>4
  <2>5. CASE UNCHANGED <<stop, open>> /\ close[a].at # "socket"
    BY <2>2, <2>5
  <2> QED
    BY <1>4, <2>3, <2>4, <2>5
    DEF Close, CloseCas, CloseTakeUid, RemoveOnlineUser, sessionVars
<1>5. CASE GetSessionByUid
  <2>1. /\ UNCHANGED <<stop, open>> /\ close[Worker].at = "out"
        /\ \A a \in Actor : a # Worker => close'[a] = close[a]
    BY <1>5, LookupMoves DEF GetSessionByUid, sessionVars, CloserHolds, TypeOK
  <2> QED
    BY <2>1
<1> QED
  BY <1>1, <1>2, <1>3, <1>4, <1>5
  DEF Next, IoThread, Handler, vars, sessionVars, AcceptInsert, ReadMsg, LoopTest,
      WriteDone, ClearSession, Dequeue, KickDone, SetLoginUid, AddOnlineUser,
      SendTest, SendWrite, HandlerReturn

(* The compare-exchange lets nobody in who finds stop set.                 *)
LEMMA TeardownOnceStep ==
  ASSUME TypeOK, CloserHolds, WorkerBusy, TeardownStops, TeardownOnce, [Next]_vars
  PROVE  TeardownOnce'
<1> USE DEF TeardownOnce, InTeardown
<1>1. CASE UNCHANGED close
  BY <1>1
<1>2. ASSUME NEW s \in Session, ReadFail(s) \/ WriteFail(s)
      PROVE  TeardownOnce'
  <2>1. close' = [close EXCEPT ![s] = Closing(s)]
    BY <1>2 DEF ReadFail, WriteFail
  <2> QED
    BY <2>1 DEF TypeOK, Closing, Actor
<1>3. ASSUME NEW a \in Actor, Close(a)
      PROVE  TeardownOnce'
  <2>1. \A b \in Actor : b # a => close'[b] = close[b]
    BY <1>3, CloseMoves
  <2>2. CASE close[a].at = "cas" /\ close'[a].at = "socket"
    <3>1. ~stop[close[a].on] /\ close'[a].on = close[a].on
      BY <1>3, <2>2, CloseMoves DEF Close, CloseCas, CloseSocket, CloseTakeUid,
                                    RemoveOnlineUser, NotClosing, TypeOK
    <3> QED
      BY <2>1, <3>1 DEF TeardownStops
  <2>3. CASE close'[a].at # "out" => close[a].at \in {"socket", "take"}
    <3>1. close'[a].at # "out" => close'[a].on = close[a].on
      BY <1>3, CloseMoves
    <3> QED
      BY <2>1, <2>3, <3>1
  <2> QED
    BY <1>3, <2>2, <2>3, CloseMoves
<1>4. CASE GetSessionByUid
  <2>1. CASE close' = [close EXCEPT ![Worker] = Closing(peer')]
    BY <2>1 DEF TypeOK, Closing, Actor
  <2> QED
    BY <1>1, <1>4, <2>1, LookupMoves
<1> QED
  BY <1>1, <1>2, <1>3, <1>4
  DEF Next, IoThread, Handler, vars, AcceptStart, AcceptInsert, AcceptFail, ReadMsg,
      LoopTest, WriteDone, ClearSession, Dequeue, KickDone, SetLoginUid,
      AddOnlineUser, SendTest, SendWrite, HandlerReturn

(* ClearSession follows Close, so what it erases is stopped.               *)
LEMMA OpenIsCatalogedStep ==
  ASSUME TypeOK, ClearAfterStop, LoopIsParked, OpenIsCataloged, [Next]_vars
  PROVE  OpenIsCataloged'
<1> USE DEF OpenIsCataloged
<1>1. CASE UNCHANGED <<reader, io, stop, sessions>>
  BY <1>1
<1>2. ASSUME NEW s \in Session, IoThread(s)
      PROVE  OpenIsCataloged'
  <2> USE DEF TypeOK, sessionVars, serverVars
  <2>1. CASE AcceptStart(s)   BY <2>1 DEF AcceptStart
  <2>2. CASE AcceptInsert(s)  BY <2>2 DEF AcceptInsert
  <2>3. CASE AcceptFail(s)    BY <2>3 DEF AcceptFail
  <2>4. CASE ReadMsg(s)       BY <2>4 DEF ReadMsg
  <2>5. CASE LoopTest(s)      BY <2>5 DEF LoopTest, LoopIsParked
  <2>6. CASE ReadFail(s)      BY <2>6 DEF ReadFail
  <2>7. CASE WriteDone(s)     BY <2>7 DEF WriteDone
  <2>8. CASE WriteFail(s)     BY <2>8 DEF WriteFail
  <2>9. CASE ClearSession(s)  BY <2>9 DEF ClearSession, ClearAfterStop
  <2> QED
    BY <1>2, <2>1, <2>2, <2>3, <2>4, <2>5, <2>6, <2>7, <2>8, <2>9 DEF IoThread
<1>3. ASSUME NEW a \in Actor, Close(a)
      PROVE  OpenIsCataloged'
  <2>1. UNCHANGED <<reader, io, sessions>> /\ \A s \in Session : stop[s] => stop'[s]
    BY <1>3 DEF Close, CloseCas, CloseSocket, CloseTakeUid, RemoveOnlineUser,
                ioVars, serverVars, sessionVars, TypeOK
  <2> QED
    BY <2>1
<1> QED
  BY <1>1, <1>2, <1>3
  DEF Next, Handler, vars, sessionVars, serverVars, ioVars, Dequeue, GetSessionByUid,
      KickDone, SetLoginUid, AddOnlineUser, SendTest, SendWrite, HandlerReturn

-----------------------------------------------------------------------------
(* The theorems.                                                           *)

(* The strengthened invariant holds in the initial state...                *)
LEMMA InitIInv == Init => IInv
<1> SUFFICES ASSUME Init PROVE IInv
  OBVIOUS
<1> USE ActorsAssumption DEF Init, NotClosing, Actor
<1>1. TypeOK
  BY DEF TypeOK
<1>2. CloserHolds /\ WorkerBusy /\ TeardownStops
  BY DEF CloserHolds, WorkerBusy, TeardownStops
<1>3. ClearAfterStop /\ LoopIsParked /\ NewIsUnknown /\ OpenUntilClosed
  BY DEF ClearAfterStop, LoopIsParked, NewIsUnknown, OpenUntilClosed
<1>4. TeardownOnce /\ OpenIsCataloged
  BY DEF TeardownOnce, InTeardown, OpenIsCataloged
<1> QED
  BY <1>1, <1>2, <1>3, <1>4 DEF IInv

(* ... and every step keeps it.                                            *)
LEMMA NextIInv == IInv /\ [Next]_vars => IInv'
<1> SUFFICES ASSUME IInv, [Next]_vars PROVE IInv'
  OBVIOUS
<1>1. TypeOK'
  <2>1. CASE UNCHANGED vars
    BY <2>1 DEF IInv, TypeOK, vars, sessionVars, serverVars, ioVars, workerVars
  <2> QED
    BY <2>1, IoTypes, CloseTypes, HandlerTypes DEF IInv, Next
<1>2. CloserHolds' /\ WorkerBusy' /\ TeardownStops'
  BY CloserHoldsStep, WorkerBusyStep, TeardownStopsStep DEF IInv
<1>3. ClearAfterStop' /\ LoopIsParked' /\ NewIsUnknown' /\ OpenUntilClosed'
  BY ClearAfterStopStep, LoopIsParkedStep, NewIsUnknownStep, OpenUntilClosedStep DEF IInv
<1>4. TeardownOnce' /\ OpenIsCataloged'
  BY TeardownOnceStep, OpenIsCatalogedStep DEF IInv
<1> QED
  BY <1>1, <1>2, <1>3, <1>4 DEF IInv

LEMMA IInvHolds == Spec => []IInv
  BY InitIInv, NextIInv, PTL DEF Spec

(* Every variable keeps its type: in particular the uid a Close removes    *)
(* from the map and the session a handler answers are what they should be. *)
THEOREM TypeCorrect == Spec => []TypeOK
<1>1. IInv => TypeOK
  BY DEF IInv
<1> QED
  BY <1>1, IInvHolds, PTL

(* However many threads find a connection broken, and however the worker's *)
(* kick falls among them, the body of CSession::Close runs once.           *)
THEOREM TeardownRunsOnce == Spec => []TeardownOnce
<1>1. IInv => TeardownOnce
  BY DEF IInv
<1> QED
  BY <1>1, IInvHolds, PTL

(* No interleaving of HandleAccept, the coroutine it starts and the errors *)
(* of pending writes loses an open connection from CServer::_sessions.     *)
THEOREM OpenStaysCataloged == Spec => []OpenIsCataloged
<1>1. IInv => OpenIsCataloged
  BY DEF IInv
<1> QED
  BY <1>1, IInvHolds, PTL

(* When the last shared_ptr to a session goes, its socket is closed and    *)
(* nobody is inside its Close: what has an open socket is in _sessions or  *)
(* held by the thread that is closing it.                                  *)
THEOREM GarbageIsClosed == Spec => []NoLiveGarbage
<1>1. IInv => NoLiveGarbage
  <2> SUFFICES ASSUME IInv, NEW s \in Session, ~Referenced(s)
               PROVE  ~open[s] /\ \A a \in Actor : ~InTeardown(a, s)
    BY DEF NoLiveGarbage
  <2>1. ASSUME NEW a \in Actor, close[a].on = s PROVE close[a].at = "out"
    BY <2>1 DEF IInv, CloserHolds, Referenced, Actor
  <2>2. stop[s]
    BY DEF IInv, OpenIsCataloged, Referenced
  <2>3. ~open[s]
    BY <2>1, <2>2 DEF IInv, OpenUntilClosed
  <2> QED
    BY <2>1, <2>3 DEF InTeardown
<1> QED
  BY <1>1, IInvHolds, PTL

-----------------------------------------------------------------------------
(* Who is logged in: what the threads leave alone.                         *)

(* The io threads bind nobody and set stop at most.                        *)
LEMMA IoFrame ==
  ASSUME TypeOK, NEW s \in Session, IoThread(s)
  PROVE  /\ UNCHANGED <<loginUid, online, workerVars>>
         /\ \A t \in Session : stop[t] => stop'[t]
         /\ que' = que \/ \E r \in RequestOf(s) : que' = Append(que, r)
<1> USE DEF TypeOK, sessionVars, serverVars, workerVars
<1>1. CASE AcceptStart(s)   BY <1>1 DEF AcceptStart
<1>2. CASE AcceptInsert(s)  BY <1>2 DEF AcceptInsert
<1>3. CASE AcceptFail(s)    BY <1>3 DEF AcceptFail
<1>4. CASE ReadMsg(s)       BY <1>4 DEF ReadMsg
<1>5. CASE LoopTest(s)      BY <1>5 DEF LoopTest
<1>6. CASE ReadFail(s)      BY <1>6 DEF ReadFail
<1>7. CASE WriteDone(s)     BY <1>7 DEF WriteDone
<1>8. CASE WriteFail(s)     BY <1>8 DEF WriteFail
<1>9. CASE ClearSession(s)  BY <1>9 DEF ClearSession
<1> QED
  BY <1>1, <1>2, <1>3, <1>4, <1>5, <1>6, <1>7, <1>8, <1>9 DEF IoThread

(* Close takes the uid of a session whose stop is set, and entries out of  *)
(* the map.                                                                *)
LEMMA CloseFrame ==
  ASSUME IInv, NEW a \in Actor, Close(a)
  PROVE  /\ UNCHANGED <<que, workerVars>>
         /\ \A t \in Session : stop[t] => stop'[t]
         /\ \A t \in Session : stop[t] \/ loginUid'[t] = loginUid[t]
         /\ \A u \in Uid : online'[u] \in {online[u], None}
<1> USE DEF IInv, TypeOK, sessionVars, serverVars, workerVars
<1>1. CASE CloseCas(a)          BY <1>1 DEF CloseCas
<1>2. CASE CloseSocket(a)       BY <1>2 DEF CloseSocket
<1>3. CASE CloseTakeUid(a)
  <2>1. stop[close[a].on]
    BY <1>3 DEF CloseTakeUid, TeardownStops
  <2>2. \A t \in Session : t # close[a].on => loginUid'[t] = loginUid[t]
    BY <1>3 DEF CloseTakeUid
  <2> QED
    BY <1>3, <2>1, <2>2 DEF CloseTakeUid
<1>4. CASE RemoveOnlineUser(a)  BY <1>4 DEF RemoveOnlineUser
<1> QED
  BY <1>1, <1>2, <1>3, <1>4 DEF Close

(* Who is about to be entered in the map is bound to the user, or closing. *)
BoundOrStopped == pc = "register" => loginUid[req.from] = req.uid \/ stop[req.from]

(* Only Close unbinds, and only a session that is stopped; only the worker *)
(* binds, and it goes straight on to the map.                              *)
LEMMA BoundOrStoppedStep ==
  ASSUME IInv, BoundOrStopped, [Next]_vars
  PROVE  BoundOrStopped'
<1> USE DEF BoundOrStopped
<1>1. pc = "register" => req.from \in Session
  BY DEF IInv, WorkerBusy, Request
<1>2. CASE UNCHANGED vars
  BY <1>2 DEF vars, sessionVars, workerVars
<1>3. ASSUME NEW s \in Session, IoThread(s)
      PROVE  BoundOrStopped'
  BY <1>1, <1>3, IoFrame DEF IInv, workerVars
<1>4. ASSUME NEW a \in Actor, Close(a)
      PROVE  BoundOrStopped'
  BY <1>1, <1>4, CloseFrame DEF workerVars
<1>5. CASE SetLoginUid
  <2>1. req.from \in Session
    BY <1>5 DEF SetLoginUid, IInv, WorkerBusy, Request
  <2> QED
    BY <1>5, <2>1 DEF SetLoginUid, IInv, TypeOK
<1>6. CASE Handler /\ ~SetLoginUid
  <2>1. pc' # "register"
    BY <1>6 DEF Handler, Dequeue, GetSessionByUid, KickDone, AddOnlineUser, SendTest,
                SendWrite, HandlerReturn
  <2> QED
    BY <2>1
<1> QED
  BY <1>2, <1>3, <1>4, <1>5, <1>6 DEF Next

-----------------------------------------------------------------------------
(* One account for each client.                                            *)

(* A request to log in is for an account of the client that sent it.       *)
LoginsOfClients ==
  /\ \A i \in 1 .. Len(que) :
       que[i].kind = "login" => que[i].uid \in Credentials[que[i].from]
  /\ pc # "wait" /\ req.kind = "login" => req.uid \in Credentials[req.from]
  /\ pc \in {"kick", "bind", "register"} => req.kind = "login"
  /\ Len(outbox) <= 2

(* So is an entry in the map.                                              *)
EntryIsAccount ==
  \A u \in Uid, s \in Session : online[u] = s => u \in Credentials[s]

(* What the lookup of a push found stays the receiver it looked up, from   *)
(* the lookup to the write.                                                *)
ReceiverIsOwner ==
  pc \in {"send", "write"} /\ req.kind = "push" /\ Len(outbox) = 2 /\ ~stop[outbox[1]]
    => loginUid[outbox[1]] = req.uid

OwnerInv ==
  BoundOrStopped /\ LoginsOfClients /\ EntryIsAccount /\ OnlineIsOwner /\ ReceiverIsOwner

(* Lengths of what a handler has to send.                                  *)
LEMMA AtMostOne ==
  ASSUME NEW b, NEW x, b = <<>> \/ b = <<x>>
  PROVE  Len(b) \in Nat /\ Len(b) <= 1
<1>1. CASE b = <<>>   BY <1>1
<1>2. CASE b = <<x>>  BY <1>2
<1> QED
  BY <1>1, <1>2

LEMMA OneOrTwo ==
  ASSUME NEW b, NEW x, b = <<x>> \/ b = <<x, x>>
  PROVE  Len(b) \in Nat /\ Len(b) <= 2
<1>1. CASE b = <<x>>     BY <1>1
<1>2. CASE b = <<x, x>>  BY <1>2
<1> QED
  BY <1>1, <1>2

(* What is queued and handled was sent by the client it is from.           *)
LEMMA LoginsOfClientsStep ==
  ASSUME IInv, LoginsOfClients, [Next]_vars
  PROVE  LoginsOfClients'
<1> USE DEF LoginsOfClients
<1>1. que \in Seq(Request) /\ outbox \in Seq(Session)
  BY DEF IInv, TypeOK
<1>2. CASE UNCHANGED <<que, workerVars>>
  BY <1>2 DEF workerVars
<1>3. ASSUME NEW s \in Session, IoThread(s), NEW r \in RequestOf(s), que' = Append(que, r)
      PROVE  LoginsOfClients'
  <2>1. r.kind = "login" => r.uid \in Credentials[r.from]
    BY <1>3 DEF RequestOf, LoginOf, PushOf, ReplyOf
  <2>2. \A i \in 1 .. Len(que') :
          \/ i \in 1 .. Len(que) /\ que'[i] = que[i]
          \/ que'[i] = r
    BY <1>1, <1>3
  <2>3. UNCHANGED workerVars
    BY <1>3, IoFrame DEF IInv
  <2> QED
    BY <2>1, <2>2, <2>3 DEF workerVars
<1>4. CASE Dequeue
  <2>1. /\ Head(que) = que[1] /\ 1 \in 1 .. Len(que)
        /\ \A i \in 1 .. Len(que') : i + 1 \in 1 .. Len(que) /\ que'[i] = que[i + 1]
    BY <1>1, <1>4 DEF Dequeue
  <2>2. outbox' = <<>> \/ outbox' = <<Head(que).from>>
    BY <1>4 DEF Dequeue
  <2>3. Len(outbox') \in Nat /\ Len(outbox') <= 1
    BY <2>2, AtMostOne
  <2>4. Len(outbox') <= 2
    BY <2>3
  <2> QED
    BY <1>4, <2>1, <2>4 DEF Dequeue
<1>5. CASE GetSessionByUid
  <2>1. outbox' = outbox \/ outbox' = <<req.from>> \/ outbox' = <<peer', req.from>>
    BY <1>5, LookupMoves DEF IInv
  <2>2. Len(outbox') <= 2
    BY <2>1
  <2> QED
    BY <1>5, <2>2 DEF GetSessionByUid
<1>6. CASE KickDone       BY <1>6 DEF KickDone
<1>7. CASE SetLoginUid    BY <1>7 DEF SetLoginUid
<1>8. CASE AddOnlineUser
  <2>1. outbox' = <<req.from>> \/ outbox' = <<req.from, req.from>>
    BY <1>8 DEF AddOnlineUser
  <2>2. Len(outbox') <= 2
    BY <2>1, OneOrTwo
  <2> QED
    BY <1>8, <2>2 DEF AddOnlineUser
<1>9. CASE SendTest \/ SendWrite \/ HandlerReturn
  <2>1. Len(outbox') <= 2
    BY <1>1, <1>9 DEF SendTest, SendWrite, HandlerReturn, IInv, WorkerBusy
  <2>2. UNCHANGED que /\ pc # "wait" /\ pc' \in {"send", "write", "wait"}
        /\ (pc' = "wait" \/ req' = req)
    BY <1>9 DEF SendTest, SendWrite, HandlerReturn
  <2> QED
    BY <2>1, <2>2
<1> QED
  BY <1>2, <1>3, <1>4, <1>5, <1>6, <1>7, <1>8, <1>9, IoFrame, CloseFrame
  DEF Next, Handler, IInv, vars

(* AddOnlineUser enters the session a login came from; all else removes.   *)
LEMMA EntryIsAccountStep ==
  ASSUME IInv, LoginsOfClients, EntryIsAccount, [Next]_vars
  PROVE  EntryIsAccount'
<1> USE DEF EntryIsAccount
<1>1. CASE UNCHANGED online
  BY <1>1
<1>2. ASSUME NEW a \in Actor, Close(a)
      PROVE  EntryIsAccount'
  BY <1>2, CloseFrame, ActorsAssumption
<1>3. CASE GetSessionByUid
  <2>1. \A u \in Uid : online'[u] \in {online[u], None}
    BY <1>3, LookupMoves DEF IInv, TypeOK
  <2> QED
    BY <2>1, ActorsAssumption
<1>4. CASE AddOnlineUser
  <2>1. req.uid \in Credentials[req.from]
    BY <1>4 DEF AddOnlineUser, LoginsOfClients
  <2> QED
    BY <1>4, <2>1 DEF AddOnlineUser, IInv, TypeOK
<1> QED
  BY <1>1, <1>2, <1>3, <1>4, IoFrame
  DEF Next, Handler, IInv, vars, serverVars, Dequeue, KickDone, SetLoginUid, SendTest,
      SendWrite, HandlerReturn

(* An entry is made after its session was bound; a session is bound again  *)
(* only to the same user.                                                  *)
LEMMA OnlineIsOwnerStep ==
  ASSUME \A s \in Session : \A u, v \in Credentials[s] : u = v,
         IInv, OwnerInv, [Next]_vars
  PROVE  OnlineIsOwner'
<1> USE DEF OnlineIsOwner
<1>1. OnlineIsOwner /\ BoundOrStopped /\ LoginsOfClients /\ EntryIsAccount
  BY DEF OwnerInv
<1>2. CASE UNCHANGED <<online, loginUid, stop>>
  BY <1>1, <1>2
<1>3. ASSUME NEW s \in Session, IoThread(s)
      PROVE  OnlineIsOwner'
  BY <1>1, <1>3, IoFrame DEF IInv
<1>4. ASSUME NEW a \in Actor, Close(a)
      PROVE  OnlineIsOwner'
  BY <1>1, <1>4, CloseFrame, ActorsAssumption
<1>5. CASE GetSessionByUid
  <2>1. (\A u \in Uid : online'[u] \in {online[u], None}) /\ UNCHANGED <<stop, loginUid>>
    BY <1>5, LookupMoves DEF IInv, TypeOK, GetSessionByUid, sessionVars
  <2> QED
    BY <1>1, <2>1, ActorsAssumption
<1>6. CASE SetLoginUid
  <2>1. req.uid \in Credentials[req.from] /\ req.from \in Session
    BY <1>1, <1>6 DEF SetLoginUid, LoginsOfClients, IInv, WorkerBusy, Request
  <2>2. \A u \in Uid : online[u] = req.from => u = req.uid
    BY <1>1, <2>1 DEF EntryIsAccount
  <2> QED
    BY <1>1, <1>6, <2>1, <2>2 DEF SetLoginUid, IInv, TypeOK, serverVars
<1>7. CASE AddOnlineUser
  <2>1. loginUid[req.from] = req.uid \/ stop[req.from]
    BY <1>1, <1>7 DEF AddOnlineUser, BoundOrStopped
  <2> QED
    BY <1>1, <1>7, <2>1 DEF AddOnlineUser, IInv, TypeOK, sessionVars
<1> QED
  BY <1>2, <1>3, <1>4, <1>5, <1>6, <1>7
  DEF Next, Handler, vars, sessionVars, serverVars, Dequeue, KickDone, SendTest,
      SendWrite, HandlerReturn

(* Nothing binds a session between the lookup and the write: the worker    *)
(* does both, and Close sets stop before it takes the uid.                 *)
LEMMA ReceiverIsOwnerStep ==
  ASSUME IInv, OwnerInv, [Next]_vars
  PROVE  ReceiverIsOwner'
<1> USE DEF ReceiverIsOwner
<1>1. /\ OnlineIsOwner /\ ReceiverIsOwner /\ LoginsOfClients
      /\ outbox \in Seq(Session) /\ Len(outbox) <= 2
  BY DEF OwnerInv, IInv, TypeOK, LoginsOfClients
<1>2. Len(outbox) = 2 => outbox[1] \in Session
  BY <1>1
<1>3. CASE UNCHANGED vars
  BY <1>1, <1>3 DEF vars, sessionVars, workerVars
<1>4. ASSUME NEW s \in Session, IoThread(s)
      PROVE  ReceiverIsOwner'
  BY <1>1, <1>2, <1>4, IoFrame DEF IInv, workerVars
<1>5. ASSUME NEW a \in Actor, Close(a)
      PROVE  ReceiverIsOwner'
  BY <1>1, <1>2, <1>5, CloseFrame DEF workerVars
<1>6. CASE GetSessionByUid
  <2>1. ASSUME pc' = "send", Len(outbox') = 2
        PROVE  outbox'[1] = online[req.uid] /\ outbox'[1] \in Session /\ req.uid \in Uid
    BY <1>6, <2>1, LookupMoves, ActorsAssumption DEF IInv
  <2>2. UNCHANGED <<stop, loginUid, req>> /\ pc' # "write"
    BY <1>6 DEF GetSessionByUid, sessionVars
  <2> QED
    BY <1>1, <2>1, <2>2 DEF OnlineIsOwner
<1>7. CASE Dequeue
  <2>1. outbox' = <<>> \/ outbox' = <<Head(que).from>>
    BY <1>7 DEF Dequeue
  <2>2. Len(outbox') \in Nat /\ Len(outbox') <= 1
    BY <2>1, AtMostOne
  <2> QED
    BY <2>2
<1>8. CASE AddOnlineUser
  <2>1. req'.kind = "login"
    BY <1>1, <1>8 DEF AddOnlineUser, LoginsOfClients
  <2> QED
    BY <2>1
<1>9. CASE SendTest \/ SendWrite
  <2>1. CASE outbox' = outbox
    <3>1. UNCHANGED <<stop, loginUid, req>> /\ pc \in {"send", "write"}
      BY <1>9 DEF SendTest, SendWrite, sessionVars
    <3> QED
      BY <1>1, <2>1, <3>1
  <2>2. CASE outbox' = Tail(outbox) /\ outbox # <<>>
    <3>1. PICK n \in Nat : n = Len(outbox)
      BY <1>1
    <3>2. Len(outbox') = n - 1 /\ n <= 2
      BY <1>1, <2>2, <3>1
    <3>3. Len(outbox') # 2
      BY <3>2
    <3> QED
      BY <3>3
  <2> QED
    BY <1>9, <2>1, <2>2 DEF SendTest, SendWrite, IInv, WorkerBusy
<1>10. CASE KickDone \/ SetLoginUid \/ HandlerReturn
  BY <1>10 DEF KickDone, SetLoginUid, HandlerReturn
<1> QED
  BY <1>3, <1>4, <1>5, <1>6, <1>7, <1>8, <1>9, <1>10 DEF Next, Handler

LEMMA OwnerInvHolds ==
  ASSUME \A s \in Session : \A u, v \in Credentials[s] : u = v
  PROVE  Spec => []OwnerInv
<1>1. Init => OwnerInv
  BY ActorsAssumption
  DEF Init, OwnerInv, BoundOrStopped, LoginsOfClients, EntryIsAccount, OnlineIsOwner,
      ReceiverIsOwner
<1>2. IInv /\ OwnerInv /\ [Next]_vars => OwnerInv'
  BY BoundOrStoppedStep, LoginsOfClientsStep, EntryIsAccountStep, OnlineIsOwnerStep,
     ReceiverIsOwnerStep
  DEF OwnerInv
<1> QED
  BY IInvHolds, <1>1, <1>2, PTL DEF Spec

(* While each client has one account, an entry of UserManager's map that   *)
(* leads to an open session leads to one logged in as that user, however   *)
(* closing threads and the worker's logins follow one another.             *)
THEOREM EntriesLeadToOwners ==
  ASSUME \A s \in Session : \A u, v \in Credentials[s] : u = v
  PROVE  Spec => []OnlineIsOwner
<1>1. OwnerInv => OnlineIsOwner
  BY DEF OwnerInv
<1> QED
  BY OwnerInvHolds, <1>1, PTL

(* Then a chat message or friend request is written only to a session of   *)
(* the user it is for, although UserManager's mutex is not held between    *)
(* the lookup and the write and other threads close sessions meanwhile.    *)
THEOREM PushesReachOwners ==
  ASSUME \A s \in Session : \A u, v \in Credentials[s] : u = v
  PROVE  Spec => []PushToOwner
<1>1. IInv /\ OwnerInv => PushToOwner
  <2> SUFFICES ASSUME IInv, OwnerInv, pc = "write", req.kind = "push",
                      Len(outbox) = 2, ~stop[Head(outbox)]
               PROVE  loginUid[Head(outbox)] = req.uid
    BY DEF PushToOwner
  <2>1. Head(outbox) = outbox[1]
    BY DEF IInv, TypeOK
  <2> QED
    BY <2>1 DEF OwnerInv, ReceiverIsOwner
<1> QED
  BY IInvHolds, OwnerInvHolds, <1>1, PTL

-----------------------------------------------------------------------------
(* Any account for any client, and peers that leave.                       *)

(* A session that closes on its own, after a failure, takes the entry of   *)
(* its user out of the map although it leads to another session by now,    *)
(* which is open and logged in.                                            *)
ForeignRemoval ==
  \E a \in Session :
    /\ RemoveOnlineUser(a)
    /\ \E s \in Session :
         ~stop[s] /\ loginUid[s] = close[a].uid /\ online[close[a].uid] = s

KickedIsStopped ==
  pc = "kick" => peer \in Session /\ (close[Worker].at # "cas" => stop[peer])

(* The user that a kick takes out of the map is not logged in elsewhere.   *)
TornIsLast ==
  \A t \in Session : ~stop[t] /\ loginUid[t] # None =>
    /\ close[Worker].at \in {"socket", "take"} =>
         loginUid[t] # loginUid[close[Worker].on]
    /\ close[Worker].at = "remove" => loginUid[t] # close[Worker].uid

(* From its lookup on, a login knows the only session its user may have.   *)
OthersKicked ==
  pc \in {"kick", "bind", "register"} =>
    \A t \in Session : ~stop[t] /\ loginUid[t] = req.uid =>
      (pc = "kick" /\ t = peer) \/ (pc = "register" /\ t = req.from)

KickInv ==
  BoundOrStopped /\ KickedIsStopped /\ TornIsLast /\ OthersKicked /\ BoundIsOnline

(* Two sessions of one user would be two values of one entry, except while *)
(* the newer one is not entered yet, and then the older one is closed.     *)
LEMMA SingleIfOnline ==
  ASSUME BoundOrStopped, OthersKicked, BoundIsOnline
  PROVE  SingleLogin
<1> SUFFICES ASSUME NEW s \in Session, NEW t \in Session, loginUid[s] # None,
                    loginUid[s] = loginUid[t], ~stop[s], ~stop[t]
             PROVE  s = t
  BY DEF SingleLogin
<1>1. CASE pc = "register" /\ (req.from = s \/ req.from = t)
  <2>1. loginUid[s] = req.uid /\ loginUid[t] = req.uid
    BY <1>1 DEF BoundOrStopped
  <2> QED
    BY <1>1, <2>1 DEF OthersKicked
<1>2. CASE ~(pc = "register" /\ (req.from = s \/ req.from = t))
  BY <1>2 DEF BoundIsOnline
<1> QED
  BY <1>1, <1>2

-----------------------------------------------------------------------------
(* The steps of the threads, as far as KickInv is concerned.               *)

(* The worker's Close is its own.                                          *)
LEMMA IoQuiet ==
  ASSUME TypeOK, NEW s \in Session, IoThread(s)
  PROVE  close'[Worker] = close[Worker]
<1> USE ActorsAssumption DEF TypeOK, Actor
<1>1. CASE ReadFail(s)   BY <1>1 DEF ReadFail
<1>2. CASE WriteFail(s)  BY <1>2 DEF WriteFail
<1> QED
  BY <1>1, <1>2 DEF IoThread, AcceptStart, AcceptInsert, AcceptFail, ReadMsg, LoopTest,
                    WriteDone, ClearSession

(* Nor is it disturbed by those of the io threads, which unbind only       *)
(* sessions whose stop is set.                                             *)
LEMMA OwnCloseQuiet ==
  ASSUME IInv, NEW s \in Session, Close(s)
  PROVE  /\ close'[Worker] = close[Worker] /\ UNCHANGED workerVars
         /\ \A t \in Session : stop[t] => stop'[t]
         /\ \A t \in Session : stop[t] \/ loginUid'[t] = loginUid[t]
         /\ \A t \in Session : loginUid'[t] \in {loginUid[t], None}
<1>1. Worker \in Actor /\ s \in Actor /\ Worker # s
  BY ActorsAssumption DEF Actor
<1>2. close'[Worker] = close[Worker]
  BY <1>1, CloseMoves DEF IInv
<1>3. \A t \in Session : loginUid'[t] \in {loginUid[t], None}
  BY DEF Close, CloseCas, CloseSocket, CloseTakeUid, RemoveOnlineUser, sessionVars, IInv, TypeOK
<1> QED
  BY <1>1, <1>2, <1>3, CloseFrame

(* The worker is inside Close for the session its login found.             *)
LEMMA KickedPeer ==
  ASSUME IInv, Close(Worker)
  PROVE  pc = "kick" /\ peer \in Session /\ close[Worker].on = peer /\ req \in Request
<1>1. close[Worker].at # "out"
  BY DEF Close, CloseCas, CloseSocket, CloseTakeUid, RemoveOnlineUser
<1> QED
  BY <1>1 DEF IInv, CloserHolds, WorkerBusy

(* A lookup finds the session of a user who is logged in: its entry has    *)
(* not expired, since a session that is open is in use.                    *)
LEMMA LookupFinds ==
  ASSUME IInv, BoundIsOnline, GetSessionByUid, NEW t \in Session,
         ~stop[t], loginUid[t] = req.uid
  PROVE  peer' = t
<1>1. req.uid \in Uid /\ pc = "lookup"
  BY LookupMoves DEF IInv, GetSessionByUid
<1>2. online[req.uid] = t
  BY <1>1, ActorsAssumption DEF BoundIsOnline
<1>3. Referenced(t)
  BY DEF IInv, OpenIsCataloged, Referenced
<1> QED
  BY <1>2, <1>3, ActorsAssumption DEF GetSessionByUid

(* The compare-exchange of the kick sets stop, or finds it set.            *)
LEMMA KickedIsStoppedStep ==
  ASSUME IInv, KickedIsStopped, [Next]_vars
  PROVE  KickedIsStopped'
<1> USE DEF KickedIsStopped
<1>1. CASE UNCHANGED vars
  BY <1>1 DEF vars, sessionVars, workerVars
<1>2. ASSUME NEW s \in Session, IoThread(s)
      PROVE  KickedIsStopped'
  BY <1>2, IoFrame, IoQuiet DEF IInv, workerVars
<1>3. ASSUME NEW s \in Session, Close(s)
      PROVE  KickedIsStopped'
  BY <1>3, OwnCloseQuiet DEF workerVars, IInv, CloserHolds
<1>4. CASE Close(Worker)
  <2>1. /\ UNCHANGED workerVars /\ peer \in Session /\ close[Worker].on = peer
        /\ \A t \in Session : stop[t] => stop'[t]
    BY <1>4, KickedPeer, CloseFrame DEF Actor
  <2>2. CASE CloseCas(Worker)
    <3>1. stop'[peer]
      BY <2>1, <2>2 DEF CloseCas, IInv, TypeOK
    <3> QED
      BY <2>1, <3>1 DEF workerVars
  <2>3. CASE close[Worker].at # "cas"
    BY <1>4, <2>1, <2>3, KickedPeer DEF workerVars
  <2> QED
    BY <1>4, <2>2, <2>3 DEF Close, CloseSocket, CloseTakeUid, RemoveOnlineUser
<1>5. CASE GetSessionByUid
  <2>1. CASE /\ pc' = "kick" /\ peer' \in Session
             /\ close' = [close EXCEPT ![Worker] = Closing(peer')]
    BY <2>1 DEF Closing, IInv, TypeOK, Actor
  <2> QED
    BY <1>5, <2>1, LookupMoves DEF IInv
<1>6. CASE Handler /\ ~GetSessionByUid
  BY <1>6 DEF Handler, Dequeue, KickDone, SetLoginUid, AddOnlineUser, SendTest,
              SendWrite, HandlerReturn
<1> QED
  BY <1>1, <1>2, <1>3, <1>4, <1>5, <1>6 DEF Next, Actor

(* When the kick gets past the compare-exchange, its session is the only   *)
(* one of its user, and nobody logs in until the kick is done.             *)
LEMMA TornIsLastStep ==
  ASSUME IInv, KickInv, [Next]_vars
  PROVE  TornIsLast'
<1> USE DEF TornIsLast
<1>1. TornIsLast /\ SingleLogin
  BY SingleIfOnline DEF KickInv
<1>2. close[Worker].at # "out" =>
        pc = "kick" /\ peer \in Session /\ close[Worker].on = peer
  BY DEF IInv, CloserHolds
<1>3. CASE UNCHANGED <<close, loginUid, stop>>
  BY <1>1, <1>3
<1>4. ASSUME NEW s \in Session, IoThread(s)
      PROVE  TornIsLast'
  BY <1>1, <1>4, IoFrame, IoQuiet DEF IInv
<1>5. ASSUME NEW s \in Session, Close(s)
      PROVE  TornIsLast'
  <2>1. close[Worker].at # "out" => close[Worker].on \in Session
    BY <1>2
  <2>2. /\ close'[Worker] = close[Worker]
        /\ \A t \in Session : ~stop'[t] => ~stop[t] /\ loginUid'[t] = loginUid[t]
        /\ \A t \in Session : loginUid'[t] \in {loginUid[t], None}
    BY <1>5, OwnCloseQuiet
  <2> QED
    BY <1>1, <2>1, <2>2
<1>6. CASE Close(Worker)
  <2>1. peer \in Session /\ close[Worker].on = peer
    BY <1>6, KickedPeer
  <2>2. close \in [Actor -> CloseRecord] /\ Worker \in Actor
    BY DEF IInv, TypeOK, CloseRecord, Actor
  <2>3. CASE CloseCas(Worker)
    <3>1. CASE stop[peer]
      <4>1. close'[Worker].at = "out"
        BY <2>1, <2>2, <2>3, <3>1 DEF CloseCas, NotClosing
      <4> QED
        BY <4>1
    <3>2. CASE ~stop[peer]
      <4>1. /\ close' = [close EXCEPT ![Worker].at = "socket"]
            /\ stop' = [stop EXCEPT ![peer] = TRUE] /\ UNCHANGED loginUid
        BY <2>1, <2>3, <3>2 DEF CloseCas
      <4>2. close'[Worker].at = "socket" /\ close'[Worker].on = peer
        BY <2>1, <2>2, <4>1 DEF CloseRecord
      <4>3. ASSUME NEW t \in Session, ~stop'[t], loginUid[t] # None
            PROVE  loginUid[t] # loginUid[peer]
        <5>1. t # peer /\ ~stop[t]
          BY <2>1, <4>1, <4>3 DEF IInv, TypeOK
        <5> QED
          BY <1>1, <2>1, <3>2, <4>3, <5>1 DEF SingleLogin
      <4> QED
        BY <4>1, <4>2, <4>3
    <3> QED
      BY <3>1, <3>2
  <2>4. CASE CloseSocket(Worker)
    <3>1. /\ close[Worker].at = "socket" /\ close'[Worker].at = "take"
          /\ close'[Worker].on = peer /\ UNCHANGED <<stop, loginUid>>
      BY <2>1, <2>2, <2>4 DEF CloseSocket
    <3> QED
      BY <1>1, <2>1, <3>1
  <2>5. CASE CloseTakeUid(Worker) /\ loginUid[peer] = None
    <3>1. close'[Worker].at = "out"
      BY <2>1, <2>2, <2>5 DEF CloseTakeUid, NotClosing
    <3> QED
      BY <3>1
  <2>6. CASE CloseTakeUid(Worker) /\ loginUid[peer] # None
    <3>1. /\ close[Worker].at = "take" /\ UNCHANGED stop
          /\ close' = [close EXCEPT ![Worker].at = "remove", ![Worker].uid = loginUid[peer]]
          /\ loginUid' = [loginUid EXCEPT ![peer] = None]
      BY <2>1, <2>6 DEF CloseTakeUid
    <3>2. close'[Worker].at = "remove" /\ close'[Worker].uid = loginUid[peer]
      BY <2>2, <3>1
    <3>3. ASSUME NEW t \in Session, ~stop'[t], loginUid'[t] # None
          PROVE  loginUid'[t] # loginUid[peer]
      <4>1. t # peer /\ loginUid'[t] = loginUid[t]
        BY <2>1, <3>1, <3>3 DEF IInv, TypeOK
      <4> QED
        BY <1>1, <2>1, <3>1, <3>3, <4>1
    <3> QED
      BY <3>2, <3>3
  <2>7. CASE RemoveOnlineUser(Worker)
    <3>1. close'[Worker].at = "out"
      BY <2>2, <2>7 DEF RemoveOnlineUser, NotClosing
    <3> QED
      BY <3>1
  <2> QED
    BY <1>6, <2>3, <2>4, <2>5, <2>6, <2>7 DEF Close
<1>7. CASE GetSessionByUid
  <2>1. UNCHANGED <<stop, loginUid>> /\ close[Worker].at = "out"
    BY <1>2, <1>7 DEF GetSessionByUid, sessionVars
  <2>2. close'[Worker].at \in {"out", "cas"}
    BY <1>7, <2>1, LookupMoves DEF Closing, IInv, TypeOK, Actor
  <2> QED
    BY <2>2
<1>8. CASE SetLoginUid
  <2>1. close[Worker].at = "out" /\ UNCHANGED close
    BY <1>2, <1>8 DEF SetLoginUid
  <2> QED
    BY <2>1
<1> QED
  BY <1>3, <1>4, <1>5, <1>6, <1>7, <1>8
  DEF Next, Actor, Handler, vars, sessionVars, Dequeue, KickDone, AddOnlineUser, SendTest,
      SendWrite, HandlerReturn

(* The lookup finds whoever is bound to the user; the kick stops him.      *)
LEMMA OthersKickedStep ==
  ASSUME IInv, KickInv, [Next]_vars
  PROVE  OthersKicked'
<1> USE DEF OthersKicked
<1>1. OthersKicked /\ KickedIsStopped /\ BoundIsOnline
  BY DEF KickInv
<1>2. CASE UNCHANGED vars
  BY <1>1, <1>2 DEF vars, sessionVars, workerVars
<1>3. ASSUME NEW s \in Session, IoThread(s)
      PROVE  OthersKicked'
  BY <1>1, <1>3, IoFrame DEF IInv, workerVars
<1>4. ASSUME NEW a \in Actor, Close(a)
      PROVE  OthersKicked'
  <2>1. /\ UNCHANGED workerVars
        /\ \A t \in Session : ~stop'[t] => ~stop[t] /\ loginUid'[t] = loginUid[t]
    BY <1>4, CloseFrame
  <2> QED
    BY <1>1, <2>1 DEF workerVars
<1>5. CASE GetSessionByUid
  <2>1. UNCHANGED <<stop, loginUid, req>>
    BY <1>5 DEF GetSessionByUid, sessionVars
  <2>2. \A t \in Session : ~stop[t] /\ loginUid[t] = req.uid => peer' = t
    BY <1>1, <1>5, LookupFinds
  <2>3. pc' = "kick" \/ pc' = "send" \/ (pc' = "bind" /\ peer' = None)
    BY <1>5 DEF GetSessionByUid
  <2> QED
    BY <2>1, <2>2, <2>3, ActorsAssumption
<1>6. CASE KickDone
  <2>1. stop[peer] /\ UNCHANGED <<stop, loginUid, req>> /\ pc = "kick" /\ pc' = "bind"
    BY <1>1, <1>6 DEF KickDone, KickedIsStopped, sessionVars
  <2> QED
    BY <1>1, <2>1
<1>7. CASE SetLoginUid
  <2>1. /\ pc = "bind" /\ pc' = "register" /\ UNCHANGED <<stop, req>>
        /\ \A t \in Session : t # req.from => loginUid'[t] = loginUid[t]
    BY <1>7 DEF SetLoginUid, IInv, TypeOK
  <2> QED
    BY <1>1, <2>1
<1>8. CASE Dequeue \/ AddOnlineUser \/ SendTest \/ SendWrite \/ HandlerReturn
  <2>1. pc' \notin {"kick", "bind", "register"}
    BY <1>8 DEF Dequeue, AddOnlineUser, SendTest, SendWrite, HandlerReturn
  <2> QED
    BY <2>1
<1> QED
  BY <1>2, <1>3, <1>4, <1>5, <1>6, <1>7, <1>8 DEF Next, Handler

(* What removes or replaces an entry finds nobody else bound to its user.  *)
LEMMA BoundIsOnlineStep ==
  ASSUME IInv, KickInv, [Next]_vars, [~ForeignRemoval]_vars
  PROVE  BoundIsOnline'
<1> USE DEF BoundIsOnline
<1>1. BoundIsOnline /\ OthersKicked /\ BoundOrStopped /\ TornIsLast
  BY DEF KickInv
<1>2. online \in [Uid -> Session \cup {None}] /\ loginUid \in [Session -> Uid \cup {None}]
  BY DEF IInv, TypeOK
<1>3. CASE UNCHANGED vars
  BY <1>1, <1>3 DEF vars, sessionVars, serverVars, workerVars
<1>4. ASSUME NEW s \in Session, IoThread(s)
      PROVE  BoundIsOnline'
  BY <1>1, <1>4, IoFrame DEF IInv, workerVars
<1>5. ASSUME NEW s \in Session, Close(s)
      PROVE  BoundIsOnline'
  <2>1. /\ UNCHANGED workerVars
        /\ \A t \in Session : ~stop'[t] => ~stop[t] /\ loginUid'[t] = loginUid[t]
    BY <1>5, OwnCloseQuiet
  <2>2. CASE UNCHANGED online
    BY <1>1, <2>1, <2>2 DEF workerVars
  <2>3. CASE RemoveOnlineUser(s)
    <3>1. /\ close' = [close EXCEPT ![s] = NotClosing] /\ close[s].at = "remove"
          /\ \A u \in Uid : u # close[s].uid => online'[u] = online[u]
      BY <1>2, <2>3 DEF RemoveOnlineUser
    <3>2. close' # close
      BY <3>1 DEF NotClosing, IInv, TypeOK, Actor
    <3>3. ~ForeignRemoval
      BY <3>2 DEF vars
    <3>4. ASSUME NEW t \in Session, ~stop'[t], loginUid'[t] # None,
                 ~(pc = "register" /\ req.from = t)
          PROVE  online'[loginUid'[t]] = t
      <4>1. ~stop[t] /\ loginUid'[t] = loginUid[t] /\ loginUid[t] \in Uid
        BY <1>2, <2>1, <3>4
      <4>2. online[loginUid[t]] = t
        BY <1>1, <3>4, <4>1
      <4>3. loginUid[t] # close[s].uid
        BY <2>3, <3>3, <4>1, <4>2 DEF ForeignRemoval
      <4> QED
        BY <3>1, <4>1, <4>2, <4>3
    <3> QED
      BY <2>1, <3>4 DEF workerVars
  <2> QED
    BY <1>5, <2>2, <2>3 DEF Close, CloseCas, CloseSocket, CloseTakeUid, serverVars
<1>6. CASE Close(Worker)
  <2>1. /\ UNCHANGED workerVars
        /\ \A t \in Session : ~stop'[t] => ~stop[t] /\ loginUid'[t] = loginUid[t]
    BY <1>6, CloseFrame DEF Actor
  <2>2. CASE UNCHANGED online
    BY <1>1, <2>1, <2>2 DEF workerVars
  <2>3. CASE RemoveOnlineUser(Worker)
    <3>1. /\ close[Worker].at = "remove" /\ UNCHANGED <<stop, loginUid>>
          /\ \A u \in Uid : u # close[Worker].uid => online'[u] = online[u]
      BY <1>2, <2>3 DEF RemoveOnlineUser, sessionVars
    <3>2. \A t \in Session : ~stop[t] /\ loginUid[t] # None =>
            online'[loginUid[t]] = online[loginUid[t]]
      BY <1>1, <1>2, <3>1 DEF TornIsLast
    <3> QED
      BY <1>1, <2>1, <3>1, <3>2 DEF workerVars
  <2> QED
    BY <1>6, <2>2, <2>3 DEF Close, CloseCas, CloseSocket, CloseTakeUid, serverVars
<1>7. CASE GetSessionByUid
  <2>1. /\ UNCHANGED <<stop, loginUid, req>> /\ pc = "lookup" /\ pc' # "register"
        /\ req.uid \in Uid /\ online' = [online EXCEPT ![req.uid] = peer']
    BY <1>7, LookupMoves DEF GetSessionByUid, sessionVars, IInv
  <2>2. \A t \in Session : ~stop[t] /\ loginUid[t] = req.uid => peer' = t
    BY <1>1, <1>7, LookupFinds
  <2> QED
    BY <1>1, <1>2, <2>1, <2>2
<1>8. CASE SetLoginUid
  <2>1. /\ pc = "bind" /\ pc' = "register" /\ UNCHANGED <<stop, online, req>>
        /\ \A t \in Session : t # req.from => loginUid'[t] = loginUid[t]
    BY <1>2, <1>8 DEF SetLoginUid, serverVars
  <2> QED
    BY <1>1, <2>1
<1>9. CASE AddOnlineUser
  <2>1. /\ pc = "register" /\ pc' = "send" /\ UNCHANGED <<stop, loginUid>>
        /\ online' = [online EXCEPT ![req.uid] = req.from]
    BY <1>9 DEF AddOnlineUser, sessionVars
  <2>2. req.uid \in Uid
    BY <2>1 DEF IInv, WorkerBusy, Request
  <2>3. ASSUME NEW t \in Session, loginUid[t] # None, ~stop[t]
        PROVE  online'[loginUid[t]] = t
    <3>1. loginUid[t] \in Uid
      BY <1>2, <2>3
    <3>2. CASE t = req.from
      BY <1>1, <1>2, <2>1, <2>2, <2>3, <3>2 DEF BoundOrStopped
    <3>3. CASE t # req.from
      <4>1. loginUid[t] # req.uid
        BY <1>1, <2>1, <2>3, <3>3 DEF OthersKicked
      <4> QED
        BY <1>1, <1>2, <2>1, <2>3, <3>1, <3>3, <4>1
    <3> QED
      BY <3>2, <3>3
  <2> QED
    BY <2>1, <2>3
<1>10. CASE Dequeue \/ KickDone \/ SendTest \/ SendWrite \/ HandlerReturn
  <2>1. UNCHANGED <<stop, loginUid, online>> /\ pc # "register" /\ pc' # "register"
    BY <1>10 DEF Dequeue, KickDone, SendTest, SendWrite, HandlerReturn, sessionVars,
                 serverVars
  <2> QED
    BY <1>1, <2>1
<1> QED
  BY <1>3, <1>4, <1>5, <1>6, <1>7, <1>8, <1>9, <1>10 DEF Next, Handler, Actor

LEMMA KickInvHolds == Spec /\ [][~ForeignRemoval]_vars => []KickInv
<1>1. Init => KickInv
  BY ActorsAssumption
  DEF Init, NotClosing, Actor, KickInv, BoundOrStopped, KickedIsStopped, TornIsLast,
      OthersKicked, BoundIsOnline
<1>2. IInv /\ KickInv /\ [Next]_vars /\ [~ForeignRemoval]_vars => KickInv'
  <2> SUFFICES ASSUME IInv, KickInv, [Next]_vars, [~ForeignRemoval]_vars PROVE KickInv'
    OBVIOUS
  <2>1. BoundOrStopped /\ KickedIsStopped
    BY DEF KickInv
  <2>2. BoundOrStopped' /\ KickedIsStopped'
    BY <2>1, BoundOrStoppedStep, KickedIsStoppedStep
  <2>3. TornIsLast' /\ OthersKicked' /\ BoundIsOnline'
    BY TornIsLastStep, OthersKickedStep, BoundIsOnlineStep
  <2> QED
    BY <2>2, <2>3 DEF KickInv
<1> QED
  BY IInvHolds, <1>1, <1>2, PTL DEF Spec

(* A session that is logged in is found under its uid as soon as its login *)
(* is complete, whoever disconnects, is kicked or logs in again meanwhile, *)
(* as long as no session that closes on its own removes the entry of a     *)
(* newer login (CSession::Close, between the taking of the uid and         *)
(* RemoveOnlineUser): no other interleaving loses an entry, and a kick     *)
(* never does.                                                             *)
THEOREM LoggedInIsFound == Spec /\ [][~ForeignRemoval]_vars => []BoundIsOnline
<1>1. KickInv => BoundIsOnline
  BY DEF KickInv
<1> QED
  BY KickInvHolds, <1>1, PTL

(* Two sessions of one user are open at once only after such a removal,    *)
(* however many connections log in with whatever accounts, one after       *)
(* another or again, and however many peers leave: everywhere else the     *)
(* kick of LoginRequest finds the older session.                           *)
THEOREM OneLoginAtATime == Spec /\ [][~ForeignRemoval]_vars => []SingleLogin
<1>1. KickInv => SingleLogin
  BY SingleIfOnline DEF KickInv
<1> QED
  BY KickInvHolds, <1>1, PTL

-----------------------------------------------------------------------------
(* Where peers stay connected (LifecycleKick.cfg) no such removal happens. *)

(* A socket is closed by Close only.                                       *)
ClosedIsStopped == \A s \in Session : reader[s] # "new" /\ ~open[s] => stop[s]

(* The io threads, which come to Close after the worker has closed their   *)
(* session, find stop set: the worker alone gets behind the                *)
(* compare-exchange.                                                       *)
OnlyWorkerTears ==
  \A s \in Session : close[s].at = "out" \/ (close[s].at = "cas" /\ stop[s])

(* An io thread that calls Close on a stopped session changes nothing.     *)
LEMMA IoCloseQuiet ==
  ASSUME IInv, OnlyWorkerTears, NEW s \in Session, Close(s)
  PROVE  /\ UNCHANGED <<sessionVars, serverVars, ioVars, workerVars, que>>
         /\ close' = [close EXCEPT ![s] = NotClosing]
         /\ close'[Worker] = close[Worker]
<1> USE ActorsAssumption DEF IInv, TypeOK, Actor
<1>1. CloseCas(s) /\ close[s].at = "cas" /\ stop[s]
  BY DEF Close, CloseCas, CloseSocket, CloseTakeUid, RemoveOnlineUser, OnlyWorkerTears
<1>2. close[s].on = s
  BY <1>1 DEF CloserHolds
<1>3. close' = [close EXCEPT ![s] = NotClosing] /\ UNCHANGED stop
  BY <1>1, <1>2 DEF CloseCas
<1> QED
  BY <1>1, <1>3 DEF CloseCas, sessionVars

(* Who closes a socket has set stop before.                                *)
LEMMA ClosedIsStoppedStep ==
  ASSUME IInv, ClosedIsStopped, [Next]_vars
  PROVE  ClosedIsStopped'
<1> USE DEF ClosedIsStopped
<1>1. CASE UNCHANGED <<reader, open, stop>>
  BY <1>1
<1>2. ASSUME NEW s \in Session, IoThread(s)
      PROVE  ClosedIsStopped'
  <2>1. ASSUME NEW t \in Session, reader'[t] # "new", ~open'[t]
        PROVE  stop'[t] \/ (reader[t] # "new" /\ ~open[t])
    <3> USE DEF IInv, TypeOK, sessionVars
    <3>1. CASE AcceptStart(s)   BY <2>1, <3>1 DEF AcceptStart
    <3>2. CASE AcceptInsert(s)  BY <2>1, <3>2 DEF AcceptInsert
    <3>3. CASE AcceptFail(s)    BY <2>1, <3>3 DEF AcceptFail
    <3>4. CASE ReadMsg(s)       BY <2>1, <3>4 DEF ReadMsg
    <3>5. CASE LoopTest(s)      BY <2>1, <3>5 DEF LoopTest, LoopIsParked
    <3>6. CASE ReadFail(s)      BY <2>1, <3>6 DEF ReadFail
    <3>7. CASE WriteDone(s)     BY <2>1, <3>7 DEF WriteDone, ioVars
    <3>8. CASE WriteFail(s)     BY <2>1, <3>8 DEF WriteFail
    <3>9. CASE ClearSession(s)  BY <2>1, <3>9 DEF ClearSession
    <3> QED
      BY <1>2, <3>1, <3>2, <3>3, <3>4, <3>5, <3>6, <3>7, <3>8, <3>9 DEF IoThread
  <2>2. \A t \in Session : stop[t] => stop'[t]
    BY <1>2, IoFrame DEF IInv
  <2> QED
    BY <2>1, <2>2
<1>3. ASSUME NEW a \in Actor, Close(a)
      PROVE  ClosedIsStopped'
  <2>1. UNCHANGED reader /\ \A t \in Session : stop[t] => stop'[t]
    BY <1>3, CloseFrame
    DEF Close, CloseCas, CloseSocket, CloseTakeUid, RemoveOnlineUser, ioVars
  <2>2. ASSUME NEW t \in Session, open[t], ~open'[t]
        PROVE  stop[t]
    <3>1. CloseSocket(a) /\ t = close[a].on
      BY <1>3, <2>2 DEF Close, CloseCas, CloseSocket, CloseTakeUid, RemoveOnlineUser,
         sessionVars, IInv, TypeOK
    <3> QED
      BY <3>1 DEF CloseSocket, IInv, TeardownStops
  <2> QED
    BY <2>1, <2>2
<1> QED
  BY <1>1, <1>2, <1>3
  DEF Next, Handler, vars, sessionVars, ioVars, Dequeue, GetSessionByUid, KickDone,
      SetLoginUid, AddOnlineUser, SendTest, SendWrite, HandlerReturn

(* An operation on an open socket of a peer that stays does not fail.      *)
LEMMA OnlyWorkerTearsStep ==
  ASSUME PeerMayLeave = FALSE, IInv, ClosedIsStopped, OnlyWorkerTears, [Next]_vars
  PROVE  OnlyWorkerTears'
<1> USE ActorsAssumption DEF OnlyWorkerTears
<1>1. CASE UNCHANGED <<close, stop>>
  BY <1>1
<1>2. ASSUME NEW s \in Session, IoThread(s)
      PROVE  OnlyWorkerTears'
  <2>1. \A t \in Session : stop[t] => stop'[t]
    BY <1>2, IoFrame DEF IInv
  <2>2. CASE ReadFail(s) \/ WriteFail(s)
    <3>1. reader[s] # "new" /\ ~open[s]
      BY <2>2 DEF ReadFail, WriteFail, IInv, NewIsUnknown
    <3>2. stop[s]
      BY <3>1 DEF ClosedIsStopped
    <3>3. close' = [close EXCEPT ![s] = Closing(s)]
      BY <2>2 DEF ReadFail, WriteFail
    <3> QED
      BY <2>1, <3>2, <3>3 DEF Closing, IInv, TypeOK, Actor
  <2>3. CASE UNCHANGED close
    BY <2>1, <2>3
  <2> QED
    BY <1>2, <2>2, <2>3 DEF IoThread, AcceptStart, AcceptInsert, AcceptFail, ReadMsg,
                            LoopTest, WriteDone, ClearSession
<1>3. ASSUME NEW a \in Actor, Close(a)
      PROVE  OnlyWorkerTears'
  <2>1. CASE a \in Session
    <3>1. UNCHANGED stop /\ close' = [close EXCEPT ![a] = NotClosing]
      BY <1>3, <2>1, IoCloseQuiet DEF sessionVars
    <3> QED
      BY <2>1, <3>1 DEF NotClosing, IInv, TypeOK, Actor
  <2>2. CASE a = Worker
    <3>1. \A b \in Session : close'[b] = close[b]
      BY <1>3, <2>2, CloseMoves DEF IInv, Actor
    <3>2. \A t \in Session : stop[t] => stop'[t]
      BY <1>3, CloseFrame
    <3> QED
      BY <3>1, <3>2
  <2> QED
    BY <2>1, <2>2 DEF Actor
<1>4. CASE GetSessionByUid
  <2>1. UNCHANGED stop /\ \A s \in Session : close'[s] = close[s]
    BY <1>4, LookupMoves DEF GetSessionByUid, sessionVars, IInv, TypeOK, Actor
  <2> QED
    BY <2>1
<1> QED
  BY <1>1, <1>2, <1>3, <1>4
  DEF Next, Handler, vars, sessionVars, Dequeue, KickDone, SetLoginUid, AddOnlineUser,
      SendTest, SendWrite, HandlerReturn

(* Close, as the read coroutine and a failed write call it, takes out the  *)
(* entry of a newer login only after a client has left: while all stay     *)
(* connected the excluded step does not occur.                             *)
THEOREM NoForeignRemoval ==
  ASSUME PeerMayLeave = FALSE
  PROVE  Spec => [][~ForeignRemoval]_vars
<1>1. Init => ClosedIsStopped /\ OnlyWorkerTears
  BY ActorsAssumption DEF Init, NotClosing, Actor, ClosedIsStopped, OnlyWorkerTears
<1>2. IInv /\ ClosedIsStopped /\ OnlyWorkerTears /\ [Next]_vars
        => (ClosedIsStopped /\ OnlyWorkerTears)'
  BY ClosedIsStoppedStep, OnlyWorkerTearsStep
<1>3. OnlyWorkerTears => ~ForeignRemoval
  BY DEF OnlyWorkerTears, ForeignRemoval, RemoveOnlineUser
<1> QED
  BY IInvHolds, <1>1, <1>2, <1>3, PTL DEF Spec
=============================================================================
