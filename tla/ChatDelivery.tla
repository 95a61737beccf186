----------------------------- MODULE ChatDelivery -----------------------------
(***************************************************************************)
(* What the handlers of LogicSystem do to the database and what of it      *)
(* reaches the clients: accounts, friendships, chat messages pushed to a   *)
(* recipient who is online and kept for one who is not.                    *)
(*                                                                         *)
(* The worker runs one handler at a time and commits every statement of    *)
(* SQLite by itself, so a handler is a sequence of steps between which     *)
(* connections break and the process may die and be started again: the     *)
(* tables survive, the sessions and UserManager's map do not.              *)
(*                                                                         *)
(* How sessions close, step by step, is the subject of SessionLifecycle:   *)
(* here CSession::Close and the login's kick and bind are single steps.    *)
(***************************************************************************)
EXTENDS Naturals, Sequences, FiniteSets, Functions

CONSTANTS
  Session,      \* the CSession objects, one for each connection
  Name,         \* the user names, each with a password of its own
  None,         \* nullptr, no request
  Kinds,        \* the requests that clients send
  MaySever,     \* may a connection break?
  MayFail,      \* the statements of SQLite that may fail (disk full, locked)
  MaxSendQue,   \* MAX_SENDQUE
  Lengths,      \* the lengths a chat message may have in a frame
  PushRoom,     \* the length that a push of MAX_LENGTH bytes has room for
  BatchRoom,    \* the lengths, summed up, that a batch of MAX_LENGTH bytes has
  FriendsRoom,  \* the number of uids that a friend list of that length has
  MaxMessages,  \* bound: rows of the messages table
  MaxBacklog,   \* bound: what is under way to a client that still asks
  MaxCrashes    \* bound: restarts of the server

ASSUME DeliveryAssumption ==
  /\ IsFiniteSet(Name) /\ None \notin Session
  /\ Kinds \subseteq {"register", "login", "friends", "add", "chat", "offline"}
  /\ MaySever \in BOOLEAN
  /\ MayFail \subseteq {"lookup", "select", "insert", "update"}
  /\ Lengths \subseteq Nat
  /\ PushRoom \in Nat /\ BatchRoom \in Nat /\ FriendsRoom \in Nat
  /\ MaxSendQue \in Nat /\ MaxBacklog \in Nat
  /\ MaxMessages \in Nat /\ MaxCrashes \in Nat

(* uid and msg_id are the AUTOINCREMENT row numbers of their tables; 0 is  *)
(* the _login_uid of a session that is not logged in.                      *)
Uid   == 1 .. Cardinality(Name)
MsgId == 1 .. MaxMessages
Row   == [from : Uid, to : Uid, len : Lengths, delivered : BOOLEAN]

(* The frames sent to clients: those a property is about with what they    *)
(* carry (message ids, user ids), the others only as an answer.            *)
Frame == [kind : {"answer", "ack", "added", "refused", "friends", "push", "invite", "batch"},
          data : Seq(Nat)]
FrameOf(kind, data) == [kind |-> kind, data |-> data]
Answer == FrameOf("answer", <<>>)

VARIABLES
  users,     \* table users: the name of each uid
  friends,   \* table friends: its rows <<uid, friend_uid>>
  messages,  \* table messages: the row of each msg_id
  conn,      \* a connection: not made yet, open, closed, lost in a crash
  loginUid,  \* CSession::_login_uid
  online,    \* UserManager::_online_users
  wire,      \* the frames accepted by Send that have not arrived
  received,  \* the ids of the chat messages that reached a client
  astray,    \* history: the ids that at least once were on their way to a client
             \* and did not get there
  pc,        \* the worker's position in its handler
  from,      \* the session whose request it handles
  uid,       \* the user it handles it for
  target,    \* the user to whom it pushes
  batch,     \* the ids GetOfflineMessages returned
  answer,    \* the answer it will send
  crashes    \* number of restarts, for the bound

tables     == <<users, friends, messages>>
sessionVars == <<conn, loginUid, online>>
handlerVars == <<from, uid, target, batch, answer>>
arrivals   == <<received, astray>>
vars == <<tables, sessionVars, wire, arrivals, pc, handlerVars, crashes>>

TypeOK ==
  /\ users \in Seq(Name) /\ Len(users) <= Cardinality(Name)
  /\ friends \in SUBSET (Uid \X Uid)
  /\ messages \in Seq(Row) /\ Len(messages) <= MaxMessages
  /\ conn \in [Session -> {"free", "open", "closed", "gone"}]
  /\ loginUid \in [Session -> Uid \cup {0}]
  /\ online \in [Uid -> Session \cup {None}]
  /\ wire \in [Session -> Seq(Frame)]
  /\ received \in SUBSET MsgId /\ astray \in SUBSET MsgId
  /\ pc \in {"idle", "select", "mark", "batch", "push", "reply"}
  /\ from \in Session \cup {None}
  /\ uid \in Uid \cup {0} /\ target \in Uid \cup {0}
  /\ batch \in Seq(MsgId)
  /\ answer \in Frame
  /\ crashes \in 0 .. MaxCrashes

Init ==
  /\ users = <<>> /\ friends = {} /\ messages = <<>>
  /\ conn = [s \in Session |-> "free"]
  /\ loginUid = [s \in Session |-> 0]
  /\ online = [u \in Uid |-> None]
  /\ wire = [s \in Session |-> <<>>]
  /\ received = {} /\ astray = {}
  /\ pc = "idle" /\ from = None
  /\ uid = 0 /\ target = 0 /\ batch = <<>> /\ answer = Answer
  /\ crashes = 0

-----------------------------------------------------------------------------
TotalLength(ids) == SumFunction([k \in 1 .. Len(ids) |-> messages[ids[k]].len])

(* The frame has at most MAX_LENGTH bytes.  (A JSON text of 2^15 bytes and *)
(* more, whose length wraps in the cast to short, is SendQueue's subject.) *)
Fits(frame) ==
  /\ frame.kind = "push" => messages[frame.data[1]].len <= PushRoom
  /\ frame.kind = "batch" => TotalLength(frame.data) <= BatchRoom
  /\ frame.kind = "friends" => Len(frame.data) <= FriendsRoom

(* CSession::Send drops a frame when the session closes, when the frame is *)
(* too long and when the queue is full: frames count until they arrive.    *)
Accepts(s, frame) == conn[s] = "open" /\ Fits(frame) /\ Len(wire[s]) <= MaxSendQue

Sent(s, frame) == IF Accepts(s, frame) THEN [wire EXCEPT ![s] = Append(@, frame)] ELSE wire

Ids(ids) == {ids[k] : k \in 1 .. Len(ids)}

(* The messages of a frame go astray when it is dropped ...                *)
AstrayUnlessSent(s, frame) ==
  astray' = IF Accepts(s, frame) \/ frame.kind \notin {"push", "batch"}
            THEN astray ELSE astray \cup Ids(frame.data)

(* ... or when it is under way on a connection that breaks.                *)
OnWires(S) ==
  UNION {UNION {Ids(wire[s][k].data) :
                  k \in {n \in 1 .. Len(wire[s]) : wire[s][n].kind \in {"push", "batch"}}} : s \in S}

Ascending(S) ==
  [i \in 1 .. Cardinality(S) |-> CHOOSE n \in S : Cardinality({m \in S : m < n}) = i - 1]

(* What a loop over sqlite3_step collects of the rows: a failing step ends *)
(* it like the last row does.                                              *)
Fetched(rows) ==
  {rows} \cup {SubSeq(rows, 1, n) : n \in IF "select" \in MayFail THEN 0 .. Len(rows) ELSE {}}

(* An INSERT that follows a lookup does not happen if either fails.        *)
CheckedInsertMayFail == MayFail \cap {"lookup", "insert"} # {}

(* The handler of the next request starts: one that was read from an open  *)
(* connection, or, queued, from one that has closed since.                 *)
Starts(s) ==
  /\ pc = "idle"
  /\ conn[s] \in {"open", "closed"}
  /\ Len(wire[s]) < MaxBacklog
  /\ from' = s

(* The handler goes on to send its last frame.                             *)
Answers(frame) == pc' = "reply" /\ answer' = frame

-----------------------------------------------------------------------------
\* Faulty variant: the name is not looked up first.
RegisterUserUnchecked(name) == users' = Append(users, name)

(* DBManager::RegisterUser.                                                *)
RegisterUser(name) ==
  LET taken == {users[u] : u \in 1 .. Len(users)} IN
  \/ name \notin taken /\ users' = Append(users, name)
  \/ (name \in taken \/ CheckedInsertMayFail) /\ UNCHANGED users

RegisterRequest(s, name) ==
  /\ "register" \in Kinds /\ Starts(s)
  /\ RegisterUser(name)
  /\ Answers(Answer)
  /\ UNCHANGED <<friends, messages, sessionVars, wire, arrivals, uid, target, batch, crashes>>

(* Close of an open session; nothing is left of what was under way to it.  *)
Closed(S) == [s \in Session |-> IF s \in S THEN "closed" ELSE conn[s]]
Emptied(S) == [s \in Session |-> IF s \in S THEN <<>> ELSE wire[s]]
LoggedOut(S) == [s \in Session |-> IF s \in S THEN 0 ELSE loginUid[s]]
OnlineWithout(S) ==
  [u \in Uid |-> IF \E s \in S : loginUid[s] = u THEN None ELSE online[u]]

\* Faulty variant: what was kept is only sent when the client asks for it.
LoginWithoutBatch(s, u) ==
  LET old == {t \in Session : t = online[u] /\ conn[t] = "open"} IN
  /\ "login" \in Kinds /\ Starts(s)
  /\ u \in 1 .. Len(users)
  /\ conn' = Closed(old) /\ wire' = Emptied(old)
  /\ loginUid' = [LoggedOut(old) EXCEPT ![s] = u]
  /\ online' = [OnlineWithout(old) EXCEPT ![u] = s]
  /\ uid' = u /\ pc' = "reply"
  /\ astray' = astray \cup OnWires(old)
  /\ UNCHANGED <<tables, received, target, batch, answer, crashes>>

(* DBManager::LoginUser accepts a registered name with its password.       *)
LoginUser(u) == u \in 1 .. Len(users)

(* The session found under the uid is closed, this one is bound and        *)
(* entered, whether it is still open or not.                               *)
LoginRequest(s, u) ==
  LET old == {t \in Session : t = online[u] /\ conn[t] = "open"} IN
  /\ "login" \in Kinds /\ Starts(s)
  /\ LoginUser(u)
  /\ conn' = Closed(old) /\ wire' = Emptied(old)
  /\ loginUid' = [LoggedOut(old) EXCEPT ![s] = u]
  /\ online' = [OnlineWithout(old) EXCEPT ![u] = s]
  /\ uid' = u /\ pc' = "select"
  /\ astray' = astray \cup OnWires(old)
  /\ UNCHANGED <<tables, received, target, batch, answer, crashes>>

(* An unknown name or a wrong password, or a request that fails its checks *)
(* (malformed, incomplete, not logged in): only an answer.                 *)
RefusedRequest(s) ==
  /\ Starts(s) /\ Answers(Answer)
  /\ UNCHANGED <<tables, sessionVars, wire, arrivals, uid, target, batch, crashes>>

-----------------------------------------------------------------------------
\* Faulty variant: only looks for the row that it would insert.
FriendsAlreadyOneWay(u, f) == <<u, f>> \in friends

(* There is a row for the two, in either direction.                        *)
FriendsAlready(u, f) == <<u, f>> \in friends \/ <<f, u>> \in friends

(* DBManager::AddFriend and its result.  A failure while it looks for the  *)
(* row is taken for no row, which leaves it to the UNIQUE constraint.      *)
AddFriend(u, f, ok) ==
  LET known  == {u, f} \subseteq 1 .. Len(users)
      unseen == ~FriendsAlready(u, f) \/ ("lookup" \in MayFail /\ <<u, f>> \notin friends)
  IN
  \/ ok /\ known /\ unseen /\ friends' = friends \cup {<<u, f>>}
  \/ ~ok /\ (~known \/ FriendsAlready(u, f) \/ CheckedInsertMayFail) /\ UNCHANGED friends

AddFriendRequest(s, f) ==
  LET u == loginUid[s] IN
  /\ u \notin {0, f}
  /\ "add" \in Kinds /\ Starts(s)
  /\ \/ AddFriend(u, f, TRUE)
        /\ pc' = "push" /\ target' = f /\ answer' = FrameOf("added", <<u, f>>)
     \/ AddFriend(u, f, FALSE)
        /\ Answers(FrameOf("refused", <<u, f>>)) /\ UNCHANGED target
  /\ UNCHANGED <<users, messages, sessionVars, wire, arrivals, uid, batch, crashes>>

\* Faulty variant: without the UNION.
FriendListOneWay(u) == {f \in Uid : <<u, f>> \in friends}

(* DBManager::GetFriendList.                                               *)
FriendList(u) == {f \in Uid : <<u, f>> \in friends} \cup {f \in Uid : <<f, u>> \in friends}

GetFriendListRequest(s) ==
  /\ loginUid[s] # 0
  /\ "friends" \in Kinds /\ Starts(s)
  /\ \E list \in Fetched(Ascending(FriendList(loginUid[s]))) : Answers(FrameOf("friends", list))
  /\ UNCHANGED <<tables, sessionVars, wire, arrivals, uid, target, batch, crashes>>

-----------------------------------------------------------------------------
NewMessage(u, to, len) == [from |-> u, to |-> to, len |-> len, delivered |-> FALSE]

(* DBManager::SaveMessage of a content of any length the checks let pass   *)
(* and whether it succeeds.                                                *)
SaveMessage(u, to, ok) ==
  \/ /\ ok
     /\ \E len \in Lengths :
          messages' = Append(messages, NewMessage(u, to, len))
  \/ ~ok /\ "insert" \in MayFail /\ UNCHANGED messages

\* Faulty variant: a message that could not be saved is acknowledged as well.
ChatIgnoresFailure(s, to) ==
  /\ loginUid[s] # 0
  /\ Len(messages) < MaxMessages
  /\ "chat" \in Kinds /\ Starts(s)
  /\ \/ SaveMessage(loginUid[s], to, TRUE)
        /\ pc' = "push" /\ target' = to /\ answer' = FrameOf("ack", <<Len(messages')>>)
     \/ SaveMessage(loginUid[s], to, FALSE)
        /\ Answers(FrameOf("ack", <<Len(messages) + 1>>)) /\ UNCHANGED target
  /\ UNCHANGED <<users, friends, sessionVars, wire, arrivals, uid, batch, crashes>>

(* ChatMessageRequest: for any positive to_uid.                            *)
ChatMessageRequest(s, to) ==
  /\ loginUid[s] # 0
  /\ Len(messages) < MaxMessages
  /\ "chat" \in Kinds /\ Starts(s)
  /\ \/ SaveMessage(loginUid[s], to, TRUE)
        /\ pc' = "push" /\ target' = to /\ answer' = FrameOf("ack", <<Len(messages')>>)
     \/ SaveMessage(loginUid[s], to, FALSE)
        /\ Answers(Answer) /\ UNCHANGED target
  /\ UNCHANGED <<users, friends, sessionVars, wire, arrivals, uid, batch, crashes>>

\* Faulty variant: the push is given up while another frame is written.
PushWhenQuiet ==
  LET frame == FrameOf("push", answer.data) IN
  /\ pc = "push"
  /\ wire' = IF online[target] = None \/ wire[online[target]] # <<>>
             THEN wire ELSE Sent(online[target], frame)
  /\ IF online[target] = None THEN UNCHANGED astray ELSE AstrayUnlessSent(online[target], frame)
  /\ pc' = "reply"
  /\ UNCHANGED <<tables, sessionVars, received, handlerVars, crashes>>

(* The chat message or the friend request is pushed to the target's        *)
(* session if UserManager knows one.                                       *)
PushToTarget ==
  LET frame == IF answer.kind = "ack" THEN FrameOf("push", answer.data)
                                      ELSE FrameOf("invite", <<answer.data[1]>>)
  IN
  /\ pc = "push"
  /\ IF online[target] = None
     THEN UNCHANGED <<wire, astray>>
     ELSE wire' = Sent(online[target], frame) /\ AstrayUnlessSent(online[target], frame)
  /\ pc' = "reply"
  /\ UNCHANGED <<tables, sessionVars, received, handlerVars, crashes>>

-----------------------------------------------------------------------------
(* GetOfflineMessageRequest reads the uid and fetches, as a login does.    *)
GetOfflineMessageRequest(s) ==
  /\ loginUid[s] # 0
  /\ "offline" \in Kinds /\ Starts(s)
  /\ uid' = loginUid[s] /\ pc' = "select"
  /\ answer' = FrameOf("batch", <<>>)
  /\ UNCHANGED <<tables, sessionVars, wire, arrivals, target, batch, crashes>>

Undelivered(u) == {i \in 1 .. Len(messages) : messages[i].to = u /\ ~messages[i].delivered}

(* DBManager::GetOfflineMessages: the SELECT, which passes over what a     *)
(* failing step keeps it from ...                                          *)
SelectUndelivered ==
  /\ pc = "select"
  /\ batch' \in Fetched(Ascending(Undelivered(uid)))
  /\ astray' = astray \cup (Undelivered(uid) \ Ids(batch'))
  /\ pc' = IF batch' # <<>> THEN "mark" ELSE "reply"
  /\ UNCHANGED <<tables, sessionVars, wire, received, from, uid, target, answer, crashes>>

\* Faulty variant: the UPDATE is not restricted to the recipient.
MarkEverything ==
  /\ pc = "mark"
  /\ \/ messages' = [i \in 1 .. Len(messages) |-> [messages[i] EXCEPT !.delivered = TRUE]]
     \/ "update" \in MayFail /\ UNCHANGED messages
  /\ pc' = "batch"
  /\ UNCHANGED <<users, friends, sessionVars, wire, arrivals, handlerVars, crashes>>

(* ... and, if it found any, the UPDATE, whose failure is only logged.     *)
MarkDelivered ==
  /\ pc = "mark"
  /\ \/ messages' = [i \in 1 .. Len(messages) |->
                       IF i \in Undelivered(uid)
                       THEN [messages[i] EXCEPT !.delivered = TRUE] ELSE messages[i]]
     \/ "update" \in MayFail /\ UNCHANGED messages
  /\ pc' = "batch"
  /\ UNCHANGED <<users, friends, sessionVars, wire, arrivals, handlerVars, crashes>>

(* The handler returns.                                                    *)
Returned ==
  pc' = "idle" /\ from' = None /\ uid' = 0 /\ target' = 0 /\ batch' = <<>> /\ answer' = Answer

\* Faulty variant: a login counts what was kept but does not send it.
SendBatchOnDemand ==
  /\ pc = "batch"
  /\ wire' = IF answer.kind = "batch" THEN Sent(from, FrameOf("batch", batch)) ELSE wire
  /\ IF answer.kind = "batch"
     THEN AstrayUnlessSent(from, FrameOf("batch", batch)) ELSE UNCHANGED astray
  /\ IF answer.kind = "batch"
     THEN Returned
     ELSE pc' = "reply" /\ batch' = <<>> /\ UNCHANGED <<from, uid, target, answer>>
  /\ UNCHANGED <<tables, sessionVars, received, crashes>>

(* The batch is sent: before the answer of a login, as the answer of a     *)
(* GetOfflineMessageRequest.                                               *)
SendBatch ==
  /\ pc = "batch"
  /\ wire' = Sent(from, FrameOf("batch", batch))
  /\ AstrayUnlessSent(from, FrameOf("batch", batch))
  /\ IF answer.kind = "batch"
     THEN Returned
     ELSE pc' = "reply" /\ batch' = <<>> /\ UNCHANGED <<from, uid, target, answer>>
  /\ UNCHANGED <<tables, sessionVars, received, crashes>>

(* The answer is sent last.                                                *)
Reply ==
  /\ pc = "reply"
  /\ wire' = Sent(from, answer)
  /\ Returned
  /\ UNCHANGED <<tables, sessionVars, arrivals, crashes>>

-----------------------------------------------------------------------------
(* Connections and the process.                                            *)

Connect(s) ==
  /\ conn[s] = "free"
  /\ conn' = [conn EXCEPT ![s] = "open"]
  /\ UNCHANGED <<tables, loginUid, online, wire, arrivals, pc, handlerVars, crashes>>

(* A frame arrives; chat messages are shown to the user.                   *)
Arrive(s) ==
  LET frame == Head(wire[s]) IN
  /\ wire[s] # <<>>
  /\ wire' = [wire EXCEPT ![s] = Tail(@)]
  /\ received' = IF frame.kind \in {"push", "batch"}
                 THEN received \cup Ids(frame.data) ELSE received
  /\ UNCHANGED <<tables, sessionVars, astray, pc, handlerVars, crashes>>

(* The connection breaks: Close, and what was under way is lost.           *)
Sever(s) ==
  /\ MaySever /\ conn[s] = "open"
  /\ conn' = Closed({s}) /\ wire' = Emptied({s})
  /\ loginUid' = LoggedOut({s}) /\ online' = OnlineWithout({s})
  /\ astray' = astray \cup OnWires({s})
  /\ UNCHANGED <<tables, received, pc, handlerVars, crashes>>

(* The process dies and is started again on the same database file.        *)
Restart ==
  /\ crashes < MaxCrashes
  /\ crashes' = crashes + 1
  /\ conn' = [s \in Session |-> IF conn[s] = "free" THEN "free" ELSE "gone"]
  /\ loginUid' = [s \in Session |-> 0]
  /\ online' = [u \in Uid |-> None]
  /\ wire' = [s \in Session |-> <<>>]
  /\ astray' = astray \cup Ids(batch) \cup OnWires(Session)
  /\ Returned
  /\ UNCHANGED <<tables, received>>

-----------------------------------------------------------------------------
Request(s) ==
  \/ \E name \in Name : RegisterRequest(s, name)
  \/ \E u \in Uid : LoginRequest(s, u) \/ AddFriendRequest(s, u) \/ ChatMessageRequest(s, u)
  \/ GetFriendListRequest(s) \/ GetOfflineMessageRequest(s) \/ RefusedRequest(s)

Handler == PushToTarget \/ SelectUndelivered \/ MarkDelivered \/ SendBatch \/ Reply

Next ==
  \/ Handler \/ Restart
  \/ \E s \in Session : Request(s) \/ Connect(s) \/ Arrive(s) \/ Sever(s)

Spec == Init /\ [][Next]_vars

(* A handler that has begun goes on, and frames arrive while the           *)
(* connection holds.                                                       *)
FairSpec == Spec /\ WF_vars(Handler) /\ \A s \in Session : WF_vars(Arrive(s))

-----------------------------------------------------------------------------
(* Safety.                                                                 *)

UnderWay(kind, data) ==
  \E s \in Session : \E k \in 1 .. Len(wire[s]) : wire[s][k] = FrameOf(kind, data)

(* A sender who is told "ok" can rely on it: the acknowledged message is   *)
(* in the table, whatever failed or restarted in between.                  *)
AckedIsStored ==
  \A s \in Session : \A k \in 1 .. Len(wire[s]) :
    wire[s][k].kind = "ack" => wire[s][k].data[1] \in 1 .. Len(messages)

(* GetOfflineMessages marks as delivered what it has fetched for this user *)
(* and nothing else, though it selects and updates in two statements;      *)
(* except, when a SELECT may break off, the messages after the last one    *)
(* fetched.                                                                *)
MarkedWasFetched ==
  [][\A i \in 1 .. Len(messages) :
       messages'[i] # messages[i] =>
         /\ messages[i].to = uid
         /\ \/ i \in Ids(batch)
            \/ "select" \in MayFail /\ batch # <<>> /\ \A j \in Ids(batch) : j < i]_vars

(* A friendship is one row, between two registered users: the UNIQUE       *)
(* constraint alone does not keep two users from adding each other.        *)
FriendshipIsOneRow ==
  \A row \in friends :
    /\ row[1] # row[2] /\ {row[1], row[2]} \subseteq 1 .. Len(users)
    /\ <<row[2], row[1]>> \notin friends

(* Who is told "friend added" is in the friend list of the other, and the  *)
(* other in his, though only one of them asked and one row is stored.      *)
AddedIsMutual ==
  \A u, f \in Uid :
    UnderWay("added", <<u, f>>) => f \in FriendList(u) /\ u \in FriendList(f)

(* A message is on its way: in the worker's hands or in a frame.           *)
InTransit(i) == i \in Ids(batch) \cup OnWires(Session)

(* A message marked as delivered, which will not be fetched again, has     *)
(* reached a client, is on its way to one, or went astray: it was in a     *)
(* frame that Send dropped or that was lost with its connection or the     *)
(* process, or a SELECT that broke off passed over it.  There is no other  *)
(* way to lose it.                                                         *)
MarkedIsAccountedFor ==
  \A i \in 1 .. Len(messages) :
    messages[i].delivered => i \in received \cup astray \/ InTransit(i)

(* The messages for a user arrive in the order in which they were saved,   *)
(* the ones kept for him before the ones pushed to him, whoever logs in or *)
(* out in between: a message is overtaken only if it went astray.          *)
ReceivedInOrder ==
  \A j \in received : \A i \in 1 .. j - 1 :
    messages[i].to = messages[j].to => i \in received \cup astray

(* What the documents say and the code does not do, see the README.        *)

(* A message marked as delivered has reached a client or is on its way.    *)
MarkedIsDelivered ==
  \A i \in 1 .. Len(messages) :
    messages[i].delivered => i \in received \/ InTransit(i)

(* Only a message that was fetched is marked as delivered.                 *)
MarkedOnlyIfFetched ==
  [][\A i \in 1 .. Len(messages) : messages'[i] # messages[i] => i \in Ids(batch)]_vars

(* A message that has reached its recipient is not sent to him again.      *)
NoRedelivery ==
  \A i \in received : ~InTransit(i)

(* Adding a registered user succeeds unless one has added him before.      *)
OwnAddSucceeds ==
  \A u, f \in Uid :
    answer = FrameOf("refused", <<u, f>>) /\ f <= Len(users) => <<u, f>> \in friends

(* Every message that is stored is for a registered user.                  *)
RecipientsExist == \A i \in 1 .. Len(messages) : messages[i].to <= Len(users)

-----------------------------------------------------------------------------
(* Liveness.                                                               *)

Chats(i) == pc = "push" /\ answer = FrameOf("ack", <<i>>)

(* A chat message for a user who is online reaches him, unless it is too  *)
(* long for the push, his send queue is full or his connection does not    *)
(* hold.                                                                   *)
OnlineIsReached ==
  \A i \in MsgId, s \in Session :
    Chats(i) /\ online[target] = s /\ Accepts(s, FrameOf("push", <<i>>))
      ~> i \in received \/ conn[s] # "open"
=============================================================================
