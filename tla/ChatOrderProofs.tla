---------------------------- MODULE ChatOrderProofs ----------------------------
(***************************************************************************)
(* Proof that a client receives the messages for a user in the order in    *)
(* which they were saved, the ones kept for him before the ones pushed to  *)
(* him: whoever logs in, is kicked or disconnects in between, a message is *)
(* overtaken only if Send dropped it, its connection took it along, or a   *)
(* SELECT that broke off passed over it.                                   *)
(***************************************************************************)
EXTENDS ChatDeliveryProofs

(* What no client still waits for.                                         *)
Seen == received \cup astray

(* Pairs of messages for the same user, the earlier one first.             *)
Precedes ==
  {p \in (1 .. Len(messages)) \X (1 .. Len(messages)) :
     p[1] < p[2] /\ messages[p[1]].to = messages[p[2]].to}

HasMessage(w, i) == \E k \in 1 .. Len(w) : Carries(w[k], i)

(* Whatever precedes a message on a wire has been seen or comes no later   *)
(* on that wire.                                                           *)
Ordered(w, P, R) ==
  \A k \in 1 .. Len(w) : \A p \in P :
    Carries(w[k], p[2]) => p[1] \in R \/ \E j \in 1 .. k : Carries(w[j], p[1])

(* The ids that are in use, and for whom they are.                         *)
IdsKnown ==
  /\ \A i \in received : i \in 1 .. Len(messages)
  /\ pc = "push" /\ answer.kind = "ack" =>
       /\ Len(messages) > 0 /\ messages[Len(messages)].to = target
       /\ answer.data[1] = Len(messages)
  /\ \A k \in 1 .. Len(batch) : messages[batch[k]].to = uid
  /\ answer.kind # "push" /\ (answer.kind = "batch" => Len(answer.data) = 0)

(* A session that can be sent to is found under the uid that it was last   *)
(* bound to, and a handler serves the session that the user is found with. *)
SessionsHold ==
  /\ \A u \in Uid : online[u] # None => conn[online[u]] # "free"
  /\ \A s \in Session : loginUid[s] # 0 => conn[s] # "free"
  /\ \A s \in Session : conn[s] = "open" /\ loginUid[s] # 0 => online[loginUid[s]] = s
  /\ pc \in {"select", "mark", "batch"} /\ conn[from] = "open" => online[uid] = from

(* What is under way is under way to the session the user is found with.   *)
WireHolds ==
  \A s \in Session : \A i : HasMessage(wire[s], i) => online[messages[i].to] = s

(* Whatever is stored for a user whose session is open was seen, is on the *)
(* wire to him or in the worker's hands.                                   *)
InHand(i) ==
  \/ pc = "push" /\ answer.kind = "ack" /\ i = Len(messages)
  \/ pc = "select" /\ uid = messages[i].to /\ ~messages[i].delivered
  \/ InBatch(i)

Accounted ==
  \A i \in 1 .. Len(messages), s \in Session :
    online[messages[i].to] = s /\ conn[s] = "open" =>
      i \in Seen \/ HasMessage(wire[s], i) \/ InHand(i)

InOrder ==
  /\ \A s \in Session : Ordered(wire[s], Precedes, Seen)
  /\ \A p \in Precedes : p[2] \in received => p[1] \in Seen

OrderInv == IdsKnown /\ SessionsHold /\ WireHolds /\ Accounted /\ InOrder

-----------------------------------------------------------------------------
(* Frames added to the end of a wire and taken from its front.             *)
LEMMA HasAppended ==
  ASSUME NEW w \in Seq(Frame), NEW f \in Frame, NEW i
  PROVE  HasMessage(Append(w, f), i) <=> HasMessage(w, i) \/ Carries(f, i)
<1>1. /\ Len(Append(w, f)) = Len(w) + 1 /\ Len(w) \in Nat
      /\ \A k \in 1 .. Len(w) : Append(w, f)[k] = w[k]
      /\ Append(w, f)[Len(w) + 1] = f
  BY AppendProperties
<1>2. \A k \in 1 .. Len(Append(w, f)) : k \in 1 .. Len(w) \/ k = Len(w) + 1
  BY <1>1
<1>3. \A k \in 1 .. Len(w) : k \in 1 .. Len(Append(w, f))
  BY <1>1
<1>4. Len(w) + 1 \in 1 .. Len(Append(w, f))
  BY <1>1
<1> QED
  BY <1>1, <1>2, <1>3, <1>4 DEF HasMessage

LEMMA HasTail ==
  ASSUME NEW w \in Seq(Frame), w # <<>>, NEW i
  PROVE  HasMessage(w, i) <=> Carries(Head(w), i) \/ HasMessage(Tail(w), i)
<1>1. /\ Len(Tail(w)) = Len(w) - 1 /\ Len(w) \in Nat /\ Len(w) > 0
      /\ \A k \in 1 .. Len(Tail(w)) : Tail(w)[k] = w[k + 1]
      /\ Head(w) = w[1]
  BY HeadTailProperties
<1>2. ASSUME NEW k \in 1 .. Len(w), k # 1
      PROVE  k - 1 \in 1 .. Len(Tail(w)) /\ Tail(w)[k - 1] = w[k]
  <2>1. k - 1 \in 1 .. Len(Tail(w)) /\ k - 1 + 1 = k
    BY <1>1, <1>2
  <2> QED
    BY <1>1, <2>1
<1>3. \A k \in 1 .. Len(Tail(w)) : k + 1 \in 1 .. Len(w)
  BY <1>1
<1>4. 1 \in 1 .. Len(w)
  BY <1>1
<1> QED
  BY <1>1, <1>2, <1>3, <1>4 DEF HasMessage

LEMMA OrderedAppended ==
  ASSUME NEW w \in Seq(Frame), NEW f \in Frame, NEW P, NEW R, Ordered(w, P, R),
         \A p \in P : Carries(f, p[2]) =>
           p[1] \in R \/ HasMessage(w, p[1]) \/ Carries(f, p[1])
  PROVE  Ordered(Append(w, f), P, R)
<1>1. /\ Len(Append(w, f)) = Len(w) + 1 /\ Len(w) \in Nat
      /\ \A k \in 1 .. Len(w) : Append(w, f)[k] = w[k]
      /\ Append(w, f)[Len(w) + 1] = f
  BY AppendProperties
<1> SUFFICES ASSUME NEW k \in 1 .. Len(Append(w, f)), NEW p \in P,
                    Carries(Append(w, f)[k], p[2]), p[1] \notin R
             PROVE  \E j \in 1 .. k : Carries(Append(w, f)[j], p[1])
  BY DEF Ordered
<1>2. CASE k \in 1 .. Len(w)
  <2>1. PICK j \in 1 .. k : Carries(w[j], p[1])
    BY <1>1, <1>2 DEF Ordered
  <2>2. j \in 1 .. Len(w)
    BY <1>1, <1>2
  <2> QED
    BY <1>1, <2>1, <2>2
<1>3. CASE k = Len(w) + 1
  <2>1. CASE Carries(f, p[1])
    BY <1>1, <1>3, <2>1
  <2>2. ASSUME NEW j \in 1 .. Len(w), Carries(w[j], p[1])
        PROVE  \E l \in 1 .. k : Carries(Append(w, f)[l], p[1])
    <3>1. j \in 1 .. k
      BY <1>1, <1>3
    <3> QED
      BY <1>1, <2>2, <3>1
  <2> QED
    BY <1>1, <1>3, <2>1, <2>2 DEF HasMessage
<1> QED
  BY <1>1, <1>2, <1>3

(* When the first frame arrives, what it carries is seen in order.     *)
LEMMA OrderedTail ==
  ASSUME NEW w \in Seq(Frame), w # <<>>, NEW P, NEW R, NEW R2, Ordered(w, P, R),
         R \subseteq R2, \A i : Carries(Head(w), i) => i \in R2
  PROVE  /\ Ordered(Tail(w), P, R2)
         /\ \A p \in P : Carries(Head(w), p[2]) => p[1] \in R2
<1>1. /\ Len(Tail(w)) = Len(w) - 1 /\ Len(w) \in Nat /\ Len(w) > 0
      /\ \A k \in 1 .. Len(Tail(w)) : Tail(w)[k] = w[k + 1]
      /\ Head(w) = w[1]
  BY HeadTailProperties
<1>2. ASSUME NEW p \in P, Carries(Head(w), p[2]) PROVE p[1] \in R2
  <2>1. 1 \in 1 .. Len(w) /\ \A j \in 1 .. 1 : j = 1
    BY <1>1
  <2> QED
    BY <1>1, <1>2, <2>1 DEF Ordered
<1>3. ASSUME NEW k \in 1 .. Len(Tail(w)), NEW p \in P,
             Carries(Tail(w)[k], p[2]), p[1] \notin R2
      PROVE  \E j \in 1 .. k : Carries(Tail(w)[j], p[1])
  <2>1. k + 1 \in 1 .. Len(w) /\ Carries(w[k + 1], p[2])
    BY <1>1, <1>3
  <2>2. PICK j \in 1 .. k + 1 : Carries(w[j], p[1])
    BY <1>3, <2>1 DEF Ordered
  <2>3. j # 1
    BY <1>1, <1>3, <2>2
  <2>4. j - 1 \in 1 .. k /\ j - 1 \in 1 .. Len(Tail(w)) /\ j - 1 + 1 = j
    BY <1>1, <2>3
  <2>5. Tail(w)[j - 1] = w[j]
    BY <1>1, <2>4
  <2> QED
    BY <2>2, <2>4, <2>5
<1> QED
  BY <1>2, <1>3 DEF Ordered

(* More may be seen, and pairs may be added that are not on the wire.  *)
LEMMA OrderedMore ==
  ASSUME NEW w, NEW P, NEW Q, NEW R, NEW R2, Ordered(w, P, R), R \subseteq R2,
         \A p \in Q : p \in P \/ ~HasMessage(w, p[2])
  PROVE  Ordered(w, Q, R2)
BY DEF Ordered, HasMessage

-----------------------------------------------------------------------------
(* The rows of messages: their recipients do not change.                   *)
LEMMA RecipientStays ==
  ASSUME IInv, [Next]_vars, NEW i \in 1 .. Len(messages)
  PROVE  i \in 1 .. Len(messages') /\ messages'[i].to = messages[i].to
<1>1. i \in 1 .. Len(messages')
  BY TablesGrow
<1>2. messages[i] \in Row
  BY DEF IInv, TypeOK
<1>3. CASE messages'[i] # messages[i]
  <2>1. messages'[i] = [messages[i] EXCEPT !.delivered = TRUE]
    BY <1>3, OnlyMarkDelivered
  <2> QED
    BY <1>1, <1>2, <2>1 DEF Row
<1> QED
  BY <1>1, <1>3

LEMMA RecipientIsUser ==
  ASSUME TypeOK, NEW i \in 1 .. Len(messages)
  PROVE  messages[i].to \in Uid
<1>1. messages[i] \in Row
  BY DEF TypeOK
<1> QED
  BY <1>1 DEF Row

(* Pairs that are new end in the row that was added.                       *)
LEMMA PrecedesGrows ==
  ASSUME IInv, [Next]_vars, NEW p \in Precedes'
  PROVE  \/ p \in Precedes
         \/ p[2] = Len(messages) + 1 /\ p[2] \notin 1 .. Len(messages)
            /\ p[1] \in 1 .. Len(messages) /\ messages'[p[1]].to = messages'[p[2]].to
<1>1. Len(messages) \in Nat /\ Len(messages') \in Nat
  BY TablesGrow
<1>2. /\ p[1] \in 1 .. Len(messages') /\ p[2] \in 1 .. Len(messages') /\ p[1] < p[2]
      /\ messages'[p[1]].to = messages'[p[2]].to /\ p = <<p[1], p[2]>>
  BY DEF Precedes
<1>3. CASE p[2] \in 1 .. Len(messages)
  <2>1. p[1] \in 1 .. Len(messages)
    BY <1>1, <1>2, <1>3
  <2>2. messages[p[1]].to = messages[p[2]].to
    BY <1>2, <1>3, <2>1, RecipientStays
  <2> QED
    BY <1>2, <1>3, <2>1, <2>2 DEF Precedes
<1>4. CASE p[2] \notin 1 .. Len(messages)
  <2>1. p[2] = Len(messages) + 1
    BY <1>2, <1>4, NewRow
  <2>2. p[1] \in 1 .. Len(messages)
    BY <1>1, <1>2, <2>1
  <2> QED
    BY <1>2, <1>4, <2>1, <2>2
<1> QED
  BY <1>3, <1>4

(* Only stored messages are on a wire.                                     *)
LEMMA OnWireIsStored ==
  ASSUME IInv, NEW s \in Session, NEW i, HasMessage(wire[s], i)
  PROVE  i \in 1 .. Len(messages)
<1>1. PICK k \in 1 .. Len(wire[s]) : Carries(wire[s][k], i)
  BY DEF HasMessage
<1>2. Backed(wire[s][k])
  BY DEF IInv, AllBacked
<1> QED
  BY <1>1, <1>2 DEF Carries, Backed

LEMMA IdsKnownStep ==
  ASSUME IInv, IdsKnown, [Next]_vars
  PROVE  IdsKnown'
<1> USE DEF tables, sessionVars, arrivals, handlerVars
<1> DEFINE A == \A i \in received : i \in 1 .. Len(messages)
           B == pc = "push" /\ answer.kind = "ack" =>
                  /\ Len(messages) > 0 /\ messages[Len(messages)].to = target
                  /\ answer.data[1] = Len(messages)
           C == \A k \in 1 .. Len(batch) : messages[batch[k]].to = uid
           D == answer.kind # "push" /\ (answer.kind = "batch" => Len(answer.data) = 0)
<1>1. /\ TypeOK /\ HandlerKnows /\ A /\ B /\ C /\ D
      /\ \A k \in 1 .. Len(batch) : batch[k] \in 1 .. Len(messages)
  BY DEF IInv, IdsKnown, AllBacked
<1>2. Len(messages) \in Nat /\ Len(messages') \in Nat /\ Len(messages) <= Len(messages')
  BY TablesGrow
<1>3. received' = received => A'
  BY <1>1, <1>2
<1>4. pc' # "push" => B'
  OBVIOUS
<1>5. UNCHANGED <<batch, uid>> => C'
  BY <1>1, RecipientStays
<1>6. Len(batch') = 0 => C'
  OBVIOUS
<1>7. SUFFICES A' /\ B' /\ C'
  <2>1. D'
    <3>1. /\ Answer.kind = "answer"
          /\ \A kind, data : FrameOf(kind, data).kind = kind /\ FrameOf(kind, data).data = data
      BY DEF Answer, FrameOf
    <3>2. \/ answer' = answer \/ answer' = Answer \/ answer' = FrameOf("batch", <<>>)
          \/ \E data : \E kind \in {"added", "refused", "ack", "friends"} :
               answer' = FrameOf(kind, data)
      BY ZenonT(60) DEF Next, Handler, Request, RegisterRequest, LoginRequest, AddFriendRequest,
         GetFriendListRequest, ChatMessageRequest, GetOfflineMessageRequest, RefusedRequest,
         PushToTarget, SelectUndelivered, MarkDelivered, SendBatch, Reply, Connect, Arrive,
         Sever, Restart, Returned, Answers, vars
    <3> QED
      BY <1>1, <3>1, <3>2
  <2> QED
    BY <2>1 DEF IdsKnown
<1>8. CASE UNCHANGED vars
  BY <1>1, <1>8 DEF vars
<1>9. ASSUME NEW s \in Session, Request(s) PROVE A' /\ B' /\ C'
  <2>1. pc = "idle" /\ UNCHANGED <<batch, received>>
    BY <1>9 DEF Request, RegisterRequest, LoginRequest, AddFriendRequest, GetFriendListRequest,
       ChatMessageRequest, GetOfflineMessageRequest, RefusedRequest, Starts
  <2>2. Len(batch) = 0
    BY <1>1, <2>1 DEF HandlerKnows
  <2>3. ASSUME NEW to \in Uid, ChatMessageRequest(s, to) PROVE B'
    <3>1. CASE pc' = "reply"
      BY <1>4, <3>1
    <3>2. CASE /\ SaveMessage(loginUid[s], to, TRUE)
               /\ pc' = "push" /\ target' = to /\ answer' = FrameOf("ack", <<Len(messages')>>)
      <4>0. PICK len \in Lengths : messages' = Append(messages, NewMessage(loginUid[s], to, len))
        BY <3>2 DEF SaveMessage
      <4> DEFINE row == NewMessage(loginUid[s], to, len)
      <4>1. row \in Row /\ row.to = to
        BY <1>1, <2>3 DEF ChatMessageRequest, NewMessage, TypeOK, Row
      <4>2. messages' = Append(messages, row)
        BY <4>0
      <4> HIDE DEF row
      <4>3. /\ Len(messages') = Len(messages) + 1
            /\ messages'[Len(messages) + 1] = row
        BY <1>1, <4>1, <4>2, AppendProperties DEF TypeOK
      <4>4. Len(messages') > 0 /\ messages'[Len(messages')].to = to
        BY <1>2, <4>1, <4>3
      <4>5. answer'.data[1] = Len(messages')
        BY <3>2 DEF FrameOf
      <4> QED
        BY <3>2, <4>4, <4>5
    <3> QED
      BY <2>3, <3>1, <3>2 DEF ChatMessageRequest, Answers
  <2>4. ASSUME NEW f \in Uid, AddFriendRequest(s, f) PROVE B'
    <3>1. CASE pc' = "reply"
      BY <1>4, <3>1
    <3>2. CASE answer' = FrameOf("added", <<loginUid[s], f>>)
      <4>1. answer'.kind = "added"
        BY <3>2 DEF FrameOf
      <4> QED
        BY <4>1
    <3> QED
      BY <2>4, <3>1, <3>2 DEF AddFriendRequest, Answers
  <2>5. \/ pc' # "push"
        \/ \E f \in Uid : ChatMessageRequest(s, f) \/ AddFriendRequest(s, f)
    BY <1>9 DEF Request, RegisterRequest, LoginRequest, GetFriendListRequest,
       GetOfflineMessageRequest, RefusedRequest, Answers
  <2>6. B'
    BY <1>4, <2>3, <2>4, <2>5
  <2> QED
    BY <1>3, <1>6, <2>1, <2>2, <2>6
<1>10. CASE PushToTarget
  BY <1>3, <1>4, <1>5, <1>10 DEF PushToTarget
<1>11. CASE SelectUndelivered
  <2>1. batch' \in Seq(Undelivered(uid)) /\ UNCHANGED <<messages, uid, received>>
    BY <1>1, <1>11, UndeliveredListed, FetchedRows DEF SelectUndelivered
  <2>2. \A i \in Undelivered(uid) : messages[i].to = uid
    BY DEF Undelivered
  <2>3. C'
    BY <2>1, <2>2
  <2> QED
    BY <1>3, <1>4, <1>11, <2>1, <2>3 DEF SelectUndelivered
<1>12. CASE MarkDelivered
  BY <1>3, <1>4, <1>5, <1>12 DEF MarkDelivered
<1>13. CASE SendBatch \/ Reply \/ Restart
  <2>1. Len(batch') = 0 /\ pc' # "push" /\ received' = received
    BY <1>13 DEF SendBatch, Reply, Restart, Returned
  <2> QED
    BY <1>3, <1>4, <1>6, <2>1
<1>14. ASSUME NEW s \in Session, Connect(s) \/ Sever(s) PROVE A' /\ B' /\ C'
  BY <1>1, <1>3, <1>5, <1>14 DEF Connect, Sever
<1>15. ASSUME NEW s \in Session, Arrive(s) PROVE A' /\ B' /\ C'
  <2>1. UNCHANGED <<messages, pc, answer, target, batch, uid>>
    BY <1>15 DEF Arrive
  <2>2. ASSUME NEW i \in received', i \notin received PROVE i \in 1 .. Len(messages)
    <3>1. Carries(Head(wire[s]), i) /\ wire[s] # <<>> /\ wire[s] \in Seq(Frame)
      BY <1>1, <1>15, <2>2 DEF Arrive, Carries, Ids, TypeOK
    <3> QED
      BY <3>1, HasTail, OnWireIsStored
  <2> QED
    BY <1>1, <1>5, <2>1, <2>2
<1> QED
  BY <1>8, <1>9, <1>10, <1>11, <1>12, <1>13, <1>14, <1>15 DEF Next, Handler

-----------------------------------------------------------------------------
(* Open sessions are closed: the others stay where they are found.         *)
LEMMA OthersStayOnline ==
  ASSUME IInv, SessionsHold, NEW S \in SUBSET Session, \A t \in S : conn[t] = "open",
         NEW v \in Uid, online[v] \notin S
  PROVE  OnlineWithout(S)[v] = online[v]
<1>1. ASSUME NEW t \in S, loginUid[t] = v PROVE FALSE
  <2>1. loginUid[t] # 0
    BY <1>1, UidFacts
  <2> QED
    BY <1>1, <2>1 DEF SessionsHold
<1> QED
  BY <1>1 DEF OnlineWithout

LEMMA FoundBefore ==
  ASSUME NEW S \in SUBSET Session, NEW v \in Uid, OnlineWithout(S)[v] # None
  PROVE  OnlineWithout(S)[v] = online[v]
BY DEF OnlineWithout

(* Two steps close sessions.                                               *)
KickedBy(u) == {t \in Session : t = online[u] /\ conn[t] = "open"}

LEMMA LoginSteps ==
  ASSUME IInv, NEW s \in Session, NEW u \in Uid, LoginRequest(s, u)
  PROVE  /\ conn' = Closed(KickedBy(u)) /\ wire' = Emptied(KickedBy(u))
         /\ conn[s] # "free" /\ pc = "idle" /\ pc' = "select" /\ uid' = u /\ from' = s
         /\ \A t \in Session :
              loginUid'[t] = IF t = s THEN u ELSE IF t \in KickedBy(u) THEN 0 ELSE loginUid[t]
         /\ \A v \in Uid : online'[v] = IF v = u THEN s ELSE OnlineWithout(KickedBy(u))[v]
         /\ OnWires(KickedBy(u)) \subseteq astray' /\ Len(batch) = 0
         /\ UNCHANGED <<messages, received, batch>>
<1>1. TypeOK /\ HandlerKnows /\ pc = "idle"
  BY DEF IInv, LoginRequest, Starts
<1>2. /\ loginUid' = [LoggedOut(KickedBy(u)) EXCEPT ![s] = u]
      /\ online' = [OnlineWithout(KickedBy(u)) EXCEPT ![u] = s]
  BY DEF LoginRequest, KickedBy
<1>3. \A t \in Session :
        loginUid'[t] = IF t = s THEN u ELSE IF t \in KickedBy(u) THEN 0 ELSE loginUid[t]
  BY <1>2 DEF LoggedOut
<1>4. \A v \in Uid : online'[v] = IF v = u THEN s ELSE OnlineWithout(KickedBy(u))[v]
  BY <1>2 DEF OnlineWithout
<1>5. Len(batch) = 0
  BY <1>1 DEF HandlerKnows
<1> QED
  BY <1>1, <1>3, <1>4, <1>5 DEF LoginRequest, Starts, KickedBy, tables

LEMMA LoginHolds ==
  ASSUME IInv, SessionsHold, NEW s \in Session, NEW u \in Uid, LoginRequest(s, u)
  PROVE  SessionsHold'
<1> DEFINE old == KickedBy(u)
<1>1. /\ conn' = Closed(old) /\ conn[s] # "free" /\ uid' = u /\ from' = s
      /\ \A t \in Session :
           loginUid'[t] = IF t = s THEN u ELSE IF t \in old THEN 0 ELSE loginUid[t]
      /\ \A v \in Uid : online'[v] = IF v = u THEN s ELSE OnlineWithout(old)[v]
  BY LoginSteps
<1>2. old \in SUBSET Session /\ \A t \in Session : t \in old <=> t = online[u] /\ conn[t] = "open"
  BY DEF KickedBy
<1> HIDE DEF old
<1>3. TypeOK /\ online \in [Uid -> Session \cup {None}]
      /\ \A t \in Session : loginUid[t] \in Uid \cup {0}
  BY DEF IInv, TypeOK
<1>4. \A t \in Session : /\ conn'[t] = IF t \in old THEN "closed" ELSE conn[t]
                         /\ conn[t] # "free" => conn'[t] # "free"
  BY <1>1 DEF Closed
<1>5. ASSUME NEW v \in Uid, online'[v] # None PROVE conn'[online'[v]] # "free"
  <2>1. CASE v = u
    BY <1>1, <1>4, <2>1
  <2>2. CASE v # u
    <3>1. online'[v] = online[v]
      BY <1>1, <1>2, <1>5, <2>2, FoundBefore
    <3>2. online[v] \in Session
      BY <1>3, <1>5, <3>1
    <3> QED
      BY <1>4, <1>5, <3>1, <3>2 DEF SessionsHold
  <2> QED
    BY <2>1, <2>2
<1>6. \A t \in Session : loginUid'[t] # 0 => conn'[t] # "free"
  BY <1>1, <1>4 DEF SessionsHold
<1>7. ASSUME NEW t \in Session, conn'[t] = "open", loginUid'[t] # 0
      PROVE  online'[loginUid'[t]] = t
  <2>1. CASE t = s
    BY <1>1, <2>1
  <2>2. CASE t # s
    <3>1. t \notin old /\ conn[t] = "open" /\ loginUid'[t] = loginUid[t]
      BY <1>1, <1>4, <1>7, <2>2
    <3>2. loginUid[t] \in Uid /\ online[loginUid[t]] = t
      BY <1>3, <1>7, <3>1 DEF SessionsHold
    <3>3. loginUid[t] # u
      BY <1>2, <3>1, <3>2
    <3>4. OnlineWithout(old)[loginUid[t]] = online[loginUid[t]]
      BY <1>2, <3>1, <3>2, OthersStayOnline
    <3> QED
      BY <1>1, <3>1, <3>2, <3>3, <3>4
  <2> QED
    BY <2>1, <2>2
<1>8. online'[uid'] = from'
  BY <1>1
<1> QED
  BY <1>5, <1>6, <1>7, <1>8 DEF SessionsHold

LEMMA SeverHolds ==
  ASSUME IInv, SessionsHold, NEW s \in Session, Sever(s)
  PROVE  SessionsHold'
<1>1. /\ conn' = Closed({s}) /\ conn[s] = "open"
      /\ loginUid' = LoggedOut({s}) /\ online' = OnlineWithout({s})
      /\ UNCHANGED <<pc, uid, from>>
  BY DEF Sever, handlerVars
<1>2. HandlerKnows /\ online \in [Uid -> Session \cup {None}]
      /\ \A t \in Session : loginUid[t] \in Uid \cup {0}
  BY DEF IInv, TypeOK
<1>3. \A t \in Session : /\ conn'[t] = IF t = s THEN "closed" ELSE conn[t]
                         /\ loginUid'[t] = IF t = s THEN 0 ELSE loginUid[t]
  BY <1>1 DEF Closed, LoggedOut
<1>4. \A v \in Uid : online[v] # s => online'[v] = online[v]
  BY <1>1, OthersStayOnline
<1>5. ASSUME NEW v \in Uid, online'[v] # None PROVE conn'[online'[v]] # "free"
  <2>1. online'[v] = online[v]
    BY <1>1, <1>5, FoundBefore
  <2>2. online[v] \in Session
    BY <1>2, <1>5, <2>1
  <2> QED
    BY <1>3, <1>5, <2>1, <2>2 DEF SessionsHold
<1>6. \A t \in Session : loginUid'[t] # 0 => conn'[t] # "free"
  BY <1>3 DEF SessionsHold
<1>7. ASSUME NEW t \in Session, conn'[t] = "open", loginUid'[t] # 0
      PROVE  online'[loginUid'[t]] = t
  <2>1. t # s /\ conn[t] = "open" /\ loginUid'[t] = loginUid[t]
    BY <1>3, <1>7
  <2>2. loginUid[t] \in Uid /\ online[loginUid[t]] = t
    BY <1>2, <1>7, <2>1 DEF SessionsHold
  <2> QED
    BY <1>4, <2>1, <2>2
<1>8. ASSUME pc \in {"select", "mark", "batch"}, conn'[from] = "open"
      PROVE  online'[uid] = from
  <2>1. from \in Session /\ uid \in Uid
    BY <1>2, <1>8 DEF HandlerKnows
  <2>2. from # s /\ conn[from] = "open"
    BY <1>3, <1>8, <2>1
  <2> QED
    BY <1>4, <1>8, <2>1, <2>2 DEF SessionsHold
<1> QED
  BY <1>1, <1>5, <1>6, <1>7, <1>8 DEF SessionsHold

LEMMA SessionsHoldStep ==
  ASSUME IInv, [Next]_vars, SessionsHold
  PROVE  SessionsHold'
<1> USE DEF tables, sessionVars, arrivals, handlerVars
<1>1. TypeOK /\ HandlerKnows
  BY DEF IInv
<1>2. CASE UNCHANGED <<conn, loginUid, online>> /\ pc' \notin {"select", "mark", "batch"}
  BY <1>2 DEF SessionsHold
<1>3. CASE /\ UNCHANGED <<conn, loginUid, online, uid, from>>
           /\ (pc' \in {"select", "mark", "batch"} => pc \in {"select", "mark", "batch"})
  BY <1>3 DEF SessionsHold
<1>5. ASSUME NEW s \in Session, GetOfflineMessageRequest(s) PROVE SessionsHold'
  <2>1. /\ loginUid[s] # 0 /\ uid' = loginUid[s] /\ from' = s
        /\ UNCHANGED <<conn, loginUid, online>>
    BY <1>5 DEF GetOfflineMessageRequest, Starts
  <2> QED
    BY <2>1 DEF SessionsHold
<1>6. ASSUME NEW s \in Session, Request(s) PROVE SessionsHold'
  <2>1. \/ \E u \in Uid : LoginRequest(s, u)
        \/ GetOfflineMessageRequest(s)
        \/ UNCHANGED <<conn, loginUid, online>> /\ pc' \notin {"select", "mark", "batch"}
    BY <1>6 DEF Request, RegisterRequest, AddFriendRequest, GetFriendListRequest,
       ChatMessageRequest, RefusedRequest, Answers
  <2> QED
    BY <1>2, <1>5, <2>1, LoginHolds
<1>7. CASE Handler \/ UNCHANGED vars
  BY <1>2, <1>3, <1>7 DEF Handler, PushToTarget, SelectUndelivered, MarkDelivered, SendBatch,
     Reply, Returned, vars
<1>8. ASSUME NEW s \in Session, Connect(s) PROVE SessionsHold'
  <2>1. \A u \in Uid : online[u] # None => online[u] \in Session
    BY <1>1 DEF TypeOK
  <2>2. /\ conn[s] = "free" /\ UNCHANGED <<loginUid, online, pc, uid, from>>
        /\ \A t \in Session : conn'[t] = IF t = s THEN "open" ELSE conn[t]
    BY <1>1, <1>8 DEF Connect, TypeOK
  <2>3. pc \in {"select", "mark", "batch"} => from \in Session /\ conn[from] # "free"
    BY <1>1 DEF HandlerKnows
  <2> QED
    BY <2>1, <2>2, <2>3 DEF SessionsHold
<1>9. ASSUME NEW s \in Session, Arrive(s) PROVE SessionsHold'
  BY <1>3, <1>9 DEF Arrive
<1>11. CASE Restart
  <2>1. \A s \in Session : conn'[s] # "open" /\ loginUid'[s] = 0
    BY <1>11 DEF Restart
  <2>2. (\A u \in Uid : online'[u] = None) /\ pc' = "idle"
    BY <1>11 DEF Restart, Returned
  <2> QED
    BY <2>1, <2>2 DEF SessionsHold
<1> QED
  BY <1>6, <1>7, <1>8, <1>9, <1>11, SeverHolds DEF Next

-----------------------------------------------------------------------------
LEMMA SeenStays == ASSUME [Next]_vars PROVE Seen \subseteq Seen'
BY ReceivedStays, AstrayStays DEF Seen

(* A step that at most empties wires and receives nothing keeps the order: *)
(* a pair that it adds ends in a message that is nowhere yet.              *)
LEMMA OrderIfLost ==
  ASSUME IInv, IdsKnown, InOrder, [Next]_vars, UNCHANGED received,
         \A s \in Session : wire'[s] = wire[s] \/ wire'[s] = <<>>
  PROVE  InOrder'
<1>1. \A p \in Precedes' : p \in Precedes \/ p[2] \notin 1 .. Len(messages)
  BY PrecedesGrows
<1>2. ASSUME NEW s \in Session PROVE Ordered(wire'[s], Precedes', Seen')
  <2>1. \A p \in Precedes' : p \in Precedes \/ ~HasMessage(wire[s], p[2])
    BY <1>1, OnWireIsStored
  <2>2. Ordered(wire[s], Precedes, Seen) /\ Seen \subseteq Seen'
    BY SeenStays DEF InOrder
  <2>3. Ordered(wire[s], Precedes', Seen')
    BY <2>1, <2>2, OrderedMore
  <2>4. Len(<<>>) = 0 /\ Ordered(<<>>, Precedes', Seen')
    BY DEF Ordered
  <2> QED
    BY <2>3, <2>4
<1>3. \A p \in Precedes' : p[2] \in received => p[1] \in Seen'
  BY <1>1, SeenStays DEF InOrder, IdsKnown
<1> QED
  BY <1>2, <1>3 DEF InOrder

(* It also keeps what is under way with the user, if he is still found     *)
(* where he was.                                                           *)
LEMMA WireIfLost ==
  ASSUME IInv, WireHolds, [Next]_vars,
         \A s \in Session : wire'[s] = wire[s] \/ wire'[s] = <<>>,
         \A s \in Session : \A v \in Uid :
           online[v] = s /\ wire[s] # <<>> /\ wire'[s] = wire[s] => online'[v] = s
  PROVE  WireHolds'
<1> SUFFICES ASSUME NEW s \in Session, NEW i, HasMessage(wire'[s], i)
             PROVE  online'[messages'[i].to] = s
  <2>1. \A s \in Session : \A i : HasMessage(wire[s], i)' <=> HasMessage(wire'[s], i)
    BY DEF HasMessage, Carries
  <2> QED
    BY <2>1 DEF WireHolds
<1>1. wire[s] # <<>> /\ wire'[s] = wire[s]
  <2>1. ~HasMessage(<<>>, i)
    BY DEF HasMessage
  <2> QED
    BY <2>1
<1>2. i \in 1 .. Len(messages) /\ messages'[i].to = messages[i].to /\ messages[i].to \in Uid
  BY <1>1, OnWireIsStored, RecipientStays, RecipientIsUser DEF IInv
<1> QED
  BY <1>1, <1>2 DEF WireHolds

LEMMA OrderIfQuiet ==
  ASSUME IInv, OrderInv, [Next]_vars, UNCHANGED <<wire, received, online>>
  PROVE  WireHolds' /\ InOrder'
<1>1. IdsKnown /\ WireHolds /\ InOrder
  BY DEF OrderInv
<1>2. \A s \in Session : wire'[s] = wire[s] /\ \A v \in Uid : online'[v] = online[v]
  OBVIOUS
<1>3. InOrder'
  BY <1>1, <1>2, OrderIfLost
<1>4. WireHolds'
  BY <1>1, <1>2, WireIfLost
<1> QED
  BY <1>3, <1>4

-----------------------------------------------------------------------------
(* Accounted holds after a step if every message is accounted for then.    *)
LEMMA AccountedNext ==
  ASSUME \A i \in 1 .. Len(messages'), t \in Session :
           online'[messages'[i].to] = t /\ conn'[t] = "open" =>
             i \in Seen' \/ HasMessage(wire'[t], i) \/ InHand(i)'
  PROVE  Accounted'
<1>1. ASSUME NEW i \in 1 .. Len(messages'), NEW t \in Session
      PROVE  HasMessage(wire'[t], i) = HasMessage(wire[t], i)'
  BY DEF HasMessage, Carries
<1> QED
  BY <1>1 DEF Accounted

(* Nothing is in the worker's hands when a request begins.                 *)
LEMMA InNoHand ==
  ASSUME IInv, Accounted, pc = "idle",
         NEW i \in 1 .. Len(messages), NEW t \in Session,
         online[messages[i].to] = t, conn[t] = "open"
  PROVE  i \in Seen \/ HasMessage(wire[t], i)
<1>1. Len(batch) = 0
  BY DEF IInv, HandlerKnows
<1> QED
  BY <1>1 DEF Accounted, InHand, InBatch

(* A login is served a user's messages from the first one on: those that   *)
(* are marked were seen, or are lost with the session that is kicked.      *)
LEMMA OrderLogin ==
  ASSUME IInv, MarkedIsAccountedFor, OrderInv, [Next]_vars,
         NEW s \in Session, NEW u \in Uid, LoginRequest(s, u)
  PROVE  WireHolds' /\ Accounted' /\ InOrder'
<1> DEFINE old == KickedBy(u)
<1>1. /\ conn' = Closed(old) /\ wire' = Emptied(old)
      /\ conn[s] # "free" /\ pc = "idle" /\ pc' = "select" /\ uid' = u
      /\ \A v \in Uid : online'[v] = IF v = u THEN s ELSE OnlineWithout(old)[v]
      /\ OnWires(old) \subseteq astray' /\ Len(batch) = 0
      /\ UNCHANGED <<messages, received, batch>>
  BY LoginSteps
<1>2. old \in SUBSET Session /\ \A t \in Session : t \in old <=> t = online[u] /\ conn[t] = "open"
  BY DEF KickedBy
<1> HIDE DEF old
<1>3. TypeOK /\ WireIsOpen /\ IdsKnown /\ SessionsHold /\ WireHolds /\ Accounted /\ InOrder
  BY DEF IInv, OrderInv
<1>4. \A t \in Session : /\ conn'[t] = IF t \in old THEN "closed" ELSE conn[t]
                         /\ wire'[t] = IF t \in old THEN <<>> ELSE wire[t]
  BY <1>1 DEF Closed, Emptied
<1>5. InOrder'
  BY <1>1, <1>3, <1>4, OrderIfLost
<1>6. WireHolds'
  <2>1. ASSUME NEW t \in Session, NEW v \in Uid, online[v] = t, wire[t] # <<>>, wire'[t] = wire[t]
        PROVE  online'[v] = t
    <3>1. conn[t] = "open" /\ t \notin old
      BY <1>3, <1>4, <2>1 DEF WireIsOpen
    <3>2. v # u
      BY <1>2, <2>1, <3>1
    <3>3. OnlineWithout(old)[v] = online[v]
      BY <1>2, <1>3, <2>1, <3>1, OthersStayOnline
    <3> QED
      BY <1>1, <2>1, <3>2, <3>3
  <2> QED
    BY <1>3, <1>4, <2>1, WireIfLost
<1>7. ASSUME NEW i \in 1 .. Len(messages), NEW t \in Session,
             online'[messages[i].to] = t, conn'[t] = "open", i \notin Seen'
      PROVE  HasMessage(wire'[t], i) \/ (u = messages[i].to /\ ~messages[i].delivered)
  <2>1. messages[i].to \in Uid /\ i \notin Seen
    BY <1>3, <1>7, RecipientIsUser, SeenStays
  <2>2. CASE messages[i].to = u /\ messages[i].delivered
    <3>1. InTransit(i)
      BY <2>1, <2>2 DEF MarkedIsAccountedFor, Seen
    <3>2. i \in OnWires(Session)
      BY <1>1, <3>1 DEF InTransit, Ids
    <3>3. PICK r \in Session : \E k \in 1 .. Len(wire[r]) : Carries(wire[r][k], i)
      BY <3>2, OnWiresMeans
    <3>4. online[u] = r /\ wire[r] # <<>>
      BY <1>3, <2>2, <3>3 DEF WireHolds, HasMessage
    <3>5. r \in old
      BY <1>2, <1>3, <3>4 DEF WireIsOpen
    <3>6. i \in OnWires(old)
      BY <3>3, <3>5, OnWiresMeans
    <3> QED
      BY <1>1, <1>7, <3>6 DEF Seen
  <2>3. CASE messages[i].to # u
    <3>1. online[messages[i].to] = t
      BY <1>1, <1>2, <1>7, <2>1, <2>3, FoundBefore, DeliveryAssumption
    <3>2. conn[t] = "open" /\ wire'[t] = wire[t]
      BY <1>4, <1>7
    <3> QED
      BY <1>1, <1>3, <2>1, <3>1, <3>2, InNoHand
  <2> QED
    BY <2>2, <2>3
<1>8. Accounted'
  <2>1. ASSUME NEW i \in 1 .. Len(messages), NEW t \in Session,
               online'[messages[i].to] = t, conn'[t] = "open"
        PROVE  \/ i \in Seen' \/ HasMessage(wire'[t], i)
               \/ pc' = "select" /\ uid' = messages[i].to /\ ~messages[i].delivered
    BY <1>1, <1>7, <2>1
  <2>2. messages' = messages
    BY <1>1
  <2> QED
    BY <2>1, <2>2, AccountedNext DEF InHand
<1> QED
  BY <1>5, <1>6, <1>8

(* A new message is on its way at once.                                    *)
LEMMA OrderRequest ==
  ASSUME IInv, MarkedIsAccountedFor, OrderInv, [Next]_vars, NEW s \in Session, Request(s)
  PROVE  WireHolds' /\ Accounted' /\ InOrder'
<1> USE DEF tables, sessionVars, arrivals, handlerVars
<1>1. /\ TypeOK /\ pc = "idle" /\ IdsKnown /\ SessionsHold /\ WireHolds /\ Accounted /\ InOrder
  BY DEF IInv, OrderInv, Request, RegisterRequest, LoginRequest, AddFriendRequest,
     GetFriendListRequest, ChatMessageRequest, GetOfflineMessageRequest, RefusedRequest, Starts
<1>2. \A i \in 1 .. Len(messages), t \in Session :
        online[messages[i].to] = t /\ conn[t] = "open" => i \in Seen \/ HasMessage(wire[t], i)
  BY <1>1, InNoHand
<1>3. ASSUME UNCHANGED <<online, wire, received>> PROVE InOrder' /\ WireHolds'
  BY <1>3, OrderIfQuiet
<1>4. CASE UNCHANGED <<messages, sessionVars, wire, arrivals>>
  <2>1. Accounted'
    <3>1. UNCHANGED <<messages, online, conn, wire, received, astray>>
      BY <1>4
    <3> QED
      BY <1>2, <3>1, AccountedNext DEF InHand, Seen
  <2> QED
    BY <1>3, <1>4, <2>1
<1>5. ASSUME NEW to \in Uid, ChatMessageRequest(s, to), messages' # messages
      PROVE  WireHolds' /\ Accounted' /\ InOrder'
  <2>1. /\ UNCHANGED <<conn, wire, received, astray, online>> /\ pc' = "push"
        /\ answer' = FrameOf("ack", <<Len(messages')>>)
    BY <1>5 DEF ChatMessageRequest, SaveMessage
  <2>2. \A i \in 1 .. Len(messages) : messages'[i].to = messages[i].to
    BY RecipientStays
  <2>3. ASSUME NEW i \in 1 .. Len(messages'), i \notin 1 .. Len(messages)
        PROVE  i = Len(messages')
    <3>1. Len(messages) \in Nat /\ Len(messages') \in Nat /\ i = Len(messages) + 1
      BY <2>3, TablesGrow, NewRow
    <3>2. Len(messages') \in 1 .. Len(messages') /\ Len(messages') \notin 1 .. Len(messages)
      BY <3>1
    <3>3. Len(messages') = Len(messages) + 1
      BY <3>2, NewRow
    <3> QED
      BY <3>1, <3>3
  <2>4. answer'.kind = "ack"
    BY <2>1 DEF FrameOf
  <2>5. ASSUME NEW i \in 1 .. Len(messages'), NEW t \in Session,
               online[messages'[i].to] = t, conn[t] = "open"
        PROVE  i \in Seen \/ HasMessage(wire[t], i) \/ i = Len(messages')
    BY <1>2, <2>2, <2>3, <2>5
  <2>6. Accounted'
    BY <2>1, <2>4, <2>5, AccountedNext DEF InHand, Seen
  <2> QED
    BY <1>3, <2>1, <2>6
<1>6. \/ UNCHANGED <<messages, sessionVars, wire, arrivals>>
      \/ \E u \in Uid : LoginRequest(s, u)
      \/ \E to \in Uid : ChatMessageRequest(s, to) /\ messages' # messages
  BY DEF Request, RegisterRequest, AddFriendRequest, GetFriendListRequest, ChatMessageRequest,
     GetOfflineMessageRequest, RefusedRequest
<1> QED
  BY <1>4, <1>5, <1>6, OrderLogin

(* A connection that breaks takes along what was under way on it, and      *)
(* nothing else.                                                           *)
LEMMA OrderSever ==
  ASSUME IInv, OrderInv, [Next]_vars, NEW s \in Session, Sever(s)
  PROVE  WireHolds' /\ Accounted' /\ InOrder'
<1>1. /\ conn' = Closed({s}) /\ wire' = Emptied({s}) /\ online' = OnlineWithout({s})
      /\ conn[s] = "open" /\ UNCHANGED <<messages, received, pc, uid, answer, batch>>
  BY DEF Sever, tables, handlerVars
<1>2. TypeOK /\ IdsKnown /\ SessionsHold /\ WireHolds /\ Accounted /\ InOrder
  BY DEF IInv, OrderInv
<1>3. \A t \in Session : /\ conn'[t] = IF t = s THEN "closed" ELSE conn[t]
                         /\ wire'[t] = IF t = s THEN <<>> ELSE wire[t]
  BY <1>1 DEF Closed, Emptied
<1>4. InOrder'
  BY <1>1, <1>2, <1>3, OrderIfLost
<1>5. \A v \in Uid : online[v] # s => online'[v] = online[v]
  BY <1>1, <1>2, OthersStayOnline
<1>6. WireHolds'
  <2>1. ASSUME NEW t \in Session, NEW v \in Uid, online[v] = t, wire[t] # <<>>, wire'[t] = wire[t]
        PROVE  online'[v] = t
    BY <1>3, <1>5, <2>1
  <2> QED
    BY <1>2, <1>3, <2>1, WireIfLost
<1>7. Accounted'
  <2>1. ASSUME NEW i \in 1 .. Len(messages), NEW t \in Session,
               online'[messages[i].to] = t, conn'[t] = "open"
        PROVE  i \in Seen' \/ HasMessage(wire'[t], i) \/ InHand(i)
    <3>1. messages[i].to \in Uid
      BY <1>2, RecipientIsUser
    <3>2. online[messages[i].to] = t
      BY <1>1, <2>1, <3>1, FoundBefore, DeliveryAssumption
    <3>3. conn[t] = "open" /\ wire'[t] = wire[t]
      BY <1>3, <2>1
    <3> QED
      BY <1>2, <3>2, <3>3, SeenStays DEF Accounted
  <2> QED
    BY <1>1, <2>1, AccountedNext DEF InHand, InBatch
<1> QED
  BY <1>4, <1>6, <1>7

LEMMA OrderRestart ==
  ASSUME IInv, OrderInv, [Next]_vars, Restart
  PROVE  WireHolds' /\ Accounted' /\ InOrder'
<1>1. /\ \A s \in Session : wire'[s] = <<>> /\ conn'[s] # "open"
      /\ UNCHANGED <<messages, received>>
  BY DEF Restart, tables
<1>2. InOrder'
  BY <1>1, OrderIfLost DEF OrderInv
<1>3. WireHolds'
  BY <1>1, WireIfLost DEF OrderInv
<1>4. Accounted'
  BY <1>1, SMTT(30) DEF Accounted
<1> QED
  BY <1>2, <1>3, <1>4

(* A session that has just connected is nobody's.                          *)
LEMMA OrderConnect ==
  ASSUME IInv, OrderInv, [Next]_vars, NEW s \in Session, Connect(s)
  PROVE  WireHolds' /\ Accounted' /\ InOrder'
<1>1. /\ conn[s] = "free" /\ conn' = [conn EXCEPT ![s] = "open"]
      /\ UNCHANGED <<messages, online, wire, received, astray, pc, uid, answer, batch>>
  BY DEF Connect, tables, handlerVars, arrivals
<1>2. TypeOK /\ IdsKnown /\ SessionsHold /\ WireHolds /\ Accounted /\ InOrder
  BY DEF IInv, OrderInv
<1>3. InOrder' /\ WireHolds'
  BY <1>1, OrderIfQuiet
<1>4. ASSUME NEW i \in 1 .. Len(messages), NEW t \in Session,
             online[messages[i].to] = t, conn'[t] = "open"
      PROVE  i \in Seen \/ HasMessage(wire[t], i) \/ InHand(i)
  <2>1. messages[i].to \in Uid
    BY <1>2, RecipientIsUser
  <2>2. t # s
    BY <1>1, <1>4, <2>1, DeliveryAssumption, <1>2 DEF SessionsHold
  <2>3. conn[t] = "open"
    BY <1>1, <1>2, <1>4, <2>2 DEF TypeOK
  <2> QED
    BY <1>2, <1>4, <2>3 DEF Accounted
<1>5. Accounted'
  BY <1>1, <1>4, AccountedNext DEF InHand, InBatch, Seen
<1> QED
  BY <1>3, <1>5

-----------------------------------------------------------------------------
(* What a step that sends does to the wires: the frame comes last on that  *)
(* of an open session, or it is dropped and what it carries goes astray.   *)
LEMMA HasSent ==
  ASSUME IInv, NEW s \in Session, NEW frame \in Frame,
         wire' = [wire EXCEPT ![s] = Append(wire[s], frame)]
  PROVE  \A t \in Session : \A i : HasMessage(wire'[t], i) <=>
           HasMessage(wire[t], i) \/ (t = s /\ Carries(frame, i))
<1>1. wire \in [Session -> Seq(Frame)]
  BY DEF IInv, TypeOK
<1> SUFFICES ASSUME NEW t \in Session, NEW i
             PROVE  HasMessage(wire'[t], i) <=>
                      HasMessage(wire[t], i) \/ (t = s /\ Carries(frame, i))
  OBVIOUS
<1>2. CASE t # s
  BY <1>1, <1>2
<1>3. CASE t = s
  <2>1. wire'[t] = Append(wire[t], frame) /\ wire[t] \in Seq(Frame)
    BY <1>1, <1>3
  <2> QED
    BY <1>3, <2>1, HasAppended
<1> QED
  BY <1>2, <1>3

(* A frame is sent for a user to the session that he is found with, and    *)
(* what precedes a message in it was seen, is on that wire or in it too.   *)
LEMMA OrderIfSent ==
  ASSUME IInv, OrderInv, [Next]_vars, UNCHANGED <<messages, received, online>>,
         NEW s \in Session, NEW frame \in Frame,
         wire' = [wire EXCEPT ![s] = Append(wire[s], frame)],
         \A i : Carries(frame, i) => online[messages[i].to] = s,
         \A p \in Precedes : Carries(frame, p[2]) =>
           p[1] \in Seen \/ HasMessage(wire[s], p[1]) \/ Carries(frame, p[1])
  PROVE  WireHolds' /\ InOrder'
<1>1. Precedes' = Precedes /\ Seen \subseteq Seen'
  BY SeenStays DEF Precedes
<1>2. wire \in [Session -> Seq(Frame)] /\ InOrder /\ WireHolds
  BY DEF IInv, TypeOK, OrderInv
<1>3. ASSUME NEW t \in Session PROVE Ordered(wire'[t], Precedes, Seen')
  <2>1. wire[t] \in Seq(Frame)
    BY <1>2
  <2>2. Ordered(wire[t], Precedes, Seen')
    <3>1. Ordered(wire[t], Precedes, Seen)
      BY <1>2 DEF InOrder
    <3> QED
      BY <1>1, <3>1, OrderedMore
  <2>3. CASE t # s
    BY <1>2, <2>2, <2>3
  <2>4. CASE t = s
    <3>1. wire'[t] = Append(wire[t], frame)
      BY <1>2, <2>4
    <3>2. \A p \in Precedes : Carries(frame, p[2]) =>
            p[1] \in Seen' \/ HasMessage(wire[t], p[1]) \/ Carries(frame, p[1])
      BY <1>1, <2>4
    <3>3. Ordered(Append(wire[t], frame), Precedes, Seen')
      BY <2>1, <2>2, <3>2, OrderedAppended
    <3> QED
      BY <3>1, <3>3
  <2> QED
    BY <2>3, <2>4
<1>4. \A p \in Precedes : p[2] \in received => p[1] \in Seen'
  BY <1>1, <1>2 DEF InOrder
<1>5. InOrder'
  BY <1>1, <1>3, <1>4 DEF InOrder
<1>6. \A t \in Session : \A i : HasMessage(wire'[t], i) => online[messages[i].to] = t
  BY <1>2, HasSent DEF WireHolds
<1>7. WireHolds'
  BY <1>6 DEF WireHolds, HasMessage, Carries
<1> QED
  BY <1>5, <1>7

(* The steps of a handler: each message that is pushed comes after all     *)
(* those for the same user, the batch holds all that was kept for him.     *)
LEMMA OrderPush ==
  ASSUME IInv, OrderInv, [Next]_vars, PushToTarget
  PROVE  WireHolds' /\ Accounted' /\ InOrder'
<1> USE DEF tables, sessionVars, handlerVars
<1>1. /\ TypeOK /\ pc = "push" /\ Len(batch) = 0 /\ target \in Uid
      /\ answer.kind \in {"ack", "added"} /\ Backed(answer)
      /\ IdsKnown /\ SessionsHold /\ WireHolds /\ Accounted /\ InOrder
  BY DEF IInv, HandlerKnows, AllBacked, PushToTarget, OrderInv
<1>2. UNCHANGED <<messages, received, online, conn, answer, batch>> /\ pc' = "reply"
  BY DEF PushToTarget
<1>3. ASSUME NEW i \in 1 .. Len(messages), NEW t \in Session,
             online[messages[i].to] = t, conn[t] = "open"
      PROVE  \/ i \in Seen \/ HasMessage(wire[t], i)
             \/ answer.kind = "ack" /\ i = Len(messages)
  BY <1>1, <1>3 DEF Accounted, InHand, InBatch
<1>4. answer.kind = "ack" =>
        Len(messages) \in 1 .. Len(messages) /\ messages[Len(messages)].to = target
  <2>1. Len(messages) \in Nat
    BY <1>1 DEF TypeOK
  <2> QED
    BY <1>1, <2>1 DEF IdsKnown
<1> DEFINE frame == IF answer.kind = "ack" THEN FrameOf("push", answer.data)
                                           ELSE FrameOf("invite", <<answer.data[1]>>)
           t == online[target]
<1>5. frame \in Frame
  BY <1>1, PushedFrame
<1>6. \A i : Carries(frame, i) <=> answer.kind = "ack" /\ i = Len(messages)
  <2>1. CASE answer.kind = "ack"
    <3>1. frame.kind = "push" /\ frame.data = answer.data
      BY <2>1 DEF FrameOf
    <3>2. Len(answer.data) = 1 /\ answer.data[1] = Len(messages)
      BY <1>1, <2>1 DEF Backed, IdsKnown
    <3> HIDE DEF frame
    <3> QED
      BY <2>1, <3>1, <3>2 DEF Carries
  <2>2. CASE answer.kind # "ack"
    <3>1. frame.kind = "invite"
      BY <2>2 DEF FrameOf
    <3> HIDE DEF frame
    <3> QED
      BY <2>2, <3>1 DEF Carries
  <2> QED
    BY <2>1, <2>2
<1>7. answer.kind = "ack" => frame.kind = "push" /\ frame.data = answer.data
  BY DEF FrameOf
<1>8. \/ t = None /\ wire' = wire
      \/ t \in Session /\ wire' = Sent(t, frame) /\ AstrayUnlessSent(t, frame)
  BY <1>1 DEF PushToTarget, TypeOK
<1>9. online[target] = t
  OBVIOUS
<1> HIDE DEF frame, t
<1>10. CASE t = None \/ ~Accepts(t, frame)
  <2>1. wire' = wire
    BY <1>8, <1>10, DeliveryAssumption DEF Sent
  <2>2. InOrder' /\ WireHolds'
    BY <1>2, <2>1, OrderIfQuiet
  <2>3. ASSUME NEW i \in 1 .. Len(messages), NEW r \in Session,
               online[messages[i].to] = r, conn[r] = "open"
        PROVE  i \in Seen' \/ HasMessage(wire[r], i)
    <3>1. CASE answer.kind = "ack" /\ i = Len(messages)
      <4>1. t = r
        BY <1>4, <1>9, <2>3, <3>1
      <4>2. AstrayUnlessSent(t, frame) /\ ~Accepts(t, frame)
        BY <1>8, <1>10, <4>1, DeliveryAssumption
      <4>3. Ids(frame.data) \subseteq astray'
        BY <1>7, <3>1, <4>2 DEF AstrayUnlessSent
      <4>4. i \in Ids(frame.data)
        BY <1>6, <3>1 DEF Carries, Ids
      <4> QED
        BY <4>3, <4>4 DEF Seen
    <3> QED
      BY <1>3, <2>3, <3>1, SeenStays
  <2>4. Accounted'
    BY <1>2, <2>1, <2>3, AccountedNext
  <2> QED
    BY <2>2, <2>4
<1>11. CASE t \in Session /\ Accepts(t, frame)
  <2>1. wire' = [wire EXCEPT ![t] = Append(wire[t], frame)] /\ conn[t] = "open"
    BY <1>8, <1>11, DeliveryAssumption DEF Sent, Accepts
  <2>2. \A i : Carries(frame, i) => online[messages[i].to] = t
    BY <1>4, <1>6, <1>9
  <2>3. ASSUME NEW p \in Precedes, Carries(frame, p[2])
        PROVE  p[1] \in Seen \/ HasMessage(wire[t], p[1])
    <3>1. /\ p[1] \in 1 .. Len(messages) /\ p[1] < p[2] /\ p[2] = Len(messages)
          /\ messages[p[1]].to = messages[p[2]].to /\ answer.kind = "ack"
      BY <1>6, <2>3 DEF Precedes
    <3>2. online[messages[p[1]].to] = t /\ p[1] # Len(messages)
      BY <1>4, <1>9, <3>1
    <3> QED
      BY <1>3, <1>11, <2>1, <3>1, <3>2
  <2>4. WireHolds' /\ InOrder'
    BY <1>2, <1>5, <1>11, <2>1, <2>2, <2>3, OrderIfSent
  <2>5. \A r \in Session : \A i : HasMessage(wire'[r], i) <=>
          HasMessage(wire[r], i) \/ (r = t /\ Carries(frame, i))
    BY <1>5, <1>11, <2>1, HasSent
  <2>6. ASSUME NEW i \in 1 .. Len(messages), NEW r \in Session,
               online[messages[i].to] = r, conn[r] = "open"
        PROVE  i \in Seen' \/ HasMessage(wire'[r], i)
    <3>1. CASE answer.kind = "ack" /\ i = Len(messages)
      <4>1. r = t /\ Carries(frame, i)
        BY <1>4, <1>6, <1>9, <2>6, <3>1
      <4> QED
        BY <2>5, <4>1
    <3> QED
      BY <1>3, <2>5, <2>6, <3>1, SeenStays
  <2>7. Accounted'
    BY <1>2, <2>6, AccountedNext
  <2> QED
    BY <2>4, <2>7
<1> QED
  BY <1>8, <1>10, <1>11

LEMMA OrderSelect ==
  ASSUME IInv, OrderInv, [Next]_vars, SelectUndelivered
  PROVE  WireHolds' /\ Accounted' /\ InOrder'
<1> USE DEF tables, sessionVars, handlerVars
<1>1. /\ TypeOK /\ pc = "select" /\ Len(batch) = 0
      /\ IdsKnown /\ WireHolds /\ Accounted /\ InOrder
  BY DEF IInv, HandlerKnows, SelectUndelivered, OrderInv
<1>2. UNCHANGED <<messages, received, online, conn, wire, uid>>
  BY DEF SelectUndelivered
<1>3. InOrder' /\ WireHolds'
  BY <1>2, OrderIfQuiet
<1>4. \A i \in Undelivered(uid) : i \in Seen' \/ InBatch(i)'
  BY DEF SelectUndelivered, Seen, Ids, InBatch
<1>5. ASSUME NEW i \in 1 .. Len(messages), NEW t \in Session,
             online[messages[i].to] = t, conn[t] = "open"
      PROVE  i \in Seen' \/ HasMessage(wire[t], i) \/ InBatch(i)'
  <2>1. \/ i \in Seen \/ HasMessage(wire[t], i)
        \/ uid = messages[i].to /\ ~messages[i].delivered
    BY <1>1, <1>5 DEF Accounted, InHand, InBatch
  <2> QED
    BY <1>4, <2>1, SeenStays DEF Undelivered
<1>6. Accounted'
  BY <1>2, <1>5, AccountedNext DEF InHand, InBatch
<1> QED
  BY <1>3, <1>6

LEMMA OrderMark ==
  ASSUME IInv, OrderInv, [Next]_vars, MarkDelivered
  PROVE  WireHolds' /\ Accounted' /\ InOrder'
<1> USE DEF tables, sessionVars, arrivals, handlerVars
<1>1. TypeOK /\ pc = "mark" /\ IdsKnown /\ WireHolds /\ Accounted /\ InOrder
  BY DEF IInv, MarkDelivered, OrderInv
<1>2. UNCHANGED <<received, online, conn, wire, batch>>
  BY DEF MarkDelivered
<1>3. InOrder' /\ WireHolds'
  BY <1>2, OrderIfQuiet
<1>4. ASSUME NEW i \in 1 .. Len(messages')
      PROVE  i \in 1 .. Len(messages)
  BY <1>1, <1>4, NewRow DEF MarkDelivered, ChatMessageRequest, Starts
<1>5. ASSUME NEW i \in 1 .. Len(messages'), NEW t \in Session,
             online[messages'[i].to] = t, conn[t] = "open"
      PROVE  i \in Seen' \/ HasMessage(wire[t], i) \/ InBatch(i)
  <2>1. i \in 1 .. Len(messages) /\ messages'[i].to = messages[i].to
    BY <1>4, RecipientStays
  <2> QED
    BY <1>1, <1>5, <2>1, SeenStays DEF Accounted, InHand
<1>6. Accounted'
  BY <1>2, <1>5, AccountedNext DEF InHand, InBatch
<1> QED
  BY <1>3, <1>6

LEMMA OrderBatch ==
  ASSUME IInv, OrderInv, [Next]_vars, SendBatch
  PROVE  WireHolds' /\ Accounted' /\ InOrder'
<1> USE DEF tables, sessionVars, handlerVars
<1>1. /\ TypeOK /\ pc = "batch" /\ from \in Session
      /\ IdsKnown /\ SessionsHold /\ WireHolds /\ Accounted /\ InOrder
  BY DEF IInv, HandlerKnows, SendBatch, OrderInv
<1>2. UNCHANGED <<messages, received, online, conn>>
  BY DEF SendBatch
<1> DEFINE frame == FrameOf("batch", batch)
<1>3. frame \in Frame /\ frame.kind = "batch" /\ frame.data = batch
  <2>1. batch \in Seq(MsgId) /\ MsgId \subseteq Nat
    BY <1>1 DEF TypeOK, MsgId
  <2>2. batch \in Seq(Nat)
    BY <2>1, SeqMonotonic
  <2>3. frame \in Frame
    BY <2>2, FrameTypes
  <2> QED
    BY <2>3 DEF FrameOf
<1>4. wire' = Sent(from, frame) /\ AstrayUnlessSent(from, frame)
  BY DEF SendBatch
<1> HIDE DEF frame
<1>5. \A i : Carries(frame, i) <=> InBatch(i)
  BY <1>3 DEF Carries, InBatch
<1>6. \A i : InBatch(i) => messages[i].to = uid
  BY <1>1 DEF InBatch, IdsKnown
<1>7. ASSUME NEW i \in 1 .. Len(messages), NEW t \in Session,
             online[messages[i].to] = t, conn[t] = "open"
      PROVE  i \in Seen \/ HasMessage(wire[t], i) \/ InBatch(i)
  BY <1>1, <1>7 DEF Accounted, InHand
<1>8. CASE ~Accepts(from, frame)
  <2>1. wire' = wire /\ \A i : InBatch(i) => i \in Seen'
    BY <1>3, <1>4, <1>8 DEF Sent, AstrayUnlessSent, InBatch, Ids, Seen
  <2>2. InOrder' /\ WireHolds'
    BY <1>2, <2>1, OrderIfQuiet
  <2>3. ASSUME NEW i \in 1 .. Len(messages), NEW t \in Session,
               online[messages[i].to] = t, conn[t] = "open"
        PROVE  i \in Seen' \/ HasMessage(wire[t], i)
    BY <1>7, <2>1, <2>3, SeenStays
  <2>4. Accounted'
    BY <1>2, <2>1, <2>3, AccountedNext
  <2> QED
    BY <2>2, <2>4
<1>9. CASE Accepts(from, frame)
  <2>1. /\ wire' = [wire EXCEPT ![from] = Append(wire[from], frame)]
        /\ conn[from] = "open" /\ online[uid] = from
    BY <1>1, <1>4, <1>9 DEF Sent, Accepts, SessionsHold
  <2>2. \A i : Carries(frame, i) => online[messages[i].to] = from
    BY <1>5, <1>6, <2>1
  <2>3. ASSUME NEW p \in Precedes, Carries(frame, p[2])
        PROVE  p[1] \in Seen \/ HasMessage(wire[from], p[1]) \/ Carries(frame, p[1])
    <3>1. p[1] \in 1 .. Len(messages) /\ messages[p[1]].to = uid
      BY <1>5, <1>6, <2>3 DEF Precedes
    <3> QED
      BY <1>1, <1>5, <1>7, <2>1, <3>1
  <2>4. WireHolds' /\ InOrder'
    BY <1>1, <1>2, <1>3, <2>1, <2>2, <2>3, OrderIfSent
  <2>5. \A r \in Session : \A i : HasMessage(wire'[r], i) <=>
          HasMessage(wire[r], i) \/ (r = from /\ InBatch(i))
    BY <1>1, <1>3, <1>5, <2>1, HasSent
  <2>6. ASSUME NEW i \in 1 .. Len(messages), NEW t \in Session,
               online[messages[i].to] = t, conn[t] = "open"
        PROVE  i \in Seen' \/ HasMessage(wire'[t], i)
    <3>1. CASE InBatch(i)
      <4>1. t = from
        BY <1>6, <2>1, <2>6, <3>1
      <4> QED
        BY <2>5, <3>1, <4>1
    <3> QED
      BY <1>7, <2>5, <2>6, <3>1, SeenStays
  <2>7. Accounted'
    BY <1>2, <2>6, AccountedNext
  <2> QED
    BY <2>4, <2>7
<1> QED
  BY <1>8, <1>9

LEMMA OrderReply ==
  ASSUME IInv, OrderInv, [Next]_vars, Reply
  PROVE  WireHolds' /\ Accounted' /\ InOrder'
<1> USE DEF tables, sessionVars, arrivals, handlerVars
<1>1. /\ TypeOK /\ pc = "reply" /\ from \in Session /\ Len(batch) = 0 /\ answer \in Frame
      /\ IdsKnown /\ WireHolds /\ Accounted /\ InOrder
  BY DEF IInv, HandlerKnows, Reply, TypeOK, OrderInv
<1>2. UNCHANGED <<messages, received, astray, online, conn>> /\ wire' = Sent(from, answer)
  BY DEF Reply
<1>3. ASSUME NEW i \in 1 .. Len(messages), NEW t \in Session,
             online[messages[i].to] = t, conn[t] = "open"
      PROVE  i \in Seen \/ HasMessage(wire[t], i)
  BY <1>1, <1>3 DEF Accounted, InHand, InBatch
<1>4. \A i : ~Carries(answer, i)
  BY <1>1 DEF IdsKnown, Carries
<1>5. CASE wire' = wire
  <2>1. InOrder' /\ WireHolds'
    BY <1>2, <1>5, OrderIfQuiet
  <2>2. Accounted'
    BY <1>2, <1>3, <1>5, AccountedNext DEF Seen
  <2> QED
    BY <2>1, <2>2
<1>6. CASE wire' = [wire EXCEPT ![from] = Append(wire[from], answer)]
  <2>1. \A t \in Session : \A i : HasMessage(wire'[t], i) <=> HasMessage(wire[t], i)
    BY <1>1, <1>4, <1>6, HasSent
  <2>2. InOrder' /\ WireHolds'
    BY <1>1, <1>2, <1>4, <1>6, OrderIfSent
  <2>3. ASSUME NEW i \in 1 .. Len(messages), NEW t \in Session,
               online[messages[i].to] = t, conn[t] = "open"
        PROVE  i \in Seen \/ HasMessage(wire'[t], i)
    BY <1>3, <2>1, <2>3
  <2>4. Accounted'
    BY <1>2, <2>3, AccountedNext DEF InHand, Seen
  <2> QED
    BY <2>2, <2>4
<1> QED
  BY <1>2, <1>5, <1>6 DEF Sent

(* A frame that arrives brings nothing before what precedes it.            *)
LEMMA OrderArrive ==
  ASSUME IInv, OrderInv, [Next]_vars, NEW s \in Session, Arrive(s)
  PROVE  WireHolds' /\ Accounted' /\ InOrder'
<1> USE DEF tables, sessionVars, handlerVars
<1>1. wire \in [Session -> Seq(Frame)] /\ wire[s] \in Seq(Frame) /\ wire[s] # <<>>
      /\ WireHolds /\ Accounted /\ InOrder
  BY DEF IInv, TypeOK, Arrive, OrderInv
<1>2. UNCHANGED <<messages, online, conn, pc, answer, uid, batch>>
  BY DEF Arrive
<1>3. /\ wire'[s] = Tail(wire[s])
      /\ \A t \in Session : t # s => wire'[t] = wire[t]
  BY <1>1 DEF Arrive
<1>4. /\ Seen \subseteq Seen' /\ received' \subseteq Seen'
      /\ \A i : Carries(Head(wire[s]), i) => i \in received'
      /\ \A i \in received' : i \in received \/ Carries(Head(wire[s]), i)
  BY SeenStays DEF Arrive, Carries, Ids, Seen
<1>5. \A i : HasMessage(wire[s], i) <=> Carries(Head(wire[s]), i) \/ HasMessage(wire'[s], i)
  BY <1>1, <1>3, HasTail
<1>6. \A t \in Session : \A i : HasMessage(wire'[t], i) => HasMessage(wire[t], i)
  BY <1>3, <1>5
<1>7. \A t \in Session : \A i : HasMessage(wire[t], i) => i \in Seen' \/ HasMessage(wire'[t], i)
  BY <1>3, <1>4, <1>5
<1>8. WireHolds'
  <2>1. \A t \in Session : \A i : HasMessage(wire'[t], i) => online[messages[i].to] = t
    BY <1>1, <1>6 DEF WireHolds
  <2> QED
    BY <1>2, <2>1 DEF WireHolds, HasMessage, Carries
<1>9. Accounted'
  <2>1. ASSUME NEW i \in 1 .. Len(messages), NEW t \in Session,
               online[messages[i].to] = t, conn[t] = "open"
        PROVE  i \in Seen' \/ HasMessage(wire'[t], i) \/ InHand(i)
    BY <1>1, <1>4, <1>7, <2>1 DEF Accounted
  <2> QED
    BY <1>2, <2>1, AccountedNext DEF InHand, InBatch
<1>10. InOrder'
  <2>1. Precedes' = Precedes
    BY <1>2 DEF Precedes
  <2>2. /\ Ordered(Tail(wire[s]), Precedes, Seen')
        /\ \A p \in Precedes : Carries(Head(wire[s]), p[2]) => p[1] \in Seen'
    BY <1>1, <1>4, OrderedTail DEF InOrder
  <2>3. ASSUME NEW t \in Session, t # s PROVE Ordered(wire[t], Precedes, Seen')
    BY <1>1, <1>4, OrderedMore DEF InOrder
  <2>4. \A t \in Session : Ordered(wire'[t], Precedes, Seen')
    BY <1>3, <2>2, <2>3
  <2>5. \A p \in Precedes : p[2] \in received' => p[1] \in Seen'
    BY <1>1, <1>4, <2>2 DEF InOrder
  <2> QED
    BY <2>1, <2>4, <2>5 DEF InOrder
<1> QED
  BY <1>8, <1>9, <1>10

-----------------------------------------------------------------------------
LEMMA OrderInvStep ==
  ASSUME IInv, MarkedIsAccountedFor, OrderInv, [Next]_vars
  PROVE  OrderInv'
<1>1. IdsKnown' /\ SessionsHold'
  BY IdsKnownStep, SessionsHoldStep DEF OrderInv
<1> SUFFICES WireHolds' /\ Accounted' /\ InOrder'
  BY <1>1 DEF OrderInv
<1>2. CASE Handler
  BY <1>2, OrderPush, OrderSelect, OrderMark, OrderBatch, OrderReply DEF Handler
<1>3. CASE UNCHANGED vars
  <2>1. UNCHANGED <<messages, online, conn, wire, received, astray, pc, uid, answer, batch>>
    BY <1>3 DEF vars, tables, sessionVars, arrivals, handlerVars
  <2>2. InOrder' /\ WireHolds'
    BY <2>1, OrderIfQuiet
  <2>3. Accounted'
    BY <2>1, SMTT(30) DEF OrderInv, Accounted, InHand, InBatch, Seen, HasMessage, Carries
  <2> QED
    BY <2>2, <2>3
<1>4. ASSUME NEW s \in Session, Request(s) \/ Connect(s) \/ Arrive(s) \/ Sever(s)
      PROVE  WireHolds' /\ Accounted' /\ InOrder'
  BY <1>4, OrderRequest, OrderConnect, OrderArrive, OrderSever
<1> QED
  BY <1>2, <1>3, <1>4, OrderRestart DEF Next

LEMMA InitOrderInv == Init => OrderInv
<1> SUFFICES ASSUME Init PROVE OrderInv
  OBVIOUS
<1>1. /\ Len(messages) = 0 /\ Len(batch) = 0 /\ received = {} /\ pc = "idle"
      /\ answer.kind = "answer" /\ \A s \in Session : Len(wire[s]) = 0 /\ loginUid[s] = 0
      /\ \A u \in Uid : online[u] = None
  BY DEF Init, Answer, FrameOf
<1>2. IdsKnown /\ SessionsHold
  BY <1>1 DEF IdsKnown, SessionsHold
<1>3. WireHolds /\ Accounted
  BY <1>1 DEF WireHolds, HasMessage, Accounted
<1>4. InOrder
  BY <1>1 DEF InOrder, Ordered
<1> QED
  BY <1>2, <1>3, <1>4 DEF OrderInv

LEMMA OrderIsReceived == OrderInv => ReceivedInOrder
<1> SUFFICES ASSUME OrderInv, NEW j \in received, NEW i \in 1 .. j - 1,
                    messages[i].to = messages[j].to
             PROVE  i \in Seen
  BY DEF ReceivedInOrder, Seen
<1>1. j \in 1 .. Len(messages)
  BY DEF OrderInv, IdsKnown
<1>2. <<i, j>> \in Precedes
  BY <1>1 DEF Precedes
<1> QED
  BY <1>2 DEF OrderInv, InOrder

(* The messages for a user reach his clients in the order in which         *)
(* SaveMessage stored them, but for those that went astray: the batch of a *)
(* login goes out before anything is pushed to the session it has entered, *)
(* both take one path, and the session of an earlier login is closed       *)
(* before, with all that was under way to it.                              *)
THEOREM InOrderOfSaving == Spec => []ReceivedInOrder
<1>1. IInv /\ MarkedIsAccountedFor /\ OrderInv /\ [Next]_vars => OrderInv'
  BY OrderInvStep
<1> QED
  BY IInvHolds, MarkedIsNotMislaid, InitOrderInv, <1>1, OrderIsReceived, PTL DEF Spec

=============================================================================
