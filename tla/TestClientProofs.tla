-------------------------- MODULE TestClientProofs --------------------------
(***************************************************************************)
(* Proofs, for any commands and any number of requests and connections, of *)
(* the safety properties of TestClient: first those about its two threads  *)
(* (IInv), then which response a command gets (OInv).                      *)
(***************************************************************************)
EXTENDS TestClient, SequenceTheorems, TLAPS

Waiting == {"look", "park", "asleep"}

(* The main thread waits for the response to a request, and the receive    *)
(* thread queues a response.                                               *)
HandsKnown ==
  /\ main \in Waiting \cup {"print"} => cur \in Request
  /\ recv = "push" => hand \in Frame

(* When there is a receive thread: none while the main thread sets up a    *)
(* connection, DoLogin included; one while it serves the user.             *)
ThreadKnown ==
  /\ main \in {"start", "ask", "relogin", "spawn"} => recv = "none"
  /\ main \in {"top", "prompt", "lost"} => recv # "none"
  /\ main \in Waiting \cup {"print"} => (recv = "none" <=> relogin)

(* g_stop_recv is set from the moment a connection is given up until the   *)
(* next one is made.                                                       *)
StopKnown == stopRecv => main \in {"join", "leave", "ask", "quit", "exited"}

(* A receive thread that does not read any more has cleared g_connected,   *)
(* or was told to stop.                                                    *)
EndKnown ==
  /\ recv = "notify" => ~connected
  /\ recv = "ended" => ~connected \/ stopRecv

(* A socket that works is only taken for lost by who gives it up.          *)
OpenKnown ==
  main \in {"spawn", "relogin", "prompt", "print"} \cup Waiting /\ sock = "open" => connected

IInv ==
  /\ TypeOK /\ HandsKnown /\ ThreadKnown /\ StopKnown /\ EndKnown /\ OpenKnown
  /\ AbortsOnLoginOnly

-----------------------------------------------------------------------------
LEMMA AppendType == ASSUME NEW S, NEW q \in Seq(S), NEW e \in S PROVE Append(q, e) \in Seq(S)
  OBVIOUS

LEMMA ConcatType == ASSUME NEW S, NEW q \in Seq(S), NEW r \in Seq(S) PROVE q \o r \in Seq(S)
  OBVIOUS

LEMMA TailType ==
  ASSUME NEW S, NEW q \in Seq(S), q # <<>> PROVE Head(q) \in S /\ Tail(q) \in Seq(S)
  OBVIOUS

LEMMA EmptyType == <<>> \in Seq(Request) /\ <<>> \in Seq(Frame)
  OBVIOUS

LEMMA PairType == ASSUME NEW S, NEW e \in S, NEW f \in S PROVE <<e, f>> \in Seq(S)
  OBVIOUS

LEMMA InitHolds == Init => IInv
<1> SUFFICES ASSUME Init PROVE IInv
  OBVIOUS
<1>1. up \in Seq(Request) /\ wire \in Seq(Frame)
  BY EmptyType DEF Init
<1>2. queue \in SUBSET Frame /\ late \in SUBSET Kind /\ sent \in Nat /\ conn \in Nat
  BY DEF Init
<1>3. TypeOK
  BY <1>1, <1>2 DEF Init, TypeOK
<1> QED
  BY <1>3 DEF Init, IInv, HandsKnown, ThreadKnown, StopKnown, EndKnown, OpenKnown,
              AbortsOnLoginOnly, Waiting

LEMMA ConnectionType ==
  ASSUME TypeOK, NewConnection
  PROVE  /\ up' \in Seq(Request) /\ wire' \in Seq(Frame) /\ late' \in SUBSET Kind
         /\ conn' \in Nat /\ sock' = "open" /\ connected' = TRUE
  BY EmptyType DEF TypeOK, NewConnection

LEMMA SendMsgType ==
  ASSUME TypeOK, NEW kind \in Kind, NEW wait, NEW failed, SendMsg(kind, wait, failed)
  PROVE  /\ sent' \in Nat /\ up' \in Seq(Request) /\ connected' \in BOOLEAN
         /\ \/ main' = wait /\ cur' \in Request /\ UNCHANGED connected
            \/ main' = failed /\ cur' = cur /\ sock = "broken" /\ connected' = FALSE
<1>1. CASE /\ sent' = sent + 1
           /\ cur' = [kind |-> kind, id |-> sent']
           /\ up' = IF sock = "open" THEN Append(up, cur') ELSE up
           /\ main' = wait
           /\ UNCHANGED connected
  <2>1. cur' \in Request /\ sent' \in Nat
    BY <1>1 DEF TypeOK, Request
  <2>2. up' \in Seq(Request)
    BY <1>1, <2>1, AppendType DEF TypeOK
  <2> QED
    BY <1>1, <2>1, <2>2 DEF TypeOK
<1>2. CASE /\ sock = "broken"
           /\ connected' = FALSE
           /\ main' = failed
           /\ UNCHANGED <<sent, cur, up>>
  BY <1>2 DEF TypeOK
<1> QED
  BY <1>1, <1>2 DEF SendMsg

LEMMA ServeType == ASSUME TypeOK, Serve PROVE up' \in Seq(Request) /\ wire' \in Seq(Frame)
<1>1. Head(up) \in Request /\ up' \in Seq(Request)
  BY TailType DEF TypeOK, Serve
<1>2. Shown \in Frame /\ \A ok \in BOOLEAN : Answer(Head(up), ok) \in Frame
  BY <1>1 DEF TypeOK, Shown, Answer, Frame, Request
<1>3. \A f \in Frame : Append(wire, f) \in Seq(Frame)
  BY AppendType DEF TypeOK
<1>4. wire \o <<Shown, Answer(Head(up), TRUE)>> \in Seq(Frame)
  <2>1. <<Shown, Answer(Head(up), TRUE)>> \in Seq(Frame)
    BY <1>2, PairType
  <2> QED
    BY <2>1, ConcatType DEF TypeOK
<1> QED
  BY <1>1, <1>2, <1>3, <1>4 DEF TypeOK, Serve

LEMMA TypeStep ==
  ASSUME IInv, [Next]_vars
  PROVE  TypeOK'
<1> USE DEF IInv, TypeOK, mainVars, recvVars, netVars, histVars
<1>1. CASE UNCHANGED vars
  BY <1>1 DEF vars
<1>2. CASE FirstConnect
  <2>1. /\ main' \in {"spawn", "exited"} /\ connected' \in BOOLEAN
        /\ UNCHANGED <<cur, rsp, relogin, cached, recvVars, stopRecv, queue, sent>>
    BY <1>2, ConnectionType DEF FirstConnect
  <2>2. CASE NewConnection
    BY <2>1, <2>2, ConnectionType
  <2>3. CASE UNCHANGED <<netVars, late>>
    BY <2>1, <2>3
  <2> QED
    BY <1>2, <2>2, <2>3 DEF FirstConnect
<1>3. CASE SpawnReceiver \/ LoopTop \/ Park \/ SpuriousWake \/ Timeout
  BY <1>3 DEF SpawnReceiver, LoopTop, Park, SpuriousWake, Timeout
<1>4. ASSUME NEW k \in Command, Ask(k) PROVE TypeOK'
  <2>1. k \in Kind
    BY DEF Kind
  <2> QED
    BY <1>4, <2>1, SendMsgType DEF Ask
<1>5. CASE ReconnectCommand \/ QuitCommand
  BY <1>5 DEF ReconnectCommand, QuitCommand
<1>6. CASE Look
  <2>1. queue' \subseteq queue /\ main' \in {"print", "park"}
    BY <1>6 DEF Look
  <2>2. rsp' \in Frame \cup {None}
    BY <1>6 DEF Look
  <2>3. UNCHANGED <<cur, relogin, cached, recvVars, netVars, histVars, connected, stopRecv>>
    BY <1>6 DEF Look
  <2> QED
    BY <2>1, <2>2, <2>3
<1>7. CASE UseResponse
  <2>1. cur \in Request
    BY <1>7 DEF UseResponse, HandsKnown
  <2>2. late' \in SUBSET Kind /\ cached' \in BOOLEAN
    BY <1>7, <2>1 DEF UseResponse, Request
  <2> QED
    BY <1>7, <2>2 DEF UseResponse
<1>8. CASE LoseConnection \/ Leave
  BY <1>8 DEF LoseConnection, Leave, StopReceiver
<1>9. CASE Join
  BY <1>9 DEF Join
<1>10. CASE Reconnect
  BY <1>10, ConnectionType DEF Reconnect
<1>11. CASE DoLogin
  <2>1. "login" \in Kind
    BY DEF Kind
  <2> QED
    BY <1>11, <2>1, SendMsgType DEF DoLogin
<1>12. CASE RecvFrame
  <2>1. Head(wire) \in Frame /\ wire' \in Seq(Frame)
    BY <1>12, TailType DEF RecvFrame
  <2> QED
    BY <1>12, <2>1 DEF RecvFrame
<1>13. CASE RecvPush
  BY <1>13 DEF RecvPush, Woken, HandsKnown
<1>14. CASE RecvLoop \/ RecvFail \/ RecvNotify
  BY <1>14 DEF RecvLoop, RecvFail, RecvNotify, Woken
<1>15. CASE Serve
  <2>1. UNCHANGED <<mainVars, recvVars, sock, conn, histVars, connected, stopRecv, queue>>
    BY <1>15 DEF Serve
  <2>2. up' \in Seq(Request) /\ wire' \in Seq(Frame)
    BY <1>15, ServeType
  <2> QED
    BY <2>1, <2>2
<1>16. CASE Push
  <2>1. Shown \in Frame
    BY DEF Shown, Frame
  <2>2. wire' \in Seq(Frame)
    BY <1>16, <2>1, AppendType DEF Push
  <2> QED
    BY <1>16, <2>2 DEF Push
<1>17. CASE Break
  BY <1>17 DEF Break
<1> QED
  BY <1>1, <1>2, <1>3, <1>4, <1>5, <1>6, <1>7, <1>8, <1>9, <1>10, <1>11, <1>12, <1>13, <1>14,
     <1>15, <1>16, <1>17
  DEF Next, MainThread, User, RecvThread

Control ==
  HandsKnown /\ ThreadKnown /\ StopKnown /\ EndKnown /\ OpenKnown /\ AbortsOnLoginOnly

(* The steps of the main thread, one by one, and those of the receive      *)
(* thread and the connection.                                              *)
LEMMA ControlStep ==
  ASSUME IInv, [Next]_vars
  PROVE  Control'
<1> USE DEF IInv, TypeOK, Control, HandsKnown, ThreadKnown, StopKnown, EndKnown, OpenKnown, AbortsOnLoginOnly, Waiting,
        mainVars, recvVars, netVars, histVars
<1>1. CASE UNCHANGED vars
  BY <1>1 DEF vars
<1>2. CASE FirstConnect
  BY <1>2 DEF FirstConnect, NewConnection
<1>3. CASE SpawnReceiver
  BY <1>3 DEF SpawnReceiver
<1>4. CASE LoopTop
  BY <1>4 DEF LoopTop
<1>5. ASSUME NEW k \in Command, Ask(k) PROVE Control'
  <2>1. SendMsg(k, "look", "top") /\ k \in Kind
    BY <1>5 DEF Ask, Kind
  <2>2. CASE main' = "look" /\ cur' \in Request /\ UNCHANGED connected
    BY <1>5, <2>2 DEF Ask
  <2>3. CASE main' = "top" /\ connected' = FALSE
    BY <1>5, <2>3 DEF Ask
  <2> QED
    BY <2>1, <2>2, <2>3, SendMsgType
<1>6. CASE ReconnectCommand
  BY <1>6 DEF ReconnectCommand
<1>7. CASE QuitCommand
  BY <1>7 DEF QuitCommand
<1>8. CASE Look
  BY <1>8 DEF Look
<1>9. CASE Park \/ SpuriousWake \/ Timeout
  BY <1>9 DEF Park, SpuriousWake, Timeout
<1>10. CASE UseResponse
  BY <1>10 DEF UseResponse, Own
<1>11. CASE LoseConnection \/ Leave
  BY <1>11 DEF LoseConnection, Leave, StopReceiver
<1>12. CASE Join
  BY <1>12 DEF Join
<1>13. CASE Reconnect
  BY <1>13 DEF Reconnect, NewConnection
<1>14. CASE DoLogin
  <2>1. CASE ~cached /\ main' = "spawn" /\ UNCHANGED <<cur, relogin, up, sent, connected>>
    BY <1>14, <2>1 DEF DoLogin
  <2>2. CASE SendMsg("login", "look", "spawn") /\ relogin' = TRUE
    <3>1. "login" \in Kind
      BY DEF Kind
    <3>2. CASE main' = "look" /\ cur' \in Request /\ UNCHANGED connected
      BY <1>14, <2>2, <3>2 DEF DoLogin
    <3>3. CASE main' = "spawn" /\ cur' = cur /\ sock = "broken" /\ connected' = FALSE
      BY <1>14, <2>2, <3>3 DEF DoLogin
    <3> QED
      BY <2>2, <3>1, <3>2, <3>3, SendMsgType
  <2> QED
    BY <1>14, <2>1, <2>2 DEF DoLogin
<1>15. CASE RecvLoop
  BY <1>15 DEF RecvLoop
<1>16. CASE RecvFrame
  <2>1. Head(wire) \in Frame
    BY <1>16, TailType DEF RecvFrame
  <2> QED
    BY <1>16, <2>1 DEF RecvFrame
<1>17. CASE RecvPush
  BY <1>17 DEF RecvPush, Woken
<1>18. CASE RecvFail
  BY <1>18 DEF RecvFail
<1>19. CASE RecvNotify
  BY <1>19 DEF RecvNotify, Woken
<1>20. CASE Serve \/ Push \/ Break
  BY <1>20 DEF Serve, Push, Break
<1> QED
  BY <1>1, <1>2, <1>3, <1>4, <1>5, <1>6, <1>7, <1>8, <1>9, <1>10, <1>11, <1>12, <1>13, <1>14,
     <1>15, <1>16, <1>17, <1>18, <1>19, <1>20
  DEF Next, MainThread, User, RecvThread

LEMMA IInvHolds == Spec => []IInv
<1>1. IInv /\ [Next]_vars => IInv'
  BY TypeStep, ControlStep DEF IInv, Control
<1> QED
  BY <1>1, InitHolds, PTL DEF Spec

-----------------------------------------------------------------------------
(* Which response a command gets.  Requests and responses move from up to  *)
(* wire, to the receive thread's hand, to the queue, and keep their order. *)

Waited == main \in Waiting \cup {"print"}

(* A response to come is to the request that is waited for, or to one that *)
(* was given up.                                                           *)
Accounted(kind, id) ==
  \/ kind \in late
  \/ Waited /\ id = cur.id /\ kind = cur.kind

QueueKnown ==
  \A f \in queue :
    f.kind # "shown" /\ f.on = conn /\ Accounted(f.kind, f.id) /\ f.id <= sent

HandKnown ==
  recv = "push" =>
    /\ hand.kind # "shown" /\ hand.on = conn /\ Accounted(hand.kind, hand.id)
    /\ hand.id <= sent
    /\ \A f \in queue : f.id < hand.id

WireKnown ==
  \A i \in 1 .. Len(wire) :
    /\ wire[i].on = conn
    /\ wire[i].kind # "shown" =>
         /\ Accounted(wire[i].kind, wire[i].id) /\ wire[i].id <= sent
         /\ \A f \in queue : f.id < wire[i].id
         /\ recv = "push" => hand.id < wire[i].id
         /\ \A j \in 1 .. Len(wire) :
              i < j /\ wire[j].kind # "shown" => wire[i].id < wire[j].id

UpKnown ==
  \A i \in 1 .. Len(up) :
    /\ Accounted(up[i].kind, up[i].id) /\ up[i].id <= sent
    /\ \A f \in queue : f.id < up[i].id
    /\ recv = "push" => hand.id < up[i].id
    /\ \A j \in 1 .. Len(wire) : wire[j].kind # "shown" => wire[j].id < up[i].id
    /\ \A j \in 1 .. Len(up) : i < j => up[i].id < up[j].id

(* The request that is waited for is the last one; once it is answered no  *)
(* other response of its kind is to come.                                  *)
AnswerKnown ==
  /\ main = "start" => queue = {}
  /\ Waited => cur.id = sent
  /\ rsp # None => main = "print" /\ rsp.on = conn /\ (rsp.id = cur.id \/ cur.kind \in late)
  /\ main = "print" /\ Own =>
       /\ \A f \in queue : f.kind # cur.kind
       /\ recv = "push" => hand.kind # cur.kind
       /\ \A i \in 1 .. Len(wire) : wire[i].kind # cur.kind
       /\ \A i \in 1 .. Len(up) : up[i].kind # cur.kind

OInv == QueueKnown /\ HandKnown /\ WireKnown /\ UpKnown /\ AnswerKnown

LEMMA ShownIsNoKind == "shown" \notin Kind
  BY ClientAssumption DEF Kind

LEMMA Elements ==
  ASSUME TypeOK
  PROVE  /\ \A f \in queue : f \in Frame /\ f.id \in Nat
         /\ \A i \in 1 .. Len(wire) : wire[i] \in Frame /\ wire[i].id \in Nat
         /\ \A i \in 1 .. Len(up) : up[i] \in Request /\ up[i].id \in Nat
         /\ Len(wire) \in Nat /\ Len(up) \in Nat /\ sent \in Nat
<1>1. \A f \in Frame : f.id \in Nat
  BY DEF Frame
<1>2. \A r \in Request : r.id \in Nat
  BY DEF Request
<1>3. queue \in SUBSET Frame /\ wire \in Seq(Frame) /\ up \in Seq(Request) /\ sent \in Nat
  BY DEF TypeOK
<1>4. \A i \in 1 .. Len(wire) : wire[i] \in Frame
  BY <1>3
<1>5. \A i \in 1 .. Len(up) : up[i] \in Request
  BY <1>3
<1> QED
  BY <1>1, <1>2, <1>3, <1>4, <1>5

LEMMA InitOrdered == Init => OInv
  BY DEF Init, OInv, QueueKnown, HandKnown, WireKnown, UpKnown, AnswerKnown, Waited, Waiting

LEMMA OrderedOnNew ==
  ASSUME IInv, OInv, NewConnection, queue' = {}, recv' = "none", main' \in {"spawn", "relogin"},
         rsp = None, UNCHANGED rsp
  PROVE  OInv'
<1>1. Len(wire') = 0 /\ Len(up') = 0
  BY DEF NewConnection
<1>2. QueueKnown' /\ HandKnown'
  BY DEF QueueKnown, HandKnown
<1>3. WireKnown' /\ UpKnown'
  BY <1>1 DEF WireKnown, UpKnown
<1>4. AnswerKnown'
  BY DEF AnswerKnown, Waited, Waiting
<1> QED
  BY <1>2, <1>3, <1>4 DEF OInv

(* Steps that leave the requests and responses where they are.             *)
LEMMA OrderedOnQuiet ==
  ASSUME IInv, OInv, UNCHANGED <<cur, up, wire, conn, sent, late, hand, queue>>,
         Waited' <=> Waited, recv' = "push" => recv = "push", main' = "start" => main = "start",
         rsp' \in {rsp, None}, main = "print" => main' = main
  PROVE  OInv'
<1>1. \A k, n : Accounted(k, n) <=> Accounted(k, n)'
  BY DEF Accounted
<1>2. QueueKnown' /\ HandKnown'
  BY <1>1 DEF OInv, QueueKnown, HandKnown
<1>3. WireKnown'
  BY <1>1 DEF OInv, WireKnown
<1>4. UpKnown'
  BY <1>1 DEF OInv, UpKnown
<1>5. AnswerKnown'
  BY DEF OInv, AnswerKnown, Own
<1> QED
  BY <1>2, <1>3, <1>4, <1>5 DEF OInv

(* A new request is behind all the others.                                 *)
LEMMA OrderedOnSend ==
  ASSUME IInv, OInv, NEW kind \in Kind, NEW failed, SendMsg(kind, "look", failed),
         main \in {"prompt", "relogin"}, failed \in {"top", "spawn"},
         UNCHANGED <<rsp, recv, hand, wire, conn, late, queue>>
  PROVE  OInv'
<1> USE DEF IInv, TypeOK
<1>1. CASE /\ sent' = sent + 1
           /\ cur' = [kind |-> kind, id |-> sent']
           /\ up' = IF sock = "open" THEN Append(up, cur') ELSE up
           /\ main' = "look"
  <2>1. cur' \in Request /\ cur'.id = sent + 1 /\ cur'.kind = kind
    BY <1>1 DEF Request
  <2>2. Waited' /\ ~Waited /\ Accounted(cur.kind, cur.id)'
    BY <1>1, <2>1 DEF Waited, Waiting, Accounted
  <2>3. \A k, n : Accounted(k, n) => Accounted(k, n)'
    BY <2>2 DEF Accounted
  <2>4. \A f \in queue : f.id \in Nat
    BY Elements
  <2>5. QueueKnown' /\ HandKnown'
    BY <1>1, <2>3, <2>4 DEF OInv, QueueKnown, HandKnown, HandsKnown, Frame
  <2>6. \A i \in 1 .. Len(wire) : wire[i].id \in Nat
    BY Elements
  <2>7. WireKnown'
    BY <1>1, <2>3, <2>6 DEF OInv, WireKnown
  <2>8. UpKnown'
    <3>1. \A i \in 1 .. Len(up) : up[i].id \in Nat /\ up[i].id < sent + 1
      BY Elements DEF OInv, UpKnown
    <3>2. (\A f \in queue : f.id < sent + 1) /\ (recv = "push" => hand.id < sent + 1)
      BY <2>4 DEF OInv, QueueKnown, HandKnown, HandsKnown, Frame
    <3>3. \A j \in 1 .. Len(wire) : wire[j].kind # "shown" => wire[j].id < sent + 1
      BY <2>6 DEF OInv, WireKnown
    <3>4. CASE up' = up
      <4>1. \A i \in 1 .. Len(up) : Accounted(up[i].kind, up[i].id)' /\ up[i].id <= sent'
        BY <1>1, <2>3, <3>1, <3>4 DEF OInv, UpKnown
      <4> QED
        BY <3>4, <4>1 DEF OInv, UpKnown
    <3>5. CASE up' = Append(up, cur')
      <4>1. /\ Len(up') = Len(up) + 1 /\ up'[Len(up) + 1] = cur' /\ Len(up) \in Nat
            /\ \A i \in 1 .. Len(up) : up'[i] = up[i]
        BY <2>1, <3>5
      <4>2. \A i \in 1 .. Len(up') : i \in 1 .. Len(up) \/ i = Len(up) + 1
        BY <4>1
      <4>3. ASSUME NEW i \in 1 .. Len(up)
            PROVE  /\ Accounted(up[i].kind, up[i].id)' /\ up'[i].id <= sent'
                   /\ \A f \in queue : f.id < up'[i].id
                   /\ recv = "push" => hand.id < up'[i].id
                   /\ \A j \in 1 .. Len(wire) : wire[j].kind # "shown" => wire[j].id < up'[i].id
                   /\ \A j \in 1 .. Len(up') : i < j => up'[i].id < up'[j].id
        BY <1>1, <2>1, <2>3, <3>1, <4>1, <4>2, <4>3 DEF OInv, UpKnown
      <4>4. ASSUME NEW i \in 1 .. Len(up'), i = Len(up) + 1
            PROVE  /\ Accounted(up[i].kind, up[i].id)' /\ up'[i].id <= sent'
                   /\ \A f \in queue : f.id < up'[i].id
                   /\ recv = "push" => hand.id < up'[i].id
                   /\ \A j \in 1 .. Len(wire) : wire[j].kind # "shown" => wire[j].id < up'[i].id
                   /\ \A j \in 1 .. Len(up') : i < j => up'[i].id < up'[j].id
        BY <1>1, <2>1, <2>2, <3>2, <3>3, <4>1, <4>4
      <4> QED
        BY <4>2, <4>3, <4>4 DEF UpKnown
    <3> QED
      BY <1>1, <3>4, <3>5
  <2>9. AnswerKnown'
    BY <1>1, <2>1 DEF OInv, AnswerKnown, Waited, Waiting
  <2> QED
    BY <2>5, <2>7, <2>8, <2>9 DEF OInv
<1>2. CASE main' = failed /\ UNCHANGED <<sent, cur, up>>
  BY <1>2, OrderedOnQuiet DEF Waited, Waiting
<1> QED
  BY <1>1, <1>2 DEF SendMsg

(* The newest response of a kind is taken: if it is the one to the last    *)
(* request, whatever comes behind it is of another kind.                   *)
LEMMA OrderedOnLook ==
  ASSUME IInv, OInv, Look
  PROVE  OInv'
<1>1. /\ queue' \subseteq queue /\ main = "look" /\ main' \in {"print", "park"}
      /\ UNCHANGED <<cur, recv, hand, conn, up, wire, sent, late>>
      /\ \A f \in queue' : f.kind # cur.kind
  BY DEF Look, recvVars, netVars, histVars
<1>2. Waited /\ Waited' /\ cur.id = sent /\ rsp = None /\ cur \in Request
  BY <1>1 DEF Waited, Waiting, OInv, AnswerKnown, IInv, HandsKnown
<1>3. \A k, n : Accounted(k, n) <=> Accounted(k, n)'
  BY <1>1, <1>2 DEF Accounted
<1>4. QueueKnown' /\ HandKnown'
  BY <1>1, <1>3 DEF OInv, QueueKnown, HandKnown
<1>5. WireKnown'
  BY <1>1, <1>3 DEF OInv, WireKnown
<1>6. UpKnown'
  BY <1>1, <1>3 DEF OInv, UpKnown
<1>7. AnswerKnown'
  <2>1. CASE rsp' = None
    BY <1>1, <1>2, <2>1 DEF AnswerKnown, Own
  <2>2. ASSUME NEW f \in queue, f.kind = cur.kind, rsp' = f, main' = "print"
        PROVE  AnswerKnown'
    <3>1. f.on = conn /\ (f.id = cur.id \/ cur.kind \in late)
      BY <2>2 DEF OInv, QueueKnown, Accounted
    <3>2. cur.kind # "shown"
      BY <1>2, ShownIsNoKind DEF Request
    <3>3. ASSUME f.id = cur.id
          PROVE  /\ recv # "push"
                 /\ \A i \in 1 .. Len(wire) : wire[i].kind # cur.kind
                 /\ \A i \in 1 .. Len(up) : up[i].kind # cur.kind
      <4>1. f.id = sent /\ sent \in Nat
        BY <1>2, <3>3, Elements DEF IInv
      <4>2. recv # "push"
        BY <4>1 DEF OInv, HandKnown, IInv, HandsKnown, Frame
      <4>3. \A i \in 1 .. Len(wire) : wire[i].kind = "shown"
        BY <4>1, Elements DEF OInv, WireKnown, IInv
      <4>4. \A i \in 1 .. Len(up) : FALSE
        BY <4>1, Elements DEF OInv, UpKnown, IInv
      <4> QED
        BY <3>2, <4>2, <4>3, <4>4
    <3> QED
      BY <1>1, <1>2, <2>2, <3>1, <3>3 DEF AnswerKnown, Own
  <2>3. \/ rsp' = None
        \/ \E f \in queue : f.kind = cur.kind /\ rsp' = f /\ main' = "print"
    BY <1>2 DEF Look
  <2> QED
    BY <2>1, <2>2, <2>3
<1> QED
  BY <1>4, <1>5, <1>6, <1>7 DEF OInv

(* A request without its own response joins those that were given up; one  *)
(* that has it leaves none of its kind behind.                             *)
LEMMA OrderedOnUse ==
  ASSUME IInv, OInv, UseResponse
  PROVE  OInv'
<1>1. /\ main = "print" /\ main' \in {"spawn", "aborted", "top"} /\ rsp' = None
      /\ late' = IF Own THEN late \ {cur.kind} ELSE late \cup {cur.kind}
      /\ UNCHANGED <<queue, recv, hand, conn, up, wire, sent>>
  BY DEF UseResponse, recvVars, netVars
<1>2. \A k, n : Accounted(k, n) /\ (Own => k # cur.kind) => Accounted(k, n)'
  BY <1>1 DEF Accounted
<1>3. QueueKnown' /\ HandKnown'
  BY <1>1, <1>2 DEF OInv, QueueKnown, HandKnown, AnswerKnown
<1>4. WireKnown'
  BY <1>1, <1>2 DEF OInv, WireKnown, AnswerKnown
<1>5. UpKnown'
  BY <1>1, <1>2 DEF OInv, UpKnown, AnswerKnown
<1>6. AnswerKnown'
  BY <1>1 DEF AnswerKnown, Waited, Waiting
<1> QED
  BY <1>3, <1>4, <1>5, <1>6 DEF OInv

LEMMA OrderedOnFrame ==
  ASSUME IInv, OInv, RecvFrame
  PROVE  OInv'
<1>1. /\ recv = "read" /\ wire # <<>> /\ wire' = Tail(wire)
      /\ UNCHANGED <<main, cur, rsp, queue, conn, up, sent, late>>
      /\ \/ recv' = "loop"
         \/ recv' = "push" /\ hand' = Head(wire) /\ hand'.kind # "shown"
  BY DEF RecvFrame, mainVars, histVars
<1>2. /\ 1 \in 1 .. Len(wire) /\ Head(wire) = wire[1] /\ Len(wire) \in Nat
      /\ \A i \in 1 .. Len(wire') :
           i \in Nat /\ 1 < i + 1 /\ i + 1 \in 1 .. Len(wire) /\ wire'[i] = wire[i + 1]
  BY <1>1 DEF IInv, TypeOK
<1>3. \A k, n : Accounted(k, n) <=> Accounted(k, n)'
  BY <1>1 DEF Accounted, Waited
<1>4. QueueKnown'
  BY <1>1, <1>3 DEF OInv, QueueKnown
<1>5. HandKnown'
  BY <1>1, <1>2, <1>3 DEF OInv, HandKnown, WireKnown
<1>6. WireKnown'
  <2> SUFFICES ASSUME NEW i \in 1 .. Len(wire')
               PROVE  /\ wire'[i].on = conn
                      /\ wire'[i].kind # "shown" =>
                           /\ Accounted(wire'[i].kind, wire'[i].id) /\ wire'[i].id <= sent
                           /\ \A f \in queue : f.id < wire'[i].id
                           /\ recv' = "push" => hand'.id < wire'[i].id
                           /\ \A j \in 1 .. Len(wire') :
                                i < j /\ wire'[j].kind # "shown" => wire'[i].id < wire'[j].id
    BY <1>1, <1>3 DEF WireKnown
  <2>1. i + 1 \in 1 .. Len(wire) /\ wire'[i] = wire[i + 1] /\ 1 < i + 1
    BY <1>2
  <2>2. ASSUME NEW j \in 1 .. Len(wire'), i < j, wire'[j].kind # "shown", wire'[i].kind # "shown"
        PROVE  wire'[i].id < wire'[j].id
    <3>1. j + 1 \in 1 .. Len(wire) /\ wire'[j] = wire[j + 1] /\ i + 1 < j + 1
      BY <1>2, <2>1, <2>2
    <3> QED
      BY <2>1, <2>2, <3>1 DEF OInv, WireKnown
  <2>3. recv' = "push" /\ wire'[i].kind # "shown" => hand'.id < wire'[i].id
    BY <1>1, <1>2, <2>1 DEF OInv, WireKnown
  <2>4. /\ wire'[i].on = conn
        /\ wire'[i].kind # "shown" =>
             /\ Accounted(wire'[i].kind, wire'[i].id) /\ wire'[i].id <= sent
             /\ \A f \in queue : f.id < wire'[i].id
    BY <2>1 DEF OInv, WireKnown
  <2> QED
    BY <2>2, <2>3, <2>4
<1>7. UpKnown'
  <2>1. ASSUME NEW i \in 1 .. Len(up) PROVE recv' = "push" => hand'.id < up[i].id
    BY <1>1, <1>2 DEF OInv, UpKnown
  <2>2. ASSUME NEW i \in 1 .. Len(up), NEW j \in 1 .. Len(wire'), wire'[j].kind # "shown"
        PROVE  wire'[j].id < up[i].id
    BY <1>2, <2>2 DEF OInv, UpKnown
  <2> QED
    BY <1>1, <1>3, <2>1, <2>2 DEF OInv, UpKnown
<1>8. AnswerKnown'
  BY <1>1, <1>2 DEF OInv, AnswerKnown, Waited, Own
<1> QED
  BY <1>4, <1>5, <1>6, <1>7, <1>8 DEF OInv

LEMMA OrderedOnPush ==
  ASSUME IInv, OInv, RecvPush
  PROVE  OInv'
<1>1. /\ recv = "push" /\ recv' = "loop" /\ queue' = queue \cup {hand}
      /\ main' = Woken /\ UNCHANGED <<cur, rsp, conn, up, wire, sent, late>>
  BY DEF RecvPush, netVars, histVars
<1>2. (Waited' <=> Waited) /\ (main = "print" <=> main' = "print")
        /\ (main' = "start" <=> main = "start")
  BY <1>1 DEF Woken, Waited, Waiting
<1>3. \A k, n : Accounted(k, n) <=> Accounted(k, n)'
  BY <1>1, <1>2 DEF Accounted
<1>4. QueueKnown' /\ HandKnown'
  BY <1>1, <1>3 DEF OInv, QueueKnown, HandKnown
<1>5. WireKnown'
  BY <1>1, <1>3 DEF OInv, WireKnown
<1>6. UpKnown'
  BY <1>1, <1>3 DEF OInv, UpKnown
<1>7. AnswerKnown'
  BY <1>1, <1>2 DEF OInv, AnswerKnown, Own, IInv, ThreadKnown
<1> QED
  BY <1>4, <1>5, <1>6, <1>7 DEF OInv

(* What the server does to the wire: it appends frames to be shown, and at *)
(* most one response, the last of them, to the request it takes from up.   *)
LEMMA ServerMoves ==
  ASSUME TypeOK, Serve \/ Push
  PROVE  /\ UNCHANGED <<main, cur, rsp, recv, hand, conn, sent, late, queue>>
         /\ Len(wire) \in Nat /\ Len(wire') \in Nat /\ Len(wire) <= Len(wire')
         /\ \A i \in 1 .. Len(wire) : wire'[i] = wire[i]
         /\ \A i \in 1 .. Len(wire') : i > Len(wire) => wire'[i].on = conn
         /\ \/ /\ up' = up \/ (up # <<>> /\ up' = Tail(up))
               /\ \A i \in 1 .. Len(wire') : i > Len(wire) => wire'[i].kind = "shown"
            \/ /\ up # <<>> /\ up' = Tail(up)
               /\ \A i \in 1 .. Len(wire') : i > Len(wire) =>
                    \/ wire'[i].kind = "shown"
                    \/ i = Len(wire') /\ wire'[i].kind = up[1].kind /\ wire'[i].id = up[1].id
<1> DEFINE a(ok) == Answer(Head(up), ok)
<1>1. Shown.kind = "shown" /\ Shown.on = conn
  BY DEF Shown
<1>2. \A ok \in BOOLEAN : a(ok).on = conn /\ a(ok).kind = Head(up).kind /\ a(ok).id = Head(up).id
  BY DEF Answer
<1>3. UNCHANGED <<main, cur, rsp, recv, hand, conn, sent, late, queue>>
  BY DEF Serve, Push, mainVars, recvVars, histVars
<1>4. wire \in Seq(Frame) /\ up \in Seq(Request)
  BY DEF TypeOK
<1>13. up # <<>> => Head(up) = up[1] /\ Head(up) \in Request
  BY <1>4
<1>14. Shown \in Frame /\ (up # <<>> => \A ok \in BOOLEAN : a(ok) \in Frame)
  BY <1>13 DEF TypeOK, Shown, Answer, Frame, Request
<1> HIDE DEF a
<1>5. ASSUME NEW e \in Frame, wire' = Append(wire, e)
      PROVE  /\ Len(wire') = Len(wire) + 1 /\ Len(wire) \in Nat /\ wire'[Len(wire')] = e
             /\ \A i \in 1 .. Len(wire) : wire'[i] = wire[i]
             /\ \A i \in 1 .. Len(wire') : i > Len(wire) => i = Len(wire')
  BY <1>4, <1>5
<1>6. ASSUME NEW e \in Frame, NEW r \in Frame, wire' = wire \o <<e, r>>
      PROVE  /\ Len(wire') = Len(wire) + 2 /\ Len(wire) \in Nat
             /\ wire'[Len(wire) + 1] = e /\ wire'[Len(wire')] = r
             /\ \A i \in 1 .. Len(wire) : wire'[i] = wire[i]
             /\ \A i \in 1 .. Len(wire') : i > Len(wire) => i = Len(wire) + 1 \/ i = Len(wire')
  <2> DEFINE two == <<e, r>>
  <2>1. two \in Seq(Frame) /\ Len(two) = 2 /\ two[1] = e /\ two[2] = r
    BY PairType
  <2>2. wire' = wire \o two
    BY <1>6
  <2> HIDE DEF two
  <2>3. /\ Len(wire') = Len(wire) + Len(two)
        /\ \A i \in 1 .. Len(wire) + Len(two) :
             wire'[i] = IF i <= Len(wire) THEN wire[i] ELSE two[i - Len(wire)]
    BY <1>4, <2>1, <2>2, ConcatProperties
  <2>4. Len(wire) \in Nat
    BY <1>4
  <2>5. wire'[Len(wire) + 1] = two[1] /\ wire'[Len(wire) + 2] = two[2]
    BY <2>1, <2>3, <2>4
  <2> QED
    BY <2>1, <2>3, <2>4, <2>5
<1>7. CASE wire' = Append(wire, Shown) /\ (up' = up \/ (up # <<>> /\ up' = Tail(up)))
  BY <1>1, <1>3, <1>5, <1>7, <1>14
<1>8. ASSUME NEW ok \in BOOLEAN, wire' = Append(wire, a(ok)), up # <<>>, up' = Tail(up)
      PROVE  /\ Len(wire) \in Nat /\ Len(wire') \in Nat /\ Len(wire) <= Len(wire')
             /\ \A i \in 1 .. Len(wire) : wire'[i] = wire[i]
             /\ \A i \in 1 .. Len(wire') : i > Len(wire) =>
                  /\ wire'[i].on = conn
                  /\ i = Len(wire') /\ wire'[i].kind = up[1].kind /\ wire'[i].id = up[1].id
  BY <1>2, <1>5, <1>8, <1>13, <1>14
<1>9. ASSUME wire' = wire \o <<Shown, a(TRUE)>>, up # <<>>, up' = Tail(up)
      PROVE  /\ Len(wire) \in Nat /\ Len(wire') \in Nat /\ Len(wire) <= Len(wire')
             /\ \A i \in 1 .. Len(wire) : wire'[i] = wire[i]
             /\ \A i \in 1 .. Len(wire') : i > Len(wire) =>
                  /\ wire'[i].on = conn
                  /\ \/ wire'[i].kind = "shown"
                     \/ i = Len(wire') /\ wire'[i].kind = up[1].kind /\ wire'[i].id = up[1].id
  <2>1. Shown \in Frame /\ a(TRUE) \in Frame
    BY <1>9, <1>14
  <2>2. /\ Len(wire') = Len(wire) + 2 /\ Len(wire) \in Nat
        /\ wire'[Len(wire) + 1] = Shown /\ wire'[Len(wire')] = a(TRUE)
        /\ \A i \in 1 .. Len(wire) : wire'[i] = wire[i]
        /\ \A i \in 1 .. Len(wire') : i > Len(wire) => i = Len(wire) + 1 \/ i = Len(wire')
    BY <1>6, <1>9, <2>1
  <2>3. a(TRUE).on = conn /\ a(TRUE).kind = up[1].kind /\ a(TRUE).id = up[1].id
    BY <1>2, <1>9, <1>13
  <2>4. ASSUME NEW i \in 1 .. Len(wire'), i > Len(wire)
        PROVE  /\ wire'[i].on = conn
               /\ \/ wire'[i].kind = "shown"
                  \/ i = Len(wire') /\ wire'[i].kind = up[1].kind /\ wire'[i].id = up[1].id
    <3>1. CASE i = Len(wire) + 1
      BY <1>1, <2>2, <3>1
    <3>2. CASE i = Len(wire')
      BY <2>2, <2>3, <3>2
    <3> QED
      BY <2>2, <2>4, <3>1, <3>2
  <2> QED
    BY <2>2, <2>4
<1>10. CASE wire' = wire /\ up # <<>> /\ up' = Tail(up)
  BY <1>3, <1>4, <1>10
<1>11. CASE Push
  BY <1>7, <1>11 DEF Push
<1>12. CASE Serve
  <2>1. up # <<>> /\ up' = Tail(up)
    BY <1>12 DEF Serve
  <2>2. \/ wire' = wire \/ wire' = Append(wire, Shown)
        \/ \E ok \in BOOLEAN : wire' = Append(wire, a(ok))
        \/ wire' = wire \o <<Shown, a(TRUE)>>
    BY <1>12 DEF Serve, a
  <2> QED
    BY <1>3, <1>7, <1>8, <1>9, <1>10, <2>1, <2>2
<1> QED
  BY <1>11, <1>12

LEMMA OrderedOnServer ==
  ASSUME IInv, OInv, Serve \/ Push
  PROVE  OInv'
<1>1. /\ UNCHANGED <<main, cur, rsp, recv, hand, conn, sent, late, queue>>
      /\ \A i \in 1 .. Len(wire) : wire'[i] = wire[i]
      /\ \A i \in 1 .. Len(wire') : i > Len(wire) => wire'[i].on = conn
      /\ up' = up \/ (up # <<>> /\ up' = Tail(up))
  BY ServerMoves DEF IInv
<1>2. ASSUME NEW i \in 1 .. Len(wire')
      PROVE  \/ i \in 1 .. Len(wire) /\ wire'[i] = wire[i]
             \/ i > Len(wire) /\ wire'[i].kind = "shown" /\ wire'[i].on = conn
             \/ /\ i > Len(wire) /\ i = Len(wire') /\ up # <<>> /\ up' = Tail(up)
                /\ wire'[i].kind = up[1].kind /\ wire'[i].id = up[1].id /\ wire'[i].on = conn
  BY ServerMoves DEF IInv
<1>3. ASSUME NEW i \in 1 .. Len(up')
      PROVE  \E k \in 1 .. Len(up) :
               /\ up'[i] = up[k] /\ i <= k
               /\ up # <<>> /\ up' = Tail(up) => 1 < k
  <2>1. CASE up' = up /\ ~(up # <<>> /\ up' = Tail(up))
    BY <2>1
  <2>2. CASE up # <<>> /\ up' = Tail(up)
    <3>1. i + 1 \in 1 .. Len(up) /\ up'[i] = up[i + 1] /\ i <= i + 1 /\ 1 < i + 1
      BY <2>2 DEF IInv, TypeOK
    <3> QED
      BY <3>1
  <2> QED
    BY <1>1, <2>1, <2>2
<1>4. ASSUME NEW i \in 1 .. Len(up'), NEW j \in 1 .. Len(up'), i < j
      PROVE  up'[i].id < up'[j].id
  <2>1. CASE up' = up
    BY <1>4, <2>1 DEF OInv, UpKnown
  <2>2. CASE up # <<>> /\ up' = Tail(up)
    <3>1. /\ i + 1 \in 1 .. Len(up) /\ up'[i] = up[i + 1]
          /\ j + 1 \in 1 .. Len(up) /\ up'[j] = up[j + 1] /\ i + 1 < j + 1
      BY <1>4, <2>2 DEF IInv, TypeOK
    <3> QED
      BY <3>1 DEF OInv, UpKnown
  <2> QED
    BY <1>1, <2>1, <2>2
<1>5. \A k, n : Accounted(k, n) <=> Accounted(k, n)'
  BY <1>1 DEF Accounted, Waited
<1>6. QueueKnown' /\ HandKnown'
  BY <1>1, <1>5 DEF OInv, QueueKnown, HandKnown
<1>7. up # <<>> => 1 \in 1 .. Len(up)
  BY DEF IInv, TypeOK
<1>8. WireKnown'
  <2> SUFFICES ASSUME NEW i \in 1 .. Len(wire')
               PROVE  /\ wire'[i].on = conn
                      /\ wire'[i].kind # "shown" =>
                           /\ Accounted(wire'[i].kind, wire'[i].id) /\ wire'[i].id <= sent
                           /\ \A f \in queue : f.id < wire'[i].id
                           /\ recv = "push" => hand.id < wire'[i].id
                           /\ \A j \in 1 .. Len(wire') :
                                i < j /\ wire'[j].kind # "shown" => wire'[i].id < wire'[j].id
    BY <1>1, <1>5 DEF WireKnown
  <2>1. CASE i \in 1 .. Len(wire) /\ wire'[i] = wire[i]
    <3>1. ASSUME NEW j \in 1 .. Len(wire'), i < j, wire'[j].kind # "shown", wire[i].kind # "shown"
          PROVE  wire[i].id < wire'[j].id
      <4>1. CASE j \in 1 .. Len(wire) /\ wire'[j] = wire[j]
        BY <2>1, <3>1, <4>1 DEF OInv, WireKnown
      <4>2. CASE up # <<>> /\ wire'[j].id = up[1].id
        BY <1>7, <2>1, <3>1, <4>2 DEF OInv, UpKnown
      <4> QED
        BY <1>2, <3>1, <4>1, <4>2
    <3> QED
      BY <2>1, <3>1 DEF OInv, WireKnown
  <2>2. CASE wire'[i].kind = "shown" /\ wire'[i].on = conn
    BY <2>2
  <2>3. CASE /\ i = Len(wire') /\ up # <<>>
             /\ wire'[i].kind = up[1].kind /\ wire'[i].id = up[1].id /\ wire'[i].on = conn
    <3>1. \A j \in 1 .. Len(wire') : ~(i < j)
      BY <2>3
    <3> QED
      BY <1>7, <2>3, <3>1 DEF OInv, UpKnown
  <2> QED
    BY <1>2, <2>1, <2>2, <2>3
<1>9. UpKnown'
  <2> SUFFICES ASSUME NEW i \in 1 .. Len(up')
               PROVE  /\ Accounted(up'[i].kind, up'[i].id) /\ up'[i].id <= sent
                      /\ \A f \in queue : f.id < up'[i].id
                      /\ recv = "push" => hand.id < up'[i].id
                      /\ \A j \in 1 .. Len(wire') :
                           wire'[j].kind # "shown" => wire'[j].id < up'[i].id
    BY <1>1, <1>4, <1>5 DEF UpKnown
  <2>1. PICK k \in 1 .. Len(up) :
               /\ up'[i] = up[k] /\ i <= k
               /\ up # <<>> /\ up' = Tail(up) => 1 < k
    BY <1>3
  <2>2. ASSUME NEW j \in 1 .. Len(wire'), wire'[j].kind # "shown"
        PROVE  wire'[j].id < up[k].id
    <3>1. CASE j \in 1 .. Len(wire) /\ wire'[j] = wire[j]
      BY <2>2, <3>1 DEF OInv, UpKnown
    <3>2. CASE up # <<>> /\ up' = Tail(up) /\ wire'[j].id = up[1].id
      BY <1>7, <2>1, <3>2 DEF OInv, UpKnown
    <3> QED
      BY <1>2, <2>2, <3>1, <3>2
  <2> QED
    BY <2>1, <2>2 DEF OInv, UpKnown
<1>10. AnswerKnown'
  <2>1. main = "print" => cur.kind # "shown"
    BY ShownIsNoKind DEF IInv, HandsKnown, Request
  <2>2. ASSUME main = "print", Own, NEW i \in 1 .. Len(wire') PROVE wire'[i].kind # cur.kind
    BY <1>2, <1>7, <2>1, <2>2 DEF OInv, AnswerKnown
  <2>3. ASSUME main = "print", Own, NEW i \in 1 .. Len(up') PROVE up'[i].kind # cur.kind
    BY <1>3, <2>3 DEF OInv, AnswerKnown
  <2> QED
    BY <1>1, <2>2, <2>3 DEF OInv, AnswerKnown, Waited, Own
<1> QED
  BY <1>6, <1>8, <1>9, <1>10 DEF OInv

(* What is under way to a connection that breaks is lost.                  *)
LEMMA OrderedOnBreak ==
  ASSUME IInv, OInv, Break
  PROVE  OInv'
<1>1. /\ UNCHANGED <<main, cur, rsp, recv, hand, conn, wire, sent, late, queue>>
      /\ Len(up') = 0
  BY DEF Break, mainVars, recvVars, histVars
<1>2. \A k, n : Accounted(k, n) <=> Accounted(k, n)'
  BY <1>1 DEF Accounted, Waited
<1>3. QueueKnown' /\ HandKnown'
  BY <1>1, <1>2 DEF OInv, QueueKnown, HandKnown
<1>4. WireKnown'
  BY <1>1, <1>2 DEF OInv, WireKnown
<1>5. UpKnown'
  BY <1>1 DEF UpKnown
<1>6. AnswerKnown'
  BY <1>1 DEF OInv, AnswerKnown, Waited, Own
<1> QED
  BY <1>3, <1>4, <1>5, <1>6 DEF OInv

(* A reconnect that fails leaves an empty queue, and no thread to fill it. *)
LEMMA OrderedOnExit ==
  ASSUME IInv, OInv, recv' = "none", queue' = {}, main # "start", ~Waited, main' = "exited",
         UNCHANGED <<cur, rsp, up, wire, conn, sent, late>>
  PROVE  OInv'
<1>1. \A k, n : Accounted(k, n) <=> Accounted(k, n)'
  BY DEF Accounted, Waited, Waiting
<1>2. QueueKnown' /\ HandKnown'
  BY DEF QueueKnown, HandKnown
<1>3. WireKnown'
  BY <1>1 DEF OInv, WireKnown
<1>4. UpKnown'
  BY <1>1 DEF OInv, UpKnown
<1>5. AnswerKnown'
  BY DEF OInv, AnswerKnown, Waited, Waiting
<1> QED
  BY <1>2, <1>3, <1>4, <1>5 DEF OInv

LEMMA OrderedStep ==
  ASSUME IInv, OInv, [Next]_vars
  PROVE  OInv'
<1> USE DEF mainVars, recvVars, netVars, histVars, Waited, Waiting
<1>1. main # "print" => rsp = None
  BY DEF OInv, AnswerKnown
<1>2. CASE UNCHANGED vars
  BY <1>2, OrderedOnQuiet DEF vars
<1>3. CASE FirstConnect
  <2>1. CASE NewConnection /\ main' = "spawn"
    <3>1. queue = {} /\ recv = "none" /\ UNCHANGED <<queue, recv, rsp>>
      BY <1>3 DEF FirstConnect, OInv, AnswerKnown, IInv, ThreadKnown
    <3> QED
      BY <1>1, <1>3, <2>1, <3>1, OrderedOnNew DEF FirstConnect
  <2>2. CASE main' = "exited" /\ UNCHANGED <<netVars, connected, late>>
    BY <1>3, <2>2, OrderedOnQuiet DEF FirstConnect
  <2> QED
    BY <1>3, <2>1, <2>2 DEF FirstConnect
<1>4. CASE SpawnReceiver
  BY <1>4, OrderedOnQuiet DEF SpawnReceiver
<1>5. CASE LoopTop
  BY <1>5, OrderedOnQuiet DEF LoopTop
<1>6. ASSUME NEW k \in Command, Ask(k) PROVE OInv'
  BY <1>6, OrderedOnSend DEF Ask, Kind
<1>7. CASE ReconnectCommand \/ QuitCommand
  BY <1>7, OrderedOnQuiet DEF ReconnectCommand, QuitCommand
<1>8. CASE Look
  BY <1>8, OrderedOnLook
<1>9. CASE Park \/ SpuriousWake
  BY <1>9, OrderedOnQuiet DEF Park, SpuriousWake
<1>10. CASE Timeout
  BY <1>10, OrderedOnQuiet DEF Timeout
<1>11. CASE UseResponse
  BY <1>11, OrderedOnUse
<1>12. CASE LoseConnection \/ Leave
  BY <1>12, OrderedOnQuiet DEF LoseConnection, Leave, StopReceiver
<1>13. CASE Join
  BY <1>13, OrderedOnQuiet DEF Join
<1>14. CASE Reconnect
  <2>1. CASE NewConnection /\ main' = "relogin"
    BY <1>1, <1>14, <2>1, OrderedOnNew DEF Reconnect, IInv, ThreadKnown
  <2>2. CASE main' = "exited" /\ UNCHANGED <<netVars, late>>
    BY <1>14, <2>2, OrderedOnExit DEF Reconnect, IInv, ThreadKnown
  <2> QED
    BY <1>14, <2>1, <2>2 DEF Reconnect
<1>15. CASE DoLogin
  <2>1. CASE ~cached /\ main' = "spawn" /\ UNCHANGED <<cur, relogin, up, sent, connected>>
    BY <1>15, <2>1, OrderedOnQuiet DEF DoLogin
  <2>2. CASE SendMsg("login", "look", "spawn")
    BY <1>15, <2>2, OrderedOnSend DEF DoLogin, Kind
  <2> QED
    BY <1>15, <2>1, <2>2 DEF DoLogin
<1>16. CASE RecvLoop \/ RecvFail \/ RecvNotify
  BY <1>16, OrderedOnQuiet DEF RecvLoop, RecvFail, RecvNotify, Woken
<1>17. CASE RecvFrame
  BY <1>17, OrderedOnFrame
<1>18. CASE RecvPush
  BY <1>18, OrderedOnPush
<1>19. CASE Serve \/ Push
  BY <1>19, OrderedOnServer
<1>20. CASE Break
  BY <1>20, OrderedOnBreak
<1> QED
  BY <1>2, <1>3, <1>4, <1>5, <1>6, <1>7, <1>8, <1>9, <1>10, <1>11, <1>12, <1>13, <1>14, <1>15,
     <1>16, <1>17, <1>18, <1>19, <1>20
  DEF Next, MainThread, User, RecvThread

LEMMA OInvHolds == Spec => [](IInv /\ OInv)
<1>1. Init => IInv /\ OInv
  BY InitHolds, InitOrdered
<1>2. IInv /\ OInv /\ [Next]_vars => (IInv /\ OInv)'
  BY TypeStep, ControlStep, OrderedStep DEF IInv, Control
<1> QED
  BY <1>1, <1>2, PTL DEF Spec

-----------------------------------------------------------------------------
(* The theorems.                                                           *)

(* The variables of the client keep their types.                           *)
THEOREM TypeCorrect == Spec => []TypeOK
<1>1. IInv => TypeOK
  BY DEF IInv
<1> QED
  BY <1>1, IInvHolds, PTL

(* Who is connected and waits for a command has a receive thread, and a    *)
(* connection that works is not believed to be lost, however often the     *)
(* client reconnects.                                                      *)
THEOREM ConnectedTellsTheTruth == Spec => []ConnectedIsTruthful
<1>1. IInv => ConnectedIsTruthful
  BY DEF IInv, TypeOK, ThreadKnown, StopKnown, EndKnown, OpenKnown, Waiting, ConnectedIsTruthful
<1> QED
  BY <1>1, IInvHolds, PTL

(* No thread object is overwritten while its thread runs; only a login     *)
(* without a response aborts the program.                                  *)
THEOREM AbortNeedsLogin == Spec => []AbortsOnLoginOnly
<1>1. IInv => AbortsOnLoginOnly
  BY DEF IInv
<1> QED
  BY <1>1, IInvHolds, PTL

(* Responses are matched by their kind only: a command gets the response   *)
(* to its own request, sent on this connection, unless a request of the    *)
(* same kind was given up and none was answered since.                     *)
THEOREM OwnAnswer == Spec => []OwnAnswerUnlessLate
<1>1. IInv /\ OInv => OwnAnswerUnlessLate
  BY DEF OInv, AnswerKnown, OwnAnswerUnlessLate, Own
<1> QED
  BY <1>1, OInvHolds, PTL
=============================================================================
