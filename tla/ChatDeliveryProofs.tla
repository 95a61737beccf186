--------------------------- MODULE ChatDeliveryProofs ---------------------------
(***************************************************************************)
(* Proofs, for any number of sessions, users, messages and restarts and    *)
(* whatever statements of SQLite fail, of the safety properties of         *)
(* ChatDelivery.                                                           *)
(***************************************************************************)
EXTENDS ChatDelivery, FiniteSetTheorems, SequenceTheorems, TLAPS

(* What the worker has in its hands at each position of a handler.         *)
HandlerKnows ==
  /\ pc = "idle" => answer = Answer
  /\ pc # "idle" => from \in Session /\ conn[from] # "free"
  /\ batch # <<>> <=> pc \in {"mark", "batch"}
  /\ pc \in {"select", "mark", "batch"} => uid \in Uid /\ answer.kind \in {"answer", "batch"}
  /\ pc = "push" => target \in Uid /\ answer.kind \in {"ack", "added"}

(* What a frame says is in the tables.                                     *)
Backed(f) ==
  /\ f.kind \in {"ack", "push", "batch"} =>
       \A i \in 1 .. Len(f.data) : f.data[i] \in 1 .. Len(messages)
  /\ f.kind = "ack" => Len(f.data) = 1
  /\ f.kind = "added" =>
       /\ Len(f.data) = 2 /\ f.data[1] \in Uid /\ f.data[2] \in Uid
       /\ <<f.data[1], f.data[2]>> \in friends

AllBacked ==
  /\ Backed(answer)
  /\ \A s \in Session : \A k \in 1 .. Len(wire[s]) : Backed(wire[s][k])
  /\ \A k \in 1 .. Len(batch) : batch[k] \in 1 .. Len(messages)

(* Names are unique; what is under way to a connection is lost with it.    *)
NamesDistinct == \A i, j \in 1 .. Len(users) : users[i] = users[j] => i = j
WireIsOpen == \A s \in Session : conn[s] # "open" => wire[s] = <<>>

IInv == TypeOK /\ HandlerKnows /\ AllBacked /\ NamesDistinct /\ WireIsOpen

-----------------------------------------------------------------------------
(* The operators of the model.                                             *)

(* Ascending lists a finite set of row numbers in ascending order: every   *)
(* element is in the list, and nothing else.  Counting the smaller elements is an injection  *)
(* into as many numbers as there are elements, so it hits them all.        *)
LEMMA AscendingLists ==
  ASSUME NEW m \in Nat, NEW S \in SUBSET (1 .. m)
  PROVE  /\ Ascending(S) \in Seq(S) /\ Len(Ascending(S)) <= m
         /\ \A n \in S : \E i \in 1 .. Len(Ascending(S)) : Ascending(S)[i] = n
         /\ \A i, j \in 1 .. Len(Ascending(S)) : i < j => Ascending(S)[i] < Ascending(S)[j]
<1> DEFINE Below(n) == {k \in S : k < n}
           c == Cardinality(S)
           rank == [n \in S |-> Cardinality(Below(n)) + 1]
<1>1. IsFiniteSet(S) /\ c \in Nat /\ c <= m
  <2>1. IsFiniteSet(1 .. m) /\ Cardinality(1 .. m) = m
    <3>1. 1 \in Int /\ m \in Int
      OBVIOUS
    <3>2. IsFiniteSet(1 .. m) /\ Cardinality(1 .. m) = IF 1 > m THEN 0 ELSE m - 1 + 1
      BY <3>1, FS_Interval
    <3> QED
      BY <3>2
  <2>2. IsFiniteSet(S) /\ Cardinality(S) <= Cardinality(1 .. m)
    BY <2>1, FS_Subset
  <2> QED
    BY <2>1, <2>2, FS_CardinalityType
<1>2. \A n \in S : IsFiniteSet(Below(n)) /\ Cardinality(Below(n)) \in Nat
  BY <1>1, FS_Subset, FS_CardinalityType
<1>3. ASSUME NEW n \in S PROVE Cardinality(Below(n)) < c
  <2>1. Below(n) \in SUBSET S /\ Below(n) # S
    BY <1>3
  <2>2. Cardinality(Below(n)) <= c /\ Cardinality(Below(n)) # c
    BY <1>1, <2>1, FS_Subset
  <2> QED
    BY <1>1, <1>2, <2>2
<1>4. ASSUME NEW n \in S, NEW k \in S, n < k
      PROVE  Cardinality(Below(n)) < Cardinality(Below(k))
  <2>1. Below(n) \in SUBSET Below(k) /\ Below(n) # Below(k)
    <3>1. n \in Below(k) /\ n \notin Below(n)
      BY <1>4
    <3>2. \A x \in S : x \in Nat
      OBVIOUS
    <3>3. \A x \in Below(n) : x \in Below(k)
      BY <1>4, <3>2
    <3> HIDE DEF Below
    <3> QED
      BY <3>1, <3>3
  <2>2. IsFiniteSet(Below(k)) /\ Cardinality(Below(n)) \in Nat /\ Cardinality(Below(k)) \in Nat
    BY <1>2
  <2> HIDE DEF Below
  <2>3. /\ Cardinality(Below(n)) <= Cardinality(Below(k))
        /\ Cardinality(Below(k)) = Cardinality(Below(n)) => Below(k) = Below(n)
    BY <2>1, <2>2, FS_Subset
  <2> QED
    BY <2>1, <2>2, <2>3
<1>5. rank \in Injection(S, 1 .. c)
  <2>1. rank \in [S -> 1 .. c]
    BY <1>1, <1>2, <1>3
  <2>2. ASSUME NEW n \in S, NEW k \in S, n # k PROVE rank[n] # rank[k]
    <3>1. n \in Nat /\ k \in Nat
      OBVIOUS
    <3>2. CASE n < k
      BY <1>2, <1>4, <3>2
    <3>3. CASE k < n
      BY <1>2, <1>4, <3>3
    <3> QED
      BY <2>2, <3>1, <3>2, <3>3
  <2> HIDE DEF rank
  <2> QED
    BY <2>1, <2>2 DEF Injection, IsInjective
<1>6. rank \in Surjection(S, 1 .. c)
  <2>1. IsFiniteSet(1 .. c) /\ Cardinality(1 .. c) = c
    <3>1. 1 \in Int /\ c \in Int
      BY <1>1
    <3>2. IsFiniteSet(1 .. c) /\ Cardinality(1 .. c) = IF 1 > c THEN 0 ELSE c - 1 + 1
      BY <3>1, FS_Interval
    <3> QED
      BY <1>1, <3>2
  <2> HIDE DEF rank
  <2> QED
    BY <1>5, <2>1, FS_Injection
<1> DEFINE list == [i \in 1 .. c |-> CHOOSE n \in S : Cardinality(Below(n)) = i - 1]
<1>7. ASSUME NEW i \in 1 .. c
      PROVE  list[i] \in S /\ Cardinality(Below(list[i])) = i - 1
  <2>1. PICK n \in S : rank[n] = i
    BY <1>6 DEF Surjection
  <2>2. Cardinality(Below(n)) = i - 1
    BY <1>2, <2>1
  <2> HIDE DEF Below
  <2> QED
    BY <2>2
<1>8. ASSUME NEW n \in S PROVE \E i \in 1 .. c : list[i] = n
  <2>1. Cardinality(Below(n)) + 1 \in 1 .. c
    BY <1>1, <1>2, <1>3
  <2>2. PICK i \in 1 .. c : i = Cardinality(Below(n)) + 1
    BY <2>1
  <2>3. PICK l \in S : l = list[i] /\ Cardinality(Below(l)) = i - 1
    BY <1>7
  <2>4. Cardinality(Below(n)) = i - 1 /\ i - 1 \in Int
    BY <1>1, <1>2, <2>2
  <2>5. l \in Nat /\ n \in Nat
    OBVIOUS
  <2>6. CASE l < n
    <3>1. Cardinality(Below(l)) < Cardinality(Below(n))
      BY <1>4, <2>6
    <3> QED
      BY <2>3, <2>4, <3>1
  <2>7. CASE n < l
    <3>1. Cardinality(Below(n)) < Cardinality(Below(l))
      BY <1>4, <2>7
    <3> QED
      BY <2>3, <2>4, <3>1
  <2> HIDE DEF list
  <2> QED
    BY <2>3, <2>5, <2>6, <2>7
<1>11. ASSUME NEW i \in 1 .. c, NEW j \in 1 .. c, i < j
       PROVE  list[i] < list[j]
  <2>1. PICK k \in S : k = list[i] /\ Cardinality(Below(k)) = i - 1
    BY <1>7
  <2>2. PICK l \in S : l = list[j] /\ Cardinality(Below(l)) = j - 1
    BY <1>7
  <2>3. k \in Nat /\ l \in Nat /\ i \in Int /\ j \in Int
    BY <1>1
  <2>4. ~(l < k)
    <3>1. ASSUME l < k PROVE Cardinality(Below(l)) < Cardinality(Below(k))
      BY <1>4, <3>1
    <3>2. Cardinality(Below(k)) = i - 1 /\ Cardinality(Below(l)) = j - 1
      BY <2>1, <2>2
    <3> HIDE DEF Below, list
    <3> QED
      BY <1>11, <2>3, <3>1, <3>2
  <2>5. l # k
    <3>1. Cardinality(Below(k)) = i - 1 /\ Cardinality(Below(l)) = j - 1
      BY <2>1, <2>2
    <3> HIDE DEF Below, list
    <3> QED
      BY <1>11, <2>3, <3>1
  <2>6. k < l
    BY <2>3, <2>4, <2>5
  <2> HIDE DEF list
  <2> QED
    BY <2>1, <2>2, <2>6
<1>9. Ascending(S) = list
  BY DEF Ascending
<1>10. list \in Seq(S) /\ Len(list) = c
  <2>1. list \in [1 .. c -> S] /\ DOMAIN list = 1 .. c
    BY <1>7
  <2> HIDE DEF list
  <2> QED
    BY <1>1, <2>1, SeqDef
<1> HIDE DEF list
<1> QED
  BY <1>1, <1>8, <1>9, <1>10, <1>11

(* What the loop over sqlite3_step collects are the first rows of the      *)
(* result, all of them unless a step may fail.                             *)
LEMMA FetchedRows ==
  ASSUME NEW S, NEW rows \in Seq(S), NEW list \in Fetched(rows)
  PROVE  /\ list \in Seq(S) /\ Len(list) <= Len(rows)
         /\ \A k \in 1 .. Len(list) : list[k] = rows[k]
         /\ "select" \notin MayFail => list = rows
<1>1. CASE list = rows
  BY <1>1
<1>2. ASSUME NEW n \in 0 .. Len(rows), list = SubSeq(rows, 1, n), "select" \in MayFail
      PROVE  /\ list \in Seq(S) /\ Len(list) <= Len(rows)
             /\ \A k \in 1 .. Len(list) : list[k] = rows[k]
  <2>1. Len(rows) \in Nat /\ \A i \in 1 .. n : rows[i] \in S
    OBVIOUS
  <2> QED
    BY <1>2, <2>1, SubSeqProperties
<1> QED
  BY <1>1, <1>2 DEF Fetched

(* At most one frame is added, at the end of the wire of one session, and  *)
(* only if that is open and has room.                                      *)
LEMMA SentMoves ==
  ASSUME TypeOK, NEW s \in Session, NEW frame \in Frame
  PROVE  /\ Sent(s, frame) \in [Session -> Seq(Frame)]
         /\ \A t \in Session : t # s => Sent(s, frame)[t] = wire[t]
         /\ \/ Sent(s, frame) = wire
            \/ /\ conn[s] = "open" /\ Sent(s, frame)[s] = Append(wire[s], frame)
               /\ \A k \in 1 .. Len(wire[s]) : Sent(s, frame)[s][k] = wire[s][k]
               /\ Len(Sent(s, frame)[s]) = Len(wire[s]) + 1 /\ Len(wire[s]) \in Nat
               /\ Sent(s, frame)[s][Len(wire[s]) + 1] = frame
<1>1. wire \in [Session -> Seq(Frame)] /\ wire[s] \in Seq(Frame)
  BY DEF TypeOK
<1>2. /\ Append(wire[s], frame) \in Seq(Frame)
      /\ Len(Append(wire[s], frame)) = Len(wire[s]) + 1 /\ Len(wire[s]) \in Nat
      /\ \A k \in 1 .. Len(wire[s]) : Append(wire[s], frame)[k] = wire[s][k]
      /\ Append(wire[s], frame)[Len(wire[s]) + 1] = frame
  BY <1>1, AppendProperties
<1>3. CASE Sent(s, frame) = wire
  BY <1>1, <1>3
<1>4. CASE conn[s] = "open" /\ Sent(s, frame) = [wire EXCEPT ![s] = Append(@, frame)]
  BY <1>1, <1>2, <1>4
<1> QED
  BY <1>3, <1>4 DEF Sent, Accepts

(* Seen from any frame on any wire: it was there before, or is the one.    *)
LEMMA SentFrames ==
  ASSUME TypeOK, NEW s \in Session, NEW frame \in Frame,
         NEW t \in Session, NEW k \in 1 .. Len(Sent(s, frame)[t])
  PROVE  \/ k \in 1 .. Len(wire[t]) /\ Sent(s, frame)[t][k] = wire[t][k]
         \/ t = s /\ conn[s] = "open" /\ k = Len(wire[s]) + 1 /\ Sent(s, frame)[t][k] = frame
<1>1. CASE t # s \/ Sent(s, frame) = wire
  BY <1>1, SentMoves, SMTT(30)
<1>2. CASE /\ t = s /\ conn[s] = "open" /\ Len(wire[s]) \in Nat
           /\ \A j \in 1 .. Len(wire[s]) : Sent(s, frame)[s][j] = wire[s][j]
           /\ Len(Sent(s, frame)[s]) = Len(wire[s]) + 1
           /\ Sent(s, frame)[s][Len(wire[s]) + 1] = frame
  BY <1>2
<1> QED
  BY <1>1, <1>2, SentMoves

(* Registered users have different names, so there are not more of them.   *)
LEMMA NamesFit ==
  ASSUME NEW us \in Seq(Name), \A i, j \in 1 .. Len(us) : us[i] = us[j] => i = j
  PROVE  Len(us) <= Cardinality(Name)
<1>1. us \in Injection(1 .. Len(us), Name) /\ Len(us) \in Nat
  BY DEF Injection, IsInjective
<1>2. Cardinality(1 .. Len(us)) = Len(us)
  <2>1. 1 \in Int /\ Len(us) \in Int
    BY <1>1
  <2>2. Cardinality(1 .. Len(us)) = IF 1 > Len(us) THEN 0 ELSE Len(us) - 1 + 1
    BY <2>1, FS_Interval
  <2> QED
    BY <1>1, <2>2
<1> QED
  BY <1>1, <1>2, DeliveryAssumption, FS_Injection

LEMMA UidFacts == Cardinality(Name) \in Nat /\ 0 \notin Uid /\ \A u \in Uid : u \in Nat
<1>1. Cardinality(Name) \in Nat
  BY DeliveryAssumption, FS_CardinalityType
<1> QED
  BY <1>1 DEF Uid

LEMMA FrameTypes ==
  /\ Answer \in Frame /\ FrameOf("batch", <<>>) \in Frame
  /\ \A n \in Nat : FrameOf("ack", <<n>>) \in Frame /\ FrameOf("invite", <<n>>) \in Frame
  /\ \A m, n \in Nat :
       FrameOf("added", <<m, n>>) \in Frame /\ FrameOf("refused", <<m, n>>) \in Frame
  /\ \A data \in Seq(Nat) :
       /\ FrameOf("push", data) \in Frame /\ FrameOf("batch", data) \in Frame
       /\ FrameOf("friends", data) \in Frame
<1>1. <<>> \in Seq(Nat) /\ \A m, n \in Nat : <<m>> \in Seq(Nat) /\ <<m, n>> \in Seq(Nat)
  OBVIOUS
<1> QED
  BY <1>1 DEF Answer, FrameOf, Frame

(* What a user has not seen is in the table, so it can be listed.          *)
LEMMA UndeliveredListed ==
  ASSUME TypeOK, NEW u
  PROVE  /\ Ascending(Undelivered(u)) \in Seq(Undelivered(u))
         /\ Len(Ascending(Undelivered(u))) <= Len(messages)
         /\ \A i \in Undelivered(u) :
              \E k \in 1 .. Len(Ascending(Undelivered(u))) : Ascending(Undelivered(u))[k] = i
         /\ \A i, j \in 1 .. Len(Ascending(Undelivered(u))) :
              i < j => Ascending(Undelivered(u))[i] < Ascending(Undelivered(u))[j]
<1>1. Len(messages) \in Nat /\ Undelivered(u) \in SUBSET (1 .. Len(messages))
  BY DEF TypeOK, Undelivered
<1> QED
  BY <1>1, AscendingLists

LEMMA FriendListListed ==
  ASSUME NEW u
  PROVE  Ascending(FriendList(u)) \in Seq(Nat)
<1>1. FriendList(u) \in SUBSET (1 .. Cardinality(Name)) /\ Cardinality(Name) \in Nat
  BY UidFacts DEF FriendList, Uid
<1>2. Ascending(FriendList(u)) \in Seq(FriendList(u)) /\ FriendList(u) \subseteq Nat
  BY <1>1, AscendingLists
<1> QED
  BY <1>2, SeqMonotonic

(* The frames that carry a message, and the messages that may go astray.   *)
Carries(frame, i) ==
  frame.kind \in {"push", "batch"} /\ \E n \in 1 .. Len(frame.data) : frame.data[n] = i
OnWire(i) == \E s \in Session : \E k \in 1 .. Len(wire[s]) : Carries(wire[s][k], i)

LEMMA CarriedIds ==
  ASSUME NEW w, NEW S, NEW i
  PROVE  i \in UNION {UNION {Ids(w[s][k].data) :
                            k \in {n \in 1 .. Len(w[s]) : w[s][n].kind \in {"push", "batch"}}} :
                    s \in S}
           <=> \E s \in S : \E k \in 1 .. Len(w[s]) : Carries(w[s][k], i)
<1> DEFINE Carriers(s) == {n \in 1 .. Len(w[s]) : w[s][n].kind \in {"push", "batch"}}
           Of(s) == UNION {Ids(w[s][k].data) : k \in Carriers(s)}
<1>1. ASSUME NEW s
      PROVE  i \in Of(s) <=> \E k \in 1 .. Len(w[s]) : Carries(w[s][k], i)
  <2>1. i \in Of(s) <=> \E k \in Carriers(s) : i \in Ids(w[s][k].data)
    <3> HIDE DEF Carriers
    <3> QED
      OBVIOUS
  <2>2. ASSUME NEW k \in 1 .. Len(w[s])
        PROVE  Carries(w[s][k], i) <=> k \in Carriers(s) /\ i \in Ids(w[s][k].data)
    BY DEF Carries, Ids
  <2> QED
    BY <2>1, <2>2
<1>2. i \in UNION {Of(s) : s \in S} <=> \E s \in S : i \in Of(s)
  <2> HIDE DEF Of
  <2> QED
    OBVIOUS
<1> QED
  BY <1>1, <1>2

LEMMA OnWiresMeans ==
  ASSUME NEW S, NEW i
  PROVE  i \in OnWires(S) <=> \E s \in S : \E k \in 1 .. Len(wire[s]) : Carries(wire[s][k], i)
BY CarriedIds DEF OnWires

LEMMA StrayIds ==
  ASSUME IInv
  PROVE  /\ Ids(batch) \subseteq MsgId
         /\ \A S \in SUBSET Session : OnWires(S) \subseteq MsgId
         /\ \A f \in Frame : Backed(f) /\ f.kind \in {"push", "batch"} => Ids(f.data) \subseteq MsgId
<1>1. 1 .. Len(messages) \subseteq MsgId
  BY DeliveryAssumption DEF IInv, TypeOK, MsgId
<1>2. ASSUME NEW S \in SUBSET Session, NEW i \in OnWires(S) PROVE i \in MsgId
  <2>1. PICK s \in S : \E k \in 1 .. Len(wire[s]) : Carries(wire[s][k], i)
    BY <1>2, OnWiresMeans
  <2>2. PICK k \in 1 .. Len(wire[s]) : Carries(wire[s][k], i)
    BY <2>1
  <2>3. Backed(wire[s][k])
    BY DEF IInv, AllBacked
  <2> QED
    BY <1>1, <2>2, <2>3 DEF Backed, Carries
<1> QED
  BY <1>1, <1>2 DEF IInv, AllBacked, Backed, Ids

LEMMA AstrayTyped ==
  ASSUME IInv, NEW s, NEW frame \in Frame, Backed(frame), AstrayUnlessSent(s, frame)
  PROVE  astray' \in SUBSET MsgId
BY StrayIds DEF AstrayUnlessSent, IInv, TypeOK

LEMMA SentTyped ==
  ASSUME IInv, NEW frame \in Frame, Backed(frame), NEW s,
         \/ UNCHANGED <<wire, astray>>
         \/ s \in Session /\ wire' = Sent(s, frame) /\ AstrayUnlessSent(s, frame)
  PROVE  wire' \in [Session -> Seq(Frame)] /\ astray' \in SUBSET MsgId
<1>1. TypeOK
  BY DEF IInv
<1>2. CASE UNCHANGED <<wire, astray>>
  BY <1>1, <1>2 DEF TypeOK
<1>3. CASE s \in Session /\ wire' = Sent(s, frame) /\ AstrayUnlessSent(s, frame)
  BY <1>1, <1>3, SentMoves, AstrayTyped
<1> QED
  BY <1>2, <1>3

LEMMA BackedFrames ==
  /\ Backed(Answer) /\ Backed(FrameOf("batch", <<>>))
  /\ \A data : Backed(FrameOf("refused", data)) /\ Backed(FrameOf("friends", data))
                /\ Backed(FrameOf("invite", data))
BY DEF Backed, Answer, FrameOf

(* A message is pushed after it was acknowledged, an invitation after the  *)
(* friend was added.                                                       *)
LEMMA PushedFrame ==
  ASSUME IInv, pc = "push"
  PROVE  LET frame == IF answer.kind = "ack" THEN FrameOf("push", answer.data)
                                             ELSE FrameOf("invite", <<answer.data[1]>>)
         IN  frame \in Frame /\ Backed(frame)
<1> DEFINE frame == IF answer.kind = "ack" THEN FrameOf("push", answer.data)
                                           ELSE FrameOf("invite", <<answer.data[1]>>)
<1>1. /\ TypeOK /\ HandlerKnows /\ Backed(answer) /\ answer \in Frame
  BY DEF IInv, AllBacked, TypeOK
<1>2. CASE answer.kind = "ack"
  <2>1. answer.data \in Seq(Nat)
    BY <1>1 DEF Frame
  <2>2. Backed(FrameOf("push", answer.data))
    BY <1>1, <1>2 DEF Backed, FrameOf
  <2> QED
    BY <1>2, <2>1, <2>2, FrameTypes
<1>3. CASE answer.kind = "added"
  <2>1. answer.data[1] \in Nat
    BY <1>1, <1>3, UidFacts DEF Backed
  <2> QED
    BY <1>3, <2>1, FrameTypes, BackedFrames
<1> QED
  BY <1>1, <1>2, <1>3 DEF HandlerKnows

-----------------------------------------------------------------------------
LEMMA InitIInv == Init => IInv
<1> SUFFICES ASSUME Init PROVE IInv
  OBVIOUS
<1>1. /\ <<>> \in Seq(Name) /\ <<>> \in Seq(Row) /\ <<>> \in Seq(Frame) /\ <<>> \in Seq(MsgId)
      /\ Len(<<>>) = 0
  OBVIOUS
<1>2. TypeOK
  BY <1>1, UidFacts, FrameTypes, DeliveryAssumption DEF Init, TypeOK
<1>3. HandlerKnows /\ AllBacked
  BY DEF Init, HandlerKnows, AllBacked, Backed, Answer, FrameOf
<1> QED
  BY <1>2, <1>3 DEF Init, IInv, NamesDistinct, WireIsOpen

(* Type correctness, one step per handler.                                 *)
LEMMA TypeStep ==
  ASSUME IInv, [Next]_vars
  PROVE  TypeOK'
<1> USE UidFacts, FrameTypes DEF IInv, TypeOK, tables, sessionVars, arrivals, handlerVars
<1>1. CASE UNCHANGED vars
  BY <1>1 DEF vars
<1>2. ASSUME NEW s \in Session, NEW name \in Name, RegisterRequest(s, name) PROVE TypeOK'
  <2>1. users' \in Seq(Name) /\ Len(users') <= Cardinality(Name)
    <3>1. CASE UNCHANGED users
      BY <3>1
    <3>2. CASE name \notin {users[u] : u \in 1 .. Len(users)} /\ users' = Append(users, name)
      <4>1. /\ users' \in Seq(Name) /\ Len(users') = Len(users) + 1 /\ Len(users) \in Nat
            /\ \A i \in 1 .. Len(users) : users'[i] = users[i]
            /\ users'[Len(users) + 1] = name
        BY <3>2, AppendProperties
      <4>2. \A i, j \in 1 .. Len(users') : users'[i] = users'[j] => i = j
        BY <3>2, <4>1 DEF NamesDistinct
      <4> QED
        BY <4>1, <4>2, NamesFit
    <3> QED
      BY <1>2, <3>1, <3>2 DEF RegisterRequest, RegisterUser
  <2> QED
    BY <1>2, <2>1 DEF RegisterRequest, Starts, Answers
<1>3. ASSUME NEW s \in Session, NEW u \in Uid, LoginRequest(s, u) PROVE TypeOK'
  <2>1. astray' \in SUBSET MsgId
    BY <1>3, StrayIds DEF LoginRequest
  <2>2. wire' \in [Session -> Seq(Frame)] /\ conn' \in [Session -> {"free", "open", "closed", "gone"}]
    BY <1>3 DEF LoginRequest, Closed, Emptied
  <2>3. loginUid' \in [Session -> Uid \cup {0}] /\ online' \in [Uid -> Session \cup {None}]
    BY <1>3 DEF LoginRequest, LoggedOut, OnlineWithout
  <2> QED
    BY <1>3, <2>1, <2>2, <2>3 DEF LoginRequest, Starts
<1>4. ASSUME NEW s \in Session, NEW f \in Uid, AddFriendRequest(s, f) PROVE TypeOK'
  <2> DEFINE u == loginUid[s]
  <2>1. u \in Uid
    BY <1>4 DEF AddFriendRequest
  <2>2. friends' \in SUBSET (Uid \X Uid)
    BY <1>4, <2>1 DEF AddFriendRequest, AddFriend
  <2>3. answer' \in Frame /\ target' \in Uid \cup {0} /\ pc' \in {"push", "reply"}
    <3>1. u \in Nat /\ f \in Nat
      BY <2>1
    <3>2. \/ answer' = FrameOf("added", <<u, f>>) /\ target' = f /\ pc' = "push"
          \/ answer' = FrameOf("refused", <<u, f>>) /\ target' = target /\ pc' = "reply"
      BY <1>4 DEF AddFriendRequest, Answers
    <3> HIDE DEF u
    <3> QED
      BY <3>1, <3>2
  <2> QED
    BY <1>4, <2>2, <2>3 DEF AddFriendRequest, Starts
<1>5. ASSUME NEW s \in Session, GetFriendListRequest(s) PROVE TypeOK'
  <2>1. answer' \in Frame
    BY <1>5, FriendListListed, FetchedRows DEF GetFriendListRequest, Answers
  <2> QED
    BY <1>5, <2>1 DEF GetFriendListRequest, Starts, Answers
<1>6. ASSUME NEW s \in Session, NEW to \in Uid, ChatMessageRequest(s, to) PROVE TypeOK'
  <2>1. loginUid[s] \in Uid /\ (\A len \in Lengths : NewMessage(loginUid[s], to, len) \in Row)
    BY <1>6 DEF ChatMessageRequest, Row, NewMessage
  <2>2. messages' \in Seq(Row) /\ Len(messages') <= MaxMessages /\ Len(messages') \in Nat
    <3>1. CASE messages' = messages
      BY <3>1
    <3>2. ASSUME NEW len \in Lengths, messages' = Append(messages, NewMessage(loginUid[s], to, len))
          PROVE  messages' \in Seq(Row) /\ Len(messages') <= MaxMessages /\ Len(messages') \in Nat
      <4>1. messages' \in Seq(Row) /\ Len(messages') = Len(messages) + 1 /\ Len(messages) \in Nat
        BY <2>1, <3>2, AppendProperties
      <4> QED
        BY <1>6, <4>1, DeliveryAssumption DEF ChatMessageRequest
    <3> QED
      BY <1>6, <3>1, <3>2 DEF ChatMessageRequest, SaveMessage
  <2>3. answer' \in Frame /\ pc' \in {"push", "reply"} /\ target' \in Uid \cup {0}
    BY <1>6, <2>2 DEF ChatMessageRequest, Answers
  <2> QED
    BY <1>6, <2>2, <2>3 DEF ChatMessageRequest, Starts
<1>7. ASSUME NEW s \in Session, GetOfflineMessageRequest(s) PROVE TypeOK'
  BY <1>7 DEF GetOfflineMessageRequest, Starts
<1>8. ASSUME NEW s \in Session, RefusedRequest(s) PROVE TypeOK'
  BY <1>8 DEF RefusedRequest, Starts, Answers
<1>9. CASE PushToTarget
  <2> DEFINE frame == IF answer.kind = "ack" THEN FrameOf("push", answer.data)
                                             ELSE FrameOf("invite", <<answer.data[1]>>)
  <2>1. frame \in Frame /\ Backed(frame)
    BY <1>9, PushedFrame DEF PushToTarget
  <2>2. \/ UNCHANGED <<wire, astray>>
        \/ /\ online[target] \in Session
           /\ wire' = Sent(online[target], frame) /\ AstrayUnlessSent(online[target], frame)
    BY <1>9 DEF PushToTarget, HandlerKnows
  <2> HIDE DEF frame
  <2>3. wire' \in [Session -> Seq(Frame)] /\ astray' \in SUBSET MsgId
    BY <2>1, <2>2, SentTyped
  <2> QED
    BY <1>9, <2>3 DEF PushToTarget
<1>10. CASE SelectUndelivered
  <2>1. Undelivered(uid) \subseteq MsgId
    BY DeliveryAssumption DEF Undelivered, MsgId
  <2>2. batch' \in Seq(Undelivered(uid))
    BY <1>10, UndeliveredListed, FetchedRows DEF SelectUndelivered
  <2>3. batch' \in Seq(MsgId)
    BY <2>1, <2>2, SeqMonotonic
  <2>4. astray' \in SUBSET MsgId
    BY <1>10, <2>1 DEF SelectUndelivered
  <2> QED
    BY <1>10, <2>3, <2>4 DEF SelectUndelivered
<1>11. CASE MarkDelivered
  <2>1. messages' \in Seq(Row) /\ Len(messages') = Len(messages)
    <3> DEFINE marked(i) == IF i \in Undelivered(uid)
                            THEN [messages[i] EXCEPT !.delivered = TRUE] ELSE messages[i]
               n == Len(messages)
    <3>1. n \in Nat /\ \A i \in 1 .. n : marked(i) \in Row
      <4>1. \A r \in Row : [r EXCEPT !.delivered = TRUE] \in Row
        BY DEF Row
      <4>2. n \in Nat /\ \A i \in 1 .. n : messages[i] \in Row
        OBVIOUS
      <4> QED
        BY <4>1, <4>2
    <3>2. messages' = messages \/ messages' = [i \in 1 .. n |-> marked(i)]
      BY <1>11 DEF MarkDelivered
    <3> HIDE DEF marked
    <3>3. CASE messages' = [i \in 1 .. n |-> marked(i)]
      <4>1. messages' \in [1 .. n -> Row] /\ DOMAIN messages' = 1 .. n
        BY <3>1, <3>3
      <4> QED
        BY <3>1, <4>1, SeqDef
    <3> QED
      BY <3>2, <3>3
  <2> QED
    BY <1>11, <2>1 DEF MarkDelivered
<1>12. CASE SendBatch
  <2>1. batch \in Seq(Nat) /\ from \in Session /\ <<>> \in Seq(MsgId)
    <3>1. MsgId \subseteq Nat
      BY DEF MsgId
    <3>2. batch \in Seq(MsgId)
      OBVIOUS
    <3>3. batch \in Seq(Nat)
      BY <3>1, <3>2, SeqMonotonic
    <3>4. <<>> \in Seq(MsgId)
      OBVIOUS
    <3> QED
      BY <1>12, <3>3, <3>4 DEF SendBatch, HandlerKnows
  <2>2. wire' \in [Session -> Seq(Frame)]
    BY <1>12, <2>1, SentMoves DEF SendBatch
  <2>3. astray' \in SUBSET MsgId
    <3>1. Backed(FrameOf("batch", batch)) /\ FrameOf("batch", batch) \in Frame
      BY <2>1 DEF AllBacked, Backed, FrameOf
    <3> QED
      BY <1>12, <3>1, AstrayTyped DEF SendBatch
  <2> QED
    BY <1>12, <2>1, <2>2, <2>3 DEF SendBatch, Returned
<1>13. CASE Reply
  <2>1. wire' \in [Session -> Seq(Frame)]
    BY <1>13, SentMoves DEF Reply, HandlerKnows
  <2>2. <<>> \in Seq(MsgId)
    OBVIOUS
  <2> QED
    BY <1>13, <2>1, <2>2 DEF Reply, Returned
<1>14. ASSUME NEW s \in Session, Connect(s) PROVE TypeOK'
  BY <1>14 DEF Connect
<1>15. ASSUME NEW s \in Session, Arrive(s) PROVE TypeOK'
  <2>1. /\ Head(wire[s]) = wire[s][1] /\ 1 \in 1 .. Len(wire[s])
        /\ Tail(wire[s]) \in Seq(Frame)
    BY <1>15, HeadTailProperties DEF Arrive
  <2>2. wire' \in [Session -> Seq(Frame)]
    BY <1>15, <2>1 DEF Arrive
  <2>3. received' \in SUBSET MsgId
    <3>1. Backed(Head(wire[s]))
      BY <2>1 DEF AllBacked
    <3> DEFINE f == Head(wire[s])
    <3>2. f.kind \in {"push", "batch"} => Ids(f.data) \subseteq MsgId
      BY <2>1, <3>1, StrayIds
    <3>3. received' = IF f.kind \in {"push", "batch"}
                      THEN received \cup Ids(f.data) ELSE received
      BY <1>15 DEF Arrive
    <3> HIDE DEF f
    <3> QED
      BY <3>2, <3>3
  <2> QED
    BY <1>15, <2>2, <2>3 DEF Arrive
<1>16. ASSUME NEW s \in Session, Sever(s) PROVE TypeOK'
  <2>1. astray' \in SUBSET MsgId
    BY <1>16, StrayIds DEF Sever
  <2>2. wire' \in [Session -> Seq(Frame)] /\ conn' \in [Session -> {"free", "open", "closed", "gone"}]
    BY <1>16 DEF Sever, Closed, Emptied
  <2>3. loginUid' \in [Session -> Uid \cup {0}] /\ online' \in [Uid -> Session \cup {None}]
    BY <1>16 DEF Sever, LoggedOut, OnlineWithout
  <2> QED
    BY <1>16, <2>1, <2>2, <2>3 DEF Sever
<1>17. CASE Restart
  <2>1. <<>> \in Seq(MsgId) /\ <<>> \in Seq(Frame)
    OBVIOUS
  <2>2. crashes' \in 0 .. MaxCrashes
    BY <1>17, DeliveryAssumption DEF Restart
  <2>3. astray' \in SUBSET MsgId
    BY <1>17, StrayIds DEF Restart
  <2> QED
    BY <1>17, <2>1, <2>2, <2>3 DEF Restart, Returned
<1> QED
  BY <1>1, <1>2, <1>3, <1>4, <1>5, <1>6, <1>7, <1>8, <1>9, <1>10, <1>11, <1>12, <1>13, <1>14,
     <1>15, <1>16, <1>17
  DEF Next, Handler, Request

(* Positions in the handlers.                                              *)
LEMMA HandlerStep ==
  ASSUME IInv, [Next]_vars
  PROVE  HandlerKnows'
<1> USE DEF IInv, HandlerKnows, tables, sessionVars, arrivals, handlerVars
<1>1. CASE UNCHANGED vars
  BY <1>1 DEF vars
<1>2. ASSUME NEW s \in Session, Request(s) PROVE HandlerKnows'
  <2>1. /\ pc = "idle" /\ from' = s /\ batch' = batch /\ batch = <<>> /\ answer = Answer
        /\ conn[s] \in {"open", "closed"}
    BY <1>2 DEF Request, RegisterRequest, LoginRequest, AddFriendRequest, GetFriendListRequest,
       ChatMessageRequest, GetOfflineMessageRequest, RefusedRequest, Starts
  <2>2. conn'[s] # "free"
    <3>1. conn' = conn \/ \E S \in SUBSET Session : conn' = Closed(S)
      BY <1>2 DEF Request, RegisterRequest, LoginRequest, AddFriendRequest,
         GetFriendListRequest, ChatMessageRequest, GetOfflineMessageRequest, RefusedRequest
    <3>2. \A S \in SUBSET Session : Closed(S)[s] # "free"
      BY <2>1 DEF Closed
    <3> QED
      BY <2>1, <3>1, <3>2
  <2>3. ASSUME NEW u \in Uid, LoginRequest(s, u)
        PROVE  pc' = "select" /\ uid' \in Uid /\ answer' = answer
    BY <2>3 DEF LoginRequest
  <2>4. ASSUME NEW f \in Uid, AddFriendRequest(s, f)
        PROVE  pc' = "reply" \/ (pc' = "push" /\ target' \in Uid /\ answer'.kind = "added")
    <3>1. \/ pc' = "push" /\ target' = f /\ answer' = FrameOf("added", <<loginUid[s], f>>)
          \/ pc' = "reply"
      BY <2>4 DEF AddFriendRequest, Answers
    <3>2. FrameOf("added", <<loginUid[s], f>>).kind = "added"
      BY DEF FrameOf
    <3> QED
      BY <3>1, <3>2
  <2>5. ASSUME NEW to \in Uid, ChatMessageRequest(s, to)
        PROVE  pc' = "reply" \/ (pc' = "push" /\ target' \in Uid /\ answer'.kind = "ack")
    <3>1. \/ pc' = "push" /\ target' = to /\ answer' = FrameOf("ack", <<Len(messages')>>)
          \/ pc' = "reply"
      BY <2>5 DEF ChatMessageRequest, Answers
    <3>2. FrameOf("ack", <<Len(messages')>>).kind = "ack"
      BY DEF FrameOf
    <3> QED
      BY <3>1, <3>2
  <2>6. CASE GetOfflineMessageRequest(s)
    <3>1. pc' = "select" /\ uid' \in Uid /\ answer'.kind = "batch"
      BY <2>6 DEF GetOfflineMessageRequest, FrameOf, TypeOK
    <3> QED
      BY <2>1, <2>2, <3>1
  <2>7. ASSUME NEW name \in Name, RegisterRequest(s, name) PROVE pc' = "reply"
    BY <2>7 DEF RegisterRequest, Answers
  <2>8. CASE GetFriendListRequest(s) \/ RefusedRequest(s)
    <3>1. pc' = "reply"
      BY <2>8 DEF GetFriendListRequest, RefusedRequest, Answers
    <3> QED
      BY <2>1, <2>2, <3>1
  <2>9. Answer.kind = "answer"
    BY DEF Answer, FrameOf
  <2> QED
    BY <1>2, <2>1, <2>2, <2>3, <2>4, <2>5, <2>6, <2>7, <2>8, <2>9 DEF Request
<1>3. CASE PushToTarget
  BY <1>3 DEF PushToTarget
<1>4. CASE SelectUndelivered
  BY <1>4 DEF SelectUndelivered
<1>5. CASE MarkDelivered
  BY <1>5 DEF MarkDelivered
<1>6. CASE SendBatch \/ Reply
  BY <1>6 DEF SendBatch, Reply, Returned
<1>7. ASSUME NEW s \in Session, Connect(s) \/ Arrive(s) \/ Sever(s) PROVE HandlerKnows'
  <2>1. \A t \in Session : conn[t] # "free" => conn'[t] # "free"
    BY <1>7 DEF Connect, Arrive, Sever, Closed, TypeOK
  <2> QED
    BY <1>7, <2>1 DEF Connect, Arrive, Sever
<1>8. CASE Restart
  BY <1>8 DEF Restart, Returned
<1> QED
  BY <1>1, <1>2, <1>3, <1>4, <1>5, <1>6, <1>7, <1>8 DEF Next, Handler

(* Rows are never deleted.                                                 *)
LEMMA TablesGrow ==
  ASSUME IInv, [Next]_vars
  PROVE  /\ friends \subseteq friends' /\ Len(messages) <= Len(messages')
         /\ Len(messages) \in Nat /\ Len(messages') \in Nat
         /\ \A f \in Frame : Backed(f) => Backed(f)'
<1>1. Len(messages) \in Nat /\ Len(messages') \in Nat
  BY TypeStep DEF IInv, TypeOK
<1>2. friends \subseteq friends'
  <2>1. ASSUME NEW s \in Session, NEW f \in Uid, AddFriendRequest(s, f)
        PROVE  friends \subseteq friends'
    BY <2>1 DEF AddFriendRequest, AddFriend
  <2>2. (\E s \in Session, f \in Uid : AddFriendRequest(s, f)) \/ friends' = friends
    BY DEF Next, Handler, Request, RegisterRequest, LoginRequest,
       GetFriendListRequest, ChatMessageRequest, GetOfflineMessageRequest, RefusedRequest,
       PushToTarget, SelectUndelivered, MarkDelivered, SendBatch, Reply, Connect, Arrive, Sever,
       Restart, tables, arrivals, vars
  <2> QED
    BY <2>1, <2>2
<1>3. Len(messages) <= Len(messages')
  <2>1. CASE messages' = messages
    BY <1>1, <2>1
  <2>2. ASSUME NEW row, messages' = Append(messages, row) PROVE Len(messages) <= Len(messages')
    <3>1. Len(messages') = Len(messages) + 1
      BY <2>2 DEF IInv, TypeOK
    <3> QED
      BY <1>1, <3>1
  <2>3. CASE MarkDelivered
    <3>1. Len(messages') = Len(messages)
      BY <1>1, <2>3 DEF MarkDelivered
    <3> QED
      BY <1>1, <3>1
  <2> QED
    BY <2>1, <2>2, <2>3, ZenonT(60) DEF Next, Handler, Request, RegisterRequest, LoginRequest,
     AddFriendRequest, GetFriendListRequest, ChatMessageRequest, SaveMessage,
     GetOfflineMessageRequest, RefusedRequest, PushToTarget, SelectUndelivered, SendBatch,
     Reply, Connect, Arrive, Sever, Restart, tables, arrivals, vars
<1>4. ASSUME NEW f \in Frame, Backed(f) PROVE Backed(f)'
  BY <1>1, <1>2, <1>3, <1>4 DEF Backed
<1> QED
  BY <1>1, <1>2, <1>3, <1>4

(* Frames that a step leaves on the wire stay backed, as does one that is  *)
(* added, and whatever is emptied.                                         *)
LEMMA WireStaysBacked ==
  ASSUME IInv, [Next]_vars,
         NEW frame \in Frame, Backed(frame),
         \A t \in Session : \A k \in 1 .. Len(wire'[t]) :
           wire'[t][k] = frame \/ \E j \in 1 .. Len(wire[t]) : wire'[t][k] = wire[t][j]
  PROVE  \A t \in Session : \A k \in 1 .. Len(wire'[t]) : Backed(wire[t][k])'
<1> SUFFICES ASSUME NEW t \in Session, NEW k \in 1 .. Len(wire'[t])
             PROVE  Backed(wire[t][k])'
  OBVIOUS
<1>1. ASSUME NEW g \in Frame, Backed(g), wire'[t][k] = g PROVE Backed(wire[t][k])'
  <2>1. Backed(g)'
    BY <1>1, TablesGrow
  <2> QED
    BY <1>1, <2>1
<1>2. \A j \in 1 .. Len(wire[t]) : wire[t][j] \in Frame /\ Backed(wire[t][j])
  BY DEF IInv, TypeOK, AllBacked
<1> QED
  BY <1>1, <1>2

(* What frames and handlers say stays in the tables.                       *)
LEMMA AllBackedStep ==
  ASSUME IInv, [Next]_vars
  PROVE  AllBacked'
<1> DEFINE WireBacked == \A t \in Session : \A k \in 1 .. Len(wire[t]) : Backed(wire[t][k])
           BatchBacked == \A k \in 1 .. Len(batch) : batch[k] \in 1 .. Len(messages)
<1>1. /\ TypeOK /\ TypeOK' /\ HandlerKnows /\ Backed(answer) /\ BatchBacked
      /\ answer \in Frame /\ Answer \in Frame
  BY TypeStep, FrameTypes DEF IInv, AllBacked, TypeOK
<1>2. /\ Backed(Answer)' /\ Backed(FrameOf("batch", <<>>))'
      /\ \A data : Backed(FrameOf("refused", data))' /\ Backed(FrameOf("friends", data))'
  BY DEF Backed, Answer, FrameOf
<1>3. Backed(answer) => (answer' = answer => Backed(answer)')
  BY <1>1, TablesGrow
<1>4. UNCHANGED batch \/ batch' = <<>> => BatchBacked'
  BY <1>1, TablesGrow
<1>5. ASSUME \A t \in Session : \A k \in 1 .. Len(wire'[t]) :
               \E j \in 1 .. Len(wire[t]) : wire'[t][k] = wire[t][j]
      PROVE  WireBacked'
  BY <1>1, <1>5, BackedFrames, WireStaysBacked
<1>6. UNCHANGED wire => WireBacked'
  BY <1>5
<1>7. ASSUME NEW S \in SUBSET Session, wire' = Emptied(S) PROVE WireBacked'
  <2>1. \A t \in Session : wire'[t] = wire[t] \/ Len(wire'[t]) = 0
    BY <1>7 DEF Emptied
  <2> QED
    BY <1>5, <2>1
<1>8. ASSUME NEW s \in Session, NEW frame \in Frame, Backed(frame), wire' = Sent(s, frame)
      PROVE  WireBacked'
  <2>1. ASSUME NEW t \in Session, NEW k \in 1 .. Len(wire'[t])
        PROVE  wire'[t][k] = frame \/ \E j \in 1 .. Len(wire[t]) : wire'[t][k] = wire[t][j]
    BY <1>1, <1>8, <2>1, SentFrames
  <2> QED
    BY <1>8, <2>1, WireStaysBacked
<1>9. SUFFICES Backed(answer)' /\ WireBacked' /\ BatchBacked'
  BY DEF AllBacked
<1> USE DEF tables, sessionVars, arrivals, handlerVars
<1>10. CASE UNCHANGED vars
  BY <1>1, <1>3, <1>4, <1>6, <1>10 DEF vars
<1>11. ASSUME NEW s \in Session, Request(s)
       PROVE  Backed(answer)' /\ WireBacked' /\ BatchBacked'
  <2>1. BatchBacked'
    <3>1. UNCHANGED batch
      BY <1>11 DEF Request, RegisterRequest, LoginRequest, AddFriendRequest,
         GetFriendListRequest, ChatMessageRequest, GetOfflineMessageRequest, RefusedRequest
    <3> QED
      BY <1>4, <3>1
  <2>2. WireBacked'
    <3>1. UNCHANGED wire \/ \E S \in SUBSET Session : wire' = Emptied(S)
      BY <1>11 DEF Request, RegisterRequest, LoginRequest, AddFriendRequest,
         GetFriendListRequest, ChatMessageRequest, GetOfflineMessageRequest, RefusedRequest
    <3> QED
      BY <1>6, <1>7, <3>1
  <2>3. ASSUME NEW f \in Uid, AddFriendRequest(s, f) PROVE Backed(answer)'
    <3> DEFINE u == loginUid[s]
    <3>1. u \in Uid
      BY <1>1, <2>3 DEF AddFriendRequest, TypeOK
    <3>2. CASE AddFriend(u, f, TRUE) /\ answer' = FrameOf("added", <<u, f>>)
      <4>1. <<u, f>> \in friends'
        BY <3>2 DEF AddFriend
      <4> HIDE DEF u
      <4> QED
        BY <3>1, <3>2, <4>1 DEF Backed, FrameOf
    <3>3. CASE answer' = FrameOf("refused", <<u, f>>)
      BY <1>2, <3>3
    <3> QED
      BY <2>3, <3>2, <3>3 DEF AddFriendRequest, Answers
  <2>4. ASSUME NEW to \in Uid, ChatMessageRequest(s, to) PROVE Backed(answer)'
    <3>1. CASE answer' = Answer
      BY <1>2, <3>1
    <3>2. CASE answer' = FrameOf("ack", <<Len(messages')>>)
               /\ SaveMessage(loginUid[s], to, TRUE)
      <4>1. Len(messages') = Len(messages) + 1 /\ Len(messages) \in Nat
        BY <1>1, <3>2 DEF SaveMessage, TypeOK
      <4> QED
        BY <3>2, <4>1 DEF Backed, FrameOf
    <3> QED
      BY <2>4, <3>1, <3>2 DEF ChatMessageRequest, Answers
  <2>5. \/ answer' = answer \/ answer' = Answer \/ answer' = FrameOf("batch", <<>>)
        \/ \E list : answer' = FrameOf("friends", list)
        \/ \E f \in Uid : AddFriendRequest(s, f) \/ ChatMessageRequest(s, f)
    BY <1>11 DEF Request, RegisterRequest, LoginRequest, GetFriendListRequest,
       GetOfflineMessageRequest, RefusedRequest, Answers
  <2> QED
    BY <1>1, <1>2, <1>3, <2>1, <2>2, <2>3, <2>4, <2>5
<1>12. CASE PushToTarget
  <2> DEFINE frame == IF answer.kind = "ack" THEN FrameOf("push", answer.data)
                                             ELSE FrameOf("invite", <<answer.data[1]>>)
  <2>1. frame \in Frame /\ Backed(frame)
    BY <1>12, PushedFrame DEF PushToTarget
  <2>2. wire' = wire \/ (online[target] \in Session /\ wire' = Sent(online[target], frame))
    BY <1>1, <1>12 DEF PushToTarget, HandlerKnows, TypeOK
  <2> HIDE DEF frame
  <2>3. WireBacked'
    BY <1>6, <1>8, <2>1, <2>2
  <2> QED
    BY <1>1, <1>3, <1>4, <1>12, <2>3 DEF PushToTarget
<1>13. CASE SelectUndelivered
  <2>1. batch' \in Seq(Undelivered(uid)) /\ messages' = messages
    BY <1>1, <1>13, UndeliveredListed, FetchedRows DEF SelectUndelivered
  <2>2. BatchBacked'
    BY <2>1 DEF Undelivered
  <2> QED
    BY <1>1, <1>3, <1>6, <1>13, <2>2 DEF SelectUndelivered
<1>14. CASE MarkDelivered
  BY <1>1, <1>3, <1>4, <1>6, <1>14 DEF MarkDelivered
<1>15. CASE SendBatch
  <2>1. FrameOf("batch", batch) \in Frame /\ from \in Session
    <3>1. batch \in Seq(MsgId) /\ MsgId \subseteq Nat
      BY <1>1 DEF TypeOK, MsgId
    <3>2. batch \in Seq(Nat)
      BY <3>1, SeqMonotonic
    <3> QED
      BY <1>1, <1>15, <3>2, FrameTypes DEF SendBatch, HandlerKnows
  <2>2. Backed(FrameOf("batch", batch))
    BY <1>1 DEF Backed, FrameOf
  <2>3. WireBacked'
    BY <1>8, <1>15, <2>1, <2>2 DEF SendBatch
  <2> QED
    BY <1>1, <1>2, <1>3, <1>4, <1>15, <2>3 DEF SendBatch, Returned
<1>16. CASE Reply
  <2>1. WireBacked'
    BY <1>1, <1>8, <1>16 DEF Reply, HandlerKnows
  <2> QED
    BY <1>2, <1>4, <1>16, <2>1 DEF Reply, Returned
<1>17. ASSUME NEW s \in Session, Connect(s)
       PROVE  Backed(answer)' /\ WireBacked' /\ BatchBacked'
  BY <1>1, <1>3, <1>4, <1>6, <1>17 DEF Connect
<1>18. ASSUME NEW s \in Session, Arrive(s)
       PROVE  Backed(answer)' /\ WireBacked' /\ BatchBacked'
  <2>1. wire[s] \in Seq(Frame) /\ wire[s] # <<>>
    BY <1>1, <1>18 DEF Arrive, TypeOK
  <2>2. /\ Len(Tail(wire[s])) = Len(wire[s]) - 1 /\ Len(wire[s]) \in Nat
        /\ \A k \in 1 .. Len(Tail(wire[s])) : Tail(wire[s])[k] = wire[s][k + 1]
    BY <2>1, HeadTailProperties
  <2>3. ASSUME NEW t \in Session, NEW k \in 1 .. Len(wire'[t])
        PROVE  \E j \in 1 .. Len(wire[t]) : wire'[t][k] = wire[t][j]
    <3>1. CASE t # s
      BY <1>1, <1>18, <2>3, <3>1 DEF Arrive, TypeOK
    <3>2. CASE t = s
      <4>1. wire'[t] = Tail(wire[s])
        BY <1>1, <1>18, <3>2 DEF Arrive, TypeOK
      <4>2. k + 1 \in 1 .. Len(wire[t]) /\ wire'[t][k] = wire[t][k + 1]
        BY <2>2, <3>2, <4>1
      <4> QED
        BY <4>2
    <3> QED
      BY <3>1, <3>2
  <2>4. WireBacked'
    BY <1>5, <2>3
  <2> QED
    BY <1>1, <1>3, <1>4, <1>18, <2>4 DEF Arrive
<1>19. ASSUME NEW s \in Session, Sever(s)
       PROVE  Backed(answer)' /\ WireBacked' /\ BatchBacked'
  BY <1>1, <1>3, <1>4, <1>7, <1>19 DEF Sever
<1>20. CASE Restart
  <2>1. \A t \in Session : Len(wire'[t]) = 0
    BY <1>20 DEF Restart
  <2>2. WireBacked'
    BY <2>1
  <2> QED
    BY <1>2, <1>4, <1>20, <2>2 DEF Restart, Returned
<1> QED
  BY <1>10, <1>11, <1>12, <1>13, <1>14, <1>15, <1>16, <1>17, <1>18, <1>19, <1>20
  DEF Next, Handler

(* Only a registration adds a user, and his name is new.                   *)
LEMMA UsersGrow ==
  ASSUME [Next]_vars
  PROVE  \/ users' = users
         \/ \E name \in Name :
              name \notin {users[u] : u \in 1 .. Len(users)} /\ users' = Append(users, name)
<1> USE DEF tables, arrivals
<1>1. ASSUME NEW s \in Session, NEW name \in Name, RegisterRequest(s, name)
      PROVE  \/ users' = users
             \/ name \notin {users[u] : u \in 1 .. Len(users)} /\ users' = Append(users, name)
  BY <1>1 DEF RegisterRequest, RegisterUser
<1>2. ASSUME NEW s \in Session, NEW u \in Uid,
             LoginRequest(s, u) \/ AddFriendRequest(s, u) \/ ChatMessageRequest(s, u)
      PROVE  users' = users
  BY <1>2 DEF LoginRequest, AddFriendRequest, ChatMessageRequest
<1>3. ASSUME NEW s \in Session,
             GetFriendListRequest(s) \/ GetOfflineMessageRequest(s) \/ RefusedRequest(s)
      PROVE  users' = users
  BY <1>3 DEF GetFriendListRequest, GetOfflineMessageRequest, RefusedRequest
<1>4. CASE Handler
  BY <1>4 DEF Handler, PushToTarget, SelectUndelivered, MarkDelivered, SendBatch, Reply
<1>5. ASSUME NEW s \in Session, Connect(s) \/ Arrive(s) \/ Sever(s)
      PROVE  users' = users
  BY <1>5 DEF Connect, Arrive, Sever
<1>6. CASE Restart
  BY <1>6 DEF Restart
<1>7. CASE UNCHANGED vars
  BY <1>7 DEF vars
<1> QED
  BY <1>1, <1>2, <1>3, <1>4, <1>5, <1>6, <1>7 DEF Next, Request

LEMMA NamesDistinctStep ==
  ASSUME IInv, [Next]_vars
  PROVE  NamesDistinct'
<1>1. users \in Seq(Name) /\ NamesDistinct
  BY DEF IInv, TypeOK
<1>2. CASE UNCHANGED users
  BY <1>1, <1>2 DEF NamesDistinct
<1>3. ASSUME NEW name \in Name, name \notin {users[u] : u \in 1 .. Len(users)},
             users' = Append(users, name)
      PROVE  NamesDistinct'
  <2>1. /\ Len(users') = Len(users) + 1 /\ Len(users) \in Nat
        /\ \A i \in 1 .. Len(users) : users'[i] = users[i]
        /\ users'[Len(users) + 1] = name
    BY <1>1, <1>3, AppendProperties
  <2> QED
    BY <1>1, <1>3, <2>1 DEF NamesDistinct
<1> QED
  BY <1>2, <1>3, UsersGrow

(* Sends go to open sessions only; a close empties the wire.               *)
LEMMA WireIsOpenStep ==
  ASSUME IInv, [Next]_vars
  PROVE  WireIsOpen'
<1> USE DEF tables, sessionVars, arrivals, handlerVars
<1>1. TypeOK /\ TypeOK' /\ HandlerKnows /\ WireIsOpen
  BY TypeStep DEF IInv
<1>2. CASE UNCHANGED <<conn, wire>>
  BY <1>1, <1>2 DEF WireIsOpen
<1>3. ASSUME NEW s \in Session, NEW frame \in Frame,
             wire' = Sent(s, frame), UNCHANGED conn
      PROVE  WireIsOpen'
  <2>1. \A t \in Session : wire'[t] = wire[t] \/ (t = s /\ conn[s] = "open")
    BY <1>1, <1>3, SentMoves
  <2> QED
    BY <1>1, <1>3, <2>1 DEF WireIsOpen
<1>4. ASSUME NEW S \in SUBSET Session, conn' = Closed(S), wire' = Emptied(S)
      PROVE  WireIsOpen'
  BY <1>1, <1>4 DEF WireIsOpen, Closed, Emptied
<1>5. ASSUME NEW s \in Session, Request(s) PROVE WireIsOpen'
  <2>1. \/ UNCHANGED <<conn, wire>>
        \/ \E S \in SUBSET Session : conn' = Closed(S) /\ wire' = Emptied(S)
    BY <1>5 DEF Request, RegisterRequest, LoginRequest, AddFriendRequest,
       GetFriendListRequest, ChatMessageRequest, GetOfflineMessageRequest, RefusedRequest
  <2> QED
    BY <1>2, <1>4, <2>1
<1>6. CASE PushToTarget
  <2>1. \/ UNCHANGED <<conn, wire>>
        \/ /\ online[target] \in Session /\ UNCHANGED conn
           /\ \E frame : wire' = Sent(online[target], frame)
    BY <1>1, <1>6 DEF PushToTarget, HandlerKnows, TypeOK
  <2>2. ASSUME NEW t \in Session, NEW frame, wire' = Sent(t, frame), UNCHANGED conn
        PROVE  WireIsOpen'
    BY <1>1, <2>2 DEF WireIsOpen, Sent, Accepts, TypeOK
  <2> QED
    BY <1>2, <2>1, <2>2
<1>7. CASE SendBatch \/ Reply
  <2>1. from \in Session /\ UNCHANGED conn /\ \E frame : wire' = Sent(from, frame)
    BY <1>1, <1>7 DEF SendBatch, Reply, HandlerKnows
  <2> QED
    BY <1>1, <2>1 DEF WireIsOpen, Sent, Accepts, TypeOK
<1>8. CASE SelectUndelivered \/ MarkDelivered \/ UNCHANGED vars
  BY <1>2, <1>8 DEF SelectUndelivered, MarkDelivered, vars
<1>9. ASSUME NEW s \in Session, Connect(s) PROVE WireIsOpen'
  BY <1>1, <1>9 DEF Connect, WireIsOpen, TypeOK
<1>10. ASSUME NEW s \in Session, Arrive(s) PROVE WireIsOpen'
  BY <1>1, <1>10 DEF Arrive, WireIsOpen, TypeOK
<1>11. ASSUME NEW s \in Session, Sever(s) PROVE WireIsOpen'
  BY <1>4, <1>11 DEF Sever
<1>12. CASE Restart
  BY <1>12 DEF Restart, WireIsOpen
<1> QED
  BY <1>5, <1>6, <1>7, <1>8, <1>9, <1>10, <1>11, <1>12 DEF Next, Handler

LEMMA IInvHolds == Spec => []IInv
<1>1. IInv /\ [Next]_vars => IInv'
  BY TypeStep, HandlerStep, AllBackedStep, NamesDistinctStep, WireIsOpenStep DEF IInv
<1> QED
  BY InitIInv, <1>1, PTL DEF Spec

-----------------------------------------------------------------------------
(* Type correctness; that there are never more users than names rests on   *)
(* RegisterUser's lookup, that only stored messages reach a client on what *)
(* frames say.                                                             *)
THEOREM TypeCorrect == Spec => []TypeOK
<1>1. IInv => TypeOK
  BY DEF IInv
<1> QED
  BY IInvHolds, <1>1, PTL

(* ChatMessageRequest acknowledges a message only after SaveMessage has    *)
(* succeeded, and nothing removes a row: while the answer is on its way    *)
(* the message is in the table, through failures and restarts.             *)
THEOREM AckMeansStored == Spec => []AckedIsStored
<1>1. ASSUME IInv, NEW s \in Session, NEW k \in 1 .. Len(wire[s]), wire[s][k].kind = "ack"
      PROVE  wire[s][k].data[1] \in 1 .. Len(messages)
  <2>1. Backed(wire[s][k])
    BY <1>1 DEF IInv, AllBacked
  <2> QED
    BY <1>1, <2>1 DEF Backed
<1>2. IInv => AckedIsStored
  BY <1>1 DEF AckedIsStored
<1> QED
  BY IInvHolds, <1>2, PTL

(* Who is told "friend added" has the other in his list, and is in the     *)
(* list of the other: GetFriendList looks for the row in both directions.  *)
THEOREM AddedSeenByBoth == Spec => []AddedIsMutual
<1>1. ASSUME IInv, NEW u \in Uid, NEW f \in Uid, UnderWay("added", <<u, f>>)
      PROVE  <<u, f>> \in friends
  <2>1. PICK s \in Session : \E k \in 1 .. Len(wire[s]) : wire[s][k] = FrameOf("added", <<u, f>>)
    BY <1>1 DEF UnderWay
  <2>2. Backed(FrameOf("added", <<u, f>>))
    BY <1>1, <2>1 DEF IInv, AllBacked
  <2> QED
    BY <2>2 DEF Backed, FrameOf
<1>2. IInv => AddedIsMutual
  BY <1>1 DEF AddedIsMutual, FriendList
<1> QED
  BY IInvHolds, <1>2, PTL

(* A new row is inserted only if none was found for the two, in either     *)
(* direction, and both ids belong to users.                                *)
LEMMA FriendsStep ==
  ASSUME IInv, FriendshipIsOneRow, "lookup" \notin MayFail, [Next]_vars
  PROVE  FriendshipIsOneRow'
<1>1. Len(users) \in Nat /\ Len(users') \in Nat /\ Len(users) <= Len(users')
  <2>1. users \in Seq(Name) /\ users' \in Seq(Name)
    BY TypeStep DEF IInv, TypeOK
  <2>2. users' = users \/ \E name \in Name : users' = Append(users, name)
    BY UsersGrow
  <2>3. \A name \in Name : Len(Append(users, name)) = Len(users) + 1
    BY <2>1
  <2> QED
    BY <2>1, <2>2, <2>3
<1>2. CASE friends' = friends
  <2>1. \A x \in 1 .. Len(users) : x \in 1 .. Len(users')
    BY <1>1
  <2>2. ASSUME NEW row \in friends
        PROVE  /\ row[1] # row[2] /\ {row[1], row[2]} \subseteq 1 .. Len(users')
               /\ <<row[2], row[1]>> \notin friends'
    BY <1>2, <2>1 DEF FriendshipIsOneRow
  <2> QED
    BY <1>2, <2>2 DEF FriendshipIsOneRow
<1>3. ASSUME NEW s \in Session, NEW f \in Uid, AddFriendRequest(s, f), friends' # friends
      PROVE  FriendshipIsOneRow'
  <2> DEFINE u == loginUid[s]
  <2>1. /\ u # f /\ {u, f} \subseteq 1 .. Len(users)
        /\ <<u, f>> \notin friends /\ <<f, u>> \notin friends
        /\ friends' = friends \cup {<<u, f>>}
    BY <1>3 DEF AddFriendRequest, AddFriend, FriendsAlready
  <2> HIDE DEF u
  <2>2. ASSUME NEW row \in friends'
        PROVE  /\ row[1] # row[2] /\ {row[1], row[2]} \subseteq 1 .. Len(users')
               /\ <<row[2], row[1]>> \notin friends'
    <3>1. CASE row \in friends
      <4>1. row = <<row[1], row[2]>>
        BY <3>1 DEF IInv, TypeOK
      <4>2. /\ row[1] # row[2] /\ {row[1], row[2]} \subseteq 1 .. Len(users)
            /\ <<row[2], row[1]>> \notin friends
        BY <3>1 DEF FriendshipIsOneRow
      <4>3. <<row[2], row[1]>> # <<u, f>>
        BY <2>1, <3>1, <4>1
      <4> QED
        BY <1>1, <2>1, <4>2, <4>3
    <3>2. CASE row = <<u, f>>
      BY <1>1, <2>1, <3>2
    <3> QED
      BY <2>1, <2>2, <3>1, <3>2
  <2> QED
    BY <2>2 DEF FriendshipIsOneRow
<1>4. friends' = friends \/ \E s \in Session, f \in Uid : AddFriendRequest(s, f)
  BY DEF Next, Handler, Request, RegisterRequest, LoginRequest, GetFriendListRequest,
     ChatMessageRequest, GetOfflineMessageRequest, RefusedRequest, PushToTarget,
     SelectUndelivered, MarkDelivered, SendBatch, Reply, Connect, Arrive, Sever, Restart,
     tables, arrivals, vars
<1> QED
  BY <1>2, <1>3, <1>4

(* AddFriend keeps two users from having two rows, one for each direction, *)
(* as long as its lookup does not fail: the UNIQUE constraint alone would  *)
(* let the second in (see FindTwoRows.cfg).                                *)
THEOREM FriendsOnce ==
  ASSUME "lookup" \notin MayFail
  PROVE  Spec => []FriendshipIsOneRow
<1>1. Init => FriendshipIsOneRow
  BY DEF Init, FriendshipIsOneRow
<1>2. IInv /\ FriendshipIsOneRow /\ [Next]_vars => FriendshipIsOneRow'
  BY FriendsStep
<1> QED
  BY IInvHolds, <1>1, <1>2, PTL DEF Spec

-----------------------------------------------------------------------------
(* Between the SELECT and the UPDATE of GetOfflineMessages no row is added *)
(* and none becomes undelivered, since one worker runs all the handlers:   *)
(* what is undelivered was fetched, or comes after all that was fetched    *)
(* and was passed over.                                                    *)
FetchedFirst ==
  pc = "mark" =>
    \A i \in Undelivered(uid) :
      \/ i \in Ids(batch)
      \/ i \in astray /\ "select" \in MayFail /\ \A j \in Ids(batch) : j < i

LEMMA AstrayStays ==
  ASSUME [Next]_vars
  PROVE  astray \subseteq astray'
<1> USE DEF arrivals, AstrayUnlessSent
<1>1. ASSUME NEW s \in Session, Request(s)
      PROVE  astray \subseteq astray'
  <2>1. ASSUME NEW u \in Uid,
               LoginRequest(s, u) \/ AddFriendRequest(s, u) \/ ChatMessageRequest(s, u)
        PROVE  astray \subseteq astray'
    BY <2>1 DEF LoginRequest, AddFriendRequest, ChatMessageRequest
  <2> QED
    BY <1>1, <2>1 DEF Request, RegisterRequest, GetFriendListRequest,
       GetOfflineMessageRequest, RefusedRequest
<1>2. CASE Handler
  BY <1>2 DEF Handler, PushToTarget, SelectUndelivered, MarkDelivered, SendBatch, Reply
<1>3. ASSUME NEW s \in Session, Connect(s) \/ Arrive(s) \/ Sever(s)
      PROVE  astray \subseteq astray'
  BY <1>3 DEF Connect, Arrive, Sever
<1>4. CASE Restart
  BY <1>4 DEF Restart
<1>5. CASE UNCHANGED vars
  BY <1>5 DEF vars
<1> QED
  BY <1>1, <1>2, <1>3, <1>4, <1>5 DEF Next

LEMMA FetchedFirstStep ==
  ASSUME IInv, FetchedFirst, [Next]_vars
  PROVE  FetchedFirst'
<1> USE DEF tables, sessionVars, arrivals, handlerVars
<1>1. CASE SelectUndelivered
  <2> DEFINE rows == Ascending(Undelivered(uid))
  <2>1. UNCHANGED <<messages, uid>> /\ astray' = astray \cup (Undelivered(uid) \ Ids(batch'))
    BY <1>1 DEF SelectUndelivered
  <2>2. Undelivered(uid)' = Undelivered(uid)
    BY <2>1 DEF Undelivered
  <2>3. /\ rows \in Seq(Undelivered(uid)) /\ Len(rows) \in Nat
        /\ \A i \in Undelivered(uid) : \E k \in 1 .. Len(rows) : rows[k] = i
        /\ \A i, j \in 1 .. Len(rows) : i < j => rows[i] < rows[j]
    BY UndeliveredListed DEF IInv
  <2>4. batch' \in Fetched(rows)
    BY <1>1 DEF SelectUndelivered
  <2> HIDE DEF rows
  <2>5. /\ batch' \in Seq(Undelivered(uid)) /\ Len(batch') <= Len(rows) /\ Len(batch') \in Nat
        /\ \A k \in 1 .. Len(batch') : batch'[k] = rows[k]
        /\ "select" \notin MayFail => batch' = rows
    BY <2>3, <2>4, FetchedRows
  <2>6. ASSUME NEW i \in Undelivered(uid), i \notin Ids(batch')
        PROVE  i \in astray' /\ "select" \in MayFail /\ \A j \in Ids(batch') : j < i
    <3>1. PICK k \in 1 .. Len(rows) : rows[k] = i
      BY <2>3
    <3>2. k > Len(batch')
      <4>1. k \notin 1 .. Len(batch')
        <5>1. ASSUME k \in 1 .. Len(batch') PROVE batch'[k] = i
          BY <2>5, <3>1, <5>1
        <5> QED
          BY <2>6, <5>1 DEF Ids
      <4> QED
        BY <2>3, <2>5, <4>1
    <3>3. "select" \in MayFail
      BY <2>3, <2>5, <3>1, <3>2
    <3>4. ASSUME NEW j \in Ids(batch') PROVE j < i
      <4>1. PICK m \in 1 .. Len(batch') : batch'[m] = j
        BY <3>4 DEF Ids
      <4>2. rows[m] = j
        BY <2>5, <4>1
      <4>3. m \in 1 .. Len(rows) /\ m < k
        BY <2>3, <2>5, <3>1, <3>2
      <4> QED
        BY <2>3, <3>1, <4>2, <4>3
    <3> QED
      BY <2>1, <2>6, <3>3, <3>4
  <2>7. Ids(batch)' = Ids(batch')
    BY DEF Ids
  <2> QED
    BY <2>2, <2>6, <2>7 DEF FetchedFirst
<1>2. CASE pc' # "mark"
  BY <1>2 DEF FetchedFirst
<1>3. CASE UNCHANGED <<messages, pc, uid, batch>>
  BY <1>3, AstrayStays DEF FetchedFirst, Undelivered, Ids
<1>4. CASE UNCHANGED vars
  BY <1>3, <1>4 DEF vars
<1>5. ASSUME NEW s \in Session, Request(s) PROVE pc' # "mark"
  BY <1>5 DEF Request, RegisterRequest, LoginRequest, AddFriendRequest, GetFriendListRequest,
     ChatMessageRequest, GetOfflineMessageRequest, RefusedRequest, Answers
<1>6. CASE PushToTarget \/ MarkDelivered \/ SendBatch \/ Reply \/ Restart
  BY <1>2, <1>6 DEF PushToTarget, MarkDelivered, SendBatch, Reply, Restart, Returned
<1>7. ASSUME NEW s \in Session, Connect(s) \/ Arrive(s) \/ Sever(s)
      PROVE  UNCHANGED <<messages, pc, uid, batch>>
  BY <1>7 DEF Connect, Arrive, Sever
<1> QED
  BY <1>1, <1>2, <1>3, <1>4, <1>5, <1>6, <1>7 DEF Next, Handler

(* What is stored is not touched but by MarkDelivered.                     *)
LEMMA OnlyMarkDelivered ==
  ASSUME IInv, [Next]_vars, NEW i \in 1 .. Len(messages), messages'[i] # messages[i]
  PROVE  /\ pc = "mark" /\ i \in Undelivered(uid)
         /\ messages' = [j \in 1 .. Len(messages) |->
                           IF j \in Undelivered(uid)
                           THEN [messages[j] EXCEPT !.delivered = TRUE] ELSE messages[j]]
<1>1. messages \in Seq(Row)
  BY DEF IInv, TypeOK
<1>2. ASSUME NEW s \in Session, NEW to \in Uid, ChatMessageRequest(s, to) PROVE FALSE
  <2>1. messages' = messages \/ \E row \in Row : messages' = Append(messages, row)
    <3>1. \A len \in Lengths : NewMessage(loginUid[s], to, len) \in Row
      BY <1>2 DEF ChatMessageRequest, Row, NewMessage, IInv, TypeOK
    <3> QED
      BY <1>2, <3>1 DEF ChatMessageRequest, SaveMessage
  <2>2. messages'[i] = messages[i]
    BY <1>1, <2>1, AppendProperties
  <2> QED
    BY <2>2
<1>3. MarkDelivered
  BY <1>2 DEF Next, Handler, Request, RegisterRequest, LoginRequest, AddFriendRequest,
     GetFriendListRequest, GetOfflineMessageRequest, RefusedRequest, PushToTarget,
     SelectUndelivered, SendBatch, Reply, Connect, Arrive, Sever, Restart, tables, arrivals, vars
<1> QED
  BY <1>3 DEF MarkDelivered

LEMMA FetchedFirstHolds == Spec => []FetchedFirst
<1>1. Init => FetchedFirst
  BY DEF Init, FetchedFirst
<1>2. IInv /\ FetchedFirst /\ [Next]_vars => FetchedFirst'
  BY FetchedFirstStep
<1> QED
  BY IInvHolds, <1>1, <1>2, PTL DEF Spec

(* GetOfflineMessages marks what it has fetched for its user and nothing   *)
(* else, though it selects and updates in two statements; if a step of the *)
(* SELECT fails, also what comes after the last row fetched                *)
(* (FindUnreadMarked.cfg), but nothing before it.                          *)
THEOREM MarksWhatItFetched == Spec => MarkedWasFetched
<1>1. IInv /\ FetchedFirst /\ [Next]_vars =>
        [\A i \in 1 .. Len(messages) :
           messages'[i] # messages[i] =>
             /\ messages[i].to = uid
             /\ \/ i \in Ids(batch)
                \/ "select" \in MayFail /\ batch # <<>> /\ \A j \in Ids(batch) : j < i]_vars
  <2> SUFFICES ASSUME IInv, FetchedFirst, [Next]_vars, NEW i \in 1 .. Len(messages),
                      messages'[i] # messages[i]
               PROVE  /\ messages[i].to = uid
                      /\ \/ i \in Ids(batch)
                         \/ /\ "select" \in MayFail /\ batch # <<>>
                            /\ \A j \in Ids(batch) : j < i
    OBVIOUS
  <2>1. pc = "mark" /\ i \in Undelivered(uid)
    BY OnlyMarkDelivered
  <2>2. batch # <<>> /\ messages[i].to = uid
    BY <2>1 DEF IInv, HandlerKnows, Undelivered
  <2> QED
    BY <2>1, <2>2 DEF FetchedFirst
<1> QED
  BY IInvHolds, FetchedFirstHolds, <1>1, PTL DEF Spec, MarkedWasFetched

-----------------------------------------------------------------------------
InBatch(i) == \E k \in 1 .. Len(batch) : batch[k] = i

(* A frame that is accepted joins those on the wire.                       *)
LEMMA SentKeeps ==
  ASSUME TypeOK, NEW s \in Session, NEW frame \in Frame, wire' = Sent(s, frame), NEW i, OnWire(i)
  PROVE  OnWire(i)'
<1>1. PICK t \in Session : \E k \in 1 .. Len(wire[t]) : Carries(wire[t][k], i)
  BY DEF OnWire
<1>2. PICK k \in 1 .. Len(wire[t]) : Carries(wire[t][k], i)
  BY <1>1
<1>3. k \in 1 .. Len(wire'[t]) /\ wire'[t][k] = wire[t][k]
  <2>1. CASE wire'[t] = wire[t]
    BY <2>1
  <2>2. CASE /\ t = s /\ Len(wire'[s]) = Len(wire[s]) + 1 /\ Len(wire[s]) \in Nat
             /\ \A j \in 1 .. Len(wire[s]) : wire'[s][j] = wire[s][j]
    BY <2>2
  <2> QED
    BY <2>1, <2>2, SentMoves
<1>4. Carries(wire[t][k], i)'
  BY <1>2, <1>3 DEF Carries
<1> QED
  BY <1>3, <1>4 DEF OnWire

(* The batch goes from the worker's hands to the wire, or astray.          *)
LEMMA BatchIsSent ==
  ASSUME IInv, SendBatch, NEW i, InBatch(i)
  PROVE  i \in astray' \/ OnWire(i)'
<1>1. TypeOK /\ from \in Session
  BY DEF IInv, HandlerKnows, SendBatch
<1>2. Len(wire[from]) \in Nat /\ wire[from] \in Seq(Frame)
  BY <1>1 DEF TypeOK
<1> DEFINE frame == FrameOf("batch", batch)
<1>3. frame.kind = "batch" /\ frame.data = batch
  BY DEF FrameOf
<1>4. frame \in Frame
  <2>1. batch \in Seq(MsgId) /\ MsgId \subseteq Nat
    BY <1>1 DEF TypeOK, MsgId
  <2>2. batch \in Seq(Nat)
    BY <2>1, SeqMonotonic
  <2> QED
    BY <2>2, FrameTypes
<1>5. wire' = Sent(from, frame) /\ AstrayUnlessSent(from, frame)
  BY DEF SendBatch
<1> HIDE DEF frame
<1>6. Carries(frame, i)
  BY <1>3 DEF InBatch, Carries
<1>7. CASE ~Accepts(from, frame)
  BY <1>3, <1>5, <1>7 DEF AstrayUnlessSent, InBatch, Ids
<1>8. CASE Accepts(from, frame)
  <2>1. wire'[from] = Append(wire[from], frame)
    BY <1>1, <1>5, <1>8 DEF Sent, TypeOK
  <2>2. /\ Len(wire'[from]) = Len(wire[from]) + 1
        /\ wire'[from][Len(wire[from]) + 1] = frame
    BY <1>2, <1>4, <2>1, AppendProperties
  <2>3. PICK s \in Session : s = from
    BY <1>1
  <2>4. PICK k \in 1 .. Len(wire'[s]) : wire'[s][k] = frame
    BY <1>2, <2>2, <2>3
  <2>5. Carries(wire'[s][k], i)
    BY <1>6, <2>4
  <2> QED
    BY <2>5 DEF OnWire, Carries
<1> QED
  BY <1>7, <1>8

(* What is in transit stays so, is received, or goes astray.               *)
LEMMA TransitStep ==
  ASSUME IInv, [Next]_vars, NEW i, InTransit(i)
  PROVE  i \in received' \cup astray' \/ InTransit(i)'
<1> USE DEF tables, sessionVars, arrivals, handlerVars
<1> DEFINE Kept == i \in received' \cup astray' \/ InTransit(i)'
<1> SUFFICES Kept
  OBVIOUS
<1>1. TypeOK /\ HandlerKnows /\ WireIsOpen
  BY DEF IInv
<1>2. /\ InTransit(i) <=> InBatch(i) \/ OnWire(i)
      /\ InTransit(i)' <=> InBatch(i)' \/ OnWire(i)'
  <2>1. (i \in OnWires(Session) <=> OnWire(i)) /\ (i \in OnWires(Session)' <=> OnWire(i)')
    <3>1. i \in OnWires(Session)' <=>
            \E s \in Session : \E k \in 1 .. Len(wire'[s]) : Carries(wire'[s][k], i)
      <4>1. PICK w : w = wire'
        OBVIOUS
      <4>2. OnWires(Session)' =
              UNION {UNION {Ids(w[s][k].data) :
                       k \in {n \in 1 .. Len(w[s]) : w[s][n].kind \in {"push", "batch"}}} :
                     s \in Session}
        BY <4>1 DEF OnWires, Ids
      <4>3. i \in OnWires(Session)' <=>
              \E s \in Session : \E k \in 1 .. Len(w[s]) : Carries(w[s][k], i)
        BY <4>2, CarriedIds
      <4> QED
        BY <4>1, <4>3
    <3>2. OnWire(i)' <=>
            \E s \in Session : \E k \in 1 .. Len(wire'[s]) : Carries(wire'[s][k], i)
      BY DEF OnWire, Carries
    <3>3. i \in OnWires(Session) <=> OnWire(i)
      BY OnWiresMeans DEF OnWire
    <3> QED
      BY <3>1, <3>2, <3>3
  <2>2. (i \in Ids(batch) <=> InBatch(i)) /\ (i \in Ids(batch)' <=> InBatch(i)')
    BY DEF InBatch, Ids
  <2> QED
    BY <2>1, <2>2 DEF InTransit
<1>3. pc \notin {"mark", "batch"} => ~InBatch(i)
  BY <1>1 DEF InBatch, HandlerKnows
<1>4. UNCHANGED batch /\ InBatch(i) => InBatch(i)'
  BY DEF InBatch
<1>5. UNCHANGED wire /\ OnWire(i) => OnWire(i)'
  BY DEF OnWire, Carries
<1>6. ASSUME NEW S \in SUBSET Session, wire' = Emptied(S), OnWires(S) \subseteq astray',
             UNCHANGED batch
      PROVE  Kept
  <2>1. CASE InBatch(i)
    BY <1>2, <1>4, <1>6, <2>1
  <2>2. ASSUME NEW t \in Session, NEW k \in 1 .. Len(wire[t]), Carries(wire[t][k], i)
        PROVE  i \in astray' \/ OnWire(i)'
    <3>1. CASE t \in S
      BY <1>6, <2>2, <3>1, OnWiresMeans
    <3>2. CASE t \notin S
      <4>1. wire'[t] = wire[t]
        BY <1>6, <3>2 DEF Emptied
      <4>2. k \in 1 .. Len(wire'[t]) /\ Carries(wire'[t][k], i)
        BY <2>2, <4>1
      <4> QED
        BY <4>2 DEF OnWire, Carries
    <3> QED
      BY <3>1, <3>2
  <2> QED
    BY <1>2, <2>1, <2>2 DEF OnWire
<1>7. CASE UNCHANGED <<wire, batch>>
  BY <1>2, <1>4, <1>5, <1>7
<1>8. ASSUME NEW s \in Session, Request(s) PROVE Kept
  <2>1. UNCHANGED batch
    BY <1>8 DEF Request, RegisterRequest, LoginRequest, AddFriendRequest, GetFriendListRequest,
       ChatMessageRequest, GetOfflineMessageRequest, RefusedRequest
  <2>2. \/ UNCHANGED wire
        \/ \E S \in SUBSET Session : wire' = Emptied(S) /\ OnWires(S) \subseteq astray'
    BY <1>8 DEF Request, RegisterRequest, LoginRequest, AddFriendRequest, GetFriendListRequest,
       ChatMessageRequest, GetOfflineMessageRequest, RefusedRequest
  <2> QED
    BY <1>6, <1>7, <2>1, <2>2
<1>9. CASE PushToTarget
  <2> DEFINE frame == IF answer.kind = "ack" THEN FrameOf("push", answer.data)
                                             ELSE FrameOf("invite", <<answer.data[1]>>)
  <2>1. UNCHANGED batch
    BY <1>9 DEF PushToTarget
  <2>2. frame \in Frame
    BY <1>9, PushedFrame DEF PushToTarget
  <2>3. wire' = wire \/ (online[target] \in Session /\ wire' = Sent(online[target], frame))
    BY <1>1, <1>9 DEF PushToTarget, HandlerKnows, TypeOK
  <2> HIDE DEF frame
  <2> QED
    BY <1>1, <1>2, <1>4, <1>5, <2>1, <2>2, <2>3, SentKeeps
<1>10. CASE SelectUndelivered
  BY <1>2, <1>3, <1>5, <1>10 DEF SelectUndelivered
<1>11. CASE MarkDelivered
  BY <1>7, <1>11 DEF MarkDelivered
<1>12. CASE SendBatch
  <2>1. from \in Session
    BY <1>1, <1>12 DEF SendBatch, HandlerKnows
  <2>2. CASE InBatch(i)
    BY <1>2, <1>12, <2>1, <2>2, BatchIsSent
  <2>3. CASE OnWire(i)
    <3>1. FrameOf("batch", batch) \in Frame
      <4>1. batch \in Seq(MsgId) /\ MsgId \subseteq Nat
        BY <1>1 DEF TypeOK, MsgId
      <4>2. batch \in Seq(Nat)
        BY <4>1, SeqMonotonic
      <4> QED
        BY <4>2, FrameTypes
    <3> QED
      BY <1>1, <1>2, <1>12, <2>1, <2>3, <3>1, SentKeeps DEF SendBatch
  <2> QED
    BY <1>2, <2>2, <2>3
<1>13. CASE Reply
  <2>1. from \in Session /\ answer \in Frame /\ wire' = Sent(from, answer)
    BY <1>1, <1>13 DEF Reply, HandlerKnows, TypeOK
  <2>2. OnWire(i)
    BY <1>2, <1>3, <1>13 DEF Reply
  <2> QED
    BY <1>1, <1>2, <2>1, <2>2, SentKeeps
<1>14. ASSUME NEW s \in Session, Connect(s) PROVE UNCHANGED <<wire, batch>>
  BY <1>14 DEF Connect
<1>15. ASSUME NEW s \in Session, Arrive(s) PROVE Kept
  <2>1. wire[s] \in Seq(Frame) /\ wire[s] # <<>>
    BY <1>1, <1>15 DEF Arrive, TypeOK
  <2>2. /\ Len(Tail(wire[s])) = Len(wire[s]) - 1 /\ Len(wire[s]) \in Nat
        /\ \A k \in 1 .. Len(Tail(wire[s])) : Tail(wire[s])[k] = wire[s][k + 1]
        /\ Head(wire[s]) = wire[s][1]
    BY <2>1, HeadTailProperties
  <2>3. wire' = [wire EXCEPT ![s] = Tail(wire[s])] /\ UNCHANGED batch
    BY <1>15 DEF Arrive
  <2>4. wire'[s] = Tail(wire[s]) /\ \A t \in Session : t # s => wire'[t] = wire[t]
    BY <1>1, <2>3 DEF TypeOK
  <2>5. ASSUME NEW t \in Session, NEW k \in 1 .. Len(wire[t]), Carries(wire[t][k], i)
        PROVE  i \in received' \/ OnWire(i)'
    <3>1. CASE t = s /\ k = 1
      <4>1. Carries(Head(wire[s]), i)
        BY <2>2, <2>5, <3>1
      <4> QED
        BY <1>15, <4>1 DEF Arrive, Carries, Ids
    <3>2. CASE t # s
      <4>1. k \in 1 .. Len(wire'[t]) /\ Carries(wire'[t][k], i)
        BY <2>4, <2>5, <3>2
      <4> QED
        BY <4>1 DEF OnWire, Carries
    <3>3. CASE t = s /\ k # 1
      <4>1. /\ wire'[t] = Tail(wire[s]) /\ k \in 1 .. Len(wire[s]) /\ k # 1
            /\ wire[t][k] = wire[s][k]
        BY <2>4, <2>5, <3>3
      <4>2. k - 1 \in 1 .. Len(Tail(wire[s])) /\ Tail(wire[s])[k - 1] = wire[s][k]
        <5>1. k - 1 \in 1 .. Len(Tail(wire[s])) /\ k - 1 + 1 = k
          BY <2>2, <4>1
        <5> QED
          BY <2>2, <5>1
      <4>3. PICK j \in 1 .. Len(wire'[t]) : wire'[t][j] = wire[t][k]
        BY <4>1, <4>2
      <4>4. Carries(wire'[t][j], i)
        BY <2>5, <4>3
      <4> QED
        BY <4>4 DEF OnWire, Carries
    <3> QED
      BY <3>1, <3>2, <3>3
  <2> QED
    BY <1>2, <1>4, <2>3, <2>5 DEF OnWire
<1>16. ASSUME NEW s \in Session, Sever(s) PROVE Kept
  BY <1>6, <1>16 DEF Sever
<1>17. CASE Restart
  BY <1>17 DEF Restart, InTransit
<1>18. CASE UNCHANGED vars
  BY <1>7, <1>18 DEF vars
<1> HIDE DEF Kept
<1>19. ASSUME NEW s \in Session, Connect(s) PROVE Kept
  BY <1>7, <1>14, <1>19
<1>20. CASE Handler
  BY <1>9, <1>10, <1>11, <1>12, <1>13, <1>20 DEF Handler
<1>21. ASSUME NEW s \in Session, Request(s) \/ Connect(s) \/ Arrive(s) \/ Sever(s) PROVE Kept
  BY <1>8, <1>15, <1>16, <1>19, <1>21
<1> QED
  BY <1>17, <1>18, <1>20, <1>21 DEF Next

(* What is received stays so, and a new row is not yet delivered.          *)
LEMMA ReceivedStays == ASSUME [Next]_vars PROVE received \subseteq received'
<1>1. ASSUME NEW s \in Session, Arrive(s) PROVE received \subseteq received'
  BY <1>1 DEF Arrive
<1>2. (\E s \in Session : Arrive(s)) \/ received' = received
  BY DEF Next, Handler, Request, RegisterRequest, LoginRequest, AddFriendRequest,
     GetFriendListRequest, ChatMessageRequest, GetOfflineMessageRequest, RefusedRequest,
     PushToTarget, SelectUndelivered, MarkDelivered, SendBatch, Reply, Connect, Sever, Restart,
     arrivals, vars
<1> QED
  BY <1>1, <1>2

LEMMA NewRow ==
  ASSUME IInv, [Next]_vars, NEW i \in 1 .. Len(messages'), i \notin 1 .. Len(messages)
  PROVE  /\ i = Len(messages) + 1 /\ messages'[i].delivered = FALSE
         /\ \E s \in Session, to \in Uid : ChatMessageRequest(s, to) /\ messages'[i].to = to
<1>1. messages \in Seq(Row)
  BY DEF IInv, TypeOK
<1>2. CASE messages' = messages
  BY <1>2
<1>3. ASSUME NEW s \in Session, NEW to \in Uid, ChatMessageRequest(s, to), messages' # messages
      PROVE  i = Len(messages) + 1 /\ messages'[i].delivered = FALSE /\ messages'[i].to = to
  <2>0. PICK len \in Lengths : messages' = Append(messages, NewMessage(loginUid[s], to, len))
    BY <1>3 DEF ChatMessageRequest, SaveMessage
  <2> DEFINE row == NewMessage(loginUid[s], to, len)
  <2>1. row \in Row /\ messages' = Append(messages, row)
    BY <1>3, <2>0 DEF ChatMessageRequest, NewMessage, Row, IInv, TypeOK
  <2>2. row.delivered = FALSE /\ row.to = to
    BY DEF NewMessage
  <2> HIDE DEF row
  <2>3. /\ Len(messages') = Len(messages) + 1 /\ Len(messages) \in Nat
        /\ messages'[Len(messages) + 1] = row
    BY <1>1, <2>1, AppendProperties
  <2> QED
    BY <2>2, <2>3
<1>4. CASE MarkDelivered
  <2>1. Len(messages') = Len(messages)
    BY <1>1, <1>4 DEF MarkDelivered
  <2> QED
    BY <2>1
<1>5. messages' = messages \/ MarkDelivered
        \/ \E s \in Session, to \in Uid : ChatMessageRequest(s, to)
  BY DEF Next, Handler, Request, RegisterRequest, LoginRequest, AddFriendRequest,
     GetFriendListRequest, GetOfflineMessageRequest, RefusedRequest, PushToTarget,
     SelectUndelivered, SendBatch, Reply, Connect, Arrive, Sever, Restart, tables, arrivals, vars
<1> QED
  BY <1>2, <1>3, <1>4, <1>5

(* GetOfflineMessages marks messages before they are sent, so a connection *)
(* that closes or a frame that is too long takes them with it (see         *)
(* FindLostBatch.cfg); but this, a SELECT that broke off and a crash are   *)
(* the only ways to lose a message that is marked as delivered: any other  *)
(* one is with a client or on its way to one.                              *)
THEOREM MarkedIsNotMislaid == Spec => []MarkedIsAccountedFor
<1>1. Init => MarkedIsAccountedFor
  <2> SUFFICES ASSUME Init PROVE MarkedIsAccountedFor
    OBVIOUS
  <2>1. Len(messages) = 0
    BY DEF Init
  <2> QED
    BY <2>1 DEF MarkedIsAccountedFor
<1>2. IInv /\ FetchedFirst /\ MarkedIsAccountedFor /\ [Next]_vars => MarkedIsAccountedFor'
  <2> SUFFICES ASSUME IInv, FetchedFirst, MarkedIsAccountedFor, [Next]_vars,
                      NEW i \in 1 .. Len(messages'), messages'[i].delivered
               PROVE  i \in received' \cup astray' \/ InTransit(i)'
    BY DEF MarkedIsAccountedFor
  <2>1. i \in 1 .. Len(messages)
    BY NewRow
  <2>2. CASE messages[i].delivered
    <3>1. i \in received \cup astray \/ InTransit(i)
      BY <2>1, <2>2 DEF MarkedIsAccountedFor
    <3> QED
      BY <3>1, TransitStep, ReceivedStays, AstrayStays
  <2>3. CASE messages'[i] # messages[i]
    <3>1. pc = "mark" /\ i \in Undelivered(uid)
      BY <2>1, <2>3, OnlyMarkDelivered
    <3>2. i \in astray \/ InTransit(i)
      BY <3>1 DEF FetchedFirst, InTransit
    <3> QED
      BY <3>2, TransitStep, AstrayStays
  <2> QED
    BY <2>2, <2>3
<1> QED
  BY IInvHolds, FetchedFirstHolds, <1>1, <1>2, PTL DEF Spec

=============================================================================
