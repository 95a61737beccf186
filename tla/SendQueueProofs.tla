--------------------------- MODULE SendQueueProofs ---------------------------
(***************************************************************************)
(* Proofs, for any MAX_SENDQUE, any strings sent and any number of calls   *)
(* of Send, of the safety properties of SendQueue and of its refinement of *)
(* BoundedFifo.                                                            *)
(***************************************************************************)
EXTENDS SendQueue, TLAPS

(* What each thread has in hand, and what a failed write leaves behind: a  *)
(* queue that is not empty, so that no call of Send starts a write.        *)
InHand ==
  /\ sender # "idle" => msg \in Node
  /\ failed => sendQue # <<>> /\ Writers = 0

IInv == TypeOK /\ OneWriteInFlight /\ BufferAlive /\ NeverStalls /\ InHand

-----------------------------------------------------------------------------
LEMMA NoneIsNoNode == None \notin Node
<1>1. \A length \in Lengths : ToShort(length) \in Int
  BY SendAssumption DEF ToShort
<1>2. \A n \in 1 .. MaxSends, length \in Lengths :
        NodeOf(n, length) \in [n : Nat, length : Nat, frame : Int]
  BY <1>1, SendAssumption DEF NodeOf
<1>3. \A node \in Node : node \in [n : Nat, length : Nat, frame : Int]
  BY <1>2 DEF Node
<1> QED
  BY <1>3, SendAssumption

(* What the conversion to a short makes of a length that Send accepts.     *)
LEMMA AcceptedFits ==
  ASSUME NEW length \in Nat, Accepted(length)
  PROVE  /\ ToShort(length) \in 1 .. MaxLength
         /\ ToShort(length) # length => length > ShortRange
<1> DEFINE low == length % ShortRange
<1>1. low \in 0 .. ShortRange - 1 /\ (length < ShortRange => low = length)
         /\ (length = ShortRange => low = 0)
  BY SendAssumption
<1>2. ToShort(length) = IF 2 * low >= ShortRange THEN low - ShortRange ELSE low
  BY DEF ToShort
<1> HIDE DEF low
<1>3. low - ShortRange <= 0 /\ ToShort(length) = low
  BY <1>1, <1>2, SendAssumption DEF Accepted
<1> QED
  BY <1>1, <1>3, SendAssumption DEF Accepted

LEMMA NodeFits ==
  ASSUME NEW node \in Node
  PROVE  /\ node.frame \in 1 .. MaxLength
         /\ node.frame # node.length => node.length > ShortRange
<1>1. PICK n \in 1 .. MaxSends, length \in Lengths :
        Accepted(length) /\ node = NodeOf(n, length)
  BY DEF Node
<1> QED
  BY <1>1, AcceptedFits, SendAssumption DEF NodeOf

LEMMA AppendFacts ==
  ASSUME NEW S, NEW q \in Seq(S), NEW e \in S
  PROVE  /\ Append(q, e) \in Seq(S) /\ Append(q, e) # <<>>
         /\ Len(Append(q, e)) = Len(q) + 1
         /\ q = <<>> => Head(Append(q, e)) = e
         /\ q # <<>> => Head(Append(q, e)) = Head(q)
  OBVIOUS

LEMMA TailOfAppend ==
  ASSUME NEW S, NEW q \in Seq(S), NEW e \in S, q # <<>>
  PROVE  Tail(Append(q, e)) = Append(Tail(q), e)
  OBVIOUS

LEMMA TailFacts ==
  ASSUME NEW S, NEW q \in Seq(S), q # <<>>
  PROVE  Head(q) \in S /\ Tail(q) \in Seq(S) /\ Len(Tail(q)) = Len(q) - 1 /\ Len(q) \in Nat
  OBVIOUS

LEMMA FlightLength ==
  ASSUME TypeOK
  PROVE  Len(flight) \in Nat /\ (Len(flight) = 0 <=> flight = <<>>)
  BY DEF TypeOK

LEMMA AddUp ==
  ASSUME NEW n \in Nat, NEW a \in {0, 1}, NEW b \in {0, 1}
  PROVE  /\ n + a + b = 0 => n = 0 /\ a = 0 /\ b = 0
         /\ n + a + b <= 1 => (n = 0 /\ ~(a = 1 /\ b = 1)) \/ (n = 1 /\ a = 0 /\ b = 0)
  OBVIOUS

(* Each write, in flight or about to be started, counts as one.            *)
LEMMA CountWriters ==
  ASSUME TypeOK
  PROVE  /\ Writers = 0 => flight = <<>> /\ sender # "start" /\ io # "restart"
         /\ Writers <= 1 => \/ flight = <<>> /\ ~(sender = "start" /\ io = "restart")
                            \/ Len(flight) = 1 /\ sender # "start" /\ io # "restart"
<1> DEFINE n == Len(flight)
           a == IF sender = "start" THEN 1 ELSE 0
           b == IF io = "restart" THEN 1 ELSE 0
<1>1. n \in Nat /\ (n = 0 <=> flight = <<>>)
  BY FlightLength
<1>2. a \in {0, 1} /\ (a = 1 <=> sender = "start") /\ b \in {0, 1} /\ (b = 1 <=> io = "restart")
  OBVIOUS
<1>3. Writers = n + a + b
  BY DEF Writers
<1> HIDE DEF n, a, b
<1>4. /\ n + a + b = 0 => n = 0 /\ a = 0 /\ b = 0
      /\ n + a + b <= 1 => (n = 0 /\ ~(a = 1 /\ b = 1)) \/ (n = 1 /\ a = 0 /\ b = 0)
  BY <1>1, <1>2, AddUp
<1> QED
  BY <1>1, <1>2, <1>3, <1>4 DEF n

LEMMA NoLengthIsEmpty == ASSUME NEW S, NEW q \in Seq(S), Len(q) = 0 PROVE q = <<>>
  OBVIOUS

LEMMA TailOfOne == ASSUME NEW S, NEW q \in Seq(S), Len(q) = 1 PROVE Tail(q) = <<>>
<1>1. Tail(q) \in Seq(S) /\ Len(Tail(q)) = 0
  OBVIOUS
<1> QED
  BY <1>1, NoLengthIsEmpty

(* A write in flight is the only one.                                      *)
LEMMA Alone ==
  ASSUME IInv, flight # <<>>
  PROVE  /\ Len(flight) = 1 /\ Tail(flight) = <<>>
         /\ sender # "start" /\ io # "restart" /\ ~failed
         /\ sendQue # <<>> /\ flight[1] = Head(sendQue)
<1>1. Len(flight) = 1 /\ sender # "start" /\ io # "restart"
  BY CountWriters DEF IInv, OneWriteInFlight
<1>2. ~failed
  BY CountWriters DEF IInv, InHand
<1>3. Tail(flight) = <<>>
  <2>1. flight \in Seq(Node)
    BY DEF IInv, TypeOK
  <2> QED
    BY <1>1, <2>1, TailOfOne
<1> QED
  BY <1>1, <1>2, <1>3 DEF IInv, BufferAlive

(* Who is about to start a write is the only one to do so.                 *)
LEMMA Starter ==
  ASSUME IInv, sender = "start" \/ io = "restart"
  PROVE  /\ flight = <<>> /\ ~failed /\ sendQue # <<>>
         /\ ~(sender = "start" /\ io = "restart")
<1>1. flight = <<>> /\ ~(sender = "start" /\ io = "restart")
  BY CountWriters DEF IInv, OneWriteInFlight
<1>2. Writers # 0
  BY CountWriters DEF IInv
<1> QED
  BY <1>1, <1>2 DEF IInv, InHand, BufferAlive

(* An empty queue has no writer.                                           *)
LEMMA EmptyIsQuiet ==
  ASSUME IInv, sendQue = <<>>
  PROVE  flight = <<>> /\ sender # "start" /\ io # "restart" /\ ~failed
  BY Alone, Starter DEF IInv, InHand

-----------------------------------------------------------------------------
(* Each action.                                                            *)

LEMMA CallSendStep ==
  ASSUME IInv, NEW length \in Lengths, CallSend(length)
  PROVE  IInv'
<1>1. sends' \in 1 .. MaxSends /\ sends' \in 0 .. MaxSends
  BY SendAssumption DEF CallSend, IInv, TypeOK
<1>2. CASE stop \/ ~Accepted(length)
  BY <1>1, <1>2 DEF CallSend, IInv, TypeOK, OneWriteInFlight, BufferAlive, NeverStalls, InHand,
                    Writers, ioVars
<1>3. CASE ~(stop \/ ~Accepted(length))
  <2>1. msg' \in Node /\ sender' = "tested" /\ sender = "idle"
    BY <1>1, <1>3 DEF CallSend, Node
  <2> QED
    BY <1>1, <1>3, <2>1
    DEF CallSend, IInv, TypeOK, OneWriteInFlight, BufferAlive, NeverStalls, InHand,
        Writers, ioVars
<1> QED
  BY <1>2, <1>3

LEMMA EnqueueStep == ASSUME IInv, Enqueue PROVE IInv'
<1>1. msg \in Node /\ sender = "tested"
  BY DEF Enqueue, IInv, InHand
<1>2. UNCHANGED <<stop, flight, sends, io, failed>>
  BY DEF Enqueue, ioVars
<1>3. CASE Len(sendQue) > MaxSendQue
  <2>1. sender' = "idle" /\ msg' = None /\ sendQue' = sendQue
    BY <1>3 DEF Enqueue
  <2> QED
    BY <1>1, <1>2, <2>1
    DEF IInv, TypeOK, OneWriteInFlight, BufferAlive, NeverStalls, InHand, Writers
<1>4. CASE ~(Len(sendQue) > MaxSendQue) /\ sendQue = <<>>
  <2>1. sendQue' = Append(sendQue, msg) /\ sender' = "start" /\ msg' = msg
    BY <1>4 DEF Enqueue
  <2>2. sendQue' \in Seq(Node) /\ sendQue' # <<>> /\ Head(sendQue') = msg
    BY <1>1, <1>4, <2>1, AppendFacts DEF IInv, TypeOK
  <2>3. flight = <<>> /\ io # "restart" /\ ~failed /\ Len(flight) = 0
    BY <1>4, EmptyIsQuiet
  <2>4. Writers' = 1
    BY <1>2, <2>1, <2>3 DEF Writers
  <2>5. TypeOK' /\ InHand'
    BY <1>1, <1>2, <2>1, <2>2, <2>3 DEF IInv, TypeOK, InHand
  <2>6. BufferAlive'
    BY <1>2, <2>1, <2>2, <2>3 DEF BufferAlive
  <2> QED
    BY <2>4, <2>5, <2>6 DEF IInv, OneWriteInFlight, NeverStalls
<1>5. CASE ~(Len(sendQue) > MaxSendQue) /\ sendQue # <<>>
  <2>1. sendQue' = Append(sendQue, msg) /\ sender' = "idle" /\ msg' = None
    BY <1>5 DEF Enqueue
  <2>2. sendQue' \in Seq(Node) /\ sendQue' # <<>> /\ Head(sendQue') = Head(sendQue)
    BY <1>1, <1>5, <2>1, AppendFacts DEF IInv, TypeOK
  <2>3. Writers' = Writers
    BY <1>1, <1>2, <2>1 DEF Writers
  <2>4. TypeOK' /\ InHand'
    BY <1>2, <2>1, <2>2, <2>3 DEF IInv, TypeOK, InHand
  <2>5. BufferAlive'
    BY <1>2, <2>1, <2>2 DEF IInv, BufferAlive
  <2> QED
    BY <1>2, <1>5, <2>3, <2>4, <2>5 DEF IInv, OneWriteInFlight, NeverStalls
<1> QED
  BY <1>3, <1>4, <1>5

LEMMA StartStep ==
  ASSUME IInv, StartWrite \/ WriteNext
  PROVE  IInv' /\ sendQue' = sendQue /\ flight' # <<>> /\ failed' = failed
<1>1. flight = <<>> /\ ~failed /\ sendQue # <<>> /\ Head(sendQue) \in Node
  BY Starter, TailFacts DEF StartWrite, WriteNext, IInv, TypeOK
<1>2. flight' = Append(flight, Head(sendQue)) /\ UNCHANGED <<stop, sendQue, failed, sends>>
  BY DEF StartWrite, WriteNext, IInv, BufferAlive, workerVars, ioVars
<1>3. flight' = <<Head(sendQue)>> /\ flight' \in Seq(Node) /\ Len(flight') = 1
  BY <1>1, <1>2
<1>4. sender' # "start" /\ io' # "restart"
  BY Starter DEF StartWrite, WriteNext, ioVars, workerVars
<1>5. TypeOK' /\ InHand'
  BY <1>1, <1>2, <1>3 DEF StartWrite, WriteNext, IInv, TypeOK, InHand, workerVars, ioVars
<1>6. Writers' = 1
  BY <1>3, <1>4 DEF Writers
<1>7. BufferAlive'
  BY <1>1, <1>2, <1>3, <1>4 DEF BufferAlive
<1> QED
  BY <1>2, <1>3, <1>5, <1>6, <1>7 DEF IInv, OneWriteInFlight, NeverStalls

LEMMA HandleWriteStep == ASSUME IInv, HandleWrite PROVE IInv'
<1>1. /\ Tail(flight) = <<>> /\ sender # "start" /\ ~failed
      /\ sendQue # <<>> /\ Tail(sendQue) \in Seq(Node)
  BY Alone, TailFacts DEF HandleWrite, IInv, TypeOK
<1>2. /\ flight' = <<>> /\ sendQue' = Tail(sendQue)
      /\ io' = IF sendQue' = <<>> THEN "idle" ELSE "restart"
      /\ UNCHANGED <<stop, sender, msg, sends, failed>>
  BY <1>1 DEF HandleWrite, workerVars
<1>3. TypeOK' /\ InHand'
  BY <1>1, <1>2 DEF IInv, TypeOK, InHand
<1>4. Len(flight') = 0
  BY <1>2
<1> QED
  BY <1>1, <1>2, <1>3, <1>4 DEF IInv, OneWriteInFlight, BufferAlive, NeverStalls, Writers

LEMMA HandleWriteErrorStep == ASSUME IInv, HandleWriteError PROVE IInv'
<1>1. Tail(flight) = <<>> /\ sender # "start" /\ sendQue # <<>>
  BY Alone DEF HandleWriteError
<1>2. /\ flight' = <<>> /\ io' = "closing" /\ failed' = TRUE
      /\ UNCHANGED <<stop, sendQue, sender, msg, sends>>
  BY <1>1 DEF HandleWriteError, workerVars
<1>3. Writers' = 0
  BY <1>1, <1>2 DEF Writers
<1> QED
  BY <1>1, <1>2, <1>3 DEF IInv, TypeOK, OneWriteInFlight, BufferAlive, NeverStalls, InHand

(* Closing touches neither queue nor writes.                               *)
LEMMA CloseStep ==
  ASSUME IInv, CloseAfterError \/ Close \/ UNCHANGED vars
  PROVE  IInv' /\ UNCHANGED <<sendQue, flight, failed>>
<1>1. /\ stop' \in BOOLEAN
      /\ io' = io \/ (io = "closing" /\ io' = "idle")
      /\ UNCHANGED <<sendQue, flight, failed, sender, msg, sends>>
  BY DEF CloseAfterError, Close, vars, workerVars, ioVars,
         IInv, TypeOK
<1>2. Writers' = Writers
  BY <1>1 DEF Writers
<1>3. TypeOK' /\ InHand'
  BY <1>1, <1>2 DEF IInv, TypeOK, InHand
<1>4. BufferAlive'
  BY <1>1 DEF IInv, BufferAlive
<1> QED
  BY <1>1, <1>2, <1>3, <1>4 DEF IInv, OneWriteInFlight, NeverStalls

LEMMA IInvHolds == Spec => []IInv
<1>1. Init => IInv
  <2> SUFFICES ASSUME Init PROVE IInv
    OBVIOUS
  <2>1. 0 \in 0 .. MaxSends /\ <<>> \in Seq(Node) /\ Len(<<>>) = 0
    BY SendAssumption
  <2>2. TypeOK /\ Len(flight) = 0
    BY <2>1 DEF Init, TypeOK
  <2> QED
    BY <2>2 DEF Init, IInv, OneWriteInFlight, BufferAlive, NeverStalls, InHand, Writers
<1>2. IInv /\ [Next]_vars => IInv'
  BY CallSendStep, EnqueueStep, StartStep, HandleWriteStep, HandleWriteErrorStep, CloseStep
  DEF Next, Send
<1> QED
  BY <1>1, <1>2, PTL DEF Spec

-----------------------------------------------------------------------------
(* The theorems.                                                           *)

(* The frames in the queue and in flight are accepted ones.                *)
THEOREM TypeCorrect == Spec => []TypeOK
<1>1. IInv => TypeOK
  BY DEF IInv
<1> QED
  BY <1>1, IInvHolds, PTL

(* Send and HandleWrite never have two asynchronous writes outstanding on  *)
(* a socket, though both start theirs outside _mutex.                      *)
THEOREM SingleWriter == Spec => []OneWriteInFlight
<1>1. IInv => OneWriteInFlight
  BY DEF IInv
<1> QED
  BY <1>1, IInvHolds, PTL

(* The buffer of a write stays at the front of the queue until the write   *)
(* has completed.                                                          *)
THEOREM BufferOutlivesWrite == Spec => []BufferAlive
<1>1. IInv => BufferAlive
  BY DEF IInv
<1> QED
  BY <1>1, IInvHolds, PTL

(* A queue that is not empty has a writer, unless its connection failed.   *)
THEOREM NoStall == Spec => []NeverStalls
<1>1. IInv => NeverStalls
  BY DEF IInv
<1> QED
  BY <1>1, IInvHolds, PTL

(* What is queued for the peer is a frame it can read, and the whole       *)
(* message as long as the message is shorter than 2^16.                    *)
THEOREM ReadableFrames == Spec => []WholeUnlessWrapped
<1>1. IInv => WholeUnlessWrapped
  BY NodeFits DEF IInv, TypeOK, WholeUnlessWrapped
<1> QED
  BY <1>1, IInvHolds, PTL

(* Every step of the output is a step of the bounded queue BoundedFifo or  *)
(* leaves it alone.                                                        *)
THEOREM OutputIsFifo == Spec => ImplementsFifo
<1>1. Init => Fifo!FifoInit
  BY DEF Init, Fifo!FifoInit, InWriting
<1>2. IInv /\ [Next]_vars => [Fifo!FifoNext]_(Fifo!fifoVars)
  <2> SUFFICES ASSUME IInv, [Next]_vars PROVE [Fifo!FifoNext]_(Fifo!fifoVars)
    OBVIOUS
  <2>1. ASSUME NEW length \in Lengths, CallSend(length) PROVE UNCHANGED Fifo!fifoVars
    BY <2>1 DEF CallSend, Fifo!fifoVars, InWriting, ioVars
  <2>2. CASE Enqueue
    <3>1. msg \in Node
      BY <2>2 DEF Enqueue, IInv, InHand
    <3>2. UNCHANGED <<flight, failed>>
      BY <2>2 DEF Enqueue, ioVars
    <3>3. CASE Len(sendQue) > MaxSendQue
      BY <2>2, <3>2, <3>3 DEF Enqueue, Fifo!fifoVars, InWriting
    <3>4. CASE ~(Len(sendQue) > MaxSendQue)
      <4>1. sendQue' = Append(sendQue, msg) /\ sendQue \in Seq(Node)
        BY <2>2, <3>4 DEF Enqueue, IInv, TypeOK
      <4>2. Len(sendQue) < MaxSendQue + 1
        BY <3>4, <4>1, SendAssumption
      <4>3. CASE InWriting
        <5>1. sendQue # <<>>
          BY <4>3, Alone DEF InWriting, IInv, InHand
        <5>2. Tail(sendQue') = Append(Tail(sendQue), msg) /\ Head(sendQue') = Head(sendQue)
          BY <3>1, <4>1, <5>1, TailOfAppend, AppendFacts
        <5>3. Len(Tail(sendQue)) < MaxSendQue + 1
          BY <4>1, <4>2, <5>1, TailFacts, SendAssumption
        <5>4. Fifo!Accept(msg)
          BY <3>2, <4>3, <5>2, <5>3 DEF Fifo!Accept, InWriting
        <5> QED
          BY <3>1, <5>4 DEF Fifo!FifoNext
      <4>4. CASE ~InWriting
        BY <3>1, <3>2, <4>1, <4>2, <4>4 DEF Fifo!Accept, Fifo!FifoNext, InWriting
      <4> QED
        BY <4>3, <4>4
    <3> QED
      BY <3>3, <3>4
  <2>3. CASE StartWrite \/ WriteNext
    <3>1. ~InWriting /\ sendQue # <<>>
      BY <2>3, Starter DEF StartWrite, WriteNext, InWriting
    <3>2. InWriting' /\ sendQue' = sendQue
      BY <2>3, StartStep DEF InWriting
    <3> QED
      BY <3>1, <3>2 DEF Fifo!Take, Fifo!FifoNext
  <2>4. CASE HandleWrite
    <3>1. InWriting /\ ~failed /\ sendQue # <<>> /\ Tail(flight) = <<>>
      BY <2>4, Alone DEF HandleWrite, InWriting
    <3>2. ~InWriting' /\ sendQue' = Tail(sendQue)
      BY <2>4, <3>1 DEF HandleWrite, InWriting
    <3>3. Head(sendQue) # None
      BY <3>1, TailFacts, NoneIsNoNode DEF IInv, TypeOK
    <3> QED
      BY <3>1, <3>2, <3>3 DEF Fifo!Finish, Fifo!FifoNext
  <2>5. CASE HandleWriteError
    BY <2>5 DEF HandleWriteError, InWriting, Fifo!fifoVars
  <2>6. CASE CloseAfterError \/ Close \/ UNCHANGED vars
    BY <2>6, CloseStep DEF InWriting, Fifo!fifoVars
  <2> QED
    BY <2>1, <2>2, <2>3, <2>4, <2>5, <2>6 DEF Next, Send
<1> QED
  BY <1>1, <1>2, IInvHolds, PTL DEF Spec, ImplementsFifo
=============================================================================
