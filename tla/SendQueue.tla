------------------------------ MODULE SendQueue ------------------------------
(***************************************************************************)
(* The output of one CSession: the LogicSystem worker calls Send, the      *)
(* session's io thread runs HandleWrite when an async_write completes, and *)
(* either of them, or the read coroutine, may close the session meanwhile. *)
(*                                                                         *)
(* _mutex protects _send_que only; both Send and HandleWrite start the     *)
(* asynchronous write after they have given it back.  The buffer of a      *)
(* write is owned by the SendNode in the queue.                            *)
(***************************************************************************)
EXTENDS Integers, Sequences

CONSTANTS
  None,         \* no node
  MaxSendQue,   \* MAX_SENDQUE
  MaxLength,    \* MAX_LENGTH
  ShortRange,   \* 2^16, the number of values of a short
  Lengths,      \* the lengths of the strings that handlers send
  MaxSends      \* bound: calls of Send

ASSUME SendAssumption ==
  /\ MaxSendQue \in Nat \ {0} /\ MaxSends \in Nat
  /\ MaxLength \in Nat \ {0} /\ ShortRange \in Nat \ {0}
  /\ Lengths \subseteq Nat
  /\ None \notin [n : Nat, length : Nat, frame : Int]

(* static_cast<short>(length), two's complement.                           *)
ToShort(length) ==
  LET low == length % ShortRange
  IN  IF 2 * low >= ShortRange THEN low - ShortRange ELSE low

(* Send validates the converted length.                                    *)
Accepted(length) == ToShort(length) > 0 /\ ToShort(length) <= MaxLength

(* A SendNode: the string it was made of and the bytes it transmits.       *)
NodeOf(n, length) == [n |-> n, length |-> length, frame |-> ToShort(length)]
Node == {NodeOf(n, length) : n \in 1 .. MaxSends, length \in {l \in Lengths : Accepted(l)}}

VARIABLES
  stop,     \* CSession::_b_stop
  sendQue,  \* CSession::_send_que
  flight,   \* the asynchronous writes that have not completed
  sender,   \* where the worker is in Send
  msg,      \* the message it sends
  io,       \* where the io thread is in HandleWrite
  failed,   \* has HandleWrite been called with an error?
  sends     \* number of calls of Send, to tell the messages apart

workerVars == <<sender, msg, sends>>
ioVars     == <<io, failed>>
vars == <<stop, sendQue, flight, workerVars, ioVars>>

TypeOK ==
  /\ stop \in BOOLEAN
  /\ sendQue \in Seq(Node)
  /\ flight \in Seq(Node)
  /\ sender \in {"idle", "tested", "start"}
  /\ msg \in Node \cup {None}
  /\ io \in {"idle", "restart", "closing"}
  /\ failed \in BOOLEAN
  /\ sends \in 0 .. MaxSends

Init ==
  /\ stop = FALSE
  /\ sendQue = <<>> /\ flight = <<>>
  /\ sender = "idle" /\ msg = None
  /\ io = "idle" /\ failed = FALSE
  /\ sends = 0

-----------------------------------------------------------------------------
(* CSession::Send, by the worker.                                          *)

\* Faulty variant: the length is not validated.
CallSendUnchecked(length) ==
  /\ sender = "idle" /\ sends < MaxSends
  /\ sends' = sends + 1
  /\ IF stop
     THEN UNCHANGED <<sender, msg>>
     ELSE /\ sender' = "tested"
          /\ msg' = NodeOf(sends', length)
  /\ UNCHANGED <<stop, sendQue, flight, ioVars>>

(* The string's length is converted; a closing session and a length that   *)
(* is not positive or too large drop the message.                          *)
CallSend(length) ==
  /\ sender = "idle" /\ sends < MaxSends
  /\ sends' = sends + 1
  /\ IF stop \/ ~Accepted(length)
     THEN UNCHANGED <<sender, msg>>
     ELSE /\ sender' = "tested"
          /\ msg' = NodeOf(sends', length)
  /\ UNCHANGED <<stop, sendQue, flight, ioVars>>

\* Faulty variant: looks for a write in progress after pushing.
EnqueueThenLook ==
  /\ sender = "tested"
  /\ sender' = "idle" /\ msg' = None
  /\ IF Len(sendQue) > MaxSendQue
     THEN UNCHANGED sendQue
     ELSE sendQue' = Append(sendQue, msg)
  /\ UNCHANGED <<stop, flight, sends, ioVars>>

\* Faulty variant: starts a write whatever is in progress.
EnqueueAndStart ==
  /\ sender = "tested"
  /\ IF Len(sendQue) > MaxSendQue
     THEN sender' = "idle" /\ msg' = None /\ UNCHANGED sendQue
     ELSE sendQue' = Append(sendQue, msg) /\ sender' = "start" /\ UNCHANGED msg
  /\ UNCHANGED <<stop, flight, sends, ioVars>>

\* Faulty variant: the limit is one higher.
EnqueueOverfills ==
  /\ sender = "tested"
  /\ IF Len(sendQue) > MaxSendQue + 1
     THEN sender' = "idle" /\ msg' = None /\ UNCHANGED sendQue
     ELSE /\ sendQue' = Append(sendQue, msg)
          /\ IF sendQue = <<>>
             THEN sender' = "start" /\ UNCHANGED msg
             ELSE sender' = "idle" /\ msg' = None
  /\ UNCHANGED <<stop, flight, sends, ioVars>>

(* Under _mutex: drop when full, note whether a write is in progress, push.*)
Enqueue ==
  /\ sender = "tested"
  /\ IF Len(sendQue) > MaxSendQue
     THEN sender' = "idle" /\ msg' = None /\ UNCHANGED sendQue
     ELSE /\ sendQue' = Append(sendQue, msg)
          /\ IF sendQue = <<>>
             THEN sender' = "start" /\ UNCHANGED msg
             ELSE sender' = "idle" /\ msg' = None
  /\ UNCHANGED <<stop, flight, sends, ioVars>>

\* Faulty variant: the node leaves the queue when its write starts.
StartWritePops ==
  /\ sender = "start"
  /\ flight' = Append(flight, msg)
  /\ sendQue' = Tail(sendQue)
  /\ sender' = "idle" /\ msg' = None
  /\ UNCHANGED <<stop, sends, ioVars>>

(* async_write of the front, which is the message just pushed.             *)
StartWrite ==
  /\ sender = "start"
  /\ flight' = Append(flight, msg)
  /\ sender' = "idle" /\ msg' = None
  /\ UNCHANGED <<stop, sendQue, sends, ioVars>>

-----------------------------------------------------------------------------
(* CSession::HandleWrite, on the io thread.                                *)

(* Without error: pop, and go on to write the new front if there is one.   *)
HandleWrite ==
  /\ flight # <<>> /\ io = "idle"
  /\ flight' = Tail(flight)
  /\ sendQue' = Tail(sendQue)
  /\ io' = IF sendQue' = <<>> THEN "idle" ELSE "restart"
  /\ UNCHANGED <<stop, workerVars, failed>>

(* The async_write of that front, outside _mutex.                          *)
WriteNext ==
  /\ io = "restart"
  /\ flight' = Append(flight, Head(sendQue))
  /\ io' = "idle"
  /\ UNCHANGED <<stop, sendQue, workerVars, failed>>

(* With an error the queue is left as it is, and Close follows.            *)
HandleWriteError ==
  /\ flight # <<>> /\ io = "idle"
  /\ flight' = Tail(flight)
  /\ io' = "closing" /\ failed' = TRUE
  /\ UNCHANGED <<stop, sendQue, workerVars>>

CloseAfterError ==
  /\ io = "closing"
  /\ io' = "idle"
  /\ stop' = TRUE
  /\ UNCHANGED <<sendQue, flight, workerVars, failed>>

(* Close by the worker or the coroutine.  What closing the socket does to  *)
(* a pending write, a broken connection may do at any time.                *)
Close ==
  /\ ~stop
  /\ stop' = TRUE
  /\ UNCHANGED <<sendQue, flight, workerVars, ioVars>>

-----------------------------------------------------------------------------
Send == (\E length \in Lengths : CallSend(length)) \/ Enqueue \/ StartWrite

Next ==
  \/ Send
  \/ HandleWrite \/ WriteNext \/ HandleWriteError \/ CloseAfterError \/ Close

Spec == Init /\ [][Next]_vars

(***************************************************************************)
(* Calls that were begun go on, and a pending write completes: the peer    *)
(* reads what it is sent, or its connection breaks.                        *)
(***************************************************************************)
FairSpec ==
  /\ Spec
  /\ WF_vars(Enqueue \/ StartWrite)
  /\ WF_vars(WriteNext \/ CloseAfterError)
  /\ WF_vars(HandleWrite \/ HandleWriteError)

-----------------------------------------------------------------------------
(* Safety.                                                                 *)

Writers ==
  Len(flight) + (IF sender = "start" THEN 1 ELSE 0) + (IF io = "restart" THEN 1 ELSE 0)

(* At most one asynchronous write is outstanding or about to be started,   *)
(* though Send and HandleWrite start theirs outside _mutex: two of them    *)
(* would mix their bytes in the stream.                                    *)
OneWriteInFlight == Writers <= 1

(* The node whose bytes are being written is the front of the queue: it is *)
(* not popped, and its buffer not freed, before the write has completed,   *)
(* and HandleWrite pops what was written.                                  *)
BufferAlive ==
  /\ \A i \in 1 .. Len(flight) : sendQue # <<>> /\ flight[i] = Head(sendQue)
  /\ sender = "start" => sendQue # <<>> /\ msg = Head(sendQue)
  /\ io = "restart" => sendQue # <<>>

(* A nonempty queue is being written, or its connection has failed: Send   *)
(* and HandleWrite never both leave the next write to the other.           *)
NeverStalls == sendQue # <<>> /\ ~failed => Writers > 0

(* A string of any length becomes a frame that the peer can read, of 1 to  *)
(* MAX_LENGTH bytes, and a whole one as long as its length is less than    *)
(* the 2^16 at which its conversion to a short starts again.               *)
WholeUnlessWrapped ==
  \A i \in 1 .. Len(sendQue) :
    /\ sendQue[i].frame \in 1 .. MaxLength
    /\ sendQue[i].frame # sendQue[i].length => sendQue[i].length > ShortRange

(* What a frame announces and transmits is the message that was sent.      *)
FramesAreWhole ==
  \A i \in 1 .. Len(sendQue) : sendQue[i].frame = sendQue[i].length

-----------------------------------------------------------------------------
(* Refinement and liveness.                                                *)

(* The node being written has left the abstract buffer.                    *)
InWriting == flight # <<>> \/ failed

Fifo == INSTANCE BoundedFifo WITH
  Msg      <- Node,
  Capacity <- MaxSendQue + 1,
  buf      <- IF InWriting THEN Tail(sendQue) ELSE sendQue,
  cur      <- IF InWriting THEN Head(sendQue) ELSE None

(* Output is a bounded first-in-first-out queue written one message at a   *)
(* time: what the peer receives is what was accepted, in order, up to a    *)
(* failure, and at most MAX_SENDQUE + 1 messages are held.                 *)
ImplementsFifo == Fifo!FifoInit /\ [][Fifo!FifoNext]_(Fifo!fifoVars)

(* With a peer that reads, the queue is emptied, or the connection fails.  *)
Drains == sendQue # <<>> ~> (sendQue = <<>> \/ failed)
=============================================================================
