------------------------------ MODULE Framing ------------------------------
(***************************************************************************)
(* The bytes between a client and its session: how a message becomes a     *)
(* frame (SendNode, SendMsg), and how the frames are found again in a      *)
(* stream that arrives in pieces (CSession::Start, RecvOneMessage).        *)
(*                                                                         *)
(* A frame is a header of two 16-bit fields in network byte order, the     *)
(* message's id and the length of its body, and the body.  Nothing marks   *)
(* where a frame begins: a reader that takes one byte too many or too few  *)
(* never finds a header again.                                             *)
(*                                                                         *)
(* Everything is indexed by the end that reads: sent["server"] is what the *)
(* client has sent to the server.  The n-th message to an end has a body   *)
(* of bytes n.                                                             *)
(***************************************************************************)
EXTENDS Integers, Sequences, SequencesExt

CONSTANTS
  MAX_LENGTH,     \* limit of the length of a body
  ClientHeaders,  \* the headers that clients send
  MaxToServer,    \* bound: messages the client sends
  MaxToClient     \* bound: messages the server sends

ASSUME FramingAssumption ==
  /\ MAX_LENGTH \in 1 .. 2^15 - 1
  /\ \A h \in ClientHeaders : h.id \in -(2^15) .. 2^15 - 1 /\ h.len \in -(2^15) .. 2^15 - 1
  /\ MaxToServer \in 0 .. 255 /\ MaxToClient \in 0 .. 255

End == {"server", "client"}
Peer(e) == IF e = "server" THEN "client" ELSE "server"

MSG_HELLO_WORLD == 1001
HEAD_TOTAL_LEN == 4

Byte == 0 .. 255
Short == -(2^15) .. 2^15 - 1
Message == [id : Short, len : Short, body : Seq(Byte)]

VARIABLES
  sent,    \* the messages that were sent to each end
  pipe,    \* the bytes under way to it
  reader,  \* which read it is in, or why it has ended
  buf,     \* the bytes that read has got
  header,  \* the header that came before the body that is being read
  posted,  \* the messages read: posted to LogicSystem, or returned
  open,    \* is the socket of this end open?
  link     \* does the connection hold?

vars == <<sent, pipe, reader, buf, header, posted, open, link>>

NoHeader == [id |-> 0, len |-> 0]

TypeOK ==
  /\ sent \in [End -> Seq(Message)] /\ posted \in [End -> Seq(Message)]
  /\ pipe \in [End -> Seq(Byte)] /\ buf \in [End -> Seq(Byte)]
  /\ reader \in [End -> {"head", "body", "refused", "lost"}]
  /\ header \in [End -> [id : Short, len : Short]]
  /\ open \in [End -> BOOLEAN] /\ link \in BOOLEAN

Init ==
  /\ sent = [e \in End |-> <<>>] /\ posted = [e \in End |-> <<>>]
  /\ pipe = [e \in End |-> <<>>] /\ buf = [e \in End |-> <<>>]
  /\ reader = [e \in End |-> "head"]
  /\ header = [e \in End |-> NoHeader]
  /\ open = [e \in End |-> TRUE] /\ link = TRUE

Reading(e) == reader[e] \in {"head", "body"}

-----------------------------------------------------------------------------
(* Writing.                                                                *)

\* Faulty variant: the upper byte keeps the sign.
NetSigned(s) == <<s \div 256, s % 256>>

(* host_to_network_short, and memcpy: the bytes of a short on the wire.    *)
Net(s) == <<(s % 2^16) \div 256, s % 256>>

(* memcpy, and network_to_host_short: the short at a place in a header.    *)
Host(bytes, i) ==
  LET n == bytes[i] * 256 + bytes[i + 1] IN IF n < 2^15 THEN n ELSE n - 2^16

(* The constructor of SendNode, and SendMsg.                               *)
FrameOf(m) == Net(m.id) \o Net(m.len) \o m.body

Send(e, id, len) ==
  LET n == Len(sent[e]) + 1
      m == [id |-> id, len |-> len, body |-> [i \in 1 .. len |-> n]]
  IN
  /\ open[Peer(e)]
  /\ sent' = [sent EXCEPT ![e] = Append(@, m)]
  /\ pipe' = IF link /\ open[e] /\ Reading(e) THEN [pipe EXCEPT ![e] = @ \o FrameOf(m)] ELSE pipe
  /\ UNCHANGED <<reader, buf, header, posted, open, link>>

(* CSession::Send lets only these lengths pass.  The client does not look  *)
(* at the id.                                                              *)
ServerSends ==
  /\ Len(sent["client"]) < MaxToClient
  /\ \E len \in 1 .. MAX_LENGTH : Send("client", 2004, len)

(* The test client sends bodies of 2 to MAX_LENGTH bytes; others may send  *)
(* any header.  What a header without a body announces does not follow.    *)
ClientSends ==
  /\ Len(sent["server"]) < MaxToServer
  /\ \E h \in ClientHeaders : Send("server", h.id, h.len)

-----------------------------------------------------------------------------
(* Reading.                                                                *)

Wanted(e) == IF reader[e] = "head" THEN HEAD_TOTAL_LEN ELSE header[e].len

(* A piece of the stream arrives; async_read waits for all it wants.       *)
Receive(e) ==
  /\ Reading(e) /\ open[e]
  /\ \E n \in 1 .. Len(pipe[e]) :
       /\ Len(buf[e]) + n <= Wanted(e)
       /\ buf' = [buf EXCEPT ![e] = @ \o SubSeq(pipe[e], 1, n)]
       /\ pipe' = [pipe EXCEPT ![e] = SubSeq(@, n + 1, Len(@))]
  /\ UNCHANGED <<sent, reader, header, posted, open, link>>

\* Faulty variant: the session is left with an open socket.
StopReadingKeepsSocket(e, how) ==
  /\ reader' = [reader EXCEPT ![e] = how]
  /\ pipe' = [pipe EXCEPT ![e] = <<>>]
  /\ buf' = [buf EXCEPT ![e] = <<>>]
  /\ UNCHANGED open

(* The coroutine closes the connection; the client's receive thread leaves *)
(* the socket to the main thread.  Nobody reads what is left.              *)
StopReading(e, how) ==
  /\ reader' = [reader EXCEPT ![e] = how]
  /\ pipe' = [pipe EXCEPT ![e] = <<>>]
  /\ buf' = [buf EXCEPT ![e] = <<>>]
  /\ open' = [open EXCEPT !["server"] = @ /\ e # "server"]

Refuse(e) == StopReading(e, "refused") /\ UNCHANGED <<header, posted>>

(* The server compares the length with its upper limit only; a length      *)
(* below -1 is not one that a vector can have.                             *)
Accepts(e, h) ==
  /\ h.len <= MAX_LENGTH
  /\ IF e = "server" THEN h.id \in MSG_HELLO_WORLD .. 9999 /\ h.len >= -1
     ELSE h.len > 0

HeadDone(e) ==
  LET h == [id |-> Host(buf[e], 1), len |-> Host(buf[e], 3)] IN
  /\ reader[e] = "head" /\ Len(buf[e]) = Wanted(e)
  /\ IF Accepts(e, h)
     THEN /\ reader' = [reader EXCEPT ![e] = "body"]
          /\ header' = [header EXCEPT ![e] = h]
          /\ buf' = [buf EXCEPT ![e] = <<>>]
          /\ UNCHANGED <<pipe, posted, open>>
     ELSE Refuse(e)
  /\ UNCHANGED <<sent, link>>

Post(e) ==
  /\ posted' = [posted EXCEPT ![e] =
       Append(@, [id |-> header[e].id, len |-> header[e].len, body |-> buf[e]])]
  /\ buf' = [buf EXCEPT ![e] = <<>>]
  /\ reader' = [reader EXCEPT ![e] = "head"]
  /\ UNCHANGED <<pipe, header, open>>

\* Faulty variant: whatever has arrived is taken for the body.
BodyDoneWithSome(e) ==
  /\ reader[e] = "body"
  /\ IF header[e].len = 0 THEN Refuse(e) ELSE buf[e] # <<>> /\ Post(e)
  /\ UNCHANGED <<sent, link>>

\* Faulty variant: a read of nothing counts as a body.
BodyDoneWithNone(e) ==
  /\ reader[e] = "body" /\ Len(buf[e]) = Wanted(e)
  /\ Post(e)
  /\ UNCHANGED <<sent, link>>

(* A read of no bytes is taken for the end of the stream.                  *)
BodyDone(e) ==
  /\ reader[e] = "body" /\ Len(buf[e]) = Wanted(e)
  /\ IF buf[e] = <<>> THEN Refuse(e) ELSE Post(e)
  /\ UNCHANGED <<sent, link>>

(* The buffer for a length of -1 is an empty one, and is read into without *)
(* a limit: the read fails as soon as there is something to read.          *)
BodyFails(e) ==
  /\ reader[e] = "body" /\ header[e].len = -1 /\ pipe[e] # <<>>
  /\ Refuse(e)
  /\ UNCHANGED <<sent, link>>

\* Faulty variant: only a stream that ends between two frames is noticed.
StreamEndsBetween(e) ==
  /\ reader[e] = "head" /\ buf[e] = <<>>
  /\ \/ ~link \/ ~open[e]
     \/ pipe[e] = <<>> /\ ~open[Peer(e)]
  /\ StopReading(e, "lost")
  /\ UNCHANGED <<sent, header, posted, link>>

(* The read fails: this end was closed; or the other one was, and all has  *)
(* been read; or the connection broke, and the rest is lost.               *)
StreamEnds(e) ==
  /\ Reading(e) /\ Len(buf[e]) # Wanted(e)
  /\ \/ ~link \/ ~open[e]
     \/ pipe[e] = <<>> /\ ~open[Peer(e)]
  /\ StopReading(e, "lost")
  /\ UNCHANGED <<sent, header, posted, link>>

-----------------------------------------------------------------------------
(* The connection.                                                         *)

(* Somebody else closes the socket of this end.                            *)
CloseSocket(e) ==
  /\ open[e]
  /\ open' = [open EXCEPT ![e] = FALSE]
  /\ pipe' = [pipe EXCEPT ![e] = <<>>]
  /\ UNCHANGED <<sent, reader, buf, header, posted, link>>

Break ==
  /\ link
  /\ link' = FALSE
  /\ UNCHANGED <<sent, pipe, reader, buf, header, posted, open>>

ReadStep(e) == Receive(e) \/ HeadDone(e) \/ BodyDone(e) \/ BodyFails(e) \/ StreamEnds(e)

Next ==
  \/ ServerSends \/ ClientSends \/ Break
  \/ \E e \in End : ReadStep(e) \/ CloseSocket(e)

Spec == Init /\ [][Next]_vars

(* What is under way arrives, and what has arrived is read.                *)
FairSpec == Spec /\ \A e \in End : WF_vars(ReadStep(e))

-----------------------------------------------------------------------------
(* What CSession::Start and RecvOneMessage take for a message that may be: *)
(* a body within the limit and, to the server, an id in the range of       *)
(* MSG_IDS, whether or not LogicSystem has a handler for it.               *)
Legal(e, m) ==
  /\ m.len \in 1 .. MAX_LENGTH
  /\ e = "server" => m.id \in MSG_HELLO_WORLD .. 9999

(* The ids that LogicSystem::RegisterCallBacks has handlers for.           *)
Registered == {MSG_HELLO_WORLD, 2001, 2003, 2005, 2007, 2010, 2013}

(* However the stream is cut into pieces and wherever it ends, the         *)
(* messages read are the ones sent: whole, in order, none left out.        *)
PostedIsSent == \A e \in End : IsPrefix(posted[e], sent[e])

(* The server refuses nothing but ids outside the range and lengths        *)
(* outside 1 to MAX_LENGTH, and posts nothing of these, though it compares *)
(* a length with its upper limit only; the client refuses nothing that the *)
(* server sends.                                                           *)
RefusedIffIllegal ==
  \A e \in End :
    /\ \A i \in DOMAIN posted[e] : Legal(e, posted[e][i])
    /\ reader[e] = "refused" =>
         Len(posted[e]) < Len(sent[e]) /\ ~Legal(e, sent[e][Len(posted[e]) + 1])

(* A message that may be is read, or the reader gets to know that the      *)
(* connection is lost, also when it ends in the middle of a frame.         *)
LegalIsRead ==
  \A e \in End, k \in 0 .. MaxToServer + MaxToClient :
    Len(posted[e]) = k /\ Len(sent[e]) > k /\ Legal(e, sent[e][k + 1])
      ~> Len(posted[e]) > k \/ ~Reading(e)

(* The client whose message was refused gets to know it.                   *)
RefusalIsSeen == reader["server"] = "refused" ~> ~Reading("client")

-----------------------------------------------------------------------------
(* What const.h says ("unregistered msg_id within this range is rejected   *)
(* by CSession coroutine") and CSession::Start does not do: it posts such  *)
(* a message, and DealMsg drops it without an answer.                      *)
UnregisteredIsRefused ==
  \A i \in DOMAIN posted["server"] : posted["server"][i].id \in Registered
=============================================================================
