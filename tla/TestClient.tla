----------------------------- MODULE TestClient -----------------------------
(***************************************************************************)
(* The test client: its main thread sends one request per command and      *)
(* waits up to five seconds for the response (WaitForResponse), a receive  *)
(* thread reads what the server sends (RecvThreadFunc) and puts responses  *)
(* into g_recv_queue, and the user reconnects when the connection is lost. *)
(*                                                                         *)
(* Requests are numbered, and a response carries the number of its request *)
(* and of the connection it came on.  The program has neither: it matches  *)
(* responses by their kind only.  g_recv_queue is kept as a set, since the *)
(* numbers give the order in which its elements came.                      *)
(*                                                                         *)
(* g_recv_mutex is held from one step to the next only by the main thread, *)
(* between its look at the queue and its wait (main = "park").             *)
(***************************************************************************)
EXTENDS Naturals, Sequences

CONSTANTS
  Command,      \* the kinds of requests the user makes
  None,         \* no request, no response
  MaxRequests,  \* bound: requests sent
  MaxConns,     \* bound: connections made
  MaxWire,      \* bound: frames under way to the client
  MayDrop,      \* may the server leave a request unanswered?
  Patient       \* does a timeout outlast everything that is under way?

ASSUME ClientAssumption ==
  /\ Command \subseteq {"register", "login", "friends", "add", "chat", "offline"}
  /\ MaxRequests \in Nat /\ MaxConns \in Nat /\ MaxWire \in Nat
  /\ MayDrop \in BOOLEAN /\ Patient \in BOOLEAN
  /\ None \notin [kind : Command \cup {"login", "shown"}, id : Nat, on : Nat, ok : BOOLEAN]

Kind == Command \cup {"login"}

(* "shown" frames are printed by the receive thread: pushes, and messages  *)
(* in a MSG_OFFLINE_MSG_RSP, whoever asked for them.                       *)
Frame   == [kind : Kind \cup {"shown"}, id : Nat, on : Nat, ok : BOOLEAN]
Request == [kind : Kind, id : Nat]

VARIABLES
  main,       \* where the main thread is
  cur,        \* the request WaitForResponse waits for
  rsp,        \* what it returned: a frame, or None for the null value
  relogin,    \* is it called by DoLogin?
  cached,     \* is there a g_last_username?
  connected,  \* g_connected
  recv,       \* where the receive thread is; "none" when it is joined
  hand,       \* the response it is about to queue
  stopRecv,   \* g_stop_recv
  queue,      \* g_recv_queue
  sock,       \* the socket: open, broken by the other side, closed by this one
  conn,       \* the number of the connection
  up,         \* requests under way to the server
  wire,       \* frames under way to the client
  sent,       \* number of requests sent
  late        \* the kinds of which a request on this connection was given up

mainVars == <<main, cur, rsp, relogin, cached>>
recvVars == <<recv, hand>>
netVars  == <<sock, conn, up, wire>>
histVars == <<sent, late>>
vars == <<mainVars, recvVars, netVars, histVars, connected, stopRecv, queue>>

TypeOK ==
  /\ main \in {"start", "top", "prompt", "look", "park", "asleep", "print",
               "lost", "join", "ask", "relogin", "spawn", "quit", "leave",
               "exited", "aborted"}
  /\ cur \in Request \cup {None}
  /\ rsp \in Frame \cup {None}
  /\ relogin \in BOOLEAN /\ cached \in BOOLEAN /\ connected \in BOOLEAN
  /\ recv \in {"none", "loop", "read", "push", "notify", "ended"}
  /\ hand \in Frame \cup {None}
  /\ stopRecv \in BOOLEAN
  /\ queue \in SUBSET Frame
  /\ sock \in {"open", "broken", "closed"}
  /\ conn \in Nat
  /\ up \in Seq(Request)
  /\ wire \in Seq(Frame)
  /\ sent \in Nat
  /\ late \in SUBSET Kind

Init ==
  /\ main = "start" /\ cur = None /\ rsp = None
  /\ relogin = FALSE /\ cached = FALSE /\ connected = FALSE
  /\ recv = "none" /\ hand = None /\ stopRecv = FALSE
  /\ queue = {}
  /\ sock = "closed" /\ conn = 0 /\ up = <<>> /\ wire = <<>>
  /\ sent = 0 /\ late = {}

-----------------------------------------------------------------------------
(* Starting, and the loop of main.                                         *)

(* A new socket: nothing is under way on it.                               *)
NewConnection ==
  /\ conn < MaxConns
  /\ conn' = conn + 1
  /\ sock' = "open" /\ up' = <<>> /\ wire' = <<>>
  /\ connected' = TRUE
  /\ late' = {}

(* TryConnect at the start; main returns 1 when it fails.                  *)
FirstConnect ==
  /\ main = "start"
  /\ \/ NewConnection /\ main' = "spawn"
     \/ main' = "exited" /\ UNCHANGED <<netVars, connected, late>>
  /\ UNCHANGED <<cur, rsp, relogin, cached, recvVars, stopRecv, queue, sent>>

(* recv_thread = thread(...).  Assigning to a thread that was not joined   *)
(* ends the program.                                                       *)
SpawnReceiver ==
  /\ main = "spawn"
  /\ IF recv = "none"
     THEN main' = "top" /\ recv' = "loop"
     ELSE main' = "aborted" /\ UNCHANGED recv
  /\ UNCHANGED <<cur, rsp, relogin, cached, hand, stopRecv, queue, netVars, histVars, connected>>

(* while (true) { if (!g_connected) ...                                    *)
LoopTop ==
  /\ main = "top"
  /\ main' = IF connected THEN "prompt" ELSE "lost"
  /\ UNCHANGED <<cur, rsp, relogin, cached, recvVars, netVars, histVars, connected, stopRecv, queue>>

(* SendMsg: writing to a connection that has broken may still succeed, to  *)
(* no effect; when it fails the connection is given up.                    *)
SendMsg(kind, wait, failed) ==
  /\ sent < MaxRequests
  /\ \/ /\ sent' = sent + 1
        /\ cur' = [kind |-> kind, id |-> sent']
        /\ up' = IF sock = "open" THEN Append(up, cur') ELSE up
        /\ main' = wait
        /\ UNCHANGED connected
     \/ /\ sock = "broken"
        /\ connected' = FALSE
        /\ main' = failed
        /\ UNCHANGED <<sent, cur, up>>

(* A command that asks the server for something.                           *)
Ask(kind) ==
  /\ main = "prompt"
  /\ SendMsg(kind, "look", "top")
  /\ relogin' = FALSE
  /\ UNCHANGED <<rsp, cached, recvVars, stopRecv, queue, sock, conn, wire, late>>

(* /reconnect: give the connection up; the user is asked once more.        *)
ReconnectCommand ==
  /\ main = "prompt"
  /\ connected' = FALSE
  /\ main' = "top"
  /\ UNCHANGED <<cur, rsp, relogin, cached, recvVars, netVars, histVars, stopRecv, queue>>

(* /quit, or the end of the input, at either prompt; at the second one any *)
(* line but /reconnect.                                                    *)
QuitCommand ==
  /\ main \in {"prompt", "ask"}
  /\ main' = "quit"
  /\ UNCHANGED <<cur, rsp, relogin, cached, recvVars, netVars, histVars, connected, stopRecv, queue>>

-----------------------------------------------------------------------------
(* WaitForResponse.                                                        *)

Newest(f, frames) == \A g \in frames : g.id <= f.id

(* Under g_recv_mutex: take every response of the kind out of the queue;   *)
(* the last one is returned.  Without one, a lost connection ends the wait.*)
Look ==
  LET matching == {f \in queue : f.kind = cur.kind} IN
  /\ main = "look"
  /\ queue' = queue \ matching
  /\ \/ \E f \in matching : Newest(f, matching) /\ rsp' = f /\ main' = "print"
     \/ /\ matching = {} /\ ~connected
        /\ rsp' = None /\ main' = "print"
     \/ /\ matching = {} /\ connected
        /\ main' = "park" /\ UNCHANGED rsp
  /\ UNCHANGED <<cur, relogin, cached, recvVars, netVars, histVars, connected, stopRecv>>

(* g_recv_cv.wait_for gives the mutex back and sleeps.                     *)
Park ==
  /\ main = "park"
  /\ main' = "asleep"
  /\ UNCHANGED <<cur, rsp, relogin, cached, recvVars, netVars, histVars, connected, stopRecv, queue>>

SpuriousWake ==
  /\ main = "asleep"
  /\ main' = "look"
  /\ UNCHANGED <<cur, rsp, relogin, cached, recvVars, netVars, histVars, connected, stopRecv, queue>>

(* Is something about to happen that would wake the main thread?           *)
UnderWay == up # <<>> \/ (recv \in {"loop", "read"} /\ wire # <<>>) \/ recv \in {"push", "notify"}

(* Five seconds are over: the queue is not looked at again.                *)
Timeout ==
  /\ main = "asleep"
  /\ Patient => ~UnderWay
  /\ rsp' = None /\ main' = "print"
  /\ UNCHANGED <<cur, relogin, cached, recvVars, netVars, histVars, connected, stopRecv, queue>>

Own == rsp # None /\ rsp.id = cur.id

(* What the caller does with the response.  The null value of a wait that  *)
(* came to nothing has no status to read: value() throws, and the thread   *)
(* object is destroyed without having been joined.                         *)
UseResponse ==
  /\ main = "print"
  /\ main' = CASE relogin -> "spawn"
               [] ~relogin /\ cur.kind = "login" /\ rsp = None -> "aborted"
               [] OTHER -> "top"
  /\ cached' = (cached \/ (cur.kind = "login" /\ rsp # None /\ rsp.ok))
  /\ late' = IF Own THEN late \ {cur.kind} ELSE late \cup {cur.kind}
  /\ cur' = None /\ rsp' = None
  /\ UNCHANGED <<relogin, recvVars, netVars, sent, connected, stopRecv, queue>>

-----------------------------------------------------------------------------
(* Losing the connection, reconnecting, leaving.                           *)

\* Faulty variant: the socket is left open.
StopReceiverKeepsSocket(joining) ==
  /\ stopRecv' = TRUE
  /\ main' = joining
  /\ UNCHANGED <<cur, rsp, relogin, cached, recvVars, netVars, histVars, queue>>

(* g_stop_recv, notify and close: the receive thread is told to end.       *)
StopReceiver(joining) ==
  /\ stopRecv' = TRUE
  /\ sock' = "closed"
  /\ main' = joining
  /\ UNCHANGED <<cur, rsp, relogin, cached, recvVars, conn, up, wire, histVars, queue>>

LoseConnection == main = "lost" /\ StopReceiver("join") /\ UNCHANGED connected

(* After the loop.                                                         *)
Leave == main = "quit" /\ StopReceiver("leave") /\ connected' = FALSE

\* Faulty variant: the thread is left to itself.
JoinSkipped ==
  /\ main \in {"join", "leave"}
  /\ main' = IF main = "join" THEN "ask" ELSE "exited"
  /\ UNCHANGED <<cur, rsp, relogin, cached, recvVars, netVars, histVars, connected, stopRecv, queue>>

(* recv_thread.join(), if it is joinable.                                  *)
Join ==
  /\ main \in {"join", "leave"}
  /\ recv \in {"none", "ended"}
  /\ recv' = "none"
  /\ main' = IF main = "join" THEN "ask" ELSE "exited"
  /\ UNCHANGED <<cur, rsp, relogin, cached, hand, netVars, histVars, connected, stopRecv, queue>>

\* Faulty variant: old responses stay in the queue.
ReconnectKeepsQueue ==
  /\ main = "ask"
  /\ stopRecv' = FALSE
  /\ \/ NewConnection /\ main' = "relogin"
     \/ main' = "exited" /\ connected' = FALSE /\ UNCHANGED <<netVars, late>>
  /\ UNCHANGED <<cur, rsp, relogin, cached, recvVars, sent, queue>>

(* /reconnect at the second prompt: clear the queue and TryConnect; main   *)
(* returns 1 when it fails.                                                *)
Reconnect ==
  /\ main = "ask"
  /\ stopRecv' = FALSE
  /\ queue' = {}
  /\ \/ NewConnection /\ main' = "relogin"
     \/ main' = "exited" /\ connected' = FALSE /\ UNCHANGED <<netVars, late>>
  /\ UNCHANGED <<cur, rsp, relogin, cached, recvVars, sent>>

(* DoLogin, before the receive thread is started.                          *)
DoLogin ==
  /\ main = "relogin"
  /\ \/ /\ ~cached
        /\ main' = "spawn"
        /\ UNCHANGED <<cur, relogin, up, sent, connected>>
     \/ /\ cached
        /\ SendMsg("login", "look", "spawn")
        /\ relogin' = TRUE
  /\ UNCHANGED <<rsp, cached, recvVars, stopRecv, queue, sock, conn, wire, late>>

-----------------------------------------------------------------------------
(* RecvThreadFunc.                                                         *)

RecvLoop ==
  /\ recv = "loop"
  /\ recv' = IF stopRecv THEN "ended" ELSE "read"
  /\ UNCHANGED <<mainVars, hand, netVars, histVars, connected, stopRecv, queue>>

\* Faulty variant: a frame that is shown goes on to be queued.
RecvFrameFallsThrough ==
  /\ recv = "read" /\ sock # "closed" /\ wire # <<>>
  /\ wire' = Tail(wire)
  /\ recv' = "push"
  /\ hand' = IF Head(wire).kind = "shown" THEN None ELSE Head(wire)
  /\ UNCHANGED <<mainVars, sock, conn, up, histVars, connected, stopRecv, queue>>

(* A frame has been read; the ones to be shown are printed.                *)
RecvFrame ==
  /\ recv = "read" /\ sock # "closed" /\ wire # <<>>
  /\ wire' = Tail(wire)
  /\ IF Head(wire).kind = "shown"
     THEN recv' = "loop" /\ UNCHANGED hand
     ELSE recv' = "push" /\ hand' = Head(wire)
  /\ UNCHANGED <<mainVars, sock, conn, up, histVars, connected, stopRecv, queue>>

Woken == IF main = "asleep" THEN "look" ELSE main

(* Under g_recv_mutex: queue the response and notify.                      *)
RecvPush ==
  /\ recv = "push" /\ main # "park"
  /\ queue' = queue \cup {hand}
  /\ hand' = None /\ recv' = "loop"
  /\ main' = Woken
  /\ UNCHANGED <<cur, rsp, relogin, cached, netVars, histVars, connected, stopRecv>>

\* Faulty variant: g_connected is left as it was.
RecvFailSilent ==
  /\ recv = "read" /\ sock # "open"
  /\ recv' = "notify"
  /\ UNCHANGED <<mainVars, hand, netVars, histVars, connected, stopRecv, queue>>

(* The read failed: g_connected is cleared without the mutex.              *)
RecvFail ==
  /\ recv = "read" /\ sock # "open"
  /\ connected' = FALSE
  /\ recv' = "notify"
  /\ UNCHANGED <<mainVars, hand, netVars, histVars, stopRecv, queue>>

(* notify_all, and the thread ends.                                        *)
RecvNotify ==
  /\ recv = "notify"
  /\ main' = Woken
  /\ recv' = "ended"
  /\ UNCHANGED <<cur, rsp, relogin, cached, hand, netVars, histVars, connected, stopRecv, queue>>

-----------------------------------------------------------------------------
(* The server, as far as one client sees it.                               *)

Shown == [kind |-> "shown", id |-> 0, on |-> conn, ok |-> TRUE]
Answer(r, ok) == [kind |-> r.kind, id |-> r.id, on |-> conn, ok |-> ok]

(* Requests are handled in order.  One may be dropped by a full queue;     *)
(* stored messages come before the response of a login; those that         *)
(* /offline asks for are the response.                                     *)
Serve ==
  LET r == Head(up) IN
  /\ sock = "open" /\ up # <<>> /\ Len(wire) + 2 <= MaxWire
  /\ up' = Tail(up)
  /\ \/ MayDrop /\ wire' = wire
     \/ \E ok \in BOOLEAN : wire' = Append(wire, Answer(r, ok))
     \/ r.kind = "offline" /\ wire' = Append(wire, Shown)
     \/ r.kind = "login" /\ wire' = wire \o <<Shown, Answer(r, TRUE)>>
  /\ UNCHANGED <<mainVars, recvVars, sock, conn, histVars, connected, stopRecv, queue>>

(* A chat message or friend request of another user is pushed.             *)
Push ==
  /\ sock = "open" /\ Len(wire) + 2 <= MaxWire
  /\ wire' = Append(wire, Shown)
  /\ UNCHANGED <<mainVars, recvVars, sock, conn, up, histVars, connected, stopRecv, queue>>

(* The server closes the connection, crashes, or the network breaks.       *)
Break ==
  /\ sock = "open"
  /\ sock' = "broken" /\ up' = <<>>
  /\ UNCHANGED <<mainVars, recvVars, conn, wire, histVars, connected, stopRecv, queue>>

-----------------------------------------------------------------------------
Alive == main \notin {"exited", "aborted"}

MainThread ==
  \/ SpawnReceiver \/ LoopTop \/ Look \/ Park \/ UseResponse
  \/ LoseConnection \/ Leave \/ Join \/ DoLogin

User == FirstConnect \/ (\E k \in Command : Ask(k)) \/ ReconnectCommand \/ QuitCommand \/ Reconnect

RecvThread == RecvLoop \/ RecvFrame \/ RecvPush \/ RecvFail \/ RecvNotify

Next ==
  /\ Alive
  /\ MainThread \/ User \/ SpuriousWake \/ Timeout \/ RecvThread \/ Serve \/ Push \/ Break

Spec == Init /\ [][Next]_vars

(***************************************************************************)
(* Both threads run, and a read of a socket that was closed or has broken  *)
(* returns.  The user types nothing he does not want to, and the server    *)
(* need not answer.  The wait starts again after every wake-up, so that it *)
(* must be assumed that not every five seconds have a spurious one:        *)
(* strong fairness of the timeout.                                         *)
(***************************************************************************)
FairSpec ==
  /\ Spec
  /\ WF_vars(Alive /\ MainThread) /\ WF_vars(Alive /\ RecvThread)
  /\ SF_vars(Timeout)

-----------------------------------------------------------------------------
(* Safety.                                                                 *)

(* A command gets a response that was sent on this connection, and to its  *)
(* own request unless a request of the same kind was given up on this      *)
(* connection before and none has been answered since: responses are       *)
(* matched by their kind only, and those that come too late stay in the    *)
(* queue, but not across a reconnect.                                      *)
OwnAnswerUnlessLate ==
  main = "print" /\ rsp # None => rsp.on = conn /\ (Own \/ cur.kind \in late)

(* g_connected tells the truth about the receive thread and the socket:    *)
(* who is connected and waits for the response to a command has a thread   *)
(* that will queue it, and the thread of an earlier connection does not    *)
(* make one that works look lost.                                          *)
ConnectedIsTruthful ==
  /\ main \in {"prompt", "look", "park", "asleep"} /\ connected /\ ~relogin
       => recv \in {"loop", "read", "push"}
  /\ main \in {"prompt", "look", "park", "asleep", "print"} /\ sock = "open"
       => connected

(* The program is aborted by nothing but a login that got no response: no  *)
(* thread object is overwritten while its thread may be running.           *)
AbortsOnLoginOnly == main = "aborted" => recv # "none" /\ ~relogin /\ "login" \in late

-----------------------------------------------------------------------------
(* Liveness.                                                               *)

(* The main thread gets back to one of its prompts, or ends: the wait for  *)
(* a response returns, also when the notification of a lost connection     *)
(* comes between its look and its sleep, and so does the join of the       *)
(* receive thread, whose read the closing of the socket ends.              *)
PromptReturns ==
  main \in {"look", "join", "leave"} ~> main \in {"prompt", "ask", "exited", "aborted"}

-----------------------------------------------------------------------------
(* What the documents say and the code does not do.                        *)

(* "/reconnect -> auto reconnects and restores login state": the login of  *)
(* DoLogin gets its response as long as the connection holds.              *)
ReloginIsAnswered == main = "print" /\ relogin /\ rsp = None => sock # "open"

(* "Bob /offline -> 0 messages": the command gets a response.              *)
OfflineIsAnswered ==
  main = "print" /\ cur.kind = "offline" /\ rsp = None => sock # "open"

(* "sync response matching": a command gets the response to its request.   *)
AnswerIsOwn == main = "print" /\ rsp # None => Own

(* A command that got no response leads back to the prompt.                *)
NeverAborts == main # "aborted"
=============================================================================
