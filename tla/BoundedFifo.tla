----------------------------- MODULE BoundedFifo -----------------------------
(***************************************************************************)
(* What LogicSystem promises to the sessions that post to it: a queue of   *)
(* bounded length from which one server takes the messages in the order    *)
(* they were accepted, one at a time, none lost and none twice, and        *)
(* without ever sleeping while there is something to take.                 *)
(***************************************************************************)
EXTENDS Naturals, Sequences

CONSTANTS Msg, None, Capacity

VARIABLES
  buf,   \* the accepted messages that wait
  cur    \* the message being served

fifoVars == <<buf, cur>>

FifoInit == buf = <<>> /\ cur = None

(* A message is accepted while there is room.                              *)
Accept(m) ==
  /\ Len(buf) < Capacity
  /\ buf' = Append(buf, m)
  /\ UNCHANGED cur

Take ==
  /\ cur = None /\ buf # <<>>
  /\ cur' = Head(buf)
  /\ buf' = Tail(buf)

Finish ==
  /\ cur # None
  /\ cur' = None
  /\ UNCHANGED buf

FifoNext == (\E m \in Msg : Accept(m)) \/ Take \/ Finish

FifoSpec == FifoInit /\ [][FifoNext]_fifoVars /\ WF_fifoVars(Take) /\ WF_fifoVars(Finish)
=============================================================================
