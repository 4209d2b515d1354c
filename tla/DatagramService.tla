-------------------------- MODULE DatagramService --------------------------
(***************************************************************************)
(* What a QP promises the application that posts receive WRs: a message    *)
(* that arrives fills the WR posted first, with nothing but the bytes of   *)
(* one message sent to it.  A message may be lost, overtaken or, over UD,  *)
(* come twice.  That nothing is lost on an RC QP is ReliableChannel.       *)
(***************************************************************************)
EXTENDS Sequences

VARIABLES
  messages,    \* the contents of the messages sent to the QP
  waiting,     \* receive WRs posted and not completed, in order
  completed    \* receive completions: [wr, data]

Send(m) == messages' = messages \cup {m} /\ UNCHANGED <<waiting, completed>>

Post(wr) == waiting' = Append(waiting, wr) /\ UNCHANGED <<messages, completed>>

Complete(m) ==
  /\ waiting # <<>> /\ m \in messages
  /\ completed' = Append(completed, [wr |-> Head(waiting), data |-> m])
  /\ waiting' = Tail(waiting)
  /\ UNCHANGED messages

ServiceInit == messages = {} /\ waiting = <<>> /\ completed = <<>>

\* A message and a WR are whatever the implementation says they are.
ServiceNext ==
  \/ \E m \in messages' : Send(m)
  \/ \E i \in DOMAIN waiting' : Post(waiting'[i])
  \/ \E m \in messages : Complete(m)

ServiceSpec == ServiceInit /\ [][ServiceNext]_<<messages, waiting, completed>>
=============================================================================
