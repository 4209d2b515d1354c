-------------------------- MODULE ReliableChannel --------------------------
(***************************************************************************)
(* A one-way message channel: what an RC connection offers.  Messages are  *)
(* delivered in the order they were sent, each once and unchanged, and the *)
(* sender is told of a delivery only after it.                             *)
(***************************************************************************)
EXTENDS Naturals, Sequences

VARIABLES
  sent,       \* messages handed to the channel
  delivered,  \* messages handed to the receiver
  confirmed   \* how many of them the sender was told of

Init == sent = <<>> /\ delivered = <<>> /\ confirmed = 0

Send == /\ Len(sent') = Len(sent) + 1
        /\ SubSeq(sent', 1, Len(sent)) = sent
        /\ UNCHANGED <<delivered, confirmed>>

Deliver == /\ Len(delivered) < Len(sent)
           /\ delivered' = Append(delivered, sent[Len(delivered) + 1])
           /\ UNCHANGED <<sent, confirmed>>

Confirm == /\ confirmed < Len(delivered)
           /\ confirmed' = confirmed + 1
           /\ UNCHANGED <<sent, delivered>>

Next == Send \/ Deliver \/ Confirm

Spec == Init /\ [][Next]_<<sent, delivered, confirmed>>
=============================================================================
