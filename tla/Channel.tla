------------------------------ MODULE Channel ------------------------------
(***************************************************************************)
(* What a user of spnet::connection counts on, in one direction: whatever  *)
(* is delivered is what was sent, in the order of the calls of Send, once  *)
(* each.  A channel may stop delivering (the connection died), it never    *)
(* skips, repeats, reorders or garbles.                                    *)
(***************************************************************************)
EXTENDS Integers, Sequences

CONSTANT Messages

VARIABLES sent,      \* messages given to Send
          received   \* messages handed to the owner's incoming queue

ChannelInit == sent = <<>> /\ received = <<>>

ChannelSend == /\ \E m \in Messages : sent' = Append(sent, m)
               /\ UNCHANGED received

ChannelDeliver == /\ Len(received) < Len(sent)
                  /\ received' = Append(received, sent[Len(received) + 1])
                  /\ UNCHANGED sent

ChannelSpec == ChannelInit /\ [][ChannelSend \/ ChannelDeliver]_<<sent, received>>
=============================================================================
