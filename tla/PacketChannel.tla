---------------------------- MODULE PacketChannel ----------------------------
(***************************************************************************)
(* What a PacketQueue promises to the reader and the decoder, with no      *)
(* locks, counters or condition variables: a first-in first-out channel    *)
(* that may lose its whole content to a flush, but no part of it.          *)
(*                                                                         *)
(* One user at a time is at the channel, and nothing is dropped while one  *)
(* is.  Nobody comes to a closed channel, but the user who was there when  *)
(* it was closed ends what it began: after the close at most one packet is *)
(* sent or received, and then none.                                        *)
(***************************************************************************)
EXTENDS Naturals, Sequences

CONSTANTS
  Packet,                   \* what can be sent
  NoPacket                  \* received before the first packet was

VARIABLES
  channel,                  \* packets sent and neither received nor dropped
  received,                 \* the packet received last, or none yet
  closed,                   \* nobody comes to the channel any more
  user                      \* who is at the channel

vars == <<channel, received, closed, user>>

Init ==
  /\ channel = <<>> /\ received = NoPacket
  /\ closed = FALSE /\ user = "nobody"

Come(u) ==
  /\ user = "nobody"
  /\ ~closed
  /\ user' = u
  /\ UNCHANGED <<channel, received, closed>>

Send(pkt) ==
  /\ user = "sender"
  /\ channel' = Append(channel, pkt)
  /\ user' = "nobody"
  /\ UNCHANGED <<received, closed>>

Receive ==
  /\ user = "receiver"
  /\ channel # <<>>
  /\ received' = Head(channel)
  /\ channel' = Tail(channel)
  /\ user' = "nobody"
  /\ UNCHANGED closed

FindEmpty ==
  /\ user = "receiver"
  /\ channel = <<>>
  /\ user' = "nobody"
  /\ UNCHANGED <<channel, received, closed>>

Drop ==
  /\ user = "nobody"
  /\ channel' = <<>>
  /\ UNCHANGED <<received, closed, user>>

Close ==
  /\ closed' = TRUE
  /\ UNCHANGED <<channel, received, user>>

Next ==
  \/ \E u \in {"sender", "receiver"} : Come(u)
  \/ \E pkt \in Packet : Send(pkt)
  \/ Receive \/ FindEmpty
  \/ Drop
  \/ Close

Spec == Init /\ [][Next]_vars
=============================================================================
