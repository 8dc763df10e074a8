--------------------------- MODULE PacketChannel ---------------------------
(***************************************************************************)
(* What the framing over TCP promises: a channel that delivers the packets *)
(* one by one, whole and in the order in which they were sent.  When it    *)
(* breaks, it may deliver some more of them, still from the first on.      *)
(***************************************************************************)
EXTENDS Sequences

CONSTANT Packet

VARIABLES queue, delivered, open

ChannelInit == queue = <<>> /\ delivered = <<>> /\ open = FALSE

Open == ~open /\ open' = TRUE /\ queue' = <<>> /\ delivered' = <<>>

Send(p) == open /\ queue' = Append(queue, p) /\ UNCHANGED <<delivered, open>>

Deliver ==
    /\ queue # <<>>
    /\ delivered' = Append(delivered, Head(queue))
    /\ queue' = Tail(queue)
    /\ UNCHANGED open

Break == open /\ open' = FALSE /\ UNCHANGED <<queue, delivered>>

ChannelNext == Open \/ (\E p \in Packet : Send(p)) \/ Deliver \/ Break

ChannelSpec == ChannelInit /\ [][ChannelNext]_<<queue, delivered, open>>
=============================================================================
