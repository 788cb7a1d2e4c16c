----------------------------- MODULE PacketRing -----------------------------
(***************************************************************************)
(* RawEthernetPacketBuffer, src/libminet/raw_ethernet_packet_buffer.cc: a  *)
(* ring of bufsize slots, one of which stays free so that a full ring can  *)
(* be told from an empty one.                                              *)
(***************************************************************************)
EXTENDS Integers, Sequences

CONSTANTS
    Packet,    \* what a slot holds
    bufsize    \* the number of slots, at least 1

Slot == 0 .. bufsize - 1

Ring == [packet : [Slot -> Packet], curin : Slot, curout : Slot]

\* The constructor; junk is what new[] leaves in the slots.
EmptyRing(junk) == [packet |-> [i \in Slot |-> junk], curin |-> 0, curout |-> 0]

After(i) == (i + 1) % bufsize

IsFull(r)  == After(r.curin) = r.curout
IsEmpty(r) == r.curout = r.curin

\* Fault: counts as if no slot had to be skipped at the wrap, twice over.
NumitemsTwoLow(r) ==
    IF r.curin >= r.curout THEN r.curin - r.curout - 1
                           ELSE bufsize - (r.curout - r.curin) - 2

\* One too low when curin has wrapped and curout has not.
Numitems(r) ==
    IF r.curin >= r.curout THEN r.curin - r.curout
                           ELSE bufsize - (r.curout - r.curin) - 1

\* Fault: curin moves before the packet is stored.
PushPacketAhead(r, p) ==
    IF IsFull(r) THEN r
    ELSE [r EXCEPT !.packet[After(r.curin)] = p, !.curin = After(@)]

\* PushPacket; PACKETBUFFER_FULL leaves the ring as it is.
PushPacket(r, p) ==
    IF IsFull(r) THEN r
    ELSE [r EXCEPT !.packet[r.curin] = p, !.curin = After(@)]

\* PullPacket from a ring that is not empty: what it returns and what it leaves.
NextPacket(r) == r.packet[r.curout]
PullPacket(r) == [r EXCEPT !.curout = After(@)]

----------------------------------------------------------------------------
(* What the ring stands for *)

Held(r)     == (r.curin - r.curout) % bufsize
Contents(r) == [i \in 1 .. Held(r) |-> r.packet[(r.curout + i - 1) % bufsize]]
=============================================================================
