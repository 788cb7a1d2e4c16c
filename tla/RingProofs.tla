----------------------------- MODULE RingProofs -----------------------------
(***************************************************************************)
(* The ring of PacketRing is a queue: pushing appends, pulling takes the   *)
(* head, whatever the size of the ring and wherever its indices are.       *)
(***************************************************************************)
EXTENDS PacketRing, TLAPS

\* Remainders of numbers less than one divisor away from the slots.
LEMMA Remainder ==
    ASSUME NEW n \in Nat, n > 0, NEW x \in Int
    PROVE  /\ x % n \in 0 .. n - 1
           /\ 0 <= x /\ x < n => x % n = x
           /\ n <= x /\ x < 2 * n => x % n = x - n
           /\ 0 - n <= x /\ x < 0 => x % n = x + n
<1>1. x % n \in 0 .. n - 1
  OBVIOUS
<1>2. 0 <= x /\ x < n => x % n = x
  OBVIOUS
<1>3. n <= x /\ x < 2 * n => x % n = x - n
  OBVIOUS
<1>4. 0 - n <= x /\ x < 0 => x % n = x + n
  OBVIOUS
<1> QED BY <1>1, <1>2, <1>3, <1>4

\* The next slot, without the remainder.
LEMMA AfterIs ==
    ASSUME bufsize \in Nat, bufsize > 0, NEW i \in Slot
    PROVE  /\ After(i) \in Slot
           /\ After(i) = IF i + 1 = bufsize THEN 0 ELSE i + 1
<1>1. i \in Int /\ 0 <= i /\ i < bufsize
  BY DEF Slot
<1>2. (i + 1) % bufsize = IF i + 1 = bufsize THEN 0 ELSE i + 1
  BY <1>1, Remainder
<1> QED BY <1>1, <1>2 DEF After, Slot

\* What the ring holds, without the remainder: never as many as it has slots.
LEMMA HeldIs ==
    ASSUME bufsize \in Nat, bufsize > 0, NEW r \in Ring
    PROVE  /\ Held(r) \in 0 .. bufsize - 1
           /\ Held(r) = IF r.curin >= r.curout THEN r.curin - r.curout
                                             ELSE r.curin - r.curout + bufsize
           /\ IsEmpty(r) <=> Held(r) = 0
           /\ IsFull(r) <=> Held(r) = bufsize - 1
<1>1. /\ r.curin \in Int /\ 0 <= r.curin /\ r.curin < bufsize
      /\ r.curout \in Int /\ 0 <= r.curout /\ r.curout < bufsize
      /\ r.curin \in Slot
  BY DEF Ring, Slot
<1>2. Held(r) = IF r.curin >= r.curout THEN r.curin - r.curout
                                       ELSE r.curin - r.curout + bufsize
  BY <1>1, Remainder DEF Held
<1>3. After(r.curin) = IF r.curin + 1 = bufsize THEN 0 ELSE r.curin + 1
  BY <1>1, AfterIs
<1> QED BY <1>1, <1>2, <1>3 DEF IsEmpty, IsFull

\* The slot of the i-th packet of the ring.
LEMMA PlaceIs ==
    ASSUME bufsize \in Nat, bufsize > 0, NEW o \in Slot,
           NEW i \in 1 .. bufsize
    PROVE  /\ (o + i - 1) % bufsize \in Slot
           /\ (o + i - 1) % bufsize = IF o + i - 1 < bufsize THEN o + i - 1
                                                            ELSE o + i - 1 - bufsize
<1>1. o \in Int /\ 0 <= o /\ o < bufsize
  BY DEF Slot
<1>2. (o + i - 1) % bufsize = IF o + i - 1 < bufsize THEN o + i - 1
                                                     ELSE o + i - 1 - bufsize
  BY <1>1, Remainder
<1> QED BY <1>1, <1>2 DEF Slot

LEMMA ContentsType ==
    ASSUME bufsize \in Nat, bufsize > 0, NEW r \in Ring
    PROVE  /\ Contents(r) \in Seq(Packet)
           /\ Len(Contents(r)) = Held(r)
           /\ \A i \in 1 .. Held(r) :
                 Contents(r)[i] = r.packet[(r.curout + i - 1) % bufsize]
<1>1. Held(r) \in 0 .. bufsize - 1 /\ r.curout \in Slot /\ r.packet \in [Slot -> Packet]
  BY HeldIs DEF Ring
<1>2. ASSUME NEW i \in 1 .. Held(r)
      PROVE  r.packet[(r.curout + i - 1) % bufsize] \in Packet
  BY <1>1, PlaceIs
<1>3. Contents(r) \in [1 .. Held(r) -> Packet]
  BY <1>2 DEF Contents
<1>4. Contents(r) \in Seq(Packet) /\ Len(Contents(r)) = Held(r)
  BY <1>1, <1>3
<1> QED BY <1>4 DEF Contents

\* A packet that is pushed comes last, unless the ring is full.
LEMMA PushAppends ==
    ASSUME bufsize \in Nat, bufsize > 0, NEW r \in Ring, NEW p \in Packet
    PROVE  /\ PushPacket(r, p) \in Ring
           /\ IsFull(r) => /\ PushPacket(r, p) = r
                           /\ Len(Contents(r)) = bufsize - 1
           /\ ~ IsFull(r) => /\ Contents(PushPacket(r, p)) = Append(Contents(r), p)
                             /\ Len(Contents(r)) < bufsize - 1
                             /\ Held(PushPacket(r, p)) = Held(r) + 1
<1> DEFINE s == PushPacket(r, p)
<1>1. r.curin \in Slot /\ r.curout \in Slot /\ r.packet \in [Slot -> Packet]
  BY DEF Ring
<1>2. CASE IsFull(r)
  BY <1>2, HeldIs, ContentsType DEF PushPacket
<1>3. CASE ~ IsFull(r)
  <2>1. s = [r EXCEPT !.packet = [r.packet EXCEPT ![r.curin] = p],
                      !.curin = After(r.curin)]
    BY <1>1, <1>3 DEF PushPacket, Ring
  <2>2. /\ s \in Ring /\ s.curout = r.curout /\ s.curin = After(r.curin)
        /\ s.packet = [r.packet EXCEPT ![r.curin] = p]
    BY <1>1, <2>1, AfterIs DEF Ring
  <2> HIDE DEF s
  <2>3. r.curin \in Int /\ 0 <= r.curin /\ r.curin < bufsize
        /\ r.curout \in Int /\ 0 <= r.curout /\ r.curout < bufsize
    BY <1>1 DEF Slot
  <2>4. Held(r) < bufsize - 1 /\ Held(r) \in Nat
    BY <1>3, HeldIs
  <2>5. Held(s) = Held(r) + 1
    BY <2>2, <2>3, <2>4, <1>1, HeldIs, AfterIs
  <2>6. Contents(s) = Append(Contents(r), p)
    <3>1. ASSUME NEW i \in 1 .. Held(r) + 1
          PROVE  Contents(s)[i] = Append(Contents(r), p)[i]
      <4>1. Contents(s)[i] = s.packet[(r.curout + i - 1) % bufsize]
        BY <2>2, <2>5, ContentsType
      <4>2. (r.curout + i - 1) % bufsize \in Slot
            /\ (r.curout + i - 1) % bufsize =
                  IF r.curout + i - 1 < bufsize THEN r.curout + i - 1
                                                ELSE r.curout + i - 1 - bufsize
        BY <2>4, <1>1, PlaceIs
      <4>3. CASE i = Held(r) + 1
        <5>1. (r.curout + i - 1) % bufsize = r.curin
          BY <4>2, <4>3, <2>3, <2>4, HeldIs
        <5> QED BY <5>1, <4>1, <4>3, <2>2, <1>1, <2>4, ContentsType
      <4>4. CASE i # Held(r) + 1
        <5>1. (r.curout + i - 1) % bufsize # r.curin
          BY <4>2, <4>4, <2>3, <2>4, HeldIs
        <5>2. Contents(s)[i] = r.packet[(r.curout + i - 1) % bufsize]
          BY <5>1, <4>1, <4>2, <2>2, <1>1
        <5>3. i \in 1 .. Held(r)
          BY <4>4, <2>4
        <5> QED BY <5>2, <5>3, ContentsType, <2>4
      <4> QED BY <4>3, <4>4
    <3>2. /\ Contents(s) \in Seq(Packet) /\ Append(Contents(r), p) \in Seq(Packet)
          /\ Len(Contents(s)) = Held(r) + 1 /\ Len(Append(Contents(r), p)) = Held(r) + 1
      BY <2>2, <2>5, ContentsType
    <3> QED BY <2>4, <3>1, <3>2
  <2> QED BY <2>2, <2>4, <2>5, <2>6, <1>3, ContentsType DEF s
<1> QED BY <1>2, <1>3

\* The packet that is pulled is the first.
LEMMA PullTakesFirst ==
    ASSUME bufsize \in Nat, bufsize > 0, NEW r \in Ring, ~ IsEmpty(r)
    PROVE  /\ PullPacket(r) \in Ring
           /\ Contents(r) # <<>>
           /\ Contents(PullPacket(r)) = Tail(Contents(r))
           /\ NextPacket(r) \in Packet
           /\ Held(PullPacket(r)) = Held(r) - 1
<1> DEFINE s == PullPacket(r)
<1>1. r.curin \in Slot /\ r.curout \in Slot /\ r.packet \in [Slot -> Packet]
  BY DEF Ring
<1>2. /\ s \in Ring /\ s.curout = After(r.curout) /\ s.curin = r.curin
      /\ s.packet = r.packet
  BY <1>1, AfterIs DEF PullPacket, Ring
<1> HIDE DEF s
<1>3. /\ r.curin \in Int /\ 0 <= r.curin /\ r.curin < bufsize
      /\ r.curout \in Int /\ 0 <= r.curout /\ r.curout < bufsize
  BY <1>1 DEF Slot
<1>4. Held(r) \in 1 .. bufsize - 1
  BY HeldIs
<1>5. Held(s) = Held(r) - 1
  BY <1>1, <1>2, <1>3, <1>4, HeldIs, AfterIs
<1>6. Contents(r) # <<>> /\ Contents(r) \in Seq(Packet) /\ Len(Contents(r)) = Held(r)
  BY <1>4, ContentsType
<1>7. Contents(s) = Tail(Contents(r))
  <2>1. ASSUME NEW i \in 1 .. Held(r) - 1
        PROVE  Contents(s)[i] = Tail(Contents(r))[i]
    <3>1. Contents(s)[i] = r.packet[(s.curout + i - 1) % bufsize]
      BY <1>2, <1>5, ContentsType
    <3>2. i + 1 \in 1 .. Held(r) /\ i \in 1 .. bufsize /\ i + 1 \in 1 .. bufsize
      BY <1>4
    <3>3. Tail(Contents(r))[i] = r.packet[(r.curout + (i + 1) - 1) % bufsize]
      BY <3>2, <1>6, <1>4, ContentsType
    <3>4. (s.curout + i - 1) % bufsize = (r.curout + (i + 1) - 1) % bufsize
      <4>1. s.curout \in Slot
            /\ s.curout = IF r.curout + 1 = bufsize THEN 0 ELSE r.curout + 1
        BY <1>1, <1>2, AfterIs
      <4>2. (s.curout + i - 1) % bufsize =
              IF s.curout + i - 1 < bufsize THEN s.curout + i - 1
                                            ELSE s.curout + i - 1 - bufsize
        BY <3>2, <4>1, PlaceIs
      <4>3. (r.curout + (i + 1) - 1) % bufsize =
              IF r.curout + (i + 1) - 1 < bufsize THEN r.curout + (i + 1) - 1
                                                  ELSE r.curout + (i + 1) - 1 - bufsize
        BY <3>2, <1>1, PlaceIs
      <4>4. i \in Int /\ s.curout \in Int
        BY <4>1, <1>3
      <4> QED BY <3>2, <4>1, <4>2, <4>3, <4>4, <1>3
    <3> QED BY <3>1, <3>3, <3>4
  <2>2. /\ Contents(s) \in Seq(Packet) /\ Len(Contents(s)) = Held(r) - 1
        /\ Tail(Contents(r)) \in Seq(Packet) /\ Len(Tail(Contents(r))) = Held(r) - 1
    BY <1>2, <1>4, <1>5, <1>6, ContentsType
  <2> QED BY <2>1, <2>2
<1> QED BY <1>1, <1>2, <1>5, <1>6, <1>7 DEF s, NextPacket

\* Numitems is right or one too low.
LEMMA NumitemsIs ==
    ASSUME bufsize \in Nat, bufsize > 0, NEW r \in Ring
    PROVE  Numitems(r) \in {Held(r), Held(r) - 1}
<1>1. r.curin \in Int /\ r.curout \in Int
  BY DEF Ring, Slot
<1> QED BY <1>1, HeldIs DEF Numitems
=============================================================================
