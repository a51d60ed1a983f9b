----------------------------- MODULE UartTxProofs -----------------------------
(***************************************************************************)
(* For every size of ring, line and packet and any number of messages: the *)
(* transmit ring is a first-in first-out queue, and the packets of the     *)
(* handlers go through it whole or are counted.                            *)
(***************************************************************************)
EXTENDS UartTxProps, SequenceTheorems, FiniteSetTheorems, TLAPS

\* The slot k places after slot s, and the places from slot s to slot t.
SlotAfter(s, k) == IF s + k < Size THEN s + k ELSE s + k - Size
Ahead(s, t) == IF s <= t THEN t - s ELSE t - s + Size

Used == Ahead(tx_tail, tx_head)

Typed ==
  /\ tx_buf \in [Slots -> Bytes] /\ tx_head \in Slots /\ tx_tail \in Slots
  /\ enqueued \in Seq(Bytes) /\ sent \in Seq(Bytes)
  /\ calls \in [Producers -> Nat] /\ dropped \in Nat /\ i \in Nat

\* FifoIntact, byte by byte: what waits between tail and head is what follows
\* the bytes sent.
Waiting ==
  /\ Len(enqueued) = Len(sent) + Used
  /\ \A k \in 1..Len(sent) : sent[k] = enqueued[k]
  /\ \A k \in 0..(Used - 1) : tx_buf[SlotAfter(tx_tail, k)] = enqueued[Len(sent) + k + 1]

\* The first bytes of the packets enqueued.
Begun == {k \in DOMAIN enqueued : enqueued[k][1] \in Handlers /\ enqueued[k][3] = 1}

\* A byte of a packet has the whole packet around it.
Whole(k) ==
  LET first == k - enqueued[k][3] + 1
  IN  /\ first >= 1 /\ first + PacketLen - 1 <= Len(enqueued)
      /\ \A d \in 1..PacketLen :
           enqueued[first + d - 1] = Byte(enqueued[k][1], enqueued[k][2], d)

PacketsAreWhole == \A k \in DOMAIN enqueued : enqueued[k][1] \in Handlers => Whole(k)

Counted ==
  /\ IsFiniteSet(Begun)
  /\ calls["tim6"] + calls["adc"] = dropped + Cardinality(Begun)

RingInv == Typed /\ Waiting /\ PacketsAreWhole /\ Counted

-----------------------------------------------------------------------------
(* Arithmetic of the ring.                                                 *)

LEMMA WrapsAfter ==
  ASSUME NEW s \in Slots, NEW k \in 0..Size
  PROVE  (s + k) % Size = SlotAfter(s, k) /\ SlotAfter(s, k) \in Slots
BY UartTxAssumption DEF Slots, SlotAfter

LEMMA WrapsAhead ==
  ASSUME NEW s \in Slots, NEW t \in Slots
  PROVE  (t - s + Size) % Size = Ahead(s, t) /\ Ahead(s, t) \in Slots
BY UartTxAssumption DEF Slots, Ahead

LEMMA Wraps ==
  ASSUME NEW x \in 0..(2 * Size - 1) PROVE x % Size = IF x < Size THEN x ELSE x - Size
BY UartTxAssumption

LEMMA FieldsOfByte ==
  ASSUME NEW b \in Bytes PROVE b[2] \in Nat /\ b[3] \in Nat
BY DEF Bytes

LEMMA FreeIsTheRest == ASSUME Typed PROVE Free = Size - 1 - Used
<1> DEFINE x == tx_tail - tx_head - 1 + Size
<1>1. x \in 0..(2 * Size - 1)
  BY UartTxAssumption DEF Typed, Slots
<1>2. Free = IF x < Size THEN x ELSE x - Size
  BY <1>1, Wraps DEF Free
<1> QED BY <1>2, UartTxAssumption DEF Typed, Slots, Used, Ahead

LEMMA RoomIsFree == ASSUME Typed, HasRoom PROVE Free >= 1
<1>1. 1 \in 0..Size
  BY UartTxAssumption
<1>2. SlotAfter(tx_head, 1) # tx_tail
  BY <1>1, WrapsAfter DEF Typed, HasRoom
<1>3. Free = Size - 1 - Used
  BY FreeIsTheRest
<1> QED BY <1>2, <1>3, UartTxAssumption DEF Typed, Slots, Used, Ahead, SlotAfter

LEMMA RingInitially == Init => RingInv
<1> SUFFICES ASSUME Init PROVE RingInv
  OBVIOUS
<1> USE DEF Init
<1>1. Typed
  BY UartTxAssumption DEF Typed, Slots, Bytes, Byte, Producers
<1>2. Waiting
  BY <1>1, EmptySeq DEF Waiting, Used, Ahead
<1>3. DOMAIN enqueued = {} /\ Begun = {}
  BY DEF Begun
<1>4. PacketsAreWhole
  BY <1>3 DEF PacketsAreWhole
<1>5. Counted
  BY <1>3, FS_EmptySet DEF Counted, Producers
<1> QED BY <1>1, <1>2, <1>4, <1>5 DEF RingInv

-----------------------------------------------------------------------------
(* Put: the bytes go behind those that wait and over none of them.         *)

LEMMA PutQueues ==
  ASSUME RingInv, NEW bytes \in Seq(Bytes), Len(bytes) <= Free, Put(bytes),
         UNCHANGED <<tx_tail, sent>>
  PROVE  /\ Waiting' /\ tx_buf' \in [Slots -> Bytes] /\ tx_head' \in Slots
         /\ enqueued' \in Seq(Bytes)
<1> USE DEF RingInv, Typed
<1> DEFINE len == Len(bytes)
<1>1. len \in 0..(Size - 1 - Used) /\ len \in 0..Size /\ Used \in Nat /\ Used < Size
  <2>1. Used \in Slots
    BY WrapsAhead DEF Used
  <2>2. len \in Nat /\ len <= Size - 1 - Used
    BY FreeIsTheRest, LenProperties
  <2> QED BY <2>1, <2>2, UartTxAssumption DEF Slots
<1>2. tx_head' = SlotAfter(tx_head, len) /\ tx_head' \in Slots
  BY <1>1, WrapsAfter DEF Put
<1>3. Used' = Used + len
  <2>1. tx_head \in Slots /\ tx_tail \in Slots /\ tx_tail' = tx_tail
    OBVIOUS
  <2>2. Used' = Ahead(tx_tail, tx_head')
    BY <2>1 DEF Used
  <2> HIDE DEF len
  <2> QED BY <1>1, <1>2, <2>1, <2>2, UartTxAssumption, SMTT(20) DEF Used, Ahead, SlotAfter, Slots
<1>4. /\ enqueued' \in Seq(Bytes) /\ Len(enqueued') = Len(enqueued) + len
      /\ \A k \in 1..Len(enqueued) : enqueued'[k] = enqueued[k]
      /\ \A k \in 1..len : enqueued'[Len(enqueued) + k] = bytes[k]
  BY ConcatProperties, LenProperties DEF Put
<1>5. \A s \in Slots : tx_buf'[s] = IF Ahead(tx_head, s) < len THEN bytes[Ahead(tx_head, s) + 1]
                                    ELSE tx_buf[s]
  BY WrapsAhead DEF Put
<1>6. tx_buf' \in [Slots -> Bytes]
  <2>1. tx_buf' = [s \in Slots |-> tx_buf'[s]]
    BY DEF Put
  <2>2. \A s \in Slots : tx_buf'[s] \in Bytes
    <3> SUFFICES ASSUME NEW s \in Slots, Ahead(tx_head, s) < len PROVE tx_buf'[s] \in Bytes
      BY <1>5
    <3>1. Ahead(tx_head, s) + 1 \in 1..len
      <4>1. Ahead(tx_head, s) \in Slots
        BY WrapsAhead
      <4> QED BY <1>1, <4>1 DEF Slots
    <3> QED BY <1>5, <3>1, ElementOfSeq
  <2> QED BY <2>1, <2>2
<1>7. ASSUME NEW k \in 0..(Used' - 1)
      PROVE  tx_buf'[SlotAfter(tx_tail, k)] = enqueued'[Len(sent) + k + 1]
  <2> DEFINE s == SlotAfter(tx_tail, k)
  <2>1. s \in Slots /\ k \in Nat /\ k < Used + len
    <3>1. k \in 0..Size
      BY <1>1, <1>3, UartTxAssumption
    <3> QED BY <1>1, <1>3, <3>1, WrapsAfter
  <2>2. CASE k < Used
    <3>1. Ahead(tx_head, s) >= len
      BY <1>1, <2>2, UartTxAssumption DEF Used, Ahead, SlotAfter, Slots
    <3>2. tx_buf'[s] = tx_buf[s]
      <4>1. Ahead(tx_head, s) \in Slots
        BY <2>1, WrapsAhead
      <4> QED BY <1>1, <1>5, <2>1, <3>1, <4>1 DEF Slots
    <3>3. tx_buf[s] = enqueued[Len(sent) + k + 1] /\ Len(sent) + k + 1 \in 1..Len(enqueued)
      BY <1>1, <2>1, <2>2, LenProperties DEF Waiting
    <3> QED BY <1>4, <3>2, <3>3
  <2>3. CASE k >= Used
    <3>1. Ahead(tx_head, s) = k - Used
      <4> HIDE DEF len
      <4> QED BY <1>1, <1>3, <2>3, UartTxAssumption, SMTT(20) DEF Used, Ahead, SlotAfter, Slots
    <3>2. tx_buf'[s] = bytes[k - Used + 1]
      BY <1>1, <1>3, <1>5, <2>1, <3>1 DEF Slots
    <3>3. Len(sent) + k + 1 = Len(enqueued) + (k - Used + 1) /\ k - Used + 1 \in 1..len
      BY <1>1, <2>1, <2>3, LenProperties DEF Waiting
    <3> QED BY <1>4, <3>2, <3>3
  <2> QED BY <1>1, <1>3, <2>2, <2>3 DEF Slots
<1>8. Waiting'
  <2>1. Len(enqueued') = Len(sent') + Used'
    BY <1>1, <1>3, <1>4, LenProperties DEF Waiting
  <2>2. \A k \in 1..Len(sent') : sent'[k] = enqueued'[k]
    BY <1>1, <1>4, LenProperties DEF Waiting
  <2>3. \A k \in 0..(Used' - 1) :
          tx_buf'[SlotAfter(tx_tail, k)'] = enqueued'[Len(sent') + k + 1]
    BY <1>7 DEF SlotAfter
  <2> HIDE DEF len
  <2> QED BY <2>1, <2>2, <2>3 DEF Waiting, SlotAfter
<1> QED BY <1>2, <1>4, <1>6, <1>8

\* A line of the main loop disturbs no packet.
LEMMA LineKeepsPackets ==
  ASSUME RingInv, NEW b \in Bytes, b[1] = "main", enqueued' = enqueued \o <<b>>,
         UNCHANGED <<calls, dropped>>
  PROVE  PacketsAreWhole' /\ Counted'
<1> USE DEF RingInv, Typed
<1>1. /\ DOMAIN enqueued = 1..Len(enqueued) /\ DOMAIN enqueued' = 1..(Len(enqueued) + 1)
      /\ Len(enqueued) \in Nat /\ Len(enqueued') = Len(enqueued) + 1
      /\ enqueued'[Len(enqueued) + 1] = b
      /\ \A k \in 1..Len(enqueued) : enqueued'[k] = enqueued[k]
  BY ConcatProperties, LenProperties
<1>2. Begun' = Begun
  BY <1>1 DEF Begun, Handlers
<1>3. PacketsAreWhole'
  <2> SUFFICES ASSUME NEW k \in DOMAIN enqueued', enqueued'[k][1] \in Handlers PROVE Whole(k)'
    BY DEF PacketsAreWhole
  <2>1. k \in 1..Len(enqueued) /\ enqueued'[k] = enqueued[k] /\ enqueued[k] \in Bytes
    BY <1>1, ElementOfSeq DEF Handlers
  <2>2. Whole(k)
    BY <1>1, <2>1 DEF PacketsAreWhole
  <2> DEFINE first == k - enqueued[k][3] + 1
  <2>3. first \in Int /\ PacketLen \in Nat
    BY <2>1, FieldsOfByte, UartTxAssumption
  <2>4. ASSUME NEW d \in 1..PacketLen PROVE enqueued'[first + d - 1] = enqueued[first + d - 1]
    <3>1. first >= 1 /\ first + PacketLen - 1 <= Len(enqueued)
      BY <2>2 DEF Whole
    <3>2. Len(enqueued) \in Nat
      BY LenProperties
    <3> HIDE DEF first
    <3>3. first + d - 1 \in 1..Len(enqueued)
      BY <2>3, <2>4, <3>1, <3>2
    <3> QED BY <1>1, <3>3
  <2>5. first >= 1 /\ first + PacketLen - 1 <= Len(enqueued')
    <3>1. first >= 1 /\ first + PacketLen - 1 <= Len(enqueued)
      BY <2>2 DEF Whole
    <3>2. Len(enqueued) \in Nat /\ Len(enqueued') \in Nat /\ Len(enqueued) <= Len(enqueued')
      BY <1>1, LenProperties
    <3> HIDE DEF first
    <3> QED BY <2>3, <3>1, <3>2
  <2>6. first = k - enqueued'[k][3] + 1
    BY <2>1
  <2>7. \A d \in 1..PacketLen :
          enqueued'[first + d - 1] = Byte(enqueued'[k][1], enqueued'[k][2], d)
    BY <2>1, <2>2, <2>4 DEF Whole
  <2> HIDE DEF first
  <2> QED BY <2>5, <2>6, <2>7 DEF Whole
<1> QED BY <1>2, <1>3 DEF Counted

LEMMA PacketIsBytes ==
  ASSUME Typed, NEW p \in Handlers
  PROVE  /\ Packet(p) \in Seq(Bytes) /\ Len(Packet(p)) = PacketLen /\ PacketLen \in Nat \ {0}
         /\ \A k \in 1..PacketLen : Packet(p)[k] = Byte(p, calls[p] + 1, k)
<1> USE DEF Typed
<1>1. PacketLen \in Nat \ {0}
  BY UartTxAssumption
<1>2. \A k \in 1..PacketLen : Byte(p, calls[p] + 1, k) \in Bytes
  BY <1>1 DEF Byte, Bytes, Producers, Handlers
<1>3. Packet(p) \in [1..PacketLen -> Bytes]
  BY <1>2 DEF Packet
<1> QED BY <1>1, <1>3 DEF Packet

\* A packet goes in whole and is begun once.
LEMMA PacketKeepsPackets ==
  ASSUME RingInv, NEW p \in Handlers, enqueued' = enqueued \o Packet(p),
         calls' = [calls EXCEPT ![p] = calls[p] + 1], dropped' = dropped
  PROVE  PacketsAreWhole' /\ Counted'
<1> USE DEF RingInv, Typed
<1> DEFINE len == Len(enqueued)
<1>1. /\ Packet(p) \in Seq(Bytes) /\ Len(Packet(p)) = PacketLen /\ PacketLen \in Nat \ {0}
      /\ \A k \in 1..PacketLen : Packet(p)[k] = Byte(p, calls[p] + 1, k)
  BY PacketIsBytes
<1>2. /\ DOMAIN enqueued = 1..len /\ DOMAIN enqueued' = 1..(len + PacketLen)
      /\ len \in Nat /\ Len(enqueued') = len + PacketLen
      /\ \A k \in 1..len : enqueued'[k] = enqueued[k]
      /\ \A k \in 1..PacketLen : enqueued'[len + k] = Byte(p, calls[p] + 1, k)
  <2>1. /\ enqueued' \in Seq(Bytes) /\ Len(enqueued') = len + PacketLen /\ len \in Nat
        /\ \A j \in 1..(len + PacketLen) :
             enqueued'[j] = IF j <= len THEN enqueued[j] ELSE Packet(p)[j - len]
    BY <1>1, ConcatProperties, LenProperties
  <2>2. DOMAIN enqueued = 1..len /\ DOMAIN enqueued' = 1..(len + PacketLen)
    BY <2>1, LenProperties
  <2> QED BY <1>1, <2>1, <2>2
<1>3. Begun' = Begun \cup {len + 1} /\ len + 1 \notin Begun
  BY <1>1, <1>2 DEF Begun, Byte
<1>4. PacketsAreWhole'
  <2> SUFFICES ASSUME NEW k \in 1..(len + PacketLen), enqueued'[k][1] \in Handlers PROVE Whole(k)'
    BY <1>2 DEF PacketsAreWhole
  <2>1. CASE k <= len
    <3>1. enqueued'[k] = enqueued[k] /\ enqueued[k] \in Bytes
      BY <1>2, <2>1, ElementOfSeq
    <3>2. Whole(k)
      BY <1>2, <2>1, <3>1 DEF PacketsAreWhole
    <3> DEFINE first == k - enqueued[k][3] + 1
    <3>3. first \in Int
      BY <2>1, <3>1, FieldsOfByte
    <3>4. first >= 1 /\ first + PacketLen - 1 <= len
      BY <3>2 DEF Whole
    <3>5. ASSUME NEW d \in 1..PacketLen PROVE enqueued'[first + d - 1] = enqueued[first + d - 1]
      <4> HIDE DEF first, len
      <4>1. first + d - 1 \in 1..len BY <1>1, <1>2, <3>3, <3>4
      <4> QED BY <4>1, <1>2
    <3>6. first + PacketLen - 1 <= Len(enqueued')
      <4> HIDE DEF first, len
      <4> QED BY <1>1, <1>2, <3>3, <3>4
    <3>7. first = k - enqueued'[k][3] + 1
      BY <3>1
    <3>8. \A d \in 1..PacketLen :
            enqueued'[first + d - 1] = Byte(enqueued'[k][1], enqueued'[k][2], d)
      BY <3>1, <3>2, <3>5 DEF Whole
    <3> HIDE DEF first
    <3> QED BY <3>4, <3>6, <3>7, <3>8 DEF Whole
  <2>2. CASE k > len
    <3>1. enqueued'[k] = Byte(p, calls[p] + 1, k - len)
      BY <1>1, <1>2, <2>2
    <3> QED BY <1>1, <1>2, <2>2, <3>1 DEF Whole, Byte
  <2> QED BY <1>2, <2>1, <2>2
<1>5. Counted'
  <2>1. IsFiniteSet(Begun') /\ Cardinality(Begun') = Cardinality(Begun) + 1
    BY <1>3, FS_AddElement DEF Counted
  <2>2. Cardinality(Begun) \in Nat
    BY FS_CardinalityType DEF Counted
  <2> QED BY <2>1, <2>2 DEF Counted, Producers, Handlers
<1> QED BY <1>4, <1>5
-----------------------------------------------------------------------------
(* The steps.                                                              *)

LEMMA EnqueueByteKeeps == ASSUME RingInv, EnqueueByte PROVE RingInv'
<1> DEFINE b == Byte("main", calls["main"], i + 1)
<1>1. b \in Bytes /\ b[1] = "main" /\ <<b>> \in Seq(Bytes) /\ Len(<<b>>) = 1
  BY DEF RingInv, Typed, Byte, Bytes, Producers
<1>2. Put(<<b>>) /\ UNCHANGED <<tx_tail, sent, calls, dropped>> /\ i' = i + 1
  BY DEF EnqueueByte
<1>3. Free >= 1
  BY RoomIsFree DEF RingInv, EnqueueByte
<1>4. /\ Waiting' /\ tx_buf' \in [Slots -> Bytes] /\ tx_head' \in Slots
      /\ enqueued' \in Seq(Bytes)
  BY <1>1, <1>2, <1>3, PutQueues
<1>5. PacketsAreWhole' /\ Counted'
  BY <1>1, <1>2, LineKeepsPackets DEF Put
<1> QED BY <1>2, <1>4, <1>5 DEF RingInv, Typed

LEMMA TrySendKeeps ==
  ASSUME RingInv, NEW p \in Handlers, TrySend(p), UNCHANGED <<tx_tail, sent, i>> PROVE RingInv'
<1>1. calls' = [calls EXCEPT ![p] = calls[p] + 1] /\ calls' \in [Producers -> Nat]
  BY DEF RingInv, Typed, TrySend, Handlers, Producers
<1>2. CASE Free >= PacketLen
  <2>1. Put(Packet(p)) /\ dropped' = dropped
    BY <1>2 DEF TrySend
  <2>2. Packet(p) \in Seq(Bytes) /\ Len(Packet(p)) = PacketLen
    BY PacketIsBytes DEF RingInv
  <2>3. /\ Waiting' /\ tx_buf' \in [Slots -> Bytes] /\ tx_head' \in Slots
        /\ enqueued' \in Seq(Bytes)
    BY <1>2, <2>1, <2>2, FreeIsTheRest, PutQueues
  <2>4. PacketsAreWhole' /\ Counted'
    BY <1>1, <2>1, PacketKeepsPackets DEF Put
  <2> QED BY <1>1, <2>1, <2>3, <2>4 DEF RingInv, Typed
<1>3. CASE ~(Free >= PacketLen)
  <2>1. dropped' = dropped + 1 /\ UNCHANGED <<tx_buf, tx_head, enqueued>>
    BY <1>3 DEF TrySend, ring
  <2>2. Waiting' /\ PacketsAreWhole' /\ Begun' = Begun
    BY <2>1 DEF RingInv, Waiting, Used, PacketsAreWhole, Whole, Begun
  <2>3. Counted'
    <3>1. Cardinality(Begun) \in Nat
      BY FS_CardinalityType DEF RingInv, Counted
    <3> QED BY <1>1, <2>1, <2>2, <3>1 DEF RingInv, Typed, Counted, Producers, Handlers
  <2> QED BY <1>1, <2>1, <2>2, <2>3 DEF RingInv, Typed
<1> QED BY <1>2, <1>3

\* One byte leaves the ring for the line, the oldest one.
LEMMA DrainKeeps ==
  ASSUME RingInv, Drain, UNCHANGED <<tx_buf, tx_head, enqueued, calls, dropped, i>> PROVE RingInv'
<1> USE DEF RingInv, Typed
<1>1. PacketsAreWhole' /\ Counted'
  BY DEF PacketsAreWhole, Whole, Counted, Begun
<1>2. CASE ~(txe /\ tx_head # tx_tail)
  BY <1>1, <1>2 DEF Drain, Waiting, Used
<1>3. CASE txe /\ tx_head # tx_tail
  <2>1. sent' = Append(sent, tx_buf[tx_tail]) /\ tx_tail' = (tx_tail + 1) % Size
    BY <1>3 DEF Drain
  <2>2. tx_tail' = SlotAfter(tx_tail, 1) /\ tx_tail' \in Slots
    <3>1. 1 \in 0..Size
      BY UartTxAssumption
    <3> QED BY <2>1, <3>1, WrapsAfter
  <2>3. Used \in Nat \ {0} /\ Used < Size /\ Used' = Used - 1
    BY <1>3, <2>2, UartTxAssumption DEF Used, Ahead, SlotAfter, Slots
  <2>4. /\ sent' \in Seq(Bytes) /\ Len(sent') = Len(sent) + 1 /\ Len(sent) \in Nat
        /\ \A k \in 1..Len(sent) : sent'[k] = sent[k]
        /\ sent'[Len(sent) + 1] = tx_buf[tx_tail]
    BY <2>1, LenProperties
  <2>5. tx_buf[tx_tail] = enqueued[Len(sent) + 1]
    <3>1. SlotAfter(tx_tail, 0) = tx_tail
      BY UartTxAssumption DEF SlotAfter, Slots
    <3> QED BY <2>3, <2>4, <3>1 DEF Waiting
  <2>6. ASSUME NEW k \in 0..(Used' - 1)
        PROVE  tx_buf[SlotAfter(tx_tail', k)] = enqueued[Len(sent') + k + 1]
    <3>1. SlotAfter(tx_tail', k) = SlotAfter(tx_tail, k + 1) /\ k + 1 \in 0..(Used - 1)
      BY <2>2, <2>3, UartTxAssumption DEF SlotAfter, Slots
    <3> QED BY <2>3, <2>4, <3>1 DEF Waiting
  <2>7. Waiting'
    <3>1. Len(enqueued') = Len(sent') + Used'
      BY <2>3, <2>4 DEF Waiting
    <3>2. ASSUME NEW k \in 1..Len(sent') PROVE sent'[k] = enqueued'[k]
      BY <2>4, <2>5 DEF Waiting
    <3> QED BY <2>6, <3>1, <3>2 DEF Waiting
  <2> QED BY <1>1, <2>2, <2>4, <2>7
<1> QED BY <1>2, <1>3

LEMMA RingStep == RingInv /\ [Next]_vars => RingInv'
<1> SUFFICES ASSUME RingInv, [Next]_vars PROVE RingInv'
  OBVIOUS
<1>1. ASSUME UNCHANGED <<tx_buf, tx_head, tx_tail, enqueued, sent, dropped>>,
             calls' \in [Producers -> Nat], i' \in Nat,
             calls'["tim6"] = calls["tim6"] /\ calls'["adc"] = calls["adc"]
      PROVE  RingInv'
  BY <1>1 DEF RingInv, Typed, Waiting, Used, PacketsAreWhole, Whole, Counted, Begun
<1>2. CASE SendLine \/ EnableAfterByte \/ Tim6Enables \/ ClearTxeie \/ Shift \/ UNCHANGED vars
  BY <1>1, <1>2
  DEF SendLine, EnableAfterByte, Tim6Enables, ClearTxeie, Shift, ring, vars, RingInv, Typed, Producers
<1>3. CASE EnqueueByte
  BY <1>3, EnqueueByteKeeps
<1>4. CASE Tim6Sends \/ AdcSends
  BY <1>4, TrySendKeeps DEF Tim6Sends, AdcSends, Handlers
<1>5. CASE Tx \/ Rx
  BY <1>5, DrainKeeps DEF Tx, Rx, ring
<1> QED BY <1>2, <1>3, <1>4, <1>5 DEF Next, MainSends

LEMMA RingInvariance == Spec => []RingInv
BY RingInitially, RingStep, PTL DEF Spec

LEMMA Offset ==
  ASSUME NEW a \in Nat, NEW u \in Nat, NEW n, n = a + u, NEW k \in 1..n, k > a
  PROVE  \E j \in 1..u : k - a = j /\ a + j = k
OBVIOUS

\* The contents of the ring are what follows the bytes sent.
RestWaits ==
  /\ Contents \in Seq(Bytes) /\ Len(Contents) = Used /\ Used \in Nat /\ Used < Size
  /\ Len(enqueued) = Len(sent) + Used
  /\ \A k \in 1..Used : Contents[k] = enqueued[Len(sent) + k]

LEMMA ContentsAreTheRest == RingInv => RestWaits
<1> SUFFICES ASSUME RingInv PROVE RestWaits
  OBVIOUS
<1> USE DEF RingInv, Typed
<1>1. (tx_head - tx_tail + Size) % Size = Used /\ Used \in Nat /\ Used < Size
  <2>1. (tx_head - tx_tail + Size) % Size = Used /\ Used \in Slots
    BY WrapsAhead DEF Used
  <2> QED BY <2>1, UartTxAssumption DEF Slots
<1>2. \A k \in 1..Used : (tx_tail + k - 1) % Size = SlotAfter(tx_tail, k - 1) /\ SlotAfter(tx_tail, k - 1) \in Slots
  <2> SUFFICES ASSUME NEW k \in 1..Used
               PROVE  (tx_tail + k - 1) % Size = SlotAfter(tx_tail, k - 1) /\ SlotAfter(tx_tail, k - 1) \in Slots
    OBVIOUS
  <2>1. k - 1 \in 0..Size /\ tx_tail + k - 1 = tx_tail + (k - 1)
    BY <1>1, UartTxAssumption DEF Slots
  <2> QED BY <2>1, WrapsAfter
<1>3. Contents \in [1..Used -> Bytes]
  BY <1>1, <1>2 DEF Contents
<1>4. Contents \in Seq(Bytes) /\ Len(Contents) = Used
  BY <1>1, <1>3
<1>5. ASSUME NEW k \in 1..Used PROVE Contents[k] = enqueued[Len(sent) + k]
  <2>1. Contents[k] = tx_buf[SlotAfter(tx_tail, k - 1)]
    BY <1>1, <1>2 DEF Contents
  <2>2. k - 1 \in 0..(Used - 1) /\ Len(sent) + (k - 1) + 1 = Len(sent) + k
    BY <1>1, LenProperties
  <2> QED BY <2>1, <2>2 DEF Waiting
<1> QED BY <1>1, <1>4, <1>5 DEF RestWaits, Waiting

\* No producer, whatever it has preempted, overwrites, loses or reorders a byte
\* (uart.c, UART_SendStr, UART_TrySendStr and USART2_IRQHandler).
THEOREM RingIsAQueue == Spec => []FifoIntact
<1>1. ASSUME RingInv PROVE FifoIntact
  <2> USE <1>1 DEF RingInv, Typed
  <2>1. RestWaits
    BY ContentsAreTheRest
  <2> USE <2>1 DEF RestWaits
  <2>2. /\ Len(enqueued) = Len(sent) + Used /\ Len(sent) \in Nat
        /\ \A k \in 1..Len(sent) : sent[k] = enqueued[k]
    BY LenProperties DEF Waiting
  <2>3. /\ sent \o Contents \in Seq(Bytes) /\ Len(sent \o Contents) = Len(sent) + Used
        /\ \A k \in 1..(Len(sent) + Used) :
             (sent \o Contents)[k] = IF k <= Len(sent) THEN sent[k] ELSE Contents[k - Len(sent)]
    BY ConcatProperties
  <2>4. ASSUME NEW k \in 1..Len(enqueued) PROVE (sent \o Contents)[k] = enqueued[k]
    <3>1. CASE k <= Len(sent)
      BY <2>2, <2>3, <3>1
    <3>2. CASE k > Len(sent)
      <4>1. PICK j \in 1..Used : k - Len(sent) = j /\ Len(sent) + j = k
        <5>1. Len(sent) \in Nat /\ Used \in Nat /\ Len(enqueued) = Len(sent) + Used
          BY <2>2
        <5> HIDE <1>1, <2>1
        <5> QED BY <5>1, <3>2, Offset
      <4>2. Contents[j] = enqueued[k]
        BY <4>1
      <4>3. (sent \o Contents)[k] = Contents[j]
        BY <2>2, <2>3, <3>2, <4>1
      <4> QED BY <4>2, <4>3, Zenon
    <3>3. k <= Len(sent) \/ k > Len(sent)
      <4>1. k \in Nat /\ Len(sent) \in Nat
        BY <2>2
      <4> QED BY ONLY <4>1
    <3> QED BY <3>1, <3>2, <3>3, Zenon
  <2> QED BY <2>2, <2>3, <2>4, SeqEqual DEF FifoIntact
<1> QED BY <1>1, RingInvariance, PTL

\* A packet of a handler is sent in one piece, or counted as dropped (uart.c,
\* UART_TrySendStr).
THEOREM PacketsAreAtomic == Spec => []PacketsWholeOrCounted
<1>1. RingInv => PacketsWholeOrCounted
  BY DEF RingInv, PacketsWholeOrCounted, PacketsAreWhole, Whole, Counted, Begun
<1> QED BY <1>1, RingInvariance, PTL

-----------------------------------------------------------------------------
(* The ring implements the queue of TransmitQueue.                         *)

\* Where UART_SendStr is in its line.
InLine ==
  /\ main \in {"idle", "byte", "enable"}
  /\ main = "byte" => i < LineLen
  /\ main = "enable" => i >= 1 /\ i <= LineLen

QueueInv == RingInv /\ RestWaits /\ InLine

LEMMA QueueInvariance == Spec => []QueueInv
<1>1. Init => InLine
  BY UartTxAssumption DEF Init, InLine
<1>2. RingInv /\ InLine /\ [Next]_vars => InLine'
  <2> SUFFICES ASSUME RingInv, InLine, [Next]_vars PROVE InLine'
    OBVIOUS
  <2> USE UartTxAssumption DEF InLine
  <2>1. i \in Nat /\ LineLen \in Nat \ {0}
    BY DEF RingInv, Typed
  <2>2. CASE SendLine
    BY <2>1, <2>2 DEF SendLine
  <2>3. CASE MainSends
    BY <2>1, <2>3 DEF MainSends, EnqueueByte, EnableAfterByte
  <2>4. CASE Tim6Sends \/ Tim6Enables \/ AdcSends \/ Tx \/ Rx \/ ClearTxeie \/ Shift \/ UNCHANGED vars
    BY <2>4 DEF Tim6Sends, Tim6Enables, AdcSends, Tx, Rx, ClearTxeie, Shift, vars
  <2> QED BY <2>2, <2>3, <2>4 DEF Next
<1> QED BY <1>1, <1>2, RingInvariance, ContentsAreTheRest, PTL DEF Spec, QueueInv

LEMMA PutExtends ==
  ASSUME QueueInv, QueueInv', NEW bytes \in Seq(Bytes), Put(bytes), sent' = sent
  PROVE  Contents' = Contents \o bytes
<1> DEFINE u == Used
           w == Used'
           c == Contents
           d == Contents'
<1>0. /\ c \in Seq(Bytes) /\ Len(c) = u /\ u \in Nat /\ Len(enqueued) = Len(sent) + u
      /\ \A k \in 1..u : c[k] = enqueued[Len(sent) + k]
      /\ d \in Seq(Bytes) /\ Len(d) = w /\ w \in Nat /\ Len(enqueued') = Len(sent) + w
      /\ \A k \in 1..w : d[k] = enqueued'[Len(sent) + k]
  BY DEF QueueInv, RestWaits
<1>1. /\ enqueued \in Seq(Bytes) /\ Len(sent) \in Nat /\ Len(bytes) \in Nat
      /\ enqueued' = enqueued \o bytes
  BY LenProperties DEF QueueInv, RingInv, Typed, Put
<1> HIDE DEF u, w, c, d
<1>2. /\ Len(enqueued') = Len(enqueued) + Len(bytes)
      /\ \A k \in 1..(Len(enqueued) + Len(bytes)) :
           enqueued'[k] = IF k <= Len(enqueued) THEN enqueued[k] ELSE bytes[k - Len(enqueued)]
  BY <1>1, ConcatProperties
<1>3. w = u + Len(bytes) /\ Len(d) = u + Len(bytes)
  <2>1. /\ Len(enqueued) = Len(sent) + u /\ Len(enqueued') = Len(sent) + w
        /\ Len(d) = w /\ u \in Nat /\ w \in Nat
    BY <1>0
  <2>2. Len(enqueued') = Len(enqueued) + Len(bytes)
    BY <1>2
  <2>3. Len(sent) \in Nat /\ Len(bytes) \in Nat
    BY <1>1
  <2> QED BY ONLY <2>1, <2>2, <2>3
<1>4. /\ c \o bytes \in Seq(Bytes) /\ Len(c \o bytes) = u + Len(bytes)
      /\ \A k \in 1..(u + Len(bytes)) :
           (c \o bytes)[k] = IF k <= u THEN c[k] ELSE bytes[k - u]
  BY <1>0, ConcatProperties
<1>5. ASSUME NEW k \in 1..(u + Len(bytes)) PROVE d[k] = (c \o bytes)[k]
  <2>1. d[k] = enqueued'[Len(sent) + k]
    BY <1>0, <1>3
  <2>2. /\ Len(sent) + k \in 1..(Len(enqueued) + Len(bytes))
        /\ Len(sent) + k <= Len(enqueued) <=> k <= u
        /\ (Len(sent) + k) - Len(enqueued) = k - u
    BY <1>0, <1>1
  <2>3. enqueued'[Len(sent) + k] = IF k <= u THEN enqueued[Len(sent) + k] ELSE bytes[k - u]
    BY <1>2, <2>2
  <2>4. k <= u => c[k] = enqueued[Len(sent) + k]
    <3>1. k <= u => k \in 1..u
      OBVIOUS
    <3> QED BY <1>0, <3>1
  <2> QED BY <1>4, <2>1, <2>3, <2>4
<1> QED BY <1>0, <1>3, <1>4, <1>5, SeqEqual DEF c, d

LEMMA DrainTakes ==
  ASSUME QueueInv, QueueInv', enqueued' = enqueued, tx_head # tx_tail,
         sent' = Append(sent, tx_buf[tx_tail])
  PROVE  /\ Contents # <<>> /\ Contents' = Tail(Contents)
         /\ sent' = Append(sent, Head(Contents))
<1> USE DEF QueueInv, RestWaits
<1>1. Len(sent) \in Nat /\ Len(sent') = Len(sent) + 1
  BY LenProperties DEF RingInv, Typed
<1>2. Used > 0 /\ Used' = Used - 1
  <2>1. Used # 0
    <3>1. tx_head \in Slots /\ tx_tail \in Slots
      BY DEF RingInv, Typed
    <3> HIDE DEF QueueInv, RestWaits
    <3> QED BY <3>1, UartTxAssumption DEF Used, Ahead, Slots
  <2> QED BY <1>1, <2>1
<1>3. Contents # <<>>
  BY <1>2
<1>4. Head(Contents) = tx_buf[tx_tail]
  <2>1. tx_buf[tx_tail] = enqueued[Len(sent) + 1]
    <3>1. SlotAfter(tx_tail, 0) = tx_tail /\ 0 \in 0..(Used - 1)
      BY <1>2, UartTxAssumption DEF SlotAfter, Slots, RingInv, Typed
    <3>2. tx_buf[SlotAfter(tx_tail, 0)] = enqueued[Len(sent) + 0 + 1]
      BY <3>1 DEF RingInv, Waiting
    <3>3. Len(sent) + 0 + 1 = Len(sent) + 1
      BY <1>1
    <3> QED BY <3>1, <3>2, <3>3
  <2>2. Contents[1] = enqueued[Len(sent) + 1]
    BY <1>2
  <2>3. Head(Contents) = Contents[1]
    BY <1>3, HeadTailProperties
  <2> QED BY <2>1, <2>2, <2>3
<1>5. /\ Tail(Contents) \in Seq(Bytes) /\ Len(Tail(Contents)) = Used - 1
      /\ \A k \in 1..(Used - 1) : Tail(Contents)[k] = Contents[k + 1]
  BY <1>3, HeadTailProperties
<1>6. ASSUME NEW k \in 1..(Used - 1) PROVE Contents'[k] = Tail(Contents)[k]
  <2>1. Contents'[k] = enqueued[Len(sent') + k] /\ k + 1 \in 1..Used
    BY <1>2
  <2>2. Contents[k + 1] = enqueued[Len(sent) + (k + 1)]
    BY <2>1
  <2>3. Len(sent') + k = Len(sent) + (k + 1)
    BY <1>1
  <2> QED BY <1>5, <2>1, <2>2, <2>3
<1>7. Contents' \in Seq(Bytes) /\ Len(Contents') = Used - 1
  BY <1>2
<1> QED BY <1>3, <1>4, <1>5, <1>6, <1>7, SeqEqual

LEMMA ContentsStay == ASSUME UNCHANGED <<tx_buf, tx_head, tx_tail>> PROVE Contents' = Contents
BY DEF Contents

\* What the abstract queue sees.
Seen == <<Contents, sent, Written, [p \in Handlers |-> calls[p]], dropped>>

\* A handler offers a packet: the ring takes it whole or counts it.
LEMMA TrySendOffers ==
  ASSUME QueueInv, QueueInv', NEW p \in Handlers, TrySend(p),
         UNCHANGED <<tx_tail, main, i, sent>>
  PROVE  Queue!Offer(p)
<1> USE DEF QueueInv, RestWaits
<1>1. /\ calls' = [calls EXCEPT ![p] = calls[p] + 1] /\ calls \in [Producers -> Nat]
      /\ Handlers \subseteq Producers /\ p # "main"
  BY DEF TrySend, RingInv, Typed, Handlers, Producers
<1>2. [q \in Handlers |-> calls[q]]' = [[q \in Handlers |-> calls[q]] EXCEPT ![p] = @ + 1]
  BY <1>1
<1>3. Written' = Written
  BY <1>1 DEF Written, Producers
<1>4. Free >= PacketLen <=> Len(Contents) + PacketLen <= Size - 1
  <2>1. Free = Size - 1 - Used
    BY FreeIsTheRest DEF RingInv
  <2> QED BY <2>1, UartTxAssumption
<1>5. CASE Free >= PacketLen
  <2>1. Put(Packet(p)) /\ dropped' = dropped
    BY <1>5 DEF TrySend
  <2>2. Packet(p) \in Seq(Bytes)
    BY PacketIsBytes DEF RingInv
  <2>3. Contents' = Contents \o Packet(p)
    BY <2>1, <2>2, PutExtends
  <2>4. Packet(p) = [k \in 1..PacketLen |-> <<p, [q \in Handlers |-> calls[q]][p] + 1, k>>]
    BY DEF Packet, Byte
  <2> QED BY <1>2, <1>3, <1>4, <1>5, <2>1, <2>3, <2>4
          DEF Queue!Offer, Queue!Accept, Queue!Fits
<1>6. CASE ~(Free >= PacketLen)
  <2>1. dropped' = dropped + 1 /\ UNCHANGED <<tx_buf, tx_head>>
    BY <1>6 DEF TrySend, ring
  <2>2. Contents' = Contents
    BY <2>1, ContentsStay
  <2> QED BY <1>2, <1>3, <1>4, <1>6, <2>1, <2>2
          DEF Queue!Offer, Queue!Refuse, Queue!Fits
<1> QED BY <1>5, <1>6

\* A byte of a line is the next one.
LEMMA EnqueueWrites == ASSUME QueueInv, QueueInv', EnqueueByte PROVE Queue!Write
<1> USE DEF QueueInv, RestWaits
<1> DEFINE b == Byte("main", calls["main"], i + 1)
<1>1. /\ HasRoom /\ Put(<<b>>) /\ main = "byte" /\ main' = "enable" /\ i' = i + 1
      /\ UNCHANGED <<tx_tail, dropped, calls, sent>>
  BY DEF EnqueueByte
<1>2. i \in Nat /\ i < LineLen /\ calls["main"] \in Nat
  BY <1>1 DEF InLine, RingInv, Typed, Producers
<1>3. <<b>> \in Seq(Bytes)
  BY <1>2 DEF Byte, Bytes, Producers
<1>4. Contents' = Contents \o <<b>>
  BY <1>1, <1>3, PutExtends
<1>5. Len(Contents) + 1 <= Size - 1
  <2>1. Free = Size - 1 - Used /\ Free >= 1
    BY <1>1, FreeIsTheRest, RoomIsFree DEF RingInv
  <2> QED BY <2>1, UartTxAssumption
<1>6. Written' = <<calls["main"], i + 1>>
  <2>1. i + 1 # 0
    BY <1>2
  <2> QED BY <1>1, <2>1 DEF Written
<1>7. Written' = IF Written[2] = LineLen THEN <<Written[1] + 1, 1>>
                 ELSE <<Written[1], Written[2] + 1>>
  <2>1. CASE i = 0
    <3>1. Written = <<calls["main"] - 1, LineLen>>
      BY <1>1, <2>1 DEF Written
    <3> QED BY <1>2, <1>6, <2>1, <3>1
  <2>2. CASE i # 0
    <3>1. Written = <<calls["main"], i>>
      BY <1>1, <2>2 DEF Written
    <3> QED BY <1>2, <1>6, <3>1, UartTxAssumption
  <2> QED BY <2>1, <2>2
<1>8. b = <<"main", Written'[1], Written'[2]>>
  BY <1>6 DEF Byte
<1> QED BY <1>1, <1>4, <1>5, <1>7, <1>8 DEF Queue!Write, Queue!NextByte, Queue!Fits

LEMMA DrainTransmits ==
  ASSUME QueueInv, QueueInv', Drain, UNCHANGED <<tx_buf, tx_head, main, i, calls, dropped, enqueued>>
  PROVE  Queue!Transmit \/ Seen' = Seen
<1>1. Written' = Written /\ [q \in Handlers |-> calls[q]]' = [q \in Handlers |-> calls[q]]
  BY DEF Written
<1>2. CASE txe /\ tx_head # tx_tail
  <2>1. sent' = Append(sent, tx_buf[tx_tail])
    BY <1>2 DEF Drain
  <2>2. /\ Contents # <<>> /\ Contents' = Tail(Contents)
        /\ sent' = Append(sent, Head(Contents))
    BY <1>2, <2>1, DrainTakes
  <2> QED BY <1>1, <2>2 DEF Queue!Transmit
<1>3. CASE ~(txe /\ tx_head # tx_tail)
  <2>1. UNCHANGED <<tx_tail, sent>>
    BY <1>3 DEF Drain
  <2>2. Contents' = Contents
    BY <2>1, ContentsStay
  <2> QED BY <1>1, <2>1, <2>2 DEF Seen
<1> QED BY <1>2, <1>3

\* Each step of the code is one operation of the queue or none, for every size of
\* ring, line and packet (uart.c:165-209, 348-379).
THEOREM ImplementsTransmitQueue == Spec => TransmitQueueSpec
<1>1. Init => Queue!Init
  <2> SUFFICES ASSUME Init PROVE Queue!Init
    OBVIOUS
  <2>1. Used = 0 /\ (tx_head - tx_tail + Size) % Size = 0
    <3>1. (tx_head - tx_tail + Size) % Size = Ahead(tx_tail, tx_head)
      BY WrapsAhead, UartTxAssumption DEF Init, Slots
    <3> QED BY <3>1, UartTxAssumption DEF Init, Used, Ahead
  <2>2. Contents = <<>>
    BY <2>1 DEF Contents
  <2>3. Written = <<0, LineLen>> /\ [p \in Handlers |-> calls[p]] = [p \in Handlers |-> 0]
    BY DEF Init, Written, Producers, Handlers
  <2> QED BY <2>2, <2>3 DEF Init, Queue!Init
<1>2. QueueInv /\ QueueInv' /\ [Next]_vars => [Queue!Next]_Seen
  <2> SUFFICES ASSUME QueueInv, QueueInv', [Next]_vars PROVE Queue!Next \/ Seen' = Seen
    OBVIOUS
  <2>1. CASE EnqueueByte
    BY <2>1, EnqueueWrites DEF Queue!Next
  <2>2. CASE Tim6Sends \/ AdcSends
    <3>1. \E p \in Handlers : TrySend(p) /\ UNCHANGED <<tx_tail, main, i, sent>>
      BY <2>2 DEF Tim6Sends, AdcSends, Handlers
    <3> QED BY <3>1, TrySendOffers DEF Queue!Next
  <2>3. CASE Tx \/ Rx
    BY <2>3, DrainTransmits DEF Tx, Rx, ring, Queue!Next
  <2>4. CASE SendLine
    <3>1. /\ UNCHANGED <<tx_buf, tx_head, tx_tail, sent, dropped>>
          /\ main = "idle" /\ main' = "byte" /\ i' = 0
          /\ calls' = [calls EXCEPT !["main"] = calls["main"] + 1]
      BY <2>4 DEF SendLine, ring
    <3>2. calls["main"] \in Nat /\ calls'["main"] = calls["main"] + 1
          /\ \A p \in Handlers : calls'[p] = calls[p]
      BY <3>1 DEF QueueInv, RingInv, Typed, Producers, Handlers
    <3>3. Written' = Written
      <4>1. Written = <<calls["main"], LineLen>> /\ Written' = <<calls'["main"] - 1, LineLen>>
        BY <3>1 DEF Written
      <4> QED BY <3>2, <4>1
    <3>4. Contents' = Contents
      BY <3>1, ContentsStay
    <3> QED BY <3>1, <3>2, <3>3, <3>4 DEF Seen
  <2>5. CASE EnableAfterByte
    <3>1. /\ UNCHANGED <<tx_buf, tx_head, tx_tail, sent, dropped, calls, i>>
          /\ main = "enable" /\ main' = IF i = LineLen THEN "idle" ELSE "byte"
      BY <2>5 DEF EnableAfterByte, ring
    <3>2. i # 0
      BY <3>1 DEF QueueInv, InLine, RingInv, Typed
    <3>3. Written' = Written
      BY <3>1, <3>2 DEF Written
    <3>4. Contents' = Contents
      BY <3>1, ContentsStay
    <3> QED BY <3>1, <3>3, <3>4 DEF Seen
  <2>6. CASE Tim6Enables \/ ClearTxeie \/ Shift \/ UNCHANGED vars
    <3>1. UNCHANGED <<tx_buf, tx_head, tx_tail, sent, dropped, calls, i, main>>
      BY <2>6 DEF Tim6Enables, ClearTxeie, Shift, ring, vars
    <3>2. Contents' = Contents
      BY <3>1, ContentsStay
    <3> QED BY <3>1, <3>2 DEF Seen, Written
  <2> QED BY <2>1, <2>2, <2>3, <2>4, <2>5, <2>6 DEF Next, MainSends
<1> QED BY <1>1, <1>2, QueueInvariance, PTL DEF Spec, TransmitQueueSpec, Queue!Spec, Seen
=============================================================================
