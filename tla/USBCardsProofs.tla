---------------------------- MODULE USBCardsProofs ----------------------------
(***************************************************************************)
(* The master cards of a USB expansion card, for any number of cards,      *)
(* slots, inputs, outputs and displays, and packets of any size.            *)
(***************************************************************************)
EXTENDS USBCards, DataLemmas

-----------------------------------------------------------------------------
(* The slots and their ranks.                                               *)

LEMMA SlotsFacts ==
    /\ Slots \in SUBSET Nat /\ IsFiniteSet(Slots)
    /\ \E n \in Int : Slots = 0 .. n
<1>1. PICK n \in Int : n = MAXMASTERCARDS * SlotsPerCard - 1
  BY USBAssumption
<1>2. Slots = 0 .. n
  BY <1>1 DEF Slots
<1>. QED
  BY <1>2, FS_Interval

LEMMA RankFacts ==
    ASSUME NEW S \in SUBSET Slots, NEW x \in Slots
    PROVE  /\ IsFiniteSet(S) /\ Cardinality(S) \in Nat /\ Rank(x, S) \in Nat
           /\ x \in S => Rank(x, S) < Cardinality(S)
           /\ \A y \in Slots : x <= y => Rank(x, S) <= Rank(y, S)
<1>1. IsFiniteSet(S) /\ Cardinality(S) \in Nat
  BY SlotsFacts, FS_Subset, FS_CardinalityType
<1>2. ASSUME NEW y \in Slots
      PROVE  /\ Before(S, y) \in SUBSET S /\ IsFiniteSet(Before(S, y))
             /\ Rank(y, S) = Cardinality(Before(S, y)) /\ Rank(y, S) \in Nat
  <2>1. Before(S, y) \in SUBSET S
    BY DEF Before
  <2>2. IsFiniteSet(Before(S, y)) /\ Cardinality(Before(S, y)) \in Nat
    BY <1>1, <2>1, FS_Subset, FS_CardinalityType
  <2>3. Rank(y, S) = Cardinality(Before(S, y))
    BY DEF Rank, Before
  <2>. QED
    BY <2>1, <2>2, <2>3
<1>3. ASSUME x \in S PROVE Rank(x, S) < Cardinality(S)
  <2>1. Before(S, x) # S
    BY <1>3, SlotsFacts DEF Before
  <2>. QED
    BY <1>1, <1>2, <2>1, FS_Subset
<1>4. ASSUME NEW y \in Slots, x <= y PROVE Rank(x, S) <= Rank(y, S)
  <2>1. Before(S, x) \in SUBSET Before(S, y)
    <3>1. x \in Nat /\ y \in Nat /\ \A h \in S : h \in Nat
      BY SlotsFacts
    <3>2. ASSUME NEW h \in S, h < x PROVE h < y
      BY <1>4, <3>1, <3>2
    <3>. QED
      BY <3>2 DEF Before
  <2>2. IsFiniteSet(Before(S, y))
    BY <1>2
  <2>3. Cardinality(Before(S, x)) <= Cardinality(Before(S, y))
    BY <2>1, <2>2, FS_Subset
  <2>. QED
    BY <1>2, <2>3
<1>. QED
  BY <1>1, <1>2, <1>3, <1>4

(* The slot with a rank.                                                    *)
LEMMA AtFacts ==
    ASSUME NEW S \in SUBSET Slots, NEW k \in Nat, k < Cardinality(S)
    PROVE  At(k, S) \in S /\ Rank(At(k, S), S) = k
<1>1. PICK n \in Int : Slots = 0 .. n
  BY SlotsFacts
<1>2. \E j \in S : Cardinality(Before(S, j)) = k
  <2>1. \A h \in S : h \in 0 .. n
    BY <1>1
  <2>. QED
    BY <2>1, RankOnto
<1>3. \E j \in S : Rank(j, S) = k
  BY <1>2 DEF Rank, Before
<1>. QED
  BY <1>3 DEF At

-----------------------------------------------------------------------------
(* The reports.                                                             *)

LEMMA BytesOfFacts ==
    ASSUME TypeOK, NEW S \in SUBSET Slots
    PROVE  BytesOf(S) \in Seq(Byte)
<1>. DEFINE n == Cardinality(S)
            m == (n + BitsPerByte - 1) \div BitsPerByte
            Places == 0 .. BitsPerByte - 1
            byte1(k) == [b \in Places |-> level[<<At(k - 1, S), b>>]]
            byte2(k) == [b \in Places |->
                LET r == (k - 1) * BitsPerByte + b
                IN  IF r < n THEN level[<<At(r, S), BitsPerByte>>] ELSE 0]
            A == [k \in 1 .. n |-> byte1(k)]
            B == [k \in 1 .. m |-> byte2(k)]
<1>1. n \in Nat
  BY SlotsFacts, FS_Subset, FS_CardinalityType
<1>2. m \in Nat
  <2>1. n + BitsPerByte - 1 \in Nat /\ BitsPerByte \in Nat \ {0}
    BY <1>1, USBAssumption
  <2>. HIDE DEF n
  <2>. QED
    BY <2>1, DivNat
<1>3. \A x \in Slots, b \in 0 .. BitsPerByte : level[<<x, b>>] \in Bit
  BY DEF TypeOK, Inputs
<1>4. \A k \in Nat : k < n => At(k, S) \in Slots
  BY AtFacts
<1>5. ASSUME NEW k \in 1 .. n PROVE byte1(k) \in Byte
  <2>1. k - 1 \in Nat /\ k - 1 < n
    BY <1>1
  <2>2. At(k - 1, S) \in Slots
    BY <1>4, <2>1
  <2>3. \A b \in Places : level[<<At(k - 1, S), b>>] \in Bit
    BY <1>3, <2>2, USBAssumption
  <2>. QED
    BY <2>3 DEF Byte
<1>6. ASSUME NEW k \in 1 .. m PROVE byte2(k) \in Byte
  <2>1. ASSUME NEW b \in Places, (k - 1) * BitsPerByte + b < n
        PROVE  level[<<At((k - 1) * BitsPerByte + b, S), BitsPerByte>>] \in Bit
    <3>1. PICK r \in Nat : r = (k - 1) * BitsPerByte + b
      BY <1>2, USBAssumption
    <3>2. At(r, S) \in Slots
      BY <1>4, <2>1, <3>1
    <3>3. BitsPerByte \in 0 .. BitsPerByte
      BY USBAssumption
    <3>. QED
      BY <1>3, <3>1, <3>2, <3>3
  <2>2. 0 \in Bit
    BY DEF Bit
  <2>. HIDE DEF n
  <2>. QED
    BY <2>1, <2>2 DEF Byte
<1>7. A \in Seq(Byte)
  <2>. HIDE DEF n, byte1
  <2>. QED
    BY <1>1, <1>5
<1>8. B \in Seq(Byte)
  <2>. HIDE DEF m, byte2
  <2>. QED
    BY <1>2, <1>6
<1>9. BytesOf(S) = A \o B
  BY DEF BytesOf
<1>. HIDE DEF A, B
<1>. QED
  BY <1>7, <1>8, <1>9

(* There is room in the first packet for a byte for each card.              *)
LEMMA RoomFacts ==
    ASSUME NEW S \in SUBSET Slots
    PROVE  /\ Cardinality({CardOf(x) : x \in S}) \in Nat
           /\ Cardinality({CardOf(x) : x \in S}) <= MAXMASTERCARDS
<1>. DEFINE C == {CardOf(x) : x \in S}
<1>1. C \in SUBSET (0 .. MAXMASTERCARDS - 1)
  <2>1. ASSUME NEW x \in S PROVE CardOf(x) \in 0 .. MAXMASTERCARDS - 1
    <3>1. x \in Nat /\ x < MAXMASTERCARDS * SlotsPerCard
      BY USBAssumption DEF Slots
    <3>2. SlotsPerCard \in Nat \ {0} /\ MAXMASTERCARDS \in Nat
      BY USBAssumption
    <3>3. PICK q \in Nat : q = x \div SlotsPerCard
      BY <3>1, <3>2, DivNat
    <3>4. x = SlotsPerCard * q + (x % SlotsPerCard) /\ x % SlotsPerCard \in 0 .. SlotsPerCard - 1
      BY <3>1, <3>2, <3>3, DivMod
    <3>5. q < MAXMASTERCARDS
      <4>1. SUFFICES ASSUME q >= MAXMASTERCARDS PROVE FALSE
        BY <3>2
      <4>2. SlotsPerCard * q >= SlotsPerCard * MAXMASTERCARDS
        BY <3>2, <4>1
      <4>. QED
        BY <3>1, <3>2, <3>4, <4>2
    <3>. QED
      BY <3>2, <3>3, <3>5 DEF CardOf
  <2>. QED
    BY <2>1
<1>2. IsFiniteSet(0 .. MAXMASTERCARDS - 1) /\ Cardinality(0 .. MAXMASTERCARDS - 1) = MAXMASTERCARDS
  BY USBAssumption, FS_Interval
<1>. HIDE DEF C
<1>3. IsFiniteSet(C) /\ Cardinality(C) <= MAXMASTERCARDS
  BY <1>1, <1>2, FS_Subset
<1>. QED
  BY <1>3, FS_CardinalityType DEF C

LEMMA PartOfSequence ==
    ASSUME NEW S, NEW q \in Seq(S), NEW a \in Nat \ {0}, NEW b \in Nat, a <= b + 1, b <= Len(q)
    PROVE  SubSeq(q, a, b) \in Seq(S) /\ Len(SubSeq(q, a, b)) = b + 1 - a
OBVIOUS

LEMMA ReportFacts ==
    ASSUME TypeOK, NEW S \in SUBSET Slots, NEW v \in Readings, NEW w \in Readings
    PROVE  Report(S, v, w) \in Seq(Packet)
<1>1. PICK q \in Seq(Byte) : q = BytesOf(S)
  BY BytesOfFacts
<1>2. PICK cards \in Nat : cards = Cardinality({CardOf(x) : x \in S}) /\ cards <= MAXMASTERCARDS
  BY RoomFacts
<1>3. PICK n \in Nat : n = Len(q)
  OBVIOUS
<1>4. PICK room \in Nat \ {0} :
        room = IF w = INITVAL THEN PacketSize - 1 ELSE PacketSize - 2
  BY USBAssumption
<1>5. PICK first \in Nat :
        first = (IF v = INITVAL THEN PacketSize - 1 ELSE PacketSize - 2) - cards
  <2>1. MAXMASTERCARDS \in Nat /\ PacketSize \in Nat /\ PacketSize > MAXMASTERCARDS + 1
    BY USBAssumption
  <2>2. PacketSize - 1 - cards \in Nat /\ PacketSize - 2 - cards \in Nat
    BY <1>2, <2>1
  <2>. QED
    BY <2>2
<1>6. PICK more \in Nat : more = (IF n <= first THEN 0 ELSE (n - first + room - 1) \div room)
  <2>1. CASE n <= first
    BY <2>1
  <2>2. CASE n > first
    <3>1. n - first + room - 1 \in Nat
      BY <2>2
    <3>2. (n - first + room - 1) \div room \in Nat
      BY <3>1, DivNat
    <3>. QED
      BY <2>2, <3>2
  <2>. QED
    BY <2>1, <2>2
<1>. DEFINE Upto(k) == IF first + k * room <= n THEN first + k * room ELSE n
            packet(k) == [cont |-> k > 1, axis |-> IF k = 1 THEN v ELSE w,
                slots |-> IF k = 1 THEN S ELSE {},
                bytes |-> IF k = 1 THEN SubSeq(q, 1, Upto(0))
                          ELSE SubSeq(q, Upto(k - 2) + 1, Upto(k - 1))]
<1>7. Report(S, v, w) = [k \in 1 .. more + 1 |-> packet(k)]
  BY <1>1, <1>2, <1>3, <1>4, <1>5, <1>6 DEF Report
<1>8. \A k \in Nat : Upto(k) \in Nat /\ Upto(k) <= n /\ Upto(k) <= Upto(k + 1)
  <2>. TAKE k \in Nat
  <2>1. k * room \in Nat /\ (k + 1) * room = k * room + room
    OBVIOUS
  <2>. QED
    BY <2>1
<1>9. ASSUME NEW k \in 1 .. more + 1 PROVE packet(k) \in Packet
  <2>1. (k > 1) \in BOOLEAN /\ S \in SUBSET Slots /\ {} \in SUBSET Slots
    BY DEF Readings
  <2>2. CASE k = 1
    <3>1. SubSeq(q, 1, Upto(0)) \in Seq(Byte)
      <4>1. Upto(0) \in Nat /\ Upto(0) <= Len(q)
        BY <1>3, <1>8
      <4>. HIDE DEF Upto
      <4>. QED
        BY <4>1, PartOfSequence
    <3>. QED
      BY <2>1, <2>2, <3>1 DEF Packet
  <2>3. CASE k # 1
    <3>1. SubSeq(q, Upto(k - 2) + 1, Upto(k - 1)) \in Seq(Byte)
      <4>1. k - 2 \in Nat /\ k - 1 \in Nat /\ (k - 2) + 1 = k - 1
        BY <2>3
      <4>2. /\ Upto(k - 2) \in Nat /\ Upto(k - 1) \in Nat
            /\ Upto(k - 2) <= Upto(k - 1) /\ Upto(k - 1) <= Len(q)
        <5>. HIDE DEF Upto
        <5>1. Upto(k - 2) \in Nat /\ Upto(k - 2) <= Upto((k - 2) + 1)
          BY <1>8, <4>1, Zenon
        <5>2. Upto(k - 1) \in Nat /\ Upto(k - 1) <= n
          BY <1>8, <4>1, Zenon
        <5>3. Upto((k - 2) + 1) = Upto(k - 1)
          BY <4>1, Zenon
        <5>. QED
          BY <1>3, <5>1, <5>2, <5>3
      <4>. HIDE DEF Upto
      <4>3. PICK a \in Nat \ {0} : a = Upto(k - 2) + 1
        BY <4>2
      <4>4. PICK b \in Nat : b = Upto(k - 1)
        BY <4>2
      <4>5. a <= b + 1 /\ b <= Len(q)
        BY <4>2, <4>3, <4>4
      <4>. QED
        BY <4>3, <4>4, <4>5, PartOfSequence
    <3>. QED
      BY <2>1, <2>3, <3>1 DEF Packet
  <2>. QED
    BY <2>2, <2>3
<1>. HIDE DEF packet
<1>. QED
  BY <1>7, <1>9

-----------------------------------------------------------------------------
(* What a packet of n bytes does to slots with the data d.                  *)

Lacking(d) == {x \in Slots : d[x] = 1}
Firsts(d, n) == {x \in Lacking(d) : Rank(x, Lacking(d)) < n}
Nines(d, n) ==
    IF n > Cardinality(Lacking(d)) THEN {x \in Slots : d[x] = 2} \cup Firsts(d, n) ELSE {}
NineByteOf(d, n, x) == Cardinality(Lacking(d)) + Rank(x, Nines(d, n)) \div BitsPerByte + 1
Lasts(d, n) == {x \in Nines(d, n) : NineByteOf(d, n, x) <= n}
Finished(d) == Cardinality({x \in Slots : d[x] = 3})
SlotdataOf(d, n) ==
    [x \in Slots |-> IF x \in Lasts(d, n) THEN 3 ELSE IF x \in Firsts(d, n) THEN 2 ELSE d[x]]
InputsOf(d, bytes) ==
    [i \in Inputs |->
        IF i \in Defined /\ i[2] < BitsPerByte /\ i[1] \in Firsts(d, Len(bytes))
        THEN bytes[Rank(i[1], Lacking(d)) + 1][i[2]]
        ELSE IF i \in Defined /\ i[2] = BitsPerByte /\ i[1] \in Lasts(d, Len(bytes))
        THEN bytes[NineByteOf(d, Len(bytes), i[1])]
                  [LastBit(i[1], Nines(d, Len(bytes)), Finished(d))]
        ELSE inputs[i]]

LEMMA DecodedParts ==
    ASSUME NEW p
    PROVE  /\ Decoded(p).slotdata = SlotdataOf(Present(p), Len(p.bytes))
           /\ Decoded(p).inputs = InputsOf(Present(p), p.bytes)
BY DEF Decoded, SlotdataOf, InputsOf, Lacking, Firsts, Nines, NineByteOf, Lasts, Finished

SlotTypes(d) == d \in [Slots -> 0 .. 3]

(* A slot is not read to the end before the slots before it.                *)
InOrder(d) == \A x, y \in Slots : x < y /\ d[x] # 0 => d[y] <= d[x]

LEMMA PresentFacts ==
    ASSUME TypeOK, NEW p
    PROVE  SlotTypes(Present(p)) /\ InOrder(Present(p))
<1>1. CASE p.cont
  BY <1>1 DEF Present, TypeOK, SlotTypes, InOrder
<1>2. CASE ~p.cont
  BY <1>2 DEF Present, SlotTypes, InOrder
<1>. QED
  BY <1>1, <1>2

(* Where the bytes of a slot are.                                           *)
LEMMA PlacesInPacket ==
    ASSUME NEW d, SlotTypes(d), NEW n \in Nat
    PROVE  /\ Lacking(d) \in SUBSET Slots /\ Nines(d, n) \in SUBSET Slots
           /\ \A x \in Firsts(d, n) : x \in Slots /\ d[x] = 1 /\ Rank(x, Lacking(d)) + 1 \in 1 .. n
           /\ \A x \in Nines(d, n) : x \in Slots /\ (d[x] = 2 \/ x \in Firsts(d, n))
           /\ \A x \in Slots : NineByteOf(d, n, x) \in Nat \ {0}
           /\ \A x, y \in Slots : x <= y => NineByteOf(d, n, x) <= NineByteOf(d, n, y)
           /\ \A x \in Lasts(d, n) : x \in Nines(d, n) /\ NineByteOf(d, n, x) \in 1 .. n
<1>1. Lacking(d) \in SUBSET Slots
  BY DEF Lacking
<1>2. ASSUME NEW x \in Firsts(d, n)
      PROVE  x \in Slots /\ d[x] = 1 /\ Rank(x, Lacking(d)) + 1 \in 1 .. n
  <2>1. x \in Slots /\ d[x] = 1 /\ Rank(x, Lacking(d)) < n
    BY DEF Firsts, Lacking
  <2>2. Rank(x, Lacking(d)) \in Nat
    BY <1>1, <2>1, RankFacts
  <2>. QED
    BY <2>1, <2>2
<1>3. \A x \in Nines(d, n) : x \in Slots /\ (d[x] = 2 \/ x \in Firsts(d, n))
  BY <1>2 DEF Nines
<1>4. Nines(d, n) \in SUBSET Slots
  BY <1>3
<1>5. BitsPerByte \in Nat \ {0}
  BY USBAssumption
<1>6. Cardinality(Lacking(d)) \in Nat
  BY <1>1, SlotsFacts, FS_Subset, FS_CardinalityType
<1>7. ASSUME NEW x \in Slots, NEW y \in Slots, x <= y
      PROVE  /\ NineByteOf(d, n, x) \in Nat \ {0} /\ NineByteOf(d, n, y) \in Nat \ {0}
             /\ NineByteOf(d, n, x) <= NineByteOf(d, n, y)
  <2>1. PICK r \in Nat : r = Rank(x, Nines(d, n))
    BY <1>4, RankFacts
  <2>2. PICK s \in Nat : s = Rank(y, Nines(d, n))
    BY <1>4, RankFacts
  <2>3. r <= s
    BY <1>4, <1>7, <2>1, <2>2, RankFacts
  <2>4. r \div BitsPerByte <= s \div BitsPerByte
    BY <1>5, <2>3, DivMonotone
  <2>5. r \div BitsPerByte \in Nat /\ s \div BitsPerByte \in Nat
    BY <1>5, DivNat
  <2>. QED
    BY <1>6, <2>1, <2>2, <2>4, <2>5 DEF NineByteOf
<1>8. ASSUME NEW x \in Lasts(d, n)
      PROVE  x \in Nines(d, n) /\ NineByteOf(d, n, x) \in 1 .. n
  <2>1. x \in Nines(d, n) /\ NineByteOf(d, n, x) <= n
    BY DEF Lasts
  <2>2. x \in Slots /\ x <= x
    BY <1>4, <2>1, SlotsFacts
  <2>3. NineByteOf(d, n, x) \in Nat \ {0}
    BY <1>7, <2>2
  <2>. QED
    BY <2>1, <2>3
<1>9. \A x \in Slots : NineByteOf(d, n, x) \in Nat \ {0}
  <2>. TAKE x \in Slots
  <2>1. x <= x
    BY SlotsFacts
  <2>. QED
    BY <1>7, <2>1
<1>. QED
  BY <1>1, <1>2, <1>3, <1>4, <1>7, <1>8, <1>9

(* The slots stay in order: of the slots that lack a byte, and of those     *)
(* that lack their last input, the ones at the front get theirs.            *)
LEMMA StillInOrder ==
    ASSUME NEW d, SlotTypes(d), InOrder(d), NEW n \in Nat
    PROVE  SlotTypes(SlotdataOf(d, n)) /\ InOrder(SlotdataOf(d, n))
<1>1. SlotTypes(SlotdataOf(d, n))
  BY DEF SlotTypes, SlotdataOf
<1>2. ASSUME NEW x \in Slots, NEW y \in Slots, x < y, SlotdataOf(d, n)[x] # 0
      PROVE  SlotdataOf(d, n)[y] <= SlotdataOf(d, n)[x]
  <2>0. x \in Nat /\ y \in Nat /\ x <= y
    BY <1>2, SlotsFacts
  <2>1. d[x] \in 0 .. 3 /\ d[y] \in 0 .. 3
    BY DEF SlotTypes
  <2>2. d[x] # 0
    <3>1. x \in Lasts(d, n) => d[x] # 0
      BY PlacesInPacket
    <3>2. x \in Firsts(d, n) => d[x] # 0
      BY PlacesInPacket
    <3>. QED
      BY <1>2, <3>1, <3>2 DEF SlotdataOf
  <2>3. d[y] <= d[x]
    BY <1>2, <2>2 DEF InOrder
  <2>4. d[x] = 1 /\ y \in Firsts(d, n) => x \in Firsts(d, n)
    <3>. SUFFICES ASSUME d[x] = 1, y \in Firsts(d, n) PROVE x \in Firsts(d, n)
      OBVIOUS
    <3>1. x \in Lacking(d) /\ Lacking(d) \in SUBSET Slots
      BY DEF Lacking
    <3>2. Rank(x, Lacking(d)) <= Rank(y, Lacking(d)) /\ Rank(x, Lacking(d)) \in Nat
      BY <2>0, <3>1, RankFacts
    <3>3. Rank(y, Lacking(d)) < n /\ Rank(y, Lacking(d)) \in Nat
      BY <3>1, RankFacts DEF Firsts
    <3>. QED
      BY <3>1, <3>2, <3>3 DEF Firsts
  <2>5. y \in Lasts(d, n) => x \in Lasts(d, n) \/ d[x] = 3
    <3>. SUFFICES ASSUME y \in Lasts(d, n), d[x] # 3 PROVE x \in Lasts(d, n)
      OBVIOUS
    <3>1. y \in Nines(d, n) /\ NineByteOf(d, n, y) \in 1 .. n
      BY PlacesInPacket
    <3>2. n > Cardinality(Lacking(d))
      BY <3>1 DEF Nines
    <3>3. x \in Nines(d, n)
      <4>1. CASE d[x] = 2
        BY <3>2, <4>1 DEF Nines
      <4>2. CASE d[x] = 1
        <5>1. x \in Lacking(d) /\ Lacking(d) \in SUBSET Slots
          BY <4>2 DEF Lacking
        <5>2. Rank(x, Lacking(d)) < Cardinality(Lacking(d)) /\ Rank(x, Lacking(d)) \in Nat
              /\ Cardinality(Lacking(d)) \in Nat
          BY <5>1, RankFacts
        <5>3. Rank(x, Lacking(d)) < n
          BY <3>2, <5>2
        <5>. QED
          BY <3>2, <5>1, <5>3 DEF Nines, Firsts
      <4>. QED
        BY <2>1, <2>2, <4>1, <4>2
    <3>4. NineByteOf(d, n, x) <= NineByteOf(d, n, y) /\ NineByteOf(d, n, x) \in Nat
      BY <2>0, PlacesInPacket
    <3>5. NineByteOf(d, n, x) <= n
      BY <3>1, <3>4
    <3>. QED
      BY <3>3, <3>5 DEF Lasts
  <2>6. y \in Firsts(d, n) => d[y] = 1
    BY PlacesInPacket
  <2>7. SlotdataOf(d, n)[y] = IF y \in Lasts(d, n) THEN 3 ELSE IF y \in Firsts(d, n) THEN 2 ELSE d[y]
    BY DEF SlotdataOf
  <2>8. SlotdataOf(d, n)[x] = IF x \in Lasts(d, n) THEN 3 ELSE IF x \in Firsts(d, n) THEN 2 ELSE d[x]
    BY DEF SlotdataOf
  <2>9. x \in Firsts(d, n) => d[x] = 1
    BY PlacesInPacket
  <2>10. x \in Lasts(d, n) => d[x] = 2 \/ d[x] = 1
    BY <2>9, PlacesInPacket
  <2>. QED
    BY <2>1, <2>2, <2>3, <2>4, <2>5, <2>6, <2>7, <2>8, <2>9, <2>10
<1>. QED
  BY <1>1, <1>2 DEF InOrder

LEMMA InputsOfFacts ==
    ASSUME TypeOK, NEW d, SlotTypes(d), NEW bytes \in Seq(Byte)
    PROVE  InputsOf(d, bytes) \in [Inputs -> Bit]
<1>. DEFINE n == Len(bytes)
<1>1. n \in Nat
  OBVIOUS
<1>2. \A k \in 1 .. n, b \in 0 .. BitsPerByte - 1 : bytes[k][b] \in Bit
  <2>1. \A k \in 1 .. n : bytes[k] \in Byte
    OBVIOUS
  <2>. HIDE DEF n
  <2>. QED
    BY <2>1 DEF Byte
<1>3. ASSUME NEW i \in Inputs, i[2] < BitsPerByte, i[1] \in Firsts(d, n)
      PROVE  bytes[Rank(i[1], Lacking(d)) + 1][i[2]] \in Bit
  <2>1. Rank(i[1], Lacking(d)) + 1 \in 1 .. n
    BY <1>1, <1>3, PlacesInPacket
  <2>2. i[2] \in 0 .. BitsPerByte - 1
    BY <1>3, USBAssumption DEF Inputs
  <2>. QED
    BY <1>2, <2>1, <2>2
<1>4. ASSUME NEW i \in Inputs, i[1] \in Lasts(d, n)
      PROVE  bytes[NineByteOf(d, n, i[1])][LastBit(i[1], Nines(d, n), Finished(d))] \in Bit
  <2>1. NineByteOf(d, n, i[1]) \in 1 .. n
    BY <1>1, <1>4, PlacesInPacket
  <2>2. LastBit(i[1], Nines(d, n), Finished(d)) \in 0 .. BitsPerByte - 1
    <3>1. i[1] \in Slots
      BY DEF Inputs
    <3>2. Nines(d, n) \in SUBSET Slots
      BY <1>1, PlacesInPacket
    <3>3. Rank(i[1], Nines(d, n)) \in Nat
      BY <3>1, <3>2, RankFacts
    <3>4. Finished(d) \in Nat
      <4>1. {x \in Slots : d[x] = 3} \in SUBSET Slots
        OBVIOUS
      <4>. QED
        BY <4>1, SlotsFacts, FS_Subset, FS_CardinalityType DEF Finished
    <3>5. PICK a \in Nat : a = Finished(d) + Rank(i[1], Nines(d, n))
      BY <3>3, <3>4
    <3>6. a % BitsPerByte \in 0 .. BitsPerByte - 1
      BY USBAssumption
    <3>. QED
      BY <3>5, <3>6 DEF LastBit
  <2>. QED
    BY <1>2, <2>1, <2>2
<1>5. \A i \in Inputs : inputs[i] \in Bit
  BY DEF TypeOK
<1>. HIDE DEF n
<1>. QED
  BY <1>3, <1>4, <1>5 DEF InputsOf, n

-----------------------------------------------------------------------------
(* The displays.                                                            *)

(* pow(10, k) as the recursive function defines it.                         *)
LEMMA PowerFacts ==
    /\ Power[0] = 1
    /\ \A k \in 1 .. ndisplays : Power[k] = 10 * Power[k - 1]
    /\ \A k \in 0 .. ndisplays : Power[k] \in Nat \ {0}
<1>0. ndisplays \in Nat \ {0}
  BY USBAssumption
<1>. DEFINE Body(f, m) == [k \in 0 .. m |-> IF k = 0 THEN 1 ELSE 10 * f[k - 1]]
            Starts == {m \in 0 .. ndisplays : \E f : f = Body(f, m)}
<1>1. 0 \in Starts
  <2>0. PICK f : f = [k \in 0 .. 0 |-> 1]
    OBVIOUS
  <2>1. f = Body(f, 0)
    <3>1. \A k \in 0 .. 0 : (IF k = 0 THEN 1 ELSE 10 * f[k - 1]) = 1
      OBVIOUS
    <3>. QED
      BY <2>0, <3>1
  <2>. QED
    BY <1>0, <2>1
<1>2. ASSUME NEW m \in 0 .. ndisplays - 1, m \in Starts PROVE m + 1 \in Starts
  <2>1. PICK f : f = Body(f, m)
    BY <1>2
  <2>2. PICK g : g = [k \in 0 .. m + 1 |-> IF k = m + 1 THEN 10 * f[m] ELSE f[k]]
    OBVIOUS
  <2>3. g = Body(g, m + 1)
    <3>1. ASSUME NEW k \in 0 .. m + 1
          PROVE  g[k] = (IF k = 0 THEN 1 ELSE 10 * g[k - 1])
      <4>1. CASE k = m + 1
        BY <2>2, <4>1
      <4>2. CASE k # m + 1
        <5>1. k \in 0 .. m
          BY <4>2
        <5>2. f[k] = (IF k = 0 THEN 1 ELSE 10 * f[k - 1])
          BY <2>1, <5>1
        <5>3. g[k] = f[k] /\ (k # 0 => g[k - 1] = f[k - 1])
          BY <2>2, <5>1
        <5>. QED
          BY <5>2, <5>3
      <4>. QED
        BY <4>1, <4>2
    <3>. QED
      BY <2>2, <3>1
  <2>. QED
    BY <1>0, <2>3
<1>3. ndisplays \in Starts
  <2>. HIDE DEF Starts
  <2>. QED
    BY <1>0, <1>1, <1>2, InductionFrom
<1>4. PICK f : f = Body(f, ndisplays)
  BY <1>3
<1>5. Power = [k \in 0 .. ndisplays |-> IF k = 0 THEN 1 ELSE 10 * Power[k - 1]]
  BY <1>4 DEF Power
<1>6. Power[0] = 1 /\ \A k \in 1 .. ndisplays : Power[k] = 10 * Power[k - 1]
  BY <1>0, <1>5
<1>7. \A k \in 0 .. ndisplays : Power[k] \in Nat \ {0}
  <2>. DEFINE Good == {k \in 0 .. ndisplays : Power[k] \in Nat \ {0}}
  <2>1. 0 \in Good
    BY <1>0, <1>6
  <2>2. ASSUME NEW k \in 0 .. ndisplays - 1, k \in Good PROVE k + 1 \in Good
    BY <1>0, <1>6, <2>2
  <2>3. \A k \in 0 .. ndisplays : k \in Good
    <3>. HIDE DEF Good
    <3>. QED
      BY <1>0, <2>1, <2>2, InductionFrom
  <2>. QED
    BY <2>3
<1>. QED
  BY <1>6, <1>7

LEMMA DigitFacts ==
    ASSUME NEW v \in Int, NEW c \in Displays
    PROVE  Digit(v, c) \in Shown
<1>1. Magnitude(v) \in Nat /\ ndisplays \in 0 .. ndisplays /\ c \in 0 .. ndisplays
  BY USBAssumption DEF Magnitude, Displays
<1>2. Power[ndisplays] \in Nat \ {0} /\ Power[c] \in Nat \ {0}
  BY <1>1, PowerFacts
<1>3. PICK shown \in Nat : shown = Magnitude(v) % Power[ndisplays]
  BY <1>1, <1>2
<1>4. PICK q \in Nat : q = shown \div Power[c]
  BY <1>2, DivNat
<1>5. q % 10 \in 0 .. BLANK
  BY DEF BLANK
<1>. QED
  BY <1>3, <1>4, <1>5 DEF Digit, Shown, MINUS, BLANK

-----------------------------------------------------------------------------
(* Types                                                                    *)

LEMMA TypesInitially == Init => TypeOK
<1>. SUFFICES ASSUME Init PROVE TypeOK
  OBVIOUS
<1>1. <<>> \in Seq(Packet) /\ Len(<<>>) = 0 /\ 0 <= RingSize
  BY USBAssumption
<1>2. INITVAL \in Readings /\ 0 \in 0 .. 2 * MAX_HIST /\ 0 \in 0 .. MaxChanges
  BY USBAssumption DEF Readings
<1>3. 0 \in Shown /\ 8 \in Shown
  BY DEF Shown, BLANK
<1>4. axes_hist \in Seq(Readings) /\ Len(axes_hist) = MAX_HIST
  BY <1>2, USBAssumption DEF Init
<1>5. /\ wire \in Seq(Packet) /\ ring \in Seq(Packet) /\ Len(ring) <= RingSize
  BY <1>1 DEF Init
<1>6. /\ slotdata \in [Slots -> 0 .. 3]
      /\ \A x, y \in Slots : x < y /\ slotdata[x] # 0 => slotdata[y] <= slotdata[x]
  BY DEF Init
<1>7. /\ inputs \in [Inputs -> Bit] /\ inputs_old \in [Inputs -> Bit \cup {INITVAL}]
      /\ inputs_read \in [Inputs -> Bit]
      /\ value \in [Read -> Bit] /\ seen \in [Read -> Bit \cup {INITVAL}]
      /\ level \in [Inputs -> Bit] /\ reported \in [Inputs -> Bit]
  BY DEF Init, Bit
<1>8. /\ outputs \in [Outputs -> Bit] /\ outputs_old \in [Outputs -> Bit \cup {INITVAL}]
      /\ lamps \in [Outputs -> Bit]
      /\ displays \in [Displays -> Shown] /\ displays_old \in [Displays -> Shown \cup {INITVAL}]
      /\ digits \in [Displays -> Shown] /\ number \in Numbers \cup {NoNumber}
  BY <1>3 DEF Init, Bit
<1>9. /\ phase \in {"receive", "user", "send"}
      /\ axes \in Readings /\ axes_old \in Readings
      /\ rest \in [val : Readings, times : 0 .. 2 * MAX_HIST]
      /\ changes \in 0 .. MaxChanges /\ damaged \in BOOLEAN
  BY <1>2 DEF Init
<1>. QED
  BY <1>4, <1>5, <1>6, <1>7, <1>8, <1>9 DEF TypeOK

LEMMA DrivenFinite ==
    ASSUME NEW turned \in SUBSET {d \in Driven : Acceptable(d[1], d[2])}
    PROVE  IsFiniteSet(turned) /\ Cardinality(turned) \in Nat
<1>1. turned \in SUBSET ((0 .. ncards - 1) \X (0 .. noutputs))
  BY USBAssumption DEF Acceptable
<1>2. IsFiniteSet(0 .. ncards - 1) /\ IsFiniteSet(0 .. noutputs)
  BY USBAssumption, FS_Interval
<1>3. IsFiniteSet((0 .. ncards - 1) \X (0 .. noutputs))
  BY <1>2, FS_Product
<1>. QED
  BY <1>1, <1>3, FS_Subset, FS_CardinalityType

LEMMA TypesOfReadAxis ==
    ASSUME TypeOK, NEW v \in AxisValues, ReadAxis(v)
    PROVE  /\ axes' \in Readings
           /\ axes_hist' \in Seq(Readings) /\ Len(axes_hist') = MAX_HIST
           /\ rest' \in [val : Readings, times : 0 .. 2 * MAX_HIST]
<1>1. v \in Readings /\ axes \in Readings /\ axes_hist \in Seq(Readings)
      /\ Len(axes_hist) = MAX_HIST /\ MAX_HIST \in Nat \ {0}
  BY USBAssumption DEF Readings, TypeOK
<1>2. axes' \in Readings
  BY <1>1 DEF ReadAxis
<1>3. axes_hist' \in Seq(Readings) /\ Len(axes_hist') = MAX_HIST
  <2>1. PICK s \in Seq(Readings) : s = SubSeq(axes_hist, 1, MAX_HIST - 1) /\ Len(s) = MAX_HIST - 1
    <3>1. /\ SubSeq(axes_hist, 1, MAX_HIST - 1) \in Seq(Readings)
          /\ Len(SubSeq(axes_hist, 1, MAX_HIST - 1)) = MAX_HIST - 1
      <4>1. PICK b \in Nat : b = MAX_HIST - 1
        BY <1>1
      <4>2. 1 \in Nat \ {0} /\ 1 <= b + 1 /\ b <= Len(axes_hist)
        BY <1>1, <4>1
      <4>3. /\ SubSeq(axes_hist, 1, b) \in Seq(Readings)
            /\ Len(SubSeq(axes_hist, 1, b)) = b + 1 - 1
        BY <1>1, <4>2, PartOfSequence
      <4>. QED
        BY <4>1, <4>3
    <3>. QED
      BY <3>1
  <2>2. <<v>> \o s \in Seq(Readings) /\ Len(<<v>> \o s) = MAX_HIST
    BY <1>1, <2>1
  <2>. QED
    BY <1>1, <2>1, <2>2 DEF ReadAxis
<1>4. rest' \in [val : Readings, times : 0 .. 2 * MAX_HIST]
  <2>1. rest.times \in 0 .. 2 * MAX_HIST
    BY DEF TypeOK
  <2>. QED
    BY <1>1, <2>1 DEF ReadAxis
<1>. QED
  BY <1>2, <1>3, <1>4

LEMMA TypesOfReadPacket ==
    ASSUME TypeOK, ReadPacket
    PROVE  TypeOK'
<1>1. PICK p \in Packet : p = Head(ring)
  BY DEF TypeOK, ReadPacket
<1>2. ring' \in Seq(Packet) /\ Len(ring') <= RingSize
  BY USBAssumption DEF TypeOK, ReadPacket
<1>3. SlotTypes(slotdata') /\ InOrder(slotdata')
  <2>1. SlotTypes(Present(p)) /\ InOrder(Present(p)) /\ Len(p.bytes) \in Nat
    BY PresentFacts DEF Packet
  <2>2. slotdata' = SlotdataOf(Present(p), Len(p.bytes))
    BY <1>1, DecodedParts DEF ReadPacket
  <2>. QED
    BY <2>1, <2>2, StillInOrder
<1>4. inputs' \in [Inputs -> Bit]
  <2>1. SlotTypes(Present(p)) /\ p.bytes \in Seq(Byte)
    BY PresentFacts DEF Packet
  <2>2. inputs' = InputsOf(Present(p), p.bytes)
    BY <1>1, DecodedParts DEF ReadPacket
  <2>. QED
    BY <2>1, <2>2, InputsOfFacts
<1>5. /\ axes' \in Readings
      /\ axes_hist' \in Seq(Readings) /\ Len(axes_hist') = MAX_HIST
      /\ rest' \in [val : Readings, times : 0 .. 2 * MAX_HIST]
  <2>1. CASE p.axis = INITVAL
    BY <1>1, <2>1 DEF TypeOK, ReadPacket
  <2>2. CASE p.axis # INITVAL
    <3>1. p.axis \in AxisValues
      BY <2>2 DEF Packet, Readings
    <3>2. ReadAxis(p.axis)
      BY <1>1, <2>2 DEF ReadPacket
    <3>. QED
      BY <3>1, <3>2, TypesOfReadAxis
  <2>. QED
    BY <2>1, <2>2
<1>. QED
  BY <1>2, <1>3, <1>4, <1>5 DEF TypeOK, ReadPacket, SlotTypes, InOrder, outVars, cardVars

LEMMA TypesOfUserModule ==
    ASSUME TypeOK, UserModule
    PROVE  TypeOK'
<1>1. PICK looked \in SUBSET Read :
        /\ inputs_read' = [i \in Inputs |-> IF i \in looked THEN 1 ELSE inputs_read[i]]
        /\ value' = [i \in Read |-> IF i \in looked THEN ValueRead(i) ELSE value[i]]
        /\ seen' = [i \in Read |-> IF i \in looked THEN inputs[i] ELSE seen[i]]
  BY DEF UserModule
<1>2. PICK turned \in SUBSET {d \in Driven : Acceptable(d[1], d[2])} : \E v \in Numbers \cup {number} :
        /\ outputs' = [o \in Outputs |->
                IF \E d \in turned : Position(d[1], d[2]) = o THEN 1 - outputs[o] ELSE outputs[o]]
        /\ displays' = [c \in Displays |-> IF v = NoNumber THEN displays[c] ELSE Digit(v, c)]
        /\ number' = v
        /\ changes' = changes + Cardinality(turned) + (IF v = number THEN 0 ELSE 1)
        /\ changes' <= MaxChanges
  BY Zenon DEF UserModule
<1>3. PICK v \in Numbers \cup {number} :
        /\ displays' = [c \in Displays |-> IF v = NoNumber THEN displays[c] ELSE Digit(v, c)]
        /\ number' = v
        /\ changes' = changes + Cardinality(turned) + (IF v = number THEN 0 ELSE 1)
        /\ changes' <= MaxChanges
  BY <1>2, Zenon
<1>4. inputs_read' \in [Inputs -> Bit]
  BY <1>1 DEF TypeOK, Bit
<1>5. Read \subseteq Inputs
  BY USBAssumption DEF Defined
<1>6. value' \in [Read -> Bit] /\ seen' \in [Read -> Bit \cup {INITVAL}]
  <2>1. \A i \in Read : inputs[i] \in Bit /\ value[i] \in Bit /\ seen[i] \in Bit \cup {INITVAL}
    BY <1>5 DEF TypeOK
  <2>2. \A i \in Read : ValueRead(i) \in Bit
    BY <2>1 DEF ValueRead, Bit
  <2>. QED
    BY <1>1, <2>1, <2>2
<1>7. outputs' \in [Outputs -> Bit]
  <2>1. \A o \in Outputs : outputs[o] \in Bit /\ 1 - outputs[o] \in Bit
    BY DEF TypeOK, Bit
  <2>. QED
    BY <1>2, <2>1
<1>8. v \in Int /\ v \in Numbers \cup {NoNumber}
  BY USBAssumption DEF TypeOK, NoNumber
<1>9. displays' \in [Displays -> Shown]
  <2>1. \A c \in Displays : Digit(v, c) \in Shown /\ displays[c] \in Shown
    BY <1>8, DigitFacts DEF TypeOK
  <2>. QED
    BY <1>3, <2>1
<1>10. changes' \in 0 .. MaxChanges
  <2>1. Cardinality(turned) \in Nat /\ changes \in Nat
    BY DrivenFinite DEF TypeOK
  <2>. QED
    BY <1>3, <2>1, USBAssumption
<1>11. phase' = "send"
  BY DEF UserModule
<1>12. UNCHANGED <<wire, ring, slotdata, inputs, inputs_old, outputs_old, displays_old,
                   axisVars, cardVars, damaged>>
  BY DEF UserModule
<1>. QED
  BY <1>3, <1>4, <1>6, <1>7, <1>8, <1>9, <1>10, <1>11, <1>12 DEF TypeOK, axisVars, cardVars

LEMMA TypesOfSend ==
    ASSUME TypeOK, SendMastercard
    PROVE  TypeOK'
<1>1. lamps' \in [Outputs -> Bit] /\ outputs_old' \in [Outputs -> Bit \cup {INITVAL}]
  BY DEF TypeOK, SendMastercard
<1>2. digits' \in [Displays -> Shown] /\ displays_old' \in [Displays -> Shown \cup {INITVAL}]
  BY DEF TypeOK, SendMastercard
<1>3. inputs_old' \in [Inputs -> Bit \cup {INITVAL}] /\ inputs_read' \in [Inputs -> Bit]
  BY DEF TypeOK, SendMastercard, Bit
<1>. QED
  BY <1>1, <1>2, <1>3 DEF TypeOK, SendMastercard

LEMMA TypesAfterStep == TypeOK /\ [Next]_vars => TypeOK'
<1>. SUFFICES ASSUME TypeOK, [Next]_vars PROVE TypeOK'
  OBVIOUS
<1>1. ASSUME NEW i \in Operated, Operate(i) PROVE TypeOK'
  <2>1. level' \in [Inputs -> Bit]
    <3>1. level \in [Inputs -> Bit] /\ level' = [level EXCEPT ![i] = 1 - level[i]] /\ i \in Inputs
      BY <1>1, USBAssumption DEF TypeOK, Operate
    <3>2. 1 - level[i] \in Bit
      BY <3>1 DEF Bit
    <3>. QED
      BY <3>1, <3>2
  <2>2. changes' \in 0 .. MaxChanges
    BY <1>1, USBAssumption DEF TypeOK, Operate
  <2>. QED
    BY <1>1, <2>1, <2>2 DEF TypeOK, Operate, inVars, outVars, axisVars
<1>2. ASSUME SendReport PROVE TypeOK'
  <2>1. News \in SUBSET Slots
    BY DEF News
  <2>2. PICK S \in {News, Slots}, v \in Readings, w \in Readings :
            /\ wire' = wire \o Report(S, v, w)
            /\ changes' = changes + Cardinality({v, w} \ {INITVAL, rest.val})
            /\ changes' <= MaxChanges
    BY <1>2 DEF SendReport
  <2>3. wire' \in Seq(Packet)
    <3>1. Report(S, v, w) \in Seq(Packet) /\ wire \in Seq(Packet)
      BY <2>1, ReportFacts DEF TypeOK
    <3>. QED
      BY <2>2, <3>1
  <2>4. changes' \in 0 .. MaxChanges
    <3>1. IsFiniteSet({v, w} \ {INITVAL, rest.val})
      <4>1. IsFiniteSet({v}) /\ IsFiniteSet({w}) /\ {v, w} = {v} \cup {w}
        BY FS_Singleton
      <4>2. IsFiniteSet({v, w})
        BY <4>1, FS_Union
      <4>. QED
        BY <4>2, FS_Subset
    <3>2. PICK c \in Nat : c = Cardinality({v, w} \ {INITVAL, rest.val})
      BY <3>1, FS_CardinalityType
    <3>. QED
      BY <2>2, <3>2, USBAssumption DEF TypeOK
  <2>. QED
    BY <1>2, <2>3, <2>4 DEF TypeOK, SendReport, inVars, outVars, axisVars
<1>3. ASSUME NEW v \in AxisValues, SendAxis(v) PROVE TypeOK'
  <2>1. wire' \in Seq(Packet)
    <3>1. [cont |-> FALSE, axis |-> v, slots |-> {}, bytes |-> <<>>] \in Packet
      BY DEF Packet, Readings
    <3>2. PICK k \in 0 .. Len(wire) :
            wire' = SubSeq(wire, 1, k)
                    \o <<[cont |-> FALSE, axis |-> v, slots |-> {}, bytes |-> <<>>]>>
                    \o SubSeq(wire, k + 1, Len(wire))
      BY <1>3 DEF SendAxis
    <3>3. /\ SubSeq(wire, 1, k) \in Seq(Packet) /\ SubSeq(wire, k + 1, Len(wire)) \in Seq(Packet)
          /\ <<[cont |-> FALSE, axis |-> v, slots |-> {}, bytes |-> <<>>]>> \in Seq(Packet)
      <4>1. wire \in Seq(Packet) /\ Len(wire) \in Nat
        BY DEF TypeOK
      <4>2. PICK n \in Nat : n = Len(wire)
        BY <4>1
      <4>3. 1 \in Nat \ {0} /\ k + 1 \in Nat \ {0} /\ k \in Nat /\ k + 1 <= n + 1 /\ 1 <= k + 1 /\ k <= n
        BY <4>2
      <4>. QED
        BY <3>1, <4>1, <4>2, <4>3, PartOfSequence
    <3>. QED
      BY <3>2, <3>3
  <2>2. changes' \in 0 .. MaxChanges
    BY <1>3, USBAssumption DEF TypeOK, SendAxis
  <2>3. damaged' \in BOOLEAN
    BY <1>3 DEF TypeOK, SendAxis
  <2>. QED
    BY <1>3, <2>1, <2>2, <2>3 DEF TypeOK, SendAxis, inVars, outVars, axisVars, cardVars
<1>4. ASSUME PollThread PROVE TypeOK'
  <2>1. wire' \in Seq(Packet) /\ Head(wire) \in Packet
    BY <1>4 DEF TypeOK, PollThread
  <2>2. ring' \in Seq(Packet) /\ Len(ring') <= RingSize /\ damaged' \in BOOLEAN
    <3>1. ring \in Seq(Packet) /\ Len(ring) <= RingSize /\ damaged \in BOOLEAN
      BY DEF TypeOK
    <3>2. CASE HasRoom
      BY <1>4, <2>1, <3>1, <3>2 DEF PollThread, HasRoom
    <3>3. CASE ~HasRoom
      BY <1>4, <3>1, <3>3 DEF PollThread
    <3>. QED
      BY <3>2, <3>3
  <2>. QED
    BY <1>4, <2>1, <2>2 DEF TypeOK, PollThread, inVars, outVars, axisVars, cardVars
<1>5. ASSUME ReadEnd PROVE TypeOK'
  BY <1>5 DEF TypeOK, ReadEnd, inVars, outVars, axisVars, cardVars
<1>6. CASE UNCHANGED vars
  BY <1>6 DEF TypeOK, vars, inVars, outVars, axisVars, cardVars
<1>. QED
  BY <1>1, <1>2, <1>3, <1>4, <1>5, <1>6, TypesOfReadPacket, TypesOfUserModule, TypesOfSend DEF Next

(* Types (libiocards.c): whatever the packets hold, receive_mastercard      *)
(* stays within the arrays, a slot gets its last input only after the slots *)
(* before it, poll_thread_main never fills readBuffer beyond its size, and  *)
(* mastercard_display gives a code that the card knows for each display.    *)
THEOREM TypeCorrect == Spec => []TypeOK
  BY TypesInitially, TypesAfterStep, PTL DEF Spec

-----------------------------------------------------------------------------
(* What is written                                                          *)

(* The state of the loop that fills packets, after element k: the elements  *)
(* in the packet and those that have been sent.                             *)
Filled(t, k, Changed) ==
    IF k \in Changed THEN Append(t[k - 1].packet, k) ELSE t[k - 1].packet
ElementsOf(q) == {q[j] : j \in DOMAIN q}
SentAfter(q, sent, k, last) ==
    IF Len(q) = slotspercycle \/ (q # <<>> /\ k = last)
    THEN [packet |-> <<>>, sent |-> sent \cup ElementsOf(q)]
    ELSE [packet |-> q, sent |-> sent]
After(t, k, Changed, last) ==
    IF k = -1 THEN [packet |-> <<>>, sent |-> {}]
    ELSE SentAfter(Filled(t, k, Changed), t[k - 1].sent, k, last)

LEMMA WrittenIsLoop ==
    ASSUME NEW Changed, NEW last \in Nat \cup {-1}
    PROVE  \E g : /\ Written(Changed, last) = g[last].sent
                  /\ \A k \in -1 .. last : g[k] = After(g, k, Changed, last)
<1>. DEFINE Loop(t, m) == [k \in -1 .. m |-> After(t, k, Changed, last)]
            Starts == {m \in -1 .. last : \E t : t = Loop(t, m)}
<1>1. -1 \in Starts
  <2>1. PICK t : t = [k \in -1 .. -1 |-> [packet |-> <<>>, sent |-> {}]]
    OBVIOUS
  <2>2. \A k \in -1 .. -1 : After(t, k, Changed, last) = [packet |-> <<>>, sent |-> {}]
    BY DEF After
  <2>3. t = Loop(t, -1)
    BY <2>1, <2>2
  <2>. QED
    BY <2>3
<1>2. ASSUME NEW m \in -1 .. last - 1, m \in Starts PROVE m + 1 \in Starts
  <2>1. PICK t : t = Loop(t, m)
    BY <1>2
  <2>2. PICK u : u = [k \in -1 .. m + 1 |-> IF k = m + 1 THEN After(t, k, Changed, last) ELSE t[k]]
    OBVIOUS
  <2>3. ASSUME NEW k \in -1 .. m + 1 PROVE u[k] = After(u, k, Changed, last)
    <3>1. k = -1 \/ (k - 1 \in -1 .. m /\ u[k - 1] = t[k - 1])
      BY <2>2
    <3>2. After(u, k, Changed, last) = After(t, k, Changed, last)
      BY <3>1 DEF After, Filled
    <3>3. CASE k = m + 1
      BY <2>2, <3>2, <3>3
    <3>4. CASE k # m + 1
      <4>1. k \in -1 .. m
        BY <3>4
      <4>2. t[k] = After(t, k, Changed, last)
        <5>. HIDE DEF Starts
        <5>. QED
          BY <2>1, <4>1
      <4>. QED
        BY <2>2, <3>2, <3>4, <4>2
    <3>. QED
      BY <3>3, <3>4
  <2>4. u = Loop(u, m + 1)
    BY <2>2, <2>3
  <2>. QED
    BY <2>4
<1>3. last \in Starts
  <2>. HIDE DEF Starts
  <2>1. -1 \in Int /\ last \in Int /\ last \in -1 .. last
    OBVIOUS
  <2>. QED
    BY <1>1, <1>2, <2>1, InductionFrom
<1>4. PICK t : t = Loop(t, last)
  BY <1>3
<1>. DEFINE Body(x) == [k \in -1 .. last |->
            IF k = -1 THEN [packet |-> <<>>, sent |-> {}]
            ELSE LET packet == IF k \in Changed THEN Append(x[k - 1].packet, k)
                               ELSE x[k - 1].packet
                 IN  IF Len(packet) = slotspercycle \/ (packet # <<>> /\ k = last)
                     THEN [packet |-> <<>>,
                           sent |-> x[k - 1].sent \cup {packet[j] : j \in DOMAIN packet}]
                     ELSE [packet |-> packet, sent |-> x[k - 1].sent]]
            g == CHOOSE x : x = Body(x)
<1>5. Written(Changed, last) = g[last].sent
  BY Zenon DEF Written
<1>6. \A x : Body(x) = Loop(x, last)
  BY DEF After, Filled, SentAfter, ElementsOf
<1>7. g = Body(g)
  <2>1. t = Body(t)
    <3>. HIDE DEF Body, Loop
    <3>. QED
      BY <1>4, <1>6, Zenon
  <2>. HIDE DEF Body
  <2>. QED
    BY <2>1, Zenon
<1>8. g = Loop(g, last)
  <2>. HIDE DEF Body, Loop, g
  <2>. QED
    BY <1>6, <1>7, Zenon
<1>9. \A k \in -1 .. last : g[k] = After(g, k, Changed, last)
  <2>. HIDE DEF g
  <2>. QED
    BY <1>8
<1>. HIDE DEF g
<1>. QED
  BY <1>5, <1>9

(* Nothing that has changed is left out.                                    *)
LEMMA WrittenAll ==
    ASSUME NEW last \in Nat \cup {-1}, NEW Changed \in SUBSET (0 .. last)
    PROVE  Written(Changed, last) = Changed
<1>1. PICK g : /\ Written(Changed, last) = g[last].sent
               /\ \A k \in -1 .. last : g[k] = After(g, k, Changed, last)
  BY WrittenIsLoop
<1>. DEFINE Handled(k) == Changed \cap (0 .. k)
            Held(k) == ElementsOf(g[k].packet)
            Good == {k \in -1 .. last :
                /\ g[k].packet \in Seq(Changed)
                /\ g[k].sent \cup Held(k) = Handled(k)
                /\ k = last => g[k].packet = <<>>}
<1>2. -1 \in Good
  <2>1. 0 .. -1 = {} /\ -1 \in -1 .. last
    OBVIOUS
  <2>2. g[-1] = [packet |-> <<>>, sent |-> {}]
    BY <1>1, <2>1 DEF After
  <2>3. g[-1].packet = <<>> /\ g[-1].sent = {} /\ <<>> \in Seq(Changed) /\ ElementsOf(<<>>) = {}
    BY <2>2 DEF ElementsOf
  <2>. QED
    BY <2>1, <2>3
<1>3. ASSUME NEW m \in -1 .. last - 1, m \in Good PROVE m + 1 \in Good
  <2>1. PICK k \in 0 .. last : k = m + 1 /\ k - 1 = m
    OBVIOUS
  <2>2. PICK p \in Seq(Changed) : p = g[m].packet
    BY <1>3
  <2>3. PICK q \in Seq(Changed) : q = IF k \in Changed THEN Append(p, k) ELSE p
    <3>1. (IF k \in Changed THEN Append(p, k) ELSE p) \in Seq(Changed)
      BY <2>2
    <3>. QED
      BY <3>1
  <2>4. g[m].sent \cup ElementsOf(q) = Handled(k)
    <3>0. g[m].sent \cup ElementsOf(p) = Changed \cap (0 .. m)
      BY <1>3, <2>2
    <3>1. CASE k \in Changed
      <4>1. ElementsOf(q) = ElementsOf(p) \cup {k}
        BY <2>2, <2>3, <3>1, SMTT(30) DEF ElementsOf
      <4>2. Handled(k) = (Changed \cap (0 .. m)) \cup {k}
        BY <2>1, <3>1
      <4>. QED
        BY <3>0, <4>1, <4>2
    <3>2. CASE k \notin Changed
      <4>1. Handled(k) = Changed \cap (0 .. m)
        BY <2>1, <3>2
      <4>. QED
        BY <2>3, <3>0, <3>2, <4>1
    <3>. QED
      BY <3>1, <3>2
  <2>5. g[k] = SentAfter(q, g[m].sent, k, last)
    <3>1. k \in -1 .. last /\ k # -1
      OBVIOUS
    <3>2. g[k] = After(g, k, Changed, last)
      BY <1>1, <3>1
    <3>3. Filled(g, k, Changed) = q
      BY <2>1, <2>2, <2>3 DEF Filled
    <3>4. After(g, k, Changed, last) = SentAfter(Filled(g, k, Changed), g[k - 1].sent, k, last)
      BY <3>1, Zenon DEF After
    <3>. QED
      BY <2>1, <3>2, <3>3, <3>4, Zenon
  <2>6. CASE Len(q) = slotspercycle \/ (q # <<>> /\ k = last)
    <3>1. g[k].packet = <<>> /\ g[k].sent = Handled(k)
      BY <2>4, <2>5, <2>6 DEF SentAfter
    <3>2. <<>> \in Seq(Changed) /\ ElementsOf(<<>>) = {}
      BY DEF ElementsOf
    <3>3. /\ k \in -1 .. last /\ g[k].packet \in Seq(Changed)
          /\ (k = last => g[k].packet = <<>>)
      BY <3>1, <3>2
    <3>4. g[k].sent \cup Held(k) = Handled(k)
      <4>1. Held(k) = {}
        BY <3>1, <3>2
      <4>. HIDE DEF Handled, Held
      <4>. QED
        BY <3>1, <4>1
    <3>. QED
      BY <2>1, <3>3, <3>4
  <2>7. CASE ~(Len(q) = slotspercycle \/ (q # <<>> /\ k = last))
    <3>1. g[k].packet = q /\ g[k].sent = g[m].sent /\ (k = last => q = <<>>)
      BY <2>5, <2>7 DEF SentAfter
    <3>2. /\ k \in -1 .. last /\ g[k].packet \in Seq(Changed)
          /\ (k = last => g[k].packet = <<>>)
      BY <3>1
    <3>3. g[k].sent \cup Held(k) = Handled(k)
      <4>. HIDE DEF Handled
      <4>. QED
        BY <2>4, <3>1, Zenon
    <3>. QED
      BY <2>1, <3>2, <3>3
  <2>. QED
    BY <2>6, <2>7
<1>4. last \in Good
  <2>. HIDE DEF Good
  <2>1. -1 \in Int /\ last \in Int /\ last \in -1 .. last
    OBVIOUS
  <2>. QED
    BY <1>2, <1>3, <2>1, InductionFrom
<1>5. g[last].sent = Handled(last) /\ Handled(last) = Changed
  <2>1. g[last].sent \cup ElementsOf(g[last].packet) = Handled(last) /\ g[last].packet = <<>>
    BY <1>4
  <2>2. ElementsOf(<<>>) = {}
    BY DEF ElementsOf
  <2>. QED
    BY <2>1, <2>2
<1>. QED
  BY <1>1, <1>5

-----------------------------------------------------------------------------
(* Inputs are not missed                                                    *)

(* Between digital_input and copy_iocardsdata the flag of an input that was *)
(* read stands for the copy that is still to be made.                       *)
ReadInv ==
    \A i \in Read :
        IF phase # "send" THEN inputs_old[i] = seen[i] /\ inputs_read[i] = 0
        ELSE IF inputs_read[i] = 1 THEN seen[i] = inputs[i] ELSE inputs_old[i] = seen[i]

LEMMA ReadAreInputs == Read \subseteq Inputs
  BY USBAssumption DEF Defined

LEMMA ReadInitially == Init => ReadInv
  BY ReadAreInputs DEF Init, ReadInv

LEMMA ReadAfterStep == ReadInv /\ TypeOK /\ [Next]_vars => ReadInv'
<1>. SUFFICES ASSUME ReadInv, TypeOK, [Next]_vars PROVE ReadInv'
  OBVIOUS
<1>1. ASSUME NEW i \in Operated, Operate(i) PROVE ReadInv'
  BY <1>1 DEF Operate, ReadInv, inVars
<1>2. ASSUME SendReport PROVE ReadInv'
  BY <1>2 DEF SendReport, ReadInv, inVars
<1>3. ASSUME NEW v \in AxisValues, SendAxis(v) PROVE ReadInv'
  BY <1>3 DEF SendAxis, ReadInv, inVars
<1>4. ASSUME PollThread PROVE ReadInv'
  BY <1>4 DEF PollThread, ReadInv, inVars
<1>5. ASSUME ReadPacket PROVE ReadInv'
  BY <1>5 DEF ReadPacket, ReadInv
<1>6. ASSUME ReadEnd PROVE ReadInv'
  BY <1>6 DEF ReadEnd, ReadInv, inVars
<1>7. ASSUME UserModule PROVE ReadInv'
  <2>1. phase = "user" /\ phase' = "send" /\ UNCHANGED <<inputs, inputs_old>>
    BY <1>7 DEF UserModule
  <2>2. PICK looked \in SUBSET Read :
          /\ inputs_read' = [i \in Inputs |-> IF i \in looked THEN 1 ELSE inputs_read[i]]
          /\ seen' = [i \in Read |-> IF i \in looked THEN inputs[i] ELSE seen[i]]
    BY <1>7 DEF UserModule
  <2>3. ASSUME NEW i \in Read
        PROVE  IF inputs_read'[i] = 1 THEN seen'[i] = inputs'[i] ELSE inputs_old'[i] = seen'[i]
    <3>1. i \in Inputs /\ inputs_old[i] = seen[i] /\ inputs_read[i] = 0
      BY <2>1, ReadAreInputs DEF ReadInv
    <3>. QED
      BY <2>1, <2>2, <3>1
  <2>. QED
    BY <2>1, <2>3 DEF ReadInv
<1>8. ASSUME SendMastercard PROVE ReadInv'
  <2>1. phase = "send" /\ phase' = "receive" /\ UNCHANGED <<inputs, seen>>
    BY <1>8 DEF SendMastercard
  <2>2. /\ inputs_old' = [i \in Inputs |-> IF inputs_read[i] = 1 THEN inputs[i] ELSE inputs_old[i]]
        /\ inputs_read' = [i \in Inputs |-> 0]
    BY <1>8 DEF SendMastercard, Copied
  <2>3. ASSUME NEW i \in Read PROVE inputs_old'[i] = seen'[i] /\ inputs_read'[i] = 0
    <3>1. i \in Inputs
      BY ReadAreInputs
    <3>2. IF inputs_read[i] = 1 THEN seen[i] = inputs[i] ELSE inputs_old[i] = seen[i]
      BY <2>1 DEF ReadInv
    <3>. QED
      BY <2>1, <2>2, <3>1, <3>2
  <2>. QED
    BY <2>1, <2>3 DEF ReadInv
<1>9. CASE UNCHANGED vars
  BY <1>9 DEF vars, ReadInv, inVars
<1>. QED
  BY <1>1, <1>2, <1>3, <1>4, <1>5, <1>6, <1>7, <1>8, <1>9 DEF Next

(* libiocards.c:377: whatever iterations a module reads an input in, what   *)
(* digital_input compares its state with is what it saw when it was read    *)
(* last: no press that is still on when the input is read is missed, and    *)
(* none counts twice.                                                       *)
THEOREM InputsKept == Spec => []ChangesKept
<1>1. ReadInv => ChangesKept
  BY DEF ReadInv, ChangesKept
<1>. QED
  BY <1>1, ReadInitially, ReadAfterStep, TypesInitially, TypesAfterStep, PTL DEF Spec

-----------------------------------------------------------------------------
(* What the card shows                                                      *)

(* The old values are what the card shows once they are initialised, all    *)
(* together; only between a module and send_mastercard do the values differ *)
(* from them.                                                               *)
Initialised == outputs_old[0] # INITVAL
OutputInv ==
    \A o \in Outputs : o \div noutputs < ncards =>
        /\ outputs_old[o] # INITVAL <=> Initialised
        /\ Initialised => lamps[o] = outputs_old[o]
        /\ Initialised /\ phase # "send" => outputs[o] = outputs_old[o]
DisplayInv ==
    \A d \in Displays :
        /\ displays_old[d] # INITVAL <=> Initialised
        /\ Initialised => digits[d] = displays_old[d]
        /\ Initialised /\ phase # "send" => displays[d] = displays_old[d]
NumberInv ==
    number # NoNumber =>
        /\ \A d \in Displays : displays[d] = Digit(number, d)
        /\ phase # "send" => Initialised
ShownInv == OutputInv /\ DisplayInv /\ NumberInv

LEMMA ShownInitially == Init => ShownInv
<1>. SUFFICES ASSUME Init PROVE ShownInv
  OBVIOUS
<1>1. 0 \in Outputs
  BY USBAssumption DEF Outputs
<1>2. OutputInv
  BY <1>1 DEF Init, OutputInv, Initialised
<1>3. DisplayInv
  BY <1>1 DEF Init, DisplayInv, Initialised
<1>4. NumberInv
  BY DEF Init, NumberInv
<1>. QED
  BY <1>2, <1>3, <1>4 DEF ShownInv

(* A step that leaves the outputs and displays and what the card shows of   *)
(* them as they are, and does not leave the part of the loop where they may *)
(* differ.                                                                  *)
LEMMA ShownUnchanged ==
    ASSUME ShownInv, UNCHANGED <<outVars, lamps, digits>>, phase' = "send" <=> phase = "send"
    PROVE  ShownInv'
<1>1. UNCHANGED <<outputs, outputs_old, displays, displays_old, number, lamps, digits>>
  BY DEF outVars
<1>2. Initialised' <=> Initialised
  BY <1>1 DEF Initialised
<1>. QED
  BY <1>1, <1>2 DEF ShownInv, OutputInv, DisplayInv, NumberInv, Digit

(* The outputs of the cards that are defined are the first ones in memory.  *)
LEMMA DefinedOutputs ==
    ASSUME NEW o \in Outputs
    PROVE  /\ o \in Nat /\ noutputs \in Nat \ {0}
           /\ o < ncards * noutputs <=> o \div noutputs < ncards
           /\ 0 \in Outputs /\ 0 \div noutputs = 0 /\ 0 < ncards
<1>1. o \in Nat /\ noutputs \in Nat \ {0} /\ ncards \in Nat \ {0}
  BY USBAssumption DEF Outputs
<1>2. PICK q \in Nat, r \in 0 .. noutputs - 1 : q = o \div noutputs /\ o = noutputs * q + r
  BY <1>1, Quotient
<1>4. ASSUME q < ncards PROVE o < ncards * noutputs
  <2>1. PICK e \in Nat : ncards = q + 1 + e
    <3>1. ncards - q - 1 \in Nat /\ ncards = q + 1 + (ncards - q - 1)
      BY <1>1, <1>4
    <3>. QED
      BY <3>1
  <2>2. ncards * noutputs = noutputs * q + noutputs + e * noutputs /\ e * noutputs \in Nat
    BY <1>1, <2>1
  <2>. QED
    BY <1>1, <1>2, <2>2
<1>5. ASSUME q >= ncards PROVE o >= ncards * noutputs
  <2>1. PICK e \in Nat : q = ncards + e
    <3>1. q - ncards \in Nat /\ q = ncards + (q - ncards)
      BY <1>1, <1>5
    <3>. QED
      BY <3>1
  <2>2. noutputs * q = ncards * noutputs + noutputs * e /\ noutputs * e \in Nat
        /\ ncards * noutputs \in Nat
    BY <1>1, <2>1
  <2>. QED
    BY <1>1, <1>2, <2>2
<1>6. o < ncards * noutputs <=> o \div noutputs < ncards
  <2>1. ncards * noutputs \in Nat
    BY <1>1
  <2>. QED
    BY <1>1, <1>2, <1>4, <1>5, <2>1
<1>7. 0 \in Outputs
  <2>1. MAXMASTERCARDS * noutputs >= 1
    BY USBAssumption
  <2>. QED
    BY <2>1, USBAssumption DEF Outputs
<1>8. 0 \div noutputs = 0
  BY <1>1
<1>. QED
  BY <1>1, <1>6, <1>7, <1>8

(* The segments that are looked at hold all outputs of a card.              *)
LEMMA SegmentFacts ==
    ASSUME NEW o \in Outputs
    PROVE  Segment(o) \in 0 .. NSegments - 1
<1>1. o \in Nat /\ noutputs \in Nat \ {0} /\ NSegments \in Nat /\ BitsPerByte \in Nat \ {0}
      /\ noutputs <= NSegments * BitsPerByte
  BY USBAssumption DEF Outputs
<1>2. PICK p \in 0 .. noutputs - 1 : p = o % noutputs
  BY <1>1
<1>3. PICK s \in Nat, r \in 0 .. BitsPerByte - 1 : s = p \div BitsPerByte /\ p = BitsPerByte * s + r
  BY <1>1, Quotient
<1>5. s < NSegments
  <2>. SUFFICES ASSUME s >= NSegments PROVE FALSE
    BY <1>1
  <2>1. PICK e \in Nat : s = NSegments + e
    <3>1. s - NSegments \in Nat /\ s = NSegments + (s - NSegments)
      BY <1>1
    <3>. QED
      BY <3>1
  <2>2. BitsPerByte * s = NSegments * BitsPerByte + BitsPerByte * e /\ BitsPerByte * e \in Nat
        /\ NSegments * BitsPerByte \in Nat
    BY <1>1, <2>1
  <2>. QED
    BY <1>1, <1>3, <2>2
<1>. QED
  BY <1>1, <1>2, <1>3, <1>5 DEF Segment

LEMMA ShownAfterSend ==
    ASSUME ShownInv, TypeOK, SendMastercard
    PROVE  ShownInv'
<1>1. /\ UNCHANGED <<outputs, displays, number>> /\ phase' = "receive"
      /\ displays_old' = displays
      /\ outputs_old' = [o \in Outputs |-> IF o \div noutputs < ncards THEN outputs[o]
                                           ELSE outputs_old[o]]
  BY DEF SendMastercard
<1>2. ASSUME NEW o \in Outputs, o \div noutputs < ncards
      PROVE  /\ outputs_old'[o] = outputs[o] /\ outputs[o] # INITVAL
             /\ lamps'[o] = outputs[o]
  <2>1. outputs_old'[o] = outputs[o] /\ outputs[o] # INITVAL
    BY <1>1, <1>2 DEF TypeOK, Bit, INITVAL
  <2>. DEFINE c == o \div noutputs
  <2>2. Written(ChangedSegments(c), NSegments - 1) = ChangedSegments(c)
    <3>1. ChangedSegments(c) \in SUBSET (0 .. NSegments - 1)
      BY SegmentFacts DEF ChangedSegments
    <3>2. NSegments - 1 \in Nat \cup {-1}
      BY USBAssumption
    <3>. QED
      BY <3>1, <3>2, WrittenAll
  <2>3. lamps'[o] = IF Segment(o) \in ChangedSegments(c) THEN outputs[o] ELSE lamps[o]
    BY <1>2, <2>2 DEF SendMastercard
  <2>4. CASE outputs[o] # outputs_old[o]
    <3>1. Segment(o) \in ChangedSegments(c)
      BY <2>4 DEF ChangedSegments
    <3>. QED
      BY <2>1, <2>3, <3>1
  <2>5. CASE outputs[o] = outputs_old[o]
    <3>1. lamps[o] = outputs_old[o]
      BY <1>2, <2>1, <2>5 DEF ShownInv, OutputInv
    <3>. QED
      BY <2>1, <2>3, <2>5, <3>1
  <2>. QED
    BY <2>4, <2>5
<1>3. Initialised'
  <2>1. 0 \in Outputs /\ 0 \div noutputs < ncards
    <3>1. 0 \in Outputs
      <4>1. MAXMASTERCARDS * noutputs >= 1
        BY USBAssumption
      <4>. QED
        BY <4>1, USBAssumption DEF Outputs
    <3>. QED
      BY <3>1, DefinedOutputs
  <2>. QED
    BY <1>2, <2>1 DEF Initialised
<1>4. OutputInv'
  BY <1>1, <1>2, <1>3 DEF OutputInv
<1>5. ASSUME NEW d \in Displays
      PROVE  displays[d] # INITVAL /\ digits'[d] = displays[d]
  <2>1. displays[d] # INITVAL
    <3>1. displays[d] \in Shown
      BY DEF TypeOK
    <3>2. INITVAL \notin Shown
      BY DEF Shown, BLANK, MINUS, INITVAL
    <3>. QED
      BY <3>1, <3>2
  <2>2. Written(ChangedDisplays, ndisplays - 1) = ChangedDisplays
    <3>1. ChangedDisplays \in SUBSET (0 .. ndisplays - 1) /\ ndisplays - 1 \in Nat \cup {-1}
      BY USBAssumption DEF ChangedDisplays, Displays
    <3>. QED
      BY <3>1, WrittenAll
  <2>3. digits'[d] = IF d \in ChangedDisplays THEN displays[d] ELSE digits[d]
    BY <2>2 DEF SendMastercard
  <2>4. d \notin ChangedDisplays => digits[d] = displays[d]
    BY <2>1 DEF ChangedDisplays, ShownInv, DisplayInv
  <2>. QED
    BY <2>1, <2>3, <2>4
<1>6. DisplayInv'
  BY <1>1, <1>3, <1>5 DEF DisplayInv
<1>7. NumberInv'
  BY <1>1, <1>3 DEF ShownInv, NumberInv, Digit
<1>. QED
  BY <1>4, <1>6, <1>7 DEF ShownInv

LEMMA ShownAfterModule ==
    ASSUME ShownInv, TypeOK, UserModule
    PROVE  ShownInv'
<1>1. UNCHANGED <<outputs_old, displays_old, lamps, digits>> /\ phase' = "send"
  BY DEF UserModule, cardVars
<1>2. PICK turned, v \in Numbers \cup {number} :
        /\ displays' = [c \in Displays |-> IF v = NoNumber THEN displays[c] ELSE Digit(v, c)]
        /\ number' = v
  BY DEF UserModule
<1>3. OutputInv' /\ DisplayInv'
  BY <1>1 DEF ShownInv, OutputInv, DisplayInv, Initialised
<1>4. NumberInv'
  BY <1>1, <1>2 DEF NumberInv, Digit
<1>. QED
  BY <1>3, <1>4 DEF ShownInv

LEMMA ShownAfterStep == ShownInv /\ TypeOK /\ [Next]_vars => ShownInv'
<1>. SUFFICES ASSUME ShownInv, TypeOK, [Next]_vars PROVE ShownInv'
  OBVIOUS
<1>1. ASSUME NEW i \in Operated, Operate(i) PROVE ShownInv'
  BY <1>1, ShownUnchanged DEF Operate
<1>2. ASSUME SendReport PROVE ShownInv'
  BY <1>2, ShownUnchanged DEF SendReport
<1>3. ASSUME NEW v \in AxisValues, SendAxis(v) PROVE ShownInv'
  BY <1>3, ShownUnchanged DEF SendAxis, cardVars
<1>4. ASSUME PollThread PROVE ShownInv'
  BY <1>4, ShownUnchanged DEF PollThread, cardVars
<1>5. ASSUME ReadPacket PROVE ShownInv'
  BY <1>5, ShownUnchanged DEF ReadPacket, cardVars
<1>6. ASSUME ReadEnd PROVE ShownInv'
  BY <1>6, ShownUnchanged DEF ReadEnd, cardVars
<1>7. CASE UNCHANGED vars
  BY <1>7, ShownUnchanged DEF vars, cardVars
<1>. QED
  BY <1>1, <1>2, <1>3, <1>4, <1>5, <1>6, <1>7, ShownAfterSend, ShownAfterModule DEF Next

(* libiocards.c:1240-1391: only segments and displays that have changed are *)
(* sent, and some at a time; yet after every iteration that has sent them   *)
(* once the card shows all of them.                                         *)
THEOREM OutputsReachCard == Spec => []OutputsShown
<1>1. ShownInv => OutputsShown
  BY DefinedOutputs DEF ShownInv, OutputInv, DisplayInv, OutputsShown, Initialised
<1>. QED
  BY <1>1, ShownInitially, ShownAfterStep, TypesInitially, TypesAfterStep, PTL DEF Spec

-----------------------------------------------------------------------------
(* The number on the displays                                               *)

LEMMA PowerGrows ==
    \A k \in 0 .. ndisplays : \A j \in 0 .. k : Power[j] <= Power[k]
<1>0. ndisplays \in Nat \ {0}
  BY USBAssumption
<1>. DEFINE Good == {k \in 0 .. ndisplays : \A j \in 0 .. k : Power[j] <= Power[k]}
<1>1. 0 \in Good
  BY <1>0, PowerFacts
<1>2. ASSUME NEW k \in 0 .. ndisplays - 1, k \in Good PROVE k + 1 \in Good
  <2>1. k + 1 \in 1 .. ndisplays /\ (k + 1) - 1 = k
    BY <1>0
  <2>2. Power[k + 1] = 10 * Power[k] /\ Power[k] \in Nat \ {0}
    BY <1>0, <2>1, PowerFacts
  <2>3. ASSUME NEW j \in 0 .. k + 1 PROVE Power[j] <= Power[k + 1]
    <3>1. CASE j = k + 1
      BY <2>2, <3>1
    <3>2. CASE j # k + 1
      <4>1. j \in 0 .. k /\ j \in 0 .. ndisplays
        BY <1>0, <3>2
      <4>2. Power[j] <= Power[k] /\ Power[j] \in Nat
        BY <1>2, <4>1, PowerFacts
      <4>. QED
        BY <2>2, <4>2
    <3>. QED
      BY <3>1, <3>2
  <2>. QED
    BY <1>0, <2>1, <2>3
<1>3. \A k \in 0 .. ndisplays : k \in Good
  <2>. HIDE DEF Good
  <2>. QED
    BY <1>0, <1>1, <1>2, InductionFrom
<1>. QED
  BY <1>3

(* A number that leaves a display free has its figures in the first         *)
(* displays and its sign, if it is negative, in the next one.               *)
LEMMA Figures ==
    ASSUME NEW v \in Int, Magnitude(v) < Power[ndisplays - 1]
    PROVE  \E t \in Displays :
              /\ Magnitude(v) < Power[t + 1]
              /\ v < 0 => t + 1 \in Displays
              /\ \A c \in Displays :
                    Digit(v, c) = IF c <= t THEN (Magnitude(v) \div Power[c]) % 10
                                  ELSE IF v < 0 /\ c = t + 1 THEN MINUS ELSE BLANK
<1>0. PICK n \in Nat : n = ndisplays - 1 /\ Displays = 0 .. n /\ ndisplays = n + 1
  <2>1. ndisplays - 1 \in Nat /\ ndisplays = (ndisplays - 1) + 1
    BY USBAssumption
  <2>. QED
    BY <2>1 DEF Displays
<1>1. PICK m \in Nat : m = Magnitude(v) /\ (v < 0 => m > 0)
  BY DEF Magnitude
<1>2. /\ \A k \in 0 .. n + 1 : Power[k] \in Nat \ {0}
      /\ \A k \in 0 .. n + 1 : \A j \in 0 .. k : Power[j] <= Power[k]
      /\ Power[0] = 1 /\ m < Power[n]
  BY <1>0, <1>1, PowerFacts, PowerGrows
<1>3. m % Power[ndisplays] = m
  <2>1. Power[n] <= Power[n + 1] /\ Power[n + 1] \in Nat \ {0} /\ Power[n] \in Nat
    BY <1>2
  <2>2. m < Power[n + 1]
    BY <1>2, <2>1
  <2>3. PICK d \in Nat \ {0} : d = Power[n + 1]
    BY <2>1
  <2>4. m % d = m
    BY <2>2, <2>3
  <2>. QED
    BY <1>0, <2>3, <2>4
<1>. DEFINE T == {k \in 0 .. n : k = 0 \/ Power[k] <= m}
<1>4. PICK t \in T : \A k \in T : k <= t
  <2>1. T \in SUBSET Int /\ 0 \in T /\ n \in Int /\ \A k \in T : k <= n
    BY <1>0
  <2>. HIDE DEF T
  <2>. QED
    BY <1>0, <2>1, GreatestInteger
<1>5. t \in 0 .. n /\ t + 1 \in 0 .. n + 1
  BY <1>4
<1>6. m < Power[t + 1] /\ (t < n \/ (t = n /\ n = 0))
  <2>1. CASE t = n
    <3>1. n = 0
      BY <1>2, <1>4, <2>1
    <3>2. Power[0] <= Power[1] /\ Power[1] \in Nat
      BY <1>2, <3>1
    <3>. QED
      BY <1>2, <2>1, <3>1, <3>2
  <2>2. CASE t # n
    <3>1. t < n /\ t + 1 \in 0 .. n
      BY <1>5, <2>2
    <3>2. ~(Power[t + 1] <= m)
      <4>1. t + 1 \notin T
        BY <1>4, <1>5
      <4>. QED
        BY <3>1, <4>1
    <3>3. Power[t + 1] \in Nat
      BY <1>2, <1>5
    <3>. QED
      BY <3>1, <3>2, <3>3
  <2>. QED
    BY <2>1, <2>2
<1>7. v < 0 => t + 1 \in Displays
  <2>. SUFFICES ASSUME v < 0 PROVE t + 1 \in 0 .. n
    BY <1>0
  <2>1. ~(t = n /\ n = 0)
    BY <1>1, <1>2
  <2>. QED
    BY <1>5, <1>6, <2>1
<1>8. {k \in 1 .. n : m >= Power[k]} = 1 .. t
  <2>1. ASSUME NEW k \in 1 .. n, m >= Power[k] PROVE k \in 1 .. t
    <3>1. Power[k] \in Nat
      BY <1>2
    <3>2. k \in T
      BY <2>1, <3>1
    <3>. QED
      BY <1>4, <3>2
  <2>2. ASSUME NEW k \in 1 .. t PROVE k \in 1 .. n /\ m >= Power[k]
    <3>1. k \in 1 .. n /\ k \in 0 .. t /\ t \in 0 .. n + 1 /\ t # 0
      BY <1>5
    <3>2. Power[t] <= m
      BY <1>4, <3>1
    <3>3. Power[k] <= Power[t] /\ Power[k] \in Nat /\ Power[t] \in Nat
      BY <1>2, <3>1
    <3>. QED
      BY <3>1, <3>2, <3>3
  <2>. QED
    BY <2>1, <2>2
<1>9. Cardinality(1 .. t) = t
  BY <1>5, FS_Interval
<1>10. ASSUME NEW c \in Displays
       PROVE  Digit(v, c) = IF c <= t THEN (m \div Power[c]) % 10
                            ELSE IF v < 0 /\ c = t + 1 THEN MINUS ELSE BLANK
  <2>. HIDE DEF T
  <2>1. Cardinality({k \in 1 .. ndisplays - 1 : m >= Power[k]}) = t
    BY <1>0, <1>8, <1>9
  <2>2. Digit(v, c) = LET shown == Magnitude(v) % Power[ndisplays]
                          top == Cardinality({k \in 1 .. ndisplays - 1 : shown >= Power[k]})
                      IN  IF c <= top THEN (shown \div Power[c]) % 10
                          ELSE IF v < 0 /\ c = top + 1 THEN MINUS ELSE BLANK
    BY Zenon DEF Digit
  <2>3. Magnitude(v) % Power[ndisplays] = m
    BY <1>1, <1>3
  <2>. QED
    BY <2>1, <2>2, <2>3
<1>. QED
  BY <1>0, <1>1, <1>5, <1>6, <1>7, <1>10

(* libiocards.c:954-993: the displays show the number written last, without *)
(* zeros before it and with its sign, for any number of displays that       *)
(* leaves room for the sign.                                                *)
THEOREM NumberReachesDisplays == Spec => []NumberShown
<1>1. ShownInv /\ TypeOK => NumberShown
  <2>. SUFFICES ASSUME ShownInv, TypeOK, phase = "receive", number # NoNumber,
                       Magnitude(number) < Power[ndisplays - 1]
                PROVE  LET figures == {d \in Displays : digits[d] <= 9}
                       IN  /\ \E top \in Displays : figures = 0 .. top
                           /\ \A d \in figures : digits[d] = (Magnitude(number) \div Power[d]) % 10
                           /\ Magnitude(number) < Power[Cardinality(figures)]
                           /\ number < 0 <=> \E d \in Displays : digits[d] = MINUS
    BY DEF NumberShown
  <2>. DEFINE figures == {d \in Displays : digits[d] <= 9}
  <2>0. number \in Int
    BY USBAssumption DEF TypeOK, NoNumber
  <2>1. PICK t \in Displays :
          /\ Magnitude(number) < Power[t + 1]
          /\ number < 0 => t + 1 \in Displays
          /\ \A c \in Displays :
                Digit(number, c) = IF c <= t THEN (Magnitude(number) \div Power[c]) % 10
                                   ELSE IF number < 0 /\ c = t + 1 THEN MINUS ELSE BLANK
    BY <2>0, Figures
  <2>2. \A d \in Displays : digits[d] = Digit(number, d)
    BY DEF ShownInv, DisplayInv, NumberInv
  <2>3. /\ t \in Nat /\ \A d \in Displays : d \in Nat
        /\ \A d \in 0 .. t : d \in Displays /\ d <= t
    BY USBAssumption DEF Displays
  <2>4. ASSUME NEW d \in Displays
        PROVE  /\ d <= t => digits[d] = (Magnitude(number) \div Power[d]) % 10 /\ digits[d] \in 0 .. 9
               /\ ~(d <= t) /\ number < 0 /\ d = t + 1 => digits[d] = 248
               /\ ~(d <= t) /\ ~(number < 0 /\ d = t + 1) => digits[d] = 10
    <3>1. PICK q \in Int : q = Magnitude(number) \div Power[d]
      <4>1. Magnitude(number) \in Nat /\ Power[d] \in Nat \ {0}
        BY <2>0, PowerFacts, USBAssumption DEF Magnitude, Displays
      <4>. QED
        BY <4>1
    <3>2. q % 10 \in 0 .. 9
      OBVIOUS
    <3>. QED
      BY <2>1, <2>2, <3>1, <3>2 DEF MINUS, BLANK
  <2>5. figures = 0 .. t
    <3>1. ASSUME NEW d \in Displays PROVE digits[d] <= 9 <=> d \in 0 .. t
      BY <2>3, <2>4
    <3>. QED
      BY <2>3, <3>1
  <2>6. Cardinality(figures) = t + 1
    <3>1. 0 \in Int /\ t \in Int /\ 0 <= t
      BY <2>3
    <3>2. Cardinality(0 .. t) = t - 0 + 1
      BY <3>1, FS_Interval
    <3>3. t - 0 + 1 = t + 1
      BY <2>3
    <3>. QED
      BY <2>5, <3>2, <3>3, Zenon
  <2>7. number < 0 <=> \E d \in Displays : digits[d] = MINUS
    <3>1. ASSUME number < 0 PROVE \E d \in Displays : digits[d] = MINUS
      <4>1. t + 1 \in Displays /\ ~(t + 1 <= t)
        BY <2>1, <2>3, <3>1
      <4>2. digits[t + 1] = 248
        BY <2>4, <3>1, <4>1
      <4>. QED
        BY <4>1, <4>2 DEF MINUS
    <3>2. ASSUME NEW d \in Displays, digits[d] = MINUS PROVE number < 0
      BY <2>4, <3>2 DEF MINUS
    <3>. QED
      BY <3>1, <3>2
  <2>8. \A d \in figures : digits[d] = (Magnitude(number) \div Power[d]) % 10
    <3>. HIDE DEF figures
    <3>. QED
      BY <2>3, <2>4, <2>5
  <2>. QED
    <3>1. Magnitude(number) < Power[Cardinality(figures)]
      BY <2>1, <2>6
    <3>. HIDE DEF figures
    <3>2. \E top \in Displays : figures = 0 .. top
      BY <2>5
    <3>3. /\ \E top \in Displays : figures = 0 .. top
          /\ \A d \in figures : digits[d] = (Magnitude(number) \div Power[d]) % 10
          /\ Magnitude(number) < Power[Cardinality(figures)]
          /\ number < 0 <=> \E d \in Displays : digits[d] = MINUS
      BY <2>7, <2>8, <3>1, <3>2
    <3>. QED
      BY <3>3 DEF figures
<1>. QED
  BY <1>1, ShownInitially, ShownAfterStep, TypesInitially, TypesAfterStep, PTL DEF Spec

-----------------------------------------------------------------------------
(* The decoder undoes the report                                            *)

LEMMA RestSize ==
    ASSUME NEW B, IsFiniteSet(B), NEW A \in SUBSET B
    PROVE  /\ Cardinality(A) \in Nat /\ Cardinality(B) \in Nat
           /\ Cardinality(B \ A) = Cardinality(B) - Cardinality(A)
<1>1. B \cap A = A
  OBVIOUS
<1>2. Cardinality(B \ A) = Cardinality(B) - Cardinality(B \cap A)
  BY FS_Difference
<1>3. IsFiniteSet(A)
  BY FS_Subset
<1>. QED
  BY <1>1, <1>2, <1>3, FS_CardinalityType

(* Ranks rise with the slots.                                               *)
LEMMA RankOrder ==
    ASSUME NEW S \in SUBSET Slots, NEW x \in S, NEW y \in S
    PROVE  /\ Rank(x, S) \in Nat /\ Rank(x, S) < Cardinality(S)
           /\ x < y <=> Rank(x, S) < Rank(y, S)
           /\ Rank(x, S) = Rank(y, S) => x = y
<1>1. /\ x \in Slots /\ y \in Slots /\ x \in Nat /\ y \in Nat
      /\ \E n \in Int : Slots = 0 .. n
  BY SlotsFacts
<1>2. ASSUME NEW a \in S, NEW b \in S, a < b PROVE Rank(a, S) < Rank(b, S)
  <2>1. PICK n \in Int : Slots = 0 .. n
    BY <1>1
  <2>2. a \in Int /\ b \in Int /\ 0 \in Int /\ \A h \in S : h \in 0 .. n /\ h \in Int
    BY <2>1
  <2>3. PICK next \in Int : next = a + 1
    BY <2>2
  <2>4. /\ IsFiniteSet(Before(S, a)) /\ Cardinality(Before(S, a)) \in Nat
        /\ Cardinality(Before(S, a + 1)) = Cardinality(Before(S, a)) + (IF a \in S THEN 1 ELSE 0)
    <3>1. PICK lo \in Int : lo = 0
      OBVIOUS
    <3>2. \A h \in S : h \in lo .. n
      BY <2>2, <3>1
    <3>. QED
      BY <2>2, <3>2, RankStep
  <2>5. Cardinality(Before(S, next)) = Cardinality(Before(S, a)) + 1
    BY <2>3, <2>4
  <2>6. Before(S, next) \in SUBSET Before(S, b) /\ IsFiniteSet(Before(S, b))
    <3>1. IsFiniteSet(Before(S, b))
      <4>1. Before(S, b) \in SUBSET S /\ IsFiniteSet(S)
        BY RankFacts, <1>1 DEF Before
      <4>. QED
        BY <4>1, FS_Subset
    <3>2. Before(S, next) \in SUBSET Before(S, b)
      <4>1. ASSUME NEW h \in S, h < next PROVE h < b
        <5>1. h \in Int
          BY <2>2
        <5>. QED
          BY <1>2, <2>2, <2>3, <4>1, <5>1
      <4>. QED
        BY <4>1 DEF Before
    <3>. QED
      BY <3>1, <3>2
  <2>7. Cardinality(Before(S, next)) <= Cardinality(Before(S, b)) /\ Cardinality(Before(S, b)) \in Nat
    BY <2>6, FS_Subset, FS_CardinalityType
  <2>8. Rank(a, S) = Cardinality(Before(S, a)) /\ Rank(b, S) = Cardinality(Before(S, b))
    BY DEF Rank, Before
  <2>. QED
    BY <2>4, <2>5, <2>7, <2>8
<1>3. Rank(x, S) \in Nat /\ Rank(y, S) \in Nat /\ Rank(x, S) < Cardinality(S)
  BY <1>1, RankFacts
<1>4. x < y => Rank(x, S) < Rank(y, S)
  BY <1>2
<1>5. y < x => Rank(y, S) < Rank(x, S)
  BY <1>2
<1>. QED
  BY <1>1, <1>3, <1>4, <1>5

Front(S, c) == {x \in S : Rank(x, S) < c}
Rear(S, c) == {x \in S : Rank(x, S) >= c}

(* The slots from rank c on.                                                *)
LEMMA RankInTail ==
    ASSUME NEW S \in SUBSET Slots, NEW c \in Nat, c <= Cardinality(S)
    PROVE  /\ Cardinality(Front(S, c)) = c
           /\ Rear(S, c) \in SUBSET Slots
           /\ Cardinality(Rear(S, c)) = Cardinality(S) - c
           /\ \A x \in Rear(S, c) : Rank(x, Rear(S, c)) = Rank(x, S) - c
<1>1. IsFiniteSet(S) /\ Cardinality(S) \in Nat /\ S \in SUBSET Nat
  BY SlotsFacts, FS_Subset, FS_CardinalityType
<1>2. Front(S, c) \in SUBSET S /\ Rear(S, c) = S \ Front(S, c)
  BY RankOrder DEF Front, Rear
<1>3. Cardinality(Front(S, c)) = c
  <2>1. CASE c = Cardinality(S)
    <3>1. Front(S, c) = S
      BY <2>1, RankOrder DEF Front
    <3>. QED
      BY <2>1, <3>1
  <2>2. CASE c < Cardinality(S)
    <3>1. PICK e \in S : Rank(e, S) = c
      BY <2>2, AtFacts
    <3>2. Front(S, c) = Before(S, e)
      BY <3>1, RankOrder DEF Front, Before
    <3>. QED
      BY <3>1, <3>2 DEF Rank, Before
  <2>. QED
    BY <1>1, <2>1, <2>2
<1>4. Cardinality(Rear(S, c)) = Cardinality(S) - c
  BY <1>1, <1>2, <1>3, RestSize
<1>5. ASSUME NEW x \in Rear(S, c) PROVE Rank(x, Rear(S, c)) = Rank(x, S) - c
  <2>1. x \in S /\ Rank(x, S) >= c
    BY DEF Rear
  <2>2. Front(S, c) \in SUBSET Before(S, x)
    <3>1. ASSUME NEW y \in Front(S, c) PROVE y < x
      <4>1. y \in S /\ Rank(y, S) < c /\ Rank(y, S) \in Nat /\ Rank(x, S) \in Nat
        BY <2>1, RankOrder DEF Front
      <4>. QED
        BY <2>1, <4>1, RankOrder
    <3>. QED
      BY <1>2, <3>1 DEF Before
  <2>3. Before(Rear(S, c), x) = Before(S, x) \ Front(S, c)
    BY <1>2 DEF Before
  <2>4. IsFiniteSet(Before(S, x))
    <3>1. Before(S, x) \in SUBSET S
      BY DEF Before
    <3>. QED
      BY <1>1, <3>1, FS_Subset
  <2>5. Cardinality(Before(Rear(S, c), x)) = Cardinality(Before(S, x)) - c
    BY <1>3, <2>2, <2>3, <2>4, RestSize
  <2>. QED
    BY <2>5 DEF Rank, Before
<1>. QED
  BY <1>2, <1>3, <1>4, <1>5

(* Where the bytes of a slot are in a report.                               *)
LEMMA BytesOfPlaces ==
    ASSUME NEW S \in SUBSET Slots
    PROVE  /\ Len(BytesOf(S)) = Cardinality(S)
                                + (Cardinality(S) + BitsPerByte - 1) \div BitsPerByte
           /\ \A x \in S :
                /\ \A b \in 0 .. BitsPerByte - 1 :
                        BytesOf(S)[Rank(x, S) + 1][b] = level[<<x, b>>]
                /\ BytesOf(S)[Cardinality(S) + Rank(x, S) \div BitsPerByte + 1]
                             [Rank(x, S) % BitsPerByte] = level[<<x, BitsPerByte>>]
                /\ Cardinality(S) + Rank(x, S) \div BitsPerByte < Len(BytesOf(S))
<1>1. PICK n \in Nat : n = Cardinality(S)
  BY SlotsFacts, FS_Subset, FS_CardinalityType
<1>2. PICK d \in Nat \ {0} : d = BitsPerByte
  BY USBAssumption
<1>3. PICK m \in Nat : m = (n + d - 1) \div d
  <2>1. n + d - 1 \in Nat
    BY <1>1, <1>2
  <2>. QED
    BY <1>2, <2>1, DivNat
<1>. DEFINE Places == 0 .. d - 1
            byte1(k) == [b \in Places |-> level[<<At(k - 1, S), b>>]]
            byte2(k) == [b \in Places |->
                LET r == (k - 1) * d + b
                IN  IF r < n THEN level[<<At(r, S), d>>] ELSE 0]
            A == [k \in 1 .. n |-> byte1(k)]
            B == [k \in 1 .. m |-> byte2(k)]
<1>4. BytesOf(S) = A \o B
  BY <1>1, <1>2, <1>3 DEF BytesOf
<1>5. /\ Len(A \o B) = n + m
      /\ \A k \in 1 .. n : (A \o B)[k] = byte1(k)
      /\ \A k \in 1 .. m : (A \o B)[n + k] = byte2(k)
  <2>. HIDE DEF byte1, byte2
  <2>1. PICK V : /\ \A k \in 1 .. n : byte1(k) \in V
                 /\ \A k \in 1 .. m : byte2(k) \in V
    <3>. DEFINE V == {byte1(k) : k \in 1 .. n} \cup {byte2(k) : k \in 1 .. m}
    <3>1. /\ \A k \in 1 .. n : byte1(k) \in V
          /\ \A k \in 1 .. m : byte2(k) \in V
      OBVIOUS
    <3>. QED
      BY <3>1, Zenon
  <2>2. A \in Seq(V) /\ Len(A) = n /\ B \in Seq(V) /\ Len(B) = m
    BY <2>1
  <2>. QED
    BY <2>2
<1>6. ASSUME NEW x \in S, NEW r \in Nat, r = Rank(x, S)
      PROVE  r < n /\ At(r, S) = x
  <2>1. r < n
    BY <1>1, <1>6, RankOrder
  <2>2. At(r, S) \in S /\ Rank(At(r, S), S) = r
    BY <1>1, <2>1, AtFacts
  <2>. QED
    BY <1>6, <2>1, <2>2, RankOrder
<1>7. ASSUME NEW x \in S, NEW b \in 0 .. BitsPerByte - 1
      PROVE  BytesOf(S)[Rank(x, S) + 1][b] = level[<<x, b>>]
  <2>1. PICK r \in Nat : r = Rank(x, S) /\ r < n /\ At(r, S) = x
    BY <1>6, RankOrder
  <2>2. PICK k \in 1 .. n : k = r + 1 /\ k - 1 = r
    BY <2>1
  <2>3. BytesOf(S)[k] = byte1(k)
    <3>. HIDE DEF byte1, A, B
    <3>. QED
      BY <1>4, <1>5
  <2>. QED
    BY <1>2, <2>1, <2>2, <2>3
<1>8. ASSUME NEW x \in S
      PROVE  /\ BytesOf(S)[n + Rank(x, S) \div d + 1][Rank(x, S) % d] = level[<<x, d>>]
             /\ n + Rank(x, S) \div d < Len(BytesOf(S))
  <2>1. PICK r \in Nat : r = Rank(x, S) /\ r < n /\ At(r, S) = x
    BY <1>6, RankOrder
  <2>2. PICK q \in Nat, b \in 0 .. d - 1 : q = r \div d /\ b = r % d /\ r = d * q + b
    BY Quotient
  <2>3. q + 1 <= m
    <3>1. PICK c \in Int : c = n + d - 1
      OBVIOUS
    <3>2. PICK e \in 0 .. d - 1 : c = d * m + e
      BY <1>3, <3>1, DivMod
    <3>3. SUFFICES ASSUME q >= m PROVE FALSE
      OBVIOUS
    <3>4. d * q >= d * m
      BY <3>3
    <3>. QED
      BY <2>1, <2>2, <3>1, <3>2, <3>4
  <2>4. PICK k \in 1 .. m : k = q + 1 /\ k - 1 = q
    BY <2>3
  <2>5. BytesOf(S)[n + k] = byte2(k)
    <3>. HIDE DEF byte2, A, B
    <3>. QED
      BY <1>4, <1>5
  <2>6. (k - 1) * d + b = r
    BY <2>2, <2>4
  <2>7. byte2(k)[b] = level[<<x, d>>]
    BY <2>1, <2>6
  <2>8. n + q + 1 = n + k /\ n + q < n + m
    BY <2>4
  <2>9. Len(BytesOf(S)) = n + m
    <3>. HIDE DEF A, B
    <3>. QED
      BY <1>4, <1>5
  <2>. HIDE DEF byte2, A, B
  <2>. QED
    BY <2>1, <2>2, <2>5, <2>7, <2>8, <2>9
<1>. HIDE DEF A, B
<1>. QED
  BY <1>1, <1>2, <1>3, <1>4, <1>5, <1>7, <1>8

(* The last input of a slot is in this byte of a report, counted from 0.    *)
LastPlace(x, S) == Cardinality(S) + Rank(x, S) \div BitsPerByte

(* The slots after the first j bytes of a report of the slots S, and an     *)
(* input that has been read from them.                                      *)
SlotsAfter(S, j) ==
    [x \in Slots |-> IF x \notin S THEN 0 ELSE IF LastPlace(x, S) < j THEN 3
                     ELSE IF Rank(x, S) < j THEN 2 ELSE 1]
InputRead(S, j, i) ==
    /\ i \in Defined /\ i[1] \in S
    /\ IF i[2] < BitsPerByte THEN Rank(i[1], S) < j ELSE LastPlace(i[1], S) < j

(* The packet p has the bytes from j to m of a report of the slots S when   *)
(* the inputs were L.                                                       *)
Part(S, L, j, m, p) ==
    /\ j <= m /\ (p.cont \/ j = 0) /\ (p.cont \/ p.slots = S)
    /\ p.bytes \in Seq(Byte) /\ Len(p.bytes) = m - j
    /\ \A x \in S :
        /\ j <= Rank(x, S) /\ Rank(x, S) < m =>
              \A b \in 0 .. BitsPerByte - 1 : p.bytes[Rank(x, S) - j + 1][b] = L[<<x, b>>]
        /\ j <= LastPlace(x, S) /\ LastPlace(x, S) < m =>
              p.bytes[LastPlace(x, S) - j + 1][Rank(x, S) % BitsPerByte] = L[<<x, BitsPerByte>>]

(* BitsPerByte slots are done with each byte after the first bytes of the   *)
(* slots.                                                                   *)
LEMMA DoneSlots ==
    ASSUME NEW S \in SUBSET Slots, NEW j \in Nat
    PROVE  \E e \in Nat :
              /\ e <= Cardinality(S)
              /\ Front(S, e) = {x \in S : LastPlace(x, S) < j}
              /\ Rear(S, e) = {x \in S : ~(LastPlace(x, S) < j)}
              /\ \A x \in Rear(S, e) :
                    /\ (e + (Rank(x, S) - e)) % BitsPerByte = Rank(x, S) % BitsPerByte
                    /\ j > Cardinality(S) => Cardinality(S) + (Rank(x, S) - e) \div BitsPerByte
                                             = LastPlace(x, S) - (j - Cardinality(S))
                    /\ j <= Cardinality(S) => e = 0
<1>1. PICK n \in Nat : n = Cardinality(S)
  BY SlotsFacts, FS_Subset, FS_CardinalityType
<1>2. PICK d \in Nat \ {0} : d = BitsPerByte
  BY USBAssumption
<1>3. ASSUME NEW x \in S
      PROVE  \E r, q \in Nat : \E c \in 0 .. d - 1 :
                /\ r = Rank(x, S) /\ r < n /\ q = r \div d /\ c = r % d /\ r = d * q + c
                /\ LastPlace(x, S) = n + q
  <2>1. PICK r \in Nat : r = Rank(x, S) /\ r < n
    BY <1>1, RankOrder
  <2>2. PICK q \in Nat, c \in 0 .. d - 1 : q = r \div d /\ c = r % d /\ r = d * q + c
    BY Quotient
  <2>. QED
    BY <1>1, <1>2, <2>1, <2>2 DEF LastPlace
<1>4. CASE j <= n
  <2>1. ASSUME NEW x \in S PROVE Rank(x, S) \in Nat /\ ~(LastPlace(x, S) < j)
    BY <1>3, <1>4
  <2>2. Front(S, 0) = {x \in S : LastPlace(x, S) < j}
    BY <2>1 DEF Front
  <2>3. Rear(S, 0) = {x \in S : ~(LastPlace(x, S) < j)}
    BY <2>1 DEF Rear
  <2>4. ASSUME NEW x \in S PROVE (0 + (Rank(x, S) - 0)) = Rank(x, S)
    BY <2>1
  <2>. QED
    BY <1>1, <1>4, <2>2, <2>3, <2>4 DEF Rear
<1>5. CASE j > n
  <2>1. PICK k \in Nat : k = j - n
    BY <1>5
  <2>2. PICK o \in Nat : o = d * k
    OBVIOUS
  <2>3. PICK e \in Nat : e = (IF o < n THEN o ELSE n)
    OBVIOUS
  <2>4. ASSUME NEW x \in S PROVE LastPlace(x, S) < j <=> Rank(x, S) < e
    <3>1. PICK r, q \in Nat, c \in 0 .. d - 1 :
                /\ r = Rank(x, S) /\ r < n /\ r = d * q + c /\ LastPlace(x, S) = n + q
      BY <1>3
    <3>2. ASSUME q < k PROVE r < o
      <4>1. d * (q + 1) <= d * k
        BY <3>2
      <4>2. d * (q + 1) = d * q + d
        OBVIOUS
      <4>. QED
        BY <2>2, <3>1, <4>1, <4>2
    <3>3. ASSUME q >= k PROVE r >= o
      <4>1. d * q >= d * k
        BY <3>3
      <4>. QED
        BY <2>2, <3>1, <4>1
    <3>. QED
      BY <2>1, <2>3, <3>1, <3>2, <3>3
  <2>5. Front(S, e) = {x \in S : LastPlace(x, S) < j}
    BY <2>4 DEF Front
  <2>6. Rear(S, e) = {x \in S : ~(LastPlace(x, S) < j)}
    <3>1. \A x \in S : Rank(x, S) \in Nat
      BY RankOrder
    <3>. QED
      BY <2>4, <3>1 DEF Rear
  <2>7. ASSUME NEW x \in Rear(S, e)
        PROVE  /\ e + (Rank(x, S) - e) = Rank(x, S)
               /\ n + (Rank(x, S) - e) \div d = LastPlace(x, S) - (j - n)
    <3>0. x \in S /\ Rank(x, S) >= e
      BY DEF Rear
    <3>1. PICK r, q \in Nat, c \in 0 .. d - 1 :
                /\ r = Rank(x, S) /\ r < n /\ r = d * q + c /\ LastPlace(x, S) = n + q
      BY <1>3, <3>0
    <3>2. e = o
      BY <2>3, <3>0, <3>1
    <3>3. r - e = d * (q - k) + c
      BY <2>2, <3>1, <3>2
    <3>4. PICK z \in Int : z = q - k
      OBVIOUS
    <3>5. (d * z + c) \div d = z
      BY DivUnique
    <3>6. (r - e) \div d = z
      BY <3>3, <3>4, <3>5
    <3>. QED
      BY <2>1, <3>1, <3>4, <3>6
  <2>. QED
    BY <1>1, <1>2, <1>5, <2>3, <2>5, <2>6, <2>7
<1>. QED
  BY <1>1, <1>4, <1>5

LEMMA PlacesFacts ==
    ASSUME NEW S \in SUBSET Slots, NEW x \in S
    PROVE  /\ Cardinality(S) \in Nat /\ Rank(x, S) \in Nat /\ LastPlace(x, S) \in Nat
           /\ Rank(x, S) < Cardinality(S) /\ Cardinality(S) <= LastPlace(x, S)
<1>1. PICK n \in Nat : n = Cardinality(S)
  BY SlotsFacts, FS_Subset, FS_CardinalityType
<1>2. PICK r \in Nat : r = Rank(x, S) /\ r < n
  BY <1>1, RankOrder
<1>3. BitsPerByte \in Nat \ {0}
  BY USBAssumption
<1>4. r \div BitsPerByte \in Nat
  BY <1>3, DivNat
<1>. QED
  BY <1>1, <1>2, <1>4 DEF LastPlace

(* Where receive_mastercard puts the bytes from j to m of a report, when it *)
(* has the slot data D and the packet has n bytes.                          *)
PlacesOf(S, j, m, D, n) ==
    /\ Firsts(D, n) = {x \in S : j <= Rank(x, S) /\ Rank(x, S) < m}
    /\ \A x \in Firsts(D, n) : Rank(x, Lacking(D)) = Rank(x, S) - j
    /\ Lasts(D, n) = {x \in S : j <= LastPlace(x, S) /\ LastPlace(x, S) < m}
    /\ \A x \in Lasts(D, n) :
         /\ NineByteOf(D, n, x) = LastPlace(x, S) - j + 1
         /\ LastBit(x, Nines(D, n), Finished(D)) = Rank(x, S) % BitsPerByte

LEMMA PlacesOfPart ==
    ASSUME NEW S \in SUBSET Slots, NEW j \in Nat, NEW m \in Nat, j <= m,
           NEW D, D = SlotsAfter(S, j), NEW n, n = m - j
    PROVE  PlacesOf(S, j, m, D, n)
<1>1. PICK N \in Nat : N = Cardinality(S)
  BY SlotsFacts, FS_Subset, FS_CardinalityType
<1>2. \A x \in S : /\ x \in Slots /\ Rank(x, S) \in Nat /\ LastPlace(x, S) \in Nat
                   /\ Rank(x, S) < N /\ N <= LastPlace(x, S)
  BY <1>1, PlacesFacts
<1>3. PICK c \in Nat : c = (IF j > N THEN N ELSE j)
  OBVIOUS
<1>4. Lacking(D) = Rear(S, c)
  <2>1. ASSUME NEW x \in Slots
        PROVE  D[x] = 1 <=> x \in S /\ Rank(x, S) >= c
    <3>1. CASE x \notin S
      BY <3>1 DEF SlotsAfter
    <3>2. CASE x \in S
      BY <1>2, <1>3, <3>2 DEF SlotsAfter
    <3>. QED
      BY <3>1, <3>2
  <2>. QED
    BY <1>2, <2>1 DEF Lacking, Rear
<1>5. /\ Cardinality(Lacking(D)) = N - c
      /\ \A x \in Lacking(D) : Rank(x, Lacking(D)) = Rank(x, S) - c
  BY <1>1, <1>3, <1>4, RankInTail
<1>6. Firsts(D, n) = {x \in S : j <= Rank(x, S) /\ Rank(x, S) < m}
  <2>1. ASSUME NEW x \in S
        PROVE  x \in Lacking(D) /\ Rank(x, S) - c < n <=> j <= Rank(x, S) /\ Rank(x, S) < m
    BY <1>2, <1>3, <1>4 DEF Rear
  <2>2. \A x \in Lacking(D) : x \in S
    BY <1>4 DEF Rear
  <2>. QED
    BY <1>5, <2>1, <2>2 DEF Firsts
<1>7. \A x \in Firsts(D, n) : Rank(x, Lacking(D)) = Rank(x, S) - j
  <2>. TAKE x \in Firsts(D, n)
  <2>1. x \in Lacking(D) /\ x \in S /\ j <= Rank(x, S)
    BY <1>6 DEF Firsts
  <2>. QED
    BY <1>2, <1>3, <1>5, <2>1
<1>8. PICK e \in Nat :
              /\ e <= N
              /\ Front(S, e) = {x \in S : LastPlace(x, S) < j}
              /\ Rear(S, e) = {x \in S : ~(LastPlace(x, S) < j)}
              /\ \A x \in Rear(S, e) :
                    /\ (e + (Rank(x, S) - e)) % BitsPerByte = Rank(x, S) % BitsPerByte
                    /\ j > N => N + (Rank(x, S) - e) \div BitsPerByte = LastPlace(x, S) - (j - N)
                    /\ j <= N => e = 0
  BY <1>1, DoneSlots
<1>9. /\ Cardinality(Front(S, e)) = e
      /\ \A x \in Rear(S, e) : Rank(x, Rear(S, e)) = Rank(x, S) - e
  BY <1>1, <1>8, RankInTail
<1>10. Finished(D) = e
  <2>1. ASSUME NEW x \in Slots PROVE D[x] = 3 <=> x \in S /\ LastPlace(x, S) < j
    BY DEF SlotsAfter
  <2>2. {x \in Slots : D[x] = 3} = Front(S, e)
    BY <1>2, <1>8, <2>1
  <2>. QED
    BY <1>9, <2>2 DEF Finished
<1>11. Nines(D, n) = IF m > N /\ m > j THEN Rear(S, e) ELSE {}
  <2>1. n > Cardinality(Lacking(D)) <=> m > N /\ m > j
    BY <1>3, <1>5
  <2>2. ASSUME m > N, NEW x \in Slots
        PROVE  D[x] = 2 \/ x \in Firsts(D, n) <=> x \in S /\ ~(LastPlace(x, S) < j)
    <3>1. CASE x \notin S
      BY <1>6, <3>1 DEF SlotsAfter
    <3>2. CASE x \in S
      BY <1>2, <1>6, <2>2, <3>2 DEF SlotsAfter
    <3>. QED
      BY <3>1, <3>2
  <2>3. ASSUME m > N PROVE {x \in Slots : D[x] = 2} \cup Firsts(D, n) = Rear(S, e)
    BY <1>2, <1>6, <1>8, <2>2, <2>3
  <2>. QED
    BY <2>1, <2>3 DEF Nines
<1>12. ASSUME NEW x \in Nines(D, n)
       PROVE  /\ x \in S /\ m > N /\ m > j /\ ~(LastPlace(x, S) < j)
              /\ NineByteOf(D, n, x) = LastPlace(x, S) - j + 1
              /\ LastBit(x, Nines(D, n), Finished(D)) = Rank(x, S) % BitsPerByte
  <2>1. Nines(D, n) = Rear(S, e) /\ m > N /\ m > j
    BY <1>11
  <2>2. x \in S /\ ~(LastPlace(x, S) < j) /\ x \in Rear(S, e)
    BY <1>8, <2>1
  <2>3. Rank(x, Nines(D, n)) = Rank(x, S) - e
    BY <1>9, <2>1, <2>2
  <2>4. NineByteOf(D, n, x) = LastPlace(x, S) - j + 1
    <3>0. NineByteOf(D, n, x) = (N - c) + (Rank(x, S) - e) \div BitsPerByte + 1
      BY <1>5, <2>3 DEF NineByteOf
    <3>1. PICK z \in Int : z = (Rank(x, S) - e) \div BitsPerByte
      <4>1. Rank(x, S) - e \in Int /\ BitsPerByte \in Nat \ {0}
        BY <1>2, <2>2, USBAssumption
      <4>2. (Rank(x, S) - e) \div BitsPerByte \in Int
        BY <4>1, DivMod
      <4>. QED
        BY <4>2
    <3>2. CASE j > N
      <4>1. N + z = LastPlace(x, S) - (j - N)
        BY <1>8, <2>2, <3>1, <3>2
      <4>. QED
        BY <1>2, <1>3, <2>2, <3>0, <3>1, <3>2, <4>1
    <3>3. CASE j <= N
      <4>1. e = 0 /\ Rank(x, S) - e = Rank(x, S)
        BY <1>2, <1>8, <2>2, <3>3
      <4>2. LastPlace(x, S) = N + z
        BY <1>1, <3>1, <4>1 DEF LastPlace
      <4>. QED
        BY <1>3, <3>0, <3>1, <3>3, <4>2
    <3>. QED
      BY <3>2, <3>3
  <2>5. LastBit(x, Nines(D, n), Finished(D)) = Rank(x, S) % BitsPerByte
    BY <1>8, <1>10, <2>2, <2>3 DEF LastBit
  <2>. QED
    BY <2>1, <2>2, <2>4, <2>5
<1>13. Lasts(D, n) = {x \in S : j <= LastPlace(x, S) /\ LastPlace(x, S) < m}
  <2>1. ASSUME NEW x \in Nines(D, n)
        PROVE  NineByteOf(D, n, x) <= n <=> LastPlace(x, S) < m
    BY <1>2, <1>12
  <2>2. ASSUME NEW x \in S, j <= LastPlace(x, S), LastPlace(x, S) < m PROVE x \in Nines(D, n)
    <3>1. m > N /\ m > j /\ ~(LastPlace(x, S) < j)
      BY <1>2, <2>2
    <3>. QED
      BY <1>8, <1>11, <3>1
  <2>3. ASSUME NEW x \in Nines(D, n) PROVE x \in S /\ j <= LastPlace(x, S)
    BY <1>2, <1>12
  <2>. QED
    BY <2>1, <2>2, <2>3 DEF Lasts
<1>14. ASSUME NEW x \in Lasts(D, n) PROVE x \in Nines(D, n)
  BY DEF Lasts
<1>15. \A x \in Lasts(D, n) :
          /\ NineByteOf(D, n, x) = LastPlace(x, S) - j + 1
          /\ LastBit(x, Nines(D, n), Finished(D)) = Rank(x, S) % BitsPerByte
  BY <1>12, <1>14
<1>. QED
  BY <1>6, <1>7, <1>13, <1>15 DEF PlacesOf

(* receive_mastercard undoes one packet of a report.                        *)
LEMMA DecodePart ==
    ASSUME NEW S \in SUBSET Slots, NEW L, NEW j \in Nat, NEW m \in Nat, NEW p,
           Part(S, L, j, m, p), p.cont => slotdata = SlotsAfter(S, j)
    PROVE  /\ Decoded(p).slotdata = SlotsAfter(S, m)
           /\ Decoded(p).inputs =
                [i \in Inputs |-> IF InputRead(S, m, i) /\ ~InputRead(S, j, i)
                                  THEN L[i] ELSE inputs[i]]
<1>1. PICK n \in Nat : n = m - j /\ Len(p.bytes) = n
  BY DEF Part
<1>2. \A x \in S : /\ x \in Slots /\ Rank(x, S) \in Nat /\ LastPlace(x, S) \in Nat
                   /\ Rank(x, S) < LastPlace(x, S)
  BY PlacesFacts
<1>3. Present(p) = SlotsAfter(S, j)
  <2>1. CASE p.cont
    BY <2>1 DEF Present
  <2>2. CASE ~p.cont
    <3>1. j = 0 /\ p.slots = S
      BY <2>2 DEF Part
    <3>2. ASSUME NEW x \in Slots
          PROVE  Present(p)[x] = SlotsAfter(S, j)[x]
      BY <1>2, <2>2, <3>1 DEF Present, SlotsAfter
    <3>. QED
      BY <2>2, <3>2 DEF Present, SlotsAfter
  <2>. QED
    BY <2>1, <2>2
<1>4. PICK D : D = SlotsAfter(S, j)
  OBVIOUS
<1>5. Decoded(p).slotdata = SlotdataOf(D, n) /\ Decoded(p).inputs = InputsOf(D, p.bytes)
  BY <1>1, <1>3, <1>4, DecodedParts
<1>6. /\ Firsts(D, n) = {x \in S : j <= Rank(x, S) /\ Rank(x, S) < m}
      /\ \A x \in Firsts(D, n) : Rank(x, Lacking(D)) = Rank(x, S) - j
      /\ Lasts(D, n) = {x \in S : j <= LastPlace(x, S) /\ LastPlace(x, S) < m}
      /\ \A x \in Lasts(D, n) :
           /\ NineByteOf(D, n, x) = LastPlace(x, S) - j + 1
           /\ LastBit(x, Nines(D, n), Finished(D)) = Rank(x, S) % BitsPerByte
  <2>1. j <= m /\ n = m - j /\ D = SlotsAfter(S, j)
    BY <1>1, <1>4 DEF Part
  <2>2. PlacesOf(S, j, m, D, n)
    BY <2>1, PlacesOfPart
  <2>. QED
    BY <2>2 DEF PlacesOf
<1>7. SlotdataOf(D, n) = SlotsAfter(S, m)
  <2>1. ASSUME NEW x \in Slots PROVE SlotdataOf(D, n)[x] = SlotsAfter(S, m)[x]
    <3>1. CASE x \notin S
      BY <1>4, <1>6, <3>1 DEF SlotdataOf, SlotsAfter
    <3>2. CASE x \in S
      BY <1>1, <1>2, <1>4, <1>6, <3>2 DEF SlotdataOf, SlotsAfter
    <3>. QED
      BY <3>1, <3>2
  <2>. QED
    BY <2>1 DEF SlotdataOf, SlotsAfter
<1>8. ASSUME NEW i \in Inputs
      PROVE  InputsOf(D, p.bytes)[i] = IF InputRead(S, m, i) /\ ~InputRead(S, j, i)
                                       THEN L[i] ELSE inputs[i]
  <2>0. PICK x \in Slots, b \in 0 .. BitsPerByte : i = <<x, b>> /\ i[1] = x /\ i[2] = b
    BY DEF Inputs
  <2>1. /\ BitsPerByte \in Nat \ {0} /\ j <= m
        /\ b < BitsPerByte => b \in 0 .. BitsPerByte - 1
        /\ ~(b < BitsPerByte) => b = BitsPerByte
    BY USBAssumption DEF Part
  <2>2. InputsOf(D, p.bytes)[i] =
            IF i \in Defined /\ b < BitsPerByte /\ x \in Firsts(D, n)
            THEN p.bytes[Rank(x, Lacking(D)) + 1][b]
            ELSE IF i \in Defined /\ b = BitsPerByte /\ x \in Lasts(D, n)
            THEN p.bytes[NineByteOf(D, n, x)][LastBit(x, Nines(D, n), Finished(D))]
            ELSE inputs[i]
    BY <1>1, <2>0 DEF InputsOf
  <2>3. CASE b < BitsPerByte
    <3>1. InputRead(S, m, i) /\ ~InputRead(S, j, i) <=> i \in Defined /\ x \in Firsts(D, n)
      BY <1>2, <1>6, <2>0, <2>3 DEF InputRead
    <3>2. ASSUME x \in Firsts(D, n) PROVE p.bytes[Rank(x, Lacking(D)) + 1][b] = L[i]
      <4>1. x \in S /\ j <= Rank(x, S) /\ Rank(x, S) < m /\ Rank(x, Lacking(D)) = Rank(x, S) - j
        BY <1>6, <3>2
      <4>. QED
        BY <2>0, <2>1, <2>3, <4>1 DEF Part
    <3>. QED
      BY <2>1, <2>2, <2>3, <3>1, <3>2
  <2>4. CASE b = BitsPerByte
    <3>0. ~(b < BitsPerByte)
      BY <2>1, <2>4
    <3>1. InputRead(S, m, i) /\ ~InputRead(S, j, i) <=> i \in Defined /\ x \in Lasts(D, n)
      BY <1>2, <1>6, <2>0, <3>0 DEF InputRead
    <3>2. ASSUME x \in Lasts(D, n)
          PROVE p.bytes[NineByteOf(D, n, x)][LastBit(x, Nines(D, n), Finished(D))] = L[i]
      <4>1. /\ x \in S /\ j <= LastPlace(x, S) /\ LastPlace(x, S) < m
            /\ NineByteOf(D, n, x) = LastPlace(x, S) - j + 1
            /\ LastBit(x, Nines(D, n), Finished(D)) = Rank(x, S) % BitsPerByte
        BY <1>6, <3>2
      <4>. QED
        BY <2>0, <2>4, <4>1 DEF Part
    <3>. QED
      BY <2>2, <2>4, <3>0, <3>1, <3>2
  <2>. QED
    BY <2>1, <2>3, <2>4
<1>. QED
  BY <1>5, <1>7, <1>8 DEF InputsOf

(* A report is cut into packets that have its bytes in order.               *)
LEMMA ReportCut ==
    ASSUME TypeOK, NEW S \in SUBSET Slots, NEW v \in Readings, NEW w \in Readings
    PROVE  \E last \in Nat \ {0} : \E U :
              /\ Len(Report(S, v, w)) = last /\ ~Report(S, v, w)[1].cont
              /\ U[0] = 0 /\ U[last] = Len(BytesOf(S))
              /\ \A k \in 0 .. last : U[k] \in Nat
              /\ \A k \in 1 .. last : Part(S, level, U[k - 1], U[k], Report(S, v, w)[k])
<1>1. PICK q \in Seq(Byte) : q = BytesOf(S)
  BY BytesOfFacts
<1>2. PICK cards \in Nat : cards = Cardinality({CardOf(x) : x \in S}) /\ cards <= MAXMASTERCARDS
  BY RoomFacts
<1>3. PICK n \in Nat : n = Len(q)
  OBVIOUS
<1>4. PICK room \in Nat \ {0} :
        room = IF w = INITVAL THEN PacketSize - 1 ELSE PacketSize - 2
  BY USBAssumption
<1>5. PICK first \in Nat :
        first = (IF v = INITVAL THEN PacketSize - 1 ELSE PacketSize - 2) - cards
  <2>1. MAXMASTERCARDS \in Nat /\ PacketSize \in Nat /\ PacketSize > MAXMASTERCARDS + 1
    BY USBAssumption
  <2>2. PacketSize - 1 - cards \in Nat /\ PacketSize - 2 - cards \in Nat
    BY <1>2, <2>1
  <2>. QED
    BY <2>2
<1>6. PICK more \in Nat : /\ more = (IF n <= first THEN 0 ELSE (n - first + room - 1) \div room)
                          /\ n <= first + more * room
  <2>1. CASE n <= first
    <3>1. n <= first + 0 * room
      BY <2>1
    <3>. QED
      BY <2>1, <3>1
  <2>2. CASE n > first
    <3>1. PICK a \in Nat : a = n - first + room - 1
      BY <2>2
    <3>2. PICK c \in Nat, r \in 0 .. room - 1 : c = a \div room /\ a = room * c + r
      BY Quotient
    <3>3. n <= first + c * room
      <4>1. room * c = c * room
        BY <3>2
      <4>. QED
        BY <3>1, <3>2, <4>1
    <3>. QED
      BY <2>2, <3>1, <3>2, <3>3
  <2>. QED
    BY <2>1, <2>2
<1>. DEFINE Upto(k) == IF first + k * room <= n THEN first + k * room ELSE n
            packet(k) == [cont |-> k > 1, axis |-> IF k = 1 THEN v ELSE w,
                slots |-> IF k = 1 THEN S ELSE {},
                bytes |-> IF k = 1 THEN SubSeq(q, 1, Upto(0))
                          ELSE SubSeq(q, Upto(k - 2) + 1, Upto(k - 1))]
            U == [k \in 0 .. more + 1 |-> IF k = 0 THEN 0 ELSE Upto(k - 1)]
<1>7. Report(S, v, w) = [k \in 1 .. more + 1 |-> packet(k)]
  BY <1>1, <1>2, <1>3, <1>4, <1>5, <1>6 DEF Report
<1>8. \A k \in Nat : Upto(k) \in Nat /\ Upto(k) <= n /\ Upto(k) <= Upto(k + 1)
  <2>. TAKE k \in Nat
  <2>1. k * room \in Nat /\ (k + 1) * room = k * room + room
    OBVIOUS
  <2>. QED
    BY <2>1
<1>9. ASSUME NEW k \in 1 .. more + 1
      PROVE  \E a, b \in Nat :
                /\ a = U[k - 1] /\ b = U[k] /\ a <= b /\ b <= n
                /\ (k = 1 => a = 0)
                /\ packet(k).bytes = SubSeq(q, a + 1, b)
  <2>0. k - 1 \in Nat /\ k \in 0 .. more + 1 /\ k - 1 \in 0 .. more + 1 /\ k # 0
    OBVIOUS
  <2>1. PICK b \in Nat : b = Upto(k - 1) /\ b <= n
    <3>. HIDE DEF Upto
    <3>. QED
      BY <1>8, <2>0
  <2>2. U[k] = b
    <3>. HIDE DEF Upto
    <3>. QED
      BY <2>0, <2>1
  <2>3. CASE k = 1
    <3>1. U[k - 1] = 0 /\ Upto(0) = b /\ 0 + 1 = 1
      <4>. HIDE DEF Upto
      <4>. QED
        BY <2>0, <2>1, <2>3
    <3>2. packet(k).bytes = SubSeq(q, 1, b)
      <4>. HIDE DEF Upto
      <4>. QED
        BY <2>3, <3>1
    <3>. HIDE DEF packet, U, Upto
    <3>3. packet(k).bytes = SubSeq(q, 0 + 1, b)
      BY <3>1, <3>2
    <3>4. PICK a \in Nat : a = 0
      OBVIOUS
    <3>5. a = U[k - 1] /\ packet(k).bytes = SubSeq(q, a + 1, b) /\ a <= b
      BY <3>1, <3>3, <3>4
    <3>. QED
      BY <2>1, <2>2, <3>4, <3>5
  <2>4. CASE k # 1
    <3>1. k - 2 \in Nat /\ (k - 2) + 1 = k - 1 /\ k - 1 # 0 /\ (k - 1) - 1 = k - 2
      BY <2>4
    <3>. HIDE DEF Upto
    <3>2. PICK a \in Nat : a = Upto(k - 2) /\ a <= b
      <4>1. Upto(k - 2) \in Nat /\ Upto(k - 2) <= Upto((k - 2) + 1)
        BY <1>8, <3>1, Zenon
      <4>. QED
        BY <2>1, <3>1, <4>1
    <3>3. U[k - 1] = a
      BY <2>0, <3>1, <3>2
    <3>4. packet(k).bytes = SubSeq(q, a + 1, b)
      BY <2>1, <2>4, <3>2
    <3>. HIDE DEF packet, U
    <3>. QED
      BY <2>1, <2>2, <2>4, <3>2, <3>3, <3>4
  <2>. QED
    BY <2>3, <2>4
<1>10. ASSUME NEW x \in S
       PROVE  /\ Rank(x, S) \in Nat /\ LastPlace(x, S) \in Nat
              /\ \A c \in 0 .. BitsPerByte - 1 : q[Rank(x, S) + 1][c] = level[<<x, c>>]
              /\ q[LastPlace(x, S) + 1][Rank(x, S) % BitsPerByte] = level[<<x, BitsPerByte>>]
  BY <1>1, PlacesFacts, BytesOfPlaces DEF LastPlace
<1>11. ASSUME NEW k \in 1 .. more + 1
       PROVE  Part(S, level, U[k - 1], U[k], Report(S, v, w)[k])
  <2>1. PICK a, b \in Nat :
            /\ a = U[k - 1] /\ b = U[k] /\ a <= b /\ b <= n
            /\ (k = 1 => a = 0)
            /\ packet(k).bytes = SubSeq(q, a + 1, b)
    <3>. HIDE DEF packet, U, Upto
    <3>. QED
      BY <1>9, Zenon
  <2>2. packet(k).cont = (k > 1) /\ packet(k).slots = (IF k = 1 THEN S ELSE {})
    OBVIOUS
  <2>3. k = 1 \/ k > 1
    OBVIOUS
  <2>. HIDE DEF packet, U, Upto
  <2>4. PICK p : p = packet(k) /\ Report(S, v, w)[k] = p
    BY <1>7
  <2>5. /\ p.bytes \in Seq(Byte) /\ Len(p.bytes) = b - a
        /\ \A z \in Nat : a <= z /\ z < b => p.bytes[z - a + 1] = q[z + 1]
    <3>1. p.bytes = SubSeq(q, a + 1, b) /\ b <= Len(q)
      BY <1>3, <2>1, <2>4
    <3>2. SubSeq(q, a + 1, b) \in Seq(Byte) /\ Len(SubSeq(q, a + 1, b)) = b - a
      BY <2>1, <3>1, SMTT(30)
    <3>3. ASSUME NEW z \in Nat, a <= z, z < b PROVE SubSeq(q, a + 1, b)[z - a + 1] = q[z + 1]
      <4>1. PICK i \in 1 .. (b - a) : i = z - a + 1 /\ (a + 1) + i - 1 = z + 1
        BY <3>3
      <4>2. PICK lo \in Nat \ {0} : lo = a + 1
        OBVIOUS
      <4>3. SubSeq(q, lo, b)[i] = q[lo + i - 1]
        BY <3>1, <4>1, <4>2
      <4>. QED
        BY <4>1, <4>2, <4>3
    <3>. QED
      BY <3>1, <3>2, <3>3
  <2>6. Part(S, level, a, b, p)
    BY <1>10, <2>1, <2>2, <2>3, <2>4, <2>5, ZenonT(60) DEF Part
  <2>. QED
    BY <2>1, <2>4, <2>6
<1>12. U[0] = 0 /\ U[more + 1] = n
  <2>1. 0 \in 0 .. more + 1 /\ more + 1 \in 0 .. more + 1 /\ more + 1 # 0 /\ (more + 1) - 1 = more
    OBVIOUS
  <2>2. more * room \in Nat
    OBVIOUS
  <2>3. Upto(more) = n
    BY <1>6, <2>2
  <2>. HIDE DEF Upto
  <2>. QED
    BY <2>1, <2>3
<1>13. \A k \in 0 .. more + 1 : U[k] \in Nat
  <2>. TAKE k \in 0 .. more + 1
  <2>1. k # 0 => k - 1 \in Nat
    OBVIOUS
  <2>. HIDE DEF Upto
  <2>. QED
    BY <1>8, <2>1
<1>14. Len(Report(S, v, w)) = more + 1 /\ more + 1 \in Nat \ {0}
  <2>. HIDE DEF packet
  <2>. QED
    BY <1>7
<1>15. U[more + 1] = Len(BytesOf(S))
  BY <1>1, <1>3, <1>12
<1>16. ~Report(S, v, w)[1].cont
  <2>1. packet(1).cont = (1 > 1) /\ ~(1 > 1) /\ 1 \in 1 .. more + 1
    <3>. HIDE DEF Upto
    <3>. QED
      OBVIOUS
  <2>. HIDE DEF packet
  <2>. QED
    BY <1>7, <2>1
<1>. HIDE DEF U
<1>. QED
  BY <1>16, <1>11, <1>12, <1>13, <1>14, <1>15

-----------------------------------------------------------------------------
(* What the packets on the way will do                                      *)

(* receive_mastercard takes slots d and inputs in to d2 and in2 by p.       *)
Conveys(p, d, in, d2, in2) ==
    \E L : \E S \in SUBSET Slots, j \in Nat, m \in Nat :
        /\ Part(S, L, j, m, p) /\ (p.cont => d = SlotsAfter(S, j))
        /\ d2 = SlotsAfter(S, m)
        /\ in2 = [i \in Inputs |-> IF InputRead(S, m, i) /\ ~InputRead(S, j, i)
                                   THEN L[i] ELSE in[i]]
Chain(Q, f, g) == \A k \in 1 .. Len(Q) : Conveys(Q[k], f[k - 1], g[k - 1], f[k], g[k])

(* Once the packets on the way are read, inputs is what was reported last.  *)
Promised(Q, d, in, R) ==
    \E f, g : /\ f[0] = d /\ g[0] = in /\ Chain(Q, f, g)
              /\ \A i \in Defined : g[Len(Q)][i] = R[i]
AgreeInv == ~damaged => Promised(ring \o wire, slotdata, inputs, reported)

LEMMA ConveysDecoded ==
    ASSUME NEW p, NEW d, NEW in, Conveys(p, slotdata, inputs, d, in)
    PROVE  Decoded(p).slotdata = d /\ Decoded(p).inputs = in
BY DecodePart DEF Conveys

LEMMA ChainJoin ==
    ASSUME NEW Q \in Seq(Packet), NEW W \in Seq(Packet), NEW d, NEW in, NEW R, NEW R2,
           Promised(Q, d, in, R),
           \A d1, in1 : (\A i \in Defined : in1[i] = R[i]) => Promised(W, d1, in1, R2)
    PROVE  Promised(Q \o W, d, in, R2)
<1>1. PICK f, g : /\ f[0] = d /\ g[0] = in /\ Chain(Q, f, g)
                  /\ \A i \in Defined : g[Len(Q)][i] = R[i]
  BY DEF Promised
<1>2. PICK n \in Nat : n = Len(Q)
  OBVIOUS
<1>3. PICK l \in Nat : l = Len(W)
  OBVIOUS
<1>4. Promised(W, f[n], g[n], R2)
  BY <1>1, <1>2
<1>5. PICK F, G : /\ F[0] = f[n] /\ G[0] = g[n] /\ Chain(W, F, G)
                  /\ \A i \in Defined : G[l][i] = R2[i]
  BY <1>3, <1>4 DEF Promised
<1>. DEFINE ff == [k \in 0 .. n + l |-> IF k <= n THEN f[k] ELSE F[k - n]]
            gg == [k \in 0 .. n + l |-> IF k <= n THEN g[k] ELSE G[k - n]]
<1>6. Len(Q \o W) = n + l
  BY <1>2, <1>3
<1>7. ff[0] = d /\ gg[0] = in
  BY <1>1
<1>8. \A i \in Defined : gg[n + l][i] = R2[i]
  <2>1. gg[n + l] = G[l]
    <3>1. CASE l = 0
      BY <1>5, <3>1
    <3>2. CASE l # 0
      BY <3>2
    <3>. QED
      BY <3>1, <3>2
  <2>. HIDE DEF gg
  <2>. QED
    BY <1>5, <2>1
<1>9. ASSUME NEW k \in 1 .. n + l
      PROVE  Conveys((Q \o W)[k], ff[k - 1], gg[k - 1], ff[k], gg[k])
  <2>1. CASE k <= n
    <3>1. (Q \o W)[k] = Q[k] /\ k \in 1 .. n
      BY <1>2, <2>1
    <3>2. ff[k - 1] = f[k - 1] /\ ff[k] = f[k] /\ gg[k - 1] = g[k - 1] /\ gg[k] = g[k]
      BY <2>1
    <3>3. Conveys(Q[k], f[k - 1], g[k - 1], f[k], g[k])
      BY <1>1, <1>2, <3>1 DEF Chain
    <3>. HIDE DEF ff, gg
    <3>. QED
      BY <3>1, <3>2, <3>3
  <2>2. CASE k > n
    <3>1. PICK h \in 1 .. l : h = k - n
      BY <2>2
    <3>2. (Q \o W)[k] = W[h]
      BY <1>2, <1>3, <2>2, <3>1
    <3>3. ff[k] = F[h] /\ gg[k] = G[h]
      BY <2>2, <3>1
    <3>4. ff[k - 1] = F[h - 1] /\ gg[k - 1] = G[h - 1]
      <4>1. CASE h = 1
        BY <1>5, <2>2, <3>1, <4>1
      <4>2. CASE h # 1
        <5>1. ~(k - 1 <= n) /\ k - 1 \in 0 .. n + l /\ (k - 1) - n = h - 1
          BY <2>2, <3>1, <4>2
        <5>. QED
          BY <5>1
      <4>. QED
        BY <4>1, <4>2
    <3>5. Conveys(W[h], F[h - 1], G[h - 1], F[h], G[h])
      BY <1>3, <1>5 DEF Chain
    <3>. HIDE DEF ff, gg
    <3>. QED
      BY <3>2, <3>3, <3>4, <3>5, Zenon
  <2>3. k <= n \/ k > n
    OBVIOUS
  <2>. QED
    BY <2>1, <2>2, <2>3, Zenon
<1>. HIDE DEF ff, gg
<1>10. PICK T : T = Q \o W /\ Len(T) = n + l
  BY <1>6
<1>11. Chain(T, ff, gg)
  BY <1>9, <1>10 DEF Chain
<1>12. \A i \in Defined : gg[Len(T)][i] = R2[i]
  BY <1>8, <1>10
<1>13. \E f1, g1 : /\ f1[0] = d /\ g1[0] = in /\ Chain(T, f1, g1)
                   /\ \A i \in Defined : g1[Len(T)][i] = R2[i]
  BY <1>7, <1>11, <1>12
<1>14. Promised(T, d, in, R2)
  BY <1>13, Zenon DEF Promised
<1>. QED
  BY <1>10, <1>14, Zenon

(* A report brings inputs that agree with the last one to the level of the  *)
(* card now.                                                                *)
LEMMA ReportPromised ==
    ASSUME TypeOK, NEW S \in {News, Slots}, NEW v \in Readings, NEW w \in Readings,
           NEW d, NEW in, \A i \in Defined : in[i] = reported[i]
    PROVE  Promised(Report(S, v, w), d, in, level)
<1>1. S \in SUBSET Slots
  BY DEF News
<1>2a. PICK last \in Nat \ {0} : \E U :
              /\ Len(Report(S, v, w)) = last /\ ~Report(S, v, w)[1].cont
              /\ U[0] = 0 /\ U[last] = Len(BytesOf(S))
              /\ \A k \in 0 .. last : U[k] \in Nat
              /\ \A k \in 1 .. last : Part(S, level, U[k - 1], U[k], Report(S, v, w)[k])
  BY <1>1, ReportCut
<1>2. PICK U :
              /\ Len(Report(S, v, w)) = last /\ ~Report(S, v, w)[1].cont
              /\ U[0] = 0 /\ U[last] = Len(BytesOf(S))
              /\ \A k \in 0 .. last : U[k] \in Nat
              /\ \A k \in 1 .. last : Part(S, level, U[k - 1], U[k], Report(S, v, w)[k])
  BY <1>2a
<1>. DEFINE f == [k \in 0 .. last |-> IF k = 0 THEN d ELSE SlotsAfter(S, U[k])]
            g == [k \in 0 .. last |-> IF k = 0 THEN in
                    ELSE [i \in Inputs |-> IF InputRead(S, U[k], i) THEN level[i] ELSE in[i]]]
<1>3. f[0] = d /\ g[0] = in
  OBVIOUS
<1>4. ASSUME NEW x \in S
      PROVE  /\ Rank(x, S) \in Nat /\ LastPlace(x, S) \in Nat
             /\ Rank(x, S) < LastPlace(x, S) /\ LastPlace(x, S) < Len(BytesOf(S))
  <2>1. /\ Cardinality(S) \in Nat /\ Rank(x, S) \in Nat /\ LastPlace(x, S) \in Nat
        /\ Rank(x, S) < Cardinality(S) /\ Cardinality(S) <= LastPlace(x, S)
    BY <1>1, PlacesFacts
  <2>2. LastPlace(x, S) < Len(BytesOf(S))
    BY <1>1, BytesOfPlaces DEF LastPlace
  <2>. QED
    BY <2>1, <2>2
<1>5. ASSUME NEW i \in Defined PROVE g[last][i] = level[i]
  <2>1. i \in Inputs /\ i[1] \in Slots /\ i[2] \in 0 .. BitsPerByte /\ i = <<i[1], i[2]>>
    BY DEF Defined, Inputs
  <2>2. g[last][i] = IF InputRead(S, U[last], i) THEN level[i] ELSE in[i]
    BY <2>1
  <2>3. CASE i[1] \in S
    <3>1. InputRead(S, U[last], i)
      <4>1. PICK n : n = Len(BytesOf(S)) /\ U[last] = n
        BY <1>2
      <4>2. n \in Nat
        BY <1>2, <4>1
      <4>. QED
        BY <1>4, <2>3, <4>1, <4>2 DEF InputRead
    <3>. QED
      BY <2>2, <3>1
  <2>4. CASE i[1] \notin S
    <3>1. S = News /\ i[1] \notin News
      BY <2>1, <2>4
    <3>2. level[i] = reported[i]
      BY <2>1, <3>1 DEF News
    <3>3. ~InputRead(S, U[last], i)
      BY <2>4 DEF InputRead
    <3>. QED
      BY <2>2, <3>2, <3>3
  <2>. QED
    BY <2>3, <2>4
<1>6. ASSUME NEW k \in 1 .. last
      PROVE  Conveys(Report(S, v, w)[k], f[k - 1], g[k - 1], f[k], g[k])
  <2>1. PICK j \in Nat : j = U[k - 1]
    BY <1>2
  <2>2. PICK m \in Nat : m = U[k]
    BY <1>2
  <2>3. Part(S, level, j, m, Report(S, v, w)[k])
    BY <1>2, <2>1, <2>2
  <2>4. f[k] = SlotsAfter(S, m) /\ (k # 1 => f[k - 1] = SlotsAfter(S, j)) /\ (k = 1 => j = 0)
    BY <1>2, <2>1, <2>2
  <2>5. Report(S, v, w)[k].cont => k # 1
    BY <1>2
  <2>6. j <= m
    BY <2>3 DEF Part
  <2>7. ASSUME NEW i \in Inputs
        PROVE  /\ InputRead(S, j, i) => InputRead(S, m, i)
               /\ ~InputRead(S, 0, i)
    <3>1. CASE i[1] \in S
      BY <1>4, <2>6, <3>1 DEF InputRead
    <3>2. CASE i[1] \notin S
      BY <3>2 DEF InputRead
    <3>. QED
      BY <3>1, <3>2
  <2>8. g[k] = [i \in Inputs |-> IF InputRead(S, m, i) THEN level[i] ELSE in[i]]
    BY <2>2
  <2>9. \A i \in Inputs : g[k - 1][i] = IF InputRead(S, j, i) THEN level[i] ELSE in[i]
    <3>1. CASE k = 1
      BY <2>4, <2>7, <3>1
    <3>2. CASE k # 1
      <4>1. g[k - 1] = [i \in Inputs |-> IF InputRead(S, j, i) THEN level[i] ELSE in[i]]
        BY <2>1, <3>2
      <4>. QED
        BY <4>1
    <3>. QED
      BY <3>1, <3>2
  <2>. HIDE DEF f, g
  <2>10. g[k] = [i \in Inputs |-> IF InputRead(S, m, i) /\ ~InputRead(S, j, i)
                                  THEN level[i] ELSE g[k - 1][i]]
    BY <2>7, <2>8, <2>9
  <2>. QED
    BY <1>1, <2>3, <2>4, <2>5, <2>10 DEF Conveys
<1>. HIDE DEF f, g
<1>. QED
  BY <1>2, <1>3, <1>5, <1>6 DEF Promised, Chain

(* The packet of the axis leaves the inputs alone.                          *)
LEMMA AxisPromised ==
    ASSUME NEW v, NEW d, NEW in, NEW R, \A i \in Defined : in[i] = R[i]
    PROVE  Promised(<<[cont |-> FALSE, axis |-> v, slots |-> {}, bytes |-> <<>>]>>, d, in, R)
<1>. DEFINE p == [cont |-> FALSE, axis |-> v, slots |-> {}, bytes |-> <<>>]
            S == {}
            f == [k \in 0 .. 1 |-> IF k = 0 THEN d ELSE SlotsAfter({}, 0)]
            g == [k \in 0 .. 1 |-> IF k = 0 THEN in ELSE [i \in Inputs |-> in[i]]]
<1>1. Part({}, R, 0, 0, p) /\ ~p.cont
  BY DEF Part
<1>2. \A i \in Inputs : ~InputRead({}, 0, i)
  BY DEF InputRead
<1>3. /\ f[0] = d /\ g[0] = in /\ f[1] = SlotsAfter({}, 0)
      /\ g[1] = [i \in Inputs |-> IF InputRead({}, 0, i) /\ ~InputRead({}, 0, i)
                                  THEN R[i] ELSE g[0][i]]
  BY <1>2
<1>4. Len(<<p>>) = 1 /\ <<p>>[1] = p
  OBVIOUS
<1>5. \A i \in Defined : g[1][i] = R[i]
  BY DEF Defined
<1>. HIDE DEF p, f, g
<1>6. Conveys(p, f[0], g[0], f[1], g[1])
  BY <1>1, <1>3 DEF Conveys
<1>7. Promised(<<p>>, d, in, R)
  BY <1>3, <1>4, <1>5, <1>6 DEF Promised, Chain
<1>. QED
  BY <1>7 DEF p

LEMMA PacketsFacts ==
    ASSUME TypeOK
    PROVE  wire \in Seq(Packet) /\ ring \in Seq(Packet) /\ ring \o wire \in Seq(Packet)
BY DEF TypeOK

LEMMA AgreeInitially == Init => AgreeInv
<1>. SUFFICES ASSUME Init PROVE AgreeInv
  OBVIOUS
<1>. DEFINE f == [k \in {0} |-> slotdata]
            g == [k \in {0} |-> inputs]
<1>1. ring \o wire = <<>> /\ Len(<<>>) = 0
  BY DEF Init
<1>2. f[0] = slotdata /\ g[0] = inputs
  OBVIOUS
<1>3. \A i \in Defined : g[0][i] = reported[i]
  BY DEF Init, Defined
<1>4. Chain(<<>>, f, g)
  BY <1>1 DEF Chain
<1>. HIDE DEF f, g
<1>5. Promised(<<>>, slotdata, inputs, reported)
  BY <1>1, <1>2, <1>3, <1>4 DEF Promised
<1>. QED
  BY <1>1, <1>5 DEF AgreeInv

LEMMA AgreeUnchanged ==
    ASSUME AgreeInv, UNCHANGED <<wire, ring, slotdata, inputs, reported, damaged>>
    PROVE  AgreeInv'
BY DEF AgreeInv, Promised, Chain

LEMMA AgreeAfterReport ==
    ASSUME AgreeInv, TypeOK, SendReport
    PROVE  AgreeInv'
<1>1. PICK S \in {News, Slots}, v \in Readings, w \in Readings : wire' = wire \o Report(S, v, w)
  BY DEF SendReport
<1>2. reported' = level /\ UNCHANGED <<ring, slotdata, inputs, damaged>>
  BY DEF SendReport, inVars
<1>3. wire \in Seq(Packet) /\ ring \in Seq(Packet) /\ Report(S, v, w) \in Seq(Packet)
  BY PacketsFacts, ReportFacts DEF News
<1>4. ring \o wire' = (ring \o wire) \o Report(S, v, w) /\ ring \o wire \in Seq(Packet)
  BY <1>1, <1>3
<1>. SUFFICES ASSUME ~damaged PROVE Promised((ring \o wire) \o Report(S, v, w), slotdata, inputs, level)
  BY <1>2, <1>4 DEF AgreeInv
<1>5. Promised(ring \o wire, slotdata, inputs, reported)
  BY DEF AgreeInv
<1>6. \A d1, in1 : (\A i \in Defined : in1[i] = reported[i])
                   => Promised(Report(S, v, w), d1, in1, level)
  BY ReportPromised
<1>. QED
  BY <1>3, <1>4, <1>5, <1>6, ChainJoin

LEMMA AgreeAfterAxis ==
    ASSUME AgreeInv, TypeOK, NEW v \in AxisValues, SendAxis(v)
    PROVE  AgreeInv'
<1>. DEFINE W == <<[cont |-> FALSE, axis |-> v, slots |-> {}, bytes |-> <<>>]>>
<1>1. PICK k \in 0 .. Len(wire) :
        /\ wire' = SubSeq(wire, 1, k) \o W \o SubSeq(wire, k + 1, Len(wire))
        /\ damaged' = (damaged \/ k < Len(wire))
  BY DEF SendAxis
<1>2. UNCHANGED <<ring, slotdata, inputs, reported>>
  BY DEF SendAxis, inVars, cardVars
<1>3. wire \in Seq(Packet) /\ ring \in Seq(Packet) /\ ring \o wire \in Seq(Packet) /\ W \in Seq(Packet)
  <2>1. v \in Readings /\ FALSE \in BOOLEAN /\ {} \in SUBSET Slots /\ <<>> \in Seq(Byte)
    BY DEF Readings
  <2>2. [cont |-> FALSE, axis |-> v, slots |-> {}, bytes |-> <<>>] \in Packet
    BY <2>1 DEF Packet
  <2>. QED
    BY <2>2, PacketsFacts
<1>4. \A d1, in1 : (\A i \in Defined : in1[i] = reported[i])
                   => Promised(W, d1, in1, reported)
  BY AxisPromised
<1>. HIDE DEF W
<1>. SUFFICES ASSUME ~damaged' PROVE Promised(ring \o wire', slotdata, inputs, reported)
  BY <1>2 DEF AgreeInv
<1>5. ring \o wire' = (ring \o wire) \o W
  <2>1. PICK n \in Nat : n = Len(wire)
    BY <1>3
  <2>2. k = n
    <3>1. ~(k < Len(wire))
      BY <1>1
    <3>2. k \in 0 .. n /\ ~(k < n)
      BY <2>1, <3>1
    <3>. QED
      BY <3>2
  <2>3. PICK E \in Seq(Packet) : E = SubSeq(wire, n + 1, n) /\ Len(E) = 0
    <3>1. n + 1 \in Nat \ {0} /\ n + 1 <= n + 1 /\ (n + 1) - (n + 1) = 0
      OBVIOUS
    <3>2. PICK a \in Nat \ {0} : a = n + 1
      BY <3>1
    <3>3. SubSeq(wire, a, n) \in Seq(Packet) /\ Len(SubSeq(wire, a, n)) = n + 1 - a
      BY <1>3, <2>1, <3>2, PartOfSequence
    <3>4. n + 1 - a = 0
      BY <3>2
    <3>5. SubSeq(wire, n + 1, n) = SubSeq(wire, a, n)
      BY <3>2, Zenon
    <3>6. PICK E \in Seq(Packet) : E = SubSeq(wire, a, n)
      BY <3>3
    <3>7. Len(E) = 0
      BY <3>3, <3>4, <3>6, Zenon
    <3>. QED
      BY <3>5, <3>6, <3>7, Zenon
  <2>3a. SubSeq(wire, 1, n) = wire
    BY <1>3, <2>1
  <2>3b. wire \o W \o E = wire \o W
    BY <1>3, <2>3
  <2>4. wire' = wire \o W
    <3>1. wire' = SubSeq(wire, 1, n) \o W \o SubSeq(wire, n + 1, n)
      BY <1>1, <2>1, <2>2
    <3>. QED
      BY <2>3, <2>3a, <2>3b, <3>1, Zenon
  <2>. QED
    BY <1>3, <2>4
<1>6. ~damaged
  BY <1>1
<1>7. Promised(ring \o wire, slotdata, inputs, reported)
  BY <1>6 DEF AgreeInv
<1>. QED
  BY <1>3, <1>4, <1>5, <1>7, ChainJoin

LEMMA AgreeAfterPoll ==
    ASSUME AgreeInv, TypeOK, PollThread
    PROVE  AgreeInv'
<1>1. /\ wire # <<>> /\ wire' = Tail(wire)
      /\ UNCHANGED <<slotdata, inputs, reported>>
      /\ ~damaged' => ~damaged /\ ring' = Append(ring, Head(wire))
  BY DEF PollThread, inVars, cardVars
<1>. SUFFICES ASSUME ~damaged' PROVE Promised(ring' \o wire', slotdata, inputs, reported)
  BY <1>1 DEF AgreeInv
<1>2. ring' \o wire' = ring \o wire
  <2>1. wire \in Seq(Packet) /\ ring \in Seq(Packet)
    BY PacketsFacts
  <2>2. Append(ring, Head(wire)) \o Tail(wire) = ring \o wire
    BY <1>1, <2>1
  <2>. QED
    BY <1>1, <2>2
<1>. QED
  BY <1>1, <1>2 DEF AgreeInv

LEMMA AgreeAfterRead ==
    ASSUME AgreeInv, TypeOK, ReadPacket
    PROVE  AgreeInv'
<1>1. /\ ring # <<>> /\ ring' = Tail(ring)
      /\ slotdata' = Decoded(Head(ring)).slotdata
      /\ inputs' = Decoded(Head(ring)).inputs
      /\ UNCHANGED <<wire, reported, damaged>>
  BY DEF ReadPacket, cardVars
<1>. SUFFICES ASSUME ~damaged PROVE Promised(Tail(ring) \o wire, slotdata', inputs', reported)
  BY <1>1 DEF AgreeInv
<1>2. PICK Q \in Seq(Packet) : Q = ring \o wire
  BY PacketsFacts
<1>3. PICK T \in Seq(Packet) : T = Tail(ring) \o wire
  <2>1. wire \in Seq(Packet) /\ Tail(ring) \in Seq(Packet)
    BY PacketsFacts, <1>1
  <2>2. Tail(ring) \o wire \in Seq(Packet)
    BY <2>1
  <2>. QED
    BY <2>2
<1>4. PICK f, g : /\ f[0] = slotdata /\ g[0] = inputs /\ Chain(Q, f, g)
                  /\ \A i \in Defined : g[Len(Q)][i] = reported[i]
  BY <1>2 DEF AgreeInv, Promised
<1>5. PICK n \in Nat : Len(Q) = n + 1 /\ Len(T) = n
  <2>1. Len(Tail(ring)) = Len(ring) - 1 /\ Len(ring) \in Nat \ {0} /\ Len(wire) \in Nat
        /\ Tail(ring) \in Seq(Packet)
    BY PacketsFacts, <1>1
  <2>2. Len(Q) = Len(ring) + Len(wire) /\ Len(T) = Len(ring) - 1 + Len(wire)
    BY PacketsFacts, <1>2, <1>3, <2>1
  <2>. QED
    BY <2>1, <2>2
<1>6. Q[1] = Head(ring) /\ \A k \in 1 .. n : T[k] = Q[k + 1]
  <2>1. ring \in Seq(Packet) /\ wire \in Seq(Packet)
    BY PacketsFacts
  <2>2. T = Tail(Q) /\ Q[1] = Head(ring)
    BY <1>1, <1>2, <1>3, <2>1
  <2>. QED
    BY <1>5, <2>2
<1>7. f[1] = slotdata' /\ g[1] = inputs'
  <2>1. Conveys(Q[1], f[1 - 1], g[1 - 1], f[1], g[1])
    BY <1>4, <1>5 DEF Chain
  <2>2. 1 - 1 = 0
    OBVIOUS
  <2>3. Conveys(Head(ring), slotdata, inputs, f[1], g[1])
    BY <1>4, <1>6, <2>1, <2>2
  <2>. QED
    BY <1>1, <2>3, ConveysDecoded
<1>. DEFINE ff == [k \in 0 .. n |-> f[k + 1]]
            gg == [k \in 0 .. n |-> g[k + 1]]
<1>8. ff[0] = slotdata' /\ gg[0] = inputs' /\ \A i \in Defined : gg[n][i] = reported[i]
  <2>1. ff[0] = f[1] /\ gg[0] = g[1] /\ gg[n] = g[n + 1]
    OBVIOUS
  <2>. HIDE DEF ff, gg
  <2>. QED
    BY <1>4, <1>5, <1>7, <2>1
<1>9. ASSUME NEW k \in 1 .. n
      PROVE  Conveys(T[k], ff[k - 1], gg[k - 1], ff[k], gg[k])
  <2>1. PICK h \in 1 .. n + 1 : h = k + 1 /\ h - 1 = k
    OBVIOUS
  <2>2. Conveys(Q[h], f[h - 1], g[h - 1], f[h], g[h])
    BY <1>4, <1>5 DEF Chain
  <2>3. ff[k - 1] = f[h - 1] /\ gg[k - 1] = g[h - 1] /\ ff[k] = f[h] /\ gg[k] = g[h]
    BY <2>1
  <2>4. T[k] = Q[h]
    BY <1>6, <2>1
  <2>. HIDE DEF ff, gg
  <2>. QED
    BY <2>2, <2>3, <2>4, Zenon
<1>. HIDE DEF ff, gg
<1>10. Promised(T, slotdata', inputs', reported)
  BY <1>5, <1>8, <1>9 DEF Promised, Chain
<1>. QED
  BY <1>3, <1>10

LEMMA AgreeAfterStep == AgreeInv /\ TypeOK /\ [Next]_vars => AgreeInv'
<1>. SUFFICES ASSUME AgreeInv, TypeOK, [Next]_vars PROVE AgreeInv'
  OBVIOUS
<1>1. ASSUME NEW i \in Operated, Operate(i) PROVE AgreeInv'
  BY <1>1, AgreeUnchanged DEF Operate, inVars
<1>2. ASSUME NEW v \in AxisValues, SendAxis(v) PROVE AgreeInv'
  BY <1>2, AgreeAfterAxis
<1>3. ASSUME ReadEnd PROVE AgreeInv'
  BY <1>3, AgreeUnchanged DEF ReadEnd, inVars, cardVars
<1>4. ASSUME UserModule PROVE AgreeInv'
  BY <1>4, AgreeUnchanged DEF UserModule, cardVars
<1>5. ASSUME SendMastercard PROVE AgreeInv'
  BY <1>5, AgreeUnchanged DEF SendMastercard
<1>6. CASE UNCHANGED vars
  BY <1>6, AgreeUnchanged DEF vars, inVars, cardVars
<1>. QED
  BY <1>1, <1>2, <1>3, <1>4, <1>5, <1>6, AgreeAfterReport, AgreeAfterPoll, AgreeAfterRead DEF Next

(* libiocards.c:1479-1668: once everything the card has reported is read,   *)
(* inputs has the state of every defined card: for any number of cards,     *)
(* slots and inputs in a slot, whichever packets of a report carry a        *)
(* reading of the axis, and whatever is reported while older packets wait,  *)
(* receive_mastercard undoes what the card has packed.  A packet that was   *)
(* dropped, and one of the axis that came between the packets of a report,  *)
(* are the exceptions the property names.                                   *)
THEOREM ReportsUnderstood == Spec => []InputsAgree
<1>1. AgreeInv => InputsAgree
  <2>. SUFFICES ASSUME Promised(ring \o wire, slotdata, inputs, reported),
                       wire = <<>>, ring = <<>>
                PROVE  \A i \in Defined : inputs[i] = reported[i]
    BY DEF AgreeInv, InputsAgree
  <2>1. Len(ring \o wire) = 0
    OBVIOUS
  <2>. QED
    BY <2>1 DEF Promised
<1>. QED
  BY <1>1, AgreeInitially, AgreeAfterStep, TypesInitially, TypesAfterStep, PTL DEF Spec
=============================================================================
