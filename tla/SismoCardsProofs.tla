--------------------------- MODULE SismoCardsProofs ---------------------------
(***************************************************************************)
(* A SISMO card, for any number of inputs and their banks, histories and   *)
(* buffers of any length.                                                  *)
(***************************************************************************)
EXTENDS SismoCards, DataLemmas

-----------------------------------------------------------------------------
(* Figures                                                                  *)

LEMMA PowerFacts == Power[0] = 1 /\ Power[1] = 10 /\ Power[2] = 100 /\ Power[3] = 1000
<1>. DEFINE f == [k \in 0 .. 3 |-> IF k = 0 THEN 1 ELSE IF k = 1 THEN 10 ELSE IF k = 2 THEN 100 ELSE 1000]
            Body(p) == [k \in 0 .. 3 |-> IF k = 0 THEN 1 ELSE 10 * p[k - 1]]
<1>1. PICK p : p = f
  OBVIOUS
<1>2. p = Body(p)
  <2>1. \A k \in 0 .. 3 : p[k] = (IF k = 0 THEN 1 ELSE 10 * p[k - 1])
    BY <1>1
  <2>. QED
    BY <1>1, <2>1
<1>3. Power = Body(Power)
  BY <1>2 DEF Power
<1>4. Power[0] = 1
  BY <1>3
<1>5. Power[1] = 10
  BY <1>3, <1>4
<1>6. Power[2] = 100
  BY <1>3, <1>5
<1>7. Power[3] = 1000
  BY <1>3, <1>6
<1>. QED
  BY <1>4, <1>5, <1>6, <1>7

(* The number of figures.                                                   *)
Length(v) == Cardinality({k \in Displays : v >= Power[k]})

LEMMA LengthFacts ==
    ASSUME NEW v \in Nat
    PROVE  /\ Length(v) \in 0 .. 3
           /\ \A k \in Displays : k < Length(v) <=> v >= Power[k]
           /\ v < 1000 => v < Power[Length(v)]
<1>. DEFINE S == {k \in Displays : v >= Power[k]}
<1>1. PICK n \in 0 .. 3 : n = (IF v < 1 THEN 0 ELSE IF v < 10 THEN 1 ELSE IF v < 100 THEN 2 ELSE 3)
  OBVIOUS
<1>2. \A k \in Displays : k < n <=> v >= Power[k]
  BY <1>1, PowerFacts DEF Displays
<1>3. S = 0 .. n - 1
  BY <1>2 DEF Displays
<1>4. Cardinality(0 .. n - 1) = n
  <2>1. CASE n = 0
    <3>1. 0 .. n - 1 = {}
      BY <2>1
    <3>. QED
      BY <2>1, <3>1, FS_EmptySet
  <2>2. CASE n # 0
    <3>1. 0 \in Int /\ n - 1 \in Int /\ 0 <= n - 1 /\ (n - 1) - 0 + 1 = n
      BY <2>2
    <3>2. Cardinality(0 .. n - 1) = (n - 1) - 0 + 1
      BY <3>1, FS_Interval
    <3>. QED
      BY <3>1, <3>2
  <2>. QED
    BY <2>1, <2>2
<1>5. Length(v) = n
  BY <1>3, <1>4 DEF Length
<1>6. v < 1000 => v < Power[n]
  BY <1>1, PowerFacts
<1>. QED
  BY <1>2, <1>5, <1>6

(* The digits of a number without a gap between its figures and its sign.   *)
Sign(number) ==
    IF number.dp >= Length(Magnitude(number.val)) THEN number.dp + 1 ELSE Length(Magnitude(number.val))

LEMMA DigitIs ==
    ASSUME NEW number \in [val : Int, dp : Int], NEW c \in Displays
    PROVE  LET v == Magnitude(number.val)
               point == IF c = number.dp THEN 10 ELSE 0
           IN  /\ v \in Nat /\ Length(v) \in 0 .. 3 /\ Sign(number) \in Int
               /\ (v \div Power[c]) % 10 \in 0 .. 9
               /\ c < Length(v) => Digit(number, c) = ((v \div Power[c]) % 10) + point
               /\ c >= Length(v) /\ number.val < 0 =>
                    /\ c < Sign(number) => Digit(number, c) = displays[c]
                    /\ c = Sign(number) => Digit(number, c) = MINUS
               /\ c >= Length(v) /\ (number.val >= 0 \/ c > Sign(number)) =>
                    Digit(number, c) = IF c = 0 \/ number.dp >= c THEN point ELSE BLANK
<1>1. PICK v \in Nat : v = Magnitude(number.val)
  BY DEF Magnitude
<1>2. PICK len \in 0 .. 3 : len = Length(v)
  BY LengthFacts
<1>3. PICK sign \in Int : sign = Sign(number)
  BY <1>1, <1>2 DEF Sign
<1>4. PICK q \in Int : q = v \div Power[c]
  BY PowerFacts DEF Displays
<1>5. q % 10 \in 0 .. 9
  OBVIOUS
<1>6. PICK point \in {0, 10} : point = IF c = number.dp THEN 10 ELSE 0
  OBVIOUS
<1>7. Digit(number, c) =
        CASE c < len -> (q % 10) + point
          [] c >= len /\ number.val < 0 /\ c < sign -> displays[c]
          [] c >= len /\ number.val < 0 /\ c = sign -> MINUS
          [] c >= len /\ (number.val >= 0 \/ c > sign) ->
                IF c = 0 \/ number.dp >= c THEN point ELSE BLANK
  BY <1>1, <1>2, <1>3, <1>4, <1>6, Zenon DEF Digit, Length, Sign
<1>8. c \in Int /\ number.val \in Int
  BY DEF Displays
<1>9. c < len => Digit(number, c) = (q % 10) + point
  BY <1>7, <1>8
<1>10. c >= len /\ number.val < 0 /\ c < sign => Digit(number, c) = displays[c]
  BY <1>7, <1>8
<1>11. c >= len /\ number.val < 0 /\ c = sign => Digit(number, c) = MINUS
  BY <1>7, <1>8
<1>12. c >= len /\ (number.val >= 0 \/ c > sign) =>
         Digit(number, c) = IF c = 0 \/ number.dp >= c THEN point ELSE BLANK
  BY <1>7, <1>8
<1>. QED
  BY <1>1, <1>2, <1>3, <1>4, <1>5, <1>6, <1>9, <1>10, <1>11, <1>12

LEMMA DigitTypes ==
    ASSUME displays \in [Displays -> Cell], NEW number \in [val : Int, dp : Int], NEW c \in Displays
    PROVE  Digit(number, c) \in Cell
<1>1. displays[c] \in Cell
  OBVIOUS
<1>2. c \in Int /\ number.val \in Int
  BY DEF Displays
<1>. QED
  BY <1>1, <1>2, DigitIs DEF Cell, MINUS, BLANK

-----------------------------------------------------------------------------
(* Types                                                                    *)

LEMMA BankFacts ==
    /\ \A i \in Inputs : InputBank[i] \in Banks /\ i \in OfBank(InputBank[i])
    /\ \A b \in Banks : \A i \in OfBank(b) : i \in Inputs /\ InputBank[i] = b
    /\ \A i \in Inputs : Level(i) \subseteq 0 .. 3
BY DEF Banks, OfBank, Level

LEMMA EventTypes ==
    ASSUME NEW i \in Inputs, NEW old \in Int, NEW new \in Int
    PROVE  Event(i, old, new) \in {-1, 0, 1}
<1>1. Kind[i] \in {"toggle", "button", "encoder"}
  BY SismoAssumption DEF Inputs
<1>. QED
  BY <1>1 DEF Event

(* What the types say of a packet in the ring.                              *)
GoodPacket(p) ==
    /\ p \in [bank : Banks, state : States]
    /\ DOMAIN p.state = OfBank(p.bank)
    /\ \A i \in OfBank(p.bank) : p.state[i] \in Level(i)

LEMMA RingFacts ==
    ASSUME TypeOK
    PROVE  /\ ring \in Seq([bank : Banks, state : States])
           /\ \A k \in 1 .. Len(ring) : GoodPacket(ring[k])
<1>1. /\ ring \in Seq([bank : Banks, state : States])
      /\ \A k \in DOMAIN ring :
            /\ DOMAIN ring[k].state = OfBank(ring[k].bank)
            /\ \A i \in OfBank(ring[k].bank) : ring[k].state[i] \in Level(i)
  BY DEF TypeOK
<1>2. DOMAIN ring = 1 .. Len(ring) /\ \A k \in 1 .. Len(ring) : ring[k] \in [bank : Banks, state : States]
  <2>1. PICK S : S = [bank : Banks, state : States]
    OBVIOUS
  <2>2. ring \in Seq(S)
    BY <1>1, <2>1
  <2>3. DOMAIN ring = 1 .. Len(ring) /\ \A k \in 1 .. Len(ring) : ring[k] \in S
    BY <2>2
  <2>. QED
    BY <2>1, <2>3
<1>. QED
  BY <1>1, <1>2 DEF GoodPacket

LEMMA BeforeFacts ==
    ASSUME TypeOK, NEW i \in Inputs, NEW n \in 1 .. Len(ring) + 1
    PROVE  StateBefore(i, n) \in -1 .. 3
<1>. DEFINE before == {k \in 1 .. n - 1 : ring[k].bank = InputBank[i]}
<1>1. CASE before = {}
  <2>1. inputs[i][1] \in -1 .. 3
    BY SismoAssumption DEF TypeOK
  <2>. QED
    BY <1>1, <2>1 DEF StateBefore
<1>2. CASE before # {}
  <2>0. Len(ring) \in Nat
    BY RingFacts
  <2>1. PICK m \in before : \A j \in before : j <= m
    <3>1. before \in SUBSET Int /\ n \in Int /\ \A k \in before : k <= n
      BY <2>0
    <3>. HIDE DEF before
    <3>. QED
      BY <1>2, <3>1, GreatestInteger
  <2>2. PICK k \in before : k = CHOOSE h \in before : \A j \in before : j <= h
    BY <2>1
  <2>3. GoodPacket(ring[k]) /\ ring[k].bank = InputBank[i]
    BY <2>0, RingFacts
  <2>4. ring[k].state[i] \in 0 .. 3
    BY <2>3, BankFacts DEF GoodPacket
  <2>5. StateBefore(i, n) = ring[k].state[i]
    BY <1>2, <2>2 DEF StateBefore
  <2>. QED
    BY <2>4, <2>5
<1>. QED
  BY <1>1, <1>2

LEMMA TypesInitially == Init => TypeOK
<1>. SUFFICES ASSUME Init PROVE TypeOK
  OBVIOUS
<1>1. /\ inputs \in [Inputs -> Seq(-1 .. 3)] /\ level \in [Inputs -> 0 .. 3]
      /\ \A i \in Inputs : Len(inputs[i]) = MAXSAVE
      /\ \A i \in Inputs : \A s \in 1 .. MAXSAVE : inputs[i][s] = INPUTINITVAL
      /\ \A i \in Inputs : level[i] \in Level(i)
  BY SismoAssumption DEF Init, INPUTINITVAL, Level
<1>2. inputs_nsave \in [Banks -> 0 .. MAXSAVE] /\ \A b \in Banks : inputs_nsave[b] = 0
  BY SismoAssumption DEF Init
<1>3. \A i \in Inputs : 1 .. inputs_nsave[InputBank[i]] = {}
  BY <1>2, BankFacts
<1>4. /\ outputs \in [Outputs -> {0, 1}] /\ outputs_changed \in [Outputs -> {0, 1}]
      /\ displays \in [Displays -> Cell] /\ displays_changed \in [Displays -> {0, 1}]
      /\ lamps \in [Outputs -> {0, 1}] /\ digits \in [Displays -> Cell]
  BY DEF Init, CHANGED_FLAG, Cell
<1>5. /\ phase \in {"read", "user", "write", "reset"} /\ connected \in BOOLEAN
      /\ value \in [Inputs -> {0, 1, INT_MISS}]
      /\ owed \in [Inputs -> Int] /\ overrun \subseteq Banks /\ changes \in 0 .. MaxChanges
  <2>1. phase \in {"read", "user", "write", "reset"} /\ connected \in BOOLEAN
    BY DEF Init
  <2>2. value \in [Inputs -> {0, 1, INT_MISS}]
    BY DEF Init
  <2>3. owed \in [Inputs -> Int] /\ overrun \subseteq Banks
    BY DEF Init
  <2>4. changes \in 0 .. MaxChanges
    BY SismoAssumption DEF Init
  <2>. QED
    BY <2>1, <2>2, <2>3, <2>4
<1>7. wanted \in [lamps : [Outputs -> {0, 1}], number : Numbers \cup {NoNumber}]
  <2>1. [o \in Outputs |-> 0] \in [Outputs -> {0, 1}] /\ NoNumber \in Numbers \cup {NoNumber}
    OBVIOUS
  <2>2. wanted = [lamps |-> [o \in Outputs |-> 0], number |-> NoNumber]
    BY DEF Init
  <2>. QED
    BY <2>1, <2>2
<1>6. /\ ring \in Seq([bank : Banks, state : States]) /\ Len(ring) <= RingSize
      /\ \A k \in DOMAIN ring :
            /\ DOMAIN ring[k].state = OfBank(ring[k].bank)
            /\ \A i \in OfBank(ring[k].bank) : ring[k].state[i] \in Level(i)
  BY SismoAssumption DEF Init
<1>. QED
  BY <1>1, <1>2, <1>3, <1>4, <1>5, <1>6, <1>7 DEF TypeOK

(* A state is put before the history and the oldest is dropped.             *)
LEMMA ShiftedFacts ==
    ASSUME TypeOK, NEW i \in Inputs, NEW new \in Level(i)
    PROVE  /\ Shifted(i, new) \in Seq(-1 .. 3) /\ Len(Shifted(i, new)) = MAXSAVE
           /\ Shifted(i, new)[1] = new
           /\ \A s \in 2 .. MAXSAVE : Shifted(i, new)[s] = inputs[i][s - 1]
<1>1. PICK h \in Seq(-1 .. 3) : h = inputs[i] /\ Len(h) = MAXSAVE
  BY DEF TypeOK
<1>2. MAXSAVE \in Nat /\ MAXSAVE >= 2 /\ new \in -1 .. 3
  BY SismoAssumption, BankFacts
<1>3. PICK r : r = SubSeq(h, 1, MAXSAVE - 1)
  OBVIOUS
<1>4. r \in Seq(-1 .. 3) /\ Len(r) = MAXSAVE - 1 /\ \A s \in 1 .. MAXSAVE - 1 : r[s] = h[s]
  BY <1>1, <1>2, <1>3
<1>5. PICK q : q = <<new>> \o r
  OBVIOUS
<1>6. q \in Seq(-1 .. 3) /\ Len(q) = MAXSAVE /\ q[1] = new
      /\ \A s \in 2 .. MAXSAVE : q[s] = r[s - 1]
  BY <1>2, <1>4, <1>5
<1>7. \A s \in 2 .. MAXSAVE : q[s] = h[s - 1]
  BY <1>2, <1>4, <1>6
<1>. QED
  BY <1>1, <1>3, <1>5, <1>6, <1>7 DEF Shifted

LEMMA TypesOfReceive ==
    ASSUME TypeOK, NEW b \in Banks, Receive(b)
    PROVE  TypeOK'
<1>1. PICK p : p = [bank |-> b, state |-> [i \in OfBank(b) |-> level[i]]]
  OBVIOUS
<1>2. GoodPacket(p)
  <2>1. \A i \in OfBank(b) : level[i] \in Level(i) /\ level[i] \in 0 .. 3
    BY BankFacts DEF TypeOK
  <2>2. [i \in OfBank(b) |-> level[i]] \in [OfBank(b) -> 0 .. 3]
    BY <2>1
  <2>3. [i \in OfBank(b) |-> level[i]] \in States
    BY <2>2 DEF States
  <2>. QED
    BY <1>1, <2>1, <2>3 DEF GoodPacket
<1>3. ring \in Seq([bank : Banks, state : States]) /\ ring' = Append(ring, p)
      /\ Len(ring) < RingSize /\ Len(ring) \in Nat /\ RingSize \in Nat
  BY <1>1, RingFacts, SismoAssumption DEF Receive
<1>4. /\ ring' \in Seq([bank : Banks, state : States]) /\ Len(ring') <= RingSize
      /\ DOMAIN ring' = 1 .. Len(ring) + 1
      /\ \A k \in 1 .. Len(ring) : ring'[k] = ring[k]
      /\ ring'[Len(ring) + 1] = p
  BY <1>2, <1>3 DEF GoodPacket
<1>5. \A k \in DOMAIN ring' : GoodPacket(ring'[k])
  <2>. TAKE k \in DOMAIN ring'
  <2>1. CASE k \in 1 .. Len(ring)
    BY <1>4, <2>1, RingFacts
  <2>2. CASE k = Len(ring) + 1
    BY <1>2, <1>4, <2>2
  <2>. QED
    BY <1>3, <1>4, <2>1, <2>2
<1>6. owed' \in [Inputs -> Int]
  <2>1. ASSUME NEW i \in Inputs
        PROVE  owed[i] \in Int /\ owed[i] + Event(i, LastTaken(i), level[i]) \in Int
    <3>1. LastTaken(i) \in Int
      BY <1>3, BeforeFacts DEF LastTaken
    <3>2. level[i] \in Int /\ owed[i] \in Int
      <4>1. level \in [Inputs -> 0 .. 3] /\ owed \in [Inputs -> Int]
        BY DEF TypeOK
      <4>. QED
        BY <4>1
    <3>3. Event(i, LastTaken(i), level[i]) \in {-1, 0, 1}
      BY <3>1, <3>2, EventTypes
    <3>. QED
      BY <3>2, <3>3
  <2>2. owed' = [i \in Inputs |->
            IF i \in OfBank(b) THEN owed[i] + Event(i, LastTaken(i), level[i]) ELSE owed[i]]
    BY DEF Receive
  <2>. QED
    BY <2>1, <2>2
<1>7. UNCHANGED <<phase, connected, inVars, outVars, cardIn, shownVars, overrun, wanted>>
  BY DEF Receive
<1>. QED
  BY <1>4, <1>5, <1>6, <1>7 DEF TypeOK, GoodPacket, inVars, outVars, cardIn, shownVars

LEMMA TypesOfReadPacket ==
    ASSUME TypeOK, ReadPacket
    PROVE  TypeOK'
<1>0. ring # <<>> /\ ring \in Seq([bank : Banks, state : States]) /\ Len(ring) <= RingSize
  BY RingFacts DEF ReadPacket, TypeOK
<1>1. PICK p : p = Head(ring) /\ GoodPacket(p)
  BY <1>0, RingFacts
<1>2. PICK b \in Banks : b = p.bank
  BY <1>1 DEF GoodPacket
<1>3. /\ ring' \in Seq([bank : Banks, state : States]) /\ Len(ring') <= RingSize
      /\ \A k \in DOMAIN ring' : GoodPacket(ring'[k])
  <2>1. ring' = Tail(ring)
    BY DEF ReadPacket
  <2>2. /\ ring' \in Seq([bank : Banks, state : States]) /\ Len(ring') = Len(ring) - 1
        /\ \A k \in 1 .. Len(ring') : ring'[k] = ring[k + 1] /\ k + 1 \in 1 .. Len(ring)
    BY <1>0, <2>1
  <2>3. Len(ring') <= RingSize /\ DOMAIN ring' = 1 .. Len(ring')
    BY <1>0, <2>2, SismoAssumption
  <2>. QED
    BY <2>2, <2>3, RingFacts
<1>4. connected' \in BOOLEAN /\ UNCHANGED <<phase, value, outVars, cardIn, shownVars, owed, wanted>>
  BY DEF ReadPacket
<1>5. CASE UNCHANGED <<inputs, inputs_nsave, overrun>>
  BY <1>3, <1>4, <1>5 DEF TypeOK, GoodPacket, outVars, cardIn, shownVars
<1>6. CASE /\ inputs' = [i \in Inputs |-> IF i \in OfBank(b) THEN Shifted(i, p.state[i]) ELSE inputs[i]]
           /\ inputs_nsave' = [inputs_nsave EXCEPT ![b] = Counted(b)]
           /\ overrun' = IF inputs_nsave'[b] >= MAXSAVE THEN overrun \cup {b} ELSE overrun
  <2>1. ASSUME NEW i \in OfBank(b)
        PROVE  /\ i \in Inputs /\ p.state[i] \in Level(i) /\ p.state[i] # INPUTINITVAL
               /\ inputs'[i] = Shifted(i, p.state[i])
    <3>1. p.state[i] \in Level(i) /\ i \in Inputs
      BY <1>1, <1>2, BankFacts DEF GoodPacket
    <3>2. p.state[i] \in 0 .. 3
      BY <3>1, BankFacts
    <3>. QED
      BY <1>6, <3>1, <3>2 DEF INPUTINITVAL
  <2>2. ASSUME NEW i \in Inputs, i \notin OfBank(b)
        PROVE  /\ inputs'[i] = inputs[i] /\ InputBank[i] # b
    BY <1>6, <2>2 DEF OfBank
  <2>3. PICK n \in 0 .. MAXSAVE : n = inputs_nsave[b]
    BY DEF TypeOK
  <2>4. PICK m \in 0 .. MAXSAVE : m = Counted(b) /\ m <= n + 1
    BY <2>3, SismoAssumption DEF Counted
  <2>5. /\ inputs_nsave' \in [Banks -> 0 .. MAXSAVE] /\ inputs_nsave'[b] = m
        /\ \A a \in Banks : a # b => inputs_nsave'[a] = inputs_nsave[a]
    BY <1>6, <2>4 DEF TypeOK
  <2>6. \A i \in Inputs :
          /\ Len(inputs[i]) = MAXSAVE /\ inputs[i] \in Seq(-1 .. 3)
          /\ \A s \in 1 .. MAXSAVE : inputs[i][s] \in Level(i) \cup {INPUTINITVAL}
          /\ \A s \in 1 .. inputs_nsave[InputBank[i]] : inputs[i][s] # INPUTINITVAL
    BY DEF TypeOK
  <2>7. ASSUME NEW i \in Inputs
        PROVE  /\ inputs'[i] \in Seq(-1 .. 3) /\ Len(inputs'[i]) = MAXSAVE
               /\ \A s \in 1 .. MAXSAVE : inputs'[i][s] \in Level(i) \cup {INPUTINITVAL}
               /\ \A s \in 1 .. inputs_nsave'[InputBank[i]] : inputs'[i][s] # INPUTINITVAL
    <3>1. CASE i \notin OfBank(b)
      <4>1. inputs_nsave'[InputBank[i]] = inputs_nsave[InputBank[i]]
        BY <2>2, <2>5, <3>1, BankFacts
      <4>. QED
        BY <2>2, <2>6, <3>1, <4>1
    <3>2. CASE i \in OfBank(b)
      <4>1. PICK new \in Level(i) : new = p.state[i] /\ new # INPUTINITVAL
        BY <2>1, <3>2
      <4>2. PICK q : q = Shifted(i, new) /\ q = inputs'[i]
        BY <2>1, <3>2, <4>1
      <4>3. /\ q \in Seq(-1 .. 3) /\ Len(q) = MAXSAVE /\ q[1] = new
            /\ \A s \in 2 .. MAXSAVE : q[s] = inputs[i][s - 1]
        <5>1. /\ Shifted(i, new) \in Seq(-1 .. 3) /\ Len(Shifted(i, new)) = MAXSAVE
              /\ Shifted(i, new)[1] = new
              /\ \A s \in 2 .. MAXSAVE : Shifted(i, new)[s] = inputs[i][s - 1]
          BY ShiftedFacts
        <5>. QED
          BY <4>2, <5>1, Zenon
      <4>4. InputBank[i] = b
        BY <3>2 DEF OfBank
      <4>5. ASSUME NEW s \in 1 .. MAXSAVE PROVE q[s] \in Level(i) \cup {INPUTINITVAL}
        <5>1. CASE s = 1
          BY <4>1, <4>3, <5>1
        <5>2. CASE s # 1
          <6>1. s \in 2 .. MAXSAVE /\ s - 1 \in 1 .. MAXSAVE
            BY <5>2, SismoAssumption
          <6>. QED
            BY <2>6, <4>3, <6>1
        <5>. QED
          BY <5>1, <5>2
      <4>6. ASSUME NEW s \in 1 .. m PROVE q[s] # INPUTINITVAL
        <5>1. CASE s = 1
          BY <4>1, <4>3, <5>1
        <5>2. CASE s # 1
          <6>1. s \in 2 .. MAXSAVE /\ s - 1 \in 1 .. n
            BY <2>4, <5>2, SismoAssumption
          <6>. QED
            BY <2>3, <2>6, <4>3, <4>4, <6>1
        <5>. QED
          BY <5>1, <5>2
      <4>. QED
        BY <2>5, <4>2, <4>3, <4>4, <4>5, <4>6
    <3>. QED
      BY <3>1, <3>2
  <2>8. inputs' \in [Inputs -> Seq(-1 .. 3)]
    <3>1. inputs' = [i \in Inputs |-> inputs'[i]]
      BY <1>6
    <3>. QED
      BY <2>7, <3>1
  <2>9. overrun' \subseteq Banks
    BY <1>6 DEF TypeOK
  <2>. QED
    BY <1>3, <1>4, <2>5, <2>7, <2>8, <2>9 DEF TypeOK, GoodPacket, outVars, cardIn, shownVars
<1>. QED
  BY <1>1, <1>2, <1>5, <1>6 DEF ReadPacket

LEMMA ReturnedTypes ==
    ASSUME TypeOK, NEW i \in Inputs
    PROVE  Returned(i) \in {-1, 0, 1} /\ ButtonValue(i) \in {0, 1, INT_MISS}
<1>1. PICK n \in 0 .. MAXSAVE : n = inputs_nsave[InputBank[i]]
  BY BankFacts DEF TypeOK
<1>2. PICK s \in 1 .. MAXSAVE : s = Slot(InputBank[i])
  <2>1. (IF n # 0 THEN n ELSE 1) \in 1 .. MAXSAVE
    BY SismoAssumption
  <2>. QED
    BY <1>1, <2>1 DEF Slot
<1>3. \A k \in 1 .. MAXSAVE : inputs[i][k] \in Level(i) \cup {INPUTINITVAL} /\ inputs[i][k] \in Int
  <2>. TAKE k \in 1 .. MAXSAVE
  <2>1. inputs[i][k] \in Level(i) \cup {INPUTINITVAL}
    BY DEF TypeOK
  <2>. QED
    BY <2>1, BankFacts DEF INPUTINITVAL
<1>4. Returned(i) \in {-1, 0, 1}
  <2>1. CASE connected /\ n # 0 /\ s < MAXSAVE
    <3>1. s + 1 \in 1 .. MAXSAVE
      BY <2>1, SismoAssumption
    <3>2. Event(i, inputs[i][s + 1], inputs[i][s]) \in {-1, 0, 1}
      BY <1>3, <3>1, EventTypes
    <3>. QED
      BY <1>1, <1>2, <2>1, <3>2 DEF Returned
  <2>2. CASE ~(connected /\ n # 0 /\ s < MAXSAVE)
    BY <1>1, <1>2, <2>2 DEF Returned
  <2>. QED
    BY <2>1, <2>2
<1>5. ButtonValue(i) \in {0, 1, INT_MISS}
  <2>1. value[i] \in {0, 1, INT_MISS}
    BY DEF TypeOK
  <2>2. inputs[i][s] \in Level(i) \cup {INPUTINITVAL}
    BY <1>3
  <2>3. Kind[i] = "button" => Level(i) = 0 .. 1
    BY DEF Level
  <2>. QED
    BY <1>2, <2>1, <2>2, <2>3 DEF ButtonValue
<1>. QED
  BY <1>4, <1>5

LEMMA NumberTypes ==
    ASSUME TypeOK, NEW number \in Numbers \cup {wanted.number}
    PROVE  number \in Numbers \cup {NoNumber} /\ number \in [val : Int, dp : Int]
<1>1. wanted.number \in Numbers \cup {NoNumber}
  BY DEF TypeOK
<1>2. NoNumber \in [val : Int, dp : Int]
  BY DEF NoNumber, INT_MISS
<1>3. Numbers \subseteq [val : Int, dp : Int]
  BY SismoAssumption
<1>. QED
  BY <1>1, <1>2, <1>3

(* What the modules may write.                                              *)
ModuleWrites(lit, number) ==
    /\ outputs' = [o \in Outputs |-> IF o \in Driven /\ o < noutputs THEN lit[o] ELSE outputs[o]]
    /\ outputs_changed' = [o \in Outputs |->
            IF outputs'[o] # outputs[o] THEN CHANGED_FLAG ELSE outputs_changed[o]]
    /\ displays' = [c \in Displays |->
            IF number.val = INT_MISS THEN displays[c] ELSE Digit(number, c)]
    /\ displays_changed' = [c \in Displays |->
            IF displays'[c] # displays[c] THEN CHANGED_FLAG ELSE displays_changed[c]]
    /\ wanted' = [lamps |-> outputs', number |-> number]

LEMMA UserModuleFacts ==
    ASSUME TypeOK, UserModule
    PROVE  /\ phase = "user" /\ phase' = "write"
           /\ owed' = [i \in Inputs |-> owed[i] - Returned(i)]
           /\ value' = [i \in Inputs |-> ButtonValue(i)]
           /\ UNCHANGED <<connected, ring, inputs, inputs_nsave, level, shownVars, overrun>>
           /\ changes' \in 0 .. MaxChanges
           /\ IF connected
              THEN \E lit \in [Driven -> {0, 1}] : \E number \in Numbers \cup {wanted.number} :
                       ModuleWrites(lit, number)
              ELSE UNCHANGED <<outVars, wanted>>
<1>1. /\ phase = "user" /\ phase' = "write"
      /\ owed' = [i \in Inputs |-> owed[i] - Returned(i)]
      /\ value' = [i \in Inputs |-> ButtonValue(i)]
      /\ UNCHANGED <<connected, ring, inputs, inputs_nsave, level, shownVars, overrun>>
  BY DEF UserModule
<1>2. CASE connected
  <2>1. PICK lit \in [Driven -> {0, 1}] : \E number \in Numbers \cup {wanted.number} :
          /\ ModuleWrites(lit, number)
          /\ changes' = changes + Cardinality({o \in Outputs : outputs'[o] # outputs[o]})
                               + (IF number = wanted.number THEN 0 ELSE 1)
          /\ changes' <= MaxChanges
    BY <1>2, Zenon DEF UserModule, ModuleWrites
  <2>2. PICK number \in Numbers \cup {wanted.number} :
          /\ ModuleWrites(lit, number)
          /\ changes' = changes + Cardinality({o \in Outputs : outputs'[o] # outputs[o]})
                               + (IF number = wanted.number THEN 0 ELSE 1)
          /\ changes' <= MaxChanges
    BY <2>1
  <2>3. Cardinality({o \in Outputs : outputs'[o] # outputs[o]}) \in Nat
    <3>1. IsFiniteSet(Outputs)
      <4>1. 0 \in Int /\ 3 * BankSize - 1 \in Int
        BY PowerFacts, SismoAssumption
      <4>. QED
        BY <4>1, FS_Interval DEF Outputs
    <3>. QED
      BY <3>1, FS_Subset, FS_CardinalityType
  <2>4. changes' \in 0 .. MaxChanges
    <3>1. changes \in Nat /\ MaxChanges \in Nat
      BY SismoAssumption DEF TypeOK
    <3>. QED
      BY <2>2, <2>3, <3>1
  <2>5. \E l \in [Driven -> {0, 1}] : \E n \in Numbers \cup {wanted.number} : ModuleWrites(l, n)
    BY <2>2
  <2>. QED
    BY <1>1, <1>2, <2>4, <2>5
<1>3. CASE ~connected
  <2>1. UNCHANGED <<outVars, wanted, changes>>
    BY <1>3 DEF UserModule
  <2>2. changes' \in 0 .. MaxChanges
    BY <2>1 DEF TypeOK
  <2>. QED
    BY <1>1, <1>3, <2>1, <2>2
<1>. QED
  BY <1>2, <1>3

LEMMA TypesOfUserModule ==
    ASSUME TypeOK, UserModule
    PROVE  TypeOK'
<1>1. owed' \in [Inputs -> Int] /\ value' \in [Inputs -> {0, 1, INT_MISS}]
  <2>1. \A i \in Inputs : owed[i] \in Int
    BY DEF TypeOK
  <2>2. \A i \in Inputs : owed[i] - Returned(i) \in Int /\ ButtonValue(i) \in {0, 1, INT_MISS}
    BY <2>1, ReturnedTypes
  <2>. QED
    BY <2>2, UserModuleFacts
<1>2. /\ phase' = "write" /\ changes' \in 0 .. MaxChanges
      /\ UNCHANGED <<connected, ring, inputs, inputs_nsave, level, shownVars, overrun>>
  BY UserModuleFacts
<1>3. /\ outputs' \in [Outputs -> {0, 1}] /\ outputs_changed' \in [Outputs -> {0, 1}]
      /\ displays' \in [Displays -> Cell] /\ displays_changed' \in [Displays -> {0, 1}]
      /\ wanted' \in [lamps : [Outputs -> {0, 1}], number : Numbers \cup {NoNumber}]
  <2>0. /\ outputs \in [Outputs -> {0, 1}] /\ outputs_changed \in [Outputs -> {0, 1}]
        /\ displays \in [Displays -> Cell] /\ displays_changed \in [Displays -> {0, 1}]
        /\ wanted \in [lamps : [Outputs -> {0, 1}], number : Numbers \cup {NoNumber}]
    BY DEF TypeOK
  <2>1. CASE ~connected
    BY <2>0, <2>1, UserModuleFacts DEF outVars
  <2>2. CASE connected
    <3>1. PICK lit \in [Driven -> {0, 1}], number \in Numbers \cup {wanted.number} :
            ModuleWrites(lit, number)
      BY <2>2, UserModuleFacts
    <3>2. number \in Numbers \cup {NoNumber} /\ number \in [val : Int, dp : Int]
      BY NumberTypes
    <3>3. outputs' \in [Outputs -> {0, 1}]
      BY <2>0, <3>1 DEF ModuleWrites
    <3>4. outputs_changed' \in [Outputs -> {0, 1}]
      BY <2>0, <3>1 DEF ModuleWrites, CHANGED_FLAG
    <3>5. displays' \in [Displays -> Cell]
      <4>1. \A c \in Displays : Digit(number, c) \in Cell /\ displays[c] \in Cell
        BY <2>0, <3>2, DigitTypes
      <4>2. displays' = [c \in Displays |->
                IF number.val = INT_MISS THEN displays[c] ELSE Digit(number, c)]
        BY <3>1 DEF ModuleWrites
      <4>. QED
        BY <4>1, <4>2
    <3>6. displays_changed' \in [Displays -> {0, 1}]
      BY <2>0, <3>1 DEF ModuleWrites, CHANGED_FLAG
    <3>7. wanted' \in [lamps : [Outputs -> {0, 1}], number : Numbers \cup {NoNumber}]
      BY <3>1, <3>2, <3>3 DEF ModuleWrites
    <3>. QED
      BY <3>3, <3>4, <3>5, <3>6, <3>7
  <2>. QED
    BY <2>1, <2>2
<1>. QED
  BY <1>1, <1>2, <1>3 DEF TypeOK, shownVars

(* Displays are no longer changed after write_sismo, and bank 2 may have    *)
(* reset one of them.                                                       *)
LEMMA TypesOfWriteSismo ==
    ASSUME TypeOK, WriteSismo
    PROVE  TypeOK'
<1>0. /\ outputs \in [Outputs -> {0, 1}] /\ outputs_changed \in [Outputs -> {0, 1}]
      /\ displays \in [Displays -> Cell] /\ displays_changed \in [Displays -> {0, 1}]
      /\ lamps \in [Outputs -> {0, 1}] /\ digits \in [Displays -> Cell]
  BY DEF TypeOK
<1>1. phase' = "reset" /\ UNCHANGED <<connected, ring, inVars, cardIn, owed, overrun, wanted>>
  BY DEF WriteSismo
<1>2. CASE ~connected
  BY <1>1, <1>2 DEF TypeOK, WriteSismo, inVars, outVars, cardIn, shownVars
<1>3. CASE connected
  <2>1. ASSUME NEW o \in Outputs, o \div BankSize \in SentBanks
        PROVE  LampSent(o \div BankSize, o % BankSize) \in {0, 1}
    <3>1. CASE o \div BankSize = 2
      BY <3>1 DEF LampSent, UNCHANGED_FLAG
    <3>2. CASE o \div BankSize # 2
      <4>1. PICK b \in {0, 1} : b = o \div BankSize
        BY <2>1, <3>2, SismoAssumption DEF SentBanks, Written
      <4>2. BankSize \in Nat \ {0}
        BY SismoAssumption
      <4>3. o % BankSize \in 0 .. BankSize - 1
        BY <4>2 DEF Outputs
      <4>4. firstoutput(b) + (o % BankSize) \in Outputs
        BY <4>2, <4>3 DEF firstoutput, Outputs
      <4>5. PICK j \in Outputs : j = firstoutput(b) + (o % BankSize)
        BY <4>4
      <4>6. OutputAt(j) = outputs[j] /\ outputs[j] \in {0, 1}
        BY <1>0 DEF OutputAt
      <4>7. LampSent(b, o % BankSize) = OutputAt(j)
        <5>1. b # 2
          OBVIOUS
        <5>2. PICK k : k = o % BankSize
          OBVIOUS
        <5>3. LampSent(b, k) = OutputAt(firstoutput(b) + k)
          BY <5>1, Zenon DEF LampSent
        <5>. QED
          BY <4>5, <5>2, <5>3, Zenon
      <4>. QED
        BY <4>1, <4>6, <4>7
    <3>. QED
      BY <3>1, <3>2
  <2>2. lamps' \in [Outputs -> {0, 1}]
    <3>1. lamps' = [o \in Outputs |->
              IF o \div BankSize \in SentBanks
              THEN LampSent(o \div BankSize, o % BankSize) ELSE lamps[o]]
      BY <1>3 DEF WriteSismo
    <3>. QED
      BY <1>0, <2>1, <3>1
  <2>3. outputs_changed' \in [Outputs -> {0, 1}] /\ outputs' = outputs
    BY <1>0, <1>3 DEF WriteSismo, UNCHANGED_FLAG
  <2>4. displays' \in [Displays -> Cell]
    <3>1. \A d \in Displays : DisplayLeft(d) \in Cell
      BY <1>0 DEF DisplayLeft, Cell
    <3>2. displays' = [d \in Displays |-> DisplayLeft(d)]
      BY <1>3 DEF WriteSismo
    <3>. QED
      BY <3>1, <3>2
  <2>5. digits' \in [Displays -> Cell] /\ displays_changed' \in [Displays -> {0, 1}]
    BY <1>0, <1>3, <2>4 DEF WriteSismo, UNCHANGED_FLAG
  <2>. QED
    BY <1>1, <2>2, <2>3, <2>4, <2>5 DEF TypeOK, inVars, cardIn
<1>. QED
  BY <1>2, <1>3

LEMMA TypesOfReset ==
    ASSUME TypeOK, ResetSismodata
    PROVE  TypeOK'
<1>0. inputs_nsave \in [Banks -> 0 .. MAXSAVE] /\ MAXSAVE \in Nat
  BY SismoAssumption DEF TypeOK
<1>1. ASSUME NEW b \in Banks PROVE Left(b) \in 0 .. MAXSAVE /\ Left(b) <= inputs_nsave[b]
  <2>1. inputs_nsave[b] \in 0 .. MAXSAVE
    BY <1>0
  <2>. QED
    BY <1>0, <2>1 DEF Left
<1>2. inputs_nsave' = [b \in Banks |-> IF connected THEN Left(b) ELSE inputs_nsave[b]]
  BY DEF ResetSismodata
<1>3. inputs_nsave' \in [Banks -> 0 .. MAXSAVE] /\ \A b \in Banks : inputs_nsave'[b] <= inputs_nsave[b]
  BY <1>0, <1>1, <1>2
<1>4. ASSUME NEW i \in Inputs, NEW s \in 1 .. inputs_nsave'[InputBank[i]]
      PROVE  inputs[i][s] # INPUTINITVAL
  <2>1. s \in 1 .. inputs_nsave[InputBank[i]]
    BY <1>0, <1>3, BankFacts
  <2>. QED
    BY <2>1 DEF TypeOK
<1>5. /\ phase' = "read"
      /\ UNCHANGED <<connected, ring, inputs, value, outVars, cardIn, shownVars, owed, overrun, wanted>>
  BY DEF ResetSismodata
<1>. QED
  BY <1>3, <1>4, <1>5 DEF TypeOK, outVars, cardIn, shownVars

LEMMA TypesOfOperate ==
    ASSUME TypeOK, NEW i \in Inputs, Operate(i)
    PROVE  TypeOK'
<1>1. PICK new \in Level(i) : level' = [level EXCEPT ![i] = new]
  BY DEF Operate
<1>2. level \in [Inputs -> 0 .. 3] /\ \A j \in Inputs : level[j] \in Level(j)
  BY DEF TypeOK
<1>3. new \in 0 .. 3
  BY BankFacts
<1>4. level' \in [Inputs -> 0 .. 3] /\ \A j \in Inputs : level'[j] \in Level(j)
  BY <1>1, <1>2, <1>3
<1>5. changes' \in 0 .. MaxChanges
  <2>1. changes \in Nat /\ changes < MaxChanges /\ changes' = changes + 1 /\ MaxChanges \in Nat
    BY SismoAssumption DEF TypeOK, Operate
  <2>. QED
    BY <2>1
<1>6. UNCHANGED <<phase, connected, ring, inVars, outVars, shownVars, owed, overrun, wanted>>
  BY DEF Operate
<1>. QED
  BY <1>4, <1>5, <1>6 DEF TypeOK, inVars, outVars, shownVars

LEMMA TypesAfterStep == TypeOK /\ [Next]_vars => TypeOK'
<1>. SUFFICES ASSUME TypeOK, [Next]_vars PROVE TypeOK'
  OBVIOUS
<1>1. CASE ReadEnd
  BY <1>1 DEF TypeOK, ReadEnd, inVars, outVars, cardIn, shownVars
<1>2. CASE UNCHANGED vars
  BY <1>2 DEF TypeOK, vars, inVars, outVars, cardIn, shownVars
<1>. QED
  BY <1>1, <1>2, TypesOfReadPacket, TypesOfUserModule, TypesOfWriteSismo, TypesOfReset,
     TypesOfOperate, TypesOfReceive DEF Next, MainLoop

(* Types (libsismo.c): the number of saved states stays within the history, *)
(* none of them is one that nobody has read, udpRecvBuffer does not grow    *)
(* beyond its size, and every display has a code that the card knows.       *)
THEOREM TypeCorrect == Spec => []TypeOK
  BY TypesInitially, TypesAfterStep, PTL DEF Spec

-----------------------------------------------------------------------------
(* Outputs                                                                  *)

(* A lamp that differs from what was written last has its flag set, and     *)
(* none does when the packets have been sent.                               *)
LampInv ==
    /\ wanted.lamps = outputs
    /\ \A o \in 0 .. noutputs - 1 : lamps[o] # outputs[o] => outputs_changed[o] = CHANGED_FLAG
    /\ phase = "reset" /\ connected => \A o \in 0 .. noutputs - 1 : lamps[o] = outputs[o]

(* Without daughter 2 every bank that is written lies within the array.     *)
LEMMA BanksOfOutputs ==
    ASSUME 2 \notin Daughters
    PROVE  /\ Written \subseteq {0, 1} /\ 0 .. noutputs - 1 \subseteq Outputs
           /\ \A o \in 0 .. noutputs - 1 :
                /\ o \div BankSize \in Written /\ o % BankSize \in 0 .. BankSize - 1
                /\ firstoutput(o \div BankSize) + (o % BankSize) = o
<1>1. PICK B \in Nat \ {0} : B = BankSize
  <2>1. BankSize \in 1 .. Cardinality(Displays)
    BY SismoAssumption
  <2>2. Displays = 0 .. 2 /\ Cardinality(0 .. 2) = 3
    <3>1. 0 \in Int /\ 2 \in Int
      OBVIOUS
    <3>2. Cardinality(0 .. 2) = IF 0 > 2 THEN 0 ELSE 2 - 0 + 1
      BY <3>1, FS_Interval, Zenon
    <3>. QED
      BY <3>1, <3>2 DEF Displays
  <2>. QED
    BY <2>1, <2>2
<1>2. Daughters = {} \/ Daughters = {1}
  BY SismoAssumption
<1>3. CASE Daughters = {}
  <2>1. Cardinality(Daughters) = 0
    BY <1>3, FS_EmptySet
  <2>2. noutputs = B
    BY <1>1, <2>1 DEF noutputs
  <2>3. \A o \in 0 .. B - 1 : o \div B = 0 /\ o % B = o
    OBVIOUS
  <2>4. Written = {0} /\ Outputs = 0 .. 3 * B - 1 /\ firstoutput(0) = 0
    BY <1>1, <1>3 DEF Written, Outputs, firstoutput
  <2>. QED
    BY <1>1, <2>2, <2>3, <2>4
<1>4. CASE Daughters = {1}
  <2>1. Cardinality(Daughters) = 1
    BY <1>4, FS_Singleton
  <2>2. noutputs = 2 * B
    BY <1>1, <2>1 DEF noutputs
  <2>3. Written = {0, 1} /\ Outputs = 0 .. 3 * B - 1 /\ firstoutput(0) = 0 /\ firstoutput(1) = B
    BY <1>1, <1>4 DEF Written, Outputs, firstoutput
  <2>4. ASSUME NEW o \in 0 .. 2 * B - 1
        PROVE  /\ o \div B \in {0, 1} /\ o % B \in 0 .. B - 1
               /\ firstoutput(o \div B) + (o % B) = o
    <3>1. PICK q \in Nat, r \in 0 .. B - 1 : q = o \div B /\ r = o % B /\ o = B * q + r
      BY Quotient
    <3>2. q < 2
      BY <3>1
    <3>3. q = 0 \/ q = 1
      BY <3>1, <3>2
    <3>. QED
      BY <2>3, <3>1, <3>3
  <2>. QED
    BY <1>1, <2>2, <2>3, <2>4
<1>. QED
  BY <1>2, <1>3, <1>4

LEMMA LampsInitially ==
    ASSUME 2 \notin Daughters, Init
    PROVE  LampInv
BY BanksOfOutputs DEF Init, LampInv

LEMMA LampsAfterUserModule ==
    ASSUME 2 \notin Daughters, TypeOK, LampInv, UserModule
    PROVE  LampInv'
<1>1. phase' = "write" /\ lamps' = lamps
  BY UserModuleFacts DEF shownVars
<1>2. CASE ~connected
  BY <1>1, <1>2, UserModuleFacts DEF LampInv, outVars
<1>3. CASE connected
  <2>1. PICK lit \in [Driven -> {0, 1}], number \in Numbers \cup {wanted.number} :
          ModuleWrites(lit, number)
    BY <1>3, UserModuleFacts
  <2>2. wanted'.lamps = outputs'
    BY <2>1 DEF ModuleWrites
  <2>3. ASSUME NEW o \in 0 .. noutputs - 1, lamps'[o] # outputs'[o]
        PROVE  outputs_changed'[o] = CHANGED_FLAG
    <3>1. o \in Outputs
      BY BanksOfOutputs
    <3>2. outputs_changed'[o] = IF outputs'[o] # outputs[o] THEN CHANGED_FLAG ELSE outputs_changed[o]
      BY <2>1, <3>1 DEF ModuleWrites
    <3>. QED
      BY <1>1, <2>3, <3>2 DEF LampInv
  <2>. QED
    BY <1>1, <2>2, <2>3 DEF LampInv
<1>. QED
  BY <1>2, <1>3

LEMMA LampsAfterWrite ==
    ASSUME 2 \notin Daughters, TypeOK, LampInv, WriteSismo
    PROVE  LampInv'
<1>1. CASE ~connected
  BY <1>1 DEF WriteSismo, LampInv, outVars, shownVars
<1>2. CASE connected
  <2>1. outputs' = outputs /\ wanted' = wanted /\ connected' = connected
    BY <1>2 DEF WriteSismo
  <2>2. ASSUME NEW o \in 0 .. noutputs - 1
        PROVE  lamps'[o] = outputs[o]
    <3>1. PICK b \in Written : b = o \div BankSize
      BY BanksOfOutputs
    <3>2. PICK k \in 0 .. BankSize - 1 : k = o % BankSize
      BY BanksOfOutputs
    <3>3. o \in Outputs /\ firstoutput(b) + k = o /\ b # 2
      BY <3>1, <3>2, BanksOfOutputs
    <3>4. lamps'[o] = IF b \in SentBanks THEN LampSent(b, k) ELSE lamps[o]
      BY <1>2, <3>1, <3>2, <3>3 DEF WriteSismo
    <3>5. CASE b \in SentBanks
      BY <3>3, <3>4, <3>5 DEF LampSent, OutputAt
    <3>6. CASE b \notin SentBanks
      <4>1. outputs_changed[o] # CHANGED_FLAG
        BY <3>3, <3>6 DEF SentBanks, ChangedAt
      <4>. QED
        BY <3>4, <3>6, <4>1 DEF LampInv
    <3>. QED
      BY <3>5, <3>6
  <2>. QED
    BY <2>1, <2>2 DEF LampInv
<1>. QED
  BY <1>1, <1>2

LEMMA LampsAfterStep ==
    ASSUME 2 \notin Daughters
    PROVE  TypeOK /\ LampInv /\ [Next]_vars => LampInv'
<1>. SUFFICES ASSUME TypeOK, LampInv, [Next]_vars PROVE LampInv'
  OBVIOUS
<1>1. CASE ReadPacket
  BY <1>1 DEF ReadPacket, LampInv, outVars, shownVars
<1>2. CASE ReadEnd \/ ResetSismodata
  BY <1>2 DEF ReadEnd, ResetSismodata, LampInv, outVars, shownVars
<1>3. ASSUME NEW i \in Inputs, Operate(i) PROVE LampInv'
  BY <1>3 DEF Operate, LampInv, outVars, shownVars
<1>4. ASSUME NEW b \in Banks, Receive(b) PROVE LampInv'
  BY <1>4 DEF Receive, LampInv, outVars, shownVars
<1>5. CASE UNCHANGED vars
  BY <1>5 DEF LampInv, vars, outVars, shownVars
<1>. QED
  BY <1>1, <1>2, <1>3, <1>4, <1>5, LampsAfterUserModule, LampsAfterWrite DEF Next, MainLoop

(* OutputsShown (write_sismo): without a second daughter card the master    *)
(* and its daughter show, after each iteration, all outputs written last,   *)
(* for any banks, any outputs driven and any order of packets and writes.   *)
THEOREM OutputsReachCard ==
    ASSUME 2 \notin Daughters
    PROVE  Spec => []OutputsShown
<1>1. Init => TypeOK /\ LampInv
  BY TypesInitially, LampsInitially
<1>2. TypeOK /\ LampInv /\ [Next]_vars => (TypeOK /\ LampInv)'
  BY TypesAfterStep, LampsAfterStep
<1>3. TypeOK /\ LampInv => OutputsShown
  BY DEF LampInv, OutputsShown
<1>. QED
  BY <1>1, <1>2, <1>3, PTL DEF Spec

-----------------------------------------------------------------------------
(* Numbers                                                                  *)

(* The leftmost display with a figure.                                      *)
Top(number) ==
    LET len == Length(Magnitude(number.val))
        needed == IF len = 0 THEN 0 ELSE len - 1
    IN  IF number.val >= 0 /\ number.dp > needed THEN number.dp ELSE needed

Figure(number, c) ==
    IF c <= Top(number)
    THEN ((Magnitude(number.val) \div Power[c]) % 10) + (IF c = number.dp THEN 10 ELSE 0)
    ELSE IF number.val < 0 /\ c = Top(number) + 1 THEN MINUS ELSE BLANK

FitsWith(number, v, len, top) ==
    /\ v = Magnitude(number.val) /\ len = Length(v) /\ top = Top(number)
    /\ len <= top + 1 /\ number.dp <= top /\ v < Power[top + 1]
    /\ number.val < 0 => v > 0 /\ top = len - 1 /\ top < 2 /\ Sign(number) = top + 1
    /\ \A c \in Displays :
        /\ c >= len => v \div Power[c] = 0
        /\ number.val >= 0 => (c <= top <=> c < len \/ c = 0 \/ c <= number.dp)

LEMMA TopFacts ==
    ASSUME NEW number \in [val : Int, dp : Int], Showable(number)
    PROVE  \E v \in 0 .. 999, len \in 0 .. 3, top \in 0 .. 2 : FitsWith(number, v, len, top)
<1>1. PICK v \in Nat : v = Magnitude(number.val) /\ (number.val < 0 => v > 0)
  BY DEF Magnitude
<1>2. PICK len \in 0 .. 3 : len = Length(v)
  BY LengthFacts
<1>3. v < 1000 /\ number.dp <= 2 /\ (number.val < 0 => len <= 2 /\ number.dp < len)
      /\ number.dp \in Int /\ number.val \in Int
  <2>1. /\ v < 1000 /\ number.dp <= 2 /\ number.dp \in Int /\ number.val \in Int
        /\ number.val < 0 => v < 100 /\ (number.dp >= 0 => v >= Power[number.dp])
    BY <1>1 DEF Showable
  <2>2. \A k \in Displays : k < len <=> v >= Power[k]
    BY <1>2, LengthFacts
  <2>3. v < 100 => len <= 2
    <3>1. 2 \in Displays /\ Power[2] = 100
      BY PowerFacts DEF Displays
    <3>. QED
      BY <2>2, <3>1
  <2>4. ASSUME number.val < 0 PROVE number.dp < len
    <3>1. CASE number.dp < 0
      <4>1. 0 \in Displays /\ Power[0] = 1
        BY PowerFacts DEF Displays
      <4>2. 0 < len
        BY <1>1, <2>2, <2>4, <4>1
      <4>. QED
        BY <2>1, <3>1, <4>2
    <3>2. CASE number.dp >= 0
      <4>1. number.dp \in Displays
        BY <2>1, <3>2 DEF Displays
      <4>. QED
        BY <2>1, <2>2, <2>4, <3>2, <4>1
    <3>. QED
      BY <2>1, <3>1, <3>2
  <2>. QED
    BY <2>1, <2>3, <2>4
<1>4. v < Power[len] /\ (v > 0 => len >= 1)
  <2>1. v < Power[len]
    BY <1>2, <1>3, LengthFacts
  <2>2. v > 0 => 0 < len
    <3>1. 0 \in Displays
      BY DEF Displays
    <3>. QED
      BY <1>2, <3>1, PowerFacts, LengthFacts
  <2>. QED
    BY <2>1, <2>2
<1>5. PICK needed \in 0 .. 2 : needed = IF len = 0 THEN 0 ELSE len - 1
  OBVIOUS
<1>6. PICK top \in 0 .. 2 : top = (IF number.val >= 0 /\ number.dp > needed THEN number.dp ELSE needed)
  BY <1>3, <1>5
<1>7. top = Top(number)
  BY <1>1, <1>2, <1>5, <1>6 DEF Top
<1>8. len <= top + 1 /\ number.dp <= top
  BY <1>3, <1>5, <1>6
<1>9. v < Power[top + 1]
  BY <1>4, <1>8, PowerFacts
<1>10. number.val < 0 => v > 0 /\ top = len - 1 /\ top < 2 /\ Sign(number) = top + 1
  BY <1>1, <1>2, <1>3, <1>4, <1>5, <1>6 DEF Sign
<1>11. ASSUME NEW c \in Displays, c >= len PROVE v \div Power[c] = 0
  <2>1. PICK p \in Nat \ {0} : p = Power[c] /\ v < p
    BY <1>4, <1>11, PowerFacts DEF Displays
  <2>2. v \div p = 0
    BY <2>1
  <2>. QED
    BY <2>1, <2>2
<1>12. ASSUME NEW c \in Displays, number.val >= 0
       PROVE  c <= top <=> c < len \/ c = 0 \/ c <= number.dp
  BY <1>3, <1>5, <1>6, <1>12 DEF Displays
<1>13. v \in 0 .. 999
  BY <1>3
<1>. QED
  BY <1>1, <1>2, <1>7, <1>8, <1>9, <1>10, <1>11, <1>12, <1>13, ZenonT(60) DEF FitsWith

LEMMA FigureFacts ==
    ASSUME NEW number \in [val : Int, dp : Int], Showable(number), NEW c \in Displays
    PROVE  Digit(number, c) = Figure(number, c)
<1>0. PICK v \in 0 .. 999, len \in 0 .. 3, top \in 0 .. 2 : FitsWith(number, v, len, top)
  BY TopFacts, ZenonT(60)
<1>1. /\ v = Magnitude(number.val) /\ len = Length(v) /\ top = Top(number)
      /\ len <= top + 1 /\ number.dp <= top
      /\ number.val < 0 => top = len - 1 /\ Sign(number) = top + 1
      /\ c >= len => v \div Power[c] = 0
      /\ number.val >= 0 => (c <= top <=> c < len \/ c = 0 \/ c <= number.dp)
  BY <1>0 DEF FitsWith
<1>2. PICK point \in {0, 10} : point = IF c = number.dp THEN 10 ELSE 0
  OBVIOUS
<1>3. PICK q \in 0 .. 9 : q = (v \div Power[c]) % 10 /\ (c >= len => q = 0)
  <2>1. (v \div Power[c]) % 10 \in 0 .. 9
    BY <1>1, DigitIs
  <2>. QED
    BY <1>1, <2>1
<1>4. /\ c < len => Digit(number, c) = q + point
      /\ c >= len /\ number.val < 0 => (c = Sign(number) => Digit(number, c) = MINUS)
      /\ c >= len /\ (number.val >= 0 \/ c > Sign(number)) =>
                    Digit(number, c) = IF c = 0 \/ number.dp >= c THEN point ELSE BLANK
  BY <1>1, <1>2, <1>3, DigitIs
<1>5. Figure(number, c) =
        IF c <= top THEN q + point ELSE IF number.val < 0 /\ c = top + 1 THEN MINUS ELSE BLANK
  BY <1>1, <1>2, <1>3 DEF Figure
<1>6. c \in 0 .. 2 /\ number.val \in Int /\ number.dp \in Int
  BY DEF Displays
<1>7. CASE number.val >= 0
  <2>1. CASE c < len
    BY <1>1, <1>4, <1>5, <1>6, <1>7, <2>1
  <2>2. CASE c >= len
    BY <1>1, <1>3, <1>4, <1>5, <1>6, <1>7, <2>2
  <2>. QED
    BY <1>6, <2>1, <2>2
<1>8. CASE number.val < 0
  <2>1. CASE c < len
    BY <1>1, <1>4, <1>5, <1>6, <1>8, <2>1
  <2>2. CASE c = len
    BY <1>1, <1>4, <1>5, <1>6, <1>8, <2>2
  <2>3. CASE c > len
    BY <1>1, <1>4, <1>5, <1>6, <1>8, <2>3
  <2>. QED
    BY <1>6, <2>1, <2>2, <2>3
<1>. QED
  BY <1>6, <1>7, <1>8

LEMMA FiguresShow ==
    ASSUME NEW number \in [val : Int, dp : Int], Showable(number),
           \A c \in Displays : digits[c] = Figure(number, c)
    PROVE  Shows(number)
<1>0. PICK v \in 0 .. 999, len \in 0 .. 3, top \in 0 .. 2 : FitsWith(number, v, len, top)
  BY TopFacts, ZenonT(60)
<1>1. /\ v = Magnitude(number.val) /\ top = Top(number)
      /\ number.dp <= top /\ v < Power[top + 1]
      /\ number.val < 0 => top < 2
  BY <1>0 DEF FitsWith
<1>. DEFINE fig(c) == (v \div Power[c]) % 10
            point(c) == IF c = number.dp THEN 10 ELSE 0
            value_of(c) == IF digits[c] >= 10 THEN digits[c] - 10 ELSE digits[c]
            figures == {c \in Displays : digits[c] >= 0}
<1>2. number.val \in Int /\ number.dp \in Int /\ Displays = 0 .. 2
  BY DEF Displays
<1>3. \A c \in Displays : fig(c) \in 0 .. 9
  BY <1>1, DigitIs
<1>4. \A c \in Displays : c <= top => digits[c] = fig(c) + point(c)
  BY <1>1 DEF Figure
<1>5. \A c \in Displays : c > top =>
        digits[c] = IF number.val < 0 /\ c = top + 1 THEN -10 ELSE -1
  BY <1>1, <1>2 DEF Figure, MINUS, BLANK
<1>. HIDE DEF fig
<1>6. figures = 0 .. top
  BY <1>1, <1>2, <1>3, <1>4, <1>5
<1>7. \A c \in figures : value_of(c) = fig(c)
  <2>. SUFFICES ASSUME NEW c \in 0 .. top PROVE value_of(c) = fig(c)
    BY <1>6
  <2>1. c \in Displays
    BY <1>2
  <2>2. digits[c] = fig(c) + point(c) /\ fig(c) \in 0 .. 9
    BY <1>3, <1>4, <2>1
  <2>. QED
    BY <2>2
<1>8. v < Power[Cardinality(figures)]
  <2>1. Cardinality(0 .. top) = top + 1
    <3>1. 0 \in Int /\ top \in Int
      OBVIOUS
    <3>2. Cardinality(0 .. top) = IF 0 > top THEN 0 ELSE top - 0 + 1
      BY <3>1, FS_Interval, Zenon
    <3>. QED
      BY <3>2
  <2>. QED
    BY <1>1, <1>6, <2>1
<1>9. number.val < 0 <=> \E c \in Displays : digits[c] = MINUS
  <2>1. ASSUME number.val < 0 PROVE \E c \in Displays : digits[c] = MINUS
    <3>1. top + 1 \in Displays /\ top + 1 > top
      BY <1>1, <1>2, <2>1
    <3>2. digits[top + 1] = -10
      BY <1>5, <2>1, <3>1
    <3>. QED
      BY <3>1, <3>2 DEF MINUS
  <2>2. ASSUME NEW c \in Displays, digits[c] = MINUS PROVE number.val < 0
    <3>1. CASE c <= top
      BY <1>3, <1>4, <2>2, <3>1 DEF MINUS
    <3>2. CASE c > top
      BY <1>5, <2>2, <3>2 DEF MINUS
    <3>. QED
      BY <1>2, <3>1, <3>2
  <2>. QED
    BY <2>1, <2>2
<1>10. \A c \in Displays : digits[c] >= 10 <=> c = number.dp
  <2>. TAKE c \in Displays
  <2>1. CASE c <= top
    BY <1>2, <1>3, <1>4, <2>1
  <2>2. CASE c > top
    BY <1>1, <1>2, <1>5, <2>2
  <2>. QED
    BY <1>2, <2>1, <2>2
<1>11. \E t \in Displays : figures = 0 .. t /\ number.dp <= t
  BY <1>1, <1>2, <1>6
<1>. QED
  BY <1>1, <1>7, <1>8, <1>9, <1>10, <1>11 DEF Shows, fig

(* The displays hold the figures of the number written last; the card shows *)
(* the displays unless one of them has its flag set.                        *)
FigureInv ==
    /\ wanted.number.val # INT_MISS =>
        /\ connected
        /\ Showable(wanted.number) =>
                \A c \in Displays : displays[c] = Figure(wanted.number, c)
    /\ (\A c \in Displays : displays_changed[c] # CHANGED_FLAG) => digits = displays
    /\ phase = "reset" /\ connected => digits = displays

LEMMA FiguresInitially == Init => FigureInv
<1>1. 0 \in Displays
  BY DEF Displays
<1>2. NoNumber.val = INT_MISS
  BY DEF NoNumber
<1>. QED
  BY <1>1, <1>2 DEF Init, FigureInv

LEMMA FiguresAfterUserModule ==
    ASSUME TypeOK, FigureInv, UserModule
    PROVE  FigureInv'
<1>1. phase' = "write" /\ digits' = digits /\ connected' = connected
  BY UserModuleFacts DEF shownVars
<1>2. CASE ~connected
  <2>1. displays' = displays /\ displays_changed' = displays_changed /\ wanted' = wanted
    BY <1>2, UserModuleFacts DEF outVars
  <2>. QED
    BY <1>1, <2>1 DEF FigureInv
<1>3. CASE connected
  <2>1. PICK lit \in [Driven -> {0, 1}], number \in Numbers \cup {wanted.number} :
          ModuleWrites(lit, number)
    BY <1>3, UserModuleFacts
  <2>2. wanted'.number = number
    BY <2>1 DEF ModuleWrites
  <2>3. ASSUME NEW c \in Displays
        PROVE  /\ displays'[c] = IF number.val = INT_MISS THEN displays[c] ELSE Digit(number, c)
               /\ displays_changed'[c]
                    = IF displays'[c] # displays[c] THEN CHANGED_FLAG ELSE displays_changed[c]
    BY <2>1 DEF ModuleWrites
  <2>4. ASSUME number.val # INT_MISS, Showable(number)
        PROVE  \A c \in Displays : displays'[c] = Figure(number, c)
    <3>1. number \in [val : Int, dp : Int]
      BY NumberTypes
    <3>. QED
      BY <2>3, <2>4, <3>1, FigureFacts
  <2>5. ASSUME \A c \in Displays : displays_changed'[c] # CHANGED_FLAG
        PROVE  digits' = displays'
    <3>1. ASSUME NEW c \in Displays
          PROVE  displays'[c] = displays[c] /\ displays_changed[c] # CHANGED_FLAG
      BY <2>3, <2>5
    <3>2. displays' = displays
      <4>1. displays \in [Displays -> Cell]
        BY DEF TypeOK
      <4>2. displays' = [c \in Displays |->
                IF number.val = INT_MISS THEN displays[c] ELSE Digit(number, c)]
        BY <2>1 DEF ModuleWrites
      <4>3. displays' = [c \in Displays |-> displays'[c]] /\ displays = [c \in Displays |-> displays[c]]
        BY <4>1, <4>2
      <4>. QED
        BY <3>1, <4>3
    <3>3. digits = displays
      BY <3>1 DEF FigureInv
    <3>. QED
      BY <1>1, <3>2, <3>3
  <2>. QED
    BY <1>1, <1>3, <2>2, <2>4, <2>5 DEF FigureInv
<1>. QED
  BY <1>2, <1>3

LEMMA FiguresAfterWrite ==
    ASSUME 2 \notin Daughters, TypeOK, FigureInv, WriteSismo
    PROVE  FigureInv'
<1>1. CASE ~connected
  BY <1>1 DEF WriteSismo, FigureInv, outVars, shownVars
<1>2. CASE connected
  <2>1. displays' = displays
    <3>1. \A d \in Displays : DisplayLeft(d) = displays[d]
      BY DEF DisplayLeft, Written
    <3>2. displays' = [d \in Displays |-> displays[d]] /\ displays \in [Displays -> Cell]
      BY <1>2, <3>1 DEF WriteSismo, TypeOK
    <3>. QED
      BY <3>2
  <2>2. digits' = displays'
    <3>1. digits' = IF \E d \in Displays : displays_changed[d] = CHANGED_FLAG
                    THEN displays' ELSE digits
      BY <1>2 DEF WriteSismo
    <3>. QED
      BY <2>1, <3>1 DEF FigureInv
  <2>3. wanted' = wanted /\ connected' = connected
    BY DEF WriteSismo
  <2>. QED
    BY <2>1, <2>2, <2>3 DEF FigureInv
<1>. QED
  BY <1>1, <1>2

LEMMA FiguresAfterStep ==
    ASSUME 2 \notin Daughters
    PROVE  TypeOK /\ FigureInv /\ [Next]_vars => FigureInv'
<1>. SUFFICES ASSUME TypeOK, FigureInv, [Next]_vars PROVE FigureInv'
  OBVIOUS
<1>1. CASE ReadPacket
  BY <1>1 DEF ReadPacket, FigureInv, outVars, shownVars
<1>2. CASE ReadEnd \/ ResetSismodata
  BY <1>2 DEF ReadEnd, ResetSismodata, FigureInv, outVars, shownVars
<1>3. ASSUME NEW i \in Inputs, Operate(i) PROVE FigureInv'
  BY <1>3 DEF Operate, FigureInv, outVars, shownVars
<1>4. ASSUME NEW b \in Banks, Receive(b) PROVE FigureInv'
  BY <1>4 DEF Receive, FigureInv, outVars, shownVars
<1>5. CASE UNCHANGED vars
  BY <1>5 DEF FigureInv, vars, outVars, shownVars
<1>. QED
  BY <1>1, <1>2, <1>3, <1>4, <1>5, FiguresAfterUserModule, FiguresAfterWrite DEF Next, MainLoop

(* NumberShown (display_output, write_sismo): whatever the modules write    *)
(* and whenever, each iteration ends with the displays showing the number   *)
(* written last, its sign, its point and the zeros up to it: every number   *)
(* that is Showable, after any others, and without the second daughter,     *)
(* whose packet resets digits.                                              *)
THEOREM NumberReachesDisplays ==
    ASSUME 2 \notin Daughters
    PROVE  Spec => []NumberShown
<1>1. Init => TypeOK /\ FigureInv
  BY TypesInitially, FiguresInitially
<1>2. TypeOK /\ FigureInv /\ [Next]_vars => (TypeOK /\ FigureInv)'
  BY TypesAfterStep, FiguresAfterStep
<1>3. TypeOK /\ FigureInv => NumberShown
  <2>. SUFFICES ASSUME TypeOK, FigureInv, phase = "reset",
                       wanted.number.val # INT_MISS, Showable(wanted.number)
                PROVE  Shows(wanted.number)
    BY DEF NumberShown
  <2>1. wanted.number \in [val : Int, dp : Int]
    BY NumberTypes
  <2>2. \A c \in Displays : digits[c] = Figure(wanted.number, c)
    BY DEF FigureInv
  <2>. QED
    BY <2>1, <2>2, FiguresShow
<1>. QED
  BY <1>1, <1>2, <1>3, PTL DEF Spec

-----------------------------------------------------------------------------
(* Events                                                                   *)

(* StateBefore of a buffer r and of what was read before it.                *)
Latest(r, first, i, n) ==
    LET before == {k \in 1 .. n - 1 : r[k].bank = InputBank[i]}
    IN  IF before = {} THEN first
        ELSE r[CHOOSE k \in before : \A j \in before : j <= k].state[i]

(* Of the packets before n none has the state of input i, or m is the last. *)
NoneBefore(r, i, n) == \A k \in 1 .. n - 1 : r[k].bank # InputBank[i]

LastBefore(r, i, n, m) ==
    /\ m \in 1 .. n - 1 /\ r[m].bank = InputBank[i]
    /\ \A j \in m + 1 .. n - 1 : r[j].bank # InputBank[i]

LEMMA LatestOfNone ==
    ASSUME NEW r, NEW first, NEW i \in Inputs, NEW n \in Nat, NoneBefore(r, i, n)
    PROVE  Latest(r, first, i, n) = first
<1>1. {k \in 1 .. n - 1 : r[k].bank = InputBank[i]} = {}
  BY DEF NoneBefore
<1>. QED
  BY <1>1 DEF Latest

LEMMA LatestOfLast ==
    ASSUME NEW r, NEW first, NEW i \in Inputs, NEW n \in Nat, NEW m, LastBefore(r, i, n, m)
    PROVE  Latest(r, first, i, n) = r[m].state[i]
<1>. DEFINE before == {k \in 1 .. n - 1 : r[k].bank = InputBank[i]}
            greatest == CHOOSE k \in before : \A j \in before : j <= k
<1>1. m \in before /\ \A j \in before : j <= m
  BY DEF LastBefore
<1>2. greatest \in before /\ \A j \in before : j <= greatest
  BY <1>1
<1>3. greatest <= m /\ m <= greatest /\ greatest \in Int /\ m \in Int
  <2>1. \A j \in before : j \in Int
    OBVIOUS
  <2>. HIDE DEF before, greatest
  <2>. QED
    BY <1>1, <1>2, <2>1
<1>4. greatest = m
  <2>. HIDE DEF before, greatest
  <2>. QED
    BY <1>3
<1>. QED
  BY <1>1, <1>4 DEF Latest

LEMMA NoneOrLast ==
    ASSUME NEW r, NEW i \in Inputs, NEW n \in Nat
    PROVE  NoneBefore(r, i, n) \/ \E m \in 1 .. n - 1 : LastBefore(r, i, n, m)
<1>. DEFINE before == {k \in 1 .. n - 1 : r[k].bank = InputBank[i]}
<1>1. CASE before = {}
  BY <1>1 DEF NoneBefore
<1>2. CASE before # {}
  <2>1. PICK m \in before : \A j \in before : j <= m
    <3>1. before \in SUBSET Int /\ n \in Int /\ \A k \in before : k <= n
      OBVIOUS
    <3>. HIDE DEF before
    <3>. QED
      BY <1>2, <3>1, GreatestInteger
  <2>. QED
    BY <2>1 DEF LastBefore
<1>. QED
  BY <1>1, <1>2

(* Packets after n do not matter.                                           *)
LEMMA LatestOfPrefix ==
    ASSUME NEW r, NEW q, NEW first, NEW i \in Inputs, NEW n \in Nat,
           \A k \in 1 .. n - 1 : q[k] = r[k]
    PROVE  Latest(q, first, i, n) = Latest(r, first, i, n)
<1>1. CASE NoneBefore(r, i, n)
  <2>1. NoneBefore(q, i, n)
    BY <1>1 DEF NoneBefore
  <2>. QED
    BY <1>1, <2>1, LatestOfNone
<1>2. ASSUME NEW m \in 1 .. n - 1, LastBefore(r, i, n, m)
      PROVE  Latest(q, first, i, n) = Latest(r, first, i, n)
  <2>1. LastBefore(q, i, n, m) /\ q[m] = r[m]
    BY <1>2 DEF LastBefore
  <2>2. Latest(r, first, i, n) = r[m].state[i] /\ Latest(q, first, i, n) = q[m].state[i]
    BY <1>2, <2>1, LatestOfLast
  <2>. QED
    BY <2>1, <2>2
<1>. QED
  BY <1>1, <1>2, NoneOrLast

(* The first packet is read: what it says becomes what was read before.     *)
LEMMA LatestOfTail ==
    ASSUME NEW r, NEW q, NEW first, NEW then, NEW i \in Inputs,
           NEW n \in Nat \ {0}, NEW next \in Nat, next = n + 1,
           \A k \in 1 .. n - 1 : q[k] = r[k + 1],
           then = IF r[1].bank = InputBank[i] THEN r[1].state[i] ELSE first
    PROVE  Latest(q, then, i, n) = Latest(r, first, i, next)
<1>1. CASE NoneBefore(r, i, next)
  <2>1. \A k \in 1 .. n : r[k].bank # InputBank[i]
    BY <1>1 DEF NoneBefore
  <2>2. NoneBefore(q, i, n)
    <3>. SUFFICES ASSUME NEW k \in 1 .. n - 1 PROVE q[k].bank # InputBank[i]
      BY DEF NoneBefore
    <3>1. k + 1 \in 1 .. n
      OBVIOUS
    <3>. QED
      BY <2>1, <3>1
  <2>3. then = first
    BY <2>1
  <2>4. Latest(r, first, i, next) = first /\ Latest(q, then, i, n) = then
    BY <1>1, <2>2, LatestOfNone
  <2>. QED
    BY <2>3, <2>4
<1>2. ASSUME NEW m \in 1 .. next - 1, LastBefore(r, i, next, m)
      PROVE  Latest(q, then, i, n) = Latest(r, first, i, next)
  <2>1. m \in 1 .. n /\ r[m].bank = InputBank[i] /\ \A j \in m + 1 .. n : r[j].bank # InputBank[i]
    BY <1>2 DEF LastBefore
  <2>2. Latest(r, first, i, next) = r[m].state[i]
    BY <1>2, LatestOfLast
  <2>3. ASSUME NEW j \in m .. n - 1 PROVE q[j].bank # InputBank[i]
    <3>1. j + 1 \in m + 1 .. n /\ j \in 1 .. n - 1
      BY <2>1
    <3>. QED
      BY <2>1, <3>1
  <2>4. CASE m = 1
    <3>1. NoneBefore(q, i, n)
      BY <2>3, <2>4 DEF NoneBefore
    <3>2. Latest(q, then, i, n) = then
      BY <3>1, LatestOfNone
    <3>. QED
      BY <2>1, <2>2, <2>4, <3>2
  <2>5. CASE m > 1
    <3>1. PICK p \in 1 .. n - 1 : p = m - 1 /\ q[p] = r[m] /\ p + 1 = m
      BY <2>1, <2>5
    <3>2. LastBefore(q, i, n, p)
      BY <2>1, <2>3, <3>1 DEF LastBefore
    <3>3. Latest(q, then, i, n) = q[p].state[i]
      BY <3>2, LatestOfLast
    <3>. QED
      BY <2>2, <3>1, <3>3
  <2>. QED
    BY <2>1, <2>4, <2>5
<1>. QED
  BY <1>1, <1>2, NoneOrLast

LEMMA BeforeIsLatest ==
    /\ \A i \in Inputs, n \in Nat : StateBefore(i, n) = Latest(ring, inputs[i][1], i, n)
    /\ \A i \in Inputs, n \in Nat : StateBefore(i, n)' = Latest(ring', inputs'[i][1], i, n)
BY DEF StateBefore, Latest

LEMMA EventSets ==
    ASSUME TypeOK, NEW i \in Inputs, NEW e
    PROVE  /\ Unseen(i) \in Int /\ inputs_nsave[InputBank[i]] \in 0 .. MAXSAVE
           /\ IsFiniteSet(InHistory(i, e)) /\ InHistory(i, e) \subseteq 1 .. Unseen(i)
           /\ IsFiniteSet(InRing(i, e)) /\ InRing(i, e) \subseteq 1 .. Len(ring)
           /\ Cardinality(InHistory(i, e)) \in Nat /\ Cardinality(InRing(i, e)) \in Nat
<1>1. inputs_nsave[InputBank[i]] \in 0 .. MAXSAVE
  BY BankFacts DEF TypeOK
<1>2. Unseen(i) \in Int
  BY <1>1 DEF Unseen
<1>3. Len(ring) \in Nat /\ DOMAIN ring = 1 .. Len(ring)
  BY RingFacts
<1>4. InHistory(i, e) \subseteq 1 .. Unseen(i) /\ InRing(i, e) \subseteq 1 .. Len(ring)
  BY <1>3 DEF InHistory, InRing
<1>5. IsFiniteSet(1 .. Unseen(i)) /\ IsFiniteSet(1 .. Len(ring))
  BY <1>2, <1>3, FS_Interval
<1>6. IsFiniteSet(InHistory(i, e)) /\ IsFiniteSet(InRing(i, e))
  BY <1>4, <1>5, FS_Subset
<1>. QED
  BY <1>1, <1>2, <1>4, <1>6, FS_CardinalityType

LEMMA NumberAfterReceive ==
    ASSUME TypeOK, NEW b \in Banks, Receive(b), NEW i \in Inputs, NEW e
    PROVE  Number(i, e)' = Number(i, e)
                + (IF i \in OfBank(b) /\ Event(i, LastTaken(i), level[i]) = e THEN 1 ELSE 0)
<1>1. PICK L \in Nat : L = Len(ring)
  BY RingFacts
<1>2. PICK p : p = [bank |-> b, state |-> [j \in OfBank(b) |-> level[j]]]
  OBVIOUS
<1>3. /\ DOMAIN ring = 1 .. L /\ DOMAIN ring' = 1 .. L + 1
      /\ \A k \in 1 .. L : ring'[k] = ring[k]
      /\ ring'[L + 1] = p
  BY <1>1, <1>2, RingFacts DEF Receive
<1>4. /\ p.bank = InputBank[i] <=> i \in OfBank(b)
      /\ i \in OfBank(b) => p.state[i] = level[i]
  BY <1>2 DEF OfBank
<1>5. inputs' = inputs /\ inputs_nsave' = inputs_nsave /\ phase' = phase
  BY DEF Receive, inVars
<1>6. ASSUME NEW n \in 1 .. L + 1 PROVE StateBefore(i, n)' = StateBefore(i, n)
  <2>1. n \in Nat /\ \A k \in 1 .. n - 1 : ring'[k] = ring[k]
    BY <1>3
  <2>2. Latest(ring', inputs[i][1], i, n) = Latest(ring, inputs[i][1], i, n)
    BY <2>1, LatestOfPrefix
  <2>. QED
    BY <1>5, <2>1, <2>2, BeforeIsLatest
<1>7. PICK more \in BOOLEAN : more <=> (i \in OfBank(b) /\ Event(i, LastTaken(i), level[i]) = e)
  OBVIOUS
<1>8. more <=> p.bank = InputBank[i] /\ Event(i, StateBefore(i, L + 1), p.state[i]) = e
  BY <1>1, <1>4, <1>7 DEF LastTaken
<1>9. PICK R, T : /\ R = InRing(i, e)
                  /\ T = {n \in 1 .. L + 1 :
                            /\ ring'[n].bank = InputBank[i]
                            /\ Event(i, StateBefore(i, n), ring'[n].state[i]) = e}
  OBVIOUS
<1>10. InRing(i, e)' = T
  BY <1>3, <1>6, <1>9 DEF InRing, Event
<1>11. T = IF more THEN R \cup {L + 1} ELSE R
  <2>1. R = {n \in 1 .. L : /\ ring[n].bank = InputBank[i]
                            /\ Event(i, StateBefore(i, n), ring[n].state[i]) = e}
    BY <1>3, <1>9 DEF InRing
  <2>2. \A n : n \in 1 .. L + 1 <=> n \in 1 .. L \/ n = L + 1
    OBVIOUS
  <2>. QED
    BY <1>3, <1>8, <1>9, <2>1, <2>2
<1>12. L + 1 \notin R
  BY <1>1, <1>9, EventSets
<1>13. Cardinality(T) = Cardinality(R) + (IF more THEN 1 ELSE 0)
  BY <1>9, <1>11, <1>12, EventSets, OneMore, ZenonT(60)
<1>14. InHistory(i, e)' = InHistory(i, e)
  BY <1>5 DEF InHistory, Unseen, Event
<1>15. PICK h \in Nat, m \in Nat : h = Cardinality(InHistory(i, e)) /\ m = Cardinality(R)
  BY <1>9, EventSets
<1>16. PICK one \in {0, 1} :
         one = IF i \in OfBank(b) /\ Event(i, LastTaken(i), level[i]) = e THEN 1 ELSE 0
  OBVIOUS
<1>17. Number(i, e) = h + m
  BY <1>9, <1>15 DEF Number
<1>18. Number(i, e)' = h + (m + one)
  <2>1. Cardinality(T) = m + one
    <3>1. (IF more THEN 1 ELSE 0) = one
      BY <1>7, <1>16
    <3>. QED
      BY <1>13, <1>15, <3>1
  <2>2. Number(i, e)' = Cardinality(InHistory(i, e)) + Cardinality(T)
    BY <1>10, <1>14 DEF Number
  <2>. QED
    BY <1>15, <2>1, <2>2
<1>. QED
  BY <1>16, <1>17, <1>18

(* The first packet of the ring has event e for input i.                    *)
HeadHas(i, e) ==
    ring[1].bank = InputBank[i] /\ Event(i, inputs[i][1], ring[1].state[i]) = e

LEMMA ReadFacts ==
    ASSUME TypeOK, ReadPacket, NEW i \in Inputs
    PROVE  \E L \in Nat \ {0}, b \in Banks :
              /\ L = Len(ring) /\ DOMAIN ring = 1 .. L /\ DOMAIN ring' = 1 .. L - 1
              /\ \A k \in 1 .. L - 1 : ring'[k] = ring[k + 1]
              /\ b = ring[1].bank /\ (i \in OfBank(b) <=> b = InputBank[i])
              /\ i \in OfBank(b) => ring[1].state[i] \in Level(i)
              /\ \/ /\ inputs' = inputs /\ inputs_nsave' = inputs_nsave /\ overrun' = overrun
                    /\ i \in OfBank(b) => ring[1].state[i] = inputs[i][1]
                 \/ /\ inputs'[i] = IF i \in OfBank(b) THEN Shifted(i, ring[1].state[i]) ELSE inputs[i]
                    /\ inputs_nsave' = [inputs_nsave EXCEPT ![b] = Counted(b)]
                    /\ overrun' = IF inputs_nsave'[b] >= MAXSAVE THEN overrun \cup {b} ELSE overrun
<1>1. ring # <<>> /\ ring \in Seq([bank : Banks, state : States]) /\ ring' = Tail(ring)
  BY RingFacts DEF ReadPacket
<1>2. PICK L \in Nat \ {0} : L = Len(ring)
  BY <1>1
<1>3. DOMAIN ring = 1 .. L /\ DOMAIN ring' = 1 .. L - 1 /\ Head(ring) = ring[1]
      /\ \A k \in 1 .. L - 1 : ring'[k] = ring[k + 1]
  BY <1>1, <1>2
<1>4. GoodPacket(ring[1])
  BY <1>2, RingFacts
<1>5. PICK b \in Banks : b = ring[1].bank
  BY <1>4 DEF GoodPacket
<1>6. /\ i \in OfBank(b) <=> b = InputBank[i]
      /\ i \in OfBank(b) => ring[1].state[i] \in Level(i)
  BY <1>4, <1>5 DEF OfBank, GoodPacket
<1>7. CASE \E j \in OfBank(b) : ring[1].state[j] # inputs[j][1]
  <2>1. /\ inputs' = [j \in Inputs |->
                IF j \in OfBank(b) THEN Shifted(j, ring[1].state[j]) ELSE inputs[j]]
        /\ inputs_nsave' = [inputs_nsave EXCEPT ![b] = Counted(b)]
        /\ overrun' = IF inputs_nsave'[b] >= MAXSAVE THEN overrun \cup {b} ELSE overrun
    BY <1>3, <1>5, <1>7 DEF ReadPacket
  <2>2. inputs'[i] = IF i \in OfBank(b) THEN Shifted(i, ring[1].state[i]) ELSE inputs[i]
    BY <2>1
  <2>. QED
    BY <1>2, <1>3, <1>5, <1>6, <2>1, <2>2
<1>8. CASE ~\E j \in OfBank(b) : ring[1].state[j] # inputs[j][1]
  <2>1. inputs' = inputs /\ inputs_nsave' = inputs_nsave /\ overrun' = overrun
    BY <1>3, <1>5, <1>8 DEF ReadPacket
  <2>. QED
    BY <1>2, <1>3, <1>5, <1>6, <1>8, <2>1
<1>. QED
  BY <1>7, <1>8

LEMMA RingAfterRead ==
    ASSUME TypeOK, ReadPacket, NEW i \in Inputs, NEW e
    PROVE  /\ Cardinality(InRing(i, e)') \in Nat
           /\ Cardinality(InRing(i, e))
                = Cardinality(InRing(i, e)') + (IF HeadHas(i, e) THEN 1 ELSE 0)
<1>1. PICK L \in Nat \ {0}, b \in Banks :
              /\ L = Len(ring) /\ DOMAIN ring = 1 .. L /\ DOMAIN ring' = 1 .. L - 1
              /\ \A k \in 1 .. L - 1 : ring'[k] = ring[k + 1]
              /\ b = ring[1].bank /\ (i \in OfBank(b) <=> b = InputBank[i])
              /\ i \in OfBank(b) => ring[1].state[i] \in Level(i)
              /\ \/ inputs' = inputs /\ (i \in OfBank(b) => ring[1].state[i] = inputs[i][1])
                 \/ inputs'[i] = IF i \in OfBank(b) THEN Shifted(i, ring[1].state[i]) ELSE inputs[i]
  BY ReadFacts
<1>2. inputs'[i][1] = IF ring[1].bank = InputBank[i] THEN ring[1].state[i] ELSE inputs[i][1]
  <2>1. i \in OfBank(b) => Shifted(i, ring[1].state[i])[1] = ring[1].state[i]
    BY <1>1, ShiftedFacts
  <2>. QED
    BY <1>1, <2>1
<1>3. ASSUME NEW n \in 1 .. L - 1 PROVE StateBefore(i, n)' = StateBefore(i, n + 1)
  <2>1. PICK next \in Nat : next = n + 1
    OBVIOUS
  <2>2. n \in Nat \ {0} /\ \A k \in 1 .. n - 1 : ring'[k] = ring[k + 1]
    BY <1>1
  <2>3. PICK then : then = inputs'[i][1]
    OBVIOUS
  <2>4. Latest(ring', then, i, n) = Latest(ring, inputs[i][1], i, next)
    BY <1>2, <2>1, <2>2, <2>3, LatestOfTail
  <2>. QED
    BY <2>1, <2>2, <2>3, <2>4, BeforeIsLatest
<1>4. PICK R, T : /\ R = InRing(i, e)
                  /\ T = {n \in 1 .. L - 1 :
                            /\ ring[n + 1].bank = InputBank[i]
                            /\ Event(i, StateBefore(i, n + 1), ring[n + 1].state[i]) = e}
  OBVIOUS
<1>5. InRing(i, e)' = T
  BY <1>1, <1>3, <1>4 DEF InRing, Event
<1>6. R = {n \in 1 .. L : /\ ring[n].bank = InputBank[i]
                          /\ Event(i, StateBefore(i, n), ring[n].state[i]) = e}
  BY <1>1, <1>4 DEF InRing
<1>7. T = {x + (-1) : x \in R \ {1}}
  <2>1. ASSUME NEW n \in T PROVE n + 1 \in R \ {1} /\ n = (n + 1) + (-1)
    <3>1. n \in 1 .. L - 1 /\ n + 1 \in 1 .. L
      BY <1>4
    <3>. QED
      BY <1>4, <1>6, <2>1, <3>1
  <2>2. ASSUME NEW x \in R \ {1} PROVE x + (-1) \in T
    <3>1. x \in 2 .. L
      BY <1>6
    <3>2. PICK n \in 1 .. L - 1 : n = x + (-1) /\ n + 1 = x
      BY <3>1
    <3>3. n \in T
      BY <1>4, <1>6, <2>2, <3>2
    <3>. QED
      BY <3>2, <3>3
  <2>. QED
    BY <2>1, <2>2
<1>8. 1 \in R <=> HeadHas(i, e)
  <2>1. StateBefore(i, 1) = inputs[i][1]
    <3>1. NoneBefore(ring, i, 1)
      BY DEF NoneBefore
    <3>. QED
      BY <3>1, LatestOfNone, BeforeIsLatest
  <2>. QED
    BY <1>6, <2>1 DEF HeadHas
<1>9. IsFiniteSet(R \ {1}) /\ Cardinality(R \ {1}) \in Nat
      /\ Cardinality(R) = Cardinality(R \ {1}) + (IF 1 \in R THEN 1 ELSE 0)
  BY <1>4, EventSets, OneLess
<1>10. Cardinality(T) = Cardinality(R \ {1})
  <2>1. \A x \in R \ {1} : x \in Int
    BY <1>6
  <2>2. PICK S : S = R \ {1}
    OBVIOUS
  <2>3. PICK d \in Int : d = -1
    OBVIOUS
  <2>4. Cardinality({x + d : x \in S}) = Cardinality(S)
    <3>1. IsFiniteSet(S) /\ \A x \in S : x \in Int
      BY <1>9, <2>1, <2>2
    <3>. QED
      BY <3>1, MovedSize
  <2>. QED
    BY <1>7, <2>2, <2>3, <2>4
<1>11. PICK t \in Nat : t = Cardinality(T) /\ t = Cardinality(R \ {1})
  BY <1>9, <1>10
<1>12. Cardinality(R) = t + (IF HeadHas(i, e) THEN 1 ELSE 0)
  BY <1>8, <1>9, <1>11
<1>. QED
  BY <1>4, <1>5, <1>11, <1>12

LEMMA SameIsNoEvent ==
    ASSUME NEW i \in Inputs, NEW s \in Level(i)
    PROVE  Event(i, s, s) = 0
<1>1. Kind[i] \in {"toggle", "button", "encoder"} /\ s \in 0 .. 3
  BY SismoAssumption, BankFacts DEF Inputs
<1>2. s # (s + 1) % 4
  BY <1>1
<1>. QED
  BY <1>1, <1>2 DEF Event

LEMMA HistoryAfterRead ==
    ASSUME TypeOK, ReadPacket, NEW i \in Inputs, InputBank[i] \notin overrun', NEW e \in {-1, 1},
           \A b \in Banks : inputs_nsave[b] >= MAXSAVE => b \in overrun
    PROVE  Cardinality(InHistory(i, e)')
                = Cardinality(InHistory(i, e)) + (IF HeadHas(i, e) THEN 1 ELSE 0)
<1>1. PICK L \in Nat \ {0}, b \in Banks :
              /\ b = ring[1].bank /\ (i \in OfBank(b) <=> b = InputBank[i])
              /\ i \in OfBank(b) => ring[1].state[i] \in Level(i)
              /\ \/ /\ inputs' = inputs /\ inputs_nsave' = inputs_nsave /\ overrun' = overrun
                    /\ i \in OfBank(b) => ring[1].state[i] = inputs[i][1]
                 \/ /\ inputs'[i] = IF i \in OfBank(b) THEN Shifted(i, ring[1].state[i]) ELSE inputs[i]
                    /\ inputs_nsave' = [inputs_nsave EXCEPT ![b] = Counted(b)]
                    /\ overrun' = IF inputs_nsave'[b] >= MAXSAVE THEN overrun \cup {b} ELSE overrun
  BY ReadFacts
<1>2. phase = "read" /\ phase' = "read"
  BY DEF ReadPacket
<1>3. PICK n \in 0 .. MAXSAVE : n = inputs_nsave[InputBank[i]] /\ n = Unseen(i)
  BY <1>2, EventSets DEF Unseen
<1>4. PICK H : H = InHistory(i, e) /\ H = {k \in 1 .. n : Event(i, inputs[i][k + 1], inputs[i][k]) = e}
  BY <1>3 DEF InHistory
<1>5. IsFiniteSet(H) /\ H \subseteq 1 .. n /\ Cardinality(H) \in Nat
  BY <1>3, <1>4, EventSets
<1>6. ASSUME inputs'[i] = inputs[i], inputs_nsave'[InputBank[i]] = n, ~HeadHas(i, e)
      PROVE  Cardinality(InHistory(i, e)')
                = Cardinality(InHistory(i, e)) + (IF HeadHas(i, e) THEN 1 ELSE 0)
  <2>1. Unseen(i)' = n
    BY <1>2, <1>6 DEF Unseen
  <2>2. InHistory(i, e)' = H
    BY <1>4, <1>6, <2>1 DEF InHistory, Event
  <2>. QED
    BY <1>4, <1>5, <1>6, <2>2
<1>7. CASE InputBank[i] # b
  <2>1. inputs'[i] = inputs[i] /\ inputs_nsave'[InputBank[i]] = n
    BY <1>1, <1>3, <1>7, BankFacts DEF TypeOK
  <2>2. ~HeadHas(i, e)
    BY <1>1, <1>7 DEF HeadHas
  <2>. QED
    BY <1>6, <2>1, <2>2
<1>8. CASE InputBank[i] = b /\ inputs' = inputs /\ inputs_nsave' = inputs_nsave
           /\ ring[1].state[i] = inputs[i][1]
  <2>1. ~HeadHas(i, e)
    BY <1>1, <1>8, SameIsNoEvent DEF HeadHas
  <2>. QED
    BY <1>3, <1>6, <1>8, <2>1
<1>9. CASE /\ InputBank[i] = b /\ inputs'[i] = Shifted(i, ring[1].state[i])
           /\ inputs_nsave' = [inputs_nsave EXCEPT ![b] = Counted(b)]
           /\ overrun' = IF inputs_nsave'[b] >= MAXSAVE THEN overrun \cup {b} ELSE overrun
  <2>0. MAXSAVE \in Nat /\ MAXSAVE >= 2
    BY SismoAssumption
  <2>1. inputs_nsave'[b] = n + 1 /\ n + 1 < MAXSAVE
    <3>1. inputs_nsave'[b] = Counted(b) /\ b \notin overrun'
      BY <1>9 DEF TypeOK
    <3>2. n < MAXSAVE
      <4>1. b \notin overrun
        BY <1>9, <3>1
      <4>2. ~(inputs_nsave[b] >= MAXSAVE)
        BY <4>1, Zenon
      <4>3. inputs_nsave[b] = n
        BY <1>3, <1>9
      <4>. QED
        BY <2>0, <4>2, <4>3
    <3>3. Counted(b) = n + 1
      BY <1>3, <1>9, <3>2 DEF Counted
    <3>4. ~(n + 1 >= MAXSAVE)
      BY <1>9, <3>1, <3>3
    <3>. QED
      BY <2>0, <3>1, <3>3, <3>4
  <2>2. PICK new \in Level(i) : new = ring[1].state[i]
    BY <1>1, <1>9
  <2>3. PICK q : q = inputs'[i] /\ q[1] = new /\ \A s \in 2 .. MAXSAVE : q[s] = inputs[i][s - 1]
    <3>1. Shifted(i, new)[1] = new /\ \A s \in 2 .. MAXSAVE : Shifted(i, new)[s] = inputs[i][s - 1]
      BY ShiftedFacts
    <3>2. PICK s : s = Shifted(i, new) /\ s = inputs'[i]
      BY <1>9, <2>2
    <3>. QED
      BY <3>1, <3>2
  <2>4. PICK T : T = {k \in 1 .. n + 1 : Event(i, q[k + 1], q[k]) = e}
    OBVIOUS
  <2>5. InHistory(i, e)' = T
    <3>1. Unseen(i)' = n + 1
      BY <1>2, <1>9, <2>1 DEF Unseen
    <3>. QED
      BY <2>3, <2>4, <3>1 DEF InHistory, Event
  <2>6. 1 \in T <=> HeadHas(i, e)
    <3>1. q[1 + 1] = inputs[i][1]
      <4>1. 1 + 1 \in 2 .. MAXSAVE /\ (1 + 1) - 1 = 1
        BY <2>0
      <4>. QED
        BY <2>3, <4>1
    <3>. QED
      BY <1>1, <1>9, <2>2, <2>3, <2>4, <3>1 DEF HeadHas
  <2>7. T \ {1} = {x + 1 : x \in H}
    <3>1. ASSUME NEW k \in 1 .. n
          PROVE  q[(k + 1) + 1] = inputs[i][k + 1] /\ q[k + 1] = inputs[i][k]
      <4>1. PICK s \in 2 .. MAXSAVE, u \in 2 .. MAXSAVE :
              s = k + 1 /\ u = s + 1 /\ s - 1 = k /\ u - 1 = k + 1
        BY <2>1, <2>0
      <4>2. q[s] = inputs[i][s - 1] /\ q[u] = inputs[i][u - 1]
        BY <2>3
      <4>. QED
        BY <4>1, <4>2
    <3>2. ASSUME NEW x \in H PROVE x + 1 \in T \ {1}
      <4>1. x \in 1 .. n /\ x + 1 \in 1 .. n + 1 /\ x + 1 # 1
        BY <1>5
      <4>2. Event(i, inputs[i][x + 1], inputs[i][x]) = e
        BY <1>4
      <4>. QED
        BY <2>4, <3>1, <4>1, <4>2
    <3>3. ASSUME NEW y \in T \ {1} PROVE \E x \in H : y = x + 1
      <4>1. PICK x \in 1 .. n : y = x + 1
        <5>1. y \in 2 .. n + 1
          BY <2>4
        <5>2. y - 1 \in 1 .. n /\ y = (y - 1) + 1
          BY <5>1
        <5>. QED
          BY <5>2
      <4>2. Event(i, q[(x + 1) + 1], q[x + 1]) = e
        BY <2>4, <4>1
      <4>3. x \in H
        BY <1>4, <3>1, <4>2
      <4>. QED
        BY <4>1, <4>3
    <3>. QED
      BY <3>2, <3>3
  <2>8. IsFiniteSet(T)
    <3>1. IsFiniteSet(1 .. n + 1) /\ T \subseteq 1 .. n + 1
      <4>1. 1 \in Int /\ n + 1 \in Int
        OBVIOUS
      <4>. QED
        BY <2>4, <4>1, FS_Interval
    <3>. QED
      BY <3>1, FS_Subset
  <2>9. Cardinality(T) = Cardinality(T \ {1}) + (IF 1 \in T THEN 1 ELSE 0)
    BY <2>8, OneLess
  <2>10. Cardinality(T \ {1}) = Cardinality(H)
    <3>1. PICK d \in Int : d = 1
      OBVIOUS
    <3>2. \A x \in H : x \in Int
      BY <1>5
    <3>3. Cardinality({x + d : x \in H}) = Cardinality(H)
      BY <1>5, <3>2, MovedSize
    <3>. QED
      BY <2>7, <3>1, <3>3
  <2>11. Cardinality(T) = Cardinality(H) + (IF HeadHas(i, e) THEN 1 ELSE 0)
    BY <2>6, <2>9, <2>10
  <2>. QED
    BY <1>4, <2>5, <2>11
<1>. QED
  BY <1>1, <1>7, <1>8, <1>9

LEMMA NumberAfterUserModule ==
    ASSUME TypeOK, UserModule, NEW i \in Inputs, NEW e \in {-1, 1},
           inputs_nsave[InputBank[i]] < MAXSAVE,
           ~connected => inputs_nsave[InputBank[i]] = 0
    PROVE  /\ Number(i, e)' \in Int
           /\ Number(i, e) = Number(i, e)' + (IF Returned(i) = e THEN 1 ELSE 0)
<1>1. /\ phase = "user" /\ phase' = "write"
      /\ inputs' = inputs /\ inputs_nsave' = inputs_nsave /\ ring' = ring
  BY UserModuleFacts
<1>2. PICK n \in Nat : n = inputs_nsave[InputBank[i]] /\ n < MAXSAVE /\ MAXSAVE \in Nat
  <2>1. MAXSAVE \in Nat
    BY SismoAssumption
  <2>2. inputs_nsave[InputBank[i]] \in 0 .. MAXSAVE
    BY EventSets
  <2>3. PICK saved \in 0 .. MAXSAVE : saved = inputs_nsave[InputBank[i]]
    BY <2>2
  <2>. QED
    BY <2>1, <2>3
<1>3. Unseen(i) = n /\ Unseen(i)' = n - 1
  BY <1>1, <1>2 DEF Unseen
<1>4. PICK H, R : /\ H = InHistory(i, e) /\ R = InRing(i, e)
  OBVIOUS
<1>5. H = {k \in 1 .. n : Event(i, inputs[i][k + 1], inputs[i][k]) = e}
  BY <1>3, <1>4 DEF InHistory
<1>6. InRing(i, e)' = R
  <2>1. \A k : StateBefore(i, k)' = StateBefore(i, k)
    BY <1>1 DEF StateBefore
  <2>2. InRing(i, e)' = {x \in DOMAIN ring :
                          /\ ring[x].bank = InputBank[i]
                          /\ Event(i, StateBefore(i, x), ring[x].state[i]) = e}
    BY <1>1, <2>1 DEF InRing, Event
  <2>. QED
    BY <1>4, <2>2 DEF InRing
<1>7. InHistory(i, e)' = H \ {n}
  <2>1. InHistory(i, e)' = {k \in 1 .. n - 1 : Event(i, inputs[i][k + 1], inputs[i][k]) = e}
    BY <1>1, <1>3 DEF InHistory, Event
  <2>2. \A k : k \in 1 .. n - 1 <=> k \in 1 .. n /\ k # n
    BY <1>2
  <2>. QED
    BY <1>5, <2>1, <2>2
<1>8. n \in H <=> Returned(i) = e
  <2>1. CASE n = 0
    BY <1>2, <1>5, <2>1 DEF Returned
  <2>2. CASE n # 0
    <3>1. connected /\ Slot(InputBank[i]) = n
      BY <1>2, <2>2 DEF Slot
    <3>2. Returned(i) = Event(i, inputs[i][n + 1], inputs[i][n])
      BY <1>2, <2>2, <3>1 DEF Returned
    <3>. QED
      BY <1>5, <2>2, <3>2
  <2>. QED
    BY <2>1, <2>2
<1>9. PICK h \in Nat, r \in Nat : /\ h = Cardinality(H \ {n}) /\ r = Cardinality(R)
                                  /\ Cardinality(H) = h + (IF n \in H THEN 1 ELSE 0)
  <2>1. IsFiniteSet(H) /\ Cardinality(R) \in Nat
    BY <1>4, EventSets
  <2>2. /\ Cardinality(H \ {n}) \in Nat
        /\ Cardinality(H) = Cardinality(H \ {n}) + (IF n \in H THEN 1 ELSE 0)
    BY <2>1, OneLess
  <2>. QED
    BY <2>1, <2>2
<1>10. PICK one \in {0, 1} : one = IF Returned(i) = e THEN 1 ELSE 0
  OBVIOUS
<1>11. Number(i, e) = (h + one) + r
  <2>1. Cardinality(H) = h + one
    BY <1>8, <1>9, <1>10
  <2>. QED
    BY <1>4, <1>9, <2>1 DEF Number
<1>12. Number(i, e)' = h + r
  BY <1>6, <1>7, <1>9 DEF Number
<1>. QED
  BY <1>10, <1>11, <1>12

(* Events wait in the history or in the buffer; a history that is full      *)
(* counts as overrun, and a card that has not sent anything has no history. *)
EventInv ==
    /\ \A b \in Banks : inputs_nsave[b] >= MAXSAVE => b \in overrun
    /\ ~connected => \A b \in Banks : inputs_nsave[b] = 0
    /\ EventsKept

LEMMA EventsInitially == Init => EventInv
<1>. SUFFICES ASSUME Init PROVE EventInv
  OBVIOUS
<1>1. \A b \in Banks : inputs_nsave[b] = 0 /\ ~(inputs_nsave[b] >= MAXSAVE)
  BY SismoAssumption DEF Init
<1>2. ASSUME NEW i \in Inputs PROVE owed[i] = Number(i, 1) - Number(i, -1)
  <2>1. ASSUME NEW e PROVE Number(i, e) = 0
    <3>1. InRing(i, e) = {}
      BY DEF Init, InRing
    <3>2. InHistory(i, e) = {}
      <4>1. Unseen(i) = 0
        BY <1>1, BankFacts DEF Init, Unseen
      <4>. QED
        BY <4>1 DEF InHistory
    <3>3. Cardinality({}) = 0
      BY FS_EmptySet
    <3>. QED
      BY <3>1, <3>2, <3>3 DEF Number
  <2>2. owed[i] = 0
    BY DEF Init
  <2>. QED
    BY <2>1, <2>2
<1>. QED
  BY <1>1, <1>2 DEF EventInv, EventsKept

LEMMA NumberInt ==
    ASSUME TypeOK, NEW i \in Inputs, NEW e
    PROVE  Number(i, e) \in Int
BY EventSets DEF Number

LEMMA EventsAfterReceive ==
    ASSUME TypeOK, EventInv, NEW b \in Banks, Receive(b)
    PROVE  EventInv'
<1>1. overrun' = overrun /\ inputs_nsave' = inputs_nsave /\ connected' = connected
  BY DEF Receive, inVars
<1>2. ASSUME NEW i \in Inputs, InputBank[i] \notin overrun'
      PROVE  owed'[i] = Number(i, 1)' - Number(i, -1)'
  <2>1. owed[i] = Number(i, 1) - Number(i, -1)
    BY <1>1, <1>2 DEF EventInv, EventsKept
  <2>2. PICK u \in Int, d \in Int : u = Number(i, 1) /\ d = Number(i, -1)
    BY NumberInt
  <2>3. owed'[i] = IF i \in OfBank(b) THEN owed[i] + Event(i, LastTaken(i), level[i]) ELSE owed[i]
    BY DEF Receive
  <2>4. PICK ev \in {-1, 0, 1} : ev = Event(i, LastTaken(i), level[i])
    <3>1. LastTaken(i) \in -1 .. 3
      <4>1. Len(ring) + 1 \in 1 .. Len(ring) + 1
        BY RingFacts
      <4>. QED
        BY <4>1, BeforeFacts DEF LastTaken
    <3>2. level[i] \in 0 .. 3
      BY DEF TypeOK
    <3>. QED
      BY <3>1, <3>2, EventTypes
  <2>5. /\ Number(i, 1)' = u + (IF i \in OfBank(b) /\ ev = 1 THEN 1 ELSE 0)
        /\ Number(i, -1)' = d + (IF i \in OfBank(b) /\ ev = -1 THEN 1 ELSE 0)
    BY <2>2, <2>4, NumberAfterReceive
  <2>. QED
    BY <2>1, <2>2, <2>3, <2>4, <2>5
<1>. QED
  BY <1>1, <1>2 DEF EventInv, EventsKept

LEMMA EventsAfterRead ==
    ASSUME TypeOK, EventInv, ReadPacket
    PROVE  EventInv'
<1>1. connected' = TRUE /\ owed' = owed
  BY DEF ReadPacket
<1>2. overrun \subseteq overrun' /\ \A b \in Banks : inputs_nsave'[b] >= MAXSAVE => b \in overrun'
  <2>1. CASE inputs_nsave' = inputs_nsave /\ overrun' = overrun
    BY <2>1 DEF EventInv
  <2>2. CASE \E b \in Banks :
               /\ inputs_nsave' = [inputs_nsave EXCEPT ![b] = Counted(b)]
               /\ overrun' = IF inputs_nsave'[b] >= MAXSAVE THEN overrun \cup {b} ELSE overrun
    BY <2>2 DEF EventInv, TypeOK
  <2>. QED
    <3>1. ring # <<>> /\ Head(ring) = ring[1] /\ GoodPacket(ring[1])
      <4>1. ring # <<>>
        BY DEF ReadPacket
      <4>2. Len(ring) \in Nat /\ 1 \in 1 .. Len(ring) /\ Head(ring) = ring[1]
        BY <4>1, RingFacts
      <4>. QED
        BY <4>1, <4>2, RingFacts
    <3>2. Head(ring).bank \in Banks
      BY <3>1 DEF GoodPacket
    <3>. QED
      BY <2>1, <2>2, <3>2 DEF ReadPacket
<1>3. ASSUME NEW i \in Inputs, InputBank[i] \notin overrun'
      PROVE  owed'[i] = Number(i, 1)' - Number(i, -1)'
  <2>1. owed[i] = Number(i, 1) - Number(i, -1)
    BY <1>2, <1>3 DEF EventInv, EventsKept
  <2>2. ASSUME NEW e \in {-1, 1} PROVE Number(i, e)' = Number(i, e)
    <3>1. PICK one \in {0, 1} : one = IF HeadHas(i, e) THEN 1 ELSE 0
      OBVIOUS
    <3>2. PICK h \in Nat, r \in Nat : h = Cardinality(InHistory(i, e)) /\ r = Cardinality(InRing(i, e)')
      BY EventSets, RingAfterRead
    <3>3. Cardinality(InRing(i, e)) = r + one
      BY <3>1, <3>2, RingAfterRead
    <3>4. Cardinality(InHistory(i, e)') = h + one
      BY <1>3, <3>1, <3>2, HistoryAfterRead DEF EventInv
    <3>5. Number(i, e) = h + (r + one)
      BY <3>2, <3>3 DEF Number
    <3>6. Number(i, e)' = (h + one) + r
      BY <3>2, <3>4 DEF Number
    <3>. QED
      BY <3>5, <3>6
  <2>. QED
    BY <1>1, <2>1, <2>2
<1>. QED
  BY <1>1, <1>2, <1>3 DEF EventInv, EventsKept

LEMMA EventsAfterUserModule ==
    ASSUME TypeOK, EventInv, UserModule
    PROVE  EventInv'
<1>1. overrun' = overrun /\ inputs_nsave' = inputs_nsave /\ connected' = connected
      /\ owed' = [i \in Inputs |-> owed[i] - Returned(i)]
  BY UserModuleFacts
<1>2. ASSUME NEW i \in Inputs, InputBank[i] \notin overrun'
      PROVE  owed'[i] = Number(i, 1)' - Number(i, -1)'
  <2>1. owed[i] = Number(i, 1) - Number(i, -1)
    BY <1>1, <1>2 DEF EventInv, EventsKept
  <2>2. PICK n \in Nat : n = inputs_nsave[InputBank[i]] /\ MAXSAVE \in Nat
    BY EventSets, SismoAssumption
  <2>3. n < MAXSAVE /\ (~connected => n = 0)
    <3>1. ~(inputs_nsave[InputBank[i]] >= MAXSAVE)
      BY <1>1, <1>2, BankFacts DEF EventInv
    <3>2. ~connected => inputs_nsave[InputBank[i]] = 0
      BY BankFacts DEF EventInv
    <3>. QED
      BY <2>2, <3>1, <3>2
  <2>4. PICK u \in Int, d \in Int : u = Number(i, 1)' /\ d = Number(i, -1)'
    <3>1. 1 \in {-1, 1} /\ -1 \in {-1, 1} /\ inputs_nsave[InputBank[i]] < MAXSAVE
          /\ (~connected => inputs_nsave[InputBank[i]] = 0)
      BY <2>2, <2>3
    <3>. QED
      BY <3>1, NumberAfterUserModule
  <2>5. PICK ret \in {-1, 0, 1} : ret = Returned(i)
    BY ReturnedTypes
  <2>6. /\ Number(i, 1) = u + (IF ret = 1 THEN 1 ELSE 0)
        /\ Number(i, -1) = d + (IF ret = -1 THEN 1 ELSE 0)
    BY <2>2, <2>3, <2>4, <2>5, NumberAfterUserModule
  <2>7. owed'[i] = owed[i] - ret
    BY <1>1, <2>5
  <2>. QED
    BY <2>1, <2>4, <2>5, <2>6, <2>7
<1>. QED
  BY <1>1, <1>2 DEF EventInv, EventsKept

(* The packets are sent, the count is taken back: no event is touched.      *)
LEMMA EventsAfterOther ==
    ASSUME TypeOK, EventInv, ring' = ring, inputs' = inputs, owed' = owed, overrun' = overrun,
           connected' = connected,
           \/ /\ inputs_nsave' = inputs_nsave
              /\ phase \in {"write", "reset"} <=> phase' \in {"write", "reset"}
           \/ ResetSismodata
    PROVE  EventInv'
<1>1. ASSUME NEW b \in Banks
      PROVE  /\ inputs_nsave[b] \in Nat /\ inputs_nsave'[b] \in Nat
             /\ inputs_nsave'[b] <= inputs_nsave[b]
  <2>1. inputs_nsave[b] \in 0 .. MAXSAVE /\ MAXSAVE \in Nat
    BY SismoAssumption DEF TypeOK
  <2>2. Left(b) \in Nat /\ Left(b) <= inputs_nsave[b]
    BY <2>1 DEF Left
  <2>3. ResetSismodata => inputs_nsave'[b] = IF connected THEN Left(b) ELSE inputs_nsave[b]
    BY DEF ResetSismodata
  <2>. QED
    BY <2>1, <2>2, <2>3
<1>2. ASSUME NEW i \in Inputs, NEW e PROVE Number(i, e)' = Number(i, e)
  <2>1. PICK b \in Banks, n \in Nat : b = InputBank[i] /\ n = inputs_nsave[b]
    BY <1>1, BankFacts
  <2>2. 1 .. Unseen(i)' = 1 .. Unseen(i)
    <3>1. CASE /\ inputs_nsave' = inputs_nsave
               /\ phase \in {"write", "reset"} <=> phase' \in {"write", "reset"}
      BY <3>1 DEF Unseen
    <3>2. CASE ResetSismodata
      <4>1. Unseen(i) = n - 1
        BY <2>1, <3>2 DEF Unseen, ResetSismodata
      <4>2. Unseen(i)' = inputs_nsave'[b]
        BY <2>1, <3>2 DEF Unseen, ResetSismodata
      <4>3. inputs_nsave'[b] = IF n > 0 THEN n - 1 ELSE n
        BY <2>1, <3>2 DEF ResetSismodata, Left, EventInv
      <4>4. CASE n > 0
        BY <4>1, <4>2, <4>3, <4>4
      <4>5. CASE n = 0
        BY <4>1, <4>2, <4>3, <4>5
      <4>. QED
        BY <4>4, <4>5
    <3>. QED
      BY <3>1, <3>2
  <2>3. InHistory(i, e)' = InHistory(i, e)
    BY <2>2 DEF InHistory, Event
  <2>4. InRing(i, e)' = InRing(i, e)
    BY DEF InRing, StateBefore, Event
  <2>. QED
    BY <2>3, <2>4 DEF Number
<1>3. EventsKept'
  BY <1>2 DEF EventInv, EventsKept
<1>4. ASSUME NEW b \in Banks, inputs_nsave'[b] >= MAXSAVE PROVE b \in overrun'
  <2>1. inputs_nsave[b] >= MAXSAVE
    BY <1>1, <1>4, SismoAssumption
  <2>. QED
    BY <2>1 DEF EventInv
<1>5. ASSUME ~connected', NEW b \in Banks PROVE inputs_nsave'[b] = 0
  <2>1. inputs_nsave[b] = 0
    BY <1>5 DEF EventInv
  <2>. QED
    BY <1>1, <2>1
<1>. QED
  BY <1>3, <1>4, <1>5 DEF EventInv

LEMMA EventsAfterStep == TypeOK /\ EventInv /\ [Next]_vars => EventInv'
<1>. SUFFICES ASSUME TypeOK, EventInv, [Next]_vars PROVE EventInv'
  OBVIOUS
<1>1. CASE ReadEnd
  BY <1>1, EventsAfterOther DEF ReadEnd, inVars
<1>2. CASE WriteSismo
  BY <1>2, EventsAfterOther DEF WriteSismo, inVars
<1>3. CASE ResetSismodata
  BY <1>3, EventsAfterOther DEF ResetSismodata
<1>4. ASSUME NEW i \in Inputs, Operate(i) PROVE EventInv'
  BY <1>4, EventsAfterOther DEF Operate, inVars
<1>5. CASE UNCHANGED vars
  BY <1>5, EventsAfterOther DEF vars, inVars
<1>. QED
  BY <1>1, <1>2, <1>3, <1>4, <1>5, EventsAfterRead, EventsAfterUserModule, EventsAfterReceive
  DEF Next, MainLoop

(* EventsKept (read_sismo, digital_input, encoder_inputf, reset_sismodata): *)
(* however packets of the banks bunch up between iterations, every press    *)
(* and every quarter turn in the packets taken is returned to the user's    *)
(* modules once, as long as the bank's history was never full.              *)
THEOREM NoEventLost == Spec => []EventsKept
<1>1. Init => TypeOK /\ EventInv
  BY TypesInitially, EventsInitially
<1>2. TypeOK /\ EventInv /\ [Next]_vars => (TypeOK /\ EventInv)'
  BY TypesAfterStep, EventsAfterStep
<1>3. TypeOK /\ EventInv => EventsKept
  BY DEF EventInv
<1>. QED
  BY <1>1, <1>2, <1>3, PTL DEF Spec
=============================================================================
