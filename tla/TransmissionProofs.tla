-------------------------- MODULE TransmissionProofs --------------------------
(***************************************************************************)
(* The framing of transmissions, for messages, buffers and kernel buffers  *)
(* of any size, any number of messages and any payload: what a side parses *)
(* is the other side's stream from its beginning, in order and without a   *)
(* gap but for fragile messages, and Transmission implements               *)
(* MessageStream.                                                          *)
(***************************************************************************)
EXTENDS Transmission, DataLemmas

-----------------------------------------------------------------------------
(* Operators                                                                *)

LEMMA Sides == Side = {"client", "plugin"} /\ \A s \in Side : Peer[s] \in Side /\ Peer[s] # s /\ Peer[Peer[s]] = s
BY DEF Side, Peer

LEMMA CellFacts ==
    /\ EOT \in Cell /\ DISCONNECT \in Cell /\ EOT # DISCONNECT
    /\ EOT[1] = 0 /\ DISCONNECT[1] = 0
    /\ \A c \in Cell : /\ c[1] \in 0 .. MaxMessages /\ c[2] \in Nat
                       /\ c[1] = 0 => c \in {EOT, DISCONNECT}
                       /\ c[1] # 0 => c[2] \in 1 .. Size
BY TransmissionAssumption DEF Cell, EOT, DISCONNECT

(* A transmission's cells                                                   *)
LEMMA CellsOfFacts ==
    ASSUME NEW m \in Nat \ {0}, NEW n \in Nat, m + n - 1 <= MaxMessages
    PROVE  /\ CellsOf(m, n) \in Seq(Cell) /\ Len(CellsOf(m, n)) = n * Size
           /\ \A i \in 1 .. n * Size :
                /\ CellsOf(m, n)[i] = <<m + ((i - 1) \div Size), 1 + ((i - 1) % Size)>>
                /\ (i - 1) \div Size \in 0 .. n - 1 /\ (i - 1) % Size \in 0 .. Size - 1
<1>1. n * Size \in Nat /\ Size \in Nat \ {0}
  BY TransmissionAssumption
<1>2. ASSUME NEW i \in 1 .. n * Size
      PROVE  (i - 1) \div Size \in 0 .. n - 1 /\ (i - 1) % Size \in 0 .. Size - 1
  <2>1. i - 1 \in Nat /\ i - 1 < n * Size
    BY <1>1
  <2>2. (i - 1) \div Size \in Nat /\ (i - 1) % Size \in 0 .. Size - 1
    BY <1>1, <2>1
  <2>3. i - 1 = Size * ((i - 1) \div Size) + ((i - 1) % Size)
    BY <1>1, <2>1, DivMod
  <2>4. ASSUME (i - 1) \div Size >= n PROVE FALSE
    <3>1. Size * ((i - 1) \div Size) >= Size * n
      BY <1>1, <2>2, <2>4
    <3>. QED
      BY <1>1, <2>1, <2>2, <2>3, <3>1
  <2>. QED
    BY <1>1, <2>2, <2>4
<1>3. ASSUME NEW i \in 1 .. n * Size
      PROVE  <<m + (i - 1) \div Size, 1 + ((i - 1) % Size)>> \in Cell
  <2>1. m + ((i - 1) \div Size) \in 1 .. MaxMessages /\ 1 + ((i - 1) % Size) \in 1 .. Size
    BY <1>1, <1>2, TransmissionAssumption
  <2>. QED
    BY <2>1 DEF Cell
<1>. QED
  BY <1>1, <1>2, <1>3 DEF CellsOf

-----------------------------------------------------------------------------
(* Streams of cells                                                         *)

(* Cell j of Q with the cells beside it: g is the number of the last message *)
(* up to j, and a message is whole but for the ends of Q.                   *)
CellInv(Q, g, j) ==
    /\ Q[j][1] = 0 => g[j] = g[j - 1]
    /\ Q[j][1] # 0 => Q[j][1] = g[j] /\ g[j] = g[j - 1] + (IF Q[j][2] = 1 THEN 1 ELSE 0)
    /\ j > 1 /\ Q[j][1] # 0 /\ Q[j][2] > 1 => Q[j - 1][1] # 0 /\ Q[j - 1][2] = Q[j][2] - 1
    /\ Q[j][1] # 0 /\ Q[j][2] < Size /\ j < Len(Q) =>
            Q[j + 1][1] # 0 /\ Q[j + 1][2] = Q[j][2] + 1

Orderly(Q, g) ==
    /\ g \in [0 .. Len(Q) -> Nat]
    /\ \A j \in 1 .. Len(Q) : CellInv(Q, g, j)

(* No message goes on after cell k.                                         *)
Boundary(Q, k) == k = 0 \/ Q[k][1] = 0 \/ Q[k][2] = Size

(* A piece of a stream is a stream.                                         *)
LEMMA PieceOrderly ==
    ASSUME NEW Q \in Seq(Cell), NEW g, Orderly(Q, g), NEW k \in 0 .. Len(Q),
           NEW R \in Seq(Cell), Len(R) <= Len(Q) - k,
           \A j \in 1 .. Len(R) : R[j] = Q[k + j]
    PROVE  Orderly(R, [j \in 0 .. Len(R) |-> g[k + j]])
<1>. DEFINE h == [j \in 0 .. Len(R) |-> g[k + j]]
<1>1. Len(Q) \in Nat /\ Len(R) \in Nat /\ k \in Nat /\ Size \in Nat
  BY TransmissionAssumption
<1>2. h \in [0 .. Len(R) -> Nat]
  <2>1. \A j \in 0 .. Len(R) : k + j \in 0 .. Len(Q)
    BY <1>1
  <2>. QED
    BY <2>1 DEF Orderly
<1>3. ASSUME NEW j \in 1 .. Len(R) PROVE CellInv(R, h, j)
  <2>1. k + j \in 1 .. Len(Q) /\ R[j] = Q[k + j] /\ h[j] = g[k + j]
        /\ j - 1 \in 0 .. Len(R) /\ h[j - 1] = g[k + j - 1] /\ j \in Nat
    BY <1>1
  <2>2. CellInv(Q, g, k + j)
    BY <2>1 DEF Orderly
  <2>3. Q[k + j] \in Cell /\ Q[k + j][1] \in Nat /\ Q[k + j][2] \in Nat
    BY <2>1, CellFacts
  <2>4. ASSUME j < Len(R) PROVE R[j + 1] = Q[(k + j) + 1] /\ k + j < Len(Q)
    <3>1. j + 1 \in 1 .. Len(R) /\ k + (j + 1) = (k + j) + 1
      BY <1>1, <2>1, <2>4
    <3>. QED
      BY <1>1, <2>4, <3>1
  <2>5. ASSUME j > 1 PROVE R[j - 1] = Q[(k + j) - 1]
    <3>1. j - 1 \in 1 .. Len(R) /\ k + (j - 1) = (k + j) - 1
      BY <1>1, <2>1, <2>5
    <3>. QED
      BY <3>1
  <2>. HIDE DEF h
  <2>7. j > 1 /\ R[j][1] # 0 /\ R[j][2] > 1 => R[j - 1][1] # 0 /\ R[j - 1][2] = R[j][2] - 1
    <3>. SUFFICES ASSUME j > 1, R[j][1] # 0, R[j][2] > 1
                  PROVE  R[j - 1][1] # 0 /\ R[j - 1][2] = R[j][2] - 1
      OBVIOUS
    <3>1. k + j > 1
      BY <1>1, <2>1
    <3>2. Q[(k + j) - 1][1] # 0 /\ Q[(k + j) - 1][2] = Q[k + j][2] - 1
      BY <2>1, <2>2, <3>1 DEF CellInv
    <3>. QED
      BY <2>1, <2>5, <3>2
  <2>8. R[j][1] # 0 /\ R[j][2] < Size /\ j < Len(R) =>
            R[j + 1][1] # 0 /\ R[j + 1][2] = R[j][2] + 1
    BY <2>1, <2>2, <2>4 DEF CellInv
  <2>9. R[j][1] = 0 => h[j] = h[j - 1]
    BY <2>1, <2>2 DEF CellInv
  <2>10. R[j][1] # 0 => R[j][1] = h[j] /\ h[j] = h[j - 1] + (IF R[j][2] = 1 THEN 1 ELSE 0)
    BY <2>1, <2>2 DEF CellInv
  <2>. QED
    BY <2>7, <2>8, <2>9, <2>10 DEF CellInv
<1>. QED
  BY <1>2, <1>3 DEF Orderly

(* The cells of a message follow each other, and the messages do.           *)
LEMMA CellsOfOrder ==
    ASSUME NEW n \in Nat \ {0}, NEW i \in 1 .. n * Size
    PROVE  /\ i = 1 => (i - 1) \div Size = 0 /\ (i - 1) % Size = 0
           /\ i > 1 => IF (i - 2) % Size = Size - 1
                       THEN (i - 1) % Size = 0 /\ (i - 1) \div Size = ((i - 2) \div Size) + 1
                       ELSE (i - 1) % Size = ((i - 2) % Size) + 1
                            /\ (i - 1) \div Size = (i - 2) \div Size
           /\ i = n * Size => (i - 1) \div Size = n - 1 /\ (i - 1) % Size = Size - 1
<1>1. n * Size \in Nat /\ Size \in Nat \ {0} /\ i \in Nat
  BY TransmissionAssumption
<1>2. ASSUME i > 1
      PROVE  IF (i - 2) % Size = Size - 1
             THEN (i - 1) % Size = 0 /\ (i - 1) \div Size = ((i - 2) \div Size) + 1
             ELSE (i - 1) % Size = ((i - 2) % Size) + 1
                  /\ (i - 1) \div Size = (i - 2) \div Size
  <2>1. i - 2 \in Nat /\ (i - 2) + 1 = i - 1
    BY <1>1, <1>2
  <2>. DEFINE a == i - 2
  <2>2. a \in Nat /\ a + 1 = i - 1 /\ Size \in Nat \ {0}
    BY <1>1, <2>1
  <2>. HIDE DEF a
  <2>3. IF a % Size = Size - 1 THEN (a + 1) % Size = 0 /\ (a + 1) \div Size = (a \div Size) + 1
        ELSE (a + 1) % Size = (a % Size) + 1 /\ (a + 1) \div Size = a \div Size
    BY <2>2, DivNext
  <2>. QED
    BY <2>2, <2>3 DEF a
<1>3. ASSUME i = n * Size
      PROVE  (i - 1) \div Size = n - 1 /\ (i - 1) % Size = Size - 1
  <2>1. i - 1 = Size * (n - 1) + (Size - 1)
    BY <1>1, <1>3
  <2>2. Size - 1 \in 0 .. Size - 1 /\ n - 1 \in Int
    BY <1>1
  <2>3. (Size * (n - 1) + (Size - 1)) \div Size = n - 1
        /\ (Size * (n - 1) + (Size - 1)) % Size = Size - 1
    BY <1>1, <2>2, DivUnique, Zenon
  <2>. QED
    BY <2>1, <2>3, Zenon
<1>4. ASSUME i = 1 PROVE (i - 1) \div Size = 0 /\ (i - 1) % Size = 0
  <2>1. i - 1 = Size * 0 + 0
    BY <1>1, <1>4
  <2>2. 0 \in 0 .. Size - 1 /\ 0 \in Int
    BY <1>1
  <2>. QED
    BY <1>1, <2>1, <2>2, DivUnique
<1>. QED
  BY <1>2, <1>3, <1>4

LEMMA Pair == ASSUME NEW a, NEW b, NEW c, c = <<a, b>> PROVE c[1] = a /\ c[2] = b
OBVIOUS

LEMMA LengthNat == ASSUME NEW q \in Seq(Cell) PROVE Len(q) \in Nat
OBVIOUS

LEMMA Joined ==
    ASSUME NEW A \in Seq(Cell), NEW B \in Seq(Cell), NEW C, C = A \o B
    PROVE  /\ C \in Seq(Cell) /\ Len(C) = Len(A) + Len(B)
           /\ \A j \in 1 .. Len(A) : C[j] = A[j]
           /\ \A j \in 1 .. Len(B) : C[Len(A) + j] = B[j]
OBVIOUS

(* R is Q and a transmission of the n messages after m.                     *)
Extends(R, Q, m, n) ==
    /\ R \in Seq(Cell) /\ Len(R) = Len(Q) + n * Size + 1 /\ R[Len(R)] = EOT
    /\ \A j \in 1 .. Len(Q) : R[j] = Q[j]
    /\ \A i \in 1 .. n * Size : R[Len(Q) + i] = CellsOf(m + 1, n)[i]

(* A transmission behind a stream whose last message has the number m.      *)
LEMMA TransmissionOrderly ==
    ASSUME NEW Q \in Seq(Cell), NEW g, Orderly(Q, g), Boundary(Q, Len(Q)),
           NEW m \in Nat, g[Len(Q)] = m, NEW n \in Nat \ {0}, m + n <= MaxMessages,
           NEW R, Extends(R, Q, m, n)
    PROVE  /\ \A j \in 1 .. Len(R) : R[j] = DISCONNECT => j \in 1 .. Len(Q) /\ Q[j] = DISCONNECT
           /\ \E h : Orderly(R, h) /\ h[0] = g[0] /\ h[Len(R)] = m + n
<1>. DEFINE C == CellsOf(m + 1, n)
<1>l. PICK l \in Nat : l = Len(Q)
  OBVIOUS
<1>e. PICK e \in Nat \ {0} : e = n * Size
  <2>1. n * Size \in Nat \ {0}
    BY TransmissionAssumption
  <2>. QED
    BY <2>1
<1>1. /\ C \in Seq(Cell) /\ Len(C) = e
      /\ \A i \in 1 .. e :
           /\ C[i] = <<m + 1 + ((i - 1) \div Size), 1 + ((i - 1) % Size)>>
           /\ (i - 1) \div Size \in 0 .. n - 1 /\ (i - 1) % Size \in 0 .. Size - 1
  <2>. DEFINE k == m + 1
  <2>1. k \in Nat \ {0} /\ k + n - 1 <= MaxMessages
    BY TransmissionAssumption
  <2>. HIDE DEF k
  <2>2. /\ CellsOf(k, n) \in Seq(Cell) /\ Len(CellsOf(k, n)) = n * Size
        /\ \A i \in 1 .. n * Size :
             /\ CellsOf(k, n)[i] = <<k + ((i - 1) \div Size), 1 + ((i - 1) % Size)>>
             /\ (i - 1) \div Size \in 0 .. n - 1 /\ (i - 1) % Size \in 0 .. Size - 1
    BY <2>1, CellsOfFacts
  <2>. QED
    BY <1>e, <2>2 DEF k
<1>2. l \in Nat /\ e \in Nat \ {0} /\ Size \in Nat /\ Size >= 2 /\ EOT \in Cell
  BY <1>l, <1>e, TransmissionAssumption, CellFacts
<1>3. /\ R \in Seq(Cell) /\ Len(R) = l + e + 1
      /\ \A j \in 1 .. l : R[j] = Q[j]
      /\ \A i \in 1 .. e : R[l + i] = C[i]
      /\ R[l + e + 1] = EOT
  <2>. HIDE DEF C
  <2>. QED
    BY <1>l, <1>e DEF C, Extends
<1>. DEFINE d(i) == (i - 1) \div Size
            h == [j \in 0 .. l + e + 1 |->
                    IF j <= l THEN g[j] ELSE IF j = l + e + 1 THEN m + n ELSE m + 1 + d(j - l)]
<1>4. \A j \in 1 .. Len(R) : j \in 1 .. l \/ j = l + e + 1 \/ \E i \in 1 .. e : j = l + i
  <2>1. \A j \in 1 .. Len(R) : j \in 1 .. l \/ j = l + e + 1 \/ (j - l \in 1 .. e /\ j = l + (j - l))
    BY <1>2, <1>3
  <2>. QED
    BY <2>1
<1>5. g \in [0 .. l -> Nat]
  BY <1>l DEF Orderly
<1>6. h \in [0 .. Len(R) -> Nat] /\ h[0] = g[0] /\ h[Len(R)] = m + n
  <2>1. \A i \in 1 .. e : d(i) \in Nat
    <3>1. \A i \in 1 .. e : d(i) \in 0 .. n - 1
      BY <1>1, Zenon
    <3>. HIDE DEF d
    <3>. QED
      BY <3>1
  <2>2. ASSUME NEW j \in 0 .. l + e + 1 PROVE h[j] \in Nat
    <3>1. CASE j <= l
      <4>1. j \in 0 .. l
        BY <1>2, <3>1
      <4>. QED
        BY <1>5, <3>1, <4>1
    <3>2. CASE j > l /\ j # l + e + 1
      <4>1. j - l \in 1 .. e
        BY <1>2, <3>2
      <4>2. d(j - l) \in Nat
        BY <2>1, <4>1
      <4>. HIDE DEF d
      <4>3. h[j] = m + 1 + d(j - l)
        BY <1>2, <3>2
      <4>. QED
        BY <4>2, <4>3
    <3>3. CASE j = l + e + 1
      <4>. HIDE DEF d
      <4>. QED
        BY <1>2, <3>3
    <3>. QED
      BY <1>2, <3>1, <3>2, <3>3
  <2>. HIDE DEF d
  <2>. QED
    BY <1>2, <1>3, <2>2
<1>7. /\ \A j \in 0 .. l : h[j] = g[j]
      /\ \A i \in 1 .. e : h[l + i] = m + 1 + d(i)
      /\ h[l + e + 1] = m + n
  <2>. HIDE DEF d
  <2>1. \A i \in 1 .. e : l + i \in 0 .. l + e + 1 /\ ~(l + i <= l) /\ l + i # l + e + 1 /\ (l + i) - l = i
    BY <1>2
  <2>2. \A j \in 0 .. l : j \in 0 .. l + e + 1 /\ j <= l
    BY <1>2
  <2>. QED
    BY <1>2, <2>1, <2>2
<1>8. ASSUME NEW j \in 1 .. l PROVE CellInv(R, h, j)
  <2>1. CellInv(Q, g, j) /\ j - 1 \in 0 .. l /\ h[j] = g[j] /\ h[j - 1] = g[j - 1] /\ R[j] = Q[j]
    BY <1>l, <1>2, <1>3, <1>7 DEF Orderly
  <2>2. ASSUME j > 1 PROVE R[j - 1] = Q[j - 1]
    <3>1. j - 1 \in 1 .. l
      BY <1>2, <2>2
    <3>. QED
      BY <1>3, <3>1
  <2>3. ASSUME Q[j][1] # 0, Q[j][2] < Size PROVE j < l /\ R[j + 1] = Q[j + 1]
    <3>1. j < l
      BY <1>l, <1>2, <2>3 DEF Boundary
    <3>2. j + 1 \in 1 .. l
      BY <1>2, <3>1
    <3>. QED
      BY <1>3, <3>1, <3>2
  <2>. HIDE DEF h
  <2>4. j > 1 /\ R[j][1] # 0 /\ R[j][2] > 1 => R[j - 1][1] # 0 /\ R[j - 1][2] = R[j][2] - 1
    BY <2>1, <2>2 DEF CellInv
  <2>5. R[j][1] # 0 /\ R[j][2] < Size /\ j < Len(R) =>
            R[j + 1][1] # 0 /\ R[j + 1][2] = R[j][2] + 1
    <3>. SUFFICES ASSUME R[j][1] # 0, R[j][2] < Size
                  PROVE  R[j + 1][1] # 0 /\ R[j + 1][2] = R[j][2] + 1
      OBVIOUS
    <3>1. j < l /\ R[j + 1] = Q[j + 1]
      BY <2>1, <2>3
    <3>. QED
      BY <1>l, <2>1, <3>1 DEF CellInv
  <2>6. R[j][1] = 0 => h[j] = h[j - 1]
    BY <2>1 DEF CellInv
  <2>7. R[j][1] # 0 => R[j][1] = h[j] /\ h[j] = h[j - 1] + (IF R[j][2] = 1 THEN 1 ELSE 0)
    BY <2>1 DEF CellInv
  <2>. QED
    BY <2>4, <2>5, <2>6, <2>7 DEF CellInv
<1>9. ASSUME NEW i \in 1 .. e PROVE CellInv(R, h, l + i)
  <2>. DEFINE r == (i - 1) % Size
              D == (i - 1) \div Size
  <2>1. R[l + i] = <<m + 1 + D, 1 + r>> /\ h[l + i] = m + 1 + D
        /\ D \in 0 .. n - 1 /\ r \in 0 .. Size - 1 /\ i \in Nat
    <3>. HIDE DEF h, C
    <3>1. C[i] = <<m + 1 + D, 1 + r>> /\ D \in 0 .. n - 1 /\ r \in 0 .. Size - 1
      BY <1>1, Zenon
    <3>2. R[l + i] = C[i] /\ h[l + i] = m + 1 + D
      BY <1>3, <1>7, Zenon
    <3>3. i \in Nat
      OBVIOUS
    <3>. QED
      BY <3>1, <3>2, <3>3, Zenon
  <2>2. i = 1 => D = 0 /\ r = 0
    BY <1>e, CellsOfOrder
  <2>3. i = e => r = Size - 1
    BY <1>e, CellsOfOrder
  <2>4. ASSUME i > 1
        PROVE  /\ R[(l + i) - 1][1] # 0 /\ (r # 0 => R[(l + i) - 1][2] = r)
               /\ h[(l + i) - 1] = IF r = 0 THEN m + D ELSE m + 1 + D
    <3>. DEFINE a == i - 1
    <3>1. a \in 1 .. e /\ l + a = (l + i) - 1 /\ i - 2 = a - 1
      BY <1>2, <2>1, <2>4
    <3>2. IF (a - 1) % Size = Size - 1
          THEN r = 0 /\ D = ((a - 1) \div Size) + 1
          ELSE r = ((a - 1) % Size) + 1 /\ D = (a - 1) \div Size
      BY <2>4, <3>1, <1>e, CellsOfOrder
    <3>. HIDE DEF a, r, D
    <3>3. R[l + a] = <<m + 1 + ((a - 1) \div Size), 1 + ((a - 1) % Size)>>
          /\ h[l + a] = m + 1 + ((a - 1) \div Size)
          /\ (a - 1) \div Size \in 0 .. n - 1 /\ (a - 1) % Size \in 0 .. Size - 1
      <4>. HIDE DEF h, C
      <4>1. C[a] = <<m + 1 + ((a - 1) \div Size), 1 + ((a - 1) % Size)>>
            /\ (a - 1) \div Size \in 0 .. n - 1 /\ (a - 1) % Size \in 0 .. Size - 1
        BY <1>1, <3>1, Zenon
      <4>2. R[l + a] = C[a] /\ h[l + a] = m + 1 + ((a - 1) \div Size)
        BY <1>3, <1>7, <3>1, Zenon
      <4>. QED
        BY <4>1, <4>2, Zenon
    <3>. DEFINE p == (a - 1) \div Size
                q == (a - 1) % Size
    <3>. HIDE DEF p, q, h
    <3>4. R[l + a] = <<m + 1 + p, 1 + q>> /\ h[l + a] = m + 1 + p
          /\ p \in 0 .. n - 1 /\ q \in 0 .. Size - 1
      BY <3>3 DEF p, q
    <3>5. R[l + a][1] = m + 1 + p /\ R[l + a][2] = 1 + q
      BY <3>4, Pair
    <3>6. m + 1 + p # 0 /\ p \in Nat /\ q \in Nat /\ q < Size
      BY <1>2, <3>4
    <3>7. CASE q = Size - 1
      <4>1. r = 0 /\ D = p + 1
        BY <3>2, <3>7 DEF p, q
      <4>. QED
        BY <3>1, <3>4, <3>5, <3>6, <4>1
    <3>8. CASE q # Size - 1
      <4>1. r = q + 1 /\ D = p
        BY <3>2, <3>8 DEF p, q
      <4>. QED
        BY <3>1, <3>4, <3>5, <3>6, <4>1
    <3>. QED
      BY <3>7, <3>8
  <2>5. ASSUME i = 1 PROVE (l + i) - 1 = l /\ h[(l + i) - 1] = m
    <3>. HIDE DEF h
    <3>1. (l + i) - 1 = l /\ l \in 0 .. l
      BY <1>2, <2>5
    <3>2. h[l] = g[l]
      BY <1>7, <3>1
    <3>. QED
      BY <1>l, <3>1, <3>2, Zenon
  <2>6. ASSUME r < Size - 1
        PROVE  R[(l + i) + 1][1] # 0 /\ R[(l + i) + 1][2] = r + 2
    <3>. DEFINE a == i + 1
    <3>1. i # e
      BY <1>2, <2>1, <2>3, <2>6
    <3>2. a \in 1 .. e /\ a > 1 /\ l + a = (l + i) + 1 /\ a - 2 = i - 1 /\ a - 1 = i
      BY <1>2, <2>1, <3>1
    <3>3. IF r = Size - 1 THEN (a - 1) % Size = 0 /\ (a - 1) \div Size = D + 1
          ELSE (a - 1) % Size = r + 1 /\ (a - 1) \div Size = D
      BY <3>2, <1>e, CellsOfOrder
    <3>. HIDE DEF a, r, D
    <3>4. R[l + a] = <<m + 1 + ((a - 1) \div Size), 1 + ((a - 1) % Size)>>
      BY <1>1, <1>3, <3>2
    <3>5. r # Size - 1
      BY <1>2, <2>1, <2>6
    <3>6. R[l + a][1] = m + 1 + D /\ R[l + a][2] = 1 + (r + 1)
      BY <3>3, <3>4, <3>5, Pair
    <3>7. D \in Nat /\ r \in Nat
      BY <2>1
    <3>8. m + 1 + D # 0 /\ 1 + (r + 1) = r + 2
      BY <3>7
    <3>. QED
      BY <3>2, <3>6, <3>8
  <2>. HIDE DEF r, D, h
  <2>8. h[l + i] = h[(l + i) - 1] + (IF 1 + r = 1 THEN 1 ELSE 0)
    <3>1. CASE i = 1
      BY <1>2, <2>1, <2>2, <2>5, <3>1
    <3>2. CASE i > 1
      BY <1>2, <2>1, <2>4, <3>2
    <3>. QED
      BY <1>2, <2>1, <3>1, <3>2
  <2>9. ASSUME 1 + r > 1
        PROVE  l + i > 1 /\ R[(l + i) - 1][1] # 0 /\ R[(l + i) - 1][2] = r
    <3>1. i > 1 /\ r # 0
      BY <1>2, <2>1, <2>2, <2>9
    <3>. QED
      BY <1>2, <2>4, <3>1
  <2>7. R[l + i][1] = m + 1 + D /\ R[l + i][2] = 1 + r
    BY <2>1, Pair
  <2>10. m + 1 + D # 0 /\ r \in Nat
    BY <1>2, <2>1
  <2>11. (1 + r) - 1 = r /\ (1 + r) + 1 = r + 2 /\ (1 + r < Size => r < Size - 1)
    BY <1>2, <2>10
  <2>. QED
    BY <2>1, <2>6, <2>7, <2>8, <2>9, <2>10, <2>11 DEF CellInv
<1>10. CellInv(R, h, l + e + 1)
  <2>1. e \in 1 .. e /\ l + e = (l + e + 1) - 1
    BY <1>2
  <2>2. d(e) = n - 1
    BY <2>1, <1>e, CellsOfOrder
  <2>3. h[l + e] = m + n
    <3>. HIDE DEF h, d
    <3>. QED
      BY <1>2, <1>7, <2>1, <2>2
  <2>4. R[l + e + 1][1] = 0
    BY <1>3, CellFacts
  <2>. HIDE DEF h
  <2>. QED
    BY <1>7, <2>1, <2>3, <2>4 DEF CellInv
<1>11. Orderly(R, h)
  <2>. HIDE DEF h
  <2>. QED
    BY <1>4, <1>6, <1>8, <1>9, <1>10 DEF Orderly
<1>12. ASSUME NEW j \in 1 .. Len(R), R[j] = DISCONNECT
       PROVE  j \in 1 .. l /\ Q[j] = DISCONNECT
  <2>1. j # l + e + 1
    BY <1>3, <1>12, CellFacts
  <2>2. ASSUME NEW i \in 1 .. e, j = l + i PROVE FALSE
    <3>. DEFINE D == (i - 1) \div Size
    <3>1. R[j] = <<m + 1 + D, 1 + ((i - 1) % Size)>> /\ D \in 0 .. n - 1
      BY <1>1, <1>3, <2>2
    <3>. HIDE DEF D
    <3>2. R[j][1] = m + 1 + D
      BY <3>1, Pair
    <3>3. R[j][1] # 0
      BY <3>1, <3>2
    <3>. QED
      BY <1>12, <3>3, CellFacts
  <2>. QED
    BY <1>3, <1>4, <1>12, <2>1, <2>2
<1>. HIDE DEF h
<1>. QED
  BY <1>l, <1>6, <1>11, <1>12

LEMMA LabelStep ==
    ASSUME NEW Q \in Seq(Cell), NEW g, Orderly(Q, g), NEW j \in 1 .. Len(Q)
    PROVE  /\ g[j] \in Nat /\ g[j - 1] \in Nat /\ j - 1 \in 0 .. Len(Q)
           /\ g[j] = g[j - 1] + (IF IsHead(Q[j]) THEN 1 ELSE 0)
           /\ IsHead(Q[j]) => Q[j][1] = g[j]
<1>1. j \in 0 .. Len(Q) /\ j - 1 \in 0 .. Len(Q)
  OBVIOUS
<1>2. g[j] \in Nat /\ g[j - 1] \in Nat
  BY <1>1 DEF Orderly
<1>3. CellInv(Q, g, j)
  BY DEF Orderly
<1>4. CASE Q[j][1] = 0
  BY <1>1, <1>2, <1>3, <1>4 DEF CellInv, IsHead
<1>5. CASE Q[j][1] # 0
  BY <1>1, <1>2, <1>3, <1>5 DEF CellInv, IsHead
<1>. QED
  BY <1>4, <1>5

(* The parser takes the messages that begin in a stream, all of them and in *)
(* their order, but for one that is cut off at the end of it.               *)
Cut(Q, g) ==
    /\ Len(Q) \in 1 .. Len(Q)
    /\ Q[Len(Q)][1] = g[Len(Q)] /\ Q[Len(Q)][1] # 0 /\ Q[Len(Q)][2] < Size

LEMMA MessagesTaken ==
    ASSUME NEW Q \in Seq(Cell), NEW g, Orderly(Q, g)
    PROVE  \E n \in Nat :
             /\ Understood(Q) = [i \in 1 .. n |-> g[0] + i]
             /\ \/ g[Len(Q)] = g[0] + n
                \/ g[Len(Q)] = g[0] + n + 1 /\ Cut(Q, g)
<1>z. PICK z \in Nat : z = Len(Q)
  OBVIOUS
<1>2. Size \in Nat /\ Size >= 2
  BY TransmissionAssumption
(* The last cell in which a whole message may begin                         *)
<1>l. PICK l \in 0 .. z : l = IF z - Size + 1 >= 0 THEN z - Size + 1 ELSE 0
  <2>1. CASE z - Size + 1 >= 0
    <3>1. z - Size + 1 \in 0 .. z
      BY <1>2, <2>1
    <3>. QED
      BY <2>1, <3>1
  <2>2. CASE ~(z - Size + 1 >= 0)
    <3>1. 0 \in 0 .. z
      OBVIOUS
    <3>. QED
      BY <2>2, <3>1
  <2>. QED
    BY <2>1, <2>2
<1>. DEFINE heads == {j \in 1 .. l : IsHead(Q[j])}
            Upto(j) == {h \in heads : h <= j}
<1>1. /\ g \in [0 .. z -> Nat] /\ \A j \in 1 .. z : CellInv(Q, g, j)
      /\ \A j \in 1 .. z : Q[j] \in Cell
  BY <1>z DEF Orderly
<1>s. \A j \in 1 .. z : g[j] = g[j - 1] + (IF IsHead(Q[j]) THEN 1 ELSE 0)
                        /\ (IsHead(Q[j]) => Q[j][1] = g[j]) /\ j - 1 \in 0 .. z
                        /\ g[j] \in Nat /\ g[j - 1] \in Nat
  BY <1>z, LabelStep
<1>3. \A j \in 1 .. l : g[j] = g[j - 1] + (IF IsHead(Q[j]) THEN 1 ELSE 0)
                        /\ (IsHead(Q[j]) => Q[j][1] = g[j]) /\ j - 1 \in 0 .. l
                        /\ g[j] \in Nat /\ g[j - 1] \in Nat
  <2>1. \A j \in 1 .. l : j \in 1 .. z /\ j - 1 \in 0 .. l
    OBVIOUS
  <2>. QED
    BY <1>s, <2>1
(* No label changes where no message begins.                                *)
<1>n. ASSUME NEW a \in 0 .. z, NEW b \in a .. z, \A i \in a + 1 .. b : ~IsHead(Q[i])
      PROVE  g[b] = g[a]
  <2>. DEFINE S == {i \in a .. b : g[i] = g[a]}
  <2>1. a \in S /\ a \in Int /\ b \in Int
    OBVIOUS
  <2>2. ASSUME NEW i \in a .. b - 1, i \in S PROVE i + 1 \in S
    <3>1. i + 1 \in a + 1 .. b /\ i + 1 \in 1 .. z /\ (i + 1) - 1 = i
      BY <2>1
    <3>2. g[i + 1] = g[i] + 0 /\ g[i] \in Nat
      BY <1>s, <1>n, <3>1
    <3>3. g[i] = g[a]
      BY <2>2
    <3>4. g[i + 1] = g[a]
      BY <3>2, <3>3
    <3>. QED
      BY <3>1, <3>4
  <2>3. b \in S
    <3>. HIDE DEF S
    <3>1. \A i \in a .. b : i \in S
      BY <2>1, <2>2, InductionFrom
    <3>2. b \in a .. b
      BY <2>1
    <3>. QED
      BY <3>1, <3>2
  <2>. QED
    BY <2>3
(* The cells of a message that begins behind l go on up to the end of Q.    *)
<1>4. ASSUME NEW j \in l + 1 .. z, IsHead(Q[j]), NEW i \in j .. z
      PROVE  Q[i][1] # 0 /\ Q[i][2] = i - j + 1
  <2>. DEFINE S == {m \in j .. z : Q[m][1] # 0 /\ Q[m][2] = m - j + 1}
  <2>1. j \in 1 .. z /\ Q[j][1] # 0 /\ Q[j][2] = 1 /\ z < j + Size - 1
    BY <1>l, <1>2, <1>4 DEF IsHead
  <2>0. j \in Int /\ z \in Int /\ j \in j .. z /\ j - j + 1 = 1
    OBVIOUS
  <2>2. j \in S
    BY <2>0, <2>1
  <2>3. ASSUME NEW m \in j .. z - 1, m \in S PROVE m + 1 \in S
    <3>1. m \in 1 .. z /\ m < z /\ Q[m][1] # 0 /\ Q[m][2] = m - j + 1
      BY <2>1, <2>3
    <3>2. Q[m][2] < Size
      BY <1>2, <2>1, <3>1
    <3>3. Q[m + 1][1] # 0 /\ Q[m + 1][2] = Q[m][2] + 1
      BY <1>z, <1>1, <3>1, <3>2 DEF CellInv
    <3>4. m + 1 \in j .. z /\ (m - j + 1) + 1 = (m + 1) - j + 1
      BY <2>0
    <3>. QED
      BY <3>1, <3>3, <3>4
  <2>4. i \in S
    <3>. HIDE DEF S
    <3>1. \A m \in j .. z : m \in S
      BY <2>0, <2>2, <2>3, InductionFrom
    <3>. QED
      BY <3>1
  <2>. QED
    BY <2>4
<1>t. g[z] = g[l] \/ (g[z] = g[l] + 1 /\ Cut(Q, g))
  <2>. DEFINE T == {j \in l + 1 .. z : IsHead(Q[j])}
  <2>1. CASE T = {}
    <3>1. l \in 0 .. z /\ z \in l .. z
      OBVIOUS
    <3>2. \A i \in l + 1 .. z : ~IsHead(Q[i])
      BY <2>1
    <3>. QED
      BY <1>n, <3>1, <3>2
  <2>2. CASE T # {}
    <3>1. T \in SUBSET Nat /\ \E x : x \in T
      BY <2>2
    <3>2. PICK j \in T : \A i \in T : j <= i
      <4>. HIDE DEF T
      <4>. QED
        BY <3>1, LeastNatural
    <3>3. j \in l + 1 .. z /\ IsHead(Q[j]) /\ j \in 1 .. z
      OBVIOUS
    <3>4. g[j - 1] = g[l]
      <4>1. l \in 0 .. z /\ j - 1 \in l .. z /\ \A i \in l + 1 .. j - 1 : i \in l + 1 .. z /\ i < j
        BY <3>3
      <4>2. \A i \in l + 1 .. j - 1 : ~IsHead(Q[i])
        BY <3>2, <4>1
      <4>. QED
        BY <1>n, <4>1, <4>2
    <3>5. g[j] = g[j - 1] + 1 /\ g[j] \in Nat /\ g[j - 1] \in Nat
      BY <1>s, <3>3
    <3>6. g[z] = g[j]
      <4>1. j \in 0 .. z /\ z \in j .. z /\ \A i \in j + 1 .. z : i \in j .. z /\ i - j + 1 # 1
        BY <3>3
      <4>2. \A i \in j + 1 .. z : Q[i][2] = i - j + 1
        BY <1>4, <3>3, <4>1
      <4>3. \A i \in j + 1 .. z : ~IsHead(Q[i])
        BY <4>1, <4>2 DEF IsHead
      <4>. QED
        BY <1>n, <4>1, <4>3
    <3>7. z \in 1 .. z /\ Q[z][1] # 0 /\ Q[z][2] = z - j + 1
      <4>1. z \in j .. z /\ z \in 1 .. z
        BY <3>3
      <4>. QED
        BY <1>4, <3>3, <4>1
    <3>8. Q[z][2] < Size
      BY <1>l, <1>2, <3>3, <3>7
    <3>9. Q[z][1] = g[z]
      BY <1>1, <3>7 DEF CellInv
    <3>10. g[z] = g[l] + 1
      BY <3>4, <3>5, <3>6
    <3>. QED
      BY <1>z, <3>7, <3>8, <3>9, <3>10 DEF Cut
  <2>. QED
    BY <2>1, <2>2
<1>5. heads = {j \in 1 .. Len(Q) - Size + 1 : IsHead(Q[j])}
  <2>1. \A j : j \in 1 .. Len(Q) - Size + 1 <=> j \in 1 .. l
    BY <1>z, <1>l, <1>2
  <2>. QED
    BY <2>1
<1>g. g \in [0 .. z -> Nat] /\ \A j \in 0 .. l : g[j] \in Nat
  BY <1>1
<1>6. IsFiniteSet(heads) /\ \A j \in 0 .. l : IsFiniteSet(Upto(j))
  <2>1. IsFiniteSet(1 .. l)
    BY FS_Interval
  <2>2. heads \in SUBSET (1 .. l) /\ \A j \in 0 .. l : Upto(j) \in SUBSET (1 .. l)
    OBVIOUS
  <2>. QED
    BY <2>1, <2>2, FS_Subset
<1>7. \A j \in 0 .. l : Cardinality(Upto(j)) = g[j] - g[0]
  <2>. DEFINE S == {j \in 0 .. l : Cardinality(Upto(j)) = g[j] - g[0]}
  <2>1. 0 \in S
    <3>1. Upto(0) = {}
      OBVIOUS
    <3>2. Cardinality(Upto(0)) = 0
      BY Zenon, <3>1, FS_EmptySet
    <3>3. g[0] - g[0] = 0 /\ 0 \in 0 .. l
      BY SMTT(30), <1>1
    <3>. QED
      BY <3>2, <3>3
  <2>2. ASSUME NEW j \in 0 .. l - 1, j \in S PROVE j + 1 \in S
    <3>0. j + 1 \in 1 .. l /\ j \in 0 .. l /\ (j + 1) - 1 = j /\ j + 1 \in 0 .. l
      BY <2>2
    <3>1. g[j + 1] = g[j] + (IF IsHead(Q[j + 1]) THEN 1 ELSE 0) /\ g[j + 1] \in Nat /\ g[j] \in Nat
          /\ g[0] \in Nat
      BY <1>1, <1>3, <3>0
    <3>2. CASE IsHead(Q[j + 1])
      <4>1. j + 1 \in heads /\ Upto(j + 1) = Upto(j) \cup {j + 1} /\ j + 1 \notin Upto(j)
        BY <3>0, <3>2
      <4>. HIDE DEF heads, Upto
      <4>2. Cardinality(Upto(j + 1)) = Cardinality(Upto(j)) + 1
        BY <1>6, <3>0, <4>1, FS_AddElement
      <4>3. Cardinality(Upto(j)) = g[j] - g[0]
        BY <2>2
      <4>4. Cardinality(Upto(j + 1)) = g[j + 1] - g[0]
        BY <3>1, <3>2, <4>2, <4>3
      <4>. QED
        BY <3>0, <4>4
    <3>3. CASE ~IsHead(Q[j + 1])
      <4>1. Upto(j + 1) = Upto(j)
        BY <3>0, <3>3
      <4>. HIDE DEF heads, Upto
      <4>. QED
        BY <2>2, <3>0, <3>1, <3>3, <4>1
    <3>. QED
      BY <3>2, <3>3
  <2>. HIDE DEF S
  <2>3. \A j \in 0 .. l : j \in S
    BY <2>1, <2>2, InductionFrom
  <2>. QED
    BY <2>3 DEF S
<1>8. Cardinality(heads) = g[l] - g[0] /\ g[l] - g[0] \in Nat
  <2>1. Upto(l) = heads /\ l \in 0 .. l
    OBVIOUS
  <2>2. Cardinality(heads) \in Nat
    BY <1>6, FS_CardinalityType
  <2>. QED
    BY <1>7, <2>1, <2>2
<1>9. \A j \in heads : Cardinality({h \in heads : h < j}) = g[j] - g[0] - 1 /\ Q[j][1] = g[j]
                       /\ g[j] \in Nat
  <2>. SUFFICES ASSUME NEW j \in heads
                PROVE  Cardinality({h \in heads : h < j}) = g[j] - g[0] - 1 /\ Q[j][1] = g[j]
                       /\ g[j] \in Nat
    OBVIOUS
  <2>1. j \in 1 .. l /\ IsHead(Q[j])
    OBVIOUS
  <2>2. {h \in heads : h < j} = Upto(j - 1)
    BY <2>1
  <2>. HIDE DEF heads, Upto
  <2>3. j - 1 \in 0 .. l /\ g[j] = g[j - 1] + 1 /\ g[j - 1] \in Nat /\ g[j] \in Nat /\ Q[j][1] = g[j]
    BY <1>3, <2>1
  <2>4. Cardinality(Upto(j - 1)) = g[j - 1] - g[0] /\ g[0] \in Nat
    BY <1>1, <1>7, <2>3
  <2>5. g[j - 1] - g[0] = g[j] - g[0] - 1
    BY <2>3, <2>4
  <2>. QED
    BY <2>2, <2>3, <2>4, <2>5, Zenon
<1>10. ASSUME NEW i \in 1 .. g[l] - g[0]
       PROVE  \E j \in heads : Cardinality({h \in heads : h < j}) = i - 1
  <2>. DEFINE T == {j \in 0 .. l : g[j] >= g[0] + i}
  <2>1. g[0] \in Nat /\ g[l] \in Nat
    BY <1>1
  <2>2. l \in T /\ T \in SUBSET Nat
    BY <2>1
  <2>3. PICK j \in T : \A k \in T : j <= k
    <3>. HIDE DEF T
    <3>. QED
      BY <2>2, LeastNatural
  <2>4. j \in 0 .. l /\ g[j] >= g[0] + i /\ j # 0
    BY <2>1
  <2>5. j \in 1 .. l /\ j - 1 \notin T /\ j - 1 \in 0 .. l
    BY <2>3, <2>4
  <2>6. g[j - 1] < g[0] + i /\ g[j - 1] \in Nat /\ g[j] \in Nat
    BY <1>1, <2>1, <2>4, <2>5
  <2>7. IsHead(Q[j]) /\ g[j] = g[0] + i
    <3>1. g[j] = g[j - 1] + (IF IsHead(Q[j]) THEN 1 ELSE 0)
      BY <1>3, <2>5
    <3>2. IsHead(Q[j])
      BY <2>1, <2>4, <2>6, <3>1
    <3>. QED
      BY <2>1, <2>4, <2>6, <3>1, <3>2
  <2>8. j \in heads
    BY <2>5, <2>7
  <2>. HIDE DEF heads
  <2>9. Cardinality({h \in heads : h < j}) = g[j] - g[0] - 1
    BY <1>9, <2>8
  <2>10. g[j] - g[0] - 1 = i - 1
    BY <2>1, <2>7
  <2>. QED
    BY <2>8, <2>9, <2>10, Zenon
<1>11. ASSUME NEW i \in 1 .. g[l] - g[0]
       PROVE  Q[CHOOSE j \in heads : Cardinality({h \in heads : h < j}) = i - 1][1] = g[0] + i
  <2>. HIDE DEF heads
  <2>. DEFINE c == CHOOSE j \in heads : Cardinality({h \in heads : h < j}) = i - 1
  <2>1. c \in heads /\ Cardinality({h \in heads : h < c}) = i - 1
    BY <1>10
  <2>. HIDE DEF c
  <2>2. Q[c][1] = g[c] /\ g[c] - g[0] - 1 = i - 1 /\ g[c] \in Nat
    BY <1>9, <2>1
  <2>3. g[0] \in Nat /\ i \in Int
    BY <1>1
  <2>4. g[c] = g[0] + i
    BY <2>2, <2>3
  <2>. QED
    BY <2>2, <2>4 DEF c
<1>12. Understood(Q) = [i \in 1 .. Cardinality(heads) |->
            Q[CHOOSE j \in heads : Cardinality({h \in heads : h < j}) = i - 1][1]]
  <2>. DEFINE H == {j \in 1 .. Len(Q) - Size + 1 : IsHead(Q[j])}
  <2>1. Understood(Q) = [i \in 1 .. Cardinality(H) |->
            Q[CHOOSE j \in H : Cardinality({h \in H : h < j}) = i - 1][1]]
    BY Zenon DEF Understood, Messages
  <2>2. H = heads
    BY <1>5
  <2>. HIDE DEF H, heads
  <2>. QED
    BY <2>1, <2>2, Zenon
<1>13. Understood(Q) = [i \in 1 .. g[l] - g[0] |-> g[0] + i]
  <2>. HIDE DEF heads
  <2>. QED
    BY <1>8, <1>11, <1>12
<1>n2. PICK n \in Nat : n = g[l] - g[0]
  BY <1>8
<1>14. g[l] = g[0] + n
  BY <1>g, <1>n2
<1>15. Understood(Q) = [i \in 1 .. n |-> g[0] + i]
  BY <1>13, <1>n2
<1>16. g[Len(Q)] = g[0] + n \/ (g[Len(Q)] = g[0] + n + 1 /\ Cut(Q, g))
  BY <1>z, <1>t, <1>14
<1>. QED
  BY <1>15, <1>16

-----------------------------------------------------------------------------
(* Types                                                                    *)

(* The part of TypeOK about side s.                                         *)
BuffersOK(s) ==
    /\ Len(recvBuffer[s]) <= TCPBUFSIZE /\ Len(sendBuffer[s]) <= TCPBUFSIZE
    /\ Len(pipe[s]) <= Capacity
    /\ recvBuffer[s] # <<>> <=> pc[s] = "receiving" /\ ended[s] = "no"
    /\ sendBuffer[s] # <<>> <=> pc[s] = "sending" /\ ended[s] = "no"

LEMMA TypesInitially == Init => TypeOK
<1>. SUFFICES ASSUME Init PROVE TypeOK
  OBVIOUS
<1>1. <<>> \in Seq(Cell) /\ Len(<<>>) = 0 /\ <<>> \in Seq(1 .. MaxMessages)
  OBVIOUS
<1>2. TCPBUFSIZE \in Nat /\ Capacity \in Nat /\ 0 \in 0 .. MaxMessages
  BY TransmissionAssumption
<1>. QED
  BY <1>1, <1>2 DEF Init, TypeOK

(* A piece of a sequence                                                    *)
LEMMA PieceFacts ==
    ASSUME NEW S, NEW q \in Seq(S), NEW k \in 0 .. Len(q)
    PROVE  /\ SubSeq(q, 1, k) \in Seq(S) /\ Len(SubSeq(q, 1, k)) = k
           /\ \A j \in 1 .. k : SubSeq(q, 1, k)[j] = q[j]
           /\ SubSeq(q, k + 1, Len(q)) \in Seq(S) /\ Len(SubSeq(q, k + 1, Len(q))) = Len(q) - k
           /\ \A j \in 1 .. Len(q) - k : SubSeq(q, k + 1, Len(q))[j] = q[k + j]
<1>1. k + 1 \in 1 .. Len(q) + 1 /\ Len(q) \in Nat
  OBVIOUS
<1>. QED
  BY <1>1

LEMMA TypesAfterSendCall ==
    ASSUME TypeOK, NEW s \in Side, ended[s] = "no", SendCall(s)
    PROVE  TypeOK'
<1>1. sendBuffer[s] = <<>> /\ recvBuffer[s] = <<>>
  BY DEF TypeOK, SendCall
<1>2. PICK n \in Batch(s) :
        IF n = 0
        THEN /\ pc' = [pc EXCEPT ![s] = "receive"]
             /\ UNCHANGED <<sendBuffer, began, sent>>
        ELSE /\ Paced /\ pc[Peer[s]] = "receiving" => s \notin began
             /\ pc' = [pc EXCEPT ![s] = "sending"]
             /\ sendBuffer' = [sendBuffer EXCEPT ![s] =
                                    Marked(CellsOf(sent[s] + 1, n))]
             /\ began' = IF pc[Peer[s]] = "receiving" THEN began \cup {s} ELSE began
             /\ sent' = [sent EXCEPT ![s] = @ + n]
  BY DEF SendCall
<1>3. UNCHANGED <<recvBuffer, pipe, understood, ended>>
  BY DEF SendCall
<1>4. CASE n = 0
  BY <1>1, <1>2, <1>3, <1>4 DEF TypeOK
<1>5. CASE n # 0
  <2>1. n \in Nat /\ n <= MaxMessages - sent[s] /\ n * Size + 1 <= TCPBUFSIZE
        /\ sent[s] \in 0 .. MaxMessages
    BY TransmissionAssumption DEF Batch, Smaller, TypeOK
  <2>. DEFINE k == sent[s] + 1
              C == CellsOf(k, n)
  <2>2. k \in Nat \ {0} /\ k + n - 1 <= MaxMessages
    BY <2>1, TransmissionAssumption
  <2>3. C \in Seq(Cell) /\ Len(C) = n * Size
    <3>. HIDE DEF k
    <3>. QED
      BY <2>1, <2>2, CellsOfFacts
  <2>. HIDE DEF C
  <2>4. Marked(C) \in Seq(Cell) /\ Len(Marked(C)) <= TCPBUFSIZE /\ Marked(C) # <<>>
    <3>1. Marked(C) \in Seq(Cell) /\ Len(Marked(C)) = Len(C) + 1 /\ Marked(C) # <<>>
      BY <2>3, CellFacts DEF Marked
    <3>. QED
      BY <2>1, <2>3, <3>1
  <2>. DEFINE M == Marked(C)
  <2>. HIDE DEF M
  <2>5. M \in Seq(Cell) /\ Len(M) <= TCPBUFSIZE /\ M # <<>>
    BY <2>4 DEF M
  <2>6. sendBuffer' = [sendBuffer EXCEPT ![s] = M] /\ pc' = [pc EXCEPT ![s] = "sending"]
        /\ sent' = [sent EXCEPT ![s] = @ + n] /\ began' \in SUBSET Side
    BY <1>2, <1>5 DEF M, C, TypeOK
  <2>7. sent' \in [Side -> 0 .. MaxMessages]
    <3>1. sent[s] + n \in 0 .. MaxMessages
      BY <2>1, TransmissionAssumption
    <3>. QED
      BY <2>6, <3>1 DEF TypeOK
  <2>8. ASSUME NEW t \in Side PROVE BuffersOK(t)'
    <3>1. CASE t = s
      BY <1>1, <1>3, <2>5, <2>6, <3>1 DEF TypeOK, BuffersOK
    <3>2. CASE t # s
      BY <1>3, <2>6, <3>2 DEF TypeOK, BuffersOK
    <3>. QED
      BY <3>1, <3>2
  <2>9. sendBuffer' \in [Side -> Seq(Cell)] /\ pc' \in [Side -> {"receive", "receiving", "send", "sending"}]
    BY <2>5, <2>6 DEF TypeOK
  <2>. QED
    BY <1>3, <2>6, <2>7, <2>8, <2>9 DEF TypeOK, BuffersOK
<1>. QED
  BY <1>4, <1>5

LEMMA SmallerFacts ==
    ASSUME NEW a \in Int, NEW b \in Int
    PROVE  Smaller(a, b) \in {a, b} /\ Smaller(a, b) <= a /\ Smaller(a, b) <= b
           /\ Smaller(a, b) \in Int
BY DEF Smaller

LEMMA TypesAfterSendSome ==
    ASSUME TypeOK, NEW s \in Side, ended[s] = "no", SendSome(s)
    PROVE  TypeOK'
<1>. DEFINE p == Peer[s]
            q == sendBuffer[s]
<1>1. p \in Side /\ p # s /\ q \in Seq(Cell) /\ pipe[p] \in Seq(Cell) /\ Len(pipe[p]) <= Capacity
  BY Sides DEF TypeOK
<1>2. PICK k \in 1 .. Len(q) :
        /\ k <= Capacity - Len(pipe[p])
        /\ pipe' = [pipe EXCEPT ![p] = @ \o SubSeq(q, 1, k)]
        /\ sendBuffer' = [sendBuffer EXCEPT ![s] = SubSeq(q, k + 1, Len(q))]
        /\ pc' = [pc EXCEPT ![s] = IF k = Len(q) THEN "receive" ELSE @]
  <2>. DEFINE k == Smaller(Len(q), Capacity - Len(pipe[p]))
  <2>1. k \in 1 .. Len(q) /\ k <= Capacity - Len(pipe[p])
    <3>1. k > 0
      BY DEF SendSome
    <3>2. Len(q) \in Nat /\ Len(pipe[p]) \in Nat /\ Capacity \in Nat
      BY <1>1, TransmissionAssumption
    <3>3. Len(q) \in Int /\ Capacity - Len(pipe[p]) \in Int
      BY <3>2
    <3>4. k \in Int /\ k <= Len(q) /\ k <= Capacity - Len(pipe[p])
      BY <3>3, SmallerFacts, Zenon
    <3>. HIDE DEF k
    <3>. QED
      BY <3>1, <3>2, <3>4
  <2>2. /\ pipe' = [pipe EXCEPT ![p] = @ \o SubSeq(q, 1, k)]
        /\ sendBuffer' = [sendBuffer EXCEPT ![s] = SubSeq(@, k + 1, Len(@))]
        /\ pc' = [pc EXCEPT ![s] = IF k = Len(q) THEN "receive" ELSE @]
    BY DEF SendSome
  <2>3. [sendBuffer EXCEPT ![s] = SubSeq(@, k + 1, Len(@))]
            = [sendBuffer EXCEPT ![s] = SubSeq(q, k + 1, Len(q))]
    OBVIOUS
  <2>. HIDE DEF k
  <2>. QED
    BY <2>1, <2>2, <2>3
<1>3. pc[s] = "sending" /\ UNCHANGED <<recvBuffer, began, sent, understood, ended>>
  BY DEF SendSome
<1>. DEFINE front == SubSeq(q, 1, k)
            back == SubSeq(q, k + 1, Len(q))
<1>4. /\ front \in Seq(Cell) /\ Len(front) = k
      /\ back \in Seq(Cell) /\ Len(back) = Len(q) - k /\ Len(q) \in Nat
  BY <1>1, PieceFacts
<1>. DEFINE r == pipe[p] \o front
<1>5. r \in Seq(Cell) /\ Len(r) <= Capacity
  <2>. HIDE DEF front
  <2>. QED
    BY <1>1, <1>2, <1>4, TransmissionAssumption
<1>6. pipe' = [pipe EXCEPT ![p] = r] /\ sendBuffer' = [sendBuffer EXCEPT ![s] = back]
  BY <1>2
<1>. HIDE DEF p, front, back, r
<1>7. pc' \in [Side -> {"receive", "receiving", "send", "sending"}]
      /\ pipe' \in [Side -> Seq(Cell)] /\ sendBuffer' \in [Side -> Seq(Cell)]
  <2>1. pc' \in [Side -> {"receive", "receiving", "send", "sending"}]
    BY <1>2 DEF TypeOK
  <2>2. pipe' \in [Side -> Seq(Cell)]
    BY <1>1, <1>5, <1>6 DEF TypeOK
  <2>3. sendBuffer' \in [Side -> Seq(Cell)]
    BY <1>4, <1>6 DEF TypeOK
  <2>. QED
    BY <2>1, <2>2, <2>3
<1>8. BuffersOK(s)'
  <2>1. pc'[s] = IF k = Len(q) THEN "receive" ELSE "sending"
    BY <1>2, <1>3 DEF TypeOK
  <2>2. sendBuffer'[s] = back /\ pipe'[s] = pipe[s] /\ recvBuffer'[s] = recvBuffer[s]
        /\ ended'[s] = "no" /\ recvBuffer[s] = <<>>
    BY <1>1, <1>3, <1>6 DEF TypeOK
  <2>3. back # <<>> <=> k # Len(q)
    BY <1>2, <1>4
  <2>4. Len(back) <= TCPBUFSIZE /\ Len(<<>>) <= TCPBUFSIZE /\ Len(pipe[s]) <= Capacity
    BY <1>2, <1>4, TransmissionAssumption DEF TypeOK
  <2>. QED
    BY <2>1, <2>2, <2>3, <2>4 DEF BuffersOK
<1>9. ASSUME NEW t \in Side, t # s PROVE BuffersOK(t)'
  <2>1. t = p
    BY <1>1, <1>9, Sides
  <2>2. pipe'[t] = r /\ sendBuffer'[t] = sendBuffer[t] /\ recvBuffer'[t] = recvBuffer[t]
        /\ ended'[t] = ended[t] /\ pc'[t] = pc[t]
    BY <1>1, <1>2, <1>3, <1>6, <1>9, <2>1 DEF TypeOK
  <2>. QED
    BY <1>5, <2>2 DEF TypeOK, BuffersOK
<1>. QED
  BY <1>3, <1>7, <1>8, <1>9 DEF TypeOK, BuffersOK

LEMMA TypesAfterClose ==
    ASSUME TypeOK, NEW s \in Side, NEW how \in {"left", "found"}, Close(s, how),
           pipe' \in [Side -> Seq(Cell)], \A t \in Side : Len(pipe'[t]) <= Capacity,
           pc' \in [Side -> {"receive", "receiving", "send", "sending"}],
           \A t \in Side : t # s => pc'[t] = pc[t],
           began' \in SUBSET Side, sent' = sent,
           understood' \in [Side -> Seq(1 .. MaxMessages)]
    PROVE  TypeOK'
<1>1. <<>> \in Seq(Cell) /\ Len(<<>>) <= TCPBUFSIZE
  BY TransmissionAssumption
<1>2. BuffersOK(s)'
  BY <1>1 DEF Close, TypeOK, BuffersOK
<1>3. ASSUME NEW t \in Side, t # s PROVE BuffersOK(t)'
  BY <1>3 DEF Close, TypeOK, BuffersOK
<1>4. ended' \in [Side -> {"no", "left", "found"}] /\ recvBuffer' \in [Side -> Seq(Cell)]
      /\ sendBuffer' \in [Side -> Seq(Cell)]
  BY <1>1 DEF Close, TypeOK
<1>. QED
  BY <1>2, <1>3, <1>4 DEF TypeOK, BuffersOK

LEMMA TypesAfterSendToNobody ==
    ASSUME TypeOK, NEW s \in Side, ended[s] = "no", SendToNobody(s)
    PROVE  TypeOK'
<1>1. <<>> \in Seq(Cell) /\ Len(<<>>) = 0 /\ TCPBUFSIZE \in Nat /\ Capacity \in Nat
  BY TransmissionAssumption
<1>2. /\ pc' = [pc EXCEPT ![s] = "receive"] /\ UNCHANGED <<began, sent, understood>>
      /\ pc[s] = "sending"
  BY DEF SendToNobody
<1>3. CASE sendBuffer' = [sendBuffer EXCEPT ![s] = <<>>] /\ UNCHANGED <<recvBuffer, pipe, ended>>
  BY <1>1, <1>2, <1>3 DEF TypeOK
<1>4. CASE Close(s, "found") /\ pipe' = [pipe EXCEPT ![s] = <<>>]
  <2>1. pipe' \in [Side -> Seq(Cell)] /\ \A t \in Side : Len(pipe'[t]) <= Capacity
    BY <1>1, <1>4 DEF TypeOK
  <2>2. pc' \in [Side -> {"receive", "receiving", "send", "sending"}]
        /\ \A t \in Side : t # s => pc'[t] = pc[t]
    BY <1>2 DEF TypeOK
  <2>3. began' \in SUBSET Side /\ sent' = sent /\ understood' \in [Side -> Seq(1 .. MaxMessages)]
    BY <1>2 DEF TypeOK
  <2>. QED
    BY <1>4, <2>1, <2>2, <2>3, TypesAfterClose
<1>. QED
  BY <1>3, <1>4 DEF SendToNobody

(* Whatever is in the buffer, messages come out of it.                      *)
LEMMA UnderstoodTypes ==
    ASSUME NEW buf \in Seq(Cell)
    PROVE  Understood(buf) \in Seq(1 .. MaxMessages)
<1>. DEFINE b == Len(buf) - Size + 1
            heads == {j \in 1 .. b : IsHead(buf[j])}
            At(i) == CHOOSE j \in heads : Cardinality({h \in heads : h < j}) = i - 1
            n == Cardinality(heads)
<1>1. b \in Int /\ b <= Len(buf) /\ Len(buf) \in Nat
  BY TransmissionAssumption
<1>2. heads \in SUBSET (1 .. b) /\ heads \in SUBSET (1 .. Len(buf))
  BY <1>1
<1>3. n \in Nat
  <2>1. IsFiniteSet(1 .. b)
    BY <1>1, FS_Interval
  <2>. HIDE DEF heads
  <2>. QED
    BY <1>2, <2>1, FS_Subset, FS_CardinalityType
<1>4. ASSUME NEW i \in 1 .. n PROVE At(i) \in heads
  <2>. HIDE DEF heads, b
  <2>1. i - 1 \in Nat /\ i - 1 < Cardinality(heads)
    BY <1>3
  <2>2. PICK j \in heads : Cardinality(Before(heads, j)) = i - 1
    <3>1. 1 \in Int /\ \A h \in heads : h \in 1 .. b
      BY <1>2
    <3>. QED
      BY <1>1, <2>1, <3>1, RankOnto
  <2>3. \E j_1 \in heads : Cardinality({h \in heads : h < j_1}) = i - 1
    BY <2>2 DEF Before
  <2>. QED
    BY <2>3
<1>5. ASSUME NEW i \in 1 .. n PROVE buf[At(i)][1] \in 1 .. MaxMessages
  <2>1. buf[At(i)] \in Cell /\ buf[At(i)][1] # 0
    <3>1. \A j \in heads : buf[j] \in Cell /\ buf[j][1] # 0
      BY <1>2 DEF IsHead
    <3>. HIDE DEF heads, At, n
    <3>. QED
      BY <1>4, <3>1
  <2>. HIDE DEF At, n
  <2>2. buf[At(i)][1] \in 0 .. MaxMessages
    BY <2>1, CellFacts
  <2>. QED
    BY <2>1, <2>2, TransmissionAssumption
<1>6. Understood(buf) = [i \in 1 .. n |-> buf[At(i)][1]]
  BY Zenon DEF Understood, Messages
<1>. HIDE DEF n, At, heads
<1>. QED
  BY <1>3, <1>5, <1>6

LEMMA ReceivedPiece ==
    ASSUME TypeOK, NEW s \in Side, ended[s] = "no", ReceiveSome(s)
    PROVE  \E k \in 1 .. Len(pipe[s]), buf \in Seq(Cell) :
             /\ buf = recvBuffer[s] \o SubSeq(pipe[s], 1, k)
             /\ buf # <<>> /\ Len(buf) <= TCPBUFSIZE
             /\ pipe' = [pipe EXCEPT ![s] = SubSeq(pipe[s], k + 1, Len(pipe[s]))]
             /\ began' \in {began, began \ {Peer[s]}} /\ sent' = sent
             /\ \/ /\ EndsHere(buf)
                   /\ understood' = [understood EXCEPT ![s] = @ \o Understood(buf)]
                   /\ pc' = [pc EXCEPT ![s] = "send"]
                   /\ \/ Told(buf) /\ Close(s, "found")
                      \/ /\ ~Told(buf)
                         /\ recvBuffer' = [recvBuffer EXCEPT ![s] = <<>>]
                         /\ UNCHANGED <<sendBuffer, ended>>
                \/ /\ ~EndsHere(buf)
                   /\ pc' = [pc EXCEPT ![s] = "receiving"]
                   /\ recvBuffer' = [recvBuffer EXCEPT ![s] = buf]
                   /\ UNCHANGED <<sendBuffer, understood, ended>>
<1>1. pipe[s] \in Seq(Cell) /\ recvBuffer[s] \in Seq(Cell) /\ Len(recvBuffer[s]) <= TCPBUFSIZE
  BY DEF TypeOK
<1>k. PICK k \in 1 .. Smaller(Len(pipe[s]), Space(s)) :
        LET buf == recvBuffer[s] \o SubSeq(pipe[s], 1, k) IN
           IF EndsHere(buf)
           THEN /\ understood' = [understood EXCEPT ![s] = @ \o Understood(buf)]
                /\ pc' = [pc EXCEPT ![s] = "send"]
                /\ pipe' = [pipe EXCEPT ![s] = SubSeq(@, k + 1, Len(@))]
                /\ IF Told(buf)
                   THEN Close(s, "found")
                   ELSE /\ recvBuffer' = [recvBuffer EXCEPT ![s] = <<>>]
                        /\ UNCHANGED <<sendBuffer, ended>>
           ELSE /\ pc' = [pc EXCEPT ![s] = "receiving"]
                /\ recvBuffer' = [recvBuffer EXCEPT ![s] = buf]
                /\ pipe' = [pipe EXCEPT ![s] = SubSeq(@, k + 1, Len(@))]
                /\ UNCHANGED <<sendBuffer, understood, ended>>
  BY Zenon DEF ReceiveSome
<1>. DEFINE buf == recvBuffer[s] \o SubSeq(pipe[s], 1, k)
<1>2. k \in 1 .. Len(pipe[s]) /\ k <= Space(s)
  <2>m. PICK m : m = Smaller(Len(pipe[s]), Space(s))
    OBVIOUS
  <2>2. Len(pipe[s]) \in Int /\ Space(s) \in Int
    BY <1>1, TransmissionAssumption DEF Space
  <2>3. m \in Int /\ m <= Len(pipe[s]) /\ m <= Space(s)
    BY <2>2, <2>m, SmallerFacts, Zenon
  <2>4. k \in 1 .. m
    BY <2>m
  <2>. QED
    BY <2>2, <2>3, <2>4
<1>3. /\ pipe' = [pipe EXCEPT ![s] = SubSeq(pipe[s], k + 1, Len(pipe[s]))]
      /\ began' \in {began, began \ {Peer[s]}} /\ sent' = sent
      /\ \/ /\ EndsHere(buf)
            /\ understood' = [understood EXCEPT ![s] = @ \o Understood(buf)]
            /\ pc' = [pc EXCEPT ![s] = "send"]
            /\ \/ Told(buf) /\ Close(s, "found")
               \/ /\ ~Told(buf)
                  /\ recvBuffer' = [recvBuffer EXCEPT ![s] = <<>>]
                  /\ UNCHANGED <<sendBuffer, ended>>
         \/ /\ ~EndsHere(buf)
            /\ pc' = [pc EXCEPT ![s] = "receiving"]
            /\ recvBuffer' = [recvBuffer EXCEPT ![s] = buf]
            /\ UNCHANGED <<sendBuffer, understood, ended>>
  <2>. HIDE DEF buf
  <2>0. IF EndsHere(buf)
        THEN /\ understood' = [understood EXCEPT ![s] = @ \o Understood(buf)]
             /\ pc' = [pc EXCEPT ![s] = "send"]
             /\ pipe' = [pipe EXCEPT ![s] = SubSeq(@, k + 1, Len(@))]
             /\ IF Told(buf)
                THEN Close(s, "found")
                ELSE /\ recvBuffer' = [recvBuffer EXCEPT ![s] = <<>>]
                     /\ UNCHANGED <<sendBuffer, ended>>
        ELSE /\ pc' = [pc EXCEPT ![s] = "receiving"]
             /\ recvBuffer' = [recvBuffer EXCEPT ![s] = buf]
             /\ pipe' = [pipe EXCEPT ![s] = SubSeq(@, k + 1, Len(@))]
             /\ UNCHANGED <<sendBuffer, understood, ended>>
    BY <1>k, Zenon DEF buf
  <2>1. pipe' = [pipe EXCEPT ![s] = SubSeq(@, k + 1, Len(@))]
    BY <2>0, Zenon
  <2>2. [pipe EXCEPT ![s] = SubSeq(@, k + 1, Len(@))]
            = [pipe EXCEPT ![s] = SubSeq(pipe[s], k + 1, Len(pipe[s]))]
    OBVIOUS
  <2>3. began' \in {began, began \ {Peer[s]}} /\ sent' = sent
    BY Zenon DEF ReceiveSome
  <2>4. CASE EndsHere(buf)
    BY <2>0, <2>1, <2>2, <2>3, <2>4, Zenon
  <2>5. CASE ~EndsHere(buf)
    BY <2>0, <2>1, <2>2, <2>3, <2>5, Zenon
  <2>. QED
    BY <2>4, <2>5
<1>4. buf \in Seq(Cell) /\ buf # <<>> /\ Len(buf) <= TCPBUFSIZE
  <2>. DEFINE front == SubSeq(pipe[s], 1, k)
  <2>1. front \in Seq(Cell) /\ Len(front) = k
    BY <1>1, <1>2, PieceFacts
  <2>2. Len(recvBuffer[s]) \in Nat /\ k <= TCPBUFSIZE - Len(recvBuffer[s]) /\ k \in Nat \ {0}
        /\ TCPBUFSIZE \in Nat
    BY <1>1, <1>2, TransmissionAssumption DEF Space
  <2>. DEFINE r == recvBuffer[s]
  <2>. HIDE DEF front, r
  <2>3. r \o front \in Seq(Cell) /\ Len(r \o front) = Len(r) + k
    <3>1. r \in Seq(Cell)
      BY <1>1 DEF r
    <3>2. r \o front \in Seq(Cell) /\ Len(r \o front) = Len(r) + Len(front)
      BY <2>1, <3>1, Joined, Zenon
    <3>. QED
      BY <2>1, <3>2, Zenon
  <2>4. Len(r \o front) <= TCPBUFSIZE /\ r \o front # <<>>
    BY <2>2, <2>3 DEF r
  <2>. QED
    BY <2>3, <2>4 DEF r, front
<1>. HIDE DEF buf
<1>. QED
  BY <1>2, <1>3, <1>4 DEF buf

LEMMA TypesAfterReceiveSome ==
    ASSUME TypeOK, NEW s \in Side, ended[s] = "no", ReceiveSome(s)
    PROVE  TypeOK'
<1>1. PICK k \in 1 .. Len(pipe[s]), buf \in Seq(Cell) :
             /\ buf # <<>> /\ Len(buf) <= TCPBUFSIZE
             /\ pipe' = [pipe EXCEPT ![s] = SubSeq(pipe[s], k + 1, Len(pipe[s]))]
             /\ began' \in {began, began \ {Peer[s]}} /\ sent' = sent
             /\ \/ /\ EndsHere(buf)
                   /\ understood' = [understood EXCEPT ![s] = @ \o Understood(buf)]
                   /\ pc' = [pc EXCEPT ![s] = "send"]
                   /\ \/ Told(buf) /\ Close(s, "found")
                      \/ /\ ~Told(buf)
                         /\ recvBuffer' = [recvBuffer EXCEPT ![s] = <<>>]
                         /\ UNCHANGED <<sendBuffer, ended>>
                \/ /\ ~EndsHere(buf)
                   /\ pc' = [pc EXCEPT ![s] = "receiving"]
                   /\ recvBuffer' = [recvBuffer EXCEPT ![s] = buf]
                   /\ UNCHANGED <<sendBuffer, understood, ended>>
  BY ReceivedPiece
<1>. DEFINE rest == SubSeq(pipe[s], k + 1, Len(pipe[s]))
<1>2. rest \in Seq(Cell) /\ Len(rest) <= Capacity
  <2>1. pipe[s] \in Seq(Cell) /\ Len(pipe[s]) <= Capacity /\ Len(pipe[s]) \in Nat
    BY DEF TypeOK
  <2>2. rest \in Seq(Cell) /\ Len(rest) = Len(pipe[s]) - k
    BY <2>1, PieceFacts
  <2>. QED
    BY <2>1, <2>2, TransmissionAssumption
<1>3. pipe' = [pipe EXCEPT ![s] = rest]
  BY <1>1
<1>. HIDE DEF rest
<1>4. /\ pipe' \in [Side -> Seq(Cell)] /\ \A t \in Side : Len(pipe'[t]) <= Capacity
      /\ began' \in SUBSET Side /\ sent' = sent
  BY <1>1, <1>2, <1>3 DEF TypeOK
<1>5. <<>> \in Seq(Cell) /\ Len(<<>>) <= TCPBUFSIZE
  BY TransmissionAssumption
<1>6. pc[s] \in {"receive", "receiving"} /\ sendBuffer[s] = <<>>
  BY DEF ReceiveSome, TypeOK
<1>7. CASE EndsHere(buf)
  <2>1. understood' = [understood EXCEPT ![s] = @ \o Understood(buf)]
        /\ pc' = [pc EXCEPT ![s] = "send"]
    BY <1>1, <1>7
  <2>2. understood' \in [Side -> Seq(1 .. MaxMessages)]
    <3>1. Understood(buf) \in Seq(1 .. MaxMessages)
      BY UnderstoodTypes
    <3>2. understood[s] \o Understood(buf) \in Seq(1 .. MaxMessages)
      BY <3>1 DEF TypeOK
    <3>. QED
      BY <2>1, <3>2 DEF TypeOK
  <2>3. pc' \in [Side -> {"receive", "receiving", "send", "sending"}]
        /\ \A t \in Side : t # s => pc'[t] = pc[t]
    BY <2>1 DEF TypeOK
  <2>4. CASE Close(s, "found")
    BY <1>4, <2>2, <2>3, <2>4, TypesAfterClose
  <2>5. CASE recvBuffer' = [recvBuffer EXCEPT ![s] = <<>>] /\ UNCHANGED <<sendBuffer, ended>>
    <3>1. BuffersOK(s)'
      BY <1>4, <1>5, <1>6, <2>1, <2>5 DEF TypeOK, BuffersOK
    <3>2. ASSUME NEW t \in Side, t # s PROVE BuffersOK(t)'
      BY <1>4, <2>1, <2>5, <3>2 DEF TypeOK, BuffersOK
    <3>3. recvBuffer' \in [Side -> Seq(Cell)]
      BY <1>5, <2>5 DEF TypeOK
    <3>. QED
      BY <1>4, <2>2, <2>3, <2>5, <3>1, <3>2, <3>3 DEF TypeOK, BuffersOK
  <2>. QED
    BY <1>1, <1>7, <2>4, <2>5
<1>8. CASE ~EndsHere(buf)
  <2>1. pc' = [pc EXCEPT ![s] = "receiving"] /\ recvBuffer' = [recvBuffer EXCEPT ![s] = buf]
        /\ UNCHANGED <<sendBuffer, understood, ended>>
    BY <1>1, <1>8
  <2>2. BuffersOK(s)'
    BY <1>1, <1>4, <1>6, <2>1 DEF TypeOK, BuffersOK
  <2>3. ASSUME NEW t \in Side, t # s PROVE BuffersOK(t)'
    BY <1>4, <2>1, <2>3 DEF TypeOK, BuffersOK
  <2>4. pc' \in [Side -> {"receive", "receiving", "send", "sending"}]
        /\ recvBuffer' \in [Side -> Seq(Cell)]
    BY <2>1 DEF TypeOK
  <2>. QED
    BY <1>4, <2>1, <2>2, <2>3, <2>4 DEF TypeOK, BuffersOK
<1>. QED
  BY <1>7, <1>8

LEMMA TypesAfterReceiveNothing ==
    ASSUME TypeOK, NEW s \in Side, ended[s] = "no", ReceiveNothing(s)
    PROVE  TypeOK'
<1>1. ASSUME NEW t \in Side PROVE BuffersOK(t)'
  BY DEF ReceiveNothing, TypeOK, BuffersOK
<1>. QED
  BY <1>1 DEF ReceiveNothing, TypeOK, BuffersOK

LEMMA TypesAfterEnd ==
    ASSUME TypeOK, NEW s \in Side, ended[s] = "no", ReceiveZero(s) \/ Leave(s) \/ Kill(s)
    PROVE  TypeOK'
<1>1. /\ UNCHANGED <<began, sent, understood>>
      /\ pc' \in [Side -> {"receive", "receiving", "send", "sending"}]
      /\ \A t \in Side : t # s => pc'[t] = pc[t]
      /\ \E how \in {"left", "found"} : Close(s, how)
  BY DEF ReceiveZero, Leave, Kill, TypeOK
<1>2. pipe' \in [Side -> Seq(Cell)] /\ \A t \in Side : Len(pipe'[t]) <= Capacity
  <2>1. <<>> \in Seq(Cell) /\ Len(<<>>) <= Capacity /\ Capacity \in Nat
    BY TransmissionAssumption
  <2>2. pipe \in [Side -> Seq(Cell)] /\ \A t \in Side : Len(pipe[t]) <= Capacity
    BY DEF TypeOK
  <2>3. CASE ReceiveZero(s)
    BY <2>1, <2>2, <2>3 DEF ReceiveZero
  <2>4. CASE Leave(s)
    <3>. DEFINE q == pipe[Peer[s]]
                r == IF Len(q) < Capacity /\ ended[Peer[s]] = "no" THEN Append(q, DISCONNECT) ELSE q
    <3>1. q \in Seq(Cell) /\ Len(q) <= Capacity
      BY <2>2, Sides
    <3>. HIDE DEF q
    <3>2. r \in Seq(Cell) /\ Len(r) <= Capacity
      BY <2>1, <3>1, CellFacts
    <3>3. pipe' = [pipe EXCEPT ![s] = <<>>, ![Peer[s]] = r]
      BY <2>4, Sides DEF Leave, q
    <3>. HIDE DEF r
    <3>. QED
      BY <2>1, <2>2, <3>2, <3>3
  <2>5. CASE Kill(s)
    <3>1. PICK rest \in {pipe[Peer[s]], <<>>} : pipe' = [pipe EXCEPT ![s] = <<>>, ![Peer[s]] = rest]
      BY <2>5 DEF Kill
    <3>2. rest \in Seq(Cell) /\ Len(rest) <= Capacity
      BY <2>1, <2>2, Sides
    <3>. QED
      BY <2>1, <2>2, <3>1, <3>2
  <2>. QED
    BY <2>3, <2>4, <2>5
<1>3. began' \in SUBSET Side /\ sent' = sent /\ understood' \in [Side -> Seq(1 .. MaxMessages)]
  BY <1>1 DEF TypeOK
<1>. QED
  BY <1>1, <1>2, <1>3, TypesAfterClose

LEMMA TypesAfterStep == TypeOK /\ [Next]_vars => TypeOK'
<1>. SUFFICES ASSUME TypeOK, [Next]_vars PROVE TypeOK'
  OBVIOUS
<1>1. CASE UNCHANGED vars
  BY <1>1 DEF vars, TypeOK
<1>2. ASSUME NEW s \in Side, Step(s) PROVE TypeOK'
  BY <1>2, TypesAfterSendCall, TypesAfterSendSome, TypesAfterSendToNobody,
     TypesAfterReceiveSome, TypesAfterReceiveNothing, TypesAfterEnd DEF Step
<1>3. ASSUME NEW s \in Side, ended[s] = "no", Leave(s) \/ Kill(s) PROVE TypeOK'
  BY <1>3, TypesAfterEnd
<1>. QED
  BY <1>1, <1>2, <1>3 DEF Next

(* What TypeOK says of buffers and the two kernels, and that a side has       *)
(* something in a buffer exactly during a call: handleserver.c:404-488,     *)
(* 1138-1184, handleclient.c:150-247, 1125-1176.                            *)
THEOREM TypeCorrect == Spec => []TypeOK
<1>. QED
  BY TypesInitially, TypesAfterStep, PTL DEF Spec

-----------------------------------------------------------------------------
(* The stream that is on its way to a side                                  *)

(* What a side has read in this call, what the kernels hold for it, and what *)
(* the other side's call of send has not handed over yet.                   *)
Cells(s) == recvBuffer[s] \o pipe[s] \o sendBuffer[Peer[s]]

(* The messages that q has of the first u, in their order: all but fragile  *)
(* ones.                                                                    *)
Taken(q, u) ==
    /\ \A i \in 1 .. Len(q) : q[i] \in 1 .. u
    /\ \A i, j \in 1 .. Len(q) : i < j => q[i] < q[j]
    /\ \A m \in 1 .. u : m \in Fragile \/ \E i \in 1 .. Len(q) : q[i] = m

(* What a side has parsed are the messages before those on the way to it,   *)
(* and nothing is missing while the other side goes on.                     *)
Labelled(s, Q, g) ==
    /\ Orderly(Q, g)
    /\ Taken(understood[s], g[0]) /\ g[Len(Q)] <= sent[Peer[s]]
    /\ ended[Peer[s]] = "no" =>
            /\ g[Len(Q)] = sent[Peer[s]]
            /\ Q = <<>> \/ Q[Len(Q)] = EOT
            /\ \A j \in 1 .. Len(Q) : Q[j] # DISCONNECT

StreamInv(s) ==
    /\ \E u \in 0 .. sent[Peer[s]] : Taken(understood[s], u)
    /\ ended[s] = "no" => \E g : Labelled(s, Cells(s), g)

(* The inductive invariant                                                  *)
IInv == TypeOK /\ \A s \in Side : StreamInv(s)

LEMMA LabelsGrow ==
    ASSUME NEW Q \in Seq(Cell), NEW g, Orderly(Q, g), NEW k \in 0 .. Len(Q)
    PROVE  g[k] <= g[Len(Q)] /\ g[k] \in Nat /\ g[Len(Q)] \in Nat
<1>l. PICK l \in Nat : l = Len(Q)
  OBVIOUS
<1>1. g \in [0 .. l -> Nat]
  BY <1>l DEF Orderly
<1>. DEFINE S == {j \in k .. l : g[k] <= g[j]}
<1>2. k \in S
  <2>1. k \in k .. l /\ g[k] \in Nat
    BY <1>l, <1>1
  <2>. QED
    BY <2>1
<1>3. ASSUME NEW j \in k .. l - 1, j \in S PROVE j + 1 \in S
  <2>. DEFINE i == j + 1
  <2>1. i \in 1 .. Len(Q) /\ i - 1 = j /\ i \in k .. l
    BY <1>l
  <2>. HIDE DEF i
  <2>2. g[i] \in Nat /\ g[j] \in Nat /\ g[i] >= g[j]
    BY <2>1, LabelStep
  <2>3. g[k] <= g[j] /\ g[k] \in Nat
    BY <1>l, <1>1, <1>3
  <2>4. g[k] <= g[i]
    BY <2>2, <2>3
  <2>. QED
    BY <2>1, <2>4 DEF i
<1>4. \A j \in k .. l : j \in S
  <2>. HIDE DEF S
  <2>1. k \in Int /\ l \in Int
    BY <1>l
  <2>. QED
    BY <1>2, <1>3, <2>1, InductionFrom
<1>5. l \in k .. l /\ l \in 0 .. l
  BY <1>l
<1>. QED
  BY <1>l, <1>1, <1>4, <1>5

(* A side's stream ends where it did, or earlier when the other side ends.  *)
LEMMA StreamKept ==
    ASSUME NEW t \in Side, StreamInv(t), NEW Q \in Seq(Cell), Q = Cells(t),
           understood'[t] = understood[t], sent'[Peer[t]] = sent[Peer[t]],
           sent[Peer[t]] \in Nat,
           NEW R \in Seq(Cell), R = Cells(t)',
           ended'[t] = "no" => ended[t] = "no" /\ Len(R) <= Len(Q) /\ \A j \in 1 .. Len(R) : R[j] = Q[j],
           ended'[Peer[t]] = "no" => ended[Peer[t]] = "no" /\ Len(R) = Len(Q)
    PROVE  StreamInv(t)'
<1>. SUFFICES ASSUME ended'[t] = "no" PROVE \E g : Labelled(t, R, g)'
  BY DEF StreamInv
<1>1. PICK g : Labelled(t, Q, g)
  BY DEF StreamInv
<1>2. Orderly(Q, g) /\ Taken(understood[t], g[0]) /\ g[Len(Q)] <= sent[Peer[t]]
  BY <1>1 DEF Labelled
<1>. DEFINE h == [j \in 0 .. Len(R) |-> g[0 + j]]
<1>3. Orderly(R, h)
  <2>1. 0 \in 0 .. Len(Q) /\ Len(R) <= Len(Q) - 0
        /\ \A j \in 1 .. Len(R) : R[j] = Q[0 + j]
    OBVIOUS
  <2>. QED
    BY <1>2, <2>1, PieceOrderly
<1>4. h[0] = g[0] /\ h[Len(R)] = g[Len(R)] /\ Len(R) \in 0 .. Len(Q)
  OBVIOUS
<1>5. g[Len(R)] <= g[Len(Q)] /\ g[Len(R)] \in Nat /\ g[Len(Q)] \in Nat
  BY <1>2, <1>4, LabelsGrow
<1>. HIDE DEF h
<1>6. h[Len(R)] <= sent'[Peer[t]]
  BY <1>2, <1>4, <1>5
<1>7. ASSUME ended'[Peer[t]] = "no"
      PROVE  /\ h[Len(R)] = sent'[Peer[t]]
             /\ R = <<>> \/ R[Len(R)] = EOT
             /\ \A j \in 1 .. Len(R) : R[j] # DISCONNECT
  <2>1. /\ g[Len(Q)] = sent[Peer[t]]
        /\ Q = <<>> \/ Q[Len(Q)] = EOT
        /\ \A j \in 1 .. Len(Q) : Q[j] # DISCONNECT
    BY <1>1, <1>7 DEF Labelled
  <2>. QED
    BY <1>4, <1>7, <2>1
<1>8. Taken(understood'[t], h[0])
  BY <1>2, <1>4
<1>9. Labelled(t, R, h)'
  BY <1>3, <1>6, <1>7, <1>8 DEF Labelled
<1>. QED
  BY <1>9

(* F is A, B and C one behind the other.                                    *)
IsJoin(F, A, B, C) ==
    /\ F \in Seq(Cell) /\ Len(F) = Len(A) + Len(B) + Len(C)
    /\ \A j \in 1 .. Len(A) : F[j] = A[j]
    /\ \A j \in 1 .. Len(B) : F[Len(A) + j] = B[j]
    /\ \A j \in 1 .. Len(C) : F[Len(A) + Len(B) + j] = C[j]

LEMMA JoinedThree ==
    ASSUME NEW A \in Seq(Cell), NEW B \in Seq(Cell), NEW C \in Seq(Cell)
    PROVE  IsJoin(A \o B \o C, A, B, C)
<1>1. PICK D : D = A \o B
  OBVIOUS
<1>2. /\ D \in Seq(Cell) /\ Len(D) = Len(A) + Len(B)
      /\ \A j \in 1 .. Len(A) : D[j] = A[j]
      /\ \A j \in 1 .. Len(B) : D[Len(A) + j] = B[j]
  BY <1>1, Joined
<1>3. PICK F : F = D \o C
  OBVIOUS
<1>4. /\ F \in Seq(Cell) /\ Len(F) = Len(D) + Len(C)
      /\ \A j \in 1 .. Len(D) : F[j] = D[j]
      /\ \A j \in 1 .. Len(C) : F[Len(D) + j] = C[j]
  <2>1. D \in Seq(Cell)
    BY <1>2
  <2>. QED
    BY <1>3, <2>1, Joined
<1>5. Len(A) \in Nat /\ Len(B) \in Nat /\ Len(C) \in Nat
  OBVIOUS
<1>6. \A j \in 1 .. Len(A) : j \in 1 .. Len(D)
  BY <1>2, <1>5
<1>7. \A j \in 1 .. Len(B) : Len(A) + j \in 1 .. Len(D)
  BY <1>2, <1>5
<1>8. IsJoin(F, A, B, C)
  BY <1>2, <1>4, <1>6, <1>7 DEF IsJoin
<1>. QED
  BY <1>1, <1>3, <1>8

LEMMA CellsTypes ==
    ASSUME TypeOK, NEW t \in Side
    PROVE  /\ recvBuffer[t] \in Seq(Cell) /\ pipe[t] \in Seq(Cell) /\ sendBuffer[Peer[t]] \in Seq(Cell)
           /\ Cells(t) \in Seq(Cell) /\ sent[Peer[t]] \in Nat
           /\ Len(Cells(t)) = Len(recvBuffer[t]) + Len(pipe[t]) + Len(sendBuffer[Peer[t]])
<1>1. recvBuffer[t] \in Seq(Cell) /\ pipe[t] \in Seq(Cell) /\ sendBuffer[Peer[t]] \in Seq(Cell)
      /\ sent[Peer[t]] \in Nat
  BY Sides DEF TypeOK
<1>. QED
  BY <1>1, JoinedThree DEF Cells, IsJoin

LEMMA StreamUntouched ==
    ASSUME TypeOK, NEW t \in Side, StreamInv(t),
           recvBuffer'[t] = recvBuffer[t], pipe'[t] = pipe[t],
           sendBuffer'[Peer[t]] = sendBuffer[Peer[t]],
           understood'[t] = understood[t], sent'[Peer[t]] = sent[Peer[t]],
           ended'[t] = "no" => ended[t] = "no",
           ended'[Peer[t]] = "no" => ended[Peer[t]] = "no"
    PROVE  StreamInv(t)'
<1>1. Cells(t)' = Cells(t)
  BY DEF Cells
<1>2. Cells(t) \in Seq(Cell) /\ sent[Peer[t]] \in Nat
  BY CellsTypes
<1>3. PICK Q \in Seq(Cell) : Q = Cells(t)
  BY <1>2
<1>4. Q = Cells(t)'
  BY <1>1, <1>3
<1>5. Len(Q) <= Len(Q) /\ \A j \in 1 .. Len(Q) : Q[j] = Q[j]
  OBVIOUS
<1>. QED
  BY <1>2, <1>3, <1>4, <1>5, StreamKept, Zenon

LEMMA StreamAfterSendCall ==
    ASSUME IInv, NEW s \in Side, ended[s] = "no", SendCall(s), TypeOK'
    PROVE  \A t \in Side : StreamInv(t)'
<1>. DEFINE p == Peer[s]
<1>1. p \in Side /\ p # s /\ Peer[p] = s /\ \A t \in Side : t = s \/ t = p
  BY Sides
<1>2. TypeOK /\ StreamInv(s) /\ StreamInv(p) /\ pc[s] = "send" /\ sendBuffer[s] = <<>>
  BY <1>1 DEF IInv, TypeOK, SendCall
<1>3. UNCHANGED <<recvBuffer, pipe, understood, ended>>
  BY DEF SendCall
<1>4. StreamInv(s)'
  <2>1. sendBuffer'[p] = sendBuffer[p]
    BY <1>1, <1>2 DEF SendCall, TypeOK
  <2>2. sent'[p] = sent[p]
    BY <1>1, <1>2 DEF SendCall, TypeOK
  <2>. QED
    BY <1>2, <1>3, <2>1, <2>2, StreamUntouched
<1>5. StreamInv(p)'
  <2>1. PICK n \in Batch(s) :
        IF n = 0 THEN UNCHANGED <<sendBuffer, sent>>
        ELSE /\ sendBuffer' = [sendBuffer EXCEPT ![s] = Marked(CellsOf(sent[s] + 1, n))]
             /\ sent' = [sent EXCEPT ![s] = @ + n]
    BY DEF SendCall
  <2>2. CASE n = 0
    BY <1>1, <1>2, <1>3, <2>1, <2>2, StreamUntouched
  <2>3. CASE n # 0
    <3>m. PICK m : m = sent[s]
      OBVIOUS
    <3>M. PICK M : M = Marked(CellsOf(m + 1, n))
      OBVIOUS
    <3>Q. PICK Q : Q = Cells(p)
      OBVIOUS
    <3>R. PICK R : R = Cells(p)'
      OBVIOUS
    <3>1. m \in Nat /\ n \in Nat \ {0} /\ m + n <= MaxMessages
      <4>1. sent[s] \in 0 .. MaxMessages /\ MaxMessages \in Nat /\ MaxBatch \in Nat
        BY <1>2, TransmissionAssumption DEF TypeOK
      <4>. QED
        BY <2>3, <3>m, <4>1 DEF Batch, Smaller
    <3>2. Len(CellsOf(m + 1, n)) = n * Size /\ CellsOf(m + 1, n) \in Seq(Cell) /\ n * Size \in Nat
      <4>. DEFINE k == m + 1
      <4>1. k \in Nat \ {0} /\ k + n - 1 <= MaxMessages /\ n \in Nat
        BY <3>1, TransmissionAssumption
      <4>. HIDE DEF k
      <4>2. Len(CellsOf(k, n)) = n * Size /\ CellsOf(k, n) \in Seq(Cell)
        BY <4>1, CellsOfFacts
      <4>3. n * Size \in Nat
        BY <3>1, TransmissionAssumption
      <4>. QED
        BY <4>2, <4>3 DEF k
    <3>3. sendBuffer'[s] = M /\ sent'[s] = m + n
      BY <1>2, <2>1, <2>3, <3>m, <3>M DEF TypeOK
    <3>4. Q \in Seq(Cell) /\ R \in Seq(Cell) /\ Extends(R, Q, m, n)
      <4>A. PICK A : A = recvBuffer[p]
        OBVIOUS
      <4>B. PICK B : B = pipe[p]
        OBVIOUS
      <4>1. A \in Seq(Cell) /\ B \in Seq(Cell) /\ <<>> \in Seq(Cell)
        BY <1>1, <1>2, <4>A, <4>B DEF TypeOK
      <4>2. Q = A \o B \o <<>> /\ R = A \o B \o M
        BY <1>1, <1>2, <1>3, <3>3, <3>Q, <3>R, <4>A, <4>B DEF Cells
      <4>3. PICK e \in Nat : e = n * Size
        BY <3>2
      <4>C. PICK C : C = CellsOf(m + 1, n)
        OBVIOUS
      <4>4. M \in Seq(Cell) /\ Len(M) = e + 1 /\ M[e + 1] = EOT /\ \A i \in 1 .. e : M[i] = C[i]
        BY <3>2, <3>M, <4>3, <4>C, CellFacts DEF Marked
      <4>5. Q \in Seq(Cell) /\ Len(Q) = Len(A) + Len(B) /\ Len(A) \in Nat /\ Len(B) \in Nat
            /\ (\A j \in 1 .. Len(A) : Q[j] = A[j]) /\ \A j \in 1 .. Len(B) : Q[Len(A) + j] = B[j]
        <5>1. IsJoin(Q, A, B, <<>>)
          BY <4>1, <4>2, JoinedThree, Zenon
        <5>. QED
          BY <4>1, <5>1 DEF IsJoin
      <4>6. R \in Seq(Cell) /\ Len(R) = Len(A) + Len(B) + (e + 1)
            /\ (\A j \in 1 .. Len(A) : R[j] = A[j]) /\ (\A j \in 1 .. Len(B) : R[Len(A) + j] = B[j])
            /\ \A j \in 1 .. e + 1 : R[Len(A) + Len(B) + j] = M[j]
        <5>1. M \in Seq(Cell)
          BY <4>4
        <5>2. IsJoin(R, A, B, M)
          BY <4>1, <4>2, <5>1, JoinedThree, Zenon
        <5>3. Len(M) = e + 1
          BY <4>4
        <5>. QED
          BY <5>2, <5>3 DEF IsJoin
      <4>7. Len(R) = Len(Q) + e + 1
        BY <4>5, <4>6
      <4>8. \A j \in 1 .. Len(Q) : R[j] = Q[j]
        <5>. SUFFICES ASSUME NEW j \in 1 .. Len(Q) PROVE R[j] = Q[j]
          OBVIOUS
        <5>1. CASE j <= Len(A)
          BY <4>5, <4>6, <5>1
        <5>2. CASE j > Len(A)
          <6>1. j - Len(A) \in 1 .. Len(B) /\ Len(A) + (j - Len(A)) = j
            BY <4>5, <5>2
          <6>. QED
            BY <4>5, <4>6, <6>1
        <5>. QED
          BY <4>5, <5>1, <5>2
      <4>9. \A i \in 1 .. e : R[Len(Q) + i] = C[i]
        <5>1. \A i \in 1 .. e : i \in 1 .. e + 1
          OBVIOUS
        <5>. QED
          BY <4>4, <4>5, <4>6, <5>1
      <4>10. R[Len(R)] = EOT
        <5>1. e + 1 \in 1 .. e + 1
          OBVIOUS
        <5>. QED
          BY <4>4, <4>6, <5>1
      <4>. QED
        BY <4>3, <4>5, <4>6, <4>7, <4>8, <4>9, <4>10, <4>C DEF Extends
    <3>5. ended'[p] = ended[p] /\ ended'[s] = "no" /\ understood'[p] = understood[p]
      BY <1>3
    <3>6. \E u \in 0 .. sent'[s] : Taken(understood[p], u)
      <4>1. PICK u \in 0 .. m : Taken(understood[p], u)
        BY <1>1, <1>2, <3>m DEF StreamInv
      <4>2. u \in 0 .. sent'[s]
        BY <3>1, <3>3
      <4>. QED
        BY <4>1, <4>2
    <3>7. ASSUME ended'[p] = "no" PROVE \E h : Labelled(p, R, h)'
      <4>1. PICK g : Labelled(p, Q, g)
        BY <1>2, <3>5, <3>7, <3>Q DEF StreamInv
      <4>2. Orderly(Q, g) /\ Taken(understood[p], g[0]) /\ g[Len(Q)] = m
        BY <1>1, <3>5, <3>m, <4>1 DEF Labelled
      <4>3. Q = <<>> \/ Q[Len(Q)] = EOT
        BY <1>1, <3>5, <4>1 DEF Labelled
      <4>4. \A j \in 1 .. Len(Q) : Q[j] # DISCONNECT
        BY <1>1, <3>5, <4>1 DEF Labelled
      <4>5. Boundary(Q, Len(Q))
        BY <4>3, CellFacts DEF Boundary
      <4>6. PICK h : Orderly(R, h) /\ h[0] = g[0] /\ h[Len(R)] = m + n
        BY <3>1, <3>4, <4>2, <4>5, TransmissionOrderly
      <4>7. \A j \in 1 .. Len(R) : R[j] # DISCONNECT
        <5>1. \A j \in 1 .. Len(R) : R[j] = DISCONNECT => j \in 1 .. Len(Q) /\ Q[j] = DISCONNECT
          BY <3>1, <3>4, <4>2, <4>5, TransmissionOrderly
        <5>. QED
          BY <4>4, <5>1, Zenon
      <4>8. R[Len(R)] = EOT
        BY <3>4 DEF Extends
      <4>9. h[Len(R)] <= sent'[s]
        BY <3>1, <3>3, <4>6
      <4>. QED
        BY <1>1, <3>3, <3>5, <4>2, <4>6, <4>7, <4>8, <4>9 DEF Labelled
    <3>. QED
      BY <1>1, <1>2, <3>5, <3>6, <3>7, <3>R DEF StreamInv
  <2>. QED
    BY <2>2, <2>3
<1>. QED
  BY <1>1, <1>4, <1>5

(* Cells k + 1 and on of Q, or fewer.                                       *)
PartOf(R, Q, k) == Len(R) <= Len(Q) - k /\ \A j \in 1 .. Len(R) : R[j] = Q[k + j]

(* The first k cells of Y go from there to the end of X.                    *)
Moved(X, Y, X2, Y2, k) ==
    /\ Len(X2) = Len(X) + k /\ Len(Y2) = Len(Y) - k /\ k \in 1 .. Len(Y)
    /\ \A j \in 1 .. Len(X) : X2[j] = X[j]
    /\ \A j \in 1 .. k : X2[Len(X) + j] = Y[j]
    /\ \A j \in 1 .. Len(Y) - k : Y2[j] = Y[k + j]

LEMMA MovedSequences ==
    ASSUME NEW X \in Seq(Cell), NEW Y \in Seq(Cell), NEW k \in 1 .. Len(Y)
    PROVE  /\ X \o SubSeq(Y, 1, k) \in Seq(Cell) /\ SubSeq(Y, k + 1, Len(Y)) \in Seq(Cell)
           /\ Moved(X, Y, X \o SubSeq(Y, 1, k), SubSeq(Y, k + 1, Len(Y)), k)
<1>1. PICK U : U = SubSeq(Y, 1, k)
  OBVIOUS
<1>2. PICK V : V = SubSeq(Y, k + 1, Len(Y))
  OBVIOUS
<1>3. /\ U \in Seq(Cell) /\ Len(U) = k /\ V \in Seq(Cell) /\ Len(V) = Len(Y) - k
      /\ (\A j \in 1 .. k : U[j] = Y[j]) /\ \A j \in 1 .. Len(Y) - k : V[j] = Y[k + j]
  BY <1>1, <1>2
<1>4. PICK W : W = X \o U
  OBVIOUS
<1>5. /\ W \in Seq(Cell) /\ Len(W) = Len(X) + Len(U)
      /\ \A j \in 1 .. Len(X) : W[j] = X[j]
      /\ \A j \in 1 .. Len(U) : W[Len(X) + j] = U[j]
  <2>1. U \in Seq(Cell)
    BY <1>3
  <2>. QED
    BY <1>4, <2>1, Joined
<1>6. Moved(X, Y, W, V, k)
  BY <1>3, <1>5 DEF Moved
<1>. QED
  BY <1>1, <1>2, <1>3, <1>4, <1>5, <1>6

(* The same cells, however they lie in the three buffers.                   *)
LEMMA Regrouped ==
    ASSUME NEW A \in Seq(Cell), NEW B \in Seq(Cell), NEW C \in Seq(Cell), NEW Q, IsJoin(Q, A, B, C),
           NEW A2 \in Seq(Cell), NEW B2 \in Seq(Cell), NEW C2 \in Seq(Cell), NEW R, IsJoin(R, A2, B2, C2),
           NEW k, (Moved(A, B, A2, B2, k) /\ C2 = C) \/ (Moved(B, C, B2, C2, k) /\ A2 = A)
    PROVE  Len(R) = Len(Q) /\ PartOf(R, Q, 0)
<1>1. /\ Len(A) \in Nat /\ Len(B) \in Nat /\ Len(C) \in Nat
      /\ Len(A2) \in Nat /\ Len(B2) \in Nat /\ Len(C2) \in Nat
  OBVIOUS
<1>2. /\ Q \in Seq(Cell) /\ Len(Q) = Len(A) + Len(B) + Len(C)
      /\ R \in Seq(Cell) /\ Len(R) = Len(A2) + Len(B2) + Len(C2)
  BY DEF IsJoin
<1>3. Len(R) = Len(Q)
  <2>1. CASE Moved(A, B, A2, B2, k) /\ C2 = C
    BY <1>1, <1>2, <2>1 DEF Moved
  <2>2. CASE Moved(B, C, B2, C2, k) /\ A2 = A
    BY <1>1, <1>2, <2>2 DEF Moved
  <2>. QED
    BY <2>1, <2>2
<1>4. ASSUME NEW j \in 1 .. Len(R) PROVE R[j] = Q[j]
  <2>j. j \in Int
    OBVIOUS
  <2>1. CASE Moved(A, B, A2, B2, k) /\ C2 = C
    <3>1. k \in 1 .. Len(B) /\ Len(A2) = Len(A) + k /\ Len(B2) = Len(B) - k
      BY <2>1 DEF Moved
    <3>2. CASE j <= Len(A)
      <4>1. j \in 1 .. Len(A) /\ j \in 1 .. Len(A2)
        BY <1>1, <3>1, <3>2
      <4>. QED
        BY <2>1, <4>1 DEF Moved, IsJoin
    <3>3. CASE j > Len(A) /\ j <= Len(A) + k
      <4>i. PICK i : i = j - (Len(A))
        OBVIOUS
      <4>1. i \in 1 .. k /\ j = Len(A) + i
        BY <1>1, <2>j, <3>1, <3>3, <4>i
      <4>2. i \in 1 .. Len(B) /\ j \in 1 .. Len(A2)
        BY <1>1, <3>1, <3>3, <4>1
      <4>. QED
        BY <2>1, <4>1, <4>2 DEF Moved, IsJoin
    <3>4. CASE j > Len(A) + k /\ j <= Len(A) + Len(B)
      <4>i. PICK i : i = j - (Len(A2))
        OBVIOUS
      <4>1. i \in 1 .. Len(B2) /\ j = Len(A2) + i
        BY <1>1, <2>j, <3>1, <3>4, <4>i
      <4>2. k + i \in 1 .. Len(B) /\ j = Len(A) + (k + i) /\ i \in 1 .. Len(B) - k
        BY <1>1, <3>1, <3>4, <4>1
      <4>3. R[j] = B2[i]
        BY <3>1, <4>1, <4>i DEF IsJoin
      <4>4. B2[i] = B[k + i]
        BY <2>1, <4>2 DEF Moved
      <4>5. Q[j] = B[k + i]
        BY <4>2 DEF IsJoin
      <4>. QED
        BY <4>3, <4>4, <4>5
    <3>5. CASE j > Len(A) + Len(B)
      <4>i. PICK i : i = j - (Len(A) + Len(B))
        OBVIOUS
      <4>1. i \in 1 .. Len(C) /\ j = Len(A) + Len(B) + i
        BY <1>1, <2>j, <1>2, <1>3, <3>5, <4>i
      <4>2. j = Len(A2) + Len(B2) + i
        BY <1>1, <3>1, <4>1
      <4>3. R[j] = C[i]
        BY <2>1, <4>1, <4>2 DEF IsJoin
      <4>4. Q[j] = C[i]
        BY <4>1 DEF IsJoin
      <4>. QED
        BY <4>3, <4>4
    <3>. QED
      BY <1>1, <3>1, <3>2, <3>3, <3>4, <3>5
  <2>2. CASE Moved(B, C, B2, C2, k) /\ A2 = A
    <3>1. k \in 1 .. Len(C) /\ Len(B2) = Len(B) + k /\ Len(C2) = Len(C) - k
      BY <2>2 DEF Moved
    <3>2. CASE j <= Len(A)
      <4>1. j \in 1 .. Len(A)
        BY <1>1, <3>2
      <4>. QED
        BY <2>2, <4>1 DEF IsJoin
    <3>3. CASE j > Len(A) /\ j <= Len(A) + Len(B)
      <4>i. PICK i : i = j - (Len(A))
        OBVIOUS
      <4>1. i \in 1 .. Len(B) /\ j = Len(A) + i
        BY <1>1, <2>j, <3>1, <3>3, <4>i
      <4>2. i \in 1 .. Len(B2)
        BY <1>1, <3>1, <4>1
      <4>. QED
        BY <2>2, <4>1, <4>2 DEF Moved, IsJoin
    <3>4. CASE j > Len(A) + Len(B) /\ j <= Len(A) + Len(B) + k
      <4>i. PICK i : i = j - (Len(A) + Len(B))
        OBVIOUS
      <4>1. i \in 1 .. k /\ j = Len(A) + Len(B) + i
        BY <1>1, <2>j, <3>1, <3>4, <4>i
      <4>2. i \in 1 .. Len(C) /\ Len(B) + i \in 1 .. Len(B2) /\ j = Len(A) + (Len(B) + i)
        BY <1>1, <3>1, <4>1
      <4>. QED
        BY SMTT(30), <2>2, <4>1, <4>2 DEF Moved, IsJoin
    <3>5. CASE j > Len(A) + Len(B) + k
      <4>i. PICK i : i = j - (Len(A) + Len(B2))
        OBVIOUS
      <4>1. i \in 1 .. Len(C2) /\ j = Len(A) + Len(B2) + i
        BY <1>1, <2>j, <1>2, <2>2, <3>1, <3>5, <4>i
      <4>2. k + i \in 1 .. Len(C) /\ i \in 1 .. Len(C) - k /\ j = Len(A) + Len(B) + (k + i)
        BY <1>1, <3>1, <4>1
      <4>3. R[j] = C2[i]
        BY <2>2, <3>1, <4>1, <4>i DEF IsJoin
      <4>4. C2[i] = C[k + i]
        BY <2>2, <4>2 DEF Moved
      <4>5. Q[j] = C[k + i]
        BY <4>2 DEF IsJoin
      <4>. QED
        BY <4>3, <4>4, <4>5
    <3>. QED
      BY <1>1, <3>1, <3>2, <3>3, <3>4, <3>5
  <2>. QED
    BY <2>1, <2>2
<1>. QED
  <2>1. Len(R) <= Len(Q) - 0 /\ \A j \in 1 .. Len(R) : 0 + j = j
    BY <1>1, <1>2, <1>3
  <2>. QED
    BY <1>3, <1>4, <2>1, Zenon DEF PartOf

LEMMA StreamUntouchedWhenEnded ==
    ASSUME NEW t \in Side, StreamInv(t), ended'[t] # "no",
           understood'[t] = understood[t], sent'[Peer[t]] = sent[Peer[t]]
    PROVE  StreamInv(t)'
BY DEF StreamInv

LEMMA StreamAfterSendSome ==
    ASSUME IInv, NEW s \in Side, ended[s] = "no", SendSome(s), TypeOK'
    PROVE  \A t \in Side : StreamInv(t)'
<1>. DEFINE p == Peer[s]
<1>1. p \in Side /\ p # s /\ Peer[p] = s /\ \A t \in Side : t = s \/ t = p
  BY Sides
<1>2. TypeOK /\ StreamInv(s) /\ StreamInv(p)
  BY <1>1 DEF IInv
<1>3. UNCHANGED <<recvBuffer, understood, sent, ended>>
  BY DEF SendSome
<1>4. StreamInv(s)'
  <2>1. pipe'[s] = pipe[s] /\ sendBuffer'[p] = sendBuffer[p]
    BY <1>1, <1>2 DEF SendSome, TypeOK
  <2>. QED
    BY <1>2, <1>3, <2>1, StreamUntouched
<1>5. StreamInv(p)'
  <2>A. PICK A : A = recvBuffer[p]
    OBVIOUS
  <2>B. PICK B : B = pipe[p]
    OBVIOUS
  <2>C. PICK C : C = sendBuffer[s]
    OBVIOUS
  <2>1. A \in Seq(Cell) /\ B \in Seq(Cell) /\ C \in Seq(Cell)
    BY <1>1, <1>2, <2>A, <2>B, <2>C DEF TypeOK
  <2>2. PICK k \in 1 .. Len(C) :
            /\ pipe' = [pipe EXCEPT ![p] = @ \o SubSeq(C, 1, k)]
            /\ sendBuffer' = [sendBuffer EXCEPT ![s] = SubSeq(@, k + 1, Len(@))]
    <3>. DEFINE k == Smaller(Len(sendBuffer[s]), Capacity - Len(pipe[p]))
    <3>1. k \in 1 .. Len(C)
      <4>1. k > 0
        BY DEF SendSome
      <4>2. Len(C) \in Nat /\ Capacity - Len(pipe[p]) \in Int
        BY <1>1, <2>1, <2>B, TransmissionAssumption
      <4>. QED
        BY <2>C, <4>1, <4>2 DEF Smaller
    <3>2. /\ pipe' = [pipe EXCEPT ![p] = @ \o SubSeq(C, 1, k)]
          /\ sendBuffer' = [sendBuffer EXCEPT ![s] = SubSeq(@, k + 1, Len(@))]
      BY <2>C DEF SendSome
    <3>. HIDE DEF k
    <3>. QED
      BY <3>1, <3>2
  <2>B2. PICK B2 : B2 = B \o SubSeq(C, 1, k)
    OBVIOUS
  <2>C2. PICK C2 : C2 = SubSeq(C, k + 1, Len(C))
    OBVIOUS
  <2>3. B2 \in Seq(Cell) /\ C2 \in Seq(Cell) /\ Moved(B, C, B2, C2, k)
    BY <2>1, <2>B2, <2>C2, MovedSequences
  <2>Q. PICK Q : Q = Cells(p)
    OBVIOUS
  <2>R. PICK R : R = Cells(p)'
    OBVIOUS
  <2>4. Q = A \o B \o C
    BY <1>1, <2>A, <2>B, <2>C, <2>Q DEF Cells
  <2>5. R = A \o B2 \o C2
    <3>0. recvBuffer'[p] = A
      BY <1>3, <2>A
    <3>a. pipe'[p] = B2
      <4>1. pipe' = [pipe EXCEPT ![p] = @ \o SubSeq(C, 1, k)] /\ p \in DOMAIN pipe
        BY <1>1, <1>2, <2>2 DEF TypeOK
      <4>. QED
        BY <2>B, <2>B2, <4>1, Zenon
    <3>b. sendBuffer'[s] = C2
      <4>1. sendBuffer' = [sendBuffer EXCEPT ![s] = SubSeq(@, k + 1, Len(@))] /\ s \in DOMAIN sendBuffer
        BY <1>1, <1>2, <2>2 DEF TypeOK
      <4>. QED
        BY <2>C, <2>C2, <4>1, Zenon
    <3>1. pipe'[p] = B2 /\ sendBuffer'[s] = C2
      BY <3>a, <3>b
    <3>. QED
      BY <1>1, <2>R, <3>0, <3>1 DEF Cells
  <2>6. IsJoin(Q, A, B, C) /\ IsJoin(R, A, B2, C2)
    BY <2>1, <2>3, <2>4, <2>5, JoinedThree
  <2>7. Len(R) = Len(Q) /\ PartOf(R, Q, 0)
    BY <2>1, <2>3, <2>6, Regrouped
  <2>8. Q \in Seq(Cell) /\ R \in Seq(Cell)
    BY <2>6 DEF IsJoin
  <2>9. Len(R) <= Len(Q) /\ \A j \in 1 .. Len(R) : R[j] = Q[j]
    BY <2>7, <2>8 DEF PartOf
  <2>10. sent[s] \in Nat
    BY <1>2 DEF TypeOK
  <2>. QED
    BY <1>1, <1>2, <1>3, <2>7, <2>8, <2>9, <2>10, <2>Q, <2>R, StreamKept
<1>. QED
  BY <1>1, <1>4, <1>5

LEMMA StreamAfterSendToNobody ==
    ASSUME IInv, NEW s \in Side, ended[s] = "no", SendToNobody(s)
    PROVE  \A t \in Side : StreamInv(t)'
<1>. DEFINE p == Peer[s]
<1>1. p \in Side /\ p # s /\ Peer[p] = s /\ \A t \in Side : t = s \/ t = p
  BY Sides
<1>2. TypeOK /\ StreamInv(s) /\ StreamInv(p)
  BY <1>1 DEF IInv
<1>3. UNCHANGED <<sent, understood>> /\ ended[p] # "no"
  BY DEF SendToNobody
<1>4. ended'[p] = ended[p]
  BY <1>1, <1>2 DEF SendToNobody, Close, TypeOK
<1>5. StreamInv(p)'
  BY <1>1, <1>2, <1>3, <1>4, StreamUntouchedWhenEnded
<1>6. CASE UNCHANGED <<recvBuffer, pipe, ended>> /\ sendBuffer' = [sendBuffer EXCEPT ![s] = <<>>]
  <2>1. sendBuffer'[p] = sendBuffer[p]
    BY <1>1, <1>2, <1>6 DEF TypeOK
  <2>. QED
    BY <1>1, <1>2, <1>3, <1>5, <1>6, <2>1, StreamUntouched
<1>7. CASE Close(s, "found")
  <2>1. ended'[s] # "no"
    BY <1>2, <1>7 DEF Close, TypeOK
  <2>. QED
    BY <1>1, <1>2, <1>3, <1>5, <2>1, StreamUntouchedWhenEnded
<1>. QED
  BY <1>6, <1>7 DEF SendToNobody

LEMMA StreamAfterReceiveNothing ==
    ASSUME IInv, NEW s \in Side, ReceiveNothing(s)
    PROVE  \A t \in Side : StreamInv(t)'
<1>. SUFFICES ASSUME NEW t \in Side PROVE StreamInv(t)'
  OBVIOUS
<1>1. TypeOK /\ StreamInv(t)
  BY DEF IInv
<1>. QED
  BY <1>1, StreamUntouched DEF ReceiveNothing

LEMMA StreamAfterReceiveZero ==
    ASSUME IInv, NEW s \in Side, ended[s] = "no", ReceiveZero(s)
    PROVE  \A t \in Side : StreamInv(t)'
<1>. DEFINE p == Peer[s]
<1>1. p \in Side /\ p # s /\ Peer[p] = s /\ \A t \in Side : t = s \/ t = p
  BY Sides
<1>2. TypeOK /\ StreamInv(s) /\ StreamInv(p) /\ sendBuffer[s] = <<>>
  BY <1>1 DEF IInv, TypeOK, ReceiveZero
<1>3. /\ UNCHANGED <<sent, understood>> /\ Close(s, "found")
      /\ pipe' = [pipe EXCEPT ![s] = <<>>]
  BY DEF ReceiveZero
<1>4. ended'[s] # "no"
  BY <1>2, <1>3 DEF Close, TypeOK
<1>5. StreamInv(s)'
  BY <1>1, <1>2, <1>3, <1>4, StreamUntouchedWhenEnded
<1>6. /\ recvBuffer'[p] = recvBuffer[p] /\ pipe'[p] = pipe[p] /\ sendBuffer'[s] = sendBuffer[s]
      /\ ended'[p] = ended[p]
  BY <1>1, <1>2, <1>3 DEF Close, TypeOK
<1>7. StreamInv(p)'
  BY <1>1, <1>2, <1>3, <1>4, <1>6, StreamUntouched
<1>. QED
  BY <1>1, <1>5, <1>7

LEMMA StreamAfterKill ==
    ASSUME IInv, NEW s \in Side, ended[s] = "no", Kill(s)
    PROVE  \A t \in Side : StreamInv(t)'
<1>. DEFINE p == Peer[s]
<1>1. p \in Side /\ p # s /\ Peer[p] = s /\ \A t \in Side : t = s \/ t = p
  BY Sides
<1>2. TypeOK /\ StreamInv(s) /\ StreamInv(p)
  BY <1>1 DEF IInv
<1>3. UNCHANGED <<sent, understood>> /\ Close(s, "left")
  BY DEF Kill
<1>4. ended'[s] # "no"
  BY <1>2, <1>3 DEF Close, TypeOK
<1>5. StreamInv(s)'
  BY <1>1, <1>2, <1>3, <1>4, StreamUntouchedWhenEnded
<1>6. StreamInv(p)'
  <2>A. PICK A : A = recvBuffer[p]
    OBVIOUS
  <2>B. PICK B : B = pipe[p]
    OBVIOUS
  <2>C. PICK C : C = sendBuffer[s]
    OBVIOUS
  <2>Q. PICK Q : Q = Cells(p)
    OBVIOUS
  <2>R. PICK R : R = Cells(p)'
    OBVIOUS
  <2>1. A \in Seq(Cell) /\ B \in Seq(Cell) /\ C \in Seq(Cell) /\ <<>> \in Seq(Cell)
    BY <1>1, <1>2, <2>A, <2>B, <2>C DEF TypeOK
  <2>2. PICK rest \in {B, <<>>} : pipe' = [pipe EXCEPT ![s] = <<>>, ![p] = rest]
    BY <2>B DEF Kill
  <2>3. Q = A \o B \o C
    BY <1>1, <2>A, <2>B, <2>C, <2>Q DEF Cells
  <2>4. R = A \o rest \o <<>>
    <3>1. pipe'[p] = rest /\ sendBuffer'[s] = <<>> /\ recvBuffer'[p] = A
      BY <1>1, <1>2, <1>3, <2>2, <2>A DEF Close, TypeOK
    <3>. QED
      BY <1>1, <2>R, <3>1 DEF Cells
  <2>5. rest \in Seq(Cell) /\ Len(rest) <= Len(B) /\ \A j \in 1 .. Len(rest) : j \in 1 .. Len(B) /\ rest[j] = B[j]
    <3>1. CASE rest = B
      BY <2>1, <3>1
    <3>2. CASE rest = <<>>
      BY <2>1, <3>2
    <3>. QED
      BY <2>2, <3>1, <3>2
  <2>6. IsJoin(Q, A, B, C) /\ IsJoin(R, A, rest, <<>>)
    BY <2>1, <2>3, <2>4, <2>5, JoinedThree
  <2>7. Q \in Seq(Cell) /\ R \in Seq(Cell) /\ Len(R) <= Len(Q)
    BY <2>1, <2>5, <2>6 DEF IsJoin
  <2>8. ASSUME NEW j \in 1 .. Len(R) PROVE R[j] = Q[j]
    <3>1. Len(R) = Len(A) + Len(rest) /\ j \in Int /\ Len(A) \in Nat /\ Len(rest) \in Nat
      BY <2>1, <2>5, <2>6 DEF IsJoin
    <3>2. CASE j <= Len(A)
      <4>1. j \in 1 .. Len(A)
        BY <3>1, <3>2
      <4>. QED
        BY <2>6, <4>1 DEF IsJoin
    <3>3. CASE j > Len(A)
      <4>i. PICK i : i = j - Len(A)
        OBVIOUS
      <4>1. i \in 1 .. Len(rest) /\ j = Len(A) + i
        BY <3>1, <3>3, <4>i
      <4>2. R[j] = rest[i]
        BY <2>6, <4>1 DEF IsJoin
      <4>3. Q[j] = B[i]
        BY <2>5, <2>6, <4>1 DEF IsJoin
      <4>. QED
        BY <2>5, <4>1, <4>2, <4>3
    <3>. QED
      BY <3>1, <3>2, <3>3
  <2>9. sent[s] \in Nat /\ ended'[p] = ended[p]
    BY <1>1, <1>2, <1>3 DEF TypeOK, Close
  <2>. QED
    BY <1>1, <1>2, <1>3, <1>4, <2>7, <2>8, <2>9, <2>Q, <2>R, StreamKept
<1>. QED
  BY <1>1, <1>5, <1>6

(* The end of a connection behind a stream                                  *)
LEMMA DisconnectOrderly ==
    ASSUME NEW Q \in Seq(Cell), NEW g, Orderly(Q, g), Boundary(Q, Len(Q)),
           NEW R \in Seq(Cell), Len(R) = Len(Q) + 1, R[Len(R)] = DISCONNECT,
           \A j \in 1 .. Len(Q) : R[j] = Q[j]
    PROVE  \E h : Orderly(R, h) /\ h[0] = g[0] /\ h[Len(R)] = g[Len(Q)]
<1>l. PICK l \in Nat : l = Len(Q)
  OBVIOUS
<1>1. /\ g \in [0 .. l -> Nat] /\ \A j \in 1 .. l : CellInv(Q, g, j)
      /\ Len(R) = l + 1 /\ R[l + 1] = DISCONNECT /\ DISCONNECT[1] = 0
      /\ \A j \in 1 .. l : R[j] = Q[j]
  BY <1>l, CellFacts DEF Orderly
<1>h. PICK h : h = [j \in 0 .. l + 1 |-> IF j <= l THEN g[j] ELSE g[l]]
  OBVIOUS
<1>2. h \in [0 .. l + 1 -> Nat] /\ (\A j \in 0 .. l : h[j] = g[j]) /\ h[l + 1] = g[l]
  BY <1>1, <1>h
<1>3. ASSUME NEW j \in 1 .. l PROVE CellInv(R, h, j)
  <2>1. CellInv(Q, g, j) /\ R[j] = Q[j] /\ j \in 0 .. l /\ j - 1 \in 0 .. l
        /\ h[j] = g[j] /\ h[j - 1] = g[j - 1]
    BY <1>1, <1>2
  <2>2. j > 1 => R[j - 1] = Q[j - 1]
    <3>1. j > 1 => j - 1 \in 1 .. l
      OBVIOUS
    <3>. QED
      BY <1>1, <3>1
  <2>3. j < l => R[j + 1] = Q[j + 1]
    <3>1. j < l => j + 1 \in 1 .. l
      OBVIOUS
    <3>. QED
      BY <1>1, <3>1
  <2>4. R[j][1] # 0 /\ R[j][2] < Size => j < l
    <3>1. j = l => Q[j][1] = 0 \/ Q[j][2] = Size
      BY <1>l DEF Boundary
    <3>2. Size \in Nat
      BY TransmissionAssumption
    <3>. QED
      BY <2>1, <3>1, <3>2
  <2>5. R[j][1] = 0 => h[j] = h[j - 1]
    BY <2>1 DEF CellInv
  <2>6. R[j][1] # 0 => R[j][1] = h[j] /\ h[j] = h[j - 1] + (IF R[j][2] = 1 THEN 1 ELSE 0)
    BY <2>1 DEF CellInv
  <2>7. j > 1 /\ R[j][1] # 0 /\ R[j][2] > 1 => R[j - 1][1] # 0 /\ R[j - 1][2] = R[j][2] - 1
    BY <2>1, <2>2 DEF CellInv
  <2>8. R[j][1] # 0 /\ R[j][2] < Size /\ j < Len(R) => R[j + 1][1] # 0 /\ R[j + 1][2] = R[j][2] + 1
    BY <1>l, <2>1, <2>3, <2>4 DEF CellInv
  <2>. QED
    BY <2>5, <2>6, <2>7, <2>8 DEF CellInv
<1>4. CellInv(R, h, l + 1)
  <2>1. R[l + 1][1] = 0 /\ h[l + 1] = h[(l + 1) - 1]
    BY <1>1, <1>2
  <2>. QED
    BY <2>1 DEF CellInv
<1>5. \A j \in 1 .. l + 1 : CellInv(R, h, j)
  <2>1. \A j \in 1 .. l + 1 : j = l + 1 \/ j \in 1 .. l
    OBVIOUS
  <2>. QED
    BY <1>3, <1>4, <2>1
<1>6. Orderly(R, h) /\ h[0] = g[0] /\ h[Len(R)] = g[Len(Q)]
  BY <1>l, <1>1, <1>2, <1>5 DEF Orderly
<1>. QED
  BY <1>6

LEMMA StreamAfterLeave ==
    ASSUME IInv, NEW s \in Side, ended[s] = "no", Leave(s)
    PROVE  \A t \in Side : StreamInv(t)'
<1>. DEFINE p == Peer[s]
<1>1. p \in Side /\ p # s /\ Peer[p] = s /\ \A t \in Side : t = s \/ t = p
  BY Sides
<1>2. TypeOK /\ StreamInv(s) /\ StreamInv(p) /\ sendBuffer[s] = <<>>
  BY <1>1 DEF IInv, TypeOK, Leave
<1>3. UNCHANGED <<sent, understood>> /\ Close(s, "left")
  BY DEF Leave
<1>4. ended'[s] # "no" /\ ended'[p] = ended[p] /\ recvBuffer'[p] = recvBuffer[p]
      /\ sendBuffer'[s] = <<>>
  BY <1>1, <1>2, <1>3 DEF Close, TypeOK
<1>5. StreamInv(s)'
  BY <1>1, <1>2, <1>3, <1>4, StreamUntouchedWhenEnded
<1>6. StreamInv(p)'
  <2>1. CASE pipe'[p] = pipe[p]
    BY <1>1, <1>2, <1>3, <1>4, <2>1, StreamUntouched
  <2>2. CASE pipe'[p] # pipe[p]
    <3>1. pipe'[p] = Append(pipe[p], DISCONNECT) /\ ended[p] = "no"
      BY <1>1, <1>2, <2>2 DEF Leave, TypeOK
    <3>A. PICK A : A = recvBuffer[p]
      OBVIOUS
    <3>B. PICK B : B = pipe[p]
      OBVIOUS
    <3>B2. PICK B2 : B2 = Append(B, DISCONNECT)
      OBVIOUS
    <3>Q. PICK Q : Q = Cells(p)
      OBVIOUS
    <3>R. PICK R : R = Cells(p)'
      OBVIOUS
    <3>2. A \in Seq(Cell) /\ B \in Seq(Cell) /\ <<>> \in Seq(Cell)
      BY <1>1, <1>2, <3>A, <3>B DEF TypeOK
    <3>3. /\ B2 \in Seq(Cell) /\ Len(B2) = Len(B) + 1 /\ B2[Len(B) + 1] = DISCONNECT
          /\ \A j \in 1 .. Len(B) : B2[j] = B[j]
      BY <3>2, <3>B2, CellFacts
    <3>4. Q = A \o B \o <<>> /\ R = A \o B2 \o <<>>
      BY <1>1, <1>2, <1>4, <3>1, <3>A, <3>B, <3>B2, <3>Q, <3>R DEF Cells
    <3>5. IsJoin(Q, A, B, <<>>) /\ IsJoin(R, A, B2, <<>>)
      BY <3>2, <3>3, <3>4, JoinedThree
    <3>6. /\ Q \in Seq(Cell) /\ R \in Seq(Cell) /\ Len(Q) = Len(A) + Len(B)
          /\ Len(R) = Len(Q) + 1 /\ Len(A) \in Nat /\ Len(B) \in Nat
      BY <3>2, <3>3, <3>5 DEF IsJoin
    <3>7. R[Len(R)] = DISCONNECT
      <4>1. Len(B) + 1 \in 1 .. Len(B2) /\ Len(R) = Len(A) + (Len(B) + 1)
        BY <3>3, <3>6
      <4>. QED
        BY <3>3, <3>5, <4>1 DEF IsJoin
    <3>8. ASSUME NEW j \in 1 .. Len(Q) PROVE R[j] = Q[j]
      <4>1. CASE j <= Len(A)
        <5>1. j \in 1 .. Len(A)
          BY <3>6, <4>1
        <5>. QED
          BY <3>5, <5>1 DEF IsJoin
      <4>2. CASE j > Len(A)
        <5>i. PICK i : i = j - Len(A)
          OBVIOUS
        <5>1. i \in 1 .. Len(B) /\ i \in 1 .. Len(B2) /\ j = Len(A) + i
          BY <3>3, <3>6, <4>2, <5>i
        <5>2. R[j] = B2[i]
          BY <3>5, <5>1 DEF IsJoin
        <5>3. Q[j] = B[i]
          BY <3>5, <5>1 DEF IsJoin
        <5>. QED
          BY <3>3, <5>1, <5>2, <5>3
      <4>. QED
        BY <3>6, <4>1, <4>2
    <3>9. PICK g : Labelled(p, Q, g)
      BY <1>2, <3>1, <3>Q DEF StreamInv
    <3>10. /\ Orderly(Q, g) /\ Taken(understood[p], g[0]) /\ g[Len(Q)] <= sent[s]
           /\ Q = <<>> \/ Q[Len(Q)] = EOT
      BY <1>1, <3>9 DEF Labelled
    <3>11. Boundary(Q, Len(Q))
      BY <3>10, CellFacts DEF Boundary
    <3>12. PICK h : Orderly(R, h) /\ h[0] = g[0] /\ h[Len(R)] = g[Len(Q)]
      BY <3>6, <3>7, <3>8, <3>10, <3>11, DisconnectOrderly
    <3>13. Labelled(p, R, h)'
      BY <1>1, <1>3, <1>4, <3>10, <3>12 DEF Labelled
    <3>. QED
      BY <1>2, <1>3, <3>13, <3>R DEF StreamInv
  <2>. QED
    BY <2>1, <2>2
<1>. QED
  BY <1>1, <1>5, <1>6

(* The n messages after the first u; the one after them may be cut off.     *)
LEMMA TakenOn ==
    ASSUME NEW q, q \in Seq(Nat), NEW u \in Nat, Taken(q, u), NEW n \in Nat,
           NEW w, w = [i \in 1 .. n |-> u + i], NEW v,
           v = u + n \/ (v = u + n + 1 /\ v \in Fragile)
    PROVE  Taken(q \o w, v)
<1>l. PICK l \in Nat : l = Len(q)
  OBVIOUS
<1>Q. PICK Q : Q = q \o w
  OBVIOUS
<1>1. /\ Len(Q) = l + n
      /\ \A i \in 1 .. l : Q[i] = q[i]
      /\ \A i \in 1 .. n : Q[l + i] = u + i
  <2>1. w \in Seq(Nat) /\ Len(w) = n /\ \A i \in 1 .. n : w[i] = u + i
    OBVIOUS
  <2>. QED
    BY <1>l, <1>Q, <2>1
<1>2. /\ \A i \in 1 .. l : q[i] \in 1 .. u
      /\ \A i, j \in 1 .. l : i < j => q[i] < q[j]
      /\ \A m \in 1 .. u : m \in Fragile \/ \E i \in 1 .. l : q[i] = m
  BY <1>l DEF Taken
<1>3. \A i \in 1 .. l + n : i \in 1 .. l \/ (i - l \in 1 .. n /\ i = l + (i - l))
  OBVIOUS
<1>4. \A i \in 1 .. l + n : IF i <= l THEN Q[i] = q[i] /\ q[i] \in 1 .. u
                                        ELSE Q[i] = u + (i - l) /\ i - l \in 1 .. n
  <2>. TAKE i \in 1 .. l + n
  <2>1. CASE i <= l
    BY <1>1, <1>2, <2>1
  <2>2. CASE ~(i <= l)
    <3>j. PICK j : j = i - l
      OBVIOUS
    <3>1. j \in 1 .. n /\ l + j = i
      BY <2>2, <3>j
    <3>. QED
      BY <1>1, <2>2, <3>j, <3>1
  <2>. QED
    BY <2>1, <2>2
<1>5. v \in Nat /\ u + n <= v
  OBVIOUS
<1>6. ASSUME NEW i \in 1 .. l + n PROVE Q[i] \in 1 .. v
  <2>1. CASE i <= l
    BY <1>4, <1>5, <2>1
  <2>2. CASE ~(i <= l)
    BY <1>4, <1>5, <2>2
  <2>. QED
    BY <2>1, <2>2
<1>7. ASSUME NEW i \in 1 .. l + n, NEW j \in 1 .. l + n, i < j PROVE Q[i] < Q[j]
  <2>1. CASE j <= l
    BY <1>2, <1>4, <1>7, <2>1
  <2>2. CASE i <= l /\ ~(j <= l)
    BY <1>4, <2>2
  <2>3. CASE ~(i <= l)
    BY <1>4, <1>7, <2>3
  <2>. QED
    BY <1>7, <2>1, <2>2, <2>3
<1>8. ASSUME NEW m \in 1 .. v PROVE m \in Fragile \/ \E i \in 1 .. l + n : Q[i] = m
  <2>1. CASE m <= u
    <3>1. m \in 1 .. u
      BY <2>1
    <3>2. CASE m \in Fragile
      BY <3>2
    <3>3. CASE \E i \in 1 .. l : q[i] = m
      <4>1. PICK i \in 1 .. l : q[i] = m
        BY <3>3
      <4>2. i \in 1 .. l + n /\ Q[i] = m
        BY <1>1, <4>1
      <4>. QED
        BY <4>2
    <3>. QED
      BY <1>2, <3>1, <3>2, <3>3
  <2>2. CASE u < m /\ m <= u + n
    <3>i. PICK i : i = m - u
      OBVIOUS
    <3>1. i \in 1 .. n /\ l + i \in 1 .. l + n /\ u + i = m
      BY <2>2, <3>i
    <3>. QED
      BY <1>1, <3>1
  <2>3. CASE u + n < m
    BY <1>5, <2>3
  <2>. QED
    BY <1>5, <2>1, <2>2, <2>3
<1>9. Taken(Q, v)
  BY <1>1, <1>6, <1>7, <1>8 DEF Taken
<1>. QED
  BY <1>Q, <1>9

(* The parser takes n messages from buf, whose labels go from a to b.       *)
Takes(buf, a, b, n) ==
    /\ Understood(buf) = [i \in 1 .. n |-> a + i]
    /\ b = a + n \/ (b = a + n + 1 /\ (EndsHere(buf) => b \in Fragile))

(* What the parser takes from the beginning of a stream                     *)
LEMMA PrefixTaken ==
    ASSUME NEW Q \in Seq(Cell), NEW g, Orderly(Q, g), NEW buf \in Seq(Cell), PartOf(buf, Q, 0)
    PROVE  /\ g[0] \in Nat /\ g[Len(buf)] \in Nat /\ g[Len(buf)] <= g[Len(Q)] /\ g[Len(Q)] \in Nat
           /\ \E n \in Nat : Takes(buf, g[0], g[Len(buf)], n)
<1>l. PICK l \in Nat : l = Len(Q)
  OBVIOUS
<1>n. PICK b \in Nat : b = Len(buf)
  OBVIOUS
<1>1. b \in 0 .. l /\ (\A j \in 1 .. b : buf[j] = Q[0 + j]) /\ b <= l - 0
  BY <1>l, <1>n DEF PartOf
<1>f. PICK f : f = [j \in 0 .. b |-> g[0 + j]]
  OBVIOUS
<1>2. Orderly(buf, f)
  <2>1. 0 \in 0 .. Len(Q)
    OBVIOUS
  <2>2. Orderly(buf, [j \in 0 .. Len(buf) |-> g[0 + j]])
    BY <1>l, <1>n, <1>1, <2>1, PieceOrderly
  <2>. QED
    BY <1>n, <1>f, <2>2
<1>3. f[0] = g[0] /\ f[b] = g[b]
  BY <1>f
<1>4. g[b] <= g[l] /\ g[b] \in Nat /\ g[l] \in Nat /\ g[0] \in Nat
  BY <1>l, <1>1, LabelsGrow
<1>5. PICK n \in Nat :
        /\ Understood(buf) = [i \in 1 .. n |-> f[0] + i]
        /\ f[b] = f[0] + n \/ (f[b] = f[0] + n + 1 /\ Cut(buf, f))
  BY <1>n, <1>2, MessagesTaken
<1>6. Understood(buf) = [i \in 1 .. n |-> g[0] + i]
  BY <1>3, <1>5
<1>7. ASSUME Cut(buf, f), EndsHere(buf) PROVE g[b] \in Fragile
  <2>c. PICK c : c = buf[b]
    OBVIOUS
  <2>1. c[1] = g[b] /\ c[1] # 0 /\ c[2] < Size /\ c \in {EOT, DISCONNECT} \cup MarkerLike
    BY <1>n, <1>3, <1>7, <2>c DEF Cut, EndsHere
  <2>2. c \in MarkerLike
    BY <2>1, CellFacts
  <2>3. c = <<c[1], c[2]>> /\ c[1] \in 1 .. MaxMessages /\ c[2] \in 2 .. Size
    BY <2>2, TransmissionAssumption
  <2>4. c[2] \in 2 .. Size - 1
    BY <2>1, <2>3, TransmissionAssumption
  <2>. QED
    BY <2>1, <2>2, <2>3, <2>4 DEF Fragile
<1>8. g[b] = g[0] + n \/ (g[b] = g[0] + n + 1 /\ (EndsHere(buf) => g[b] \in Fragile))
  BY <1>3, <1>5, <1>7
<1>9. Takes(buf, g[0], g[b], n)
  BY <1>6, <1>8, Zenon DEF Takes
<1>. QED
  BY <1>l, <1>n, <1>4, <1>9

(* A side parses the first part of its stream, which looks ended.           *)
LEMMA StreamParsed ==
    ASSUME NEW s \in Side, StreamInv(s), TypeOK, ended[s] = "no",
           NEW Q \in Seq(Cell), Q = Cells(s), NEW buf \in Seq(Cell), NEW R \in Seq(Cell),
           PartOf(buf, Q, 0), EndsHere(buf),
           Len(R) = Len(Q) - Len(buf), PartOf(R, Q, Len(buf)), R = Cells(s)',
           understood'[s] = understood[s] \o Understood(buf), sent'[Peer[s]] = sent[Peer[s]],
           ended'[Peer[s]] = ended[Peer[s]]
    PROVE  StreamInv(s)'
<1>l. PICK l \in Nat : l = Len(Q)
  OBVIOUS
<1>n. PICK n \in Nat : n = Len(buf)
  OBVIOUS
<1>1. n \in 0 .. l /\ (\A j \in 1 .. n : buf[j] = Q[0 + j]) /\ n <= l - 0
  <2>1. Len(R) \in Nat
    OBVIOUS
  <2>. QED
    BY <1>l, <1>n, <2>1 DEF PartOf
<1>2. PICK g : Labelled(s, Q, g)
  BY DEF StreamInv
<1>3. Orderly(Q, g) /\ Taken(understood[s], g[0]) /\ g[l] <= sent[Peer[s]]
  BY <1>l, <1>2 DEF Labelled
<1>4. g[0] \in Nat /\ g[n] \in Nat /\ g[n] <= g[l] /\ g[l] \in Nat
  BY <1>l, <1>n, <1>3, PrefixTaken
<1>5. PICK k \in Nat : Takes(buf, g[0], g[n], k)
  BY <1>n, <1>3, PrefixTaken
<1>8. Taken(understood'[s], g[n])
  <2>1. understood[s] \in Seq(Nat)
    BY TransmissionAssumption DEF TypeOK
  <2>w. PICK w : w = Understood(buf)
    OBVIOUS
  <2>2. w = [i \in 1 .. k |-> g[0] + i] /\ (g[n] = g[0] + k \/ (g[n] = g[0] + k + 1 /\ g[n] \in Fragile))
    BY <1>5, <2>w, Zenon DEF Takes
  <2>3. Taken(understood[s] \o w, g[n])
    BY <1>3, <1>4, <2>1, <2>2, TakenOn, Zenon
  <2>. QED
    BY <2>w, <2>3, Zenon
<1>9. \E u \in 0 .. sent'[Peer[s]] : Taken(understood'[s], u)
  <2>1. sent[Peer[s]] \in Nat
    BY CellsTypes, Zenon
  <2>2. g[n] \in 0 .. sent'[Peer[s]]
    BY <1>3, <1>4, <2>1
  <2>. QED
    BY <1>8, <2>2
<1>h. PICK h : h = [j \in 0 .. Len(R) |-> g[n + j]]
  OBVIOUS
<1>10. Orderly(R, h)
  <2>1. n \in 0 .. Len(Q)
    BY <1>l, <1>1
  <2>2. Len(R) <= Len(Q) - n /\ \A j \in 1 .. Len(R) : R[j] = Q[n + j]
    BY <1>n DEF PartOf
  <2>3. Orderly(R, [j \in 0 .. Len(R) |-> g[n + j]])
    BY <1>3, <2>1, <2>2, PieceOrderly
  <2>. QED
    BY <1>h, <2>3
<1>11. h[0] = g[n] /\ h[Len(R)] = g[l] /\ Len(R) = l - n
  <2>r. PICK r \in Nat : r = Len(R)
    BY LengthNat, Zenon
  <2>1. r = l - n
    BY <1>l, <1>n, <2>r
  <2>2. 0 \in 0 .. r /\ r \in 0 .. r /\ n + 0 = n /\ n + r = l
    BY <1>1, <2>1
  <2>3. h[0] = g[n] /\ h[r] = g[l]
    BY <1>h, <2>r, <2>2
  <2>. QED
    BY <2>r, <2>1, <2>3
<1>12. ASSUME ended'[Peer[s]] = "no"
       PROVE  /\ h[Len(R)] = sent'[Peer[s]]
              /\ R = <<>> \/ R[Len(R)] = EOT
              /\ \A j \in 1 .. Len(R) : R[j] # DISCONNECT
  <2>1. /\ g[l] = sent[Peer[s]]
        /\ Q = <<>> \/ Q[l] = EOT
        /\ \A j \in 1 .. l : Q[j] # DISCONNECT
    BY <1>l, <1>2, <1>12 DEF Labelled
  <2>2. \A j \in 1 .. Len(R) : R[j] = Q[n + j] /\ n + j \in 1 .. l
    BY <1>l, <1>n, <1>1 DEF PartOf
  <2>3. R = <<>> \/ R[Len(R)] = EOT
    <3>1. CASE Len(R) = 0
      BY <3>1
    <3>2. CASE Len(R) # 0
      <4>r. PICK r \in Nat : r = Len(R)
        BY LengthNat, Zenon
      <4>1. Len(R) \in 1 .. Len(R) /\ n + Len(R) = l
        <5>1. r # 0 /\ r = l - n
          BY <1>11, <3>2, <4>r
        <5>2. r \in 1 .. r /\ n + r = l
          BY <5>1
        <5>. QED
          BY <4>r, <5>2
      <4>2. Q # <<>>
        BY <1>l, <1>1, <4>1
      <4>. QED
        BY <2>1, <2>2, <4>1, <4>2
    <3>. QED
      BY <3>1, <3>2
  <2>. QED
    BY <1>11, <2>1, <2>2, <2>3
<1>13. Labelled(s, R, h)'
  BY <1>3, <1>8, <1>10, <1>11, <1>12 DEF Labelled
<1>. QED
  BY <1>9, <1>13 DEF StreamInv

(* What is parsed, and what stays behind it                                 *)
LEMMA PieceParsed ==
    ASSUME NEW A \in Seq(Cell), NEW B \in Seq(Cell), NEW C \in Seq(Cell), NEW Q, IsJoin(Q, A, B, C),
           NEW buf \in Seq(Cell), NEW B2 \in Seq(Cell), NEW k, Moved(A, B, buf, B2, k),
           NEW R, IsJoin(R, <<>>, B2, C)
    PROVE  /\ PartOf(buf, Q, 0) /\ Len(R) = Len(Q) - Len(buf) /\ R \in Seq(Cell)
           /\ PartOf(R, Q, Len(buf))
<1>1. /\ Len(A) \in Nat /\ Len(B) \in Nat /\ Len(C) \in Nat
      /\ Len(buf) \in Nat /\ Len(B2) \in Nat /\ Len(<<>>) = 0
  OBVIOUS
<1>2. /\ Q \in Seq(Cell) /\ Len(Q) = Len(A) + Len(B) + Len(C)
      /\ R \in Seq(Cell) /\ Len(R) = Len(B2) + Len(C)
      /\ k \in 1 .. Len(B) /\ Len(buf) = Len(A) + k /\ Len(B2) = Len(B) - k
  BY <1>1 DEF IsJoin, Moved
<1>3. Len(R) = Len(Q) - Len(buf) /\ Len(buf) <= Len(Q) - 0 /\ Len(R) <= Len(Q) - Len(buf)
  BY <1>1, <1>2
<1>4. ASSUME NEW j \in 1 .. Len(buf) PROVE buf[j] = Q[0 + j]
  <2>1. 0 + j = j /\ j \in Int
    OBVIOUS
  <2>2. CASE j <= Len(A)
    <3>1. j \in 1 .. Len(A)
      BY <1>1, <2>1, <2>2
    <3>. QED
      BY <2>1, <3>1 DEF IsJoin, Moved
  <2>3. CASE j > Len(A)
    <3>i. PICK i : i = j - Len(A)
      OBVIOUS
    <3>1. i \in 1 .. k /\ i \in 1 .. Len(B) /\ j = Len(A) + i
      BY <1>1, <1>2, <2>1, <2>3, <3>i
    <3>2. buf[j] = B[i]
      BY <3>1 DEF Moved
    <3>3. Q[j] = B[i]
      BY <3>1 DEF IsJoin
    <3>. QED
      BY <2>1, <3>2, <3>3
  <2>4. j <= Len(A) \/ j > Len(A)
    BY <1>1, <2>1
  <2>. QED
    BY <2>2, <2>3, <2>4, Zenon
<1>5. ASSUME NEW j \in 1 .. Len(R) PROVE R[j] = Q[Len(buf) + j]
  <2>1. j \in Int
    OBVIOUS
  <2>2. CASE j <= Len(B2)
    <3>1. j \in 1 .. Len(B2) /\ Len(<<>>) + j = j /\ j \in 1 .. Len(B) - k
          /\ k + j \in 1 .. Len(B) /\ Len(buf) + j = Len(A) + (k + j)
      BY <1>1, <1>2, <2>1, <2>2
    <3>2. R[j] = B2[j]
      BY <3>1 DEF IsJoin
    <3>3. B2[j] = B[k + j]
      BY <3>1 DEF Moved
    <3>4. Q[Len(A) + (k + j)] = B[k + j]
      BY <3>1 DEF IsJoin
    <3>. QED
      BY <3>1, <3>2, <3>3, <3>4
  <2>3. CASE j > Len(B2)
    <3>i. PICK i : i = j - Len(B2)
      OBVIOUS
    <3>1. i \in 1 .. Len(C) /\ j = Len(<<>>) + Len(B2) + i
          /\ Len(buf) + j = Len(A) + Len(B) + i
      BY <1>1, <1>2, <2>1, <2>3, <3>i
    <3>2. R[j] = C[i]
      BY <3>1 DEF IsJoin
    <3>3. Q[Len(A) + Len(B) + i] = C[i]
      BY <3>1 DEF IsJoin
    <3>. QED
      BY <3>1, <3>2, <3>3
  <2>4. j <= Len(B2) \/ j > Len(B2)
    BY <1>1, <2>1
  <2>. QED
    BY <2>2, <2>3, <2>4, Zenon
<1>. QED
  BY <1>2, <1>3, <1>4, <1>5 DEF PartOf

LEMMA StreamAfterReceiveSome ==
    ASSUME IInv, NEW s \in Side, ended[s] = "no", ReceiveSome(s)
    PROVE  \A t \in Side : StreamInv(t)'
<1>. DEFINE p == Peer[s]
<1>1. p \in Side /\ p # s /\ Peer[p] = s /\ \A t \in Side : t = s \/ t = p
  BY Sides
<1>2. TypeOK /\ StreamInv(s) /\ StreamInv(p) /\ sendBuffer[s] = <<>>
  BY <1>1 DEF IInv, TypeOK, ReceiveSome
<1>A. PICK A : A = recvBuffer[s]
  OBVIOUS
<1>B. PICK B : B = pipe[s]
  OBVIOUS
<1>C. PICK C : C = sendBuffer[p]
  OBVIOUS
<1>3. A \in Seq(Cell) /\ B \in Seq(Cell) /\ C \in Seq(Cell) /\ <<>> \in Seq(Cell)
  BY <1>1, <1>2, <1>A, <1>B, <1>C DEF TypeOK
<1>4. PICK k \in 1 .. Len(B), buf \in Seq(Cell) :
             /\ buf = A \o SubSeq(B, 1, k) /\ buf # <<>>
             /\ pipe' = [pipe EXCEPT ![s] = SubSeq(B, k + 1, Len(B))]
             /\ sent' = sent
             /\ \/ /\ EndsHere(buf)
                   /\ understood' = [understood EXCEPT ![s] = @ \o Understood(buf)]
                   /\ \/ Close(s, "found")
                      \/ /\ recvBuffer' = [recvBuffer EXCEPT ![s] = <<>>]
                         /\ UNCHANGED <<sendBuffer, ended>>
                \/ /\ recvBuffer' = [recvBuffer EXCEPT ![s] = buf]
                   /\ UNCHANGED <<sendBuffer, understood, ended>>
  <2>1. PICK k \in 1 .. Len(pipe[s]), buf \in Seq(Cell) :
             /\ buf = recvBuffer[s] \o SubSeq(pipe[s], 1, k)
             /\ buf # <<>> /\ Len(buf) <= TCPBUFSIZE
             /\ pipe' = [pipe EXCEPT ![s] = SubSeq(pipe[s], k + 1, Len(pipe[s]))]
             /\ began' \in {began, began \ {Peer[s]}} /\ sent' = sent
             /\ \/ /\ EndsHere(buf)
                   /\ understood' = [understood EXCEPT ![s] = @ \o Understood(buf)]
                   /\ pc' = [pc EXCEPT ![s] = "send"]
                   /\ \/ Told(buf) /\ Close(s, "found")
                      \/ /\ ~Told(buf)
                         /\ recvBuffer' = [recvBuffer EXCEPT ![s] = <<>>]
                         /\ UNCHANGED <<sendBuffer, ended>>
                \/ /\ ~EndsHere(buf)
                   /\ pc' = [pc EXCEPT ![s] = "receiving"]
                   /\ recvBuffer' = [recvBuffer EXCEPT ![s] = buf]
                   /\ UNCHANGED <<sendBuffer, understood, ended>>
    BY <1>2, ReceivedPiece
  <2>2. /\ k \in 1 .. Len(B) /\ buf = A \o SubSeq(B, 1, k)
        /\ pipe' = [pipe EXCEPT ![s] = SubSeq(B, k + 1, Len(B))]
    BY <2>1, <1>A, <1>B
  <2>. QED
    BY <2>1, <2>2
<1>B2. PICK B2 : B2 = SubSeq(B, k + 1, Len(B))
  OBVIOUS
<1>5. B2 \in Seq(Cell) /\ Moved(A, B, buf, B2, k)
  BY <1>3, <1>4, <1>B2, MovedSequences
<1>6. /\ pipe'[s] = B2 /\ pipe'[p] = pipe[p] /\ sent' = sent
      /\ recvBuffer'[p] = recvBuffer[p] /\ understood'[p] = understood[p]
      /\ sendBuffer'[p] = C /\ sendBuffer'[s] = sendBuffer[s]
      /\ ended'[p] = ended[p] /\ (ended'[s] = "no" => ended[s] = "no")
  <2>1. pipe' = [pipe EXCEPT ![s] = B2] /\ sent' = sent
    BY <1>4, <1>B2
  <2>2. CASE Close(s, "found")
    BY SMTT(30), <1>1, <1>2, <1>4, <1>C, <2>1, <2>2 DEF Close, TypeOK
  <2>3. CASE recvBuffer' = [recvBuffer EXCEPT ![s] = <<>>] /\ UNCHANGED <<sendBuffer, ended>>
    BY <1>1, <1>2, <1>4, <1>C, <2>1, <2>3 DEF TypeOK
  <2>4. CASE recvBuffer' = [recvBuffer EXCEPT ![s] = buf] /\ UNCHANGED <<sendBuffer, ended>>
    BY <1>1, <1>2, <1>4, <1>C, <2>1, <2>4 DEF TypeOK
  <2>. QED
    BY <1>4, <2>2, <2>3, <2>4
<1>7. StreamInv(p)'
  BY <1>1, <1>2, <1>6, StreamUntouched
<1>Q. PICK Q : Q = Cells(s)
  OBVIOUS
<1>R. PICK R : R = Cells(s)'
  OBVIOUS
<1>8. Q = A \o B \o C
  BY <1>A, <1>B, <1>C, <1>Q DEF Cells
<1>9. IsJoin(Q, A, B, C)
  BY <1>3, <1>8, JoinedThree
<1>10. Q \in Seq(Cell) /\ sent[p] \in Nat
  BY <1>1, <1>2, <1>9 DEF IsJoin, TypeOK
<1>11. CASE /\ EndsHere(buf)
            /\ understood' = [understood EXCEPT ![s] = @ \o Understood(buf)]
            /\ recvBuffer'[s] = <<>>
  <2>1. R = <<>> \o B2 \o C
    BY <1>6, <1>11, <1>R DEF Cells
  <2>2. IsJoin(R, <<>>, B2, C)
    BY <1>3, <1>5, <2>1, JoinedThree
  <2>3. /\ PartOf(buf, Q, 0) /\ Len(R) = Len(Q) - Len(buf) /\ R \in Seq(Cell)
        /\ PartOf(R, Q, Len(buf))
    <3>1. Moved(A, B, buf, B2, k) /\ B2 \in Seq(Cell)
      BY <1>5
    <3>. QED
      BY <1>3, <1>9, <2>2, <3>1, PieceParsed
  <2>5. understood'[s] = understood[s] \o Understood(buf)
    BY <1>2, <1>11 DEF TypeOK
  <2>. QED
    BY <1>1, <1>2, <1>6, <1>7, <1>10, <1>11, <1>Q, <1>R, <2>3, <2>5, StreamParsed
<1>12. CASE recvBuffer' = [recvBuffer EXCEPT ![s] = buf] /\ UNCHANGED <<understood, ended>>
  <2>1. R = buf \o B2 \o C
    <3>1. recvBuffer'[s] = buf
      BY <1>2, <1>12 DEF TypeOK
    <3>. QED
      BY <1>6, <1>R, <3>1 DEF Cells
  <2>2. IsJoin(R, buf, B2, C)
    BY <1>3, <1>5, <2>1, JoinedThree
  <2>3. Len(R) = Len(Q) /\ PartOf(R, Q, 0)
    BY <1>3, <1>5, <1>9, <2>2, Regrouped
  <2>4. R \in Seq(Cell)
    BY <2>2 DEF IsJoin
  <2>5. Len(R) <= Len(Q) /\ \A j \in 1 .. Len(R) : R[j] = Q[j]
    BY <1>10, <2>3, <2>4 DEF PartOf
  <2>6. StreamInv(s)'
    BY <1>1, <1>2, <1>6, <1>10, <1>12, <1>Q, <1>R, <2>3, <2>4, <2>5, StreamKept
  <2>. QED
    BY <1>1, <1>7, <2>6
<1>13. \/ /\ EndsHere(buf) /\ recvBuffer'[s] = <<>>
          /\ understood' = [understood EXCEPT ![s] = @ \o Understood(buf)]
       \/ recvBuffer' = [recvBuffer EXCEPT ![s] = buf] /\ UNCHANGED <<understood, ended>>
  BY <1>2, <1>4 DEF Close, TypeOK
<1>. QED
  BY <1>11, <1>12, <1>13

LEMMA StreamInitially == Init => IInv
<1>. SUFFICES ASSUME Init PROVE IInv
  OBVIOUS
<1>1. TypeOK
  BY TypesInitially
<1>2. ASSUME NEW s \in Side PROVE StreamInv(s)
  <2>1. /\ recvBuffer[s] = <<>> /\ pipe[s] = <<>> /\ sendBuffer[Peer[s]] = <<>>
        /\ understood[s] = <<>> /\ sent[Peer[s]] = 0
    BY Sides DEF Init
  <2>0. Taken(<<>>, 0)
    BY DEF Taken
  <2>Q. PICK Q : Q = Cells(s)
    OBVIOUS
  <2>2. Q = <<>>
    <3>1. <<>> \in Seq(Cell)
      OBVIOUS
    <3>2. IsJoin(Q, <<>>, <<>>, <<>>)
      BY <2>1, <2>Q, <3>1, JoinedThree DEF Cells
    <3>. QED
      BY <3>2 DEF IsJoin
  <2>g. PICK g : g = [j \in 0 .. 0 |-> 0]
    OBVIOUS
  <2>3. Orderly(Q, g)
    <3>1. Len(Q) = 0 /\ 1 .. Len(Q) = {}
      BY <2>2
    <3>. QED
      BY <2>g, <3>1 DEF Orderly
  <2>4. Labelled(s, Q, g)
    <3>1. Len(Q) = 0 /\ 1 .. Len(Q) = {} /\ g[0] = 0
      BY <2>2, <2>g
    <3>. QED
      BY <2>0, <2>1, <2>2, <2>3, <3>1 DEF Labelled
  <2>. QED
    BY <2>0, <2>1, <2>4, <2>Q DEF StreamInv
<1>. QED
  BY <1>1, <1>2 DEF IInv

LEMMA StreamAfterStep == IInv /\ [Next]_vars => IInv'
<1>. SUFFICES ASSUME IInv, [Next]_vars PROVE IInv'
  OBVIOUS
<1>1. TypeOK'
  BY TypesAfterStep DEF IInv
<1>2. CASE UNCHANGED vars
  BY <1>1, <1>2 DEF vars, IInv, StreamInv, Cells, Labelled
<1>3. ASSUME NEW s \in Side, Step(s) PROVE \A t \in Side : StreamInv(t)'
  BY <1>1, <1>3, StreamAfterSendCall, StreamAfterSendSome, StreamAfterSendToNobody,
     StreamAfterReceiveSome, StreamAfterReceiveNothing, StreamAfterReceiveZero DEF Step
<1>4. ASSUME NEW s \in Side, ended[s] = "no", Leave(s) \/ Kill(s) PROVE \A t \in Side : StreamInv(t)'
  BY <1>4, StreamAfterLeave, StreamAfterKill
<1>. QED
  BY <1>1, <1>2, <1>3, <1>4 DEF Next, IInv

(* However the bytes are cut into pieces, whatever the payloads, wherever a *)
(* buffer is full and however the connection ends: what a side has parsed   *)
(* are the first messages the other side has sent, in their order, none     *)
(* twice and none left out but such as have a payload cell, before their    *)
(* last, that equals the end marker: handleserver.c:404-488,                *)
(* handleclient.c:150-247.                                                  *)
ParsedInOrderInv ==
    \A s \in Side : \E u \in 0 .. sent[Peer[s]] : Taken(understood[s], u)

(* That is so for any sizes of messages and buffers and any payloads.       *)
THEOREM ParsedInOrder == Spec => []ParsedInOrderInv
<1>1. IInv => ParsedInOrderInv
  BY DEF IInv, StreamInv, ParsedInOrderInv
<1>. QED
  BY <1>1, StreamInitially, StreamAfterStep, PTL DEF Spec

-----------------------------------------------------------------------------
(* The room in recvBuffer                                                   *)

(* What the current call of receive may still read                          *)
RoomInv(s) ==
    /\ Len(sendBuffer[s]) <= Longest
    /\ recvBuffer[s] # <<>> => ~EndsHere(recvBuffer[s])
    /\ pc[s] = "receiving" /\ ended[s] = "no" /\ ended[Peer[s]] = "no" =>
            Len(Cells(s)) <= Capacity + Longest + (IF Peer[s] \in began THEN Longest ELSE 0)

LEMMA LongestNat == Longest \in Nat /\ Capacity \in Nat
BY TransmissionAssumption DEF Longest

(* A call of receive that reads on still finds some space.                  *)
LEMMA SpaceLeft ==
    ASSUME Roomy, NEW s \in Side, IInv, RoomInv(s), ended[s] = "no", ended[Peer[s]] = "no",
           Space(s) = 0
    PROVE  FALSE
<1>A. PICK A : A = recvBuffer[s]
  OBVIOUS
<1>B. PICK B : B = pipe[s]
  OBVIOUS
<1>C. PICK C : C = sendBuffer[Peer[s]]
  OBVIOUS
<1>Q. PICK Q : Q = Cells(s)
  OBVIOUS
<1>1. A \in Seq(Cell) /\ B \in Seq(Cell) /\ C \in Seq(Cell)
  BY <1>A, <1>B, <1>C, Sides DEF IInv, TypeOK
<1>2. Q = A \o B \o C
  BY <1>A, <1>B, <1>C, <1>Q DEF Cells
<1>3. IsJoin(Q, A, B, C)
  BY <1>1, <1>2, JoinedThree
<1>4. Len(A) = TCPBUFSIZE /\ Len(A) \in Nat \ {0}
  <2>1. TCPBUFSIZE \in Nat /\ TCPBUFSIZE > Size /\ Size \in Nat /\ Len(A) \in Nat
    BY <1>1, TransmissionAssumption
  <2>. QED
    BY <1>A, <2>1 DEF Space
<1>5. pc[s] = "receiving"
  <2>1. A # <<>>
    BY <1>1, <1>4
  <2>. QED
    BY <1>A, <2>1 DEF IInv, TypeOK
<1>6. Len(Q) <= Len(A)
  <2>1. Len(Q) <= Capacity + Longest + (IF Peer[s] \in began THEN Longest ELSE 0)
    BY <1>5, <1>Q DEF RoomInv
  <2>2. Len(Q) \in Nat /\ TCPBUFSIZE >= Capacity + 2 * Longest
    BY <1>3 DEF IsJoin, Roomy
  <2>. QED
    BY <1>4, <2>1, <2>2, LongestNat
<1>7. Len(Q) = Len(A)
  <2>1. Len(Q) = Len(A) + Len(B) + Len(C) /\ Len(B) \in Nat /\ Len(C) \in Nat
    BY <1>1, <1>3 DEF IsJoin
  <2>. QED
    BY <1>4, <1>6, <2>1
<1>8. Q # <<>> /\ Len(A) \in 1 .. Len(A)
  <2>1. Q \in Seq(Cell)
    BY <1>3 DEF IsJoin
  <2>. QED
    BY <1>4, <1>7, <2>1
<1>9. Q[Len(Q)] = EOT
  <2>1. PICK g : Labelled(s, Q, g)
    BY <1>Q DEF IInv, StreamInv
  <2>. QED
    BY <1>8, <2>1 DEF Labelled
<1>10. A[Len(A)] = EOT
  BY <1>3, <1>7, <1>8, <1>9 DEF IsJoin
<1>11. A # <<>>
  BY <1>1, <1>4
<1>. QED
  BY <1>10, <1>11, <1>A DEF RoomInv, EndsHere

LEMMA RoomAfterSend ==
    ASSUME Roomy, NEW s \in Side, ended[s] = "no", SendCall(s), TypeOK, TypeOK',
           \A t \in Side : RoomInv(t)
    PROVE  \A t \in Side : RoomInv(t)'
<1>. DEFINE p == Peer[s]
<1>1. p \in Side /\ p # s /\ Peer[p] = s /\ \A t \in Side : t = s \/ t = p
  BY Sides
<1>2. /\ UNCHANGED <<recvBuffer, pipe, ended>> /\ pc'[s] # "receiving" /\ pc'[p] = pc[p]
      /\ sendBuffer'[p] = sendBuffer[p] /\ sendBuffer[s] = <<>>
  BY <1>1 DEF SendCall, TypeOK
<1>3. RoomInv(s)' <=> Len(sendBuffer'[s]) <= Longest /\ (recvBuffer[s] # <<>> => ~EndsHere(recvBuffer[s]))
  BY <1>2 DEF RoomInv
<1>4. PICK n \in Batch(s) :
        IF n = 0 THEN UNCHANGED <<sendBuffer, began>>
        ELSE /\ Paced /\ pc[p] = "receiving" => s \notin began
             /\ sendBuffer' = [sendBuffer EXCEPT ![s] = Marked(CellsOf(sent[s] + 1, n))]
             /\ began' = IF pc[p] = "receiving" THEN began \cup {s} ELSE began
             /\ sent' = [sent EXCEPT ![s] = @ + n]
  BY DEF SendCall
<1>5. CASE n = 0
  <2>1. Cells(p)' = Cells(p)
    BY <1>2, <1>4, <1>5 DEF Cells
  <2>. QED
    BY <1>1, <1>2, <1>3, <1>4, <1>5, <2>1 DEF RoomInv
<1>6. CASE n # 0
  <2>1. n \in Nat /\ n <= MaxBatch /\ sent[s] \in Nat /\ sent[s] + 1 + n - 1 <= MaxMessages
    <3>1. sent[s] \in 0 .. MaxMessages /\ MaxMessages \in Nat /\ MaxBatch \in Nat
      BY TransmissionAssumption DEF TypeOK
    <3>. QED
      BY <3>1 DEF Batch, Smaller
  <2>M. PICK M : M = Marked(CellsOf(sent[s] + 1, n))
    OBVIOUS
  <2>2. M \in Seq(Cell) /\ Len(M) <= Longest /\ Len(M) \in Nat
    <3>k. PICK k : k = sent[s] + 1
      OBVIOUS
    <3>1. k \in Nat \ {0} /\ k + n - 1 <= MaxMessages
      BY <2>1, <3>k
    <3>2. CellsOf(k, n) \in Seq(Cell) /\ Len(CellsOf(k, n)) = n * Size
      BY <2>1, <3>1, CellsOfFacts
    <3>3. n * Size \in Nat /\ n * Size <= MaxBatch * Size /\ MaxBatch * Size \in Nat
      BY <2>1, TransmissionAssumption
    <3>4. M \in Seq(Cell) /\ Len(M) = n * Size + 1
      BY <2>M, <3>2, <3>k, CellFacts DEF Marked
    <3>. QED
      BY <3>3, <3>4 DEF Longest
  <2>3. sendBuffer'[s] = M
    BY <1>4, <1>6, <2>M DEF TypeOK
  <2>4. RoomInv(s)'
    BY <1>3, <2>2, <2>3 DEF RoomInv
  <2>5. RoomInv(p)'
    <3>1. Len(sendBuffer'[p]) <= Longest /\ (recvBuffer'[p] # <<>> => ~EndsHere(recvBuffer'[p]))
      BY <1>1, <1>2 DEF RoomInv
    <3>2. ASSUME pc[p] = "receiving", ended[p] = "no", ended[s] = "no"
          PROVE  Len(Cells(p)') <= Capacity + Longest + (IF s \in began' THEN Longest ELSE 0)
      <4>1. s \notin began /\ s \in began'
        BY <1>4, <1>6, <3>2 DEF Roomy
      <4>2. Len(Cells(p)) <= Capacity + Longest
        BY <1>1, <3>2, <4>1, LongestNat DEF RoomInv
      <4>3. Len(Cells(p)) = Len(recvBuffer[p]) + Len(pipe[p]) + Len(sendBuffer[s])
        BY <1>1, CellsTypes
      <4>4. Len(Cells(p)') = Len(recvBuffer[p]) + Len(pipe[p]) + Len(M)
        <5>1. recvBuffer[p] \in Seq(Cell) /\ pipe[p] \in Seq(Cell)
          BY <1>1 DEF TypeOK
        <5>R. PICK R : R = Cells(p)'
          OBVIOUS
        <5>2. R = recvBuffer[p] \o pipe[p] \o M
          BY <1>1, <1>2, <2>3, <5>R DEF Cells
        <5>3. IsJoin(R, recvBuffer[p], pipe[p], M)
          BY <2>2, <5>1, <5>2, JoinedThree
        <5>4. Len(R) = Len(recvBuffer[p]) + Len(pipe[p]) + Len(M)
          BY <5>3 DEF IsJoin
        <5>. QED
          BY <5>4, <5>R
      <4>5. Len(sendBuffer[s]) = 0 /\ Len(recvBuffer[p]) \in Nat /\ Len(pipe[p]) \in Nat
        BY <1>1, <1>2 DEF TypeOK
      <4>6. Len(Cells(p)') <= Capacity + Longest + Longest
        <5>a. PICK a \in Nat : a = Len(recvBuffer[p])
          BY <4>5
        <5>b. PICK b \in Nat : b = Len(pipe[p])
          BY <4>5
        <5>c. PICK c \in Nat : c = Len(M)
          BY <2>2
        <5>1. a + b + 0 <= Capacity + Longest
          BY <4>2, <4>3, <4>5, <5>a, <5>b
        <5>2. c <= Longest
          BY <2>2, <5>c
        <5>3. a + b + c <= Capacity + Longest + Longest
          BY <5>1, <5>2, LongestNat
        <5>. QED
          BY <4>4, <5>3, <5>a, <5>b, <5>c
      <4>. QED
        BY <4>1, <4>6
    <3>. QED
      BY <1>1, <1>2, <3>1, <3>2 DEF RoomInv
  <2>. QED
    BY <1>1, <2>4, <2>5
<1>. QED
  BY <1>5, <1>6

(* The other steps of s: what the other side has room for is not touched.   *)
LEMMA RoomAfterOther ==
    ASSUME NEW s \in Side, ended[s] = "no", TypeOK, TypeOK', \A t \in Side : RoomInv(t),
           SendToNobody(s) \/ ReceiveNothing(s) \/ ReceiveZero(s) \/ Leave(s) \/ Kill(s)
    PROVE  \A t \in Side : RoomInv(t)'
<1>. DEFINE p == Peer[s]
<1>1. p \in Side /\ p # s /\ Peer[p] = s /\ \A t \in Side : t = s \/ t = p
  BY Sides
<1>2. /\ sendBuffer'[p] = sendBuffer[p] /\ recvBuffer'[p] = recvBuffer[p]
      /\ sendBuffer'[s] \in {sendBuffer[s], <<>>} /\ recvBuffer'[s] \in {recvBuffer[s], <<>>}
      /\ pc'[p] = pc[p]
  <2>1. Peer[s] # s /\ Peer[s] \in Side
    BY <1>1
  <2>2. CASE SendToNobody(s)
    BY <2>1, <2>2 DEF SendToNobody, Close, TypeOK
  <2>3. CASE ReceiveNothing(s)
    BY <2>1, <2>3 DEF ReceiveNothing, TypeOK
  <2>4. CASE ReceiveZero(s)
    BY <2>1, <2>4 DEF ReceiveZero, Close, TypeOK
  <2>5. CASE Leave(s)
    BY <2>1, <2>5 DEF Leave, Close, TypeOK
  <2>6. CASE Kill(s)
    BY <2>1, <2>6 DEF Kill, Close, TypeOK
  <2>. QED
    BY <2>2, <2>3, <2>4, <2>5, <2>6
<1>3. ASSUME NEW t \in Side
      PROVE  Len(sendBuffer'[t]) <= Longest /\ (recvBuffer'[t] # <<>> => ~EndsHere(recvBuffer'[t]))
  <2>1. Len(<<>>) <= Longest
    BY LongestNat
  <2>2. RoomInv(t) /\ sendBuffer'[t] \in {sendBuffer[t], <<>>} /\ recvBuffer'[t] \in {recvBuffer[t], <<>>}
    BY <1>1, <1>2
  <2>. QED
    BY <2>1, <2>2 DEF RoomInv
<1>4. CASE ReceiveNothing(s)
  <2>1. Cells(p)' = Cells(p) /\ pc'[s] # "receiving" /\ UNCHANGED <<ended, began>>
    BY <1>4 DEF ReceiveNothing, Cells, TypeOK
  <2>. QED
    BY <1>1, <1>2, <1>3, <2>1 DEF RoomInv
<1>5. CASE ~ReceiveNothing(s)
  <2>1. ended'[s] # "no" \/ ended'[p] # "no"
    <3>1. Peer[s] # s /\ Peer[s] \in Side
      BY <1>1
    <3>2. CASE SendToNobody(s)
      BY <3>1, <3>2 DEF SendToNobody, Close, TypeOK
    <3>3. CASE ReceiveZero(s)
      BY <3>1, <3>3 DEF ReceiveZero, Close, TypeOK
    <3>4. CASE Leave(s) \/ Kill(s)
      BY <3>1, <3>4 DEF Leave, Kill, Close, TypeOK
    <3>. QED
      BY <1>5, <3>2, <3>3, <3>4
  <2>. QED
    BY <1>1, <1>3, <2>1 DEF RoomInv
<1>. QED
  BY <1>4, <1>5

LEMMA RoomAfterSendSome ==
    ASSUME NEW s \in Side, ended[s] = "no", SendSome(s), TypeOK, TypeOK',
           \A t \in Side : RoomInv(t)
    PROVE  \A t \in Side : RoomInv(t)'
<1>. DEFINE p == Peer[s]
<1>1. p \in Side /\ p # s /\ Peer[p] = s /\ \A t \in Side : t = s \/ t = p
  BY Sides
<1>2. /\ UNCHANGED <<recvBuffer, ended, began>> /\ sendBuffer'[p] = sendBuffer[p]
      /\ pc'[p] = pc[p] /\ pc'[s] # "receiving"
  BY <1>1 DEF SendSome, TypeOK
<1>B. PICK B : B = pipe[p]
  OBVIOUS
<1>C. PICK C : C = sendBuffer[s]
  OBVIOUS
<1>3. /\ B \in Seq(Cell) /\ C \in Seq(Cell) /\ Len(B) \in Nat /\ Len(C) \in Nat
      /\ C # <<>> /\ Len(C) <= Longest
  <2>1. B \in Seq(Cell) /\ C \in Seq(Cell)
    BY <1>1, <1>B, <1>C DEF TypeOK
  <2>2. C # <<>>
    BY <1>C DEF SendSome, TypeOK
  <2>3. Len(C) <= Longest
    BY <1>C DEF RoomInv
  <2>. QED
    BY <2>1, <2>2, <2>3
<1>4. Len(pipe'[p]) + Len(sendBuffer'[s]) = Len(B) + Len(C) /\ Len(sendBuffer'[s]) <= Longest
  <2>k. PICK k : k = Smaller(Len(C), Capacity - Len(B))
    OBVIOUS
  <2>1. k \in 1 .. Len(C)
    <3>1. k > 0
      BY <1>B, <1>C, <2>k DEF SendSome
    <3>. QED
      BY <1>3, <2>k, <3>1, LongestNat DEF Smaller
  <2>B2. PICK B2 : B2 = B \o SubSeq(C, 1, k)
    OBVIOUS
  <2>C2. PICK C2 : C2 = SubSeq(C, k + 1, Len(C))
    OBVIOUS
  <2>2. Moved(B, C, B2, C2, k)
    BY <1>3, <2>1, <2>B2, <2>C2, MovedSequences
  <2>3. pipe'[p] = B2 /\ sendBuffer'[s] = C2
    <3>1. /\ pipe' = [pipe EXCEPT ![p] = @ \o SubSeq(C, 1, k)]
          /\ sendBuffer' = [sendBuffer EXCEPT ![s] = SubSeq(@, k + 1, Len(@))]
      BY <1>B, <1>C, <2>k DEF SendSome
    <3>2. p \in DOMAIN pipe /\ s \in DOMAIN sendBuffer
      BY <1>1 DEF TypeOK
    <3>. QED
      BY <1>B, <1>C, <2>B2, <2>C2, <3>1, <3>2
  <2>4. Len(B2) = Len(B) + k /\ Len(C2) = Len(C) - k
    BY <2>2 DEF Moved
  <2>. QED
    BY <1>3, <2>1, <2>3, <2>4, LongestNat
<1>5. Len(Cells(p)') = Len(Cells(p))
  <2>1. Len(Cells(p)) = Len(recvBuffer[p]) + Len(B) + Len(C)
    BY <1>1, <1>B, <1>C, CellsTypes
  <2>A. PICK A : A = recvBuffer[p]
    OBVIOUS
  <2>B2. PICK B2 : B2 = pipe'[p]
    OBVIOUS
  <2>C2. PICK C2 : C2 = sendBuffer'[s]
    OBVIOUS
  <2>R. PICK R : R = Cells(p)'
    OBVIOUS
  <2>2. A \in Seq(Cell) /\ B2 \in Seq(Cell) /\ C2 \in Seq(Cell)
    BY <1>1, <2>A, <2>B2, <2>C2 DEF TypeOK
  <2>3. R = A \o B2 \o C2
    BY <1>1, <1>2, <2>A, <2>B2, <2>C2, <2>R DEF Cells
  <2>4. Len(R) = Len(A) + Len(B2) + Len(C2)
    BY <2>2, <2>3, JoinedThree DEF IsJoin
  <2>5. Len(A) \in Nat /\ Len(B2) \in Nat /\ Len(C2) \in Nat
    BY <2>2
  <2>6. Len(B2) + Len(C2) = Len(B) + Len(C)
    BY <1>4, <2>B2, <2>C2
  <2>7. Len(R) = Len(A) + Len(B) + Len(C)
    BY <1>3, <2>4, <2>5, <2>6
  <2>. QED
    BY <2>1, <2>7, <2>A, <2>R
<1>6. RoomInv(p)'
  BY <1>1, <1>2, <1>5 DEF RoomInv
<1>7. RoomInv(s)'
  BY <1>2, <1>4 DEF RoomInv
<1>. QED
  BY <1>1, <1>6, <1>7

LEMMA RoomAfterReceiveSome ==
    ASSUME NEW s \in Side, ended[s] = "no", ReceiveSome(s), TypeOK, TypeOK',
           \A t \in Side : RoomInv(t)
    PROVE  \A t \in Side : RoomInv(t)'
<1>. DEFINE p == Peer[s]
<1>1. p \in Side /\ p # s /\ Peer[p] = s /\ \A t \in Side : t = s \/ t = p
  BY Sides
<1>A. PICK A : A = recvBuffer[s]
  OBVIOUS
<1>B. PICK B : B = pipe[s]
  OBVIOUS
<1>C. PICK C : C = sendBuffer[p]
  OBVIOUS
<1>2. A \in Seq(Cell) /\ B \in Seq(Cell) /\ C \in Seq(Cell) /\ sendBuffer[s] = <<>>
  BY <1>1, <1>A, <1>B, <1>C DEF TypeOK, ReceiveSome
<1>3. PICK k \in 1 .. Len(B), buf \in Seq(Cell) :
             /\ buf = A \o SubSeq(B, 1, k)
             /\ pipe' = [pipe EXCEPT ![s] = SubSeq(B, k + 1, Len(B))]
             /\ \/ /\ pc' = [pc EXCEPT ![s] = "send"]
                   /\ \/ Close(s, "found")
                      \/ /\ recvBuffer' = [recvBuffer EXCEPT ![s] = <<>>]
                         /\ UNCHANGED <<sendBuffer, ended>>
                \/ /\ ~EndsHere(buf)
                   /\ recvBuffer' = [recvBuffer EXCEPT ![s] = buf]
                   /\ UNCHANGED <<sendBuffer, ended>>
  <2>1. PICK k \in 1 .. Len(pipe[s]), buf \in Seq(Cell) :
             /\ buf = recvBuffer[s] \o SubSeq(pipe[s], 1, k)
             /\ buf # <<>> /\ Len(buf) <= TCPBUFSIZE
             /\ pipe' = [pipe EXCEPT ![s] = SubSeq(pipe[s], k + 1, Len(pipe[s]))]
             /\ began' \in {began, began \ {Peer[s]}} /\ sent' = sent
             /\ \/ /\ EndsHere(buf)
                   /\ understood' = [understood EXCEPT ![s] = @ \o Understood(buf)]
                   /\ pc' = [pc EXCEPT ![s] = "send"]
                   /\ \/ Told(buf) /\ Close(s, "found")
                      \/ /\ ~Told(buf)
                         /\ recvBuffer' = [recvBuffer EXCEPT ![s] = <<>>]
                         /\ UNCHANGED <<sendBuffer, ended>>
                \/ /\ ~EndsHere(buf)
                   /\ pc' = [pc EXCEPT ![s] = "receiving"]
                   /\ recvBuffer' = [recvBuffer EXCEPT ![s] = buf]
                   /\ UNCHANGED <<sendBuffer, understood, ended>>
    BY ReceivedPiece
  <2>2. /\ k \in 1 .. Len(B) /\ buf = A \o SubSeq(B, 1, k)
        /\ pipe' = [pipe EXCEPT ![s] = SubSeq(B, k + 1, Len(B))]
    BY <2>1, <1>A, <1>B
  <2>. QED
    BY <2>1, <2>2
<1>4. began' = IF pc[s] = "receive" THEN began \ {p} ELSE began
  BY DEF ReceiveSome
<1>5. /\ sendBuffer'[s] = <<>> /\ sendBuffer'[p] = C
      /\ recvBuffer'[p] = recvBuffer[p] /\ pc'[p] = pc[p]
      /\ ended'[p] = ended[p] /\ (ended'[s] = "no" => ended[s] = "no")
  <2>1. Peer[s] # s /\ Peer[s] \in Side
    BY <1>1
  <2>2. pc'[p] = pc[p]
    <3>1. pc' = [pc EXCEPT ![s] = "send"] \/ pc' = [pc EXCEPT ![s] = "receiving"]
      BY DEF ReceiveSome
    <3>. QED
      BY <2>1, <3>1 DEF TypeOK
  <2>3. CASE Close(s, "found")
    BY <1>2, <1>C, <2>1, <2>2, <2>3 DEF Close, TypeOK
  <2>4. CASE recvBuffer' = [recvBuffer EXCEPT ![s] = <<>>] /\ UNCHANGED <<sendBuffer, ended>>
    BY <1>2, <1>C, <2>1, <2>2, <2>4 DEF TypeOK
  <2>5. CASE recvBuffer' = [recvBuffer EXCEPT ![s] = buf] /\ UNCHANGED <<sendBuffer, ended>>
    BY <1>2, <1>C, <2>1, <2>2, <2>5 DEF TypeOK
  <2>. QED
    BY <1>3, <2>3, <2>4, <2>5
<1>6. RoomInv(p)'
  <2>1. Cells(p)' = Cells(p)
    <3>1. pipe'[p] = pipe[p]
      BY <1>1, <1>3 DEF TypeOK
    <3>. QED
      BY <1>1, <1>2, <1>5, <3>1 DEF Cells
  <2>2. s \in began' <=> s \in began
    BY <1>1, <1>4
  <2>3. RoomInv(p)
    BY <1>1
  <2>. QED
    BY <1>1, <1>5, <1>C, <2>1, <2>2, <2>3 DEF RoomInv
<1>7. RoomInv(s)'
  <2>1. Len(sendBuffer'[s]) <= Longest
    BY <1>5, LongestNat
  <2>2. recvBuffer'[s] \in {<<>>, buf} /\ (recvBuffer'[s] # <<>> => ~EndsHere(recvBuffer'[s]))
    <3>1. CASE Close(s, "found") \/ recvBuffer' = [recvBuffer EXCEPT ![s] = <<>>]
      BY <3>1 DEF Close, TypeOK
    <3>2. CASE ~EndsHere(buf) /\ recvBuffer' = [recvBuffer EXCEPT ![s] = buf]
      BY <3>2 DEF TypeOK
    <3>. QED
      BY <1>3, <3>1, <3>2
  <2>3. ASSUME pc'[s] = "receiving", ended'[s] = "no", ended'[p] = "no"
        PROVE  Len(Cells(s)') <= Capacity + Longest + (IF p \in began' THEN Longest ELSE 0)
    <3>1. recvBuffer'[s] = buf
      BY <1>3, <2>2, <2>3 DEF TypeOK
    <3>B2. PICK B2 : B2 = SubSeq(B, k + 1, Len(B))
      OBVIOUS
    <3>Q. PICK Q : Q = Cells(s)
      OBVIOUS
    <3>R. PICK R : R = Cells(s)'
      OBVIOUS
    <3>2. B2 \in Seq(Cell) /\ Moved(A, B, buf, B2, k)
      BY <1>2, <1>3, <3>B2, MovedSequences
    <3>3. IsJoin(Q, A, B, C) /\ IsJoin(R, buf, B2, C)
      <4>1. Q = A \o B \o C
        BY <1>A, <1>B, <1>C, <3>Q DEF Cells
      <4>2. pipe'[s] = B2
        BY <1>3, <3>B2 DEF TypeOK
      <4>3. R = buf \o B2 \o C
        BY <1>5, <3>1, <4>2, <3>R DEF Cells
      <4>. QED
        BY <1>2, <3>2, <4>1, <4>3, JoinedThree
    <3>4. Len(R) = Len(Q)
      BY <1>2, <3>2, <3>3, Regrouped
    <3>5. CASE pc[s] = "receiving"
      <4>1. RoomInv(s) /\ began' = began
        BY <1>4, <3>5
      <4>. QED
        BY <1>5, <2>3, <3>4, <3>5, <3>Q, <3>R, <4>1 DEF RoomInv
    <3>6. CASE pc[s] = "receive"
      <4>1. A = <<>> /\ Len(A) = 0 /\ Len(B) <= Capacity /\ Len(C) <= Longest
        <5>1. A = <<>>
          BY <1>1, <1>A, <3>6 DEF TypeOK
        <5>2. Len(A) = 0
          BY <5>1
        <5>3. Len(B) <= Capacity
          BY <1>1, <1>B DEF TypeOK
        <5>4. RoomInv(p)
          BY <1>1
        <5>5. Len(C) <= Longest
          BY <1>C, <5>4, Zenon DEF RoomInv
        <5>. QED
          BY <5>1, <5>2, <5>3, <5>5
      <4>2. Len(Q) = Len(A) + Len(B) + Len(C) /\ Len(B) \in Nat /\ Len(C) \in Nat
        BY <1>2, <3>3 DEF IsJoin
      <4>3. Len(R) <= Capacity + Longest
        BY <3>4, <4>1, <4>2, LongestNat
      <4>4. p \notin began'
        BY <1>4, <3>6
      <4>5. Capacity + Longest + 0 = Capacity + Longest
        BY LongestNat
      <4>. QED
        BY <3>R, <4>3, <4>4, <4>5
    <3>. QED
      BY <3>5, <3>6 DEF ReceiveSome
  <2>. QED
    BY <2>1, <2>2, <2>3 DEF RoomInv
<1>. QED
  BY <1>1, <1>6, <1>7

LEMMA RoomInitially == Init => \A s \in Side : RoomInv(s)
<1>. SUFFICES ASSUME Init, NEW s \in Side PROVE RoomInv(s)
  OBVIOUS
<1>1. sendBuffer[s] = <<>> /\ recvBuffer[s] = <<>> /\ pc[s] = "receive" /\ Len(<<>>) <= Longest
  BY LongestNat DEF Init
<1>. QED
  BY <1>1 DEF RoomInv

LEMMA RoomAfterStep ==
    ASSUME Roomy
    PROVE  TypeOK /\ TypeOK' /\ (\A s \in Side : RoomInv(s)) /\ [Next]_vars => \A s \in Side : RoomInv(s)'
<1>. SUFFICES ASSUME TypeOK, TypeOK', \A s \in Side : RoomInv(s), [Next]_vars
              PROVE  \A s \in Side : RoomInv(s)'
  OBVIOUS
<1>1. CASE UNCHANGED vars
  BY <1>1 DEF vars, RoomInv, Cells
<1>2. ASSUME NEW s \in Side, Step(s) PROVE \A t \in Side : RoomInv(t)'
  BY <1>2, RoomAfterSend, RoomAfterSendSome, RoomAfterReceiveSome, RoomAfterOther DEF Step
<1>3. ASSUME NEW s \in Side, ended[s] = "no", Leave(s) \/ Kill(s)
      PROVE  \A t \in Side : RoomInv(t)'
  BY <1>3, RoomAfterOther
<1>. QED
  BY <1>1, <1>2, <1>3 DEF Next

-----------------------------------------------------------------------------
(* Each step of the connection is a step of MessageStream, or none.         *)

LEMMA StreamSides == Stream!Side = Side
BY DEF Stream!Side, Side

(* An end of the connection that is read was sent.                          *)
LEMMA ToldTruly ==
    ASSUME IInv, NEW s \in Side, ended[s] = "no", NEW k \in 1 .. Len(pipe[s]), NEW buf,
           buf = recvBuffer[s] \o SubSeq(pipe[s], 1, k), Told(buf)
    PROVE  ended[Peer[s]] # "no"
<1>. SUFFICES ASSUME ended[Peer[s]] = "no" PROVE FALSE
  OBVIOUS
<1>A. PICK A : A = recvBuffer[s]
  OBVIOUS
<1>B. PICK B : B = pipe[s]
  OBVIOUS
<1>C. PICK C : C = sendBuffer[Peer[s]]
  OBVIOUS
<1>Q. PICK Q : Q = Cells(s)
  OBVIOUS
<1>1. A \in Seq(Cell) /\ B \in Seq(Cell) /\ C \in Seq(Cell)
  BY <1>A, <1>B, <1>C, Sides DEF IInv, TypeOK
<1>2. IsJoin(Q, A, B, C)
  <2>1. Q = A \o B \o C
    BY <1>A, <1>B, <1>C, <1>Q DEF Cells
  <2>. QED
    BY <1>1, <2>1, JoinedThree
<1>3. k \in 1 .. Len(B) /\ buf = A \o SubSeq(B, 1, k)
  BY <1>A, <1>B
<1>4. buf \in Seq(Cell) /\ Moved(A, B, buf, SubSeq(B, k + 1, Len(B)), k)
  BY <1>1, <1>3, MovedSequences
<1>5. PICK j \in 1 .. Len(buf) : buf[j] = DISCONNECT
  <2>1. DOMAIN buf = 1 .. Len(buf)
    BY <1>4
  <2>. QED
    BY <2>1 DEF Told
<1>6. PICK i \in 1 .. Len(Q) : Q[i] = DISCONNECT
  <2>1. Len(buf) = Len(A) + k /\ Len(Q) = Len(A) + Len(B) + Len(C) /\ Len(A) \in Nat
        /\ Len(B) \in Nat /\ Len(C) \in Nat /\ j \in Int
    BY <1>1, <1>2, <1>4 DEF IsJoin, Moved
  <2>2. CASE j <= Len(A)
    <3>1. j \in 1 .. Len(A) /\ j \in 1 .. Len(Q)
      BY <2>1, <2>2
    <3>2. Q[j] = A[j] /\ buf[j] = A[j]
      BY <1>2, <1>4, <3>1 DEF IsJoin, Moved
    <3>. QED
      BY <1>5, <3>1, <3>2
  <2>3. CASE j > Len(A)
    <3>i. PICK i : i = j - Len(A)
      OBVIOUS
    <3>1. i \in 1 .. k /\ i \in 1 .. Len(B) /\ j = Len(A) + i /\ j \in 1 .. Len(Q)
      BY <1>3, <2>1, <2>3, <3>i
    <3>2. Q[Len(A) + i] = B[i] /\ buf[Len(A) + i] = B[i]
      BY <1>2, <1>4, <3>1 DEF IsJoin, Moved
    <3>. QED
      BY <1>5, <3>1, <3>2
  <2>4. j <= Len(A) \/ j > Len(A)
    BY <2>1
  <2>. QED
    BY <2>2, <2>3, <2>4
<1>7. PICK g : Labelled(s, Q, g)
  BY <1>Q DEF IInv, StreamInv
<1>. QED
  BY <1>6, <1>7 DEF Labelled

LEMMA Chain ==
    ASSUME NEW a \in Nat, NEW b \in Nat, NEW c \in Nat, NEW d \in Nat, a <= b, b <= c, c <= d
    PROVE  a <= d
OBVIOUS

LEMMA NextRun ==
    ASSUME NEW u \in Nat, NEW n \in Nat, n # 0, NEW e \in 0 .. u, NEW z \in Nat, u + n <= z,
           NEW first, first = u + 1, NEW last, last = u + n
    PROVE  /\ first \in 1 .. z /\ last \in 1 .. z /\ e < first /\ first <= last
           /\ first - 1 = u /\ last - first + 1 = n
OBVIOUS

(* The messages a call of receive parses are those after the first u.       *)
LEMMA ReceivedMessages ==
    ASSUME IInv, NEW s \in Side, ended[s] = "no", NEW k \in 1 .. Len(pipe[s]),
           NEW buf \in Seq(Cell), buf = recvBuffer[s] \o SubSeq(pipe[s], 1, k)
    PROVE  \E u, n \in Nat :
             /\ Taken(understood[s], u) /\ u + n <= sent[Peer[s]]
             /\ Understood(buf) = [i \in 1 .. n |-> u + i]
<1>A. PICK A : A = recvBuffer[s]
  OBVIOUS
<1>B. PICK B : B = pipe[s]
  OBVIOUS
<1>C. PICK C : C = sendBuffer[Peer[s]]
  OBVIOUS
<1>Q. PICK Q : Q = Cells(s)
  OBVIOUS
<1>B2. PICK B2 : B2 = SubSeq(B, k + 1, Len(B))
  OBVIOUS
<1>R. PICK R : R = <<>> \o B2 \o C
  OBVIOUS
<1>1. /\ A \in Seq(Cell) /\ B \in Seq(Cell) /\ C \in Seq(Cell) /\ <<>> \in Seq(Cell)
      /\ sent[Peer[s]] \in Nat
  BY <1>A, <1>B, <1>C, Sides DEF IInv, TypeOK
<1>2. k \in 1 .. Len(B) /\ buf = A \o SubSeq(B, 1, k)
  BY <1>A, <1>B
<1>3. B2 \in Seq(Cell) /\ Moved(A, B, buf, B2, k)
  BY <1>1, <1>2, <1>B2, MovedSequences
<1>4. IsJoin(Q, A, B, C)
  <2>1. Q = A \o B \o C
    BY <1>A, <1>B, <1>C, <1>Q DEF Cells
  <2>. QED
    BY <1>1, <2>1, JoinedThree
<1>5. IsJoin(R, <<>>, B2, C)
  BY <1>1, <1>3, <1>R, JoinedThree
<1>6. PartOf(buf, Q, 0)
  BY <1>1, <1>3, <1>4, <1>5, PieceParsed
<1>7. PICK g : Labelled(s, Q, g)
  BY <1>Q DEF IInv, StreamInv
<1>8. Orderly(Q, g) /\ Taken(understood[s], g[0]) /\ g[Len(Q)] <= sent[Peer[s]] /\ Q \in Seq(Cell)
  BY <1>4, <1>7 DEF Labelled, IsJoin
<1>9. g[0] \in Nat /\ g[Len(buf)] \in Nat /\ g[Len(buf)] <= g[Len(Q)] /\ g[Len(Q)] \in Nat
  BY <1>6, <1>8, PrefixTaken
<1>10. PICK n \in Nat : Takes(buf, g[0], g[Len(buf)], n)
  BY <1>6, <1>8, PrefixTaken
<1>11. g[0] + n <= g[Len(buf)]
  BY <1>9, <1>10 DEF Takes
<1>12. g[0] + n <= sent[Peer[s]]
  <2>1. g[0] + n \in Nat
    BY <1>9
  <2>. QED
    BY <1>1, <1>8, <1>9, <1>11, <2>1, Chain, Zenon
<1>13. Understood(buf) = [i \in 1 .. n |-> g[0] + i]
  BY <1>10, Zenon DEF Takes
<1>. QED
  BY <1>8, <1>9, <1>12, <1>13, Zenon

(* Between the last message taken and the next one are only fragile ones.   *)
LEMMA TakenLast ==
    ASSUME NEW q \in Seq(Nat), NEW u \in Nat, Taken(q, u)
    PROVE  /\ Stream!Last(q) \in 0 .. u
           /\ Stream!Last(q) + 1 .. u \subseteq Fragile
<1>l. PICK l \in Nat : l = Len(q)
  OBVIOUS
<1>e. PICK e : e = Stream!Last(q)
  OBVIOUS
<1>1. e = IF q = <<>> THEN 0 ELSE q[l]
  BY <1>l, <1>e DEF Stream!Last
<1>2. q = <<>> => l = 0
  BY <1>l
<1>3. q # <<>> => l \in 1 .. l
  BY <1>l
<1>4. e \in 0 .. u
  BY <1>l, <1>1, <1>3 DEF Taken
<1>5. ASSUME NEW m \in e + 1 .. u, m \notin Fragile PROVE FALSE
  <2>1. m \in 1 .. u /\ e < m
    BY <1>4
  <2>2. PICK i \in 1 .. l : q[i] = m
    BY <1>l, <1>5, <2>1 DEF Taken
  <2>3. q # <<>> /\ e = q[l] /\ l \in 1 .. l
    BY <1>1, <1>2, <1>3, <2>2
  <2>4. i = l \/ i < l
    BY <2>2
  <2>5. q[i] = e \/ q[i] < e
    BY <1>l, <2>3, <2>4 DEF Taken
  <2>. QED
    BY <1>4, <2>1, <2>2, <2>5
<1>. QED
  BY <1>e, <1>4, <1>5

LEMMA ReceiveIsStream ==
    ASSUME IInv, IInv', NEW s \in Side, ended[s] = "no", ReceiveSome(s)
    PROVE  Stream!Next \/ UNCHANGED <<sent, understood, ended>>
<1>. DEFINE p == Peer[s]
<1>1. p \in Side /\ p # s /\ Peer[p] = s /\ s \in Stream!Side
  BY Sides, StreamSides
<1>2. TypeOK /\ TypeOK'
  BY DEF IInv
<1>3. PICK k \in 1 .. Len(pipe[s]), buf \in Seq(Cell) :
             /\ buf = recvBuffer[s] \o SubSeq(pipe[s], 1, k)
             /\ buf # <<>> /\ Len(buf) <= TCPBUFSIZE
             /\ pipe' = [pipe EXCEPT ![s] = SubSeq(pipe[s], k + 1, Len(pipe[s]))]
             /\ began' \in {began, began \ {Peer[s]}} /\ sent' = sent
             /\ \/ /\ EndsHere(buf)
                   /\ understood' = [understood EXCEPT ![s] = @ \o Understood(buf)]
                   /\ pc' = [pc EXCEPT ![s] = "send"]
                   /\ \/ Told(buf) /\ Close(s, "found")
                      \/ /\ ~Told(buf)
                         /\ recvBuffer' = [recvBuffer EXCEPT ![s] = <<>>]
                         /\ UNCHANGED <<sendBuffer, ended>>
                \/ /\ ~EndsHere(buf)
                   /\ pc' = [pc EXCEPT ![s] = "receiving"]
                   /\ recvBuffer' = [recvBuffer EXCEPT ![s] = buf]
                   /\ UNCHANGED <<sendBuffer, understood, ended>>
  BY <1>2, ReceivedPiece
<1>4. sent' = sent
  BY <1>3
<1>5. CASE UNCHANGED <<understood, ended>>
  BY <1>4, <1>5
<1>6. CASE /\ understood' = [understood EXCEPT ![s] = @ \o Understood(buf)]
           /\ (Told(buf) /\ Close(s, "found")) \/ UNCHANGED ended
  <2>1. CASE Understood(buf) = <<>>
    <3>1. understood' = understood
      <4>1. understood[s] \o <<>> = understood[s]
        BY <1>2 DEF TypeOK
      <4>. QED
        BY <1>2, <1>6, <2>1, <4>1 DEF TypeOK
    <3>2. CASE UNCHANGED ended
      BY <1>4, <3>1, <3>2
    <3>3. CASE Told(buf) /\ Close(s, "found")
      <4>1. Stream!FindEnded(s)
        BY <1>3, <3>3, ToldTruly DEF Close, Stream!FindEnded
      <4>. QED
        BY <1>1, <1>4, <3>1, <4>1 DEF Stream!Next
    <3>. QED
      BY <1>6, <3>2, <3>3
  <2>2. CASE Understood(buf) # <<>>
    <3>1. Stream!Understand(s)
      <4>U. PICK U : U = understood[s]
        OBVIOUS
      <4>1. PICK u, n \in Nat :
              /\ Taken(U, u) /\ u + n <= sent[p]
              /\ Understood(buf) = [i \in 1 .. n |-> u + i]
        <5>1. k \in 1 .. Len(pipe[s]) /\ buf \in Seq(Cell)
              /\ buf = recvBuffer[s] \o SubSeq(pipe[s], 1, k)
          BY <1>3
        <5>. QED
          BY <4>U, <5>1, ReceivedMessages, Zenon
      <4>2. U \in Seq(Nat) /\ sent[p] \in Nat
        <5>1. sent[p] \in Nat
          BY <1>2, CellsTypes, Zenon
        <5>2. U \in Seq(1 .. MaxMessages)
          BY <1>2, <4>U DEF TypeOK
        <5>3. U \in Seq(Nat)
          BY <5>2, TransmissionAssumption
        <5>. QED
          BY <5>1, <5>3
      <4>e. PICK e : e = Stream!Last(U)
        OBVIOUS
      <4>3. e \in 0 .. u /\ e + 1 .. u \subseteq Fragile
        BY <4>1, <4>2, <4>e, TakenLast
      <4>4. n # 0
        BY <2>2, <4>1
      <4>f. PICK first \in Nat : first = u + 1
        OBVIOUS
      <4>g. PICK last \in Nat : last = u + n
        OBVIOUS
      <4>5. /\ first \in 1 .. sent[p] /\ last \in 1 .. sent[p] /\ e < first /\ first <= last
            /\ first - 1 = u /\ last - first + 1 = n
        <5>z. PICK z \in Nat : z = sent[p]
          BY <4>2, Zenon
        <5>1. u \in Nat /\ n \in Nat /\ u + n <= z /\ e \in 0 .. u /\ n # 0
          BY <4>1, <4>3, <4>4, <5>z
        <5>2. /\ first \in 1 .. z /\ last \in 1 .. z /\ e < first /\ first <= last
              /\ first - 1 = u /\ last - first + 1 = n
          BY <4>f, <4>g, <5>1, NextRun
        <5>. QED
          BY <5>z, <5>2, Zenon
      <4>6. e + 1 .. first - 1 \subseteq Fragile
        BY <4>3, <4>5
      <4>7. Understood(buf) = [i \in 1 .. last - first + 1 |-> first - 1 + i]
        BY <4>1, <4>5
      <4>8. understood' = [understood EXCEPT
                ![s] = @ \o [i \in 1 .. last - first + 1 |-> first - 1 + i]]
        BY <1>6, <4>7
      <4>. QED
        BY <4>5, <4>6, <4>8, <4>U, <4>e DEF Stream!Understand
    <3>2. CASE UNCHANGED ended
      BY <1>1, <1>4, <3>1, <3>2 DEF Stream!Next
    <3>3. CASE Told(buf) /\ Close(s, "found")
      <4>1. Stream!FindEnded(s)
        BY <1>3, <3>3, ToldTruly DEF Close, Stream!FindEnded
      <4>. QED
        BY <1>1, <1>4, <3>1, <4>1 DEF Stream!Next
    <3>. QED
      BY <1>6, <3>2, <3>3
  <2>. QED
    BY <2>1, <2>2
<1>. QED
  BY <1>3, <1>5, <1>6

LEMMA StepIsStream ==
    ASSUME IInv, IInv', Roomy => \A s \in Side : RoomInv(s), NEW s \in Side, ended[s] = "no",
           Step(s) \/ Leave(s) \/ Kill(s)
    PROVE  Stream!Next \/ UNCHANGED <<sent, understood, ended>>
<1>. DEFINE p == Peer[s]
<1>1. p \in Side /\ p # s /\ Peer[p] = s /\ \A t \in Side : t = s \/ t = p
  BY Sides
<1>2. TypeOK /\ TypeOK' /\ s \in Stream!Side
  BY StreamSides DEF IInv
<1>3. CASE SendCall(s)
  <2>1. PICK n \in Batch(s) :
        IF n = 0 THEN UNCHANGED sent ELSE sent' = [sent EXCEPT ![s] = @ + n]
    BY <1>3 DEF SendCall
  <2>2. UNCHANGED <<understood, ended>>
    BY <1>3 DEF SendCall
  <2>3. CASE n = 0
    BY <2>1, <2>2, <2>3
  <2>4. CASE n # 0
    <3>1. sent[s] + n \in sent[s] + 1 .. MaxMessages
      <4>1. sent[s] \in 0 .. MaxMessages /\ MaxMessages \in Nat /\ MaxBatch \in Nat
        BY <1>2, TransmissionAssumption DEF TypeOK
      <4>. QED
        BY <2>4, <4>1 DEF Batch, Smaller
    <3>2. sent' = [sent EXCEPT ![s] = sent[s] + n]
      BY <2>1, <2>4
    <3>3. Stream!Send(s)
      BY <2>2, <3>1, <3>2 DEF Stream!Send
    <3>. QED
      BY <1>2, <3>3 DEF Stream!Next
  <2>. QED
    BY <2>3, <2>4
<1>4. CASE SendSome(s) \/ ReceiveNothing(s)
  BY <1>4 DEF SendSome, ReceiveNothing
<1>5. ASSUME Close(s, "found"), ended[p] # "no" \/ ~Roomy, UNCHANGED <<sent, understood>>
      PROVE  Stream!Next
  <2>1. Stream!FindEnded(s)
    BY <1>5 DEF Close, Stream!FindEnded
  <2>. QED
    BY <1>2, <1>5, <2>1 DEF Stream!Next
<1>6. CASE SendToNobody(s)
  BY <1>5, <1>6 DEF SendToNobody
<1>7. CASE ReceiveZero(s)
  <2>1. ended[p] # "no" \/ ~Roomy
    BY <1>1, <1>7, SpaceLeft DEF ReceiveZero
  <2>. QED
    BY <1>5, <1>7, <2>1 DEF ReceiveZero
<1>8. CASE Leave(s) \/ Kill(s)
  <2>1. Stream!Leave(s)
    BY <1>8 DEF Leave, Kill, Close, Stream!Leave
  <2>. QED
    BY <1>2, <2>1 DEF Stream!Next
<1>9. CASE ReceiveSome(s)
  BY <1>9, ReceiveIsStream
<1>. QED
  BY <1>3, <1>4, <1>6, <1>7, <1>8, <1>9 DEF Step

LEMMA InitIsStream == Init => Stream!Init
BY StreamSides DEF Init, Stream!Init

(* The receive and send loops implement the stream of messages, for any     *)
(* sizes of messages, transmissions and buffers, any payloads and however   *)
(* many messages there are: handleserver.c:404-488, handleclient.c:150-247. *)
THEOREM ImplementsMessageStream == Spec => ImplementsStream
<1>. DEFINE I == IInv /\ (Roomy => \A s \in Side : RoomInv(s))
<1>1. Init => I
  BY StreamInitially, RoomInitially
<1>2. I /\ [Next]_vars => I'
  <2>1. ASSUME I, [Next]_vars PROVE IInv'
    BY <2>1, StreamAfterStep
  <2>2. ASSUME I, [Next]_vars, Roomy PROVE \A s \in Side : RoomInv(s)'
    <3>1. TypeOK /\ TypeOK'
      BY <2>1, <2>2 DEF IInv
    <3>. QED
      BY <2>2, <3>1, RoomAfterStep
  <2>3. Roomy' => Roomy
    BY DEF Roomy
  <2>. QED
    BY <2>1, <2>2, <2>3
<1>3. I /\ I' /\ [Next]_vars => [Stream!Next]_(Stream!vars)
  <2>. SUFFICES ASSUME I, I', [Next]_vars PROVE Stream!Next \/ UNCHANGED <<sent, understood, ended>>
    BY DEF Stream!vars
  <2>1. CASE UNCHANGED vars
    BY <2>1 DEF vars
  <2>2. CASE Next
    BY <2>2, StepIsStream DEF Next, Step
  <2>. QED
    BY <2>1, <2>2
<1>4. Init => Stream!Init
  BY InitIsStream
<1>. HIDE DEF I
<1>. QED
  BY <1>1, <1>2, <1>3, <1>4, PTL DEF Spec, ImplementsStream, Stream!Spec
=============================================================================
