--------------------------- MODULE TeensyLinkProofs ---------------------------
(***************************************************************************)
(* The link between xpteensy and a board, for any pins, values, sizes of    *)
(* the ring, number of packets and of faults: types; every press and every  *)
(* step the board has sent is told the user's modules once; and what both   *)
(* ends know of switches and outputs when nothing is under way.             *)
(***************************************************************************)
EXTENDS TeensyLink, DataLemmas

-----------------------------------------------------------------------------
(* Queues of packets                                                        *)

(* Latest and Telling from a value v of the pin instead of val[p].           *)
Hist(v, p, q, n) ==
    LET about == {i \in About(p, q) : i <= n}
    IN  IF about = {} THEN v ELSE q[CHOOSE i \in about : \A j \in about : j <= i].val
End(v, p, q) == Hist(v, p, q, Len(q))
Closes(v, p, q) == {i \in With(1, p, q) : Hist(v, p, q, i - 1) = 0}
Tells(v, p, q) ==
    IF Kind[p] = "toggle" THEN Cardinality(Closes(v, p, q))
    ELSE Cardinality(With(1, p, q)) - Cardinality(With(-1, p, q))

LEMMA LatestIsHist ==
    \A p, q, n : Latest(p, q, n) = Hist(val[p], p, q, n)
BY DEF Latest, Hist

LEMMA TellingIsTells ==
    \A p, q : Telling(p, q) = Tells(val[p], p, q)
<1>. TAKE p, q
<1>1. Presses(p, q) = Closes(val[p], p, q)
  BY LatestIsHist DEF Presses, Closes
<1>. QED
  BY <1>1, Zenon DEF Telling, Tells

(* The value goes from packet to packet.                                    *)
LEMMA HistStart ==
    ASSUME NEW v, NEW p, NEW q
    PROVE  Hist(v, p, q, 0) = v
<1>. DEFINE upto == {i \in About(p, q) : i <= 0}
<1>1. upto = {}
  BY DEF About
<1>. QED
  BY <1>1, Zenon DEF Hist

LEMMA HistNext ==
    ASSUME NEW v, NEW p, NEW q, Len(q) \in Nat, NEW n \in Nat
    PROVE  /\ n + 1 \in About(p, q) => Hist(v, p, q, n + 1) = q[n + 1].val
           /\ n + 1 \notin About(p, q) => Hist(v, p, q, n + 1) = Hist(v, p, q, n)
<1>. DEFINE upto(m) == {i \in About(p, q) : i <= m}
<1>1. About(p, q) \in SUBSET Nat
  BY DEF About
<1>2. ASSUME n + 1 \in About(p, q) PROVE Hist(v, p, q, n + 1) = q[n + 1].val
  <2>. DEFINE U == upto(n + 1)
  <2>1. n + 1 \in U /\ \A j \in U : j <= n + 1 /\ j \in Nat
    BY <1>1, <1>2
  <2>2. Hist(v, p, q, n + 1) = IF U = {} THEN v ELSE q[CHOOSE i \in U : \A j \in U : j <= i].val
    BY Zenon DEF Hist
  <2>. HIDE DEF U
  <2>3. \A i \in U : (\A j \in U : j <= i) => i = n + 1
    BY <2>1
  <2>4. (CHOOSE i \in U : \A j \in U : j <= i) = n + 1
    BY <2>1, <2>3
  <2>. QED
    BY <2>1, <2>2, <2>4
<1>3. ASSUME n + 1 \notin About(p, q) PROVE Hist(v, p, q, n + 1) = Hist(v, p, q, n)
  <2>. DEFINE U == upto(n + 1)
              V == upto(n)
  <2>1. U = V
    BY <1>1, <1>3
  <2>. DEFINE last(W) == IF W = {} THEN v ELSE q[CHOOSE i \in W : \A j \in W : j <= i].val
  <2>2. Hist(v, p, q, n + 1) = last(U) /\ Hist(v, p, q, n) = last(V)
    BY Zenon DEF Hist
  <2>. HIDE DEF U, V, last
  <2>. QED
    BY <2>1, <2>2, Zenon
<1>. QED
  BY <1>2, <1>3

(* Q is A followed by B.                                                    *)
IsJoin(Q, A, B) ==
    /\ Q \in Seq(Packets) /\ A \in Seq(Packets) /\ B \in Seq(Packets)
    /\ Len(A) \in Nat /\ Len(B) \in Nat /\ Len(Q) \in Nat /\ Len(Q) = Len(A) + Len(B)
    /\ \A i \in 1 .. Len(A) : Q[i] = A[i]
    /\ \A i \in 1 .. Len(B) : Q[Len(A) + i] = B[i]

LEMMA JoinIs ==
    ASSUME NEW A \in Seq(Packets), NEW B \in Seq(Packets)
    PROVE  IsJoin(A \o B, A, B)
BY DEF IsJoin

(* Where the packets of a joined queue come from.                           *)
LEMMA AboutJoined ==
    ASSUME NEW p, NEW Q, NEW A, NEW B, IsJoin(Q, A, B)
    PROVE  /\ \A i \in 1 .. Len(A) : i \in About(p, Q) <=> i \in About(p, A)
           /\ \A i \in 1 .. Len(B) : Len(A) + i \in About(p, Q) <=> i \in About(p, B)
<1>1. \A i \in 1 .. Len(A) : Q[i] = A[i] /\ i \in 1 .. Len(Q)
  BY DEF IsJoin
<1>2. \A i \in 1 .. Len(B) : Q[Len(A) + i] = B[i] /\ Len(A) + i \in 1 .. Len(Q)
  BY DEF IsJoin
<1>. QED
  BY <1>1, <1>2, Zenon DEF About

(* The value that a first part of the queue leaves is where the rest starts. *)
LEMMA HistJoined ==
    ASSUME NEW v, NEW p, NEW Q, NEW A, NEW B, IsJoin(Q, A, B)
    PROVE  /\ \A i \in 0 .. Len(A) : Hist(v, p, Q, i) = Hist(v, p, A, i)
           /\ \A i \in 0 .. Len(B) : Hist(v, p, Q, Len(A) + i) = Hist(End(v, p, A), p, B, i)
<1>1. PICK a \in Nat, b \in Nat : a = Len(A) /\ b = Len(B)
  BY DEF IsJoin
<1>2. Len(Q) \in Nat /\ Len(Q) = a + b /\ b \in 0 .. b
  BY <1>1 DEF IsJoin
<1>3. \A i \in 1 .. a : Q[i] = A[i] /\ (i \in About(p, Q) <=> i \in About(p, A))
  BY <1>1, AboutJoined DEF IsJoin
<1>4. \A i \in 1 .. b : Q[a + i] = B[i] /\ (a + i \in About(p, Q) <=> i \in About(p, B))
  BY <1>1, AboutJoined DEF IsJoin
<1>5. \A i \in 0 .. a : Hist(v, p, Q, i) = Hist(v, p, A, i)
  <2>. DEFINE S == {i \in 0 .. a : Hist(v, p, Q, i) = Hist(v, p, A, i)}
  <2>1. 0 \in S
    BY HistStart
  <2>2. ASSUME NEW n \in 0 .. a - 1, n \in S PROVE n + 1 \in S
    <3>1. n \in Nat /\ n + 1 \in 1 .. a /\ n + 1 \in 0 .. a
      OBVIOUS
    <3>2. /\ n + 1 \in About(p, Q) => Hist(v, p, Q, n + 1) = Q[n + 1].val
          /\ n + 1 \notin About(p, Q) => Hist(v, p, Q, n + 1) = Hist(v, p, Q, n)
      BY <1>1, <1>2, <3>1, HistNext
    <3>3. /\ n + 1 \in About(p, A) => Hist(v, p, A, n + 1) = A[n + 1].val
          /\ n + 1 \notin About(p, A) => Hist(v, p, A, n + 1) = Hist(v, p, A, n)
      BY <1>1, <1>2, <3>1, HistNext
    <3>. QED
      BY <1>3, <2>2, <3>1, <3>2, <3>3, Zenon
  <2>i. 0 \in Int /\ a \in Int
    OBVIOUS
  <2>3. \A n \in 0 .. a : n \in S
    <3>. HIDE DEF S
    <3>. QED
      BY <2>1, <2>2, <2>i, InductionFrom, Zenon
  <2>. QED
    BY <2>3
<1>6. \A i \in 0 .. b : Hist(v, p, Q, a + i) = Hist(End(v, p, A), p, B, i)
  <2>. DEFINE w == End(v, p, A)
              S == {i \in 0 .. b : Hist(v, p, Q, a + i) = Hist(w, p, B, i)}
  <2>1. 0 \in S
    <3>1. Hist(w, p, B, 0) = w
      BY HistStart, Zenon
    <3>2. a + 0 = a /\ a \in 0 .. a /\ 0 \in 0 .. b
      OBVIOUS
    <3>. QED
      BY <1>1, <1>5, <3>1, <3>2, Zenon DEF End
  <2>2. ASSUME NEW n \in 0 .. b - 1, n \in S PROVE n + 1 \in S
    <3>. HIDE DEF w
    <3>m. PICK m \in Nat : m = a + n
      OBVIOUS
    <3>1. n \in Nat /\ n + 1 \in 1 .. b /\ n + 1 \in 0 .. b /\ m + 1 = a + (n + 1)
      BY <3>m
    <3>2. /\ m + 1 \in About(p, Q) => Hist(v, p, Q, m + 1) = Q[m + 1].val
          /\ m + 1 \notin About(p, Q) => Hist(v, p, Q, m + 1) = Hist(v, p, Q, m)
      BY <1>1, <1>2, HistNext
    <3>3. /\ n + 1 \in About(p, B) => Hist(w, p, B, n + 1) = B[n + 1].val
          /\ n + 1 \notin About(p, B) => Hist(w, p, B, n + 1) = Hist(w, p, B, n)
      BY <1>1, <1>2, <3>1, HistNext
    <3>4. Hist(v, p, Q, m) = Hist(w, p, B, n)
      BY <2>2, <3>m
    <3>. QED
      BY <1>4, <3>1, <3>2, <3>3, <3>4, Zenon
  <2>i. 0 \in Int /\ b \in Int
    OBVIOUS
  <2>3. \A n \in 0 .. b : n \in S
    <3>. HIDE DEF S, w
    <3>. QED
      BY <2>1, <2>2, <2>i, InductionFrom, Zenon
  <2>. QED
    BY <2>3
<1>. QED
  BY <1>1, <1>5, <1>6, Zenon

LEMMA EndJoined ==
    ASSUME NEW v, NEW p, NEW Q, NEW A, NEW B, IsJoin(Q, A, B)
    PROVE  End(v, p, Q) = End(End(v, p, A), p, B)
<1>1. Len(B) \in 0 .. Len(B) /\ Len(Q) = Len(A) + Len(B)
  BY DEF IsJoin
<1>2. \A i \in 0 .. Len(B) : Hist(v, p, Q, Len(A) + i) = Hist(End(v, p, A), p, B, i)
  BY HistJoined
<1>. QED
  BY <1>1, <1>2, Zenon DEF End

(* The numbers of a set from a first and a second part of its range.         *)
Parts(a, b, S, SA, SB) ==
    /\ a \in Nat /\ b \in Nat
    /\ S \in SUBSET (1 .. a + b) /\ SA \in SUBSET (1 .. a) /\ SB \in SUBSET (1 .. b)
    /\ \A i \in 1 .. a : i \in S <=> i \in SA
    /\ \A i \in 1 .. b : a + i \in S <=> i \in SB

LEMMA JoinedSize ==
    ASSUME NEW a, NEW b, NEW S, NEW SA, NEW SB, Parts(a, b, S, SA, SB)
    PROVE  /\ Cardinality(SA) \in Nat /\ Cardinality(SB) \in Nat
           /\ Cardinality(S) = Cardinality(SA) + Cardinality(SB)
<1>. DEFINE T == {x + a : x \in SB}
<1>. USE DEF Parts
<1>1. IsFiniteSet(SA) /\ IsFiniteSet(SB)
  <2>1. IsFiniteSet(1 .. a) /\ IsFiniteSet(1 .. b)
    BY FS_Interval
  <2>. QED
    BY <2>1, FS_Subset
<1>2. IsFiniteSet(T) /\ Cardinality(T) = Cardinality(SB)
  <2>1. \A x \in SB : x \in Int
    OBVIOUS
  <2>2. a \in Int
    OBVIOUS
  <2>. QED
    BY <1>1, <2>1, <2>2, MovedSize, Zenon
<1>3. S = SA \cup T
  <2>1. ASSUME NEW i \in S PROVE i \in SA \cup T
    <3>1. CASE i <= a
      BY <3>1
    <3>2. CASE i > a
      <4>1. i - a \in 1 .. b /\ a + (i - a) = i /\ (i - a) + a = i
        BY <3>2
      <4>. QED
        BY <2>1, <4>1
    <3>. QED
      BY <3>1, <3>2
  <2>2. \A x \in SB : x + a = a + x /\ x \in 1 .. b
    OBVIOUS
  <2>3. \A x \in SB : x + a \in S
    BY <2>2
  <2>4. SA \subseteq S
    OBVIOUS
  <2>. QED
    BY <2>1, <2>3, <2>4
<1>4. SA \cap T = {}
  OBVIOUS
<1>5. Cardinality(SA) \in Nat /\ Cardinality(SB) \in Nat
  BY <1>1, FS_CardinalityType
<1>. HIDE DEF T
<1>6. Cardinality(SA \cup T) = Cardinality(SA) + Cardinality(T) - Cardinality(SA \cap T)
  BY <1>1, <1>2, FS_Union
<1>7. Cardinality(SA \cap T) = 0
  BY <1>4, FS_EmptySet, Zenon
<1>. QED
  BY <1>2, <1>3, <1>5, <1>6, <1>7

(* What a queue tells is what its two parts tell, one after the other.        *)
LEMMA TellsJoined ==
    ASSUME NEW v, NEW p, NEW Q, NEW A, NEW B, IsJoin(Q, A, B)
    PROVE  /\ Tells(v, p, A) \in Int /\ Tells(End(v, p, A), p, B) \in Int
           /\ Tells(v, p, Q) = Tells(v, p, A) + Tells(End(v, p, A), p, B)
<1>1. PICK a \in Nat, b \in Nat : Len(A) = a /\ Len(B) = b
  BY DEF IsJoin
<1>2. Len(Q) = a + b
  BY <1>1 DEF IsJoin
<1>3. \A i \in 1 .. a : Q[i] = A[i] /\ (i \in About(p, Q) <=> i \in About(p, A))
  BY <1>1, AboutJoined DEF IsJoin
<1>4. \A i \in 1 .. b : Q[a + i] = B[i] /\ (a + i \in About(p, Q) <=> i \in About(p, B))
  BY <1>1, AboutJoined DEF IsJoin
<1>w. PICK w : w = End(v, p, A)
  OBVIOUS
<1>5. /\ \A i \in 0 .. a : Hist(v, p, Q, i) = Hist(v, p, A, i)
      /\ \A i \in 0 .. b : Hist(v, p, Q, a + i) = Hist(w, p, B, i)
  <2>1. /\ \A i \in 0 .. Len(A) : Hist(v, p, Q, i) = Hist(v, p, A, i)
        /\ \A i \in 0 .. Len(B) : Hist(v, p, Q, Len(A) + i) = Hist(End(v, p, A), p, B, i)
    BY HistJoined
  <2>. QED
    BY <1>1, <1>w, <2>1, Zenon
<1>6. ASSUME NEW d
      PROVE  /\ With(d, p, Q) \in SUBSET (1 .. a + b)
             /\ With(d, p, A) \in SUBSET (1 .. a) /\ With(d, p, B) \in SUBSET (1 .. b)
             /\ \A i \in 1 .. a : i \in With(d, p, Q) <=> i \in With(d, p, A)
             /\ \A i \in 1 .. b : a + i \in With(d, p, Q) <=> i \in With(d, p, B)
  <2>1. With(d, p, Q) \in SUBSET (1 .. a + b)
    BY <1>2 DEF With, About
  <2>2. With(d, p, A) \in SUBSET (1 .. a) /\ With(d, p, B) \in SUBSET (1 .. b)
    BY <1>1 DEF With, About
  <2>. QED
    BY <1>3, <1>4, <2>1, <2>2, Zenon DEF With
<1>7. ASSUME NEW d
      PROVE  /\ Cardinality(With(d, p, A)) \in Nat /\ Cardinality(With(d, p, B)) \in Nat
             /\ Cardinality(With(d, p, Q)) = Cardinality(With(d, p, A)) + Cardinality(With(d, p, B))
  <2>1. Parts(a, b, With(d, p, Q), With(d, p, A), With(d, p, B))
    BY <1>6, Zenon DEF Parts
  <2>. QED
    BY <2>1, JoinedSize
<1>8. /\ Cardinality(Closes(v, p, A)) \in Nat /\ Cardinality(Closes(w, p, B)) \in Nat
      /\ Cardinality(Closes(v, p, Q)) = Cardinality(Closes(v, p, A)) + Cardinality(Closes(w, p, B))
  <2>1. /\ Closes(v, p, Q) \in SUBSET (1 .. a + b)
        /\ Closes(v, p, A) \in SUBSET (1 .. a) /\ Closes(w, p, B) \in SUBSET (1 .. b)
    BY <1>6, Zenon DEF Closes
  <2>2. ASSUME NEW i \in 1 .. a PROVE i \in Closes(v, p, Q) <=> i \in Closes(v, p, A)
    <3>1. i - 1 \in 0 .. a
      OBVIOUS
    <3>2. i \in With(1, p, Q) <=> i \in With(1, p, A)
      BY <1>6
    <3>. QED
      BY <1>5, <3>1, <3>2, Zenon DEF Closes
  <2>3. ASSUME NEW i \in 1 .. b PROVE a + i \in Closes(v, p, Q) <=> i \in Closes(w, p, B)
    <3>1. i - 1 \in 0 .. b /\ (a + i) - 1 = a + (i - 1)
      OBVIOUS
    <3>2. a + i \in With(1, p, Q) <=> i \in With(1, p, B)
      BY <1>6
    <3>3. Hist(v, p, Q, (a + i) - 1) = Hist(w, p, B, i - 1)
      BY <1>5, <3>1
    <3>. QED
      BY <3>2, <3>3, Zenon DEF Closes
  <2>. QED
    <3>1. Parts(a, b, Closes(v, p, Q), Closes(v, p, A), Closes(w, p, B))
      BY <2>1, <2>2, <2>3, Zenon DEF Parts
    <3>. QED
      BY <3>1, JoinedSize
<1>9. CASE Kind[p] = "toggle"
  BY <1>w, <1>8, <1>9 DEF Tells
<1>10. CASE Kind[p] # "toggle"
  <2>. DEFINE n(d, q) == Cardinality(With(d, p, q))
  <2>1. /\ n(1, A) \in Nat /\ n(1, B) \in Nat /\ n(1, Q) = n(1, A) + n(1, B)
        /\ n(-1, A) \in Nat /\ n(-1, B) \in Nat /\ n(-1, Q) = n(-1, A) + n(-1, B)
    BY <1>7
  <2>2. /\ Tells(v, p, Q) = n(1, Q) - n(-1, Q) /\ Tells(v, p, A) = n(1, A) - n(-1, A)
        /\ Tells(End(v, p, A), p, B) = n(1, B) - n(-1, B)
    BY <1>10, Zenon DEF Tells
  <2>. HIDE DEF n
  <2>. QED
    BY <2>1, <2>2
<1>. QED
  BY <1>9, <1>10

LEMMA TellsIn ==
    ASSUME NEW v, NEW p, NEW Q, NEW A, NEW B, IsJoin(Q, A, B)
    PROVE  Tells(v, p, Q) \in Int
<1>1. /\ Tells(v, p, A) \in Int /\ Tells(End(v, p, A), p, B) \in Int
      /\ Tells(v, p, Q) = Tells(v, p, A) + Tells(End(v, p, A), p, B)
  BY TellsJoined
<1>. QED
  BY <1>1

(* A queue without packets about p tells nothing.                           *)
LEMMA NothingAbout ==
    ASSUME NEW v, NEW p, NEW q, About(p, q) = {}
    PROVE  End(v, p, q) = v /\ Tells(v, p, q) = 0
<1>1. End(v, p, q) = v
  <2>. DEFINE U == {i \in About(p, q) : i <= Len(q)}
  <2>1. U = {}
    OBVIOUS
  <2>. QED
    BY <2>1, Zenon DEF End, Hist
<1>2. With(1, p, q) = {} /\ With(-1, p, q) = {} /\ Closes(v, p, q) = {}
  BY DEF With, Closes
<1>3. Cardinality({}) = 0 /\ 0 - 0 = 0
  BY FS_EmptySet
<1>. QED
  BY <1>1, <1>2, <1>3 DEF Tells

(* A queue with one packet about p.                                         *)
LEMMA OneAbout ==
    ASSUME NEW v, NEW p, NEW q, Len(q) \in Nat, NEW k, About(p, q) = {k}
    PROVE  /\ End(v, p, q) = q[k].val
           /\ Kind[p] = "toggle" => Tells(v, p, q) = IF q[k].val = 1 /\ v = 0 THEN 1 ELSE 0
           /\ Kind[p] # "toggle" /\ q[k].val \in {-1, 1} => Tells(v, p, q) = q[k].val
<1>1. k \in 1 .. Len(q) /\ k \in Int
  BY DEF About
<1>2. End(v, p, q) = q[k].val
  <2>. DEFINE U == {i \in About(p, q) : i <= Len(q)}
              last(W) == IF W = {} THEN v ELSE q[CHOOSE i \in W : \A j \in W : j <= i].val
  <2>1. U = {k}
    BY <1>1
  <2>2. End(v, p, q) = last(U)
    BY Zenon DEF End, Hist
  <2>. HIDE DEF U
  <2>3. (CHOOSE i \in {k} : \A j \in {k} : j <= i) = k
    BY <1>1
  <2>. QED
    BY <2>1, <2>2, <2>3
<1>3. Hist(v, p, q, k - 1) = v
  <2>. DEFINE U == {i \in About(p, q) : i <= k - 1}
  <2>1. U = {}
    BY <1>1
  <2>. QED
    BY <2>1, Zenon DEF Hist
<1>4. \A d : With(d, p, q) = IF q[k].val = d THEN {k} ELSE {}
  BY DEF With
<1>5. Closes(v, p, q) = IF q[k].val = 1 /\ v = 0 THEN {k} ELSE {}
  BY <1>3, <1>4 DEF Closes
<1>6. Cardinality({}) = 0 /\ Cardinality({k}) = 1
  BY FS_EmptySet, FS_Singleton
<1>7. Kind[p] = "toggle" => Tells(v, p, q) = IF q[k].val = 1 /\ v = 0 THEN 1 ELSE 0
  BY <1>5, <1>6 DEF Tells
<1>8. ASSUME Kind[p] # "toggle", q[k].val \in {-1, 1} PROVE Tells(v, p, q) = q[k].val
  <2>1. Tells(v, p, q) = Cardinality(With(1, p, q)) - Cardinality(With(-1, p, q))
    BY <1>8, Zenon DEF Tells
  <2>2. CASE q[k].val = 1
    <3>1. With(1, p, q) = {k} /\ With(-1, p, q) = {}
      BY <1>4, <2>2
    <3>2. Cardinality(With(1, p, q)) = 1 /\ Cardinality(With(-1, p, q)) = 0
      BY <1>6, <3>1, Zenon
    <3>. QED
      BY <2>1, <2>2, <3>2
  <2>3. CASE q[k].val = -1
    <3>1. With(1, p, q) = {} /\ With(-1, p, q) = {k}
      BY <1>4, <2>3
    <3>2. Cardinality(With(1, p, q)) = 0 /\ Cardinality(With(-1, p, q)) = 1
      BY <1>6, <3>1, Zenon
    <3>. QED
      BY <2>1, <2>3, <3>2
  <2>. QED
    BY <1>8, <2>2, <2>3
<1>. QED
  BY <1>2, <1>7, <1>8

-----------------------------------------------------------------------------
(* A packet for each of some pins                                           *)

LEMMA PacketFields ==
    /\ \A t : Packet(t).type = t
    /\ \A t, p, v : /\ PinPacket(t, p, v).type = t
                    /\ PinPacket(t, p, v).pin = p /\ PinPacket(t, p, v).val = v
BY DEF Packet, PinPacket

LEMMA PinFacts ==
    /\ \A p \in Pins : p \in Int /\ p >= 1
    /\ \A p \in Pins : Kind[p] \in {"toggle", "output", "direction"}
    /\ \E n \in Nat : Pins = 1 .. n
<1>1. Kind \in Seq({"toggle", "output", "direction"})
  BY TeensyAssumption
<1>2. PICK n \in Nat : n = Len(Kind)
  BY <1>1
<1>3. Pins = 1 .. n
  BY <1>1, <1>2 DEF Pins
<1>. QED
  BY <1>1, <1>2, <1>3

LEMMA NthFacts ==
    ASSUME NEW C \in SUBSET Pins
    PROVE  /\ Cardinality(C) \in Nat
           /\ \A k \in 1 .. Cardinality(C) : Nth(k, C) \in C
           /\ \A p \in C : \E k \in 1 .. Cardinality(C) :
                 \A j \in 1 .. Cardinality(C) : Nth(j, C) = p <=> j = k
<1>n. PICK n \in Nat : Pins = 1 .. n
  BY PinFacts
<1>1. IsFiniteSet(C) /\ Cardinality(C) \in Nat
  <2>1. IsFiniteSet(1 .. n) /\ C \in SUBSET (1 .. n)
    BY <1>n, FS_Interval
  <2>. QED
    BY <2>1, FS_Subset, FS_CardinalityType
<1>c. PICK c \in Nat : c = Cardinality(C)
  BY <1>1
<1>. DEFINE r(p) == Cardinality(Before(C, p))
<1>2. \A p, q : Before(C, p) = {o \in C : o < p}
  BY DEF Before
<1>3. ASSUME NEW p \in C PROVE r(p) \in Nat /\ r(p) < c
  <2>1. Before(C, p) \in SUBSET C /\ p \in C \ Before(C, p)
    BY <1>n DEF Before
  <2>2. Cardinality(Before(C, p)) \in Nat /\ Cardinality(Before(C, p)) <= c /\ Before(C, p) # C
    BY <1>1, <1>c, <2>1, FS_Subset, FS_CardinalityType
  <2>3. Cardinality(Before(C, p)) # Cardinality(C)
    BY <1>1, <2>1, <2>2, FS_Subset
  <2>. QED
    BY <1>c, <2>2, <2>3
<1>4. ASSUME NEW p \in C, NEW q \in C, p < q PROVE r(p) # r(q)
  <2>1. Before(C, p) \in SUBSET Before(C, q) /\ p \in Before(C, q) /\ p \notin Before(C, p)
    <3>1. \A o \in C : o \in Int
      BY <1>n
    <3>2. \A o \in C : o < p => o < q
      BY <1>4, <3>1
    <3>3. ~(p < p)
      BY <3>1
    <3>. QED
      BY <1>4, <3>2, <3>3 DEF Before
  <2>2. IsFiniteSet(Before(C, q))
    BY <1>1, FS_Subset DEF Before
  <2>. QED
    BY <2>1, <2>2, FS_Subset
<1>5. \A p, q \in C : r(p) = r(q) => p = q
  <2>1. \A p, q \in C : p < q \/ q < p \/ p = q
    BY <1>n
  <2>. HIDE DEF r
  <2>. QED
    BY <1>4, <2>1
<1>6. \A k \in 1 .. c : \E p \in C : r(p) = k - 1
  <2>1. \A h \in C : h \in 1 .. n
    BY <1>n
  <2>2. ASSUME NEW k \in 1 .. c PROVE \E p \in C : r(p) = k - 1
    <3>1. PICK i \in Nat : i = k - 1 /\ i < Cardinality(C)
      BY <1>c
    <3>2. 1 \in Int /\ n \in Int
      OBVIOUS
    <3>3. \E j \in C : Cardinality(Before(C, j)) = i
      BY <2>1, <3>1, <3>2, RankOnto
    <3>. QED
      BY <3>1, <3>3
  <2>. QED
    BY <2>2
<1>7. \A k : Nth(k, C) = CHOOSE p \in C : r(p) = k - 1
  BY <1>2, Zenon DEF Nth
<1>. HIDE DEF r
<1>8. \A k \in 1 .. c : Nth(k, C) \in C /\ r(Nth(k, C)) = k - 1
  BY <1>6, <1>7
<1>9. ASSUME NEW p \in C PROVE \E k \in 1 .. c : \A j \in 1 .. c : Nth(j, C) = p <=> j = k
  <2>1. PICK k \in 1 .. c : r(p) = k - 1
    <3>1. r(p) + 1 \in 1 .. c /\ r(p) = (r(p) + 1) - 1
      BY <1>3
    <3>. QED
      BY <3>1
  <2>2. ASSUME NEW j \in 1 .. c PROVE Nth(j, C) = p <=> j = k
    BY <1>5, <1>8, <2>1
  <2>. QED
    BY <2>2
<1>. QED
  BY <1>c, <1>8, <1>9

Carries(w, C, value) == C \in SUBSET Pins /\ w = PinPackets(C, value)

LEMMA PinPacketsFacts ==
    ASSUME NEW C, NEW value, NEW w, Carries(w, C, value)
    PROVE  /\ Len(w) = Cardinality(C) /\ Len(w) \in Nat
           /\ \A k \in 1 .. Len(w) :
                 Nth(k, C) \in C /\ w[k] = PinPacket("REGULAR", Nth(k, C), value[Nth(k, C)])
           /\ (\A p \in C : value[p] \in Data) => w \in Seq(Packets)
           /\ \A p : p \notin C => About(p, w) = {}
           /\ \A p \in C : \E k \in 1 .. Len(w) : About(p, w) = {k} /\ w[k].val = value[p]
<1>. USE DEF Carries
<1>c. PICK c \in Nat : c = Cardinality(C)
  BY NthFacts
<1>1. w = [k \in 1 .. c |-> PinPacket("REGULAR", Nth(k, C), value[Nth(k, C)])]
  BY <1>c DEF PinPackets
<1>2. Len(w) = c
  BY <1>1
<1>3. \A k \in 1 .. c : Nth(k, C) \in C /\ w[k] = PinPacket("REGULAR", Nth(k, C), value[Nth(k, C)])
  BY <1>1, <1>c, NthFacts
<1>4. ASSUME \A p \in C : value[p] \in Data PROVE w \in Seq(Packets)
  <2>1. \A k \in 1 .. c : PinPacket("REGULAR", Nth(k, C), value[Nth(k, C)]) \in Packets
    BY <1>3, <1>4 DEF PinPacket, Packets
  <2>2. w \in [1 .. c -> Packets]
    BY <1>1, <2>1
  <2>. QED
    BY <2>2
<1>5. ASSUME NEW p PROVE About(p, w) = {k \in 1 .. c : Nth(k, C) = p}
  <2>1. \A k \in 1 .. c : w[k].type = "REGULAR" /\ w[k].pin = Nth(k, C)
    BY <1>3, PacketFields
  <2>. QED
    BY <1>2, <2>1 DEF About
<1>6. \A p : p \notin C => About(p, w) = {}
  BY <1>3, <1>5
<1>7. ASSUME NEW p \in C PROVE \E k \in 1 .. c : About(p, w) = {k} /\ w[k].val = value[p]
  <2>1. PICK k \in 1 .. c : \A j \in 1 .. c : Nth(j, C) = p <=> j = k
    BY <1>c, NthFacts
  <2>2. About(p, w) = {k} /\ Nth(k, C) = p
    BY <1>5, <2>1
  <2>3. w[k].val = value[p]
    BY <1>3, <2>2, PacketFields
  <2>. QED
    BY <2>2, <2>3
<1>. QED
  BY <1>2, <1>3, <1>4, <1>6, <1>7, <1>c

LEMMA PinPacketsIn ==
    ASSUME NEW C \in SUBSET Pins, NEW value, NEW S,
           \A p \in C : PinPacket("REGULAR", p, value[p]) \in S
    PROVE  PinPackets(C, value) \in Seq(S)
<1>c. PICK c \in Nat : c = Cardinality(C)
  BY NthFacts
<1>1. \A k \in 1 .. c : PinPacket("REGULAR", Nth(k, C), value[Nth(k, C)]) \in S
  BY <1>c, NthFacts
<1>2. PinPackets(C, value) = [k \in 1 .. c |-> PinPacket("REGULAR", Nth(k, C), value[Nth(k, C)])]
  BY <1>c DEF PinPackets
<1>3. [k \in 1 .. c |-> PinPacket("REGULAR", Nth(k, C), value[Nth(k, C)])] \in [1 .. c -> S]
  BY <1>1
<1>. QED
  BY <1>2, <1>3

-----------------------------------------------------------------------------
(* Types                                                                    *)

(* The packets on their way to the program are answers to pings, readings   *)
(* of switches and steps of encoders; those on their way to the board have   *)
(* values that the pin can take.                                            *)
Reading(p) ==
    IF Kind[p] = "toggle" THEN {0, 1} ELSE IF Kind[p] = "direction" THEN {-1, 1} ELSE {}
Writing(p) == IF Kind[p] = "output" THEN Values \cup {INITVAL} ELSE Data

Answers ==
    {Packet("PING")}
        \cup {m \in [type : {"REGULAR"}, pin : Pins, val : Data] : m.val \in Reading(m.pin)}
Orders ==
    {Packet("PING"), Packet("RESET")}
        \cup {m \in [type : {"INIT", "REGULAR"}, pin : Pins, val : Data] : m.val \in Writing(m.pin)}

TInv ==
    /\ TypeOK
    /\ \A p \in Pins : val[p] \in Writing(p)
    /\ ring \in Seq(Answers) /\ toHost \in Seq(Answers) /\ toDevice \in Seq(Orders)
    /\ owed \in [Pins -> Int] /\ restarts \in Nat

LEMMA AnswerFacts ==
    /\ Answers \subseteq Packets
    /\ Packet("PING") \in Answers
    /\ \A m \in Answers :
          \/ m = Packet("PING") /\ m.type = "PING"
          \/ m.type = "REGULAR" /\ m.pin \in Pins /\ m.val \in Reading(m.pin) /\ m.val \in Data
    /\ \A p \in Pins : \A v \in Reading(p) : PinPacket("REGULAR", p, v) \in Answers
<1>1. \A p \in Pins : Reading(p) \subseteq Data
  BY DEF Reading, Data
<1>2. \A p \in Pins : \A v \in Reading(p) : PinPacket("REGULAR", p, v) \in Answers
  BY <1>1 DEF Answers, PinPacket
<1>3. Packet("PING").type = "PING"
  BY DEF Packet
<1>4. Answers \subseteq Packets /\ Packet("PING") \in Answers
  BY DEF Answers, Packets
<1>5. \A m \in Answers :
          \/ m = Packet("PING")
          \/ m.type = "REGULAR" /\ m.pin \in Pins /\ m.val \in Reading(m.pin) /\ m.val \in Data
  BY DEF Answers
<1>. QED
  BY <1>2, <1>3, <1>4, <1>5

LEMMA OrderFacts ==
    /\ Orders \subseteq Packets
    /\ Packet("PING") \in Orders /\ Packet("RESET") \in Orders
    /\ \A m \in Orders :
          \/ m = Packet("PING") /\ m.type = "PING"
          \/ m = Packet("RESET") /\ m.type = "RESET"
          \/ m.type \in {"INIT", "REGULAR"} /\ m.pin \in Pins /\ m.val \in Writing(m.pin)
    /\ \A t \in {"INIT", "REGULAR"}, p \in Pins : \A v \in Writing(p) : PinPacket(t, p, v) \in Orders
<1>1. \A p \in Pins : Writing(p) \subseteq Data
  BY DEF Writing, Data
<1>2. \A t \in {"INIT", "REGULAR"}, p \in Pins : \A v \in Writing(p) : PinPacket(t, p, v) \in Orders
  BY <1>1 DEF Orders, PinPacket
<1>3. Packet("PING").type = "PING" /\ Packet("RESET").type = "RESET"
  BY DEF Packet
<1>4. Orders \subseteq Packets /\ Packet("PING") \in Orders /\ Packet("RESET") \in Orders
  BY DEF Orders, Packets
<1>5. \A m \in Orders :
          \/ m = Packet("PING")
          \/ m = Packet("RESET")
          \/ m.type \in {"INIT", "REGULAR"} /\ m.pin \in Pins /\ m.val \in Writing(m.pin)
  BY DEF Orders
<1>. QED
  BY <1>2, <1>3, <1>4, <1>5

LEMMA OrdersJoin == \A A, B \in Seq(Orders) : A \o B \in Seq(Orders)
OBVIOUS

LEMMA AnswersJoin == \A A, B \in Seq(Answers) : A \o B \in Seq(Answers)
OBVIOUS

(* A reset and the initialisation of every pin.                             *)
LEMMA InitPacketsFacts ==
    ASSUME TInv
    PROVE  \E n \in Nat :
              /\ Pins = 1 .. n
              /\ InitPackets \in Seq(Orders) /\ Len(InitPackets) = n + 1
              /\ InitPackets[1] = Packet("RESET")
              /\ \A p \in Pins : InitPackets[p + 1] = PinPacket("INIT", p, val[p])
<1>n. PICK n \in Nat : Pins = 1 .. n
  BY PinFacts
<1>. DEFINE I == [p \in Pins |-> PinPacket("INIT", p, val[p])]
            R == <<Packet("RESET")>>
<1>1. \A p \in Pins : PinPacket("INIT", p, val[p]) \in Orders
  BY OrderFacts DEF TInv
<1>2. I \in [1 .. n -> Orders]
  BY <1>n, <1>1
<1>3. I \in Seq(Orders) /\ Len(I) = n
  BY <1>2
<1>4. R \in Seq(Orders) /\ Len(R) = 1 /\ R[1] = Packet("RESET")
  BY OrderFacts
<1>5. \A p \in Pins : I[p] = PinPacket("INIT", p, val[p])
  OBVIOUS
<1>6. InitPackets = R \o I
  BY DEF InitPackets
<1>. HIDE DEF I, R
<1>7. R \o I \in Seq(Orders)
  BY <1>3, <1>4
<1>8. IsJoin(R \o I, R, I)
  <2>1. R \in Seq(Packets) /\ I \in Seq(Packets)
    BY <1>3, <1>4, OrderFacts
  <2>. QED
    BY <2>1, JoinIs
<1>9. /\ Len(R \o I) = n + 1 /\ (R \o I)[1] = R[1]
      /\ \A p \in 1 .. n : (R \o I)[1 + p] = I[p]
  BY <1>3, <1>4, <1>8 DEF IsJoin
<1>10. \A p \in 1 .. n : 1 + p = p + 1
  OBVIOUS
<1>. QED
  BY <1>n, <1>4, <1>5, <1>6, <1>7, <1>9, <1>10

(* recv_teensy takes the oldest packet, if there is one.                     *)
LEMMA RecvIs ==
    ASSUME TInv, RecvTeensy
    PROVE  \/ ring = <<>> /\ ring' = ring /\ val' = val
           \/ /\ ring # <<>> /\ ring' = Tail(ring) /\ ring[1] \in Answers
              /\ val' = [p \in Pins |-> IF ring[1].type = "REGULAR" /\ ring[1].pin = p
                                        THEN ring[1].val ELSE val[p]]
<1>1. ring \in Seq(Answers) /\ val \in [Pins -> Data]
  BY DEF TInv, TypeOK
<1>2. /\ val' = [p \in Pins |-> Latest(p, ring, Taken)]
      /\ ring' = SubSeq(ring, Taken + 1, Len(ring))
  BY DEF RecvTeensy
<1>3. val' = [p \in Pins |-> Hist(val[p], p, ring, Taken)]
  BY <1>2, LatestIsHist
<1>4. CASE ring = <<>>
  <2>1. Taken = 0 /\ SubSeq(ring, 1, Len(ring)) = ring
    BY <1>1, <1>4 DEF Taken
  <2>2. \A p \in Pins : Hist(val[p], p, ring, 0) = val[p]
    BY HistStart
  <2>3. val' = [p \in Pins |-> val[p]]
    BY <1>3, <2>1, <2>2
  <2>. QED
    BY <1>1, <1>2, <1>4, <2>1, <2>3
<1>5. CASE ring # <<>>
  <2>1. Taken = 1 /\ SubSeq(ring, 2, Len(ring)) = Tail(ring) /\ 1 \in 1 .. Len(ring) /\ Len(ring) \in Nat
    BY <1>1, <1>5 DEF Taken
  <2>2. ring[1] \in Answers
    BY <1>1, <2>1
  <2>3. ASSUME NEW p \in Pins
        PROVE  Hist(val[p], p, ring, 1)
                 = IF ring[1].type = "REGULAR" /\ ring[1].pin = p THEN ring[1].val ELSE val[p]
    <3>1. 1 \in About(p, ring) <=> ring[1].type = "REGULAR" /\ ring[1].pin = p
      BY <2>1 DEF About
    <3>2. 0 \in Nat /\ 0 + 1 = 1
      OBVIOUS
    <3>3. /\ 1 \in About(p, ring) => Hist(val[p], p, ring, 1) = ring[1].val
          /\ 1 \notin About(p, ring) => Hist(val[p], p, ring, 1) = Hist(val[p], p, ring, 0)
      BY <2>1, <3>2, HistNext
    <3>4. Hist(val[p], p, ring, 0) = val[p]
      BY HistStart
    <3>. QED
      BY <3>1, <3>3, <3>4
  <2>4. ring' = Tail(ring)
    BY <1>2, <2>1
  <2>5. val' = [p \in Pins |-> IF ring[1].type = "REGULAR" /\ ring[1].pin = p
                               THEN ring[1].val ELSE val[p]]
    BY <1>3, <2>1, <2>3
  <2>. QED
    BY <1>5, <2>2, <2>4, <2>5
<1>. QED
  BY <1>4, <1>5

LEMMA TypesBegin == Init => TInv
<1>. SUFFICES ASSUME Init PROVE TInv
  OBVIOUS
<1>1. \A p \in Pins : INITVAL \in Writing(p) /\ INITVAL \in Data
  BY DEF Writing, Data
<1>2. TInv
  <2>1. /\ ring \in Seq(Packets) /\ toDevice \in Seq(Packets) /\ toHost \in Seq(Packets)
        /\ ring \in Seq(Answers) /\ toDevice \in Seq(Orders) /\ toHost \in Seq(Answers)
        /\ Len(ring) <= RingSize
    BY TeensyAssumption DEF Init
  <2>2. /\ \A p \in Pins : val[p] \in Writing(p)
        /\ val \in [Pins -> Data] /\ saved \in [Pins -> Data]
    BY <1>1 DEF Init
  <2>3. /\ dsaved \in [Pins -> {0, 1, INITVAL}] /\ level \in [Pins -> {0, 1}]
        /\ drive \in [Pins -> Values \cup {INITVAL}] /\ owed \in [Pins -> Int]
    BY DEF Init
  <2>. QED
    BY <2>1, <2>2, <2>3 DEF Init, TInv, TypeOK
<1>. QED
  BY <1>2

LEMMA TypesHost ==
    ASSUME TInv, Ping \/ InitTeensy \/ RecvTeensy \/ SendTeensy \/ PollThread
    PROVE  TInv'
<1>. USE DEF TInv, TypeOK, faults
<1>1. CASE Ping
  <2>1. toDevice' \in Seq(Orders) /\ toDevice' \in Seq(Packets)
    BY <1>1, OrderFacts DEF Ping
  <2>. QED
    BY <1>1, <2>1 DEF Ping, boardVars
<1>2. CASE InitTeensy
  <2>1. toDevice' \in Seq(Orders)
    <3>1. InitPackets \in Seq(Orders)
      BY InitPacketsFacts
    <3>2. toDevice' = toDevice \o InitPackets \/ toDevice' = toDevice
      BY <1>2 DEF InitTeensy
    <3>. QED
      BY <3>1, <3>2, OrdersJoin, Zenon
  <2>2. toDevice' \in Seq(Packets)
    BY <2>1, OrderFacts
  <2>3. initialized' \in BOOLEAN /\ (initialized' => online')
    BY <1>2 DEF InitTeensy, InitDue
  <2>. QED
    BY <1>2, <2>1, <2>2, <2>3 DEF InitTeensy, boardVars
<1>3. CASE RecvTeensy
  <2>1. /\ ring' \in Seq(Answers) /\ Len(ring') <= RingSize
        /\ val' \in [Pins -> Data] /\ \A p \in Pins : val'[p] \in Writing(p)
    <3>1. CASE ring = <<>> /\ ring' = ring /\ val' = val
      BY <3>1
    <3>2. CASE /\ ring # <<>> /\ ring' = Tail(ring) /\ ring[1] \in Answers
               /\ val' = [p \in Pins |-> IF ring[1].type = "REGULAR" /\ ring[1].pin = p
                                         THEN ring[1].val ELSE val[p]]
      <4>1. ring' \in Seq(Answers) /\ Len(ring') <= RingSize
        <5>1. Len(ring) \in Nat /\ Len(Tail(ring)) = Len(ring) - 1 /\ RingSize \in Nat
          BY <3>2, TeensyAssumption
        <5>. QED
          BY <3>2, <5>1
      <4>2. ASSUME ring[1].type = "REGULAR"
            PROVE  ring[1].val \in Data /\ ring[1].val \in Writing(ring[1].pin)
        <5>1. ring[1].pin \in Pins /\ ring[1].val \in Reading(ring[1].pin) /\ ring[1].val \in Data
          BY <3>2, <4>2, AnswerFacts
        <5>2. Kind[ring[1].pin] # "output"
          BY <5>1 DEF Reading
        <5>. QED
          BY <5>1, <5>2 DEF Writing
      <4>. QED
        BY <3>2, <4>1, <4>2
    <3>. QED
      BY <1>3, <3>1, <3>2, RecvIs
  <2>2. ring' \in Seq(Packets)
    BY <2>1, AnswerFacts
  <2>3. online' \in BOOLEAN /\ (initialized => online')
    BY <1>3 DEF RecvTeensy
  <2>. QED
    BY <1>3, <2>1, <2>2, <2>3 DEF RecvTeensy, boardVars
<1>4. CASE SendTeensy
  <2>1. toDevice' \in Seq(Orders)
    <3>. DEFINE C == {p \in Pins : ChangedOutput(p)}
    <3>1. \A p \in C : PinPacket("REGULAR", p, val[p]) \in Orders
      BY OrderFacts
    <3>2. PinPackets(C, val) \in Seq(Orders)
      <4>1. C \in SUBSET Pins
        OBVIOUS
      <4>. HIDE DEF C
      <4>. QED
        BY <3>1, <4>1, PinPacketsIn
    <3>3. toDevice' = toDevice \o PinPackets(C, val) \/ toDevice' = toDevice
      BY <1>4 DEF SendTeensy
    <3>. HIDE DEF C
    <3>. QED
      BY <3>2, <3>3, OrdersJoin, Zenon
  <2>2. toDevice' \in Seq(Packets)
    BY <2>1, OrderFacts
  <2>3. saved' \in [Pins -> Data]
    BY <1>4 DEF SendTeensy, Saved
  <2>. QED
    BY <1>4, <2>1, <2>2, <2>3 DEF SendTeensy, boardVars
<1>5. CASE PollThread
  <2>1. Head(toHost) \in Answers /\ toHost' \in Seq(Answers)
    BY <1>5 DEF PollThread
  <2>2. ring' \in Seq(Answers) /\ Len(ring') <= RingSize
    <3>1. CASE Len(ring) < RingSize /\ ring' = Append(ring, Head(toHost))
      <4>1. Len(ring) \in Nat /\ RingSize \in Nat /\ Len(ring') = Len(ring) + 1
        BY <2>1, <3>1, TeensyAssumption
      <4>. QED
        BY <2>1, <3>1, <4>1
    <3>2. CASE ring' = ring
      BY <3>2
    <3>. QED
      BY <1>5, <3>1, <3>2 DEF PollThread
  <2>3. ring' \in Seq(Packets) /\ toHost' \in Seq(Packets)
    BY <2>1, <2>2, AnswerFacts
  <2>. QED
    BY <1>5, <2>1, <2>2, <2>3 DEF PollThread, hostVars, boardVars
<1>. QED
  BY <1>1, <1>2, <1>3, <1>4, <1>5

LEMMA ToldInt ==
    ASSUME TInv, NEW p \in Pins
    PROVE  Told(p) \in Int
BY DEF Told

LEMMA TypesUser ==
    ASSUME TInv, UserModule
    PROVE  TInv'
<1>. USE DEF TInv, TypeOK
<1>w. PICK written \in SUBSET OfKind("output") :
          \E v \in [written -> Values] :
              val' = [p \in Pins |-> IF p \in written THEN v[p] ELSE AfterReading(p)]
  BY DEF UserModule
<1>1. PICK v \in [written -> Values] :
          val' = [p \in Pins |-> IF p \in written THEN v[p] ELSE AfterReading(p)]
  BY <1>w
<1>2. ASSUME NEW p \in Pins
      PROVE  (IF p \in written THEN v[p] ELSE AfterReading(p)) \in Writing(p) \cap Data
  <2>1. CASE p \in written
    <3>1. v[p] \in Values /\ Kind[p] = "output"
      BY <2>1 DEF OfKind
    <3>. QED
      BY <2>1, <3>1 DEF Writing, Data
  <2>2. CASE p \notin written
    <3>1. CASE Steps(p)
      BY <2>2, <3>1 DEF Steps, AfterReading, Writing, Data
    <3>2. CASE ~Steps(p)
      BY <2>2, <3>2 DEF AfterReading
    <3>. QED
      BY <3>1, <3>2
  <2>. QED
    BY <2>1, <2>2
<1>3. val' \in [Pins -> Data] /\ \A p \in Pins : val'[p] \in Writing(p)
  BY <1>1, <1>2
<1>4. owed' \in [Pins -> Int]
  <2>1. owed' = [p \in Pins |-> owed[p] - Told(p)]
    BY DEF UserModule
  <2>. QED
    BY <2>1, ToldInt
<1>. QED
  BY <1>3, <1>4 DEF UserModule, boardVars, faults

LEMMA TypesBoard ==
    ASSUME TInv, BoardReceive \/ BoardRead \/ \E p \in Pins : Operate(p) \/ \E d \in {-1, 1} : BoardTurn(p, d)
    PROVE  TInv'
<1>. USE DEF TInv, TypeOK
<1>1. CASE BoardReceive
  <2>m. PICK m : m = Head(toDevice)
    OBVIOUS
  <2>1. m \in Orders /\ toDevice' \in Seq(Orders)
    BY <1>1, <2>m DEF BoardReceive
  <2>2. toDevice' \in Seq(Packets)
    BY <2>1, OrderFacts
  <2>3. CASE m.type = "PING" /\ toHost' = Append(toHost, Packet("PING")) /\ UNCHANGED <<mode, dsaved, drive>>
    <3>1. toHost' \in Seq(Answers)
      BY <2>3, AnswerFacts
    <3>2. toHost' \in Seq(Packets)
      BY <3>1, AnswerFacts
    <3>. QED
      BY <1>1, <2>1, <2>2, <2>3, <3>1, <3>2 DEF BoardReceive, hostVars, faults
  <2>4. CASE mode' = {} /\ dsaved' = [p \in Pins |-> INITVAL] /\ UNCHANGED <<toHost, drive>>
    BY <1>1, <2>1, <2>2, <2>4 DEF BoardReceive, hostVars, faults
  <2>5. CASE /\ m.type \in {"INIT", "REGULAR"}
             /\ mode' = IF m.type = "INIT" THEN mode \cup {m.pin} ELSE mode
             /\ dsaved' = IF m.type = "INIT" THEN [dsaved EXCEPT ![m.pin] = INITVAL] ELSE dsaved
             /\ drive' = IF Kind[m.pin] = "output" /\ m.pin \in mode' /\ m.val # INITVAL
                         THEN [drive EXCEPT ![m.pin] = m.val] ELSE drive
             /\ UNCHANGED toHost
    <3>1. m.pin \in Pins /\ m.val \in Writing(m.pin)
      BY <2>1, <2>5, OrderFacts DEF Packet
    <3>2. mode' \in SUBSET Pins /\ dsaved' \in [Pins -> {0, 1, INITVAL}]
      BY <2>5, <3>1
    <3>3. Kind[m.pin] = "output" => m.val \in Values \cup {INITVAL}
      BY <3>1 DEF Writing
    <3>4. drive' \in [Pins -> Values \cup {INITVAL}]
      BY <2>5, <3>1, <3>3
    <3>. QED
      BY <1>1, <2>1, <2>2, <2>5, <3>2, <3>4 DEF BoardReceive, hostVars, faults
  <2>. QED
    BY <1>1, <2>m, <2>3, <2>4, <2>5 DEF BoardReceive
<1>2. CASE BoardRead
  <2>1. toHost' \in Seq(Answers)
    <3>. DEFINE C == {p \in Pins : News(p)}
    <3>1. \A p \in C : PinPacket("REGULAR", p, level[p]) \in Answers
      <4>1. \A p \in C : level[p] \in Reading(p)
        BY DEF News, Reading
      <4>. QED
        BY <4>1, AnswerFacts
    <3>2. PinPackets(C, level) \in Seq(Answers)
      <4>1. C \in SUBSET Pins
        OBVIOUS
      <4>. HIDE DEF C
      <4>. QED
        BY <3>1, <4>1, PinPacketsIn
    <3>3. toHost' = toHost \o PinPackets(C, level)
      BY <1>2 DEF BoardRead
    <3>. HIDE DEF C
    <3>. QED
      BY <3>2, <3>3, AnswersJoin, Zenon
  <2>2. toHost' \in Seq(Packets)
    BY <2>1, AnswerFacts
  <2>3. dsaved' \in [Pins -> {0, 1, INITVAL}] /\ owed' \in [Pins -> Int]
    BY <1>2 DEF BoardRead
  <2>. QED
    BY <1>2, <2>1, <2>2, <2>3 DEF BoardRead, hostVars, faults
<1>3. CASE \E p \in Pins : Operate(p)
  <2>. PICK p \in Pins : Operate(p)
    BY <1>3
  <2>1. level' \in [Pins -> {0, 1}]
    <3>1. level' = [level EXCEPT ![p] = 1 - level[p]]
      BY Zenon DEF Operate
    <3>2. PICK x \in {0, 1} : x = level[p]
      OBVIOUS
    <3>3. 1 - x \in {0, 1}
      OBVIOUS
    <3>. QED
      BY <3>1, <3>2, <3>3
  <2>. QED
    BY <2>1 DEF Operate, hostVars, faults
<1>4. CASE \E p \in Pins : \E d \in {-1, 1} : BoardTurn(p, d)
  <2>. PICK p \in Pins, d \in {-1, 1} : BoardTurn(p, d)
    BY <1>4
  <2>1. toHost' \in Seq(Answers)
    <3>1. d \in Reading(p)
      BY DEF BoardTurn, Reading
    <3>2. PinPacket("REGULAR", p, d) \in Answers
      BY <3>1, AnswerFacts
    <3>. QED
      BY <3>2 DEF BoardTurn
  <2>2. toHost' \in Seq(Packets)
    BY <2>1, AnswerFacts
  <2>3. owed' \in [Pins -> Int]
    BY DEF BoardTurn
  <2>. QED
    BY <2>1, <2>2, <2>3 DEF BoardTurn, hostVars, boardVars, faults
<1>. QED
  BY <1>1, <1>2, <1>3, <1>4

LEMMA TypesFaults ==
    ASSUME TInv, LosePacket \/ Restart
    PROVE  TInv'
<1>. USE DEF TInv, TypeOK
<1>1. CASE LosePacket
  <2>1. toDevice' \in Seq(Orders) /\ toHost' \in Seq(Answers)
    <3>1. CASE toDevice # <<>> /\ toDevice' = Tail(toDevice) /\ UNCHANGED toHost
      BY <3>1
    <3>2. CASE toHost # <<>> /\ toHost' = Tail(toHost) /\ UNCHANGED toDevice
      BY <3>2
    <3>. QED
      BY <1>1, <3>1, <3>2 DEF LosePacket
  <2>2. toDevice' \in Seq(Packets) /\ toHost' \in Seq(Packets)
    BY <2>1, OrderFacts, AnswerFacts
  <2>. QED
    BY <1>1, <2>1, <2>2 DEF LosePacket, hostVars, boardVars
<1>2. CASE Restart
  <2>1. \A p \in Pins : INITVAL \in Writing(p) /\ INITVAL \in Data
    BY DEF Writing, Data
  <2>2. ring' \in Seq(Packets) /\ ring' \in Seq(Answers) /\ Len(ring') <= RingSize
    BY <1>2, TeensyAssumption DEF Restart
  <2>3. /\ val' = [p \in Pins |-> INITVAL] /\ saved' = [p \in Pins |-> INITVAL]
        /\ phase' = "init" /\ online' = FALSE /\ initialized' = FALSE
        /\ restarts' = restarts + 1 /\ toDevice' = toDevice /\ toHost' = toHost /\ owed' = owed
        /\ mode' = mode /\ dsaved' = dsaved /\ level' = level /\ drive' = drive
    BY <1>2 DEF Restart, boardVars
  <2>4. val' \in [Pins -> Data] /\ saved' \in [Pins -> Data] /\ \A p \in Pins : val'[p] \in Writing(p)
    BY <2>1, <2>3
  <2>5. TypeOK'
    BY <2>2, <2>3, <2>4
  <2>6. restarts' \in Nat
    BY <2>3
  <2>. QED
    BY <2>2, <2>3, <2>4, <2>5, <2>6, Zenon
<1>. QED
  BY <1>1, <1>2

LEMMA TypesStutter == TInv /\ UNCHANGED vars => TInv'
BY DEF TInv, TypeOK, vars, hostVars, boardVars, faults

LEMMA TypesStep == TInv /\ [Next]_vars => TInv'
BY TypesHost, TypesUser, TypesBoard, TypesFaults, TypesStutter DEF Next, MainLoop

(* The types: pins, values and packets are in their ranges in every state,   *)
(* the ring never exceeds its size, an output shows only values of outputs,  *)
(* and the board is initialised only after it has answered.                  *)
THEOREM TypeCorrect == Spec => []TypeOK
<1>1. TInv => TypeOK
  BY DEF TInv
<1>. QED
  BY <1>1, TypesBegin, TypesStep, PTL DEF Spec

-----------------------------------------------------------------------------
(* The handshake                                                            *)

Pings == {Packet("PING")}

(* Before the program has initialised the board nothing but pings is under  *)
(* way, and nothing is known of an input.                                   *)
Quiet ==
    ~initialized =>
        /\ toDevice \in Seq(Pings) /\ ring \in Seq(Pings) /\ toHost \in Seq(Pings)
        /\ mode = {} /\ \A p \in Pins : dsaved[p] = INITVAL
        /\ \A p \in Pins : Kind[p] # "output" => val[p] = INITVAL /\ saved[p] = INITVAL

(* A reset that is under way precedes every initialisation, of which there  *)
(* is one for each pin; until then the board has not reported the pin.      *)
Ordered(q) ==
    /\ \A i, j \in 1 .. Len(q) : q[i].type = "RESET" /\ q[j].type = "INIT" => i < j
    /\ \A i, j \in 1 .. Len(q) :
          q[i].type = "INIT" /\ q[j].type = "INIT" /\ q[i].pin = q[j].pin => i = j

Starting ==
    /\ Ordered(toDevice)
    /\ \A i \in 1 .. Len(toDevice) :
          /\ toDevice[i].type = "RESET" => mode = {} /\ \A p \in Pins : dsaved[p] = INITVAL
          /\ toDevice[i].type = "INIT" =>
                toDevice[i].pin \notin mode /\ dsaved[toDevice[i].pin] = INITVAL

(* A reading is new only between recv_teensy and reset_teensydata.          *)
Fresh ==
    \A p \in Pins : Kind[p] # "output" =>
        /\ phase \in {"init", "recv"} => saved[p] = val[p]
        /\ Kind[p] = "direction" =>
              IF phase = "user"
              THEN saved[p] \in {0, INITVAL} /\ (val[p] = saved[p] \/ val[p] \in {-1, 1})
              ELSE val[p] \in {0, INITVAL}

LEMMA PingQueue ==
    ASSUME NEW q \in Seq(Pings)
    PROVE  /\ \A i \in 1 .. Len(q) : q[i] = Packet("PING") /\ q[i].type = "PING"
           /\ Append(q, Packet("PING")) \in Seq(Pings)
           /\ q # <<>> => Tail(q) \in Seq(Pings) /\ Head(q) = Packet("PING") /\ Head(q).type = "PING"
<1>1. \A i \in 1 .. Len(q) : q[i] = Packet("PING")
  BY DEF Pings
<1>2. Append(q, Packet("PING")) \in Seq(Pings)
  BY DEF Pings
<1>3. q # <<>> => Tail(q) \in Seq(Pings) /\ Head(q) = Packet("PING")
  BY DEF Pings
<1>. QED
  BY <1>1, <1>2, <1>3, PacketFields

(* Pings and pins' values do not matter to the order.                        *)
LEMMA StartingPings ==
    ASSUME toDevice' \in Seq(Pings)
    PROVE  Starting'
<1>1. \A i \in 1 .. Len(toDevice') : toDevice'[i].type = "PING"
  BY PingQueue
<1>. QED
  BY <1>1, Zenon DEF Starting, Ordered

LEMMA StartingTail ==
    ASSUME Starting, toDevice \in Seq(Orders), toDevice # <<>>, toDevice' = Tail(toDevice),
           mode' = mode, dsaved' = dsaved
    PROVE  Starting'
<1>1. \A i \in 1 .. Len(toDevice') : toDevice'[i] = toDevice[i + 1] /\ i + 1 \in 1 .. Len(toDevice)
  OBVIOUS
<1>2. \A i, j \in 1 .. Len(toDevice') : (i < j <=> i + 1 < j + 1) /\ (i = j <=> i + 1 = j + 1)
  OBVIOUS
<1>3. ASSUME NEW i \in 1 .. Len(toDevice'), NEW j \in 1 .. Len(toDevice'),
             toDevice'[i].type = "RESET", toDevice'[j].type = "INIT"
      PROVE  i < j
  <2>1. i + 1 < j + 1
    BY <1>1, <1>3 DEF Starting, Ordered
  <2>. QED
    BY <1>2, <2>1
<1>4. ASSUME NEW i \in 1 .. Len(toDevice'), NEW j \in 1 .. Len(toDevice'),
             toDevice'[i].type = "INIT", toDevice'[j].type = "INIT", toDevice'[i].pin = toDevice'[j].pin
      PROVE  i = j
  <2>1. i + 1 = j + 1
    BY <1>1, <1>4 DEF Starting, Ordered
  <2>. QED
    BY <1>2, <2>1
<1>5. ASSUME NEW i \in 1 .. Len(toDevice')
      PROVE  /\ toDevice'[i].type = "RESET" => mode' = {} /\ \A p \in Pins : dsaved'[p] = INITVAL
             /\ toDevice'[i].type = "INIT" =>
                   toDevice'[i].pin \notin mode' /\ dsaved'[toDevice'[i].pin] = INITVAL
  BY <1>1, Zenon DEF Starting
<1>. QED
  BY <1>3, <1>4, <1>5, Zenon DEF Starting, Ordered

LEMMA StartingSame ==
    ASSUME Starting, toDevice' = toDevice, mode' = mode, dsaved' = dsaved
    PROVE  Starting'
BY Zenon DEF Starting, Ordered

(* Packets that set outputs follow.                                         *)
LEMMA StartingMore ==
    ASSUME Starting, NEW W \in Seq(Packets), \A i \in 1 .. Len(W) : W[i].type = "REGULAR",
           toDevice \in Seq(Packets), toDevice' = toDevice \o W, mode' = mode, dsaved' = dsaved
    PROVE  Starting'
<1>1. IsJoin(toDevice', toDevice, W)
  BY JoinIs
<1>2. ASSUME NEW i \in 1 .. Len(toDevice'), toDevice'[i].type \in {"RESET", "INIT"}
      PROVE  i \in 1 .. Len(toDevice) /\ toDevice'[i] = toDevice[i]
  <2>1. CASE i <= Len(toDevice)
    BY <1>1, <2>1 DEF IsJoin
  <2>2. CASE i > Len(toDevice)
    <3>1. PICK k \in 1 .. Len(W) : i = Len(toDevice) + k
      <4>1. i - Len(toDevice) \in 1 .. Len(W) /\ i = Len(toDevice) + (i - Len(toDevice))
        BY <1>1, <2>2 DEF IsJoin
      <4>. QED
        BY <4>1
    <3>2. toDevice'[i] = W[k]
      BY <1>1, <3>1 DEF IsJoin
    <3>. QED
      BY <1>2, <3>2
  <2>3. i <= Len(toDevice) \/ i > Len(toDevice)
    BY <1>1 DEF IsJoin
  <2>. QED
    BY <2>1, <2>2, <2>3
<1>3. ASSUME NEW i \in 1 .. Len(toDevice'), NEW j \in 1 .. Len(toDevice'),
             toDevice'[i].type = "RESET", toDevice'[j].type = "INIT"
      PROVE  i < j
  <2>1. toDevice'[i].type \in {"RESET", "INIT"} /\ toDevice'[j].type \in {"RESET", "INIT"}
    BY <1>3
  <2>. QED
    BY <1>2, <1>3, <2>1 DEF Starting, Ordered
<1>4. ASSUME NEW i \in 1 .. Len(toDevice'), NEW j \in 1 .. Len(toDevice'),
             toDevice'[i].type = "INIT", toDevice'[j].type = "INIT", toDevice'[i].pin = toDevice'[j].pin
      PROVE  i = j
  <2>1. toDevice'[i].type \in {"RESET", "INIT"} /\ toDevice'[j].type \in {"RESET", "INIT"}
    BY <1>4
  <2>. QED
    BY <1>2, <1>4, <2>1 DEF Starting, Ordered
<1>5. ASSUME NEW i \in 1 .. Len(toDevice')
      PROVE  /\ toDevice'[i].type = "RESET" => mode' = {} /\ \A p \in Pins : dsaved'[p] = INITVAL
             /\ toDevice'[i].type = "INIT" =>
                   toDevice'[i].pin \notin mode' /\ dsaved'[toDevice'[i].pin] = INITVAL
  BY <1>2, Zenon DEF Starting
<1>. QED
  BY <1>3, <1>4, <1>5, Zenon DEF Starting, Ordered

(* The packets of init_teensy.                                              *)
LEMMA StartingInit ==
    ASSUME TInv, toDevice \in Seq(Pings), toDevice' = toDevice \o InitPackets,
           mode = {}, \A p \in Pins : dsaved[p] = INITVAL, mode' = mode, dsaved' = dsaved
    PROVE  Starting'
<1>1. PICK n \in Nat : 
          /\ Pins = 1 .. n
          /\ InitPackets \in Seq(Orders) /\ Len(InitPackets) = n + 1
          /\ InitPackets[1] = Packet("RESET")
          /\ \A p \in Pins : InitPackets[p + 1] = PinPacket("INIT", p, val[p])
  BY InitPacketsFacts
<1>2. IsJoin(toDevice', toDevice, InitPackets)
  <2>1. toDevice \in Seq(Packets) /\ InitPackets \in Seq(Packets)
    BY <1>1, OrderFacts DEF TInv, TypeOK
  <2>. QED
    BY <2>1, JoinIs
<1>l. PICK l \in Nat : l = Len(toDevice)
  BY <1>2 DEF IsJoin
<1>3. ASSUME NEW i \in 1 .. Len(toDevice')
      PROVE  /\ i <= l => toDevice'[i].type = "PING"
             /\ i = l + 1 => toDevice'[i].type = "RESET"
             /\ i > l + 1 => /\ i - (l + 1) \in Pins
                             /\ toDevice'[i].type = "INIT" /\ toDevice'[i].pin = i - (l + 1)
  <2>1. ASSUME i <= l PROVE toDevice'[i].type = "PING"
    <3>1. i \in 1 .. Len(toDevice) /\ toDevice'[i] = toDevice[i]
      BY <1>2, <1>l, <2>1 DEF IsJoin
    <3>. QED
      BY <3>1, PingQueue
  <2>2. ASSUME i = l + 1 PROVE toDevice'[i].type = "RESET"
    <3>1. toDevice'[i] = InitPackets[1]
      BY <1>1, <1>2, <1>l, <2>2 DEF IsJoin
    <3>. QED
      BY <1>1, <3>1, PacketFields
  <2>3. ASSUME i > l + 1
        PROVE  /\ i - (l + 1) \in Pins
               /\ toDevice'[i].type = "INIT" /\ toDevice'[i].pin = i - (l + 1)
    <3>1. PICK p \in 1 .. n : p = i - (l + 1)
      <4>1. i <= l + (n + 1)
        BY <1>1, <1>2, <1>l DEF IsJoin
      <4>. QED
        BY <2>3, <4>1
    <3>2. p + 1 \in 1 .. Len(InitPackets) /\ i = Len(toDevice) + (p + 1)
      BY <1>1, <1>l, <3>1
    <3>3. toDevice'[i] = InitPackets[p + 1]
      BY <1>2, <3>2 DEF IsJoin
    <3>4. toDevice'[i] = PinPacket("INIT", p, val[p])
      BY <1>1, <3>3
    <3>. QED
      BY <1>1, <3>1, <3>4, PacketFields
  <2>. QED
    BY <2>1, <2>2, <2>3
<1>4. ASSUME NEW i \in 1 .. Len(toDevice')
      PROVE  /\ toDevice'[i].type = "RESET" => i = l + 1
             /\ toDevice'[i].type = "INIT" =>
                   i > l + 1 /\ i - (l + 1) \in Pins /\ toDevice'[i].pin = i - (l + 1)
  <2>1. i <= l \/ i = l + 1 \/ i > l + 1
    OBVIOUS
  <2>. QED
    BY <1>3, <2>1
<1>5. ASSUME NEW i \in 1 .. Len(toDevice'), NEW j \in 1 .. Len(toDevice'),
             toDevice'[i].type = "RESET", toDevice'[j].type = "INIT"
      PROVE  i < j
  BY <1>4, <1>5
<1>6. ASSUME NEW i \in 1 .. Len(toDevice'), NEW j \in 1 .. Len(toDevice'),
             toDevice'[i].type = "INIT", toDevice'[j].type = "INIT", toDevice'[i].pin = toDevice'[j].pin
      PROVE  i = j
  <2>1. i - (l + 1) = j - (l + 1)
    BY <1>4, <1>6
  <2>. QED
    BY <2>1
<1>7. ASSUME NEW i \in 1 .. Len(toDevice')
      PROVE  /\ toDevice'[i].type = "RESET" => mode' = {} /\ \A p \in Pins : dsaved'[p] = INITVAL
             /\ toDevice'[i].type = "INIT" =>
                   toDevice'[i].pin \notin mode' /\ dsaved'[toDevice'[i].pin] = INITVAL
  BY <1>4
<1>. QED
  BY <1>5, <1>6, <1>7, Zenon DEF Starting, Ordered

LEMMA NoDamageBefore ==
    ASSUME TInv, Next, Undamaged'
    PROVE  Undamaged /\ ~Restart
<1>1. ~Restart
  <2>1. restarts + 1 # 0
    BY DEF TInv
  <2>. QED
    BY <2>1 DEF Restart, Undamaged
<1>2. CASE Ping
  <2>1. Undamaged
    BY <1>2 DEF Ping, Undamaged, faults
  <2>. QED
    BY <1>1, <2>1
<1>3. CASE MainLoop
  <2>1. damaged' = damaged /\ restarts' = restarts
    BY <1>3 DEF MainLoop, InitTeensy, RecvTeensy, UserModule, SendTeensy, faults
  <2>. QED
    BY <1>1, <2>1 DEF Undamaged
<1>4. CASE PollThread
  <2>1. (damaged' \/ damaged' = damaged) /\ restarts' = restarts
    BY <1>4 DEF PollThread
  <2>. QED
    BY <1>1, <2>1 DEF Undamaged
<1>5. CASE BoardReceive \/ BoardRead
  <2>1. damaged' = damaged /\ restarts' = restarts
    BY <1>5 DEF BoardReceive, BoardRead, faults
  <2>. QED
    BY <1>1, <2>1 DEF Undamaged
<1>6. CASE \E p \in Pins : Operate(p) \/ \E d \in {-1, 1} : BoardTurn(p, d)
  <2>1. damaged' = damaged /\ restarts' = restarts
    BY <1>6 DEF Operate, BoardTurn, faults
  <2>. QED
    BY <1>1, <2>1 DEF Undamaged
<1>7. CASE LosePacket
  <2>1. (damaged => damaged') /\ restarts' = restarts
    BY <1>7 DEF LosePacket
  <2>. QED
    BY <1>1, <2>1 DEF Undamaged
<1>. QED
  BY <1>1, <1>2, <1>3, <1>4, <1>5, <1>6, <1>7 DEF Next

LEMMA QuietHost ==
    ASSUME TInv, Quiet, Undamaged', Ping \/ MainLoop \/ PollThread
    PROVE  Quiet'
<1>1. CASE Ping
  <2>1. toDevice \in Seq(Pings) => toDevice' \in Seq(Pings)
    BY <1>1, PingQueue DEF Ping
  <2>. QED
    BY <1>1, <2>1 DEF Ping, Quiet, boardVars
<1>2. CASE InitTeensy
  BY <1>2 DEF InitTeensy, Quiet, boardVars
<1>3. CASE RecvTeensy
  <2>. SUFFICES ASSUME ~initialized' PROVE Quiet'
    BY DEF Quiet
  <2>1. ~initialized /\ saved' = saved /\ UNCHANGED <<toDevice, toHost, boardVars>>
    BY <1>3 DEF RecvTeensy
  <2>2. ring \in Seq(Pings)
    BY <2>1 DEF Quiet
  <2>3. ring' \in Seq(Pings) /\ \A p \in Pins : val'[p] = val[p]
    <3>1. CASE ring = <<>> /\ ring' = ring /\ val' = val
      BY <2>2, <3>1
    <3>2. CASE /\ ring # <<>> /\ ring' = Tail(ring) /\ ring[1] \in Answers
               /\ val' = [p \in Pins |-> IF ring[1].type = "REGULAR" /\ ring[1].pin = p
                                         THEN ring[1].val ELSE val[p]]
      <4>1. 1 \in 1 .. Len(ring)
        BY <2>2, <3>2
      <4>2. ring[1].type = "PING" /\ Tail(ring) \in Seq(Pings)
        BY <2>2, <3>2, <4>1, PingQueue
      <4>. QED
        BY <3>2, <4>2
    <3>. QED
      BY <1>3, <3>1, <3>2, RecvIs
  <2>. QED
    BY <2>1, <2>3 DEF Quiet, boardVars
<1>4. CASE UserModule
  <2>. SUFFICES ASSUME ~initialized' PROVE Quiet'
    BY DEF Quiet
  <2>1. ~initialized /\ saved' = saved /\ UNCHANGED <<toDevice, toHost, ring, boardVars>>
    BY <1>4 DEF UserModule
  <2>2. ASSUME NEW p \in Pins, Kind[p] # "output" PROVE val'[p] = val[p]
    <3>1. PICK written \in SUBSET OfKind("output") :
              \E v \in [written -> Values] :
                  val' = [q \in Pins |-> IF q \in written THEN v[q] ELSE AfterReading(q)]
      BY <1>4 DEF UserModule
    <3>2. p \notin written
      BY <2>2 DEF OfKind
    <3>3. val'[p] = AfterReading(p)
      BY <3>1, <3>2
    <3>4. val[p] = saved[p]
      BY <2>1, <2>2 DEF Quiet
    <3>. QED
      BY <3>3, <3>4 DEF AfterReading, Steps
  <2>. QED
    BY <2>1, <2>2 DEF Quiet, boardVars
<1>5. CASE SendTeensy
  BY <1>5 DEF SendTeensy, Quiet, Saved, boardVars
<1>6. CASE PollThread
  <2>. SUFFICES ASSUME ~initialized' PROVE Quiet'
    BY DEF Quiet
  <2>1. /\ ~initialized /\ toHost # <<>> /\ toHost' = Tail(toHost)
        /\ ring' = Append(ring, Head(toHost)) \/ ring' = ring
        /\ UNCHANGED <<hostVars, toDevice, boardVars>>
    BY <1>6 DEF PollThread, hostVars
  <2>2. ring \in Seq(Pings) /\ toHost \in Seq(Pings)
    BY <2>1 DEF Quiet
  <2>3. toHost' \in Seq(Pings) /\ Head(toHost) = Packet("PING")
    BY <2>1, <2>2, PingQueue
  <2>4. ring' \in Seq(Pings)
    BY <2>1, <2>2, <2>3, PingQueue
  <2>. QED
    BY <2>1, <2>3, <2>4 DEF Quiet, hostVars, boardVars
<1>. QED
  BY <1>1, <1>2, <1>3, <1>4, <1>5, <1>6 DEF MainLoop

LEMMA QuietBoard ==
    ASSUME TInv, Quiet, Undamaged',
           \/ BoardReceive \/ BoardRead \/ LosePacket
           \/ \E p \in Pins : Operate(p) \/ \E d \in {-1, 1} : BoardTurn(p, d)
    PROVE  Quiet'
<1>. SUFFICES ASSUME ~initialized' PROVE Quiet'
  BY DEF Quiet
<1>1. UNCHANGED <<hostVars, ring>>
  BY DEF BoardReceive, BoardRead, LosePacket, Operate, BoardTurn, hostVars
<1>2. /\ ~initialized /\ toDevice \in Seq(Pings) /\ ring \in Seq(Pings) /\ toHost \in Seq(Pings)
      /\ mode = {}
  BY <1>1 DEF Quiet, hostVars
<1>3. CASE BoardReceive
  <2>1. /\ toDevice # <<>> /\ toDevice' = Tail(toDevice)
        /\ \/ Head(toDevice).type = "PING" /\ toHost' = Append(toHost, Packet("PING"))
              /\ UNCHANGED <<mode, dsaved, drive>>
           \/ Head(toDevice).type \in {"RESET", "INIT", "REGULAR"}
    BY <1>3 DEF BoardReceive
  <2>2. Head(toDevice).type = "PING" /\ toDevice' \in Seq(Pings)
    BY <1>2, <2>1, PingQueue
  <2>3. toHost' = Append(toHost, Packet("PING")) /\ UNCHANGED <<mode, dsaved, drive>>
    BY <2>1, <2>2
  <2>4. toHost' \in Seq(Pings)
    BY <1>2, <2>3, PingQueue
  <2>. QED
    BY <1>1, <2>2, <2>3, <2>4 DEF Quiet, hostVars
<1>4. CASE BoardRead
  BY <1>2, <1>4 DEF BoardRead, News
<1>5. CASE LosePacket
  <2>1. toDevice' \in Seq(Pings) /\ toHost' \in Seq(Pings) /\ UNCHANGED boardVars
    BY <1>2, <1>5, PingQueue DEF LosePacket
  <2>. QED
    BY <1>1, <2>1 DEF Quiet, hostVars, boardVars
<1>6. CASE \E p \in Pins : Operate(p)
  BY <1>6 DEF Operate, Quiet, hostVars
<1>7. CASE \E p \in Pins : \E d \in {-1, 1} : BoardTurn(p, d)
  BY <1>2, <1>7 DEF BoardTurn
<1>. QED
  BY <1>3, <1>4, <1>5, <1>6, <1>7

LEMMA StartingStep ==
    ASSUME TInv, Quiet, Starting, Next, Undamaged'
    PROVE  Starting'
<1>0. toDevice \in Seq(Orders) /\ toDevice \in Seq(Packets)
  BY DEF TInv, TypeOK
<1>1. CASE Ping
  <2>1. toDevice \in Seq(Pings)
    BY <1>1 DEF Ping, Quiet, TInv, TypeOK
  <2>2. toDevice' \in Seq(Pings)
    BY <1>1, <2>1, PingQueue DEF Ping
  <2>. QED
    BY <2>2, StartingPings
<1>2. CASE InitTeensy
  <2>1. mode' = mode /\ dsaved' = dsaved
    BY <1>2 DEF InitTeensy, boardVars
  <2>2. CASE InitDue
    <3>1. toDevice' = toDevice \o InitPackets /\ ~initialized
      BY <1>2, <2>2 DEF InitTeensy, InitDue
    <3>2. toDevice \in Seq(Pings) /\ mode = {} /\ \A p \in Pins : dsaved[p] = INITVAL
      BY <3>1 DEF Quiet
    <3>. QED
      BY <2>1, <3>1, <3>2, StartingInit
  <2>3. CASE ~InitDue
    <3>1. toDevice' = toDevice
      BY <1>2, <2>3 DEF InitTeensy
    <3>. QED
      BY <2>1, <3>1, StartingSame
  <2>. QED
    BY <2>2, <2>3
<1>3. CASE RecvTeensy \/ UserModule \/ PollThread \/ \E p \in Pins : Operate(p)
  <2>1. toDevice' = toDevice /\ mode' = mode /\ dsaved' = dsaved
    BY <1>3 DEF RecvTeensy, UserModule, PollThread, Operate, boardVars
  <2>. QED
    BY <2>1, StartingSame
<1>4. CASE SendTeensy
  <2>. DEFINE C == {p \in Pins : ChangedOutput(p)}
              W == PinPackets(C, val)
  <2>1. mode' = mode /\ dsaved' = dsaved /\ (toDevice' = toDevice \/ toDevice' = toDevice \o W)
    BY <1>4 DEF SendTeensy, boardVars
  <2>2. C \in SUBSET Pins /\ \A p \in C : val[p] \in Data
    BY DEF TInv, TypeOK
  <2>w. PICK w : w = W
    OBVIOUS
  <2>3. w \in Seq(Packets) /\ \A i \in 1 .. Len(w) : w[i].type = "REGULAR"
    <3>. HIDE DEF C
    <3>1. /\ w \in Seq(Packets)
          /\ \A k \in 1 .. Len(w) : w[k] = PinPacket("REGULAR", Nth(k, C), val[Nth(k, C)])
      <4>1. Carries(w, C, val)
        BY <2>2, <2>w DEF Carries
      <4>. QED
        BY <2>2, <4>1, PinPacketsFacts
    <3>. QED
      BY <3>1, PacketFields
  <2>. HIDE DEF W
  <2>. QED
    BY <1>0, <2>1, <2>w, <2>3, StartingMore, StartingSame
<1>5. CASE BoardReceive
  <2>m. PICK m : m = Head(toDevice) /\ m = toDevice[1] /\ m \in Orders /\ 1 \in 1 .. Len(toDevice)
    BY <1>0, <1>5 DEF BoardReceive
  <2>1. toDevice # <<>> /\ toDevice' = Tail(toDevice)
    BY <1>5 DEF BoardReceive
  <2>2. CASE mode' = mode /\ dsaved' = dsaved
    BY <1>0, <2>1, <2>2, StartingTail
  <2>3. ASSUME NEW i \in 1 .. Len(toDevice')
        PROVE  toDevice'[i] = toDevice[i + 1] /\ i + 1 \in 1 .. Len(toDevice) /\ i + 1 # 1 /\ ~(i + 1 < 1)
    BY <1>0, <2>1
  <2>4. Ordered(toDevice')
    <3>1. \A i, j \in 1 .. Len(toDevice') : (i < j <=> i + 1 < j + 1) /\ (i = j <=> i + 1 = j + 1)
      OBVIOUS
    <3>2. ASSUME NEW i \in 1 .. Len(toDevice'), NEW j \in 1 .. Len(toDevice'),
                 toDevice'[i].type = "RESET", toDevice'[j].type = "INIT"
          PROVE  i < j
      <4>1. i + 1 < j + 1
        BY <2>3, <3>2 DEF Starting, Ordered
      <4>. QED
        BY <3>1, <4>1
    <3>3. ASSUME NEW i \in 1 .. Len(toDevice'), NEW j \in 1 .. Len(toDevice'),
                 toDevice'[i].type = "INIT", toDevice'[j].type = "INIT",
                 toDevice'[i].pin = toDevice'[j].pin
          PROVE  i = j
      <4>1. i + 1 = j + 1
        BY <2>3, <3>3 DEF Starting, Ordered
      <4>. QED
        BY <3>1, <4>1
    <3>. QED
      BY <3>2, <3>3, Zenon DEF Ordered
  <2>5. CASE m.type = "RESET" /\ mode' = {} /\ dsaved' = [p \in Pins |-> INITVAL]
    <3>1. ASSUME NEW i \in 1 .. Len(toDevice'), toDevice'[i].type = "INIT"
          PROVE  toDevice'[i].pin \in Pins
      <4>1. toDevice'[i] \in Orders
        BY <1>0, <2>3
      <4>. QED
        BY <3>1, <4>1, OrderFacts
    <3>. QED
      BY <2>4, <2>5, <3>1 DEF Starting
  <2>6. CASE m.type = "INIT" /\ mode' = mode \cup {m.pin} /\ dsaved' = [dsaved EXCEPT ![m.pin] = INITVAL]
    <3>1. ASSUME NEW i \in 1 .. Len(toDevice') PROVE toDevice'[i].type # "RESET"
      BY <2>m, <2>3, <2>6 DEF Starting, Ordered
    <3>2. ASSUME NEW i \in 1 .. Len(toDevice'), toDevice'[i].type = "INIT"
          PROVE  toDevice'[i].pin # m.pin /\ toDevice'[i].pin \notin mode /\ dsaved[toDevice'[i].pin] = INITVAL
                 /\ toDevice'[i].pin \in Pins
      <4>1. toDevice'[i].pin # m.pin
        BY <2>m, <2>3, <2>6, <3>2 DEF Starting, Ordered
      <4>2. toDevice'[i].pin \notin mode /\ dsaved[toDevice'[i].pin] = INITVAL
        BY <2>3, <3>2 DEF Starting
      <4>3. toDevice'[i] \in Orders
        BY <1>0, <2>3
      <4>. QED
        BY <3>2, <4>1, <4>2, <4>3, OrderFacts
    <3>3. ASSUME NEW i \in 1 .. Len(toDevice'), toDevice'[i].type = "INIT"
          PROVE  toDevice'[i].pin \notin mode' /\ dsaved'[toDevice'[i].pin] = INITVAL
      <4>1. dsaved \in [Pins -> {0, 1, INITVAL}]
        BY DEF TInv, TypeOK
      <4>. QED
        BY <2>6, <3>2, <3>3, <4>1
    <3>. QED
      BY <2>4, <3>1, <3>3, Zenon DEF Starting
  <2>. QED
    BY <1>5, <2>m, <2>2, <2>5, <2>6 DEF BoardReceive
<1>6. CASE BoardRead
  <2>1. toDevice' = toDevice /\ mode' = mode
        /\ dsaved' = [p \in Pins |-> IF News(p) THEN level[p] ELSE dsaved[p]] /\ \E p \in Pins : News(p)
    BY <1>6 DEF BoardRead
  <2>2. mode # {} /\ \A p \in Pins : p \notin mode => dsaved'[p] = dsaved[p]
    BY <2>1 DEF News
  <2>3. ASSUME NEW i \in 1 .. Len(toDevice), toDevice[i].type = "INIT"
        PROVE  toDevice[i].pin \in Pins
    <3>1. toDevice[i] \in Orders
      BY <1>0
    <3>. QED
      BY <2>3, <3>1, OrderFacts
  <2>. QED
    BY <2>1, <2>2, <2>3 DEF Starting
<1>7. CASE \E p \in Pins : \E d \in {-1, 1} : BoardTurn(p, d)
  <2>1. toDevice' = toDevice /\ mode' = mode /\ dsaved' = dsaved
    BY <1>7 DEF BoardTurn, boardVars
  <2>. QED
    BY <2>1, StartingSame
<1>8. CASE LosePacket
  <2>1. mode' = mode /\ dsaved' = dsaved
    BY <1>8 DEF LosePacket, boardVars
  <2>2. toDevice' = toDevice \/ (toDevice # <<>> /\ toDevice' = Tail(toDevice))
    BY <1>8 DEF LosePacket
  <2>. QED
    BY <1>0, <2>1, <2>2, StartingTail, StartingSame
<1>. QED
  BY <1>1, <1>2, <1>3, <1>4, <1>5, <1>6, <1>7, <1>8, NoDamageBefore DEF Next, MainLoop

LEMMA FreshStep ==
    ASSUME TInv, Quiet, Fresh, Next, Undamaged'
    PROVE  Fresh'
<1>1. CASE \/ Ping \/ InitTeensy \/ PollThread \/ BoardReceive \/ BoardRead \/ LosePacket
           \/ \E p \in Pins : Operate(p) \/ \E d \in {-1, 1} : BoardTurn(p, d)
  <2>1. /\ val' = val /\ saved' = saved
        /\ phase' = phase \/ (phase = "init" /\ phase' = "recv")
    BY <1>1 DEF Ping, InitTeensy, PollThread, BoardReceive, BoardRead, LosePacket, Operate, BoardTurn,
                hostVars
  <2>. QED
    BY <2>1 DEF Fresh
<1>2. CASE RecvTeensy
  <2>. SUFFICES ASSUME NEW p \in Pins, Kind[p] = "direction"
                PROVE  saved'[p] \in {0, INITVAL} /\ (val'[p] = saved'[p] \/ val'[p] \in {-1, 1})
    <3>1. phase' = "user"
      BY <1>2 DEF RecvTeensy
    <3>. QED
      BY <3>1 DEF Fresh
  <2>1. saved' = saved /\ saved[p] = val[p] /\ val[p] \in {0, INITVAL}
    BY <1>2 DEF RecvTeensy, Fresh
  <2>2. CASE ring = <<>> /\ ring' = ring /\ val' = val
    BY <2>1, <2>2
  <2>3. CASE /\ ring # <<>> /\ ring' = Tail(ring) /\ ring[1] \in Answers
             /\ val' = [q \in Pins |-> IF ring[1].type = "REGULAR" /\ ring[1].pin = q
                                       THEN ring[1].val ELSE val[q]]
    <3>1. ASSUME ring[1].type = "REGULAR", ring[1].pin = p PROVE ring[1].val \in {-1, 1}
      <4>1. ring[1].val \in Reading(p)
        BY <2>3, <3>1, AnswerFacts
      <4>. QED
        BY <4>1 DEF Reading
    <3>. QED
      BY <2>1, <2>3, <3>1
  <2>. QED
    BY <1>2, <2>2, <2>3, RecvIs
<1>3. CASE UserModule
  <2>1. phase = "user" /\ phase' = "send" /\ saved' = saved
    BY <1>3 DEF UserModule
  <2>. SUFFICES ASSUME NEW p \in Pins, Kind[p] = "direction" PROVE val'[p] \in {0, INITVAL}
    BY <2>1 DEF Fresh
  <2>2. PICK written \in SUBSET OfKind("output") :
            \E v \in [written -> Values] :
                val' = [q \in Pins |-> IF q \in written THEN v[q] ELSE AfterReading(q)]
    BY <1>3 DEF UserModule
  <2>3. p \notin written
    BY DEF OfKind
  <2>4. val'[p] = AfterReading(p)
    BY <2>2, <2>3
  <2>5. val[p] = saved[p] => val[p] \in {0, INITVAL}
    BY <2>1 DEF Fresh
  <2>. QED
    BY <2>4, <2>5 DEF AfterReading, Steps
<1>4. CASE SendTeensy
  <2>1. phase = "send" /\ phase' = "init" /\ val' = val /\ saved' = IF initialized THEN val ELSE saved
    BY <1>4 DEF SendTeensy, Saved
  <2>2. ~initialized => \A p \in Pins : Kind[p] # "output" => saved[p] = val[p]
    BY DEF Quiet
  <2>. QED
    BY <2>1, <2>2 DEF Fresh
<1>. QED
  BY <1>1, <1>2, <1>3, <1>4, NoDamageBefore DEF Next, MainLoop

-----------------------------------------------------------------------------
(* What the board has sent and what the program has been told                *)

(* Once the program has taken all packets that are under way, it knows of a  *)
(* switch what the board reported last, and has been told all it is owed.    *)
Pending(p) == IF phase = "user" THEN Told(p) ELSE 0

Known(p) ==
    /\ Kind[p] = "toggle" => End(val[p], p, OnItsWay) = dsaved[p]
    /\ Kind[p] # "output" => owed[p] = Pending(p) + Tells(val[p], p, OnItsWay)

LEMMA JoinRight ==
    ASSUME NEW A \in Seq(Packets), NEW B \in Seq(Packets), NEW W \in Seq(Packets)
    PROVE  IsJoin(A \o (B \o W), A \o B, W)
<1>1. PICK a \in Nat, b \in Nat, c \in Nat : a = Len(A) /\ b = Len(B) /\ c = Len(W)
  OBVIOUS
<1>2. A \o (B \o W) = (A \o B) \o W
  <2>1. \A i \in 1 .. a + b + c : (A \o (B \o W))[i] = ((A \o B) \o W)[i]
    BY <1>1
  <2>2. A \o (B \o W) \in Seq(Packets) /\ (A \o B) \o W \in Seq(Packets)
    OBVIOUS
  <2>3. Len(A \o (B \o W)) = a + b + c /\ Len((A \o B) \o W) = a + b + c
    BY <1>1
  <2>. QED
    BY <2>1, <2>2, <2>3, SMTT(30)
<1>3. A \o B \in Seq(Packets)
  OBVIOUS
<1>. QED
  BY <1>2, <1>3, JoinIs

LEMMA JoinFirst ==
    ASSUME NEW A \in Seq(Packets), NEW B \in Seq(Packets), A # <<>>
    PROVE  IsJoin(A \o B, <<A[1]>>, Tail(A) \o B) /\ <<A[1]>> \in Seq(Packets)
<1>1. PICK a \in Nat : a = Len(A) /\ a > 0
  OBVIOUS
<1>2. A[1] \in Packets /\ Tail(A) \in Seq(Packets) /\ Len(Tail(A)) = a - 1
  BY <1>1
<1>3. Tail(A) \o B \in Seq(Packets) /\ A \o B \in Seq(Packets) /\ <<A[1]>> \in Seq(Packets)
  BY <1>2
<1>. QED
  BY <1>1, <1>2, <1>3 DEF IsJoin

LEMMA Refilled ==
    ASSUME NEW A \in Seq(Packets), NEW B \in Seq(Packets), B # <<>>
    PROVE  Append(A, Head(B)) \o Tail(B) = A \o B
OBVIOUS

(* A queue of one packet.                                                   *)
LEMMA OnePacket ==
    ASSUME NEW m, NEW p
    PROVE  /\ Len(<<m>>) \in Nat /\ <<m>>[1] = m
           /\ m.type = "REGULAR" /\ m.pin = p => About(p, <<m>>) = {1}
           /\ ~(m.type = "REGULAR" /\ m.pin = p) => About(p, <<m>>) = {}
<1>1. Len(<<m>>) = 1 /\ <<m>>[1] = m /\ 1 .. 1 = {1}
  OBVIOUS
<1>. QED
  BY <1>1 DEF About

(* Nothing has changed for the pin.                                         *)
LEMMA KnownSame ==
    ASSUME NEW p \in Pins, Known(p), OnItsWay' = OnItsWay, val'[p] = val[p],
           dsaved'[p] = dsaved[p], owed'[p] = owed[p], Pending(p)' = Pending(p)
    PROVE  Known(p)'
<1>1. /\ End(val'[p], p, OnItsWay') = End(val[p], p, OnItsWay)
      /\ Tells(val'[p], p, OnItsWay') = Tells(val[p], p, OnItsWay)
  BY Zenon
<1>. QED
  BY <1>1, Zenon DEF Known

LEMMA PendingSame ==
    ASSUME NEW p \in Pins, val' = val, saved' = saved, phase' = phase
    PROVE  Pending(p)' = Pending(p)
BY DEF Pending, Told, Toggles, Steps

LEMMA PendingNot ==
    ASSUME NEW p \in Pins, phase # "user", phase' # "user"
    PROVE  Pending(p)' = Pending(p)
BY DEF Pending

(* The board has sent more.                                                 *)
LEMMA KnownMore ==
    ASSUME TInv, NEW p \in Pins, Known(p), NEW W \in Seq(Packets), toHost' = toHost \o W,
           ring' = ring, UNCHANGED hostVars,
           Kind[p] = "toggle" => dsaved'[p] = End(dsaved[p], p, W),
           Kind[p] # "output" => owed'[p] = owed[p] + Tells(End(val[p], p, OnItsWay), p, W)
    PROVE  Known(p)'
<1>1. val' = val /\ Pending(p)' = Pending(p)
  BY PendingSame DEF hostVars
<1>2. ring \in Seq(Packets) /\ toHost \in Seq(Packets)
  BY DEF TInv, TypeOK
<1>3. IsJoin(OnItsWay', OnItsWay, W)
  BY <1>2, JoinRight DEF OnItsWay
<1>4. End(val[p], p, OnItsWay') = End(End(val[p], p, OnItsWay), p, W)
  BY <1>3, EndJoined
<1>5. /\ Tells(val[p], p, OnItsWay) \in Int /\ Tells(End(val[p], p, OnItsWay), p, W) \in Int
      /\ Tells(val[p], p, OnItsWay') = Tells(val[p], p, OnItsWay) + Tells(End(val[p], p, OnItsWay), p, W)
  BY <1>3, TellsJoined
<1>6. Pending(p) \in Int
  BY ToldInt DEF Pending
<1>7. Kind[p] = "toggle" => End(val'[p], p, OnItsWay') = dsaved'[p]
  BY <1>1, <1>4, Zenon DEF Known
<1>8. Kind[p] # "output" => owed'[p] = Pending(p)' + Tells(val'[p], p, OnItsWay')
  <2>. SUFFICES ASSUME Kind[p] # "output" PROVE owed'[p] = Pending(p) + Tells(val[p], p, OnItsWay')
    BY <1>1, Zenon
  <2>1. /\ owed[p] = Pending(p) + Tells(val[p], p, OnItsWay)
        /\ owed'[p] = owed[p] + Tells(End(val[p], p, OnItsWay), p, W)
    BY Zenon DEF Known
  <2>. QED
    BY <1>5, <1>6, <2>1
<1>. QED
  BY <1>7, <1>8, Zenon DEF Known

LEMMA KnownHost ==
    ASSUME TInv, NEW p \in Pins, Known(p), Fresh, Undamaged',
           Ping \/ InitTeensy \/ SendTeensy \/ PollThread
    PROVE  Known(p)'
<1>1. val' = val /\ dsaved' = dsaved /\ owed' = owed
  BY DEF Ping, InitTeensy, SendTeensy, PollThread, hostVars, boardVars
<1>2. CASE Ping \/ InitTeensy \/ SendTeensy
  <2>1. OnItsWay' = OnItsWay /\ phase # "user" /\ phase' # "user"
    BY <1>2 DEF Ping, InitTeensy, SendTeensy, OnItsWay
  <2>. QED
    BY <1>1, <2>1, PendingNot, KnownSame
<1>3. CASE PollThread
  <2>1. toHost # <<>> /\ ring' = Append(ring, Head(toHost)) /\ toHost' = Tail(toHost)
    BY <1>3 DEF PollThread, Undamaged
  <2>2. OnItsWay' = OnItsWay
    BY <2>1, Refilled DEF TInv, TypeOK, OnItsWay
  <2>3. saved' = saved /\ phase' = phase
    BY <1>3 DEF PollThread, hostVars
  <2>. QED
    BY <1>1, <2>2, <2>3, PendingSame, KnownSame
<1>. QED
  BY <1>2, <1>3

(* The packet that recv_teensy takes tells what it is about to tell.         *)
LEMMA KnownRecv ==
    ASSUME TInv, NEW p \in Pins, Known(p), Fresh, RecvTeensy
    PROVE  Known(p)'
<1>1. /\ phase = "recv" /\ phase' = "user" /\ saved' = saved
      /\ toHost' = toHost /\ dsaved' = dsaved /\ owed' = owed
  BY DEF RecvTeensy, boardVars
<1>2. Kind[p] # "output" => saved[p] = val[p] /\ Pending(p) = 0
  BY <1>1 DEF Fresh, Pending
<1>3. Pending(p)' = Told(p)'
  BY <1>1 DEF Pending
<1>4. ring \in Seq(Packets) /\ toHost \in Seq(Packets)
  BY DEF TInv, TypeOK
<1>5. CASE ring = <<>> /\ ring' = ring /\ val' = val
  <2>1. Kind[p] # "output" => Told(p)' = 0
    BY <1>1, <1>2, <1>5 DEF Told, Toggles, Steps
  <2>2. OnItsWay' = OnItsWay
    BY <1>1, <1>5 DEF OnItsWay
  <2>3. /\ End(val'[p], p, OnItsWay') = End(val[p], p, OnItsWay)
        /\ Tells(val'[p], p, OnItsWay') = Tells(val[p], p, OnItsWay)
    BY <1>5, <2>2, Zenon
  <2>. QED
    BY <1>1, <1>2, <1>3, <2>1, <2>3, Zenon DEF Known
<1>6. CASE /\ ring # <<>> /\ ring' = Tail(ring) /\ ring[1] \in Answers
           /\ val' = [q \in Pins |-> IF ring[1].type = "REGULAR" /\ ring[1].pin = q
                                     THEN ring[1].val ELSE val[q]]
  <2>m. PICK m : m = ring[1]
    OBVIOUS
  <2>1. IsJoin(OnItsWay, <<m>>, OnItsWay')
    BY <1>1, <1>4, <1>6, <2>m, JoinFirst DEF OnItsWay
  <2>2. /\ val'[p] = IF m.type = "REGULAR" /\ m.pin = p THEN m.val ELSE val[p]
        /\ m.type = "REGULAR" /\ m.pin = p => m.val \in Reading(p)
    BY <1>6, <2>m, AnswerFacts
  <2>3. End(val[p], p, <<m>>) = val'[p]
        /\ (Kind[p] # "output" => Tells(val[p], p, <<m>>) = Told(p)')
    <3>1. CASE m.type = "REGULAR" /\ m.pin = p
      <4>1. Len(<<m>>) \in Nat /\ <<m>>[1] = m /\ About(p, <<m>>) = {1}
        BY <3>1, OnePacket
      <4>2. /\ End(val[p], p, <<m>>) = m.val
            /\ Kind[p] = "toggle" => Tells(val[p], p, <<m>>) = IF m.val = 1 /\ val[p] = 0 THEN 1 ELSE 0
            /\ Kind[p] # "toggle" /\ m.val \in {-1, 1} => Tells(val[p], p, <<m>>) = m.val
        BY <4>1, OneAbout
      <4>3. CASE Kind[p] = "toggle"
        <5>1. Told(p)' = IF val'[p] = 1 /\ saved'[p] = 0 THEN 1 ELSE 0
          BY <4>3 DEF Told, Toggles, Steps
        <5>. QED
          BY <1>1, <1>2, <2>2, <3>1, <4>2, <4>3, <5>1
      <4>4. CASE Kind[p] = "direction"
        <5>1. m.val \in {-1, 1} /\ val'[p] = m.val
          BY <2>2, <3>1, <4>4 DEF Reading
        <5>2. saved'[p] \in {0, INITVAL} /\ INITVAL \notin {-1, 1}
          BY <1>1, <1>2, <4>4, TeensyAssumption DEF Fresh
        <5>3. Told(p)' = m.val
          BY <4>4, <5>1, <5>2 DEF Told, Toggles, Steps
        <5>. QED
          BY <2>2, <3>1, <4>2, <4>4, <5>1, <5>3
      <4>5. CASE Kind[p] = "output"
        BY <2>2, <3>1, <4>5 DEF Reading
      <4>. QED
        BY <4>3, <4>4, <4>5, PinFacts
    <3>2. CASE ~(m.type = "REGULAR" /\ m.pin = p)
      <4>1. About(p, <<m>>) = {}
        BY <3>2, OnePacket
      <4>2. End(val[p], p, <<m>>) = val[p] /\ Tells(val[p], p, <<m>>) = 0
        BY <4>1, NothingAbout
      <4>3. Kind[p] # "output" => Told(p)' = 0
        BY <1>1, <1>2, <2>2, <3>2 DEF Told, Toggles, Steps
      <4>. QED
        BY <2>2, <3>2, <4>2, <4>3
    <3>. QED
      BY <3>1, <3>2
  <2>4. End(val[p], p, OnItsWay) = End(val'[p], p, OnItsWay')
    <3>1. End(val[p], p, OnItsWay) = End(End(val[p], p, <<m>>), p, OnItsWay')
      BY <2>1, EndJoined
    <3>. QED
      BY <2>3, <3>1, Zenon
  <2>5. /\ Tells(val'[p], p, OnItsWay') \in Int
        /\ Tells(val[p], p, OnItsWay) = Tells(val[p], p, <<m>>) + Tells(val'[p], p, OnItsWay')
    <3>1. /\ Tells(End(val[p], p, <<m>>), p, OnItsWay') \in Int
          /\ Tells(val[p], p, OnItsWay)
               = Tells(val[p], p, <<m>>) + Tells(End(val[p], p, <<m>>), p, OnItsWay')
      BY <2>1, TellsJoined
    <3>. QED
      BY <2>3, <3>1, Zenon
  <2>6. Kind[p] # "output" => owed'[p] = Pending(p)' + Tells(val'[p], p, OnItsWay')
    <3>. SUFFICES ASSUME Kind[p] # "output" PROVE owed[p] = Told(p)' + Tells(val'[p], p, OnItsWay')
      BY <1>1, <1>3, Zenon
    <3>1. owed[p] = 0 + Tells(val[p], p, OnItsWay)
      BY <1>2, Zenon DEF Known
    <3>2. Tells(val[p], p, OnItsWay) \in Int
      BY <2>1, TellsIn
    <3>. QED
      BY <2>3, <2>5, <3>1, <3>2
  <2>. QED
    BY <1>1, <2>4, <2>6, Zenon DEF Known
<1>. QED
  BY <1>5, <1>6, RecvIs

(* What was taken is told, and the step is taken out of val.                 *)
LEMMA KnownUser ==
    ASSUME TInv, NEW p \in Pins, Known(p), UserModule
    PROVE  Known(p)'
<1>1. /\ phase = "user" /\ phase' = "send" /\ dsaved' = dsaved
      /\ ring' = ring /\ toHost' = toHost /\ owed' = [q \in Pins |-> owed[q] - Told(q)]
  BY DEF UserModule, boardVars
<1>2. OnItsWay' = OnItsWay /\ Pending(p) = Told(p) /\ Pending(p)' = 0 /\ owed'[p] = owed[p] - Told(p)
  BY <1>1 DEF OnItsWay, Pending
<1>3. Kind[p] = "toggle" => val'[p] = val[p]
  <2>1. PICK written \in SUBSET OfKind("output") :
            \E v \in [written -> Values] :
                val' = [q \in Pins |-> IF q \in written THEN v[q] ELSE AfterReading(q)]
    BY DEF UserModule
  <2>2. Kind[p] = "toggle" => p \notin written
    BY DEF OfKind
  <2>. QED
    BY <2>1, <2>2 DEF AfterReading, Steps
<1>4. Kind[p] # "output" => Tells(val'[p], p, OnItsWay') = Tells(val[p], p, OnItsWay)
  <2>1. CASE Kind[p] = "toggle"
    BY <1>2, <1>3, <2>1, Zenon
  <2>2. CASE Kind[p] # "toggle"
    BY <1>2, <2>2, Zenon DEF Tells
  <2>. QED
    BY <2>1, <2>2
<1>5. Kind[p] = "toggle" => End(val'[p], p, OnItsWay') = dsaved'[p]
  BY <1>1, <1>2, <1>3, Zenon DEF Known
<1>6. Kind[p] # "output" => owed'[p] = Pending(p)' + Tells(val'[p], p, OnItsWay')
  <2>. SUFFICES ASSUME Kind[p] # "output" PROVE owed[p] - Told(p) = 0 + Tells(val[p], p, OnItsWay)
    BY <1>2, <1>4, Zenon
  <2>1. owed[p] = Told(p) + Tells(val[p], p, OnItsWay)
    BY <1>2, Zenon DEF Known
  <2>2. Told(p) \in Int /\ Tells(val[p], p, OnItsWay) \in Int
    <3>1. IsJoin(OnItsWay, ring, toHost)
      BY JoinIs DEF TInv, TypeOK, OnItsWay
    <3>. QED
      BY <3>1, TellsIn, ToldInt
  <2>. QED
    BY <2>1, <2>2
<1>. QED
  BY <1>5, <1>6, Zenon DEF Known

(* The answer to a ping tells nothing, and a board is reset before it has    *)
(* reported anything.                                                        *)
LEMMA KnownReceive ==
    ASSUME TInv, NEW p \in Pins, Known(p), Starting, BoardReceive
    PROVE  Known(p)'
<1>1. UNCHANGED hostVars /\ ring' = ring /\ owed' = owed
  BY DEF BoardReceive
<1>2. val' = val /\ Pending(p)' = Pending(p)
  BY <1>1, PendingSame DEF hostVars
<1>m. PICK m : m = Head(toDevice) /\ m = toDevice[1] /\ m \in Orders /\ 1 \in 1 .. Len(toDevice)
  BY DEF BoardReceive, TInv
<1>3. CASE toHost' = Append(toHost, Packet("PING")) /\ dsaved' = dsaved
  <2>w. PICK W : W = <<Packet("PING")>>
    OBVIOUS
  <2>1. W \in Seq(Packets) /\ toHost' = toHost \o W
    <3>1. Packet("PING") \in Packets
      BY DEF Packets
    <3>. QED
      BY <1>3, <2>w, <3>1 DEF TInv, TypeOK
  <2>2. About(p, W) = {}
    <3>1. Packet("PING").type # "REGULAR"
      BY DEF Packet
    <3>. QED
      BY <2>w, <3>1, OnePacket
  <2>3. End(dsaved[p], p, W) = dsaved[p] /\ Tells(End(val[p], p, OnItsWay), p, W) = 0
    BY <2>2, NothingAbout
  <2>4. owed'[p] = owed[p] + Tells(End(val[p], p, OnItsWay), p, W)
    BY <1>1, <2>3 DEF TInv
  <2>5. dsaved'[p] = End(dsaved[p], p, W)
    BY <1>3, <2>3
  <2>. QED
    BY <1>1, <2>1, <2>4, <2>5, KnownMore
<1>4. CASE toHost' = toHost /\ dsaved'[p] = dsaved[p]
  <2>1. OnItsWay' = OnItsWay
    BY <1>1, <1>4 DEF OnItsWay
  <2>. QED
    BY <1>1, <1>2, <1>4, <2>1, KnownSame
<1>5. CASE m.type = "RESET" /\ dsaved' = [q \in Pins |-> INITVAL] /\ toHost' = toHost
  <2>1. dsaved'[p] = dsaved[p]
    BY <1>m, <1>5 DEF Starting
  <2>. QED
    BY <1>4, <1>5, <2>1
<1>6. CASE m.type = "INIT" /\ dsaved' = [dsaved EXCEPT ![m.pin] = INITVAL] /\ toHost' = toHost
  <2>1. dsaved[m.pin] = INITVAL
    BY <1>m, <1>6 DEF Starting
  <2>2. dsaved \in [Pins -> {0, 1, INITVAL}]
    BY DEF TInv, TypeOK
  <2>3. dsaved'[p] = dsaved[p]
    BY <1>6, <2>1, <2>2
  <2>. QED
    BY <1>4, <1>6, <2>3
<1>7. \/ toHost' = Append(toHost, Packet("PING")) /\ dsaved' = dsaved
      \/ m.type = "RESET" /\ dsaved' = [q \in Pins |-> INITVAL] /\ toHost' = toHost
      \/ m.type = "INIT" /\ dsaved' = [dsaved EXCEPT ![m.pin] = INITVAL] /\ toHost' = toHost
      \/ toHost' = toHost /\ dsaved' = dsaved
  BY <1>m DEF BoardReceive
<1>. QED
  BY <1>3, <1>4, <1>5, <1>6, <1>7

(* A reading that is sent is owed if it closes the switch.                   *)
LEMMA KnownRead ==
    ASSUME TInv, NEW p \in Pins, Known(p), BoardRead
    PROVE  Known(p)'
<1>. DEFINE C == {q \in Pins : News(q)}
<1>1. /\ UNCHANGED hostVars /\ ring' = ring /\ toHost' = toHost \o PinPackets(C, level)
      /\ dsaved'[p] = (IF News(p) THEN level[p] ELSE dsaved[p])
      /\ owed'[p] = (IF News(p) /\ dsaved[p] = 0 THEN owed[p] + 1 ELSE owed[p])
  BY DEF BoardRead
<1>w. PICK W : W = PinPackets(C, level)
  OBVIOUS
<1>2. C \in SUBSET Pins /\ (\A q \in C : level[q] \in Data) /\ (p \in C <=> News(p))
  BY DEF TInv, TypeOK, Data
<1>3. level[p] \in {0, 1} /\ owed[p] \in Int
  BY DEF TInv, TypeOK
<1>. HIDE DEF C
<1>4. /\ W \in Seq(Packets) /\ Len(W) \in Nat
      /\ p \notin C => About(p, W) = {}
      /\ p \in C => \E k \in 1 .. Len(W) : About(p, W) = {k} /\ W[k].val = level[p]
  <2>1. Carries(W, C, level)
    BY <1>2, <1>w DEF Carries
  <2>. QED
    BY <1>2, <2>1, PinPacketsFacts
<1>5. CASE News(p)
  <2>1. Kind[p] = "toggle" /\ dsaved[p] # level[p]
    BY <1>5 DEF News
  <2>2. PICK k \in 1 .. Len(W) : About(p, W) = {k} /\ W[k].val = level[p]
    BY <1>2, <1>4, <1>5
  <2>3. End(val[p], p, OnItsWay) = dsaved[p]
    BY <2>1, Zenon DEF Known
  <2>4. /\ End(dsaved[p], p, W) = level[p]
        /\ Tells(dsaved[p], p, W) = IF level[p] = 1 /\ dsaved[p] = 0 THEN 1 ELSE 0
    BY <1>4, <2>1, <2>2, OneAbout
  <2>5. owed'[p] = owed[p] + Tells(dsaved[p], p, W)
    BY <1>1, <1>3, <1>5, <2>1, <2>4
  <2>6. dsaved'[p] = End(dsaved[p], p, W) /\ owed'[p] = owed[p] + Tells(End(val[p], p, OnItsWay), p, W)
    BY <1>1, <1>5, <2>3, <2>4, <2>5
  <2>. QED
    BY <1>1, <1>4, <1>w, <2>6, KnownMore
<1>6. CASE ~News(p)
  <2>1. About(p, W) = {}
    BY <1>2, <1>4, <1>6
  <2>2. End(dsaved[p], p, W) = dsaved[p] /\ Tells(End(val[p], p, OnItsWay), p, W) = 0
    BY <2>1, NothingAbout
  <2>3. dsaved'[p] = End(dsaved[p], p, W) /\ owed'[p] = owed[p] + Tells(End(val[p], p, OnItsWay), p, W)
    BY <1>1, <1>3, <1>6, <2>2
  <2>. QED
    BY <1>1, <1>4, <1>w, <2>3, KnownMore
<1>. QED
  BY <1>5, <1>6

LEMMA KnownTurn ==
    ASSUME TInv, NEW p \in Pins, Known(p), NEW o \in Pins, NEW d \in {-1, 1}, BoardTurn(o, d)
    PROVE  Known(p)'
<1>w. PICK m, W : m = PinPacket("REGULAR", o, d) /\ W = <<m>>
  OBVIOUS
<1>1. /\ UNCHANGED hostVars /\ ring' = ring /\ dsaved' = dsaved /\ Kind[o] = "direction"
      /\ toHost' = Append(toHost, m) /\ owed' = [owed EXCEPT ![o] = @ + d]
  BY <1>w DEF BoardTurn, boardVars
<1>2. m.type = "REGULAR" /\ m.pin = o /\ m.val = d
  BY <1>w, PacketFields
<1>3. W \in Seq(Packets) /\ toHost' = toHost \o W
  <2>1. d \in Data
    BY DEF Data
  <2>2. m \in Packets
    BY <1>w, <2>1 DEF Packets, PinPacket
  <2>. QED
    BY <1>1, <1>w, <2>2 DEF TInv, TypeOK
<1>4. owed \in [Pins -> Int]
  BY DEF TInv
<1>5. CASE p = o
  <2>1. Len(W) \in Nat /\ W[1] = m /\ About(p, W) = {1}
    BY <1>2, <1>5, <1>w, OnePacket
  <2>2. Tells(End(val[p], p, OnItsWay), p, W) = d
    BY <1>1, <1>2, <1>5, <2>1, OneAbout
  <2>3. owed'[p] = owed[p] + Tells(End(val[p], p, OnItsWay), p, W) /\ Kind[p] # "toggle"
    BY <1>1, <1>4, <1>5, <2>2
  <2>. QED
    BY <1>1, <1>3, <2>3, KnownMore
<1>6. CASE p # o
  <2>1. About(p, W) = {}
    BY <1>2, <1>6, <1>w, OnePacket
  <2>2. End(dsaved[p], p, W) = dsaved[p] /\ Tells(End(val[p], p, OnItsWay), p, W) = 0
    BY <2>1, NothingAbout
  <2>3. dsaved'[p] = End(dsaved[p], p, W) /\ owed'[p] = owed[p] + Tells(End(val[p], p, OnItsWay), p, W)
    BY <1>1, <1>4, <1>6, <2>2
  <2>. QED
    BY <1>1, <1>3, <2>3, KnownMore
<1>. QED
  BY <1>5, <1>6

(* A lost answer to a ping would have told nothing.                          *)
LEMMA KnownLoss ==
    ASSUME TInv, NEW p \in Pins, Known(p), LosePacket, Undamaged'
    PROVE  Known(p)'
<1>1. /\ UNCHANGED hostVars /\ ring' = ring /\ dsaved' = dsaved /\ owed' = owed
  BY DEF LosePacket, boardVars
<1>2. val' = val /\ Pending(p)' = Pending(p)
  BY <1>1, PendingSame DEF hostVars
<1>3. OnItsWay' = OnItsWay \/ (toHost # <<>> /\ toHost' = Tail(toHost) /\ Head(toHost).type = "PING")
  BY <1>1 DEF LosePacket, OnItsWay, Undamaged
<1>4. CASE OnItsWay' = OnItsWay
  BY <1>1, <1>2, <1>4, KnownSame
<1>5. CASE toHost # <<>> /\ toHost' = Tail(toHost) /\ Head(toHost).type = "PING"
  <2>1. ring \in Seq(Packets) /\ toHost \in Seq(Packets) /\ toHost' \in Seq(Packets)
    BY <1>5 DEF TInv, TypeOK
  <2>m. PICK m : m = toHost[1] /\ m.type = "PING"
    BY <1>5, <2>1
  <2>2. IsJoin(OnItsWay, ring, toHost) /\ IsJoin(OnItsWay', ring, toHost')
    BY <1>1, <2>1, JoinIs DEF OnItsWay
  <2>3. IsJoin(toHost, <<m>>, toHost')
    <3>1. IsJoin(toHost \o <<>>, <<toHost[1]>>, Tail(toHost) \o <<>>)
      <4>1. <<>> \in Seq(Packets)
        OBVIOUS
      <4>. QED
        BY <1>5, <2>1, <4>1, JoinFirst
    <3>2. toHost \o <<>> = toHost /\ toHost' \o <<>> = toHost'
      BY <2>1
    <3>. QED
      BY <1>5, <2>m, <3>1, <3>2
  <2>w. PICK w : w = End(val[p], p, ring)
    OBVIOUS
  <2>4. About(p, <<m>>) = {}
    BY <2>m, OnePacket
  <2>5. End(w, p, <<m>>) = w /\ Tells(w, p, <<m>>) = 0
    BY <2>4, NothingAbout
  <2>6. End(w, p, toHost) = End(w, p, toHost')
    <3>1. End(w, p, toHost) = End(End(w, p, <<m>>), p, toHost')
      BY <2>3, EndJoined
    <3>. QED
      BY <2>5, <3>1, Zenon
  <2>7. Tells(w, p, toHost) = Tells(w, p, toHost') /\ Tells(w, p, toHost') \in Int
    <3>1. /\ Tells(End(w, p, <<m>>), p, toHost') \in Int
          /\ Tells(w, p, toHost) = Tells(w, p, <<m>>) + Tells(End(w, p, <<m>>), p, toHost')
      BY <2>3, TellsJoined
    <3>2. Tells(w, p, toHost') \in Int /\ Tells(w, p, toHost) = 0 + Tells(w, p, toHost')
      BY <2>5, <3>1, Zenon
    <3>. QED
      BY <3>2
  <2>8. End(val[p], p, OnItsWay') = End(val[p], p, OnItsWay)
    <3>1. End(val[p], p, OnItsWay) = End(End(val[p], p, ring), p, toHost)
      BY <2>2, EndJoined
    <3>2. End(val[p], p, OnItsWay') = End(End(val[p], p, ring), p, toHost')
      BY <2>2, EndJoined
    <3>. QED
      BY <2>w, <2>6, <3>1, <3>2, Zenon
  <2>9. Tells(val[p], p, OnItsWay') = Tells(val[p], p, OnItsWay)
    <3>1. Tells(val[p], p, OnItsWay) = Tells(val[p], p, ring) + Tells(End(val[p], p, ring), p, toHost)
      BY <2>2, TellsJoined
    <3>2. Tells(val[p], p, OnItsWay') = Tells(val[p], p, ring) + Tells(End(val[p], p, ring), p, toHost')
      BY <2>2, TellsJoined
    <3>. QED
      BY <2>w, <2>7, <3>1, <3>2, Zenon
  <2>. QED
    BY <1>1, <1>2, <2>8, <2>9, Zenon DEF Known
<1>. QED
  BY <1>3, <1>4, <1>5

-----------------------------------------------------------------------------
(* Every press and every step is told once                                   *)

UInv ==
    Undamaged => Quiet /\ Starting /\ Fresh /\ \A p \in Pins : Known(p)

LEMMA KnownStep ==
    ASSUME TInv, Quiet, Starting, Fresh, NEW p \in Pins, Known(p), Next, Undamaged'
    PROVE  Known(p)'
<1>1. CASE \E o \in Pins : Operate(o)
  <2>1. /\ UNCHANGED hostVars /\ OnItsWay' = OnItsWay /\ dsaved' = dsaved /\ owed' = owed
    BY <1>1 DEF Operate, OnItsWay
  <2>. QED
    BY <2>1, PendingSame, KnownSame DEF hostVars
<1>2. CASE \E o \in Pins : \E d \in {-1, 1} : BoardTurn(o, d)
  BY <1>2, KnownTurn
<1>3. CASE Ping \/ InitTeensy \/ SendTeensy \/ PollThread
  BY <1>3, KnownHost
<1>4. CASE RecvTeensy \/ UserModule
  BY <1>4, KnownRecv, KnownUser
<1>5. CASE BoardReceive \/ BoardRead \/ LosePacket
  BY <1>5, KnownReceive, KnownRead, KnownLoss
<1>. QED
  BY <1>1, <1>2, <1>3, <1>4, <1>5, NoDamageBefore DEF Next, MainLoop

LEMMA QuietStep ==
    ASSUME TInv, Quiet, Next, Undamaged'
    PROVE  Quiet'
<1>1. CASE Ping \/ MainLoop \/ PollThread
  BY <1>1, QuietHost
<1>2. CASE \/ BoardReceive \/ BoardRead \/ LosePacket
           \/ \E p \in Pins : Operate(p) \/ \E d \in {-1, 1} : BoardTurn(p, d)
  BY <1>2, QuietBoard
<1>. QED
  BY <1>1, <1>2, NoDamageBefore DEF Next

LEMMA EventsBegin == Init => UInv
<1>. SUFFICES ASSUME Init PROVE Quiet /\ Starting /\ Fresh /\ \A p \in Pins : Known(p)
  BY DEF UInv
<1>1. /\ toDevice = <<>> /\ ring = <<>> /\ toHost = <<>> /\ mode = {} /\ phase = "init"
      /\ \A p \in Pins : val[p] = INITVAL /\ saved[p] = INITVAL /\ dsaved[p] = INITVAL /\ owed[p] = 0
  BY DEF Init
<1>2. Quiet /\ Fresh
  BY <1>1 DEF Quiet, Fresh, Pings
<1>3. Starting
  BY <1>1 DEF Starting, Ordered
<1>4. ASSUME NEW p \in Pins PROVE Known(p)
  <2>1. OnItsWay = <<>> /\ Pending(p) = 0
    BY <1>1 DEF OnItsWay, Pending
  <2>2. About(p, OnItsWay) = {}
    BY <2>1 DEF About
  <2>3. End(val[p], p, OnItsWay) = val[p] /\ Tells(val[p], p, OnItsWay) = 0
    BY <2>2, NothingAbout
  <2>. QED
    BY <1>1, <2>1, <2>3 DEF Known
<1>. QED
  BY <1>2, <1>3, <1>4

LEMMA EventsStep == TInv /\ UInv /\ [Next]_vars => UInv'
<1>. SUFFICES ASSUME TInv, UInv, [Next]_vars, Undamaged'
              PROVE  Quiet' /\ Starting' /\ Fresh' /\ \A p \in Pins : Known(p)'
  BY DEF UInv
<1>1. CASE Next
  <2>1. Quiet /\ Starting /\ Fresh /\ \A p \in Pins : Known(p)
    BY <1>1, NoDamageBefore DEF UInv
  <2>2. Quiet' /\ Starting' /\ Fresh'
    BY <1>1, <2>1, QuietStep, StartingStep, FreshStep
  <2>3. \A p \in Pins : Known(p)'
    BY <1>1, <2>1, KnownStep
  <2>. QED
    BY <2>2, <2>3
<1>2. CASE UNCHANGED vars
  <2>1. /\ UNCHANGED <<hostVars, ring, toDevice, toHost, boardVars, owed>>
        /\ Undamaged
    BY <1>2 DEF vars, faults, Undamaged
  <2>2. Quiet /\ Starting /\ Fresh /\ \A p \in Pins : Known(p)
    BY <2>1 DEF UInv
  <2>3. Quiet' /\ Fresh'
    BY <2>1, <2>2 DEF Quiet, Fresh, hostVars, boardVars
  <2>4. Starting'
    BY <2>1, <2>2, StartingSame DEF boardVars
  <2>5. ASSUME NEW p \in Pins PROVE Known(p)'
    <3>1. OnItsWay' = OnItsWay /\ UNCHANGED hostVars /\ dsaved' = dsaved /\ owed' = owed
      BY <2>1 DEF OnItsWay, boardVars
    <3>. QED
      BY <2>2, <3>1, PendingSame, KnownSame DEF hostVars
  <2>. QED
    BY <2>3, <2>4, <2>5
<1>. QED
  BY <1>1, <1>2

LEMMA KnownTells == UInv => EventsKept
<1>. SUFFICES ASSUME UInv, Undamaged, NEW p \in Pins, Kind[p] # "output"
              PROVE  owed[p] = ToBeTold(p)
  BY DEF EventsKept
<1>1. owed[p] = Pending(p) + Tells(val[p], p, OnItsWay)
  BY DEF UInv, Known
<1>2. Telling(p, OnItsWay) = Tells(val[p], p, OnItsWay)
  BY TellingIsTells
<1>. QED
  BY <1>1, <1>2, Zenon DEF ToBeTold, Pending

(* Every press of a switch and every step of an encoder that the board has  *)
(* sent is told the user's modules once, or still will be by the packets    *)
(* that are under way (libteensy.c:635, 826, 926), for any pins, ring and   *)
(* number of packets, as long as no packet but a ping is lost.              *)
THEOREM EventsAreKept == Spec => []EventsKept
<1>1. Init => TInv /\ UInv
  BY TypesBegin, EventsBegin
<1>2. TInv /\ UInv /\ [Next]_vars => TInv' /\ UInv'
  BY TypesStep, EventsStep
<1>. QED
  BY <1>1, <1>2, KnownTells, PTL DEF Spec

-----------------------------------------------------------------------------
(* What both ends know when nothing is on its way                            *)

(* With no packet on its way xpteensy knows every switch that the board is   *)
(* not about to report (libteensy.c:635, teensy.ino:teensy_read).            *)
THEOREM SwitchesKnown == Spec => []InputsKnown
<1>1. UInv => InputsKnown
  <2>. SUFFICES ASSUME UInv, Undamaged, OnItsWay = <<>>, NEW p \in OfKind("toggle") \cap mode, ~News(p)
                PROVE  val[p] = level[p]
    BY DEF InputsKnown
  <2>1. p \in Pins /\ Kind[p] = "toggle" /\ p \in mode
    BY DEF OfKind
  <2>2. About(p, OnItsWay) = {}
    BY DEF About
  <2>3. End(val[p], p, OnItsWay) = val[p]
    BY <2>2, NothingAbout
  <2>4. dsaved[p] = val[p]
    BY <2>1, <2>3 DEF UInv, Known
  <2>. QED
    BY <2>1, <2>4 DEF News
<1>2. Init => TInv /\ UInv
  BY TypesBegin, EventsBegin
<1>3. TInv /\ UInv /\ [Next]_vars => TInv' /\ UInv'
  BY TypesStep, EventsStep
<1>. QED
  BY <1>1, <1>2, <1>3, PTL DEF Spec

(* Of the packets q, with the pins M initialised: pin p is initialised after *)
(* the first n; packet i gives p a value; the last that does so gives v.      *)
Placed(p, M, q, n) ==
    \/ p \in M /\ \A k \in 1 .. n : q[k].type # "RESET"
    \/ \E j \in 1 .. n :
          /\ q[j].type = "INIT" /\ q[j].pin = p
          /\ \A k \in j + 1 .. n : q[k].type # "RESET"

Gives(p, m) == m.type \in {"INIT", "REGULAR"} /\ m.pin = p /\ m.val # INITVAL

Lands(p, M, d, q, v) ==
    \/ d = v /\ \A k \in 1 .. Len(q) : ~Gives(p, q[k])
    \/ \E i \in 1 .. Len(q) :
          /\ Gives(p, q[i]) /\ q[i].val = v /\ Placed(p, M, q, i)
          /\ \A k \in i + 1 .. Len(q) : ~Gives(p, q[k])

(* Every output is initialised once the packets under way are taken, and     *)
(* then shows what was sent last; from reset_teensydata to init_teensy that  *)
(* is the value it has.                                                      *)
Output(p) ==
    /\ ~initialized => saved[p] = INITVAL
    /\ initialized =>
          /\ Placed(p, mode, toDevice, Len(toDevice))
          /\ saved[p] # INITVAL => Lands(p, mode, drive[p], toDevice, saved[p])
          /\ phase = "init" => saved[p] = val[p]

OInv == ~damaged => \A p \in OfKind("output") : Output(p)

(* Queue q without its first packet m is w.                                  *)
Shift(q, m, w) ==
    /\ Len(w) \in Nat /\ Len(q) = Len(w) + 1
    /\ q[1] = m /\ \A i \in 1 .. Len(w) : w[i] = q[i + 1]

(* What a packet does to the pin: M and d become M2 and d2.                   *)
Effect(p, m, M, d, M2, d2) ==
    /\ p \in M /\ m.type # "RESET" => p \in M2
    /\ m.type = "INIT" /\ m.pin = p => p \in M2
    /\ Gives(p, m) /\ p \in M2 => d2 = m.val
    /\ ~Gives(p, m) => d2 = d

LEMMA ShiftIs ==
    ASSUME NEW q \in Seq(Packets), q # <<>>
    PROVE  Shift(q, Head(q), Tail(q))
BY DEF Shift

LEMMA PlacedShift ==
    ASSUME NEW p, NEW q, NEW m, NEW w, NEW M, NEW d, NEW M2, NEW d2,
           Shift(q, m, w), Effect(p, m, M, d, M2, d2),
           NEW n \in Nat, n <= Len(w), Placed(p, M, q, n + 1)
    PROVE  Placed(p, M2, w, n)
<1>1. PICK l \in Nat : l = Len(w) /\ n <= l
  BY DEF Shift
<1>2. \A i \in 1 .. l : w[i] = q[i + 1]
  BY <1>1 DEF Shift
<1>3. CASE p \in M /\ \A k \in 1 .. n + 1 : q[k].type # "RESET"
  <2>1. 1 \in 1 .. n + 1
    OBVIOUS
  <2>2. p \in M2
    BY <1>3, <2>1 DEF Effect, Shift
  <2>3. ASSUME NEW k \in 1 .. n PROVE w[k].type # "RESET"
    <3>1. k \in 1 .. l /\ k + 1 \in 1 .. n + 1
      BY <1>1
    <3>. QED
      BY <1>2, <1>3, <3>1
  <2>. QED
    BY <2>2, <2>3 DEF Placed
<1>4. ASSUME NEW j \in 1 .. n + 1, q[j].type = "INIT", q[j].pin = p,
             \A k \in j + 1 .. n + 1 : q[k].type # "RESET"
      PROVE  Placed(p, M2, w, n)
  <2>1. CASE j = 1
    <3>1. p \in M2
      BY <1>4, <2>1 DEF Effect, Shift
    <3>2. ASSUME NEW k \in 1 .. n PROVE w[k].type # "RESET"
      <4>1. k \in 1 .. l /\ k + 1 \in j + 1 .. n + 1
        BY <1>1, <2>1
      <4>. QED
        BY <1>2, <1>4, <4>1
    <3>. QED
      BY <3>1, <3>2 DEF Placed
  <2>2. CASE j # 1
    <3>1. PICK i \in 1 .. n : j = i + 1
      <4>1. j - 1 \in 1 .. n /\ j = (j - 1) + 1
        BY <2>2
      <4>. QED
        BY <4>1
    <3>2. w[i].type = "INIT" /\ w[i].pin = p
      <4>1. i \in 1 .. l
        BY <1>1
      <4>. QED
        BY <1>2, <1>4, <3>1, <4>1
    <3>3. ASSUME NEW k \in i + 1 .. n PROVE w[k].type # "RESET"
      <4>1. k \in 1 .. l /\ k + 1 \in j + 1 .. n + 1
        BY <1>1, <3>1
      <4>. QED
        BY <1>2, <1>4, <4>1
    <3>. QED
      BY <3>2, <3>3 DEF Placed
  <2>. QED
    BY <2>1, <2>2
<1>. QED
  BY <1>3, <1>4 DEF Placed

LEMMA LandsShift ==
    ASSUME NEW p, NEW q, NEW m, NEW w, NEW M, NEW d, NEW M2, NEW d2,
           Shift(q, m, w), Effect(p, m, M, d, M2, d2), NEW v, Lands(p, M, d, q, v)
    PROVE  Lands(p, M2, d2, w, v)
<1>1. PICK l \in Nat : l = Len(w) /\ Len(q) = l + 1
  BY DEF Shift
<1>2. (\A i \in 1 .. l : w[i] = q[i + 1]) /\ q[1] = m
  BY <1>1 DEF Shift
<1>3. CASE d = v /\ \A k \in 1 .. l + 1 : ~Gives(p, q[k])
  <2>1. d2 = v
    <3>1. 1 \in 1 .. l + 1
      OBVIOUS
    <3>. QED
      BY <1>2, <1>3, <3>1 DEF Effect
  <2>2. ASSUME NEW k \in 1 .. l PROVE ~Gives(p, w[k])
    <3>1. k + 1 \in 1 .. l + 1
      OBVIOUS
    <3>. QED
      BY <1>2, <1>3, <3>1
  <2>. QED
    BY <1>1, <2>1, <2>2 DEF Lands
<1>4. ASSUME NEW i \in 1 .. l + 1, Gives(p, q[i]), q[i].val = v, Placed(p, M, q, i),
             \A k \in i + 1 .. l + 1 : ~Gives(p, q[k])
      PROVE  Lands(p, M2, d2, w, v)
  <2>1. PICK n \in Nat : i = n + 1 /\ n <= l
    <3>1. i - 1 \in Nat /\ i = (i - 1) + 1 /\ i - 1 <= l
      OBVIOUS
    <3>. QED
      BY <3>1
  <2>2. Placed(p, M2, w, n)
    BY <1>1, <1>4, <2>1, PlacedShift
  <2>3. ASSUME NEW k \in n + 1 .. l PROVE ~Gives(p, w[k])
    <3>1. k \in 1 .. l /\ k + 1 \in i + 1 .. l + 1
      BY <2>1
    <3>. QED
      BY <1>2, <1>4, <3>1
  <2>4. CASE n = 0
    <3>1. p \in M2
      BY <2>2, <2>4 DEF Placed
    <3>2. d2 = v
      BY <1>2, <1>4, <2>1, <2>4, <3>1 DEF Effect
    <3>. QED
      BY <1>1, <2>3, <2>4, <3>2 DEF Lands
  <2>5. CASE n # 0
    <3>1. n \in 1 .. l
      BY <2>1, <2>5
    <3>2. w[n] = q[i]
      BY <1>2, <2>1, <3>1
    <3>. QED
      BY <1>1, <1>4, <2>2, <2>3, <3>1, <3>2 DEF Lands
  <2>. QED
    BY <2>4, <2>5
<1>. QED
  BY <1>1, <1>3, <1>4 DEF Lands

(* Packets of outputs follow.                                                *)
Regular(W) == \A i \in 1 .. Len(W) : W[i].type = "REGULAR"

LEMMA PlacedJoin ==
    ASSUME NEW p, NEW M, NEW Q, NEW A, NEW W, IsJoin(Q, A, W)
    PROVE  /\ \A n \in 1 .. Len(A) : Placed(p, M, A, n) => Placed(p, M, Q, n)
           /\ Regular(W) /\ Placed(p, M, A, Len(A)) =>
                 \A n \in Len(A) .. Len(Q) : Placed(p, M, Q, n)
<1>1. PICK a \in Nat, b \in Nat : a = Len(A) /\ b = Len(W) /\ Len(Q) = a + b
  BY DEF IsJoin
<1>2. \A i \in 1 .. a : Q[i] = A[i]
  BY <1>1 DEF IsJoin
<1>3. \A i \in 1 .. b : Q[a + i] = W[i]
  BY <1>1 DEF IsJoin
<1>4. ASSUME NEW n \in 1 .. a, Placed(p, M, A, n) PROVE Placed(p, M, Q, n)
  <2>1. \A k \in 1 .. n : k \in 1 .. a
    OBVIOUS
  <2>2. \A j \in 1 .. n : \A k \in j + 1 .. n : k \in 1 .. a
    OBVIOUS
  <2>. QED
    BY <1>2, <1>4, <2>1, <2>2, Zenon DEF Placed
<1>5. ASSUME Regular(W), Placed(p, M, A, a), NEW n \in a .. a + b PROVE Placed(p, M, Q, n)
  <2>1. \A k \in 1 .. n : k \in 1 .. a \/ Q[k].type # "RESET"
    <3>. SUFFICES ASSUME NEW k \in 1 .. n, k > a PROVE Q[k].type # "RESET"
      OBVIOUS
    <3>1. PICK i \in 1 .. b : k = a + i
      <4>1. k - a \in 1 .. b /\ k = a + (k - a)
        OBVIOUS
      <4>. QED
        BY <4>1
    <3>2. Q[k] = W[i] /\ W[i].type = "REGULAR"
      BY <1>1, <1>3, <1>5, <3>1 DEF Regular
    <3>. QED
      BY <3>2
  <2>2. CASE p \in M /\ \A k \in 1 .. a : A[k].type # "RESET"
    <3>1. \A k \in 1 .. n : Q[k].type # "RESET"
      BY <1>2, <2>1, <2>2
    <3>. QED
      BY <2>2, <3>1 DEF Placed
  <2>3. ASSUME NEW j \in 1 .. a, A[j].type = "INIT", A[j].pin = p,
               \A k \in j + 1 .. a : A[k].type # "RESET"
        PROVE  Placed(p, M, Q, n)
    <3>1. j \in 1 .. n /\ Q[j].type = "INIT" /\ Q[j].pin = p
      BY <1>2, <2>3
    <3>2. \A k \in j + 1 .. n : Q[k].type # "RESET"
      <4>. SUFFICES ASSUME NEW k \in j + 1 .. n, k \in 1 .. a PROVE Q[k].type # "RESET"
        BY <2>1
      <4>1. k \in j + 1 .. a
        OBVIOUS
      <4>. QED
        BY <1>2, <2>3, <4>1
    <3>. QED
      BY <3>1, <3>2 DEF Placed
  <2>. QED
    BY <1>5, <2>2, <2>3 DEF Placed
<1>. QED
  BY <1>1, <1>4, <1>5

LEMMA LandsJoin ==
    ASSUME NEW p, NEW M, NEW d, NEW Q, NEW A, NEW W, IsJoin(Q, A, W), Regular(W), NEW v
    PROVE  /\ Lands(p, M, d, A, v) /\ About(p, W) = {} => Lands(p, M, d, Q, v)
           /\ \A k : /\ About(p, W) = {k} /\ W[k].val = v /\ v # INITVAL
                     /\ Placed(p, M, A, Len(A))
                     => Lands(p, M, d, Q, v)
<1>1. PICK a \in Nat, b \in Nat : a = Len(A) /\ b = Len(W) /\ Len(Q) = a + b
  BY DEF IsJoin
<1>2. \A i \in 1 .. a : Q[i] = A[i]
  BY <1>1 DEF IsJoin
<1>3. \A i \in 1 .. b : Q[a + i] = W[i]
  BY <1>1 DEF IsJoin
<1>4. \A i \in 1 .. b : Gives(p, W[i]) => i \in About(p, W)
  BY <1>1 DEF Gives, About, Regular
<1>5. ASSUME NEW x \in 1 .. a + b
      PROVE  x \in 1 .. a \/ \E i \in 1 .. b : x = a + i
  <2>1. x <= a \/ (x - a \in 1 .. b /\ x = a + (x - a))
    OBVIOUS
  <2>. QED
    BY <2>1
<1>6. ASSUME Lands(p, M, d, A, v), About(p, W) = {} PROVE Lands(p, M, d, Q, v)
  <2>1. \A i \in 1 .. b : ~Gives(p, Q[a + i])
    BY <1>3, <1>4, <1>6
  <2>2. CASE d = v /\ \A k \in 1 .. a : ~Gives(p, A[k])
    <3>1. \A k \in 1 .. a + b : ~Gives(p, Q[k])
      BY <1>2, <1>5, <2>1, <2>2
    <3>. QED
      BY <1>1, <2>2, <3>1 DEF Lands
  <2>3. ASSUME NEW i \in 1 .. a, Gives(p, A[i]), A[i].val = v, Placed(p, M, A, i),
               \A k \in i + 1 .. a : ~Gives(p, A[k])
        PROVE  Lands(p, M, d, Q, v)
    <3>1. i \in 1 .. a + b /\ Gives(p, Q[i]) /\ Q[i].val = v
      BY <1>2, <2>3
    <3>2. Placed(p, M, Q, i)
      BY <1>1, <2>3, PlacedJoin
    <3>3. ASSUME NEW k \in i + 1 .. a + b PROVE ~Gives(p, Q[k])
      <4>1. CASE k <= a
        <5>1. k \in i + 1 .. a /\ k \in 1 .. a
          BY <4>1
        <5>. QED
          BY <1>2, <2>3, <5>1
      <4>2. CASE k > a
        <5>1. k \in 1 .. a + b /\ k \notin 1 .. a
          BY <4>2
        <5>. QED
          BY <1>5, <2>1, <5>1
      <4>. QED
        BY <4>1, <4>2
    <3>. QED
      BY <1>1, <3>1, <3>2, <3>3 DEF Lands
  <2>. QED
    BY <1>1, <1>6, <2>2, <2>3 DEF Lands
<1>7. ASSUME NEW k, About(p, W) = {k}, W[k].val = v, v # INITVAL, Placed(p, M, A, a)
      PROVE  Lands(p, M, d, Q, v)
  <2>1. k \in 1 .. b /\ W[k].type = "REGULAR" /\ W[k].pin = p
    BY <1>1, <1>7 DEF About
  <2>2. a + k \in 1 .. a + b /\ a + k \in a .. a + b /\ Q[a + k] = W[k]
    BY <1>3, <2>1
  <2>3. Gives(p, Q[a + k]) /\ Q[a + k].val = v
    BY <1>7, <2>1, <2>2 DEF Gives
  <2>4. Placed(p, M, Q, a + k)
    BY <1>1, <1>7, <2>2, PlacedJoin
  <2>5. ASSUME NEW x \in a + k + 1 .. a + b PROVE ~Gives(p, Q[x])
    <3>1. PICK i \in 1 .. b : x = a + i /\ i # k
      <4>1. x - a \in 1 .. b /\ x = a + (x - a) /\ x - a # k
        BY <2>1
      <4>. QED
        BY <4>1
    <3>. QED
      BY <1>3, <1>4, <1>7, <3>1
  <2>. QED
    BY <1>1, <2>2, <2>3, <2>4, <2>5 DEF Lands
<1>. QED
  BY <1>1, <1>6, <1>7

(* A packet is taken by the board, or lost.                                  *)
LEMMA OutputTaken ==
    ASSUME TInv, NEW p \in Pins, Output(p), toDevice # <<>>, toDevice' = Tail(toDevice),
           Effect(p, Head(toDevice), mode, drive[p], mode', drive'[p]),
           initialized' = initialized, saved' = saved, phase' = phase, val' = val
    PROVE  Output(p)'
<1>1. Shift(toDevice, Head(toDevice), toDevice')
  BY ShiftIs DEF TInv, TypeOK
<1>2. PICK n \in Nat : n = Len(toDevice') /\ Len(toDevice) = n + 1
  BY <1>1 DEF Shift
<1>3. initialized => Placed(p, mode', toDevice', Len(toDevice'))
  <2>. SUFFICES ASSUME initialized PROVE Placed(p, mode', toDevice', n)
    BY <1>2
  <2>1. Placed(p, mode, toDevice, n + 1) /\ n <= Len(toDevice')
    BY <1>2 DEF Output
  <2>. QED
    BY <1>1, <2>1, PlacedShift
<1>4. initialized /\ saved[p] # INITVAL => Lands(p, mode', drive'[p], toDevice', saved[p])
  BY <1>1, LandsShift DEF Output
<1>. QED
  BY <1>3, <1>4, Zenon DEF Output

LEMMA OutputReceive ==
    ASSUME TInv, NEW p \in OfKind("output"), Output(p), BoardReceive \/ LosePacket, ~damaged'
    PROVE  Output(p)'
<1>0. p \in Pins /\ Kind[p] = "output"
  BY DEF OfKind
<1>1. initialized' = initialized /\ saved' = saved /\ phase' = phase /\ val' = val
  BY DEF BoardReceive, LosePacket, hostVars
<1>2. CASE BoardReceive
  <2>m. PICK m : m = Head(toDevice)
    OBVIOUS
  <2>1. toDevice # <<>> /\ toDevice' = Tail(toDevice) /\ m \in Orders
    BY <1>2, <2>m DEF BoardReceive, TInv
  <2>2. drive \in [Pins -> Values \cup {INITVAL}]
    BY DEF TInv, TypeOK
  <2>. DEFINE E == Effect(p, m, mode, drive[p], mode', drive'[p])
  <2>3. ASSUME m.type = "PING", mode' = mode, drive' = drive PROVE E
    BY <2>3 DEF Effect, Gives
  <2>4. ASSUME m.type = "RESET", drive' = drive PROVE E
    BY <2>4 DEF Effect, Gives
  <2>5. ASSUME m.type \in {"INIT", "REGULAR"},
               mode' = IF m.type = "INIT" THEN mode \cup {m.pin} ELSE mode,
               drive' = IF Kind[m.pin] = "output" /\ m.pin \in mode' /\ m.val # INITVAL
                        THEN [drive EXCEPT ![m.pin] = m.val] ELSE drive
        PROVE  E
    <3>1. m.pin \in Pins
      BY <2>1, <2>5, OrderFacts DEF Packet
    <3>2. Gives(p, m) /\ p \in mode' => drive'[p] = m.val
      BY <1>0, <2>2, <2>5 DEF Gives
    <3>3. ~Gives(p, m) => drive'[p] = drive[p]
      BY <1>0, <2>2, <2>5, <3>1 DEF Gives
    <3>4. (p \in mode => p \in mode') /\ (m.type = "INIT" /\ m.pin = p => p \in mode')
      BY <2>5
    <3>. QED
      BY <3>2, <3>3, <3>4 DEF Effect
  <2>6. E
    <3>. HIDE DEF E
    <3>. QED
      BY <1>2, <2>m, <2>3, <2>4, <2>5 DEF BoardReceive
  <2>. QED
    BY <1>0, <1>1, <2>m, <2>1, <2>6, OutputTaken
<1>3. CASE LosePacket
  <2>1. mode' = mode /\ drive' = drive
    BY <1>3 DEF LosePacket, boardVars
  <2>2. \/ toDevice # <<>> /\ toDevice' = Tail(toDevice) /\ Head(toDevice).type = "PING"
        \/ toDevice' = toDevice
    BY <1>3 DEF LosePacket
  <2>3. CASE toDevice' = toDevice
    BY <1>1, <2>1, <2>3, Zenon DEF Output
  <2>4. CASE toDevice # <<>> /\ toDevice' = Tail(toDevice) /\ Head(toDevice).type = "PING"
    <3>1. Effect(p, Head(toDevice), mode, drive[p], mode', drive'[p])
      BY <2>1, <2>4 DEF Effect, Gives
    <3>. QED
      BY <1>0, <1>1, <2>4, <3>1, OutputTaken
  <2>. QED
    BY <2>2, <2>3, <2>4
<1>. QED
  BY <1>2, <1>3

(* Steps that leave the pin and the packets to the board alone.              *)
LEMMA OutputKept ==
    ASSUME NEW p, Output(p), initialized' = initialized, saved' = saved,
           mode' = mode, drive' = drive, toDevice' = toDevice,
           phase' = "init" => phase = "init" /\ val' = val
    PROVE  Output(p)'
<1>1. initialized => Placed(p, mode', toDevice', Len(toDevice'))
  BY Zenon DEF Output
<1>2. initialized /\ saved[p] # INITVAL => Lands(p, mode', drive'[p], toDevice', saved[p])
  BY Zenon DEF Output
<1>3. initialized /\ phase' = "init" => saved[p] = val'[p]
  BY Zenon DEF Output
<1>. QED
  BY <1>1, <1>2, <1>3, Zenon DEF Output

(* init_teensy: every pin is initialised after the reset.                    *)
LEMMA OutputInit ==
    ASSUME TInv, NEW p \in Pins, Output(p), InitTeensy
    PROVE  Output(p)'
<1>1. /\ saved' = saved /\ mode' = mode /\ drive' = drive /\ phase' = "recv"
      /\ IF InitDue THEN toDevice' = toDevice \o InitPackets /\ initialized' = TRUE
                    ELSE toDevice' = toDevice /\ initialized' = initialized
  BY DEF InitTeensy, boardVars
<1>2. CASE ~InitDue
  BY <1>1, <1>2, OutputKept
<1>3. CASE InitDue
  <2>1. saved'[p] = INITVAL /\ initialized' /\ phase' # "init"
    BY <1>1, <1>3 DEF Output, InitDue
  <2>2. Placed(p, mode', toDevice', Len(toDevice'))
    <3>1. PICK n \in Nat : /\ Pins = 1 .. n /\ InitPackets \in Seq(Orders) /\ Len(InitPackets) = n + 1
                           /\ \A o \in Pins : InitPackets[o + 1] = PinPacket("INIT", o, val[o])
      BY InitPacketsFacts
    <3>2. toDevice \in Seq(Packets) /\ InitPackets \in Seq(Packets)
      BY <3>1, OrderFacts DEF TInv, TypeOK
    <3>3. IsJoin(toDevice', toDevice, InitPackets)
      BY <1>1, <1>3, <3>2, JoinIs
    <3>a. PICK a \in Nat : a = Len(toDevice)
      BY <3>3 DEF IsJoin
    <3>4. /\ Len(toDevice') = a + (n + 1)
          /\ \A i \in 1 .. n + 1 : toDevice'[a + i] = InitPackets[i]
      BY <3>1, <3>3, <3>a DEF IsJoin
    <3>5. ASSUME NEW o \in Pins
          PROVE  toDevice'[a + (o + 1)].type = "INIT" /\ toDevice'[a + (o + 1)].pin = o
      <4>1. o + 1 \in 1 .. n + 1
        BY <3>1
      <4>. QED
        BY <3>1, <3>4, <4>1, PacketFields
    <3>6. a + (p + 1) \in 1 .. a + (n + 1)
      BY <3>1
    <3>7. ASSUME NEW k \in a + (p + 1) + 1 .. a + (n + 1) PROVE toDevice'[k].type # "RESET"
      <4>1. k - a - 1 \in Pins /\ k = a + ((k - a - 1) + 1)
        BY <3>1
      <4>2. toDevice'[k].type = "INIT"
        BY <3>5, <4>1
      <4>. QED
        BY <4>2
    <3>. QED
      BY <3>4, <3>5, <3>6, <3>7 DEF Placed
  <2>. QED
    BY <2>1, <2>2, Zenon DEF Output
<1>. QED
  BY <1>2, <1>3

(* send_teensy: what differs is sent, and is then the last that was sent.    *)
LEMMA OutputSend ==
    ASSUME TInv, NEW p \in Pins, Kind[p] = "output", Output(p), SendTeensy
    PROVE  Output(p)'
<1>1. /\ initialized' = initialized /\ mode' = mode /\ drive' = drive /\ val' = val
      /\ saved' = IF initialized THEN val ELSE saved
  BY DEF SendTeensy, Saved, boardVars
<1>2. CASE ~initialized
  BY <1>1, <1>2 DEF Output
<1>3. CASE initialized
  <2>. DEFINE C == {q \in Pins : ChangedOutput(q)}
  <2>w. PICK W : W = PinPackets(C, val)
    OBVIOUS
  <2>1. toDevice' = toDevice \o W /\ saved' = val
    BY <1>1, <1>3, <2>w DEF SendTeensy
  <2>2. C \in SUBSET Pins /\ (p \in C <=> val[p] # saved[p]) /\ \A q \in C : val[q] \in Data
    BY DEF ChangedOutput, TInv, TypeOK
  <2>. HIDE DEF C
  <2>3. Carries(W, C, val)
    BY <2>2, <2>w DEF Carries
  <2>4. W \in Seq(Packets) /\ Regular(W)
    <3>1. W \in Seq(Packets)
      BY <2>2, <2>3, PinPacketsFacts
    <3>2. \A k \in 1 .. Len(W) : W[k] = PinPacket("REGULAR", Nth(k, C), val[Nth(k, C)])
      BY <2>3, PinPacketsFacts
    <3>. QED
      BY <3>1, <3>2, PacketFields DEF Regular
  <2>5. IsJoin(toDevice', toDevice, W)
    <3>1. toDevice \in Seq(Packets)
      BY DEF TInv, TypeOK
    <3>. QED
      BY <2>1, <2>4, <3>1, JoinIs
  <2>6. Placed(p, mode, toDevice, Len(toDevice))
    BY <1>3 DEF Output
  <2>7. Placed(p, mode, toDevice', Len(toDevice'))
    <3>1. \A n \in Len(toDevice) .. Len(toDevice') : Placed(p, mode, toDevice', n)
      BY <2>4, <2>5, <2>6, PlacedJoin
    <3>2. Len(toDevice') \in Len(toDevice) .. Len(toDevice')
      BY <2>5 DEF IsJoin
    <3>. QED
      BY <3>1, <3>2
  <2>8. ASSUME val[p] # INITVAL PROVE Lands(p, mode, drive[p], toDevice', val[p])
    <3>1. CASE val[p] # saved[p]
      <4>1. PICK k \in 1 .. Len(W) : About(p, W) = {k} /\ W[k].val = val[p]
        BY <2>2, <2>3, <3>1, PinPacketsFacts
      <4>. QED
        BY <2>4, <2>5, <2>6, <2>8, <4>1, LandsJoin
    <3>2. CASE val[p] = saved[p]
      <4>1. About(p, W) = {}
        BY <2>2, <2>3, <3>2, PinPacketsFacts
      <4>2. Lands(p, mode, drive[p], toDevice, val[p])
        BY <1>3, <2>8, <3>2 DEF Output
      <4>. QED
        BY <2>4, <2>5, <4>1, <4>2, LandsJoin
    <3>. QED
      BY <3>1, <3>2
  <2>. QED
    BY <1>1, <1>3, <2>1, <2>7, <2>8, Zenon DEF Output
<1>. QED
  BY <1>2, <1>3

LEMMA OutputStep ==
    ASSUME TInv, NEW p \in OfKind("output"), Output(p), [Next]_vars, ~damaged'
    PROVE  Output(p)'
<1>0. p \in Pins /\ Kind[p] = "output"
  BY DEF OfKind
<1>1. CASE Ping
  <2>1. ~initialized /\ initialized' = initialized /\ saved' = saved
    BY <1>1 DEF Ping, TInv, TypeOK
  <2>. QED
    BY <2>1 DEF Output
<1>2. CASE \/ RecvTeensy \/ UserModule \/ PollThread \/ BoardRead \/ UNCHANGED vars
           \/ \E o \in Pins : Operate(o) \/ \E d \in {-1, 1} : BoardTurn(o, d)
  <2>1. /\ initialized' = initialized /\ saved' = saved
        /\ mode' = mode /\ drive' = drive /\ toDevice' = toDevice
    BY <1>2 DEF RecvTeensy, UserModule, PollThread, BoardRead, Operate, BoardTurn,
                vars, hostVars, boardVars
  <2>2. phase' = "init" => phase = "init" /\ val' = val
    BY <1>2 DEF RecvTeensy, UserModule, PollThread, BoardRead, Operate, BoardTurn,
                vars, hostVars
  <2>. QED
    BY <2>1, <2>2, OutputKept
<1>3. CASE InitTeensy \/ SendTeensy
  BY <1>0, <1>3, OutputInit, OutputSend
<1>4. CASE BoardReceive \/ LosePacket
  BY <1>4, OutputReceive
<1>5. CASE Restart
  <2>1. initialized' = FALSE /\ saved'[p] = INITVAL
    BY <1>0, <1>5 DEF Restart
  <2>. QED
    BY <2>1 DEF Output
<1>. QED
  BY <1>1, <1>2, <1>3, <1>4, <1>5 DEF Next, MainLoop

LEMMA OutputsStep == TInv /\ OInv /\ [Next]_vars => OInv'
<1>. SUFFICES ASSUME TInv, OInv, [Next]_vars, ~damaged', NEW p \in OfKind("output")
              PROVE  Output(p)'
  BY DEF OInv, OfKind
<1>1. ~damaged
  BY DEF Next, MainLoop, Ping, InitTeensy, RecvTeensy, UserModule, SendTeensy, PollThread,
         BoardReceive, BoardRead, BoardTurn, Operate, LosePacket, Restart, faults, vars
<1>. QED
  BY <1>1, OutputStep DEF OInv

(* Once the board has taken all packets of an iteration it shows every       *)
(* output that was written (libteensy.c:102, 438), also one of a program     *)
(* that was started again while its predecessor's packets were under way,    *)
(* for any pins and values and any number of restarts and of lost pings.     *)
THEOREM OutputsArrive == Spec => []OutputsSet
<1>1. Init => TInv /\ OInv
  <2>1. ASSUME Init, NEW p \in Pins PROVE Output(p)
    BY <2>1 DEF Init, Output
  <2>. QED
    BY <2>1, TypesBegin DEF OInv, OfKind
<1>2. TInv /\ OInv /\ [Next]_vars => TInv' /\ OInv'
  BY TypesStep, OutputsStep
<1>3. OInv => OutputsSet
  <2>. SUFFICES ASSUME OInv, ~damaged, initialized, phase = "init", toDevice = <<>>,
                       NEW p \in OfKind("output"), val[p] # INITVAL
                PROVE  val[p] = drive[p]
    BY DEF OutputsSet
  <2>1. saved[p] = val[p] /\ Lands(p, mode, drive[p], toDevice, saved[p])
    BY DEF OInv, Output
  <2>. QED
    BY <2>1 DEF Lands
<1>. QED
  BY <1>1, <1>2, <1>3, PTL DEF Spec
=============================================================================
