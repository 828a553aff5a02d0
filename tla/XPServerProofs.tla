--------------------------- MODULE XPServerProofs ---------------------------
(***************************************************************************)
(* Proofs about XPServer, for any number of slots and any set of clients.  *)
(*                                                                         *)
(* None of the four invariants is inductive alone.  That a free slot       *)
(* exists for an accepted client follows from the count (SlotsConsistent); *)
(* that its socket is not in a slot already, from the disjointness of      *)
(* queue and slots (Accounted); that a slot without a client has no table  *)
(* (FreshTable), from NoSocket being no client.  Inv is their conjunction. *)
(***************************************************************************)
EXTENDS XPServer, FiniteSetTheorems, SequenceTheorems, WellFoundedInduction, TLAPS

Inv == TypeOK /\ SlotsConsistent /\ FreshTable /\ Accounted

-----------------------------------------------------------------------------
(* The search for a free slot.                                              *)

(* A non-empty set of numbers has a least element.                          *)
LEMMA Smallest ==
    ASSUME NEW S \in SUBSET Nat, S # {}
    PROVE  \E x \in S : \A y \in S : x <= y
<1> DEFINE R == OpToRel(<, Nat)
<1>1. IsWellFoundedOn(R, Nat)
    BY NatLessThanWellFounded
<1>2. ASSUME NEW x \in Nat, NEW y \in Nat
      PROVE  <<y, x>> \in R <=> y < x
    BY DEF OpToRel
<1> HIDE DEF R
<1>3. PICK x \in S : \A y \in S : ~(<<y, x>> \in R)
    BY <1>1, WFMin
<1>4. ASSUME NEW y \in S PROVE x <= y
    <2>1. x \in Nat /\ y \in Nat
        OBVIOUS
    <2>2. ~(y < x)
        BY <1>2, <1>3, <2>1
    <2> QED
        BY <2>1, <2>2
<1> QED
    BY <1>4

(* The loop over clntSockArray stops at an unused slot if there is one.     *)
LEMMA FirstFreeUnused ==
    ASSUME Used # ConnSlots
    PROVE  FirstFree \in ConnSlots \ Used
<1>1. ConnSlots \ Used \in SUBSET Nat /\ ConnSlots \ Used # {}
    BY ServerAssumption DEF ConnSlots, Used
<1>2. \E j \in ConnSlots \ Used : \A k \in ConnSlots \ Used : j <= k
    BY <1>1, Smallest
<1> QED
    BY <1>2 DEF FirstFree

(* The array of slots and what is in it are finite.                         *)
LEMMA SlotsFinite ==
    /\ IsFiniteSet(ConnSlots) /\ Cardinality(ConnSlots) = MAXCONNECT
    /\ \A S \in SUBSET ConnSlots :
            IsFiniteSet(S) /\ Cardinality(S) \in 0 .. MAXCONNECT
<1>1. IsFiniteSet(ConnSlots) /\ Cardinality(ConnSlots) = MAXCONNECT
    BY FS_Interval, ServerAssumption DEF ConnSlots
<1>2. ASSUME NEW S \in SUBSET ConnSlots
      PROVE  IsFiniteSet(S) /\ Cardinality(S) \in 0 .. MAXCONNECT
    BY <1>1, FS_Subset, FS_CardinalityType, ServerAssumption
<1> QED
    BY <1>1, <1>2

(* Fewer connections than slots: a slot is free.                            *)
LEMMA FreeSlotExists ==
    ASSUME Inv, nConnect < MAXCONNECT
    PROVE  Used # ConnSlots
BY SlotsFinite DEF Inv, SlotsConsistent, TypeOK

-----------------------------------------------------------------------------
(* Accepting a connection.  The facts below describe the slots, the select   *)
(* set and the queue between the two halves of a callback.                   *)

QueueAfter(s) == IF s = NoSocket THEN pending ELSE Tail(pending)
In(q) == {q[k] : k \in 1 .. Len(q)}
Distinct(q) == \A k, l \in 1 .. Len(q) : q[k] = q[l] => k = l
UsedOf(socks) == {j \in ConnSlots : socks[j] # NoSocket}

(* A queue without duplicates gives up exactly its head.                    *)
LEMMA TailOfDistinct ==
    ASSUME NEW q \in Seq(Sockets), q # <<>>, Distinct(q)
    PROVE  /\ Head(q) \in In(q) /\ Head(q) \in Sockets
           /\ Tail(q) \in Seq(Sockets) /\ Distinct(Tail(q))
           /\ In(Tail(q)) = In(q) \ {Head(q)}
<1>1. Len(q) \in Nat /\ Len(q) >= 1 /\ Head(q) = q[1]
    BY LenProperties, EmptySeq
<1>2. /\ Head(q) \in Sockets /\ Tail(q) \in Seq(Sockets)
      /\ Len(Tail(q)) = Len(q) - 1
      /\ \A i \in 1 .. Len(Tail(q)) : Tail(q)[i] = q[i + 1]
    BY HeadTailProperties
<1>3. Distinct(Tail(q))
    BY <1>1, <1>2 DEF Distinct
<1>4. ASSUME NEW k \in 1 .. Len(Tail(q))
      PROVE  Tail(q)[k] \in In(q) \ {Head(q)}
    BY <1>1, <1>2 DEF In, Distinct
<1>5. ASSUME NEW k \in 1 .. Len(q), q[k] # Head(q)
      PROVE  q[k] \in In(Tail(q))
    <2>1. k - 1 \in 1 .. Len(Tail(q)) /\ Tail(q)[k - 1] = q[k]
        BY <1>1, <1>2, <1>5
    <2> QED
        BY <2>1 DEF In
<1>6. Head(q) \in In(q)
    BY <1>1 DEF In
<1>7. In(Tail(q)) = In(q) \ {Head(q)}
    <2>1. In(Tail(q)) \subseteq In(q) \ {Head(q)}
        BY <1>4 DEF In
    <2>2. In(q) \ {Head(q)} \subseteq In(Tail(q))
        BY <1>5 DEF In
    <2> QED
        BY <2>1, <2>2
<1> QED
    BY <1>2, <1>3, <1>6, <1>7

(* Appending a newcomer keeps a queue without duplicates.                   *)
LEMMA AppendDistinct ==
    ASSUME NEW q \in Seq(Sockets), Distinct(q), NEW s \in Sockets, s \notin In(q)
    PROVE  /\ Append(q, s) \in Seq(Sockets) /\ Distinct(Append(q, s))
           /\ In(Append(q, s)) = In(q) \cup {s}
<1>1. /\ Append(q, s) \in Seq(Sockets)
      /\ Len(q) \in Nat /\ Len(Append(q, s)) = Len(q) + 1
      /\ \A i \in 1 .. Len(q) : Append(q, s)[i] = q[i]
      /\ Append(q, s)[Len(q) + 1] = s
    BY AppendProperties, LenProperties
<1>2. Distinct(Append(q, s))
    BY <1>1 DEF Distinct, In
<1>3. In(Append(q, s)) = In(q) \cup {s}
    BY <1>1 DEF In
<1> QED
    BY <1>1, <1>2, <1>3

(* Slots, used slots, queue and select set after accept() took s.            *)
Between(s, socks, used, q, m) ==
    /\ socks \in [ConnSlots -> Sockets \cup {NoSocket}]
    /\ Used \subseteq used /\ \A j \in Used : socks[j] = clntSockArray[j]
    /\ nConnect + (IF s = NoSocket THEN 0 ELSE 1) = Cardinality(used)
    /\ m = {socks[j] : j \in used}
    /\ \A j, k \in used : socks[j] = socks[k] => j = k
    /\ q \in Seq(Sockets) /\ Distinct(q)
    /\ In(q) \cap m = {} /\ In(q) \cup m = Unended

LEMMA AfterAccept ==
    ASSUME Inv, plugin = "running", NEW s \in Acceptable
    PROVE  Between(s, SlotsAfterAccept(s), UsedOf(SlotsAfterAccept(s)),
                   QueueAfter(s), master \cup ({s} \ {NoSocket}))
<1> DEFINE socks == SlotsAfterAccept(s)
           used  == UsedOf(socks)
           q     == QueueAfter(s)
           m     == master \cup ({s} \ {NoSocket})
<1> SUFFICES Between(s, socks, used, q, m)
    OBVIOUS
<1>0. /\ socks = SlotsAfterAccept(s) /\ used = UsedOf(socks)
      /\ q = QueueAfter(s) /\ m = master \cup ({s} \ {NoSocket})
    OBVIOUS
<1> HIDE DEF socks, used, q, m
<1>1. /\ pending \in Seq(Sockets) /\ Distinct(pending)
      /\ In(pending) \cap master = {} /\ In(pending) \cup master = Unended
      /\ clntSockArray \in [ConnSlots -> Sockets \cup {NoSocket}]
      /\ nConnect = Cardinality(Used) /\ nConnect \in 0 .. MAXCONNECT
      /\ master = {clntSockArray[j] : j \in Used} /\ master \subseteq Sockets
      /\ \A j, k \in Used : clntSockArray[j] = clntSockArray[k] => j = k
    BY DEF Inv, TypeOK, SlotsConsistent, Accounted, Waiting, Slotted, In, Distinct
<1>2. CASE s = NoSocket
    <2>1. socks = clntSockArray /\ used = Used /\ q = pending /\ m = master
        BY <1>2, <1>0 DEF SlotsAfterAccept, UsedOf, Used, QueueAfter
    <2> QED
        BY <1>1, <1>2, <2>1 DEF Between
<1>3. CASE s # NoSocket
    <2> DEFINE f == FirstFree
    <2>1. s = Head(pending) /\ pending # <<>> /\ nConnect < MAXCONNECT
        BY <1>3 DEF Acceptable
    <2>2. f \in ConnSlots \ Used
        BY <2>1, FreeSlotExists, FirstFreeUnused
    <2>3. /\ s \in In(pending) /\ s \in Sockets
          /\ q \in Seq(Sockets) /\ Distinct(q) /\ In(q) = In(pending) \ {s}
        BY <1>1, <1>3, <1>0, <2>1, TailOfDistinct DEF QueueAfter
    <2>4. m = master \cup {s} /\ s \notin master
        BY <1>1, <1>3, <1>0, <2>3
    <2>5. socks = [clntSockArray EXCEPT ![f] = s]
        BY <1>3, <1>0 DEF SlotsAfterAccept
    <2> HIDE DEF f
    <2>6. /\ socks \in [ConnSlots -> Sockets \cup {NoSocket}]
          /\ socks[f] = s
          /\ \A j \in ConnSlots \ {f} : socks[j] = clntSockArray[j]
        BY <1>1, <2>2, <2>3, <2>5
    <2>7. used = Used \cup {f}
        BY <1>3, <1>0, <2>2, <2>6 DEF UsedOf, Used
    <2>8. Cardinality(used) = nConnect + 1
        <3>1. IsFiniteSet(Used)
            BY SlotsFinite DEF Used
        <3> QED
            BY <1>1, <2>2, <2>7, <3>1, FS_AddElement
    <2>9. \A j \in Used : j # f /\ j \in ConnSlots /\ socks[j] = clntSockArray[j]
        BY <2>2, <2>6 DEF Used
    <2>10. m = {socks[j] : j \in used}
        <3>1. master = {socks[j] : j \in Used}
            BY <1>1, <2>9
        <3>2. {socks[j] : j \in used} = {socks[j] : j \in Used} \cup {socks[f]}
            BY <2>7
        <3> QED
            BY <2>4, <2>6, <3>1, <3>2
    <2>11. \A j, k \in used : socks[j] = socks[k] => j = k
        <3>1. \A j \in Used : socks[j] # s
            BY <1>1, <2>4, <2>9
        <3> QED
            BY <1>1, <2>6, <2>7, <2>9, <3>1
    <2>12. In(q) \cap m = {} /\ In(q) \cup m = Unended
        <3>1. In(pending) \cap master = {} /\ In(pending) \cup master = Unended
            BY <1>1
        <3>2. s \in In(pending) /\ In(q) = In(pending) \ {s}
            BY <2>3
        <3>3. s \notin In(q) /\ In(q) \cup {s} = In(pending)
            BY <3>2
        <3> QED
            BY <2>4, <3>1, <3>3
    <2> QED
        BY <1>3, <2>3, <2>6, <2>7, <2>8, <2>9, <2>10, <2>11, <2>12 DEF Between
<1> QED
    BY <1>2, <1>3

-----------------------------------------------------------------------------
(* Each action preserves Inv.                                               *)

LEMMA InitInv == Init => Inv
<1> SUFFICES ASSUME Init PROVE Inv
    OBVIOUS
<1> USE ServerAssumption DEF Init
<1>1. Used = {}
    BY DEF Used
<1>2. TypeOK
    BY EmptySeq DEF TypeOK, Peer
<1>3. SlotsConsistent
    BY <1>1, FS_EmptySet DEF SlotsConsistent
<1>4. FreshTable
    BY DEF FreshTable
<1>5. Accounted
    <2>1. Len(pending) = 0
        BY EmptySeq
    <2>2. Waiting = {} /\ Unended = {} /\ Slotted = {}
        BY <1>1, <2>1 DEF Waiting, Unended, Slotted
    <2> QED
        BY <2>1, <2>2 DEF Accounted
<1> QED
    BY <1>2, <1>3, <1>4, <1>5 DEF Inv

LEMMA StartInv == Inv /\ XPluginStart => Inv'
<1> SUFFICES ASSUME Inv, XPluginStart PROVE Inv'
    OBVIOUS
<1> USE ServerAssumption DEF XPluginStart
<1>1. Used' = {}
    BY DEF Used
<1>2. TypeOK'
    BY DEF Inv, TypeOK
<1>3. SlotsConsistent'
    BY <1>1, FS_EmptySet DEF SlotsConsistent
<1>4. FreshTable'
    BY DEF FreshTable
<1>5. Accounted'
    <2>1. pending' = <<>> /\ Unended' = {}
        BY DEF Inv, Accounted, Unended
    <2>2. Len(pending') = 0 /\ Waiting' = {} /\ Slotted' = {}
        BY <1>1, <2>1, EmptySeq DEF Waiting, Slotted
    <2> QED
        BY <2>1, <2>2 DEF Accounted
<1> QED
    BY <1>2, <1>3, <1>4, <1>5 DEF Inv

LEMMA ConnectInv ==
    ASSUME Inv, NEW s \in Sockets, ClientConnect(s)
    PROVE  Inv'
<1> USE DEF ClientConnect
<1>1. UNCHANGED <<plugin, clntSockArray, nConnect, master, clientdataArray, socketStatus>>
    BY DEF slotVars
<1>2. pending \in Seq(Sockets) /\ Distinct(pending) /\ s \notin In(pending)
    <2>1. In(pending) \subseteq Unended /\ s \notin Unended
        BY DEF Inv, Accounted, Waiting, In, Unended
    <2> QED
        BY <2>1 DEF Inv, TypeOK, Accounted, Distinct
<1>3. /\ pending' \in Seq(Sockets) /\ Distinct(pending')
      /\ In(pending') = In(pending) \cup {s}
    BY <1>2, AppendDistinct
<1>4. peer' \in [Sockets -> Peer] /\ Unended' = Unended \cup {s}
    BY DEF Inv, TypeOK, Peer, Unended
<1>5. TypeOK'
    BY <1>1, <1>3, <1>4 DEF Inv, TypeOK
<1>6. SlotsConsistent' /\ FreshTable'
    BY <1>1 DEF Inv, SlotsConsistent, FreshTable, Used
<1>7. Accounted'
    <2>1. s \notin Slotted /\ Slotted' = Slotted
        BY <1>1 DEF Inv, Accounted, Unended, Slotted, Used
    <2>2. plugin' = "running" /\ Unended = In(pending) \cup Slotted
          /\ In(pending) \cap Slotted = {}
        BY <1>1 DEF Inv, Accounted, Waiting, In
    <2>3. Unended' = In(pending') \cup Slotted' /\ In(pending') \cap Slotted' = {}
        BY <1>1, <1>3, <1>4, <2>1, <2>2
    <2> QED
        BY <1>3, <2>2, <2>3 DEF Accounted, Waiting, In, Distinct
<1> QED
    BY <1>5, <1>6, <1>7 DEF Inv

LEMMA CloseInv ==
    ASSUME Inv, NEW s \in Sockets, ClientClose(s)
    PROVE  Inv'
<1> USE DEF ClientClose
<1>1. UNCHANGED <<plugin, pending, clntSockArray, nConnect, master, clientdataArray,
                  socketStatus>>
    BY DEF slotVars
<1>2. peer' \in [Sockets -> Peer] /\ Unended' = Unended
    BY DEF Inv, TypeOK, Peer, Unended
<1>3. TypeOK'
    BY <1>1, <1>2 DEF Inv, TypeOK
<1>4. SlotsConsistent' /\ FreshTable'
    BY <1>1 DEF Inv, SlotsConsistent, FreshTable, Used
<1>5. Accounted'
    <2>1. Waiting' = Waiting /\ Slotted' = Slotted
        BY <1>1 DEF Waiting, Slotted, Used
    <2> QED
        BY <1>1, <1>2, <2>1 DEF Inv, Accounted
<1> QED
    BY <1>3, <1>4, <1>5 DEF Inv

LEMMA StopInv == Inv /\ XPluginStop => Inv'
<1> SUFFICES ASSUME Inv, XPluginStop PROVE Inv'
    OBVIOUS
<1> USE DEF XPluginStop
<1>1. PICK n \in SUBSET ConnSlots : peer' = [p \in Sockets |-> PeerAfterStop(p, n)]
    BY DEF Notified, Used
<1>2. peer' \in [Sockets -> Peer] /\ Unended' = {}
    BY <1>1 DEF Inv, TypeOK, Peer, PeerAfterStop, Unended, Used
<1>3. pending' = <<>> /\ Len(pending') = 0 /\ pending' \in Seq(Sockets)
    BY EmptySeq
<1>4. Used' = Used /\ UNCHANGED <<clntSockArray, nConnect, master>>
    BY DEF Used
<1>5. TypeOK'
    BY <1>2, <1>3, <1>4 DEF Inv, TypeOK
<1>6. SlotsConsistent' /\ FreshTable'
    BY <1>4 DEF Inv, SlotsConsistent, FreshTable
<1>7. Accounted'
    <2>1. Waiting' = {}
        BY <1>3 DEF Waiting
    <2> QED
        BY <1>2, <1>3, <2>1 DEF Accounted
<1> QED
    BY <1>5, <1>6, <1>7 DEF Inv

(* The exchanges of a callback, after accept() took s: D is given up.        *)
LEMMA CallbackInv == Inv /\ LoopCallback => Inv'
<1> SUFFICES ASSUME Inv, LoopCallback PROVE Inv'
    OBVIOUS
<1>1. plugin = "running" /\ plugin' = "running"
    BY DEF LoopCallback
<1>2. PICK s \in Acceptable :
        \E D \in Finished(SlotsAfterAccept(s), UsedOf(SlotsAfterAccept(s))) :
            /\ pending' = QueueAfter(s)
            /\ clntSockArray' = [j \in ConnSlots |->
                    IF j \in D THEN NoSocket ELSE SlotsAfterAccept(s)[j]]
            /\ nConnect' = Recount(s, D)
            /\ master' = (master \cup ({s} \ {NoSocket}))
                            \ {SlotsAfterAccept(s)[j] : j \in D}
            /\ clientdataArray' \in [ConnSlots -> Sockets \cup {NULL}]
            /\ \A j \in ConnSlots : clientdataArray'[j] \in
                    SlotOutcome(j, SlotsAfterAccept(s), UsedOf(SlotsAfterAccept(s)), D)
            /\ socketStatus' \in {socketStatus, "Disconnected", "Connected"}
            /\ peer' = [p \in Sockets |->
                    IF \E j \in D : SlotsAfterAccept(s)[j] = p THEN "idle" ELSE peer[p]]
    BY DEF LoopCallback, QueueAfter, UsedOf
<1> DEFINE socks == SlotsAfterAccept(s)
           used  == UsedOf(socks)
           q     == QueueAfter(s)
           m     == master \cup ({s} \ {NoSocket})
<1>3. PICK D \in SUBSET used :
        /\ pending' = q
        /\ clntSockArray' = [j \in ConnSlots |-> IF j \in D THEN NoSocket ELSE socks[j]]
        /\ nConnect' = Recount(s, D)
        /\ master' = m \ {socks[j] : j \in D}
        /\ clientdataArray' \in [ConnSlots -> Sockets \cup {NULL}]
        /\ \A j \in ConnSlots : clientdataArray'[j] \in SlotOutcome(j, socks, used, D)
        /\ socketStatus' \in {socketStatus, "Disconnected", "Connected"}
        /\ peer' = [p \in Sockets |->
                IF \E j \in D : socks[j] = p THEN "idle" ELSE peer[p]]
    BY <1>2 DEF Finished
<1>4. Between(s, socks, used, q, m)
    BY <1>1, AfterAccept
<1>5. /\ socks = SlotsAfterAccept(s) /\ used = UsedOf(socks)
      /\ used = {j \in ConnSlots : socks[j] # NoSocket}
      /\ q = QueueAfter(s) /\ m = master \cup ({s} \ {NoSocket})
    BY DEF UsedOf
<1> HIDE DEF socks, used, q, m
<1>6. /\ socks \in [ConnSlots -> Sockets \cup {NoSocket}]
      /\ Used \subseteq used /\ \A j \in Used : socks[j] = clntSockArray[j]
      /\ nConnect + (IF s = NoSocket THEN 0 ELSE 1) = Cardinality(used)
      /\ m = {socks[j] : j \in used}
      /\ \A j, k \in used : socks[j] = socks[k] => j = k
      /\ q \in Seq(Sockets) /\ Distinct(q)
      /\ In(q) \cap m = {} /\ In(q) \cup m = Unended
    BY <1>4 DEF Between
<1>7. Used' = used \ D
    BY <1>3, <1>5 DEF Used
<1>8. nConnect' = Cardinality(Used') /\ nConnect' \in 0 .. MAXCONNECT
    <2>1. IsFiniteSet(used) /\ IsFiniteSet(D) /\ Cardinality(D) \in Nat
          /\ Cardinality(used \ D) \in 0 .. MAXCONNECT /\ Cardinality(used) \in Nat
        BY <1>5, SlotsFinite, ServerAssumption
    <2>2. used \cap D = D
        OBVIOUS
    <2>3. Cardinality(used \ D) = Cardinality(used) - Cardinality(D)
        BY <2>1, <2>2, FS_Difference
    <2>4. nConnect' = Cardinality(used) - Cardinality(D)
        <3> DEFINE a == IF s = NoSocket THEN 0 ELSE 1
        <3>1. nConnect \in Nat /\ a \in Nat /\ nConnect + a = Cardinality(used)
            BY <1>6, ServerAssumption DEF Inv, TypeOK
        <3>2. nConnect' = nConnect + a - Cardinality(D)
            BY <1>3 DEF Recount
        <3> HIDE DEF a
        <3> QED
            BY <2>1, <3>1, <3>2
    <2> QED
        BY <1>7, <2>1, <2>3, <2>4
<1>9. master' = {socks[j] : j \in used \ D}
    BY <1>3, <1>6
<1>10. TypeOK'
    <2>1. clntSockArray' \in [ConnSlots -> Sockets \cup {NoSocket}]
        BY <1>3, <1>6
    <2>2. master' \in SUBSET Sockets
        BY <1>6, <1>5, <1>9
    <2>3. socketStatus' \in {"Ready", "Connected", "Disconnected", "Error"}
        BY <1>3 DEF Inv, TypeOK
    <2>4. peer' \in [Sockets -> Peer]
        BY <1>3 DEF Inv, TypeOK, Peer
    <2> QED
        BY <1>1, <1>3, <1>6, <1>8, <2>1, <2>2, <2>3, <2>4 DEF TypeOK
<1>11. SlotsConsistent'
    <2>1. \A j \in Used' : j \in used /\ clntSockArray'[j] = socks[j]
        BY <1>3, <1>5, <1>7
    <2>2. master' = {clntSockArray'[j] : j \in Used'}
        BY <1>7, <1>9, <2>1
    <2>3. \A j, k \in Used' : clntSockArray'[j] = clntSockArray'[k] => j = k
        BY <1>6, <2>1
    <2> QED
        BY <1>8, <2>2, <2>3 DEF SlotsConsistent
<1>12. FreshTable'
    <2> SUFFICES ASSUME NEW j \in ConnSlots, clientdataArray'[j] # NULL
                 PROVE  clientdataArray'[j] = clntSockArray'[j]
        BY DEF FreshTable
    <2>1. j \notin D
        BY <1>3 DEF SlotOutcome, GivenUp
    <2>2. clntSockArray'[j] = socks[j]
        BY <1>3, <2>1
    <2>3. CASE clientdataArray'[j] = clientdataArray[j]
        <3>1. clientdataArray[j] = clntSockArray[j] /\ clientdataArray[j] \in Sockets
            BY <2>3 DEF Inv, TypeOK, FreshTable
        <3>2. j \in Used
            BY <3>1, ServerAssumption DEF Used
        <3> QED
            BY <1>6, <2>2, <2>3, <3>1, <3>2
    <2>4. CASE clientdataArray'[j] # clientdataArray[j]
        BY <1>3, <2>1, <2>2, <2>4 DEF SlotOutcome, Exchanged
    <2> QED
        BY <2>3, <2>4
<1>13. Accounted'
    <2> DEFINE gone == {socks[j] : j \in D}
    <2>1. gone \subseteq m
        BY <1>6
    <2>2. Unended' = Unended \ gone
        BY <1>3 DEF Unended
    <2>3. In(pending') = In(q) /\ Distinct(pending') /\ master' = m \ gone
        BY <1>3, <1>6
    <2> HIDE DEF gone
    <2>4. In(pending') \cap master' = {} /\ In(pending') \cup master' = Unended'
        <3>1. In(q) \cap m = {} /\ In(q) \cup m = Unended
            BY <1>6
        <3> QED
            BY <2>1, <2>2, <2>3, <3>1
    <2> QED
        <3>1. Slotted' = master'
            BY <1>11 DEF SlotsConsistent, Slotted
        <3> QED
            BY <1>1, <2>3, <2>4, <3>1 DEF Accounted, Waiting, In, Distinct
<1> QED
    BY <1>10, <1>11, <1>12, <1>13 DEF Inv

-----------------------------------------------------------------------------

LEMMA NextInv == Inv /\ [Next]_vars => Inv'
<1> SUFFICES ASSUME Inv, [Next]_vars PROVE Inv'
    OBVIOUS
<1>1. CASE XPluginStart
    BY <1>1, StartInv
<1>2. CASE XPluginStop
    BY <1>2, StopInv
<1>3. CASE LoopCallback
    BY <1>3, CallbackInv
<1>4. ASSUME NEW s \in Sockets, ClientConnect(s) PROVE Inv'
    BY <1>4, ConnectInv
<1>5. ASSUME NEW s \in Sockets, ClientClose(s) PROVE Inv'
    BY <1>5, CloseInv
<1>6. CASE UNCHANGED vars
    <2>1. UNCHANGED <<plugin, pending, clntSockArray, nConnect, master, clientdataArray,
                      socketStatus, peer>>
        BY <1>6 DEF vars, slotVars
    <2>2. TypeOK'
        BY <2>1 DEF Inv, TypeOK
    <2>3. SlotsConsistent' /\ FreshTable'
        BY <2>1 DEF Inv, SlotsConsistent, FreshTable, Used
    <2>4. Accounted'
        BY <2>1 DEF Inv, Accounted, Waiting, Slotted, Used, Unended
    <2> QED
        BY <2>2, <2>3, <2>4 DEF Inv
<1> QED
    BY <1>1, <1>2, <1>3, <1>4, <1>5, <1>6 DEF Next

(* Inv holds in every state the plugin can reach.                           *)
THEOREM Invariant == Spec => []Inv
BY InitInv, NextInv, PTL DEF Spec

(* The globals of xpserver.c keep their types; nConnect stays within the     *)
(* number of slots.                                                         *)
THEOREM TypeCorrect == Spec => []TypeOK
<1>1. Inv => TypeOK
    BY DEF Inv
<1> QED
    BY <1>1, Invariant, PTL

(* The count, the array and the select set of connections agree after every *)
(* callback, so the search for a free slot never runs off the array.        *)
THEOREM SlotsStayConsistent == Spec => []SlotsConsistent
<1>1. Inv => SlotsConsistent
    BY DEF Inv
<1> QED
    BY <1>1, Invariant, PTL

(* No client ever gets a slot with another client's subscriptions.          *)
THEOREM TablesStayFresh == Spec => []FreshTable
<1>1. Inv => FreshTable
    BY DEF Inv
<1> QED
    BY <1>1, Invariant, PTL

(* No connection is lost between the queue and the slots, or is in both.    *)
THEOREM ConnectionsAccounted == Spec => []Accounted
<1>1. Inv => Accounted
    BY DEF Inv
<1> QED
    BY <1>1, Invariant, PTL

(* A connection is never stored behind the array: whenever a callback        *)
(* accepts one, the search ends at a free slot.                             *)
THEOREM AcceptWithinArray ==
    Spec => [](\A s \in Acceptable : s # NoSocket => FirstFree \in ConnSlots \ Used)
<1>1. Inv => \A s \in Acceptable : s # NoSocket => FirstFree \in ConnSlots \ Used
    <2> SUFFICES ASSUME Inv, NEW s \in Acceptable, s # NoSocket
                 PROVE  FirstFree \in ConnSlots \ Used
        OBVIOUS
    <2>1. nConnect < MAXCONNECT
        BY DEF Acceptable
    <2> QED
        BY <2>1, FreeSlotExists, FirstFreeUnused
<1> QED
    BY <1>1, Invariant, PTL

=============================================================================
