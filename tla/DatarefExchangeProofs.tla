------------------------ MODULE DatarefExchangeProofs -------------------------
(***************************************************************************)
(* The exchange of datarefs between a client and the plugin, for any number *)
(* of offsets, names and values, with queues of any length and any number   *)
(* of outages.                                                              *)
(***************************************************************************)
EXTENDS DatarefExchange, DataLemmas

-----------------------------------------------------------------------------
(* Operators                                                                *)

(* link_dataref finds an entry without a name if there is one.              *)
LEMMA FreeSlotIsFree ==
    ASSUME Named(NoName) # {}
    PROVE  FreeSlot \in Named(NoName) /\ FreeSlot \in Slots
<1>1. Named(NoName) \in SUBSET Nat
  BY ExchangeAssumption DEF Named, Slots
<1>2. \E i \in Named(NoName) : \A j \in Named(NoName) : i <= j
  BY <1>1, LeastNatural
<1>. QED
  BY <1>2 DEF FreeSlot, Named

(* The plugin's table grows to the highest offset that is linked.           *)
LEMMA GrownFacts ==
    ASSUME numalloc \in 0 .. MaxSlots, NEW f, Links(f) \subseteq Slots
    PROVE  /\ Grown(f) \in numalloc .. MaxSlots
           /\ \A i \in Links(f) : i < Grown(f)
           /\ Grown(f) = numalloc \/ Grown(f) - 1 \in Links(f)
<1>. DEFINE Covers == {n \in numalloc .. MaxSlots : \A i \in Links(f) : i < n}
<1>1. MaxSlots \in Covers
  BY ExchangeAssumption DEF Slots
<1>2. PICK n \in Covers : \A m \in Covers : n <= m
  <2>1. Covers \in SUBSET Nat /\ Covers # {}
    BY <1>1, ExchangeAssumption
  <2>. HIDE DEF Covers
  <2>. QED
    BY <2>1, LeastNatural
<1>3. n = numalloc \/ n - 1 \in Links(f)
  <2>. SUFFICES ASSUME n # numalloc PROVE n - 1 \in Links(f)
    OBVIOUS
  <2>1. n - 1 \in numalloc .. MaxSlots /\ n - 1 \notin Covers
    BY <1>2, ExchangeAssumption
  <2>2. PICK i \in Links(f) : ~(i < n - 1)
    BY <2>1
  <2>3. i < n /\ i \in Int /\ n \in Int
    BY <2>2, ExchangeAssumption DEF Slots
  <2>. QED
    BY <2>2, <2>3
<1>4. \E g \in numalloc .. MaxSlots :
        (\A i \in Links(f) : i < g) /\ (g = numalloc \/ g - 1 \in Links(f))
  BY <1>3
<1>. QED
  BY <1>4 DEF Grown

(* What a packet holds.                                                     *)
LEMMA PacketFacts ==
    ASSUME NEW p \in Packet
    PROVE  DOMAIN p.msg \subseteq Slots /\ \A i \in DOMAIN p.msg : p.msg[i] \in Message
BY DEF Packet

LEMMA TransmissionIsPacket ==
    ASSUME NEW S \in SUBSET Slots, NEW f \in [S -> Message]
    PROVE  Transmission(f) \in Packet
BY DEF Packet, Transmission

LEMMA DisconnectIsPacket == Disconnect \in Packet /\ DOMAIN Disconnect.msg = {}
<1>1. <<>> \in [{} -> Message]
  OBVIOUS
<1>2. <<>> \in UNION {[S -> Message] : S \in SUBSET Slots}
  <2>1. {} \in SUBSET Slots
    OBVIOUS
  <2>. QED
    BY <1>1, <2>1
<1>. QED
  BY <1>2 DEF Disconnect, Packet

-----------------------------------------------------------------------------
(* Types                                                                    *)

LEMMA TypesInitially == Init => TypeOK
<1>. SUFFICES ASSUME Init PROVE TypeOK
  OBVIOUS
<1>1. FreeEntry \in ClientEntry /\ Deallocated \in PluginEntry
  BY DEF FreeEntry, ClientEntry, Deallocated, PluginEntry, Data, Status
<1>2. 0 \in 0 .. MaxSlots /\ 0 \in 0 .. MaxOutages /\ 0 \in 0 .. MaxPresses
  BY ExchangeAssumption
<1>3. serverdata \in [Slots -> ClientEntry] /\ clientdata \in [Slots -> PluginEntry]
  BY <1>1 DEF Init, EmptyTable
<1>4. c2s \in Seq(Packet) /\ s2c \in Seq(Packet)
  BY DEF Init
<1>5. sim \in [Datarefs -> Values] /\ held \in SUBSET HoldCommands
  BY ExchangeAssumption DEF Init
<1>6. done \in [OnceCommands -> Nat] /\ pressed \in [OnceCommands -> 0 .. MaxPresses]
  BY <1>2 DEF Init
<1>. QED
  BY <1>2, <1>3, <1>4, <1>5, <1>6 DEF Init, TypeOK

(* The types of the variables of one side; an action of the other leaves    *)
(* them alone.                                                              *)
LEMMA TypesOfUser == TypeOK /\ User => TypeOK'
<1>. SUFFICES ASSUME TypeOK, User PROVE TypeOK'
  OBVIOUS
<1>1. CASE \E n \in Names : LinkDataref(n)
  <2>. PICK n \in Names : LinkDataref(n)
    BY <1>1
  <2>1. FreeSlot \in Slots
    BY FreeSlotIsFree DEF LinkDataref
  <2>2. serverdata' \in [Slots -> ClientEntry]
    BY <2>1 DEF LinkDataref, TypeOK, ClientEntry, Data, Status
  <2>. QED
    BY <2>2 DEF LinkDataref, TypeOK, pluginVars, simVars
<1>2. CASE \E n \in Names : UnlinkDataref(n)
  <2>. PICK n \in Names : UnlinkDataref(n)
    BY <1>2
  <2>1. serverdata' \in [Slots -> ClientEntry]
    BY ZenonT(60) DEF UnlinkDataref, Unlinked, TypeOK, ClientEntry, Data, Status
  <2>. QED
    BY <2>1 DEF UnlinkDataref, TypeOK, pluginVars, simVars
<1>3. ASSUME NEW i \in Slots, NEW v \in Values, WriteData(i, v)
      PROVE  /\ serverdata' \in [Slots -> ClientEntry] /\ phase' \in {"receive", "user"}
             /\ UNCHANGED <<sock, c2s, s2c, pluginVars, simVars, outages>>
  BY <1>3 DEF WriteData, TypeOK, ClientEntry, Data
<1>4. CASE \E i \in Slots : PressOnce(i)
  <2>. PICK i \in Slots : PressOnce(i)
    BY <1>4
  <2>1. 1 \in Values /\ MaxPresses \in Nat
    BY ExchangeAssumption
  <2>2. pressed' \in [OnceCommands -> 0 .. MaxPresses]
    BY <2>1 DEF PressOnce, TypeOK
  <2>3. WriteData(i, 1)
    BY DEF PressOnce
  <2>. QED
    BY <1>3, <2>1, <2>2, <2>3 DEF TypeOK, pluginVars, simVars
<1>5. CASE \E i \in Slots, v \in Values : WriteDataref(i, v)
  <2>. PICK i \in Slots, v \in Values : WriteDataref(i, v)
    BY <1>5
  <2>1. WriteData(i, v) /\ pressed' = pressed
    BY DEF WriteDataref
  <2>. QED
    BY <1>3, <2>1 DEF TypeOK, pluginVars, simVars
<1>6. CASE \E i \in Slots, v \in {0, 1} : SetHold(i, v)
  <2>. PICK i \in Slots, v \in {0, 1} : SetHold(i, v)
    BY <1>6
  <2>1. WriteData(i, v) /\ pressed' = pressed /\ v \in Values
    BY ExchangeAssumption DEF SetHold
  <2>. QED
    BY <1>3, <2>1 DEF TypeOK, pluginVars, simVars
<1>. QED
  BY <1>1, <1>2, <1>4, <1>5, <1>6 DEF User

LEMMA CloseClientTypes ==
    TypeOK /\ CloseClient =>
        /\ sock' = "Ready" /\ serverdata' \in [Slots -> ClientEntry]
        /\ s2c' = <<>> /\ s2c' \in Seq(Packet)
<1>. SUFFICES ASSUME TypeOK, CloseClient
              PROVE  serverdata' \in [Slots -> ClientEntry] /\ s2c' \in Seq(Packet)
  BY DEF CloseClient
<1>1. \A e \in ClientEntry : ResetEntry(e) \in ClientEntry
  BY DEF ResetEntry, ClientEntry, Status
<1>2. serverdata' \in [Slots -> ClientEntry]
  BY <1>1 DEF CloseClient, TypeOK
<1>. QED
  BY <1>2 DEF CloseClient

LEMMA TypesOfClient == TypeOK /\ Client => TypeOK'
<1>. SUFFICES ASSUME TypeOK, Client PROVE TypeOK'
  OBVIOUS
<1>1. CASE Connect
  <2>1. EmptyTable \in [Slots -> PluginEntry] /\ 0 \in 0 .. MaxSlots
    BY ExchangeAssumption DEF EmptyTable, Deallocated, PluginEntry, Data, Status
  <2>. QED
    BY <1>1, <2>1 DEF Connect, TypeOK, simVars
<1>2. CASE ReceiveXpserver
  <2>. DEFINE p == Head(s2c)
  <2>0. p \in Packet /\ Tail(s2c) \in Seq(Packet)
    BY <1>2 DEF ReceiveXpserver, TypeOK
  <2>. HIDE DEF p
  <2>1. CASE serverdata' = [i \in Slots |->
                IF i \in DOMAIN p.msg
                THEN ReceivedByClient(serverdata[i], p.msg[i])
                ELSE serverdata[i]]
             /\ s2c' = Tail(s2c) /\ UNCHANGED sock
    <3>1. ASSUME NEW i \in Slots PROVE serverdata'[i] \in ClientEntry
      <4>1. serverdata[i] \in ClientEntry
        BY DEF TypeOK
      <4>2. ASSUME i \in DOMAIN p.msg
            PROVE  ReceivedByClient(serverdata[i], p.msg[i]) \in ClientEntry
        <5>1. p.msg[i] \in Message
          BY <2>0, <4>2, PacketFacts
        <5>. QED
          BY <4>1, <5>1 DEF ReceivedByClient, ClientEntry, Message, Status
      <4>. QED
        BY <2>1, <4>1, <4>2
    <3>2. serverdata' \in [Slots -> ClientEntry]
      BY <2>1, <3>1
    <3>. QED
      BY <1>2, <2>0, <2>1, <3>2 DEF ReceiveXpserver, TypeOK, pluginVars, simVars
  <2>2. CASE CloseClient
    BY <1>2, <2>2, CloseClientTypes DEF ReceiveXpserver, TypeOK, pluginVars, simVars
  <2>. QED
    BY <1>2, <2>1, <2>2 DEF ReceiveXpserver, p
<1>3. CASE ReceiveEnd
  <2>1. /\ sock' = "Ready" /\ serverdata' \in [Slots -> ClientEntry]
        /\ s2c' \in Seq(Packet)
    BY <1>3, CloseClientTypes DEF ReceiveEnd
  <2>. QED
    BY <1>3, <2>1 DEF ReceiveEnd, TypeOK, pluginVars, simVars
<1>4. CASE ReceiveError
  <2>1. outages' \in 0 .. MaxOutages
    BY <1>4, ExchangeAssumption DEF ReceiveError, TypeOK
  <2>2. c2s' \in Seq(Packet)
    <3>1. c2s' = c2s \/ c2s' = <<>>
      BY <1>4 DEF ReceiveError
    <3>2. <<>> \in Seq(Packet)
      OBVIOUS
    <3>. QED
      BY <3>1, <3>2 DEF TypeOK
  <2>3. /\ sock' = "Ready" /\ serverdata' \in [Slots -> ClientEntry]
        /\ s2c' \in Seq(Packet)
    BY <1>4, CloseClientTypes DEF ReceiveError
  <2>. QED
    BY <1>4, <2>1, <2>2, <2>3 DEF ReceiveError, TypeOK, pluginVars, simVars
<1>5. CASE SendXpserver
  <2>. DEFINE S == IF sock = "Connected"
                   THEN {i \in Slots : HasMessage(serverdata[i])} ELSE {}
              f == [i \in S |-> MessageOfClient(serverdata[i])]
  <2>1. f \in [S -> Message] /\ S \in SUBSET Slots
    BY DEF TypeOK, HasMessage, MessageOfClient, Link, Unlink, DataOf, Message, ClientEntry, Data
  <2>2. Transmission(f) \in Packet
    <3>. HIDE DEF S, f
    <3>. QED
      BY <2>1, TransmissionIsPacket
  <2>3. c2s' \in Seq(Packet)
    <3>1. c2s' = Append(c2s, Transmission(f)) \/ c2s' = c2s
      BY <1>5 DEF SendXpserver
    <3>2. c2s \in Seq(Packet)
      BY DEF TypeOK
    <3>. HIDE DEF S, f
    <3>. QED
      BY <2>2, <3>1, <3>2
  <2>4. \A e \in ClientEntry : SentByClient(e) \in ClientEntry
    BY ExchangeAssumption DEF SentByClient, ClientEntry, Status, Data
  <2>5. serverdata' \in [Slots -> ClientEntry]
    BY <1>5, <2>4 DEF SendXpserver, TypeOK
  <2>. QED
    BY <1>5, <2>3, <2>5 DEF SendXpserver, TypeOK, pluginVars, simVars
<1>6. CASE ExitClient
  <2>1. outages' \in 0 .. MaxOutages
    BY <1>6, ExchangeAssumption DEF ExitClient, TypeOK
  <2>2. c2s' \in Seq(Packet)
    BY <1>6, DisconnectIsPacket DEF ExitClient, TypeOK
  <2>3. serverdata' \in [Slots -> ClientEntry]
    BY <1>6 DEF ExitClient, FreeEntry, ClientEntry, Data, Status
  <2>. QED
    BY <1>6, <2>1, <2>2, <2>3 DEF ExitClient, TypeOK, pluginVars, simVars
<1>. QED
  BY <1>1, <1>2, <1>3, <1>4, <1>5, <1>6 DEF Client

LEMMA EmptyTableTypes ==
    EmptyTable \in [Slots -> PluginEntry] /\ 0 \in 0 .. MaxSlots /\ <<>> \in Seq(Packet)
BY ExchangeAssumption DEF EmptyTable, Deallocated, PluginEntry, Data, Status

(* The table after a transmission of the client.                            *)
LEMMA TableAfterTypes ==
    ASSUME TypeOK, NEW f, DOMAIN f \subseteq Slots, \A i \in DOMAIN f : f[i] \in Message
    PROVE  TableAfter(f) \in [Slots -> PluginEntry]
<1>1. Uninitialised \in PluginEntry
  BY DEF Uninitialised, PluginEntry, Data, Status
<1>2. ASSUME NEW i \in Links(f) PROVE Linked(clientdata[i], f[i].name) \in PluginEntry
  <2>1. f[i].name \in Names \cup {ErrorText} /\ clientdata[i] \in PluginEntry
    BY <1>2 DEF Links, Message, TypeOK
  <2>. QED
    BY <2>1 DEF Linked, Checked, Allocated, PluginEntry, Data, Status
<1>3. ASSUME NEW i \in DOMAIN f
      PROVE  /\ [clientdata[i] EXCEPT !.status = "UNLINK"] \in PluginEntry
             /\ [clientdata[i] EXCEPT !.data = f[i].val] \in PluginEntry
  <2>1. f[i].val \in Data /\ clientdata[i] \in PluginEntry
    BY <1>3 DEF Message, TypeOK
  <2>. QED
    BY <2>1 DEF PluginEntry, Status
<1>4. Applies(f) \subseteq DOMAIN f /\ Unlinks(f) \subseteq DOMAIN f
  BY DEF Applies, Unlinks
<1>5. clientdata \in [Slots -> PluginEntry]
  BY DEF TypeOK
<1>. QED
  BY <1>1, <1>2, <1>3, <1>4, <1>5 DEF TableAfter

LEMMA ClosePluginTypes ==
    ClosePlugin => /\ open' \in BOOLEAN /\ inCallback' \in BOOLEAN /\ numalloc' \in 0 .. MaxSlots
                   /\ clientdata' \in [Slots -> PluginEntry] /\ c2s' \in Seq(Packet)
BY EmptyTableTypes DEF ClosePlugin

(* What X-Plane has after a transmission of the client.                     *)
LEMMA SimTypes ==
    ASSUME TypeOK, NEW f, DOMAIN f \subseteq Slots, \A i \in DOMAIN f : f[i] \in Message
    PROVE  /\ SimAfter(f) \in [Datarefs -> Values]
           /\ DoneAfter(f) \in [OnceCommands -> Nat]
           /\ HeldAfter(f) \in SUBSET HoldCommands
<1>1. ASSUME NEW n \in Datarefs, Given(f, n) # {}
      PROVE  f[CHOOSE i \in Given(f, n) : TRUE].val \in Values
  <2>. DEFINE i == CHOOSE i \in Given(f, n) : TRUE
  <2>1. i \in Given(f, n)
    BY <1>1
  <2>. HIDE DEF i
  <2>2. i \in DOMAIN f /\ f[i].val # Miss
    BY <2>1 DEF Given, Applies
  <2>3. f[i].val \in Values
    BY <2>2 DEF Message, Data
  <2>. QED
    BY <2>3 DEF i
<1>2. SimAfter(f) \in [Datarefs -> Values]
  BY <1>1 DEF SimAfter, TypeOK
<1>3. ASSUME NEW n \in OnceCommands
      PROVE  Cardinality({i \in Given(f, n) : f[i].val = 1}) \in Nat
  <2>1. IsFiniteSet(Slots)
    BY FS_Interval, ExchangeAssumption DEF Slots
  <2>2. {i \in Given(f, n) : f[i].val = 1} \in SUBSET Slots
    BY DEF Given, Applies
  <2>. QED
    BY <2>1, <2>2, FS_Subset, FS_CardinalityType
<1>4. DoneAfter(f) \in [OnceCommands -> Nat]
  BY <1>3 DEF DoneAfter, TypeOK
<1>. QED
  BY <1>2, <1>4 DEF HeldAfter

LEMMA TypesOfPlugin == TypeOK /\ Plugin => TypeOK'
<1>. SUFFICES ASSUME TypeOK, Plugin PROVE TypeOK'
  OBVIOUS
<1>0. s2c \in Seq(Packet) /\ c2s \in Seq(Packet) /\ <<>> \in Seq(Packet)
      /\ \A p : AfterClearing(p) \subseteq {p, "crashed"}
  BY EmptyTableTypes DEF TypeOK, AfterClearing
<1>1. ASSUME Crash
      PROVE  /\ plugin' \in {"running", "stopped", "crashed"}
             /\ open' \in BOOLEAN /\ inCallback' \in BOOLEAN /\ numalloc' \in 0 .. MaxSlots
             /\ clientdata' \in [Slots -> PluginEntry]
             /\ c2s' \in Seq(Packet) /\ s2c' \in Seq(Packet)
  <2>1. s2c' = s2c \/ s2c' = <<>>
    BY <1>1 DEF Crash
  <2>2. plugin' = "crashed" /\ ClosePlugin
    BY <1>1 DEF Crash
  <2>. QED
    BY <1>0, <2>1, <2>2, ClosePluginTypes
<1>2. CASE ReceiveClient
  <2>. DEFINE f == Head(c2s).msg
  <2>1. Head(c2s) \in Packet /\ Tail(c2s) \in Seq(Packet)
    BY <1>2 DEF ReceiveClient, TypeOK
  <2>2. DOMAIN f \subseteq Slots /\ \A i \in DOMAIN f : f[i] \in Message
    BY <2>1, PacketFacts
  <2>3. Links(f) \subseteq Slots
    BY <2>2 DEF Links
  <2>. HIDE DEF f
  <2>4. CASE /\ clientdata' = TableAfter(f) /\ numalloc' = Grown(f)
             /\ sim' = SimAfter(f) /\ done' = DoneAfter(f) /\ held' = HeldAfter(f)
             /\ c2s' = Tail(c2s) /\ inCallback' = TRUE
             /\ wild' = (wild \/ WildWrite(f))
             /\ UNCHANGED <<plugin, open, s2c>>
    <3>1. numalloc' \in 0 .. MaxSlots
      BY <2>3, <2>4, GrownFacts, ExchangeAssumption DEF TypeOK
    <3>2. clientdata' \in [Slots -> PluginEntry]
      BY <2>2, <2>4, TableAfterTypes
    <3>3. sim' \in [Datarefs -> Values] /\ done' \in [OnceCommands -> Nat]
          /\ held' \in SUBSET HoldCommands
      BY <2>2, <2>4, SimTypes
    <3>. QED
      BY <1>2, <2>1, <2>4, <3>1, <3>2, <3>3
      DEF ReceiveClient, TypeOK, clientVars
  <2>5. CASE wild' = TRUE /\ Crash /\ UNCHANGED simVars
    BY <1>1, <1>2, <2>5 DEF ReceiveClient, TypeOK, clientVars, simVars
  <2>. QED
    BY <1>2, <2>4, <2>5 DEF ReceiveClient, f
<1>3. CASE ReceiveLeave
  <2>1. plugin' \in {"running", "crashed"} /\ ClosePlugin
    BY <1>0, <1>3 DEF ReceiveLeave
  <2>. QED
    BY <1>3, <2>1, ClosePluginTypes DEF ReceiveLeave, TypeOK, clientVars, simVars
<1>4. CASE SendClient
  <2>. DEFINE f == [i \in Replies |-> MessageOfPlugin(clientdata[i])]
  <2>1. ASSUME NEW i \in Replies
        PROVE  MessageOfPlugin(clientdata[i]) \in Message
               /\ SentByPlugin(clientdata[i]) \in PluginEntry
    <3>1. clientdata[i] \in PluginEntry /\ HasReply(clientdata[i])
      BY <2>1 DEF Replies, TypeOK
    <3>2. \A n \in Datarefs : sim[n] \in Values
      BY DEF TypeOK
    <3>. QED
      BY <3>1, <3>2
      DEF HasReply, MessageOfPlugin, SentByPlugin, Link, Unlink, DataOf, Message, Deallocated,
          PluginEntry, Data, Status
  <2>2. Transmission(f) \in Packet
    <3>1. f \in [Replies -> Message] /\ Replies \in SUBSET Slots
      BY <2>1 DEF Replies
    <3>. HIDE DEF f
    <3>. QED
      BY <3>1, TransmissionIsPacket
  <2>3. CASE /\ clientdata' = [i \in Slots |->
                    IF i \in Replies THEN SentByPlugin(clientdata[i]) ELSE clientdata[i]]
             /\ s2c' \in {Append(s2c, Transmission(f)), s2c}
             /\ inCallback' = FALSE
             /\ UNCHANGED <<plugin, open, numalloc, c2s>>
    <3>1. clientdata' \in [Slots -> PluginEntry]
      BY <2>1, <2>3 DEF TypeOK
    <3>2. s2c' \in Seq(Packet)
      <4>. HIDE DEF f
      <4>. QED
        BY <1>0, <2>2, <2>3
    <3>. QED
      BY <1>4, <2>3, <3>1, <3>2 DEF SendClient, TypeOK, clientVars, simVars
  <2>4. CASE Crash
    BY <1>1, <1>4, <2>4 DEF SendClient, TypeOK, clientVars, simVars
  <2>. QED
    BY <1>4, <2>3, <2>4 DEF SendClient
<1>5. CASE PluginError
  <2>1. plugin' \in {"running", "crashed"} /\ ClosePlugin /\ s2c' \in {s2c, <<>>}
    BY <1>0, <1>5 DEF PluginError
  <2>2. outages' \in 0 .. MaxOutages
    BY <1>5, ExchangeAssumption DEF PluginError, TypeOK
  <2>3. s2c' \in Seq(Packet)
    BY <1>0, <2>1
  <2>. QED
    BY <1>5, <2>1, <2>2, <2>3, ClosePluginTypes DEF PluginError, TypeOK, clientVars, simVars
<1>6. CASE XPluginStop
  <2>1. plugin' \in {"stopped", "crashed"} /\ ClosePlugin
    BY <1>0, <1>6 DEF XPluginStop
  <2>2. outages' \in 0 .. MaxOutages
    BY <1>6, ExchangeAssumption DEF XPluginStop, TypeOK
  <2>3. s2c' \in Seq(Packet)
    <3>1. s2c' \in {Append(s2c, Disconnect), s2c, <<>>}
      BY <1>6 DEF XPluginStop
    <3>2. Disconnect \in Packet
      BY DisconnectIsPacket
    <3>3. Append(s2c, Disconnect) \in Seq(Packet)
      BY <1>0, <3>2
    <3>. QED
      BY <1>0, <3>1, <3>3
  <2>. QED
    BY <1>6, <2>1, <2>2, <2>3, ClosePluginTypes DEF XPluginStop, TypeOK, clientVars, simVars
<1>7. CASE XPluginStart
  BY <1>7 DEF XPluginStart, TypeOK, clientVars
<1>. QED
  BY <1>2, <1>3, <1>4, <1>5, <1>6, <1>7 DEF Plugin

LEMMA TypesOfStep == TypeOK /\ [Next]_vars => TypeOK'
<1>. SUFFICES ASSUME TypeOK, [Next]_vars PROVE TypeOK'
  OBVIOUS
<1>1. CASE XPlane
  BY <1>1 DEF XPlane, ChangeSim, TypeOK, clientVars, pluginVars
<1>2. CASE UNCHANGED vars
  BY <1>2 DEF TypeOK, vars, clientVars, pluginVars, simVars
<1>. QED
  BY <1>1, <1>2, TypesOfUser, TypesOfClient, TypesOfPlugin DEF Next

(* Type correctness of the exchange: the tables of both sides hold entries,  *)
(* the connection holds packets, the plugin's table stays within the         *)
(* client's offsets (serverdata.c, clientdata.c).                           *)
THEOREM TypeCorrect == Spec => []TypeOK
BY TypesInitially, TypesOfStep, PTL DEF Spec

-----------------------------------------------------------------------------
(* The inductive invariant, offset by offset.                               *)

(* An entry of the plugin that stands for no dataref.                       *)
Dead(e) == e.name \in {NoName, Garbage}

(* The transmissions in flight that have a message about offset i.          *)
ToPlugin(i) == {k \in 1 .. Len(c2s) : i \in DOMAIN c2s[k].msg}
ToClient(i) == {k \in 1 .. Len(s2c) : i \in DOMAIN s2c[k].msg}

(* The client's entry for itself.                                           *)
ClientEntryInv(i) ==
    LET e == serverdata[i] IN
    /\ e.name = NoName <=> e.status = "UNINITIALIZED"
    /\ e.typed => e.status \in {"ALLOC", "LINK", "VALID"}
    /\ sock = "Ready" => e.status \in {"UNINITIALIZED", "ALLOC", "DEALLOC"}

(* The plugin's entry for itself.                                           *)
PluginEntryInv(i) ==
    LET e == clientdata[i] IN
    /\ i >= numalloc => e = Deallocated
    /\ e.status = "LINK" =>
        (e.name \in Names /\ e.good) \/ (e.name = ErrorText /\ ~e.good)
    /\ e.status = "VALID" => e.name \in Names /\ e.good

(* What is on its way to the plugin against the plugin's entry: when a LINK  *)
(* arrives the entry is free, when DATA arrives it is the one they are for. *)
ArrivalInv(i, k) ==
    LET m == c2s[k].msg[i] IN
    /\ m.op = "LINK" =>
        /\ Dead(clientdata[i])
        /\ \A l \in ToPlugin(i) : l < k => c2s[l].msg[i].op = "UNLINK"
    /\ m.op = "DATA" =>
        /\ clientdata[i].status = "VALID" /\ clientdata[i].name = m.name
        /\ \A l \in ToPlugin(i) : l < k => c2s[l].msg[i].op = "DATA"

ToPluginInv(i) == \A k \in ToPlugin(i) : ArrivalInv(i, k)

(* What is on its way to the client against the client's entry, whether the *)
(* plugin still has the connection or not: nothing comes for an entry that   *)
(* was not subscribed, and nothing after the confirmation of UNLINK.        *)
ReplyInv(i, k) ==
    LET e == serverdata[i]
        m == s2c[k].msg[i] IN
    /\ e.status \notin {"UNINITIALIZED", "ALLOC"}
    /\ m.name = e.name \/ (m.name = ErrorText /\ m.op # "DATA")
    /\ m.op = "UNLINK" => ~e.typed /\ \A l \in ToClient(i) : l <= k

ToClientInv(i) == \A k \in ToClient(i) : ReplyInv(i, k)

(* Both entries of an established connection: the plugin's is free until the *)
(* client's is subscribed, and is the same dataref once that is confirmed.  *)
EntriesInv(i) ==
    LET c == serverdata[i]
        p == clientdata[i] IN
    /\ c.status \in {"UNINITIALIZED", "ALLOC"} => Dead(p)
    /\ p.name \in Names => p.name = c.name
    /\ c.typed /\ ~Dead(p) => p.status # "UNLINK"
    /\ p.status = "LINK" => ToClient(i) = {}
    /\ c.typed /\ c.status = "VALID" => p.status = "VALID" /\ p.name = c.name

(* A message to the plugin: only repetitions of UNLINK are there before the  *)
(* client's entry is subscribed, and LINK is the last one.                  *)
RequestInv(i, k) ==
    LET c == serverdata[i]
        m == c2s[k].msg[i] IN
    /\ c.status \in {"UNINITIALIZED", "ALLOC"} => m.op = "UNLINK"
    /\ c.typed /\ ~Dead(clientdata[i]) => m.op = "DATA"
    /\ m.op \in {"LINK", "DATA"} => m.name = c.name
    /\ m.op = "LINK" =>
        /\ c.status # "VALID" /\ ToClient(i) = {}
        /\ c.typed => m.typed /\ \A l \in ToPlugin(i) : l <= k

(* A message to the client: a confirmation is about the entry that the       *)
(* plugin has, or has not any more.                                         *)
ConfirmInv(i, k) ==
    LET c == serverdata[i]
        p == clientdata[i]
        m == s2c[k].msg[i] IN
    /\ m.op = "LINK" /\ m.name = c.name /\ c.typed => p.status = "VALID" /\ p.name = c.name
    /\ m.op = "UNLINK" =>
        Dead(p) /\ \A l \in ToPlugin(i) : c2s[l].msg[i].op = "UNLINK"

AgreeInv(i) ==
    /\ EntriesInv(i)
    /\ \A k \in ToPlugin(i) : RequestInv(i, k)
    /\ \A k \in ToClient(i) : ConfirmInv(i, k)

SlotInv(i) ==
    /\ ClientEntryInv(i) /\ PluginEntryInv(i)
    /\ ToPluginInv(i) /\ ToClientInv(i)
    /\ Established => AgreeInv(i)

(* A connection that has ended on one side.                                 *)
EndedInv ==
    /\ sock = "Ready" => s2c = <<>>
    /\ ~open => c2s = <<>> /\ numalloc = 0 /\ clientdata = EmptyTable

IInv == TypeOK /\ EndedInv /\ \A i \in Slots : SlotInv(i)

LEMMA InvInitially == Init => IInv
<1>. SUFFICES ASSUME Init PROVE IInv
  OBVIOUS
<1>1. TypeOK
  BY TypesInitially
<1>2. ASSUME NEW i \in Slots PROVE SlotInv(i)
  <2>1. ToPlugin(i) = {} /\ ToClient(i) = {} /\ ~Established
    BY DEF Init, ToPlugin, ToClient, Established
  <2>2. serverdata[i] = FreeEntry /\ clientdata[i] = Deallocated
    BY DEF Init, EmptyTable
  <2>. QED
    BY <2>1, <2>2
    DEF SlotInv, ClientEntryInv, PluginEntryInv, ToPluginInv, ArrivalInv, ToClientInv, ReplyInv, FreeEntry, Deallocated
<1>. QED
  BY <1>1, <1>2 DEF IInv, EndedInv, Init

(* The user's code changes the client's table only.                         *)
LEMMA InvAfterUser ==
    ASSUME IInv, User
    PROVE  EndedInv' /\ \A i \in Slots : SlotInv(i)'
<1>1. UNCHANGED <<sock, c2s, s2c, pluginVars>>
  BY DEF User, LinkDataref, UnlinkDataref, PressOnce, WriteDataref, SetHold, WriteData
<1>2. EndedInv'
  BY <1>1 DEF IInv, EndedInv, pluginVars, EmptyTable
<1>3. ASSUME NEW i \in Slots
      PROVE  /\ ToPlugin(i)' = ToPlugin(i) /\ ToClient(i)' = ToClient(i)
             /\ PluginEntryInv(i)' /\ ToPluginInv(i)' /\ (Established' <=> Established)
  BY <1>1 DEF IInv, SlotInv, PluginEntryInv, ToPluginInv, ArrivalInv, ToPlugin, ToClient, pluginVars,
     Established, Deallocated
<1>4. ASSUME NEW i \in Slots
      PROVE  \/ /\ serverdata'[i].name = serverdata[i].name
                /\ serverdata'[i].typed = serverdata[i].typed
                /\ serverdata'[i].status = serverdata[i].status
             \/ /\ serverdata[i].name = NoName
                /\ serverdata'[i].name \in Names /\ serverdata'[i].status = "ALLOC"
             \/ /\ serverdata[i].name \in Names
                /\ serverdata'[i].name = serverdata[i].name
                /\ ~serverdata'[i].typed /\ serverdata'[i].status = "DEALLOC"
  <2>1. CASE \E n \in Names : LinkDataref(n)
    <3>. PICK n \in Names : LinkDataref(n)
      BY <2>1
    <3>1. serverdata[FreeSlot].name = NoName /\ FreeSlot \in Slots
      BY FreeSlotIsFree DEF LinkDataref, Named
    <3>2. serverdata' = [serverdata EXCEPT ![FreeSlot] =
            [name |-> n, typed |-> TRUE, status |-> "ALLOC", data |-> Miss, old |-> Miss]]
      BY DEF LinkDataref
    <3>. QED
      BY <3>1, <3>2 DEF IInv, TypeOK
  <2>2. CASE \E n \in Names : UnlinkDataref(n)
    <3>. PICK n \in Names : UnlinkDataref(n)
      BY <2>2
    <3>1. serverdata'[i] = IF serverdata[i].name = n THEN Unlinked(serverdata[i]) ELSE serverdata[i]
      BY DEF UnlinkDataref, Named
    <3>2. serverdata[i] \in ClientEntry
      BY DEF IInv, TypeOK
    <3>. QED
      BY <3>1, <3>2 DEF Unlinked, ClientEntry
  <2>3. ASSUME NEW j \in Slots, NEW v, WriteData(j, v)
        PROVE  /\ serverdata'[i].name = serverdata[i].name
               /\ serverdata'[i].typed = serverdata[i].typed
               /\ serverdata'[i].status = serverdata[i].status
    BY <2>3 DEF WriteData, IInv, TypeOK, ClientEntry
  <2>. QED
    BY <2>1, <2>2, <2>3 DEF User, PressOnce, WriteDataref, SetHold
<1>5. ASSUME NEW i \in Slots PROVE SlotInv(i)'
  <2>0. SlotInv(i) /\ serverdata[i] \in ClientEntry
    BY DEF IInv, TypeOK
  <2>1. NoName \notin Names
    BY ExchangeAssumption
  <2>2. ClientEntryInv(i)'
    BY <1>1, <1>4, <2>0, <2>1 DEF SlotInv, ClientEntryInv
  <2>3. ToClientInv(i)'
    BY <1>1, <1>3, <1>4, <2>0, <2>1 DEF SlotInv, ClientEntryInv, ToClientInv, ReplyInv
  <2>4. Established => AgreeInv(i)'
    <3>. SUFFICES ASSUME Established PROVE AgreeInv(i)'
      OBVIOUS
    <3>0. AgreeInv(i) /\ ClientEntryInv(i) /\ UNCHANGED <<c2s, s2c, clientdata>>
      BY <1>1, <2>0 DEF SlotInv, pluginVars
    <3>1. CASE /\ serverdata'[i].name = serverdata[i].name
               /\ serverdata'[i].typed = serverdata[i].typed
               /\ serverdata'[i].status = serverdata[i].status
      BY <1>3, <3>0, <3>1 DEF AgreeInv, EntriesInv, RequestInv, ConfirmInv
    <3>2. CASE /\ serverdata[i].name = NoName
               /\ serverdata'[i].name \in Names /\ serverdata'[i].status = "ALLOC"
      <4>1. /\ Dead(clientdata[i]) /\ ToClient(i) = {} /\ clientdata[i].status # "VALID"
            /\ \A k \in ToPlugin(i) : c2s[k].msg[i].op = "UNLINK"
        BY <2>0, <3>0, <3>2, ExchangeAssumption
        DEF AgreeInv, EntriesInv, RequestInv, ConfirmInv, ClientEntryInv, SlotInv, ToClientInv, ReplyInv, PluginEntryInv, Dead
      <4>. QED
        BY <1>3, <3>0, <3>2, <4>1, ExchangeAssumption DEF AgreeInv, EntriesInv, RequestInv, ConfirmInv, Dead
    <3>3. CASE /\ serverdata'[i].name = serverdata[i].name
               /\ ~serverdata'[i].typed /\ serverdata'[i].status = "DEALLOC"
      BY <1>3, <3>0, <3>3 DEF AgreeInv, EntriesInv, RequestInv, ConfirmInv
    <3>. QED
      BY <1>4, <3>1, <3>2, <3>3
  <2>. QED
    BY <1>3, <2>2, <2>3, <2>4 DEF SlotInv
<1>. QED
  BY <1>2, <1>5

(* How a queue's messages about an offset change when a transmission is      *)
(* added or taken.                                                          *)
LEMMA Appended ==
    ASSUME NEW q \in Seq(Packet), NEW p \in Packet, NEW i
    PROVE  LET r == Append(q, p) IN
           /\ Len(r) = Len(q) + 1 /\ r[Len(q) + 1] = p
           /\ \A k \in 1 .. Len(q) : r[k] = q[k]
           /\ {k \in 1 .. Len(r) : i \in DOMAIN r[k].msg} =
                {k \in 1 .. Len(q) : i \in DOMAIN q[k].msg}
                    \cup (IF i \in DOMAIN p.msg THEN {Len(q) + 1} ELSE {})
OBVIOUS

LEMMA Taken ==
    ASSUME NEW q \in Seq(Packet), q # <<>>, NEW i
    PROVE  LET r == Tail(q) IN
           /\ Head(q) = q[1] /\ Len(r) = Len(q) - 1 /\ Len(q) \in Nat \ {0}
           /\ \A k \in 1 .. Len(r) : r[k] = q[k + 1] /\ k + 1 \in 1 .. Len(q)
           /\ \A k : k \in {l \in 1 .. Len(r) : i \in DOMAIN r[l].msg} =>
                k \in Nat /\ k > 0 /\ k + 1 \in {l \in 1 .. Len(q) : i \in DOMAIN q[l].msg}
OBVIOUS

LEMMA InvAfterConnect ==
    ASSUME IInv, Connect
    PROVE  EndedInv' /\ \A i \in Slots : SlotInv(i)'
<1>1. EndedInv'
  BY DEF Connect, EndedInv
<1>2. ASSUME NEW i \in Slots PROVE SlotInv(i)'
  <2>1. ToPlugin(i)' = {} /\ ToClient(i)' = {} /\ clientdata'[i] = Deallocated
        /\ serverdata'[i] = serverdata[i] /\ sock' = "Connected"
    BY DEF Connect, ToPlugin, ToClient, EmptyTable
  <2>2. ClientEntryInv(i) /\ serverdata[i].status \in {"UNINITIALIZED", "ALLOC", "DEALLOC"}
    BY DEF Connect, IInv, SlotInv, ClientEntryInv
  <2>3. ClientEntryInv(i)' /\ PluginEntryInv(i)' /\ ToPluginInv(i)' /\ ToClientInv(i)'
    BY <2>1, <2>2
    DEF ClientEntryInv, PluginEntryInv, ToPluginInv, ArrivalInv, ToClientInv, Deallocated
  <2>4. AgreeInv(i)'
    BY <2>1, <2>2, ExchangeAssumption DEF AgreeInv, EntriesInv, RequestInv, ConfirmInv, Dead, Deallocated
  <2>. QED
    BY <2>3, <2>4 DEF SlotInv
<1>. QED
  BY <1>1, <1>2

(* The client leaves or notices the end of the connection; the plugin may    *)
(* still have it.                                                           *)
LEMMA InvAfterClose ==
    ASSUME IInv, UNCHANGED <<open, numalloc, clientdata>>, sock' = "Ready", s2c' = <<>>,
           c2s' \in {c2s, <<>>, Append(c2s, Disconnect)}, c2s' = Append(c2s, Disconnect) => open,
           \A i \in Slots : serverdata'[i] \in {ResetEntry(serverdata[i]), FreeEntry}
    PROVE  EndedInv' /\ \A i \in Slots : SlotInv(i)'
<1>1. EndedInv'
  BY DEF IInv, EndedInv, EmptyTable
<1>2. ASSUME NEW i \in Slots PROVE SlotInv(i)'
  <2>0. SlotInv(i) /\ serverdata[i] \in ClientEntry /\ c2s \in Seq(Packet)
    BY DEF IInv, TypeOK
  <2>1. \/ ToPlugin(i)' = {}
        \/ ToPlugin(i)' = ToPlugin(i) /\ \A k \in ToPlugin(i) : c2s'[k] = c2s[k]
    <3>1. CASE c2s' = <<>>
      BY <3>1 DEF ToPlugin
    <3>2. CASE c2s' = c2s
      BY <3>2 DEF ToPlugin
    <3>3. CASE c2s' = Append(c2s, Disconnect)
      BY <2>0, <3>3, DisconnectIsPacket, Appended DEF ToPlugin
    <3>. QED
      BY <3>1, <3>2, <3>3
  <2>2. ToClient(i)' = {}
    BY DEF ToClient
  <2>3. ClientEntryInv(i)'
    BY <2>0, ExchangeAssumption
    DEF SlotInv, ClientEntryInv, ResetEntry, FreeEntry, ClientEntry
  <2>4. PluginEntryInv(i)' /\ ToPluginInv(i)' /\ ToClientInv(i)'
    BY <2>0, <2>1, <2>2
    DEF SlotInv, PluginEntryInv, ToPluginInv, ArrivalInv, ToClientInv, Deallocated
  <2>. QED
    BY <2>3, <2>4 DEF SlotInv, Established
<1>. QED
  BY <1>1, <1>2

LEMMA InvAfterReceiveXpserver ==
    ASSUME IInv, ReceiveXpserver
    PROVE  EndedInv' /\ \A i \in Slots : SlotInv(i)'
<1>. DEFINE p == Head(s2c)
<1>0. UNCHANGED <<c2s, open, numalloc, clientdata>> /\ s2c \in Seq(Packet) /\ s2c # <<>>
      /\ sock = "Connected"
  BY DEF ReceiveXpserver, pluginVars, IInv, TypeOK
<1>1. CASE CloseClient
  BY <1>0, <1>1, InvAfterClose DEF CloseClient
<1>2. CASE /\ serverdata' = [i \in Slots |->
                IF i \in DOMAIN p.msg
                THEN ReceivedByClient(serverdata[i], p.msg[i])
                ELSE serverdata[i]]
           /\ s2c' = Tail(s2c) /\ UNCHANGED sock
  <2>1. EndedInv'
    BY <1>0, <1>2 DEF IInv, EndedInv, EmptyTable
  <2>2. ASSUME NEW i \in Slots PROVE SlotInv(i)'
    <3>0. SlotInv(i) /\ serverdata[i] \in ClientEntry /\ ToPlugin(i)' = ToPlugin(i)
      BY <1>0 DEF IInv, TypeOK, ToPlugin
    <3>. DEFINE e == serverdata[i]
                m == s2c[1].msg[i]
    <3>1. /\ \A k \in ToClient(i)' : k \in Nat /\ k > 0 /\ k + 1 \in ToClient(i) /\ s2c'[k] = s2c[k + 1]
          /\ p = s2c[1] /\ Len(s2c) \in Nat \ {0}
      BY <1>0, <1>2, Taken DEF ToClient
    <3>2. PluginEntryInv(i)' /\ ToPluginInv(i)' /\ (Established' <=> Established)
      BY <1>0, <1>2, <3>0
      DEF SlotInv, PluginEntryInv, ToPluginInv, ArrivalInv, Established, Deallocated
    (* The entry keeps its name, type and status.                           *)
    <3>3. CASE /\ serverdata'[i].name = e.name /\ serverdata'[i].typed = e.typed
               /\ serverdata'[i].status = e.status
      <4>0. ClientEntryInv(i)'
        BY <1>0, <1>2, <3>0, <3>3 DEF SlotInv, ClientEntryInv
      <4>1. ToClientInv(i)'
        <5>1. ASSUME NEW k \in ToClient(i)' PROVE ReplyInv(i, k)'
          BY <3>0, <3>1, <3>3, <5>1 DEF SlotInv, ToClientInv, ReplyInv
        <5>. QED
          BY <5>1 DEF ToClientInv
      <4>2. ASSUME Established PROVE AgreeInv(i)'
        <5>1. AgreeInv(i) /\ (ToClient(i) = {} => ToClient(i)' = {})
          BY <3>0, <3>1, <4>2 DEF SlotInv
        <5>2. ASSUME NEW k \in ToClient(i)' PROVE ConfirmInv(i, k)'
          <6>1. ConfirmInv(i, k + 1) /\ s2c'[k] = s2c[k + 1]
            BY <3>1, <5>1, <5>2 DEF AgreeInv
          <6>. QED
            BY <1>0, <3>0, <3>3, <6>1 DEF ConfirmInv
        <5>3. EntriesInv(i)' /\ \A k \in ToPlugin(i) : RequestInv(i, k)'
          BY <1>0, <3>0, <3>3, <5>1 DEF AgreeInv, EntriesInv, RequestInv
        <5>. QED
          BY <3>0, <5>2, <5>3 DEF AgreeInv
      <4>. QED
        BY <3>2, <4>0, <4>1, <4>2 DEF SlotInv
    (* The dataref is confirmed.                                            *)
    <3>4. CASE /\ 1 \in ToClient(i) /\ m.op = "LINK" /\ m.name = e.name
               /\ serverdata'[i] = [e EXCEPT !.status = "VALID"]
      <4>1. /\ serverdata'[i].name = e.name /\ serverdata'[i].typed = e.typed
            /\ serverdata'[i].status = "VALID"
        BY <3>0, <3>4 DEF ClientEntry
      <4>0. ReplyInv(i, 1)
        BY <3>0, <3>4 DEF SlotInv, ToClientInv
      <4>2. ClientEntryInv(i)'
        BY <1>0, <1>2, <3>0, <3>4, <4>0, <4>1 DEF SlotInv, ClientEntryInv, ReplyInv
      <4>4. ToClientInv(i)'
        <5>1. ASSUME NEW k \in ToClient(i)' PROVE ReplyInv(i, k)'
          BY <3>0, <3>1, <4>1, <5>1 DEF SlotInv, ToClientInv, ReplyInv
        <5>. QED
          BY <5>1 DEF ToClientInv
      <4>3. ASSUME Established PROVE AgreeInv(i)'
        <5>1. e.typed => clientdata[i].status = "VALID" /\ clientdata[i].name = e.name
          BY <3>0, <3>4, <4>3 DEF SlotInv, AgreeInv, EntriesInv, RequestInv, ConfirmInv
        <5>2. \A k \in ToPlugin(i) : c2s[k].msg[i].op # "LINK"
          BY <3>0, <3>4, <4>3 DEF SlotInv, AgreeInv, EntriesInv, RequestInv, ConfirmInv
        <5>. QED
          BY <1>0, <1>2, <3>0, <3>1, <4>1, <4>3, <5>1, <5>2 DEF SlotInv, AgreeInv, EntriesInv, RequestInv, ConfirmInv
      <4>. QED
        BY <3>2, <4>2, <4>3, <4>4 DEF SlotInv
    (* The entry is free again.                                             *)
    <3>5. CASE /\ 1 \in ToClient(i) /\ m.op = "UNLINK" /\ m.name = e.name
               /\ serverdata'[i] = [e EXCEPT !.name = NoName, !.status = "UNINITIALIZED"]
      <4>1. /\ serverdata'[i].name = NoName /\ serverdata'[i].typed = e.typed
            /\ serverdata'[i].status = "UNINITIALIZED"
        BY <3>0, <3>5 DEF ClientEntry
      <4>2. ToClient(i)' = {} /\ ~e.typed
        <5>1. ReplyInv(i, 1)
          BY <3>0, <3>5 DEF SlotInv, ToClientInv
        <5>2. ~e.typed /\ \A l \in ToClient(i) : l <= 1
          BY <3>5, <5>1 DEF ReplyInv
        <5>3. ASSUME NEW k \in ToClient(i)' PROVE FALSE
          BY <3>1, <5>2, <5>3
        <5>. QED
          BY <5>2, <5>3
      <4>3. ClientEntryInv(i)' /\ ToClientInv(i)'
        BY <1>0, <1>2, <4>1, <4>2 DEF ClientEntryInv, ToClientInv
      <4>4. ASSUME Established PROVE AgreeInv(i)'
        <5>1. Dead(clientdata[i]) /\ \A k \in ToPlugin(i) : c2s[k].msg[i].op = "UNLINK"
          BY <3>0, <3>5, <4>4 DEF SlotInv, AgreeInv, EntriesInv, RequestInv, ConfirmInv
        <5>. QED
          BY <1>0, <3>0, <4>1, <4>2, <5>1, ExchangeAssumption DEF AgreeInv, EntriesInv, RequestInv, ConfirmInv, Dead
      <4>. QED
        BY <3>2, <4>3, <4>4 DEF SlotInv
    <3>6. \/ /\ serverdata'[i].name = e.name /\ serverdata'[i].typed = e.typed
             /\ serverdata'[i].status = e.status
          \/ /\ 1 \in ToClient(i) /\ m.op = "LINK" /\ m.name = e.name
             /\ serverdata'[i] = [e EXCEPT !.status = "VALID"]
          \/ /\ 1 \in ToClient(i) /\ m.op = "UNLINK" /\ m.name = e.name
             /\ serverdata'[i] = [e EXCEPT !.name = NoName, !.status = "UNINITIALIZED"]
      <4>1. CASE i \notin DOMAIN p.msg
        BY <1>2, <4>1
      <4>2. CASE i \in DOMAIN p.msg
        <5>1. 1 \in ToClient(i) /\ serverdata'[i] = ReceivedByClient(e, m)
          BY <1>2, <3>1, <4>2 DEF ToClient
        <5>. QED
          BY <3>0, <5>1 DEF ReceivedByClient, ClientEntry
      <4>. QED
        BY <4>1, <4>2
    <3>. QED
      BY <3>3, <3>4, <3>5, <3>6
  <2>. QED
    BY <2>1, <2>2
<1>. QED
  BY <1>1, <1>2 DEF ReceiveXpserver

LEMMA InvAfterSendXpserver ==
    ASSUME IInv, SendXpserver
    PROVE  EndedInv' /\ \A i \in Slots : SlotInv(i)'
<1>. DEFINE S == IF sock = "Connected"
                 THEN {i \in Slots : HasMessage(serverdata[i])} ELSE {}
            f == [i \in S |-> MessageOfClient(serverdata[i])]
<1>0. UNCHANGED <<sock, s2c, open, numalloc, clientdata>> /\ c2s \in Seq(Packet)
  BY DEF SendXpserver, pluginVars, IInv, TypeOK
<1>1. /\ serverdata' = [i \in Slots |->
                IF i \in S THEN SentByClient(serverdata[i]) ELSE serverdata[i]]
      /\ IF S # {} /\ open THEN c2s' = Append(c2s, Transmission(f)) ELSE c2s' = c2s
  BY DEF SendXpserver
<1>2. \A i \in S : i \in Slots /\ HasMessage(serverdata[i]) /\ sock = "Connected"
  OBVIOUS
<1>3. Transmission(f) \in Packet /\ Transmission(f).msg = f /\ DOMAIN f = S
  <2>1. f \in [S -> Message] /\ S \in SUBSET Slots
    BY DEF IInv, TypeOK, HasMessage, MessageOfClient, Link, Unlink, DataOf, Message, ClientEntry,
       Data
  <2>. HIDE DEF S, f
  <2>. QED
    BY <2>1, TransmissionIsPacket DEF Transmission
<1>4. \A i \in S : f[i] = MessageOfClient(serverdata[i])
  OBVIOUS
<1>. HIDE DEF S, f
<1>5. EndedInv'
  BY <1>0, <1>1 DEF IInv, EndedInv, EmptyTable
<1>6. ASSUME NEW i \in Slots PROVE SlotInv(i)'
  <2>. DEFINE e == serverdata[i]
              m == MessageOfClient(e)
  <2>. PICK K \in Nat : K = Len(c2s) + 1
    BY <1>0
  <2>0. SlotInv(i) /\ e \in ClientEntry /\ ToClient(i)' = ToClient(i)
        /\ (Established' <=> Established)
    BY <1>0 DEF IInv, TypeOK, ToClient, Established
  <2>1. \A k \in ToPlugin(i) : k \in Nat /\ k < K
    BY <1>0 DEF ToPlugin
  <2>2. PluginEntryInv(i)'
    BY <1>0, <2>0 DEF SlotInv, PluginEntryInv, Deallocated
  (* Nothing is sent about this offset.                                     *)
  <2>3. CASE i \notin S
    <3>1. serverdata'[i] = e /\ ToPlugin(i)' = ToPlugin(i)
          /\ \A k \in ToPlugin(i) : c2s'[k] = c2s[k]
      <4>1. CASE c2s' = Append(c2s, Transmission(f))
        BY <1>0, <1>1, <1>3, <2>3, <4>1, Appended DEF ToPlugin
      <4>2. CASE c2s' = c2s
        BY <1>1, <2>3, <4>2 DEF ToPlugin
      <4>. QED
        BY <1>1, <4>1, <4>2
    <3>2. ClientEntryInv(i)' /\ ToPluginInv(i)' /\ ToClientInv(i)'
      BY <1>0, <2>0, <3>1 DEF SlotInv, ClientEntryInv, ToPluginInv, ArrivalInv, ToClientInv, ReplyInv
    <3>3. ASSUME Established PROVE AgreeInv(i)'
      BY <1>0, <2>0, <3>1, <3>3 DEF SlotInv, AgreeInv, EntriesInv, RequestInv, ConfirmInv
    <3>. QED
      BY <2>0, <2>2, <3>2, <3>3 DEF SlotInv
  (* A message is sent, or lost when the plugin has closed its side.        *)
  <2>4. CASE i \in S
    <3>1. /\ sock = "Connected" /\ e.name # NoName
          /\ \/ /\ e.status = "ALLOC" /\ serverdata'[i] = [e EXCEPT !.status = "LINK"]
                /\ m.op = "LINK" /\ m.name = e.name /\ m.typed = e.typed
             \/ /\ e.status = "DEALLOC" /\ serverdata'[i] = [e EXCEPT !.status = "UNLINK"]
                /\ m.op = "UNLINK"
             \/ /\ e.status = "VALID" /\ e.typed
                /\ serverdata'[i] \in {[e EXCEPT !.data = 0, !.old = 0], [e EXCEPT !.old = e.data]}
                /\ m.op = "DATA" /\ m.name = e.name
      BY <1>1, <1>2, <2>4
      DEF HasMessage, Changed, SentByClient, MessageOfClient, Link, Unlink, DataOf
    <3>. DEFINE e1 == serverdata'[i]
    <3>2. /\ e1.name = e.name /\ e1.typed = e.typed
          /\ \/ e.status = "ALLOC" /\ e1.status = "LINK" /\ m.op = "LINK" /\ m.name = e.name
                /\ m.typed = e.typed
             \/ e.status = "DEALLOC" /\ e1.status = "UNLINK" /\ m.op = "UNLINK"
             \/ e.status = "VALID" /\ e.typed /\ e1.status = "VALID" /\ m.op = "DATA"
                /\ m.name = e.name
      BY <2>0, <3>1 DEF ClientEntry
    <3>. HIDE DEF e1, m
    <3>3. ClientEntryInv(i)' /\ ToClientInv(i)'
      BY <1>0, <2>0, <3>1, <3>2 DEF SlotInv, ClientEntryInv, ToClientInv, ReplyInv, e1
    <3>4. CASE ~open
      BY <1>0, <1>1, <2>0, <2>2, <3>3, <3>4
      DEF SlotInv, ToPluginInv, ArrivalInv, ToPlugin, Established
    <3>5. CASE open
      <4>1. /\ ToPlugin(i)' = ToPlugin(i) \cup {K}
            /\ \A k \in ToPlugin(i) : c2s'[k] = c2s[k]
            /\ c2s'[K].msg[i] = m
        BY <1>0, <1>1, <1>3, <1>4, <2>4, <3>5, Appended DEF ToPlugin, m
      <4>2. AgreeInv(i) /\ Established
        BY <2>0, <3>1, <3>5 DEF SlotInv, Established
      <4>3. ToPluginInv(i)'
        <5>1. m.op = "LINK" =>
                Dead(clientdata[i]) /\ \A l \in ToPlugin(i) : c2s[l].msg[i].op = "UNLINK"
          BY <3>2, <4>2 DEF AgreeInv, EntriesInv, RequestInv
        <5>2. m.op = "DATA" =>
                /\ clientdata[i].status = "VALID" /\ clientdata[i].name = m.name
                /\ \A l \in ToPlugin(i) : c2s[l].msg[i].op = "DATA"
          BY <2>0, <3>2, <4>2, ExchangeAssumption
          DEF AgreeInv, EntriesInv, RequestInv, SlotInv, PluginEntryInv, Dead
        <5>. QED
          BY <1>0, <2>0, <2>1, <4>1, <5>1, <5>2 DEF SlotInv, ToPluginInv, ArrivalInv
      <4>4. EntriesInv(i)'
        BY <1>0, <2>0, <3>2, <4>2 DEF AgreeInv, EntriesInv, e1
      <4>5. RequestInv(i, K)'
        <5>1. m.op = "LINK" => ToClient(i) = {}
          BY <2>0, <3>2 DEF SlotInv, ToClientInv, ReplyInv
        <5>2. e.typed /\ ~Dead(clientdata[i]) => m.op # "LINK" /\ m.op # "UNLINK"
          BY <2>0, <3>2, <4>2 DEF AgreeInv, EntriesInv, SlotInv, ClientEntryInv
        <5>. QED
          BY <1>0, <2>0, <2>1, <3>2, <4>1, <5>1, <5>2 DEF RequestInv, e1
      <4>6. ASSUME NEW k \in ToPlugin(i) PROVE RequestInv(i, k)'
        <5>1. RequestInv(i, k)
          BY <4>2 DEF AgreeInv
        <5>2. e.status = "VALID" /\ e.typed => c2s[k].msg[i].op = "DATA"
          BY <2>0, <4>2, <5>1, ExchangeAssumption
          DEF AgreeInv, EntriesInv, RequestInv, SlotInv, PluginEntryInv, Dead
        <5>3. c2s[k].msg[i].op = "LINK" /\ e.typed => FALSE
          BY <2>0, <3>2, <5>1, <5>2 DEF RequestInv, SlotInv, ClientEntryInv
        <5>. QED
          BY <1>0, <2>0, <2>1, <3>2, <4>1, <5>1, <5>3 DEF RequestInv, e1
      <4>7. ASSUME NEW k \in ToClient(i) PROVE ConfirmInv(i, k)'
        <5>1. ConfirmInv(i, k) /\ ReplyInv(i, k)
          BY <2>0, <4>2 DEF AgreeInv, SlotInv, ToClientInv
        <5>2. s2c[k].msg[i].op = "UNLINK" => m.op = "UNLINK"
          BY <3>2, <5>1 DEF ReplyInv
        <5>. QED
          BY <1>0, <2>1, <3>2, <4>1, <5>1, <5>2 DEF ConfirmInv, e1
      <4>8. AgreeInv(i)'
        BY <2>0, <4>1, <4>4, <4>5, <4>6, <4>7 DEF AgreeInv
      <4>. QED
        BY <2>2, <3>3, <4>3, <4>8 DEF SlotInv
    <3>. QED
      BY <3>4, <3>5
  <2>. QED
    BY <2>3, <2>4
<1>. QED
  BY <1>5, <1>6

LEMMA InvAfterClient ==
    ASSUME IInv, Client
    PROVE  EndedInv' /\ \A i \in Slots : SlotInv(i)'
<1>1. CASE ReceiveEnd
  BY <1>1, InvAfterClose DEF ReceiveEnd, CloseClient, pluginVars
<1>2. CASE ReceiveError
  BY <1>2, InvAfterClose DEF ReceiveError, CloseClient, pluginVars
<1>3. CASE ExitClient
  BY <1>3, InvAfterClose DEF ExitClient, pluginVars
<1>. QED
  BY <1>1, <1>2, <1>3, InvAfterConnect, InvAfterReceiveXpserver, InvAfterSendXpserver DEF Client

(* The plugin gives up the slot; the client may still read what it has sent. *)
LEMMA InvAfterClosePlugin ==
    ASSUME IInv, ClosePlugin, UNCHANGED <<sock, serverdata>>,
           \/ s2c' \in {s2c, <<>>}
           \/ sock = "Connected" /\ s2c' = Append(s2c, Disconnect)
    PROVE  EndedInv' /\ \A i \in Slots : SlotInv(i)'
<1>1. EndedInv'
  BY DEF IInv, EndedInv, ClosePlugin, EmptyTable
<1>2. ASSUME NEW i \in Slots PROVE SlotInv(i)'
  <2>0. SlotInv(i) /\ s2c \in Seq(Packet)
    BY DEF IInv, TypeOK
  <2>1. ToPlugin(i)' = {} /\ clientdata'[i] = Deallocated /\ ~Established'
    BY DEF ToPlugin, ClosePlugin, EmptyTable, Established
  <2>2. ToClient(i)' \subseteq ToClient(i) /\ \A k \in ToClient(i)' : s2c'[k] = s2c[k]
    <3>1. CASE s2c' = <<>>
      BY <3>1 DEF ToClient
    <3>2. CASE s2c' = s2c
      BY <3>2 DEF ToClient
    <3>3. CASE s2c' = Append(s2c, Disconnect)
      BY <2>0, <3>3, DisconnectIsPacket, Appended DEF ToClient
    <3>. QED
      BY <3>1, <3>2, <3>3
  <2>3. ClientEntryInv(i)' /\ PluginEntryInv(i)' /\ ToPluginInv(i)'
    BY <2>0, <2>1
    DEF SlotInv, ClientEntryInv, PluginEntryInv, ToPluginInv, ArrivalInv, Deallocated
  <2>4. ToClientInv(i)'
    BY <2>0, <2>2 DEF SlotInv, ToClientInv, ReplyInv
  <2>. QED
    BY <2>1, <2>3, <2>4 DEF SlotInv
<1>. QED
  BY <1>1, <1>2

(* What a transmission does to one entry of the plugin's table.              *)
LEMMA EntryAfter ==
    ASSUME NEW f, NEW i \in Slots
    PROVE  LET p == clientdata[i]
               q == TableAfter(f)[i]
           IN
           \/ /\ i \in DOMAIN f /\ f[i].op = "LINK" /\ f[i].typed
              /\ q = Linked(p, f[i].name)
           \/ /\ i \in DOMAIN f /\ f[i].op = "UNLINK" /\ i < numalloc
              /\ q = [p EXCEPT !.status = "UNLINK"]
           \/ /\ i \in DOMAIN f /\ f[i].op = "DATA" /\ i < numalloc /\ p.status = "VALID"
              /\ q = [p EXCEPT !.data = f[i].val]
           \/ i >= numalloc /\ i < Grown(f) /\ q = Uninitialised
           \/ q = p
<1>. DEFINE p == clientdata[i]
            q == TableAfter(f)[i]
<1>1. q = CASE i \in Links(f) -> Linked(p, f[i].name)
            [] i \in Unlinks(f) /\ i < numalloc -> [p EXCEPT !.status = "UNLINK"]
            [] i \in Applies(f) -> [p EXCEPT !.data = f[i].val]
            [] i \notin Links(f) /\ i >= numalloc /\ i < Grown(f) -> Uninitialised
            [] OTHER -> p
  BY DEF TableAfter
<1>2. \/ i \in Links(f) /\ q = Linked(p, f[i].name)
      \/ i \in Unlinks(f) /\ i < numalloc /\ q = [p EXCEPT !.status = "UNLINK"]
      \/ i \in Applies(f) /\ q = [p EXCEPT !.data = f[i].val]
      \/ i >= numalloc /\ i < Grown(f) /\ q = Uninitialised
      \/ q = p
  BY <1>1
<1>3. i \in Links(f) => i \in DOMAIN f /\ f[i].op = "LINK" /\ f[i].typed
  BY DEF Links
<1>4. i \in Unlinks(f) => i \in DOMAIN f /\ f[i].op = "UNLINK"
  BY DEF Unlinks
<1>5. i \in Applies(f) =>
        i \in DOMAIN f /\ f[i].op = "DATA" /\ i < numalloc /\ p.status = "VALID"
  BY DEF Applies
<1>. QED
  BY <1>2, <1>3, <1>4, <1>5

(* The plugin takes a transmission that it survives.                        *)
LEMMA InvAfterTransmission ==
    ASSUME IInv, open, c2s # <<>>,
           clientdata' = TableAfter(Head(c2s).msg), numalloc' = Grown(Head(c2s).msg),
           c2s' = Tail(c2s), UNCHANGED <<sock, serverdata, open, s2c>>
    PROVE  EndedInv' /\ \A i \in Slots : SlotInv(i)'
<1>. DEFINE f == Head(c2s).msg
<1>0. c2s \in Seq(Packet) /\ Head(c2s) = c2s[1] /\ Head(c2s) \in Packet
      /\ numalloc \in 0 .. MaxSlots
  BY DEF IInv, TypeOK
<1>1. EndedInv'
  BY DEF IInv, EndedInv
<1>2. DOMAIN f \subseteq Slots /\ \A i \in DOMAIN f : f[i] \in Message
  BY <1>0, PacketFacts
<1>3. /\ numalloc' \in numalloc .. MaxSlots /\ numalloc \in Int /\ numalloc' \in Int
      /\ \A i \in Links(f) : i < numalloc'
  <2>1. Links(f) \subseteq Slots
    BY <1>2 DEF Links
  <2>. QED
    BY <1>0, <2>1, GrownFacts
<1>4. ASSUME NEW i \in Slots PROVE SlotInv(i)'
  <2>. DEFINE p == clientdata[i]
              q == clientdata'[i]
  <2>0. SlotInv(i) /\ p \in PluginEntry /\ i \in Int /\ ToClient(i)' = ToClient(i)
        /\ (Established' <=> Established) /\ serverdata[i] \in ClientEntry
    BY DEF IInv, TypeOK, ToClient, Established, Slots
  <2>1. /\ \A k \in ToPlugin(i)' : k \in Nat /\ k > 0 /\ k + 1 \in ToPlugin(i) /\ c2s'[k] = c2s[k + 1]
        /\ (1 \in ToPlugin(i) <=> i \in DOMAIN f)
    <3>1. Len(c2s) >= 1
      BY <1>0
    <3>. QED
      BY <1>0, <3>1, Taken DEF ToPlugin
  <2>12. ToPlugin(i)' \subseteq Nat \ {0}
    BY <2>1
  <2>13. \A k, l \in Nat \ {0} : 1 < k + 1 /\ (l < k => l + 1 < k + 1)
    OBVIOUS
  <2>14. \A k, l \in ToPlugin(i)' : 1 < k + 1 /\ (l < k => l + 1 < k + 1)
    BY <2>12, <2>13
  <2>2. ClientEntryInv(i)' /\ ToClientInv(i)'
    BY <2>0 DEF SlotInv, ClientEntryInv, ToClientInv, ReplyInv
  <2>3. \/ /\ i \in DOMAIN f /\ f[i].op = "LINK" /\ f[i].typed
           /\ q = Linked(p, f[i].name) /\ i < numalloc'
        \/ /\ i \in DOMAIN f /\ f[i].op = "UNLINK" /\ i < numalloc
           /\ q = [p EXCEPT !.status = "UNLINK"]
        \/ /\ i \in DOMAIN f /\ f[i].op = "DATA" /\ i < numalloc
           /\ q = [p EXCEPT !.data = f[i].val]
        \/ i >= numalloc /\ i < numalloc' /\ q = Uninitialised
        \/ q = p
    <3>1. i \in Links(f) <=> i \in DOMAIN f /\ f[i].op = "LINK" /\ f[i].typed
      BY DEF Links
    <3>. HIDE DEF f
    <3>2. clientdata' = TableAfter(f) /\ numalloc' = Grown(f)
      BY DEF f
    <3>3. \/ /\ i \in DOMAIN f /\ f[i].op = "LINK" /\ f[i].typed
             /\ TableAfter(f)[i] = Linked(p, f[i].name)
          \/ /\ i \in DOMAIN f /\ f[i].op = "UNLINK" /\ i < numalloc
             /\ TableAfter(f)[i] = [p EXCEPT !.status = "UNLINK"]
          \/ /\ i \in DOMAIN f /\ f[i].op = "DATA" /\ i < numalloc
             /\ TableAfter(f)[i] = [p EXCEPT !.data = f[i].val]
          \/ i >= numalloc /\ i < Grown(f) /\ TableAfter(f)[i] = Uninitialised
          \/ TableAfter(f)[i] = p
      BY EntryAfter
    <3>. QED
      BY <1>3, <3>1, <3>2, <3>3
  (* The entry stays as free, or as much in use, as it was.                 *)
  <2>4. CASE /\ i >= numalloc' => q = Deallocated
             /\ \/ q.name = p.name /\ q.status = p.status /\ q.good = p.good
                \/ /\ Dead(p) /\ p.status \notin {"LINK", "VALID"}
                   /\ Dead(q) /\ q.status \notin {"LINK", "VALID", "UNLINK"}
    <3>1. PluginEntryInv(i)'
      BY <2>0, <2>4 DEF SlotInv, PluginEntryInv
    <3>2. Dead(q) <=> Dead(p)
      BY <2>4 DEF Dead
    <3>3. ToPluginInv(i)'
      <4>1. ASSUME NEW k \in ToPlugin(i)' PROVE ArrivalInv(i, k)'
        <5>1. ArrivalInv(i, k + 1) /\ c2s'[k] = c2s[k + 1] /\ k \in Nat
          BY <2>0, <2>1, <4>1 DEF SlotInv, ToPluginInv
        <5>2. \A l \in ToPlugin(i)' : l < k =>
                l + 1 \in ToPlugin(i) /\ l + 1 < k + 1 /\ c2s'[l] = c2s[l + 1]
          BY <2>1, <2>14, <4>1
        <5>. QED
          BY ZenonT(60), <2>4, <3>2, <5>1, <5>2, ExchangeAssumption DEF ArrivalInv, Dead
      <4>. QED
        BY <4>1 DEF ToPluginInv
    <3>4. ASSUME Established PROVE AgreeInv(i)'
      <4>1. AgreeInv(i)
        BY <2>0, <3>4 DEF SlotInv
      <4>2. EntriesInv(i)'
        BY <2>0, <2>4, <3>2, <4>1, ExchangeAssumption DEF AgreeInv, EntriesInv, Dead
      <4>3. ASSUME NEW k \in ToPlugin(i)' PROVE RequestInv(i, k)'
        <5>1. RequestInv(i, k + 1) /\ c2s'[k] = c2s[k + 1] /\ k \in Nat
          BY <2>1, <4>1, <4>3 DEF AgreeInv
        <5>2. (\A l \in ToPlugin(i) : l <= k + 1) => (\A l \in ToPlugin(i)' : l <= k)
          BY <2>1, <5>1
        <5>. QED
          BY <2>0, <3>2, <5>1, <5>2 DEF RequestInv, Dead
      <4>4. ASSUME NEW k \in ToClient(i) PROVE ConfirmInv(i, k)'
        <5>1. ConfirmInv(i, k)
          BY <4>1, <4>4 DEF AgreeInv
        <5>2. (\A l \in ToPlugin(i) : c2s[l].msg[i].op = "UNLINK")
                => (\A l \in ToPlugin(i)' : c2s'[l].msg[i].op = "UNLINK")
          BY <2>1
        <5>. QED
          BY <2>0, <2>4, <3>2, <5>1, <5>2, ExchangeAssumption DEF ConfirmInv, Dead
      <4>. QED
        BY <2>0, <4>2, <4>3, <4>4 DEF AgreeInv
    <3>. QED
      BY <2>0, <2>2, <3>1, <3>3, <3>4 DEF SlotInv
  (* It is given up.                                                        *)
  <2>5. CASE /\ i \in DOMAIN f /\ f[i].op = "UNLINK" /\ i < numalloc
             /\ q = [p EXCEPT !.status = "UNLINK"]
    <3>0. q.name = p.name /\ q.status = "UNLINK" /\ 1 \in ToPlugin(i)
          /\ c2s[1].msg[i].op = "UNLINK"
      BY <1>0, <2>0, <2>1, <2>5 DEF PluginEntry
    <3>1. PluginEntryInv(i)'
      BY <1>3, <2>0, <2>5, <3>0 DEF PluginEntryInv
    <3>2. ToPluginInv(i)'
      <4>1. ASSUME NEW k \in ToPlugin(i)' PROVE ArrivalInv(i, k)'
        <5>1. ArrivalInv(i, k + 1) /\ c2s'[k] = c2s[k + 1] /\ k \in Nat /\ 1 < k + 1
          BY <2>0, <2>1, <2>14, <4>1 DEF SlotInv, ToPluginInv
        <5>2. \A l \in ToPlugin(i)' : l < k =>
                l + 1 \in ToPlugin(i) /\ l + 1 < k + 1 /\ c2s'[l] = c2s[l + 1]
          BY <2>1, <2>14, <4>1
        <5>3. c2s'[k].msg[i].op # "DATA"
          BY <3>0, <5>1 DEF ArrivalInv
        <5>. QED
          BY <3>0, <5>1, <5>2, <5>3 DEF ArrivalInv, Dead
      <4>. QED
        BY <4>1 DEF ToPluginInv
    <3>3. ASSUME Established PROVE AgreeInv(i)'
      <4>1. AgreeInv(i) /\ RequestInv(i, 1)
        BY <2>0, <3>0, <3>3 DEF SlotInv, AgreeInv
      <4>2. ~serverdata[i].typed \/ Dead(p)
        BY <3>0, <4>1 DEF RequestInv
      <4>3. p.status = "VALID" => ~Dead(p)
        BY <2>0, ExchangeAssumption DEF SlotInv, PluginEntryInv, Dead
      <4>4. EntriesInv(i)'
        BY <2>0, <3>0, <4>1, <4>2, <4>3 DEF AgreeInv, EntriesInv, Dead
      <4>5. ASSUME NEW k \in ToPlugin(i)' PROVE RequestInv(i, k)'
        <5>1. RequestInv(i, k + 1) /\ c2s'[k] = c2s[k + 1] /\ k \in Nat
          BY <2>1, <4>1, <4>5 DEF AgreeInv
        <5>2. (\A l \in ToPlugin(i) : l <= k + 1) => (\A l \in ToPlugin(i)' : l <= k)
          BY <2>1, <5>1
        <5>. QED
          BY <2>0, <3>0, <5>1, <5>2 DEF RequestInv, Dead
      <4>6. ASSUME NEW k \in ToClient(i) PROVE ConfirmInv(i, k)'
        <5>1. ConfirmInv(i, k)
          BY <4>1, <4>6 DEF AgreeInv
        <5>2. (\A l \in ToPlugin(i) : c2s[l].msg[i].op = "UNLINK")
                => (\A l \in ToPlugin(i)' : c2s'[l].msg[i].op = "UNLINK")
          BY <2>1
        <5>. QED
          BY <2>0, <3>0, <4>2, <4>3, <5>1, <5>2 DEF ConfirmInv, Dead
      <4>. QED
        BY <2>0, <4>4, <4>5, <4>6 DEF AgreeInv
    <3>. QED
      BY <2>0, <2>2, <3>1, <3>2, <3>3 DEF SlotInv
  (* It is subscribed.                                                      *)
  <2>6. CASE /\ i \in DOMAIN f /\ f[i].op = "LINK" /\ f[i].typed
             /\ q = Linked(p, f[i].name) /\ i < numalloc'
    <3>0. 1 \in ToPlugin(i) /\ c2s[1].msg[i] = f[i]
      BY <1>0, <2>1, <2>6
    <3>1. Dead(p) /\ f[i].name \in Names \cup {ErrorText}
      BY <1>2, <2>0, <2>6, <3>0 DEF SlotInv, ToPluginInv, ArrivalInv, Message
    <3>2. /\ q.status \in {"ALLOC", "LINK"}
          /\ q.name \in Names => q.name = f[i].name
          /\ q.status = "LINK" => (q.name \in Names /\ q.good) \/ (q.name = ErrorText /\ ~q.good)
      <4>. DEFINE n == f[i].name
                  a == [name |-> n, good |-> FALSE, status |-> "ALLOC", data |-> Miss]
      <4>1. p.name # n
        BY <3>1, ExchangeAssumption DEF Dead
      <4>2. q = IF n \in CustomFull THEN a ELSE Checked(a)
        BY <2>6, <4>1 DEF Linked, Allocated
      <4>. HIDE DEF n
      <4>3. n \notin Known \/ n \in Names
        BY ExchangeAssumption
      <4>4. CASE n \in CustomFull
        BY <3>1, <4>2, <4>4 DEF n
      <4>5. CASE n \notin CustomFull /\ n \in Known
        <5>1. q = [name |-> n, good |-> TRUE, status |-> "LINK", data |-> Miss]
          BY <4>2, <4>5 DEF Checked
        <5>. QED
          BY <4>3, <4>5, <5>1 DEF n
      <4>6. CASE n \notin CustomFull /\ n \notin Known
        <5>1. q = [name |-> ErrorText, good |-> FALSE, status |-> "LINK", data |-> Miss]
          BY <4>2, <4>6 DEF Checked
        <5>. QED
          BY <5>1, ExchangeAssumption
      <4>. QED
        BY <4>4, <4>5, <4>6
    <3>3. PluginEntryInv(i)'
      BY <1>3, <2>0, <2>6, <3>2 DEF PluginEntryInv
    <3>4. \A k \in ToPlugin(i)' : c2s'[k].msg[i].op \notin {"LINK", "DATA"}
      <4>1. ASSUME NEW k \in ToPlugin(i)' PROVE c2s'[k].msg[i].op \notin {"LINK", "DATA"}
        <5>1. k + 1 \in ToPlugin(i) /\ 1 < k + 1 /\ c2s'[k] = c2s[k + 1]
          BY <2>1, <2>14, <4>1
        <5>. QED
          BY ZenonT(60), <2>0, <2>6, <3>0, <5>1 DEF SlotInv, ToPluginInv, ArrivalInv
      <4>. QED
        BY <4>1
    <3>5. ToPluginInv(i)'
      BY <3>4 DEF ToPluginInv, ArrivalInv
    <3>6. ASSUME Established PROVE AgreeInv(i)'
      <4>1. AgreeInv(i) /\ RequestInv(i, 1)
        BY <2>0, <3>0, <3>6 DEF SlotInv, AgreeInv
      <4>2. /\ serverdata[i].status \notin {"UNINITIALIZED", "ALLOC", "VALID"}
            /\ f[i].name = serverdata[i].name /\ ToClient(i) = {}
            /\ serverdata[i].typed => \A l \in ToPlugin(i) : l <= 1
        BY <2>6, <3>0, <4>1 DEF RequestInv
      <4>3. EntriesInv(i)'
        BY <2>0, <3>2, <4>2 DEF EntriesInv
      <4>4. serverdata[i].typed => ToPlugin(i)' = {}
        BY <2>1, <4>2
      <4>5. ASSUME NEW k \in ToPlugin(i)' PROVE RequestInv(i, k)'
        BY <2>0, <3>4, <4>2, <4>4, <4>5 DEF RequestInv
      <4>. QED
        BY <2>0, <4>2, <4>3, <4>5 DEF AgreeInv
    <3>. QED
      BY <2>0, <2>2, <3>3, <3>5, <3>6 DEF SlotInv
  <2>7. i >= numalloc => p = Deallocated
    BY <2>0 DEF SlotInv, PluginEntryInv
  <2>8. CASE /\ i \in DOMAIN f /\ f[i].op = "DATA" /\ i < numalloc
             /\ q = [p EXCEPT !.data = f[i].val]
    BY <1>3, <2>0, <2>4, <2>8 DEF PluginEntry
  <2>9. CASE i >= numalloc /\ i < numalloc' /\ q = Uninitialised
    BY <1>3, <2>0, <2>4, <2>7, <2>9 DEF Uninitialised, Deallocated, Dead
  <2>10. CASE q = p
    BY <1>3, <2>0, <2>4, <2>7, <2>10
  <2>. QED
    BY <2>3, <2>5, <2>6, <2>8, <2>9, <2>10
<1>. QED
  BY <1>1, <1>4

(* The plugin sends and survives it.                                        *)
LEMMA InvAfterSendClient ==
    ASSUME IInv, open,
           clientdata' = [i \in Slots |->
                IF i \in Replies THEN SentByPlugin(clientdata[i]) ELSE clientdata[i]],
           s2c' = (IF Replies # {} /\ sock = "Connected"
                   THEN Append(s2c, Transmission(
                           [i \in Replies |-> MessageOfPlugin(clientdata[i])]))
                   ELSE s2c),
           UNCHANGED <<sock, serverdata, open, numalloc, c2s>>
    PROVE  EndedInv' /\ \A i \in Slots : SlotInv(i)'
<1>. DEFINE S == Replies
            f == [i \in S |-> MessageOfPlugin(clientdata[i])]
<1>0. s2c \in Seq(Packet) /\ c2s \in Seq(Packet)
  BY DEF IInv, TypeOK
<1>1. s2c' = (IF S # {} /\ sock = "Connected" THEN Append(s2c, Transmission(f)) ELSE s2c)
  OBVIOUS
<1>2. \A i \in S : i \in Slots /\ i < numalloc /\ HasReply(clientdata[i])
  BY DEF Replies
<1>3. /\ Transmission(f) \in Packet /\ Transmission(f).msg = f /\ DOMAIN f = S
  <2>1. ASSUME NEW i \in S PROVE MessageOfPlugin(clientdata[i]) \in Message
    <3>. DEFINE p == clientdata[i]
    <3>1. p \in PluginEntry /\ p.name \in Names \cup {ErrorText}
      BY <1>2 DEF IInv, TypeOK, HasReply, PluginEntry
    <3>2. HasReply(p)
      BY <1>2
    <3>3. p.status \notin {"LINK", "UNLINK"} => sim[p.name] \in Values
      BY <3>2 DEF HasReply, IInv, TypeOK
    <3>. HIDE DEF p
    <3>4. Link(p.name, TRUE) \in Message /\ Unlink(p.name) \in Message
      BY <3>1 DEF Link, Unlink, Message, Data
    <3>5. p.status \notin {"LINK", "UNLINK"} => DataOf(p.name, sim[p.name]) \in Message
      BY <3>1, <3>3 DEF DataOf, Message, Data
    <3>. QED
      BY <3>4, <3>5 DEF MessageOfPlugin, p
  <2>2. f \in [S -> Message] /\ S \in SUBSET Slots
    BY <1>2, <2>1
  <2>. HIDE DEF S, f
  <2>. QED
    BY <2>2, TransmissionIsPacket DEF Transmission
<1>4. \A i \in S : f[i] = MessageOfPlugin(clientdata[i])
  OBVIOUS
<1>5. \A i \in Slots :
        clientdata'[i] = IF i \in S THEN SentByPlugin(clientdata[i]) ELSE clientdata[i]
  OBVIOUS
<1>. HIDE DEF S, f
<1>6. EndedInv'
  BY <1>1 DEF IInv, EndedInv
<1>7. ASSUME NEW i \in Slots PROVE SlotInv(i)'
  <2>. DEFINE p == clientdata[i]
              q == clientdata'[i]
              e == serverdata[i]
              m == MessageOfPlugin(p)
  <2>. PICK K \in Nat : K = Len(s2c) + 1
    BY <1>0
  <2>0. SlotInv(i) /\ e \in ClientEntry /\ p \in PluginEntry /\ ToPlugin(i)' = ToPlugin(i)
        /\ (Established' <=> Established)
    BY DEF IInv, TypeOK, ToPlugin, Established
  <2>1. \A k \in ToClient(i) : k \in Nat /\ k < K
    BY <1>0 DEF ToClient
  (* Nothing is sent about this offset.                                     *)
  <2>2. CASE i \notin S
    <3>1. q = p /\ ToClient(i)' = ToClient(i)
          /\ \A k \in ToClient(i) : s2c'[k] = s2c[k]
      <4>1. CASE s2c' = Append(s2c, Transmission(f))
        BY <1>0, <1>3, <1>5, <2>2, <4>1, Appended DEF ToClient
      <4>2. CASE s2c' = s2c
        BY <1>5, <2>2, <4>2 DEF ToClient
      <4>. QED
        BY <1>1, <4>1, <4>2
    <3>2. ClientEntryInv(i)' /\ PluginEntryInv(i)' /\ ToPluginInv(i)' /\ ToClientInv(i)'
      BY <2>0, <3>1, ZenonT(60)
      DEF SlotInv, ClientEntryInv, PluginEntryInv, ToPluginInv, ArrivalInv, ToClientInv, ReplyInv,
          Deallocated
    <3>3. ASSUME Established PROVE AgreeInv(i)'
      BY <2>0, <3>1, <3>3, ZenonT(60) DEF SlotInv, AgreeInv, EntriesInv, RequestInv, ConfirmInv
    <3>. QED
      BY <2>0, <3>2, <3>3 DEF SlotInv
  (* The entry is confirmed, refused or given up, or its new value is sent.  *)
  <2>3. CASE i \in S
    <3>1. HasReply(p) /\ i < numalloc /\ ~Dead(p) /\ q = SentByPlugin(p)
      BY <1>2, <1>5, <2>3 DEF HasReply, Dead
    <3>2. \/ /\ p.status = "LINK" /\ p.name \in Names /\ q.name = p.name /\ q.good
             /\ q.status = "VALID" /\ m.op = "LINK" /\ m.name = p.name
          \/ /\ p.status = "LINK" /\ p.name = ErrorText /\ q.name = NoName /\ q.status = "DEALLOC"
             /\ m.op = "LINK" /\ m.name = ErrorText
          \/ /\ p.status = "UNLINK" /\ q.name = NoName /\ q.status = "DEALLOC"
             /\ m.op = "UNLINK" /\ m.name = p.name
          \/ /\ p.status = "VALID" /\ p.name \in Names /\ q.name = p.name /\ q.good
             /\ q.status = "VALID" /\ m.op = "DATA" /\ m.name = p.name
      <4>0. PluginEntryInv(i)
        BY <2>0 DEF SlotInv
      <4>1. CASE p.status = "LINK" /\ p.good
        <5>1. q = [p EXCEPT !.status = "VALID"] /\ m = Link(p.name, TRUE)
          BY <3>1, <4>1 DEF SentByPlugin, MessageOfPlugin
        <5>2. p.name \in Names
          BY <4>0, <4>1 DEF PluginEntryInv
        <5>. QED
          BY <2>0, <4>1, <5>1, <5>2 DEF PluginEntry, Link
      <4>2. CASE p.status = "LINK" /\ ~p.good
        <5>1. q = Deallocated /\ m = Link(p.name, TRUE)
          BY <3>1, <4>2 DEF SentByPlugin, MessageOfPlugin
        <5>2. p.name = ErrorText
          BY <4>0, <4>2 DEF PluginEntryInv
        <5>. QED
          BY <4>2, <5>1, <5>2 DEF Deallocated, Link
      <4>3. CASE p.status = "UNLINK"
        <5>1. q = Deallocated /\ m = Unlink(p.name)
          BY <3>1, <4>3 DEF SentByPlugin, MessageOfPlugin
        <5>. QED
          BY <4>3, <5>1 DEF Deallocated, Unlink
      <4>4. CASE p.status = "VALID"
        <5>1. q = [p EXCEPT !.data = sim[p.name]] /\ m = DataOf(p.name, sim[p.name])
          BY <3>1, <4>4 DEF SentByPlugin, MessageOfPlugin
        <5>2. p.name \in Names /\ p.good
          BY <4>0, <4>4 DEF PluginEntryInv
        <5>. QED
          BY <2>0, <4>4, <5>1, <5>2 DEF PluginEntry, DataOf
      <4>. QED
        BY <3>1, <4>1, <4>2, <4>3, <4>4 DEF HasReply
    <3>. HIDE DEF m
    <3>3. ClientEntryInv(i)' /\ PluginEntryInv(i)'
      BY <2>0, <3>1, <3>2, ExchangeAssumption DEF SlotInv, ClientEntryInv, PluginEntryInv, Deallocated
    (* Only DATA for a VALID entry may be under way to the plugin.          *)
    <3>4. \A k \in ToPlugin(i) :
            /\ ArrivalInv(i, k) /\ c2s[k].msg[i].op # "LINK"
            /\ c2s[k].msg[i].op = "DATA" => p.status = "VALID"
            /\ c2s[k].msg[i].op \in {"LINK", "UNLINK", "DATA"}
      <4>1. \A k \in ToPlugin(i) : c2s[k].msg[i] \in Message
        BY <1>0, PacketFacts DEF ToPlugin
      <4>. QED
        BY <2>0, <3>1, <4>1 DEF SlotInv, ToPluginInv, ArrivalInv, Message
    <3>5. ToPluginInv(i)'
      BY <2>0, <3>2, <3>4 DEF ToPluginInv, ArrivalInv
    <3>6. CASE sock = "Ready"
      <4>1. ToClient(i)' = {} /\ ~Established'
        BY <1>1, <3>6 DEF IInv, EndedInv, ToClient, Established
      <4>. QED
        BY <3>3, <3>5, <4>1 DEF SlotInv, ToClientInv
    <3>7. CASE sock = "Connected"
      <4>1. /\ ToClient(i)' = ToClient(i) \cup {K}
            /\ \A k \in ToClient(i) : s2c'[k] = s2c[k]
            /\ s2c'[K].msg[i] = m
        BY <1>0, <1>1, <1>3, <1>4, <2>3, <3>7, Appended, SMTT(30) DEF ToClient, m
      <4>2. AgreeInv(i) /\ Established
        BY <2>0, <3>7 DEF SlotInv, Established
      <4>3. \A k \in ToClient(i) :
                ReplyInv(i, k) /\ ConfirmInv(i, k) /\ s2c[k].msg[i].op # "UNLINK"
        BY <2>0, <3>1, <4>2 DEF SlotInv, ToClientInv, AgreeInv, ConfirmInv
      <4>4. e.status \notin {"UNINITIALIZED", "ALLOC"} /\ (p.name \in Names => p.name = e.name)
            /\ (e.typed => p.status # "UNLINK")
        BY <3>1, <4>2 DEF AgreeInv, EntriesInv
      <4>5. ReplyInv(i, K)'
        <5>1. m.name = e.name \/ (m.name = ErrorText /\ m.op # "DATA")
          BY <2>0, <3>1, <3>2, <4>4, ExchangeAssumption DEF PluginEntry, Dead
        <5>. QED
          BY <2>1, <3>2, <4>1, <4>4, <5>1 DEF ReplyInv
      <4>6. ToClientInv(i)'
        <5>1. ASSUME NEW k \in ToClient(i) PROVE ReplyInv(i, k)'
          BY <4>1, <4>3, <5>1 DEF ReplyInv
        <5>. QED
          BY <4>1, <4>5, <5>1 DEF ToClientInv
      <4>7. EntriesInv(i)'
        BY <3>1, <3>2, <4>2, <4>4, ExchangeAssumption DEF AgreeInv, EntriesInv
      <4>8. ASSUME NEW k \in ToPlugin(i) PROVE RequestInv(i, k)'
        BY <2>0, <3>1, <3>4, <4>2, <4>8 DEF AgreeInv, RequestInv
      <4>9. ConfirmInv(i, K)'
        BY <2>0, <3>2, <3>4, <4>1, <4>4, ExchangeAssumption DEF ConfirmInv, Dead, ClientEntry
      <4>10. ASSUME NEW k \in ToClient(i) PROVE ConfirmInv(i, k)'
        <5>1. s2c'[k] = s2c[k] /\ ConfirmInv(i, k) /\ s2c[k].msg[i].op # "UNLINK"
          BY <4>1, <4>3, <4>10, Zenon
        <5>2. /\ p.status = "VALID" => q.status = "VALID" /\ q.name = p.name
              /\ serverdata'[i] = e
          BY <3>1, <3>2
        <5>. QED
          BY <5>1, <5>2, Zenon DEF ConfirmInv
      <4>11. AgreeInv(i)'
        BY <2>0, <4>1, <4>7, <4>8, <4>9, <4>10 DEF AgreeInv
      <4>. QED
        BY <3>3, <3>5, <4>6, <4>11 DEF SlotInv
    <3>. QED
      BY <3>6, <3>7 DEF IInv, TypeOK
  <2>. QED
    BY <2>2, <2>3
<1>. QED
  BY <1>6, <1>7

LEMMA InvAfterStutter ==
    ASSUME IInv, UNCHANGED <<sock, serverdata, c2s, s2c, open, numalloc, clientdata>>
    PROVE  EndedInv' /\ \A i \in Slots : SlotInv(i)'
<1>1. EndedInv'
  BY DEF IInv, EndedInv, EmptyTable
<1>2. ASSUME NEW i \in Slots PROVE SlotInv(i)'
  <2>1. SlotInv(i) /\ ToPlugin(i)' = ToPlugin(i) /\ ToClient(i)' = ToClient(i)
        /\ (Established' <=> Established)
    BY DEF IInv, ToPlugin, ToClient, Established
  <2>2. ClientEntryInv(i)' /\ PluginEntryInv(i)' /\ ToPluginInv(i)' /\ ToClientInv(i)'
    BY <2>1
    DEF SlotInv, ClientEntryInv, PluginEntryInv, ToPluginInv, ArrivalInv, ToClientInv, ReplyInv,
        Deallocated
  <2>3. ASSUME Established PROVE AgreeInv(i)'
    BY <2>1, <2>3 DEF SlotInv, AgreeInv, EntriesInv, RequestInv, ConfirmInv
  <2>. QED
    BY <2>1, <2>2, <2>3 DEF SlotInv
<1>. QED
  BY <1>1, <1>2

LEMMA InvAfterPlugin ==
    ASSUME IInv, Plugin
    PROVE  EndedInv' /\ \A i \in Slots : SlotInv(i)'
<1>0. ASSUME Crash, UNCHANGED <<sock, serverdata>>
      PROVE  EndedInv' /\ \A i \in Slots : SlotInv(i)'
  BY <1>0, InvAfterClosePlugin DEF Crash
<1>1. CASE ReceiveClient
  BY <1>0, <1>1, InvAfterTransmission DEF ReceiveClient, clientVars
<1>2. CASE ReceiveLeave
  BY <1>2, InvAfterClosePlugin DEF ReceiveLeave, clientVars
<1>3. CASE SendClient
  BY <1>0, <1>3, InvAfterSendClient DEF SendClient, clientVars
<1>4. CASE PluginError
  BY <1>4, InvAfterClosePlugin DEF PluginError, clientVars
<1>5. CASE XPluginStop
  <2>1. \/ s2c' \in {s2c, <<>>}
        \/ sock = "Connected" /\ s2c' = Append(s2c, Disconnect)
    BY <1>5 DEF XPluginStop
  <2>. QED
    BY <1>5, <2>1, InvAfterClosePlugin DEF XPluginStop, clientVars
<1>6. CASE XPluginStart
  BY <1>6, InvAfterStutter DEF XPluginStart, clientVars
<1>. QED
  BY <1>1, <1>2, <1>3, <1>4, <1>5, <1>6 DEF Plugin

LEMMA InvAfterStep == IInv /\ [Next]_vars => IInv'
<1>. SUFFICES ASSUME IInv, [Next]_vars PROVE IInv'
  OBVIOUS
<1>1. TypeOK'
  BY TypesOfStep DEF IInv
<1>2. CASE UNCHANGED <<sock, serverdata, c2s, s2c, open, numalloc, clientdata>>
  BY <1>1, <1>2, InvAfterStutter DEF IInv
<1>3. CASE XPlane
  BY <1>2, <1>3 DEF XPlane, ChangeSim, clientVars, pluginVars
<1>4. CASE UNCHANGED vars
  BY <1>2, <1>4 DEF vars, clientVars, pluginVars
<1>. QED
  BY <1>1, <1>3, <1>4, InvAfterUser, InvAfterClient, InvAfterPlugin DEF Next, IInv

LEMMA Invariant == Spec => []IInv
BY InvInitially, InvAfterStep, PTL DEF Spec

-----------------------------------------------------------------------------
(* The two agreements between the tables.                                   *)

(* The offset of a message stands for the dataref its sender meant, however *)
(* often offsets were unlinked and given away while it was in flight: what   *)
(* receive_client passes on to X-Plane and what receive_xpserver stores goes *)
(* to the dataref it was sent for.                                          *)
THEOREM OffsetsKeepTheirMeaning == Spec => []NoCrosstalk
<1>1. IInv => NoCrosstalk
  <2>. SUFFICES ASSUME IInv PROVE NoCrosstalk
    OBVIOUS
  <2>0. \A k \in 1 .. Len(c2s) : c2s[k] \in Packet
    BY DEF IInv, TypeOK
  <2>1. ASSUME NEW k \in 1 .. Len(c2s), NEW i \in Applies(c2s[k].msg)
        PROVE  clientdata[i].name = c2s[k].msg[i].name
    <3>1. i \in DOMAIN c2s[k].msg /\ c2s[k].msg[i].op = "DATA"
      BY <2>1 DEF Applies
    <3>2. i \in Slots
      BY <2>0, <3>1, PacketFacts
    <3>. QED
      BY <3>1, <3>2 DEF IInv, SlotInv, ToPluginInv, ArrivalInv, ToPlugin
  <2>2. ASSUME NEW k \in 1 .. Len(s2c), NEW i \in DOMAIN s2c[k].msg, s2c[k].msg[i].op = "DATA"
        PROVE  s2c[k].msg[i].name = serverdata[i].name
    <3>1. i \in Slots
      BY <2>2, PacketFacts DEF IInv, TypeOK
    <3>. QED
      BY <2>2, <3>1 DEF IInv, SlotInv, ToClientInv, ReplyInv, ToClient
  <2>3. ASSUME Established, NEW k \in 1 .. Len(c2s), NEW i \in DOMAIN c2s[k].msg,
               c2s[k].msg[i].op \in {"LINK", "DATA"}
        PROVE  c2s[k].msg[i].name = serverdata[i].name
    <3>1. i \in Slots
      BY <2>0, <2>3, PacketFacts
    <3>. QED
      BY <2>3, <3>1 DEF IInv, SlotInv, AgreeInv, RequestInv, ToPlugin
  <2>. QED
    BY <2>1, <2>2, <2>3 DEF NoCrosstalk
<1>. QED
  BY <1>1, Invariant, PTL

(* VALID is what serverdata.h says: an entry the client may use is live in   *)
(* the plugin under the same name, and the plugin keeps nothing alive at an  *)
(* offset that the client has given to another dataref.                     *)
THEOREM TablesAgree == Spec => []ValidAgree
<1>1. IInv => ValidAgree
  <2>. SUFFICES ASSUME IInv, Established, NEW i \in Slots
                PROVE  /\ serverdata[i].status = "VALID" /\ serverdata[i].typed =>
                            /\ i < numalloc
                            /\ clientdata[i].status = "VALID"
                            /\ clientdata[i].name = serverdata[i].name
                       /\ clientdata[i].status \in {"LINK", "VALID"} /\ clientdata[i].good =>
                            clientdata[i].name = serverdata[i].name
    BY DEF ValidAgree
  <2>1. PluginEntryInv(i) /\ EntriesInv(i)
    BY DEF IInv, SlotInv, AgreeInv
  <2>2. clientdata[i].status \in {"LINK", "VALID"} => i < numalloc
    BY <2>1 DEF PluginEntryInv, Deallocated, IInv, TypeOK, Slots
  <2>3. clientdata[i].status \in {"LINK", "VALID"} /\ clientdata[i].good => clientdata[i].name \in Names
    BY <2>1 DEF PluginEntryInv
  <2>. QED
    BY <2>1, <2>2, <2>3 DEF EntriesInv
<1>. QED
  BY <1>1, Invariant, PTL

-----------------------------------------------------------------------------
(***************************************************************************)
(* What the agreement of the tables, IInv, gives for the values: a press    *)
(* executes its command at most once, and a client that only displays       *)
(* mirrors the plugin.                                                      *)
(***************************************************************************)

(* At most once: a press of a command is in one place only, the client's     *)
(* entry, a message in flight, or the executions.                           *)

IsPress(m, n) == m.op = "DATA" /\ m.name = n /\ m.val = 1

(* The presses of command n in one transmission and in a queue of them.      *)
PressesOf(p, n) == {i \in Slots : i \in DOMAIN p.msg /\ IsPress(p.msg[i], n)}

PressesIn(q, n) == {x \in (1 .. Len(q)) \X Slots : x[2] \in PressesOf(q[x[1]], n)}

(* The presses that were not sent yet.                                      *)
Unsent(n) == {i \in Slots : serverdata[i].name = n /\ serverdata[i].data = 1}

(* The names and values that a queue has DATA for.  The plugin sends values   *)
(* of datarefs only: the client could take one of a command for a press.    *)
DataOnly(q, S, V) ==
    \A k \in 1 .. Len(q) : \A i \in DOMAIN q[k].msg :
        q[k].msg[i].op = "DATA" => q[k].msg[i].name \in S /\ q[k].msg[i].val \in V

Accounted(n) ==
    done[n] + Cardinality(PressesIn(c2s, n)) + Cardinality(Unsent(n)) <= pressed[n]

PressInv == DataOnly(s2c, Datarefs, Values) /\ \A n \in OnceCommands : Accounted(n)

LEMMA SlotsFinite == IsFiniteSet(Slots) /\ Slots \subseteq Int
<1>1. 0 \in Int /\ MaxSlots - 1 \in Int
  BY ExchangeAssumption
<1>. QED
  BY <1>1, FS_Interval DEF Slots

LEMMA PressesFinite ==
    ASSUME NEW q \in Seq(Packet), NEW p, NEW n
    PROVE  /\ IsFiniteSet(PressesOf(p, n)) /\ Cardinality(PressesOf(p, n)) \in Nat
           /\ IsFiniteSet(PressesIn(q, n)) /\ Cardinality(PressesIn(q, n)) \in Nat
<1>1. IsFiniteSet(PressesOf(p, n))
  BY SlotsFinite, FS_Subset DEF PressesOf
<1>2. IsFiniteSet(PressesIn(q, n))
  <2>1. IsFiniteSet(1 .. Len(q))
    BY FS_Interval
  <2>2. IsFiniteSet((1 .. Len(q)) \X Slots)
    BY <2>1, SlotsFinite, FS_Product
  <2>. QED
    BY <2>2, FS_Subset DEF PressesIn
<1>. QED
  BY <1>1, <1>2, FS_CardinalityType

LEMMA UnsentFinite ==
    ASSUME NEW n
    PROVE  IsFiniteSet(Unsent(n)) /\ Cardinality(Unsent(n)) \in Nat
<1>1. IsFiniteSet(Unsent(n))
  BY SlotsFinite, FS_Subset DEF Unsent
<1>. QED
  BY <1>1, FS_CardinalityType

LEMMA NoPresses ==
    ASSUME NEW n
    PROVE  Cardinality(PressesIn(<<>>, n)) = 0
<1>1. PressesIn(<<>>, n) = {}
  BY DEF PressesIn
<1>. QED
  BY <1>1, FS_EmptySet

(* A transmission that is sent adds its presses to the queue.                *)
LEMMA PressesSent ==
    ASSUME NEW q \in Seq(Packet), NEW p \in Packet, NEW n
    PROVE  Cardinality(PressesIn(Append(q, p), n))
                <= Cardinality(PressesIn(q, n)) + Cardinality(PressesOf(p, n))
<1>. DEFINE K == Len(q) + 1
            New == {<<K, i>> : i \in PressesOf(p, n)}
            old == PressesIn(q, n)
            all == PressesIn(Append(q, p), n)
<1>1. all \subseteq old \cup New
  <2>. SUFFICES ASSUME NEW k \in 1 .. Len(q) + 1, NEW i \in Slots,
                       i \in PressesOf(Append(q, p)[k], n)
                PROVE  <<k, i>> \in old \cup New
    BY DEF PressesIn
  <2>1. CASE k = K
    BY <2>1
  <2>2. CASE k \in 1 .. Len(q)
    BY <2>2 DEF PressesIn
  <2>. QED
    BY <2>1, <2>2
<1>2. IsFiniteSet(New) /\ Cardinality(New) <= Cardinality(PressesOf(p, n))
  <2>. DEFINE g == [i \in PressesOf(p, n) |-> <<K, i>>]
  <2>1. g \in [PressesOf(p, n) -> New] /\ \A t \in New : \E s \in PressesOf(p, n) : g[s] = t
    OBVIOUS
  <2>. HIDE DEF g, New
  <2>. QED
    BY <2>1, PressesFinite, ImageNotLarger
<1>. HIDE DEF New, old, all
<1>3. IsFiniteSet(old) /\ Cardinality(old) \in Nat
  BY PressesFinite DEF old
<1>4. /\ IsFiniteSet(old \cup New)
      /\ Cardinality(old \cup New) = Cardinality(old) + Cardinality(New) - Cardinality(old \cap New)
  BY <1>2, <1>3, FS_Union
<1>5. Cardinality(New) \in Nat /\ Cardinality(old \cap New) \in Nat
  BY <1>2, <1>3, FS_CardinalityType, FS_Intersection
<1>6. Cardinality(all) <= Cardinality(old \cup New) /\ Cardinality(all) \in Nat
  BY <1>1, <1>4, FS_Subset, FS_CardinalityType
<1>. QED
  BY <1>2, <1>3, <1>4, <1>5, <1>6, PressesFinite DEF old, all

(* A transmission that is taken removes them.                               *)
LEMMA PressesTaken ==
    ASSUME NEW q \in Seq(Packet), q # <<>>, NEW n
    PROVE  Cardinality(PressesIn(Tail(q), n)) + Cardinality(PressesOf(Head(q), n))
                <= Cardinality(PressesIn(q, n))
<1>. DEFINE all == PressesIn(q, n)
            left == PressesIn(Tail(q), n)
            taken == PressesOf(Head(q), n)
            First == {x \in all : x[1] = 1}
            Rest == {x \in all : x[1] # 1}
            g == [x \in First |-> x[2]]
            h == [x \in Rest |-> <<x[1] - 1, x[2]>>]
<1>1. Tail(q) \in Seq(Packet) /\ Len(Tail(q)) = Len(q) - 1 /\ Len(q) \in Nat \ {0}
      /\ Head(q) = q[1] /\ \A k \in 1 .. Len(q) - 1 : Tail(q)[k] = q[k + 1]
  OBVIOUS
<1>2. g \in [First -> taken] /\ \A t \in taken : \E s \in First : g[s] = t
  <2>1. ASSUME NEW x \in First PROVE x[2] \in taken
    BY <1>1 DEF PressesIn
  <2>2. ASSUME NEW t \in taken PROVE <<1, t>> \in First /\ g[<<1, t>>] = t
    <3>1. t \in Slots
      BY DEF PressesOf
    <3>2. <<1, t>> \in First
      BY <1>1, <3>1 DEF PressesIn
    <3>. QED
      BY <3>2
  <2>. QED
    BY <2>1, <2>2
<1>3. h \in [Rest -> left] /\ \A t \in left : \E s \in Rest : h[s] = t
  <2>1. ASSUME NEW x \in Rest PROVE <<x[1] - 1, x[2]>> \in left
    <3>1. PICK k \in 1 .. Len(q), i \in Slots : x = <<k, i>> /\ i \in PressesOf(q[k], n) /\ k # 1
      BY DEF PressesIn
    <3>2. k - 1 \in 1 .. Len(q) - 1 /\ Tail(q)[k - 1] = q[k]
      BY <1>1, <3>1
    <3>. QED
      BY <1>1, <3>1, <3>2 DEF PressesIn
  <2>2. ASSUME NEW t \in left PROVE \E s \in Rest : h[s] = t
    <3>1. PICK k \in 1 .. Len(q) - 1, i \in Slots : t = <<k, i>> /\ i \in PressesOf(q[k + 1], n)
      BY <1>1 DEF PressesIn
    <3>2. k + 1 \in 1 .. Len(q) /\ k + 1 # 1 /\ (k + 1) - 1 = k
      BY <1>1
    <3>3. <<k + 1, i>> \in Rest
      BY <3>1, <3>2 DEF PressesIn
    <3>4. h[<<k + 1, i>>] = t
      BY <3>1, <3>2, <3>3
    <3>. QED
      BY <3>3, <3>4
  <2>. QED
    BY <2>1, <2>2
<1>4. IsFiniteSet(all) /\ IsFiniteSet(First) /\ IsFiniteSet(Rest)
      /\ First \in SUBSET all /\ Rest \in SUBSET all /\ First \cap Rest = {}
  <2>1. IsFiniteSet(all)
    BY PressesFinite
  <2>2. First \in SUBSET all /\ Rest \in SUBSET all /\ First \cap Rest = {}
    OBVIOUS
  <2>. QED
    BY <2>1, <2>2, FS_Subset
<1>. HIDE DEF all, left, taken, First, Rest, g, h
<1>5. Cardinality(taken) <= Cardinality(First) /\ Cardinality(left) <= Cardinality(Rest)
  BY <1>2, <1>3, <1>4, ImageNotLarger
<1>6. Cardinality(First) + Cardinality(Rest) <= Cardinality(all)
  BY <1>4, PartsNotLarger
<1>7. Cardinality(First) \in Nat /\ Cardinality(Rest) \in Nat /\ Cardinality(all) \in Nat
      /\ Cardinality(left) \in Nat /\ Cardinality(taken) \in Nat
  BY <1>1, <1>4, PressesFinite, FS_CardinalityType DEF left, taken
<1>. QED
  BY <1>5, <1>6, <1>7 DEF all, left, taken

LEMMA PressInvInitially == Init => PressInv
<1>. SUFFICES ASSUME Init PROVE PressInv
  OBVIOUS
<1>1. DataOnly(s2c, Datarefs, Values)
  BY DEF Init, DataOnly
<1>2. ASSUME NEW n \in OnceCommands PROVE Accounted(n)
  <2>1. Unsent(n) = {}
    BY ExchangeAssumption DEF Init, Unsent, FreeEntry
  <2>2. Cardinality(Unsent(n)) = 0 /\ Cardinality(PressesIn(c2s, n)) = 0
    BY <2>1, FS_EmptySet, NoPresses DEF Init
  <2>. QED
    BY <2>2 DEF Init, Accounted
<1>. QED
  BY <1>1, <1>2 DEF PressInv

LEMMA DataOnlyKept ==
    ASSUME NEW q \in Seq(Packet), NEW S, NEW V, DataOnly(q, S, V),
           NEW r \in {q, <<>>, Append(q, Disconnect)} \cup (IF q = <<>> THEN {} ELSE {Tail(q)})
    PROVE  DataOnly(r, S, V)
<1>1. CASE r = Append(q, Disconnect)
  BY <1>1, DisconnectIsPacket DEF DataOnly
<1>2. CASE q # <<>> /\ r = Tail(q)
  <2>1. Len(r) = Len(q) - 1 /\ \A k \in 1 .. Len(r) : r[k] = q[k + 1] /\ k + 1 \in 1 .. Len(q)
    BY <1>2, Taken
  <2>. QED
    BY <2>1 DEF DataOnly
<1>3. CASE r \in {q, <<>>}
  BY <1>3 DEF DataOnly
<1>. QED
  BY <1>1, <1>2, <1>3

(* Nothing is executed, pressed or sent, and no entry gets a press.          *)
LEMMA AccountedKept ==
    ASSUME TypeOK, NEW n \in OnceCommands, Accounted(n), done'[n] = done[n], pressed'[n] = pressed[n],
           Unsent(n)' \subseteq Unsent(n), c2s' \in {c2s, <<>>, Append(c2s, Disconnect)}
    PROVE  Accounted(n)'
<1>1. Cardinality(Unsent(n)') \in Nat /\ Cardinality(Unsent(n)) \in Nat
      /\ Cardinality(Unsent(n)') <= Cardinality(Unsent(n))
  <2>1. IsFiniteSet(Unsent(n)) /\ Unsent(n)' \in SUBSET Unsent(n)
    BY UnsentFinite
  <2>. QED
    BY <2>1, FS_Subset, FS_CardinalityType
<1>2. c2s \in Seq(Packet) /\ done[n] \in Nat /\ pressed[n] \in Nat
  BY DEF TypeOK
<1>3. Cardinality(PressesIn(c2s, n)) \in Nat
      /\ Cardinality(PressesIn(c2s', n)) \in Nat
      /\ Cardinality(PressesIn(c2s', n)) <= Cardinality(PressesIn(c2s, n))
  <2>1. Cardinality(PressesIn(c2s, n)) \in Nat
    BY <1>2, PressesFinite
  <2>2. CASE c2s' = c2s
    BY <2>1, <2>2
  <2>3. CASE c2s' = <<>>
    BY <2>1, <2>3, NoPresses
  <2>4. CASE c2s' = Append(c2s, Disconnect)
    <3>1. PressesOf(Disconnect, n) = {}
      BY DisconnectIsPacket DEF PressesOf
    <3>2. Cardinality(PressesOf(Disconnect, n)) = 0
      BY <3>1, FS_EmptySet
    <3>3. Append(c2s, Disconnect) \in Seq(Packet)
      BY <1>2, DisconnectIsPacket
    <3>4. Cardinality(PressesIn(c2s', n)) \in Nat
      BY <2>4, <3>3, PressesFinite
    <3>5. Cardinality(PressesIn(c2s', n))
            <= Cardinality(PressesIn(c2s, n)) + Cardinality(PressesOf(Disconnect, n))
      BY <1>2, <2>4, PressesSent, DisconnectIsPacket
    <3>. QED
      BY <2>1, <3>2, <3>4, <3>5
  <2>. QED
    BY <2>2, <2>3, <2>4
<1>4. done[n] + Cardinality(PressesIn(c2s, n)) + Cardinality(Unsent(n)) <= pressed[n]
  BY DEF Accounted
<1>5. done[n] + Cardinality(PressesIn(c2s', n)) + Cardinality(Unsent(n)') <= pressed[n]
  BY <1>1, <1>2, <1>3, <1>4
<1>. QED
  BY <1>5 DEF Accounted

LEMMA AccountedAfterUser ==
    ASSUME TypeOK, User, NEW n \in OnceCommands, Accounted(n)
    PROVE  Accounted(n)'
<1>0. serverdata \in [Slots -> ClientEntry] /\ Miss # 1
  BY ExchangeAssumption DEF TypeOK
<1>1. CASE \E m \in Names : LinkDataref(m)
  <2>1. Unsent(n)' \subseteq Unsent(n)
    BY <1>0, <1>1 DEF LinkDataref, Unsent
  <2>. QED
    BY <1>1, <2>1, AccountedKept DEF LinkDataref, simVars
<1>2. CASE \E m \in Names : UnlinkDataref(m)
  <2>1. ASSUME NEW i \in Slots
        PROVE  serverdata'[i] \in {serverdata[i], Unlinked(serverdata[i])}
    BY <1>2 DEF UnlinkDataref
  <2>2. \A i \in Slots : Unlinked(serverdata[i]).data = Miss
    BY <1>0 DEF Unlinked, ClientEntry
  <2>3. Unsent(n)' \subseteq Unsent(n)
    BY <1>0, <2>1, <2>2 DEF Unsent
  <2>. QED
    BY <1>2, <2>3, AccountedKept DEF UnlinkDataref, simVars
<1>3. CASE \E i \in Slots, v \in Values \cup {0, 1} : WriteDataref(i, v) \/ SetHold(i, v)
  <2>1. PICK i \in Slots, v \in Values \cup {0, 1} : WriteDataref(i, v) \/ SetHold(i, v)
    BY <1>3
  <2>2. serverdata[i].name # n /\ serverdata' = [serverdata EXCEPT ![i].data = v]
    BY <2>1, ExchangeAssumption DEF WriteDataref, SetHold, WriteData
  <2>3. Unsent(n)' \subseteq Unsent(n)
    BY <1>0, <2>2 DEF Unsent, ClientEntry
  <2>. QED
    BY <2>1, <2>3, AccountedKept DEF WriteDataref, SetHold, WriteData, simVars
<1>4. ASSUME NEW i \in Slots, PressOnce(i) PROVE Accounted(n)'
  <2>1. CASE serverdata[i].name = n
    <3>1. Unsent(n)' \subseteq Unsent(n) \cup {i} /\ i \notin Unsent(n)
      BY <1>0, <1>4, <2>1 DEF PressOnce, WriteData, Unsent, ClientEntry
    <3>2. /\ IsFiniteSet(Unsent(n) \cup {i})
          /\ Cardinality(Unsent(n) \cup {i}) = Cardinality(Unsent(n)) + 1
      BY <3>1, UnsentFinite, FS_AddElement
    <3>3. Cardinality(Unsent(n)') <= Cardinality(Unsent(n)) + 1 /\ Cardinality(Unsent(n)') \in Nat
      BY <3>1, <3>2, FS_Subset, FS_CardinalityType
    <3>4. pressed'[n] = pressed[n] + 1 /\ done' = done /\ c2s' = c2s
      BY <1>4, <2>1 DEF PressOnce, WriteData, simVars, TypeOK
    <3>5. done[n] \in Nat /\ pressed[n] \in Nat /\ Cardinality(PressesIn(c2s, n)) \in Nat
          /\ Cardinality(Unsent(n)) \in Nat
      <4>1. c2s \in Seq(Packet) /\ done[n] \in Nat /\ pressed[n] \in Nat
        BY DEF TypeOK
      <4>. QED
        BY <4>1, PressesFinite, UnsentFinite
    <3>6. done[n] + Cardinality(PressesIn(c2s, n)) + Cardinality(Unsent(n)) <= pressed[n]
      BY DEF Accounted
    <3>7. done[n] + Cardinality(PressesIn(c2s, n)) + Cardinality(Unsent(n)') <= pressed[n] + 1
      BY <3>3, <3>5, <3>6
    <3>. QED
      BY <3>4, <3>7 DEF Accounted
  <2>2. CASE serverdata[i].name # n
    <3>1. Unsent(n)' \subseteq Unsent(n) /\ pressed'[n] = pressed[n] /\ done' = done /\ c2s' = c2s
      BY <1>0, <1>4, <2>2 DEF PressOnce, WriteData, Unsent, ClientEntry, simVars, TypeOK
    <3>. QED
      BY <3>1, AccountedKept
  <2>. QED
    BY <2>1, <2>2
<1>. QED
  BY <1>1, <1>2, <1>3, <1>4 DEF User

LEMMA AccountedAfterReceive ==
    ASSUME IInv, PressInv, ReceiveXpserver, NEW n \in OnceCommands
    PROVE  Accounted(n)'
<1>0. serverdata \in [Slots -> ClientEntry] /\ s2c \in Seq(Packet) /\ s2c # <<>> /\ Head(s2c) = s2c[1]
      /\ 1 \in 1 .. Len(s2c) /\ Accounted(n)
  BY DEF IInv, TypeOK, ReceiveXpserver, PressInv
<1>1. ASSUME NEW i \in Slots, serverdata'[i].name = n, serverdata'[i].data = 1
      PROVE  serverdata[i].name = n /\ serverdata[i].data = 1
  <2>. DEFINE e == serverdata[i]
              m == s2c[1].msg[i]
  <2>0. e \in ClientEntry /\ n # NoName
    BY <1>0, ExchangeAssumption DEF Names
  <2>1. CASE serverdata'[i] = e
    BY <1>1, <2>1
  <2>2. CASE serverdata'[i] = ResetEntry(e)
    BY <1>1, <2>0, <2>2 DEF ResetEntry, ClientEntry
  <2>3. CASE i \in DOMAIN s2c[1].msg /\ serverdata'[i] = ReceivedByClient(e, m)
    <3>1. CASE m.op = "DATA"
      (* The value of a dataref, for the entry of that dataref.              *)
      <4>1. m.name \in Datarefs /\ m.name = e.name
        <5>1. m.name \in Datarefs
          BY <1>0, <2>3, <3>1 DEF PressInv, DataOnly
        <5>2. 1 \in ToClient(i)
          BY <1>0, <2>3 DEF ToClient
        <5>3. ReplyInv(i, 1)
          BY <5>2 DEF IInv, SlotInv, ToClientInv
        <5>. QED
          BY <3>1, <5>1, <5>3 DEF ReplyInv
      <4>2. serverdata'[i].name = e.name
        BY <2>0, <2>3, <3>1 DEF ReceivedByClient, ClientEntry
      <4>. QED
        BY <1>1, <4>1, <4>2, ExchangeAssumption
    <3>2. CASE m.op # "DATA"
      <4>1. serverdata'[i] \in {e, [e EXCEPT !.status = "VALID"],
                [e EXCEPT !.name = NoName, !.status = "UNINITIALIZED"]}
        BY <2>3, <3>2 DEF ReceivedByClient
      <4>. QED
        BY <1>1, <2>0, <4>1 DEF ClientEntry
    <3>. QED
      BY <3>1, <3>2
  <2>. QED
    BY <1>0, <2>1, <2>2, <2>3 DEF ReceiveXpserver, CloseClient
<1>2. Unsent(n)' \subseteq Unsent(n)
  BY <1>1 DEF Unsent
<1>. QED
  BY <1>0, <1>2, AccountedKept DEF ReceiveXpserver, simVars, IInv

LEMMA AccountedAfterSend ==
    ASSUME TypeOK, SendXpserver, NEW n \in OnceCommands, Accounted(n)
    PROVE  Accounted(n)'
<1>. DEFINE S == IF sock = "Connected"
                 THEN {i \in Slots : HasMessage(serverdata[i])} ELSE {}
            f == [i \in S |-> MessageOfClient(serverdata[i])]
            p == Transmission(f)
<1>0. c2s \in Seq(Packet) /\ serverdata \in [Slots -> ClientEntry] /\ done[n] \in Nat
      /\ pressed[n] \in Nat /\ done' = done /\ pressed' = pressed
  BY DEF TypeOK, SendXpserver, simVars
<1>1. /\ serverdata' = [i \in Slots |->
                IF i \in S THEN SentByClient(serverdata[i]) ELSE serverdata[i]]
      /\ c2s' \in {c2s, Append(c2s, p)}
  BY DEF SendXpserver
<1>2. p \in Packet /\ p.msg = f /\ DOMAIN f = S
      /\ \A i \in S : f[i] = MessageOfClient(serverdata[i]) /\ HasMessage(serverdata[i]) /\ i \in Slots
  <2>1. f \in [S -> Message] /\ S \in SUBSET Slots
    BY DEF TypeOK, HasMessage, MessageOfClient, Link, Unlink, DataOf, Message, ClientEntry, Data
  <2>2. \A i \in S : f[i] = MessageOfClient(serverdata[i]) /\ HasMessage(serverdata[i]) /\ i \in Slots
    OBVIOUS
  <2>. HIDE DEF S, f
  <2>. QED
    BY <2>1, <2>2, TransmissionIsPacket DEF Transmission
<1>. HIDE DEF S, f, p
(* What is sent is a press that was not sent yet, and the entry is reset.    *)
<1>3. /\ PressesOf(p, n) \in SUBSET Unsent(n)
      /\ Unsent(n)' \in SUBSET Unsent(n)
      /\ PressesOf(p, n) \cap Unsent(n)' = {}
  <2>1. ASSUME NEW i \in PressesOf(p, n)
        PROVE  i \in S /\ serverdata[i].status = "VALID" /\ serverdata[i].name = n
               /\ serverdata[i].data = 1
    <3>1. i \in S /\ IsPress(MessageOfClient(serverdata[i]), n)
      BY <1>2 DEF PressesOf
    <3>2. HasMessage(serverdata[i])
      BY <1>2, <3>1
    <3>. QED
      BY <3>1, <3>2 DEF IsPress, MessageOfClient, HasMessage, Link, Unlink, DataOf
  <2>2. ASSUME NEW i \in PressesOf(p, n) PROVE serverdata'[i].data = 0
    <3>1. i \in Slots /\ serverdata'[i] = [serverdata[i] EXCEPT !.data = 0, !.old = 0]
      BY <1>1, <1>2, <2>1 DEF SentByClient
    <3>. QED
      BY <1>0, <3>1 DEF ClientEntry
  <2>3. ASSUME NEW i \in Slots, serverdata'[i].name = n, serverdata'[i].data = 1
        PROVE  serverdata[i].name = n /\ serverdata[i].data = 1
    <3>1. serverdata'[i] \in {serverdata[i], SentByClient(serverdata[i])}
      BY <1>1
    <3>2. ASSUME NEW e \in ClientEntry
          PROVE  SentByClient(e).name = e.name /\ SentByClient(e).data \in {e.data, 0}
      BY DEF SentByClient, ClientEntry
    <3>. QED
      BY <1>0, <2>3, <3>1, <3>2
  <2>4. PressesOf(p, n) \subseteq Slots
    BY DEF PressesOf
  <2>. QED
    BY <2>1, <2>2, <2>3, <2>4 DEF Unsent
<1>4. Cardinality(PressesOf(p, n)) + Cardinality(Unsent(n)') <= Cardinality(Unsent(n))
  BY <1>3, UnsentFinite, PartsNotLarger
<1>5. /\ Cardinality(PressesOf(p, n)) \in Nat /\ Cardinality(PressesIn(c2s, n)) \in Nat
      /\ Cardinality(Unsent(n)) \in Nat
  BY <1>0, PressesFinite, UnsentFinite
<1>6. Cardinality(Unsent(n)') \in Nat
  BY <1>3, UnsentFinite, FS_Subset, FS_CardinalityType
<1>7. Cardinality(PressesIn(c2s', n)) \in Nat
      /\ Cardinality(PressesIn(c2s', n)) <= Cardinality(PressesIn(c2s, n)) + Cardinality(PressesOf(p, n))
  <2>1. CASE c2s' = c2s
    BY <1>5, <2>1
  <2>2. CASE c2s' = Append(c2s, p)
    <3>1. Append(c2s, p) \in Seq(Packet)
      BY <1>0, <1>2
    <3>. QED
      BY <1>0, <1>2, <2>2, <3>1, PressesSent, PressesFinite
  <2>. QED
    BY <1>1, <2>1, <2>2
<1>8. done[n] + Cardinality(PressesIn(c2s, n)) + Cardinality(Unsent(n)) <= pressed[n]
  BY DEF Accounted
<1>9. done[n] + Cardinality(PressesIn(c2s', n)) + Cardinality(Unsent(n)') <= pressed[n]
  BY <1>0, <1>4, <1>5, <1>6, <1>7, <1>8
<1>. QED
  BY <1>0, <1>9 DEF Accounted

LEMMA AccountedAfterTransmission ==
    ASSUME IInv, NEW n \in OnceCommands, Accounted(n), c2s # <<>>,
           done' = DoneAfter(Head(c2s).msg), c2s' = Tail(c2s), UNCHANGED <<serverdata, pressed>>
    PROVE  Accounted(n)'
<1>. DEFINE p == Head(c2s)
            given == {i \in Given(p.msg, n) : p.msg[i].val = 1}
<1>0. c2s \in Seq(Packet) /\ p = c2s[1] /\ p \in Packet /\ 1 \in 1 .. Len(c2s)
      /\ Tail(c2s) \in Seq(Packet) /\ done[n] \in Nat /\ pressed[n] \in Nat
  BY DEF IInv, TypeOK
<1>1. done'[n] = done[n] + Cardinality(given) /\ Unsent(n)' = Unsent(n)
  BY DEF DoneAfter, Unsent
(* The offset still stands for the command that was pressed.                *)
<1>2. given \in SUBSET PressesOf(p, n)
  <2>. SUFFICES ASSUME NEW i \in given PROVE i \in PressesOf(p, n)
    OBVIOUS
  <2>1. i \in DOMAIN p.msg /\ p.msg[i].op = "DATA" /\ clientdata[i].name = n /\ p.msg[i].val = 1
    BY DEF Given, Applies
  <2>2. i \in Slots
    BY <1>0, <2>1, PacketFacts
  <2>3. ArrivalInv(i, 1)
    BY <1>0, <2>1, <2>2 DEF IInv, SlotInv, ToPluginInv, ToPlugin
  <2>. QED
    BY <1>0, <2>1, <2>2, <2>3 DEF ArrivalInv, PressesOf, IsPress
<1>. HIDE DEF given, p
<1>3. Cardinality(given) \in Nat /\ Cardinality(given) <= Cardinality(PressesOf(p, n))
      /\ Cardinality(PressesOf(p, n)) \in Nat
  BY <1>0, <1>2, PressesFinite, FS_Subset, FS_CardinalityType
<1>4. Cardinality(PressesIn(Tail(c2s), n)) + Cardinality(PressesOf(p, n))
        <= Cardinality(PressesIn(c2s, n))
  BY <1>0, PressesTaken DEF p
<1>5. /\ Cardinality(PressesIn(Tail(c2s), n)) \in Nat /\ Cardinality(PressesIn(c2s, n)) \in Nat
      /\ Cardinality(Unsent(n)) \in Nat
  BY <1>0, PressesFinite, UnsentFinite
<1>6. done[n] + Cardinality(PressesIn(c2s, n)) + Cardinality(Unsent(n)) <= pressed[n]
  BY DEF Accounted
<1>7. done'[n] + Cardinality(PressesIn(c2s', n)) + Cardinality(Unsent(n)') <= pressed'[n]
  BY <1>0, <1>1, <1>3, <1>4, <1>5, <1>6, SMTT(30)
<1>. QED
  BY <1>7 DEF Accounted

LEMMA AccountedAfterStep ==
    ASSUME IInv, PressInv, [Next]_vars, NEW n \in OnceCommands
    PROVE  Accounted(n)'
<1>0. TypeOK /\ Accounted(n)
  BY DEF IInv, PressInv
<1>1. CASE User
  BY <1>0, <1>1, AccountedAfterUser
<1>2. CASE ReceiveXpserver
  BY <1>2, AccountedAfterReceive
<1>3. CASE SendXpserver
  BY <1>0, <1>3, AccountedAfterSend
(* The entry keeps its value, or is cleared.                                *)
<1>4. CASE /\ \A i \in Slots : serverdata'[i] \in {ResetEntry(serverdata[i]), FreeEntry}
           /\ c2s' \in {c2s, <<>>, Append(c2s, Disconnect)}
           /\ done' = done /\ pressed' = pressed
  <2>1. \A i \in Slots : serverdata[i] \in ClientEntry
    BY <1>0 DEF TypeOK
  <2>2. ASSUME NEW i \in Slots, serverdata'[i].name = n, serverdata'[i].data = 1
        PROVE  serverdata[i].name = n /\ serverdata[i].data = 1
    <3>1. serverdata'[i] # FreeEntry
      BY <2>2, ExchangeAssumption DEF FreeEntry
    <3>. QED
      BY <1>4, <2>1, <2>2, <3>1 DEF ResetEntry, ClientEntry
  <2>3. Unsent(n)' \subseteq Unsent(n)
    BY <2>2 DEF Unsent
  <2>. QED
    BY <1>0, <1>4, <2>3, AccountedKept
<1>5. CASE ReceiveEnd \/ ReceiveError \/ ExitClient
  BY <1>4, <1>5 DEF ReceiveEnd, ReceiveError, ExitClient, CloseClient, pluginVars, simVars
<1>6. CASE serverdata' = serverdata /\ c2s' \in {c2s, <<>>} /\ done' = done /\ pressed' = pressed
  <2>1. Unsent(n)' = Unsent(n)
    BY <1>6 DEF Unsent
  <2>. QED
    BY <1>0, <1>6, <2>1, AccountedKept
<1>7. CASE ReceiveClient
  <2>1. CASE Crash /\ UNCHANGED simVars
    BY <1>6, <1>7, <2>1 DEF ReceiveClient, Crash, ClosePlugin, clientVars, simVars
  <2>2. CASE c2s' = Tail(c2s) /\ done' = DoneAfter(Head(c2s).msg)
    BY <1>0, <1>7, <2>2, AccountedAfterTransmission DEF ReceiveClient, clientVars
  <2>. QED
    BY <1>7, <2>1, <2>2 DEF ReceiveClient
<1>8. CASE Connect \/ ReceiveLeave \/ PluginError \/ XPluginStop \/ XPluginStart \/ XPlane
  BY <1>6, <1>8
  DEF Connect, ReceiveLeave, PluginError, XPluginStop, XPluginStart, XPlane, ChangeSim,
      ClosePlugin, clientVars, simVars
<1>9. CASE SendClient
  BY <1>6, <1>9 DEF SendClient, Crash, ClosePlugin, clientVars, simVars
<1>10. CASE UNCHANGED vars
  BY <1>6, <1>10 DEF vars, clientVars, simVars
<1>. QED
  BY <1>1, <1>2, <1>3, <1>5, <1>7, <1>8, <1>9, <1>10 DEF Next, Client, Plugin

LEMMA RepliesAfterStep ==
    ASSUME IInv, PressInv, [Next]_vars
    PROVE  DataOnly(s2c', Datarefs, Values)
<1>0. s2c \in Seq(Packet) /\ DataOnly(s2c, Datarefs, Values)
  BY DEF IInv, TypeOK, PressInv
<1>1. CASE s2c' \in {s2c, <<>>, Append(s2c, Disconnect)}
  BY <1>0, <1>1, DataOnlyKept
<1>2. CASE s2c # <<>> /\ s2c' = Tail(s2c)
  BY <1>0, <1>2, DataOnlyKept
<1>3. CASE SendClient
  <2>. DEFINE f == [i \in Replies |-> MessageOfPlugin(clientdata[i])]
              p == Transmission(f)
  <2>1. CASE s2c' = Append(s2c, p)
    <3>1. \A i \in DOMAIN p.msg : p.msg[i].op = "DATA" =>
            p.msg[i].name \in Datarefs /\ p.msg[i].val \in Values
      <4>1. ASSUME NEW i \in Replies, MessageOfPlugin(clientdata[i]).op = "DATA"
            PROVE  /\ MessageOfPlugin(clientdata[i]).name \in Datarefs
                   /\ MessageOfPlugin(clientdata[i]).val \in Values
        <5>1. HasReply(clientdata[i]) /\ sim \in [Datarefs -> Values]
          BY DEF Replies, IInv, TypeOK
        <5>. QED
          BY <4>1, <5>1 DEF HasReply, MessageOfPlugin, Link, Unlink, DataOf
      <4>. QED
        BY <4>1 DEF Transmission
    <3>2. s2c'[Len(s2c) + 1] = p /\ Len(s2c') = Len(s2c) + 1
          /\ \A k \in 1 .. Len(s2c) : s2c'[k] = s2c[k]
      <4>. HIDE DEF p
      <4>. QED
        BY <1>0, <2>1
    <3>3. ASSUME NEW k \in 1 .. Len(s2c'), NEW i \in DOMAIN s2c'[k].msg, s2c'[k].msg[i].op = "DATA"
          PROVE  s2c'[k].msg[i].name \in Datarefs /\ s2c'[k].msg[i].val \in Values
      <4>1. CASE k = Len(s2c) + 1
        BY <3>1, <3>2, <3>3, <4>1
      <4>2. CASE k \in 1 .. Len(s2c)
        BY <1>0, <3>2, <3>3, <4>2 DEF DataOnly
      <4>. QED
        BY <1>0, <3>2, <4>1, <4>2
    <3>. QED
      BY <3>3 DEF DataOnly
  <2>. QED
    BY <1>1, <1>3, <2>1 DEF SendClient, Crash
<1>4. CASE ReceiveXpserver
  BY <1>1, <1>2, <1>4 DEF ReceiveXpserver, CloseClient
<1>5. CASE User
  BY <1>1, <1>5 DEF User, LinkDataref, UnlinkDataref, PressOnce, WriteDataref, SetHold, WriteData
<1>6. CASE Connect \/ ReceiveEnd \/ ReceiveError \/ SendXpserver \/ ExitClient
  BY <1>1, <1>6 DEF Connect, ReceiveEnd, ReceiveError, SendXpserver, ExitClient, CloseClient
<1>7. CASE ReceiveClient \/ ReceiveLeave \/ PluginError \/ XPluginStop \/ XPluginStart
  BY <1>1, <1>7 DEF ReceiveClient, ReceiveLeave, PluginError, XPluginStop, XPluginStart, Crash
<1>8. CASE XPlane \/ UNCHANGED vars
  BY <1>1, <1>8 DEF XPlane, ChangeSim, vars
<1>. QED
  BY <1>3, <1>4, <1>5, <1>6, <1>7, <1>8 DEF Next, Client, Plugin

(* A press of a command button executes the command at most once, through    *)
(* any number of lost connections, restarts and subscriptions of the command *)
(* under other offsets: send_xpserver resets the entry that it sends, and    *)
(* no value that the plugin sends is taken for a press.                      *)
THEOREM PressExecutedAtMostOnce == Spec => []AtMostOnce
<1>1. Init => PressInv
  BY PressInvInitially
<1>2. IInv /\ PressInv /\ [Next]_vars => PressInv'
  BY AccountedAfterStep, RepliesAfterStep DEF PressInv
<1>3. IInv /\ PressInv => AtMostOnce
  <2>. SUFFICES ASSUME IInv, PressInv, NEW n \in OnceCommands PROVE done[n] <= pressed[n]
    BY DEF AtMostOnce
  <2>1. c2s \in Seq(Packet) /\ done[n] \in Nat /\ pressed[n] \in Nat /\ Accounted(n)
    BY DEF IInv, TypeOK, PressInv
  <2>2. Cardinality(PressesIn(c2s, n)) \in Nat /\ Cardinality(Unsent(n)) \in Nat
    BY <2>1, PressesFinite, UnsentFinite
  <2>. QED
    BY <2>1, <2>2 DEF Accounted
<1>. QED
  BY <1>1, <1>2, <1>3, Invariant, PTL DEF Spec

-----------------------------------------------------------------------------
(* What a queue of transmissions leaves at an offset.                       *)

LEMMA ArrivedIsLast ==
    ASSUME NEW q \in Seq(Packet), NEW i, NEW v
    PROVE  /\ DataSent(q, i) = {} => Arrived(q, i, v) = v
           /\ DataSent(q, i) # {} => \E k \in DataSent(q, i) : \A l \in DataSent(q, i) : l <= k
           /\ \A k \in DataSent(q, i) :
                (\A l \in DataSent(q, i) : l <= k) => Arrived(q, i, v) = q[k].msg[i].val
<1>. DEFINE D == DataSent(q, i)
<1>1. D \in SUBSET Int /\ (\A k \in D : k <= Len(q)) /\ Len(q) \in Int
  BY DEF DataSent
<1>2. D # {} => \E k \in D : \A l \in D : l <= k
  <2>. HIDE DEF D
  <2>. QED
    BY <1>1, GreatestInteger
<1>3. ASSUME NEW k \in D, \A l \in D : l <= k PROVE Arrived(q, i, v) = q[k].msg[i].val
  <2>. DEFINE c == CHOOSE c \in D : \A l \in D : l <= c
  <2>1. c \in D /\ \A l \in D : l <= c
    BY <1>3
  <2>2. c <= k /\ k <= c /\ c \in Int /\ k \in Int
    BY <1>1, <1>3, <2>1
  <2>3. c = k
    BY <2>2
  <2>4. Arrived(q, i, v) = q[c].msg[i].val
    BY <1>3 DEF Arrived
  <2>. QED
    BY <2>3, <2>4
<1>. QED
  BY <1>2, <1>3 DEF Arrived

LEMMA ArrivedAppended ==
    ASSUME NEW q \in Seq(Packet), NEW p \in Packet, NEW i, NEW v
    PROVE  LET r == Append(q, p) IN
           /\ i \in DOMAIN p.msg /\ p.msg[i].op = "DATA" =>
                DataSent(r, i) # {} /\ Arrived(r, i, v) = p.msg[i].val
           /\ i \notin DOMAIN p.msg =>
                DataSent(r, i) = DataSent(q, i) /\ Arrived(r, i, v) = Arrived(q, i, v)
<1>. DEFINE r == Append(q, p)
<1>0. /\ r \in Seq(Packet) /\ Len(r) = Len(q) + 1 /\ r[Len(q) + 1] = p /\ Len(q) \in Nat
      /\ \A k \in 1 .. Len(q) : r[k] = q[k]
  OBVIOUS
<1>. HIDE DEF r
<1>1. CASE i \in DOMAIN p.msg /\ p.msg[i].op = "DATA"
  <2>1. Len(q) + 1 \in DataSent(r, i) /\ \A l \in DataSent(r, i) : l <= Len(q) + 1
    BY <1>0, <1>1 DEF DataSent
  <2>2. Arrived(r, i, v) = r[Len(q) + 1].msg[i].val
    BY <1>0, <2>1, ArrivedIsLast
  <2>. QED
    BY <1>0, <1>1, <2>1, <2>2 DEF r
<1>2. CASE i \notin DOMAIN p.msg
  <2>1. DataSent(r, i) = DataSent(q, i) /\ \A k \in DataSent(q, i) : r[k] = q[k]
    BY <1>0, <1>2 DEF DataSent
  <2>2. ASSUME DataSent(q, i) = {} PROVE Arrived(r, i, v) = Arrived(q, i, v)
    BY <2>1, <2>2 DEF Arrived
  <2>3. ASSUME DataSent(q, i) # {} PROVE Arrived(r, i, v) = Arrived(q, i, v)
    <3>1. PICK k \in DataSent(q, i) : \A l \in DataSent(q, i) : l <= k
      BY <2>3, ArrivedIsLast
    <3>2. Arrived(q, i, v) = q[k].msg[i].val
      BY <3>1, ArrivedIsLast
    <3>3. Arrived(r, i, v) = r[k].msg[i].val
      BY <1>0, <2>1, <3>1, ArrivedIsLast
    <3>. QED
      BY <2>1, <3>2, <3>3
  <2>. QED
    BY <1>2, <2>1, <2>2, <2>3 DEF r
<1>. QED
  BY <1>1, <1>2 DEF r

LEMMA ArrivedTaken ==
    ASSUME NEW q \in Seq(Packet), q # <<>>, NEW i, NEW v
    PROVE  LET r == Tail(q)
               first == i \in DOMAIN q[1].msg /\ q[1].msg[i].op = "DATA"
           IN
           /\ first => Arrived(r, i, q[1].msg[i].val) = Arrived(q, i, v)
           /\ ~first => /\ Arrived(r, i, v) = Arrived(q, i, v)
                        /\ DataSent(q, i) # {} => DataSent(r, i) # {}
<1>. DEFINE r == Tail(q)
            first == i \in DOMAIN q[1].msg /\ q[1].msg[i].op = "DATA"
<1>0. /\ r \in Seq(Packet) /\ Len(r) = Len(q) - 1 /\ Len(q) \in Nat \ {0}
      /\ \A k \in 1 .. Len(q) - 1 : r[k] = q[k + 1]
  OBVIOUS
<1>. HIDE DEF r
<1>1. DataSent(r, i) = {k \in 1 .. Len(q) - 1 : k + 1 \in DataSent(q, i)}
  BY <1>0 DEF DataSent
<1>2. DataSent(q, i) \subseteq 1 .. Len(q) /\ (1 \in DataSent(q, i) <=> first)
  BY <1>0 DEF DataSent
<1>. HIDE DEF first
<1>3. \A k \in DataSent(q, i) : k # 1 => k - 1 \in DataSent(r, i)
  BY <1>0, <1>1, <1>2
(* The last message stays the last one unless it was the first.             *)
<1>4. ASSUME NEW w, DataSent(r, i) # {} PROVE Arrived(r, i, w) = Arrived(q, i, v)
  <2>1. PICK k \in DataSent(r, i) : \A l \in DataSent(r, i) : l <= k
    BY <1>0, <1>4, ArrivedIsLast
  <2>2. k \in Nat /\ k + 1 \in DataSent(q, i) /\ r[k] = q[k + 1] /\ k >= 1
    BY <1>0, <1>1
  <2>3. ASSUME NEW l \in DataSent(q, i) PROVE l <= k + 1
    <3>1. CASE l = 1
      BY <2>2, <3>1
    <3>2. CASE l # 1
      <4>1. l - 1 <= k /\ l \in Int
        BY <1>2, <1>3, <2>1, <3>2
      <4>. QED
        BY <2>2, <4>1
    <3>. QED
      BY <3>1, <3>2
  <2>4. Arrived(r, i, w) = r[k].msg[i].val
    BY <1>0, <2>1, ArrivedIsLast
  <2>5. Arrived(q, i, v) = q[k + 1].msg[i].val
    BY <2>2, <2>3, ArrivedIsLast
  <2>. QED
    BY <2>2, <2>4, <2>5
<1>5. CASE first
  <2>1. CASE DataSent(r, i) = {}
    <3>1. 1 \in DataSent(q, i) /\ \A l \in DataSent(q, i) : l <= 1
      BY <1>2, <1>3, <1>5, <2>1
    <3>2. Arrived(q, i, v) = q[1].msg[i].val
      BY <3>1, ArrivedIsLast
    <3>3. Arrived(r, i, q[1].msg[i].val) = q[1].msg[i].val
      BY <2>1 DEF Arrived
    <3>. QED
      BY <1>5, <3>2, <3>3 DEF first, r
  <2>. QED
    BY <1>4, <1>5, <2>1 DEF first, r
<1>6. CASE ~first
  <2>1. DataSent(q, i) # {} => DataSent(r, i) # {}
    BY <1>2, <1>3, <1>6
  <2>2. CASE DataSent(q, i) = {}
    <3>1. DataSent(r, i) = {}
      BY <1>1, <2>2
    <3>. QED
      BY <1>6, <2>2, <3>1 DEF Arrived, first, r
  <2>3. CASE DataSent(q, i) # {}
    BY <1>4, <1>6, <2>1, <2>3 DEF first, r
  <2>. QED
    BY <2>2, <2>3
<1>. QED
  BY <1>5, <1>6 DEF first, r

-----------------------------------------------------------------------------
(* A client that only displays.                                             *)

(* The client has written nothing into the entry.                           *)
Unwritten(e) == e.name \in Datarefs => e.data = e.old

(* A subscription that was not answered yet has no value.                   *)
Unfed(e) == e.status = "LINK" => e.data = Miss

(* What is on its way to a subscribed entry: the confirmation before any     *)
(* value, and last the value that the plugin keeps a copy of.                *)
FeedInv(i) ==
    LET c == serverdata[i]
        p == clientdata[i] IN
    c.typed /\ p.status = "VALID" =>
        /\ c.status # "VALID" =>
            \E k \in ToClient(i) :
                /\ s2c[k].msg[i].op = "LINK" /\ s2c[k].msg[i].name = c.name
                /\ \A l \in ToClient(i) : s2c[l].msg[i].op = "DATA" => k < l
        /\ c.name \in Datarefs /\ p.data # Miss =>
            /\ c.status # "VALID" => DataSent(s2c, i) # {}
            /\ Arrived(s2c, i, c.data) = p.data

DisplayInv ==
    /\ DataOnly(c2s, OnceCommands \cup HoldCommands, Data)
    /\ \A i \in Slots :
        /\ Unwritten(serverdata[i]) /\ Unfed(clientdata[i])
        /\ Established => FeedInv(i)

LEMMA DisplayInvInitially == Init => DisplayInv
<1>. SUFFICES ASSUME Init PROVE DisplayInv
  OBVIOUS
<1>1. DataOnly(c2s, OnceCommands \cup HoldCommands, Data) /\ ~Established
  BY DEF Init, DataOnly, Established
<1>2. ASSUME NEW i \in Slots PROVE Unwritten(serverdata[i]) /\ Unfed(clientdata[i])
  BY DEF Init, Unwritten, Unfed, FreeEntry, EmptyTable, Deallocated
<1>. QED
  BY <1>1, <1>2 DEF DisplayInv

LEMMA UnwrittenKept ==
    ASSUME NEW e \in ClientEntry, Unwritten(e), NEW m
    PROVE  /\ Unwritten(Unlinked(e)) /\ Unwritten(ResetEntry(e)) /\ Unwritten(FreeEntry)
           /\ Unwritten(SentByClient(e)) /\ Unwritten(ReceivedByClient(e, m))
<1>1. Unwritten(Unlinked(e)) /\ Unwritten(ResetEntry(e)) /\ Unwritten(FreeEntry)
  BY DEF Unwritten, Unlinked, ResetEntry, FreeEntry, ClientEntry
<1>2. Unwritten(SentByClient(e))
  BY DEF Unwritten, SentByClient, ClientEntry
<1>3. ReceivedByClient(e, m) \in {e, [e EXCEPT !.data = m.val, !.old = m.val],
            [e EXCEPT !.status = "VALID"], [e EXCEPT !.name = NoName, !.status = "UNINITIALIZED"]}
  BY DEF ReceivedByClient
<1>4. NoName \notin Datarefs
  BY ExchangeAssumption DEF Names
<1>. QED
  BY <1>1, <1>2, <1>3, <1>4 DEF Unwritten, ClientEntry

LEMMA UnwrittenAfterStep ==
    ASSUME IInv, ~ClientWrites, [Next]_vars, NEW i \in Slots, Unwritten(serverdata[i])
    PROVE  Unwritten(serverdata'[i])
<1>0. serverdata \in [Slots -> ClientEntry] /\ serverdata[i] \in ClientEntry
  BY DEF IInv, TypeOK
<1>1. CASE \E n \in Names : LinkDataref(n)
  <2>1. serverdata'[i] = serverdata[i] \/ serverdata'[i].data = serverdata'[i].old
    BY <1>0, <1>1 DEF LinkDataref
  <2>. QED
    BY <2>1 DEF Unwritten
<1>2. CASE \E n \in Names : UnlinkDataref(n)
  <2>1. serverdata'[i] \in {serverdata[i], Unlinked(serverdata[i])}
    BY <1>2 DEF UnlinkDataref
  <2>. QED
    BY <1>0, <2>1, UnwrittenKept
<1>3. ASSUME NEW j \in Slots, NEW v, PressOnce(j) \/ SetHold(j, v)
      PROVE  Unwritten(serverdata'[i])
  <2>1. serverdata'[i].name = serverdata[i].name
    BY <1>0, <1>3 DEF PressOnce, SetHold, WriteData, ClientEntry
  <2>2. serverdata[j].name \notin Datarefs /\ (j # i => serverdata'[i] = serverdata[i])
    BY <1>0, <1>3, ExchangeAssumption DEF PressOnce, SetHold, WriteData
  <2>. QED
    BY <2>1, <2>2 DEF Unwritten
<1>4. CASE User
  BY <1>1, <1>2, <1>3, <1>4 DEF User, WriteDataref
<1>5. CASE serverdata'[i] \in {serverdata[i], ResetEntry(serverdata[i]), FreeEntry}
  BY <1>0, <1>5, UnwrittenKept
<1>6. CASE ReceiveXpserver
  <2>1. CASE CloseClient
    BY <1>5, <2>1 DEF CloseClient
  <2>2. CASE serverdata'[i] \in {serverdata[i], ReceivedByClient(serverdata[i], Head(s2c).msg[i])}
    BY <1>0, <2>2, UnwrittenKept
  <2>. QED
    BY <1>6, <2>1, <2>2 DEF ReceiveXpserver
<1>7. CASE SendXpserver
  <2>1. serverdata'[i] \in {serverdata[i], SentByClient(serverdata[i])}
    BY <1>7 DEF SendXpserver
  <2>. QED
    BY <1>0, <2>1, UnwrittenKept
<1>8. CASE Connect \/ ReceiveEnd \/ ReceiveError \/ ExitClient
  BY <1>5, <1>8 DEF Connect, ReceiveEnd, ReceiveError, ExitClient, CloseClient
<1>9. CASE Plugin \/ XPlane \/ UNCHANGED vars
  <2>1. serverdata' = serverdata
    BY <1>9 DEF Plugin, ReceiveClient, ReceiveLeave, SendClient, PluginError, XPluginStop,
       XPluginStart, XPlane, ChangeSim, vars, clientVars
  <2>. QED
    BY <1>5, <2>1
<1>. QED
  BY <1>4, <1>6, <1>7, <1>8, <1>9 DEF Next, Client

LEMMA UnfedAfterStep ==
    ASSUME IInv, [Next]_vars, NEW i \in Slots, Unfed(clientdata[i])
    PROVE  Unfed(clientdata'[i])
<1>. DEFINE p == clientdata[i]
<1>0. p \in PluginEntry
  BY DEF IInv, TypeOK
<1>1. CASE clientdata'[i] \in {p, Deallocated}
  BY <1>1 DEF Unfed, Deallocated
<1>2. CASE Crash \/ ClosePlugin
  BY <1>1, <1>2 DEF Crash, ClosePlugin, EmptyTable
<1>3. CASE ReceiveClient /\ clientdata' = TableAfter(Head(c2s).msg)
  <2>. DEFINE f == Head(c2s).msg
              q == clientdata'[i]
  <2>0. f = c2s[1].msg /\ 1 \in 1 .. Len(c2s)
    BY <1>3 DEF ReceiveClient, IInv, TypeOK
  <2>. HIDE DEF f
  <2>1. q = TableAfter(f)[i]
    BY <1>3 DEF f
  <2>2. CASE i \in DOMAIN f /\ f[i].op = "LINK" /\ f[i].typed /\ q = Linked(p, f[i].name)
    (* The entry was free, so its copy is a new one.                         *)
    <3>1. Dead(p) /\ f[i].name \in Names \cup {ErrorText}
      <4>1. ArrivalInv(i, 1)
        BY <2>0, <2>2 DEF IInv, SlotInv, ToPluginInv, ToPlugin
      <4>2. f[i] \in Message
        BY <2>0, <2>2, PacketFacts DEF IInv, TypeOK
      <4>. QED
        BY <2>0, <2>2, <4>1, <4>2 DEF ArrivalInv, Message
    <3>2. p.name # f[i].name
      BY <3>1, ExchangeAssumption DEF Dead
    <3>. QED
      BY <2>2, <3>2 DEF Linked, Allocated, Checked, Unfed
  <2>3. CASE q = [p EXCEPT !.status = "UNLINK"] \/ q = Uninitialised
    BY <1>0, <2>3 DEF Unfed, Uninitialised, PluginEntry
  <2>4. CASE p.status = "VALID" /\ q = [p EXCEPT !.data = f[i].val]
    BY <1>0, <2>4 DEF Unfed, PluginEntry
  <2>. QED
    BY <1>1, <2>1, <2>2, <2>3, <2>4, EntryAfter
<1>4. CASE clientdata'[i] = SentByPlugin(p)
  <2>1. p.status = "LINK" => clientdata'[i].status # "LINK"
    BY <1>0, <1>4 DEF SentByPlugin, Deallocated, PluginEntry
  <2>2. p.status # "LINK" => clientdata'[i].status # "LINK"
    BY <1>0, <1>4 DEF SentByPlugin, Deallocated, PluginEntry
  <2>. QED
    BY <2>1, <2>2 DEF Unfed
<1>5. CASE Plugin
  BY <1>1, <1>2, <1>3, <1>4, <1>5
  DEF Plugin, ReceiveClient, ReceiveLeave, SendClient, PluginError, XPluginStop, XPluginStart
<1>6. CASE User \/ XPlane \/ UNCHANGED vars
  BY <1>1, <1>6
  DEF User, LinkDataref, UnlinkDataref, PressOnce, WriteDataref, SetHold, WriteData, XPlane,
      ChangeSim, vars, pluginVars
<1>7. CASE Client
  BY <1>1, <1>7
  DEF Client, Connect, ReceiveXpserver, ReceiveEnd, ReceiveError, SendXpserver, ExitClient,
      EmptyTable, pluginVars
<1>. QED
  BY <1>5, <1>6, <1>7 DEF Next

(* Nothing about the offset changes that matters to what it is fed with.     *)
LEMMA FeedKept ==
    ASSUME NEW i \in Slots, FeedInv(i), UNCHANGED s2c,
           serverdata'[i].typed /\ clientdata'[i].status = "VALID" =>
                /\ serverdata[i].typed /\ clientdata[i].status = "VALID"
                /\ serverdata'[i].status = serverdata[i].status
                /\ serverdata'[i].name = serverdata[i].name
                /\ serverdata[i].name \in Datarefs =>
                    /\ serverdata'[i].data = serverdata[i].data
                    /\ clientdata'[i].data = clientdata[i].data
    PROVE  FeedInv(i)'
<1>1. ToClient(i)' = ToClient(i)
  BY DEF ToClient
<1>. QED
  BY <1>1 DEF FeedInv

LEMMA FeedAfterUser ==
    ASSUME IInv, ~ClientWrites, User, Established, NEW i \in Slots, FeedInv(i)
    PROVE  FeedInv(i)'
<1>0. serverdata \in [Slots -> ClientEntry] /\ serverdata[i] \in ClientEntry
  BY DEF IInv, TypeOK
<1>1. UNCHANGED <<s2c, clientdata>>
  BY DEF User, LinkDataref, UnlinkDataref, PressOnce, WriteDataref, SetHold, WriteData, pluginVars
<1>2. CASE \E n \in Names : LinkDataref(n)
  <2>1. CASE serverdata'[i] = serverdata[i]
    BY <1>1, <2>1, FeedKept
  <2>2. CASE serverdata[i].name = NoName
    <3>1. Dead(clientdata[i]) /\ PluginEntryInv(i)
      BY <2>2 DEF IInv, SlotInv, AgreeInv, EntriesInv, ClientEntryInv
    <3>2. clientdata[i].status # "VALID"
      BY <3>1, ExchangeAssumption DEF Dead, PluginEntryInv
    <3>. QED
      BY <1>1, <3>2, FeedKept
  <2>3. serverdata[i].name = NoName \/ serverdata'[i] = serverdata[i]
    <3>1. serverdata[FreeSlot].name = NoName
      BY <1>2, FreeSlotIsFree DEF LinkDataref, Named
    <3>. QED
      BY <1>0, <1>2, <3>1 DEF LinkDataref
  <2>. QED
    BY <2>1, <2>2, <2>3
<1>3. CASE \E n \in Names : UnlinkDataref(n)
  <2>1. serverdata'[i] \in {serverdata[i], Unlinked(serverdata[i])}
    BY <1>3 DEF UnlinkDataref
  <2>2. ~Unlinked(serverdata[i]).typed
    BY <1>0 DEF Unlinked, ClientEntry
  <2>. QED
    BY <1>1, <2>1, <2>2, FeedKept
<1>4. ASSUME NEW j \in Slots, NEW v, PressOnce(j) \/ SetHold(j, v)
      PROVE  FeedInv(i)'
  <2>1. serverdata[j].name \notin Datarefs /\ (j # i => serverdata'[i] = serverdata[i])
    BY <1>0, <1>4, ExchangeAssumption DEF PressOnce, SetHold, WriteData
  <2>2. /\ serverdata'[i].name = serverdata[i].name /\ serverdata'[i].typed = serverdata[i].typed
        /\ serverdata'[i].status = serverdata[i].status
    BY <1>0, <1>4 DEF PressOnce, SetHold, WriteData, ClientEntry
  <2>. QED
    BY <1>1, <2>1, <2>2, FeedKept
<1>. QED
  BY <1>2, <1>3, <1>4 DEF User, WriteDataref

LEMMA FeedAfterSendXpserver ==
    ASSUME IInv, SendXpserver, Established, NEW i \in Slots, FeedInv(i)
    PROVE  FeedInv(i)'
<1>. DEFINE e == serverdata[i]
<1>0. e \in ClientEntry /\ UNCHANGED <<s2c, clientdata>>
  BY DEF IInv, TypeOK, SendXpserver, pluginVars
<1>1. CASE serverdata'[i] = e
  BY <1>0, <1>1, FeedKept
<1>2. CASE serverdata'[i] = SentByClient(e) /\ HasMessage(e)
  <2>1. CASE e.status = "ALLOC"
    <3>1. Dead(clientdata[i]) /\ PluginEntryInv(i)
      BY <2>1 DEF IInv, SlotInv, AgreeInv, EntriesInv
    <3>2. clientdata[i].status # "VALID"
      BY <3>1, ExchangeAssumption DEF Dead, PluginEntryInv
    <3>. QED
      BY <1>0, <3>2, FeedKept
  <2>2. CASE e.status = "DEALLOC"
    <3>1. ~e.typed
      BY <2>2 DEF IInv, SlotInv, ClientEntryInv
    <3>2. ~serverdata'[i].typed
      BY <1>0, <1>2, <2>2, <3>1 DEF SentByClient, ClientEntry
    <3>. QED
      BY <1>0, <3>2, FeedKept
  <2>3. CASE e.status = "VALID"
    <3>1. /\ serverdata'[i].name = e.name /\ serverdata'[i].typed = e.typed
          /\ serverdata'[i].status = e.status
          /\ e.name \notin OnceCommands => serverdata'[i].data = e.data
      BY <1>0, <1>2, <2>3 DEF SentByClient, ClientEntry
    <3>. QED
      BY <1>0, <3>1, FeedKept, ExchangeAssumption
  <2>. QED
    BY <1>2, <2>1, <2>2, <2>3 DEF HasMessage
<1>. QED
  BY <1>1, <1>2 DEF SendXpserver

LEMMA FeedAfterTransmission ==
    ASSUME IInv, DataOnly(c2s, OnceCommands \cup HoldCommands, Data), c2s # <<>>, Established,
           NEW i \in Slots, FeedInv(i), clientdata' = TableAfter(Head(c2s).msg),
           UNCHANGED <<serverdata, s2c>>
    PROVE  FeedInv(i)'
<1>. DEFINE f == Head(c2s).msg
            p == clientdata[i]
            q == clientdata'[i]
<1>0. p \in PluginEntry /\ f = c2s[1].msg /\ 1 \in 1 .. Len(c2s)
  BY DEF IInv, TypeOK
<1>. HIDE DEF f
<1>1. q = TableAfter(f)[i]
  BY DEF f
<1>2. CASE i \in DOMAIN f /\ q = Linked(p, f[i].name) /\ f[i].op = "LINK"
  <2>1. Dead(p)
    BY <1>0, <1>2 DEF IInv, SlotInv, ToPluginInv, ArrivalInv, ToPlugin
  <2>2. f[i] \in Message
    BY <1>0, <1>2, PacketFacts DEF IInv, TypeOK
  <2>3. p.name # f[i].name
    BY <2>1, <2>2, ExchangeAssumption DEF Dead, Message
  <2>4. q.status # "VALID"
    <3>1. Allocated(p, f[i].name).status = "ALLOC"
      BY <2>3 DEF Allocated
    <3>2. Checked(Allocated(p, f[i].name)).status # "VALID"
      <4>. DEFINE a == Allocated(p, f[i].name)
      <4>1. a \in [name : {f[i].name}, good : {FALSE}, status : {"ALLOC"}, data : {Miss}]
        BY <2>3 DEF Allocated
      <4>. HIDE DEF a
      <4>. QED
        BY <4>1 DEF Checked, a
    <3>. QED
      BY <1>2, <3>1, <3>2 DEF Linked
  <2>. QED
    BY <2>4, FeedKept
<1>3. CASE q = [p EXCEPT !.status = "UNLINK"] \/ q = Uninitialised
  <2>1. q.status # "VALID"
    BY <1>0, <1>3 DEF PluginEntry, Uninitialised
  <2>. QED
    BY <2>1, FeedKept
(* DATA can only be for a command, the client's entry of which it is.        *)
<1>4. CASE /\ i \in DOMAIN f /\ f[i].op = "DATA" /\ p.status = "VALID"
           /\ q = [p EXCEPT !.data = f[i].val]
  <2>1. f[i].name \notin Datarefs
    BY <1>0, <1>4, ExchangeAssumption DEF DataOnly
  <2>2. f[i].name = serverdata[i].name
    BY <1>0, <1>4 DEF IInv, SlotInv, AgreeInv, RequestInv, ToPlugin
  <2>. QED
    BY <1>4, <2>1, <2>2, FeedKept
<1>5. CASE q = p
  BY <1>5, FeedKept
<1>. QED
  BY <1>1, <1>2, <1>3, <1>4, <1>5, EntryAfter

LEMMA FeedAfterReceiveXpserver ==
    ASSUME IInv, PressInv, Established, NEW i \in Slots, FeedInv(i), s2c # <<>>,
           s2c' = Tail(s2c), UNCHANGED clientdata,
           serverdata'[i] = IF i \in DOMAIN Head(s2c).msg
                            THEN ReceivedByClient(serverdata[i], Head(s2c).msg[i])
                            ELSE serverdata[i]
    PROVE  FeedInv(i)'
<1>. DEFINE c == serverdata[i]
            d == serverdata'[i]
            p == clientdata[i]
            m == s2c[1].msg[i]
            here == i \in DOMAIN s2c[1].msg
<1>0. s2c \in Seq(Packet) /\ c \in ClientEntry /\ Head(s2c) = s2c[1] /\ 1 \in 1 .. Len(s2c)
      /\ (here <=> 1 \in ToClient(i))
  BY DEF IInv, TypeOK, ToClient
<1>1. d = IF here THEN ReceivedByClient(c, m) ELSE c
  BY <1>0
<1>2. /\ ToClient(i)' = {k \in 1 .. Len(s2c) - 1 : k + 1 \in ToClient(i)}
      /\ \A k \in ToClient(i)' : s2c'[k] = s2c[k + 1]
      /\ ToClient(i) \subseteq 1 .. Len(s2c)
  BY <1>0 DEF ToClient
<1>3. d.typed = c.typed
  BY <1>0, <1>1 DEF ReceivedByClient, ClientEntry
<1>. SUFFICES ASSUME c.typed, p.status = "VALID" PROVE FeedInv(i)'
  BY <1>3 DEF FeedInv
<1>4. /\ c.status # "VALID" =>
            \E k \in ToClient(i) :
                /\ s2c[k].msg[i].op = "LINK" /\ s2c[k].msg[i].name = c.name
                /\ \A l \in ToClient(i) : s2c[l].msg[i].op = "DATA" => k < l
      /\ c.name \in Datarefs /\ p.data # Miss =>
            /\ c.status # "VALID" => DataSent(s2c, i) # {}
            /\ Arrived(s2c, i, c.data) = p.data
  BY DEF FeedInv
<1>5. here => m.op \in {"LINK", "DATA"}
  <2>1. here => m \in Message /\ ReplyInv(i, 1)
    BY <1>0, PacketFacts DEF IInv, SlotInv, ToClientInv
  <2>. QED
    BY <2>1 DEF ReplyInv, Message
(* A value.                                                                 *)
<1>6. CASE here /\ m.op = "DATA"
  <2>1. c.status = "VALID"
    BY <1>0, <1>2, <1>4, <1>6
  <2>2. m.val # Miss
    BY <1>0, <1>6, ExchangeAssumption DEF PressInv, DataOnly
  <2>3. d = [c EXCEPT !.data = m.val, !.old = m.val]
    BY <1>1, <1>6, <2>1, <2>2 DEF ReceivedByClient
  <2>4. d.name = c.name /\ d.status = "VALID" /\ d.data = m.val
    BY <1>0, <2>1, <2>3 DEF ClientEntry
  <2>5. Arrived(s2c', i, m.val) = Arrived(s2c, i, c.data)
    BY <1>0, <1>6, ArrivedTaken
  <2>. QED
    BY <1>4, <2>4, <2>5 DEF FeedInv
(* Anything else leaves the value alone and what comes after it.             *)
<1>7. ASSUME ~(here /\ m.op = "DATA")
      PROVE  /\ Arrived(s2c', i, c.data) = Arrived(s2c, i, c.data)
             /\ DataSent(s2c, i) # {} => DataSent(s2c', i) # {}
  BY <1>0, <1>7, ArrivedTaken
<1>8. CASE here /\ m.op = "LINK" /\ m.name = c.name
  <2>1. d = [c EXCEPT !.status = "VALID"]
    BY <1>1, <1>8 DEF ReceivedByClient
  <2>2. d.name = c.name /\ d.status = "VALID" /\ d.data = c.data
    BY <1>0, <2>1 DEF ClientEntry
  <2>. QED
    BY <1>4, <1>7, <1>8, <2>2 DEF FeedInv
<1>9. CASE ~here \/ (m.op = "LINK" /\ m.name # c.name)
  <2>1. d = c
    BY <1>1, <1>9 DEF ReceivedByClient
  <2>2. ASSUME c.status # "VALID"
        PROVE  \E k \in ToClient(i)' :
                    /\ s2c'[k].msg[i].op = "LINK" /\ s2c'[k].msg[i].name = c.name
                    /\ \A l \in ToClient(i)' : s2c'[l].msg[i].op = "DATA" => k < l
    <3>1. PICK k \in ToClient(i) :
                /\ s2c[k].msg[i].op = "LINK" /\ s2c[k].msg[i].name = c.name
                /\ \A l \in ToClient(i) : s2c[l].msg[i].op = "DATA" => k < l
      BY <1>4, <2>2
    <3>2. k # 1 /\ k \in 1 .. Len(s2c)
      BY <1>0, <1>2, <1>9, <3>1
    <3>3. k - 1 \in ToClient(i)' /\ s2c'[k - 1] = s2c[k]
      BY <1>0, <1>2, <3>2
    <3>4. ASSUME NEW l \in ToClient(i)', s2c'[l].msg[i].op = "DATA" PROVE k - 1 < l
      <4>1. l + 1 \in ToClient(i) /\ s2c'[l] = s2c[l + 1] /\ l \in Int
        BY <1>2
      <4>2. k < l + 1
        BY <3>1, <3>4, <4>1
      <4>. QED
        BY <3>2, <4>1, <4>2
    <3>. QED
      BY <3>1, <3>3, <3>4
  <2>. QED
    BY ZenonT(60), <1>4, <1>7, <1>9, <2>1, <2>2 DEF FeedInv
<1>. QED
  BY <1>5, <1>6, <1>8, <1>9

LEMMA FeedAfterSendClient ==
    ASSUME IInv, Established, NEW i \in Slots, FeedInv(i), Unfed(clientdata[i]),
           clientdata' = [j \in Slots |->
                IF j \in Replies THEN SentByPlugin(clientdata[j]) ELSE clientdata[j]],
           s2c' = (IF Replies # {} /\ sock = "Connected"
                   THEN Append(s2c, Transmission(
                           [j \in Replies |-> MessageOfPlugin(clientdata[j])]))
                   ELSE s2c),
           UNCHANGED <<sock, serverdata, open, numalloc, c2s>>
    PROVE  FeedInv(i)'
<1>. DEFINE S == Replies
            f == [j \in S |-> MessageOfPlugin(clientdata[j])]
            P == Transmission(f)
            c == serverdata[i]
            p == clientdata[i]
            q == clientdata'[i]
            m == MessageOfPlugin(p)
<1>0. s2c \in Seq(Packet) /\ p \in PluginEntry /\ sock = "Connected"
  BY DEF IInv, TypeOK, Established
<1>1. s2c' = IF S # {} THEN Append(s2c, P) ELSE s2c
  BY <1>0
<1>2. P \in Packet /\ P.msg = f /\ DOMAIN f = S
  <2>1. ASSUME NEW j \in S PROVE MessageOfPlugin(clientdata[j]) \in Message
    <3>1. clientdata[j] \in PluginEntry /\ HasReply(clientdata[j]) /\ sim \in [Datarefs -> Values]
      BY DEF Replies, IInv, TypeOK
    <3>. QED
      BY <3>1
      DEF HasReply, MessageOfPlugin, Link, Unlink, DataOf, Message, PluginEntry, Data, Status
  <2>2. f \in [S -> Message] /\ S \in SUBSET Slots
    BY <2>1 DEF Replies
  <2>. HIDE DEF S, f
  <2>. QED
    BY <2>2, TransmissionIsPacket DEF Transmission
<1>3. /\ i \in S => f[i] = m /\ q = SentByPlugin(p) /\ HasReply(p)
      /\ i \notin S => q = p
  BY DEF Replies
<1>. HIDE DEF S, f, P
<1>. PICK K \in Nat : K = Len(s2c) + 1
  BY <1>0
<1>4. \A k \in ToClient(i) : k \in Nat /\ k < K
  BY <1>0 DEF ToClient
(* Nothing is sent about this offset.                                       *)
<1>5. CASE i \notin S
  <2>1. ToClient(i)' = ToClient(i) /\ \A k \in ToClient(i) : s2c'[k] = s2c[k]
    <3>1. CASE s2c' = Append(s2c, P)
      BY <1>0, <1>2, <1>5, <3>1, Appended DEF ToClient
    <3>2. CASE s2c' = s2c
      BY <3>2 DEF ToClient
    <3>. QED
      BY <1>1, <3>1, <3>2
  <2>2. DataSent(s2c', i) = DataSent(s2c, i)
        /\ Arrived(s2c', i, c.data) = Arrived(s2c, i, c.data)
    BY <1>0, <1>1, <1>2, <1>5, ArrivedAppended
  <2>3. \A k \in ToClient(i) :
            (\A l \in ToClient(i) : s2c[l].msg[i].op = "DATA" => k < l)
            => (\A l \in ToClient(i)' : s2c'[l].msg[i].op = "DATA" => k < l)
    BY <2>1
  <2>. QED
    BY <1>3, <1>5, <2>1, <2>2, <2>3 DEF FeedInv
<1>6. CASE i \in S
  <2>0. /\ s2c' = Append(s2c, P) /\ S # {}
        /\ ToClient(i)' = ToClient(i) \cup {K}
        /\ \A k \in ToClient(i) : s2c'[k] = s2c[k]
        /\ s2c'[K].msg[i] = m
    BY <1>0, <1>1, <1>2, <1>3, <1>6, Appended DEF ToClient
  (* The confirmation.                                                      *)
  <2>1. CASE p.status = "LINK"
    <3>1. ToClient(i) = {} /\ m = Link(p.name, TRUE) /\ p.data = Miss
      BY <2>1 DEF IInv, SlotInv, AgreeInv, EntriesInv, MessageOfPlugin, Unfed
    <3>2. q.status = "VALID" => q = [p EXCEPT !.status = "VALID"] /\ p.good
      BY <1>3, <1>6, <2>1 DEF SentByPlugin, Deallocated
    <3>3. q.status = "VALID" => q.data = Miss
      BY <1>0, <3>1, <3>2 DEF PluginEntry
    <3>4. c.typed /\ q.status = "VALID" => p.name = c.name
      <4>1. q.status = "VALID" => p.name \in Names
        BY <2>1, <3>2, ExchangeAssumption DEF IInv, SlotInv, PluginEntryInv
      <4>. QED
        BY <4>1 DEF IInv, SlotInv, AgreeInv, EntriesInv
    <3>5. ToClient(i)' = {K} /\ s2c'[K].msg[i].op = "LINK" /\ s2c'[K].msg[i].name = p.name
      BY <2>0, <3>1 DEF Link
    <3>. QED
      BY <3>3, <3>4, <3>5 DEF FeedInv
  <2>2. CASE p.status = "UNLINK"
    BY <1>3, <1>6, <2>2 DEF SentByPlugin, Deallocated, FeedInv
  (* A new value, the copy of which the plugin keeps.                       *)
  <2>3. CASE p.status = "VALID"
    <3>1. m = DataOf(p.name, sim[p.name]) /\ q = [p EXCEPT !.data = sim[p.name]]
      BY <1>3, <1>6, <2>3 DEF MessageOfPlugin, SentByPlugin
    <3>2. m.op = "DATA" /\ m.val = sim[p.name] /\ q.status = "VALID" /\ q.data = sim[p.name]
      BY <1>0, <2>3, <3>1 DEF DataOf, PluginEntry
    <3>3. DataSent(s2c', i) # {} /\ Arrived(s2c', i, c.data) = q.data
      <4>1. i \in DOMAIN P.msg /\ P.msg[i].op = "DATA" /\ P.msg[i].val = sim[p.name]
        BY <1>2, <1>3, <1>6, <3>2
      <4>. HIDE DEF m
      <4>2. DataSent(Append(s2c, P), i) # {} /\ Arrived(Append(s2c, P), i, c.data) = P.msg[i].val
        BY <1>0, <1>2, <4>1, ArrivedAppended
      <4>. QED
        BY <2>0, <3>2, <4>1, <4>2
    <3>4. ASSUME c.typed, c.status # "VALID"
          PROVE  \E k \in ToClient(i)' :
                    /\ s2c'[k].msg[i].op = "LINK" /\ s2c'[k].msg[i].name = c.name
                    /\ \A l \in ToClient(i)' : s2c'[l].msg[i].op = "DATA" => k < l
      <4>1. PICK k \in ToClient(i) :
                /\ s2c[k].msg[i].op = "LINK" /\ s2c[k].msg[i].name = c.name
                /\ \A l \in ToClient(i) : s2c[l].msg[i].op = "DATA" => k < l
        BY <2>3, <3>4 DEF FeedInv
      <4>. QED
        BY <1>4, <2>0, <4>1
    <3>. QED
      BY <3>2, <3>3, <3>4 DEF FeedInv
  <2>. QED
    BY <1>3, <1>6, <2>1, <2>2, <2>3 DEF HasReply
<1>. QED
  BY <1>5, <1>6

LEMMA FeedAfterStep ==
    ASSUME IInv, PressInv, DisplayInv, ~ClientWrites, [Next]_vars, NEW i \in Slots, Established'
    PROVE  FeedInv(i)'
<1>0. Unfed(clientdata[i]) /\ (Established => FeedInv(i))
      /\ DataOnly(c2s, OnceCommands \cup HoldCommands, Data)
  BY DEF DisplayInv
<1>1. CASE Connect
  <2>1. clientdata'[i].status # "VALID"
    BY <1>1 DEF Connect, EmptyTable, Deallocated
  <2>. QED
    BY <2>1 DEF FeedInv
<1>2. CASE User
  <2>1. Established
    BY <1>2 DEF User, LinkDataref, UnlinkDataref, PressOnce, WriteDataref, SetHold, WriteData,
       pluginVars, Established
  <2>. QED
    BY <1>0, <1>2, <2>1, FeedAfterUser
<1>3. CASE SendXpserver
  BY <1>0, <1>3, FeedAfterSendXpserver DEF SendXpserver, pluginVars, Established
<1>4. CASE ReceiveXpserver
  <2>1. ~CloseClient
    BY DEF CloseClient, Established
  <2>2. /\ s2c # <<>> /\ s2c' = Tail(s2c) /\ UNCHANGED clientdata /\ Established
        /\ serverdata'[i] = IF i \in DOMAIN Head(s2c).msg
                            THEN ReceivedByClient(serverdata[i], Head(s2c).msg[i])
                            ELSE serverdata[i]
    BY <1>4, <2>1 DEF ReceiveXpserver, pluginVars, Established
  <2>. QED
    BY <1>0, <2>2, FeedAfterReceiveXpserver
<1>5. CASE ReceiveClient
  <2>1. ~ClosePlugin
    BY DEF ClosePlugin, Established
  <2>2. /\ clientdata' = TableAfter(Head(c2s).msg) /\ c2s # <<>> /\ Established
        /\ UNCHANGED <<serverdata, s2c>>
    BY <1>5, <2>1 DEF ReceiveClient, Crash, clientVars, Established
  <2>. QED
    BY <1>0, <2>2, FeedAfterTransmission
<1>6. CASE SendClient
  <2>1. ~ClosePlugin
    BY DEF ClosePlugin, Established
  <2>. QED
    BY <1>0, <1>6, <2>1, FeedAfterSendClient DEF SendClient, Crash, clientVars, Established
<1>7. ~ReceiveEnd /\ ~ReceiveError /\ ~ExitClient
  BY DEF ReceiveEnd, ReceiveError, ExitClient, CloseClient, Established
<1>8. ~ReceiveLeave /\ ~PluginError /\ ~XPluginStop
  BY DEF ReceiveLeave, PluginError, XPluginStop, ClosePlugin, Established
<1>9. CASE XPluginStart \/ XPlane \/ UNCHANGED vars
  <2>1. UNCHANGED <<sock, open, serverdata, s2c, clientdata>>
    BY <1>9 DEF XPluginStart, XPlane, ChangeSim, vars, clientVars, pluginVars
  <2>2. Established
    BY <2>1 DEF Established
  <2>. QED
    BY <1>0, <2>1, <2>2, FeedKept
<1>. QED
  BY <1>1, <1>2, <1>3, <1>4, <1>5, <1>6, <1>7, <1>8, <1>9 DEF Next, Client, Plugin

(* The client sends DATA for commands only.                                 *)
LEMMA RequestsAfterStep ==
    ASSUME IInv, DisplayInv, [Next]_vars
    PROVE  DataOnly(c2s', OnceCommands \cup HoldCommands, Data)
<1>. DEFINE C == OnceCommands \cup HoldCommands
<1>0. c2s \in Seq(Packet) /\ DataOnly(c2s, C, Data)
  BY DEF IInv, TypeOK, DisplayInv
<1>1. CASE c2s' \in {c2s, <<>>, Append(c2s, Disconnect)}
  BY <1>0, <1>1, DataOnlyKept
<1>2. CASE c2s # <<>> /\ c2s' = Tail(c2s)
  BY <1>0, <1>2, DataOnlyKept
<1>3. CASE SendXpserver
  <2>. DEFINE S == IF sock = "Connected"
                   THEN {i \in Slots : HasMessage(serverdata[i])} ELSE {}
              f == [i \in S |-> MessageOfClient(serverdata[i])]
              p == Transmission(f)
  <2>1. CASE c2s' = Append(c2s, p)
    <3>1. \A i \in DOMAIN p.msg : p.msg[i].op = "DATA" => p.msg[i].name \in C /\ p.msg[i].val \in Data
      <4>1. ASSUME NEW i \in S, MessageOfClient(serverdata[i]).op = "DATA"
            PROVE  /\ MessageOfClient(serverdata[i]).name \in C
                   /\ MessageOfClient(serverdata[i]).val \in Data
        <5>. DEFINE e == serverdata[i]
        <5>1. HasMessage(e) /\ e \in ClientEntry /\ Unwritten(e)
          BY DEF IInv, TypeOK, DisplayInv
        <5>2. MessageOfClient(e) = DataOf(e.name, e.data) /\ Changed(e) /\ e.name # NoName
          BY <4>1, <5>1 DEF HasMessage, MessageOfClient, Link, Unlink
        <5>3. e.name \in C /\ e.data \in Data
          BY <5>1, <5>2 DEF Changed, Unwritten, ClientEntry, Names
        <5>. QED
          BY <5>2, <5>3 DEF DataOf
      <4>. QED
        BY <4>1 DEF Transmission
    <3>2. c2s'[Len(c2s) + 1] = p /\ Len(c2s') = Len(c2s) + 1
          /\ \A k \in 1 .. Len(c2s) : c2s'[k] = c2s[k]
      <4>. HIDE DEF p
      <4>. QED
        BY <1>0, <2>1
    <3>3. ASSUME NEW k \in 1 .. Len(c2s'), NEW i \in DOMAIN c2s'[k].msg, c2s'[k].msg[i].op = "DATA"
          PROVE  c2s'[k].msg[i].name \in C /\ c2s'[k].msg[i].val \in Data
      <4>1. CASE k = Len(c2s) + 1
        BY <3>1, <3>2, <3>3, <4>1
      <4>2. CASE k \in 1 .. Len(c2s)
        BY <1>0, <3>2, <3>3, <4>2 DEF DataOnly
      <4>. QED
        BY <1>0, <3>2, <4>1, <4>2
    <3>. QED
      BY <3>3 DEF DataOnly
  <2>. QED
    BY <1>1, <1>3, <2>1 DEF SendXpserver
<1>4. CASE ReceiveClient
  BY <1>1, <1>2, <1>4 DEF ReceiveClient, Crash, ClosePlugin
<1>5. CASE User
  BY <1>1, <1>5 DEF User, LinkDataref, UnlinkDataref, PressOnce, WriteDataref, SetHold, WriteData
<1>6. CASE Connect \/ ReceiveXpserver \/ ReceiveEnd \/ ReceiveError \/ ExitClient
  BY <1>1, <1>6 DEF Connect, ReceiveXpserver, ReceiveEnd, ReceiveError, ExitClient, CloseClient
<1>7. CASE ReceiveLeave \/ SendClient \/ PluginError \/ XPluginStop \/ XPluginStart
  BY <1>1, <1>7
  DEF ReceiveLeave, SendClient, PluginError, XPluginStop, XPluginStart, Crash, ClosePlugin
<1>8. CASE XPlane \/ UNCHANGED vars
  BY <1>1, <1>8 DEF XPlane, ChangeSim, vars
<1>. QED
  BY <1>3, <1>4, <1>5, <1>6, <1>7, <1>8 DEF Next, Client, Plugin

(* What a client that only displays will show, once everything in flight has *)
(* arrived, is what the plugin last saw in X-Plane: the copy in clientdata.c *)
(* that decides what send_client sends and the value that receive_xpserver   *)
(* stores cannot drift apart, whatever is subscribed, unsubscribed and lost. *)
THEOREM DisplayMirrorsPlugin == ASSUME ~ClientWrites PROVE Spec => []Mirrors
<1>1. Init => PressInv /\ DisplayInv
  BY PressInvInitially, DisplayInvInitially
<1>2. IInv /\ PressInv /\ DisplayInv /\ [Next]_vars => PressInv' /\ DisplayInv'
  <2>. SUFFICES ASSUME IInv, PressInv, DisplayInv, [Next]_vars PROVE PressInv' /\ DisplayInv'
    OBVIOUS
  <2>1. PressInv'
    BY AccountedAfterStep, RepliesAfterStep DEF PressInv
  <2>2. ASSUME NEW i \in Slots
        PROVE  /\ Unwritten(serverdata[i])' /\ Unfed(clientdata[i])'
               /\ Established' => FeedInv(i)'
    <3>1. Unwritten(serverdata[i]) /\ Unfed(clientdata[i])
      BY DEF DisplayInv
    <3>. QED
      BY <3>1, UnwrittenAfterStep, UnfedAfterStep, FeedAfterStep
  <2>3. DisplayInv'
    BY <2>2, RequestsAfterStep DEF DisplayInv
  <2>. QED
    BY <2>1, <2>3
<1>3. IInv /\ DisplayInv => Mirrors
  <2>. SUFFICES ASSUME IInv, DisplayInv, Established, NEW i \in Slots,
                       serverdata[i].name \in Datarefs, serverdata[i].typed,
                       serverdata[i].status = "VALID", clientdata[i].data # Miss
                PROVE  Arrived(s2c, i, serverdata[i].data) = clientdata[i].data
    BY DEF Mirrors
  <2>1. clientdata[i].status = "VALID"
    BY DEF IInv, SlotInv, AgreeInv, EntriesInv
  <2>. QED
    BY <2>1 DEF DisplayInv, FeedInv
<1>. QED
  BY <1>1, <1>2, <1>3, Invariant, PTL DEF Spec
=============================================================================
