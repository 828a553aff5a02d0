------------------------------ MODULE XPServer ------------------------------
(***************************************************************************)
(* The connection slots of the X-Plane plugin (xpserver/src/xpserver.c).   *)
(*                                                                         *)
(* X-Plane calls xpserverLoopCallback from its flight loop.  A callback    *)
(* accepts at most one waiting client, exchanges data with every connected *)
(* client in slot order and gives up the slots of clients that are gone.   *)
(* X-Plane is single threaded: menu and stop callbacks never run inside a  *)
(* flight loop callback, so one callback is one action.                    *)
(*                                                                         *)
(* What a client exchanges inside its slot is the subject of the module    *)
(* DatarefExchange.  Here a slot's dataref table is reduced to the client  *)
(* whose subscriptions it holds.                                           *)
(***************************************************************************)
EXTENDS Integers, Sequences, FiniteSets

CONSTANTS
    MAXCONNECT,   \* number of slots
    MAXPENDING,   \* length of the kernel's queue of unaccepted connections
    Sockets,      \* the clients' TCP connections
    NoSocket,     \* the value -1 of an unused slot
    NULL,         \* a slot without a dataref table
    SendMayFail   \* whether send() may fail while the plugin is stopped

ASSUME ServerAssumption ==
    /\ MAXCONNECT \in Nat \ {0}
    /\ MAXPENDING \in Nat \ {0}
    /\ NoSocket \notin Sockets
    /\ NULL \notin Sockets
    /\ SendMayFail \in BOOLEAN

ConnSlots == 0 .. MAXCONNECT - 1

VARIABLES
    plugin,          \* "running" or "stopped"
    pending,         \* connections the kernel completed, not yet accepted
    clntSockArray,   \* socket of each slot
    nConnect,        \* number of current connections
    master,          \* client sockets in socketSetMaster
    clientdataArray, \* NULL, or whose subscriptions the table of a slot holds
    socketStatus,    \* global: outcome of the slot processed last
    peer             \* what the client at the other end of a socket knows

slotVars == <<clntSockArray, nConnect, master, clientdataArray>>
vars == <<plugin, pending, slotVars, socketStatus, peer>>

(* "open": connected as far as the client can tell; "gone": its side is    *)
(* closed; "notified": it got a disconnect marker; "dropped": the plugin    *)
(* stopped and closed the connection without a marker.                      *)
Peer == {"idle", "open", "gone", "notified", "dropped"}

Used == {j \in ConnSlots : clntSockArray[j] # NoSocket}

TypeOK ==
    /\ plugin \in {"running", "stopped"}
    /\ pending \in Seq(Sockets)
    /\ clntSockArray \in [ConnSlots -> Sockets \cup {NoSocket}]
    /\ nConnect \in 0 .. MAXCONNECT
    /\ master \in SUBSET Sockets
    /\ clientdataArray \in [ConnSlots -> Sockets \cup {NULL}]
    /\ socketStatus \in {"Ready", "Connected", "Disconnected", "Error"}
    /\ peer \in [Sockets -> Peer]

-----------------------------------------------------------------------------

Init ==
    /\ plugin = "running"
    /\ pending = <<>>
    /\ clntSockArray = [j \in ConnSlots |-> NoSocket]
    /\ nConnect = 0
    /\ master = {}
    /\ clientdataArray = [j \in ConnSlots |-> NULL]
    /\ socketStatus = "Ready"
    /\ peer = [s \in Sockets |-> "idle"]

(* XPluginStart resets every slot before the first callback can run.        *)
XPluginStart ==
    /\ plugin = "stopped"
    /\ plugin' = "running"
    /\ clntSockArray' = [j \in ConnSlots |-> NoSocket]
    /\ nConnect' = 0
    /\ master' = {}
    /\ clientdataArray' = [j \in ConnSlots |-> NULL]
    /\ socketStatus' = "Ready"
    /\ UNCHANGED <<pending, peer>>

-----------------------------------------------------------------------------
(* The clients.  A connection is complete for the client as soon as the     *)
(* kernel queues it, before the plugin accepts it.                          *)

ClientConnect(s) ==
    /\ plugin = "running"
    /\ peer[s] \in {"idle", "notified", "dropped"}
    /\ Len(pending) < MAXPENDING
    /\ pending' = Append(pending, s)
    /\ peer' = [peer EXCEPT ![s] = "open"]
    /\ UNCHANGED <<plugin, slotVars, socketStatus>>

ClientClose(s) ==
    /\ peer[s] = "open"
    /\ peer' = [peer EXCEPT ![s] = "gone"]
    /\ UNCHANGED <<plugin, pending, slotVars, socketStatus>>

-----------------------------------------------------------------------------
(* One flight loop callback.                                                *)

(* Mutant: the number of connections taken for the first free slot.         *)
FreeByCount == nConnect

(* The lowest unused slot, or MAXCONNECT (past the array) when there is     *)
(* none: the loop that looks for it stops there.                            *)
FirstFree ==
    IF Used = ConnSlots
    THEN MAXCONNECT
    ELSE CHOOSE j \in ConnSlots \ Used : \A k \in ConnSlots \ Used : j <= k

(* Mutants: one connection too many; the last slot never used.              *)
AcceptableBeyond ==
    IF pending # <<>> /\ nConnect <= MAXCONNECT
    THEN {Head(pending), NoSocket} ELSE {NoSocket}

AcceptableBelow ==
    IF pending # <<>> /\ nConnect < MAXCONNECT - 1
    THEN {Head(pending), NoSocket} ELSE {NoSocket}

(* The connection taken from the queue; NoSocket when nobody waits, when    *)
(* all slots are taken, or when accept() fails.                             *)
Acceptable ==
    IF pending # <<>> /\ nConnect < MAXCONNECT
    THEN {Head(pending), NoSocket}
    ELSE {NoSocket}

(* Mutant: a new connection always takes the first slot.                    *)
SlotsFirstOnly(s) ==
    IF s = NoSocket THEN clntSockArray ELSE [clntSockArray EXCEPT ![0] = s]

SlotsAfterAccept(s) ==
    IF s = NoSocket
    THEN clntSockArray
    ELSE [clntSockArray EXCEPT ![FirstFree] = s]

(* Mutant: a client that left is not noticed.                               *)
FinishedByError(socks, used) == {{}}

(* The slots whose exchange ends Disconnected or in Error: a client that    *)
(* left is noticed (recv returns 0); any other connection may fail.         *)
Finished(socks, used) ==
    {D \in SUBSET used : \A j \in used : peer[socks[j]] = "gone" => j \in D}

(* The table of a slot after the exchange with client s: the client may have *)
(* made its first request.                                                  *)
Exchanged(j, s) ==
    {clientdataArray[j]} \cup (IF clientdataArray[j] = NULL THEN {s} ELSE {})

(* Mutant: the table of a slot given up is not cleared.                     *)
GivenUpUncleared(j, s) == Exchanged(j, s)

(* clear_clientdata frees the table of a slot given up.                     *)
GivenUp(j, s) == {NULL}

SlotOutcome(j, socks, used, D) ==
    IF j \in D THEN GivenUp(j, socks[j])
    ELSE IF j \in used THEN Exchanged(j, socks[j])
    ELSE {clientdataArray[j]}

LastOf(used) == CHOOSE j \in used : \A k \in used : k <= j

(* nConnect++ for the accepted connection, nConnect-- for each slot given up *)
Recount(s, D) == nConnect + (IF s = NoSocket THEN 0 ELSE 1) - Cardinality(D)

LoopCallback ==
    /\ plugin = "running"
    /\ \E s \in Acceptable :
        LET socks == SlotsAfterAccept(s)
            used  == {j \in ConnSlots : socks[j] # NoSocket}
        IN
        \E D \in Finished(socks, used) :
            /\ pending' = IF s = NoSocket THEN pending ELSE Tail(pending)
            /\ clntSockArray' = [j \in ConnSlots |->
                                    IF j \in D THEN NoSocket ELSE socks[j]]
            /\ nConnect' = Recount(s, D)
            /\ master' = (master \cup ({s} \ {NoSocket})) \ {socks[j] : j \in D}
            /\ clientdataArray' \in [ConnSlots -> Sockets \cup {NULL}]
            /\ \A j \in ConnSlots :
                    clientdataArray'[j] \in SlotOutcome(j, socks, used, D)
            /\ socketStatus' = CASE used = {} -> socketStatus
                                 [] used # {} /\ LastOf(used) \in D -> "Disconnected"
                                 [] OTHER -> "Connected"
            /\ peer' = [p \in Sockets |->
                            IF \E j \in D : socks[j] = p THEN "idle" ELSE peer[p]]
    /\ UNCHANGED plugin

-----------------------------------------------------------------------------
(* XPluginStop sends a disconnect marker over every open slot, but only     *)
(* while the global socketStatus is Connected: it is not set per client     *)
(* here.  A failing send, at slot f, turns it into Error for the slots that *)
(* follow.  Connections nobody accepted die with the listening socket.      *)
Notified(f) ==
    IF socketStatus = "Connected" THEN {j \in Used : j < f} ELSE {}

PeerAfterStop(p, notified) ==
    CASE peer[p] = "gone" -> "idle"
      [] peer[p] = "open" /\ \E j \in notified : clntSockArray[j] = p -> "notified"
      [] peer[p] = "open" /\ \E j \in Used \ notified : clntSockArray[j] = p -> "dropped"
      [] peer[p] = "open" /\ \A j \in Used : clntSockArray[j] # p -> "idle"
      [] OTHER -> peer[p]

XPluginStop ==
    /\ plugin = "running"
    /\ plugin' = "stopped"
    /\ \E f \in {MAXCONNECT} \cup (IF SendMayFail THEN Used ELSE {}) :
        /\ peer' = [p \in Sockets |-> PeerAfterStop(p, Notified(f))]
        /\ socketStatus' = IF f \in Used /\ socketStatus = "Connected"
                           THEN "Error" ELSE socketStatus
    /\ pending' = <<>>
    /\ clientdataArray' = [j \in ConnSlots |->
                            IF j \in Used THEN NULL ELSE clientdataArray[j]]
    /\ UNCHANGED <<clntSockArray, nConnect, master>>

-----------------------------------------------------------------------------

Next ==
    \/ XPluginStart
    \/ XPluginStop
    \/ LoopCallback
    \/ \E s \in Sockets : ClientConnect(s) \/ ClientClose(s)

Spec == Init /\ [][Next]_vars

(* X-Plane keeps calling the callback, which asks for the next call by its  *)
(* return value: a client that left is noticed, and accept() does not fail  *)
(* for ever.  No other outcome of a callback is taken for granted; that a    *)
(* connection fails, in particular, is never assumed.                       *)
Noticing ==
    /\ \E j \in Used : peer[clntSockArray[j]] = "gone"
    /\ LoopCallback

Accepting ==
    /\ pending # <<>>
    /\ LoopCallback
    /\ pending' # pending

FairSpec == Spec /\ WF_vars(Noticing) /\ SF_vars(Accepting)

-----------------------------------------------------------------------------
(* The bookkeeping of connections in slots agrees: nConnect counts the used  *)
(* slots, so a client is accepted only into a free slot of the array and     *)
(* never past it; no connection sits in two slots, and select() watches      *)
(* exactly the connections that have one.                                    *)
SlotsConsistent ==
    /\ nConnect = Cardinality(Used)
    /\ master = {clntSockArray[j] : j \in Used}
    /\ \A j, k \in Used : clntSockArray[j] = clntSockArray[k] => j = k

(* A client never inherits subscriptions: a slot's table holds those of the  *)
(* connection that has the slot now, whoever had it before.                  *)
FreshTable ==
    \A j \in ConnSlots :
        clientdataArray[j] # NULL => clientdataArray[j] = clntSockArray[j]

(* No connection is lost and none is served twice: while the plugin runs,    *)
(* the connections that have not ended are those in the queue and those in   *)
(* the slots, each in one of the two and once; when it stops, all have ended. *)
Slotted == {clntSockArray[j] : j \in Used}

Waiting == {pending[k] : k \in 1 .. Len(pending)}

Unended == {s \in Sockets : peer[s] \in {"open", "gone"}}

Accounted ==
    /\ plugin = "running" => Unended = Waiting \cup Slotted
    /\ plugin = "stopped" => Unended = {} /\ pending = <<>>
    /\ Waiting \cap Slotted = {}
    /\ \A k, l \in 1 .. Len(pending) : pending[k] = pending[l] => k = l

(* A client in the queue is served if slots come free again and again: it    *)
(* gets a slot unless it gives up or the plugin stops.                       *)
WaitingServed ==
    \A s \in Sockets :
        ([]<>(nConnect < MAXCONNECT)) =>
            ((peer[s] = "open" /\ s \notin master) ~> (s \in master \/ peer[s] # "open"))

(* The slot of a client that left is given up.                               *)
GoneReleased ==
    \A s \in Sockets : (peer[s] = "gone" /\ s \in master) ~> (peer[s] # "gone")
=============================================================================
