--------------------------- MODULE DatarefExchange ---------------------------
(***************************************************************************)
(* The exchange of datarefs and commands between one client                *)
(* (libxpcockpit: serverdata.c, handleserver.c) and the plugin's table for *)
(* it (xpserver: clientdata.c, handleclient.c) over a TCP connection.      *)
(*                                                                         *)
(* The client subscribes a dataref at an offset, the slot of its table;    *)
(* from then on both sides name the dataref by that number only.  A packet *)
(* is one transmission up to its EOT marker: send_xpserver and send_client *)
(* walk their table once, so it holds at most one message per offset, in   *)
(* rising order, and is a function from offsets to messages.               *)
(*                                                                         *)
(* The client's main loop is check_xpserver; receive_xpserver; the user's  *)
(* code; send_xpserver.  The plugin's callback is receive_client;          *)
(* send_client, in X-Plane's only thread.                                  *)
(***************************************************************************)
EXTENDS Integers, Sequences, FiniteSets

CONSTANTS
    MaxSlots,      \* bound: offsets of the client's table
    Datarefs,      \* names of datarefs that hold a value
    OnceCommands,  \* names of commands of type XPTYPE_CMD_ONCE
    HoldCommands,  \* names of commands of type XPTYPE_CMD_HOLD
    Known,         \* names that X-Plane accepts
    Writable,      \* datarefs that X-Plane lets the plugin write
    CustomFull,    \* custom datarefs for which allocate_customdata returns -1
    Values,        \* values of datarefs, with 0 and 1 of the commands
    InitialValue,
    Miss,          \* INT_MISS, FLT_MISS, ...
    NoName,        \* the empty name of a free entry
    ErrorText,     \* the text that replaces the name of a refused dataref
    Garbage,       \* the name read from memory nobody initialised
    ClientWrites,  \* whether the user's code writes datarefs
    UnlinkIn,      \* the statuses in which it unlinks a dataref
    MaxPresses,    \* bound: presses of a command button
    MaxQueue,      \* bound: transmissions in flight per direction
    MaxOutages     \* bound: losses of the connection, stops, client restarts

Names == Datarefs \cup OnceCommands \cup HoldCommands
Data == Values \cup {Miss}
Status == {"UNINITIALIZED", "ALLOC", "DEALLOC", "LINK", "UNLINK", "VALID"}

ASSUME ExchangeAssumption ==
    /\ MaxSlots \in Nat \ {0}
    (* the type that the client asks for tells the three kinds apart         *)
    /\ Datarefs \cap (OnceCommands \cup HoldCommands) = {}
    /\ OnceCommands \cap HoldCommands = {}
    /\ Known \subseteq Names /\ Writable \subseteq Datarefs
    /\ CustomFull \subseteq Datarefs
    /\ {0, 1} \subseteq Values /\ Miss \notin Values /\ InitialValue \in Values
    /\ {NoName, ErrorText, Garbage} \cap Names = {}
    /\ NoName # ErrorText /\ NoName # Garbage /\ ErrorText # Garbage
    /\ ClientWrites \in BOOLEAN /\ UnlinkIn \subseteq Status
    /\ MaxPresses \in Nat /\ MaxQueue \in Nat \ {0} /\ MaxOutages \in Nat

Slots == 0 .. MaxSlots - 1

VARIABLES
    (* client *)
    sock,       \* socketStatus: "Ready" or "Connected"
    phase,      \* "receive": next in the loop is receive_xpserver; "user"
    serverdata, \* the client's table
    (* connection *)
    c2s, s2c,   \* transmissions in flight
    (* plugin *)
    plugin,     \* "running", "stopped", or "crashed" with X-Plane
    open,       \* whether the plugin has a slot for this client
    inCallback, \* receive_client is done, send_client is next
    numalloc,   \* entries of the plugin's table
    clientdata, \* the plugin's table for this client
    (* X-Plane *)
    sim,        \* value of each dataref
    held,       \* commands begun and not ended
    done,       \* number of executions of each OnceCommand
    (* bookkeeping *)
    pressed,    \* number of presses of each OnceCommand
    wild,       \* whether the plugin wrote outside its table
    outages

clientVars == <<sock, phase, serverdata, pressed>>
pluginVars == <<plugin, open, inCallback, numalloc, clientdata, wild>>
simVars == <<sim, held, done>>
vars == <<clientVars, c2s, s2c, pluginVars, simVars, outages>>

-----------------------------------------------------------------------------
(* Tables and transmissions                                                 *)

(* typed: the entry has a type and data buffers; unlink_dataref takes both. *)
ClientEntry ==
    [name : Names \cup {NoName}, typed : BOOLEAN, status : Status,
     data : Data, old : Data]

FreeEntry ==
    [name |-> NoName, typed |-> FALSE, status |-> "UNINITIALIZED",
     data |-> Miss, old |-> Miss]

(* good: the entry's dataref pointer is not NULL.                           *)
PluginEntry ==
    [name : Names \cup {NoName, ErrorText, Garbage}, good : BOOLEAN,
     status : Status, data : Data]

(* deallocate_clientdata                                                    *)
Deallocated == [name |-> NoName, good |-> FALSE, status |-> "DEALLOC", data |-> Miss]

(* What realloc leaves between the old and the new end of the table.        *)
Uninitialised ==
    [name |-> Garbage, good |-> FALSE, status |-> "UNINITIALIZED", data |-> Miss]

(* The name of a DATA message is not transmitted: it records which dataref  *)
(* the sender meant.                                                        *)
Message ==
    [op : {"LINK", "UNLINK", "DATA"}, name : Names \cup {ErrorText},
     typed : BOOLEAN, val : Data]

Link(n, t) == [op |-> "LINK", name |-> n, typed |-> t, val |-> Miss]
Unlink(n) == [op |-> "UNLINK", name |-> n, typed |-> FALSE, val |-> Miss]
DataOf(n, v) == [op |-> "DATA", name |-> n, typed |-> TRUE, val |-> v]

Packet ==
    [end : {"EOT", "DISCONNECT"}, msg : UNION {[S -> Message] : S \in SUBSET Slots}]

Transmission(f) == [end |-> "EOT", msg |-> f]
Disconnect == [end |-> "DISCONNECT", msg |-> <<>>]

TypeOK ==
    /\ sock \in {"Ready", "Connected"}
    /\ phase \in {"receive", "user"}
    /\ serverdata \in [Slots -> ClientEntry]
    /\ c2s \in Seq(Packet) /\ s2c \in Seq(Packet)
    /\ plugin \in {"running", "stopped", "crashed"}
    /\ open \in BOOLEAN /\ inCallback \in BOOLEAN
    /\ numalloc \in 0 .. MaxSlots
    /\ clientdata \in [Slots -> PluginEntry]
    /\ sim \in [Datarefs -> Values]
    /\ held \in SUBSET HoldCommands
    /\ done \in [OnceCommands -> Nat] /\ pressed \in [OnceCommands -> 0 .. MaxPresses]
    /\ wild \in BOOLEAN
    /\ outages \in 0 .. MaxOutages

EmptyTable == [i \in Slots |-> Deallocated]

Init ==
    /\ sock = "Ready" /\ phase = "receive"
    /\ serverdata = [i \in Slots |-> FreeEntry]
    /\ c2s = <<>> /\ s2c = <<>>
    /\ plugin = "running" /\ open = FALSE /\ inCallback = FALSE
    /\ numalloc = 0 /\ clientdata = EmptyTable
    /\ sim = [n \in Datarefs |-> InitialValue] /\ held = {}
    /\ done = [n \in OnceCommands |-> 0] /\ pressed = [n \in OnceCommands |-> 0]
    /\ wild = FALSE
    /\ outages = 0

-----------------------------------------------------------------------------
(* The user's code.  It runs between receive_xpserver and send_xpserver.    *)

Named(n) == {i \in Slots : serverdata[i].name = n}

(* The lowest entry without a name.  realloc extends the table by one when  *)
(* there is none: an entry never used has no name either.                   *)
FreeSlot == CHOOSE i \in Named(NoName) : \A j \in Named(NoName) : i <= j

(* link_dataref: an entry of that name, type and size is returned as it is; *)
(* an entry that lost its type to unlink_dataref is not found.              *)
LinkDataref(n) ==
    /\ \A i \in Named(n) : ~serverdata[i].typed
    /\ Named(NoName) # {}
    /\ serverdata' = [serverdata EXCEPT ![FreeSlot] =
            [name |-> n, typed |-> TRUE, status |-> "ALLOC", data |-> Miss, old |-> Miss]]
    /\ phase' = "user"
    /\ UNCHANGED <<sock, pressed, c2s, s2c, pluginVars, simVars, outages>>

(* Mutant: the entry is free at once and can be given to another dataref.    *)
UnlinkedAtOnce(e) == FreeEntry

Unlinked(e) ==
    [e EXCEPT !.typed = FALSE, !.status = "DEALLOC", !.data = Miss, !.old = Miss]

(* unlink_dataref deallocates every entry of that name, whatever its status. *)
UnlinkDataref(n) ==
    /\ Named(n) # {}
    /\ \A i \in Named(n) : serverdata[i].status \in UnlinkIn
    /\ serverdata' = [i \in Slots |->
            IF i \in Named(n) THEN Unlinked(serverdata[i]) ELSE serverdata[i]]
    /\ phase' = "user"
    /\ UNCHANGED <<sock, pressed, c2s, s2c, pluginVars, simVars, outages>>

(* The user writes through the pointer that link_dataref returned.          *)
WriteData(i, v) ==
    /\ serverdata[i].typed
    /\ serverdata[i].data # v
    /\ serverdata' = [serverdata EXCEPT ![i].data = v]
    /\ phase' = "user"
    /\ UNCHANGED <<sock, c2s, s2c, pluginVars, simVars, outages>>

WriteDataref(i, v) ==
    /\ ClientWrites
    /\ serverdata[i].name \in Datarefs
    /\ WriteData(i, v)
    /\ UNCHANGED pressed

PressOnce(i) ==
    /\ serverdata[i].name \in OnceCommands
    /\ pressed[serverdata[i].name] < MaxPresses
    /\ WriteData(i, 1)
    /\ pressed' = [pressed EXCEPT ![serverdata[i].name] = @ + 1]

(* A push button: the user's code copies its state, 1 or 0.                 *)
SetHold(i, v) ==
    /\ serverdata[i].name \in HoldCommands
    /\ WriteData(i, v)
    /\ UNCHANGED pressed

-----------------------------------------------------------------------------
(* The client library.                                                      *)

(* check_xpserver: connect.  The plugin gives a new connection a slot with  *)
(* an empty table.  The connection before this one has ended on both sides. *)
Connect ==
    /\ sock = "Ready" /\ phase = "receive"
    /\ plugin = "running" /\ ~open
    /\ sock' = "Connected"
    /\ open' = TRUE
    /\ numalloc' = 0 /\ clientdata' = EmptyTable
    /\ c2s' = <<>> /\ s2c' = <<>>
    /\ UNCHANGED <<phase, serverdata, pressed, plugin, inCallback, wild, simVars, outages>>

(* One entry after one message of the plugin.  A confirmation counts when   *)
(* it repeats the name; DATA for an entry that lost its type is ignored.    *)
ReceivedByClient(e, m) ==
    CASE m.op = "DATA" /\ e.typed /\ e.status = "VALID" /\ m.val # Miss ->
            [e EXCEPT !.data = m.val, !.old = m.val]
      [] m.op = "LINK" /\ m.name = e.name -> [e EXCEPT !.status = "VALID"]
      [] m.op = "UNLINK" /\ m.name = e.name ->
            [e EXCEPT !.name = NoName, !.status = "UNINITIALIZED"]
      [] OTHER -> e

(* Mutant: entries that were VALID are taken to stay so.                    *)
ResetPending(e) == IF e.status # "LINK" THEN e ELSE [e EXCEPT !.status = "ALLOC"]

(* Mutant: only entries that were VALID are subscribed again.               *)
ResetValid(e) == IF e.status # "VALID" THEN e ELSE [e EXCEPT !.status = "ALLOC"]

(* Every named entry is subscribed again after the next connect.            *)
ResetEntry(e) == IF e.name = NoName THEN e ELSE [e EXCEPT !.status = "ALLOC"]

CloseClient ==
    /\ serverdata' = [i \in Slots |-> ResetEntry(serverdata[i])]
    /\ sock' = "Ready"
    /\ s2c' = <<>>

(* receive_xpserver, one complete transmission.  More than one may be       *)
(* received before the user's code runs.                                    *)
ReceiveXpserver ==
    /\ sock = "Connected" /\ phase = "receive"
    /\ s2c # <<>>
    /\ LET p == Head(s2c) IN
        \/ /\ p.end = "EOT"
           /\ serverdata' = [i \in Slots |->
                IF i \in DOMAIN p.msg
                THEN ReceivedByClient(serverdata[i], p.msg[i])
                ELSE serverdata[i]]
           /\ s2c' = Tail(s2c)
           /\ UNCHANGED sock
        \/ /\ p.end = "DISCONNECT"
           /\ CloseClient
    /\ UNCHANGED <<phase, pressed, c2s, pluginVars, simVars, outages>>

(* recv returns 0 once the plugin's side is closed and read to its end.     *)
ReceiveEnd ==
    /\ sock = "Connected" /\ phase = "receive"
    /\ s2c = <<>> /\ ~open
    /\ CloseClient
    /\ UNCHANGED <<phase, pressed, c2s, pluginVars, simVars, outages>>

(* recv fails: the client leaves while the plugin may still have data of it *)
(* to read.                                                                 *)
ReceiveError ==
    /\ sock = "Connected" /\ phase = "receive"
    /\ outages < MaxOutages
    /\ CloseClient
    /\ c2s' \in {c2s, <<>>}
    /\ outages' = outages + 1
    /\ UNCHANGED <<phase, pressed, pluginVars, simVars>>

(* send_xpserver: what entry e has to send, and the entry afterwards.       *)
Changed(e) == e.typed /\ e.data # e.old

HasMessage(e) ==
    /\ e.name # NoName
    /\ e.status \in {"ALLOC", "DEALLOC"} \/ (e.status = "VALID" /\ Changed(e))

MessageOfClient(e) ==
    CASE e.status = "ALLOC" -> Link(e.name, e.typed)
      [] e.status = "DEALLOC" -> Unlink(e.name)
      [] OTHER -> DataOf(e.name, e.data)

(* Mutant: a command is not reset after it was sent.                        *)
SentNotReset(e) ==
    CASE e.status = "ALLOC" -> [e EXCEPT !.status = "LINK"]
      [] e.status = "DEALLOC" -> [e EXCEPT !.status = "UNLINK"]
      [] e.status = "VALID" /\ e.name \in OnceCommands -> [e EXCEPT !.old = 0]
      [] OTHER -> [e EXCEPT !.old = e.data]

SentByClient(e) ==
    CASE e.status = "ALLOC" -> [e EXCEPT !.status = "LINK"]
      [] e.status = "DEALLOC" -> [e EXCEPT !.status = "UNLINK"]
      [] e.status = "VALID" /\ e.name \in OnceCommands -> [e EXCEPT !.data = 0, !.old = 0]
      [] OTHER -> [e EXCEPT !.old = e.data]

(* A transmission to a plugin that closed its side is lost.                 *)
SendXpserver ==
    LET S == IF sock = "Connected"
             THEN {i \in Slots : HasMessage(serverdata[i])} ELSE {}
    IN
    /\ phase = "user" \/ S # {}
    /\ S # {} => Len(c2s) < MaxQueue
    /\ serverdata' = [i \in Slots |->
            IF i \in S THEN SentByClient(serverdata[i]) ELSE serverdata[i]]
    /\ c2s' = IF S # {} /\ open
              THEN Append(c2s, Transmission([i \in S |-> MessageOfClient(serverdata[i])]))
              ELSE c2s
    /\ phase' = "receive"
    /\ UNCHANGED <<sock, pressed, s2c, pluginVars, simVars, outages>>

(* The client ends with exit_tcpip_client and clear_dataref, and is started *)
(* again later.                                                             *)
ExitClient ==
    /\ outages < MaxOutages
    /\ c2s' = IF sock = "Connected" /\ open THEN Append(c2s, Disconnect) ELSE c2s
    /\ sock' = "Ready" /\ phase' = "receive"
    /\ serverdata' = [i \in Slots |-> FreeEntry]
    /\ s2c' = <<>>
    /\ outages' = outages + 1
    /\ UNCHANGED <<pressed, pluginVars, simVars>>

-----------------------------------------------------------------------------
(* The plugin's table.                                                      *)

(* Mutant: the status LINK is set for refused datarefs only.                *)
LinkedQuietly(e, n) ==
    IF n \in Known
    THEN [name |-> n, good |-> TRUE, status |-> "ALLOC", data |-> Miss]
    ELSE [name |-> ErrorText, good |-> FALSE, status |-> "LINK", data |-> Miss]

(* allocate_clientdata: an entry of that name is used as it is.  A request   *)
(* without a type asks for INT_MISS elements and is not allocated (Links).  *)
Allocated(e, n) ==
    IF e.name = n THEN e
    ELSE [name |-> n, good |-> FALSE, status |-> "ALLOC", data |-> Miss]

(* check_clientdata replaces the name of a dataref X-Plane does not accept.  *)
Checked(e) ==
    IF e.name \in Known
    THEN [e EXCEPT !.good = TRUE, !.status = "LINK"]
    ELSE [e EXCEPT !.name = ErrorText, !.good = FALSE, !.status = "LINK"]

(* An entry after a LINK message.                                           *)
Linked(e, n) ==
    IF n \in CustomFull THEN Allocated(e, n) ELSE Checked(Allocated(e, n))

Links(f) == {i \in DOMAIN f : f[i].op = "LINK" /\ f[i].typed}

(* The data that receive_client passes on to X-Plane: the entry is VALID    *)
(* and, unless it is a command, writable.                                   *)
Applies(f) ==
    {i \in DOMAIN f : /\ f[i].op = "DATA" /\ f[i].val # Miss
                      /\ i < numalloc
                      /\ clientdata[i].status = "VALID"
                      /\ clientdata[i].name \in Writable \cup OnceCommands \cup HoldCommands}

(* UNLINK is not checked against the table's size: below it the entry's     *)
(* status changes, past it the plugin writes to memory it does not own.     *)
Unlinks(f) == {i \in DOMAIN f : f[i].op = "UNLINK"}
WildWrite(f) == \E i \in Unlinks(f) : i >= numalloc

(* Mutant: one entry too many.                                              *)
GrownTooFar(f) ==
    CHOOSE n \in numalloc .. MaxSlots + 1 :
        /\ \A i \in Links(f) : i + 1 < n
        /\ n = numalloc \/ n - 2 \in Links(f)

(* The table grows to the highest offset linked and leaves a gap of         *)
(* uninitialised entries under it.                                          *)
Grown(f) ==
    CHOOSE n \in numalloc .. MaxSlots :
        /\ \A i \in Links(f) : i < n
        /\ n = numalloc \/ n - 1 \in Links(f)

TableAfter(f) ==
    [i \in Slots |->
        CASE i \in Links(f) -> Linked(clientdata[i], f[i].name)
          [] i \in Unlinks(f) /\ i < numalloc -> [clientdata[i] EXCEPT !.status = "UNLINK"]
          [] i \in Applies(f) -> [clientdata[i] EXCEPT !.data = f[i].val]
          [] i \notin Links(f) /\ i >= numalloc /\ i < Grown(f) -> Uninitialised
          [] OTHER -> clientdata[i]]

(* The entries among those with data for name n that X-Plane gets.          *)
Given(f, n) == {i \in Applies(f) : clientdata[i].name = n}

SimAfter(f) ==
    [n \in Datarefs |->
        IF Given(f, n) = {} THEN sim[n] ELSE f[CHOOSE i \in Given(f, n) : TRUE].val]

(* XPLMCommandOnce for 1.  XPLMCommandBegin for 1, else XPLMCommandEnd.     *)
DoneAfter(f) ==
    [n \in OnceCommands |->
        done[n] + Cardinality({i \in Given(f, n) : f[i].val = 1})]

HeldAfter(f) ==
    {n \in HoldCommands :
        IF Given(f, n) = {} THEN n \in held ELSE \E i \in Given(f, n) : f[i].val = 1}

(* The slot is given up: the table is cleared, the socket closed.  What the *)
(* client had in flight is lost; what the plugin sent may be.               *)
ClosePlugin ==
    /\ open' = FALSE /\ inCallback' = FALSE
    /\ numalloc' = 0 /\ clientdata' = EmptyTable
    /\ c2s' = <<>>

Garbled == \E i \in Slots : i < numalloc /\ clientdata[i].name = Garbage

(* What becomes of the plugin when the table is cleared: data pointers that  *)
(* nobody initialised are freed, too.                                       *)
AfterClearing(p) == {p} \cup (IF Garbled THEN {"crashed"} ELSE {})

Crash ==
    /\ plugin' = "crashed"
    /\ ClosePlugin
    /\ s2c' \in {s2c, <<>>}

-----------------------------------------------------------------------------
(* The flight loop callback and the plugin's life.                          *)

(* receive_client, one complete transmission.  The outcome of a write       *)
(* outside the table is undefined: it goes unnoticed, or X-Plane crashes.   *)
ReceiveClient ==
    /\ open /\ plugin = "running"
    /\ c2s # <<>> /\ Head(c2s).end = "EOT"
    /\ LET f == Head(c2s).msg IN
        \/ /\ clientdata' = TableAfter(f)
           /\ numalloc' = Grown(f)
           /\ sim' = SimAfter(f) /\ done' = DoneAfter(f) /\ held' = HeldAfter(f)
           /\ c2s' = Tail(c2s)
           /\ inCallback' = TRUE
           /\ wild' = (wild \/ WildWrite(f))
           /\ UNCHANGED <<plugin, open, s2c>>
        \/ /\ WildWrite(f)
           /\ wild' = TRUE
           /\ Crash
           /\ UNCHANGED simVars
    /\ UNCHANGED <<clientVars, outages>>

(* A disconnect marker, or the end of what a client that left has sent.     *)
ReceiveLeave ==
    /\ open /\ plugin = "running"
    /\ \/ c2s # <<>> /\ Head(c2s).end = "DISCONNECT"
       \/ c2s = <<>> /\ sock = "Ready"
    /\ plugin' \in AfterClearing("running")
    /\ ClosePlugin
    /\ UNCHANGED <<wild, s2c, clientVars, simVars, outages>>

(* send_client: what an entry has to send, and the entry afterwards.        *)
HasReply(e) ==
    /\ e.name \notin {NoName, Garbage}
    /\ \/ e.status \in {"LINK", "UNLINK"}
       \/ e.status = "VALID" /\ e.name \in Datarefs /\ e.data # sim[e.name]

(* Mutants: the copy is sent, not the new value; the name is gone when the  *)
(* confirmation is written.                                                 *)
StaleMessage(e) ==
    CASE e.status = "LINK" -> Link(e.name, TRUE)
      [] e.status = "UNLINK" -> Unlink(e.name)
      [] OTHER -> DataOf(e.name, e.data)

NamelessMessage(e) ==
    CASE e.status = "LINK" -> Link(e.name, TRUE)
      [] e.status = "UNLINK" -> Unlink(NoName)
      [] OTHER -> DataOf(e.name, sim[e.name])

MessageOfPlugin(e) ==
    CASE e.status = "LINK" -> Link(e.name, TRUE)
      [] e.status = "UNLINK" -> Unlink(e.name)
      [] OTHER -> DataOf(e.name, sim[e.name])

SentByPlugin(e) ==
    CASE e.status = "LINK" /\ e.good -> [e EXCEPT !.status = "VALID"]
      [] e.status = "LINK" /\ ~e.good -> Deallocated
      [] e.status = "UNLINK" -> Deallocated
      [] OTHER -> [e EXCEPT !.data = sim[e.name]]

Replies == {i \in Slots : i < numalloc /\ HasReply(clientdata[i])}

(* An uninitialised entry is read like any other; either its name happens   *)
(* to look empty or X-Plane crashes.                                        *)
SendClient ==
    /\ open /\ plugin = "running"
    /\ inCallback \/ Replies # {}
    /\ \/ /\ Replies # {} => Len(s2c) < MaxQueue
          /\ clientdata' = [i \in Slots |->
                IF i \in Replies THEN SentByPlugin(clientdata[i]) ELSE clientdata[i]]
          /\ s2c' = IF Replies # {} /\ sock = "Connected"
                    THEN Append(s2c, Transmission(
                            [i \in Replies |-> MessageOfPlugin(clientdata[i])]))
                    ELSE s2c
          /\ inCallback' = FALSE
          /\ UNCHANGED <<plugin, open, numalloc, c2s>>
       \/ Garbled /\ Crash
    /\ UNCHANGED <<wild, clientVars, simVars, outages>>

(* The plugin's socket fails and it gives up the slot.                      *)
PluginError ==
    /\ open /\ plugin = "running"
    /\ outages < MaxOutages
    /\ plugin' \in AfterClearing("running")
    /\ ClosePlugin
    /\ s2c' \in {s2c, <<>>}
    /\ outages' = outages + 1
    /\ UNCHANGED <<wild, clientVars, simVars>>

(* XPluginStop.  Whether the client gets a disconnect marker depends on the *)
(* other clients (see XPServer).                                            *)
XPluginStop ==
    /\ plugin = "running" /\ ~inCallback
    /\ outages < MaxOutages
    /\ plugin' \in AfterClearing("stopped")
    /\ ClosePlugin
    /\ s2c' \in IF open /\ sock = "Connected"
                THEN {Append(s2c, Disconnect), s2c, <<>>} ELSE {s2c}
    /\ outages' = outages + 1
    /\ UNCHANGED <<wild, clientVars, simVars>>

(* XPluginStart; after a crash in a new X-Plane, where no command is held.  *)
XPluginStart ==
    /\ plugin # "running"
    /\ plugin' = "running"
    /\ held' = IF plugin = "crashed" THEN {} ELSE held
    /\ UNCHANGED <<open, inCallback, numalloc, clientdata, wild, c2s, s2c, clientVars,
                   sim, done, outages>>

(* X-Plane, or another client, changes a dataref between two callbacks.  A   *)
(* name that X-Plane does not accept has no value to change.                *)
ChangeSim(n, v) ==
    /\ ~inCallback
    /\ n \in Known /\ sim[n] # v
    /\ sim' = [sim EXCEPT ![n] = v]
    /\ UNCHANGED <<held, done, clientVars, pluginVars, c2s, s2c, outages>>

-----------------------------------------------------------------------------

User ==
    \/ \E n \in Names : LinkDataref(n) \/ UnlinkDataref(n)
    \/ \E i \in Slots : PressOnce(i) \/ \E v \in Values : WriteDataref(i, v)
    \/ \E i \in Slots, v \in {0, 1} : SetHold(i, v)

Client ==
    Connect \/ ReceiveXpserver \/ ReceiveEnd \/ ReceiveError \/ SendXpserver \/ ExitClient

Plugin ==
    \/ ReceiveClient \/ ReceiveLeave \/ SendClient
    \/ PluginError \/ XPluginStop \/ XPluginStart

XPlane == \E n \in Datarefs, v \in Values : ChangeSim(n, v)

Next == User \/ Client \/ Plugin \/ XPlane

Spec == Init /\ [][Next]_vars

(* The client's main loop calls check_xpserver, receive_xpserver and        *)
(* send_xpserver again and again, whatever the user's code does in between; *)
(* X-Plane calls the flight loop callback.  A plugin that stopped, or an    *)
(* X-Plane that crashed, is started again.                                  *)
Fairness ==
    /\ SF_vars(Connect)
    /\ SF_vars(ReceiveXpserver \/ ReceiveEnd)
    /\ WF_vars(SendXpserver)
    /\ WF_vars(ReceiveClient \/ ReceiveLeave)
    /\ WF_vars(SendClient)
    /\ WF_vars(XPluginStart)

FairSpec == Spec /\ Fairness

-----------------------------------------------------------------------------
(* Safety                                                                   *)

Established == sock = "Connected" /\ open

(* A number never changes its meaning under a message in flight: the offset  *)
(* of a message stands for the dataref its sender meant, on the client's    *)
(* side and in the plugin's table, however often offsets were unlinked and  *)
(* given to other datarefs meanwhile.  Only UNLINK may be repeated and      *)
(* arrive when the offset was given away.                                   *)
NoCrosstalk ==
    /\ \A k \in 1 .. Len(c2s) : \A i \in Applies(c2s[k].msg) :
        clientdata[i].name = c2s[k].msg[i].name
    /\ \A k \in 1 .. Len(s2c) : \A i \in DOMAIN s2c[k].msg :
        s2c[k].msg[i].op = "DATA" => s2c[k].msg[i].name = serverdata[i].name
    /\ Established =>
        \A k \in 1 .. Len(c2s) : \A i \in DOMAIN c2s[k].msg :
            c2s[k].msg[i].op \in {"LINK", "DATA"} =>
                c2s[k].msg[i].name = serverdata[i].name

(* serverdata.h calls VALID "x-plane confirmed dataref validity to client": *)
(* an entry the client may use is live in the plugin under the same name,   *)
(* and the plugin keeps nothing alive at an offset the client gave away.    *)
ValidAgree ==
    Established =>
        \A i \in Slots :
            /\ serverdata[i].status = "VALID" /\ serverdata[i].typed =>
                /\ i < numalloc
                /\ clientdata[i].status = "VALID"
                /\ clientdata[i].name = serverdata[i].name
            /\ clientdata[i].status \in {"LINK", "VALID"} /\ clientdata[i].good =>
                clientdata[i].name = serverdata[i].name

(* A press of a command button executes the command at most once, also when *)
(* the connection is lost and the command subscribed again.                 *)
AtMostOnce == \A n \in OnceCommands : done[n] <= pressed[n]

(* A client that only displays: what it shows once everything in flight has *)
(* arrived is what the plugin last saw in X-Plane.  The plugin's copy is    *)
(* what decides whether a change is sent, so a value that the copy holds    *)
(* and the client never gets would stay wrong.                              *)
DataSent(q, i) ==
    {k \in 1 .. Len(q) : i \in DOMAIN q[k].msg /\ q[k].msg[i].op = "DATA"}

Arrived(q, i, v) ==
    IF DataSent(q, i) = {} THEN v
    ELSE q[CHOOSE k \in DataSent(q, i) : \A l \in DataSent(q, i) : l <= k].msg[i].val

Mirrors ==
    Established =>
        \A i \in Slots :
            /\ serverdata[i].name \in Datarefs
            /\ serverdata[i].typed /\ serverdata[i].status = "VALID"
            /\ clientdata[i].data # Miss
            => Arrived(s2c, i, serverdata[i].data) = clientdata[i].data

-----------------------------------------------------------------------------
(* Liveness                                                                 *)

Subscribed(i, n) == serverdata[i].name = n /\ serverdata[i].typed

(* X-Plane stays up.  A dataref whose UNLINK was under way is subscribed    *)
(* again without a type after a reconnection (handleserver.c:787), which    *)
(* leaves the plugin's table with an entry that nobody initialised: whoever *)
(* reads it may crash X-Plane, after every reconnection anew.               *)
StaysUp == <>[](plugin = "running")

(* README of xpserver, 2: the plugin answers a LINK request with the name   *)
(* or an error message.  What the code does of it, whatever else was        *)
(* subscribed, refused or given up meanwhile: while X-Plane stays up, a     *)
(* dataref or command that it knows, subscribed with its type, is confirmed *)
(* unless it is unsubscribed, however often the connection is lost.  There  *)
(* is no answer, contrary to README:94-98, to a request without a type      *)
(* (handleserver.c:787), nor when allocate_customdata fails                 *)
(* (handleclient.c:637: retval -1 is neither 0 nor 2).                      *)
LinkAnswered ==
    StaysUp =>
        \A i \in Slots : \A n \in Known \ CustomFull :
            Subscribed(i, n) ~> (serverdata[i].status = "VALID" \/ ~Subscribed(i, n))

(* README of xpserver, 5: the plugin answers an UNLINK request.  It does    *)
(* where its table still has the name at that offset, or the client gets    *)
(* out of the status UNLINK by a disconnection.  Contrary to README:125-129 *)
(* there is no answer for a dataref that was refused, whose name the plugin *)
(* has cleared with its error message (handleclient.c:767, 795), nor for    *)
(* one that was unsubscribed twice or before its LINK was sent.             *)
UnlinkAnswered ==
    \A i \in Slots :
        (/\ serverdata[i].status = "UNLINK" /\ Established
         /\ i < numalloc /\ clientdata[i].name = serverdata[i].name)
            ~> (serverdata[i].status # "UNLINK")

(* Eventual consistency of a client that only displays (ClientWrites is     *)
(* FALSE: two writers may cross, see QuiescentAgreement): while X-Plane     *)
(* stays up, a dataref it knows that stays subscribed with its type and     *)
(* settles in X-Plane settles at the same value in the client, through      *)
(* losses of the connection and restarts, whatever happens at the other     *)
(* offsets.                                                                 *)
Converges ==
    StaysUp =>
        \A i \in Slots : \A n \in (Known \ CustomFull) \cap Datarefs :
            <>[]Subscribed(i, n) /\ <>[][sim'[n] = sim[n]]_sim
                => <>[](serverdata[i].data = sim[n])

-----------------------------------------------------------------------------
(* What the documents say and the code does not do                          *)

(* README of xpserver: data "is then exchanged between x-plane and the      *)
(* client whenever data changes on either x-plane's or the client's side".  *)
(* With nothing left to exchange, both sides hold the same value.           *)
Quiet ==
    /\ Established /\ phase = "receive" /\ ~inCallback
    /\ c2s = <<>> /\ s2c = <<>> /\ Replies = {}
    /\ \A i \in Slots : ~HasMessage(serverdata[i])

QuiescentAgreement ==
    Quiet =>
        \A i \in Slots :
            (serverdata[i].typed /\ serverdata[i].status = "VALID"
                /\ serverdata[i].name \in Writable)
            => serverdata[i].data = sim[serverdata[i].name]
=============================================================================
