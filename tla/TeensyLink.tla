------------------------------ MODULE TeensyLink ------------------------------
(***************************************************************************)
(* A Teensy board and the program xpteensy, which talk over UDP: the       *)
(* handshake and the initialisation of the board's pins, switches and      *)
(* encoders on their way to the cockpit's datarefs, outputs on their way   *)
(* to the board (libteensy.c, handleudp.c, ini.c, xpteensy.c; firmware:    *)
(* udp_receive.ino, teensy.ino, mcp23017.ino, as5048b.ino, init.ino).      *)
(*                                                                         *)
(* Pins and daughter boards differ in their drivers, not in their          *)
(* protocol: a pin is a switch read as toggle, an output, or an encoder    *)
(* that reports steps of its direction.                                    *)
(***************************************************************************)
EXTENDS Integers, Sequences, FiniteSets

CONSTANTS
    Kind,        \* sequence: "toggle", "output" or "direction" for each pin
    Values,      \* values of outputs
    INITVAL,     \* nothing known yet (also -1000 for encoders)
    RingSize,    \* packets that udpRecvBuffer holds
    MaxChanges,  \* bound: changes of switches, steps and writes together
    MaxPackets,  \* bound: a ping is sent only if fewer packets are in flight
    MaxFaults,   \* bound: lost packets and restarts of xpteensy together
    LossyTypes   \* types of packets that the network may lose

Pins == DOMAIN Kind
OfKind(k) == {p \in Pins : Kind[p] = k}

ASSUME TeensyAssumption ==
    /\ Kind \in Seq({"toggle", "output", "direction"})
    /\ INITVAL \notin Values \cup {-1, 0, 1}
    /\ RingSize \in Nat \ {0} /\ MaxPackets \in Nat \ {0}
    /\ MaxChanges \in Nat /\ MaxFaults \in Nat
    /\ LossyTypes \subseteq {"PING", "RESET", "INIT", "REGULAR"}

VARIABLES
    (* xpteensy *)
    phase,       \* the next call of its main loop
    online, initialized,
    val, saved,  \* val and val_save of each pin
    ring,        \* udpRecvBuffer, filled by the poll thread
    (* network *)
    toDevice, toHost,
    (* board *)
    mode,        \* pins with a pinmode
    dsaved,      \* val_save of the board
    level,       \* state of the switches
    drive,       \* value that an output pin has
    (* bookkeeping *)
    changes,     \* changes so far
    owed,        \* presses and steps that the board has sent, less those that
                 \* the user's modules have been told
    losses, restarts,
    damaged      \* a packet was lost that is never repeated

hostVars == <<phase, online, initialized, val, saved>>
boardVars == <<mode, dsaved, level, drive>>
faults == <<losses, restarts, damaged>>
vars == <<hostVars, ring, toDevice, toHost, boardVars, changes, owed, faults>>

Packet(t) == [type |-> t]
PinPacket(t, p, v) == [type |-> t, pin |-> p, val |-> v]

(* A packet with its value for each pin in C, in the order of the pins.     *)
Nth(k, C) == CHOOSE p \in C : Cardinality({o \in C : o < p}) = k - 1
PinPackets(C, value) ==
    [k \in 1 .. Cardinality(C) |-> PinPacket("REGULAR", Nth(k, C), value[Nth(k, C)])]

Data == Values \cup {-1, 0, 1, INITVAL}

Packets ==
    {Packet("PING"), Packet("RESET")}
        \cup [type : {"INIT", "REGULAR"}, pin : Pins, val : Data]

TypeOK ==
    /\ phase \in {"init", "recv", "user", "send"}
    /\ online \in BOOLEAN /\ initialized \in BOOLEAN
    /\ val \in [Pins -> Data] /\ saved \in [Pins -> Data]
    /\ ring \in Seq(Packets) /\ Len(ring) <= RingSize
    /\ toDevice \in Seq(Packets) /\ toHost \in Seq(Packets)
    /\ mode \in SUBSET Pins
    /\ dsaved \in [Pins -> {0, 1, INITVAL}] /\ level \in [Pins -> {0, 1}]
    /\ drive \in [Pins -> Values \cup {INITVAL}]
    /\ initialized => online

Init ==
    /\ phase = "init" /\ online = FALSE /\ initialized = FALSE
    /\ val = [p \in Pins |-> INITVAL] /\ saved = [p \in Pins |-> INITVAL]
    /\ ring = <<>> /\ toDevice = <<>> /\ toHost = <<>>
    /\ mode = {}
    /\ dsaved = [p \in Pins |-> INITVAL]
    /\ level = [p \in Pins |-> 0]
    /\ drive = [p \in Pins |-> INITVAL]
    /\ changes = 0
    /\ owed = [p \in Pins |-> 0]
    /\ losses = 0 /\ restarts = 0 /\ damaged = FALSE

-----------------------------------------------------------------------------
(* xpteensy: the main loop.                                                 *)

(* ping_teensy: once per second until the board has answered.               *)
Ping ==
    /\ phase = "init" /\ ~online
    /\ Len(toDevice) + Len(toHost) < MaxPackets
    /\ toDevice' = Append(toDevice, Packet("PING"))
    /\ phase' = "recv"
    /\ UNCHANGED <<online, initialized, val, saved, ring, toHost,
                   boardVars, changes, owed, faults>>

(* Mutant: the reset follows the pins.                                      *)
InitThenReset ==
    [p \in Pins |-> PinPacket("INIT", p, val[p])] \o <<Packet("RESET")>>

(* A reset, then every pin with the value it has by now.                    *)
InitPackets ==
    <<Packet("RESET")>> \o [p \in Pins |-> PinPacket("INIT", p, val[p])]

(* Mutant: pins are initialised without waiting for the answer to a ping.   *)
DueUnseen == ~initialized
InitDue == online /\ ~initialized

InitTeensy ==
    /\ phase = "init"
    /\ IF InitDue
       THEN /\ toDevice' = toDevice \o InitPackets
            /\ initialized' = TRUE
       ELSE UNCHANGED <<toDevice, initialized>>
    /\ phase' = "recv"
    /\ UNCHANGED <<online, val, saved, ring, toHost, boardVars, changes, owed, faults>>

(* Mutant: all packets that have arrived are taken in one iteration.        *)
TakenAll == Len(ring)

(* recv_teensy takes one packet per iteration.                              *)
Taken == IF ring = <<>> THEN 0 ELSE 1

(* The packets of q about pin p, and the value of p after the first n.      *)
About(p, q) == {i \in 1 .. Len(q) : q[i].type = "REGULAR" /\ q[i].pin = p}
Latest(p, q, n) ==
    LET about == {i \in About(p, q) : i <= n}
    IN  IF about = {} THEN val[p]
        ELSE q[CHOOSE i \in about : \A j \in about : j <= i].val

RecvTeensy ==
    /\ phase = "recv"
    /\ online' = (online \/ \E i \in 1 .. Taken : ring[i].type = "PING")
    /\ val' = [p \in Pins |-> Latest(p, ring, Taken)]
    /\ ring' = SubSeq(ring, Taken + 1, Len(ring))
    /\ phase' = "user"
    /\ UNCHANGED <<initialized, saved, toDevice, toHost, boardVars, changes, owed, faults>>

(* digital_input, type 1.                                                   *)
Toggles(p) == Kind[p] = "toggle" /\ val[p] = 1 /\ saved[p] = 0

(* angle_input, direction: the step is taken out of val.                    *)
Steps(p) == Kind[p] = "direction" /\ val[p] # saved[p]

(* What the user's modules are told of pin p.                               *)
Told(p) ==
    IF Toggles(p) THEN 1 ELSE IF Steps(p) /\ val[p] \in {-1, 1} THEN val[p] ELSE 0

(* Mutant: a press is taken out of val too.                                 *)
AfterAny(p) == IF Toggles(p) \/ Steps(p) THEN 0 ELSE val[p]

(* A step that was told is taken out of val.                                *)
AfterReading(p) == IF Steps(p) THEN 0 ELSE val[p]

(* The user's module reads all inputs and may write outputs.                *)
UserModule ==
    /\ phase = "user"
    /\ owed' = [p \in Pins |-> owed[p] - Told(p)]
    /\ \E written \in SUBSET OfKind("output") :
        \E v \in [written -> Values] :
            /\ changes' = changes + Cardinality(written)
            /\ changes' <= MaxChanges
            /\ val' = [p \in Pins |-> IF p \in written THEN v[p] ELSE AfterReading(p)]
    /\ phase' = "send"
    /\ UNCHANGED <<online, initialized, saved, ring, toDevice, toHost,
                   boardVars, faults>>

ChangedOutput(p) == Kind[p] = "output" /\ val[p] # saved[p]

(* reset_teensydata                                                         *)
Saved == IF initialized THEN val ELSE saved

(* Mutant: reset_teensydata comes first, and no output differs any more.    *)
SaveFirst ==
    /\ phase = "send"
    /\ saved' = Saved
    /\ phase' = "init"
    /\ UNCHANGED <<online, initialized, val, ring, toDevice, toHost, boardVars,
                   changes, owed, faults>>

(* send_teensy, then reset_teensydata; then the loop may sleep.            *)
SendTeensy ==
    /\ phase = "send"
    /\ toDevice' = IF initialized
                   THEN toDevice \o PinPackets({p \in Pins : ChangedOutput(p)}, val)
                   ELSE toDevice
    /\ saved' = Saved
    /\ phase' = "init"
    /\ UNCHANGED <<online, initialized, val, ring, toHost, boardVars,
                   changes, owed, faults>>

(* udpclient_thread_main: a packet that does not fit is dropped.            *)
PollThread ==
    /\ toHost # <<>>
    /\ toHost' = Tail(toHost)
    /\ IF Len(ring) < RingSize
       THEN ring' = Append(ring, Head(toHost)) /\ UNCHANGED damaged
       ELSE damaged' = TRUE /\ UNCHANGED ring
    /\ UNCHANGED <<hostVars, toDevice, boardVars, changes, owed, losses, restarts>>

-----------------------------------------------------------------------------
(* The board.                                                               *)

(* udp_receive, one packet per loop.                                        *)
BoardReceive ==
    /\ toDevice # <<>>
    /\ toDevice' = Tail(toDevice)
    /\ LET m == Head(toDevice) IN
        \/ /\ m.type = "PING"
           /\ toHost' = Append(toHost, Packet("PING"))
           /\ UNCHANGED <<mode, dsaved, drive>>
        \/ /\ m.type = "RESET"
           /\ mode' = {}
           /\ dsaved' = [p \in Pins |-> INITVAL]
           /\ UNCHANGED <<toHost, drive>>
        \/ /\ m.type \in {"INIT", "REGULAR"}
           /\ mode' = IF m.type = "INIT" THEN mode \cup {m.pin} ELSE mode
           /\ dsaved' = IF m.type = "INIT" THEN [dsaved EXCEPT ![m.pin] = INITVAL] ELSE dsaved
           /\ drive' = IF Kind[m.pin] = "output" /\ m.pin \in mode' /\ m.val # INITVAL
                       THEN [drive EXCEPT ![m.pin] = m.val] ELSE drive
           /\ UNCHANGED toHost
    /\ UNCHANGED <<hostVars, ring, level, changes, owed, faults>>

(* Mutant: the first reading after an initialisation is not sent.           *)
NewsLater(p) == p \in mode /\ Kind[p] = "toggle" /\ dsaved[p] = 1 - level[p]
News(p) == p \in mode /\ Kind[p] = "toggle" /\ dsaved[p] # level[p]

(* teensy_read                                                              *)
BoardRead ==
    /\ \E p \in Pins : News(p)
    /\ toHost' = toHost \o PinPackets({p \in Pins : News(p)}, level)
    /\ dsaved' = [p \in Pins |-> IF News(p) THEN level[p] ELSE dsaved[p]]
    /\ owed' = [p \in Pins |-> IF News(p) /\ dsaved[p] = 0 THEN owed[p] + 1 ELSE owed[p]]
    /\ UNCHANGED <<hostVars, ring, toDevice, mode, level, drive, changes, faults>>

(* as5048b_read sends one step up or down.                                  *)
BoardTurn(p, d) ==
    /\ p \in mode /\ Kind[p] = "direction" /\ changes < MaxChanges
    /\ toHost' = Append(toHost, PinPacket("REGULAR", p, d))
    /\ owed' = [owed EXCEPT ![p] = @ + d]
    /\ changes' = changes + 1
    /\ UNCHANGED <<hostVars, ring, toDevice, boardVars, faults>>

(* A switch is closed or opened.                                            *)
Operate(p) ==
    /\ Kind[p] = "toggle" /\ changes < MaxChanges
    /\ level' = [level EXCEPT ![p] = 1 - @]
    /\ changes' = changes + 1
    /\ UNCHANGED <<hostVars, ring, toDevice, toHost, mode, dsaved, drive, owed, faults>>

-----------------------------------------------------------------------------
(* Faults.                                                                  *)

Lose(m) == m.type \in LossyTypes /\ losses + restarts < MaxFaults

LosePacket ==
    /\ \/ /\ toDevice # <<>> /\ Lose(Head(toDevice))
          /\ damaged' = (damaged \/ Head(toDevice).type # "PING")
          /\ toDevice' = Tail(toDevice) /\ UNCHANGED toHost
       \/ /\ toHost # <<>> /\ Lose(Head(toHost))
          /\ damaged' = (damaged \/ Head(toHost).type # "PING")
          /\ toHost' = Tail(toHost) /\ UNCHANGED toDevice
    /\ losses' = losses + 1
    /\ UNCHANGED <<hostVars, ring, boardVars, changes, owed, restarts>>

(* xpteensy ends and is started again; the board goes on.                   *)
Restart ==
    /\ losses + restarts < MaxFaults
    /\ restarts' = restarts + 1
    /\ phase' = "init" /\ online' = FALSE /\ initialized' = FALSE
    /\ val' = [p \in Pins |-> INITVAL] /\ saved' = [p \in Pins |-> INITVAL]
    /\ ring' = <<>>
    /\ UNCHANGED <<toDevice, toHost, boardVars, changes, owed, losses, damaged>>

MainLoop == InitTeensy \/ RecvTeensy \/ UserModule \/ SendTeensy

Next ==
    \/ Ping \/ MainLoop \/ PollThread
    \/ BoardReceive \/ BoardRead
    \/ \E p \in Pins : Operate(p) \/ \E d \in {-1, 1} : BoardTurn(p, d)
    \/ LosePacket \/ Restart

Spec == Init /\ [][Next]_vars

(* The loops of program and board and the poll thread go on; a ping is due  *)
(* every second.                                                            *)
FairSpec ==
    Spec /\ WF_vars(MainLoop) /\ SF_vars(Ping) /\ WF_vars(PollThread)
         /\ WF_vars(BoardReceive) /\ WF_vars(BoardRead)

-----------------------------------------------------------------------------
(* Properties.                                                              *)

OnItsWay == ring \o toHost
Undamaged == ~damaged /\ restarts = 0

(* The packets of q about pin p with a value, those that close the switch,  *)
(* and what all of them will tell the user's modules.                       *)
With(d, p, q) == {i \in About(p, q) : q[i].val = d}
Presses(p, q) == {i \in With(1, p, q) : Latest(p, q, i - 1) = 0}
Telling(p, q) ==
    IF Kind[p] = "toggle" THEN Cardinality(Presses(p, q))
    ELSE Cardinality(With(1, p, q)) - Cardinality(With(-1, p, q))

(* The same with what has been taken but was not told yet.                  *)
ToBeTold(p) == (IF phase = "user" THEN Told(p) ELSE 0) + Telling(p, OnItsWay)

(* libteensy.c:635, 826, 926, ini.c:332: every press of a switch and every  *)
(* step of an encoder that the board has sent is told the user's modules    *)
(* once, however packets bunch up in the buffer.                            *)
EventsKept ==
    Undamaged => \A p \in Pins : Kind[p] # "output" => owed[p] = ToBeTold(p)

(* libteensy.c:635, teensy.ino:teensy_read: with no packet on its way        *)
(* xpteensy knows every switch that the board is not about to report.        *)
InputsKnown ==
    Undamaged /\ OnItsWay = <<>> =>
        \A p \in OfKind("toggle") \cap mode : News(p) \/ val[p] = level[p]

(* libteensy.c:102, 438: only changes are sent, and yet, once the board has *)
(* taken all packets of an iteration, it shows every output that was        *)
(* written, also one of a program that was started again while packets of   *)
(* its predecessor were still on their way.                                 *)
OutputsSet ==
    ~damaged /\ initialized /\ phase = "init" /\ toDevice = <<>> =>
        \A p \in OfKind("output") : val[p] \in {INITVAL, drive[p]}

(* libteensy.c:102, 438: once outputs stop changing the board shows them,   *)
(* even if pings are lost and xpteensy is started again at any moment.      *)
OutputsFollow ==
    []<>(damaged \/ \A p \in OfKind("output") : val[p] \in {INITVAL, drive[p]})

(* libteensy.c:102, teensy.ino:teensy_init: once switches stop moving       *)
(* xpteensy knows their state, also the state they had when it started.     *)
InputsFollow ==
    []<>(damaged \/ \A p \in OfKind("toggle") : val[p] = level[p])
=============================================================================
