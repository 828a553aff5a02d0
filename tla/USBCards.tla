------------------------------- MODULE USBCards -------------------------------
(***************************************************************************)
(* Master cards behind a USB expansion card and the program xpusb: the     *)
(* poll thread and its buffer, the protocol of the input reports, inputs   *)
(* and their old values, outputs, displays and an analog axis              *)
(* (libiocards.c, hidapi_interface.c, xpusb.c).  Encoders, key cards,      *)
(* servos, motors, the BU0836 and the chrono have code of their own.       *)
(*                                                                         *)
(* The inputs of a card are grouped in slots.  A report names the slots it *)
(* holds, then has one byte for each slot, then the last inputs of all     *)
(* slots packed into bytes; it is cut into packets.  In the code a byte    *)
(* has 8 bits, so a slot has 9 inputs, a card 8 slots, a packet 8 bytes.   *)
(***************************************************************************)
EXTENDS Integers, Sequences, FiniteSets

CONSTANTS
    MAXMASTERCARDS, \* cards that can be connected
    ncards,         \* cards defined in the ini file
    SlotsPerCard, BitsPerByte, PacketSize,
    RingSize,       \* packets that readBuffer holds
    noutputs,       \* outputs of a card
    NSegments,      \* segments of BitsPerByte outputs that are looked at
    ndisplays,
    slotspercycle,  \* segments or displays in a packet to the card
    MAX_HIST,       \* readings of an axis that are kept
    Operated,       \* inputs that change
    Type,           \* type of digital_input for each input that is read
    Driven,         \* outputs that are written
    Numbers,        \* what is written to the displays of card 0
    AxisValues,     \* readings of the axis
    MaxChanges      \* bound: changes of inputs, outputs, displays and axis

INITVAL == -1
Cards == 0 .. MAXMASTERCARDS - 1
Slots == 0 .. MAXMASTERCARDS * SlotsPerCard - 1
CardOf(slot) == slot \div SlotsPerCard

(* Input <<slot, BitsPerByte>> is the last one of the slot.                 *)
Inputs == Slots \X (0 .. BitsPerByte)
Defined == {i \in Inputs : CardOf(i[1]) < ncards}
Read == DOMAIN Type

(* The outputs of all cards in a row, as they are in memory.                *)
Outputs == 0 .. MAXMASTERCARDS * noutputs - 1
Displays == 0 .. ndisplays - 1
NoNumber == -99
Readings == AxisValues \cup {INITVAL}

ASSUME USBAssumption ==
    /\ MAXMASTERCARDS \in Nat \ {0} /\ ncards \in 1 .. MAXMASTERCARDS
    /\ SlotsPerCard \in Nat \ {0} /\ BitsPerByte \in Nat \ {0}
    /\ PacketSize \in Nat /\ PacketSize > MAXMASTERCARDS + 1
    /\ RingSize \in Nat \ {0} /\ slotspercycle \in Nat \ {0}
    /\ noutputs \in Nat \ {0} /\ NSegments \in Nat /\ ndisplays \in Nat \ {0}
    /\ noutputs <= NSegments * BitsPerByte
    /\ MAX_HIST \in Nat \ {0}
    /\ Operated \subseteq Inputs
    /\ Type \in [Read -> {"button", "toggle", "command"}] /\ Read \subseteq Defined
    /\ Driven \subseteq (0 .. ncards - 1) \X Nat
    /\ Numbers \subseteq Int \ {NoNumber} /\ AxisValues \subseteq 0 .. 255
    /\ MaxChanges \in Nat

VARIABLES
    phase,                \* the next part of the main loop
    wire, ring,           \* packets sent by the card; readBuffer
    slotdata,             \* per slot: 0 absent, 1 to be read, 2 but the last input, 3 read
    inputs, inputs_old, inputs_read,
    value,                \* the user's variable of each input that is read
    outputs, outputs_old,
    displays, displays_old,
    axes, axes_old, axes_hist,
    level, reported,      \* the card: its inputs, and as they were reported last
    lamps, digits,        \* the card: what it shows
    changes,              \* bookkeeping: changes so far
    seen,                 \* what digital_input last saw of an input
    number,               \* what was written to the displays last
    rest,                 \* the last reading of the axis and how often it came
    damaged               \* a packet was dropped, or a report was broken up

inVars == <<slotdata, inputs, inputs_old, inputs_read, value, seen>>
outVars == <<outputs, outputs_old, displays, displays_old, number>>
axisVars == <<axes, axes_old, axes_hist, rest>>
cardVars == <<level, reported, lamps, digits>>
vars == <<phase, wire, ring, inVars, outVars, axisVars, cardVars, changes, damaged>>

BLANK == 10
MINUS == 248
Bit == {0, 1}
Byte == [0 .. BitsPerByte - 1 -> Bit]
Shown == 0 .. BLANK \cup {MINUS}
Packet == [cont : BOOLEAN, axis : Readings, slots : SUBSET Slots,
           bytes : Seq(Byte)]

TypeOK ==
    /\ phase \in {"receive", "user", "send"}
    /\ wire \in Seq(Packet) /\ ring \in Seq(Packet) /\ Len(ring) <= RingSize
    /\ slotdata \in [Slots -> 0 .. 3]
    /\ inputs \in [Inputs -> Bit] /\ inputs_old \in [Inputs -> Bit \cup {INITVAL}]
    /\ inputs_read \in [Inputs -> Bit]
    /\ value \in [Read -> Bit] /\ seen \in [Read -> Bit \cup {INITVAL}]
    /\ outputs \in [Outputs -> Bit] /\ outputs_old \in [Outputs -> Bit \cup {INITVAL}]
    /\ lamps \in [Outputs -> Bit]
    /\ displays \in [Displays -> Shown] /\ displays_old \in [Displays -> Shown \cup {INITVAL}]
    /\ digits \in [Displays -> Shown] /\ number \in Numbers \cup {NoNumber}
    /\ level \in [Inputs -> Bit] /\ reported \in [Inputs -> Bit]
    /\ axes \in Readings /\ axes_old \in Readings
    /\ axes_hist \in Seq(Readings) /\ Len(axes_hist) = MAX_HIST
    /\ rest \in [val : Readings, times : 0 .. 2 * MAX_HIST]
    /\ changes \in 0 .. MaxChanges /\ damaged \in BOOLEAN
    (* whatever arrives, a slot is not read to the end before the slots     *)
    (* before it                                                            *)
    /\ \A x, y \in Slots : x < y /\ slotdata[x] # 0 => slotdata[y] <= slotdata[x]

(* initialize_iocardsdata; the card shows what it was last told.            *)
Init ==
    /\ phase = "receive" /\ wire = <<>> /\ ring = <<>>
    /\ slotdata = [x \in Slots |-> 0]
    /\ inputs = [i \in Inputs |-> 0] /\ inputs_old = [i \in Inputs |-> INITVAL]
    /\ inputs_read = [i \in Inputs |-> 0]
    /\ value = [i \in Read |-> 0] /\ seen = [i \in Read |-> INITVAL]
    /\ outputs = [o \in Outputs |-> 0] /\ outputs_old = [o \in Outputs |-> INITVAL]
    /\ displays = [d \in Displays |-> 0] /\ displays_old = [d \in Displays |-> INITVAL]
    /\ number = NoNumber
    /\ axes = INITVAL /\ axes_old = INITVAL
    /\ axes_hist = [h \in 1 .. MAX_HIST |-> INITVAL]
    /\ rest = [val |-> INITVAL, times |-> 0]
    /\ level = [i \in Inputs |-> 0] /\ reported = [i \in Inputs |-> 0]
    /\ lamps = [o \in Outputs |-> 1] /\ digits = [d \in Displays |-> 8]
    /\ changes = 0 /\ damaged = FALSE

(* Number of elements of S before x.                                        *)
Rank(x, S) == Cardinality({y \in S : y < x})

-----------------------------------------------------------------------------
(* The expansion card.                                                      *)

Operate(i) ==
    /\ changes < MaxChanges /\ changes' = changes + 1
    /\ level' = [level EXCEPT ![i] = 1 - @]
    /\ UNCHANGED <<phase, wire, ring, inVars, outVars, axisVars, reported, lamps, digits, damaged>>

News == {x \in Slots : \E b \in 0 .. BitsPerByte : level[<<x, b>>] # reported[<<x, b>>]}

At(k, S) == CHOOSE x \in S : Rank(x, S) = k

(* "The first 8 inputs of each slot are read first, followed by an optional *)
(* vector of the 9th input for each slot".                                  *)
BytesOf(S) ==
    [k \in 1 .. Cardinality(S) |-> [b \in 0 .. BitsPerByte - 1 |-> level[<<At(k - 1, S), b>>]]]
    \o [k \in 1 .. (Cardinality(S) + BitsPerByte - 1) \div BitsPerByte |->
            [b \in 0 .. BitsPerByte - 1 |->
                LET r == (k - 1) * BitsPerByte + b
                IN  IF r < Cardinality(S) THEN level[<<At(r, S), BitsPerByte>>] ELSE 0]]

(* The report of the slots S.  The first packet has a byte that names the   *)
(* cards and one for each card that names its slots.  A reading of the axis *)
(* goes into a byte before them: v in the first packet, w in the others.    *)
Report(S, v, w) ==
    LET bytes == BytesOf(S)
        RoomWith(reading) == IF reading = INITVAL THEN PacketSize - 1 ELSE PacketSize - 2
        room == RoomWith(w)
        first == RoomWith(v) - Cardinality({CardOf(x) : x \in S})
        more == IF Len(bytes) <= first THEN 0 ELSE (Len(bytes) - first + room - 1) \div room
        Upto(k) == IF first + k * room <= Len(bytes) THEN first + k * room ELSE Len(bytes)
    IN  [k \in 1 .. more + 1 |->
            [cont |-> k > 1, axis |-> IF k = 1 THEN v ELSE w,
             slots |-> IF k = 1 THEN S ELSE {},
             bytes |-> IF k = 1 THEN SubSeq(bytes, 1, Upto(0))
                       ELSE SubSeq(bytes, Upto(k - 2) + 1, Upto(k - 1))]]

(* Bound: readings wait for the program in the packets of one report only.  *)
NoReadingWaits == \A k \in DOMAIN (ring \o wire) : (ring \o wire)[k].axis = INITVAL

(* Slots with a change are reported, alone or with all others, with or      *)
(* without a reading of the axis.                                           *)
SendReport ==
    /\ News # {} /\ \A k \in DOMAIN wire : ~wire[k].cont /\ wire[k].slots = {}
    /\ \E S \in {News, Slots}, v, w \in Readings :
        /\ v # INITVAL \/ w # INITVAL => NoReadingWaits
        /\ wire' = wire \o Report(S, v, w)
        /\ changes' = changes + Cardinality({v, w} \ {INITVAL, rest.val})
        /\ changes' <= MaxChanges
    /\ reported' = level
    /\ UNCHANGED <<phase, ring, inVars, outVars, axisVars, level, lamps, digits, damaged>>

(* The converter reports continually, every 10 ms, in packets of their own, *)
(* too: after the last packet of a report or, which nothing rules out,      *)
(* before it.  Such a packet is no continuation, and receive_mastercard     *)
(* forgets the slots of the report it comes into.                           *)
SendAxis(v) ==
    /\ NoReadingWaits
    /\ changes' = IF v = rest.val THEN changes ELSE changes + 1
    /\ changes' <= MaxChanges
    /\ \E k \in 0 .. Len(wire) :
        /\ wire' = SubSeq(wire, 1, k)
                   \o <<[cont |-> FALSE, axis |-> v, slots |-> {}, bytes |-> <<>>]>>
                   \o SubSeq(wire, k + 1, Len(wire))
        /\ k < Len(wire) => wire[k + 1].cont
        /\ damaged' = (damaged \/ k < Len(wire))
    /\ UNCHANGED <<phase, ring, inVars, outVars, axisVars, cardVars>>

(* Mutant: the packet itself is not counted.                                *)
HasRoomForOne == Len(ring) <= RingSize
HasRoom == Len(ring) + 1 <= RingSize

(* poll_thread_main: a packet that does not fit is dropped.                 *)
PollThread ==
    /\ wire # <<>>
    /\ wire' = Tail(wire)
    /\ IF HasRoom
       THEN ring' = Append(ring, Head(wire)) /\ UNCHANGED damaged
       ELSE damaged' = TRUE /\ UNCHANGED ring
    /\ UNCHANGED <<phase, inVars, outVars, axisVars, cardVars, changes>>

-----------------------------------------------------------------------------
(* receive_mastercard                                                       *)

(* Mutant: a continuation is taken for a new report.                        *)
PresentForgotten(p) == [x \in Slots |-> IF x \in p.slots THEN 1 ELSE 0]

(* "clean slot index data", then "fill slot index data".                    *)
Present(p) ==
    IF p.cont THEN slotdata ELSE [x \in Slots |-> IF x \in p.slots THEN 1 ELSE 0]

(* "present slots fill up subsequent bytes with their 9th bit data"         *)
LastBit(x, S, before) == (before + Rank(x, S)) % BitsPerByte

(* One packet: its bytes go to the slots that still lack one, then to the   *)
(* last inputs of all slots, BitsPerByte at a time.                         *)
Decoded(p) ==
    LET data == Present(p)
        Left == {x \in Slots : data[x] = 1}
        n == Len(p.bytes)
        First == {x \in Left : Rank(x, Left) < n}
        Nine == IF n > Cardinality(Left)
                THEN {x \in Slots : data[x] = 2} \cup First ELSE {}
        NineByte(x) == Cardinality(Left) + Rank(x, Nine) \div BitsPerByte + 1
        Last == {x \in Nine : NineByte(x) <= n}
        before == Cardinality({x \in Slots : data[x] = 3})
    IN  [slotdata |-> [x \in Slots |->
            IF x \in Last THEN 3 ELSE IF x \in First THEN 2 ELSE data[x]],
         inputs |-> [i \in Inputs |->
            IF i \in Defined /\ i[2] < BitsPerByte /\ i[1] \in First
            THEN p.bytes[Rank(i[1], Left) + 1][i[2]]
            ELSE IF i \in Defined /\ i[2] = BitsPerByte /\ i[1] \in Last
            THEN p.bytes[NineByte(i[1])][LastBit(i[1], Nine, before)]
            ELSE inputs[i]]]

Distance(a, b) == IF a < b THEN b - a ELSE a - b

(* temparr[MAX_HIST/2] of the sorted history                                *)
Median(h) ==
    h[CHOOSE k \in DOMAIN h :
        LET smaller == Cardinality({j \in DOMAIN h : h[j] < h[k]})
            upto == Cardinality({j \in DOMAIN h : h[j] <= h[k]})
        IN  smaller <= MAX_HIST \div 2 /\ MAX_HIST \div 2 < upto]

noise == 1

(* A reading near the value of the last iteration is ignored; one near the  *)
(* median goes into the history only.                                       *)
ReadAxis(v) ==
    /\ IF Distance(v, axes_old) > 1 \/ v \in {0, 255}
       THEN /\ axes' = IF Median(axes_hist) # INITVAL /\ Distance(v, Median(axes_hist)) <= noise
                       THEN axes ELSE v
            /\ axes_hist' = <<v>> \o SubSeq(axes_hist, 1, MAX_HIST - 1)
       ELSE UNCHANGED <<axes, axes_hist>>
    /\ rest' = [val |-> v,
                times |-> IF rest.val # v THEN 1
                          ELSE IF rest.times < 2 * MAX_HIST THEN rest.times + 1
                          ELSE rest.times]

ReadPacket ==
    /\ phase = "receive" /\ ring # <<>>
    /\ ring' = Tail(ring)
    /\ slotdata' = Decoded(Head(ring)).slotdata
    /\ inputs' = Decoded(Head(ring)).inputs
    /\ IF Head(ring).axis # INITVAL
       THEN ReadAxis(Head(ring).axis) ELSE UNCHANGED <<axes, axes_hist, rest>>
    /\ UNCHANGED <<phase, wire, inputs_old, inputs_read, value, seen, axes_old,
                   outVars, cardVars, changes, damaged>>

ReadEnd ==
    /\ phase = "receive" /\ ring = <<>>
    /\ phase' = "user"
    /\ UNCHANGED <<wire, ring, inVars, outVars, axisVars, cardVars, changes, damaged>>

-----------------------------------------------------------------------------
(* The user's modules.                                                      *)

(* digital_input: a button gives its state; when it is pressed, a toggle    *)
(* turns the variable over and a command sets it.                           *)
ValueRead(i) ==
    LET pressed == inputs_old[i] = 0 /\ inputs[i] = 1
    IN  CASE Type[i] = "button" -> inputs[i]
          [] Type[i] = "toggle" /\ pressed -> 1 - value[i]
          [] Type[i] = "command" /\ pressed -> 1
          [] OTHER -> value[i]

(* digital_output: output o of a card; "<=" lets one output too many pass.  *)
Position(c, o) == c * noutputs + o
Acceptable(c, o) == c < ncards /\ o <= noutputs /\ Position(c, o) \in Outputs

Magnitude(v) == IF v < 0 THEN -v ELSE v

(* pow(10, k)                                                               *)
Power[k \in 0 .. ndisplays] == IF k = 0 THEN 1 ELSE 10 * Power[k - 1]

(* Mutant: a zero is blanked in the last place, too.                        *)
DigitBlanked(v, c) ==
    LET shown == Magnitude(v) % Power[ndisplays]
        top == Cardinality({k \in 1 .. ndisplays - 1 : shown >= Power[k]})
    IN  IF c <= top /\ shown # 0 THEN (shown \div Power[c]) % 10
        ELSE IF v < 0 /\ c = top + 1 THEN MINUS ELSE BLANK

(* mastercard_display: high values are cut, zeros on the left are blank but *)
(* the last one, a minus sign is put left of the number if there is room.   *)
Digit(v, c) ==
    LET shown == Magnitude(v) % Power[ndisplays]
        top == Cardinality({k \in 1 .. ndisplays - 1 : shown >= Power[k]})
    IN  IF c <= top THEN (shown \div Power[c]) % 10
        ELSE IF v < 0 /\ c = top + 1 THEN MINUS ELSE BLANK

(* Modules read some of the inputs, others only in other iterations, and    *)
(* write outputs and displays.                                              *)
UserModule ==
    /\ phase = "user"
    /\ \E looked \in SUBSET Read :
        /\ inputs_read' = [i \in Inputs |-> IF i \in looked THEN 1 ELSE inputs_read[i]]
        /\ value' = [i \in Read |-> IF i \in looked THEN ValueRead(i) ELSE value[i]]
        /\ seen' = [i \in Read |-> IF i \in looked THEN inputs[i] ELSE seen[i]]
    /\ \E turned \in SUBSET {d \in Driven : Acceptable(d[1], d[2])} :
       \E v \in Numbers \cup {number} :
        /\ outputs' = [o \in Outputs |->
                IF \E d \in turned : Position(d[1], d[2]) = o THEN 1 - outputs[o] ELSE outputs[o]]
        /\ displays' = [c \in Displays |-> IF v = NoNumber THEN displays[c] ELSE Digit(v, c)]
        /\ number' = v
        /\ changes' = changes + Cardinality(turned) + (IF v = number THEN 0 ELSE 1)
        /\ changes' <= MaxChanges
    /\ phase' = "send"
    /\ UNCHANGED <<wire, ring, slotdata, inputs, inputs_old, outputs_old, displays_old,
                   axisVars, cardVars, damaged>>

-----------------------------------------------------------------------------
(* send_mastercard and copy_iocardsdata                                     *)

(* Mutant: only full packets are sent.                                      *)
WrittenIfFull(Changed, last) ==
    LET turn[k \in -1 .. last] ==
            IF k = -1 THEN [packet |-> <<>>, sent |-> {}]
            ELSE LET packet == IF k \in Changed THEN Append(turn[k - 1].packet, k)
                               ELSE turn[k - 1].packet
                 IN  IF Len(packet) = slotspercycle
                     THEN [packet |-> <<>>,
                           sent |-> turn[k - 1].sent \cup {packet[j] : j \in DOMAIN packet}]
                     ELSE [packet |-> packet, sent |-> turn[k - 1].sent]
    IN  turn[last].sent

(* The loops that fill a packet with up to slotspercycle of the changed     *)
(* segments or displays 0 .. last, and write it when it is full or after    *)
(* the last one: what has been written.                                     *)
Written(Changed, last) ==
    LET turn[k \in -1 .. last] ==
            IF k = -1 THEN [packet |-> <<>>, sent |-> {}]
            ELSE LET packet == IF k \in Changed THEN Append(turn[k - 1].packet, k)
                               ELSE turn[k - 1].packet
                 IN  IF Len(packet) = slotspercycle \/ (packet # <<>> /\ k = last)
                     THEN [packet |-> <<>>,
                           sent |-> turn[k - 1].sent \cup {packet[j] : j \in DOMAIN packet}]
                     ELSE [packet |-> packet, sent |-> turn[k - 1].sent]
    IN  turn[last].sent

Segment(o) == (o % noutputs) \div BitsPerByte

(* Segments of card c with a change; a segment is sent as a whole.          *)
ChangedSegments(c) ==
    {Segment(o) : o \in {o \in Outputs : o \div noutputs = c /\ outputs[o] # outputs_old[o]}}

ChangedDisplays == {d \in Displays : displays[d] # displays_old[d]}

(* Mutant: inputs nobody has read become old, too.                          *)
CopiedAlways(i) == TRUE
Copied(i) == inputs_read[i] = 1

SendMastercard ==
    /\ phase = "send"
    /\ lamps' = [o \in Outputs |->
            LET c == o \div noutputs
            IN  IF c < ncards /\ Segment(o) \in Written(ChangedSegments(c), NSegments - 1)
                THEN outputs[o] ELSE lamps[o]]
    /\ digits' = [d \in Displays |->
            IF d \in Written(ChangedDisplays, ndisplays - 1) THEN displays[d] ELSE digits[d]]
    /\ inputs_old' = [i \in Inputs |-> IF Copied(i) THEN inputs[i] ELSE inputs_old[i]]
    /\ inputs_read' = [i \in Inputs |-> 0]
    /\ outputs_old' = [o \in Outputs |-> IF o \div noutputs < ncards THEN outputs[o] ELSE outputs_old[o]]
    /\ displays_old' = displays
    /\ axes_old' = axes
    /\ phase' = "receive"
    /\ UNCHANGED <<wire, ring, slotdata, inputs, value, seen, outputs, displays, number,
                   axes, axes_hist, rest, level, reported, changes, damaged>>

Next ==
    \/ \E i \in Operated : Operate(i)
    \/ SendReport
    \/ \E v \in AxisValues : SendAxis(v)
    \/ PollThread
    \/ ReadPacket \/ ReadEnd \/ UserModule \/ SendMastercard

Spec == Init /\ [][Next]_vars

-----------------------------------------------------------------------------
(* Properties.                                                              *)

(* libiocards.c:1479-1668: once everything the card has reported is read,   *)
(* inputs has the state of every defined card, however a report was cut     *)
(* into packets, whichever of them carry a reading of the axis, and         *)
(* whatever undefined cards have put into it; unless a packet was dropped   *)
(* or a packet of the axis came between two packets of a report.            *)
InputsAgree ==
    wire = <<>> /\ ring = <<>> /\ ~damaged => \A i \in Defined : inputs[i] = reported[i]

(* libiocards.c:377: "only copy new to old input data if the input data was *)
(* read at least once": what digital_input compares with is what it saw     *)
(* when the input was last read, in whichever iteration that was.           *)
ChangesKept ==
    phase # "send" => \A i \in Read : inputs_old[i] = seen[i]

(* libiocards.c:1240-1391: after an iteration the card shows all outputs    *)
(* and displays, though only changes are sent, some at a time.              *)
OutputsShown ==
    phase = "receive" /\ changes > 0 /\ outputs_old[0] # INITVAL =>
        /\ \A o \in Outputs : o < ncards * noutputs => lamps[o] = outputs[o]
        /\ \A d \in Displays : digits[d] = displays[d]

(* libiocards.c:954-993: the displays show the number that was written last *)
(* if it has room, with its sign.                                           *)
NumberShown ==
    LET figures == {d \in Displays : digits[d] <= 9}
    IN  phase = "receive" /\ number # NoNumber /\ Magnitude(number) < Power[ndisplays - 1] =>
            /\ \E top \in Displays : figures = 0 .. top
            /\ \A d \in figures : digits[d] = (Magnitude(number) \div Power[d]) % 10
            /\ Magnitude(number) < Power[Cardinality(figures)]
            /\ number < 0 <=> \E d \in Displays : digits[d] = MINUS

(* libiocards.c:1519: "Analog input values are flickering with spikes ...   *)
(* Here we use a median filter": an axis that has rested for twice as many  *)
(* readings as the history holds has that reading as its value, up to the   *)
(* noise.                                                                   *)
AxisSettles == rest.times >= 2 * MAX_HIST => Distance(axes, rest.val) <= noise
=============================================================================
