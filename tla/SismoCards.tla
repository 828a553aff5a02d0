------------------------------ MODULE SismoCards ------------------------------
(***************************************************************************)
(* A SISMO card and the program xpsismo: packets of the card, the receive  *)
(* thread, the history of inputs, the calls of the user's modules and the  *)
(* packets that are sent to the card (libsismo.c, handleudp.c, ini.c,      *)
(* xpsismo.c).                                                             *)
(*                                                                         *)
(* The main loop runs every 10 ms, a card may send several packets in that *)
(* time.  Each change is kept in a history from which the user's modules   *)
(* see one state per iteration, so that short presses are not missed.      *)
(*                                                                         *)
(* Types 0 and 1 of digital_input (button, toggle) and type 2 of           *)
(* encoder_inputf; servos and analog inputs have code of their own.        *)
(***************************************************************************)
EXTENDS Integers, Sequences, FiniteSets

CONSTANTS
    Kind,        \* sequence: "toggle", "button" or "encoder" for each input
    InputBank,   \* bank of each input
    MAXSAVE,     \* length of the history
    RingSize,    \* packets that udpRecvBuffer holds
    BankSize,    \* outputs of a bank, 64 in the code
    Daughters,   \* the daughter cards with outputs, of {1, 2}
    Driven,      \* the outputs that the user's modules write
    Numbers,     \* records [val, dp]: what they write to the displays
    MaxChanges   \* bound: changes of inputs and of what the modules write

INPUTINITVAL == -1
BLANK == -1
MINUS == -10
INT_MISS == -99
UNCHANGED_FLAG == 0
CHANGED_FLAG == 1

Inputs == DOMAIN Kind
Banks == {InputBank[i] : i \in Inputs}
Outputs == 0 .. 3 * BankSize - 1
Displays == 0 .. 2

ASSUME SismoAssumption ==
    /\ Kind \in Seq({"toggle", "button", "encoder"})
    /\ InputBank \in [Inputs -> 0 .. 2]
    /\ MAXSAVE \in Nat /\ MAXSAVE >= 2 /\ RingSize \in Nat \ {0}
    /\ BankSize \in 1 .. Cardinality(Displays)
    /\ Daughters \subseteq {1, 2} /\ Driven \subseteq Outputs
    /\ Numbers \subseteq [val : Int, dp : Int] /\ MaxChanges \in Nat

VARIABLES
    (* xpsismo *)
    phase,           \* the next part of the main loop
    connected,       \* a packet of the card has been read
    ring,            \* udpRecvBuffer, filled by the receive thread
    inputs,          \* history of each input, the newest first
    inputs_nsave,    \* per bank: states that the user's modules have not seen
    value,           \* the variable that the user passes for a button
    outputs, outputs_changed,
    displays, displays_changed,
    (* card *)
    level,           \* its inputs; an encoder has a phase in 0 .. 3
    lamps, digits,   \* what it shows
    (* bookkeeping *)
    changes,         \* changes so far
    owed,            \* events in the packets taken, less those returned
    overrun,         \* banks whose history was full
    wanted           \* what the user's modules have written last

inVars == <<inputs, inputs_nsave, value>>
outVars == <<outputs, outputs_changed, displays, displays_changed>>
cardIn == <<level, changes>>
shownVars == <<lamps, digits>>
vars == <<phase, connected, ring, inVars, outVars, cardIn, shownVars, owed, overrun, wanted>>

Level(i) == IF Kind[i] = "encoder" THEN 0 .. 3 ELSE 0 .. 1
OfBank(b) == {i \in Inputs : InputBank[i] = b}
Cell == {BLANK, MINUS} \cup 0 .. 19
States == UNION {[OfBank(b) -> 0 .. 3] : b \in Banks}
NoNumber == [val |-> INT_MISS, dp |-> -1]

TypeOK ==
    /\ phase \in {"read", "user", "write", "reset"}
    /\ connected \in BOOLEAN
    /\ ring \in Seq([bank : Banks, state : States]) /\ Len(ring) <= RingSize
    /\ \A k \in DOMAIN ring :
        /\ DOMAIN ring[k].state = OfBank(ring[k].bank)
        /\ \A i \in OfBank(ring[k].bank) : ring[k].state[i] \in Level(i)
    /\ inputs \in [Inputs -> Seq(-1 .. 3)] /\ level \in [Inputs -> 0 .. 3]
    /\ \A i \in Inputs :
        /\ Len(inputs[i]) = MAXSAVE
        /\ \A s \in 1 .. MAXSAVE : inputs[i][s] \in Level(i) \cup {INPUTINITVAL}
        /\ level[i] \in Level(i)
    /\ value \in [Inputs -> {0, 1, INT_MISS}]
    (* no state that the user's modules are to see is one nobody has read *)
    /\ inputs_nsave \in [Banks -> 0 .. MAXSAVE]
    /\ \A i \in Inputs : \A s \in 1 .. inputs_nsave[InputBank[i]] : inputs[i][s] # INPUTINITVAL
    /\ outputs \in [Outputs -> {0, 1}] /\ outputs_changed \in [Outputs -> {0, 1}]
    /\ displays \in [Displays -> Cell] /\ displays_changed \in [Displays -> {0, 1}]
    /\ lamps \in [Outputs -> {0, 1}] /\ digits \in [Displays -> Cell]
    /\ owed \in [Inputs -> Int] /\ overrun \subseteq Banks /\ changes \in 0 .. MaxChanges
    /\ wanted \in [lamps : [Outputs -> {0, 1}], number : Numbers \cup {NoNumber}]

(* ini_sismodata; the card shows what it was told before: all lamps, 888.   *)
Init ==
    /\ phase = "read" /\ connected = FALSE /\ ring = <<>>
    /\ inputs = [i \in Inputs |-> [s \in 1 .. MAXSAVE |-> INPUTINITVAL]]
    /\ inputs_nsave = [b \in Banks |-> 0]
    /\ value = [i \in Inputs |-> INT_MISS]
    /\ outputs = [o \in Outputs |-> 0] /\ outputs_changed = [o \in Outputs |-> CHANGED_FLAG]
    /\ displays = [d \in Displays |-> BLANK]
    /\ displays_changed = [d \in Displays |-> CHANGED_FLAG]
    /\ level = [i \in Inputs |-> 0] /\ changes = 0
    /\ lamps = [o \in Outputs |-> 1]
    /\ digits = [d \in Displays |-> 8]
    /\ owed = [i \in Inputs |-> 0] /\ overrun = {}
    /\ wanted = [lamps |-> [o \in Outputs |-> 0], number |-> NoNumber]

(* What the user's module makes of a change of input i.                     *)
Event(i, old, new) ==
    CASE old = INPUTINITVAL -> 0
      [] Kind[i] = "toggle" -> IF old = 0 /\ new = 1 THEN 1 ELSE 0
      [] Kind[i] = "button" -> 0
      [] Kind[i] = "encoder" ->
            IF new = (old + 1) % 4 THEN -1 ELSE IF old = (new + 1) % 4 THEN 1 ELSE 0

-----------------------------------------------------------------------------
(* The card and the receive thread.                                         *)

(* A switch or button changes, or an encoder turns by a quarter.            *)
Operate(i) ==
    /\ changes < MaxChanges
    /\ changes' = changes + 1
    /\ \E new \in Level(i) :
        /\ IF Kind[i] = "encoder"
           THEN new \in {(level[i] + 1) % 4, (level[i] + 3) % 4}
           ELSE new # level[i]
        /\ level' = [level EXCEPT ![i] = new]
    /\ UNCHANGED <<phase, connected, ring, inVars, outVars, shownVars, owed, overrun, wanted>>

(* The state of input i that was read or taken before packet n of the ring. *)
StateBefore(i, n) ==
    LET before == {k \in 1 .. n - 1 : ring[k].bank = InputBank[i]}
    IN  IF before = {} THEN inputs[i][1]
        ELSE ring[CHOOSE k \in before : \A j \in before : j <= k].state[i]

LastTaken(i) == StateBefore(i, Len(ring) + 1)

(* udpclient_thread_main takes a packet that holds the state of bank b.  A  *)
(* packet that does not fit is dropped, and so may the network.             *)
Receive(b) ==
    /\ Len(ring) < RingSize
    /\ ring' = Append(ring, [bank |-> b, state |-> [i \in OfBank(b) |-> level[i]]])
    /\ owed' = [i \in Inputs |->
            IF i \in OfBank(b) THEN owed[i] + Event(i, LastTaken(i), level[i]) ELSE owed[i]]
    /\ UNCHANGED <<phase, connected, inVars, outVars, cardIn, shownVars, overrun, wanted>>

-----------------------------------------------------------------------------
(* read_sismo                                                               *)

(* "shift all inputs in history array by one"                               *)
Shifted(i, new) == <<new>> \o SubSeq(inputs[i], 1, MAXSAVE - 1)

(* Mutant: the number of states counts on beyond the history.               *)
CountedOn(b) == inputs_nsave[b] + 1

Counted(b) == IF inputs_nsave[b] < MAXSAVE THEN inputs_nsave[b] + 1 ELSE inputs_nsave[b]

(* One turn of the loop over udpRecvBuffer.                                 *)
ReadPacket ==
    /\ phase = "read" /\ ring # <<>>
    /\ ring' = Tail(ring)
    /\ connected' = TRUE
    /\ LET b == Head(ring).bank
           state == Head(ring).state
       IN  IF \E i \in OfBank(b) : state[i] # inputs[i][1]
           THEN /\ inputs' = [i \in Inputs |->
                        IF i \in OfBank(b) THEN Shifted(i, state[i]) ELSE inputs[i]]
                /\ inputs_nsave' = [inputs_nsave EXCEPT ![b] = Counted(b)]
                /\ overrun' = IF inputs_nsave'[b] >= MAXSAVE THEN overrun \cup {b} ELSE overrun
           ELSE UNCHANGED <<inputs, inputs_nsave, overrun>>
    /\ UNCHANGED <<phase, value, outVars, cardIn, shownVars, owed, wanted>>

ReadEnd ==
    /\ phase = "read" /\ ring = <<>>
    /\ phase' = "user"
    /\ UNCHANGED <<connected, ring, inVars, outVars, cardIn, shownVars, owed, overrun, wanted>>

-----------------------------------------------------------------------------
(* The user's modules.                                                      *)

(* Mutant: always the newest state.                                         *)
NewestSlot(b) == 1

(* "history slot to read"                                                   *)
Slot(b) == IF inputs_nsave[b] # 0 THEN inputs_nsave[b] ELSE 1

(* digital_input, toggle switch, and encoder_input, mechanical encoder.     *)
Returned(i) ==
    LET b == InputBank[i]
        s == Slot(b)
    IN  IF connected /\ inputs_nsave[b] # 0 /\ s < MAXSAVE
        THEN Event(i, inputs[i][s + 1], inputs[i][s]) ELSE 0

(* digital_input, pushbutton.                                               *)
ButtonValue(i) ==
    LET seen == inputs[i][Slot(InputBank[i])]
    IN  IF Kind[i] = "button" /\ connected /\ seen # INPUTINITVAL THEN seen ELSE value[i]

noutputs == BankSize * (1 + Cardinality(Daughters))

Magnitude(v) == IF v < 0 THEN -v ELSE v

(* tempval /= 10 is done k times.                                           *)
Power[k \in 0 .. 3] == IF k = 0 THEN 1 ELSE 10 * Power[k - 1]

(* Mutant: leading zeros are blanked up to the decimal point.               *)
DigitBlanked(number, c) ==
    LET v == Magnitude(number.val)
        len == Cardinality({k \in Displays : v >= Power[k]})
        sign == IF number.dp >= len THEN number.dp + 1 ELSE len
        point == IF c = number.dp THEN 10 ELSE 0
    IN  CASE c < len -> ((v \div Power[c]) % 10) + point
          [] c >= len /\ number.val < 0 /\ c < sign -> displays[c]
          [] c >= len /\ number.val < 0 /\ c = sign -> MINUS
          [] c >= len /\ (number.val >= 0 \/ c > sign) ->
                IF c = 0 THEN point ELSE BLANK

(* display_output: digit c, counted from the right, of a number with its    *)
(* decimal point at dp.  A display between the last digit and the sign of a *)
(* negative number keeps what it shows.                                     *)
Digit(number, c) ==
    LET v == Magnitude(number.val)
        len == Cardinality({k \in Displays : v >= Power[k]})
        sign == IF number.dp >= len THEN number.dp + 1 ELSE len
        point == IF c = number.dp THEN 10 ELSE 0
    IN  CASE c < len -> ((v \div Power[c]) % 10) + point
          [] c >= len /\ number.val < 0 /\ c < sign -> displays[c]
          [] c >= len /\ number.val < 0 /\ c = sign -> MINUS
          [] c >= len /\ (number.val >= 0 \/ c > sign) ->
                IF c = 0 \/ number.dp >= c THEN point ELSE BLANK

(* The modules read every input once and write outputs and displays, the    *)
(* same as before or other values.  INT_MISS is not displayed.              *)
UserModule ==
    /\ phase = "user"
    /\ owed' = [i \in Inputs |-> owed[i] - Returned(i)]
    /\ value' = [i \in Inputs |-> ButtonValue(i)]
    /\ IF connected
       THEN \E lit \in [Driven -> {0, 1}] : \E number \in Numbers \cup {wanted.number} :
            /\ outputs' = [o \in Outputs |->
                    IF o \in Driven /\ o < noutputs THEN lit[o] ELSE outputs[o]]
            /\ outputs_changed' = [o \in Outputs |->
                    IF outputs'[o] # outputs[o] THEN CHANGED_FLAG ELSE outputs_changed[o]]
            /\ displays' = [c \in Displays |->
                    IF number.val = INT_MISS THEN displays[c] ELSE Digit(number, c)]
            /\ displays_changed' = [c \in Displays |->
                    IF displays'[c] # displays[c] THEN CHANGED_FLAG ELSE displays_changed[c]]
            /\ wanted' = [lamps |-> outputs', number |-> number]
            /\ changes' = changes + Cardinality({o \in Outputs : outputs'[o] # outputs[o]})
                                 + (IF number = wanted.number THEN 0 ELSE 1)
            /\ changes' <= MaxChanges
       ELSE UNCHANGED <<outVars, wanted, changes>>
    /\ phase' = "write"
    /\ UNCHANGED <<connected, ring, inputs, inputs_nsave, level, shownVars, overrun>>

-----------------------------------------------------------------------------
(* write_sismo                                                              *)

(* Bank 2 begins beyond the array: there the following members of the       *)
(* structure are read and written.                                          *)
firstoutput(bank) == IF bank = 2 THEN 3 * BankSize ELSE bank * BankSize

InBank(bank, o) == firstoutput(bank) <= o /\ o < firstoutput(bank) + BankSize

OutputAt(o) == IF o \in Outputs THEN outputs[o] ELSE outputs_changed[o - 3 * BankSize]
ChangedAt(o) ==
    IF o \in Outputs THEN outputs_changed[o] ELSE displays[o - 3 * BankSize]

Written == {0} \cup Daughters

(* The banks whose packet is sent; a bank is sent as a whole.               *)
SentBanks ==
    {b \in Written : \E k \in 0 .. BankSize - 1 :
        ChangedAt(firstoutput(b) + k) = CHANGED_FLAG}

(* Mutant: a bank's packet has only the outputs that have changed.          *)
LampOfChanged(b, k) ==
    IF ChangedAt(firstoutput(b) + k) = CHANGED_FLAG THEN OutputAt(firstoutput(b) + k) ELSE 0

(* The flags of bank 0 are reset before bank 2 reads them as outputs.       *)
LampSent(b, k) == IF b = 2 THEN UNCHANGED_FLAG ELSE OutputAt(firstoutput(b) + k)

(* Where bank 2 takes a digit 1 for a flag it resets it to 0.               *)
DisplayLeft(d) ==
    IF 2 \in Written /\ d < BankSize /\ displays[d] = CHANGED_FLAG THEN 0 ELSE displays[d]

WriteSismo ==
    /\ phase = "write"
    /\ IF connected
       THEN /\ lamps' = [o \in Outputs |->
                    LET b == o \div BankSize
                    IN  IF b \in SentBanks THEN LampSent(b, o % BankSize) ELSE lamps[o]]
            /\ outputs_changed' = [o \in Outputs |->
                    IF \E b \in Written : InBank(b, o) THEN UNCHANGED_FLAG ELSE outputs_changed[o]]
            /\ displays' = [d \in Displays |-> DisplayLeft(d)]
            /\ digits' = IF \E d \in Displays : displays_changed[d] = CHANGED_FLAG
                         THEN displays' ELSE digits
            /\ displays_changed' = [d \in Displays |-> UNCHANGED_FLAG]
            /\ UNCHANGED outputs
       ELSE UNCHANGED <<outVars, shownVars>>
    /\ phase' = "reset"
    /\ UNCHANGED <<connected, ring, inVars, cardIn, owed, overrun, wanted>>

(* Mutant: the count is never taken back.                                  *)
NoneSeen(b) == inputs_nsave[b]

Left(b) == IF inputs_nsave[b] > 0 THEN inputs_nsave[b] - 1 ELSE 0

(* reset_sismodata; then the loop sleeps.                                   *)
ResetSismodata ==
    /\ phase = "reset"
    /\ inputs_nsave' = [b \in Banks |-> IF connected THEN Left(b) ELSE inputs_nsave[b]]
    /\ phase' = "read"
    /\ UNCHANGED <<connected, ring, inputs, value, outVars, cardIn, shownVars, owed, overrun, wanted>>

MainLoop == ReadPacket \/ UserModule \/ WriteSismo \/ ResetSismodata

Next ==
    \/ MainLoop \/ ReadEnd
    \/ \E i \in Inputs : Operate(i)
    \/ \E b \in Banks : Receive(b)

Spec == Init /\ [][Next]_vars

(* The main loop goes on.  A card repeats its state and the buffer is not   *)
(* always full.  The receive thread waits after each packet, so that the    *)
(* loop of read_sismo comes to an end.                                      *)
FairSpec ==
    /\ Spec
    /\ WF_vars(MainLoop) /\ SF_vars(ReadEnd)
    /\ \A b \in Banks : SF_vars(Receive(b))

-----------------------------------------------------------------------------
(* Properties.                                                              *)

(* The changes of input i in its history that the user's modules have yet   *)
(* to see.                                                                  *)
Unseen(i) ==
    LET n == inputs_nsave[InputBank[i]]
    IN  IF phase \in {"write", "reset"} THEN n - 1 ELSE n

(* Events of kind e in the history, and in the packets taken.               *)
InHistory(i, e) == {k \in 1 .. Unseen(i) : Event(i, inputs[i][k + 1], inputs[i][k]) = e}
InRing(i, e) ==
    {n \in DOMAIN ring : /\ ring[n].bank = InputBank[i]
                         /\ Event(i, StateBefore(i, n), ring[n].state[i]) = e}
Number(i, e) == Cardinality(InHistory(i, e)) + Cardinality(InRing(i, e))

(* libsismo.c:315, 625, 1099, ini.c:222: "make sure we capture the whole    *)
(* history of changed inputs": each press and each quarter turn that the    *)
(* packets taken show is returned to the user once, unless the history was  *)
(* full; no matter how packets of the banks bunch up between iterations.    *)
EventsKept ==
    \A i \in Inputs :
        InputBank[i] \notin overrun => owed[i] = Number(i, 1) - Number(i, -1)

(* The buffer and the history may overflow: once a button stays as it is    *)
(* the user's variable has its state (libsismo.c:640).                      *)
ButtonsFollow ==
    \A i \in Inputs : Kind[i] = "button" => []<>(value[i] = level[i])

(* A number that three displays show: three figures, or two and a sign.     *)
(* Left out is a negative number without a figure left of its point, such   *)
(* as -0.4: it has room, but display_output (911-921) leaves the display    *)
(* between its figures and its sign as it was.                              *)
Showable(number) ==
    LET v == Magnitude(number.val)
    IN  /\ v < 1000 /\ number.dp <= 2
        /\ number.val < 0 => v < 100 /\ (number.dp >= 0 => v >= Power[number.dp])

Shows(number) ==
    LET value_of(c) == IF digits[c] >= 10 THEN digits[c] - 10 ELSE digits[c]
        figures == {c \in Displays : digits[c] >= 0}
    IN  /\ \E top \in Displays : figures = 0 .. top /\ number.dp <= top
        /\ \A c \in figures : value_of(c) = (Magnitude(number.val) \div Power[c]) % 10
        /\ Magnitude(number.val) < Power[Cardinality(figures)]
        /\ number.val < 0 <=> \E c \in Displays : digits[c] = MINUS
        /\ \A c \in Displays : digits[c] >= 10 <=> c = number.dp

(* libsismo.c:404-586, 830-945: after each iteration the displays show the  *)
(* number written last, with its sign, its point and the zeros up to it,    *)
(* though only groups with a change are sent, and whatever was left on them *)
(* by a number that they cannot show.                                       *)
NumberShown ==
    phase = "reset" /\ wanted.number.val # INT_MISS /\ Showable(wanted.number) =>
        Shows(wanted.number)

(* libsismo.h: "connected daughter card outputs 2 (outputs 129-192)": after *)
(* each iteration master and daughters show the outputs written last.       *)
OutputsShown ==
    phase = "reset" /\ connected =>
        \A o \in 0 .. noutputs - 1 : lamps[o] = wanted.lamps[o]
=============================================================================
