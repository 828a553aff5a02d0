------------------------------- MODULE SetState -------------------------------
(***************************************************************************)
(* Switches of the cockpit and of X-Plane are brought into line by         *)
(* commands: set_state_updn, set_state_toggle and set_switch_cover compare *)
(* the wanted position with X-Plane's and press a command button, once per *)
(* INTERVAL_UPDN, until both agree (serverdata.c).  X-Plane is found and   *)
(* connected as in Beacon; subscribing is reduced to one request and its   *)
(* answer, which DatarefExchange has in full.                              *)
(***************************************************************************)
EXTENDS Beacon, Sequences

CONSTANTS
    Updn, Toggles, Covers,  \* controls, by the function that sets them
    Top,                    \* last position of a control with up and down
    INTERVAL_UPDN,          \* milliseconds between two presses
    interval,               \* milliseconds of an iteration of the main loop
    Miss,                   \* FLT_MISS
    MaxChanges              \* bound: changes of the wanted positions

Controls == Updn \cup Toggles \cup Covers

(* A cover is animated: 0 is closed, 1 on its way, 2 open.                  *)
Positions(c) == IF c \in Updn THEN 0 .. Top ELSE IF c \in Covers THEN 0 .. 2 ELSE {0, 1}
Choices(c) == IF c \in Updn THEN 0 .. Top ELSE {0, 1}

ASSUME SetStateAssumption ==
    /\ Updn \cap Toggles = {} /\ Updn \cap Covers = {} /\ Toggles \cap Covers = {}
    /\ Top \in Nat \ {0} /\ Miss \notin 0 .. Top + 2
    /\ INTERVAL_UPDN \in Nat \ {0} /\ interval \in 1 .. INTERVAL_UPDN
    /\ MaxChanges \in Nat

VARIABLES
    (* the client *)
    phase,             \* the next call of the main loop
    interval_counter,
    linked,            \* the subscriptions: "no", "asked", "answered", "valid"
    wanted,            \* position of the switch in the cockpit
    copy,              \* data of the control's dataref
    pressed,           \* data of its commands: 1 up or toggle, -1 down, 0 none
    (* in flight *)
    c2s,               \* presses
    s2c,               \* last value of each dataref, or Miss
    (* X-Plane *)
    shown,             \* the plugin's copy of the dataref
    pos,
    motion,            \* where a cover moves or has moved: 0 or 2
    (* bookkeeping *)
    steady,            \* the subscriptions were valid when interval_counter was 0 last
    sure,              \* and one period earlier
    changes

panelVars == <<phase, interval_counter, linked, wanted, copy, pressed>>
flightVars == <<c2s, s2c>>
simVars == <<shown, pos, motion>>
ghostVars == <<steady, sure, changes>>
vars == <<beaconVars, panelVars, flightVars, simVars, ghostVars>>

Period == INTERVAL_UPDN \div interval
AllMiss == [c \in Controls |-> Miss]
AtRest == [c \in Controls |-> 0]

(* Arrays of controls keep their ranges, and interval_counter comes back to  *)
(* 0, or no control would ever be set again.                                *)
TypeOK ==
    /\ BeaconTypeOK
    /\ phase \in {"check", "receive", "user"}
    /\ interval_counter \in 0 .. Period - 1
    /\ linked \in {"no", "asked", "answered", "valid"}
    /\ \A c \in Controls :
        /\ wanted[c] \in Choices(c)
        /\ {copy[c], s2c[c], shown[c]} \subseteq Positions(c) \cup {Miss}
        /\ pressed[c] \in IF c \in Updn THEN {-1, 0, 1} ELSE {0, 1}
        /\ pos[c] \in Positions(c)
        /\ motion[c] \in {0, 2}
    /\ Len(c2s) <= 2
    /\ linked # "no" => sock = "Connected"

Init ==
    /\ BeaconInit
    /\ phase = "check" /\ interval_counter = 0 /\ linked = "no"
    /\ wanted = AtRest
    /\ copy = AllMiss /\ pressed = AtRest
    /\ c2s = <<>> /\ s2c = AllMiss
    /\ shown = AllMiss /\ pos = AtRest /\ motion = AtRest
    /\ steady = FALSE /\ sure = FALSE /\ changes = 0

-----------------------------------------------------------------------------
(* The client's main loop.                                                  *)

Check ==
    /\ phase = "check"
    /\ CheckXpserver
    /\ phase' = "receive"
    /\ UNCHANGED <<interval_counter, linked, wanted, copy, pressed,
                   flightVars, simVars, ghostVars>>

(* Mutant: one more iteration.                                              *)
CountedToo(k) == IF k > Period THEN 0 ELSE k

Counted(k) == IF k >= Period THEN 0 ELSE k

(* INTERVAL_UPDN "needs feedback time from flight simulator states": what a  *)
(* press does is seen before the next press.  A cover needs only have begun *)
(* to move.                                                                 *)
Prompt ==
    /\ c2s = <<>>
    /\ \A c \in Controls \ Covers : copy'[c] = pos[c]
    /\ \A c \in Covers : copy'[c] \notin {Miss, 2 - motion[c]}

(* receive_xpserver, after a time in which everything in flight has arrived *)
(* or nothing.                                                              *)
Receive ==
    /\ phase = "receive" /\ phase' = "user"
    /\ interval_counter' = Counted(interval_counter + 1)
    /\ \/ /\ sock = "Ready" \/ alive
          /\ \/ copy' = copy /\ s2c' = s2c /\ linked' = linked
             \/ /\ copy' = [c \in Controls |-> IF s2c[c] # Miss THEN s2c[c] ELSE copy[c]]
                /\ s2c' = AllMiss
                /\ linked' = IF linked = "answered" THEN "valid" ELSE linked
          /\ steady /\ interval_counter' = 0 => Prompt
          /\ steady' = IF interval_counter' = 0 THEN linked' = "valid" ELSE steady
          /\ sure' = IF interval_counter' = 0 THEN steady ELSE sure
          /\ UNCHANGED <<beaconVars, c2s>>
       \/ /\ NoticeEnd
          /\ linked' = "no"
          /\ c2s' = <<>> /\ s2c' = AllMiss
          /\ steady' = FALSE /\ sure' = FALSE
          /\ UNCHANGED copy
    /\ UNCHANGED <<wanted, pressed, simVars, changes>>

(* Mutant: a cover on its way is not open yet.                              *)
OpenAtEnd(c) == IF copy[c] = 2 THEN 1 ELSE 0

(* set_switch_cover: a cover is open when it has begun to open, and closed  *)
(* when it has begun to close.                                              *)
CoverOpen(c) ==
    IF wanted[c] = 1
    THEN IF copy[c] > 0 THEN 1 ELSE 0
    ELSE IF copy[c] = 2 THEN 1 ELSE 0

OldState(c) == IF c \in Covers THEN CoverOpen(c) ELSE copy[c]

(* Mutant: a press in every iteration.                                      *)
AtOnce(c) == copy[c] # Miss

Due(c) == copy[c] # Miss /\ interval_counter = 0

(* set_state_updn, set_state_toggle.                                        *)
Press(c) ==
    CASE Due(c) /\ wanted[c] > OldState(c) -> 1
      [] Due(c) /\ wanted[c] < OldState(c) -> IF c \in Updn THEN -1 ELSE 1
      [] OTHER -> pressed[c]

Chosen == [c \in Controls |-> Press(c)]

(* The user's module, then send_xpserver, which sends a press once and       *)
(* resets it.                                                               *)
UserAndSend ==
    /\ phase = "user" /\ phase' = "check"
    /\ linked' = IF sock = "Connected" /\ linked = "no" THEN "asked" ELSE linked
    /\ LET sending == linked = "valid" /\ Chosen # AtRest IN
        /\ pressed' = IF sending THEN AtRest ELSE Chosen
        /\ c2s' = IF sending /\ alive
                  THEN Append(c2s, [press |-> Chosen, aim |-> wanted, sure |-> sure])
                  ELSE c2s
    /\ UNCHANGED <<beaconVars, interval_counter, wanted, copy, s2c, simVars, ghostVars>>

MainLoop == Check \/ Receive \/ UserAndSend

(* Somebody moves a switch; the user's module is the first to see it.       *)
Turn(c) ==
    /\ phase = "user" /\ changes < MaxChanges
    /\ \E v \in Choices(c) \ {wanted[c]} : wanted' = [wanted EXCEPT ![c] = v]
    /\ changes' = changes + 1
    /\ UNCHANGED <<beaconVars, phase, interval_counter, linked, copy, pressed,
                   flightVars, simVars, steady, sure>>

-----------------------------------------------------------------------------
(* The plugin and X-Plane.                                                  *)

Bounded(n) == IF n < 0 THEN 0 ELSE IF n > Top THEN Top ELSE n

(* What a press does to a control.                                          *)
Moved(c, p) ==
    IF c \in Updn THEN Bounded(pos[c] + p)
    ELSE IF c \in Toggles /\ p # 0 THEN 1 - pos[c]
    ELSE pos[c]

Execute ==
    /\ alive /\ c2s # <<>>
    /\ LET press == Head(c2s).press IN
        /\ pos' = [c \in Controls |-> Moved(c, press[c])]
        /\ motion' = [c \in Controls |->
              IF c \in Covers /\ press[c] # 0 THEN 2 - motion[c] ELSE motion[c]]
    /\ c2s' = Tail(c2s)
    /\ UNCHANGED <<beaconVars, panelVars, s2c, shown, ghostVars>>

Animate(c) ==
    /\ pos[c] # motion[c]
    /\ pos' = [pos EXCEPT ![c] = IF motion[c] > @ THEN @ + 1 ELSE @ - 1]
    /\ UNCHANGED <<beaconVars, panelVars, flightVars, shown, motion, ghostVars>>

(* The request is answered; the values follow with the next callback.       *)
Answer ==
    /\ alive /\ linked = "asked"
    /\ linked' = "answered"
    /\ shown' = AllMiss
    /\ UNCHANGED <<beaconVars, phase, interval_counter, wanted, copy, pressed,
                   flightVars, pos, motion, ghostVars>>

SendClient ==
    /\ alive /\ linked \in {"answered", "valid"} /\ shown # pos
    /\ s2c' = [c \in Controls |-> IF shown[c] # pos[c] THEN pos[c] ELSE s2c[c]]
    /\ shown' = pos
    /\ UNCHANGED <<beaconVars, panelVars, c2s, pos, motion, ghostVars>>

Plugin == Execute \/ Answer \/ SendClient

(* What Beacon describes goes on beside the panel.                          *)
Beside(A) == A /\ UNCHANGED <<panelVars, flightVars, simVars, ghostVars>>

(* X-Plane starts with every control at rest.                               *)
Start ==
    /\ XPlaneStart
    /\ pos' = AtRest /\ motion' = AtRest
    /\ UNCHANGED <<panelVars, flightVars, shown, ghostVars>>

XPlane ==
    \/ Start \/ Beside(XPlaneStop) \/ Beside(ConnectionLost)
    \/ \E c \in Covers : Animate(c)

Thread == Beside(BeaconReceive) \/ Beside(BeaconTimeout) \/ Beside(WriteDone)

Next == MainLoop \/ Plugin \/ XPlane \/ Thread \/ \E c \in Controls : Turn(c)

(* The main loop runs on; receive_xpserver does not always find nothing; a   *)
(* running X-Plane accepts in the end, calls the plugin again and again,    *)
(* and moves covers on.  The thread is not stopped in the middle of a       *)
(* write; beacons are lost, but not all of them, and without an X-Plane the *)
(* seconds of silence pass.                                                 *)
Fairness ==
    /\ WF_vars(MainLoop)
    /\ SF_vars(Receive /\ s2c' = AllMiss /\ linked' # "answered")
    /\ SF_vars(Check /\ sock' # sock)
    /\ WF_vars(Plugin)
    /\ \A c \in Covers : WF_vars(Animate(c))
    /\ WF_vars(Beside(WriteDone))
    /\ SF_vars(Beside(BeaconReceive))
    /\ WF_vars(Beside(BeaconTimeout) /\ master = None)

FairSpec == Init /\ [][Next]_vars /\ Fairness

-----------------------------------------------------------------------------
(* Feedback within INTERVAL_UPDN is enough: while the connection holds, each *)
(* press that X-Plane carries out brings the control nearer to the position *)
(* that was wanted when it was pressed; none is pressed on an outdated copy *)
(* and none overshoots.                                                     *)
Distance(c, p, m, aim) ==
    IF c \in Covers THEN (IF m = 2 * aim THEN 0 ELSE 1)
    ELSE IF p > aim THEN p - aim ELSE aim - p

EachPressHelps ==
    [][\A c \in Controls :
        (Len(c2s') < Len(c2s) /\ alive /\ Head(c2s).sure /\ Head(c2s).press[c] # 0) =>
            Distance(c, pos'[c], motion'[c], Head(c2s).aim[c])
                < Distance(c, pos[c], motion[c], Head(c2s).aim[c])]_vars

(* Once connected for good (see Reached), X-Plane's controls end where the   *)
(* cockpit's are, also after a press on an outdated copy and after one that *)
(* waited while the connection was down.                                    *)
Reaches(c) == pos[c] = IF c \in Covers THEN 2 * wanted[c] ELSE wanted[c]

Settles == <>[]alive => <>[](\A c \in Controls : Reaches(c))
=============================================================================
