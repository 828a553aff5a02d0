---------------------------- MODULE SetStateProofs ----------------------------
(***************************************************************************)
(* The address that a client connects to, for every timeout, any number of *)
(* hosts and controls, and outages without end: it is remembered only as   *)
(* long as X-Plane is heard, and a live connection leads to the running    *)
(* X-Plane.  Then the controls that are set through that connection: the   *)
(* arrays keep their ranges, and each press helps.                         *)
(***************************************************************************)
EXTENDS SetState, DataLemmas

(* The inductive invariant: a write of the empty address begins at the limit, *)
(* and nothing else is written before a beacon resets the counter.          *)
BeaconInv == BeaconTypeOK /\ KnownWhileHeard

LEMMA BeaconInitial == BeaconInit => BeaconInv
<1>. SUFFICES ASSUME BeaconInit PROVE BeaconInv
  OBVIOUS
<1>1. outages \in 0 .. MaxOutages /\ timeouts \in 0 .. XPBEACON_POLL_MAX_TIMEOUT + 1
  BY BeaconAssumption DEF BeaconInit
<1>2. ~(timeouts >= XPBEACON_POLL_MAX_TIMEOUT)
  BY BeaconAssumption DEF BeaconInit
<1>. QED
  BY <1>1, <1>2 DEF BeaconInit, BeaconInv, BeaconTypeOK, KnownWhileHeard

(* One step per action of Beacon.                                           *)
LEMMA ReceiveKeeps == BeaconInv /\ BeaconReceive => BeaconInv'
  BY BeaconAssumption
  DEF BeaconInv, BeaconTypeOK, KnownWhileHeard, BeaconReceive, Reading,
      CounterAfterBeacon, networkVars, clientVars

LEMMA TimeoutKeeps == BeaconInv /\ BeaconTimeout => BeaconInv'
  BY BeaconAssumption
  DEF BeaconInv, BeaconTypeOK, KnownWhileHeard, BeaconTimeout, Reading,
      LimitReached, networkVars, clientVars

LEMMA WriteKeeps == BeaconInv /\ WriteDone => BeaconInv'
  BY BeaconAssumption
  DEF BeaconInv, BeaconTypeOK, KnownWhileHeard, WriteDone, Reading,
      networkVars, clientVars

LEMMA CheckKeeps == BeaconInv /\ CheckXpserver => BeaconInv'
<1>. SUFFICES ASSUME BeaconInv, CheckXpserver PROVE BeaconInv'
  OBVIOUS
<1>1. CASE sock = "Ready"
  <2>1. Copies \subseteq Hosts \cup {None, Torn}
    <3>1. {beaconIP, writing} \subseteq Hosts \cup {None}
      BY DEF BeaconInv, BeaconTypeOK
    <3>. QED
      BY <3>1 DEF Copies
  <2>. QED
    BY <1>1, <2>1 DEF BeaconInv, BeaconTypeOK, KnownWhileHeard, CheckXpserver,
       AddressTaken, threadVars
<1>2. CASE sock = "Connected" /\ UNCHANGED beaconVars
  BY <1>2 DEF BeaconInv, BeaconTypeOK, KnownWhileHeard, beaconVars,
     networkVars, threadVars, clientVars
<1>. QED
  BY <1>1, <1>2 DEF CheckXpserver

LEMMA NetworkKeeps ==
    BeaconInv /\ (NoticeEnd \/ XPlaneStart \/ XPlaneStop \/ ConnectionLost) => BeaconInv'
<1>. SUFFICES ASSUME BeaconInv, NoticeEnd \/ XPlaneStart \/ XPlaneStop \/ ConnectionLost
              PROVE  BeaconInv'
  OBVIOUS
<1>1. UNCHANGED threadVars
  BY DEF NoticeEnd, XPlaneStart, XPlaneStop, ConnectionLost
<1>2. outages' \in 0 .. MaxOutages
  BY BeaconAssumption
  DEF BeaconInv, BeaconTypeOK, NoticeEnd, XPlaneStart, XPlaneStop, ConnectionLost, networkVars
<1>3. master' \in Hosts \cup {None} /\ serverIP' \in Hosts \cup {None, Torn}
  BY DEF BeaconInv, BeaconTypeOK, NoticeEnd, XPlaneStart, XPlaneStop,
         ConnectionLost, networkVars, clientVars
<1>4. /\ alive' \in BOOLEAN /\ sock' \in {"Ready", "Connected"}
      /\ alive' => sock' = "Connected" /\ serverIP' = master' /\ master' # None
  <2>1. CASE NoticeEnd
    BY <2>1 DEF BeaconInv, BeaconTypeOK, NoticeEnd, networkVars
  <2>2. CASE XPlaneStart
    BY <2>2, BeaconAssumption DEF BeaconInv, BeaconTypeOK, XPlaneStart, clientVars
  <2>3. CASE XPlaneStop
    BY <2>3 DEF BeaconInv, BeaconTypeOK, XPlaneStop, clientVars
  <2>4. CASE ConnectionLost
    BY <2>4 DEF BeaconInv, BeaconTypeOK, ConnectionLost, clientVars
  <2>. QED
    BY <2>1, <2>2, <2>3, <2>4
<1>. QED
  BY <1>1, <1>2, <1>3, <1>4 DEF BeaconInv, BeaconTypeOK, KnownWhileHeard, threadVars

LEMMA StutterKeeps == BeaconInv /\ UNCHANGED beaconVars => BeaconInv'
  BY DEF BeaconInv, BeaconTypeOK, KnownWhileHeard, beaconVars, networkVars,
     threadVars, clientVars

(* Every step of SetState is a step of Beacon or leaves its variables alone. *)
LEMMA StepKeeps == BeaconInv /\ [Next]_vars => BeaconInv'
<1>. SUFFICES ASSUME BeaconInv, [Next]_vars PROVE BeaconInv'
  OBVIOUS
<1>1. CASE MainLoop
  <2>1. CheckXpserver \/ NoticeEnd \/ UNCHANGED beaconVars
    BY <1>1 DEF MainLoop, Check, Receive, UserAndSend
  <2>. QED
    BY <2>1, CheckKeeps, NetworkKeeps, StutterKeeps
<1>2. CASE Plugin \/ \E c \in Controls : Turn(c)
  BY <1>2, StutterKeeps DEF Plugin, Execute, Answer, SendClient, Turn
<1>3. CASE XPlane
  <2>1. XPlaneStart \/ XPlaneStop \/ ConnectionLost \/ UNCHANGED beaconVars
    BY <1>3 DEF XPlane, Start, Beside, Animate
  <2>. QED
    BY <2>1, NetworkKeeps, StutterKeeps
<1>4. CASE Thread
  BY <1>4, ReceiveKeeps, TimeoutKeeps, WriteKeeps DEF Thread, Beside
<1>5. CASE UNCHANGED vars
  BY <1>5, StutterKeeps DEF vars
<1>. QED
  BY <1>1, <1>2, <1>3, <1>4, <1>5 DEF Next

(* The thread of xplanebeacon.c and check_xpserver keep the two together,    *)
(* whatever order their steps come in.                                      *)
THEOREM BeaconInvariant == Init /\ [][Next]_vars => []BeaconInv
<1>1. Init => BeaconInv
  BY BeaconInitial DEF Init
<1>. QED
  BY <1>1, StepKeeps, PTL

(* An address is never remembered past the limit, although the counter is    *)
(* only compared for equality: xplanebeacon.c.                              *)
THEOREM NeverRememberedTooLong == FairSpec => []KnownWhileHeard
<1>1. BeaconInv => KnownWhileHeard
  BY DEF BeaconInv
<1>. QED
  BY <1>1, BeaconInvariant, PTL DEF FairSpec

(* A live connection leads to the running X-Plane, whatever mixture of        *)
(* addresses the main loop copied: check_xpserver.                          *)
THEOREM ConnectedToXPlane ==
    FairSpec => [](alive => sock = "Connected" /\ serverIP = master /\ master \in Hosts)
<1>1. BeaconInv => (alive => sock = "Connected" /\ serverIP = master /\ master \in Hosts)
  BY DEF BeaconInv, BeaconTypeOK
<1>. QED
  BY <1>1, BeaconInvariant, PTL DEF FairSpec

-----------------------------------------------------------------------------
(* The controls                                                             *)

Presses == [press : [Controls -> {-1, 0, 1}], aim : [Controls -> Nat], sure : BOOLEAN]

(* TypeOK with the domains and the presses in flight, but for how many.     *)
PanelTypeOK ==
    /\ phase \in {"check", "receive", "user"}
    /\ Period \in Nat \ {0} /\ interval_counter \in 0 .. Period - 1
    /\ linked \in {"no", "asked", "answered", "valid"}
    /\ steady \in BOOLEAN /\ sure \in BOOLEAN
    /\ wanted \in [Controls -> Nat] /\ pos \in [Controls -> Nat]
    /\ pressed \in [Controls -> {-1, 0, 1}] /\ motion \in [Controls -> {0, 2}]
    /\ \A c \in Controls :
        /\ wanted[c] \in Choices(c)
        /\ copy[c] \in Positions(c) \cup {Miss} /\ s2c[c] \in Positions(c) \cup {Miss}
        /\ shown[c] \in Positions(c) \cup {Miss}
        /\ c \notin Updn => pressed[c] # -1
        /\ pos[c] \in Positions(c)
    /\ c2s \in Seq(Presses)

LEMMA ControlFacts ==
    /\ Top \in Nat \ {0} /\ Period \in Nat \ {0}
    /\ \A c \in Controls : /\ 0 \in Positions(c) /\ 0 \in Choices(c)
                           /\ Positions(c) \subseteq 0 .. Top + 2 /\ Choices(c) \subseteq 0 .. Top + 2
                           /\ Positions(c) \subseteq Nat /\ Choices(c) \subseteq Nat
                           /\ Miss \notin Positions(c)
<1>1. Top \in Nat \ {0} /\ Miss \notin 0 .. Top + 2
  BY SetStateAssumption
<1>2. Period \in Nat \ {0}
  <2>1. PICK d \in Nat \ {0} : d = interval /\ d <= INTERVAL_UPDN
    BY SetStateAssumption
  <2>2. INTERVAL_UPDN \in Nat \ {0}
    BY SetStateAssumption
  <2>3. d \div d = 1
    <3>1. PICK q \in Int, r \in 0 .. d - 1 : q = 1 /\ r = 0
      BY <2>1
    <3>2. (d * q + r) \div d = q
      BY DivUnique
    <3>. QED
      BY <3>1, <3>2
  <2>4. d \div d <= INTERVAL_UPDN \div d
    BY <2>1, <2>2, DivMonotone
  <2>5. INTERVAL_UPDN \div d \in Nat
    BY <2>2, DivNat
  <2>. QED
    BY <2>1, <2>3, <2>4, <2>5 DEF Period
<1>3. ASSUME NEW c \in Controls
      PROVE  /\ 0 \in Positions(c) /\ 0 \in Choices(c)
             /\ Positions(c) \subseteq 0 .. Top + 2 /\ Choices(c) \subseteq 0 .. Top + 2
  BY <1>1 DEF Positions, Choices
<1>. QED
  BY <1>1, <1>2, <1>3

LEMMA PanelInitially == Init => PanelTypeOK
<1>. SUFFICES ASSUME Init PROVE PanelTypeOK
  OBVIOUS
<1>1. c2s \in Seq(Presses)
  BY DEF Init
<1>2. interval_counter \in 0 .. Period - 1 /\ Period \in Nat \ {0}
  BY ControlFacts DEF Init
<1>3. /\ wanted \in [Controls -> Nat] /\ pos \in [Controls -> Nat]
      /\ pressed \in [Controls -> {-1, 0, 1}] /\ motion \in [Controls -> {0, 2}]
  BY DEF Init, AtRest
<1>4. ASSUME NEW c \in Controls
      PROVE  /\ wanted[c] = 0 /\ pos[c] = 0 /\ pressed[c] = 0
             /\ copy[c] = Miss /\ s2c[c] = Miss /\ shown[c] = Miss
  BY DEF Init, AtRest, AllMiss
<1>5. ASSUME NEW c \in Controls
      PROVE  0 \in Choices(c) /\ 0 \in Positions(c)
  BY ControlFacts
<1>6. /\ phase \in {"check", "receive", "user"}
      /\ linked \in {"no", "asked", "answered", "valid"}
      /\ steady \in BOOLEAN /\ sure \in BOOLEAN
  BY DEF Init
<1>. QED
  BY <1>1, <1>2, <1>3, <1>4, <1>5, <1>6 DEF PanelTypeOK

LEMMA PanelAfterReceive == PanelTypeOK /\ Receive => PanelTypeOK'
<1>. SUFFICES ASSUME PanelTypeOK, Receive PROVE PanelTypeOK'
  OBVIOUS
<1>1. /\ phase' = "user" /\ interval_counter' = Counted(interval_counter + 1)
      /\ UNCHANGED <<wanted, pressed, simVars, changes>>
  BY DEF Receive
<1>2. interval_counter' \in 0 .. Period - 1
  BY <1>1 DEF PanelTypeOK, Counted
<1>3. c2s' \in Seq(Presses)
  <2>1. c2s' = c2s \/ c2s' = <<>>
    BY DEF Receive
  <2>2. c2s \in Seq(Presses) /\ <<>> \in Seq(Presses)
    BY DEF PanelTypeOK
  <2>. QED
    BY <2>1, <2>2
<1>4. ASSUME NEW c \in Controls
      PROVE  copy'[c] \in Positions(c) \cup {Miss} /\ s2c'[c] \in Positions(c) \cup {Miss}
  BY DEF Receive, PanelTypeOK, AllMiss
<1>5. linked' \in {"no", "asked", "answered", "valid"}
  BY DEF Receive, PanelTypeOK
<1>6. steady' \in BOOLEAN /\ sure' \in BOOLEAN
  BY DEF Receive, PanelTypeOK
<1>. QED
  BY <1>1, <1>2, <1>3, <1>4, <1>5, <1>6 DEF PanelTypeOK, simVars

LEMMA PressTypes ==
    ASSUME PanelTypeOK, NEW c \in Controls
    PROVE  /\ Press(c) \in {-1, 0, 1} /\ (c \notin Updn => Press(c) # -1)
           /\ Press(c) # 0 => pressed[c] # 0 \/ Due(c)
           /\ pressed[c] = 0 /\ Press(c) # 0 =>
                /\ Due(c) /\ wanted[c] # OldState(c)
                /\ wanted[c] > OldState(c) => Press(c) = 1
                /\ wanted[c] < OldState(c) => Press(c) = IF c \in Updn THEN -1 ELSE 1
<1>1. pressed[c] \in {-1, 0, 1} /\ (c \notin Updn => pressed[c] # -1)
  BY DEF PanelTypeOK
<1>2. CASE ~Due(c)
  BY <1>1, <1>2 DEF Press
<1>3. CASE Due(c)
  <2>1. wanted[c] \in Nat
    BY DEF PanelTypeOK
  <2>2. OldState(c) \in Nat
    <3>1. copy[c] \in Nat
      BY <1>3, ControlFacts DEF Due, PanelTypeOK
    <3>. QED
      BY <3>1 DEF OldState, CoverOpen
  <2>. QED
    BY <1>1, <1>3, <2>1, <2>2 DEF Press
<1>. QED
  BY <1>2, <1>3

LEMMA PanelAfterUserAndSend == PanelTypeOK /\ UserAndSend => PanelTypeOK'
<1>. SUFFICES ASSUME PanelTypeOK, UserAndSend PROVE PanelTypeOK'
  OBVIOUS
<1>1. /\ phase' = "check" /\ pressed' \in {AtRest, Chosen}
      /\ linked' \in {linked, "asked"}
      /\ c2s' \in {c2s, Append(c2s, [press |-> Chosen, aim |-> wanted, sure |-> sure])}
      /\ UNCHANGED <<interval_counter, wanted, copy, s2c, simVars, ghostVars>>
  BY DEF UserAndSend
<1>2. Chosen \in [Controls -> {-1, 0, 1}] /\ \A c \in Controls : c \notin Updn => Chosen[c] # -1
  BY PressTypes DEF Chosen
<1>3. AtRest \in [Controls -> {-1, 0, 1}] /\ \A c \in Controls : AtRest[c] = 0
  BY DEF AtRest
<1>4. [press |-> Chosen, aim |-> wanted, sure |-> sure] \in Presses
  BY <1>2 DEF PanelTypeOK, Presses
<1>5. c2s' \in Seq(Presses)
  <2>1. c2s \in Seq(Presses)
    BY DEF PanelTypeOK
  <2>2. PICK m \in Presses : m = [press |-> Chosen, aim |-> wanted, sure |-> sure]
    BY <1>4
  <2>3. Append(c2s, m) \in Seq(Presses)
    BY <2>1
  <2>. QED
    BY <1>1, <2>1, <2>2, <2>3
<1>6. pressed' \in [Controls -> {-1, 0, 1}] /\ \A c \in Controls : c \notin Updn => pressed'[c] # -1
  BY <1>1, <1>2, <1>3
<1>. QED
  BY <1>1, <1>5, <1>6 DEF PanelTypeOK, simVars, ghostVars

LEMMA HeadPress ==
    ASSUME PanelTypeOK, c2s # <<>>
    PROVE  /\ Head(c2s) \in Presses /\ Tail(c2s) \in Seq(Presses)
           /\ Len(Tail(c2s)) = Len(c2s) - 1 /\ Len(c2s) \in Nat \ {0}
           /\ Head(c2s).press \in [Controls -> {-1, 0, 1}]
<1>1. c2s \in Seq(Presses)
  BY DEF PanelTypeOK
<1>2. /\ Head(c2s) \in Presses /\ Tail(c2s) \in Seq(Presses)
      /\ Len(Tail(c2s)) = Len(c2s) - 1 /\ Len(c2s) \in Nat \ {0}
  <2>1. PICK S : S = Presses
    OBVIOUS
  <2>2. c2s \in Seq(S) /\ c2s # <<>>
    BY <1>1, <2>1
  <2>3. Head(c2s) \in S /\ Tail(c2s) \in Seq(S)
        /\ Len(Tail(c2s)) = Len(c2s) - 1 /\ Len(c2s) \in Nat \ {0}
    BY <2>2
  <2>. QED
    BY <2>1, <2>3
<1>3. Head(c2s).press \in [Controls -> {-1, 0, 1}]
  BY <1>2 DEF Presses
<1>. QED
  BY <1>2, <1>3

LEMMA PanelAfterExecute == PanelTypeOK /\ Execute => PanelTypeOK'
<1>. SUFFICES ASSUME PanelTypeOK, Execute PROVE PanelTypeOK'
  OBVIOUS
<1>1. PICK press \in [Controls -> {-1, 0, 1}] : press = Head(c2s).press
  BY HeadPress DEF Execute
<1>2. /\ pos' = [c \in Controls |-> Moved(c, press[c])]
      /\ motion' = [c \in Controls |->
              IF c \in Covers /\ press[c] # 0 THEN 2 - motion[c] ELSE motion[c]]
      /\ c2s' = Tail(c2s) /\ UNCHANGED <<panelVars, s2c, shown, ghostVars>>
  BY <1>1 DEF Execute
<1>3. ASSUME NEW c \in Controls PROVE Moved(c, press[c]) \in Positions(c)
  <2>1. pos[c] \in Positions(c) /\ pos[c] \in Nat /\ press[c] \in {-1, 0, 1}
    BY DEF PanelTypeOK
  <2>2. CASE c \in Updn
    BY <2>1, <2>2, ControlFacts DEF Moved, Bounded, Positions
  <2>3. CASE c \notin Updn /\ c \in Toggles
    <3>1. Positions(c) = {0, 1}
      BY <2>3, SetStateAssumption DEF Positions
    <3>. QED
      BY <2>1, <2>3, <3>1 DEF Moved
  <2>4. CASE c \notin Updn /\ c \notin Toggles
    BY <2>1, <2>4 DEF Moved
  <2>. QED
    BY <2>2, <2>3, <2>4
<1>4. pos' \in [Controls -> Nat] /\ \A c \in Controls : pos'[c] \in Positions(c)
  BY <1>2, <1>3, ControlFacts
<1>5. motion' \in [Controls -> {0, 2}]
  <2>1. \A c \in Controls : motion[c] \in {0, 2} /\ 2 - motion[c] \in {0, 2}
    BY DEF PanelTypeOK
  <2>. QED
    BY <1>2, <2>1
<1>6. c2s' \in Seq(Presses)
  BY <1>2, HeadPress DEF Execute
<1>. QED
  BY <1>2, <1>4, <1>5, <1>6 DEF PanelTypeOK, panelVars, ghostVars

LEMMA PanelAfterOther ==
    ASSUME PanelTypeOK,
           \/ Answer \/ SendClient \/ Start \/ Check
           \/ \E c \in Controls : Turn(c)
           \/ \E c \in Covers : Animate(c)
           \/ UNCHANGED <<panelVars, flightVars, simVars, ghostVars>>
    PROVE  PanelTypeOK'
<1>1. CASE Answer
  BY <1>1 DEF PanelTypeOK, Answer, AllMiss, flightVars, ghostVars
<1>2. CASE SendClient
  BY <1>2 DEF PanelTypeOK, SendClient, panelVars, ghostVars
<1>3. CASE Start
  BY <1>3, ControlFacts DEF PanelTypeOK, Start, AtRest, panelVars, flightVars, ghostVars
<1>4. CASE Check
  BY <1>4 DEF PanelTypeOK, Check, flightVars, simVars, ghostVars
<1>5. ASSUME NEW c \in Controls, Turn(c) PROVE PanelTypeOK'
  <2>1. PICK v \in Choices(c) : wanted' = [wanted EXCEPT ![c] = v]
    BY <1>5 DEF Turn
  <2>2. wanted' \in [Controls -> Nat] /\ \A d \in Controls : wanted'[d] \in Choices(d)
    BY <2>1, ControlFacts DEF PanelTypeOK
  <2>. QED
    BY <1>5, <2>2 DEF PanelTypeOK, Turn, flightVars, simVars
<1>6. ASSUME NEW c \in Covers, Animate(c) PROVE PanelTypeOK'
  <2>1. c \in Controls /\ Positions(c) = 0 .. 2
    BY SetStateAssumption DEF Controls, Positions
  <2>2. pos[c] \in 0 .. 2 /\ motion[c] \in {0, 2} /\ pos[c] # motion[c]
    BY <1>6, <2>1 DEF PanelTypeOK, Animate
  <2>3. PICK p \in 0 .. 2 : p = IF motion[c] > pos[c] THEN pos[c] + 1 ELSE pos[c] - 1
    BY <2>2
  <2>4. pos' = [pos EXCEPT ![c] = p]
    BY <1>6, <2>3 DEF Animate
  <2>5. pos' \in [Controls -> Nat] /\ \A d \in Controls : pos'[d] \in Positions(d)
    BY <2>1, <2>4 DEF PanelTypeOK
  <2>. QED
    BY <1>6, <2>5 DEF PanelTypeOK, Animate, panelVars, flightVars, ghostVars
<1>7. CASE UNCHANGED <<panelVars, flightVars, simVars, ghostVars>>
  BY <1>7 DEF PanelTypeOK, panelVars, flightVars, simVars, ghostVars
<1>. QED
  BY <1>1, <1>2, <1>3, <1>4, <1>5, <1>6, <1>7

(* The actions, with those of Beacon that leave the panel alone as one.     *)
LEMMA Steps ==
    ASSUME [Next]_vars
    PROVE  \/ Check \/ Receive \/ UserAndSend \/ Execute \/ Answer \/ SendClient \/ Start
           \/ \E c \in Controls : Turn(c)
           \/ \E c \in Covers : Animate(c)
           \/ UNCHANGED <<panelVars, flightVars, simVars, ghostVars>>
BY DEF Next, MainLoop, Plugin, XPlane, Thread, Beside, vars

LEMMA PanelAfterStep == PanelTypeOK /\ [Next]_vars => PanelTypeOK'
  BY Steps, PanelAfterReceive, PanelAfterUserAndSend, PanelAfterExecute, PanelAfterOther

(* Presses in flight: none before the subscriptions are valid, then one that *)
(* was kept from before, then at most one more, until the first period with *)
(* feedback; from there each press is answered before the next.             *)
LinkInv ==
    /\ linked # "no" => sock = "Connected"
    /\ linked # "valid" => c2s = <<>>
    /\ linked = "valid" => pressed = AtRest \/ (phase = "user" /\ c2s = <<>>)
    /\ steady => linked = "valid"
    /\ linked = "valid" /\ ~steady =>
          Len(c2s) <= 1 /\ (phase = "user" => interval_counter # 0)
    /\ phase = "user" /\ interval_counter = 0 => Len(c2s) <= 1
    /\ Len(c2s) <= 2

(* What the client compares with when it may press.                         *)
UpToDate ==
    /\ c2s = <<>>
    /\ \A c \in Controls \ Covers : copy[c] = pos[c]
    /\ \A c \in Covers : copy[c] \notin {Miss, 2 - motion[c]}

(* The press m still moves c towards where m was to bring it.               *)
Needed(c, m) ==
    m.press[c] # 0 =>
        /\ m.aim[c] \in Choices(c)
        /\ IF c \in Covers THEN motion[c] # 2 * m.aim[c]
           ELSE IF c \in Toggles THEN pos[c] # m.aim[c]
           ELSE IF m.press[c] = 1 THEN pos[c] < m.aim[c] ELSE pos[c] > m.aim[c]

HelpInv ==
    /\ sure => steady /\ pressed = AtRest
    /\ phase = "user" /\ sure /\ interval_counter = 0 /\ alive => UpToDate
    /\ \A i \in 1 .. Len(c2s) : c2s[i].sure => sure /\ Len(c2s) = 1
    /\ alive /\ c2s # <<>> /\ c2s[1].sure => \A c \in Controls : Needed(c, c2s[1])

LEMMA LinkAfterReceive ==
    ASSUME PanelTypeOK, LinkInv, Receive
    PROVE  LinkInv'
<1>1. CASE NoticeEnd /\ linked' = "no" /\ c2s' = <<>> /\ steady' = FALSE
  BY <1>1 DEF LinkInv
<1>2. CASE /\ UNCHANGED <<beaconVars, c2s>>
           /\ linked' = linked \/ (linked = "answered" /\ linked' = "valid")
           /\ steady /\ interval_counter' = 0 => Prompt
           /\ steady' = IF interval_counter' = 0 THEN linked' = "valid" ELSE steady
  <2>1. sock' = sock /\ c2s' = c2s /\ phase' = "user" /\ phase # "user" /\ pressed' = pressed
    BY <1>2 DEF Receive, beaconVars, clientVars
  <2>2. Len(c2s) \in Nat /\ (c2s = <<>> => Len(c2s) = 0)
    BY DEF PanelTypeOK
  <2>3. steady /\ interval_counter' = 0 => c2s = <<>>
    BY <1>2 DEF Prompt
  <2>4. steady \in BOOLEAN /\ (steady => linked = "valid")
    BY DEF PanelTypeOK, LinkInv
  <2>5. /\ interval_counter' = 0 => (steady' <=> linked' = "valid")
        /\ interval_counter' # 0 => (steady' <=> steady)
    BY <1>2, <2>4
  <2>6. linked' # "no" => sock' = "Connected"
    BY <1>2, <2>1 DEF LinkInv
  <2>7. linked # "valid" => Len(c2s) = 0
    BY <2>2 DEF LinkInv
  <2>8. linked' = "valid" => pressed' = AtRest \/ c2s' = <<>>
    BY <1>2, <2>1 DEF LinkInv
  <2>9. linked' # "valid" => c2s' = <<>>
    BY <1>2, <2>1 DEF LinkInv
  <2>10. (~steady => Len(c2s) <= 1) /\ Len(c2s) <= 2
    BY <2>2, <2>7 DEF LinkInv
  <2>11. interval_counter' = 0 => Len(c2s) <= 1
    BY <2>2, <2>3, <2>10
  <2>12. steady' => linked' = "valid"
    BY <1>2, <2>4, <2>5
  <2>. QED
    BY <2>1, <2>5, <2>6, <2>8, <2>9, <2>10, <2>11, <2>12 DEF LinkInv
<1>. QED
  BY <1>1, <1>2 DEF Receive

LEMMA SendingNeeds ==
    ASSUME PanelTypeOK, Chosen # AtRest
    PROVE  pressed # AtRest \/ interval_counter = 0
<1>1. PICK c \in Controls : Chosen[c] # AtRest[c]
  BY DEF Chosen, AtRest
<1>2. Press(c) # 0
  BY <1>1 DEF Chosen, AtRest
<1>3. CASE pressed[c] # 0
  BY <1>3 DEF AtRest
<1>4. CASE Due(c)
  BY <1>4 DEF Due
<1>. QED
  BY <1>2, <1>3, <1>4, PressTypes

LEMMA SendingFacts ==
    ASSUME PanelTypeOK, UserAndSend
    PROVE  /\ phase = "user" /\ phase' = "check"
           /\ linked' = linked \/ (linked = "no" /\ sock = "Connected" /\ linked' = "asked")
           /\ linked = "valid" => pressed' = AtRest
           /\ \/ c2s' = c2s
              \/ /\ linked = "valid" /\ Chosen # AtRest /\ alive
                 /\ c2s' = Append(c2s, [press |-> Chosen, aim |-> wanted, sure |-> sure])
                 /\ Len(c2s') = Len(c2s) + 1 /\ Len(c2s) \in Nat
           /\ UNCHANGED <<beaconVars, interval_counter, wanted, copy, s2c, simVars, ghostVars>>
<1>1. Len(Append(c2s, [press |-> Chosen, aim |-> wanted, sure |-> sure])) = Len(c2s) + 1
      /\ Len(c2s) \in Nat
  <2>1. PICK S : S = Seq(Presses)
    OBVIOUS
  <2>2. PICK m : m = [press |-> Chosen, aim |-> wanted, sure |-> sure]
    OBVIOUS
  <2>3. c2s \in Seq(Presses)
    BY DEF PanelTypeOK
  <2>4. Len(Append(c2s, m)) = Len(c2s) + 1 /\ Len(c2s) \in Nat
    BY <2>3
  <2>. QED
    BY <2>2, <2>4
<1>. QED
  BY <1>1 DEF UserAndSend

LEMMA LinkAfterUserAndSend ==
    ASSUME PanelTypeOK, LinkInv, UserAndSend
    PROVE  LinkInv'
<1>1. sock' = sock /\ steady' = steady /\ interval_counter' = interval_counter
  BY SendingFacts DEF beaconVars, clientVars, ghostVars
<1>2. phase = "user" /\ phase' = "check"
  BY SendingFacts
<1>3. CASE c2s' = c2s
  BY <1>1, <1>2, <1>3, SendingFacts DEF LinkInv
<1>4. CASE /\ linked = "valid" /\ Chosen # AtRest
           /\ Len(c2s') = Len(c2s) + 1 /\ Len(c2s) \in Nat
  <2>1. linked' = "valid" /\ pressed' = AtRest
    BY <1>4, SendingFacts
  <2>2. c2s = <<>> => Len(c2s) = 0
    OBVIOUS
  <2>3. pressed # AtRest \/ interval_counter = 0
    BY <1>4, SendingNeeds
  <2>4. Len(c2s) <= 1 /\ (~steady => Len(c2s) = 0)
    BY <1>2, <1>4, <2>2, <2>3 DEF LinkInv
  <2>. QED
    BY <1>1, <1>2, <1>4, <2>1, <2>4 DEF LinkInv
<1>. QED
  BY <1>3, <1>4, SendingFacts

LEMMA LinkAfterExecute ==
    ASSUME PanelTypeOK, LinkInv, Execute
    PROVE  LinkInv'
<1>1. c2s # <<>> /\ c2s' = Tail(c2s) /\ UNCHANGED <<beaconVars, panelVars, ghostVars>>
  BY DEF Execute
<1>2. Len(c2s') = Len(c2s) - 1 /\ Len(c2s) \in Nat \ {0}
  BY <1>1, HeadPress
<1>3. linked = "valid" /\ pressed = AtRest
  BY <1>1 DEF LinkInv
<1>. QED
  BY <1>1, <1>2, <1>3 DEF LinkInv, beaconVars, clientVars, panelVars, ghostVars

LEMMA LinkAfterOther ==
    ASSUME PanelTypeOK, LinkInv, BeaconTypeOK,
           \/ Answer \/ SendClient \/ Start \/ Check
           \/ \E c \in Controls : Turn(c)
           \/ \E c \in Covers : Animate(c)
           \/ /\ UNCHANGED <<panelVars, flightVars, simVars, ghostVars>>
              /\ sock' = sock
    PROVE  LinkInv'
<1>1. CASE Answer
  BY <1>1 DEF LinkInv, Answer, beaconVars, clientVars, flightVars, ghostVars
<1>2. CASE Check
  <2>1. sock = "Connected" => sock' = "Connected"
    BY <1>2 DEF Check, CheckXpserver, beaconVars, clientVars
  <2>. QED
    BY <1>2, <2>1 DEF LinkInv, Check, flightVars, ghostVars, PanelTypeOK
<1>3. CASE /\ UNCHANGED <<phase, interval_counter, linked, pressed, c2s, steady>>
           /\ sock' = sock
  BY <1>3 DEF LinkInv
<1>4. SendClient \/ Start \/ (\E c \in Controls : Turn(c)) \/ (\E c \in Covers : Animate(c))
      => UNCHANGED <<phase, interval_counter, linked, pressed, c2s, steady>> /\ sock' = sock
  BY DEF SendClient, Start, Turn, Animate, XPlaneStart, beaconVars, clientVars, panelVars,
         flightVars, ghostVars
<1>5. UNCHANGED <<panelVars, flightVars, simVars, ghostVars>>
      => UNCHANGED <<phase, interval_counter, linked, pressed, c2s, steady>>
  BY DEF panelVars, flightVars, ghostVars
<1>. QED
  BY <1>1, <1>2, <1>3, <1>4, <1>5

LEMMA LinkAfterStep ==
    ASSUME BeaconTypeOK, PanelTypeOK, LinkInv, [Next]_vars
    PROVE  LinkInv'
<1>1. sock' = sock \/ Check \/ Receive
  BY DEF Next, MainLoop, UserAndSend, Plugin, Execute, Answer, SendClient, Turn, XPlane, Start,
         XPlaneStart, Animate, Thread, Beside, XPlaneStop, ConnectionLost, BeaconReceive,
         BeaconTimeout, WriteDone, beaconVars, clientVars, vars
<1>. QED
  BY <1>1, Steps, LinkAfterReceive, LinkAfterUserAndSend, LinkAfterExecute, LinkAfterOther

ControlInv == BeaconInv /\ PanelTypeOK /\ LinkInv

LEMMA ControlInitially == Init => ControlInv
<1>. SUFFICES ASSUME Init PROVE ControlInv
  OBVIOUS
<1>1. BeaconInv /\ PanelTypeOK
  BY BeaconInitial, PanelInitially DEF Init
<1>2. c2s = <<>> /\ Len(c2s) = 0 /\ linked = "no" /\ steady = FALSE
  BY DEF Init
<1>. QED
  BY <1>1, <1>2 DEF ControlInv, LinkInv

LEMMA ControlStep == ControlInv /\ [Next]_vars => ControlInv'
<1>1. BeaconInv => BeaconTypeOK
  BY DEF BeaconInv
<1>. QED
  BY <1>1, StepKeeps, PanelAfterStep, LinkAfterStep DEF ControlInv

(* The arrays keep their ranges, no more than two presses are ever under way, *)
(* and the subscriptions are forgotten with the connection: check_xpserver, *)
(* receive_xpserver and send_xpserver, set_state_updn, set_state_toggle and *)
(* set_switch_cover.                                                        *)
THEOREM TypeCorrect == FairSpec => []TypeOK
<1>1. ControlInv => TypeOK
  <2>. SUFFICES ASSUME ControlInv PROVE TypeOK
    OBVIOUS
  <2>1. BeaconTypeOK
    BY DEF ControlInv, BeaconInv
  <2>2. /\ phase \in {"check", "receive", "user"}
        /\ interval_counter \in 0 .. Period - 1
        /\ linked \in {"no", "asked", "answered", "valid"}
    BY DEF ControlInv, PanelTypeOK
  <2>3. ASSUME NEW c \in Controls
        PROVE  /\ wanted[c] \in Choices(c)
               /\ {copy[c], s2c[c], shown[c]} \subseteq Positions(c) \cup {Miss}
               /\ pos[c] \in Positions(c)
    BY DEF ControlInv, PanelTypeOK
  <2>4. ASSUME NEW c \in Controls
        PROVE  /\ pressed[c] \in IF c \in Updn THEN {-1, 0, 1} ELSE {0, 1}
               /\ motion[c] \in {0, 2}
    BY DEF ControlInv, PanelTypeOK
  <2>5. Len(c2s) <= 2 /\ (linked # "no" => sock = "Connected")
    BY DEF ControlInv, LinkInv
  <2>. QED
    BY <2>1, <2>2, <2>3, <2>4, <2>5 DEF TypeOK
<1>. QED
  BY <1>1, ControlInitially, ControlStep, PTL DEF FairSpec

-----------------------------------------------------------------------------
(* Each press helps                                                         *)

LEMMA HelpAfterReceive ==
    ASSUME ControlInv, HelpInv, Receive
    PROVE  HelpInv'
<1>1. CASE NoticeEnd /\ c2s' = <<>> /\ sure' = FALSE
  BY <1>1 DEF HelpInv
<1>2. CASE /\ UNCHANGED <<beaconVars, c2s>>
           /\ sock = "Ready" \/ alive
           /\ linked' = linked \/ (linked = "answered" /\ linked' = "valid")
           /\ steady /\ interval_counter' = 0 => Prompt
           /\ steady' = IF interval_counter' = 0 THEN linked' = "valid" ELSE steady
           /\ sure' = IF interval_counter' = 0 THEN steady ELSE sure
  <2>1. /\ phase = "receive" /\ phase' = "user" /\ c2s' = c2s /\ pressed' = pressed
        /\ pos' = pos /\ motion' = motion /\ alive' = alive
    BY <1>2 DEF Receive, beaconVars, networkVars, simVars
  <2>2. steady \in BOOLEAN /\ sure \in BOOLEAN
    BY DEF ControlInv, PanelTypeOK
  <2>3. steady => linked = "valid" /\ pressed = AtRest
    BY <2>1 DEF ControlInv, LinkInv
  <2>4. /\ interval_counter' = 0 => (steady' <=> linked' = "valid") /\ (sure' <=> steady)
        /\ interval_counter' # 0 => (steady' <=> steady) /\ (sure' <=> sure)
    BY <1>2, <2>2
  <2>5. sure => steady
    BY DEF HelpInv
  <2>6. sure' => steady' /\ pressed' = AtRest
    BY <1>2, <2>1, <2>3, <2>4, <2>5
  <2>7. sure' /\ interval_counter' = 0 => UpToDate'
    <3>1. Prompt => UpToDate'
      BY <2>1 DEF Prompt, UpToDate
    <3>. QED
      BY <1>2, <2>4, <3>1
  <2>8. \A i \in 1 .. Len(c2s) : c2s[i].sure => sure' /\ Len(c2s) = 1
    <3>1. sure => sure'
      BY <2>2, <2>4, <2>5
    <3>. QED
      BY <3>1 DEF HelpInv
  <2>9. ASSUME alive, c2s # <<>>, c2s[1].sure, NEW c \in Controls
        PROVE  Needed(c, c2s[1])'
    <3>1. Needed(c, c2s[1])
      BY <2>9 DEF HelpInv
    <3>. QED
      BY <2>1, <3>1 DEF Needed
  <2>. QED
    BY <2>1, <2>6, <2>7, <2>8, <2>9 DEF HelpInv
<1>. QED
  BY <1>1, <1>2 DEF Receive

(* A press on an up-to-date copy is one that helps.                         *)
LEMMA ChosenHelps ==
    ASSUME ControlInv, pressed = AtRest, UpToDate, NEW c \in Controls, Press(c) # 0
    PROVE  /\ wanted[c] \in Choices(c)
           /\ IF c \in Covers THEN motion[c] # 2 * wanted[c]
              ELSE IF c \in Toggles THEN pos[c] # wanted[c]
              ELSE IF Press(c) = 1 THEN pos[c] < wanted[c] ELSE pos[c] > wanted[c]
<1>1. PanelTypeOK /\ pressed[c] = 0
  BY DEF ControlInv, AtRest
<1>2. /\ Due(c) /\ wanted[c] # OldState(c)
      /\ wanted[c] > OldState(c) => Press(c) = 1
      /\ wanted[c] < OldState(c) => Press(c) = IF c \in Updn THEN -1 ELSE 1
  BY <1>1, PressTypes
<1>3. wanted[c] \in Choices(c) /\ wanted[c] \in Nat /\ pos[c] \in Nat /\ motion[c] \in {0, 2}
  BY <1>1 DEF PanelTypeOK
<1>4. CASE c \in Covers
  <2>1. Choices(c) = {0, 1} /\ Positions(c) = 0 .. 2
    BY <1>4, SetStateAssumption DEF Choices, Positions
  <2>2. copy[c] \in 0 .. 2 /\ copy[c] # 2 - motion[c]
    BY <1>1, <1>4, <2>1 DEF PanelTypeOK, UpToDate
  <2>3. OldState(c) = CoverOpen(c)
    BY <1>4 DEF OldState
  <2>4. CASE wanted[c] = 1
    BY <1>2, <1>3, <2>2, <2>3, <2>4, <1>4 DEF CoverOpen
  <2>5. CASE wanted[c] = 0
    BY <1>2, <1>3, <2>2, <2>3, <2>5, <1>4 DEF CoverOpen
  <2>. QED
    BY <1>3, <2>1, <2>4, <2>5
<1>5. CASE c \notin Covers
  <2>1. OldState(c) = pos[c]
    BY <1>5 DEF UpToDate, OldState
  <2>2. c \in Toggles \/ c \in Updn
    BY <1>5 DEF Controls
  <2>. QED
    BY <1>2, <1>3, <1>5, <2>1, <2>2
<1>. QED
  BY <1>4, <1>5

LEMMA HelpAfterUserAndSend ==
    ASSUME ControlInv, HelpInv, UserAndSend
    PROVE  HelpInv'
<1>1. PanelTypeOK
  BY DEF ControlInv
<1>2. /\ phase = "user" /\ phase' = "check"
      /\ steady' = steady /\ sure' = sure /\ alive' = alive /\ pos' = pos /\ motion' = motion
  BY <1>1, SendingFacts DEF ghostVars, beaconVars, networkVars, simVars
<1>3. sure' => steady' /\ pressed' = AtRest
  BY <1>1, <1>2, SendingFacts DEF HelpInv, ControlInv, LinkInv
<1>4. CASE c2s' = c2s
  <2>1. ASSUME alive, c2s # <<>>, c2s[1].sure, NEW c \in Controls
        PROVE  Needed(c, c2s[1])'
    <3>1. Needed(c, c2s[1])
      BY <2>1 DEF HelpInv
    <3>. QED
      BY <1>2, <1>4, <3>1 DEF Needed
  <2>. QED
    BY <1>2, <1>3, <1>4, <2>1 DEF HelpInv
<1>5. CASE /\ Chosen # AtRest /\ alive
           /\ c2s' = Append(c2s, [press |-> Chosen, aim |-> wanted, sure |-> sure])
           /\ Len(c2s') = Len(c2s) + 1 /\ Len(c2s) \in Nat
  <2>1. PICK m \in Presses : m = [press |-> Chosen, aim |-> wanted, sure |-> sure]
    <3>1. Chosen \in [Controls -> {-1, 0, 1}]
      BY <1>1, PressTypes DEF Chosen
    <3>. QED
      BY <1>1, <3>1 DEF PanelTypeOK, Presses
  <2>2. m.press = Chosen /\ m.aim = wanted /\ (m.sure <=> sure)
    BY <2>1
  <2>3. c2s' = Append(c2s, m) /\ c2s \in Seq(Presses)
    BY <1>1, <1>5, <2>1 DEF PanelTypeOK
  <2>4. CASE sure
    <3>1. UpToDate /\ pressed = AtRest
      <4>1. pressed = AtRest
        BY <2>4 DEF HelpInv
      <4>2. interval_counter = 0
        BY <1>1, <1>5, <4>1, SendingNeeds
      <4>. QED
        BY <1>2, <1>5, <2>4, <4>1, <4>2 DEF HelpInv
    <3>2. c2s = <<>> /\ c2s' = <<m>>
      BY <2>3, <3>1 DEF UpToDate
    <3>3. Len(c2s') = 1 /\ c2s'[1] = m
      BY <3>2
    <3>4. ASSUME NEW c \in Controls, m.press[c] # 0 PROVE Needed(c, c2s[1])'
      <4>1. Press(c) # 0 /\ m.press[c] = Press(c)
        BY <2>2, <3>4 DEF Chosen
      <4>2. /\ wanted[c] \in Choices(c)
            /\ IF c \in Covers THEN motion[c] # 2 * wanted[c]
               ELSE IF c \in Toggles THEN pos[c] # wanted[c]
               ELSE IF Press(c) = 1 THEN pos[c] < wanted[c] ELSE pos[c] > wanted[c]
        BY <3>1, <4>1, ChosenHelps
      <4>. QED
        BY <1>2, <2>2, <3>3, <4>1, <4>2 DEF Needed
    <3>5. ASSUME NEW c \in Controls, m.press[c] = 0 PROVE Needed(c, c2s[1])'
      BY <3>3, <3>5 DEF Needed
    <3>. QED
      BY <1>2, <1>3, <2>4, <3>3, <3>4, <3>5 DEF HelpInv
  <2>5. CASE ~sure
    <3>1. ASSUME NEW i \in 1 .. Len(c2s') PROVE ~c2s'[i].sure
      <4>1. CASE i = Len(c2s')
        BY <1>5, <2>2, <2>3, <2>5, <4>1
      <4>2. CASE i \in 1 .. Len(c2s)
        <5>1. c2s'[i] = c2s[i]
          BY <2>3, <4>2
        <5>. QED
          BY <2>5, <4>2, <5>1 DEF HelpInv
      <4>. QED
        BY <1>5, <4>1, <4>2
    <3>2. 1 \in 1 .. Len(c2s')
      BY <1>5
    <3>. QED
      BY <1>2, <1>3, <3>1, <3>2 DEF HelpInv
  <2>. QED
    BY <2>4, <2>5
<1>. QED
  BY <1>1, <1>4, <1>5, SendingFacts

LEMMA HelpAfterExecute ==
    ASSUME ControlInv, HelpInv, Execute
    PROVE  HelpInv'
<1>1. PanelTypeOK
  BY DEF ControlInv
<1>2. c2s # <<>> /\ c2s' = Tail(c2s) /\ UNCHANGED <<beaconVars, panelVars, ghostVars>>
  BY DEF Execute
<1>3. /\ Len(c2s') = Len(c2s) - 1 /\ Len(c2s) \in Nat \ {0}
      /\ \A i \in 1 .. Len(c2s') : c2s'[i] = c2s[i + 1]
  <2>1. Len(c2s') = Len(c2s) - 1 /\ Len(c2s) \in Nat \ {0}
    BY <1>1, <1>2, HeadPress
  <2>2. PICK S : S = Presses
    OBVIOUS
  <2>3. c2s \in Seq(S)
    BY <1>1, <2>2 DEF PanelTypeOK
  <2>4. \A i \in 1 .. Len(c2s') : c2s'[i] = c2s[i + 1]
    BY <1>2, <2>3
  <2>. QED
    BY <2>1, <2>4
<1>4. \A i \in 1 .. Len(c2s') : ~c2s'[i].sure
  <2>. SUFFICES ASSUME NEW i \in 1 .. Len(c2s'), c2s'[i].sure PROVE FALSE
    OBVIOUS
  <2>1. PICK next \in 1 .. Len(c2s) : next = i + 1
    BY <1>3
  <2>2. c2s[next].sure
    BY <1>3, <2>1
  <2>. QED
    BY <1>3, <2>2 DEF HelpInv
<1>5. c2s' # <<>> => 1 \in 1 .. Len(c2s')
  <2>1. PICK S : S = Presses
    OBVIOUS
  <2>2. c2s' \in Seq(S)
    BY <1>1, <1>2, <2>1, HeadPress
  <2>. QED
    BY <2>2
<1>6. /\ sure' = sure /\ steady' = steady /\ pressed' = pressed /\ phase' = phase
      /\ alive' = alive /\ interval_counter' = interval_counter
  BY <1>2 DEF panelVars, ghostVars, beaconVars, networkVars
<1>. QED
  BY <1>2, <1>4, <1>5, <1>6 DEF HelpInv, UpToDate

(* Steps that neither press nor move a control, but for a cover on its way.  *)
LEMMA HelpWithout ==
    ASSUME HelpInv,
           UNCHANGED <<c2s, copy, motion, steady, sure, pressed, interval_counter>>,
           phase' = phase \/ phase' # "user",
           alive' => alive,
           \A c \in Controls \ Covers : pos'[c] = pos[c]
    PROVE  HelpInv'
<1>1. UpToDate => UpToDate'
  BY DEF UpToDate
<1>2. ASSUME NEW c \in Controls, Needed(c, c2s[1]) PROVE Needed(c, c2s[1])'
  BY <1>2 DEF Needed
<1>. QED
  BY <1>1, <1>2 DEF HelpInv

LEMMA HelpWithoutPresses ==
    ASSUME HelpInv, c2s = <<>>, c2s' = <<>>, ~sure, sure' = sure
    PROVE  HelpInv'
BY DEF HelpInv

LEMMA HelpAfterOther ==
    ASSUME ControlInv, HelpInv,
           \/ Answer \/ SendClient \/ Start \/ Check
           \/ \E c \in Controls : Turn(c)
           \/ \E c \in Covers : Animate(c)
           \/ /\ UNCHANGED <<panelVars, flightVars, simVars, ghostVars>>
              /\ alive' => alive
    PROVE  HelpInv'
<1>1. CASE Answer \/ SendClient \/ \E c \in Controls : Turn(c)
  BY <1>1, HelpWithout
  DEF Answer, SendClient, Turn, beaconVars, networkVars, panelVars, flightVars, ghostVars, simVars
<1>2. CASE Start
  <2>1. ~alive /\ alive' = alive /\ UNCHANGED <<panelVars, flightVars, ghostVars>>
    BY <1>2 DEF Start, XPlaneStart, ControlInv, BeaconInv, BeaconTypeOK
  <2>. QED
    BY <2>1 DEF HelpInv, panelVars, flightVars, ghostVars
<1>3. CASE Check
  <2>1. CASE sock = "Connected"
    <3>1. alive' = alive
      BY <1>3, <2>1 DEF Check, CheckXpserver, beaconVars, networkVars
    <3>. QED
      BY <1>3, <3>1, HelpWithout DEF Check, flightVars, simVars, ghostVars
  <2>2. CASE sock # "Connected"
    <3>1. c2s = <<>> /\ ~sure
      BY <2>2 DEF ControlInv, LinkInv, HelpInv
    <3>. QED
      BY <1>3, <3>1, HelpWithoutPresses DEF Check, flightVars, ghostVars
  <2>. QED
    BY <2>1, <2>2
<1>4. ASSUME NEW c \in Covers, Animate(c) PROVE HelpInv'
  <2>1. \A d \in Controls \ Covers : pos'[d] = pos[d]
    BY <1>4 DEF Animate, ControlInv, PanelTypeOK
  <2>. QED
    BY <1>4, <2>1, HelpWithout
    DEF Animate, beaconVars, networkVars, panelVars, flightVars, ghostVars
<1>5. CASE UNCHANGED <<panelVars, flightVars, simVars, ghostVars>> /\ (alive' => alive)
  BY <1>5, HelpWithout DEF panelVars, flightVars, simVars, ghostVars
<1>. QED
  BY <1>1, <1>2, <1>3, <1>4, <1>5

LEMMA HelpAfterStep ==
    ASSUME ControlInv, HelpInv, [Next]_vars
    PROVE  HelpInv'
<1>1. (alive' => alive) \/ Check \/ Receive
  BY DEF Next, MainLoop, UserAndSend, Plugin, Execute, Answer, SendClient, Turn, XPlane, Start,
         XPlaneStart, Animate, Thread, Beside, XPlaneStop, ConnectionLost, BeaconReceive,
         BeaconTimeout, WriteDone, beaconVars, networkVars, vars
<1>. QED
  BY <1>1, Steps, HelpAfterReceive, HelpAfterUserAndSend, HelpAfterExecute, HelpAfterOther

LEMMA HelpInitially == Init => HelpInv
<1>. SUFFICES ASSUME Init PROVE HelpInv
  OBVIOUS
<1>1. c2s = <<>> /\ sure = FALSE /\ 1 .. Len(c2s) = {}
  BY DEF Init
<1>. QED
  BY <1>1 DEF HelpInv

(* A press that is still needed brings its control nearer.                  *)
LEMMA PressBringsNearer ==
    ASSUME PanelTypeOK, NEW c \in Controls, NEW m \in Presses,
           m.press[c] # 0, Needed(c, m),
           NEW p, p = Moved(c, m.press[c]),
           NEW t, t = IF c \in Covers THEN 2 - motion[c] ELSE motion[c]
    PROVE  Distance(c, p, t, m.aim[c]) < Distance(c, pos[c], motion[c], m.aim[c])
<1>1. m.press[c] \in {-1, 0, 1} /\ m.aim[c] \in Choices(c)
  BY DEF Presses, Needed
<1>2. pos[c] \in Positions(c) /\ motion[c] \in {0, 2}
  BY DEF PanelTypeOK
<1>3. PICK a : a = m.aim[c]
  OBVIOUS
<1>4. CASE c \in Covers
  <2>1. a \in {0, 1} /\ motion[c] # 2 * a
    BY <1>1, <1>3, <1>4, SetStateAssumption DEF Choices, Needed
  <2>2. t = 2 * a
    BY <1>2, <1>4, <2>1
  <2>. QED
    BY <1>3, <1>4, <2>1, <2>2 DEF Distance
<1>5. CASE c \in Toggles
  <2>1. c \notin Covers /\ c \notin Updn /\ a \in {0, 1} /\ pos[c] \in {0, 1} /\ pos[c] # a
    BY <1>1, <1>2, <1>3, <1>5, SetStateAssumption DEF Choices, Positions, Needed
  <2>2. p = a
    BY <1>5, <2>1 DEF Moved
  <2>. QED
    BY <1>3, <2>1, <2>2 DEF Distance
<1>6. CASE c \in Updn
  <2>1. /\ c \notin Covers /\ c \notin Toggles /\ a \in 0 .. Top /\ pos[c] \in 0 .. Top
        /\ Top \in Nat
        /\ IF m.press[c] = 1 THEN pos[c] < a ELSE pos[c] > a
    BY <1>1, <1>2, <1>3, <1>6, SetStateAssumption DEF Choices, Positions, Needed
  <2>2. CASE m.press[c] = 1
    <3>1. p = pos[c] + 1
      BY <1>6, <2>1, <2>2 DEF Moved, Bounded
    <3>. QED
      BY <1>3, <2>1, <2>2, <3>1 DEF Distance
  <2>3. CASE m.press[c] = -1
    <3>1. p = pos[c] - 1
      BY <1>6, <2>1, <2>3 DEF Moved, Bounded
    <3>. QED
      BY <1>3, <2>1, <2>3, <3>1 DEF Distance
  <2>. QED
    BY <1>1, <2>2, <2>3
<1>. QED
  BY <1>4, <1>5, <1>6 DEF Controls

(* Feedback within one period is enough, for any number of controls and of   *)
(* positions and whatever the two timings: while the connection holds, a    *)
(* press of set_state_updn, set_state_toggle or set_switch_cover that       *)
(* X-Plane carries out was needed and brings its control nearer.            *)
THEOREM NoPressOvershoots == FairSpec => EachPressHelps
<1>1. Init => ControlInv /\ HelpInv
  BY ControlInitially, HelpInitially
<1>2. ControlInv /\ HelpInv /\ [Next]_vars => (ControlInv /\ HelpInv)'
  BY ControlStep, HelpAfterStep
<1>3. ASSUME ControlInv, HelpInv, [Next]_vars, NEW c \in Controls,
             Len(c2s') < Len(c2s), alive, Head(c2s).sure, Head(c2s).press[c] # 0
      PROVE  Distance(c, pos'[c], motion'[c], Head(c2s).aim[c])
                < Distance(c, pos[c], motion[c], Head(c2s).aim[c])
  <2>1. PanelTypeOK
    BY <1>3 DEF ControlInv
  <2>2. Len(c2s) \in Nat
    BY <2>1 DEF PanelTypeOK
  <2>3. Execute
    <3>1. ~Receive
      <4>1. Receive => c2s' = c2s
        BY <1>3 DEF Receive, NoticeEnd
      <4>. QED
        BY <1>3, <2>2, <4>1
    <3>2. ~UserAndSend
      <4>1. UserAndSend => c2s' = c2s \/ Len(c2s') = Len(c2s) + 1
        BY <2>1, SendingFacts
      <4>. QED
        BY <1>3, <2>2, <4>1
    <3>3. \/ Answer \/ SendClient \/ Start \/ Check
          \/ \E d \in Controls : Turn(d)
          \/ \E d \in Covers : Animate(d)
          \/ UNCHANGED <<panelVars, flightVars, simVars, ghostVars>>
          => c2s' = c2s
      BY DEF Answer, SendClient, Start, Check, Turn, Animate, flightVars
    <3>. QED
      BY <1>3, <2>2, <3>1, <3>2, <3>3, Steps
  <2>4. PICK m \in Presses : m = Head(c2s)
    BY <2>1, <2>3, HeadPress DEF Execute
  <2>5. Needed(c, m)
    <3>1. c2s # <<>> /\ Head(c2s) = c2s[1]
      BY <2>1, <2>3 DEF Execute, PanelTypeOK
    <3>2. Needed(c, c2s[1])
      BY <1>3, <3>1 DEF HelpInv
    <3>. QED
      BY <2>4, <3>1, <3>2
  <2>6. /\ pos'[c] = Moved(c, m.press[c])
        /\ motion'[c] = IF c \in Covers THEN 2 - motion[c] ELSE motion[c]
    BY <1>3, <2>3, <2>4 DEF Execute
  <2>7. m.press[c] # 0
    BY <1>3, <2>4
  <2>. QED
    BY <2>1, <2>4, <2>5, <2>6, <2>7, PressBringsNearer
<1>4. ControlInv /\ HelpInv /\ [Next]_vars =>
        [\A c \in Controls :
            (Len(c2s') < Len(c2s) /\ alive /\ Head(c2s).sure /\ Head(c2s).press[c] # 0) =>
                Distance(c, pos'[c], motion'[c], Head(c2s).aim[c])
                    < Distance(c, pos[c], motion[c], Head(c2s).aim[c])]_vars
  BY <1>3
<1>. QED
  BY <1>1, <1>2, <1>4, PTL DEF FairSpec, EachPressHelps
=============================================================================
