-------------------------------- MODULE Beacon --------------------------------
(***************************************************************************)
(* How a client finds X-Plane: X-Plane announces itself by UDP multicast,  *)
(* a thread of the client keeps the address in XPlaneBeaconIP, and the     *)
(* main loop copies that address and connects to it (xplanebeacon.c,       *)
(* check_xpserver in handleserver.c, with XPlaneServerManual = 0).         *)
(*                                                                         *)
(* The two share the array of characters without a lock: while the thread  *)
(* writes it, a copy is the old address, the new one or a mixture, Torn.   *)
(***************************************************************************)
EXTENDS Integers

CONSTANTS
    Hosts,        \* addresses at which X-Plane may run
    None,         \* the empty address; also: X-Plane runs nowhere
    Torn,         \* a mixture of two addresses
    XPBEACON_POLL_MAX_TIMEOUT,  \* seconds of silence until an address is forgotten
    MaxOutages    \* bound: stops of X-Plane and losses of the connection

ASSUME BeaconAssumption ==
    /\ None \notin Hosts /\ Torn \notin Hosts /\ Torn # None
    /\ XPBEACON_POLL_MAX_TIMEOUT \in Nat \ {0} /\ MaxOutages \in Nat

VARIABLES
    (* the network *)
    master,       \* where the master X-Plane runs, or None
    alive,        \* the plugin serves the client's connection
    outages,
    (* the thread *)
    beaconIP,     \* XPlaneBeaconIP before the write under way
    writing,      \* and after it; equal if no write is under way
    timeouts,     \* xpbeacon_poll_timeout_counter
    (* the main loop *)
    serverIP,     \* XPlaneServerIP
    sock          \* socketStatus

networkVars == <<master, alive, outages>>
threadVars == <<beaconIP, writing, timeouts>>
clientVars == <<serverIP, sock>>
beaconVars == <<networkVars, threadVars, clientVars>>

(* A live connection leads to the running X-Plane.                          *)
BeaconTypeOK ==
    /\ master \in Hosts \cup {None} /\ alive \in BOOLEAN
    /\ outages \in 0 .. MaxOutages
    /\ {beaconIP, writing} \subseteq Hosts \cup {None}
    /\ timeouts \in 0 .. XPBEACON_POLL_MAX_TIMEOUT + 1
    /\ serverIP \in Hosts \cup {None, Torn}
    /\ sock \in {"Ready", "Connected"}
    /\ alive => sock = "Connected" /\ serverIP = master /\ master # None

BeaconInit ==
    /\ master \in Hosts \cup {None} /\ alive = FALSE /\ outages = 0
    /\ beaconIP = None /\ writing = None /\ timeouts = 0
    /\ serverIP = None /\ sock = "Ready"

-----------------------------------------------------------------------------
(* The thread: recvfrom with a timeout of one second.                       *)

Reading == writing = beaconIP

(* Mutant: silence is counted on after a beacon.                            *)
CountedAfterBeacon == timeouts

CounterAfterBeacon == 0

(* A beacon of the master.  Beacons of other programs change nothing.       *)
BeaconReceive ==
    /\ Reading
    /\ master # None
    /\ writing' = master
    /\ timeouts' = CounterAfterBeacon
    /\ UNCHANGED <<networkVars, beaconIP, clientVars>>

(* Mutant: the counter has passed the limit.                                *)
LimitPassed(n) == n > XPBEACON_POLL_MAX_TIMEOUT

LimitReached(n) == n = XPBEACON_POLL_MAX_TIMEOUT

(* A second without a datagram, because X-Plane is silent or its beacon was  *)
(* late or lost.  XPlaneBeaconPort is 0 exactly when the address is empty.  *)
BeaconTimeout ==
    /\ Reading
    /\ timeouts <= XPBEACON_POLL_MAX_TIMEOUT
    /\ timeouts' = timeouts + 1
    /\ writing' = IF LimitReached(timeouts') THEN None ELSE writing
    /\ UNCHANGED <<networkVars, beaconIP, clientVars>>

(* strcpy or memset is through.                                             *)
WriteDone ==
    /\ ~Reading
    /\ beaconIP' = writing
    /\ UNCHANGED <<networkVars, writing, timeouts, clientVars>>

-----------------------------------------------------------------------------
(* The main loop.                                                           *)

Copies == IF Reading THEN {beaconIP} ELSE {beaconIP, writing, Torn}

(* Mutant: an address once found is kept.                                   *)
AddressKept(ip) == IF serverIP = None THEN ip ELSE serverIP

AddressTaken(ip) == ip

(* check_xpserver.  Whether it tries at all is a matter of CHECK_INTERVAL,  *)
(* and a connection may fail.  It cannot succeed where no X-Plane runs;     *)
(* the socket is then made anew.                                            *)
CheckXpserver ==
    \/ /\ sock = "Ready"
       /\ \E ip \in Copies : serverIP' = AddressTaken(ip)
       /\ \/ sock' = "Ready"
          \/ serverIP' # None /\ serverIP' = master /\ sock' = "Connected"
       /\ alive' = (sock' = "Connected")
       /\ UNCHANGED <<master, outages, threadVars>>
    \/ sock = "Connected" /\ UNCHANGED beaconVars

(* receive_xpserver finds that the connection has ended.                    *)
NoticeEnd ==
    /\ sock = "Connected" /\ ~alive
    /\ sock' = "Ready"
    /\ UNCHANGED <<networkVars, threadVars, serverIP>>

-----------------------------------------------------------------------------
(* X-Plane and its plugin.                                                  *)

XPlaneStart ==
    /\ master = None
    /\ master' \in Hosts
    /\ UNCHANGED <<alive, outages, threadVars, clientVars>>

XPlaneStop ==
    /\ master # None /\ outages < MaxOutages
    /\ master' = None /\ alive' = FALSE /\ outages' = outages + 1
    /\ UNCHANGED <<threadVars, clientVars>>

(* The plugin is disabled or gives the client's slot up.                    *)
ConnectionLost ==
    /\ alive /\ outages < MaxOutages
    /\ alive' = FALSE /\ outages' = outages + 1
    /\ UNCHANGED <<master, threadVars, clientVars>>

-----------------------------------------------------------------------------
(* The counter is tested for equality and goes on counting: an address that  *)
(* it passed would stay for ever.  It passes none: at the limit the thread  *)
(* has begun to write the empty address, and counts on after that.          *)
KnownWhileHeard ==
    timeouts >= XPBEACON_POLL_MAX_TIMEOUT =>
        writing = None /\ (timeouts > XPBEACON_POLL_MAX_TIMEOUT => beaconIP = None)

(* Wherever X-Plane ends up, the client finds it and stays connected if the  *)
(* beacons are never late for as long as it takes to forget the address: a  *)
(* mixed or outdated address that the main loop took is corrected.          *)
Reached ==
    <>[](master # None /\ timeouts < XPBEACON_POLL_MAX_TIMEOUT)
        => <>[](sock = "Connected" /\ alive)

(* An X-Plane that stopped for good is forgotten by thread and main loop    *)
(* ("No X-Plane Beacon for %i seconds: Resetting X-Plane IP").              *)
(* That seconds of silence are counted is the fairness of BeaconTimeout, and *)
(* it means real silence: while other programs' beacons keep recvfrom from  *)
(* timing out, and on Windows, where a timeout is WSAETIMEDOUT, nothing is  *)
(* counted (xplanebeacon.c:237) and the address is kept.                    *)
Forgotten == <>[](master = None) => <>[](beaconIP = None /\ serverIP = None)
=============================================================================
