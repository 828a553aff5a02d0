----------------------------- MODULE Transmission -----------------------------
(***************************************************************************)
(* How transmissions travel: the send loops (send_xpserver, send_client),  *)
(* the receive loops (receive_xpserver, receive_client) and the two byte   *)
(* streams of one TCP connection between them.                             *)
(*                                                                         *)
(* Both sides alternate one call that receives and one that sends.  A call *)
(* spins on a non-blocking socket until it is done: sending, until         *)
(* everything is handed to the kernel; receiving, until the last four      *)
(* bytes received are an end marker.  Neither serves the other direction   *)
(* meanwhile, and the plugin's calls stop X-Plane.                         *)
(*                                                                         *)
(* A cell is one four-byte integer.  Message m is Size cells: its marker   *)
(* <<m, 1>> and its payload <<m, 2>> ... <<m, Size>>.  No payload equals a *)
(* marker other than MARK_EOT.                                             *)
(***************************************************************************)
EXTENDS Integers, Sequences, FiniteSets

CONSTANTS
    Size,        \* cells of a message
    MaxBatch,    \* bound: entries that change between two calls of send
    MaxMessages, \* bound: messages per direction
    TCPBUFSIZE,  \* cells of sendBuffer and recvBuffer
    Capacity,    \* cells the two kernels hold per direction
    MarkerLike,  \* payload cells equal to MARK_EOT
    Paced        \* a side begins at most one transmission during one call of
                 \* the other's receive: true as long as that call takes less
                 \* than the pause of the main loop (20 ms, or interval)

EOT == <<0, 1>>
DISCONNECT == <<0, 2>>

Peer == [client |-> "plugin", plugin |-> "client"]
Side == DOMAIN Peer

ASSUME TransmissionAssumption ==
    /\ Size \in Nat /\ Size >= 2
    /\ MaxBatch \in Nat \ {0} /\ MaxMessages \in Nat \ {0}
    /\ TCPBUFSIZE \in Nat /\ TCPBUFSIZE > Size
    /\ Capacity \in Nat \ {0}
    /\ MarkerLike \subseteq (1 .. MaxMessages) \X (2 .. Size)
    /\ Paced \in BOOLEAN

VARIABLES
    pc,         \* "receive", "receiving", "send", "sending"
    recvBuffer, \* what the current call of receive has read
    sendBuffer, \* what the current call of send has not handed over yet
    pipe,       \* cells on their way to a side
    began,      \* sides that began a transmission during the other's receive
    sent,       \* number of messages put into transmissions
    understood, \* the messages a side has parsed
    ended       \* "no", "left" (by itself), "found" (that the other left)

vars == <<pc, recvBuffer, sendBuffer, pipe, began, sent, understood, ended>>

Cell == ((1 .. MaxMessages) \X (1 .. Size)) \cup {EOT, DISCONNECT}

TypeOK ==
    /\ pc \in [Side -> {"receive", "receiving", "send", "sending"}]
    /\ recvBuffer \in [Side -> Seq(Cell)] /\ sendBuffer \in [Side -> Seq(Cell)]
    /\ pipe \in [Side -> Seq(Cell)]
    /\ \A s \in Side :
        /\ Len(recvBuffer[s]) <= TCPBUFSIZE /\ Len(sendBuffer[s]) <= TCPBUFSIZE
        /\ Len(pipe[s]) <= Capacity
        /\ recvBuffer[s] # <<>> <=> pc[s] = "receiving" /\ ended[s] = "no"
        /\ sendBuffer[s] # <<>> <=> pc[s] = "sending" /\ ended[s] = "no"
    /\ began \in SUBSET Side
    /\ sent \in [Side -> 0 .. MaxMessages]
    /\ understood \in [Side -> Seq(1 .. MaxMessages)]
    /\ ended \in [Side -> {"no", "left", "found"}]

Init ==
    /\ pc = [s \in Side |-> "receive"]
    /\ recvBuffer = [s \in Side |-> <<>>]
    /\ sendBuffer = [s \in Side |-> <<>>]
    /\ pipe = [s \in Side |-> <<>>]
    /\ began = {}
    /\ sent = [s \in Side |-> 0]
    /\ understood = [s \in Side |-> <<>>]
    /\ ended = [s \in Side |-> "no"]

Smaller(a, b) == IF a <= b THEN a ELSE b

(* Mutant: what was read of an unfinished transmission is kept.             *)
CloseUnread(s, how) ==
    /\ ended' = [ended EXCEPT ![s] = how]
    /\ UNCHANGED recvBuffer
    /\ sendBuffer' = [sendBuffer EXCEPT ![s] = <<>>]

(* A side's part of the connection is over: buffers go, and so does what    *)
(* was on its way to it.                                                    *)
Close(s, how) ==
    /\ ended' = [ended EXCEPT ![s] = how]
    /\ recvBuffer' = [recvBuffer EXCEPT ![s] = <<>>]
    /\ sendBuffer' = [sendBuffer EXCEPT ![s] = <<>>]

-----------------------------------------------------------------------------
(* Sending.                                                                 *)

(* The walk over the table: an entry that would fill the buffer so far that *)
(* the end marker has no room is left for the next call.                    *)
Batch(s) ==
    {n \in 0 .. Smaller(MaxBatch, MaxMessages - sent[s]) : n * Size + 1 <= TCPBUFSIZE}

CellsOf(m, n) ==
    [i \in 1 .. n * Size |-> <<m + (i - 1) \div Size, 1 + ((i - 1) % Size)>>]

(* Mutant: the end marker is forgotten.                                     *)
Unmarked(cells) == cells

(* "add end of transmission marker"                                         *)
Marked(cells) == Append(cells, EOT)

(* With nothing to send the call returns at once.                           *)
SendCall(s) ==
    /\ pc[s] = "send"
    /\ \E n \in Batch(s) :
        IF n = 0
        THEN /\ pc' = [pc EXCEPT ![s] = "receive"]
             /\ UNCHANGED <<sendBuffer, began, sent>>
        ELSE /\ Paced /\ pc[Peer[s]] = "receiving" => s \notin began
             /\ pc' = [pc EXCEPT ![s] = "sending"]
             /\ sendBuffer' = [sendBuffer EXCEPT ![s] =
                                    Marked(CellsOf(sent[s] + 1, n))]
             /\ began' = IF pc[Peer[s]] = "receiving" THEN began \cup {s} ELSE began
             /\ sent' = [sent EXCEPT ![s] = @ + n]
    /\ UNCHANGED <<recvBuffer, pipe, understood, ended>>

(* One call of send takes as many cells as the kernel has room for; without *)
(* room the loop spins.                                                     *)
SendSome(s) ==
    /\ pc[s] = "sending" /\ ended[Peer[s]] = "no"
    /\ LET k == Smaller(Len(sendBuffer[s]), Capacity - Len(pipe[Peer[s]])) IN
        /\ k > 0
        /\ pipe' = [pipe EXCEPT ![Peer[s]] = @ \o SubSeq(sendBuffer[s], 1, k)]
        /\ sendBuffer' = [sendBuffer EXCEPT ![s] = SubSeq(@, k + 1, Len(@))]
        /\ pc' = [pc EXCEPT ![s] = IF k = Len(sendBuffer[s]) THEN "receive" ELSE @]
    /\ UNCHANGED <<recvBuffer, began, sent, understood, ended>>

(* The other side is gone: the rest is lost, with or without an error.  An  *)
(* error makes the plugin give the slot up; the client tries recv again.    *)
SendToNobody(s) ==
    /\ pc[s] = "sending" /\ ended[Peer[s]] # "no"
    /\ pc' = [pc EXCEPT ![s] = "receive"]
    /\ \/ /\ sendBuffer' = [sendBuffer EXCEPT ![s] = <<>>]
          /\ UNCHANGED <<recvBuffer, pipe, ended>>
       \/ /\ s = "plugin"
          /\ Close(s, "found")
          /\ pipe' = [pipe EXCEPT ![s] = <<>>]
    /\ UNCHANGED <<began, sent, understood>>

-----------------------------------------------------------------------------
(* Receiving.                                                               *)

(* Mutant: reception ends with whatever recv has returned.                  *)
EndsAnywhere(buf) == TRUE

(* The test on the last four bytes.                                         *)
EndsHere(buf) == buf[Len(buf)] \in {EOT, DISCONNECT} \cup MarkerLike

IsHead(cell) == cell[1] # 0 /\ cell[2] = 1

(* The messages that begin in one of the first cells, in their order.       *)
Messages(buf, first) ==
    LET heads == {j \in 1 .. first : IsHead(buf[j])}
        At(i) == CHOOSE j \in heads : Cardinality({h \in heads : h < j}) = i - 1
    IN  [i \in 1 .. Cardinality(heads) |-> buf[At(i)][1]]

(* Mutant: off by one, a message that ends the buffer is not taken.         *)
UnderstoodShort(buf) == Messages(buf, Len(buf) - Size)

(* The parser reads integer by integer until it meets a marker, then takes  *)
(* the message's payload; a message cut off at the end is discarded.        *)
Understood(buf) == Messages(buf, Len(buf) - Size + 1)

Told(buf) == \E i \in DOMAIN buf : buf[i] = DISCONNECT

Space(s) == TCPBUFSIZE - Len(recvBuffer[s])

(* One recv that returns data: all there is or less of it, as far as it     *)
(* fits.  When the last value read looks like an end marker the call parses *)
(* what it has and returns: it may stop within a transmission, and if the   *)
(* value was data within a message, whose rest the next call skips.         *)
ReceiveSome(s) ==
    /\ pc[s] \in {"receive", "receiving"}
    /\ \E k \in 1 .. Smaller(Len(pipe[s]), Space(s)) :
       LET buf == recvBuffer[s] \o SubSeq(pipe[s], 1, k) IN
           IF EndsHere(buf)
           THEN /\ understood' = [understood EXCEPT ![s] = @ \o Understood(buf)]
                /\ pc' = [pc EXCEPT ![s] = "send"]
                /\ pipe' = [pipe EXCEPT ![s] = SubSeq(@, k + 1, Len(@))]
                /\ IF Told(buf)
                   THEN Close(s, "found")
                   ELSE /\ recvBuffer' = [recvBuffer EXCEPT ![s] = <<>>]
                        /\ UNCHANGED <<sendBuffer, ended>>
           ELSE /\ pc' = [pc EXCEPT ![s] = "receiving"]
                /\ recvBuffer' = [recvBuffer EXCEPT ![s] = buf]
                /\ pipe' = [pipe EXCEPT ![s] = SubSeq(@, k + 1, Len(@))]
                /\ UNCHANGED <<sendBuffer, understood, ended>>
    /\ began' = IF pc[s] = "receive" THEN began \ {Peer[s]} ELSE began
    /\ UNCHANGED sent

(* EWOULDBLOCK with nothing read yet; after a partial message it spins.     *)
ReceiveNothing(s) ==
    /\ pc[s] = "receive" /\ pipe[s] = <<>> /\ ended[Peer[s]] = "no"
    /\ pc' = [pc EXCEPT ![s] = "send"]
    /\ UNCHANGED <<recvBuffer, sendBuffer, pipe, began, sent, understood, ended>>

(* recv returns 0, which the code takes for the end of the connection: the  *)
(* other side has closed and everything is read, or no space was left to    *)
(* read into.  What was read of an unfinished transmission is dropped.      *)
ReceiveZero(s) ==
    /\ pc[s] \in {"receive", "receiving"}
    /\ \/ pipe[s] = <<>> /\ ended[Peer[s]] # "no"
       \/ Space(s) = 0
    /\ Close(s, "found")
    /\ pipe' = [pipe EXCEPT ![s] = <<>>]
    /\ pc' = [pc EXCEPT ![s] = "send"]
    /\ UNCHANGED <<began, sent, understood>>

-----------------------------------------------------------------------------
(* Leaving.                                                                 *)

(* exit_tcpip_client, XPluginStop with close_client: between two calls.     *)
(* The marker is sent if the kernel takes it at once.                       *)
Leave(s) ==
    /\ pc[s] \in {"receive", "send"}
    /\ Close(s, "left")
    /\ pipe' = [pipe EXCEPT ![s] = <<>>,
                            ![Peer[s]] = IF Len(@) < Capacity /\ ended[Peer[s]] = "no"
                                         THEN Append(@, DISCONNECT) ELSE @]
    /\ UNCHANGED <<pc, began, sent, understood>>

(* The process is killed at any moment.  Closing a socket with unread data  *)
(* resets the connection, and what the other side has not read may be lost. *)
Kill(s) ==
    /\ Close(s, "left")
    /\ \E rest \in {pipe[Peer[s]], <<>>} :
            pipe' = [pipe EXCEPT ![s] = <<>>, ![Peer[s]] = rest]
    /\ UNCHANGED <<pc, began, sent, understood>>

Step(s) ==
    /\ ended[s] = "no"
    /\ \/ SendCall(s) \/ SendSome(s) \/ SendToNobody(s)
       \/ ReceiveSome(s) \/ ReceiveNothing(s) \/ ReceiveZero(s)

Next == \E s \in Side : Step(s) \/ (ended[s] = "no" /\ (Leave(s) \/ Kill(s)))

Spec == Init /\ [][Next]_vars

(* Both main loops go on: X-Plane calls the plugin every 20 ms, the client  *)
(* sleeps for its interval and starts again.                                *)
FairSpec == Spec /\ \A s \in Side : WF_vars(Step(s))

-----------------------------------------------------------------------------
(* Properties.                                                              *)

(* Messages with a payload cell before their last that looks like the end   *)
(* marker: cut behind it they are lost.                                     *)
Fragile ==
    {m \in 1 .. MaxMessages : \E c \in 2 .. Size - 1 : <<m, c>> \in MarkerLike}

(* The longest transmission.                                                *)
Longest == MaxBatch * Size + 1

(* Transmissions do not pile up: the kernels hold as much as fits in        *)
(* recvBuffer besides the transmission that is under way when a call of     *)
(* receive begins to read and the one that begins before it ends.           *)
Roomy == Paced /\ TCPBUFSIZE >= Capacity + 2 * Longest

(* handleserver.c:404-488, handleclient.c:150-247: however the bytes are    *)
(* cut into pieces, the connection is the stream of messages that           *)
(* MessageStream promises: nothing is parsed twice or out of order, only    *)
(* fragile messages are left out, and if the receive buffer is roomy a side *)
(* takes the connection for ended only when the other side has ended it.    *)
Stream ==
    INSTANCE MessageStream WITH
        parsed <- understood, Fragile <- Fragile, Overflow <- ~Roomy
ImplementsStream == Stream!Spec

(* Both sides are in their send loops and the kernels are full: as neither  *)
(* reads there, they spin for ever (handleserver.c:1159,                    *)
(* handleclient.c:1151), and X-Plane stands still.                          *)
Jammed ==
    \A s \in Side :
        pc[s] = "sending" /\ ended[s] = "no" /\ Len(pipe[s]) = Capacity

(* handleserver.c:464, 1159, handleclient.c:177, 1151: the jam is the only  *)
(* way for a call to spin for ever: no partial message, wherever it was     *)
(* cut, and no other wait for the kernel keeps a side, or X-Plane, waiting. *)
CallsReturn ==
    \A s \in Side :
        pc[s] \in {"receiving", "sending"} ~>
            (pc[s] \in {"receive", "send"} \/ ended[s] # "no" \/ Jammed)

(* handleserver.c:1149-1184: what a call of send has put into a             *)
(* transmission is understood by the other side, unless it is fragile, the  *)
(* connection ends or both sides are jammed.                                *)
Delivered ==
    \A s \in Side : \A n \in (1 .. MaxMessages) \ Fragile :
        sent[s] >= n ~>
            \/ \E i \in DOMAIN understood[Peer[s]] : understood[Peer[s]][i] = n
            \/ \E t \in Side : ended[t] # "no"
            \/ Jammed

(* handleserver.c:412 and handleclient.c:158: "disconnection" when recv     *)
(* returns 0.  A side finds the connection ended only if the other side has *)
(* ended it.                                                                *)
FoundOnlyIfLeft ==
    \A s \in Side : ended[s] = "found" => ended[Peer[s]] # "no"
=============================================================================
