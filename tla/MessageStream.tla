---------------------------- MODULE MessageStream ----------------------------
(***************************************************************************)
(* What a connection between client and plugin promises, whatever the two  *)
(* kernels do with the bytes: the messages that one side sends are         *)
(* understood by the other once and in order, none is left out but the     *)
(* fragile ones, until the connection ends; and unless more can wait than  *)
(* a side can read at once, it finds the connection ended only if the      *)
(* other side ended it.  Transmission implements it.                       *)
(***************************************************************************)
EXTENDS Integers, Sequences

CONSTANTS
    Peer,        \* the two sides, each mapped to the other
    MaxMessages, \* bound: messages per direction
    Fragile,     \* messages that may be lost
    Overflow     \* whether more can wait than a side can read at once

Side == DOMAIN Peer

VARIABLES
    sent,   \* number of messages each side has sent: they are 1, 2, 3, ...
    parsed, \* the messages each side has understood, in order
    ended   \* "no"; "left": ended by this side; "found": found to be ended

vars == <<sent, parsed, ended>>

Init ==
    /\ sent = [s \in Side |-> 0]
    /\ parsed = [s \in Side |-> <<>>]
    /\ ended = [s \in Side |-> "no"]

Send(s) ==
    /\ ended[s] = "no"
    /\ \E n \in sent[s] + 1 .. MaxMessages : sent' = [sent EXCEPT ![s] = n]
    /\ UNCHANGED <<parsed, ended>>

Last(q) == IF q = <<>> THEN 0 ELSE q[Len(q)]

(* The messages first .. last, with what was sent between the last one      *)
(* understood and them lost.                                                *)
Understand(s) ==
    /\ ended[s] = "no"
    /\ \E first, last \in 1 .. sent[Peer[s]] :
        /\ Last(parsed[s]) < first /\ first <= last
        /\ Last(parsed[s]) + 1 .. first - 1 \subseteq Fragile
        /\ parsed' = [parsed EXCEPT ![s] =
                @ \o [i \in 1 .. last - first + 1 |-> first - 1 + i]]

Leave(s) ==
    /\ ended[s] = "no"
    /\ ended' = [ended EXCEPT ![s] = "left"]
    /\ UNCHANGED <<sent, parsed>>

FindEnded(s) ==
    /\ ended[s] = "no"
    /\ ended[Peer[s]] # "no" \/ Overflow
    /\ ended' = [ended EXCEPT ![s] = "found"]

Next ==
    \E s \in Side :
        \/ Send(s)
        \/ Understand(s) /\ UNCHANGED <<sent, ended>>
        \/ Leave(s)
        \/ FindEnded(s) /\ UNCHANGED <<sent, parsed>>
        \/ Understand(s) /\ FindEnded(s) /\ UNCHANGED sent

Spec == Init /\ [][Next]_vars
=============================================================================
