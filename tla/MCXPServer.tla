----------------------------- MODULE MCXPServer -----------------------------
(* Instances of XPServer for TLC: more clients than slots, so that slots    *)
(* run out, are given up and are used again by another client.              *)
EXTENDS XPServer, TLC
=============================================================================
