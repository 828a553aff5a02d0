------------------------- MODULE MCExchange -------------------------
(* Instances of DatarefExchange for TLC.                                    *)
EXTENDS DatarefExchange, TLC
=============================================================================
