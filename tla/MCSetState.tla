------------------------------ MODULE MCSetState ------------------------------
(* SetState and Beacon as TLC checks them: constants are in the cfg.         *)
EXTENDS SetState
=============================================================================
