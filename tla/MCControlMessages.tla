------------------------- MODULE MCControlMessages -------------------------
(* ControlMessages for all control messages that have up to six chunks     *)
(* together.                                                               *)
EXTENDS ControlMessages
============================================================================
