--------------------------- MODULE MCMessageTypes ---------------------------
(* MessageTypes with two types, registered one by one or both at once.     *)
EXTENDS MessageTypes
=============================================================================
