------------------------------ MODULE MCDuplex ------------------------------
(* Duplex with messages of several chunks both ways and room for less than *)
(* a whole one, so that writes block.                                      *)
EXTENDS Duplex

MCWrites == [e \in Ends |-> IF e = "a" THEN <<3>> ELSE <<2, 1>>]
MCTogether == [e \in Ends |-> e = "a"]
=============================================================================
