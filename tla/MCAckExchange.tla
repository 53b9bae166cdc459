--------------------------- MODULE MCAckExchange ---------------------------
(* AckExchange with counts of at most 2 and at most 5 counts to a message: *)
(* a window of 9 has runs and gaps that need continuations, and lists that *)
(* run full in a run, in a gap and between the two.                        *)
EXTENDS AckExchange

MCSeqs == 1 .. 9
============================================================================
