--------------------------- MODULE MCFlowControl ---------------------------
(* FlowControl on small instances, with ACK messages as AckRanges encodes  *)
(* them when counts go to 1 and a message carries 3 of them: a chunk after *)
(* two gaps, or far behind a gap, has to wait for a second message.        *)
EXTENDS FlowControl

Encoding == INSTANCE AckRanges WITH MaxCount <- 1, MaxRanges <- 3

MCMaxSeq == 5
\* two one-chunk messages around one of three chunks, sizes 1 and 2
MCSize == <<1, 2, 1, 2, 1>>
MCReserve == <<1, 2, 2, 2, 1>>
MCMessageOf == <<1, 2, 2, 2, 3>>

\* a set of pairs, for TLC to compute once
AckTable ==
    {LET ack == Encoding!GetAckInfo(P) IN <<P, Encoding!Covered(ack.base, ack.ranges)>> :
        P \in SUBSET Chunks \ {{}}}
MCAckSet(P) == IF P = {} THEN {} ELSE (CHOOSE pair \in AckTable : pair[1] = P)[2]
============================================================================
