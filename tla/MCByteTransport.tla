--------------------------- MODULE MCByteTransport ---------------------------
(* ByteTransport with a ring of five bytes, which the first message makes  *)
(* wrap, and text of two-byte characters that may straddle its end.        *)
EXTENDS ByteTransport

MCShapes == {[header |-> 3, data |-> 0, char |-> 1], [header |-> 2, data |-> 2, char |-> 2]}
=============================================================================
