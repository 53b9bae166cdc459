--------------------------- MODULE MCChannelClose ---------------------------
(* ChannelClose with a limit smaller than a message, so that a write in    *)
(* progress depends on the other end while the channel closes.             *)
EXTENDS ChannelClose

MCMaxWrites == [e \in Ends |-> IF e = "a" THEN 1 ELSE 0]
MCMaxCloses == [e \in Ends |-> 1]
=============================================================================
