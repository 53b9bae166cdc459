-------------------------- MODULE MCDechunkedRead --------------------------
(* DechunkedRead for every sequence of up to three messages that each fit  *)
(* the limit: a message of n chunks needs a limit of n + 1, as writable()  *)
(* asks for more budget than the chunk takes.                              *)
EXTENDS DechunkedRead

ASSUME EachMessageFits == MaxLength < Limit
============================================================================
