----------------------------- MODULE MCBufferPool -----------------------------
(* BufferPool with two sizes, the larger of which takes two of the smaller. *)
EXTENDS BufferPool

MCSizeClasses == <<1, 2>>
=============================================================================
