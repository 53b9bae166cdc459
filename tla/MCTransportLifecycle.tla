------------------------ MODULE MCTransportLifecycle ------------------------
(* The life of both ends of a transport: one kind of trouble a behaviour. *)
EXTENDS TransportLifecycle
=============================================================================
