-------------------------- MODULE MCChannelRequest --------------------------
(* ChannelRequest with enough requests to open the channel, close it and   *)
(* open it again, from either end or both.                                 *)
EXTENDS ChannelRequest
=============================================================================
