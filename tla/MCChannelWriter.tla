-------------------------- MODULE MCChannelWriter --------------------------
(* TLC instances of ChannelWriter. *)
EXTENDS ChannelWriter

CONSTANTS owner, member, k1, b1, b2, none
=============================================================================
