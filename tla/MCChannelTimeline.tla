------------------------- MODULE MCChannelTimeline -------------------------
(* TLC instances of ChannelTimeline. *)
EXTENDS ChannelTimeline

CONSTANTS owner, member, k1, b1, b2, none, r1, r2
=============================================================================
