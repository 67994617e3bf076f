---------------------------- MODULE MCChannelOpen ----------------------------
(* Requests are interchangeable, and so are users: symmetry is sound.      *)
EXTENDS ChannelOpen, TLC
CONSTANTS r1, r2, r3, ua, ub, uc, k1, k2, b1, b2
OpenSymmetry == Permutations(Requests) \cup Permutations(Users)
=============================================================================
