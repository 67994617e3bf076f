------------------------ MODULE MCChannelMembership ------------------------
(* Users are interchangeable: symmetry is sound, nothing is a liveness.    *)
EXTENDS ChannelMembership, TLC
CONSTANTS u1, u2, u3, k1
UserSymmetry == Permutations(Users)
=============================================================================
