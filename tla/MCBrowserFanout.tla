--------------------------- MODULE MCBrowserFanout ---------------------------
(* u1 and u2 have a session each on the node; others have theirs elsewhere.*)
EXTENDS BrowserFanout, TLC
CONSTANTS u1, u2, u3, s1, s2
TwoUsers == [s \in Sessions |-> IF s = s1 THEN u1 ELSE u2]

\* The two users change places together with their sessions.
Swaps == {f \in Permutations({u1, u2, s1, s2}) :
            /\ f[u1] \in {u1, u2} /\ f[s1] \in {s1, s2}
            /\ f[u1] = u1 <=> f[s1] = s1}
=============================================================================
