--------------------------- MODULE MCBotDelivery ---------------------------
(* TLC instances of BotDelivery: one run with two sizes of it, told apart  *)
(* by what a behaviour has used of the bounds when it begins.              *)
EXTENDS BotDelivery

CONSTANTS d1, d2, b1, b2, bad

(* One delivery, every bound open.                                         *)
Alone == Used(Deliveries \ {d1}, {}, [d \in Deliveries |-> 0], 0)

(* Both; the bot has one socket and answers d1 once, nobody dies.          *)
Together ==
  Used({}, 2..Sockets,
       [d \in Deliveries |-> IF d = d1 THEN MaxResults - 1 ELSE MaxResults], MaxCrashes)

MCInit == Fresh /\ kind[d2] = "command_invocation" /\ (Alone \/ Together)

MCSpec == MCInit /\ [][Next]_vars /\ Fairness
=============================================================================
