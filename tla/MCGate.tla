------------------------------- MODULE MCGate -------------------------------
(* A worker and an Elixir server, two workers, and a third target.         *)
EXTENDS Gate, Exchanges

W(name) == [kind |-> "worker", name |-> name]
E(name) == [kind |-> "elixir", name |-> name]

MCTargetLists == {<<W("w"), E("e")>>, <<W("w1"), W("w2")>>, <<E("e1"), W("w"), E("e2")>>}

MCKnown == {<<"client", "alice">>, <<"client", "send">>}

MCAlphabet ==
  <<Text(""), Text("accept-encoding"), Text("ask"), Text("changed"), Text("channel"),
    Text("general"), Text("origin"), Text("ponder"), Text("random"), Str("uuid", "", Mask)>>

MCRequests ==
  {"create", "list", "bootstrap", "detail", "events", "directory", "presign", "invite",
   "token", "preview", "detail-forbidden", "conflict", "show-missing", "role-missing",
   "role-forbidden", "transfer-missing", "members-gone", "join-gone", "members-forbidden",
   "send-forbidden", "invoke", "delete"}

MCWrites == {"role-forbidden", "send-forbidden"}
=============================================================================
