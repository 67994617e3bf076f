-------------------------- MODULE MCScenarioSuite --------------------------
(* The suite of the repository and one script for what no scenario uses.   *)
EXTENDS ScenarioSuite, Scenarios

(* ws.event and alsoSplice, with the push of a bot that races an ack. *)
Unused == <<
  Connect("alice", "alice", {}),
  Connect("bot", "bot", {}),
  [Delivers(Commit("invoke", "alice", {}, "command.invoked"),
            "delivery:command_invocation", "deliveryId")
     EXCEPT !.splice = <<"bot">>, !.also = @ \o <<"delivery:command_invocation">>,
            !.push["alice"] = <<"delivery:command_invocation">>],
  [Fan(StepOf("ws.event", "tick", "alice", {}), <<"tick">>) EXCEPT !.wait = "tick"],
  Connect("again", "alice", {}),
  Close("bot", "bot") >>

MCScripts == Suite @@ ("unused" :> Unused)

(* Mishaps are spent on the scripts that are short enough for it. *)
MCMaxMishaps ==
  [s \in DOMAIN MCScripts |->
     IF s = "message-write" THEN 0 ELSE 1]

MCNoMishaps == [s \in DOMAIN MCScripts |-> 0]
=============================================================================
