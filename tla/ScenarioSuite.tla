--------------------------- MODULE ScenarioSuite ---------------------------
(***************************************************************************)
(* The runner over the scripts of the suite, against a target that does    *)
(* what the scenario expects of it but for a bounded number of mishaps: a  *)
(* timer that fires early, a refused connect, a transport error, an answer *)
(* without the value to capture or with null, a read probe that fails.     *)
(***************************************************************************)
EXTENDS ScenarioRunner, FiniteSets

(* The steps a scenario is written in (types.ts), with what is expected of *)
(* the target.  An actor is listed once in alsoSplice.                     *)
StepDefs ==
  [kind : {"http", "ws.connect", "ws.command", "ws.event", "ws.close", "wait"},
   name : STRING, actor : Actors, uses : SUBSET STRING, id : STRING,
   caps : Seq(STRING), refs : SUBSET [name : STRING, from : STRING],
   ctx : SUBSET STRING, read : BOOLEAN, retry : BOOLEAN,
   wait : STRING, also : Seq(STRING), splice : {s \in Seq(Actors) : IsInjective(s)},
   reply : STRING, fan : Seq(STRING), to : SUBSET Actors, push : [Actors -> Seq(STRING)]]

(* The step is written to set the variable, when it succeeds.              *)
Sets(step, v) ==
  \/ step.kind = "http" /\ v \in ToSet(step.caps)
  \/ step.kind = "ws.command" /\ (v \in ToSet(step.caps) \/ \E ref \in step.refs : ref.name = v)

ASSUME SuiteAssumption ==
  /\ MaxAttempts \in Nat \ {0}
  /\ MaxMishaps \in [DOMAIN Scripts -> Nat]
  /\ \A s \in DOMAIN Scripts : Scripts[s] \in Seq(StepDefs) \ {<<>>}

(* A scenario interpolates only variables that an earlier step of it sets. *)
ASSUME VariablesAreSet ==
  \A s \in DOMAIN Scripts : \A n \in DOMAIN Scripts[s] : \A v \in Scripts[s][n].uses :
    \E m \in 1..(n - 1) : Sets(Scripts[s][m], v)

(* What step n of a script makes the target push to actor a, in order.     *)
PushedTo(scr, n, a) ==
  LET step == scr[n]
      reply == IF a = step.actor /\ step.reply \notin {None, "refused"}
               THEN <<step.reply>> ELSE <<>>
      events == IF a \in step.to THEN step.fan ELSE <<>>
      types == reply \o events \o step.push[a]
  IN [k \in DOMAIN types |-> [type |-> types[k], step |-> n, id |-> step.id, on |-> a]]

Pushed == [a \in Actors |-> PushedTo(script, i, a)]

(* All pointers of the step found, or all but one. *)
Findings ==
  IF i > Len(script) THEN {}
  ELSE {ToSet(Step.caps)} \cup {ToSet(Step.caps) \ {c} : c \in ToSet(Step.caps)}

(* No pointer of the step is null, or one. *)
Nullings == IF i > Len(script) THEN {} ELSE {{}} \cup {{c} : c \in ToSet(Step.caps)}

(* The steps in which the target has a part. *)
Target ==
  \/ \E good \in BOOLEAN : \E found \in Findings : \E empty \in Nullings :
        /\ good \/ Step.retry
        /\ HttpAnswer(good, found, empty, Pushed)
  \/ CommandStart(Pushed) \/ EventStart(Pushed)
  \/ \E found \in Findings : \E empty \in Nullings : CloseWindow(found, empty)

(* The run is over: the capture is returned. *)
Done == phase = "done" /\ UNCHANGED runnerVars

SuiteNext ==
  \/ RunnerInternal
  \/ Target
  \/ Done

(* A target answers or the request fails, a socket delivers, a timer fires. *)
SuiteSpec == RunnerInit /\ [][SuiteNext]_runnerVars /\ WF_runnerVars(SuiteNext)
-----------------------------------------------------------------------------
(* What a script fixes of a run without mishaps.                           *)

(* An earlier connect of the actor was refused: step n is not carried out. *)
Denied(scr, n) ==
  /\ scr[n].kind \in {"ws.command", "ws.event"}
  /\ \E m \in 1..(n - 1) : scr[m].actor = scr[n].actor /\ scr[m].reply = "refused"

(* The sockets that are open after each step, oldest first. *)
SocketsPast(step, open) ==
  CASE step.kind = "ws.connect" /\ step.reply # "refused" ->
         IF step.actor \in ToSet(open) THEN open ELSE Append(open, step.actor)
    [] step.kind = "ws.close" -> RemoveFirst(open, step.actor)
    [] OTHER -> open

SocketsAfter(scr) ==
  LET after[n \in 0..Len(scr)] ==
        IF n = 0 THEN <<>> ELSE SocketsPast(scr[n], after[n - 1])
  IN after

(* The frames of its own socket that the window of step n takes. *)
Cut(scr, n) ==
  IF scr[n].wait = None THEN 0 ELSE LastMatch(PushedTo(scr, n, scr[n].actor), scr[n])

(* What the window of step n leaves of the frames pushed to each actor. *)
LeftOver(scr, n) ==
  [a \in Actors |->
     LET own == PushedTo(scr, n, a)
     IN IF a = scr[n].actor THEN SubSeq(own, Cut(scr, n) + 1, Len(own)) ELSE own]

(* The capture of step n: its window, then what each socket has left. *)
ExpectedCapture(scr, n) ==
  IF Denied(scr, n) THEN <<>>
  ELSE SubSeq(PushedTo(scr, n, scr[n].actor), 1, Cut(scr, n))
         \o Drained(SocketsAfter(scr)[n], LeftOver(scr, n))

(* The variables step n sets, if nothing goes wrong. *)
SureToSet(scr, n) ==
  IF Denied(scr, n) THEN {}
  ELSE {v \in ToSet(scr[n].caps) :
          scr[n].kind = "http" \/ (scr[n].kind = "ws.command" /\ scr[n].wait # None)}
       \cup {ref.name : ref \in
               {r \in scr[n].refs :
                  /\ scr[n].kind = "ws.command"
                  /\ \E k \in DOMAIN ExpectedCapture(scr, n) :
                       Satisfies(ExpectedCapture(scr, n)[k], r.from, scr[n])}}

(***************************************************************************)
(* How a scenario is written, so that a target that does what it expects   *)
(* never fails it.  Only commands and events have a window, and only       *)
(* requests made once, commands and events make the target push.           *)
(***************************************************************************)
StepsAreExchanges(scr) ==
  \A n \in DOMAIN scr :
    LET step == scr[n] IN
    /\ step.kind = "ws.event" => step.wait # None
    /\ step.wait # None => step.kind \in {"ws.command", "ws.event"}
    /\ step.reply = "refused" => step.kind = "ws.connect"
    /\ step.retry \/ step.kind \in {"ws.connect", "ws.close", "wait"} =>
         \A a \in Actors : PushedTo(scr, n, a) = <<>>

(* A step that sends or closes has its socket, unless a refusal denies it.  *)
SocketsAreOpen(scr) ==
  \A n \in DOMAIN scr :
    scr[n].kind \in {"ws.command", "ws.event", "ws.close"} /\ ~Denied(scr, n) =>
      scr[n].actor \in ToSet(SocketsAfter(scr)[n - 1])

(* What a step uses an earlier step was sure to set. *)
VariablesAreSure(scr) ==
  \A n \in DOMAIN scr : ~Denied(scr, n) =>
    \A v \in scr[n].uses \cup scr[n].ctx : \E m \in 1..(n - 1) : v \in SureToSet(scr, m)

(* The frames a window waits for are among those its step has pushed.  One *)
(* that splices takes all of its own, and one open socket besides has any. *)
WindowsClose(scr) ==
  \A n \in DOMAIN scr : scr[n].wait # None /\ ~Denied(scr, n) =>
    LET own == PushedTo(scr, n, scr[n].actor) IN
    /\ AllMatched(own, scr[n])
    /\ scr[n].splice # <<>> =>
         /\ Cut(scr, n) = Len(own)
         /\ \A a, b \in ToSet(SocketsAfter(scr)[n]) \ {scr[n].actor} :
              PushedTo(scr, n, a) # <<>> /\ PushedTo(scr, n, b) # <<>> => a = b

ASSUME ScriptsAreSound ==
  \A s \in DOMAIN Scripts :
    /\ StepsAreExchanges(Scripts[s]) /\ SocketsAreOpen(Scripts[s])
    /\ VariablesAreSure(Scripts[s]) /\ WindowsClose(Scripts[s])
-----------------------------------------------------------------------------
On(a, frames) ==
  FlattenSeq([n \in DOMAIN frames |-> IF frames[n].on = a THEN <<frames[n]>> ELSE <<>>])

Captures == FlattenSeq([n \in DOMAIN steps |-> steps[n].received])

(***************************************************************************)
(* Between the windows, the settles, the drains and the final drain no     *)
(* frame a socket received is lost, recorded twice or moved before an      *)
(* earlier one of that socket, however early the timers fire.              *)
(***************************************************************************)
CapturedInOrder ==
  LET captured == Captures \o received IN
  \A a \in Actors : On(a, captured) \o pending[a] \o wire[a] = sent[a]

(* Step i - 1 is over and the next not begun: each step is looked at once. *)
JustFinished == i > 1 /\ phase \in {"step", "final"}

(***************************************************************************)
(* Without mishaps the capture of a step is a function of what the target  *)
(* pushed because of it: neither the delays of the sockets nor the moment  *)
(* the window closes show in it, which is what makes two captures          *)
(* comparable at all.                                                      *)
(***************************************************************************)
CaptureIsDeterministic ==
  JustFinished /\ mishaps = 0 => Last(steps).received = ExpectedCapture(script, i - 1)

(***************************************************************************)
(* Without mishaps the scripts run to their end with the errors they are   *)
(* written for, the refused connects, and the errors of later steps of the *)
(* same actor: no step interpolates a variable no step before it captured, *)
(* waits for a frame that is captured elsewhere or lacks a socket.         *)
(***************************************************************************)
ErrorsHaveCause ==
  JustFinished /\ mishaps = 0 /\ Last(steps).error # None =>
    script[i - 1].reply = "refused" \/ Denied(script, i - 1)

(* The steps whose capture was to set one of the variables step n uses. *)
Providers(n) ==
  {m \in 1..(n - 1) : \E v \in script[n].uses :
     v \in ToSet(script[m].caps) \/ \E ref \in script[m].refs : ref.name = v}

(***************************************************************************)
(* A variable that is missing is the error of an earlier step, but for two *)
(* cases that leave no error behind: a frame without the value to capture, *)
(* and a value that is null, which the capture takes (runner.ts:563) and   *)
(* the interpolation refuses (runner.ts:106-107).                          *)
(***************************************************************************)
MissingVarsExplained ==
  JustFinished /\ Last(steps).error = "missing var" =>
    \E m \in Providers(i - 1) :
      \/ steps[m].error # None
      \/ script[m].kind = "ws.command"
      \/ \E v \in script[i - 1].uses : <<m, v>> \in nulls

(***************************************************************************)
(* A step is recorded as without a socket only when its actor has none     *)
(* open (runner.ts: "no open socket for actor").                           *)
(***************************************************************************)
OpenSocketIsUsed ==
  (phase = "settle" /\ error = "no open socket") => Actor \notin Open

(* Every run ends: no window, retry or drain waits for ever. *)
RunCompletes == <>(phase = "done")
=============================================================================
