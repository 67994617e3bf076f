--------------------------- MODULE ScenarioRunner ---------------------------
(***************************************************************************)
(* The conformance runner (conformance/src/runner.ts): one scenario, a     *)
(* sequence of HTTP and WebSocket steps, executed against one target while *)
(* every frame received is recorded under the step whose window was open.  *)
(*                                                                         *)
(* The target is external.  What it answers is a parameter of the actions  *)
(* (the frames it pushes, the pointers found in a body), and `wire' is the *)
(* TCP stream from it to each socket: in order, of any delay.  Timers are  *)
(* outcomes: a settle or a timeout fires when the frames it is meant to    *)
(* outlast have arrived or, as a mishap, before that.  Mishaps are what a  *)
(* target or a network does to a run beyond what the scenario expects; a   *)
(* run has at most MaxMishaps of them.                                     *)
(***************************************************************************)
EXTENDS Integers, Sequences, SequencesExt

CONSTANTS Scripts,      \* the steps of each scenario, by its name
          Actors,       \* the actors of the scenarios
          MaxMishaps,   \* for each scenario, how many mishaps a run may have
          MaxAttempts   \* DEFAULT_MAX_ATTEMPTS of retryUntil, made small

VARIABLES
  scenario,   \* scenario.name
  script,     \* scenario.steps
  i,          \* index of the running step
  phase,      \* what the step awaits
  attempts,   \* requests made by the running http step
  vars,       \* captured variables, each with the step that captured it
  nulls,      \* the captures <<step, variable>> whose value is null
  sockets,    \* Map of open sockets: the actors in insertion order
  pending,    \* frames received by each socket and not yet captured
  failed,     \* socketFailedActors
  received,   \* wsReceived of the running step
  error,      \* error of the running step, None when there is none
  steps,      \* the captures of the finished steps
  wire,       \* frames each socket is still to receive
  mishaps,    \* mishaps so far
  sent        \* history: frames pushed to sockets that were not closed on them

theScenario == <<scenario, script>>
runnerVars == <<theScenario, i, phase, attempts, vars, nulls, sockets, pending,
                failed, received, error, steps, wire, mishaps, sent>>

(* An absent optional field: an error, a waitFor, a reply. *)
None == "none"

Step == script[i]
Actor == Step.actor
Open == ToSet(sockets)

(* `${name}' in the path, headers, body, protocols or frame of the step:  *)
(* a variable that was never captured, or captured as null, throws.        *)
Usable == {v \in DOMAIN vars : <<vars[v], v>> \notin nulls}

MissingVar == ~(Step.uses \subseteq Usable)

(* What a WsPredicate sees of a frame.  Replies echo the id the step sent, *)
(* events and the pushes of the gateways are told apart by type alone.     *)
Replies == {"ack", "err", "delivery_ack"}

Satisfies(frame, type, step) ==
  /\ frame.type = type
  /\ type \in Replies => frame.id = step.id

Predicates(step) == <<step.wait>> \o step.also

(***************************************************************************)
(* waitUntilAll: each frame, in order of arrival, takes the first          *)
(* predicate still unmatched that it satisfies.                            *)
(***************************************************************************)
Unmatched(frames, step) ==
  LET preds == Predicates(step)
      after[n \in 0..Len(frames)] ==
        IF n = 0 THEN DOMAIN preds
        ELSE LET taken == {p \in after[n - 1] : Satisfies(frames[n], preds[p], step)}
             IN after[n - 1] \ {p \in taken : \A q \in taken : p <= q}
  IN after

AllMatched(frames, step) == Unmatched(frames, step)[Len(frames)] = {}

LastMatch(frames, step) ==
  CHOOSE n \in 0..Len(frames) :
    /\ Unmatched(frames, step)[n] = {}
    /\ \A m \in 0..(n - 1) : Unmatched(frames, step)[m] # {}

(* alsoSplice: up to the last frame of that socket matching any predicate. *)
LastOfAny(frames, step) ==
  LET hits == {n \in DOMAIN frames :
                 \E type \in ToSet(Predicates(step)) : Satisfies(frames[n], type, step)}
  IN IF hits = {} THEN 0 ELSE CHOOSE n \in hits : \A m \in hits : m <= n

(* A window that times out takes what there is. *)
TimeoutTakes ==
  [a \in Actors |-> IF a \in {Actor} \cup (Open \cap ToSet(Step.splice))
                    THEN Len(pending[a]) ELSE 0]

(* How many pending frames of each socket a closing window takes. *)
WindowTakes ==
  [a \in Actors |->
     CASE a = Actor -> LastMatch(pending[a], Step)
       [] a # Actor /\ a \in Open \cap ToSet(Step.splice) -> LastOfAny(pending[a], Step)
       [] OTHER -> 0]

(* The frames taken, socket by socket, the actor of the step first. *)
Taken(takes, order) ==
  FlattenSeq([k \in DOMAIN order |-> SubSeq(pending[order[k]], 1, takes[order[k]])])

(* Mutant: slice instead of splice, the frames stay pending. *)
RestKeepsTaken(takes) == pending

Rest(takes) ==
  [a \in Actors |-> SubSeq(pending[a], takes[a] + 1, Len(pending[a]))]

(* The actors of alsoSplice are distinct. *)
SpliceOrder == <<Actor>> \o RemoveFirst(Step.splice, Actor)

(* Assign the variables named to the running step, in the Map vars. *)
Captured(names) ==
  [v \in names \cup DOMAIN vars |-> IF v \in names THEN i ELSE vars[v]]

(***************************************************************************)
(* The end of a step: drainTo moves what is pending on every open socket   *)
(* into the step, socket by socket in the order of the Map, and captures   *)
(* that name a frame (WsCaptureRef) are resolved against the result, in    *)
(* which such a frame has the value.                                       *)
(***************************************************************************)
Drained(socks, pend) == FlattenSeq([k \in DOMAIN socks |-> pend[socks[k]]])

RefsFound(frames) ==
  {ref \in Step.refs : \E n \in DOMAIN frames : Satisfies(frames[n], ref.from, Step)}

EndStep(frames, err, socks, pend) ==
  LET all == frames \o Drained(socks, pend) IN
  /\ steps' = Append(steps, [received |-> all, error |-> err])
  /\ vars' = IF Step.kind = "ws.command"
             THEN Captured({ref.name : ref \in RefsFound(all)}) ELSE vars
  /\ nulls' = IF Step.kind = "ws.command"
              THEN nulls \ ({i} \X {ref.name : ref \in RefsFound(all)}) ELSE nulls
  /\ pending' = [a \in Actors |-> IF a \in ToSet(socks) THEN <<>> ELSE pend[a]]
  /\ sockets' = socks
  /\ received' = <<>>
  /\ error' = None
  /\ i' = i + 1
  /\ phase' = IF i < Len(script) THEN "step" ELSE "final"

(* The target pushes frames on the sockets that are open. *)
Emit(out) ==
  /\ wire' = [a \in Actors |-> IF a \in Open THEN wire[a] \o out[a] ELSE wire[a]]
  /\ sent' = [a \in Actors |-> IF a \in Open THEN sent[a] \o out[a] ELSE sent[a]]

Silent == [a \in Actors |-> <<>>]

(* What happens to a run besides what its scenario expects. *)
Mishap == mishaps < MaxMishaps[scenario] /\ mishaps' = mishaps + 1
AsExpected(expected) == IF expected THEN UNCHANGED mishaps ELSE Mishap

(* A step that goes on to its settle wait with an error or without. *)
SettleWith(err) == phase' = "settle" /\ error' = err

-----------------------------------------------------------------------------
RunnerInit ==
  /\ scenario \in DOMAIN Scripts
  /\ script = Scripts[scenario]
  /\ i = 1
  /\ phase = "step"
  /\ attempts = 0
  /\ vars = <<>>
  /\ nulls = {}
  /\ sockets = <<>>
  /\ pending = Silent
  /\ failed = {}
  /\ received = <<>>
  /\ error = None
  /\ steps = <<>>
  /\ wire = Silent
  /\ mishaps = 0
  /\ sent = Silent

Starts(kind) == phase = "step" /\ Step.kind = kind

(* A frame reaches the socket; onFrame appends it to the pending list. *)
(* Between a drain and the first await of the next step nothing is read. *)
Arrive(a) ==
  /\ phase \in {"http", "connect", "window", "settle", "final"}
  /\ a \in Open
  /\ wire[a] # <<>>
  /\ pending' = [pending EXCEPT ![a] = Append(@, Head(wire[a]))]
  /\ wire' = [wire EXCEPT ![a] = Tail(@)]
  /\ UNCHANGED <<theScenario, i, phase, attempts, vars, nulls, sockets, failed, received,
                 error, steps, mishaps, sent>>

(* runHttpStep interpolates, then makes the first attempt. *)
HttpStart ==
  /\ Starts("http")
  /\ IF MissingVar
     THEN SettleWith("missing var") /\ UNCHANGED attempts
     ELSE phase' = "http" /\ attempts' = 1 /\ UNCHANGED error
  /\ UNCHANGED <<theScenario, i, vars, nulls, sockets, pending, failed, received, steps,
                 wire, mishaps, sent>>

(* beginRead throws: the step is over before its request is made. *)
BeginReadFails ==
  /\ Starts("http")
  /\ Step.read
  /\ Mishap
  /\ SettleWith("probe")
  /\ UNCHANGED <<theScenario, i, attempts, vars, nulls, sockets, pending, failed, received,
                 steps, wire, sent>>

(* Mutant: the last of several pointers is dropped without an error. *)
FoundButLast(found) == {Step.caps[k] : k \in 1..(Len(Step.caps) - 1)} \cap found

(* The pointers are captured in order up to the first one not found; one   *)
(* whose value is null is found.                                           *)
FoundPrefix(found) ==
  LET n == CHOOSE n \in 0..Len(Step.caps) :
             /\ \A k \in 1..n : Step.caps[k] \in found
             /\ n < Len(Step.caps) => Step.caps[n + 1] \notin found
  IN {Step.caps[k] : k \in 1..n}

(* Mutant: only the first request is counted. *)
SameAttempt == attempts

NextAttempt == attempts + 1

(***************************************************************************)
(* A response: `good' says whether retryUntil is satisfied by it, `found'  *)
(* which pointers its body has, `empty' which of them are null, `out' what *)
(* the request makes the target push.  The predicate of retryUntil reads   *)
(* the variables ctx: unset, no response is good.  A good answer comes     *)
(* within the attempts.                                                    *)
(***************************************************************************)
HttpAnswer(good, found, empty, out) ==
  LET again == Step.retry /\ ~good IN
  /\ phase = "http"
  /\ good => Step.ctx \subseteq Usable
  /\ Emit(out)
  /\ AsExpected(/\ ToSet(Step.caps) \subseteq found /\ empty = {}
                /\ again => attempts < MaxAttempts \/ ~(Step.ctx \subseteq Usable))
  /\ IF again /\ attempts < MaxAttempts
     THEN attempts' = NextAttempt /\ UNCHANGED <<phase, vars, nulls, error>>
     ELSE /\ UNCHANGED attempts
          /\ IF again
             THEN SettleWith("retryUntil") /\ UNCHANGED <<vars, nulls>>
             ELSE /\ vars' = Captured(FoundPrefix(found))
                  /\ nulls' = nulls \cup {i} \X (FoundPrefix(found) \cap empty)
                  /\ SettleWith(IF ToSet(Step.caps) \subseteq found
                                THEN None ELSE "capture")
  /\ UNCHANGED <<theScenario, i, sockets, pending, failed, received, steps>>

HttpTransportError ==
  /\ phase = "http"
  /\ Mishap
  /\ SettleWith("transport error")
  /\ UNCHANGED <<theScenario, i, attempts, vars, nulls, sockets, pending, failed, received,
                 steps, wire, sent>>

(* endRead throws: what the step captured stays, its error is replaced. *)
EndReadFails ==
  /\ phase = "settle"
  /\ Step.kind = "http"
  /\ Step.read
  /\ error # "probe"
  /\ Mishap
  /\ SettleWith("probe")
  /\ UNCHANGED <<theScenario, i, attempts, vars, nulls, sockets, pending, failed, received,
                 steps, wire, sent>>

(* openSocket: interpolation, then the handshake. *)
ConnectStart ==
  /\ Starts("ws.connect")
  /\ IF MissingVar
     THEN /\ failed' = failed \cup {Actor}
          /\ EndStep(<<>>, "missing var", sockets, pending)
     ELSE /\ phase' = "connect"
          /\ UNCHANGED <<i, vars, nulls, sockets, pending, failed, received, error, steps>>
  /\ UNCHANGED <<theScenario, attempts, wire, mishaps, sent>>

(* sockets.set(actor, session): a Map keeps the place of a key it has. *)
WithSocket(a) == IF a \in Open THEN sockets ELSE Append(sockets, a)

(* A new socket replaces the one the actor had, and what that one held. *)
ConnectAccepted ==
  /\ phase = "connect"
  /\ EndStep(<<>>, None, WithSocket(Actor), [pending EXCEPT ![Actor] = <<>>])
  /\ wire' = [wire EXCEPT ![Actor] = <<>>]
  /\ sent' = [sent EXCEPT ![Actor] =
                SubSeq(@, 1, Len(@) - Len(wire[Actor]) - Len(pending[Actor]))]
  /\ AsExpected(Step.reply # "refused")
  /\ UNCHANGED <<theScenario, attempts, failed>>

ConnectRefused ==
  /\ phase = "connect"
  /\ AsExpected(Step.reply = "refused")
  /\ EndStep(<<>>, "refused", sockets, pending)
  /\ failed' = failed \cup {Actor}
  /\ UNCHANGED <<theScenario, attempts, wire, sent>>

NoOpenSocket == Actor \in failed \/ Actor \notin Open

(* ws.command: the checks, the send and, without waitFor, the whole window. *)
CommandStart(out) ==
  /\ Starts("ws.command")
  /\ IF NoOpenSocket \/ MissingVar
     THEN /\ SettleWith(IF NoOpenSocket THEN "no open socket" ELSE "missing var")
          /\ UNCHANGED <<wire, sent, pending, received>>
     ELSE /\ Emit(out)
          /\ IF Step.wait = None
             THEN /\ SettleWith(None)
                  /\ received' = pending[Actor]
                  /\ pending' = [pending EXCEPT ![Actor] = <<>>]
             ELSE phase' = "window" /\ UNCHANGED <<error, pending, received>>
  /\ UNCHANGED <<theScenario, i, attempts, vars, nulls, sockets, failed, steps, mishaps>>

EventStart(out) ==
  /\ Starts("ws.event")
  /\ IF NoOpenSocket
     THEN SettleWith("no open socket") /\ UNCHANGED <<wire, sent>>
     ELSE phase' = "window" /\ Emit(out) /\ UNCHANGED error
  /\ UNCHANGED <<theScenario, i, attempts, vars, nulls, sockets, pending, failed, received,
                 steps, mishaps>>

(* A poll of waitUntilAll that finds every predicate matched.  Pointers of *)
(* the step, those `found' in the frame that satisfies waitFor, are        *)
(* captured, the `empty' ones as null; one not found is passed over.       *)
CloseWindow(found, empty) ==
  /\ phase = "window"
  /\ AllMatched(pending[Actor], Step)
  /\ received' = Taken(WindowTakes, SpliceOrder)
  /\ pending' = Rest(WindowTakes)
  /\ AsExpected(ToSet(Step.caps) \subseteq found /\ empty = {})
  /\ vars' = Captured(ToSet(Step.caps) \cap found)
  /\ nulls' = nulls \cup {i} \X (ToSet(Step.caps) \cap found \cap empty)
  /\ SettleWith(None)
  /\ UNCHANGED <<theScenario, i, attempts, sockets, failed, steps, wire, sent>>

(* Mutant: no settle, what is in flight is left for the next step. *)
NoPatience(inFlight) == UNCHANGED mishaps

(* A timer that outlasts what the sockets have in flight, or is early. *)
Patience(inFlight) ==
  \/ inFlight = {} /\ UNCHANGED mishaps
  \/ inFlight # {} /\ Mishap

(* The last poll may come before the last frame. *)
Timeout ==
  /\ phase = "window"
  /\ Patience({a \in {Actor} : wire[a] # <<>> \/ AllMatched(pending[a], Step)})
  /\ received' = Taken(TimeoutTakes, SpliceOrder)
  /\ pending' = Rest(TimeoutTakes)
  /\ SettleWith("timeout")
  /\ UNCHANGED <<theScenario, i, attempts, vars, nulls, sockets, failed, steps, wire, sent>>

(* The frames of a socket closed by the scenario are never read again. *)
CloseStep ==
  /\ Starts("ws.close")
  /\ IF Actor \in Open
     THEN /\ EndStep(<<>>, None, RemoveFirst(sockets, Actor),
                     [pending EXCEPT ![Actor] = <<>>])
          /\ wire' = [wire EXCEPT ![Actor] = <<>>]
          /\ sent' = [sent EXCEPT ![Actor] =
                        SubSeq(@, 1, Len(@) - Len(wire[Actor]) - Len(pending[Actor]))]
     ELSE /\ EndStep(<<>>, "no open socket", sockets, pending)
          /\ UNCHANGED <<wire, sent>>
  /\ UNCHANGED <<theScenario, attempts, failed, mishaps>>

WaitStep ==
  /\ Starts("wait")
  /\ phase' = "settle"
  /\ UNCHANGED <<theScenario, i, attempts, vars, nulls, sockets, pending, failed, received,
                 error, steps, wire, mishaps, sent>>

(* Mutant: the settle waits for the socket of the step alone. *)
InFlightOwn == {a \in Open : wire[a] # <<>> /\ i <= Len(script) /\ a = Actor}

InFlight == {a \in Open : wire[a] # <<>>}

(* SETTLE_MS, or the milliseconds of a wait step, then the drain. *)
Settle ==
  /\ phase = "settle"
  /\ Patience(InFlight)
  /\ EndStep(received, error, sockets, pending)
  /\ UNCHANGED <<theScenario, attempts, failed, wire, sent>>

(* The last 500 ms; __final_drain is recorded only when it has frames. *)
FinalDrain ==
  /\ phase = "final"
  /\ Patience(InFlight)
  /\ LET all == Drained(sockets, pending) IN
     steps' = IF all = <<>> THEN steps
              ELSE Append(steps, [received |-> all, error |-> None])
  /\ pending' = [a \in Actors |-> IF a \in Open THEN <<>> ELSE pending[a]]
  /\ phase' = "done"
  /\ UNCHANGED <<theScenario, i, attempts, vars, nulls, sockets, failed, received, error,
                 wire, sent>>

(* The steps that need no data from the target. *)
RunnerInternal ==
  \/ \E a \in Actors : Arrive(a)
  \/ HttpStart \/ BeginReadFails \/ EndReadFails \/ HttpTransportError
  \/ ConnectStart \/ ConnectAccepted \/ ConnectRefused
  \/ Timeout
  \/ CloseStep \/ WaitStep \/ Settle \/ FinalDrain
=============================================================================
