# A verification of the lilium-chat server

lilium-chat-v2 is a chat server written in Elixir: Phoenix for HTTP and
WebSockets, Postgres (schema `chat_v2`) as the source of truth, and one process
per channel through which the writes of that channel go. This directory holds
TLA+ modules of its concurrent core and of the differential conformance harness
(TypeScript, `src/conformance/`) that decides whether it may replace the older
implementation, the configurations TLC checks them with and proofs that TLAPS
checks. File names without a directory are under `src/lib/lilium_chat/` or, when
they end in `.ts`, under `src/conformance/src/`; "contract" is
`src/docs/api-contract.md`.

Contents: 1 the system; 2 the plan; 3 the modules; 4 the runs; 5 fairness;
6 the proofs; 7 where the code and its documents disagree; 8 observations
without a run; 9 what is not modelled.

## 1. The system

### Components, their state and their operations

| Component | State it keeps | Operations |
|---|---|---|
| Channel writer (`channel.ex`) | in memory: the event-id counter `{last_ms, counter}`, session timers; in Postgres: the channel's rows and `events` | 26 `handle_call` commands: create, update, dissolve, roster, invites, join, DM, send, edit, delete, pins, streams, bot effects, session starts, inputs, acks and closes; timers `handle_info` |
| Event ids (`ids.ex`) | none; a pure function of counter and clock | allocate, format, parse back |
| Idempotency (`idempotency.ex`) | rows keyed by principal, operation and key, with a hash, an answer and an expiry | `check`, `write_completed`, `run_writer_operation` |
| Roster (`member_commands.ex`, `channel_join.ex`, `invite_commands.ex`, `channel_lifecycle.ex`) | `channel_members`, `invites`, `member_count`, `membership_version`, `created_by` | add, change role, remove, leave, transfer, join, create and accept an invite, update, dissolve |
| DM and create (`dms.ex`, `channel.ex`) | `dm_pairs`, `channels` | `dm.open`, `channel.create`, each on a writer of its own |
| Timeline reads (`timeline.ex`) | none | pages of events after a cursor |
| Command bindings (`channel_commands.ex`) | binding rows, `command_manifest_version` | update in the request's own process, not the writer's |
| Browser sessions (`browser_channel.ex`) | PubSub registrations, the `subscribed` assign, a mailbox of frames | `live_start`, frame by frame gate and push |
| Membership cache (`membership_cache.ex`) | one ETS entry per channel, shared by all sessions of a node | `put`, `gate_check` |
| Bot connection (`bot_connection.ex`, `bot_channel.ex`) | per bot: session, lease timer, offline timer | connect, push, deliver_result, detach, expiries |
| Bot delivery (`bot_delivery.ex`) | `bot_deliveries`, the status of `command_invocations` and `interactions` | commit, resume, apply a result, expire |
| Bot effects (`bot_effects.ex`) | messages, pins, streams; idempotency rows per effect | validate, apply a batch |
| Command sessions (`stateful_sessions.ex`) | `stateful_sessions`, inputs, pending acks, timers | start, ack, input, effects, stop, close |
| Bot streams (`stream.ex`, `stream_write.ex`) | a process per streaming message: buffer, timers | append, finalize, abandon, expire, rehydrate |
| Read state, uploads, stickers, housekeeping | rows of their own | upsert cursors, mint and consume uploads, sweep |
| Conformance runner (`runner.ts`, `ws-client.ts`) | captured variables, open sockets with their pending frames, actors whose connect failed, the captures so far | `runScenario`: http with retries and read probes, ws connect, command, event, close, wait; settle, drain, final drain |
| Scenarios (`src/conformance/scenarios`) | none | 14 sequences of 8 to 102 steps |
| Normalizer and diff (`normalize.ts`, `diff.ts`) | none; pure functions | `normalizeCapture`, `diffValues`, `captureForDiff` |
| Gate (`cli.ts`, `read-path.ts`, `targets/`) | captures per target; the probe's connection and, in the database, its audit table and triggers | reset, start, install, begin and end of an observed read, uninstall, stop, verdict |

`PROJECT.json` lists all components with their sources, and the hazards at
their lines.

### How they interact

* An HTTP or WebSocket handler calls a writer with `GenServer.call`, 30 s. The
  writer is started lazily, registered by channel id, and `:temporary`: nobody
  restarts it but the next caller. It runs one command at a time: read, then a
  Postgres transaction that writes the rows, the events and the idempotency row,
  then, outside the transaction, the broadcasts, then the answer.
* The event-id counter is only in memory. A new writer reads it back from the
  newest event of the channel.
* Broadcasts go over Phoenix.PubSub to every session process registered on the
  channel's topic, as a message in its mailbox. Each session decides for itself,
  with the shared cache and, if the frame is newer than the cache, with the
  `channel_members` row, whether to push it.
* `channel.create` and `dm.open` have no channel yet: each request mints an id
  and runs on the writer of that id, so two requests run in parallel and meet
  only in Postgres.
* A binding update writes to the same `events` table from the request process.
* The writer calls the bot's process (push, 1 s) from inside its transaction,
  and the bot's process calls the writer (apply, 30 s).
* The gate runs a scenario against one target after the other, in process: the
  runner talks to the target over HTTP and WebSockets, the probe to its database.
  A capture says what was received in which step. Two captures, normalized, are
  compared value by value and the exit code is the verdict.

### What is hard

Crashes between transaction, broadcast and reply; a counter that must survive
the process and a clock that steps back; callers that time out and retry with
the same key while the first copy still waits in a mailbox; idempotency rows
that expire under a retry; commands with two events and two versions; a cache
shared by sessions whose mailboxes are not in step; two transactions of two
writers that meet in a unique index; two processes that call each other; timers
whose message is already in the mailbox when they are cancelled; a late answer
against an expiry. Nothing of this is reachable by the ordinary tests in
`src/test`, which drive one command after another. In the harness: a capture
must be a function of what the target did although frames arrive when they
like, timers fire when they like and steps fail; a normalizer of some twenty
rewritings must hide what it is meant to hide and nothing else; a probe in a
shared database must leave nothing behind and blame nobody for what it did
itself.

### What makes each component correct

* *Writer*: ids ascend in commit order; one live key runs once; an answer names
  committed events; frames leave in order after their commit; nobody who calls
  waits for ever; after dissolve no message commits; a session closes once.
* *Roster*: one owner, a right count, a timeline that rebuilds the roster, a
  version per change, silence after the end, retries that do not act again,
  invite limits that hold.
* *Timeline*: paging from a cursor gives every event.
* *Fanout*: frames in order but for those of one's own invocation, none missed
  by a member, none shown on a node where nobody is a member. (That each is shown
  to members only is claimed, and fails: section 7.)
* *DM and create*: one DM per pair, one answer per live key.
* *Deliveries*: effects at most once, one outcome event, no row that waits for
  ever for a bot that is gone, no deadlock.
* *Runner*: no frame is lost, recorded twice or moved before an earlier one of
  its socket; an undisturbed capture depends on the pushes alone; every error and
  every missing variable has a cause; every run ends.
* *Gate*: GO means that the answers meant the same, but for what the normalizer
  is known to overlook, and that the reads were quiet; NO-GO has a cause in a
  target, and what is left behind has one too.
* *Sessions, streams* (not modelled): at most one active session per channel, inputs
  acknowledged in order, a stream that ends exactly once.

## 2. The plan

Done, in this order: `EventIds` and its proofs, `ChannelWriter` with its abstract
`EventLog` and proofs, `ChannelTimeline`, `ChannelMembership` and its proofs,
`BrowserFanout`, `ChannelOpen`, `BotDelivery`; then the harness,
`ScenarioRunner` with `Scenarios`, composed in `ScenarioSuite`, and `Normalize`
with `Exchanges` and `Gate`, composed in `MCGate`; then the proofs of
`ChannelOpen`, `BotDelivery`, the rest of the writer and of the roster,
`BrowserFanout` and `ChannelTimeline`; then those of the harness, for which the
gate was made a module over any answers and any comparison, and the captures of
the runner were written with `FlattenSeq` and `RemoveFirst`.

What would come next, most important first:

1. `BotEffects`: a batch of several effects, its idempotency rows, expiry, and
   the answer a replay gives.
2. `BotStream`: the stream process and the writer: append, finalize, abandon,
   expiry, death and rehydration; a stream ends once and with the text appended.
3. `StatefulSessions`: start, start ack, inputs and acknowledgements, effects in
   two transactions, stop, closes; composed with `BotDelivery` for the frames.
   Abstract specification: a session is opened once, moves forward and closes
   once.
4. `CommandInvoke` (the orphan close and the counter), `ReadState` (commit order
   and broadcast order), `MessageMutate`, `ChannelPins`, `Uploads` with
   `Housekeeping`.

## 3. The modules

| Module | Models | Extends |
|---|---|---|
| `EventIds` | `ids.ex`: `monotonic_uuidv7`, `parse_monotonic`; the 48+12 bits, the carry | |
| `EventLog` | abstract: a log that is only extended, by later ids | |
| `ChannelWriter` | `channel.ex` `execute`, `init`, `recover_seq`; `idempotency.ex`; send, create, dissolve, session start ack and closes | `EventIds` |
| `ChannelTimeline` | `do_update_binding`, `fetch_forward`, next to the writer | `ChannelWriter` |
| `ChannelMembership` | every roster command | |
| `BrowserFanout` | `browser_channel.ex`, `membership_cache.ex`, composed with the roster | `ChannelMembership` |
| `ChannelOpen` | `dms.ex`, `channel_lifecycle.ex` create, idempotency between transactions | |
| `BotDelivery` | `bot_connection.ex`, `bot_delivery.ex`, the writer's two handlers for them | |
| `ScenarioRunner` | `runner.ts`, `ws-client.ts`, for any scripts and any target | |
| `Scenarios` | the steps of the 14 scenarios, as data | |
| `ScenarioSuite` | the runner over the scripts, and a target that does what they expect but for mishaps | `ScenarioRunner` |
| `Normalize` | `normalize.ts`, `diff.ts` | |
| `Exchanges` | external: what the two implementations answer to 22 requests, and every way to deviate from it in one place | `Normalize` |
| `Gate` | `cli.ts` `run`, `read-path.ts`, `targets/worker.ts`, `targets/elixir.ts`, for any answers and any comparison | |
| `MCGate` | the gate with the answers of `Exchanges` and the comparison of `Normalize` | `Gate`, `Exchanges` |
| `ChannelWriterProofs` (with `EventIds`), `ChannelTimelineProofs`, `ChannelMembershipProofs`, `BrowserFanoutProofs`, `ChannelOpenProofs`, `BotDeliveryProofs`, `ScenarioProofs`, `GateProofs` | proofs | their component, TLAPS |
| `MC*` | model values, symmetry | their component |

**ChannelWriter.** `Issue` is the caller's `GenServer.call`, `GiveUp` its
timeout (the call stays in the mailbox), `Start` the lazy start with
`RecoverSeq`, `Begin` the read of the idempotency row and of the gates,
`Commit*` the transaction of each command, `Publish` one broadcast, `Reply` the
answer, `Crash` the death of the process at any step, which frees whoever waits.
`work.phase` is where in `execute` the writer is; `seq` is its state, which
changes only with `Reply`, and `work.next` is the counter the command will
leave. `Tick` moves the clock either way. `None` in a row's body stands for
operations whose hash never varies. Bodies and answers are reduced to what the
hash and the stored event ids tell apart.

**ChannelTimeline.** `ReadChannel`, `WriteBinding` and `CommitBinding` are the
statements of the binding transaction; the row lock of the channel lasts from
the update to the commit and holds up a dissolve. `RandomId` is `Ids.uuidv7/0`:
the current millisecond and any counter. `FetchPage` is one page of the
recovery loop of contract 10.6.

**ChannelMembership.** One action per command, each the whole transaction,
serial because the writer is (`ChannelWriter` is what shows that). `log` is the
timeline reduced to the events about the roster, `done` the requests with a live
idempotency row, `answered` a ghost. Users, not names; roles are the three the
code has.

**BrowserFanout.** `Query`, `Register` and `GoLive` are the three steps of
`live_start`, `Broadcast` puts a frame in every mailbox, `HandleFrame` is
`handle_info` with `Gate`. `cache` is the one ETS entry of the channel; a session
that registers twice gets every copy twice (`Deliver`). A `command.invoke` that
finds the bot busy goes another way (`persist_busy_artifacts`): `Invoke`, or
`InvokeElsewhere` when the caller is on another node, commits two events of kinds
in `Artifacts`; `Deliver` leaves the calling process out, which is recorded in
`caller`, and `Answer` has it push both from the reply, ahead of what waits in its
mailbox. These frames pass no gate (`Verdict`). Other broadcasts have no caller to
leave out. Heartbeats and user-scoped hints carry no event and are left out.

**ChannelOpen.** A transaction is a sequence of statements over committed rows;
an INSERT that meets an uncommitted key waits. `Claim` is the insert into
`dm_pairs`, `Record` the upsert into `idempotency`, whose `ON CONFLICT` clause is
`Store`.

**BotDelivery.** `Precheck`, `Push`, `PushTimeout`, `Commit` and `RollBack` are
`commit_invocation` and `commit_interaction` as the writer runs them inside the
transaction of a command: the frame leaves before the row is committed. The
`Handle*` actions are the clauses of the bot's process, which is busy from a
handler to `Finish`; `Execute` is one UPDATE of the bot's process, which uses no
transaction; `Apply` and `Finalize` are the writer's. `bot.inbox` is the bot's
mailbox, and a timer that has fired is a message in it. All bodies of a delivery
use one `client_effect_id`, which is what makes their rows meet.

**ScenarioRunner.** A scenario is a sequence of step records. `i` and `phase`
are where `runScenario` awaits; `sockets` is the Map of open sockets in
insertion order, `pending` the frames each has received, `wire` what is on its
way to it. `Arrive` is `onFrame`, which runs only while the runner awaits.
`HttpStart`, `HttpAnswer`, `HttpTransportError` are `runHttpStep` with its
retries, `BeginReadFails` and `EndReadFails` the probe around it;
`CommandStart`, `EventStart`, `CloseWindow` and `Timeout` the two windows of
`waitUntilAll`; `Settle` with `EndStep` the settle, the drain and the late
captures; `FinalDrain` the end. A variable is the step that captured it, a frame
its type, the step that caused it and the socket it went to. Timers are
outcomes: one that fires before what it is meant to outlast is a *mishap*, as are
a refused connect nobody expects, a transport error and an answer without the
value to capture, or with null in its place: the code takes null for a value when
it captures and for a missing one when it interpolates, so the variable is set but
not `Usable`, and the step that captured it has no error. `sent` is a history of what was pushed. `StepDefs` is the type
of a step, `Sets` the variables it is written to set.

**Scenarios.** One line per step of the 14 scenario files: the actor, the
variables interpolated and captured, the predicates of the window, the retry and
the read probe. What the target is expected to push is marked external.

**Normalize.** JSON values are tagged; a string is its kind (uuid, time, invite
path, ...), the part that is the same on every target and the part the target
makes up. The operators are the functions of `normalize.ts` one by one, in
`NormalizeStep` in the order of `normalizeCapture`.

**Gate.** One request; each target answers what `Form` says, normalized, and one
of them may deviate in one of the `Ways`; `Differ` compares. These are
parameters of the module. `MCGate` gives them the values of `Exchanges`, where an
answer is in the dialect and with the ids of its target and a deviation is a
field that is missing, null or another value, a list that is shorter, longer or
in another order, and of `Normalize`. Around it every step of `run` and
`runAgainstTarget`: `Reset`, `SeedFails`, `Ready`, `StartTimesOut`, the probe's
`Install*`, `BeginRead`, `EndRead` and `Uninstall`, `Stop`, `Verdict`. `db` is
what the probe has in the database.

## 4. The runs

Passing runs; the last column is the time on two cores.

| Run | Instance | What it shows | |
|---|---|---|---|
| `writer_crash` | one user, one key, one body; clock 0..1 and TTL 1; two counter values; mailbox 1 | `IdsAscend`, `CounterCoversLog`, `OncePerKey`, `OneSessionClose`, `QuietAfterDissolve`, `BroadcastInOrder`, and that the log implements `EventLog`, through crashes at every step; `CallsAnswered`: every caller is answered, gives up or is freed by a death | 90 s |
| `timeline_recovery` | two users, two bodies, a still clock; the writer next to one binding update, pages of two events | `RepliesDurable`: an answer names committed events of the same request, also a replayed one; `OnlyBindingsOpenGaps`: no crash, restart or interleaving of the writer hides an event from a paging client | 70 s |
| `membership` | three users up to symmetry, one key for joins, a limit of 1, four events | the eight properties of the roster | 70 s |
| `fanout` | two sessions of two users, and a third user; up to two registrations each; roster changes and busy invocations up to four events; sockets that close and open again, a writer that dies before a broadcast | `PushedInOrder`, `NothingMissed`, `ShownWhereMembersAre` | 50 s |
| `open_concurrent` | three requests of up to three users up to symmetry, one key, two bodies | `OneDmPerPair`, `RecordedAnswersStay` | 5 s |
| `bot_delivery` | one delivery with two sockets, two results out of three bodies, one death and attempt limits 1 and 2; or two deliveries with one socket and one result each | `EffectsOnce`, `OneOutcomeEvent`, `GoneBotsRowsExpire`, `NobodyWaitsForever` | 120 s |
| `harness_scenarios` | the 14 scenarios and one script for `ws.event` and `alsoSplice`, which none uses; one mishap each, none in the longest; two attempts of a retry | `CapturedInOrder`, `CaptureIsDeterministic`, `ErrorsHaveCause`, `MissingVarsExplained`, `RunCompletes` | 25 s |
| `harness_gate` | worker and Elixir, two workers, Elixir, worker and Elixir; all 22 requests; every deviation of one target, or up to two troubles | `GoHidesOnlyKnown`, `GoMeansQuietReads`, `NoGoHasCause`, `LeftoversHaveCause`, `GateEnds` | 30 s |

Runs that end in a counterexample (section 7): `timeline_gap`, `fanout_shared`,
`skipped_stream`, `gate_role`.

**The bounds and why they are enough.**

* Two counter values (`MaxCounter = 1`) and a clock of two values make the carry
  into the next millisecond, which the code reaches after 4096 ids, the normal
  case. One step back of the clock is all that ids compare. The proofs cover all
  widths and clocks.
* One key per operation: keys do not interact. A TTL of one tick lets a row
  expire between a command and its retry.
* A mailbox of one, with a second command in execution, lets a caller give up on
  a call that is still queued and retry behind it. More callers repeat it.
* `MaxPending = 0`: the first input of a session overflows it, which is what the
  1001st does in the code.
* Four roster events allow create, leave, rejoin and one more; transfer counts
  two. The invariants are proved for any number; the bound matters for
  `NeverRunsAgain` (join, leave, retry) and `InviteLimit` (create, use, renew,
  use).
* In the fanout two sessions suffice: one that is ahead and advances the cache,
  one that is behind; they belong to two users, so one may leave while the other
  stays. `MaxSubs = 2` allows a `live_start` to be repeated. A log of three roster
  events, or two and the pair of an invocation, lets an invocation overtake a
  frame that waits. `fanout_shared` has four events, and no closing, invoking or
  second registration, none of which its counterexample needs.
* A page of two and a log of a few events make several pages with a cut between
  events of one command.
* Two sockets allow a reconnect during everything else; two results, a repeated
  and a conflicting answer; attempt limits 1 and 2, a dropping and a counting
  resume (the code uses 3). `MaxInbox = 2` bounds the backlog at which a socket
  or the lease adds a message; pushes and expiries are not held back.
* One mishap in a scenario is enough to show what it does to every later step;
  the mishaps meet every step of every scenario but `message-write`, whose 102
  steps are run undisturbed. Two attempts stand for the twenty of a retry.
* The requests of `harness_gate` are chosen so that every rewriting of the
  normalizer applies to one of them; a deviation in one place at a time is what
  shows that a rewriting hides too much. Two troubles are a failed install or
  teardown in one target and what it does to the next. One poll is all the
  deadline needs.

`CHECK_DEADLOCK FALSE` is set where the bounds end a behaviour (no more keys,
sockets or events); `ChannelOpen` has a `Settled` step instead.

Each property of a passing run has a mutant in `PROJECT.json`, an operator of the
module marked `\* Mutant:`, that a plausible mistake in the code would produce
and that violates it.

## 5. Fairness

* `ChannelWriter`: weak fairness of `WriterStep`, the steps of a live process
  that has mail. The BEAM schedules every runnable process, and each step is a
  database statement with a timeout. Nothing makes callers call, timers fire,
  the clock move or a process die or be started: `CallsAnswered` holds because a
  death frees the callers.
* `BotDelivery`: weak fairness of the writer's steps, which include the
  one-second timeout of a push, of the bot process's steps, and of the offline
  timer once armed. No fairness of sockets, results, leases or crashes.
* `ScenarioSuite` and `Gate`: weak fairness of the whole next-state relation, in
  which a target answers or the request fails, a socket delivers, a timer fires.
  The harness is one JavaScript program: it stops only at an `await`, and what it
  awaits there is a timer, a socket, a request the runtime gives up in time or a
  database statement. What liveness then says is that no retry, window or poll
  goes round for ever.

## 6. The proofs

All are checked by TLAPS with no step left open; constants are only assumed to
be what the `ASSUME`s of the components say.

**ChannelWriterProofs**: first the ids (counter widths up to 12 bits,
`MaxCounterAssumption`): `ParseFormat`, that the counter read back from a stored
id is the one it was made from, carry included; `NextSeqIncreases`;
`StringOrderIsAllocationOrder`, that the string order Postgres and the clients
use is the order of allocation. Then `WriterTypes`, `WriterIdsAscend`,
`WriterCoversLog`, `WriterImplementsTimeline`. Ascending ids are not inductive: a step extends the
log correctly only if the counter it allocates from is not behind the log, and
that counter is in three places in turn, the process state, the running command
and the newest row. `MineCovered` says that the counter of the process, or the
one the running command will leave, is at or after every id the writer stored,
and `CallTaken` ties the phase to a call and a dead process to no phase.
`RecoverSeq` re-establishes it at a start, because by `MineAscend` the newest row
bounds the rest. With `TypeOK` these make `WInv`, which speaks of the writer's
own events only and so also holds where other processes write to the log; for
`Spec`, where nobody else does (`OnlyMine`), it is `CounterCoversLog` and
`IdsAscend`. The refinement follows: every step leaves the log alone or extends
it by ascending ids.

The remaining properties of the writer have each their own strengthening next to
that invariant. `NothingAfterDissolve`: the create is
the only command of a channel without a status and the first in its mailbox
(`CreateFirst`), so a dissolved channel is never made active again.
`SessionClosesOnce`: a stored close means the session row says closed.
`OncePerLiveKey`: the row of a scope expires no earlier than a TTL after each of
its events (`RowsCover`), because a row is overwritten only when it is dead, so a
command that finds no live row runs a TTL after the one before, wherever the
clock went. `AnswersAreStored`: rows and the running command only carry ids of
stored events of their own request (`RowsNamed`, `AnswerNamed`).
`FramesLeaveInOrder`: the frames still to leave are stored, ascend and are after
the newest that left, because a command's ids are after every stored id
(`CounterCoversLog`) and what left was stored.

**ChannelMembershipProofs**: `MembershipTypes`, `MembershipOneOwner`,
`MembershipCount`, `MembershipVersions`, `MembershipFrozen`,
`MembershipFromTimeline`, for any set of users, keys and limits. A first layer
(`StepShape`) reduces the commands to six shapes of change of the
roster: a user enters, changes role, leaves, ownership is handed over, the
channel is updated, the channel ends. The invariants are then preserved shape by
shape. The strengthening is `Frozen`, that a `channel.dissolved` event in the
log means the status is dissolved, and `OneOwner` itself, which says that
nobody, not even someone who left, holds the role. Two more theorems rest on a
second reading of the commands, by the requests they answer (`StepAccounts`).
`AnsweredNeverRuns`: every answer is kept in a row (`AnswersKept`) and a step
that appends events does so for a request no row holds. `InvitesStayWithinLimit`:
the counter of an invite is the number of joins through it in the timeline
(`UsesCounted`), over refreshes, leaving and rejoining.

**BrowserFanoutProofs**: `EventsArriveInOrder`, `MembersMissNothing`,
`PushesAreVouched`, for any sessions, users and number of events, on top of the
invariant of the roster, which an invocation leaves alone. Per session: what was
pushed and, behind it, what waits may be seen in this order (`Orderly`); that is
by `Precedes`, which lets an event of the session's own invocation come ahead, and
an event of others come twice after a second registration (`again`), and nothing
else. The events of its own invocation never wait in its mailbox: as long as they
are broadcast the session is left out, and until it has pushed them they are the
two of its reply (`Calling`). A session registered on the topic has been pushed, or
has waiting or in its reply, every event broadcast since `live_start` answered it,
unless a writer died before the broadcast, as long as its user stayed a member
(`Complete`, `Reached`). The steps of `live_start` need `Registered`, which says
what each of them has already done. A frame the gate checks against the row is not
lost to a member because the row is what the timeline says
(`MembershipFromTimeline`).
What a session is shown follows the cache back to where its versions come from:
every version that is cached, or was read by a `live_start` under way, is covered
by an event after which somebody with a session on the node was a member
(`CacheVouched`, `Shows`). An event below that version is then covered by the same
membership, or only events that leave the roster alone lie between, because
versions never fall (`Ascends`) and every change of the roster raises them
(`StandingCarries`). That gives `PushesAreVouched`, that `ShownWhereMembersAre`
holds for any users: somebody here was a member since the event. Contract 12.3 asks
for more, that it was the session's own user; that is `ShownToMembers`, which
`fanout_shared` refutes.

**ChannelTimelineProofs**: `GapsAreBindings`, for any number of updates and any
page size. The binding updates break the ascent of the log, so the proof starts
from `WInv`. Next to it, `ReaderInv`: the cursor is the id of an event the client
was given, and every event of the writer below it was given or is behind a
binding event that was. A page holds everything between the old cursor and the
new one (`PageIsDense`); a later event of the writer that falls below the cursor
shows that the cursor is a binding's.

**ChannelOpenProofs**: `DmUnique`, `AnswersStay`, for any users, keys and number
of requests. That a pair has one channel is not inductive: between the claim of a
pair and the commit a request carries the channel in its own memory, and between
the commit and the reply the row and the answer repeat it. The strengthening
follows it: whoever is past the claim of a free pair is alone there
(`OneClaimant`), whoever is past the claim of a taken pair carries its channel
(`Adopted`), and answers and live idempotency rows name the channel of their pair
(`AnswersName`, `RowsName`), which is never given up. `AnswersStay` is about
steps and needs the types alone: a row is written only where there is none.

**BotDeliveryProofs**: `Types`, `AppliedOnce`, `OutcomeOnce`, for any finite set
of deliveries, any bodies, attempt limits, sockets and crashes. Both processes
hold work decided on in an earlier state: a request in the writer's queue
outlives the process that made it, and the statements of a bot process outlive
the rows they were made from. The strengthening says what stays true while they
wait: `JobFacts`, that a job is about a row that exists and one that is past its
effects really applied them; `TodoFacts`, that a statement that says "delivered"
does so only after the effects, and one that counts an attempt leaves the count
below the limit; `DbFacts`, that an effect is applied exactly when its
idempotency row is there, and that an outcome event means a settled
interaction. All of it rests on what no step takes back (`Kept`) and what only a
statement of the delivery itself changes (`CountsKept`).

**ScenarioProofs**: `FramesAreKept`, `MissesHaveCause`, `CapturesAreFixed`,
`ErrorsAreMeant`, for any suite of sound scripts, any number of mishaps and any
delay of the sockets. The assumptions are `SuiteAssumption`, that scripts are made
of the steps of `types.ts`; `VariablesAreSet`, that a scenario interpolates only
variables an earlier step of it sets; and, for the last two theorems,
`ScriptsAreSound`, which says in four parts how a scenario has to be written for
a target to be able to do what it expects. Only commands and events wait for
frames, and what is retried pushes nothing (`StepsAreExchanges`); a step that
sends or closes has a socket that earlier steps opened (`SocketsAreOpen`); what a
step uses an earlier one is sure to set (`VariablesAreSure`); and the frames a
window waits for are among those its step pushes, all of them if it splices, with
at most one other socket that has frames (`WindowsClose`: the order in which
`alsoSplice` takes two other sockets would depend on what has arrived). They read
a script alone, without a run, and TLC evaluates them of each of the 14
scenarios and of the script for what none of them uses.

The invariant has three parts. `Kept`: for each socket, what was captured, what is
pending and what is in flight make up, in this order, what was pushed on it. Each
action of the runner is one of four moves of these lists (`MovePush`,
`MoveCapture`, `MoveForget`, `ReadOne`); that a window takes frames from the head
of a socket's list and takes no socket twice rests on what `LastMatch`,
`LastOfAny` and the removal of the actor from `alsoSplice` return. `Control`: an
http step without an error has set all it captures (`VariablesSet`), which is why
a step that lacks a variable can name the step that owes it, one with an error or
one that captured null, now and after later steps (`MissesExplained`). `Undisturbed`: in a run without mishaps the sockets,
the refused actors and the variables are those of the script (`Standing`), no
frame is left between two steps (`Quiet`), a window has its own frames to come and
no others (`Awaiting`), and what a step has captured followed by what its sockets
still have is what is expected of it (`Settling`). Frames that arrive move inside
that sum (`ArriveCalm`). A window may close as soon as its frames are there, with
others still in flight: it takes the same frames then as it would later, because
the match of a prefix is the match of the whole (`LastMatchOfPrefix`), and what it
leaves is drained behind them (`WindowTaken`). A timeout is a mishap there,
since the frames to come match (`WindowCalm`), and a settle ends with nothing in
flight (`SettleCalm`).

The lemmas on `FlattenSeq`, a recursive function of the community modules, and on
the recursive functions `Unmatched` and `SocketsAfter` (`Recursion`) are proved by
an induction over sets of numbers and of sequences; the library's induction takes
an operator.

**GateProofs**: `GateTypes`, `GoReadsAreQuiet`, `LeftoversExplained`,
`GoHidesNoMore`, `NoGoIsExplained`, for any targets, requests, troubles and polls.
The invariant follows a target from its reset to its capture: `WritesFound`, that
the writes a capture reports are those made while its probe watched; `Undone`,
that a connection is open only between its install and its teardown or after an
install that failed, and that without trouble the database is clean outside them;
`Cause`, that otherwise a failed install or uninstall has left what is there, and
none after it was uninstalled in full;
`Undisturbed`, that a run with a deviation meets no trouble, so that all its
targets answer; `VerdictGiven`, that the exit code is the comparison of the pair
and the probe's findings. The first three theorems hold whatever the
comparison does. The last two say that the gate adds nothing to it and loses
nothing of it, and have the comparison's part as their hypothesis:
`TellsApart`, that two answers of which one deviates in a compared place that is
not `Overlooked` differ, and `HidesTheRest`, that two that are meant, or deviate in
no compared place, do not. Both are statements about `Normalize` and the requests
of `Exchanges`, which `harness_gate` exercises request by request; `Overlooked`
names the two places where the normalizer hides more than its header says, the
wording of a refused member write (`gate_role`) and the payload ids of events other
than `message.*` (section 8).

**Only model-checked**: what the recursive normalizer computes, and the liveness
properties `CallsAnswered`, `GoneBotsRowsExpire`, `NobodyWaitsForever`,
`RunCompletes` and `GateEnds`, which are beyond this prover as is `ENABLED`. Every
invariant and every action property of a passing run is stated by a theorem.

## 7. Where the code and its documents disagree

* `timeline_gap`: a binding update stamps its event with a random id outside the
  writer. The event can commit below ids clients hold, and the recovery loop of
  contract 10.6, which asks for what is after its cursor, never fetches it.
  Contract 2.2 promises strictly monotonic ids per channel. Everything else keeps
  the promise (`timeline_recovery`).
* `skipped_stream`: an actor whose connect was refused once stays in
  `socketFailedActors`, whatever it opens later. The bot of `bot-stream-ws` is
  refused three upgrades on purpose and then opens its stream: hello, appends,
  ping and finalize are recorded as "no open socket for actor" and are sent to
  neither target. The scenario and its report claim them as covered.
* `fanout_shared`: the membership cache is one entry for all sessions of a node. A
  session that stays advances it with the `member.left` frame of another user; the
  session of that user, still registered on the topic, finds the next frame no
  newer than the cache and shows it unchecked. The moduledoc of
  `membership_cache.ex` has the row re-checked for a frame that is newer and calls
  the cache process-local; contract 12.3 lets members see. What does hold is
  `ShownWhereMembersAre`.
* `gate_role`: `normalizeBatchBErrorMessages` looks at the path alone for a member
  read, so the wording of `FORBIDDEN` is unified on a member *write* too, where the
  header of `normalize.ts` says "member READ routes". Two targets that refuse a
  role change for two reasons get a GO. What does hold is `GoHidesOnlyKnown`.

## 8. Observations without a run

Of the server:

* Contract 5.4 (docs/api-contract.md:1046) has every write after a dissolve
  answered with `409 CHANNEL_DISSOLVED`. `members.remove` lets anybody, the owner
  too, leave a dissolved channel (member_commands.ex:754-781; a test expects it):
  the leave commits a `member.left` behind `channel.dissolved`.
  `FrozenAfterDissolve` states what the code keeps, that nothing else follows.
* Two overlapping `channel.create` with one key each find no idempotency row and
  each create a channel; the recorded answer is one of them. Contract 2.5 has
  "same id + same body → same committed result". `ChannelOpen` has the
  behaviour; `RecordedAnswersStay` is what holds.
* A `delivery_result` after the offline expiry turns a failed interaction into a
  completed one, because the updates do not look at the status; neither outcome
  event is ever in the timeline (contract 9.6.1 has it unchanged).
* `live_start` repeated on a live session registers it a second time on each
  topic, and every frame is pushed twice; contract 5.11 says there is no
  duplicate lease. `BrowserFanout` has the behaviour, and `PushedInOrder` names it
  as an exception. A channel joined after `live_start` is not subscribed until
  the next one, while the client is told to expect it (contract 12.3).
* The frames of a session's own busy invocation are pushed from the reply, ahead of
  earlier events that wait in the mailbox. A client that follows contract 10.4 and
  takes only events after its last one (docs/api-contract.md:3654) drops what they
  overtook. `PushedInOrder` names this exception too. They also pass no gate: a user
  who left and is still registered is shown those of others.
* `command_manifest_version` is read without a lock and written back as the
  value read plus one, so two concurrent binding updates announce one version,
  which the contract calls monotonic.
* A bot socket that dies before its hello is answered detaches without a session
  id and evicts a live session; so does the lease message of the session before,
  if it was in the mailbox when the hello came. Both are in `BotDelivery`.
* A delivery committed just after a detach, or left by a bot process that died,
  has no timer and waits for the next hello. `GoneBotsRowsExpire` is stated for
  the rows pending at the detach.
* An expiry message already in the mailbox drops rows that a reconnect has just
  resent; the bot's answers are then applied to dropped rows.
* `bot_effects.ex:645` takes the first result of a batch for the last one, so
  every effect after the first stores the wrong answer for its replay.
* An idempotency row of an effect is a plain INSERT: one whose expired
  predecessor has not been swept violates the key. A session effect is applied in
  one transaction and recorded in another. An orphan session is closed in a
  transaction of its own inside a command that may still raise. Two `mark_read`s
  may broadcast in the other order than they committed.

Of the harness:

* `INVITE_PATH_RE` has one group and its replacement names `$2`: `/accept` is lost
  and preview and accept have the same normalized path (in `Normalize`, harmless
  because both targets get the same request).
* Any URL whose path starts with `/chat` counts as an object URL and is masked
  whole. The payload ids are dropped from every event although the header says
  `message.*`; this is the other place that is `Overlooked` in `GoHidesOnlyKnown`. Colliding id keys of a map are numbered as met, so a map in
  another order differs. That a made-up id is the same in two places of an
  answer is not compared.
* The frames of a step are compared in order, so an event that overtakes its
  ack is a difference although `alsoUntil` (types.ts:142) says that it is none;
  so are frames of two sockets that the drain takes in another order because
  `alsoSplice` found one of them in time.
* A frame without the value to capture leaves no error, nor does an answer with
  null in its place, which a later step then misses (runner.ts:563, 106). `wait` steps are in the
  capture although types.ts:187 says they are not. Frames on their way to a
  socket the scenario closes or replaces are lost.
* Only the first two captures are compared: a target that failed, or a third
  one, does not show in the exit code. Two targets that fail a step with the
  same message agree. A read whose probe threw has no observation, and the gate
  may say GO. More than 500 differences are cut, which the verdict ignores.
* A write that is rolled back takes its audit row with it: the probe cannot see
  attempted writes, as read-path.ts:7 has it.
* `uninstall` drops what it can. When the tables cannot be listed the triggers
  stay, the function they need stays with them, and the audit table goes: every
  later write fails, and so does the seeding of users in the next reset, until
  someone cleans up by hand. `install` is outside the `try` of
  `runAgainstTarget`: when it fails its triggers and its connection stay, and the
  connection keeps the process from exiting.

## 9. What is not modelled, and why

Command sessions beyond their start ack and closes, streams, invocation, effects
in batches, read state, pins, edits, uploads and housekeeping come next in the
plan of section 2. Left out for good: reads that answer from one snapshot
(bootstrap, directory, projections), administration by single-row writes (bots,
tokens), object storage and signatures, parsing of options and tokens,
authentication, limits and error envelopes, observability, import and export.
`message_event` deliveries have no caller in `src/lib`. Of the harness: the
canned target of its self-test, its reports, the signing of tokens, the command
line, and how the worker process is started. Its vitest files test the
normalizer by example.

Wire formats, texts and names are abstracted to what the properties tell apart.
Postgres is assumed to give read committed transactions and unique keys; a failed
database is a death of the process that asked it. One BEAM node: the sessions
share one cache and PubSub does not partition. The two implementations the
harness compares are external to it: what they answer and push is what the
scenarios and the header of `normalize.ts` expect of them.
