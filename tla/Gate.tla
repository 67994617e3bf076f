-------------------------------- MODULE Gate --------------------------------
(***************************************************************************)
(* The conformance gate (conformance/src/cli.ts): a scenario is run        *)
(* against one target after the other, each reset, started and stopped,    *)
(* the captures are normalized and compared and the exit code is the       *)
(* verdict.  Around a run against the Elixir server the read-path probe    *)
(* (read-path.ts) puts audit triggers on the tables of its database and    *)
(* watches what a request for reading writes.                              *)
(*                                                                         *)
(* The scenario is one request.  What a target answers is external: the    *)
(* answer that is meant, or one target deviates from it in one way.  A     *)
(* run without a deviation may meet troubles, at most MaxTroubles: a       *)
(* target that is not ready yet, a step that fails, a write.               *)
(*                                                                         *)
(* The answers and their comparison are parameters, which MCGate takes     *)
(* from Exchanges and Normalize.                                           *)
(***************************************************************************)
EXTENDS Integers, Sequences

CONSTANTS TargetLists,     \* what --targets may name
          Requests,        \* the requests that are run
          MaxTroubles,
          MaxPolls,        \* readiness polls before the deadline
          IsRead(_),       \* the request is a GET
          Ways(_, _),      \* how a target's answer to a request may deviate
          Compared(_, _),  \* the normalizer documents the deviation as reported
          Overlooked(_, _),\* and hides it nevertheless
          Form(_, _, _),   \* the normalized answer to a request, in one of the ways
          Shown(_, _, _),  \* what is compared of a form, whether it came, an error
          Differ(_, _)     \* whether the comparison finds a difference

Targets == [kind : {"worker", "elixir"}, name : STRING]

ASSUME GateAssumption ==
  /\ MaxTroubles \in Nat /\ MaxPolls \in Nat \ {0}
  /\ TargetLists \subseteq Seq(Targets) \ {<<>>}

Tables == {"chat_v2", "public"}

VARIABLES
  targets,     \* the targets of the command line, in order
  exchange,    \* the request of the scenario
  deviation,   \* how and where the answer of a target deviates
  on,          \* the target that deviates, 0 for none
  forms,       \* what is compared of the answer of every target
  t,           \* index of the running target
  stage,       \* what the run does next
  polls,       \* readiness polls of the running target
  step,        \* the step captured of the running target
  captures,    \* the outcome of every target so far
  clients,     \* the targets whose probe has a connection open
  uninstalled, \* history: the targets whose probe was uninstalled in full
  db,          \* the probe's objects in the database and the rows it found
  wrote,       \* history: a write was committed while the read was observed
  troubles,
  exit         \* exit code, -1 before the verdict

run == <<targets, exchange, deviation, on, forms>>
gateVars == <<run, t, stage, polls, step, captures, clients, uninstalled, db, wrote,
              troubles, exit>>

Target == targets[t]
Probed(target) == target.kind = "elixir"
Observed(target) == Probed(target) /\ IsRead(exchange)

AsMeant == [op |-> "none", place |-> <<>>]

(* The record of a step before its request; no error is an absent field. *)
NoError == "none"

Quiet == [answered |-> FALSE, error |-> NoError, writes |-> 0, over |-> FALSE, seen |-> FALSE]

Trouble ==
  /\ on = 0
  /\ troubles < MaxTroubles
  /\ troubles' = troubles + 1

GateInit ==
  /\ targets \in TargetLists
  /\ exchange \in Requests
  /\ on \in {0} \cup DOMAIN targets
  /\ deviation \in IF on = 0 THEN {AsMeant}
                   ELSE Ways(exchange, targets[on])
  /\ forms = [n \in DOMAIN targets |->
                Form(exchange, targets[n], IF n = on THEN deviation ELSE AsMeant)]
  /\ t = 1
  /\ stage = "reset"
  /\ polls = 0
  /\ step = Quiet
  /\ captures = <<>>
  /\ clients = {}
  /\ uninstalled = {}
  /\ db = [triggers |-> {}, audit |-> FALSE, rows |-> 0]
  /\ wrote = FALSE
  /\ troubles = 0
  /\ exit = -1

-----------------------------------------------------------------------------
(* Mutant: a target that failed is not recorded. *)
OutcomeOfCapture(ok) ==
  captures' = IF ok THEN Append(captures, [ok |-> ok, step |-> step, wrote |-> wrote, at |-> stage])
              ELSE captures

(* The outcome of the running target: its capture, or that it failed. *)
Outcome(ok) ==
  captures' = Append(captures, [ok |-> ok, step |-> step, wrote |-> wrote, at |-> stage])

TargetFails ==
  /\ Trouble
  /\ Outcome(FALSE)
  /\ stage' = "stop"

(* A trigger left on the users without the table it writes to. *)
UsersBroken == "public" \in db.triggers /\ ~db.audit

SchemaDropped(triggers) == triggers \ {"chat_v2"}

(* reset: the schema of the Elixir server is dropped, triggers and all,    *)
(* and the users are seeded, which fails when their trigger does.          *)
Reset ==
  /\ stage = "reset"
  /\ Probed(Target) => ~UsersBroken
  /\ db' = IF Probed(Target) THEN [db EXCEPT !.triggers = SchemaDropped(@)] ELSE db
  /\ stage' = "start"
  /\ UNCHANGED <<run, t, polls, step, captures, clients, uninstalled, wrote, troubles, exit>>

SeedFails ==
  /\ stage = "reset"
  /\ Probed(Target) /\ UsersBroken
  /\ db' = [db EXCEPT !.triggers = SchemaDropped(@)]
  /\ Outcome(FALSE)
  /\ stage' = "stop"
  /\ UNCHANGED <<run, t, polls, step, clients, uninstalled, wrote, troubles, exit>>

ResetFails ==
  /\ stage = "reset"
  /\ TargetFails
  /\ UNCHANGED <<run, t, polls, step, clients, uninstalled, db, wrote, exit>>

(* Mutant: the deadline moves with every poll. *)
SamePoll == polls

NextPoll == polls + 1

(* start polls the target until it answers or the deadline has passed. *)
NotReady ==
  /\ stage = "start"
  /\ polls < MaxPolls
  /\ on = 0
  /\ stage' = "pause"
  /\ UNCHANGED <<run, t, polls, step, captures, clients, uninstalled, db, wrote, troubles, exit>>

PollAgain ==
  /\ stage = "pause"
  /\ stage' = "start"
  /\ polls' = NextPoll
  /\ UNCHANGED <<run, t, step, captures, clients, uninstalled, db, wrote, troubles, exit>>

Ready ==
  /\ stage = "start"
  /\ polls < MaxPolls
  /\ stage' = IF Probed(Target) THEN "install" ELSE "request"
  /\ UNCHANGED <<run, t, polls, step, captures, clients, uninstalled, db, wrote, troubles, exit>>

StartTimesOut ==
  /\ stage = "start"
  /\ polls = MaxPolls
  /\ Outcome(FALSE)
  /\ stage' = "stop"
  /\ UNCHANGED <<run, t, polls, step, clients, uninstalled, db, wrote, troubles, exit>>

(* install: the audit table, then a trigger on each table. *)
InstallAudit ==
  /\ stage = "install"
  /\ clients' = clients \cup {t}
  /\ db' = [db EXCEPT !.audit = TRUE]
  /\ stage' = "triggers"
  /\ UNCHANGED <<run, t, polls, step, captures, uninstalled, wrote, troubles, exit>>

InstallTrigger(table) ==
  /\ stage = "triggers"
  /\ table \notin db.triggers
  /\ db' = [db EXCEPT !.triggers = @ \cup {table}]
  /\ UNCHANGED <<run, t, stage, polls, step, captures, clients, uninstalled, wrote, troubles, exit>>

Installed ==
  /\ stage = "triggers"
  /\ db.triggers = Tables
  /\ stage' = IF Observed(Target) THEN "begin" ELSE "request"
  /\ UNCHANGED <<run, t, polls, step, captures, clients, uninstalled, db, wrote, troubles, exit>>

(* install is outside the try: what it did stays, and its connection. *)
InstallFails ==
  /\ stage \in {"install", "triggers"}
  /\ TargetFails
  /\ UNCHANGED <<run, t, polls, step, clients, uninstalled, db, wrote, exit>>

(* A row per committed write, of the request or of anything else that runs *)
(* in the server; one that is rolled back takes its row with it.           *)
TargetWrites ==
  /\ stage \in {"begin", "request", "end"}
  /\ Observed(Target)
  /\ db.rows = 0
  /\ Trouble
  /\ db' = [db EXCEPT !.rows = 1]
  /\ wrote' = (stage # "begin")
  /\ UNCHANGED <<run, t, stage, polls, step, captures, clients, uninstalled, exit>>

(* beginRead empties the audit table. *)
BeginRead ==
  /\ stage = "begin"
  /\ db' = [db EXCEPT !.rows = 0]
  /\ stage' = "request"
  /\ UNCHANGED <<run, t, polls, step, captures, clients, uninstalled, wrote, troubles, exit>>

(* A probe that throws ends the step: before the request there is none. *)
ProbeFails ==
  /\ stage \in {"begin", "end"}
  /\ Trouble
  /\ step' = [step EXCEPT !.error = "probe"]
  /\ stage' = "finally"
  /\ UNCHANGED <<run, t, polls, captures, clients, uninstalled, db, wrote, exit>>

AfterRequest == stage' = IF Observed(Target) THEN "end" ELSE "finally"

Respond ==
  /\ stage = "request"
  /\ step' = [step EXCEPT !.answered = TRUE]
  /\ AfterRequest
  /\ UNCHANGED <<run, t, polls, captures, clients, uninstalled, db, wrote, troubles, exit>>

RequestFails ==
  /\ stage = "request"
  /\ Trouble
  /\ step' = [step EXCEPT !.error = "transport error"]
  /\ AfterRequest
  /\ UNCHANGED <<run, t, polls, captures, clients, uninstalled, db, wrote, exit>>

(* Mutant: the rows are counted before the request is made. *)
NoRows == 0

RowsFound == db.rows

(* endRead: the rows, and whether the count of queries exceeds its bound. *)
EndRead(over) ==
  /\ stage = "end"
  /\ over => Trouble
  /\ ~over => UNCHANGED troubles
  /\ step' = [step EXCEPT !.writes = RowsFound, !.over = over, !.seen = TRUE]
  /\ stage' = "finally"
  /\ UNCHANGED <<run, t, polls, captures, clients, uninstalled, db, wrote, exit>>

(* Mutant: only the tables of the schema chat_v2 are listed. *)
OwnTables == {"chat_v2"}

ListTables == Tables

(* uninstall, best effort: triggers may stay, and the table may go first.  *)
Uninstall(dropped, audit) ==
  /\ stage = "finally"
  /\ IF t \in clients
     THEN /\ IF dropped = ListTables /\ audit
             THEN uninstalled' = uninstalled \cup {t} /\ UNCHANGED troubles
             ELSE Trouble /\ UNCHANGED uninstalled
          /\ db' = [triggers |-> db.triggers \ dropped,
                    audit |-> db.audit /\ ~audit, rows |-> 0]
     ELSE /\ dropped = ListTables /\ audit
          /\ UNCHANGED <<db, uninstalled, troubles>>
  /\ clients' = clients \ {t}
  /\ Outcome(TRUE)
  /\ stage' = "stop"
  /\ UNCHANGED <<run, t, polls, step, wrote, exit>>

(* stop, in the finally of every target, whose errors are dropped. *)
Stop ==
  /\ stage = "stop"
  /\ IF t < Len(targets) THEN t' = t + 1 /\ stage' = "reset"
     ELSE stage' = "verdict" /\ UNCHANGED t
  /\ polls' = 0
  /\ step' = Quiet
  /\ wrote' = FALSE
  /\ UNCHANGED <<run, captures, clients, uninstalled, db, troubles, exit>>

-----------------------------------------------------------------------------
(* The targets that produced a capture, and the first two of them. *)
Successful == {n \in DOMAIN captures : captures[n].ok}

Pairs ==
  {p \in Successful \X Successful :
     /\ p[1] < p[2]
     /\ \A n \in Successful : n <= p[2] => n \in {p[1], p[2]}}

(* captureForDiff: neither the target nor the observation is compared. *)
ForDiff(n) == Shown(forms[n], captures[n].step.answered, captures[n].step.error)

ObservationOk(s) == s.writes = 0 /\ ~s.over

ObservationsOk ==
  \A n \in Successful : captures[n].step.seen => ObservationOk(captures[n].step)

Verdict ==
  /\ stage = "verdict"
  /\ stage' = "done"
  /\ \/ Pairs = {} /\ exit' = 2
     \/ \E p \in Pairs :
          exit' = IF ~Differ(ForDiff(p[1]), ForDiff(p[2])) /\ ObservationsOk THEN 0 ELSE 1
  /\ UNCHANGED <<run, t, polls, step, captures, clients, uninstalled, db, wrote, troubles>>

(* The process ends when no connection is open. *)
Done == stage = "done" /\ UNCHANGED gateVars

GateNext ==
  \/ Reset \/ SeedFails \/ ResetFails
  \/ NotReady \/ PollAgain \/ Ready \/ StartTimesOut
  \/ InstallAudit \/ (\E table \in Tables : InstallTrigger(table)) \/ Installed
  \/ InstallFails
  \/ TargetWrites
  \/ BeginRead \/ ProbeFails \/ Respond \/ RequestFails
  \/ \E over \in BOOLEAN : EndRead(over)
  \/ \E dropped \in SUBSET Tables, audit \in BOOLEAN : Uninstall(dropped, audit)
  \/ Stop \/ Verdict \/ Done

(* Every await of the gate has a deadline, or is a request the runtime     *)
(* gives up in time.                                                       *)
GateSpec == GateInit /\ [][GateNext]_gateVars /\ WF_gateVars(GateNext)
-----------------------------------------------------------------------------
GateTypeOK ==
  /\ targets \in TargetLists /\ exchange \in Requests
  /\ on \in {0} \cup DOMAIN targets
  /\ step.answered \in BOOLEAN
  /\ t \in DOMAIN targets
  /\ polls \in 0..MaxPolls
  /\ Len(captures) \in {t - 1, t}
  /\ clients \cup uninstalled \subseteq DOMAIN targets
  /\ db.triggers \subseteq Tables /\ db.rows \in 0..1
  /\ troubles \in 0..MaxTroubles
  /\ exit \in -1..2

(* One of the two targets compared means something else than the other. *)
Deviates ==
  /\ \E p \in Pairs : on \in {p[1], p[2]}
  /\ Compared(exchange, deviation)

(***************************************************************************)
(* GO means that the two targets compared answered the same, but for what  *)
(* the header of normalize.ts leaves out: no rewriting hides a difference  *)
(* it is not meant for, whichever of the targets it is in.  Not so of the  *)
(* requests whose differences are Overlooked.                              *)
(***************************************************************************)
GoMeansParity == exit = 0 => ~Deviates

(***************************************************************************)
(* GO hides no difference but those the header of normalize.ts leaves out  *)
(* and the two that are Overlooked, whichever of the targets it is in and  *)
(* however the captures are paired.                                        *)
(***************************************************************************)
GoHidesOnlyKnown == exit = 0 => ~Deviates \/ Overlooked(exchange, deviation)

(***************************************************************************)
(* GO means that no capture was taken of a read during which something     *)
(* was written, where the probe could tell.                                *)
(***************************************************************************)
GoMeansQuietReads ==
  exit = 0 => \A n \in DOMAIN captures :
                captures[n].wrote /\ captures[n].step.seen => ~captures[n].ok

(***************************************************************************)
(* NO-GO has a cause the targets are to blame for: an answer that differs, *)
(* a step that failed against one of the two or came less far, a write or  *)
(* too many queries while a read was observed.  The dialects, the ids and  *)
(* the times of the targets, and a target that failed as a whole, are no   *)
(* such cause.                                                             *)
(***************************************************************************)
NoGoHasCause ==
  exit = 1 =>
    \/ Deviates
    \/ \E p \in Pairs :
         LET left == captures[p[1]].step right == captures[p[2]].step IN
         left.error # right.error \/ left.answered # right.answered
    \/ \E n \in DOMAIN captures : captures[n].wrote \/ captures[n].step.over

\* A target whose install failed, or whose uninstall did not drop everything.
FailedInstall(n) == captures[n].at \in {"install", "triggers"}

FailedUninstall(n) ==
  Probed(targets[n]) /\ captures[n].at = "finally" /\ n \notin uninstalled

(***************************************************************************)
(* A trigger or an audit table that is left in the database is left by an  *)
(* install or an uninstall that failed, of a target after which no probe   *)
(* was uninstalled in full: no other failure, of a request, a reset or the *)
(* probe itself, leaks them, and an uninstall removes what an earlier      *)
(* target left.  A connection that is left open keeps the process alive;   *)
(* only a failed install leaves one.                                       *)
(***************************************************************************)
LeftoversHaveCause ==
  exit # -1 =>
    /\ \A n \in clients : n \in DOMAIN captures /\ FailedInstall(n)
    /\ db.triggers # {} \/ db.audit =>
         \E n \in DOMAIN captures :
           /\ FailedInstall(n) \/ FailedUninstall(n)
           /\ \A m \in uninstalled : m < n

(* Every run of the gate comes to a verdict. *)
GateEnds == <>(exit # -1)
=============================================================================
