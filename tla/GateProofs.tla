----------------------------- MODULE GateProofs -----------------------------
(***************************************************************************)
(* The gate, for any targets, requests, answers and comparison, and any    *)
(* number of troubles and polls: what it says of the reads and of what it  *)
(* leaves behind, and that its verdict is the comparison's.  The inductive *)
(* invariant follows the probe's connection and triggers, the writes and   *)
(* the answers from the step of a target to its capture.                   *)
(***************************************************************************)
EXTENDS Gate, SequenceTheorems, TLAPS

Stages ==
  {"reset", "start", "pause", "install", "triggers", "begin", "request", "end",
   "finally", "stop", "verdict", "done"}

Errors == {NoError, "probe", "transport error"}

StepRecord ==
  [answered : BOOLEAN, error : Errors, writes : 0..1, over : BOOLEAN, seen : BOOLEAN]

Capture == [ok : BOOLEAN, step : StepRecord, wrote : BOOLEAN, at : Stages]

Database == [triggers : SUBSET Tables, audit : BOOLEAN, rows : 0..1]

RunTypes ==
  /\ targets \in TargetLists /\ exchange \in Requests
  /\ on \in {0} \cup DOMAIN targets
  /\ on = 0 => deviation = AsMeant
  /\ on # 0 => deviation \in Ways(exchange, targets[on])
  /\ forms = [n \in DOMAIN targets |->
                Form(exchange, targets[n], IF n = on THEN deviation ELSE AsMeant)]

Over == {"stop", "verdict", "done"}

StateTypes ==
  /\ t \in DOMAIN targets
  /\ stage \in Stages
  /\ polls \in 0..MaxPolls
  /\ stage = "pause" => polls < MaxPolls
  /\ step \in StepRecord
  /\ captures \in Seq(Capture)
  /\ Len(captures) = IF stage \in Over THEN t ELSE t - 1
  /\ clients \subseteq DOMAIN targets
  /\ db \in Database
  /\ wrote \in BOOLEAN
  /\ troubles \in 0..MaxTroubles
  /\ exit \in -1..2
  /\ exit # -1 => stage = "done"

Types == RunTypes /\ StateTypes

\* The writes the probe finds in a read are those made while it was on.
WritesFound ==
  /\ wrote => stage \in {"request", "end", "finally", "stop"}
  /\ stage \in {"begin", "end"} => Observed(Target)
  /\ (stage \in {"request", "end"} /\ Observed(Target)) => (wrote <=> db.rows = 1)
  /\ step.seen => stage \in {"finally", "stop"}
  /\ step.seen => (wrote <=> step.writes = 1)
  /\ \A n \in 1..Len(captures) :
       captures[n].step.seen => (captures[n].wrote <=> captures[n].step.writes = 1)

\* The stages between an install and its uninstall.
Installing == {"triggers", "begin", "request", "end", "finally"}

BadInstall(n) == n \in 1..Len(captures) /\ captures[n].at \in {"install", "triggers"}

Clean == db.triggers = {} /\ ~db.audit

\* Without troubles everything is undone, and connections close in any case.
Undone ==
  /\ \A n \in clients : BadInstall(n) \/ (n = t /\ stage \in Installing)
  /\ troubles = 0 => Clean \/ (t \in clients /\ stage \in Installing)
  /\ stage = "triggers" => t \in clients

\* A run with a deviation meets no trouble: all its targets answer.
Undisturbed ==
  on # 0 =>
    /\ troubles = 0 /\ polls = 0
    /\ stage = "pause" => FALSE
    /\ step.error = NoError
    /\ stage \in {"end", "finally"} => step.answered
    /\ \A n \in 1..Len(captures) :
         captures[n].ok /\ captures[n].step.answered /\ captures[n].step.error = NoError

\* GO and NO-GO compare the first two captures.
VerdictGiven ==
  exit \in {0, 1} =>
    \E p \in Pairs :
      exit = IF ~Differ(ForDiff(p[1]), ForDiff(p[2])) /\ ObservationsOk THEN 0 ELSE 1

\* What is left has a cause: the last probe that was not uninstalled in full.
Leaked ==
  \E n \in 1..Len(captures) :
    /\ FailedInstall(n) \/ FailedUninstall(n)
    /\ \A m \in uninstalled : m < n

Cause ==
  /\ uninstalled \subseteq 1..Len(captures)
  /\ stage = "install" => Probed(Target)
  /\ \A n \in clients : Probed(targets[n])
  /\ Clean \/ Leaked \/ (t \in clients /\ stage \in Installing)

GInv == Types /\ WritesFound /\ Undone /\ Undisturbed /\ VerdictGiven

-----------------------------------------------------------------------------
LEMMA ListsAreSequences ==
  ASSUME NEW l \in TargetLists
  PROVE  l \in Seq(Targets) /\ Len(l) \in Nat \ {0} /\ DOMAIN l = 1..Len(l)
BY GateAssumption

LEMMA Numbers == MaxTroubles \in Nat /\ MaxPolls \in Nat /\ MaxPolls >= 1
BY GateAssumption

LEMMA StepFields ==
  ASSUME NEW s \in StepRecord
  PROVE  /\ s.answered \in BOOLEAN /\ s.error \in Errors
         /\ s.writes \in 0..1 /\ s.over \in BOOLEAN /\ s.seen \in BOOLEAN
BY DEF StepRecord

LEMMA DatabaseFields ==
  ASSUME NEW d \in Database
  PROVE  d.triggers \subseteq Tables /\ d.audit \in BOOLEAN /\ d.rows \in 0..1
BY DEF Database

LEMMA QuietFields ==
  /\ Quiet \in StepRecord
  /\ ~Quiet.seen /\ ~Quiet.answered /\ Quiet.error = NoError /\ Quiet.writes = 0
<1>1. NoError \in Errors
  BY DEF Errors, NoError
<1> QED BY <1>1 DEF StepRecord, Quiet

LEMMA GateStarts == GateInit => GInv
<1> SUFFICES ASSUME GateInit PROVE GInv
  OBVIOUS
<1>1. targets \in TargetLists /\ 1 \in DOMAIN targets
  BY ListsAreSequences DEF GateInit
<1>2. RunTypes
  BY DEF GateInit, RunTypes
<1>3. db \in Database
  BY DEF GateInit, Database
<1>4. StateTypes
  <2>1. captures \in Seq(Capture) /\ Len(captures) = t - 1 /\ t \in DOMAIN targets
    BY <1>1 DEF GateInit
  <2>2. stage \in Stages /\ stage # "pause" /\ stage \notin Over /\ exit = -1
    BY DEF GateInit, Stages, Over
  <2>3. polls \in 0..MaxPolls /\ troubles \in 0..MaxTroubles /\ clients \subseteq DOMAIN targets
    BY Numbers DEF GateInit
  <2>4. step \in StepRecord /\ wrote \in BOOLEAN
    BY QuietFields DEF GateInit
  <2> QED BY <1>3, <2>1, <2>2, <2>3, <2>4 DEF StateTypes
<1>5. WritesFound
  BY QuietFields DEF GateInit, WritesFound
<1>6. Undone
  BY DEF GateInit, Undone, Clean
<1>7. Undisturbed
  BY QuietFields DEF GateInit, Undisturbed
<1>8. VerdictGiven
  BY DEF GateInit, VerdictGiven
<1> QED BY <1>2, <1>4, <1>5, <1>6, <1>7, <1>8 DEF GInv, Types

-----------------------------------------------------------------------------
(* What a step leaves alone.                                               *)
LEMMA RunStays ==
  ASSUME GInv, UNCHANGED run, exit' = exit, stage # "done"
  PROVE  /\ RunTypes' /\ VerdictGiven' /\ exit = -1
         /\ Target \in Targets /\ t \in 1..Len(targets) /\ Len(targets) \in Nat
         /\ t' = t => (Target' = Target /\ Observed(Target)' = Observed(Target))
<1>1. RunTypes'
  BY DEF GInv, Types, RunTypes, run
<1>2. exit = -1
  BY DEF GInv, Types, StateTypes
<1>3. VerdictGiven'
  BY <1>2 DEF VerdictGiven
<1>4. t \in 1..Len(targets) /\ Len(targets) \in Nat /\ Target \in Targets
  BY ListsAreSequences DEF GInv, Types, RunTypes, StateTypes, Target
<1>5. t' = t => (Target' = Target /\ Observed(Target)' = Observed(Target))
  BY DEF Target, Observed, Probed, run
<1> QED BY <1>1, <1>2, <1>3, <1>4, <1>5

\* A trouble happens only in a run without a deviation.
LEMMA TroubleCounts ==
  ASSUME StateTypes, Trouble
  PROVE  on = 0 /\ troubles' \in 0..MaxTroubles /\ troubles' # 0
BY Numbers DEF StateTypes, Trouble

LEMMA OutcomeRecorded ==
  ASSUME GInv, NEW ok \in BOOLEAN, Outcome(ok), stage \notin Over, stage' \in Over, t' = t
  PROVE  /\ captures' \in Seq(Capture) /\ Len(captures') = t /\ Len(captures) = t - 1
         /\ Len(captures) \in Nat
         /\ \A n \in 1..Len(captures) : captures'[n] = captures[n]
         /\ captures'[t] = [ok |-> ok, step |-> step, wrote |-> wrote, at |-> stage]
<1>1. captures \in Seq(Capture) /\ Len(captures) = t - 1 /\ Len(captures) \in Nat
  BY DEF GInv, Types, StateTypes
<1>2. [ok |-> ok, step |-> step, wrote |-> wrote, at |-> stage] \in Capture
  BY DEF GInv, Types, StateTypes, Capture
<1>3. t \in 1..Len(targets) /\ Len(targets) \in Nat
  BY ListsAreSequences DEF GInv, Types, RunTypes, StateTypes
<1>4. /\ captures' \in Seq(Capture) /\ Len(captures') = Len(captures) + 1
      /\ \A n \in 1..Len(captures) : captures'[n] = captures[n]
      /\ captures'[Len(captures) + 1] = [ok |-> ok, step |-> step, wrote |-> wrote, at |-> stage]
  BY <1>1, <1>2 DEF Outcome
<1> QED BY <1>1, <1>3, <1>4

-----------------------------------------------------------------------------
(* The steps of the gate, one by one.                                      *)
LEMMA ResetStep == ASSUME GInv, Reset PROVE GInv'
<1>1. RunTypes' /\ VerdictGiven'
  BY RunStays DEF Reset, run
<1>2. db' \in Database /\ db'.rows = db.rows /\ (Clean => Clean')
  BY DatabaseFields DEF GInv, Types, StateTypes, Reset, Database, Clean, SchemaDropped
<1>3. StateTypes'
  BY <1>2 DEF GInv, Types, StateTypes, Reset, run, Stages, Over
<1>4. WritesFound'
  BY <1>2, RunStays DEF GInv, WritesFound, Reset, run
<1>5. Undone'
  BY <1>2 DEF GInv, Undone, Reset, Installing, BadInstall
<1>6. Undisturbed'
  BY DEF GInv, Undisturbed, Reset, run
<1> QED BY <1>1, <1>3, <1>4, <1>5, <1>6 DEF GInv, Types

LEMMA SeedFailsStep == ASSUME GInv, SeedFails PROVE GInv'
<1>1. RunTypes' /\ VerdictGiven'
  BY RunStays DEF SeedFails, run
<1>2. db' \in Database /\ ~Clean
  BY DatabaseFields DEF GInv, Types, StateTypes, SeedFails, Database, Clean, SchemaDropped, UsersBroken
<1>3. troubles # 0 /\ on = 0
  BY <1>2 DEF GInv, Undone, Undisturbed, SeedFails, Installing
<1>4. /\ captures' \in Seq(Capture) /\ Len(captures') = t /\ Len(captures) = t - 1
      /\ Len(captures) \in Nat
      /\ \A n \in 1..Len(captures) : captures'[n] = captures[n]
      /\ captures'[t] = [ok |-> FALSE, step |-> step, wrote |-> wrote, at |-> stage]
  BY OutcomeRecorded DEF SeedFails, Over
<1>5. StateTypes'
  BY <1>2, <1>4 DEF GInv, Types, StateTypes, SeedFails, run, Stages, Over
<1>6. WritesFound'
  BY <1>4, RunStays DEF GInv, WritesFound, SeedFails, run
<1>7. Undone'
  BY <1>3, <1>4 DEF GInv, Undone, SeedFails, Installing, BadInstall
<1>8. Undisturbed'
  BY <1>3 DEF Undisturbed, SeedFails, run
<1> QED BY <1>1, <1>5, <1>6, <1>7, <1>8 DEF GInv, Types
LEMMA ResetFailsStep == ASSUME GInv, ResetFails PROVE GInv'
<1>1. RunTypes' /\ VerdictGiven'
  BY RunStays DEF ResetFails, run
<1>2. on = 0 /\ troubles' \in 0..MaxTroubles /\ troubles' # 0
  BY TroubleCounts DEF GInv, Types, ResetFails, TargetFails
<1>3. /\ captures' \in Seq(Capture) /\ Len(captures') = t /\ Len(captures) = t - 1
      /\ Len(captures) \in Nat
      /\ \A n \in 1..Len(captures) : captures'[n] = captures[n]
      /\ captures'[t] = [ok |-> FALSE, step |-> step, wrote |-> wrote, at |-> stage]
  BY OutcomeRecorded DEF ResetFails, TargetFails, run, Over
<1>4. StateTypes'
  BY <1>2, <1>3, RunStays DEF GInv, Types, StateTypes, ResetFails, run, Stages, Over, TargetFails
<1>5. WritesFound'
  BY <1>2, <1>3, RunStays DEF GInv, WritesFound, ResetFails, run, TargetFails
<1>6. Undone'
  BY <1>2, <1>3, RunStays DEF GInv, Undone, ResetFails, run, Installing, BadInstall, Clean, TargetFails
<1>7. Undisturbed'
  BY <1>2, <1>3, RunStays DEF GInv, Undisturbed, ResetFails, run, TargetFails
<1> QED BY <1>1, <1>4, <1>5, <1>6, <1>7 DEF GInv, Types

LEMMA NotReadyStep == ASSUME GInv, NotReady PROVE GInv'
<1>1. RunTypes' /\ VerdictGiven'
  BY RunStays DEF NotReady, run
<1>2. polls' \in 0..MaxPolls /\ (stage' = "pause" => polls' < MaxPolls)
  BY Numbers DEF GInv, Types, StateTypes, NotReady
<1>3. StateTypes'
  BY <1>2, RunStays DEF GInv, Types, StateTypes, NotReady, run, Stages, Over
<1>4. WritesFound'
  BY <1>2, RunStays DEF GInv, WritesFound, NotReady, run
<1>5. Undone'
  BY <1>2, RunStays DEF GInv, Undone, NotReady, run, Installing, BadInstall, Clean
<1>6. Undisturbed'
  BY <1>2, RunStays DEF GInv, Undisturbed, NotReady, run
<1> QED BY <1>1, <1>3, <1>4, <1>5, <1>6 DEF GInv, Types

LEMMA PollAgainStep == ASSUME GInv, PollAgain PROVE GInv'
<1>1. RunTypes' /\ VerdictGiven'
  BY RunStays DEF PollAgain, run
<1>2. polls' \in 0..MaxPolls /\ (stage' = "pause" => polls' < MaxPolls)
  BY Numbers DEF GInv, Types, StateTypes, PollAgain, NextPoll
<1>3. StateTypes'
  BY <1>2, RunStays DEF GInv, Types, StateTypes, PollAgain, run, Stages, Over
<1>4. WritesFound'
  BY <1>2, RunStays DEF GInv, WritesFound, PollAgain, run
<1>5. Undone'
  BY <1>2, RunStays DEF GInv, Undone, PollAgain, run, Installing, BadInstall, Clean
<1>6. Undisturbed'
  BY <1>2, RunStays DEF GInv, Undisturbed, PollAgain, run
<1> QED BY <1>1, <1>3, <1>4, <1>5, <1>6 DEF GInv, Types

LEMMA ReadyStep == ASSUME GInv, Ready PROVE GInv'
<1>1. RunTypes' /\ VerdictGiven'
  BY RunStays DEF Ready, run
<1>2. polls' \in 0..MaxPolls /\ (stage' = "pause" => polls' < MaxPolls)
  BY Numbers DEF GInv, Types, StateTypes, Ready
<1>3. StateTypes'
  BY <1>2, RunStays DEF GInv, Types, StateTypes, Ready, run, Stages, Over, Probed
<1>4. WritesFound'
  BY <1>2, RunStays DEF GInv, WritesFound, Ready, run, Observed
<1>5. Undone'
  BY <1>2, RunStays DEF GInv, Undone, Ready, run, Installing, BadInstall, Clean
<1>6. Undisturbed'
  BY <1>2, RunStays DEF GInv, Undisturbed, Ready, run
<1> QED BY <1>1, <1>3, <1>4, <1>5, <1>6 DEF GInv, Types

LEMMA StartTimesOutStep == ASSUME GInv, StartTimesOut PROVE GInv'
<1>1. RunTypes' /\ VerdictGiven'
  BY RunStays DEF StartTimesOut, run
<1>2. on = 0 /\ wrote = FALSE
  BY Numbers DEF GInv, Types, StateTypes, Undisturbed, WritesFound, StartTimesOut
<1>3. /\ captures' \in Seq(Capture) /\ Len(captures') = t /\ Len(captures) = t - 1
      /\ Len(captures) \in Nat
      /\ \A n \in 1..Len(captures) : captures'[n] = captures[n]
      /\ captures'[t] = [ok |-> FALSE, step |-> step, wrote |-> wrote, at |-> stage]
  BY OutcomeRecorded DEF StartTimesOut, run, Over
<1>4. StateTypes'
  BY <1>2, <1>3, RunStays DEF GInv, Types, StateTypes, StartTimesOut, run, Stages, Over
<1>5. WritesFound'
  BY <1>2, <1>3, RunStays DEF GInv, WritesFound, StartTimesOut, run
<1>6. Undone'
  BY <1>2, <1>3, RunStays DEF GInv, Undone, StartTimesOut, run, Installing, BadInstall, Clean
<1>7. Undisturbed'
  BY <1>2, <1>3, RunStays DEF GInv, Undisturbed, StartTimesOut, run
<1> QED BY <1>1, <1>4, <1>5, <1>6, <1>7 DEF GInv, Types

LEMMA InstallAuditStep == ASSUME GInv, InstallAudit PROVE GInv'
<1>1. RunTypes' /\ VerdictGiven'
  BY RunStays DEF InstallAudit, run
<1>2. db' \in Database /\ clients' \subseteq DOMAIN targets
  BY DEF GInv, Types, StateTypes, InstallAudit, Database
<1>3. StateTypes'
  BY <1>2, RunStays DEF GInv, Types, StateTypes, InstallAudit, run, Stages, Over
<1>4. WritesFound'
  BY <1>2, RunStays DEF GInv, WritesFound, InstallAudit, run
<1>5. Undone'
  BY <1>2, RunStays DEF GInv, Undone, InstallAudit, run, Installing, BadInstall, Clean
<1>6. Undisturbed'
  BY <1>2, RunStays DEF GInv, Undisturbed, InstallAudit, run
<1> QED BY <1>1, <1>3, <1>4, <1>5, <1>6 DEF GInv, Types

LEMMA InstallTriggerStep == ASSUME GInv, NEW table \in Tables, InstallTrigger(table) PROVE GInv'
<1>1. RunTypes' /\ VerdictGiven'
  BY RunStays DEF InstallTrigger, run
<1>2. db' \in Database /\ db'.rows = db.rows
  BY DEF GInv, Types, StateTypes, InstallTrigger, Database
<1>3. StateTypes'
  BY <1>2, RunStays DEF GInv, Types, StateTypes, InstallTrigger, run, Stages, Over
<1>4. WritesFound'
  BY <1>2, RunStays DEF GInv, WritesFound, InstallTrigger, run
<1>5. Undone'
  BY <1>2, RunStays DEF GInv, Undone, InstallTrigger, run, Installing, BadInstall, Clean
<1>6. Undisturbed'
  BY <1>2, RunStays DEF GInv, Undisturbed, InstallTrigger, run
<1> QED BY <1>1, <1>3, <1>4, <1>5, <1>6 DEF GInv, Types

LEMMA InstalledStep == ASSUME GInv, Installed PROVE GInv'
<1>1. RunTypes' /\ VerdictGiven'
  BY RunStays DEF Installed, run
<1>2. StateTypes'
  BY RunStays DEF GInv, Types, StateTypes, Installed, run, Stages, Over
<1>3. WritesFound'
  BY RunStays DEF GInv, WritesFound, Installed, run
<1>4. Undone'
  BY RunStays DEF GInv, Undone, Installed, run, Installing, BadInstall, Clean
<1>5. Undisturbed'
  BY RunStays DEF GInv, Undisturbed, Installed, run
<1> QED BY <1>1, <1>2, <1>3, <1>4, <1>5 DEF GInv, Types

LEMMA InstallFailsStep == ASSUME GInv, InstallFails PROVE GInv'
<1>1. RunTypes' /\ VerdictGiven'
  BY RunStays DEF InstallFails, run
<1>2. on = 0 /\ troubles' \in 0..MaxTroubles /\ troubles' # 0
  BY TroubleCounts DEF GInv, Types, InstallFails, TargetFails
<1>3. /\ captures' \in Seq(Capture) /\ Len(captures') = t /\ Len(captures) = t - 1
      /\ Len(captures) \in Nat
      /\ \A n \in 1..Len(captures) : captures'[n] = captures[n]
      /\ captures'[t] = [ok |-> FALSE, step |-> step, wrote |-> wrote, at |-> stage]
  BY OutcomeRecorded DEF InstallFails, TargetFails, run, Over
<1>4. StateTypes'
  BY <1>2, <1>3, RunStays DEF GInv, Types, StateTypes, InstallFails, run, Stages, Over, TargetFails
<1>5. WritesFound'
  BY <1>2, <1>3, RunStays DEF GInv, WritesFound, InstallFails, run, TargetFails
<1>6. Undone'
  BY <1>2, <1>3, RunStays DEF GInv, Undone, InstallFails, run, Installing, BadInstall, Clean, TargetFails
<1>7. Undisturbed'
  BY <1>2, <1>3, RunStays DEF GInv, Undisturbed, InstallFails, run, TargetFails
<1> QED BY <1>1, <1>4, <1>5, <1>6, <1>7 DEF GInv, Types

LEMMA TargetWritesStep == ASSUME GInv, TargetWrites PROVE GInv'
<1>1. RunTypes' /\ VerdictGiven'
  BY RunStays DEF TargetWrites, run
<1>2. on = 0 /\ troubles' \in 0..MaxTroubles /\ troubles' # 0
  BY TroubleCounts DEF GInv, Types, TargetWrites
<1>3. db' \in Database /\ db'.rows = 1
  BY DEF GInv, Types, StateTypes, TargetWrites, Database
<1>4. StateTypes'
  BY <1>2, <1>3, RunStays DEF GInv, Types, StateTypes, TargetWrites, run, Stages, Over
<1>5. WritesFound'
  BY <1>2, <1>3, RunStays DEF GInv, WritesFound, TargetWrites, run
<1>6. Undone'
  BY <1>2, <1>3, RunStays DEF GInv, Undone, TargetWrites, run, Installing, BadInstall, Clean
<1>7. Undisturbed'
  BY <1>2, <1>3, RunStays DEF GInv, Undisturbed, TargetWrites, run
<1> QED BY <1>1, <1>4, <1>5, <1>6, <1>7 DEF GInv, Types

LEMMA BeginReadStep == ASSUME GInv, BeginRead PROVE GInv'
<1>1. RunTypes' /\ VerdictGiven'
  BY RunStays DEF BeginRead, run
<1>2. db' \in Database /\ db'.rows = 0 /\ (Clean => Clean')
  BY DEF GInv, Types, StateTypes, BeginRead, Database, Clean
<1>3. StateTypes'
  BY <1>2, RunStays DEF GInv, Types, StateTypes, BeginRead, run, Stages, Over
<1>4. WritesFound'
  BY <1>2, RunStays DEF GInv, WritesFound, BeginRead, run
<1>5. Undone'
  BY <1>2, RunStays DEF GInv, Undone, BeginRead, run, Installing, BadInstall, Clean
<1>6. Undisturbed'
  BY <1>2, RunStays DEF GInv, Undisturbed, BeginRead, run
<1> QED BY <1>1, <1>3, <1>4, <1>5, <1>6 DEF GInv, Types

LEMMA ProbeFailsStep == ASSUME GInv, ProbeFails PROVE GInv'
<1>1. RunTypes' /\ VerdictGiven'
  BY RunStays DEF ProbeFails, run
<1>2. on = 0 /\ troubles' \in 0..MaxTroubles /\ troubles' # 0
  BY TroubleCounts DEF GInv, Types, ProbeFails
<1>3. step' \in StepRecord /\ step'.seen = step.seen /\ step'.writes = step.writes
  BY StepFields DEF GInv, Types, StateTypes, ProbeFails, StepRecord, Errors
<1>4. StateTypes'
  BY <1>2, <1>3, RunStays DEF GInv, Types, StateTypes, ProbeFails, run, Stages, Over
<1>5. WritesFound'
  BY <1>2, <1>3, RunStays DEF GInv, WritesFound, ProbeFails, run
<1>6. Undone'
  BY <1>2, <1>3, RunStays DEF GInv, Undone, ProbeFails, run, Installing, BadInstall, Clean
<1>7. Undisturbed'
  BY <1>2, <1>3, RunStays DEF GInv, Undisturbed, ProbeFails, run
<1> QED BY <1>1, <1>4, <1>5, <1>6, <1>7 DEF GInv, Types

LEMMA RespondStep == ASSUME GInv, Respond PROVE GInv'
<1>1. RunTypes' /\ VerdictGiven'
  BY RunStays DEF Respond, run
<1>2. step' \in StepRecord /\ step'.seen = step.seen /\ step'.writes = step.writes /\ step'.answered /\ step'.error = step.error
  BY StepFields DEF GInv, Types, StateTypes, Respond, StepRecord, Errors
<1>3. StateTypes'
  BY <1>2, RunStays DEF GInv, Types, StateTypes, Respond, run, Stages, Over, AfterRequest
<1>4. WritesFound'
  BY <1>2, RunStays DEF GInv, WritesFound, Respond, run, AfterRequest
<1>5. Undone'
  BY <1>2, RunStays DEF GInv, Undone, Respond, run, Installing, BadInstall, Clean, AfterRequest
<1>6. Undisturbed'
  BY <1>2, RunStays DEF GInv, Undisturbed, Respond, run, AfterRequest
<1> QED BY <1>1, <1>3, <1>4, <1>5, <1>6 DEF GInv, Types

LEMMA RequestFailsStep == ASSUME GInv, RequestFails PROVE GInv'
<1>1. RunTypes' /\ VerdictGiven'
  BY RunStays DEF RequestFails, run
<1>2. on = 0 /\ troubles' \in 0..MaxTroubles /\ troubles' # 0
  BY TroubleCounts DEF GInv, Types, RequestFails
<1>3. step' \in StepRecord /\ step'.seen = step.seen /\ step'.writes = step.writes
  BY StepFields DEF GInv, Types, StateTypes, RequestFails, StepRecord, Errors
<1>4. StateTypes'
  BY <1>2, <1>3, RunStays DEF GInv, Types, StateTypes, RequestFails, run, Stages, Over, AfterRequest
<1>5. WritesFound'
  BY <1>2, <1>3, RunStays DEF GInv, WritesFound, RequestFails, run, AfterRequest
<1>6. Undone'
  BY <1>2, <1>3, RunStays DEF GInv, Undone, RequestFails, run, Installing, BadInstall, Clean, AfterRequest
<1>7. Undisturbed'
  BY <1>2, <1>3, RunStays DEF GInv, Undisturbed, RequestFails, run, AfterRequest
<1> QED BY <1>1, <1>4, <1>5, <1>6, <1>7 DEF GInv, Types

LEMMA EndReadStep == ASSUME GInv, NEW over \in BOOLEAN, EndRead(over) PROVE GInv'
<1>1. RunTypes' /\ VerdictGiven'
  BY RunStays DEF EndRead, run
<1>2. troubles' \in 0..MaxTroubles /\ (troubles' = troubles \/ (on = 0 /\ troubles' # 0))
  BY TroubleCounts DEF GInv, Types, StateTypes, EndRead
<1>3. step' \in StepRecord /\ step'.seen /\ step'.writes = db.rows
      /\ step'.answered = step.answered /\ step'.error = step.error
  BY StepFields, DatabaseFields DEF GInv, Types, StateTypes, EndRead, RowsFound, StepRecord
<1>4. StateTypes'
  BY <1>2, <1>3, RunStays DEF GInv, Types, StateTypes, EndRead, run, Stages, Over
<1>5. WritesFound'
  BY <1>2, <1>3, RunStays DEF GInv, WritesFound, EndRead, run
<1>6. Undone'
  BY <1>2, <1>3, RunStays DEF GInv, Undone, EndRead, run, Installing, BadInstall, Clean
<1>7. Undisturbed'
  BY <1>2, <1>3, RunStays DEF GInv, Undisturbed, EndRead, run
<1> QED BY <1>1, <1>4, <1>5, <1>6, <1>7 DEF GInv, Types

LEMMA UninstallStep ==
  ASSUME GInv, NEW dropped \in SUBSET Tables, NEW audit \in BOOLEAN, Uninstall(dropped, audit)
  PROVE  GInv'
<1>1. RunTypes' /\ VerdictGiven'
  BY RunStays DEF Uninstall, run
<1>2. /\ captures' \in Seq(Capture) /\ Len(captures') = t /\ Len(captures) = t - 1
      /\ Len(captures) \in Nat
      /\ \A n \in 1..Len(captures) : captures'[n] = captures[n]
      /\ captures'[t] = [ok |-> TRUE, step |-> step, wrote |-> wrote, at |-> stage]
  BY OutcomeRecorded DEF Uninstall, run, Over
<1>3. /\ troubles' \in 0..MaxTroubles
      /\ troubles' = troubles \/ (on = 0 /\ troubles' # 0)
  BY TroubleCounts DEF GInv, Types, StateTypes, Uninstall
<1>4. db' \in Database
  <2>1. CASE t \in clients
    <3>1. db' = [triggers |-> db.triggers \ dropped, audit |-> db.audit /\ ~audit, rows |-> 0]
      BY <2>1 DEF Uninstall
    <3>2. db.triggers \ dropped \in SUBSET Tables /\ 0 \in 0..1
      BY DatabaseFields DEF GInv, Types, StateTypes
    <3>3. (db.audit /\ ~audit) \in BOOLEAN
      OBVIOUS
    <3> QED BY <3>1, <3>2, <3>3, Zenon DEF Database
  <2>2. CASE t \notin clients
    BY <2>2 DEF GInv, Types, StateTypes, Uninstall
  <2> QED BY <2>1, <2>2
<1>5. troubles' = 0 => Clean'
  <2>1. CASE t \in clients
    <3>1. SUFFICES ASSUME troubles' = 0 PROVE Clean'
      OBVIOUS
    <3>2. troubles = 0 /\ dropped = Tables /\ audit
      BY <2>1, <3>1, TroubleCounts DEF GInv, Types, Uninstall, ListTables
    <3>3. db' = [triggers |-> db.triggers \ dropped, audit |-> db.audit /\ ~audit, rows |-> 0]
      BY <2>1 DEF Uninstall
    <3>4. db.triggers \ dropped = {}
      BY <3>2, DatabaseFields DEF GInv, Types, StateTypes
    <3> QED BY <3>2, <3>3, <3>4, Zenon DEF Clean
  <2>2. CASE t \notin clients
    BY <2>2 DEF GInv, Undone, Uninstall, Clean
  <2> QED BY <2>1, <2>2
<1>6. StateTypes'
  BY <1>2, <1>3, <1>4, RunStays DEF GInv, Types, StateTypes, Uninstall, run, Stages, Over
<1>7. WritesFound'
  BY <1>2, RunStays DEF GInv, WritesFound, Uninstall, run
<1>8. Undone'
  BY <1>2, <1>5, RunStays DEF GInv, Undone, Uninstall, run, Installing, BadInstall
<1>9. Undisturbed'
  BY <1>2, <1>3, RunStays DEF GInv, Undisturbed, Uninstall, run
<1> QED BY <1>1, <1>6, <1>7, <1>8, <1>9 DEF GInv, Types

LEMMA StopStep == ASSUME GInv, Stop PROVE GInv'
<1>1. RunTypes' /\ VerdictGiven'
  BY RunStays DEF Stop, run
<1>2. t \in 1..Len(targets) /\ Len(targets) \in Nat /\ targets' = targets
      /\ DOMAIN targets = 1..Len(targets)
  BY ListsAreSequences DEF GInv, Types, RunTypes, StateTypes, Stop, run
<1>3. StateTypes'
  <2>1. /\ stage = "stop" /\ Len(captures) = t /\ captures' = captures
        /\ polls' = 0 /\ wrote' = FALSE /\ step' \in StepRecord /\ exit' = exit /\ exit = -1
    BY QuietFields DEF GInv, Types, StateTypes, Stop, Over
  <2>2. /\ t' \in DOMAIN targets' /\ stage' \in Stages /\ stage' # "pause"
        /\ Len(captures') = IF stage' \in Over THEN t' ELSE t' - 1
    <3>1. CASE t < Len(targets)
      <4>1. t' = t + 1 /\ stage' = "reset"
        BY <3>1 DEF Stop
      <4> QED BY <1>2, <2>1, <3>1, <4>1 DEF Stages, Over
    <3>2. CASE ~(t < Len(targets))
      <4>1. t' = t /\ stage' = "verdict"
        BY <3>2 DEF Stop
      <4> QED BY <1>2, <2>1, <4>1 DEF Stages, Over
    <3> QED BY <3>1, <3>2
  <2>3. /\ clients' \subseteq DOMAIN targets' /\ db' \in Database /\ troubles' \in 0..MaxTroubles
        /\ captures' \in Seq(Capture)
    BY <1>2, <2>1 DEF GInv, Types, StateTypes, Stop
  <2>4. polls' \in 0..MaxPolls /\ exit' \in -1..2 /\ exit' = -1
    BY <2>1, Numbers
  <2>5. wrote' \in BOOLEAN
    BY DEF Stop
  <2> QED BY <2>1, <2>2, <2>3, <2>4, <2>5 DEF StateTypes
<1>4. WritesFound'
  BY <1>2, QuietFields DEF GInv, WritesFound, Stop
<1>5. Undone'
  BY <1>2 DEF GInv, Undone, Stop, Installing, BadInstall, Clean
<1>6. Undisturbed'
  BY QuietFields DEF GInv, Undisturbed, Stop, run
<1> QED BY <1>1, <1>3, <1>4, <1>5, <1>6 DEF GInv, Types

LEMMA VerdictStep == ASSUME GInv, Verdict PROVE GInv'
<1>1. RunTypes'
  BY DEF GInv, Types, RunTypes, Verdict, run
<1>2. exit' \in 0..2 /\ stage' = "done" /\ stage = "verdict" /\ t' = t
  BY DEF Verdict
<1>3. StateTypes'
  BY <1>2 DEF GInv, Types, StateTypes, Verdict, run, Stages, Over
<1>4. WritesFound'
  BY DEF GInv, WritesFound, Verdict
<1>5. Undone'
  BY DEF GInv, Undone, Verdict, Installing, BadInstall, Clean
<1>6. Undisturbed'
  BY DEF GInv, Undisturbed, Verdict, run
<1>7. VerdictGiven'
  <2>1. Pairs' = Pairs /\ ObservationsOk' = ObservationsOk
    BY DEF Verdict, Pairs, Successful, ObservationsOk
  <2>2. \A n : ForDiff(n)' = ForDiff(n)
    BY DEF Verdict, ForDiff, run
  <2> QED BY <2>1, <2>2 DEF Verdict, VerdictGiven
<1> QED BY <1>1, <1>3, <1>4, <1>5, <1>6, <1>7 DEF GInv, Types

LEMMA GateStays == GInv /\ [GateNext]_gateVars => GInv'
<1> SUFFICES ASSUME GInv, [GateNext]_gateVars PROVE GInv'
  OBVIOUS
<1>1. CASE UNCHANGED gateVars
  <2>1. Types' /\ WritesFound'
    BY <1>1 DEF GInv, Types, RunTypes, StateTypes, WritesFound, Observed, Probed, Target,
                gateVars, run
  <2>2. Undone' /\ Undisturbed'
    BY <1>1 DEF GInv, Undone, BadInstall, Clean, Undisturbed, gateVars, run
  <2>3. Pairs' = Pairs /\ ObservationsOk' = ObservationsOk /\ exit' = exit
    BY <1>1 DEF gateVars, Pairs, Successful, ObservationsOk
  <2>4. \A n : ForDiff(n)' = ForDiff(n)
    BY <1>1 DEF gateVars, ForDiff, run
  <2> QED BY <2>1, <2>2, <2>3, <2>4 DEF GInv, VerdictGiven
<1>2. CASE \E table \in Tables : InstallTrigger(table)
  BY <1>2, InstallTriggerStep
<1>3. CASE \E over \in BOOLEAN : EndRead(over)
  BY <1>3, EndReadStep
<1>4. CASE \E dropped \in SUBSET Tables, audit \in BOOLEAN : Uninstall(dropped, audit)
  BY <1>4, UninstallStep
<1> QED BY <1>1, <1>2, <1>3, <1>4, ResetStep, SeedFailsStep, ResetFailsStep, NotReadyStep,
           PollAgainStep, ReadyStep, StartTimesOutStep, InstallAuditStep, InstalledStep,
           InstallFailsStep, TargetWritesStep, BeginReadStep, ProbeFailsStep, RespondStep,
           RequestFailsStep, StopStep, VerdictStep DEF GateNext, Done

LEMMA GateHolds == GateSpec => []GInv
BY GateStarts, GateStays, PTL DEF GateSpec

-----------------------------------------------------------------------------
(* The cause of what is left, along the invariant.                         *)
LEMMA CauseStarts == GateInit => Cause
<1> SUFFICES ASSUME GateInit PROVE Cause
  OBVIOUS
<1>1. Clean /\ stage # "install" /\ clients = {} /\ uninstalled = {}
  BY DEF GateInit, Clean
<1> QED BY <1>1 DEF Cause

\* A step that records no capture and keeps what is clean.
LEMMA CauseUndisturbed ==
  ASSUME Cause, UNCHANGED <<run, t, captures, clients, uninstalled>>,
         stage' = "install" => Probed(Target), Clean => Clean',
         stage \in Installing => stage' \in Installing
  PROVE  Cause'
<1>1. targets' = targets /\ Target' = Target
  BY DEF run, Target
<1>2. Leaked => Leaked'
  BY <1>1 DEF Leaked, FailedInstall, FailedUninstall, Probed
<1>3. Clean' \/ Leaked' \/ (t' \in clients' /\ stage' \in Installing)
  BY <1>2 DEF Cause
<1> QED BY <1>1, <1>3 DEF Cause, Probed

\* The causes of earlier targets stand when a capture is recorded.
LEMMA LeakStays ==
  ASSUME GInv, Leaked, NEW ok \in BOOLEAN, Outcome(ok), stage \notin Over, stage' \in Over,
         t' = t, targets' = targets, uninstalled' = uninstalled
  PROVE  Leaked'
<1>1. /\ Len(captures') = t /\ Len(captures) = t - 1 /\ Len(captures) \in Nat
      /\ \A n \in 1..Len(captures) : captures'[n] = captures[n]
  BY OutcomeRecorded
<1>2. PICK n \in 1..Len(captures) : /\ FailedInstall(n) \/ FailedUninstall(n)
                                    /\ \A m \in uninstalled : m < n
  BY DEF Leaked
<1>3. FailedInstall(n)' \/ FailedUninstall(n)'
  BY <1>1, <1>2 DEF FailedInstall, FailedUninstall, Probed
<1>4. n \in 1..Len(captures')
  BY <1>1, <1>2
<1> QED BY <1>2, <1>3, <1>4 DEF Leaked

\* A target that fails before its install leaves what it found.
LEMMA CauseBeforeInstall ==
  ASSUME GInv, Cause, Outcome(FALSE), stage \in {"reset", "start"}, stage' = "stop",
         Clean => Clean', UNCHANGED <<run, t, clients, uninstalled>>
  PROVE  Cause'
<1>1. stage \notin Over /\ stage' \in Over /\ stage \notin Installing /\ targets' = targets
  BY DEF Over, Installing, run
<1>2. Len(captures') = t /\ Len(captures) = t - 1 /\ Len(captures) \in Nat
  BY <1>1, OutcomeRecorded
<1>3. uninstalled' \subseteq 1..Len(captures')
  BY <1>2 DEF Cause
<1>4. Clean' \/ Leaked'
  BY <1>1, LeakStays DEF Cause
<1> QED BY <1>1, <1>3, <1>4 DEF Cause, Probed

LEMMA CauseOfInstall ==
  ASSUME GInv, Cause, InstallFails
  PROVE  Cause'
<1>1. /\ stage \notin Over /\ stage' \in Over /\ stage' = "stop" /\ targets' = targets
      /\ Outcome(FALSE) /\ t' = t /\ uninstalled' = uninstalled /\ clients' = clients
  BY DEF InstallFails, TargetFails, Over, run
<1>2. /\ Len(captures') = t /\ Len(captures) = t - 1 /\ Len(captures) \in Nat
      /\ captures'[t] = [ok |-> FALSE, step |-> step, wrote |-> wrote, at |-> stage]
  BY <1>1, OutcomeRecorded
<1>3. uninstalled' \subseteq 1..Len(captures') /\ \A m \in uninstalled' : m < t
  BY <1>1, <1>2 DEF Cause
<1>4. FailedInstall(t)' /\ t \in 1..Len(captures')
  BY <1>1, <1>2 DEF FailedInstall, InstallFails
<1>5. Leaked'
  BY <1>1, <1>3, <1>4 DEF Leaked
<1> QED BY <1>1, <1>3, <1>5 DEF Cause, Probed

\* An uninstall in full removes everything; one that fails is a cause.
LEMMA CauseOfUninstall ==
  ASSUME GInv, Cause, NEW dropped \in SUBSET Tables, NEW audit \in BOOLEAN,
         Uninstall(dropped, audit)
  PROVE  Cause'
<1>1. /\ stage = "finally" /\ stage' = "stop" /\ stage \notin Over /\ stage' \in Over
      /\ targets' = targets /\ t' = t /\ clients' = clients \ {t} /\ Outcome(TRUE)
  BY DEF Uninstall, Over, run
<1>2. /\ Len(captures') = t /\ Len(captures) = t - 1 /\ Len(captures) \in Nat
      /\ captures'[t] = [ok |-> TRUE, step |-> step, wrote |-> wrote, at |-> stage]
  BY <1>1, OutcomeRecorded
<1>3. uninstalled' \subseteq uninstalled \cup {t}
  BY DEF Uninstall
<1>4. uninstalled' \subseteq 1..Len(captures') /\ \A m \in uninstalled : m < t
  BY <1>2, <1>3 DEF Cause
<1>5. Clean' \/ Leaked'
  <2>1. CASE t \in clients /\ dropped = ListTables /\ audit
    <3>1. db' = [triggers |-> db.triggers \ dropped, audit |-> db.audit /\ ~audit, rows |-> 0]
      BY <2>1 DEF Uninstall
    <3>2. db.triggers \ dropped = {}
      BY <2>1, DatabaseFields DEF GInv, Types, StateTypes, ListTables
    <3> QED BY <2>1, <3>1, <3>2, Zenon DEF Clean
  <2>2. CASE t \in clients /\ ~(dropped = ListTables /\ audit)
    <3>1. uninstalled' = uninstalled
      BY <2>2 DEF Uninstall
    <3>2. Probed(targets'[t])
      BY <1>1, <2>2 DEF Cause
    <3>3. t \notin uninstalled'
      BY <1>2, <1>4, <3>1
    <3>4. FailedUninstall(t)'
      BY <1>1, <1>2, <3>2, <3>3 DEF FailedUninstall, Probed
    <3>5. t \in 1..Len(captures')
      BY <1>2
    <3> QED BY <1>1, <1>4, <3>1, <3>4, <3>5 DEF Leaked
  <2>3. CASE t \notin clients
    <3>1. db' = db /\ uninstalled' = uninstalled
      BY <2>3 DEF Uninstall
    <3>2. Clean \/ Leaked
      BY <2>3 DEF Cause
    <3> QED BY <1>1, <3>1, <3>2, LeakStays DEF Clean
  <2> QED BY <2>1, <2>2, <2>3
<1> QED BY <1>1, <1>4, <1>5 DEF Cause, Probed

LEMMA CauseStays == GInv /\ Cause /\ [GateNext]_gateVars => Cause'
<1> SUFFICES ASSUME GInv, Cause, [GateNext]_gateVars PROVE Cause'
  OBVIOUS
<1>1. CASE Reset \/ NotReady \/ PollAgain \/ Ready \/ Verdict \/ UNCHANGED gateVars
  <2>1. Clean => Clean'
    BY <1>1 DEF Reset, NotReady, PollAgain, Ready, Verdict, gateVars, Clean, SchemaDropped,
                GInv, Types, StateTypes, Database
  <2>2. /\ UNCHANGED <<run, t, captures, clients, uninstalled>>
        /\ stage' = "install" => Probed(Target)
        /\ stage \in Installing => stage' \in Installing
    BY <1>1 DEF Reset, NotReady, PollAgain, Ready, Verdict, gateVars, Installing, Cause
  <2> QED BY <2>1, <2>2, CauseUndisturbed
<1>2. CASE Installed \/ TargetWrites \/ BeginRead \/ ProbeFails \/ Respond \/ RequestFails
           \/ \E over \in BOOLEAN : EndRead(over)
  <2>1. Clean => Clean'
    BY <1>2 DEF Installed, TargetWrites, BeginRead, ProbeFails, Respond, RequestFails, EndRead,
                Clean, GInv, Types, StateTypes, Database
  <2>2. /\ UNCHANGED <<run, t, captures, clients, uninstalled>>
        /\ stage' # "install" /\ stage' \in Installing
    BY <1>2 DEF Installed, TargetWrites, BeginRead, ProbeFails, Respond, RequestFails, EndRead,
                AfterRequest, Installing
  <2> QED BY <2>1, <2>2, CauseUndisturbed
<1>3. CASE SeedFails \/ ResetFails \/ StartTimesOut
  <2>1. Clean => Clean'
    BY <1>3 DEF SeedFails, ResetFails, StartTimesOut, Clean, SchemaDropped, GInv, Types,
                StateTypes, Database
  <2> QED BY <1>3, <2>1, CauseBeforeInstall DEF SeedFails, ResetFails, StartTimesOut, TargetFails
<1>4. CASE InstallAudit
  <2>1. Target' = Target /\ targets' = targets /\ t' = t /\ stage' = "triggers"
        /\ captures' = captures /\ uninstalled' = uninstalled /\ clients' = clients \cup {t}
    BY <1>4 DEF InstallAudit, run, Target
  <2>2. Probed(targets[t])
    BY <1>4 DEF InstallAudit, Cause, Target
  <2> QED BY <2>1, <2>2 DEF Cause, Installing, Probed
<1>5. CASE \E table \in Tables : InstallTrigger(table)
  <2>1. /\ targets' = targets /\ t' = t /\ stage' = "triggers" /\ stage = "triggers"
        /\ captures' = captures /\ uninstalled' = uninstalled /\ clients' = clients
    BY <1>5 DEF InstallTrigger, run
  <2>2. t \in clients
    BY <2>1 DEF GInv, Undone
  <2> QED BY <2>1, <2>2 DEF Cause, Installing, Probed
<1>6. CASE Stop
  <2>1. /\ targets' = targets /\ stage' # "install" /\ stage \notin Installing
        /\ captures' = captures /\ uninstalled' = uninstalled /\ clients' = clients /\ db' = db
    BY <1>6 DEF Stop, run, Installing
  <2>2. (Clean => Clean') /\ (Leaked => Leaked')
    BY <2>1 DEF Clean, Leaked, FailedInstall, FailedUninstall, Probed
  <2> QED BY <2>1, <2>2 DEF Cause, Probed
<1> QED BY <1>1, <1>2, <1>3, <1>4, <1>5, <1>6, CauseOfInstall, CauseOfUninstall
        DEF GateNext, Done

LEMMA CauseHolds == GateSpec => []Cause
BY GateHolds, CauseStarts, CauseStays, PTL DEF GateSpec

-----------------------------------------------------------------------------
(* The gate keeps its types: a capture for every target that is over, and  *)
(* no count beyond its bound.                                              *)
THEOREM GateTypes == GateSpec => []GateTypeOK
<1>1. GInv /\ Cause => GateTypeOK
  <2> SUFFICES ASSUME GInv, Cause PROVE GateTypeOK
    OBVIOUS
  <2>1. t \in Int
    BY ListsAreSequences DEF GInv, Types, RunTypes, StateTypes
  <2>2. Len(captures) \in {t - 1, t}
    BY <2>1 DEF GInv, Types, StateTypes
  <2>3. step.answered \in BOOLEAN /\ db.triggers \subseteq Tables /\ db.rows \in 0..1
    BY StepFields, DatabaseFields DEF GInv, Types, StateTypes
  <2>4. uninstalled \subseteq DOMAIN targets
    BY <2>2, ListsAreSequences DEF GInv, Types, RunTypes, StateTypes, Cause
  <2> QED BY <2>2, <2>3, <2>4 DEF GInv, Types, RunTypes, StateTypes, GateTypeOK
<1> QED BY <1>1, GateHolds, CauseHolds, PTL

(* After GO no capture is of a read in which something was written while   *)
(* the probe watched: its rows are read after the answer, none is left     *)
(* over from before, and one is enough to refuse.                          *)
THEOREM GoReadsAreQuiet == GateSpec => []GoMeansQuietReads
<1>1. GInv => GoMeansQuietReads
  <2> SUFFICES ASSUME GInv, exit = 0, NEW n \in DOMAIN captures,
                      captures[n].wrote, captures[n].step.seen, captures[n].ok
               PROVE  FALSE
    BY DEF GoMeansQuietReads
  <2>1. n \in 1..Len(captures)
    BY DEF GInv, Types, StateTypes
  <2>2. captures[n].step.writes = 1
    BY <2>1 DEF GInv, WritesFound
  <2>3. ObservationsOk
    BY DEF GInv, VerdictGiven
  <2> QED BY <2>2, <2>3 DEF ObservationsOk, ObservationOk, Successful
<1> QED BY <1>1, GateHolds, PTL

(* What the probe leaves in the database, and the connection that keeps    *)
(* the process alive, are left by an install or an uninstall that failed:  *)
(* the last of them, and no probe was uninstalled in full after it.        *)
THEOREM LeftoversExplained == GateSpec => []LeftoversHaveCause
<1>1. GInv /\ Cause => LeftoversHaveCause
  <2> SUFFICES ASSUME GInv, Cause, exit # -1 PROVE LeftoversHaveCause
    BY DEF LeftoversHaveCause
  <2>1. stage = "done" /\ stage \notin Installing /\ DOMAIN captures = 1..Len(captures)
    BY DEF GInv, Types, StateTypes, Installing
  <2>2. \A n \in clients : n \in DOMAIN captures /\ FailedInstall(n)
    BY <2>1 DEF GInv, Undone, BadInstall, FailedInstall
  <2>3. Clean \/ Leaked
    BY <2>1 DEF Cause
  <2> QED BY <2>1, <2>2, <2>3 DEF LeftoversHaveCause, Clean, Leaked
<1> QED BY <1>1, GateHolds, CauseHolds, PTL

-----------------------------------------------------------------------------
(* What the verdict owes to the comparison.  The facts about the answers   *)
(* are the data of Exchanges and what Normalize makes of them.             *)

\* A deviation the normalizer documents as reported, and does not overlook,
\* shows as a difference.
TellsApart ==
  \A list \in TargetLists, x \in Requests :
    \A n \in DOMAIN list : \A way \in Ways(x, list[n]) :
      Compared(x, way) /\ ~Overlooked(x, way) =>
        \A m \in DOMAIN list \ {n} :
          LET away == Shown(Form(x, list[n], way), TRUE, NoError)
              meant == Shown(Form(x, list[m], AsMeant), TRUE, NoError)
          IN Differ(away, meant) /\ Differ(meant, away)

\* Dialects, ids, times and deviations it documents as dropped do not.
HidesTheRest ==
  \A list \in TargetLists, x \in Requests :
    \A n \in DOMAIN list : \A m \in DOMAIN list \ {n} :
      \A way \in {AsMeant} \cup {w \in Ways(x, list[n]) : ~Compared(x, w)} :
        \A answered \in BOOLEAN, error \in Errors :
          LET here == Shown(Form(x, list[n], way), answered, error)
              there == Shown(Form(x, list[m], AsMeant), answered, error)
          IN ~Differ(here, there) /\ ~Differ(there, here)

\* The first two captures are unique, and are of two targets.
LEMMA PairIsUnique ==
  ASSUME GInv, NEW p \in Pairs
  PROVE  /\ p[1] \in 1..Len(captures) /\ p[2] \in 1..Len(captures) /\ p[1] # p[2]
         /\ p[1] \in DOMAIN targets /\ p[2] \in DOMAIN targets
         /\ \A q \in Pairs : q[1] = p[1] /\ q[2] = p[2]
<1>1. /\ captures \in Seq(Capture) /\ DOMAIN captures = 1..Len(captures)
      /\ DOMAIN targets = 1..Len(targets) /\ t \in 1..Len(targets) /\ Len(targets) \in Nat
      /\ Len(captures) \in Nat /\ Len(captures) <= t
  BY ListsAreSequences DEF GInv, Types, RunTypes, StateTypes
<1>2. \A q \in Pairs : /\ q[1] \in Successful /\ q[2] \in Successful /\ q[1] < q[2]
                       /\ \A n \in Successful : n <= q[2] => n = q[1] \/ n = q[2]
  BY DEF Pairs
<1>3. Successful \subseteq 1..Len(captures)
  BY <1>1 DEF Successful
<1>4. ASSUME NEW q \in Pairs PROVE q[1] = p[1] /\ q[2] = p[2]
  <2>1. /\ p[1] \in Int /\ p[2] \in Int /\ q[1] \in Int /\ q[2] \in Int
        /\ p[1] < p[2] /\ q[1] < q[2]
    <3>1. \A n \in Successful : n \in Int
      BY <1>1, <1>3
    <3> QED BY <1>2, <3>1
  <2>2. CASE q[2] <= p[2]
    <3>1. q[1] \in {p[1], p[2]} /\ q[2] \in {p[1], p[2]}
      BY <1>2, <2>1, <2>2
    <3> QED BY <2>1, <3>1
  <2>3. CASE p[2] <= q[2]
    <3>1. p[1] \in {q[1], q[2]} /\ p[2] \in {q[1], q[2]}
      BY <1>2, <2>1, <2>3
    <3> QED BY <2>1, <3>1
  <2> QED BY <2>1, <2>2, <2>3
<1>5. p[1] \in 1..Len(captures) /\ p[2] \in 1..Len(captures) /\ p[1] # p[2]
  <2>1. p[1] \in Successful /\ p[2] \in Successful /\ p[1] < p[2]
    BY <1>2
  <2>2. p[1] \in 1..Len(captures) /\ p[2] \in 1..Len(captures)
    BY <1>3, <2>1
  <2> QED BY <1>1, <2>1, <2>2
<1> QED BY <1>1, <1>4, <1>5

(* GO hides what the comparison hides and no more: with one that shows the *)
(* deviations it documents, but for those it overlooks, no failure,        *)
(* pairing or order of targets lets one of them pass.                      *)
THEOREM GoHidesNoMore == ASSUME TellsApart PROVE GateSpec => []GoHidesOnlyKnown
<1>1. GInv => GoHidesOnlyKnown
  <2> SUFFICES ASSUME GInv, exit = 0, Deviates, ~Overlooked(exchange, deviation)
               PROVE  FALSE
    BY DEF GoHidesOnlyKnown
  <2>1. PICK p \in Pairs : ~Differ(ForDiff(p[1]), ForDiff(p[2]))
    BY DEF GInv, VerdictGiven
  <2>2. on \in {p[1], p[2]} /\ Compared(exchange, deviation)
    BY <2>1, PairIsUnique DEF Deviates
  <2>3. /\ p[1] \in 1..Len(captures) /\ p[2] \in 1..Len(captures) /\ p[1] # p[2]
        /\ p[1] \in DOMAIN targets /\ p[2] \in DOMAIN targets
    BY PairIsUnique
  <2>4. on # 0 /\ deviation \in Ways(exchange, targets[on])
    BY <2>2, <2>3 DEF GInv, Types, RunTypes
  <2>5. \A n \in {p[1], p[2]} :
          ForDiff(n) = Shown(Form(exchange, targets[n], IF n = on THEN deviation ELSE AsMeant),
                             TRUE, NoError)
    BY <2>3, <2>4 DEF GInv, Types, RunTypes, Undisturbed, ForDiff
  <2>6. CASE on = p[1]
    <3>1. Differ(ForDiff(p[1]), ForDiff(p[2]))
      BY <2>2, <2>3, <2>4, <2>5, <2>6 DEF TellsApart, GInv, Types, RunTypes
    <3> QED BY <2>1, <3>1
  <2>7. CASE on = p[2]
    <3>1. Differ(ForDiff(p[1]), ForDiff(p[2]))
      BY <2>2, <2>3, <2>4, <2>5, <2>7 DEF TellsApart, GInv, Types, RunTypes
    <3> QED BY <2>1, <3>1
  <2> QED BY <2>2, <2>6, <2>7
<1> QED BY <1>1, GateHolds, PTL

(* NO-GO has a cause in a target: with a comparison that hides what it is  *)
(* meant to, two undisturbed runs agree, and the probe finds no write that *)
(* was not made while it watched.                                          *)
THEOREM NoGoIsExplained == ASSUME HidesTheRest PROVE GateSpec => []NoGoHasCause
<1>1. GInv => NoGoHasCause
  <2> SUFFICES ASSUME GInv, exit = 1 PROVE NoGoHasCause
    BY DEF NoGoHasCause
  <2>1. PICK p \in Pairs : Differ(ForDiff(p[1]), ForDiff(p[2])) \/ ~ObservationsOk
    BY DEF GInv, VerdictGiven
  <2>2. CASE ~ObservationsOk
    <3>1. PICK n \in Successful : captures[n].step.seen /\ ~ObservationOk(captures[n].step)
      BY <2>2 DEF ObservationsOk
    <3>2. n \in DOMAIN captures /\ n \in 1..Len(captures) /\ captures[n] \in Capture
      BY DEF Successful, GInv, Types, StateTypes
    <3>3. captures[n].step.over \/ captures[n].step.writes = 1
      BY <3>1, <3>2, StepFields DEF ObservationOk, Capture
    <3>4. captures[n].wrote \/ captures[n].step.over
      BY <3>1, <3>2, <3>3 DEF GInv, WritesFound
    <3> QED BY <3>2, <3>4 DEF NoGoHasCause
  <2>3. CASE Differ(ForDiff(p[1]), ForDiff(p[2]))
    <3> DEFINE left == captures[p[1]].step
               right == captures[p[2]].step
    <3>1. CASE left.error # right.error \/ left.answered # right.answered
      BY <3>1 DEF NoGoHasCause
    <3>2. CASE left.error = right.error /\ left.answered = right.answered
      <4>1. /\ p[1] \in 1..Len(captures) /\ p[2] \in 1..Len(captures) /\ p[1] # p[2]
            /\ p[1] \in DOMAIN targets /\ p[2] \in DOMAIN targets
        BY PairIsUnique
      <4>2. left.answered \in BOOLEAN /\ left.error \in Errors
        <5>1. captures[p[1]] \in Capture
          BY <4>1 DEF GInv, Types, StateTypes
        <5> QED BY <5>1, StepFields DEF Capture
      <4>3. \A n \in {p[1], p[2]} :
              ForDiff(n) = Shown(Form(exchange, targets[n], IF n = on THEN deviation ELSE AsMeant),
                                 left.answered, left.error)
        BY <3>2, <4>1 DEF GInv, Types, RunTypes, ForDiff
      <4>4. CASE Deviates
        BY <4>4 DEF NoGoHasCause
      <4>5. CASE ~Deviates
        <5>1. on \in {p[1], p[2]} => deviation \in {w \in Ways(exchange, targets[on]) :
                                                        ~Compared(exchange, w)}
          BY <4>1, <4>5 DEF Deviates, GInv, Types, RunTypes
        <5>2. ~Differ(ForDiff(p[1]), ForDiff(p[2]))
          <6>1. CASE on = p[2]
            BY <4>1, <4>2, <4>3, <5>1, <6>1 DEF HidesTheRest, GInv, Types, RunTypes
          <6>2. CASE on # p[2]
            BY <4>1, <4>2, <4>3, <5>1, <6>2 DEF HidesTheRest, GInv, Types, RunTypes
          <6> QED BY <6>1, <6>2
        <5> QED BY <2>3, <5>2
      <4> QED BY <4>4, <4>5
    <3> QED BY <3>1, <3>2
  <2> QED BY <2>1, <2>2, <2>3
<1> QED BY <1>1, GateHolds, PTL
=============================================================================
