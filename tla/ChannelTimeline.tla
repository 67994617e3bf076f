-------------------------- MODULE ChannelTimeline --------------------------
(***************************************************************************)
(* The timeline of one channel as its readers see it: the writer of        *)
(* ChannelWriter, command-binding updates, which run in the HTTP request's *)
(* own process and write to the same log, and a client that recovers gaps  *)
(* by paging GET /channels/{id}/events from its cursor.                    *)
(***************************************************************************)
EXTENDS ChannelWriter

CONSTANTS
  Requests,      \* the binding updates of a run
  Limit          \* events per recovery page (100 in the code)

ASSUME TimelineAssumption == Limit \in Nat

VARIABLES
  update,        \* each binding update: its transaction's progress
  manifest,      \* chat_v2.channels.command_manifest_version
  cursor,        \* the client's last event id for the channel
  seen           \* ghost: positions of the log the client has been given

readerVars == <<cursor, seen>>
updateVars == <<update, manifest>>
tvars == <<vars, updateVars, readerVars>>

Update == [phase : {"idle", "read", "written", "done"}, version : Nat, id : SeqState]

TInit ==
  /\ Init
  /\ update = [r \in Requests |-> [phase |-> "idle", version |-> 0, id |-> EmptySeq]]
  /\ manifest = 1
  /\ cursor = None /\ seen = {}

-----------------------------------------------------------------------------
(* do_update_binding: read the channel row (no lock), update it with the   *)
(* absolute next version (a row lock until commit), insert the event under *)
(* a fresh Ids.uuidv7/0, whose counter bits are random.                    *)

RowLocked == \E r \in Requests : update[r].phase = "written"

ReadChannel(r) ==
  /\ update[r].phase = "idle" /\ status = "active"
  /\ update' = [update EXCEPT ![r].phase = "read", ![r].version = manifest]
  /\ UNCHANGED <<vars, manifest, readerVars>>

RandomId == {[last_ms |-> now, counter |-> c] : c \in 0..MaxCounter}

WriteBinding(r) ==
  /\ update[r].phase = "read" /\ ~RowLocked
  /\ \E id \in RandomId :
       update' = [update EXCEPT ![r].phase = "written", ![r].id = id]
  /\ UNCHANGED <<vars, manifest, readerVars>>

CommitBinding(r) ==
  /\ update[r].phase = "written"
  /\ update' = [update EXCEPT ![r].phase = "done"]
  /\ manifest' = update[r].version + 1
  /\ log' = Append(log, OwnEvent(update[r].id, "command.binding_updated"))
  /\ UNCHANGED <<now, procVars, status, session, idem, published, readerVars>>

-----------------------------------------------------------------------------
(* Timeline.channel_events: the events after the cursor, ascending, at     *)
(* most Limit of them; the client's cursor becomes the page's last id.     *)

Later == {i \in 1..Len(log) : cursor = None \/ Before(cursor, log[i].id)}

\* Mutant: the page is cut from the newest end.
PageNewest == {i \in Later : Cardinality({j \in Later : Before(log[i].id, log[j].id)}) < Limit}

Page == {i \in Later : Cardinality({j \in Later : Before(log[j].id, log[i].id)}) < Limit}

FetchPage ==
  /\ Page # {}
  /\ seen' = seen \cup Page
  /\ \E last \in Page :
       /\ \A i \in Page : AtOrBefore(log[i].id, log[last].id)
       /\ cursor' = log[last].id
  /\ UNCHANGED <<vars, updateVars>>

-----------------------------------------------------------------------------
\* The writer's dissolve updates the channel row too and waits for the lock.
WriterNext ==
  /\ Next
  /\ RowLocked => status' = status
  /\ UNCHANGED <<updateVars, readerVars>>

TNext ==
  \/ WriterNext
  \/ \E r \in Requests : ReadChannel(r) \/ WriteBinding(r) \/ CommitBinding(r)
  \/ FetchPage

TSpec == TInit /\ [][TNext]_tvars

-----------------------------------------------------------------------------
(* Contract 6.1b and 10.6: paging from the cursor repairs every gap.  An   *)
(* event below the client's cursor has been given to the client, or it     *)
(* never will be.                                                          *)
GapRecoveryComplete ==
  cursor # None =>
    \A i \in 1..Len(log) : Before(log[i].id, cursor) => i \in seen

(* What the code keeps of it: the writer, its restarts and the clock open  *)
(* no gap.  An event the client will never get is a binding update's, or   *)
(* one that the id of a binding update the client was given has overtaken. *)
OnlyBindingsOpenGaps ==
  cursor # None =>
    \A i \in 1..Len(log) :
      \/ ~Before(log[i].id, cursor) \/ i \in seen
      \/ log[i].kind = "command.binding_updated"
      \/ \E j \in seen : /\ log[j].kind = "command.binding_updated"
                        /\ AtOrBefore(log[i].id, log[j].id)
=============================================================================
