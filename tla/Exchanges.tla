----------------------------- MODULE Exchanges -----------------------------
(***************************************************************************)
(* External: what the two implementations answer to some requests of the   *)
(* suite, meaning the same.  The old worker and the Elixir server differ   *)
(* in the ways the header of conformance/src/normalize.ts lists, and every *)
(* target makes up its own ids, times and addresses.                       *)
(*                                                                         *)
(* A target is a record of its kind and its name.                          *)
(***************************************************************************)
EXTENDS Normalize

Client(x) == Str("uuid", "", <<"client", x>>)
Id(t, x) == Str("uuid", "", <<t.name, x>>)
At(t, x) == Str("time", "", <<t.name, x>>)
Own(t, kind, same) == Str(kind, same, <<t.name, kind>>)

Differently(t, worker, elixir) == IF t.kind = "worker" THEN worker ELSE elixir

(* Fields only one of the implementations sends. *)
OnlyWorker(t, fields) == IF t.kind = "worker" THEN fields ELSE <<>>
OnlyElixir(t, fields) == IF t.kind = "elixir" THEN fields ELSE <<>>

Request(x) ==
  CASE x = "create" -> [method |-> "POST", route |-> "channels"]
    [] x = "list" -> [method |-> "GET", route |-> "channels"]
    [] x = "bootstrap" -> [method |-> "GET", route |-> "bootstrap"]
    [] x \in {"detail", "detail-forbidden"} -> [method |-> "GET", route |-> "channel"]
    [] x = "directory" -> [method |-> "GET", route |-> "directory"]
    [] x = "show-missing" -> [method |-> "GET", route |-> "member"]
    [] x \in {"role-missing", "role-forbidden"} -> [method |-> "PATCH", route |-> "member"]
    [] x = "transfer-missing" -> [method |-> "POST", route |-> "owner-transfer"]
    [] x \in {"members-gone", "members-forbidden"} -> [method |-> "GET", route |-> "members"]
    [] x = "join-gone" -> [method |-> "POST", route |-> "join"]
    [] x \in {"preview", "events"} -> [method |-> "GET", route |-> "other"]
    [] OTHER -> [method |-> "POST", route |-> "other"]

Error(code, message) ==
  Obj([error |-> Obj([code |-> Text(code), message |-> Text(message)])])

Detail(t, name) ==
  [channel_id |-> Id(t, name), kind |-> Text("channel"), title |-> Text(name),
   topic |-> Null, created_at |-> At(t, name)]

Summary(t, name) ==
  [last_event_id |-> Differently(t, Null, Id(t, "event")),
   last_message_preview |-> Differently(t, Null, Text("Alice: hello")),
   unread_count |-> Num(0), dm_peer |-> Null] @@ Detail(t, name)

Listed(t) ==
  LET first == Obj(Summary(t, "general")) second == Obj(Summary(t, "random"))
  IN Arr(Differently(t, <<first, second>>, <<second, first>>))

Pin(t) ==
  Obj([pinned_by |-> Obj([user_id |-> Client("alice"),
                          display_name |-> Text(Differently(t, "user-a", "Alice"))])])

Event(type, payload) ==
  Obj([frame_type |-> Text("event"), type |-> Text(type), payload |-> Obj(payload)])

Created(t) ==
  Event("message.created",
    [message |-> Obj([command_id |-> Client("send"), message_id |-> Id(t, "message")])]
    @@ OnlyElixir(t, [channel_id |-> Id(t, "general"), event_id |-> Id(t, "event")]))

Deleted == Event("message.deleted", [status |-> Text("deleted")])

Invoked(t) ==
  Event("command.invoked",
    [invocation |-> Obj([id |-> Id(t, "invocation")])]
    @@ OnlyElixir(t, [command_name |-> Text("ask")]))

Notice == Obj([frame_type |-> Text("event"), type |-> Text("system.notice")])

Bound(t) ==
  LET snapshot == Obj([name |-> Text("ask"), id |-> Id(t, "command")])
  IN Event("command.binding_updated",
       [channel_id |-> Id(t, "general"),
        command_snapshot_json |->
          Obj([after |-> Differently(t, Encoded(snapshot), snapshot), before |-> Null])])

BotCommand(t) ==
  [name |-> Text("ask"),
   definition_hash |-> Differently(t, Text("snapshot"), Text("sha256"))]

Delivery(t) ==
  LET options == Obj([topic |-> Text("tea")]) IN
  Obj([type |-> Text("delivery"), kind |-> Text("command_invocation")]
      @@ OnlyWorker(t, [bot_command |-> Obj(BotCommand(t)), options |-> options,
                        delivery_type |-> Text("command")])
      @@ OnlyElixir(t, [command |-> Obj([options |-> options] @@ BotCommand(t))]))

InvokeAck(t) ==
  Obj([frame_type |-> Text("command_ack"), command |-> Text("command.invoke"),
       payload |-> Obj([event_id |-> Id(t, "event")]
                       @@ OnlyWorker(t, [invocation_message |-> Null]))])

SessionStart(t) ==
  Obj([type |-> Text("session.start"), bot_command |-> Obj(BotCommand(t))])

StreamResult(t) ==
  Obj([type |-> Text("delivery_ack"),
       stream |-> Obj([ws_url |-> Own(t, "ws url", "/streams/ws")])])

Body(x, t) ==
  CASE x = "create" ->
         Obj([channel |-> Obj(Detail(t, "general"))]
             @@ OnlyWorker(t, [joined_at |-> At(t, "join")])
             @@ OnlyElixir(t, [membership |-> Obj([role |-> Text("owner"),
                                                   joined_at |-> At(t, "join")])]))
    [] x = "list" -> Obj([items |-> Listed(t), next_cursor |-> Null])
    [] x = "bootstrap" ->
         Obj([channels |-> Listed(t),
              active_channel |-> Obj(Detail(t, "general")
                                     @@ OnlyWorker(t, [unread_count |-> Num(0)])),
              event_state |-> Obj([per_channel |->
                Differently(t, Obj(<<>>), Keyed(<< <<Id(t, "general"), Id(t, "event")>>,
                                                   <<Id(t, "random"), Null>> >>))])])
    [] x = "detail" ->
         Obj([channel |-> Obj([last_message_preview |->
                                 Text(Differently(t, "hello", "Alice: hello"))]
                              @@ Detail(t, "general")),
              pins |-> Arr(<<Pin(t)>>)])
    [] x = "events" ->
         Obj([events |-> Arr(<<Created(t), Invoked(t), Bound(t)>>
                             \o Differently(t, <<>>, <<Notice>>))])
    [] x = "directory" ->
         LET entry(name) == Obj([bot_command_id |-> Id(t, name), name |-> Text(name)])
         IN Obj([items |-> Arr(Differently(t, <<entry("ask"), entry("ponder")>>,
                                              <<entry("ponder"), entry("ask")>>))])
    [] x = "presign" ->
         Obj([upload_url |-> Own(t, "presigned url", "s3?expires=300"),
              url |-> Str("object url", t.name, <<t.name, "object">>)])
    [] x = "invite" ->
         Obj([invite_code |-> Own(t, "text", "code"),
              invite_url |-> Own(t, "invite url", "https://chat/invites/")])
    [] x = "token" -> Obj([plaintext |-> Own(t, "text", "token"), name |-> Text("ci")])
    [] x = "preview" -> Obj([channel_id |-> Id(t, "general"), title |-> Text("general")])
    [] x = "detail-forbidden" ->
         Error("FORBIDDEN", Differently(t, "not a member", "not a channel member"))
    [] x = "conflict" ->
         Error("IDEMPOTENCY_CONFLICT",
               Differently(t, "command_id reused", "idempotency key reused"))
    [] x = "show-missing" ->
         Error("MEMBER_NOT_FOUND", Differently(t, "user is not a member", "Member not found"))
    [] x \in {"role-missing", "transfer-missing"} ->
         Error("MEMBER_NOT_FOUND", Differently(t, "target not active", "Member not found"))
    [] x = "members-gone" ->
         Error("CHANNEL_NOT_FOUND", Differently(t, "channel not created", "Channel not found"))
    [] x = "join-gone" ->
         Error("CHANNEL_NOT_FOUND", Differently(t, "channel not found", "Channel not found"))
    [] x = "members-forbidden" ->
         Error("FORBIDDEN", Differently(t, "not a member", "Forbidden"))
    [] x = "role-forbidden" -> Error("FORBIDDEN", "only the owner changes roles")
    [] x = "send-forbidden" -> Error("FORBIDDEN", "muted")
    [] OTHER -> Null

Received(x, t) ==
  CASE x = "invoke" -> <<InvokeAck(t), Invoked(t), Delivery(t), SessionStart(t), StreamResult(t)>>
    [] x = "delete" -> <<Created(t), Deleted>> \o Differently(t, <<>>, <<Notice>>)
    [] OTHER -> <<>>

(* One step of a capture, what the runner recorded. *)
Recorded(x, t) ==
  Obj([status |-> Num(200),
       path |-> IF x = "preview" THEN Own(t, "invite path", "") ELSE Own(t, "embedded uuid", x),
       headers |-> Obj([date |-> At(t, "date"), x_request_id |-> Own(t, "request id", ""),
                        vary |-> Arr(Differently(t, <<Text("origin")>>,
                                       <<Text("accept-encoding"), Text("origin")>>))]),
       meta |-> Obj([close |-> Num(Differently(t, 1000, 1002)), protocol |-> Text("v2")]),
       body |-> Body(x, t),
       received |-> Arr(Received(x, t))])

-----------------------------------------------------------------------------
(***************************************************************************)
(* What the gate does not compare, by the header of normalize.ts: the      *)
(* pairs of a container (at any depth above) and a key that are dropped,   *)
(* and those whose value is replaced but whose presence is compared.  The  *)
(* ids in the payload of an event are dropped from message.* events alone. *)
(***************************************************************************)
SummaryExtras == {"topic", "created_at", "updated_at", "last_message_preview", "last_message_at"}

Dropped(x) ==
  ({"headers"} \X {"cache-control", "content-length", "date", "transfer-encoding"})
    \cup {<<"meta", "close">>}
    \cup (IF x = "list" THEN {"items"} \X SummaryExtras ELSE {})
    \cup (IF x = "bootstrap"
          THEN ({"channels"} \X SummaryExtras)
               \cup {<<"active_channel", "unread_count">>, <<"event_state", "per_channel">>}
          ELSE {})
    \cup (IF x = "detail"
          THEN {"channel"} \X {"last_message_preview", "last_message_at"} ELSE {})
    \cup (IF x \in {"events", "invoke"}
          THEN {"payload"} \X {"command_name", "invocation_message"} ELSE {})
    \cup (IF x = "invoke" THEN {"received"} \X {"delivery_type", "reply_to"} ELSE {})
    \cup (IF x \in {"conflict", "detail-forbidden", "show-missing", "role-missing",
                    "transfer-missing", "members-gone", "join-gone", "members-forbidden"}
          THEN {<<"error", "message">>} ELSE {})

Replaced ==
  {<<"body", "last_event_id">>, <<"body", "last_read_event_id">>, <<"body", "invite_code">>,
   <<"body", "plaintext">>, <<"pinned_by", "display_name">>,
   <<"bot_command", "definition_hash">>, <<"command", "definition_hash">>}

(* Lists whose order is not compared. *)
Unordered(x) ==
  CASE x = "list" -> {"items"} [] x = "bootstrap" -> {"channels"}
    [] x = "directory" -> {"items"} [] OTHER -> {}

-----------------------------------------------------------------------------
(* A place in a value: the keys <<key, 0>> and indices <<"", n>> to it.    *)
Children(v) ==
  CASE IsObj(v) -> {<<k, 0>> : k \in DOMAIN v[2]}
    [] IsArr(v) -> {<<"", n>> : n \in DOMAIN v[2]}
    [] OTHER -> {}

Child(v, step) == IF IsObj(v) THEN v[2][step[1]] ELSE v[2][step[2]]

(* The places of v, and the values there. *)
RECURSIVE Places(_)
Places(v) ==
  {<<<<>>, v>>} \cup
    UNION {{<<<<step>> \o at[1], at[2]>> : at \in Apply(Places, Child(v, step))} :
           step \in Children(v)}

Leaves(places) == {at[1] : at \in {p \in places : Children(p[2]) = {}}}
ListsIn(places) == {at[1] : at \in {p \in places : IsArr(p[2]) /\ Len(p[2][2]) > 1}}

(* The ways a target may differ from what it means: another value, a field *)
(* that is missing, two entries of a list the other way round.             *)
DeviationsAmong(places) ==
  [op : {"changed"}, place : Leaves(places)]
    \cup [op : {"removed"}, place : {p \in Leaves(places) : Last(p)[2] = 0}]
    \cup [op : {"swapped"}, place : ListsIn(places)]

Deviations(v) == Apply(DeviationsAmong, Apply(Places, v))

RECURSIVE Deviate(_, _, _)
Deviate(v, op, place) ==
  LET step == Head(place)
      Deeper(w) == Deviate(w, op, Tail(place))
  IN
  CASE place = <<>> /\ op = "changed" -> Text("changed")
    [] place = <<>> /\ op = "swapped" ->
         Arr([v[2] EXCEPT ![1] = v[2][2], ![2] = v[2][1]])
    [] Len(place) = 1 /\ op = "removed" -> Without(v, {step[1]})
    [] IsObj(v) -> With(v, step[1], Apply(Deeper, Child(v, step)))
    [] OTHER -> Arr([v[2] EXCEPT ![step[2]] = Apply(Deeper, @)])

Among(place, pairs) ==
  \E pair \in pairs :
    pair[2] = Last(place)[1] /\ \E n \in DOMAIN place : place[n][1] = pair[1]

(* The place is an id in the payload of an event, or of a message.* event. *)
PayloadId(x, place) ==
  x \in {"events", "delete"} /\ Among(place, {"payload"} \X {"channel_id", "event_id"})

MessageEvents(x) == IF x = "events" THEN {1} ELSE {1, 2}

OfMessage(x, place) == \E n \in MessageEvents(x) : <<"", n>> \in Range(place)

(* Whether the header says that the deviation is reported. *)
Reported(x, deviation) ==
  LET place == deviation.place IN
  CASE deviation.op = "swapped" -> Last(place)[1] \notin Unordered(x) \cup {"vary"}
    [] PayloadId(x, place) -> ~OfMessage(x, place)
    [] deviation.op = "changed" -> ~Among(place, Dropped(x) \cup Replaced)
    [] OTHER -> ~Among(place, Dropped(x))

(* What the code hides beyond the header: the ids of every other event,    *)
(* and the wording of FORBIDDEN on a member route that is not a read.      *)
HiddenToo(x, deviation) ==
  LET place == deviation.place IN
  \/ PayloadId(x, place) /\ ~OfMessage(x, place)
  \/ x = "role-forbidden" /\ Among(place, {<<"error", "message">>})

-----------------------------------------------------------------------------
(* The ways the answer of a target may deviate, and its form, normalized,  *)
(* when it deviates in one of them or in none.                             *)
Reads(x) == Request(x).method = "GET"

DeviationsOf(x, target) == Deviations(Recorded(x, target))

NormalForm(x, target, deviation) ==
  LET Given(value) == IF deviation.op = "none" THEN value
                      ELSE Deviate(value, deviation.op, deviation.place)
      Normal(value) == NormalizeStep(Request(x), value)
  IN Apply(Normal, Apply(Given, Recorded(x, target)))
=============================================================================
