----------------------------- MODULE Normalize -----------------------------
(***************************************************************************)
(* What the differential gate compares (conformance/src/normalize.ts and   *)
(* diff.ts): every capture has its volatile values replaced and the known  *)
(* differences of the two implementations removed, and the results are     *)
(* compared value by value.                                                *)
(*                                                                         *)
(* JSON values are tagged tuples.  A string is what the patterns of the    *)
(* normalizer tell apart: its kind, the part that is the same on every     *)
(* target and the part the server makes up.                                *)
(***************************************************************************)
EXTENDS Integers, SequencesExt

CONSTANTS
  Known,      \* knownClientIds: the ids written in the scenario
  Alphabet    \* the strings that are sort keys, in the order of `<'

Null == <<"null">>
Num(n) == <<"num", n>>
Str(kind, same, own) == <<"str", kind, same, own>>
Text(text) == Str("text", text, <<>>)
Arr(list) == <<"arr", list>>
Obj(fields) == <<"obj", fields>>      \* keys are fixed names
Keyed(pairs) == <<"map", pairs>>      \* keys are ids, in encounter order
Encoded(v) == <<"json", v>>           \* a string holding the JSON text of v

IsStr(v) == v[1] = "str"
IsArr(v) == v[1] = "arr"
IsObj(v) == v[1] = "obj"
Has(v, key) == IsObj(v) /\ key \in DOMAIN v[2]
Field(v, key) == v[2][key]
Is(v, key, text) == Has(v, key) /\ Field(v, key) = Text(text)
With(v, key, new) == Obj((key :> new) @@ v[2])
Without(v, keys) == Obj([k \in DOMAIN v[2] \ keys |-> v[2][k]])
Update(v, key, F(_)) == IF Has(v, key) THEN With(v, key, F(Field(v, key))) ELSE v

(* [k \in S |-> F(k)] and F(v), with what they are made from evaluated once. *)
Table(S, F(_)) == [k \in S |-> F(k)] @@ <<>>
Apply(F(_), v) == CHOOSE w \in {F(x) : x \in {v}} : TRUE

Placeholder(name) == Str("placeholder", name, <<>>)
Mask == <<"*">>
Masked(s) == Str(s[2], s[3], Mask)

-----------------------------------------------------------------------------
(***************************************************************************)
(* Strings.  Ids written in the scenario survive, ids and times made up by *)
(* a target do not.  A presigned URL keeps its host and signed query, a    *)
(* public object URL nothing; any other URL under /chat counts as one.     *)
(* The replacement of an invite path refers to a group the pattern does    *)
(* not have: /accept is lost and both paths become the same.               *)
(***************************************************************************)
NormalizeString(s, context) ==
  LET kind == s[2] own == s[4] IN
  CASE kind = "bearer" /\ context = "header" -> Placeholder("{{JWT}}")
    [] kind \in {"request id", "time"} -> Masked(s)
    [] kind \in {"uuid", "embedded uuid"} -> IF own \in Known THEN s ELSE Masked(s)
    [] kind = "invite path" /\ context = "body" -> Placeholder("invites/{{INVITE_CODE}}$2")
    [] kind = "presigned url" /\ context = "body" -> Masked(s)
    [] kind \in {"object url", "invite url"} /\ context = "body" ->
         Placeholder("{{S3_OBJECT_URL}}")
    [] OTHER -> s

(* Keys of a map: an id made up by the target is replaced, and numbered in *)
(* the order it is met.                                                    *)
NormalizeKeys(pairs) ==
  LET Key(n) == NormalizeString(pairs[n][1], "body")
      Nth(n) == Cardinality({m \in 1..n : Key(m) = Key(n)})
  IN [n \in DOMAIN pairs |-> <<Str(Key(n)[2], <<Key(n)[3], Nth(n)>>, Key(n)[4]), pairs[n][2]>>]

(* The value pass; some keys have rules of their own. *)
RECURSIVE NormalizeDeep(_, _)
NormalizeDeep(v, context) ==
  LET Snapshot(w) == IF w[1] = "json" THEN NormalizeDeep(w[2], context)
                     ELSE NormalizeDeep(w, context)
      Under(key, w) ==
        CASE key \in {"last_event_id", "last_read_event_id"} /\ w[1] \in {"null", "str"} ->
               Placeholder("{{EVENT_ID}}")
          [] key \in {"invite_code", "plaintext"} /\ IsStr(w) -> Placeholder(key)
          [] key = "invite_url" /\ IsStr(w) -> IF w[2] = "invite url" THEN Masked(w) ELSE w
          [] key = "ws_url" /\ IsStr(w) ->
               IF w[2] = "ws url" THEN Masked(w) ELSE NormalizeString(w, context)
          [] key = "command_snapshot_json" /\ IsObj(w) ->
               Obj([k \in DOMAIN w[2] |-> Snapshot(w[2][k])])
          [] key = "pinned_by" /\ IsObj(w) ->
               Obj([k \in DOMAIN w[2] |-> IF k = "display_name"
                                          THEN Placeholder("{{PINNED_BY_NAME}}")
                                          ELSE NormalizeDeep(w[2][k], context)])
          [] OTHER -> NormalizeDeep(w, context)
      Entry(n) == NormalizeDeep(v[2][n], context)
      Value(k) == Under(k, v[2][k])
  IN CASE IsStr(v) -> NormalizeString(v, context)
       [] IsArr(v) -> Arr(Table(DOMAIN v[2], Entry))
       [] IsObj(v) -> Obj(Table(DOMAIN v[2], Value))
       [] v[1] = "map" ->
            Keyed(NormalizeKeys([n \in DOMAIN v[2] |->
                                   <<v[2][n][1], NormalizeDeep(v[2][n][2], context)>>]))
       [] OTHER -> v

-----------------------------------------------------------------------------
(* The known differences, each a rewriting of one object or array.         *)

(* F applied to every object and array of v, inner ones first. *)
BottomUp(F(_), v) ==
  LET RECURSIVE Up(_)
      Up(u) == LET Inner(k) == Up(u[2][k]) IN
               CASE IsArr(u) -> Apply(F, Arr(Table(DOMAIN u[2], Inner)))
                 [] IsObj(u) -> Apply(F, Obj(Table(DOMAIN u[2], Inner)))
                 [] u[1] = "map" -> Keyed([n \in DOMAIN u[2] |-> <<u[2][n][1], Up(u[2][n][2])>>])
                 [] OTHER -> u
  IN Apply(Up, v)

WithMessage(v, text) ==
  With(v, "error", With(Field(v, "error"), "message", Text(text)))

HasCode(v, code) == Has(v, "error") /\ Is(Field(v, "error"), "code", code)

IdempotencyConflict(v) ==
  IF HasCode(v, "IDEMPOTENCY_CONFLICT")
  THEN WithMessage(v, "idempotency key reused with different request body") ELSE v

(* The drops are made on every event, not on message events alone. *)
EventFrame(v) ==
  LET Trim(payload) ==
        IF ~IsObj(payload) THEN payload
        ELSE Without(payload, {"channel_id", "event_id"}
                              \cup IF Is(v, "type", "command.invoked")
                                   THEN {"command_name", "invoked_name", "actor"} ELSE {})
  IN CASE IsArr(v) -> Arr(SelectSeq(v[2], LAMBDA f : ~(/\ Is(f, "frame_type", "event")
                                                      /\ Is(f, "type", "system.notice"))))
       [] Is(v, "frame_type", "event") -> Update(v, "payload", Trim)
       [] OTHER -> v

(* The worker's joined_at becomes the membership of the contract. *)
ChannelCreateBody(v) ==
  IF ~Has(v, "joined_at") THEN v
  ELSE LET rest == Without(v, {"joined_at"}) IN
       IF Has(v, "membership") /\ Field(v, "membership") # Null THEN rest
       ELSE With(rest, "membership", Obj([role |-> Text("owner"),
                                          joined_at |-> Field(v, "joined_at")]))

TrimSummary(v) ==
  IF \A key \in {"channel_id", "kind", "title"} : Has(v, key)
  THEN Without(v, {"topic", "created_at", "updated_at",
                   "last_message_preview", "last_message_at"})
  ELSE v

(* Mutant: the active channel is trimmed like a summary. *)
TrimLikeSummary(v) == IF IsObj(v) THEN TrimSummary(v) ELSE v

TrimActive(v) ==
  IF IsObj(v) THEN Without(v, {"unread_count", "last_read_event_id", "last_message_preview",
                               "last_message_at", "last_event_id"})
  ELSE v

TrimDetail(v) ==
  LET Trim(channel) == IF IsObj(channel)
                       THEN Without(channel, {"last_message_preview", "last_message_at"})
                       ELSE channel
  IN Update(v, "channel", Trim)

(* Stable sort of a list by a tuple of keys. *)
Rank(s) == SelectInSeq(Alphabet, LAMBDA letter : letter = s)

Before(k, l) ==
  \E n \in DOMAIN k : /\ Rank(k[n]) < Rank(l[n])
                      /\ \A m \in 1..(n - 1) : Rank(k[m]) = Rank(l[m])

SortedBy(Key(_), list) ==
  LET Insert(sorted, item) ==
        LET n == Cardinality({m \in DOMAIN sorted : ~Before(Key(item), Key(sorted[m]))})
        IN InsertAt(sorted, n + 1, item)
  IN FoldLeft(Insert, <<>>, list)

StringAt(v, key) == IF Has(v, key) /\ IsStr(Field(v, key)) THEN Field(v, key) ELSE Text("")

SummaryKey(v) ==
  <<StringAt(v, "kind"), StringAt(v, "title"),
    IF Has(v, "dm_peer") THEN StringAt(Field(v, "dm_peer"), "user_id") ELSE Text("")>>

DirectoryKey(v) == <<StringAt(v, "bot_command_id"), StringAt(v, "name")>>

Summaries(v) ==
  IF IsArr(v)
  THEN Arr(SortedBy(SummaryKey, [n \in DOMAIN v[2] |-> TrimSummary(v[2][n])])) ELSE v

ListedSummaries(v, route) ==
  LET NoCursors(state) == IF IsObj(state) THEN With(state, "per_channel", Obj(<<>>)) ELSE state
      items == Update(v, "items", Summaries)
  IN IF route # "bootstrap" THEN items
     ELSE Update(Update(Update(items, "channels", Summaries), "active_channel", TrimActive),
                 "event_state", NoCursors)

(* Mutant: the directory is left in the order of the target. *)
DirectoryAsSent(v) == v

CommandDirectory(v) ==
  LET Sort(items) == IF IsArr(items) THEN Arr(SortedBy(DirectoryKey, items[2])) ELSE items
  IN Update(v, "items", Sort)

ForbiddenDetail(v) ==
  IF HasCode(v, "FORBIDDEN") THEN WithMessage(v, "not a channel member") ELSE v

(* Error wordings of the member and join routes.  memberRead is the route  *)
(* alone: the method is not looked at.                                     *)
MemberErrors(v, method, route) ==
  LET memberRead == route \in {"members", "member"} IN
  CASE /\ HasCode(v, "MEMBER_NOT_FOUND")
       /\ method = "GET" /\ route = "member" ->
         WithMessage(v, "user is not a member of this channel")
    [] /\ HasCode(v, "MEMBER_NOT_FOUND")
       /\ \/ method \in {"PATCH", "DELETE"} /\ route = "member"
          \/ method = "POST" /\ route = "owner-transfer" ->
         WithMessage(v, "target not an active member")
    [] HasCode(v, "CHANNEL_NOT_FOUND") /\ memberRead ->
         WithMessage(v, "channel not created")
    [] HasCode(v, "CHANNEL_NOT_FOUND") /\ method = "POST" /\ route = "join" ->
         WithMessage(v, "channel not found")
    [] HasCode(v, "FORBIDDEN") /\ memberRead ->
         WithMessage(v, "not a channel member")
    [] OTHER -> v

(* Frames of the bot gateway are brought to the shape of the contract. *)
HideHash(v) ==
  IF Has(v, "definition_hash")
  THEN With(v, "definition_hash", Placeholder("{{DEF_HASH}}")) ELSE v

NestedCommand(v) ==
  IF Has(v, "command") \/ ~Has(v, "bot_command") THEN v
  ELSE With(v, "command",
            IF Has(v, "options")
            THEN With(Field(v, "bot_command"), "options", Field(v, "options"))
            ELSE Field(v, "bot_command"))

BotFrame(v) ==
  LET NoMessage(payload) == IF IsObj(payload) THEN Without(payload, {"invocation_message"})
                            ELSE payload
  IN CASE Is(v, "type", "delivery") /\ Is(v, "kind", "command_invocation") ->
            Without(Update(NestedCommand(v), "command", HideHash),
                    {"bot_command", "delivery_type", "options", "reply_to"})
       [] Is(v, "frame_type", "command_ack") /\ Is(v, "command", "command.invoke") ->
            Update(v, "payload", NoMessage)
       [] Is(v, "type", "session.start") -> Update(v, "bot_command", HideHash)
       [] OTHER -> v

(* Headers: framing is dropped, Vary compared as a sorted list. *)
ResponseHeaders(headers) ==
  LET Vary(list) == Arr(SortedBy(LAMBDA h : <<h>>,
                                 SelectSeq(list[2], LAMBDA h : h # Text("accept-encoding"))))
      kept == Without(NormalizeDeep(headers, "header"),
                      {"cache-control", "content-length", "date", "transfer-encoding"})
  IN Update(kept, "vary", Vary)

-----------------------------------------------------------------------------
(* normalizeCapture: the passes, in order, over one step of a capture.     *)
NormalizeBody(request, body) ==
  LET method == request.method
      route == request.route
      events == BottomUp(EventFrame, BottomUp(IdempotencyConflict, NormalizeDeep(body, "body")))
      created == IF method = "POST" /\ route = "channels" THEN ChannelCreateBody(events)
                 ELSE events
      read == CASE method = "GET" /\ route \in {"channels", "bootstrap"} ->
                     ListedSummaries(created, route)
                [] method = "GET" /\ route = "directory" -> CommandDirectory(created)
                [] method = "GET" /\ route = "channel" -> TrimDetail(ForbiddenDetail(created))
                [] OTHER -> created
  IN MemberErrors(read, method, route)

NormalizeFrames(frames) ==
  BottomUp(BotFrame, BottomUp(EventFrame,
    BottomUp(IdempotencyConflict, NormalizeDeep(frames, "body"))))

NormalizeMeta(meta) == Without(meta, {"close"})

NormalizeStep(request, step) ==
  LET Body(body) == NormalizeBody(request, body)
      Path(path) == NormalizeString(path, "body")
  IN Update(Update(Update(Update(Update(step,
       "meta", NormalizeMeta), "path", Path), "headers", ResponseHeaders),
       "body", Body), "received", NormalizeFrames)

(***************************************************************************)
(* diffValues: the places where two values differ.  A place is a sequence  *)
(* of keys <<key, 0>> and indices <<"", n>>.                               *)
(***************************************************************************)
RECURSIVE DiffValues(_, _, _)
DiffValues(l, r, path) ==
  LET Key(k) == Append(path, <<k, 0>>)
      Index(n) == Append(path, <<"", n>>)
  IN CASE IsObj(l) /\ IsObj(r) ->
            UNION {IF k \in DOMAIN l[2] /\ k \in DOMAIN r[2]
                   THEN DiffValues(l[2][k], r[2][k], Key(k)) ELSE {Key(k)} :
                   k \in DOMAIN l[2] \cup DOMAIN r[2]}
       [] IsArr(l) /\ IsArr(r) ->
            UNION {IF n <= Len(l[2]) /\ n <= Len(r[2])
                   THEN DiffValues(l[2][n], r[2][n], Index(n)) ELSE {Index(n)} :
                   n \in DOMAIN l[2] \cup DOMAIN r[2]}
       [] OTHER -> IF l = r THEN {} ELSE {path}

(* captureForDiff: of a step its answer, if there is one, and its error.   *)
CaptureForDiff(value, answered, error) ==
  LET given == IF answered THEN value ELSE Obj(<<>>)
  IN IF error = "none" THEN given ELSE With(given, "error", Text(error))

HasDiffs(l, r) == DiffValues(l, r, <<>>) # {}
=============================================================================
