----------------------------- MODULE Scenarios -----------------------------
(***************************************************************************)
(* The scenarios of the conformance suite (conformance/scenarios), a line  *)
(* for each step.  Of a step the model keeps the actor, the captured       *)
(* variables it interpolates and sets, what closes its window and whether  *)
(* it retries or observes a read.  Bodies, headers and paths are left out. *)
(*                                                                         *)
(* The last fields of a step are external: what a target that does what    *)
(* the scenario expects pushes because of it.                              *)
(***************************************************************************)
EXTENDS Sequences, FiniteSets, TLC

Browsers == {"alice", "alice2", "bob", "carol", "user", "admin", "machine",
             "managed", "delegated", "expired"}
AllActors == Browsers \cup {"bot"}

(***************************************************************************)
(* The fields of a step (types.ts).  uses: the ${variables} interpolated;  *)
(* caps: variables captured by pointer, in order; refs: those captured     *)
(* from another frame of the step; ctx: variables retryUntil reads; wait,  *)
(* also: the predicates of the window; id: the command or delivery id it   *)
(* sends, told apart by the name of the step that uses it first.           *)
(* Expected of the target: reply, to the actor, "refused" for a connect;   *)
(* fan, the events published to the audience `to'; push, by actor.         *)
(***************************************************************************)
StepOf(kind, name, actor, uses) ==
  [kind |-> kind, name |-> name, actor |-> actor, uses |-> uses, id |-> name,
   caps |-> <<>>, refs |-> {}, ctx |-> {}, read |-> FALSE, retry |-> FALSE,
   wait |-> "none", also |-> <<>>, splice |-> <<>>,
   reply |-> "none", fan |-> <<>>, to |-> Browsers,
   push |-> [each \in AllActors |-> <<>>]]

Http(name, actor, uses) == StepOf("http", name, actor, uses)
Read(name, actor, uses) == [Http(name, actor, uses) EXCEPT !.read = TRUE]
Until(name, actor, ctx) ==
  [Http(name, actor, {}) EXCEPT !.retry = TRUE, !.ctx = ctx]

Connect(name, actor, uses) == StepOf("ws.connect", name, actor, uses)
Refused(name, actor, uses) ==
  [Connect(name, actor, uses) EXCEPT !.reply = "refused"]
Close(name, actor) == StepOf("ws.close", name, actor, {})
Wait(name, actor) == StepOf("wait", name, actor, {})

(* Fire and forget; waiting for a reply; and for an event besides the ack. *)
Send(name, actor, uses) == StepOf("ws.command", name, actor, uses)
Command(name, actor, uses, wait) ==
  [Send(name, actor, uses) EXCEPT !.wait = wait, !.reply = wait]
Commit(name, actor, uses, event) ==
  [Command(name, actor, uses, "ack") EXCEPT !.also = <<event>>, !.fan = <<event>>]

Capture(step, names) == [step EXCEPT !.caps = names]
Ref(step, name, from) == [step EXCEPT !.refs = {[name |-> name, from |-> from]}]
SameId(step, id) == [step EXCEPT !.id = id]

Fan(step, events) == [step EXCEPT !.fan = events]
Push(step, actor, frames) == [step EXCEPT !.push[actor] = frames]
Delivers(step, frame, name) == Push(Ref(step, name, frame), "bot", <<frame>>)
To(audience, steps) ==
  [n \in DOMAIN steps |-> [steps[n] EXCEPT !.to = audience]]

(* The audience of the main channel of message-write before carol joins.   *)
MembersBeforeCarol == {"alice", "alice2", "bob"}
-----------------------------------------------------------------------------
BootstrapSendFanout == <<
  Read("bootstrap:initial", "alice", {}),
  Capture(Http("channels:create", "alice", {}), <<"channelId">>),
  Until("sync:channel-projected", "alice", {"channelId"}),
  Connect("ws:connect", "alice", {}),
  Command("ws:live_start", "alice", {}, "ack"),
  Wait("sync:fanout-lease-grace", "alice"),
  Commit("ws:message_send", "alice", {"channelId"}, "message.created"),
  Read("bootstrap:after", "alice", {"channelId"}),
  Close("ws:close", "alice") >>

JwtAuthBoundaries == <<
  Http("valid-user-token-accepted", "user", {}),
  Http("admin-claim-accepted", "admin", {}),
  Http("client-id-rejected", "machine", {}),
  Http("managed-session-rejected", "managed", {}),
  Http("owner-mismatch-rejected", "delegated", {}),
  Http("no-token-unauthenticated", "user", {}),
  Http("malformed-token-rejected", "user", {}),
  Http("expired-token-rejected", "expired", {}) >>

DmPairs == <<
  Capture(Http("dms:open:alice-to-bob", "alice", {}), <<"dmAb">>),
  Http("dms:open:replay", "alice", {}),
  Http("dms:open:bob-to-alice", "bob", {}),
  Http("dms:open:missing-recipient", "alice", {}),
  Http("dms:open:self", "alice", {}),
  Http("dms:open:ghost", "alice", {}),
  Http("dms:open:conflict", "alice", {}),
  Capture(Http("dms:open:bob-to-carol", "bob", {}), <<"dmBc">>),
  Until("sync:dm-listed", "bob", {"dmAb", "dmBc"}),
  Read("channels:list:bob", "bob", {}),
  Read("channels:list:alice", "alice", {}) >>

DmGatesAndReads == <<
  Http("members:add:dm-gate", "alice", {"dmAb"}),
  Read("commands:dm-manifest", "alice", {"dmAb"}),
  Read("channels:detail:dm:bob-view", "bob", {"dmAb"}),
  Read("members:list:dm", "alice", {"dmAb"}),
  Read("events:dm", "alice", {"dmAb"}),
  Read("bootstrap:dm", "alice", {"dmAb"}) >>

DmOpen == DmPairs \o DmGatesAndReads

InviteUse == <<
  Capture(Http("channels:create", "alice", {}), <<"inviteChannel">>),
  Capture(Http("invites:create:default", "alice", {"inviteChannel"}), <<"inviteCode">>),
  Http("invites:create:refresh:max1", "alice", {"inviteChannel"}),
  Read("invites:preview:member", "alice", {"inviteCode"}),
  Read("invites:preview:stranger", "bob", {"inviteCode"}),
  Http("invites:accept:bob", "bob", {"inviteCode"}),
  Http("invites:accept:bob:replay", "bob", {"inviteCode"}),
  Http("invites:accept:bob:already-active", "bob", {"inviteCode"}),
  Read("invites:preview:post-accept", "bob", {"inviteCode"}),
  Http("members:remove:bob", "alice", {"inviteChannel"}),
  Http("invites:accept:bob:max-uses", "bob", {"inviteCode"}) >>

InviteExpiryAndReads == <<
  Http("invites:create:refresh:short-ttl", "alice", {"inviteChannel"}),
  Wait("wait:ttl", "alice"),
  Http("invites:accept:bob:expired", "bob", {"inviteCode"}),
  Read("invites:preview:expired", "alice", {"inviteCode"}),
  Read("invites:preview:wrong-code", "bob", {}),
  Http("invites:accept:wrong-code", "bob", {}),
  Read("members:list:post", "alice", {"inviteChannel"}),
  Read("members:show:bob:left", "alice", {"inviteChannel"}),
  Read("events:post", "alice", {"inviteChannel"}) >>

InviteLifecycle == InviteUse \o InviteExpiryAndReads

JoinFixtures == <<
  Capture(Http("channels:create:public", "alice", {}), <<"joinChannel">>),
  Capture(Http("channels:create:private", "alice", {}), <<"gatePrivate">>),
  Capture(Http("channels:create:unlisted", "alice", {}), <<"gateUnlisted">>),
  Until("sync:channels-projected", "alice", {"gatePrivate", "gateUnlisted", "joinChannel"}),
  Read("channels:list:post", "alice", {}),
  Read("directory:post", "alice", {}),
  Http("join:bob:public", "bob", {"joinChannel"}),
  Http("join:bob:public:replay", "bob", {"joinChannel"}),
  Http("join:bob:public:again", "bob", {"joinChannel"}) >>

JoinGates == <<
  Http("join:bob:private-gate", "bob", {"gatePrivate"}),
  Http("join:bob:unlisted-gate", "bob", {"gateUnlisted"}),
  Capture(Http("dms:open:for-gate", "alice", {}), <<"dmChannel">>),
  Http("join:bob:dm-gate", "bob", {"dmChannel"}),
  Http("channels:dissolve", "alice", {"joinChannel"}),
  Http("join:bob:dissolved", "bob", {"joinChannel"}),
  Http("join:bob:not-found", "bob", {}),
  Read("members:list:post", "alice", {"joinChannel"}),
  Read("members:show:bob", "alice", {"joinChannel"}),
  Read("events:post", "alice", {"joinChannel"}),
  Read("channels:detail:bob:post-dissolve", "bob", {"joinChannel"}) >>

PublicJoin == JoinFixtures \o JoinGates

ReadsBeforeMessage == <<
  Read("bootstrap:empty", "alice", {}),
  Read("channels:list:empty", "alice", {}),
  Read("channels:directory:empty", "alice", {}),
  Read("stickers:list:empty", "alice", {}),
  Capture(Http("channels:create", "alice", {}), <<"channelId">>),
  Until("sync:channel-projected", "alice", {"channelId"}),
  Read("channels:list:post", "alice", {}),
  Read("channels:detail", "alice", {"channelId"}),
  Read("channels:detail:non-member", "bob", {"channelId"}),
  Read("members:list", "alice", {"channelId"}),
  Read("members:show", "alice", {"channelId"}),
  Capture(Http("invites:create", "alice", {"channelId"}), <<"inviteCode">>),
  Read("invites:preview:member", "alice", {"inviteCode"}),
  Read("invites:preview:stranger", "bob", {"inviteCode"}) >>

ReadsAfterMessage == <<
  Read("messages:list:empty", "alice", {"channelId"}),
  Read("events:channel:empty", "alice", {"channelId"}),
  Connect("ws:connect", "alice", {}),
  Command("ws:live_start", "alice", {}, "ack"),
  Wait("sync:fanout-lease-grace", "alice"),
  Commit("ws:message_send", "alice", {"channelId"}, "message.created"),
  Capture(Read("messages:list:post", "alice", {"channelId"}), <<"messageId">>),
  Read("messages:context", "alice", {"channelId", "messageId"}),
  Read("events:channel:post", "alice", {"channelId"}),
  Read("bootstrap:post", "alice", {"channelId"}),
  Read("channels:list:stranger", "bob", {}),
  Close("ws:close", "alice") >>

ReadPaths == ReadsBeforeMessage \o ReadsAfterMessage

StickerFixture == <<
  Capture(Http("channels:create", "alice", {}), <<"channelId">>),
  Until("sync:channel-projected", "alice", {"channelId"}),
  Capture(Http("uploads:presign", "alice", {}), <<"uploadUrl", "attachmentId">>),
  Http("s3:put", "alice", {"uploadUrl"}),
  Http("uploads:finalize", "alice", {"attachmentId"}),
  Read("stickers:list:empty", "alice", {}) >>

StickerSaves == <<
  Capture(Http("stickers:save", "alice", {"attachmentId", "channelId"}), <<"stickerId">>),
  Http("stickers:save:replay", "alice", {"attachmentId", "channelId"}),
  Http("stickers:save:conflict", "alice", {"channelId"}),
  Read("stickers:list:alice", "alice", {}),
  Read("stickers:list:bob", "bob", {}),
  Http("stickers:delete:cross-user", "bob", {"stickerId"}),
  Http("stickers:delete", "alice", {"stickerId"}),
  Http("stickers:delete:replay", "alice", {"stickerId"}),
  Read("stickers:list:after-delete", "alice", {}),
  Capture(Http("stickers:save:revive", "alice", {"attachmentId", "channelId"}),
        <<"stickerIdRevived">>),
  Read("stickers:list:after-revive", "alice", {}) >>

Stickers == StickerFixture \o StickerSaves

UploadsByUser == <<
  Capture(Http("channels:create", "alice", {}), <<"channelId">>),
  Until("sync:channel-projected", "alice", {"channelId"}),
  Capture(Http("uploads:user:presign", "alice", {}), <<"uploadUrl", "attachmentId">>),
  Http("s3:put:user", "alice", {"uploadUrl"}),
  Capture(Http("uploads:user:finalize", "alice", {"attachmentId"}), <<"userAttachmentUrl">>),
  Http("uploads:user:presign:replay", "alice", {}),
  Http("uploads:user:presign:conflict", "alice", {}),
  Http("uploads:user:finalize:cross-user", "bob", {"attachmentId"}),
  Http("uploads:user:finalize:unknown", "alice", {}) >>

UploadsByBot == <<
  Capture(Http("bots:create", "alice", {}), <<"botId", "botToken">>),
  Capture(Http("bot:commands:sync", "alice", {"botToken"}), <<"botCommandId">>),
  Http("bot:commands:bind", "alice", {"botCommandId", "channelId"}),
  Capture(Http("bot:presign", "alice", {"botToken", "channelId"}),
        <<"botUploadUrl", "botAttachmentId">>),
  Http("s3:put:bot", "alice", {"botUploadUrl"}),
  Capture(Http("bot:finalize", "alice", {"botAttachmentId", "botToken", "channelId"}),
        <<"botAttachmentUrl">>),
  Http("bot:presign:replay", "alice", {"botToken", "channelId"}),
  Http("bot:presign:conflict", "alice", {"botToken", "channelId"}) >>

UploadsPresignFinalize == UploadsByUser \o UploadsByBot

ChannelCreates == <<
  Capture(Http("channels:create:private:with-admin", "alice", {}), <<"privChannel">>),
  Capture(Http("channels:create:public", "alice", {}), <<"pubChannel">>),
  Http("channels:create:replay", "alice", {}),
  Http("channels:create:conflict", "alice", {}),
  Until("sync:channels-projected", "alice", {"privChannel", "pubChannel"}),
  Read("channels:list:post-create", "alice", {}),
  Read("channels:detail:private:member", "alice", {"privChannel"}),
  Read("channels:detail:private:admin", "bob", {"privChannel"}),
  Read("channels:detail:public:stranger", "bob", {"pubChannel"}),
  Read("members:list:initial", "alice", {"privChannel"}),
  Read("members:show:bob:initial", "alice", {"privChannel"}) >>

ChannelUpdates == <<
  Until("sync:directory-projected", "alice", {"pubChannel"}),
  Read("directory:post-create", "alice", {}),
  Http("channels:update:title-topic", "alice", {"privChannel"}),
  Http("channels:update:visibility", "alice", {"privChannel"}),
  Http("channels:update:noop", "alice", {"privChannel"}),
  Http("channels:update:forbidden", "bob", {"pubChannel"}),
  Http("channels:update:invalid-visibility", "alice", {"pubChannel"}),
  Read("channels:detail:private:post-update", "alice", {"privChannel"}),
  Read("directory:post-update", "alice", {}),
  Read("events:private:post-update", "alice", {"privChannel"}) >>

ChannelDissolves == <<
  Http("channels:dissolve:forbidden", "bob", {"pubChannel"}),
  Http("channels:dissolve", "alice", {"pubChannel"}),
  Http("channels:dissolve:replay", "alice", {"pubChannel"}),
  Until("channels:list:post-dissolve", "alice", {"pubChannel"}),
  Read("channels:detail:post-dissolve", "alice", {"pubChannel"}),
  Read("members:list:post-dissolve", "alice", {"pubChannel"}),
  Read("events:public:post-dissolve", "alice", {"pubChannel"}),
  Http("channels:update:post-dissolve", "alice", {"pubChannel"}),
  Http("members:add:post-dissolve", "alice", {"pubChannel"}) >>

ChannelLifecycle == ChannelCreates \o ChannelUpdates \o ChannelDissolves

MemberAdds == <<
  Capture(Http("channels:create", "alice", {}), <<"channelId">>),
  Read("members:list:initial", "alice", {"channelId"}),
  Read("members:show:self", "alice", {"channelId"}),
  Read("members:show:never-joined", "alice", {"channelId"}),
  Read("members:list:non-member-viewer", "bob", {"channelId"}),
  Read("members:list:channel-not-found", "alice", {}),
  Http("members:add:bob", "alice", {"channelId"}),
  Http("members:add:bob:replay", "alice", {"channelId"}),
  Http("members:add:bob:noop", "alice", {"channelId"}),
  Http("members:add:bob:role-change-pin", "alice", {"channelId"}),
  Http("members:add:self", "alice", {"channelId"}),
  Http("members:add:by-member", "bob", {"channelId"}),
  Read("members:list:post-add", "alice", {"channelId"}),
  Read("members:show:bob:active", "bob", {"channelId"}) >>

MemberRoles == <<
  Http("members:role:bob:promote", "alice", {"channelId"}),
  Http("members:role:bob:demote", "alice", {"channelId"}),
  Http("members:role:missing-role", "alice", {"channelId"}),
  Http("members:role:owner-pin", "alice", {"channelId"}),
  Http("members:role:by-nonowner", "bob", {"channelId"}),
  Http("members:role:never-joined", "alice", {"channelId"}),
  Http("members:add:carol:admin", "alice", {"channelId"}),
  Read("members:list:post-second-add", "alice", {"channelId"}) >>

MemberRemoves == <<
  Http("members:remove:bob", "alice", {"channelId"}),
  Read("members:show:bob:left", "alice", {"channelId"}),
  Read("members:list:post-remove", "alice", {"channelId"}),
  Http("members:remove:bob:again", "alice", {"channelId"}),
  Http("members:remove:carol:by-admin", "carol", {"channelId"}),
  Read("members:list:post-cleanup", "alice", {"channelId"}) >>

MemberOwnership == <<
  Http("members:add:bob:reactivate", "alice", {"channelId"}),
  Read("members:show:bob:reactivated", "alice", {"channelId"}),
  Http("owner-transfer:by-member", "bob", {"channelId"}),
  Http("owner-transfer:non-member-target", "alice", {"channelId"}),
  Http("owner-transfer:bad-previous-role", "alice", {"channelId"}),
  Http("owner-transfer", "alice", {"channelId"}),
  Http("owner-transfer:replay", "alice", {"channelId"}),
  Read("members:list:post-transfer", "alice", {"channelId"}),
  Read("members:show:alice:demoted", "alice", {"channelId"}),
  Read("members:show:bob:owner", "bob", {"channelId"}),
  Read("events:full", "bob", {"channelId"}) >>

MemberLifecycle ==
  MemberAdds \o MemberRoles \o MemberRemoves \o MemberOwnership

WriteFixture == <<
  Capture(Http("channels:create:main", "alice", {}), <<"main">>),
  Capture(Http("channels:create:dissolve", "alice", {}), <<"dissolveCh">>),
  Until("sync:alice:list", "alice", {"main"}),
  Until("sync:bob:list", "bob", {"main"}),
  Capture(Http("uploads:presign", "alice", {}), <<"uploadUrl", "attachmentId">>),
  Http("s3:put", "alice", {"uploadUrl"}),
  Capture(Http("uploads:finalize", "alice", {"attachmentId"}), <<"attachmentUrl">>) >>

WriteSockets == <<
  Connect("ws:connect:alice", "alice", {}),
  Connect("ws:connect:bob", "bob", {}),
  Connect("ws:connect:carol", "carol", {}),
  Connect("ws:connect:alice2", "alice2", {}),
  Command("ws:live_start:alice", "alice", {}, "ack"),
  Command("ws:live_start:bob", "bob", {}, "ack"),
  Command("ws:live_start:carol", "carol", {}, "ack"),
  Command("ws:live_start:alice2", "alice2", {}, "ack"),
  Wait("sync:fanout-lease-grace", "alice") >>

WriteFirstGates == <<
  Command("ws:mark_read:missing-cursor", "alice", {"main"}, "err"),
  Command("ws:mark_read:missing-channel", "alice", {}, "err"),
  Command("ws:mark_read:non-member", "carol", {"main"}, "err"),
  Command("ws:send:non-member", "carol", {"main"}, "err") >>

WriteSends == <<
  Commit("ws:send:m1", "alice", {"main"}, "message.created"),
  Wait("sync:fanout:m1", "alice"),
  Capture(Read("messages:list:m1", "alice", {"main"}), <<"m1Id">>),
  Commit("ws:send:m2:reply:mention", "bob", {"m1Id", "main"}, "message.created"),
  Wait("sync:fanout:m2", "bob"),
  Capture(Read("messages:list:m2", "bob", {"main"}), <<"m2Id">>),
  Commit("ws:send:m3:reply", "alice", {"m2Id", "main"}, "message.created"),
  Wait("sync:fanout:m3", "alice"),
  Commit("ws:send:m4:pin-source", "alice", {"main"}, "message.created"),
  Wait("sync:fanout:m4", "alice"),
  Commit("ws:send:m5", "bob", {"main"}, "message.created"),
  Wait("sync:fanout:m5", "bob"),
  Commit("ws:send:m6:image", "alice", {"attachmentId", "main"}, "message.created"),
  Wait("sync:fanout:m6", "alice") >>

WriteReplays == <<
  SameId(Command("ws:send:replay:m1", "alice", {"main"}, "ack"), "ws:send:m1"),
  Wait("sync:replay", "alice"),
  SameId(Command("ws:send:conflict:m1", "alice", {"main"}, "err"), "ws:send:m1"),
  Command("ws:send:gate:text-with-attachments", "alice", {"attachmentId", "main"}, "err"),
  Wait("sync:gates", "alice"),
  Capture(Read("messages:list:all", "alice", {"main"}),
        <<"m6Id", "m5Id", "m4Id", "m3Id", "m2IdAll", "m1IdAll">>),
  Capture(Read("events:read:pre", "alice", {"main"}), <<"latestEventId">>),
  Read("messages:context:m3:pre", "alice", {"m3Id", "main"}),
  Read("channels:detail:pre", "alice", {"main"}),
  Fan(Http("members:add:carol", "alice", {"main"}), <<"member.joined">>) >>

WriteGates == <<
  Until("sync:carol:list", "carol", {"main"}),
  Command("ws:live_start:carol2", "carol", {}, "ack"),
  Wait("sync:carol-lease", "carol"),
  Command("ws:edit:gate:foreign", "bob", {"m3Id", "main"}, "err"),
  Command("ws:recall:gate:foreign", "bob", {"m3Id", "main"}, "err"),
  Command("ws:delete:gate:foreign-member", "carol", {"m4Id", "main"}, "err"),
  Command("ws:pin:gate:member-role", "carol", {"m4Id", "main"}, "err"),
  Wait("sync:mutation-gates", "alice") >>

WritePins == <<
  Commit("ws:delete:m3:admin-foreign", "bob", {"m3Id", "main"}, "message.deleted"),
  Wait("sync:fanout:delete-m3", "bob"),
  Command("ws:pin:gate:deleted-source", "alice", {"m3Id", "main"}, "err"),
  Wait("sync:pin-gate", "alice"),
  Commit("ws:pin:m4", "alice", {"m4Id", "main"}, "channel.pin.set"),
  Wait("sync:fanout:pin-set", "alice"),
  Capture(Read("channels:detail:pin-active", "alice", {"main"}), <<"pinId">>),
  Read("bootstrap:pin-active", "alice", {"main"}),
  Command("ws:pin:m4:no-op-repin", "alice", {"m4Id", "main"}, "ack"),
  Wait("sync:no-op-repin", "alice"),
  Fan(Commit("ws:edit:m4:pin-sync", "alice", {"m4Id", "main"}, "message.updated"),
        <<"message.updated", "channel.pin.updated">>),
  Wait("sync:fanout:pin-updated", "alice"),
  Read("channels:detail:pin-updated", "alice", {"main"}),
  Commit("ws:unpin:m4", "alice", {"main", "pinId"}, "channel.pin.cleared"),
  Wait("sync:fanout:pin-cleared", "alice") >>

WriteUnpins == <<
  Command("ws:unpin:m4:again", "alice", {"main", "pinId"}, "err"),
  Command("ws:unpin:no-locator", "alice", {"main"}, "err"),
  Read("channels:detail:pin-cleared", "alice", {"main"}),
  Commit("ws:edit:m1", "alice", {"m1Id", "main"}, "message.updated"),
  Wait("sync:fanout:edit-m1", "alice"),
  Commit("ws:recall:m1", "alice", {"m1Id", "main"}, "message.recalled"),
  Wait("sync:fanout:recall-m1", "alice"),
  Command("ws:edit:gate:recalled", "alice", {"m1Id", "main"}, "err"),
  Command("ws:recall:gate:foreign", "alice", {"m2Id", "main"}, "err"),
  Wait("sync:recall-gates", "alice") >>

WriteDeletes == <<
  Commit("ws:send:m7:carol", "carol", {"main"}, "message.created"),
  Wait("sync:fanout:m7", "carol"),
  Capture(Read("messages:list:m7-id", "carol", {"main"}), <<"m7Id">>),
  Commit("ws:delete:m7:self", "carol", {"m7Id", "main"}, "message.deleted"),
  Wait("sync:fanout:delete-m7", "carol"),
  Http("channels:dissolve", "alice", {"dissolveCh"}),
  Command("ws:send:gate:dissolved", "alice", {"dissolveCh"}, "err"),
  Wait("sync:dissolved-gate", "alice") >>

WriteReads == <<
  Capture(Read("events:read:latest", "alice", {"main"}), <<"latestEventId2">>),
  Push(Command("ws:mark_read:old-cursor", "alice", {"main"}, "ack"),
        "alice2", <<"read_state_updated">>),
  Wait("sync:mr1", "alice"),
  Push(Command("ws:mark_read:latest", "alice", {"latestEventId2", "main"}, "ack"),
        "alice2", <<"read_state_updated">>),
  Wait("sync:hint:read_state_updated", "alice"),
  Command("ws:mark_read:no-advance", "alice", {"main"}, "ack"),
  Command("ws:mark_read:carol", "carol", {"main"}, "ack"),
  Wait("sync:mark-read", "alice"),
  Read("messages:list:final", "alice", {"main"}),
  Read("messages:context:m2:final", "alice", {"m2Id", "main"}),
  Read("events:read:final", "alice", {"main"}),
  Read("bootstrap:final", "alice", {"main"}),
  Read("channels:detail:final", "alice", {"main"}),
  Close("ws:close:alice", "alice"),
  Close("ws:close:bob", "bob"),
  Close("ws:close:carol", "carol"),
  Close("ws:close:alice2", "alice2") >>

MessageWrite ==
  WriteFixture \o WriteSockets \o WriteFirstGates
    \o To(MembersBeforeCarol, WriteSends)
    \o To(MembersBeforeCarol, WriteReplays) \o WriteGates \o WritePins
    \o WriteUnpins \o WriteDeletes \o WriteReads

BotDevelopers == <<
  Capture(Http("channels:create", "alice", {}), <<"channelId">>),
  Capture(Http("bots:create", "alice", {}), <<"botId", "botToken">>),
  Http("bots:list", "alice", {}),
  Http("bots:show", "alice", {"botId"}),
  Http("bots:show:nonowner", "bob", {"botId"}),
  Http("bots:update", "alice", {"botId"}),
  Http("bots:update:nonowner", "bob", {"botId"}),
  Http("bots:update:official", "alice", {"botId"}),
  Http("bots:tokens:list", "alice", {"botId"}),
  Capture(Http("bots:token:create", "alice", {"botId"}), <<"revocableTokenId">>),
  Http("bots:token:revoke", "alice", {"botId", "revocableTokenId"}),
  Http("bots:tokens:list:after", "alice", {"botId"}) >>

BotAdmins == <<
  Http("admin:bots:list", "admin", {}),
  Http("admin:bots:list:q", "admin", {}),
  Http("admin:bots:show", "admin", {"botId"}),
  Http("admin:bots:show:unknown", "admin", {}),
  Http("admin:bots:patch", "admin", {"botId"}),
  Http("admin:bots:tokens", "admin", {"botId"}),
  Http("admin:bots:token:revoke", "admin", {"botId", "revocableTokenId"}),
  Http("admin:bots:nonadmin", "alice", {}),
  Capture(Http("bot:commands:sync", "alice", {"botToken"}), <<"askId", "ponderId">>),
  Http("bot:commands:sync:replay", "alice", {"botToken"}),
  Http("bot:commands:sync:conflict", "alice", {"botToken"}),
  Http("bot:commands:sync:badtoken", "alice", {}) >>

BotManifests == <<
  Read("manifest:initial", "alice", {"channelId"}),
  Http("bind:ask", "alice", {"askId", "channelId"}),
  Read("manifest:after-bind", "alice", {"channelId"}),
  Read("manifest:after-bind:member", "bob", {"channelId"}),
  Http("bind:ask:block", "alice", {"askId", "channelId"}),
  Read("manifest:after-block", "alice", {"channelId"}),
  Http("bind:ask:admin", "alice", {"askId", "channelId"}),
  Read("manifest:after-admin-override", "alice", {"channelId"}),
  Read("manifest:after-admin-override:member", "bob", {"channelId"}),
  Http("bind:ponder", "alice", {"channelId", "ponderId"}),
  Read("manifest:after-ponder-bind", "alice", {"channelId"}),
  Capture(Http("dms:open", "alice", {}), <<"dmChannelId">>),
  Read("manifest:dm", "alice", {"dmChannelId"}),
  Http("directory:query-ask", "alice", {}),
  Http("directory:query-empty", "alice", {}) >>

BotHttp == BotDevelopers \o BotAdmins \o BotManifests

GatewayFixture == <<
  Capture(Http("channels:create", "alice", {}), <<"channelId">>),
  Capture(Http("bots:create", "alice", {}), <<"botId", "botToken">>),
  Capture(Http("bot:commands:sync", "alice", {"botToken"}), <<"askId", "ponderId">>),
  Http("bind:ask", "alice", {"askId", "channelId"}),
  Http("bind:ponder", "alice", {"channelId", "ponderId"}),
  Read("manifest:read", "alice", {"channelId"}) >>

GatewayDelivery == <<
  Connect("alice:ws:connect", "alice", {}),
  Command("alice:live_start", "alice", {}, "ack"),
  Wait("sync:fanout-lease:alice", "alice"),
  Connect("bob:ws:connect", "bob", {}),
  Command("bob:live_start", "bob", {}, "ack"),
  Wait("sync:fanout-lease:bob", "bob"),
  Connect("bot:ws:connect", "bot", {"botToken"}),
  Command("bot:hello", "bot", {}, "ready"),
  Command("bot:ping", "bot", {}, "pong"),
  Delivers(Commit("ws:invoke:ask", "alice", {"askId", "channelId"}, "command.invoked"),
        "delivery:command_invocation", "deliveryId1"),
  Fan(Ref(Command("bot:delivery_result:ask", "bot", {"deliveryId1"}, "delivery_ack"),
        "botMessageId", "message.created"), <<"message.created">>),
  Read("messages:list:bot-reply", "alice", {"channelId"}) >>

GatewayPrechecks == <<
  Delivers(Commit("ws:interact:confirm", "bob", {"botMessageId", "channelId"},
        "interaction.created"), "delivery:message_interaction", "deliveryId2"),
  Fan(Command("bot:delivery_result:interaction", "bot", {"botMessageId", "deliveryId2"},
        "delivery_ack"), <<"message.updated", "interaction.completed">>),
  Wait("sync:fanout:interaction", "bot"),
  Read("events:read", "alice", {"channelId"}),
  Command("ws:invoke:stale", "alice", {"askId", "channelId"}, "err"),
  Fan(Http("bind:ask:block", "alice", {"askId", "channelId"}), <<"command.binding_updated">>),
  Command("ws:invoke:blocked", "alice", {"askId", "channelId"}, "err"),
  Fan(Http("bind:ask:allow", "alice", {"askId", "channelId"}), <<"command.binding_updated">>) >>

(* The caller is pushed the events of its failed invocation by its own     *)
(* session, before the error; the others are sent them as any broadcast.   *)
Busy(step) ==
  [step EXCEPT !.wait = "err", !.fan = <<"message.created", "command.failed">>,
               !.to = Browsers \ {step.actor},
               !.push[step.actor] = <<"message.created", "command.failed", "err">>]

GatewaySession == <<
  Delivers(Commit("ws:invoke:ponder", "alice", {"channelId", "ponderId"},
        "command.invoked"), "session.start", "sessionId"),
  Fan(Send("bot:session:start_ack", "bot", {"sessionId"}),
        <<"stateful_session.started", "channel.pin.set">>),
  Wait("sync:session-started", "bot"),
  Push(Commit("ws:msg:input", "alice", {"channelId"}, "message.created"),
        "bot", <<"session.input">>),
  Send("bot:session:input_ack", "bot", {"sessionId"}),
  Busy(Send("ws:invoke:busy", "alice", {"channelId", "ponderId"})),
  Capture(Read("channels:detail:session-active", "alice", {"channelId"}),
        <<"pinId", "pinStopComponentId">>) >>

GatewayStop == <<
  Push(Commit("ws:stop:session", "alice", {"channelId", "pinId", "pinStopComponentId"},
        "channel.pin.updated"), "bot", <<"session.stop_requested">>),
  Fan(Command("bot:session:close", "bot", {"sessionId"}, "session.closed"),
        <<"stateful_session.closed", "channel.pin.cleared">>),
  Wait("sync:session-closed", "bot"),
  Read("channels:detail:session-closed", "alice", {"channelId"}),
  Read("events:read:after", "alice", {"channelId"}),
  Close("bot:ws:close", "bot"),
  Wait("sync:bot-disconnect", "alice"),
  Command("ws:invoke:offline", "alice", {"askId", "channelId"}, "err"),
  Read("bootstrap:final", "alice", {"channelId"}) >>

BotGatewayWs ==
  GatewayFixture \o GatewayDelivery \o GatewayPrechecks \o GatewaySession
    \o GatewayStop

StreamFixture == <<
  Capture(Http("channels:create", "alice", {}), <<"channelId">>),
  Capture(Http("bots:create", "alice", {}), <<"botId", "botToken">>),
  Capture(Http("bots:token:gateway-only", "alice", {"botId"}), <<"gatewayOnlyToken">>),
  Capture(Http("bot:commands:sync", "alice", {"botToken"}), <<"draftId">>),
  Http("bind:draft", "alice", {"channelId", "draftId"}),
  Read("manifest:read", "alice", {"channelId"}) >>

StreamGateway == <<
  Connect("alice:ws:connect", "alice", {}),
  Command("alice:live_start", "alice", {}, "ack"),
  Wait("sync:fanout-lease:alice", "alice"),
  Connect("bot:ws:connect", "bot", {"botToken"}),
  Command("bot:hello", "bot", {}, "ready"),
  Delivers(Commit("ws:invoke:draft", "alice", {"channelId", "draftId"}, "command.invoked"),
        "delivery:command_invocation", "deliveryId"),
  Fan(Capture(Command("bot:delivery_result:start_stream", "bot", {"deliveryId"},
        "delivery_ack"), <<"streamMessageId">>), <<"message.stream_started">>),
  Close("bot:ws:close", "bot") >>

StreamSocket == <<
  Refused("stream:connect:badtoken", "bot", {"channelId"}),
  Refused("stream:connect:noscope", "bot", {"channelId", "gatewayOnlyToken"}),
  Refused("stream:connect:unknown", "bot", {"botToken", "channelId"}),
  Connect("stream:ws:connect", "bot", {"botToken", "channelId", "streamMessageId"}),
  Command("stream:hello", "bot", {}, "ready"),
  Command("stream:append:seq1", "bot", {}, "append_ack"),
  Command("stream:append:gap", "bot", {}, "stream_error"),
  Command("stream:append:seq2", "bot", {}, "append_ack"),
  Command("stream:ping", "bot", {}, "pong"),
  Command("stream:finalize", "bot", {}, "finalized_ack"),
  Wait("sync:fanout:stream-final", "bot"),
  Close("stream:ws:close", "bot"),
  Read("messages:list:stream", "alice", {"channelId"}),
  Read("events:read", "alice", {"channelId"}),
  Read("bootstrap:final", "alice", {"channelId"}),
  Refused("stream:connect:finalized", "bot", {"botToken", "channelId", "streamMessageId"}) >>

BotStreamWs == StreamFixture \o StreamGateway \o StreamSocket
-----------------------------------------------------------------------------
(* The registry of the command line. *)
Suite ==
     "bootstrap-send-fanout" :> BootstrapSendFanout
  @@ "jwt-auth-boundaries" :> JwtAuthBoundaries
  @@ "dm-open" :> DmOpen
  @@ "invite-lifecycle" :> InviteLifecycle
  @@ "public-join" :> PublicJoin
  @@ "read-paths" :> ReadPaths
  @@ "stickers" :> Stickers
  @@ "uploads-presign-finalize" :> UploadsPresignFinalize
  @@ "channel-lifecycle" :> ChannelLifecycle
  @@ "member-lifecycle" :> MemberLifecycle
  @@ "message-write" :> MessageWrite
  @@ "bot-http" :> BotHttp
  @@ "bot-gateway-ws" :> BotGatewayWs
  @@ "bot-stream-ws" :> BotStreamWs
=============================================================================
