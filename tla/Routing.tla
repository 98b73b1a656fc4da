------------------------------- MODULE Routing --------------------------------
(***************************************************************************)
(* Who is let in (src/policy.rs), where a message goes (src/channel.rs),   *)
(* and what its agent is sent (src/agent.rs, src/media.rs).                *)
(***************************************************************************)
EXTENDS Inbound

\* mutant: anybody may write to the bot
AnyDm(policy, m) == policy.dm_policy # "off"

evaluate_dm(policy, m) ==
  \/ policy.dm_policy = "open"
  \/ policy.dm_policy = "allowlist" /\ m.sender \in policy.dm_allow

\* The group must be in scope before a free-response chat can skip the mention.
evaluate_group(policy, m) ==
  /\ \/ policy.group_policy = "open"
     \/ policy.group_policy = "allowlist" /\ m.chat_id \in policy.group_allow
  /\ \/ m.chat_id \in policy.free_response_chats
     \/ ~policy.require_mention
     \/ m.mentioned

evaluate(policy, m) == IF is_group(m) THEN evaluate_group(policy, m) ELSE evaluate_dm(policy, m)
-----------------------------------------------------------------------------
channel_for(config, m) ==
  IF is_group(m) /\ m.chat_id \in DOMAIN config.group_channels
  THEN config.group_channels[m.chat_id]
  ELSE DEFAULT_CHANNEL

\* mutant: the label is looked up by the group the message came from, not by the one stamped on it
ByPresentMap(config, m) == config.channels[channel_for(config, m)]

\* A label the configuration no longer has goes to the default channel.
client_for(config, m) ==
  IF m.channel \in DOMAIN config.channels THEN config.channels[m.channel]
                                          ELSE config.channels[DEFAULT_CHANNEL]
-----------------------------------------------------------------------------
\* A media token is its path under the key it was signed with; it opens nothing outside the store
\* and no path with ".." or "%" in it.
MEDIA_PREFIX == "statics/media/"
sign(key, path) == [key |-> key, path |-> path]
verify(key, token) ==
  /\ token.key = key
  /\ ~token.path.slash /\ token.path.root = MEDIA_PREFIX /\ token.path.plain

MAX_MEDIA_BYTES == 4

\* GOWA's static file server gives a status and so many bytes, or no answer at all (0).
fetch_static(answer) ==
  CASE answer.status = 0 -> 502
    [] answer.status # 0 /\ answer.bytes > MAX_MEDIA_BYTES -> 400
    [] OTHER -> answer.status

\* The status of GET /media/{token}.
media(config, bearer, token, answer) ==
  CASE bearer # config.gateway_token -> 401
    [] bearer = config.gateway_token /\ ~verify(config.gowa_webhook_secret, token) -> 403
    [] OTHER -> fetch_static(answer)

build_forward_media(config, m) ==
  [i \in DOMAIN m.media |->
     [kind |-> m.media[i].kind, token |-> sign(config.gowa_webhook_secret, m.media[i].gowa_path)]]

\* The contract an agent is sent.
InboundForward(config, m) ==
  [chat_id |-> m.chat_id, body |-> agent_body(m), id |-> m.id, channel |-> m.channel,
   type |-> IF m.kind = "message" THEN "" ELSE m.kind,
   media |-> build_forward_media(config, m),
   reaction |-> IF m.kind = "reaction" THEN m.reaction ELSE "",
   reacted_message_id |-> IF m.kind = "reaction" THEN m.reacted_message_id ELSE "",
   auto_rejected |-> m.kind = "call" /\ m.auto_rejected]
=============================================================================
