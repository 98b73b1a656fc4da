------------------------------ MODULE MCIngress ------------------------------
(***************************************************************************)
(* Instances of Ingress for TLC: eight environments one change apart, and  *)
(* the webhooks of a DM sender, a stranger, two groups and a status chat.  *)
(***************************************************************************)
EXTENDS Ingress

Given(value) == [direct |-> value, file |-> ""]
InFile(value) == [direct |-> "", file |-> value]

\* u1 and g1 are named, u1 with a plus, and u2 with spaces in it.
Base ==
  [scalars |-> {"", "ok"}, gowa_basic_auth |-> Given(""), gowa_device_id |-> "device",
   gowa_webhook_secret |-> InFile("s1"), webhook_token |-> InFile("w"), gateway_token |-> Given("g"),
   agent_url |-> "agent",
   dm_policy |-> "", group_policy |-> "allowlist",
   dm_allow |-> {[form |-> "plus", user |-> "u1"], [form |-> "spaced", user |-> "u2"]},
   group_allow |-> {}, require_mention |-> "", free_response_chats |-> {"g2"},
   channels |-> << [label |-> "ops", url |-> "ops_agent", token |-> InFile("o")] >>,
   group_channels |-> << [jid |-> "g1", label |-> "ops"] >>,
   self_number |-> <<"+", "1", "1">>, debug_sink |-> "", readyz_probe_agent |-> "",
   transcribe |-> "on", whisper_model |-> "file", transcribe_max_secs |-> 2, transcribe_max_bytes |-> 2]

Hr == [label |-> "hr", url |-> "hr_agent", token |-> Given("")]

MCEnvs ==
  {Base,
   [Base EXCEPT !.channels = <<>>, !.group_channels = <<>>, !.group_policy = "open",
                !.self_number = <<"1", "1", "@", "s", "0">>],
   [Base EXCEPT !.channels = @ \o <<Hr>>, !.group_channels = << [jid |-> "g1", label |-> "hr"] >>,
                !.require_mention = "off", !.group_allow = {"g2"}],
   [Base EXCEPT !.group_channels = << [jid |-> "g1", label |-> "hr"] >>],
   [Base EXCEPT !.group_policy = "", !.dm_policy = "open", !.debug_sink = "on"],
   [Base EXCEPT !.gowa_webhook_secret = InFile("s2"), !.dm_policy = "off", !.transcribe = "no"],
   [Base EXCEPT !.channels = << [label |-> "default", url |-> "other", token |-> Given("")] >>],
   [Base EXCEPT !.gateway_token = InFile(Unreadable)]}

NoPayload ==
  [chat_id |-> "", from |-> "", body |-> <<>>, id |-> "", is_from_me |-> FALSE, replied_to_id |-> "",
   quoted_body |-> <<>>, image |-> <<>>, audio |-> <<>>, document |-> <<>>, reaction |-> "",
   reacted_message_id |-> "", call_id |-> "", auto_rejected |-> FALSE, group_jid |-> ""]

File(slash, bytes, secs) ==
  << [slash |-> slash, root |-> MEDIA_PREFIX, plain |-> TRUE, bytes |-> bytes, secs |-> secs] >>
Media(path, caption) == << [path |-> path, caption |-> caption] >>

Event(event, payload) == [event |-> event, payload |-> payload]
Said(id, chat, from, body) ==
  [NoPayload EXCEPT !.id = id, !.chat_id = chat, !.from = from, !.body = body]

MCEnvelopes ==
  {Event("message", Said("1", "u1", "", <<"x">>)),
   Event("message", [Said("2", "u2", "u2", <<"x">>) EXCEPT !.image = Media(File(FALSE, 5, 0), <<>>)]),
   Event("message", [Said("3", "g1", "u2", <<"@", "1", "1", "2">>) EXCEPT !.quoted_body = <<"x">>]),
   Event("message", Said("4", "g1", "u2", <<"@", "1", "1", "0", "@", "1", "1", " ">>)),
   Event("message", [Said("5", "g1", "u1", <<"x">>) EXCEPT !.replied_to_id = "b1", !.quoted_body = <<"x">>]),
   Event("message", Said("6", "g2", "u2", <<" ">>)),
   Event("message", [Said("7", "u1", "u1", <<"x">>) EXCEPT !.is_from_me = TRUE]),
   Event("message", Said("8", "status", "u1", <<"x">>)),
   Event("message", [Said("9", "u1", "u1", <<" ">>) EXCEPT !.audio = Media(File(TRUE, 2, 9), <<>>),
                       !.image = Media(File(FALSE, 3, 0), <<"x">>), !.document = Media(<<>>, <<"x">>)]),
   Event("message.reaction", [Said("a", "g1", "u1", <<>>) EXCEPT !.reaction = "ok", !.reacted_message_id = "b1"]),
   Event("call.offer", [NoPayload EXCEPT !.from = "u2", !.call_id = "c"]),
   Event("call.offer", [NoPayload EXCEPT !.from = "u2", !.group_jid = "g1", !.call_id = "d", !.auto_rejected = TRUE]),
   Event("message.ack", Said("e", "u1", "u1", <<>>))}
=============================================================================
