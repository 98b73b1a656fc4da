-------------------------------- MODULE Config --------------------------------
(***************************************************************************)
(* What the shim makes of its environment at boot (src/config.rs,          *)
(* src/main.rs): an environment it refuses, or a configuration.  Values    *)
(* are trimmed and blank ones are unset, so a raw value is "", Garbled or  *)
(* one of the values the variable may have.                                *)
(***************************************************************************)
EXTENDS Naturals, Sequences, FiniteSets, SequencesExt

CONSTANTS
  Users,            \* JIDs of people (...@s.whatsapp.net)
  Groups,           \* JIDs of groups (...@g.us)
  NonChats,         \* status@broadcast and newsletters
  Nobody,           \* a string that is nobody's JID
  GoodLabels,       \* the labels that match [a-z0-9_]+
  Feature           \* the binary was built with --features transcribe

ASSUME ConfigAssumption ==
  /\ Groups \cap (Users \cup NonChats \cup {Nobody, ""}) = {}
  /\ "" \notin Users \cup NonChats \cup {Nobody}
  /\ "default" \in GoodLabels

IsList(list) == list \in Seq(ToSet(list))

\* A finite set of numbers, the smallest first.
Rank(S, i) == Cardinality({j \in S : j <= i})
Ascending(S) == [n \in 1 .. Cardinality(S) |-> CHOOSE i \in S : Rank(S, i) = n]

Garbled == "garbled"
Unreadable == "unreadable"
DEFAULT_CHANNEL == "default"
Digits == {"0", "1", "2"}
DmPolicies == {"open", "allowlist", "off"}
GroupPolicies == {"off", "allowlist", "open"}

\* What an Option's filter and unwrap_or leave of a raw value.
Or(raw, default) == IF raw = "" THEN default ELSE raw

\* A secret is given directly or in a file; a file that cannot be read is no different from none.
Secret(s) == Or(s.direct, IF s.file = Unreadable THEN "" ELSE s.file)

\* An entry of WA_DM_ALLOW: a JID, or a number bare or with a plus.  Spaces inside it stay, and
\* another suffix (@lid) is kept before the new one: such an entry names nobody.
normalise_dm_jid(entry) ==
  IF entry.form \in {"jid", "bare", "plus"} THEN entry.user ELSE Nobody

\* WA_SELF_NUMBER, a sequence of characters: the digits before the "@".  The device of a JID that has
\* one (number:device@server) is no different from the number's own digits.
DigitsAt(raw) == {i \in DOMAIN raw : raw[i] \in Digits /\ \A j \in 1 .. i : raw[j] # "@"}
normalise_self_number(raw) ==
  LET at == Ascending(DigitsAt(raw))
  IN  [n \in DOMAIN at |-> raw[at[n]]]

\* A set boolean variable is true only when it is one of the four truthy words.
env_bool_default(raw, default) == IF raw = "" THEN default ELSE raw = "on"
env_bool(raw) == env_bool_default(raw, FALSE)
-----------------------------------------------------------------------------
\* Every variable that is parsed as an address, a URL or a number may be unset, but not garbled.
ScalarsParse(env) == Garbled \notin env.scalars

\* GOWA_BASIC_AUTH may be absent; when given it must be user:pass with a user.
BasicAuthParses(env) == Secret(env.gowa_basic_auth) # Garbled

SecretsPresent(env) ==
  /\ env.gowa_device_id # ""
  /\ Secret(env.gowa_webhook_secret) \notin {"", "secret"}
  /\ Secret(env.webhook_token) # ""
  /\ Secret(env.gateway_token) # ""

PoliciesParse(env) ==
  /\ env.dm_policy \in DmPolicies \cup {""}
  /\ env.group_policy \in GroupPolicies \cup {""}

validate_channel_label(label) == label # DEFAULT_CHANNEL /\ label \in GoodLabels

\* WA_CHANNELS and the URL each label must come with.
ChannelsValid(env) ==
  /\ \A i \in DOMAIN env.channels :
       validate_channel_label(env.channels[i].label) /\ env.channels[i].url \notin {"", Garbled}
  /\ \A i, j \in DOMAIN env.channels :
       env.channels[i].label = env.channels[j].label => i = j

label_set(env) == {DEFAULT_CHANNEL} \cup {env.channels[i].label : i \in DOMAIN env.channels}

\* WA_GROUP_CHANNELS: each entry a group's JID and a label, no group twice.
parse_group_channels(env) ==
  LET map == env.group_channels
  IN  /\ \A i \in DOMAIN map : map[i].jid \in Groups /\ map[i].label # ""
      /\ \A i, j \in DOMAIN map : map[i].jid = map[j].jid => i = j

\* mutant: the mapped labels are not held against the configured channels
LabelsUnchecked(env) == TRUE

validate_group_channel_labels(env) ==
  \A i \in DOMAIN env.group_channels : env.group_channels[i].label \in label_set(env)

\* A box that asks for transcripts must be able to make them.
TranscribeValid(env) ==
  env_bool(env.transcribe) => Feature /\ env.whisper_model = "file"

Valid(env) ==
  /\ ScalarsParse(env)
  /\ BasicAuthParses(env)
  /\ SecretsPresent(env)
  /\ PoliciesParse(env)
  /\ ChannelsValid(env)
  /\ parse_group_channels(env)
  /\ validate_group_channel_labels(env)
  /\ TranscribeValid(env)
-----------------------------------------------------------------------------
\* PolicyConfig::from_env, and the groups the channel map adds to WA_GROUP_ALLOW.
group_allow(env) == env.group_allow \cup {env.group_channels[i].jid : i \in DOMAIN env.group_channels}

Policy(env) ==
  [dm_policy |-> Or(env.dm_policy, "allowlist"),
   dm_allow |-> {normalise_dm_jid(entry) : entry \in env.dm_allow},
   group_policy |-> Or(env.group_policy, "off"),
   group_allow |-> group_allow(env),
   require_mention |-> env_bool_default(env.require_mention, TRUE),
   free_response_chats |-> env.free_response_chats]

\* A channel without a token of its own presents the shim's single one.
ChannelConfig(env, label) ==
  IF label = DEFAULT_CHANNEL
  THEN [inbound_url |-> env.agent_url, bearer |-> Secret(env.webhook_token)]
  ELSE LET channel == env.channels[CHOOSE i \in DOMAIN env.channels : env.channels[i].label = label]
       IN  [inbound_url |-> channel.url, bearer |-> Or(Secret(channel.token), Secret(env.webhook_token))]

GroupLabel(env, jid) ==
  env.group_channels[CHOOSE i \in DOMAIN env.group_channels : env.group_channels[i].jid = jid].label

\* Config::from_env on an environment that is Valid.
from_env(env) ==
  [policy |-> Policy(env),
   channels |-> [label \in label_set(env) |-> ChannelConfig(env, label)],
   group_channels |->
     [jid \in {env.group_channels[i].jid : i \in DOMAIN env.group_channels} |-> GroupLabel(env, jid)],
   gowa_webhook_secret |-> Secret(env.gowa_webhook_secret),
   gateway_token |-> Secret(env.gateway_token),
   self_number |-> normalise_self_number(env.self_number),
   agent_debug_sink |-> env_bool(env.debug_sink),
   readyz_probe_agent |-> env_bool(env.readyz_probe_agent),
   transcribe |-> env_bool(env.transcribe),
   transcribe_max_secs |-> env.transcribe_max_secs,
   transcribe_max_bytes |-> env.transcribe_max_bytes]
=============================================================================
