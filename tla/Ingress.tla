------------------------------- MODULE Ingress --------------------------------
(***************************************************************************)
(* The way of a message from GOWA's webhook to an agent, over restarts and *)
(* changed environments: classification, mention, policy and routing in    *)
(* the handler (src/server.rs), the file in the queue, the worker's        *)
(* transcription and forward (src/forward.rs).                             *)
(*                                                                         *)
(* What ForwardQueue models step by step (the files, the tasks, the race   *)
(* of two handlers, the retries) is one action here; what it leaves out,   *)
(* the content of a message and the configuration, is what counts here.    *)
(* A webhook with a bad signature or body changes nothing.                 *)
(***************************************************************************)
EXTENDS Routing

CONSTANTS
  Envs,             \* the environments the operator may write
  Envelopes,        \* the events GOWA may deliver
  BotIds,           \* ids of messages the agent may send
  MaxEdits,         \* bound: changes of the environment
  MaxAccepts,       \* bound: times a message is let in
  MaxMessages       \* bound: messages let in

\* JIDs are those of people, groups and the rest; the string that is nobody's is none of them.  Texts
\* are sequences of characters, and an id is not the blank one.
ASSUME IngressAssumption ==
  /\ \A e \in Envelopes : {e.payload.chat_id, e.payload.from, e.payload.group_jid}
                              \subseteq Users \cup Groups \cup NonChats \cup {""}
  /\ Nobody \notin Users \cup Groups \cup NonChats \cup {""}
  /\ \A e \in Envelopes :
       /\ IsList(e.payload.body)
       /\ \A field \in {e.payload.image, e.payload.audio, e.payload.document} :
            field # <<>> => IsList(Head(field).caption)
  /\ \A v \in Envs : IsList(v.self_number)
  /\ "" \notin BotIds
  /\ MaxEdits \in Nat /\ MaxAccepts \in Nat /\ MaxMessages \in Nat

VARIABLES
  env,              \* the environment file the next start will read
  up,               \* the shim runs
  booted,           \* the environment it was started with
  sent,             \* AppState.sent_ids (in memory)
  seen,             \* AppState.dedup (in memory)
  pending,          \* the queue's files
  work,             \* messages a worker task holds (in memory)
  delivered,        \* what agents have been sent
  edits, accepted   \* bounded: changes so far, ids let in so far

vars == <<env, up, booted, sent, seen, pending, work, delivered, edits, accepted>>
-----------------------------------------------------------------------------
\* A queue entry is the message (msg) and, for the properties only, the event it was made of, the
\* environment it was let in under and the bot's ids known then.
Config == from_env(booted)

TypeOK ==
  /\ env \in Envs
  /\ up \in BOOLEAN
  /\ booted \in Envs
  /\ sent \subseteq BotIds
  /\ \A p \in pending \cup work \cup {d.entry : d \in delivered} :
       p.event \in Envelopes /\ p.vetted \in Envs /\ p.known \subseteq BotIds
  /\ \A d \in delivered : d.under \in Envs
  /\ edits \in 0 .. MaxEdits
  /\ accepted \in Seq({into_inbound(e).id : e \in {e \in Envelopes : Conversational(e)}})
  /\ Len(accepted) <= MaxAccepts

Init ==
  /\ env \in Envs
  /\ up = FALSE
  /\ booted = env
  /\ sent = {} /\ seen = {} /\ pending = {} /\ work = {} /\ delivered = {}
  /\ edits = 0 /\ accepted = <<>>

\* The operator writes another environment; the running shim does not see it.
Edit(e) ==
  /\ edits < MaxEdits
  /\ e # env
  /\ env' = e
  /\ edits' = edits + 1
  /\ UNCHANGED <<up, booted, sent, seen, pending, work, delivered, accepted>>

\* main: from_env, AppState::new.  An environment that is not Valid ends the start.
Start ==
  /\ ~up /\ Valid(env)
  /\ up' = TRUE /\ booted' = env
  /\ UNCHANGED <<env, sent, seen, pending, work, delivered, edits, accepted>>

\* The process ends, in whatever way: only the queue's files stay.
Stop ==
  /\ up /\ up' = FALSE
  /\ sent' = {} /\ seen' = {} /\ work' = {}
  /\ UNCHANGED <<env, booted, pending, delivered, edits, accepted>>

\* The agent sends a message and its id is recorded.
BotSends(id) ==
  /\ up /\ id \notin sent
  /\ sent' = sent \cup {id}
  /\ UNCHANGED <<env, up, booted, seen, pending, work, delivered, edits, accepted>>
-----------------------------------------------------------------------------
is_reply_to_bot(id) == id \in sent

Mentioned(m) ==
  \/ m.kind = "call"
  \/ body_mentions_number(m.body, Config.self_number)
  \/ is_reply_to_bot(m.reply_to)
  \/ is_reply_to_bot(m.reacted_message_id)

\* mutant: the label is left to the worker
Unstamped(m) == [m EXCEPT !.mentioned = Mentioned(m)]

Stamped(m) == [m EXCEPT !.mentioned = Mentioned(m), !.channel = channel_for(Config, m)]

Entry(e) == [msg |-> Stamped(into_inbound(e)), event |-> e, vetted |-> booted, known |-> sent]

\* A file has the name of its message's id: a second one replaces it.
Filed(p) == {q \in pending : q.msg.id # p.msg.id} \cup {p}

\* The handler.  What is dropped, structurally, as seen or by policy, changes nothing.
Webhook(e) ==
  /\ up /\ Len(accepted) < MaxAccepts
  /\ Conversational(e)
  /\ Entry(e).msg.id \notin seen
  /\ evaluate(Config.policy, Entry(e).msg)
  /\ pending' = Filed(Entry(e))
  /\ seen' = seen \cup {Entry(e).msg.id}
  /\ accepted' = Append(accepted, Entry(e).msg.id)
  /\ Cardinality(ToSet(accepted')) <= MaxMessages
  /\ UNCHANGED <<env, up, booted, sent, work, delivered, edits>>
-----------------------------------------------------------------------------
\* The clips small enough to be transcribed.
Clips(m) ==
  {i \in DOMAIN m.media :
     m.media[i].kind = "audio" /\ m.media[i].gowa_path.bytes <= Config.transcribe_max_bytes}

\* A clip that is not fetched, not decoded or silent leaves no block.
transcribe_audio(m, heard) == [m EXCEPT !.transcripts = Ascending(heard) \o @]

\* mutant: the worker writes the transcribed message back to its file
TakeAndSave(p, heard) ==
  LET q == [p EXCEPT !.msg = transcribe_audio(p.msg, heard)]
  IN  /\ up /\ p.msg.id \notin {w.msg.id : w \in work}
      /\ work' = work \cup {q}
      /\ pending' = Filed(q)
      /\ UNCHANGED <<env, up, booted, sent, seen, delivered, edits, accepted>>

\* A task reads its file and adds the transcripts to its copy.
Take(p, heard) ==
  /\ up /\ p.msg.id \notin {w.msg.id : w \in work}
  /\ heard # {} => Config.transcribe
  /\ work' = work \cup {[p EXCEPT !.msg = transcribe_audio(p.msg, heard)]}
  /\ UNCHANGED <<env, up, booted, sent, seen, pending, delivered, edits, accepted>>

Posted(w) ==
  LET client == client_for(Config, w.msg)
  IN  [url |-> client.inbound_url, bearer |-> client.bearer, forward |-> InboundForward(Config, w.msg),
       entry |-> w, under |-> booted]

Finished(w) ==
  /\ pending' = {p \in pending : p.msg.id # w.msg.id}
  /\ work' = work \ {w}

\* A 2xx, or the debug sink, which posts nothing.
ForwardOk(w) ==
  /\ delivered' = IF Config.agent_debug_sink THEN delivered ELSE delivered \cup {Posted(w)}
  /\ Finished(w)
  /\ UNCHANGED <<env, up, booted, sent, seen, edits, accepted>>

\* The agent has the message, its answer is an error or lost: the task will retry.
ForwardLost(w) ==
  /\ ~Config.agent_debug_sink
  /\ delivered' = delivered \cup {Posted(w)}
  /\ UNCHANGED <<env, up, booted, sent, seen, pending, work, edits, accepted>>

\* The retries are spent: the file goes to dead/.
MoveToDead(w) ==
  /\ ~Config.agent_debug_sink
  /\ Finished(w)
  /\ UNCHANGED <<env, up, booted, sent, seen, delivered, edits, accepted>>

Next ==
  \/ \E e \in Envs : Edit(e)
  \/ Start \/ Stop
  \/ \E id \in BotIds : BotSends(id)
  \/ \E e \in Envelopes : Webhook(e)
  \/ \E p \in pending : \E heard \in SUBSET Clips(p.msg) : Take(p, heard)
  \/ \E w \in work : ForwardOk(w) \/ ForwardLost(w) \/ MoveToDead(w)

Spec == Init /\ [][Next]_vars
-----------------------------------------------------------------------------
(* Properties: what the environment's text promises about the event's own  *)
(* fields, read without the operators above.                               *)

\* The conversation an event belongs to, and who speaks in it.
ChatOf(e) == IF e.event = "call.offer" THEN Or(e.payload.group_jid, e.payload.from) ELSE e.payload.chat_id
SpeakerOf(e) == IF e.payload.from = "" THEN ChatOf(e) ELSE e.payload.from

\* An entry, and its copies in memory, still say what the handler decided on.
Vetted(p) ==
  /\ Valid(p.vetted) /\ Conversational(p.event)
  /\ p.msg.chat_id = ChatOf(p.event) /\ p.msg.sender = SpeakerOf(p.event)
  /\ evaluate(from_env(p.vetted).policy, p.msg)
  /\ p.msg.channel = channel_for(from_env(p.vetted), p.msg)

\* The inductive invariant: what is queued, held or delivered was vetted by a valid environment, and
\* a delivery went to the client of its label (src/server.rs:260-282, src/forward.rs:326-333).
IInv ==
  /\ TypeOK
  /\ up => Valid(booted)
  /\ work # {} => up
  /\ \A p \in pending \cup work : Vetted(p)
  /\ \A d \in delivered :
       /\ Vetted(d.entry) /\ Valid(d.under)
       /\ d.url = client_for(from_env(d.under), d.entry.msg).inbound_url
       /\ d.bearer = client_for(from_env(d.under), d.entry.msg).bearer

DmInvited(v, user) ==
  \/ v.dm_policy = "open"
  \/ /\ v.dm_policy # "off"
     /\ \E entry \in v.dm_allow : entry.user = user /\ entry.form \in {"jid", "bare", "plus"}

GroupInvited(v, group) ==
  \/ v.group_policy = "open"
  \/ /\ v.group_policy = "allowlist"
     /\ group \in v.group_allow \/ \E i \in DOMAIN v.group_channels : v.group_channels[i].jid = group

\* Nothing an agent is sent comes from the bot itself, from a status or newsletter, or from a
\* sender or group that the environment in force when it was let in does not name
\* (src/policy.rs:35-75, src/config.rs:236-243, 479-488, src/model.rs:268-276).
OnlyInvited ==
  \A d \in delivered :
    LET e == d.entry.event
    IN  /\ e.event # "call.offer" => ~e.payload.is_from_me
        /\ ChatOf(e) \notin NonChats
        /\ IF ChatOf(e) \in Groups THEN GroupInvited(d.entry.vetted, ChatOf(e))
                                   ELSE DmInvited(d.entry.vetted, SpeakerOf(e))

\* The number a tag names is the whole run of digits after its "@".
TagAt(body, i) ==
  LET run == {j \in i + 1 .. Len(body) : \A k \in i + 1 .. j : body[k] \in Digits}
  IN  SubSeq(body, i + 1, i + Cardinality(run))
\* The number written in WA_SELF_NUMBER has the digits of its user part, in their order.
WrittenAs(number, raw) ==
  LET at == {i \in DOMAIN raw : raw[i] \in Digits /\ "@" \notin {raw[j] : j \in 1 .. i}}
  IN  /\ Len(number) = Cardinality(at)
      /\ \A i \in at : number[Rank(at, i)] = raw[i]
Tags(body) == {TagAt(body, i) : i \in {j \in DOMAIN body : body[j] = "@"}}

\* A group message of a require-mention group reaches an agent only when it is a call, tags the
\* bot's whole number, or answers or reacts to something the bot sent since it was started
\* (src/server.rs:217-237, src/policy.rs:77-88, src/model.rs:485-500): a longer number that begins
\* with the bot's is somebody else.
Summoned ==
  \A d \in delivered :
    LET e == d.entry.event
        v == d.entry.vetted
    IN  \/ ChatOf(e) \notin Groups \cup {""}
        \/ v.require_mention \notin {"", "on"} \/ ChatOf(e) \in v.free_response_chats
        \/ e.event = "call.offer"
        \/ \E tag \in Tags(MessageBody(e.payload)) \ {<<>>} : WrittenAs(tag, v.self_number)
        \/ e.event = "message" /\ e.payload.replied_to_id \in d.entry.known
        \/ e.event = "message.reaction" /\ e.payload.reacted_message_id \in d.entry.known

\* And every message that tags it is let in by its group's policy, wherever in the text the tag is and
\* whatever longer numbers stand before it (src/model.rs:485-500, src/policy.rs:77-88).
TagsAreHeard ==
  up => \A e \in Envelopes :
          /\ e.event = "message" /\ KeepsMessage(e.payload)
          /\ ChatOf(e) \in Groups /\ GroupInvited(booted, ChatOf(e))
          /\ \E tag \in Tags(MessageBody(e.payload)) \ {<<>>} : WrittenAs(tag, booted.self_number)
          => evaluate(Config.policy, Entry(e).msg)

\* What the text of an environment maps a chat to, and what it says of a label.
LabelIn(v, chat) ==
  LET of == {i \in DOMAIN v.group_channels : v.group_channels[i].jid = chat}
  IN  IF of = {} THEN "default" ELSE v.group_channels[CHOOSE i \in of : TRUE].label
Named(u, label) == {i \in DOMAIN u.channels : u.channels[i].label = label}

\* A message goes to the agent its group was mapped to when it was let in, however often the shim
\* was restarted and its environment changed since, with that agent's own bearer; when the label is
\* gone it goes to the default agent with the default's bearer, never to the agent the group is
\* mapped to now (src/channel.rs:78-99, src/server.rs:267-270, src/config.rs:190-215).
RightAgent ==
  \A d \in delivered :
    LET label == LabelIn(d.entry.vetted, ChatOf(d.entry.event))
        named == Named(d.under, label)
    IN  IF named = {}
        THEN d.url = d.under.agent_url /\ d.bearer = Secret(d.under.webhook_token)
        ELSE \E i \in named : d.url = d.under.channels[i].url
                              /\ Secret(d.under.channels[i].token) \in {"", d.bearer}

\* While the shim runs, every mapped group has a client of its own channel and is in scope of an
\* allowlist: the fallback of client_for is for labels of an earlier configuration only
\* (src/config.rs:220-243, 401-415).
RoutesResolve ==
  up => \A i \in DOMAIN booted.group_channels :
          /\ booted.group_channels[i].label \in DOMAIN Config.channels
          /\ booted.group_channels[i].jid \in Config.policy.group_allow

\* However often a message is retried or the shim restarted, an agent reads each voice note's
\* transcript at most once in it, and only of audio (src/forward.rs:318-324, 370-428).
TranscribedOnce ==
  \A d \in delivered :
    LET body == d.forward.body
        said == {i \in DOMAIN body : body[i][1] = "transcript"}
    IN  /\ \A i, j \in said : body[i] = body[j] => i = j
        /\ \A i \in said : d.forward.media[body[i][2]].kind = "audio"

\* GOWA still has the file, in its store of media, and no larger than the proxy passes on.
Storable(path) == path.root = MEDIA_PREFIX /\ path.plain /\ path.bytes \in 0 .. MAX_MEDIA_BYTES
Found(item) == [status |-> 200, bytes |-> item.gowa_path.bytes]

\* A media link an agent has been given opens at the proxy, after any restart, as long as the
\* webhook secret is the one it was made with and GOWA has the file in its store, not too large to
\* pass on (src/server.rs:409-441, src/media.rs:26-57, src/model.rs:394-423).
MediaServed ==
  \A d \in delivered : \A i \in DOMAIN d.forward.media :
    /\ up /\ Secret(booted.gowa_webhook_secret) = Secret(d.under.gowa_webhook_secret)
    /\ Storable(d.entry.msg.media[i].gowa_path)
    => media(Config, Secret(booted.gateway_token), d.forward.media[i].token, Found(d.entry.msg.media[i])) = 200
=============================================================================
