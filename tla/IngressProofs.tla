----------------------------- MODULE IngressProofs -----------------------------
(***************************************************************************)
(* Proofs about Ingress, for any people, groups, labels, environments and  *)
(* events.                                                                 *)
(***************************************************************************)
EXTENDS Ingress, ConfigProofs

(***************************************************************************)
(* What the handler makes of an event.                                     *)
(***************************************************************************)
\* Whatever the kind, the message is of the event's chat and speaker.
LEMMA InboundFields ==
  ASSUME NEW e \in Envelopes, Conversational(e)
  PROVE  /\ into_inbound(e).chat_id = ChatOf(e)
         /\ into_inbound(e).sender = SpeakerOf(e)
  <1>1. CASE e.event = "message"
    <2>1. into_inbound(e) = into_message(e.payload)
      BY <1>1 DEF into_inbound
    <2>2. into_message(e.payload).chat_id = e.payload.chat_id
          /\ into_message(e.payload).sender = Or(e.payload.from, e.payload.chat_id)
      BY DEF into_message
    <2>3. QED
      BY <1>1, <2>1, <2>2 DEF ChatOf, SpeakerOf, Or
  <1>2. CASE e.event = "message.reaction"
    <2>1. into_inbound(e) = into_reaction(e.payload)
      BY <1>2 DEF into_inbound
    <2>2. into_reaction(e.payload).chat_id = e.payload.chat_id
          /\ into_reaction(e.payload).sender = Or(e.payload.from, e.payload.chat_id)
      BY DEF into_reaction, Bare
    <2>3. QED
      BY <1>2, <2>1, <2>2 DEF ChatOf, SpeakerOf, Or
  <1>3. CASE e.event = "call.offer"
    <2>1. into_inbound(e) = into_call(e.payload)
      BY <1>3 DEF into_inbound
    <2>2. into_call(e.payload).chat_id = Or(e.payload.group_jid, e.payload.from)
          /\ into_call(e.payload).sender = e.payload.from
      BY DEF into_call, Bare
    <2>3. e.payload.from # ""
      BY <1>3 DEF Conversational, KeepsCall
    <2>4. QED
      BY <1>3, <2>1, <2>2, <2>3 DEF ChatOf, SpeakerOf
  <1>4. QED
    BY <1>1, <1>2, <1>3 DEF Conversational

\* Policy and routing read only a message's chat, sender and mention.
LEMMA EvaluateReads ==
  ASSUME NEW policy, NEW m, NEW n,
         n.chat_id = m.chat_id, n.sender = m.sender, n.mentioned = m.mentioned
  PROVE  evaluate(policy, m) => evaluate(policy, n)
  BY DEF evaluate, evaluate_group, evaluate_dm, is_group

LEMMA ChannelReads ==
  ASSUME NEW config, NEW m, NEW n, n.chat_id = m.chat_id
  PROVE  channel_for(config, m) = channel_for(config, n)
  BY DEF channel_for, is_group

\* What the handler queues is vetted.
LEMMA EntryVetted ==
  ASSUME IInv, NEW e \in Envelopes, Webhook(e)
  PROVE  Vetted(Entry(e))
  <1> DEFINE m == into_inbound(e)
             n == Stamped(m)
  <1>1. /\ Conversational(e) /\ Valid(booted)
        /\ evaluate(from_env(booted).policy, n)
    BY DEF Webhook, Entry, IInv, Config
  <1>2. n.chat_id = m.chat_id /\ n.sender = m.sender
    BY DEF Stamped
  <1>3. n.channel = channel_for(from_env(booted), m)
    <2>1. "channel" \in DOMAIN m
      BY <1>1 DEF Conversational, into_inbound, into_message, into_reaction, into_call, Bare
    <2>2. QED
      BY <2>1 DEF Stamped, Config
  <1>4. n.channel = channel_for(from_env(booted), n)
    BY <1>2, <1>3, ChannelReads
  <1>5. n.chat_id = ChatOf(e) /\ n.sender = SpeakerOf(e)
    BY <1>1, <1>2, InboundFields
  <1>6. QED
    BY <1>1, <1>4, <1>5 DEF Vetted, Entry

\* Transcripts change nothing the vetting read.
LEMMA TranscriptVetted ==
  ASSUME NEW p, NEW q, NEW heard, Vetted(p),
         q.msg = transcribe_audio(p.msg, heard), q.event = p.event, q.vetted = p.vetted
  PROVE  Vetted(q)
  <1>1. /\ q.msg.chat_id = p.msg.chat_id /\ q.msg.sender = p.msg.sender
        /\ q.msg.mentioned = p.msg.mentioned /\ q.msg.channel = p.msg.channel
    <2> DEFINE t == transcribe_audio(p.msg, heard)
    <2>1. t.chat_id = p.msg.chat_id /\ t.sender = p.msg.sender
          /\ t.mentioned = p.msg.mentioned /\ t.channel = p.msg.channel
      BY DEF transcribe_audio
    <2>2. QED
      BY <2>1
  <1>2. evaluate(from_env(q.vetted).policy, q.msg)
    BY <1>1, EvaluateReads DEF Vetted
  <1>3. channel_for(from_env(q.vetted), q.msg) = channel_for(from_env(p.vetted), p.msg)
    BY <1>1, ChannelReads
  <1>4. QED
    BY <1>1, <1>2, <1>3 DEF Vetted

(***************************************************************************)
(* The inductive invariant.                                                *)
(***************************************************************************)
LEMMA Bounds ==
  MaxEdits \in Nat /\ MaxAccepts \in Nat
  BY IngressAssumption

LEMMA InitInv ==
  Init => IInv
  <1> SUFFICES ASSUME Init PROVE IInv
    OBVIOUS
  <1>1. /\ accepted \in Seq({into_inbound(e).id : e \in {e \in Envelopes : Conversational(e)}})
        /\ Len(accepted) <= MaxAccepts
    BY Bounds DEF Init
  <1>2. edits \in 0 .. MaxEdits
    BY Bounds DEF Init
  <1>3. TypeOK
    BY <1>1, <1>2 DEF Init, TypeOK
  <1>4. QED
    BY <1>3 DEF Init, IInv

\* A step that changes the environment, the process or the bot's ids touches no message, except
\* that Stop empties the workers' hands.
LEMMA OperatorStep ==
  ASSUME IInv, \/ \E e \in Envs : Edit(e)
               \/ Start \/ Stop
               \/ \E id \in BotIds : BotSends(id)
  PROVE  IInv'
  <1>1. pending' = pending /\ work' \subseteq work /\ delivered' = delivered /\ accepted' = accepted
    BY DEF Edit, Start, Stop, BotSends
  <1>2. /\ \A p \in pending' \cup work' : Vetted(p)
        /\ \A d \in delivered' :
             /\ Vetted(d.entry) /\ Valid(d.under)
             /\ d.url = client_for(from_env(d.under), d.entry.msg).inbound_url
             /\ d.bearer = client_for(from_env(d.under), d.entry.msg).bearer
    BY <1>1 DEF IInv
  <1>3. (up' => Valid(booted')) /\ (work' # {} => up')
    BY DEF IInv, Edit, Start, Stop, BotSends
  <1>4. env' \in Envs /\ up' \in BOOLEAN /\ booted' \in Envs /\ sent' \subseteq BotIds
    BY DEF IInv, TypeOK, Edit, Start, Stop, BotSends
  <1>5. edits' \in 0 .. MaxEdits
    BY Bounds DEF IInv, TypeOK, Edit, Start, Stop, BotSends
  <1>6. TypeOK'
    BY <1>1, <1>4, <1>5 DEF IInv, TypeOK
  <1>7. QED
    BY <1>2, <1>3, <1>6 DEF IInv

LEMMA WebhookStep ==
  ASSUME IInv, NEW e \in Envelopes, Webhook(e)
  PROVE  IInv'
  <1>1. /\ pending' \subseteq pending \cup {Entry(e)}
        /\ work' = work /\ delivered' = delivered
        /\ env' = env /\ up' = up /\ booted' = booted /\ sent' = sent /\ edits' = edits
    BY DEF Webhook, Filed
  <1>2. Vetted(Entry(e))
    BY EntryVetted
  <1>3. Entry(e).event = e /\ Entry(e).vetted = booted /\ Entry(e).known = sent
    BY DEF Entry
  <1>4. /\ accepted' \in Seq({into_inbound(x).id : x \in {x \in Envelopes : Conversational(x)}})
        /\ Len(accepted') <= MaxAccepts
    <2> DEFINE ids == {into_inbound(x).id : x \in {x \in Envelopes : Conversational(x)}}
    <2>1. Stamped(into_inbound(e)).id = into_inbound(e).id
      BY DEF Stamped
    <2>2. Entry(e).msg.id \in ids
      BY <2>1 DEF Entry, Webhook
    <2>3. accepted \in Seq(ids) /\ Len(accepted) < MaxAccepts /\ accepted' = Append(accepted, Entry(e).msg.id)
      BY DEF Webhook, IInv, TypeOK
    <2> HIDE DEF ids
    <2>4. accepted' \in Seq(ids) /\ Len(accepted') = Len(accepted) + 1
      BY <2>2, <2>3
    <2>5. Len(accepted') <= MaxAccepts
      BY <2>3, <2>4, Bounds
    <2>6. QED
      BY <2>4, <2>5 DEF ids
  <1>5. TypeOK'
    BY <1>1, <1>3, <1>4 DEF IInv, TypeOK
  <1>6. QED
    BY <1>1, <1>2, <1>5 DEF IInv

LEMMA TakeStep ==
  ASSUME IInv, NEW p \in pending, NEW heard, Take(p, heard)
  PROVE  IInv'
  <1> DEFINE q == [p EXCEPT !.msg = transcribe_audio(p.msg, heard)]
  <1>1. /\ work' = work \cup {q}
        /\ pending' = pending /\ delivered' = delivered /\ accepted' = accepted
        /\ env' = env /\ up' = up /\ up /\ booted' = booted /\ sent' = sent /\ edits' = edits
    BY DEF Take
  <1>2. q.event = p.event /\ q.vetted = p.vetted /\ q.known = p.known
    OBVIOUS
  <1>3. q.msg = transcribe_audio(p.msg, heard)
    OBVIOUS
  <1>4. Vetted(q)
    BY <1>2, <1>3, TranscriptVetted DEF IInv
  <1>5. TypeOK'
    BY <1>1, <1>2 DEF IInv, TypeOK
  <1>6. QED
    BY <1>1, <1>4, <1>5 DEF IInv

LEMMA ForwardStep ==
  ASSUME IInv, NEW w \in work, ForwardOk(w) \/ ForwardLost(w) \/ MoveToDead(w)
  PROVE  IInv'
  <1>1. /\ work' \subseteq work /\ pending' \subseteq pending
        /\ delivered' \subseteq delivered \cup {Posted(w)} /\ accepted' = accepted
        /\ env' = env /\ up' = up /\ booted' = booted /\ sent' = sent /\ edits' = edits
    BY DEF ForwardOk, ForwardLost, MoveToDead, Finished
  <1>2. /\ Posted(w).entry = w /\ Posted(w).under = booted
        /\ Posted(w).url = client_for(from_env(booted), w.msg).inbound_url
        /\ Posted(w).bearer = client_for(from_env(booted), w.msg).bearer
    BY DEF Posted, Config
  <1>3. Vetted(w) /\ Valid(booted) /\ up
    BY DEF IInv
  <1>4. TypeOK'
    BY <1>1, <1>2 DEF IInv, TypeOK
  <1>5. QED
    BY <1>1, <1>2, <1>3, <1>4 DEF IInv

LEMMA Inductive ==
  IInv /\ [Next]_vars => IInv'
  <1> SUFFICES ASSUME IInv, [Next]_vars PROVE IInv'
    OBVIOUS
  <1>1. CASE UNCHANGED vars
    BY <1>1 DEF vars, IInv, TypeOK, Vetted
  <1>2. CASE \/ \E e \in Envs : Edit(e)
             \/ Start \/ Stop
             \/ \E id \in BotIds : BotSends(id)
    BY <1>2, OperatorStep
  <1>3. CASE \E e \in Envelopes : Webhook(e)
    BY <1>3, WebhookStep
  <1>4. CASE \E p \in pending : \E heard \in SUBSET Clips(p.msg) : Take(p, heard)
    BY <1>4, TakeStep
  <1>5. CASE \E w \in work : ForwardOk(w) \/ ForwardLost(w) \/ MoveToDead(w)
    BY <1>5, ForwardStep
  <1>6. QED
    BY <1>1, <1>2, <1>3, <1>4, <1>5 DEF Next

\* What is queued, held or delivered was vetted by a valid environment, and each delivery went to
\* the client of the label stamped on the message.
THEOREM IngressInvariant ==
  Spec => []IInv
  <1>1. QED
    BY InitInv, Inductive, PTL DEF Spec

(***************************************************************************)
(* What follows from it.                                                   *)
(***************************************************************************)
\* Every mapped group of a running shim has a client of its own channel and is allowlisted.
THEOREM MappedGroupsResolve ==
  Spec => []RoutesResolve
  <1>1. IInv => RoutesResolve
    <2> SUFFICES ASSUME IInv, up, NEW i \in DOMAIN booted.group_channels
                 PROVE  /\ booted.group_channels[i].label \in DOMAIN Config.channels
                        /\ booted.group_channels[i].jid \in Config.policy.group_allow
      BY DEF RoutesResolve
    <2>1. Valid(booted)
      BY DEF IInv
    <2>2. QED
      BY <2>1, GroupMap DEF Config
  <1>2. QED
    BY <1>1, IngressInvariant, PTL

LEMMA VettedIsInvited ==
  ASSUME NEW p, p.event \in Envelopes, Vetted(p)
  PROVE  /\ p.event.event # "call.offer" => ~p.event.payload.is_from_me
         /\ ChatOf(p.event) \notin NonChats
         /\ IF ChatOf(p.event) \in Groups THEN GroupInvited(p.vetted, ChatOf(p.event))
                                          ELSE DmInvited(p.vetted, SpeakerOf(p.event))
  <1> DEFINE e == p.event
             v == p.vetted
  <1>1. (e.event # "call.offer" => ~e.payload.is_from_me) /\ ChatOf(e) \notin NonChats
    BY DEF Vetted, Conversational, KeepsMessage, KeepsCall, ChatOf
  <1>2. /\ p.msg.chat_id = ChatOf(e) /\ p.msg.sender = SpeakerOf(e)
        /\ evaluate(Policy(v), p.msg)
    BY DEF Vetted, from_env
  <1>3. CASE ChatOf(e) \in Groups
    <2>1. \/ Or(v.group_policy, "off") = "open"
          \/ Or(v.group_policy, "off") = "allowlist" /\ ChatOf(e) \in group_allow(v)
      BY <1>2, <1>3 DEF evaluate, evaluate_group, is_group, Policy
    <2>2. GroupInvited(v, ChatOf(e))
      BY <2>1 DEF Or, GroupInvited, group_allow
    <2>3. QED
      BY <1>1, <1>3, <2>2
  <1>4. CASE ChatOf(e) \notin Groups
    <2>1. \/ Or(v.dm_policy, "allowlist") = "open"
          \/ /\ Or(v.dm_policy, "allowlist") = "allowlist"
             /\ SpeakerOf(e) \in {normalise_dm_jid(entry) : entry \in v.dm_allow}
      BY <1>2, <1>4 DEF evaluate, evaluate_dm, is_group, Policy
    <2>2. SpeakerOf(e) # Nobody
      BY IngressAssumption DEF SpeakerOf, ChatOf, Or
    <2>3. DmInvited(v, SpeakerOf(e))
      BY <2>1, <2>2 DEF Or, DmInvited, normalise_dm_jid
    <2>4. QED
      BY <1>1, <1>4, <2>3
  <1>5. QED
    BY <1>3, <1>4

\* No agent is sent anything by a sender, or of a group, that the environment in force when it was
\* let in does not name.
THEOREM AgentsReadOnlyTheInvited ==
  Spec => []OnlyInvited
  <1>1. IInv => OnlyInvited
    BY VettedIsInvited DEF IInv, TypeOK, OnlyInvited
  <1>2. QED
    BY <1>1, IngressInvariant, PTL

\* The label stamped on a message is the one its environment maps its chat to.
LEMMA StampIsLabel ==
  ASSUME NEW p, p.event \in Envelopes, Vetted(p)
  PROVE  p.msg.channel = LabelIn(p.vetted, ChatOf(p.event))
  <1> DEFINE v == p.vetted
             chat == ChatOf(p.event)
             of == {i \in DOMAIN v.group_channels : v.group_channels[i].jid = chat}
  <1>1. /\ Valid(v) /\ p.msg.chat_id = chat
        /\ p.msg.channel = channel_for(from_env(v), p.msg)
    BY DEF Vetted
  <1>2. DOMAIN from_env(v).group_channels = {v.group_channels[i].jid : i \in DOMAIN v.group_channels}
    BY DEF from_env
  <1>3. CASE of = {}
    <2>1. chat \notin DOMAIN from_env(v).group_channels
      BY <1>2, <1>3
    <2>2. QED
      BY <1>1, <1>3, <2>1 DEF channel_for, LabelIn, DEFAULT_CHANNEL
  <1>4. CASE of # {}
    <2>1. PICK i \in DOMAIN v.group_channels :
            /\ v.group_channels[i].jid = chat
            /\ LabelIn(v, chat) = v.group_channels[i].label
      <3>1. (CHOOSE i \in of : TRUE) \in of
        BY <1>4
      <3>2. QED
        BY <1>4, <3>1 DEF LabelIn
    <2>2. /\ chat \in Groups /\ chat \in DOMAIN from_env(v).group_channels
          /\ from_env(v).group_channels[chat] = v.group_channels[i].label
      BY <1>1, <2>1, GroupMap
    <2>3. QED
      BY <1>1, <2>1, <2>2 DEF channel_for, is_group
  <1>5. QED
    BY <1>3, <1>4

\* A message goes to the agent its group was mapped to when it was let in, or to the default agent
\* when that label is gone, after any number of restarts and edits.
THEOREM MessagesKeepTheirAgent ==
  Spec => []RightAgent
  <1>1. ASSUME IInv PROVE RightAgent
    <2> SUFFICES ASSUME NEW d \in delivered
                 PROVE  LET label == LabelIn(d.entry.vetted, ChatOf(d.entry.event))
                            named == Named(d.under, label)
                        IN  IF named = {}
                            THEN d.url = d.under.agent_url /\ d.bearer = Secret(d.under.webhook_token)
                            ELSE \E i \in named : d.url = d.under.channels[i].url
                                                  /\ Secret(d.under.channels[i].token) \in {"", d.bearer}
      BY DEF RightAgent
    <2> DEFINE u == d.under
               label == LabelIn(d.entry.vetted, ChatOf(d.entry.event))
               named == Named(u, label)
               channels == from_env(u).channels
    <2>1. /\ Vetted(d.entry) /\ Valid(u) /\ d.entry.event \in Envelopes
          /\ d.url = client_for(from_env(u), d.entry.msg).inbound_url
          /\ d.bearer = client_for(from_env(u), d.entry.msg).bearer
      BY <1>1 DEF IInv, TypeOK
    <2>2. d.entry.msg.channel = label
      BY <2>1, StampIsLabel
    <2>6. DOMAIN channels = {"default"} \cup {u.channels[i].label : i \in DOMAIN u.channels}
      BY <2>1, ChannelMap
    <2>7. ASSUME NEW i \in DOMAIN u.channels
          PROVE  /\ channels[u.channels[i].label].inbound_url = u.channels[i].url
                 /\ Secret(u.channels[i].token) \in {"", channels[u.channels[i].label].bearer}
      BY <2>1, ChannelMap
    <2>3. CASE named = {}
      <3>1. label \in DOMAIN channels => label = "default"
        BY <2>6, <2>3 DEF Named
      <3>2. client_for(from_env(u), d.entry.msg) = channels["default"]
        BY <2>2, <3>1 DEF client_for, DEFAULT_CHANNEL
      <3>3. QED
        BY <2>1, <2>3, <3>2, ChannelMap
    <2>4. CASE named # {}
      <3>1. PICK i \in DOMAIN u.channels : i \in named /\ u.channels[i].label = label
        BY <2>4 DEF Named
      <3>2. label \in DOMAIN channels
        BY <2>6, <3>1
      <3>3. client_for(from_env(u), d.entry.msg) = channels[label]
        BY <2>2, <3>2 DEF client_for
      <3>4. d.url = u.channels[i].url /\ Secret(u.channels[i].token) \in {"", d.bearer}
        BY <2>1, <2>7, <3>1, <3>3
      <3>5. QED
        BY <2>4, <3>1, <3>4
    <2>5. QED
      BY <2>3, <2>4
  <1>2. QED
    BY <1>1, IngressInvariant, PTL

(***************************************************************************)
(* The content of what is queued, held and delivered: media whose paths    *)
(* the proxy takes, no transcript on disk, and in a copy in memory at most *)
(* one of each voice note.                                                 *)
(***************************************************************************)
MediaList(list) == IsList(list) /\ \A i \in DOMAIN list : ~list[i].gowa_path.slash
MediaOK(m) == MediaList(m.media)

TranscriptsOK(m) ==
  /\ IsList(m.transcripts)
  /\ \A n, o \in DOMAIN m.transcripts : m.transcripts[n] = m.transcripts[o] => n = o
  /\ \A n \in DOMAIN m.transcripts :
       m.transcripts[n] \in DOMAIN m.media /\ m.media[m.transcripts[n]].kind = "audio"

\* As the handler files it.
Untold(m) == MediaOK(m) /\ m.transcripts = <<>> /\ "transcripts" \in DOMAIN m

ContentInv ==
  /\ \A p \in pending : Untold(p.msg)
  /\ \A w \in work : MediaOK(w.msg) /\ TranscriptsOK(w.msg)
  /\ \A d \in delivered :
       /\ MediaOK(d.entry.msg) /\ TranscriptsOK(d.entry.msg)
       /\ d.forward = InboundForward(from_env(d.under), d.entry.msg)

LEMMA NoMedia == MediaList(<<>>)
  <1>1. <<>> \in Seq({}) /\ DOMAIN <<>> = {}
    OBVIOUS
  <1>2. QED
    BY <1>1, ListOf DEF MediaList

LEMMA FieldMedia ==
  ASSUME NEW kind, NEW field
  PROVE  MediaList(extract_media(kind, field))
  <1> DEFINE item == [kind |-> kind, gowa_path |-> trim_slash(Head(Head(field).path))]
  <1>1. ~item.gowa_path.slash
    BY DEF trim_slash
  <1> HIDE DEF item
  <1>2. MediaList(<<item>>)
    <2>1. <<item>> \in Seq({item}) /\ \A i \in DOMAIN <<item>> : <<item>>[i] = item
      OBVIOUS
    <2>2. QED
      BY <1>1, <2>1, ListOf DEF MediaList
  <1>3. extract_media(kind, field) \in {<<>>, <<item>>}
    BY DEF extract_media, item
  <1>4. QED
    BY <1>2, <1>3, NoMedia

\* The parts of two lists put together.
LEMMA JoinParts ==
  ASSUME NEW s, NEW t, IsList(s), IsList(t)
  PROVE  /\ IsList(s \o t) /\ Len(s \o t) = Len(s) + Len(t)
         /\ \A i \in DOMAIN (s \o t) : \/ i \in DOMAIN s /\ (s \o t)[i] = s[i]
                                       \/ i - Len(s) \in DOMAIN t /\ (s \o t)[i] = t[i - Len(s)]
  <1> DEFINE S == ToSet(s) \cup ToSet(t)
  <1>1. s \in Seq(S) /\ t \in Seq(S)
    BY DEF IsList
  <1> HIDE DEF S
  <1>2. /\ Len(s \o t) = Len(s) + Len(t)
        /\ \A i \in DOMAIN (s \o t) : \/ i \in DOMAIN s /\ (s \o t)[i] = s[i]
                                      \/ i - Len(s) \in DOMAIN t /\ (s \o t)[i] = t[i - Len(s)]
    BY <1>1
  <1>3. QED
    BY <1>2, JoinIsList

LEMMA JoinMedia ==
  ASSUME NEW s, NEW t, MediaList(s), MediaList(t)
  PROVE  MediaList(s \o t)
  BY JoinParts DEF MediaList

LEMMA EventMedia ==
  ASSUME NEW e, Conversational(e)
  PROVE  Untold(into_inbound(e))
  <1>1. /\ MediaList(into_message(e.payload).media)
        /\ into_message(e.payload).transcripts = <<>> /\ "transcripts" \in DOMAIN into_message(e.payload)
    <2>1. MediaList(Attached(e.payload))
      BY FieldMedia, JoinMedia DEF Attached
    <2>2. QED
      BY <2>1 DEF into_message
  <1>2. /\ MediaList(into_reaction(e.payload).media)
        /\ into_reaction(e.payload).transcripts = <<>> /\ "transcripts" \in DOMAIN into_reaction(e.payload)
    BY NoMedia DEF into_reaction, Bare
  <1>3. /\ MediaList(into_call(e.payload).media)
        /\ into_call(e.payload).transcripts = <<>> /\ "transcripts" \in DOMAIN into_call(e.payload)
    BY NoMedia DEF into_call, Bare
  <1>4. QED
    BY <1>1, <1>2, <1>3 DEF Conversational, into_inbound, MediaOK, Untold

LEMMA EntryContent ==
  ASSUME NEW e, Conversational(e)
  PROVE  Untold(Entry(e).msg)
  <1>1. /\ Stamped(into_inbound(e)).media = into_inbound(e).media
        /\ Stamped(into_inbound(e)).transcripts = into_inbound(e).transcripts
        /\ DOMAIN Stamped(into_inbound(e)) = DOMAIN into_inbound(e)
    BY DEF Stamped
  <1>2. QED
    BY <1>1, EventMedia DEF Entry, MediaOK, Untold

\* The clips heard are of the message's audio, each a block of its own.
LEMMA TakenContent ==
  ASSUME NEW m, Untold(m), NEW heard \in SUBSET Clips(m)
  PROVE  MediaOK(transcribe_audio(m, heard)) /\ TranscriptsOK(transcribe_audio(m, heard))
  <1> DEFINE t == transcribe_audio(m, heard)
  <1>1. Len(m.media) \in Nat /\ DOMAIN m.media = 1 .. Len(m.media) /\ IsFiniteSet(DOMAIN m.media)
    BY ListParts DEF Untold, MediaOK, MediaList
  <1>2. \A i \in heard : i \in DOMAIN m.media /\ m.media[i].kind = "audio"
    BY DEF Clips
  <1>3. heard \in SUBSET Nat /\ IsFiniteSet(heard)
    BY <1>1, <1>2, FS_Subset
  <1>4. /\ Ascending(heard) \in Seq(heard)
        /\ \A n \in DOMAIN Ascending(heard) : Rank(heard, Ascending(heard)[n]) = n
    BY <1>3, InOrder
  <1>5. Ascending(heard) \o <<>> = Ascending(heard)
    BY <1>4
  <1>6. t.media = m.media /\ t.transcripts = Ascending(heard)
    BY <1>5 DEF transcribe_audio, Untold
  <1>7. IsList(Ascending(heard)) /\ \A n \in DOMAIN Ascending(heard) : Ascending(heard)[n] \in heard
    BY <1>4, ListOf
  <1>8. QED
    BY <1>2, <1>4, <1>6, <1>7 DEF Untold, MediaOK, TranscriptsOK

LEMMA InitContent == Init => ContentInv
  BY DEF Init, ContentInv

LEMMA NextContent ==
  ASSUME IInv, ContentInv, [Next]_vars
  PROVE  ContentInv'
  <1> DEFINE Kept(p) == MediaOK(p.msg) /\ TranscriptsOK(p.msg)
             Sent(d) == MediaOK(d.entry.msg) /\ TranscriptsOK(d.entry.msg)
                        /\ d.forward = InboundForward(from_env(d.under), d.entry.msg)
  <1>1. /\ \A p \in pending : Untold(p.msg)
        /\ \A w \in work : Kept(w)
        /\ \A d \in delivered : Sent(d)
    BY DEF ContentInv
  <1>2. /\ \A p \in pending' : Untold(p.msg)
        /\ \A w \in work' : Kept(w)
        /\ \A d \in delivered' : Sent(d)
    <2>1. CASE UNCHANGED vars
      BY <1>1, <2>1 DEF vars
    <2>2. CASE \/ \E e \in Envs : Edit(e)
               \/ Start \/ Stop
               \/ \E id \in BotIds : BotSends(id)
      <3>1. pending' = pending /\ work' \subseteq work /\ delivered' = delivered
        BY <2>2 DEF Edit, Start, Stop, BotSends
      <3>2. QED
        BY <1>1, <3>1
    <2>3. ASSUME NEW e \in Envelopes, Webhook(e)
          PROVE  /\ \A p \in pending' : Untold(p.msg)
                 /\ \A w \in work' : Kept(w)
                 /\ \A d \in delivered' : Sent(d)
      <3>1. pending' \subseteq pending \cup {Entry(e)} /\ work' = work /\ delivered' = delivered
        BY <2>3 DEF Webhook, Filed
      <3>2. Untold(Entry(e).msg)
        BY <2>3, EntryContent DEF Webhook
      <3>3. QED
        BY <1>1, <3>1, <3>2
    <2>4. ASSUME NEW p \in pending, NEW heard \in SUBSET Clips(p.msg), Take(p, heard)
          PROVE  /\ \A q \in pending' : Untold(q.msg)
                 /\ \A w \in work' : Kept(w)
                 /\ \A d \in delivered' : Sent(d)
      <3> DEFINE q == [p EXCEPT !.msg = transcribe_audio(p.msg, heard)]
      <3>1. pending' = pending /\ work' = work \cup {q} /\ delivered' = delivered
        BY <2>4 DEF Take
      <3>2. q.msg = transcribe_audio(p.msg, heard)
        OBVIOUS
      <3>3. Kept(q)
        BY <1>1, <3>2, TakenContent
      <3>4. QED
        BY <1>1, <3>1, <3>3
    <2>5. ASSUME NEW w \in work, ForwardOk(w) \/ ForwardLost(w) \/ MoveToDead(w)
          PROVE  /\ \A p \in pending' : Untold(p.msg)
                 /\ \A v \in work' : Kept(v)
                 /\ \A d \in delivered' : Sent(d)
      <3>1. /\ work' \subseteq work /\ pending' \subseteq pending
            /\ delivered' \subseteq delivered \cup {Posted(w)}
        BY <2>5 DEF ForwardOk, ForwardLost, MoveToDead, Finished
      <3>2. /\ Posted(w).entry = w /\ Posted(w).under = booted
            /\ Posted(w).forward = InboundForward(from_env(booted), w.msg)
        BY DEF Posted, Config
      <3>3. Sent(Posted(w))
        BY <1>1, <3>2
      <3>4. QED
        BY <1>1, <3>1, <3>3
    <2>6. QED
      BY <2>1, <2>2, <2>3, <2>4, <2>5 DEF Next
  <1>3. QED
    BY <1>2 DEF ContentInv

LEMMA ContentAlways ==
  Spec => [](IInv /\ ContentInv)
  BY InitInv, Inductive, InitContent, NextContent, PTL DEF Spec

(***************************************************************************)
(* The body an agent is sent.                                              *)
(***************************************************************************)
Silent(list) == IsList(list) /\ \A i \in DOMAIN list : list[i][1] # "transcript"
OnceIn(list, m) ==
  /\ IsList(list)
  /\ \A i, j \in DOMAIN list : list[i][1] = "transcript" /\ list[i] = list[j] => i = j
  /\ \A i \in DOMAIN list :
       list[i][1] = "transcript" => list[i][2] \in DOMAIN m.media /\ m.media[list[i][2]].kind = "audio"

LEMMA OnceJoined ==
  ASSUME NEW m, NEW s, NEW t, OnceIn(s, m), Silent(t)
  PROVE  OnceIn(s \o t, m) /\ OnceIn(t \o s, m)
  <1>1. /\ Len(s) \in Nat /\ Len(t) \in Nat
        /\ DOMAIN (s \o t) \subseteq Nat /\ DOMAIN (t \o s) \subseteq Nat
    <2>1. IsList(s) /\ IsList(t) /\ IsList(s \o t) /\ IsList(t \o s)
      BY JoinParts DEF OnceIn, Silent
    <2>2. QED
      BY <2>1, ListParts
  <1>2. OnceIn(s \o t, m)
    <2>1. IsList(s \o t)
      BY JoinParts DEF OnceIn, Silent
    <2>2. \A i \in DOMAIN (s \o t) :
            (s \o t)[i][1] = "transcript" => i \in DOMAIN s /\ (s \o t)[i] = s[i]
      <3>1. \A i \in DOMAIN (s \o t) : \/ i \in DOMAIN s /\ (s \o t)[i] = s[i]
                                       \/ i - Len(s) \in DOMAIN t /\ (s \o t)[i] = t[i - Len(s)]
        <4>1. IsList(s) /\ IsList(t)
          BY DEF OnceIn, Silent
        <4>2. QED
          BY <4>1, JoinParts
      <3>2. \A i \in DOMAIN t : t[i][1] # "transcript"
        BY DEF Silent
      <3>3. QED
        BY <3>1, <3>2
    <2>3. QED
      BY <2>1, <2>2 DEF OnceIn
  <1>3. OnceIn(t \o s, m)
    <2>1. IsList(t \o s)
      BY JoinParts DEF OnceIn, Silent
    <2>2. \A i \in DOMAIN (t \o s) :
            (t \o s)[i][1] = "transcript" => i - Len(t) \in DOMAIN s /\ (t \o s)[i] = s[i - Len(t)]
      <3>1. \A i \in DOMAIN (t \o s) : \/ i \in DOMAIN t /\ (t \o s)[i] = t[i]
                                       \/ i - Len(t) \in DOMAIN s /\ (t \o s)[i] = s[i - Len(t)]
        <4>1. IsList(s) /\ IsList(t)
          BY DEF OnceIn, Silent
        <4>2. QED
          BY <4>1, JoinParts
      <3>2. \A i \in DOMAIN t : t[i][1] # "transcript"
        BY DEF Silent
      <3>3. QED
        BY <3>1, <3>2
    <2>3. \A i, j \in DOMAIN (t \o s) :
            (t \o s)[i][1] = "transcript" /\ (t \o s)[i] = (t \o s)[j] => i - Len(t) = j - Len(t)
      BY <2>2 DEF OnceIn
    <2>4. QED
      BY <1>1, <2>1, <2>2, <2>3 DEF OnceIn
  <1>4. QED
    BY <1>2, <1>3

LEMMA BodyOnce ==
  ASSUME NEW m, TranscriptsOK(m)
  PROVE  OnceIn(agent_body(m), m)
  <1> DEFINE told == [i \in DOMAIN m.transcripts |-> <<"transcript", m.transcripts[i]>>]
             quote == IF m.quoted_body = <<>> THEN <<>> ELSE << <<"quote", m.quoted_body>> >>
             text == IF m.transcripts # <<>> /\ Blank(m.body) THEN <<>> ELSE << <<"text", m.body>> >>
  <1>1. Silent(<<>>) /\ OnceIn(<<>>, m)
    <2>1. <<>> \in Seq({}) /\ DOMAIN <<>> = {}
      OBVIOUS
    <2>2. QED
      BY <2>1, ListOf DEF Silent, OnceIn
  <1>2. ASSUME NEW kind, kind # "transcript", NEW said
        PROVE  Silent(<< <<kind, said>> >>)
    <2> DEFINE item == <<kind, said>>
    <2>1. item[1] = kind
      OBVIOUS
    <2> HIDE DEF item
    <2>2. <<item>> \in Seq({item}) /\ DOMAIN <<item>> = {1} /\ <<item>>[1] = item
      OBVIOUS
    <2>3. Silent(<<item>>)
      BY <1>2, <2>1, <2>2, ListOf DEF Silent
    <2>4. QED
      BY <2>3 DEF item
  <1>3. Silent(quote) /\ Silent(text)
    BY <1>1, <1>2
  <1>4. OnceIn(told, m)
    <2>1. Len(m.transcripts) \in Nat /\ DOMAIN m.transcripts = 1 .. Len(m.transcripts)
      BY ListParts DEF TranscriptsOK
    <2>2. IsList(told)
      <3>1. told \in Seq({told[i] : i \in 1 .. Len(m.transcripts)})
        BY <2>1, FunctionIsList
      <3>2. QED
        BY <3>1, ListOf
    <2>3. DOMAIN told = DOMAIN m.transcripts
          /\ \A i \in DOMAIN told : told[i][1] = "transcript" /\ told[i][2] = m.transcripts[i]
      OBVIOUS
    <2> HIDE DEF told
    <2>4. QED
      BY <2>2, <2>3 DEF OnceIn, TranscriptsOK
  <1>5. agent_body(m) \in {quote \o <<>>, quote \o (told \o text)}
    BY DEF agent_body
  <1> HIDE DEF told, quote, text
  <1>6. QED
    BY <1>1, <1>3, <1>4, <1>5, OnceJoined

LEMMA ForwardParts ==
  ASSUME NEW config, NEW m
  PROVE  /\ InboundForward(config, m).body = agent_body(m)
         /\ InboundForward(config, m).media = build_forward_media(config, m)
  BY ZenonT(30) DEF InboundForward

\* However often a message is retried or read again after a restart, an agent reads each voice
\* note's transcript at most once in it.
THEOREM NotesAreReadOnce ==
  Spec => []TranscribedOnce
  <1>1. ContentInv => TranscribedOnce
    <2> SUFFICES ASSUME ContentInv, NEW d \in delivered
                 PROVE  LET body == d.forward.body
                            said == {i \in DOMAIN body : body[i][1] = "transcript"}
                        IN  /\ \A i, j \in said : body[i] = body[j] => i = j
                            /\ \A i \in said : d.forward.media[body[i][2]].kind = "audio"
      BY DEF TranscribedOnce
    <2> DEFINE m == d.entry.msg
    <2>1. d.forward = InboundForward(from_env(d.under), m) /\ TranscriptsOK(m)
      BY DEF ContentInv
    <2>2. OnceIn(agent_body(m), m)
      BY <2>1, BodyOnce
    <2>3. d.forward.body = agent_body(m) /\ d.forward.media = build_forward_media(from_env(d.under), m)
      BY <2>1, ForwardParts
    <2>4. \A i \in DOMAIN m.media : d.forward.media[i].kind = m.media[i].kind
      BY <2>3 DEF build_forward_media
    <2>5. QED
      BY <2>2, <2>3, <2>4 DEF OnceIn
  <1>2. QED
    BY <1>1, ContentAlways, PTL

\* A media link opens at the proxy after any restart, while the secret it was signed with is the one
\* in force and GOWA has the file in its store.
THEOREM LinksOpen ==
  Spec => []MediaServed
  <1>1. ContentInv => MediaServed
    <2> SUFFICES ASSUME ContentInv, NEW d \in delivered, NEW i \in DOMAIN d.forward.media, up,
                        Secret(booted.gowa_webhook_secret) = Secret(d.under.gowa_webhook_secret),
                        Storable(d.entry.msg.media[i].gowa_path)
                 PROVE  media(Config, Secret(booted.gateway_token), d.forward.media[i].token,
                              Found(d.entry.msg.media[i])) = 200
      BY DEF MediaServed
    <2> DEFINE item == d.entry.msg.media[i]
               token == d.forward.media[i].token
    <2>1. d.forward = InboundForward(from_env(d.under), d.entry.msg) /\ MediaOK(d.entry.msg)
      BY DEF ContentInv
    <2>2. d.forward.media = build_forward_media(from_env(d.under), d.entry.msg)
      BY <2>1, ForwardParts
    <2>3. i \in DOMAIN d.entry.msg.media
          /\ token = sign(from_env(d.under).gowa_webhook_secret, item.gowa_path)
      BY <2>2 DEF build_forward_media
    <2>4. /\ token.key = Secret(d.under.gowa_webhook_secret)
          /\ token.path = item.gowa_path
      BY <2>3 DEF sign, from_env
    <2>5. ~item.gowa_path.slash
      BY <2>1, <2>3 DEF MediaOK, MediaList
    <2>6. /\ Config.gowa_webhook_secret = Secret(booted.gowa_webhook_secret)
          /\ Config.gateway_token = Secret(booted.gateway_token)
      BY DEF Config, from_env
    <2>7. verify(Config.gowa_webhook_secret, token)
      BY <2>4, <2>5, <2>6 DEF verify, Storable
    <2>8. fetch_static(Found(item)) = 200
      BY DEF fetch_static, Found, Storable, MAX_MEDIA_BYTES
    <2>9. QED
      BY <2>6, <2>7, <2>8 DEF media
  <1>2. QED
    BY <1>1, ContentAlways, PTL

(***************************************************************************)
(* The search for "@number" in a body.                                     *)
(***************************************************************************)
Needle(number) == <<"@">> \o number
First(body, needle, i) ==
  CHOOSE j \in i .. Len(body) :
    At(body, j, needle) /\ \A k \in i .. j - 1 : ~At(body, k, needle)
SearchStep(f, body, needle, i) ==
  IF \A j \in i .. Len(body) : ~At(body, j, needle) THEN FALSE
  ELSE NumberEnds(body, First(body, needle, i) + Len(needle))
       \/ f[First(body, needle, i) + Len(needle)]
Searched(f, body, needle) ==
  f = [i \in 1 .. Len(body) + 1 + Len(needle) |-> SearchStep(f, body, needle, i)]

\* The search is a function that satisfies its equation, if there is one.
LEMMA SearchUnfolded ==
  ASSUME NEW body, NEW number, NEW g, Searched(g, body, Needle(number))
  PROVE  \E f : /\ Searched(f, body, Needle(number))
                /\ body_mentions_number(body, number) <=> number # <<>> /\ f[1]
  BY DEF body_mentions_number, Searched, SearchStep, First, Needle

LEMMA NeedleParts ==
  ASSUME NEW number, IsList(number)
  PROVE  /\ IsList(Needle(number)) /\ Len(number) \in Nat
         /\ Len(Needle(number)) = Len(number) + 1 /\ Needle(number)[1] = "@"
         /\ \A k \in 1 .. Len(number) : Needle(number)[k + 1] = number[k]
  <1> DEFINE S == ToSet(number) \cup {"@"}
  <1>1. number \in Seq(S) /\ <<"@">> \in Seq(S) /\ Len(<<"@">>) = 1 /\ <<"@">>[1] = "@"
    BY DEF IsList
  <1> HIDE DEF S
  <1>2. /\ Needle(number) \in Seq(S) /\ Len(number) \in Nat
        /\ Len(Needle(number)) = Len(number) + 1 /\ Needle(number)[1] = "@"
        /\ \A k \in 1 .. Len(number) : Needle(number)[k + 1] = number[k]
    BY <1>1 DEF Needle
  <1>3. QED
    BY <1>2, ListOf

LEMMA AtParts ==
  ASSUME NEW body, NEW needle, IsList(body), IsList(needle), NEW j \in Nat \ {0},
         At(body, j, needle)
  PROVE  /\ j + Len(needle) <= Len(body) + 1
         /\ \A k \in 1 .. Len(needle) : body[j + k - 1] = needle[k]
  <1>1. Len(body) \in Nat /\ Len(needle) \in Nat /\ body \in Seq(ToSet(body))
    BY ListParts DEF IsList
  <1>2. /\ j + Len(needle) <= Len(body) + 1
        /\ SubSeq(body, j, j + Len(needle) - 1) = needle
    BY DEF At
  <1>3. \A k \in 1 .. Len(needle) : SubSeq(body, j, j + Len(needle) - 1)[k] = body[j + k - 1]
    BY <1>1, <1>2
  <1>4. QED
    BY <1>2, <1>3

LEMMA FirstMatch ==
  ASSUME NEW body, NEW needle, IsList(body), NEW i \in Nat,
         \E j \in i .. Len(body) : At(body, j, needle)
  PROVE  /\ First(body, needle, i) \in i .. Len(body)
         /\ At(body, First(body, needle, i), needle)
         /\ \A k \in i .. First(body, needle, i) - 1 : ~At(body, k, needle)
  <1> DEFINE T == {j \in i .. Len(body) : At(body, j, needle)}
  <1>1. Len(body) \in Nat
    BY ListParts
  <1>2. T \in SUBSET Nat /\ T # {}
    BY <1>1
  <1>3. PICK j \in T : \A k \in T : j <= k
    BY <1>2, LeastNumber
  <1>4. j \in i .. Len(body) /\ At(body, j, needle)
    OBVIOUS
  <1>5. \A k \in i .. j - 1 : ~At(body, k, needle)
    <2> SUFFICES ASSUME NEW k \in i .. j - 1, At(body, k, needle) PROVE FALSE
      OBVIOUS
    <2>1. k \in i .. Len(body) /\ k < j
      BY <1>1, <1>4
    <2>2. k \in T
      BY <2>1
    <2>3. QED
      BY <1>1, <1>3, <1>4, <2>1, <2>2
  <1>6. QED
    BY <1>4, <1>5 DEF First

\* Two matches do not overlap: "@" is no digit.
LEMMA NoOverlap ==
  ASSUME NEW body, NEW number, IsList(body), IsList(number),
         \A k \in 1 .. Len(number) : number[k] \in Digits,
         NEW j \in Nat \ {0}, NEW k \in Nat \ {0}, j < k,
         At(body, j, Needle(number)), At(body, k, Needle(number))
  PROVE  k >= j + Len(Needle(number))
  <1>1. /\ IsList(Needle(number)) /\ Len(number) \in Nat
        /\ Len(Needle(number)) = Len(number) + 1 /\ Needle(number)[1] = "@"
        /\ \A n \in 1 .. Len(number) : Needle(number)[n + 1] = number[n]
    BY NeedleParts
  <1>2. body[k + 1 - 1] = Needle(number)[1]
    BY <1>1, AtParts
  <1>3. body[k] = "@"
    BY <1>1, <1>2
  <1>4. SUFFICES ASSUME k < j + Len(Needle(number)) PROVE FALSE
    BY <1>1
  <1>5. k - j \in 1 .. Len(number) /\ k - j + 1 \in 1 .. Len(Needle(number))
    BY <1>1, <1>4
  <1>6. body[j + (k - j + 1) - 1] = Needle(number)[k - j + 1]
    <2>1. \A n \in 1 .. Len(Needle(number)) : body[j + n - 1] = Needle(number)[n]
      BY <1>1, AtParts
    <2>2. QED
      BY <1>5, <2>1
  <1>7. body[k] = number[k - j]
    BY <1>1, <1>5, <1>6
  <1>8. body[k] \in Digits
    BY <1>5, <1>7
  <1>9. QED
    BY <1>3, <1>8 DEF Digits

\* The search finds the number when a match somewhere ends where the number ends, and only then.
LEMMA SearchFinds ==
  ASSUME NEW body, NEW number, IsList(body), IsList(number),
         \A k \in 1 .. Len(number) : number[k] \in Digits
  PROVE  body_mentions_number(body, number) <=>
         /\ number # <<>>
         /\ \E j \in 1 .. Len(body) : /\ At(body, j, Needle(number))
                                      /\ NumberEnds(body, j + Len(Needle(number)))
  <1> DEFINE needle == Needle(number)
             n == Len(body)
             w == Len(needle)
             Good(j) == At(body, j, needle) /\ NumberEnds(body, j + w)
             Finds(i) == \E j \in i .. n : Good(j)
             g == [i \in 1 .. n + 1 + w |-> Finds(i)]
  <1>1. /\ n \in Nat /\ w \in Nat /\ w >= 1 /\ IsList(needle)
        /\ \A j, k \in Nat \ {0} : At(body, j, needle) /\ At(body, k, needle) /\ j < k => k >= j + w
    <2>1. /\ n \in Nat /\ w \in Nat /\ w >= 1 /\ IsList(needle)
          /\ \A k \in 1 .. Len(number) : number[k] \in Digits
      BY NeedleParts, ListParts
    <2>2. ASSUME NEW j \in Nat \ {0}, NEW k \in Nat \ {0}, At(body, j, needle), At(body, k, needle), j < k
          PROVE  k >= j + w
      BY <2>1, <2>2, NoOverlap
    <2>3. QED
      BY <2>1, <2>2
  <1>2. ASSUME NEW i \in 1 .. n + 1 + w, \E j \in i .. n : At(body, j, needle)
        PROVE  /\ First(body, needle, i) \in i .. n
               /\ At(body, First(body, needle, i), needle)
               /\ \A k \in i .. First(body, needle, i) - 1 : ~At(body, k, needle)
               /\ First(body, needle, i) + w \in 1 .. n + 1 + w
    <2>1. i \in Nat
      BY <1>1
    <2>2. /\ First(body, needle, i) \in i .. n
          /\ At(body, First(body, needle, i), needle)
          /\ \A k \in i .. First(body, needle, i) - 1 : ~At(body, k, needle)
      BY <1>1, <1>2, <2>1, FirstMatch
    <2> HIDE DEF n, w, needle
    <2>3. QED
      BY <1>1, <2>2
  <1> HIDE DEF needle, n, w
  <1>3. ASSUME NEW i \in 1 .. n + 1 + w, \E j \in i .. n : At(body, j, needle)
        PROVE  Finds(i) <=> \/ NumberEnds(body, First(body, needle, i) + w)
                            \/ Finds(First(body, needle, i) + w)
    <2> DEFINE j == First(body, needle, i)
    <2>1. /\ j \in i .. n /\ At(body, j, needle) /\ \A k \in i .. j - 1 : ~At(body, k, needle)
          /\ j \in Nat \ {0}
      BY <1>1, <1>2, <1>3
    <2> HIDE DEF j
    <2>2. ASSUME Finds(i), ~NumberEnds(body, j + w) PROVE Finds(j + w)
      <3>1. PICK k \in i .. n : Good(k)
        BY <2>2
      <3>2. k # j /\ ~(k < j) /\ k \in Nat \ {0}
        BY <1>1, <2>1, <2>2, <3>1
      <3>3. k >= j + w
        BY <1>1, <2>1, <3>1, <3>2
      <3>4. k \in j + w .. n
        BY <1>1, <2>1, <3>1, <3>3
      <3>5. QED
        BY <3>1, <3>4
    <2>3. ASSUME NumberEnds(body, j + w) PROVE Finds(i)
      BY <2>1, <2>3
    <2>4. ASSUME Finds(j + w) PROVE Finds(i)
      <3>1. PICK k \in j + w .. n : Good(k)
        BY <2>4
      <3>2. k \in i .. n
        BY <1>1, <2>1, <3>1
      <3>3. QED
        BY <3>1, <3>2
    <2>5. QED
      BY <2>2, <2>3, <2>4 DEF j
  <1>4. ASSUME NEW i \in 1 .. n + 1 + w
        PROVE  Finds(i) = SearchStep(g, body, needle, i)
    <2>1. CASE \E j \in i .. n : At(body, j, needle)
      <3>1. g[First(body, needle, i) + w] = Finds(First(body, needle, i) + w)
        BY <1>2, <2>1
      <3> HIDE DEF g, Finds
      <3>2. SearchStep(g, body, needle, i)
              <=> \/ NumberEnds(body, First(body, needle, i) + w)
                  \/ Finds(First(body, needle, i) + w)
        BY <2>1, <3>1 DEF SearchStep, n, w
      <3>3. QED
        BY <1>3, <2>1, <3>2 DEF SearchStep, Finds
    <2>2. CASE \A j \in i .. n : ~At(body, j, needle)
      BY <2>2 DEF SearchStep, n
    <2>3. QED
      BY <2>1, <2>2
  <1>5. Searched(g, body, needle)
    BY <1>4 DEF Searched, n, w
  <1>6. PICK f : /\ Searched(f, body, needle)
                 /\ body_mentions_number(body, number) <=> number # <<>> /\ f[1]
    BY <1>5, SearchUnfolded DEF needle
  <1>7. ASSUME NEW i \in 1 .. n + 1 + w, ~(f[i] <=> Finds(i))
        PROVE  \E k \in 1 .. n + 1 + w : i < k /\ ~(f[k] <=> Finds(k))
    <2>1. f[i] = SearchStep(f, body, needle, i)
      BY <1>6 DEF Searched, n, w
    <2>2. CASE \A j \in i .. n : ~At(body, j, needle)
      <3>1. ~f[i]
        BY <2>1, <2>2 DEF SearchStep, n
      <3>2. QED
        BY <1>7, <2>2, <3>1
    <2>3. CASE \E j \in i .. n : At(body, j, needle)
      <3> DEFINE k == First(body, needle, i) + w
      <3>1. k \in 1 .. n + 1 + w /\ i < k
        BY <1>1, <1>2, <2>3
      <3>2. f[i] <=> NumberEnds(body, k) \/ f[k]
        BY <2>1, <2>3 DEF SearchStep, n, w
      <3>3. Finds(i) <=> NumberEnds(body, k) \/ Finds(k)
        BY <1>3, <2>3
      <3> HIDE DEF k, Finds
      <3>4. QED
        BY <1>7, <3>1, <3>2, <3>3
    <2>4. QED
      BY <2>2, <2>3
  <1> HIDE DEF Finds
  <1>8. f[1] <=> Finds(1)
    <2> SUFFICES ASSUME ~(f[1] <=> Finds(1)) PROVE FALSE
      OBVIOUS
    <2> DEFINE T == {n + 1 + w - i : i \in {i \in 1 .. n + 1 + w : ~(f[i] <=> Finds(i))}}
    <2>1. T \in SUBSET Nat /\ T # {}
      BY <1>1
    <2>2. PICK x \in T : \A y \in T : x <= y
      BY <2>1, LeastNumber
    <2>3. PICK i \in 1 .. n + 1 + w : ~(f[i] <=> Finds(i)) /\ x = n + 1 + w - i
      BY <2>2
    <2>4. PICK k \in 1 .. n + 1 + w : i < k /\ ~(f[k] <=> Finds(k))
      BY <1>7, <2>3
    <2>5. n + 1 + w - k \in T /\ n + 1 + w - k < x
      BY <1>1, <2>3, <2>4
    <2> HIDE DEF T
    <2>6. x \in Nat /\ x <= n + 1 + w - k
      BY <2>1, <2>2, <2>5
    <2>7. QED
      BY <1>1, <2>5, <2>6
  <1>9. QED
    BY <1>6, <1>8 DEF Finds, needle, n, w

LEMMA IntervalSize ==
  ASSUME NEW a \in Int, NEW b \in Int, NEW w \in Nat, b - a + 1 = w
  PROVE  Cardinality(a .. b) = w
  <1>1. Cardinality(a .. b) = IF a > b THEN 0 ELSE b - a + 1
    BY FS_Interval
  <1>2. a > b => w = 0
    OBVIOUS
  <1>3. QED
    BY <1>1, <1>2

LEMMA TagIs ==
  ASSUME NEW body, NEW number, IsList(body), IsList(number),
         \A k \in 1 .. Len(number) : number[k] \in Digits,
         NEW j \in 1 .. Len(body), At(body, j, Needle(number)),
         NumberEnds(body, j + Len(Needle(number)))
  PROVE  TagAt(body, j) = number /\ body[j] = "@"
  <1> DEFINE n == Len(body)
             w == Len(number)
             run == {x \in j + 1 .. n : \A k \in j + 1 .. x : body[k] \in Digits}
  <1>1. /\ IsList(Needle(number)) /\ w \in Nat /\ n \in Nat /\ Len(Needle(number)) = w + 1
        /\ Needle(number)[1] = "@" /\ \A k \in 1 .. w : Needle(number)[k + 1] = number[k]
    BY NeedleParts, ListParts
  <1>2. /\ j + Len(Needle(number)) <= n + 1
        /\ \A k \in 1 .. Len(Needle(number)) : body[j + k - 1] = Needle(number)[k]
    BY <1>1, AtParts
  <1>3. body[j] = "@"
    <2>1. body[j + 1 - 1] = "@"
      BY <1>1, <1>2
    <2>2. QED
      BY <1>1, <2>1
  <1>4. j + w <= n /\ \A k \in 1 .. w : body[j + k] = number[k]
    <2>1. ASSUME NEW k \in 1 .. w PROVE body[j + k] = number[k]
      <3>1. k + 1 \in 1 .. Len(Needle(number)) /\ j + (k + 1) - 1 = j + k
        BY <1>1
      <3>2. body[j + (k + 1) - 1] = Needle(number)[k + 1]
        BY <1>2, <3>1
      <3>3. QED
        BY <1>1, <3>1, <3>2
    <2>2. QED
      BY <1>1, <1>2, <2>1
  <1>5. j + w + 1 > n \/ body[j + w + 1] \notin Digits
    BY <1>1 DEF NumberEnds
  <1>6. run = j + 1 .. j + w
    <2>1. ASSUME NEW x \in j + 1 .. j + w PROVE x \in run
      <3>1. x \in j + 1 .. n
        BY <1>1, <1>4
      <3>2. ASSUME NEW k \in j + 1 .. x PROVE body[k] \in Digits
        <4>1. k - j \in 1 .. w /\ j + (k - j) = k
          BY <1>1
        <4>2. QED
          BY <1>4, <4>1
      <3>3. QED
        BY <3>1, <3>2
    <2>2. ASSUME NEW x \in run PROVE x \in j + 1 .. j + w
      <3>1. x \in j + 1 .. n /\ \A k \in j + 1 .. x : body[k] \in Digits
        OBVIOUS
      <3>2. x > j + w => j + w + 1 \in j + 1 .. x /\ ~(j + w + 1 > n)
        BY <1>1, <3>1
      <3>3. QED
        BY <1>1, <1>5, <3>1, <3>2
    <2>3. QED
      BY <2>1, <2>2
  <1>7. Cardinality(run) = w
    <2>1. j + 1 \in Int /\ j + w \in Int /\ j + w - (j + 1) + 1 = w
      BY <1>1
    <2>2. PICK a \in Int, b \in Int : a = j + 1 /\ b = j + w
      BY <2>1
    <2>3. b - a + 1 = w
      BY <2>1, <2>2
    <2>4. Cardinality(a .. b) = w
      BY <1>1, <2>3, IntervalSize
    <2>5. QED
      BY <1>6, <2>2, <2>4
  <1> HIDE DEF run
  <1>8. TagAt(body, j) = SubSeq(body, j + 1, j + w)
    BY <1>7 DEF TagAt, run
  <1>9. SubSeq(body, j + 1, j + w) = number
    <2>1. body \in Seq(ToSet(body)) /\ number \in Seq(ToSet(number))
      BY DEF IsList
    <2>2. /\ SubSeq(body, j + 1, j + w) \in Seq(ToSet(body))
          /\ Len(SubSeq(body, j + 1, j + w)) = w
          /\ \A k \in 1 .. w : SubSeq(body, j + 1, j + w)[k] = body[j + k]
      BY <1>1, <1>4, <2>1
    <2>3. /\ DOMAIN SubSeq(body, j + 1, j + w) = 1 .. w /\ DOMAIN number = 1 .. w
          /\ \A k \in 1 .. w : SubSeq(body, j + 1, j + w)[k] = number[k]
      BY <1>4, <2>1, <2>2
    <2> DEFINE tag == SubSeq(body, j + 1, j + w)
    <2> HIDE DEF tag
    <2>4. /\ tag \in Seq(ToSet(body)) /\ Len(tag) = w /\ Len(number) = w
          /\ \A k \in 1 .. w : tag[k] = number[k]
      BY <2>2, <2>3 DEF tag
    <2> HIDE DEF w
    <2>5. tag = [k \in 1 .. w |-> tag[k]]
      BY <2>4
    <2>6. number = [k \in 1 .. w |-> number[k]]
      BY <2>1, <2>4
    <2>7. tag = number
      BY <2>4, <2>5, <2>6
    <2>8. QED
      BY <2>7 DEF tag
  <1>10. QED
    BY <1>3, <1>8, <1>9

\* And a tag, whatever is in it, is a match of its own number that ends where the number ends.
LEMMA TagMatches ==
  ASSUME NEW body, IsList(body), NEW j \in 1 .. Len(body), body[j] = "@"
  PROVE  LET number == TagAt(body, j)
         IN  /\ IsList(number) /\ \A k \in 1 .. Len(number) : number[k] \in Digits
             /\ At(body, j, Needle(number)) /\ NumberEnds(body, j + Len(Needle(number)))
  <1> DEFINE n == Len(body)
             number == TagAt(body, j)
             run == {x \in j + 1 .. n : \A k \in j + 1 .. x : body[k] \in Digits}
             T == {x \in j + 1 .. n + 1 : x = n + 1 \/ body[x] \notin Digits}
  <1>1. n \in Nat /\ j \in Nat /\ body \in Seq(ToSet(body))
    BY ListParts DEF IsList
  <1>2. T \in SUBSET Nat /\ T # {}
    <2>1. n + 1 \in T
      BY <1>1
    <2>2. QED
      BY <1>1, <2>1
  <1>3. PICK end \in T : \A x \in T : end <= x
    BY <1>2, LeastNumber
  <1>4. /\ end \in j + 1 .. n + 1 /\ (end > n \/ body[end] \notin Digits)
        /\ \A k \in j + 1 .. end - 1 : k \in 1 .. n /\ body[k] \in Digits
    <2>1. end \in j + 1 .. n + 1 /\ (end > n \/ body[end] \notin Digits)
      BY <1>1
    <2>2. ASSUME NEW k \in j + 1 .. end - 1 PROVE k \in 1 .. n /\ body[k] \in Digits
      <3>1. k \in 1 .. n /\ k \in j + 1 .. n + 1 /\ k < end
        BY <1>1, <2>1
      <3>2. k \notin T
        BY <1>1, <1>3, <2>1, <3>1
      <3>3. QED
        BY <3>1, <3>2
    <2>3. QED
      BY <2>1, <2>2
  <1> HIDE DEF T
  <1> DEFINE w == end - 1 - j
  <1>5. w \in Nat /\ end = j + w + 1 /\ j + w <= n
    BY <1>1, <1>4
  <1> HIDE DEF w
  <1>6. run = j + 1 .. j + w
    <2>1. ASSUME NEW x \in j + 1 .. j + w PROVE x \in run
      <3>1. x \in j + 1 .. n /\ \A k \in j + 1 .. x : k \in j + 1 .. end - 1
        BY <1>1, <1>5
      <3>2. QED
        BY <1>4, <3>1
    <2>2. ASSUME NEW x \in run PROVE x \in j + 1 .. j + w
      <3>1. x \in j + 1 .. n /\ \A k \in j + 1 .. x : body[k] \in Digits
        OBVIOUS
      <3>2. x > j + w => end \in j + 1 .. x /\ ~(end > n)
        BY <1>1, <1>5, <3>1
      <3>3. QED
        BY <1>1, <1>4, <1>5, <3>1, <3>2
    <2>3. QED
      BY <2>1, <2>2
  <1>7. Cardinality(run) = w
    <2>1. j + 1 \in Int /\ j + w \in Int /\ j + w - (j + 1) + 1 = w
      BY <1>1, <1>5
    <2>2. PICK a \in Int, b \in Int : a = j + 1 /\ b = j + w
      BY <2>1
    <2>3. b - a + 1 = w
      BY <1>1, <1>5, <2>2
    <2>4. Cardinality(a .. b) = w
      BY <1>5, <2>3, IntervalSize
    <2>5. QED
      BY <1>6, <2>2, <2>4
  <1> HIDE DEF run
  <1>8. number = SubSeq(body, j + 1, j + w)
    BY <1>7 DEF TagAt, run
  <1>9. /\ number \in Seq(ToSet(body)) /\ Len(number) = w
        /\ \A k \in 1 .. w : number[k] = body[j + k]
    BY <1>1, <1>5, <1>8
  <1> HIDE DEF number
  <1>10. IsList(number) /\ \A k \in 1 .. Len(number) : number[k] \in Digits
    <2>1. ASSUME NEW k \in 1 .. w PROVE number[k] \in Digits
      <3>1. j + k \in j + 1 .. end - 1
        BY <1>1, <1>5
      <3>2. QED
        BY <1>4, <1>9, <3>1
    <2>2. QED
      BY <1>9, <2>1, ListOf
  <1> DEFINE needle == Needle(number)
             match == SubSeq(body, j, j + w)
  <1>11. /\ IsList(needle) /\ Len(needle) = w + 1 /\ needle[1] = "@"
         /\ \A k \in 1 .. w : needle[k + 1] = number[k]
    BY <1>9, <1>10, NeedleParts
  <1>12. /\ match \in Seq(ToSet(body)) /\ Len(match) = w + 1
         /\ \A k \in 1 .. w + 1 : match[k] = body[j + k - 1]
    BY <1>1, <1>5
  <1> HIDE DEF needle, match
  <1>13. ASSUME NEW k \in 1 .. w + 1 PROVE match[k] = needle[k]
    <2>1. CASE k = 1
      <3>1. match[1] = body[j + 1 - 1] /\ j + 1 - 1 = j
        BY <1>1, <1>5, <1>12
      <3>2. QED
        BY <1>11, <2>1, <3>1
    <2>2. CASE k # 1
      <3>1. k - 1 \in 1 .. w /\ (k - 1) + 1 = k /\ j + k - 1 = j + (k - 1)
        BY <1>1, <1>5, <2>2
      <3>2. needle[k] = number[k - 1] /\ number[k - 1] = body[j + k - 1]
        BY <1>9, <1>11, <3>1
      <3>3. QED
        BY <1>12, <3>2
    <2>3. QED
      BY <2>1, <2>2
  <1>14. match = needle
    <2>1. needle \in Seq(ToSet(needle))
      BY <1>11 DEF IsList
    <2>2. match = [k \in 1 .. w + 1 |-> match[k]]
      BY <1>5, <1>12
    <2>3. needle = [k \in 1 .. w + 1 |-> needle[k]]
      BY <1>5, <1>11, <2>1
    <2>4. QED
      BY <1>13, <2>2, <2>3
  <1>15. At(body, j, needle)
    <2>1. j + Len(needle) <= Len(body) + 1 /\ j + Len(needle) - 1 = j + w
      BY <1>1, <1>5, <1>11
    <2>2. QED
      BY <1>14, <2>1 DEF At, match
  <1>16. NumberEnds(body, j + Len(needle))
    <2>1. j + Len(needle) = end
      BY <1>1, <1>5, <1>11
    <2>2. QED
      BY <1>4, <2>1 DEF NumberEnds
  <1>17. QED
    BY <1>10, <1>15, <1>16 DEF number, needle

\* The number the configuration has is the one WA_SELF_NUMBER writes.
LEMMA SelfNumber ==
  ASSUME NEW raw, IsList(raw)
  PROVE  LET number == normalise_self_number(raw)
         IN  /\ IsList(number) /\ WrittenAs(number, raw)
             /\ \A k \in 1 .. Len(number) : number[k] \in Digits
  <1> DEFINE number == normalise_self_number(raw)
             S == DigitsAt(raw)
             written == {i \in DOMAIN raw : raw[i] \in Digits /\ "@" \notin {raw[j] : j \in 1 .. i}}
  <1>1. S \in SUBSET Nat /\ IsFiniteSet(S) /\ \A i \in S : raw[i] \in Digits
    <2>1. S \in SUBSET DOMAIN raw /\ DOMAIN raw = 1 .. Len(raw) /\ IsFiniteSet(DOMAIN raw)
          /\ Len(raw) \in Nat
      BY ListParts DEF DigitsAt
    <2>2. QED
      BY <2>1, FS_Subset DEF DigitsAt
  <1>2. written = S
    BY DEF DigitsAt
  <1> HIDE DEF S, written
  <1>3. /\ Cardinality(S) \in Nat /\ DOMAIN Ascending(S) = 1 .. Cardinality(S)
        /\ Ascending(S) \in Seq(S) /\ Len(Ascending(S)) = Cardinality(S)
        /\ \A i \in S : Rank(S, i) \in 1 .. Cardinality(S) /\ Ascending(S)[Rank(S, i)] = i
    BY <1>1, InOrder
  <1>4. number = [n \in 1 .. Cardinality(S) |-> raw[Ascending(S)[n]]]
    BY <1>3 DEF normalise_self_number, S
  <1> HIDE DEF number
  <1>5. \A k \in 1 .. Cardinality(S) : number[k] \in Digits
    <2>1. \A k \in 1 .. Cardinality(S) : Ascending(S)[k] \in S
      BY <1>3
    <2>2. QED
      BY <1>1, <1>4, <2>1
  <1>6. Len(number) = Cardinality(S) /\ number \in Seq({number[k] : k \in 1 .. Cardinality(S)})
    BY <1>3, <1>4, FunctionIsList
  <1>7. \A i \in S : number[Rank(S, i)] = raw[i]
    BY <1>3, <1>4
  <1>8. WrittenAs(number, raw)
    BY <1>2, <1>6, <1>7 DEF WrittenAs, written
  <1>9. IsList(number)
    BY <1>6, ListOf
  <1>10. QED
    BY <1>5, <1>6, <1>8, <1>9 DEF number

(***************************************************************************)
(* What a mention is.                                                      *)
(***************************************************************************)
LEMMA MentionIsTag ==
  ASSUME NEW body, NEW raw, IsList(body), IsList(raw),
         body_mentions_number(body, normalise_self_number(raw))
  PROVE  \E tag \in Tags(body) \ {<<>>} : WrittenAs(tag, raw)
  <1> DEFINE number == normalise_self_number(raw)
  <1>1. /\ IsList(number) /\ WrittenAs(number, raw)
        /\ \A k \in 1 .. Len(number) : number[k] \in Digits
    BY SelfNumber
  <1> HIDE DEF number
  <1>2. /\ number # <<>>
        /\ \E j \in 1 .. Len(body) :
             At(body, j, Needle(number)) /\ NumberEnds(body, j + Len(Needle(number)))
    BY <1>1, SearchFinds DEF number
  <1>3. PICK j \in 1 .. Len(body) :
          At(body, j, Needle(number)) /\ NumberEnds(body, j + Len(Needle(number)))
    BY <1>2
  <1>4. TagAt(body, j) = number /\ body[j] = "@"
    BY <1>1, <1>3, TagIs
  <1>5. j \in DOMAIN body
    BY ListParts
  <1>6. number \in Tags(body)
    BY <1>4, <1>5 DEF Tags
  <1>7. QED
    BY <1>1, <1>2, <1>6

LEMMA WrittenOnce ==
  ASSUME NEW raw, NEW tag, IsList(raw), IsList(tag), WrittenAs(tag, raw)
  PROVE  tag = normalise_self_number(raw)
  <1> DEFINE S == DigitsAt(raw)
             written == {i \in DOMAIN raw : raw[i] \in Digits /\ "@" \notin {raw[j] : j \in 1 .. i}}
  <1>1. S \in SUBSET Nat /\ IsFiniteSet(S)
    <2>1. S \in SUBSET DOMAIN raw /\ DOMAIN raw = 1 .. Len(raw) /\ IsFiniteSet(DOMAIN raw)
          /\ Len(raw) \in Nat
      BY ListParts DEF DigitsAt
    <2>2. QED
      BY <2>1, FS_Subset
  <1>2. written = S
    BY DEF DigitsAt
  <1>3. Len(tag) = Cardinality(S) /\ \A i \in S : tag[Rank(S, i)] = raw[i]
    BY <1>2 DEF WrittenAs
  <1> HIDE DEF S, written
  <1>4. /\ Cardinality(S) \in Nat /\ DOMAIN Ascending(S) = 1 .. Cardinality(S)
        /\ \A n \in 1 .. Cardinality(S) :
             Ascending(S)[n] \in S /\ Rank(S, Ascending(S)[n]) = n
    <2>1. Ascending(S) \in Seq(S)
      BY <1>1, InOrder
    <2>2. QED
      BY <1>1, <2>1, InOrder
  <1>5. ASSUME NEW n \in 1 .. Cardinality(S) PROVE tag[n] = raw[Ascending(S)[n]]
    BY <1>3, <1>4
  <1>6. tag = [n \in 1 .. Cardinality(S) |-> tag[n]]
    <2>1. tag \in Seq(ToSet(tag))
      BY DEF IsList
    <2>2. QED
      BY <1>3, <1>4, <2>1
  <1>7. normalise_self_number(raw) = [n \in 1 .. Cardinality(S) |-> raw[Ascending(S)[n]]]
    BY <1>4 DEF normalise_self_number, S
  <1>8. QED
    BY <1>5, <1>6, <1>7

LEMMA TagIsMention ==
  ASSUME NEW body, NEW raw, IsList(body), IsList(raw),
         NEW tag \in Tags(body) \ {<<>>}, WrittenAs(tag, raw)
  PROVE  body_mentions_number(body, normalise_self_number(raw))
  <1>1. PICK j \in DOMAIN body : body[j] = "@" /\ tag = TagAt(body, j)
    BY DEF Tags
  <1>2. j \in 1 .. Len(body)
    BY ListParts
  <1>3. /\ IsList(tag) /\ \A k \in 1 .. Len(tag) : tag[k] \in Digits
        /\ At(body, j, Needle(tag)) /\ NumberEnds(body, j + Len(Needle(tag)))
    BY <1>1, <1>2, TagMatches
  <1>4. body_mentions_number(body, tag)
    BY <1>2, <1>3, SearchFinds
  <1>5. QED
    BY <1>3, <1>4, WrittenOnce

LEMMA EmptyIsList == IsList(<<>>)
  <1>1. <<>> \in Seq({})
    OBVIOUS
  <1>2. QED
    BY <1>1, ListOf

\* A body that is put together of captions is a text as well.
LEMMA BodyIsList ==
  ASSUME NEW e \in Envelopes
  PROVE  IsList(MessageBody(e.payload))
  <1> DEFINE p == e.payload
  <1>1. ASSUME NEW field, field \in {p.image, p.audio, p.document} PROVE IsList(CaptionOf(field))
    <2>1. field # <<>> => IsList(Head(field).caption)
      BY <1>1, IngressAssumption
    <2>2. QED
      BY <2>1, EmptyIsList DEF CaptionOf, Fetched
  <1>2. ASSUME NEW line, NEW lines, IsList(line), IsList(lines) PROVE IsList(Lines(line, lines))
    <2>1. IsList(<<"nl">>)
      <3>1. <<"nl">> \in Seq({"nl"})
        OBVIOUS
      <3>2. QED
        BY <3>1, ListOf
    <2>2. IsList(line \o lines) /\ IsList((line \o <<"nl">>) \o lines)
      BY <1>2, <2>1, JoinIsList
    <2>3. IsList(line \o <<"nl">> \o lines)
      BY <2>2
    <2>4. QED
      BY <2>2, <2>3 DEF Lines
  <1>3. IsList(CaptionOf(p.image)) /\ IsList(CaptionOf(p.audio)) /\ IsList(CaptionOf(p.document))
    BY <1>1
  <1>4. IsList(Captions(p))
    BY <1>2, <1>3 DEF Captions
  <1>5. IsList(p.body)
    BY IngressAssumption
  <1>6. QED
    BY <1>4, <1>5 DEF MessageBody

LEMMA MessageParts ==
  ASSUME NEW p
  PROVE  LET m == into_message(p)
         IN  /\ m.kind # "call" /\ m.body = MessageBody(p) /\ m.reply_to = p.replied_to_id
             /\ m.reacted_message_id = "" /\ m.chat_id = p.chat_id /\ "mentioned" \in DOMAIN m
  BY DEF into_message

LEMMA ReactionParts ==
  ASSUME NEW p
  PROVE  LET m == into_reaction(p)
         IN  /\ m.kind # "call" /\ m.body = <<>> /\ m.reply_to = ""
             /\ m.reacted_message_id = p.reacted_message_id
  BY DEF into_reaction, Bare

\* What a message summons its agent by.
SummonedBy(e, v, known) ==
  \/ e.event = "call.offer"
  \/ \E tag \in Tags(MessageBody(e.payload)) \ {<<>>} : WrittenAs(tag, v.self_number)
  \/ e.event = "message" /\ e.payload.replied_to_id \in known
  \/ e.event = "message.reaction" /\ e.payload.reacted_message_id \in known

LEMMA MentionSummons ==
  ASSUME NEW e \in Envelopes, Conversational(e), booted \in Envs, sent \subseteq BotIds,
         Mentioned(into_inbound(e))
  PROVE  SummonedBy(e, booted, sent)
  <1> DEFINE m == into_inbound(e)
             number == normalise_self_number(booted.self_number)
  <1>1. "" \notin sent /\ IsList(booted.self_number) /\ Config.self_number = number
    BY IngressAssumption DEF Config, from_env
  <1>2. \/ m.kind = "call" \/ body_mentions_number(m.body, number)
        \/ m.reply_to \in sent \/ m.reacted_message_id \in sent
    BY <1>1 DEF Mentioned, is_reply_to_bot
  <1>3. CASE e.event = "message"
    <2>1. m = into_message(e.payload)
      BY <1>3 DEF into_inbound
    <2>2. \/ body_mentions_number(MessageBody(e.payload), number)
          \/ e.payload.replied_to_id \in sent
      BY <1>1, <1>2, <2>1, MessageParts
    <2>3. QED
      BY <1>1, <1>3, <2>2, BodyIsList, MentionIsTag DEF SummonedBy
  <1>4. CASE e.event = "message.reaction"
    <2>1. m = into_reaction(e.payload)
      BY <1>4 DEF into_inbound
    <2>2. body_mentions_number(<<>>, number) \/ e.payload.reacted_message_id \in sent
      BY <1>1, <1>2, <2>1, ReactionParts
    <2>3. ~body_mentions_number(<<>>, number)
      <3> SUFFICES ASSUME body_mentions_number(<<>>, number) PROVE FALSE
        OBVIOUS
      <3>1. \E tag \in Tags(<<>>) \ {<<>>} : TRUE
        BY <1>1, EmptyIsList, MentionIsTag
      <3>2. DOMAIN <<>> = {}
        OBVIOUS
      <3>3. QED
        BY <3>1, <3>2 DEF Tags
    <2>4. QED
      BY <1>4, <2>2, <2>3 DEF SummonedBy
  <1>5. CASE e.event = "call.offer"
    BY <1>5 DEF SummonedBy
  <1>6. QED
    BY <1>3, <1>4, <1>5 DEF Conversational

\* Whatever is queued, held or delivered and stamped as a mention is one.
Honest(p) == p.msg.mentioned => SummonedBy(p.event, p.vetted, p.known)

MentionInv ==
  /\ \A p \in pending : Honest(p)
  /\ \A w \in work : Honest(w)
  /\ \A d \in delivered : Honest(d.entry)

LEMMA InitMention == Init => MentionInv
  BY DEF Init, MentionInv

LEMMA EntryMention ==
  ASSUME NEW e \in Envelopes, Conversational(e), booted \in Envs, sent \subseteq BotIds
  PROVE  Honest(Entry(e))
  <1>1. Stamped(into_inbound(e)).mentioned = Mentioned(into_inbound(e))
    BY DEF Stamped
  <1>2. /\ Entry(e).msg = Stamped(into_inbound(e)) /\ Entry(e).event = e
        /\ Entry(e).vetted = booted /\ Entry(e).known = sent
    BY DEF Entry
  <1>3. QED
    BY <1>1, <1>2, MentionSummons DEF Honest

LEMMA NextMention ==
  ASSUME IInv, MentionInv, [Next]_vars
  PROVE  MentionInv'
  <1>1. /\ \A p \in pending : Honest(p)
        /\ \A w \in work : Honest(w)
        /\ \A d \in delivered : Honest(d.entry)
    BY DEF MentionInv
  <1>2. /\ \A p \in pending' : Honest(p)
        /\ \A w \in work' : Honest(w)
        /\ \A d \in delivered' : Honest(d.entry)
    <2>1. CASE UNCHANGED vars
      BY <1>1, <2>1 DEF vars
    <2>2. CASE \/ \E e \in Envs : Edit(e)
               \/ Start \/ Stop
               \/ \E id \in BotIds : BotSends(id)
      <3>1. pending' = pending /\ work' \subseteq work /\ delivered' = delivered
        BY <2>2 DEF Edit, Start, Stop, BotSends
      <3>2. QED
        BY <1>1, <3>1
    <2>3. ASSUME NEW e \in Envelopes, Webhook(e)
          PROVE  /\ \A p \in pending' : Honest(p)
                 /\ \A w \in work' : Honest(w)
                 /\ \A d \in delivered' : Honest(d.entry)
      <3>1. pending' \subseteq pending \cup {Entry(e)} /\ work' = work /\ delivered' = delivered
        BY <2>3 DEF Webhook, Filed
      <3>2. Honest(Entry(e))
        BY <2>3, EntryMention DEF Webhook, IInv, TypeOK
      <3>3. QED
        BY <1>1, <3>1, <3>2
    <2>4. ASSUME NEW p \in pending, NEW heard, Take(p, heard)
          PROVE  /\ \A q \in pending' : Honest(q)
                 /\ \A w \in work' : Honest(w)
                 /\ \A d \in delivered' : Honest(d.entry)
      <3> DEFINE q == [p EXCEPT !.msg = transcribe_audio(p.msg, heard)]
      <3>1. pending' = pending /\ work' = work \cup {q} /\ delivered' = delivered
        BY <2>4 DEF Take
      <3>2. /\ q.msg = transcribe_audio(p.msg, heard)
            /\ q.event = p.event /\ q.vetted = p.vetted /\ q.known = p.known
        OBVIOUS
      <3>3. transcribe_audio(p.msg, heard).mentioned = p.msg.mentioned
        BY DEF transcribe_audio
      <3>4. Honest(q)
        BY <1>1, <3>2, <3>3 DEF Honest
      <3>5. QED
        BY <1>1, <3>1, <3>4
    <2>5. ASSUME NEW w \in work, ForwardOk(w) \/ ForwardLost(w) \/ MoveToDead(w)
          PROVE  /\ \A p \in pending' : Honest(p)
                 /\ \A v \in work' : Honest(v)
                 /\ \A d \in delivered' : Honest(d.entry)
      <3>1. /\ work' \subseteq work /\ pending' \subseteq pending
            /\ delivered' \subseteq delivered \cup {Posted(w)}
        BY <2>5 DEF ForwardOk, ForwardLost, MoveToDead, Finished
      <3>2. Posted(w).entry = w
        BY DEF Posted
      <3>3. QED
        BY <1>1, <3>1, <3>2
    <2>6. QED
      BY <2>1, <2>2, <2>3, <2>4, <2>5 DEF Next
  <1>3. QED
    BY <1>2 DEF MentionInv

\* In a group that requires a mention no message reaches an agent that does not call on it: by a
\* call, by a tag of its whole number, or by an answer or a reaction to something it sent.
THEOREM OnlyTheSummoned ==
  Spec => []Summoned
  <1>1. ASSUME IInv, MentionInv PROVE Summoned
    <2>0. ASSUME NEW d \in delivered PROVE ChatOf(d.entry.event) # ""
      <3>1. Conversational(d.entry.event)
        BY <1>1 DEF IInv, Vetted
      <3>2. QED
        BY <3>1 DEF Conversational, KeepsMessage, KeepsCall, ChatOf, Or
    <2> SUFFICES ASSUME NEW d \in delivered,
                        ChatOf(d.entry.event) \in Groups,
                        d.entry.vetted.require_mention \in {"", "on"},
                        ChatOf(d.entry.event) \notin d.entry.vetted.free_response_chats
                 PROVE  SummonedBy(d.entry.event, d.entry.vetted, d.entry.known)
      BY <2>0 DEF Summoned, SummonedBy
    <2> DEFINE p == d.entry
               policy == from_env(p.vetted).policy
    <2>1. Honest(p) /\ p.msg.chat_id = ChatOf(p.event) /\ evaluate(policy, p.msg)
      BY <1>1 DEF IInv, MentionInv, Vetted
    <2>2. policy.require_mention /\ policy.free_response_chats = p.vetted.free_response_chats
      BY DEF from_env, Policy, env_bool_default
    <2>3. evaluate_group(policy, p.msg)
      BY <2>1 DEF evaluate, is_group
    <2>4. p.msg.mentioned
      BY <2>1, <2>2, <2>3 DEF evaluate_group
    <2>5. QED
      BY <2>1, <2>4 DEF Honest
  <1>2. Spec => [](IInv /\ MentionInv)
    BY InitInv, Inductive, InitMention, NextMention, PTL DEF Spec
  <1>3. QED
    BY <1>1, <1>2, PTL

\* And a message that tags the bot's number is let in by the policy of its group, whatever else it says.
THEOREM TagsReachTheAgent ==
  Spec => []TagsAreHeard
  <1>1. ASSUME IInv PROVE TagsAreHeard
    <2> SUFFICES ASSUME up, NEW e \in Envelopes,
                        e.event = "message", KeepsMessage(e.payload),
                        ChatOf(e) \in Groups, GroupInvited(booted, ChatOf(e)),
                        \E tag \in Tags(MessageBody(e.payload)) \ {<<>>} : WrittenAs(tag, booted.self_number)
                 PROVE  evaluate(Config.policy, Entry(e).msg)
      BY DEF TagsAreHeard
    <2> DEFINE m == into_inbound(e)
               policy == Policy(booted)
    <2>1. Valid(booted) /\ booted \in Envs
      BY <1>1 DEF IInv, TypeOK
    <2>2. m = into_message(e.payload)
      BY DEF into_inbound
    <2>3. m.body = MessageBody(e.payload) /\ m.chat_id = ChatOf(e) /\ "mentioned" \in DOMAIN m
      <3>1. m.body = MessageBody(e.payload)
        BY <2>2, MessageParts
      <3>2. m.chat_id = e.payload.chat_id /\ "mentioned" \in DOMAIN m
        BY <2>2, MessageParts
      <3>3. ChatOf(e) = e.payload.chat_id
        BY DEF ChatOf
      <3>4. QED
        BY <3>1, <3>2, <3>3
    <2>4. body_mentions_number(m.body, Config.self_number)
      <3>1. IsList(booted.self_number) /\ Config.self_number = normalise_self_number(booted.self_number)
        BY <2>1, IngressAssumption DEF Config, from_env
      <3>2. QED
        BY <2>3, <3>1, BodyIsList, TagIsMention
    <2>5. /\ Entry(e).msg.mentioned = Mentioned(m)
          /\ Entry(e).msg.chat_id = ChatOf(e)
      <3> HIDE DEF m
      <3>1. Stamped(m).mentioned = Mentioned(m) /\ Stamped(m).chat_id = m.chat_id
        BY <2>3 DEF Stamped
      <3>2. Entry(e).msg = Stamped(m)
        BY DEF Entry, m
      <3>3. QED
        BY <2>3, <3>1, <3>2
    <2>6. Entry(e).msg.mentioned
      BY <2>4, <2>5 DEF Mentioned
    <2>7. \/ policy.group_policy = "open"
          \/ /\ policy.group_policy = "allowlist"
             /\ ChatOf(e) \in policy.group_allow
      <3>1. \/ booted.group_policy = "open"
            \/ /\ booted.group_policy = "allowlist"
               /\ ChatOf(e) \in group_allow(booted)
        BY DEF GroupInvited, group_allow
      <3>2. Or(booted.group_policy, "off") = booted.group_policy
        BY <3>1 DEF Or
      <3>3. policy.group_policy = Or(booted.group_policy, "off") /\ policy.group_allow = group_allow(booted)
        BY DEF Policy
      <3> HIDE DEF policy
      <3>4. QED
        BY <3>1, <3>2, <3>3
    <2>8. Config.policy = policy
      BY DEF Config, from_env
    <2>9. QED
      BY <2>5, <2>6, <2>7, <2>8 DEF evaluate, evaluate_group, is_group
  <1>2. QED
    BY <1>1, IngressInvariant, PTL
=============================================================================
