------------------------------- MODULE Inbound --------------------------------
(***************************************************************************)
(* GOWA's webhook envelope and what the shim makes of it (src/model.rs):   *)
(* a drop, or the Inbound that is queued and later forwarded.  An absent   *)
(* or blank string is "", an absent list <<>>.  A text is a sequence of    *)
(* characters, of which "@", the digits and the blank are told apart; the  *)
(* transcripts the worker writes before the body are a field of their own. *)
(***************************************************************************)
EXTENDS Config

Blank(text) == \A i \in DOMAIN text : text[i] = " "

\* into_message, into_reaction and into_call: each keeps an event only when all of this holds.
KeepsMessage(p) == ~p.is_from_me /\ p.chat_id \notin {""} \cup NonChats /\ p.id # ""
KeepsCall(p) == p.from # "" /\ Or(p.group_jid, p.from) \notin NonChats /\ p.call_id # ""

Conversational(e) ==
  \/ e.event \in {"message", "message.reaction"} /\ KeepsMessage(e.payload)
  \/ e.event = "call.offer" /\ KeepsCall(e.payload)

\* mutant: the leading slash of a media path stays
PathAsGiven(path) == path

\* A GOWA path is [slash, root, name]: with a leading slash or not, under statics/media or not.
trim_slash(path) ==
  [slash |-> FALSE, root |-> path.root, plain |-> path.plain, bytes |-> path.bytes, secs |-> path.secs]

\* A media field with no local path (a CDN url alone) is skipped, its caption with it.
Fetched(field) == field # <<>> /\ Head(field).path # <<>>

extract_media(kind, field) ==
  IF Fetched(field)
  THEN << [kind |-> kind, gowa_path |-> trim_slash(Head(Head(field).path))] >>
  ELSE <<>>

Attached(p) ==
  extract_media("image", p.image) \o extract_media("audio", p.audio) \o extract_media("document", p.document)

\* The captions, a line each; there is no blank one.
CaptionOf(field) ==
  IF Fetched(field) /\ ~Blank(Head(field).caption) THEN Head(field).caption ELSE <<>>
Lines(line, lines) ==
  IF line = <<>> \/ lines = <<>> THEN line \o lines ELSE line \o <<"nl">> \o lines
Captions(p) == Lines(CaptionOf(p.image), Lines(CaptionOf(p.audio), CaptionOf(p.document)))

\* A caption counts as the body only when there is none.
MessageBody(p) == IF Blank(p.body) /\ Captions(p) # <<>> THEN Captions(p) ELSE p.body

into_message(p) ==
  [kind |-> "message", chat_id |-> p.chat_id, sender |-> Or(p.from, p.chat_id), id |-> p.id,
   body |-> MessageBody(p), reply_to |-> p.replied_to_id,
   quoted_body |-> IF Blank(p.quoted_body) THEN <<>> ELSE p.quoted_body,
   media |-> Attached(p), transcripts |-> <<>>, reaction |-> "", reacted_message_id |-> "",
   auto_rejected |-> FALSE, mentioned |-> FALSE, channel |-> DEFAULT_CHANNEL]

Bare(p, kind, chat, sender, id) ==
  [kind |-> kind, chat_id |-> chat, sender |-> sender, id |-> id, body |-> <<>>, reply_to |-> "",
   quoted_body |-> <<>>, media |-> <<>>, transcripts |-> <<>>, reaction |-> "", reacted_message_id |-> "",
   auto_rejected |-> FALSE, mentioned |-> FALSE, channel |-> DEFAULT_CHANNEL]

into_reaction(p) ==
  [Bare(p, "reaction", p.chat_id, Or(p.from, p.chat_id), p.id) EXCEPT
     !.reaction = p.reaction, !.reacted_message_id = p.reacted_message_id]

into_call(p) ==
  [Bare(p, "call", Or(p.group_jid, p.from), p.from, p.call_id) EXCEPT
     !.auto_rejected = p.auto_rejected]

into_inbound(e) ==
  CASE e.event = "message" -> into_message(e.payload)
    [] e.event = "message.reaction" -> into_reaction(e.payload)
    [] e.event = "call.offer" -> into_call(e.payload)

is_group(m) == m.chat_id \in Groups
-----------------------------------------------------------------------------
\* body_mentions_number looks for "@number" from the left and, when a digit follows, goes on
\* behind the match.  Scan[i] is the answer of the search that starts at character i.
At(body, i, needle) ==
  i + Len(needle) <= Len(body) + 1 /\ SubSeq(body, i, i + Len(needle) - 1) = needle

\* mutant: the match need not end where the number ends
PrefixMatch(body, end) == TRUE

NumberEnds(body, end) == end > Len(body) \/ body[end] \notin Digits

\* mutant: a longer number that begins with the bot's ends the search
FirstOnly(body, number) ==
  LET needle == <<"@">> \o number
      at     == {j \in DOMAIN body : At(body, j, needle)}
  IN  /\ number # <<>>
      /\ \E j \in at : (\A k \in at : j <= k) /\ NumberEnds(body, j + Len(needle))

body_mentions_number(body, number) ==
  LET needle == <<"@">> \o number
      Scan[i \in 1 .. Len(body) + 1 + Len(needle)] ==
        IF \A j \in i .. Len(body) : ~At(body, j, needle) THEN FALSE
        ELSE LET j   == CHOOSE j \in i .. Len(body) :
                          At(body, j, needle) /\ \A k \in i .. j - 1 : ~At(body, k, needle)
                 end == j + Len(needle)
             IN  NumberEnds(body, end) \/ Scan[end]
  IN  number # <<>> /\ Scan[1]

\* agent_body: what a message quotes comes before it, and stands alone when it is blank.
agent_body(m) ==
  (IF m.quoted_body = <<>> THEN <<>> ELSE << <<"quote", m.quoted_body>> >>)
    \o (IF m.quoted_body # <<>> /\ m.transcripts = <<>> /\ Blank(m.body) THEN <<>>
        ELSE [i \in DOMAIN m.transcripts |-> <<"transcript", m.transcripts[i]>>]
               \o (IF m.transcripts # <<>> /\ Blank(m.body) THEN <<>> ELSE << <<"text", m.body>> >>))
=============================================================================
