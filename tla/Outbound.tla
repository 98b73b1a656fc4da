------------------------------- MODULE Outbound -------------------------------
(***************************************************************************)
(* The outbound half of the shim: the agent's send, media, reaction and    *)
(* presence calls (src/server.rs), the rate limiter in front of GOWA       *)
(* (src/ratelimit.rs), GOWA's answers (src/gowa.rs), the cache of the      *)
(* ids sent (src/sent_ids.rs), and the mention check that reads it.        *)
(*                                                                         *)
(* A call runs without an await from its body to its request to GOWA, and  *)
(* again from GOWA's answer to its own: the await in between is where it   *)
(* meets other calls, inbound webhooks and the end of its connection.      *)
(* Calls with a wrong bearer or body touch no state and do not appear.     *)
(***************************************************************************)
EXTENDS Integers

CONSTANTS
  Requests,         \* calls the shim serves at the same time
  MsgIds,           \* ids WhatsApp gives to messages
  NoMsg,            \* the id of a call that has none
  PerMinute,        \* WA_SEND_RATE_PER_MIN (at least 1: the limiter clamps it)
  Refill,           \* clock ticks until a token is back: a minute / PerMinute
  MaxClock          \* bound: the clock's last tick

ASSUME OutboundAssumption ==
  /\ NoMsg \notin MsgIds
  /\ PerMinute \in Nat \ {0}
  /\ Refill \in Nat \ {0}
  /\ MaxClock \in Nat

VARIABLES
  clock,
  tat,              \* governor's state: when the bucket will be full again
  request,          \* [Requests -> [pc, kind, id]]
  delivered,        \* ids of the messages GOWA has sent for the shim
  sentIds,          \* AppState.sent_ids (in memory)
  told,             \* history: ids this process has answered the agent with
  ignored,          \* history: ids a user's reply to was taken for no mention
  opened,           \* history: when the window under observation began
  granted           \* history: sends and reactions let through since

gowa    == <<delivered, ignored>>
limiter == <<tat, opened, granted>>
vars    == <<clock, limiter, request, gowa, sentIds, told>>
-----------------------------------------------------------------------------
\* /send and /send/{image,audio,file} take the same course.
Kinds == {"message", "reaction", "presence"}
Idle == [pc |-> "idle", kind |-> "none", id |-> NoMsg]
Minute == PerMinute * Refill

TypeOK ==
  /\ clock \in Nat
  /\ tat \in Nat
  /\ request \in [Requests -> {Idle} \cup
                    [pc : {"posted", "sent"}, kind : Kinds, id : MsgIds \cup {NoMsg}]]
  /\ delivered \subseteq MsgIds
  /\ sentIds \subseteq MsgIds
  /\ told \subseteq MsgIds
  /\ ignored \subseteq MsgIds
  /\ opened \in Nat
  /\ granted \in Nat

Init ==
  /\ clock = 0
  /\ tat = 0
  /\ request = [r \in Requests |-> Idle]
  /\ delivered = {}
  /\ sentIds = {}
  /\ told = {}
  /\ ignored = {}
  /\ opened = 0
  /\ granted = 0
-----------------------------------------------------------------------------
(***************************************************************************)
(* The limiter: governor's direct rate limiter, a token bucket kept as the *)
(* instant at which it will be full.                                       *)
(***************************************************************************)
Later(a, b) == IF a > b THEN a ELSE b

HasTokenLate == tat <= clock + Minute           \* mutant: one token too many
HasToken == tat <= clock + Minute - Refill

TakeToken == tat' = Later(tat, clock) + Refill

AllCharged(kind) == TRUE                        \* mutant: presence spends tokens
ReactionsFree(kind) == kind = "message"         \* mutant: reactions spend none
\* A presence is not a send and costs nothing.
Charged(kind) == kind # "presence"

\* What WhatsApp sees as an action of the account.
Visible(kind) == kind \in {"message", "reaction"}
-----------------------------------------------------------------------------
(***************************************************************************)
(* A call.                                                                 *)
(***************************************************************************)
At(r, pc) == request[r].pc = pc

Done(r) == request' = [request EXCEPT ![r] = Idle]

\* Let through: the request to GOWA is on its way.  Without a token the call is
\* answered 429 and changes nothing.
Post(r, kind) ==
  /\ At(r, "idle")
  /\ \/ ~Charged(kind) /\ tat' = tat
     \/ Charged(kind) /\ HasToken /\ TakeToken
  /\ granted' = IF Visible(kind) THEN granted + 1 ELSE granted
  /\ request' = [request EXCEPT ![r] = [pc |-> "posted", kind |-> kind, id |-> NoMsg]]
  /\ UNCHANGED <<clock, gowa, sentIds, told, opened>>

\* GOWA does what it was asked; a message gets an id of its own.
GowaAccepts(r) ==
  /\ At(r, "posted")
  /\ \/ /\ request[r].kind = "message"
        /\ \E id \in MsgIds \ delivered :
             /\ delivered' = delivered \cup {id}
             /\ request' = [request EXCEPT
                  ![r] = [pc |-> "sent", kind |-> "message", id |-> id]]
     \/ /\ request[r].kind # "message"
        /\ request' = [request EXCEPT ![r].pc = "sent"]
        /\ delivered' = delivered
  /\ UNCHANGED <<clock, limiter, ignored, sentIds, told>>

\* GOWA's 2xx is read, and the id in it recorded.
MessagesOf(r) == IF request[r].kind = "message" THEN {request[r].id} ELSE {}

AnswerUnrecorded(r) ==                          \* mutant: the id is not recorded
  /\ At(r, "sent")
  /\ told' = told \cup MessagesOf(r)
  /\ Done(r)
  /\ UNCHANGED <<clock, limiter, gowa, sentIds>>
Answer(r) ==
  /\ At(r, "sent")
  /\ sentIds' = sentIds \cup MessagesOf(r)
  /\ told' = told \cup MessagesOf(r)
  /\ Done(r)
  /\ UNCHANGED <<clock, limiter, gowa>>

\* GOWA refuses (400, or 502 if the agent may retry), or the call loses touch
\* with it before or after it has acted: the 30s timeout or a broken connection
\* (502), a 2xx with no readable id in it (200, under the empty id), or the agent
\* hanging up, which drops the handler at its await.
EndUnrecorded(r) ==
  /\ ~At(r, "idle")
  /\ Done(r)
  /\ UNCHANGED <<clock, limiter, gowa, sentIds, told>>
-----------------------------------------------------------------------------
\* A user replies or reacts to a message of the bot's; webhook_gowa looks the id
\* up (step 4).
IsReplyToBot(id) == id \in sentIds

UserReplies(id) ==
  /\ id \in delivered
  /\ ignored' = IF IsReplyToBot(id) THEN ignored ELSE ignored \cup {id}
  /\ UNCHANGED <<clock, limiter, request, delivered, sentIds, told>>

\* The limiter, the cache and the calls are in memory.
Restart ==
  /\ tat' = clock
  /\ request' = [r \in Requests |-> Idle]
  /\ sentIds' = {}
  /\ told' = {}
  /\ opened' = clock
  /\ granted' = 0
  /\ UNCHANGED <<clock, gowa>>

Tick ==
  /\ clock < MaxClock
  /\ clock' = clock + 1
  /\ UNCHANGED <<limiter, request, gowa, sentIds, told>>

\* An observer starts counting.
OpenWindow ==
  /\ opened' = clock
  /\ granted' = 0
  /\ UNCHANGED <<clock, tat, request, gowa, sentIds, told>>

Call(r) ==
  \/ \E kind \in Kinds : Post(r, kind)
  \/ GowaAccepts(r) \/ Answer(r) \/ EndUnrecorded(r)

Next ==
  \/ \E r \in Requests : Call(r)
  \/ \E id \in MsgIds : UserReplies(id)
  \/ Restart \/ Tick \/ OpenWindow

Spec == Init /\ [][Next]_vars
-----------------------------------------------------------------------------
(***************************************************************************)
(* Properties.                                                             *)
(***************************************************************************)
\* In any stretch of time, whenever it begins, the limiter lets through a full
\* bucket and what was refilled meanwhile, and no more (src/ratelimit.rs): media
\* sends and reactions count, concurrent calls do not share a token.  A minute that
\* begins with a full bucket so sees up to 2 * PerMinute - 1 calls, not the
\* "`per_minute` sends per minute" of its comment (line 18).
WindowBound == granted * Refill <= Minute + (clock - opened)

\* A 429 is deserved: the limiter refuses only if a full bucket's worth of sends
\* and reactions has been let through within the last minute, however often the
\* agent has set its presence (src/server.rs:369-372).
DeniedOnlyWhenSpent ==
  ~HasToken /\ opened + Minute <= clock => granted >= PerMinute

\* An id the agent has been given is one a reply is recognized by, until the
\* process ends; whatever becomes of the calls around it (src/sent_ids.rs:1-3).
ToldIsRecorded == told \subseteq sentIds /\ sentIds \subseteq delivered

\* "In a require-mention group, the bot answers when a message replies to one of
\* its own recent messages" (README.md:86-87).
ReplyIsMention == ignored = {}

(***************************************************************************)
(* The inductive invariant behind the limiter's two properties: what was   *)
(* let through is bounded by tat from above and from below.                *)
(***************************************************************************)
Bucket ==
  /\ opened <= clock
  /\ tat <= clock + Minute
  /\ granted > 0 => opened + granted * Refill <= tat
  /\ tat <= Later(opened + Minute, clock) + granted * Refill

\* A call GOWA has acted on carries the id of what it sent.
Carried == \A r \in Requests :
  At(r, "sent") /\ request[r].kind = "message" => request[r].id \in delivered

IInv == TypeOK /\ Bucket /\ Carried /\ ToldIsRecorded
=============================================================================
