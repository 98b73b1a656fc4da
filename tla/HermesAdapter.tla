---------------------------- MODULE HermesAdapter -----------------------------
(***************************************************************************)
(* The agent's side of the contract: the adapter between the shim and      *)
(* Hermes (src/deploy/hermes-adapter/adapter.py).  A request is            *)
(* acknowledged at once and its turn runs in a thread of its own; turns of *)
(* one session take a lock; the session's id outlives the process in a     *)
(* file; the reply goes out after the lock is released.                    *)
(*                                                                         *)
(* Around it: the shim, which forwards a message until it reads a 200, and *)
(* Hermes, of which `history` keeps the prompts each session has answered. *)
(***************************************************************************)
EXTENDS Naturals, Sequences

CONSTANTS
  Ids,              \* messages the shim forwards
  Message,          \* [Ids -> [chat, channel, body, media, dropped]]
  Profiles,         \* CHANNEL_PROFILES: channel -> profile wrapper
  Threads,          \* bound: threads of the process at a time
  Outcomes,         \* how a run of Hermes may end
  Free,             \* no thread
  MaxFaults         \* bound: restarts, lost answers, marks that expire, failed runs and writes

\* What run_turn reads of a finished run: exit status 0, a session_id line, a text, and the phrase
\* "No session found".
Outcome == [clean : BOOLEAN, session : BOOLEAN, text : BOOLEAN, stale : BOOLEAN]
Well == [clean |-> TRUE, session |-> TRUE, text |-> TRUE, stale |-> FALSE]

\* A channel without a profile has the default one's, if there is one.
Route(id) ==
  IF Message[id].channel \in DOMAIN Profiles THEN Message[id].channel ELSE "default"
Routed(id) == Route(id) \in DOMAIN Profiles

\* session_key: the profile and the chat.
Key(id) == <<Profiles[Route(id)], Message[id].chat>>

Keys == {<<Profiles[c], Message[id].chat>> : c \in DOMAIN Profiles, id \in Ids}
Attempts == 3

ASSUME HermesAssumption ==
  /\ Free \notin Threads
  /\ Outcomes \subseteq Outcome
  /\ MaxFaults \in Nat

VARIABLES
  file,             \* the shim's queue: ids it has read no 200 for
  dedup,            \* _dedup (in memory)
  thread,           \* [Threads -> [pc, id, session, out, tries]]: out is the run's end
  lock,             \* _session_locks (in memory)
  sessions,         \* SESSIONS_FILE: 0 is no session
  history,          \* Hermes's sessions, by number: the prompts each has answered
  replies,          \* [Ids -> Nat]: replies that reached the chat
  faults,           \* bounded: faults so far
  excused           \* history: <<id, kind>>, the faults that a message met

disk == <<file, sessions>>
world == <<history, replies>>
vars == <<disk, dedup, thread, lock, world, faults, excused>>
-----------------------------------------------------------------------------
\* The prompt: the body, and a line for each attachment, fetched or not, but for audio.
Prompted(id) == Message[id].body \/ Message[id].media \ {"audio"} # {}

Fresh(pc, id) == [pc |-> pc, id |-> id, session |-> 0, out |-> Well, tries |-> 0]
Idle == Fresh("idle", Free)
Locked == {"running", "ran"}
Turns == [pc : {"waiting", "running", "ran", "replying"}, id : Ids, session : Nat,
          out : Outcome, tries : 0 .. Attempts - 1]
At(pc, t) == thread[t].pc = pc

Fault(kind, ids) ==
  /\ faults < MaxFaults
  /\ faults' = faults + 1
  /\ excused' = excused \cup {<<id, kind>> : id \in ids}
NoFault == UNCHANGED <<faults, excused>>
Met(ids, kinds) == excused \cap (ids \X kinds) # {}

TypeOK ==
  /\ file \subseteq Ids /\ dedup \subseteq Ids
  /\ thread \in [Threads -> {Idle} \cup Turns]
  /\ lock \in [Keys -> Threads \cup {Free}]
  /\ sessions \in [Keys -> Nat]
  /\ history \in Seq(Seq(Ids))
  /\ replies \in [Ids -> Nat]
  /\ faults \in 0 .. MaxFaults

Init ==
  /\ file = Ids /\ dedup = {}
  /\ thread = [t \in Threads |-> Idle]
  /\ lock = [k \in Keys |-> Free]
  /\ sessions = [k \in Keys |-> 0]
  /\ history = <<>>
  /\ replies = [id \in Ids |-> 0]
  /\ faults = 0 /\ excused = {}
-----------------------------------------------------------------------------
(* do_POST.  The shim forwards what it has read no 200 for; the 200 may be *)
(* lost, which the adapter does not notice.                                *)

Answer(id) ==
  \/ file' = file \ {id} /\ NoFault
  \/ file' = file /\ Fault("lost 200", {})

\* run_turn up to the lock: nothing of it is shared.  Without a profile or a prompt the thread ends.
Begun(id) ==
  IF Routed(id) /\ Prompted(id) THEN Fresh("waiting", id) ELSE Idle

\* mutant: the id is looked up but never marked
AcceptUnmarked(id, t) ==
  /\ id \in file \ dedup /\ ~Message[id].dropped
  /\ At("idle", t)
  /\ thread' = [thread EXCEPT ![t] = Begun(id)]
  /\ Answer(id)
  /\ UNCHANGED <<dedup, sessions, lock, world>>

\* seen() checks and marks in one hold of its lock; the thread starts before the answer.
Accept(id, t) ==
  /\ id \in file \ dedup /\ ~Message[id].dropped
  /\ At("idle", t)
  /\ dedup' = dedup \cup {id}
  /\ thread' = [thread EXCEPT ![t] = Begun(id)]
  /\ Answer(id)
  /\ UNCHANGED <<sessions, lock, world>>

\* The bot's own messages, reactions and ids seen before are answered, no more.
Decline(id) ==
  /\ id \in file
  /\ id \in dedup \/ Message[id].dropped
  /\ Answer(id)
  /\ UNCHANGED <<dedup, thread, lock, sessions, world>>

\* DEDUP_TTL has passed since the id was seen.
Expire(id) ==
  /\ id \in dedup
  /\ dedup' = dedup \ {id}
  /\ Fault("expired", {id})
  /\ UNCHANGED <<disk, thread, lock, world>>
-----------------------------------------------------------------------------
(* run_turn, from the lock on.                                             *)

\* mutant: the turn does not wait for the session's lock
AcquireAny(t) ==
  /\ At("waiting", t)
  /\ lock' = [lock EXCEPT ![Key(thread[t].id)] = t]
  /\ thread' = [thread EXCEPT ![t].pc = "running", ![t].session = sessions[Key(thread[t].id)]]
  /\ NoFault /\ UNCHANGED <<disk, dedup, world>>

\* The session lock, then the session to resume.
Acquire(t) ==
  /\ At("waiting", t)
  /\ lock[Key(thread[t].id)] = Free
  /\ lock' = [lock EXCEPT ![Key(thread[t].id)] = t]
  /\ thread' = [thread EXCEPT ![t].pc = "running", ![t].session = sessions[Key(thread[t].id)]]
  /\ NoFault /\ UNCHANGED <<disk, dedup, world>>

\* Hermes: a run that prints its session id has the turn in that session, a new one or the resumed.
Recorded(id, session) ==
  IF session = 0 THEN Append(history, <<id>>)
  ELSE [history EXCEPT ![session] = Append(@, id)]

\* The session id that it prints.
Used(session, out) == IF session = 0 /\ out.session THEN Len(history) + 1 ELSE session

\* A resumed run that ends badly, or does not find its session, is followed by a fresh one.
Again(session, out) == session # 0 /\ (~out.clean \/ out.stale)

RunHermes(t, out) ==
  LET me == thread[t]
  IN  /\ At("running", t)
      /\ history' = IF out.session THEN Recorded(me.id, me.session) ELSE history
      /\ thread' = [thread EXCEPT ![t] =
           IF Again(me.session, out) THEN [me EXCEPT !.session = 0]
           ELSE [me EXCEPT !.pc = "ran", !.out = out, !.session = Used(me.session, out)]]
      /\ \/ out = Well /\ NoFault
         \/ out # Well /\ Fault(IF out.session /\ out.text THEN "aborted" ELSE "failed", {me.id})
      /\ UNCHANGED <<disk, dedup, lock, replies>>

\* Hermes is killed at TURN_TIMEOUT, its turn recorded or not: the thread ends.
TimeOut(t) ==
  /\ At("running", t)
  /\ history' \in {history, Recorded(thread[t].id, thread[t].session)}
  /\ lock' = [lock EXCEPT ![Key(thread[t].id)] = Free]
  /\ thread' = [thread EXCEPT ![t] = Idle]
  /\ Fault("timeout", {thread[t].id})
  /\ UNCHANGED <<disk, dedup, replies>>

\* mutant: only a resumed session is saved
SavesKnown(t) == thread[t].out.session /\ sessions[Key(thread[t].id)] # 0

\* A run that printed a session id has it saved.
Saves(t) == thread[t].out.session

\* mutant: whatever exit status is not 0 is a failure
CleanText(out) == out.text /\ out.clean

\* A text is replied with, that of a run which crashed after its output included.
Texted(out) == out.text /\ (out.clean \/ out.session)

\* mutant: a turn without a text returns without its lock's release
HoldOn(t) == IF Texted(thread[t].out) THEN [lock EXCEPT ![Key(thread[t].id)] = Free] ELSE lock

\* The lock is released however its section is left.
Release(t) == [lock EXCEPT ![Key(thread[t].id)] = Free]

Answered(t) ==
  [thread EXCEPT ![t] =
     IF Texted(thread[t].out) THEN Fresh("replying", thread[t].id) ELSE Idle]

\* The end of the locked section: set_session, which reads the whole file and replaces it.
Conclude(t) ==
  LET me == thread[t]
      key == Key(me.id)
  IN  /\ At("ran", t)
      /\ lock' = Release(t)
      /\ \/ /\ sessions' = IF Saves(t) THEN [sessions EXCEPT ![key] = me.session] ELSE sessions
            /\ thread' = Answered(t)
            /\ NoFault
         \/ /\ Saves(t)                      \* the file cannot be written: the thread dies
            /\ thread' = [thread EXCEPT ![t] = Idle]
            /\ UNCHANGED sessions
            /\ Fault("unsaved", {me.id})
         \/ /\ Saves(t)                      \* it cannot be read: the other sessions are dropped
            /\ sessions' = [k \in Keys |-> IF k = key THEN me.session ELSE 0]
            /\ thread' = Answered(t)
            /\ Fault("unread", Ids)
      /\ UNCHANGED <<file, dedup, world>>
-----------------------------------------------------------------------------
(* send_reply: three attempts.  An attempt may reach the chat and yet look *)
(* as if it had not.                                                       *)

Spent(t) == thread[t].tries + 1 = Attempts
TryAgain(t) ==
  [thread EXCEPT ![t] =
     IF Spent(t) THEN Idle ELSE [thread[t] EXCEPT !.tries = thread[t].tries + 1]]

\* mutant: whatever the answer, the attempts are made
NeverDone(t) == TryAgain(t)

\* A 2xx ends the reply.
Ended(t) == [thread EXCEPT ![t] = Idle]

ReplySent(t) ==
  /\ At("replying", t)
  /\ replies' = [replies EXCEPT ![thread[t].id] = @ + 1]
  /\ \/ thread' = Ended(t) /\ NoFault
     \/ thread' = TryAgain(t) /\ Fault("lost reply", {thread[t].id})
  /\ UNCHANGED <<disk, dedup, lock, history>>

\* 429, 5xx and connection errors are retried, any other answer is final.
ReplyFails(t) ==
  /\ At("replying", t)
  /\ thread' = TryAgain(t) \/ thread' = Ended(t)
  /\ Fault("refused", {thread[t].id})
  /\ UNCHANGED <<disk, dedup, lock, world>>
-----------------------------------------------------------------------------
\* The process ends and systemd starts it again: the threads, marks and locks are gone.
Restart ==
  /\ Fault("restart", Ids)
  /\ dedup' = {}
  /\ thread' = [t \in Threads |-> Idle]
  /\ lock' = [k \in Keys |-> Free]
  /\ UNCHANGED <<disk, world>>

Turn(t) ==
  \/ Acquire(t) \/ (\E out \in Outcomes : RunHermes(t, out)) \/ TimeOut(t) \/ Conclude(t)
  \/ ReplySent(t) \/ ReplyFails(t)

Deliver(id) == (\E t \in Threads : Accept(id, t)) \/ Decline(id)

Done == file = {} /\ \A t \in Threads : At("idle", t)

Next ==
  \/ \E id \in Ids : Deliver(id) \/ Expire(id)
  \/ \E t \in Threads : Turn(t)
  \/ Restart

Spec == Init /\ [][Next]_vars

\* The shim retries what it still holds; a runnable thread runs, Hermes is killed at its timeout,
\* and the chat's HTTP calls end at theirs.
Fairness ==
  /\ \A id \in Ids : WF_vars(Deliver(id))
  /\ \A t \in Threads : WF_vars(Turn(t))

FairSpec == Spec /\ Fairness
-----------------------------------------------------------------------------
\* A turn holds its session's lock from before it reads which session to resume until it has saved
\* the one it used, and a lock is held by such a turn alone (adapter.py:208-213, 233-235).
HoldsLock ==
  \A t \in Threads, k \in Keys :
    lock[k] = t <=> thread[t].pc \in Locked /\ Key(thread[t].id) = k

\* A thread works on a message it has marked and has a profile for (adapter.py:167-172, 311).
Workable ==
  \A t \in Threads :
    thread[t].pc \in Locked \cup {"waiting", "replying"} => Routed(thread[t].id)

IInv == TypeOK /\ Workable /\ HoldsLock

\* Two turns of one conversation never run at once, whatever threads deliver their messages
\* (adapter.py:208).
OneTurnPerSession ==
  \A t, u \in Threads :
    /\ t # u
    /\ thread[t].pc \in Locked /\ thread[u].pc \in Locked
    => Key(thread[t].id) # Key(thread[u].id)

Fork == {"aborted", "failed", "timeout", "unsaved", "unread", "restart"}
Of(k) == {id \in Ids : Routed(id) /\ <<Profiles[Route(id)], Message[id].chat>> = k}

\* One conversation is one session: between turns the file names the session in which every turn of
\* the conversation was answered, and no other conversation's, unless a run or a write has failed
\* ("Session continuity is per conversation", adapter.py:9-10).
Continuity ==
  \A k \in Keys :
    lock[k] = Free /\ ~Met(Of(k), Fork) =>
      \A s \in DOMAIN history :
        (\E i \in DOMAIN history[s] : history[s][i] \in Of(k))
        => s = sessions[k] /\ \A j \in DOMAIN history[s] : history[s][j] \in Of(k)

Answers(id) == UNION {{<<s, i>> : i \in {j \in DOMAIN history[s] : history[s][j] = id}} : s \in DOMAIN history}
AnsweredTwice(id) == \E p, q \in Answers(id) : p # q

\* Hermes answers a message once, though the shim sends it again until it reads a 200: only a mark
\* that has expired or is lost in a restart, or a resumed run that ended badly, has it answered
\* again (adapter.py:78-86, 311-313).
TurnOnce ==
  \A id \in Ids : AnsweredTwice(id) => Met({id}, {"expired", "restart", "aborted", "failed"})

\* As adapter.py:246-250 has it, a run that printed a session id and a text is a success whatever
\* its exit status, hence not run again.
AbortIsSuccess ==
  \A id \in Ids : AnsweredTwice(id) => Met({id}, {"expired", "restart", "failed"})

\* The chat reads a reply once, unless the answer to the reply is lost or the turn is run again
\* after a restart or an expired mark (adapter.py:138-163).
ReplyOnce ==
  \A id \in Ids : replies[id] > 1 => Met({id}, {"lost reply", "expired", "restart"})

\* When all is quiet, every message with something to ask that has a profile has been replied to,
\* for all the crashes of Hermes after its output: the 200 that let the shim forget it was given
\* before the turn, so only a failed run or write, a refused reply or a restart loses it
\* (adapter.py:306-316, 246-256).
NothingLost ==
  Done => \A id \in Ids :
    /\ ~Message[id].dropped /\ Routed(id) /\ Prompted(id)
    /\ replies[id] = 0
    => Met({id}, {"failed", "timeout", "unsaved", "refused", "restart"})

\* Every message is acknowledged and every turn ends: no turn waits for ever for the lock of its
\* session, however the turn before it ended (adapter.py:208, 257).
Settles == <>[]Done
=============================================================================
