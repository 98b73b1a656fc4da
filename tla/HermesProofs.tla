----------------------------- MODULE HermesProofs -----------------------------
(***************************************************************************)
(* Proofs about HermesAdapter, for any messages, profiles, threads, ends   *)
(* of a run and number of faults: the lock of a session is held by the one *)
(* turn that uses it, and a message is answered and replied to once unless *)
(* a fault that the theorem names has met it.                              *)
(***************************************************************************)
EXTENDS HermesAdapter, SequenceTheorems, TLAPS

Busy(t) == thread[t].pc \in Locked

\* What a message's key and a thread's start look like.
LEMMA KeyType ==
  ASSUME NEW id \in Ids, Routed(id)
  PROVE  Key(id) \in Keys
BY DEF Key, Keys, Routed

LEMMA IdleType == Idle.pc = "idle" /\ Idle.pc \notin Locked \cup {"waiting", "replying"}
BY DEF Idle, Fresh, Locked

LEMMA BegunType ==
  ASSUME NEW id \in Ids
  PROVE  /\ Begun(id) \in {Idle} \cup Turns
         /\ Begun(id).pc \notin Locked
         /\ Begun(id).pc \in {"idle", "waiting"}
         /\ Begun(id).pc = "waiting" => Routed(id) /\ Begun(id).id = id
BY IdleType DEF Begun, Fresh, Turns, Well, Outcome, Attempts, Locked

LEMMA TurnType ==
  ASSUME TypeOK, NEW t \in Threads, thread[t].pc # "idle"
  PROVE  thread[t] \in Turns
BY DEF TypeOK, Idle, Fresh

\* The faults counted and the history of a step.
LEMMA FaultsType ==
  ASSUME faults \in 0 .. MaxFaults, NEW kind, NEW ids, Fault(kind, ids) \/ NoFault
  PROVE  faults' \in 0 .. MaxFaults
BY HermesAssumption DEF Fault, NoFault

LEMMA RecordedType ==
  ASSUME history \in Seq(Seq(Ids)), NEW id \in Ids, NEW session \in Nat
  PROVE  Recorded(id, session) \in Seq(Seq(Ids))
<1>1. <<id>> \in Seq(Ids)
  OBVIOUS
<1>2. CASE session = 0
  BY <1>1, <1>2 DEF Recorded
<1>3. CASE session # 0
  <2>1. Recorded(id, session) = [history EXCEPT ![session] = Append(@, id)]
    BY <1>3 DEF Recorded
  <2>2. CASE session \in 1 .. Len(history)
    <3>1. Append(history[session], id) \in Seq(Ids)
      BY <2>2
    <3> QED BY <2>1, <2>2, <3>1, ExceptSeq
  <2>3. CASE session \notin 1 .. Len(history)
    <3>1. DOMAIN history = 1 .. Len(history)
      OBVIOUS
    <3>2. Recorded(id, session) = history
      BY <2>1, <2>3, <3>1
    <3> QED BY <3>2
  <2> QED BY <2>2, <2>3
<1> QED BY <1>2, <1>3
-----------------------------------------------------------------------------
(* Each step keeps IInv.                                                   *)

LEMMA AcceptInv ==
  ASSUME IInv, NEW id \in Ids, NEW t \in Threads, Accept(id, t)
  PROVE  IInv'
<1> USE DEF IInv
<1>1. faults' \in 0 .. MaxFaults /\ file' \subseteq Ids
  BY FaultsType, id \in Ids DEF Accept, Answer, TypeOK
<1>2. /\ thread' = [thread EXCEPT ![t] = Begun(id)] /\ dedup' = dedup \cup {id}
      /\ UNCHANGED <<sessions, lock, history, replies>> /\ thread[t].pc = "idle"
  BY DEF Accept, world, At
<1>3. thread'[t] = Begun(id) /\ \A u \in Threads \ {t} : thread'[u] = thread[u]
  BY <1>2 DEF TypeOK
<1>4. TypeOK'
  BY <1>1, <1>2, BegunType DEF TypeOK
<1>5. Workable'
  BY <1>3, BegunType DEF Workable, Locked
<1>6. HoldsLock'
  BY <1>2, <1>3, BegunType DEF HoldsLock, Locked
<1> QED BY <1>4, <1>5, <1>6

LEMMA DeclineInv ==
  ASSUME IInv, NEW id \in Ids, Decline(id) \/ Expire(id)
  PROVE  IInv'
<1>1. faults' \in 0 .. MaxFaults /\ file' \subseteq Ids /\ dedup' \subseteq Ids
  BY FaultsType DEF Decline, Answer, Expire, IInv, TypeOK, disk
<1>2. UNCHANGED <<thread, lock, sessions, history, replies>>
  BY DEF Decline, Expire, world, disk
<1> QED BY <1>1, <1>2 DEF IInv, TypeOK, Workable, HoldsLock

LEMMA AcquireInv ==
  ASSUME IInv, NEW t \in Threads, Acquire(t)
  PROVE  IInv'
<1> USE DEF IInv
<1> DEFINE id == thread[t].id
           k == Key(id)
<1>1. thread[t] \in Turns /\ Routed(id) /\ thread[t].pc = "waiting"
  BY TurnType DEF Acquire, At, Workable
<1>2. id \in Ids /\ k \in Keys
  BY <1>1, KeyType DEF Turns
<1>3. /\ lock[k] = Free /\ lock' = [lock EXCEPT ![k] = t]
      /\ thread' = [thread EXCEPT ![t].pc = "running", ![t].session = sessions[k]]
      /\ UNCHANGED <<file, dedup, sessions, history, replies, faults>>
  BY DEF Acquire, disk, world, NoFault
<1>4. thread'[t] = [thread[t] EXCEPT !.pc = "running", !.session = sessions[k]]
  BY <1>3 DEF TypeOK
<1>5. \A u \in Threads \ {t} : thread'[u] = thread[u]
  BY <1>3 DEF TypeOK
<1>6. thread'[t] \in Turns /\ thread'[t].pc = "running" /\ thread'[t].id = id
  <2>1. sessions[k] \in Nat
    BY <1>2 DEF TypeOK
  <2> QED BY <1>1, <1>4, <2>1 DEF Turns
<1>7. TypeOK'
  <2>1. thread' \in [Threads -> {Idle} \cup Turns]
    BY <1>3, <1>5, <1>6 DEF TypeOK
  <2>2. lock' \in [Keys -> Threads \cup {Free}]
    BY <1>3 DEF TypeOK
  <2> QED BY <1>3, <2>1, <2>2 DEF TypeOK
<1>8. Workable'
  BY <1>1, <1>5, <1>6 DEF Workable
<1>9. HoldsLock'
  <2>1. lock'[k] = t /\ \A j \in Keys \ {k} : lock'[j] = lock[j]
    BY <1>2, <1>3 DEF TypeOK
  <2>2. \A j \in Keys : lock'[j] = t <=> thread'[t].pc \in Locked /\ Key(thread'[t].id) = j
    BY <1>1, <1>2, <1>6, <2>1 DEF HoldsLock, Locked
  <2>3. \A u \in Threads \ {t}, j \in Keys :
          lock'[j] = u <=> thread'[u].pc \in Locked /\ Key(thread'[u].id) = j
    <3> SUFFICES ASSUME NEW u \in Threads \ {t}, NEW j \in Keys
                 PROVE  lock'[j] = u <=> thread'[u].pc \in Locked /\ Key(thread'[u].id) = j
      OBVIOUS
    <3>1. lock[j] = u <=> thread[u].pc \in Locked /\ Key(thread[u].id) = j
      BY DEF HoldsLock
    <3>2. lock[k] # u /\ lock'[k] # u
      BY <1>3, <2>1, HermesAssumption
    <3> QED BY <1>5, <2>1, <3>1, <3>2
  <2> QED BY <2>2, <2>3 DEF HoldsLock
<1> QED BY <1>7, <1>8, <1>9

\* A step that leaves the lock alone, of a thread that stays in its locked section or out of it.
LEMMA SameLock ==
  ASSUME IInv, NEW t \in Threads,
         thread[t].pc # "idle",
         thread' = [thread EXCEPT ![t] = thread'[t]],
         thread'[t] = Idle \/ (thread'[t] \in Turns /\ thread'[t].id = thread[t].id),
         thread'[t].pc \in Locked <=> thread[t].pc \in Locked,
         thread[t].pc \in Locked \cup {"waiting", "replying"},
         lock' = lock
  PROVE  /\ thread' \in [Threads -> {Idle} \cup Turns]
         /\ Workable' /\ HoldsLock'
<1>1. \A u \in Threads \ {t} : thread'[u] = thread[u]
  BY DEF IInv, TypeOK
<1>2. thread' \in [Threads -> {Idle} \cup Turns]
  BY DEF IInv, TypeOK
<1>3. Workable'
  BY <1>1, IdleType DEF IInv, Workable
<1>4. HoldsLock'
  BY <1>1, IdleType DEF IInv, HoldsLock
<1> QED BY <1>2, <1>3, <1>4

\* A step that ends a thread's locked section.
LEMMA LockReleased ==
  ASSUME IInv, NEW t \in Threads,
         thread[t].pc \in Locked,
         thread' = [thread EXCEPT ![t] = thread'[t]],
         thread'[t] = Idle \/
           (thread'[t] \in Turns /\ thread'[t].id = thread[t].id /\ thread'[t].pc \notin Locked),
         lock' = Release(t)
  PROVE  /\ thread' \in [Threads -> {Idle} \cup Turns]
         /\ lock' \in [Keys -> Threads \cup {Free}]
         /\ Workable' /\ HoldsLock'
<1> DEFINE k == Key(thread[t].id)
<1>1. \A u \in Threads \ {t} : thread'[u] = thread[u]
  BY DEF IInv, TypeOK
<1>2. Routed(thread[t].id) /\ k \in Keys
  <2>1. thread[t] \in Turns /\ Routed(thread[t].id)
    BY TurnType DEF IInv, Workable, Locked
  <2> QED BY <2>1, KeyType DEF Turns
<1>3. thread' \in [Threads -> {Idle} \cup Turns]
  BY DEF IInv, TypeOK
<1>4. lock' = [lock EXCEPT ![k] = Free]
  BY DEF Release
<1>5. lock' \in [Keys -> Threads \cup {Free}]
  BY <1>4 DEF IInv, TypeOK
<1>6. Workable'
  BY <1>1, <1>2, IdleType DEF IInv, Workable
<1>7. HoldsLock'
  <2>1. lock'[k] = Free /\ \A j \in Keys \ {k} : lock'[j] = lock[j]
    BY <1>2, <1>4 DEF IInv, TypeOK
  <2>2. lock[k] = t
    BY <1>2 DEF IInv, HoldsLock
  <2>3. \A j \in Keys : lock'[j] = t <=> thread'[t].pc \in Locked /\ Key(thread'[t].id) = j
    BY <1>2, <2>1, IdleType, HermesAssumption DEF IInv, HoldsLock
  <2>4. \A u \in Threads \ {t}, j \in Keys :
          lock'[j] = u <=> thread'[u].pc \in Locked /\ Key(thread'[u].id) = j
    BY <1>1, <1>2, <2>1, <2>2, HermesAssumption DEF IInv, HoldsLock
  <2> QED BY <2>3, <2>4 DEF HoldsLock
<1> QED BY <1>3, <1>5, <1>6, <1>7

LEMMA RunInv ==
  ASSUME IInv, NEW t \in Threads, NEW out \in Outcomes, RunHermes(t, out)
  PROVE  IInv'
<1> USE DEF IInv
<1> DEFINE me == thread[t]
           next == IF Again(me.session, out) THEN [me EXCEPT !.session = 0]
                   ELSE [me EXCEPT !.pc = "ran", !.out = out, !.session = Used(me.session, out)]
<1>1. me \in Turns /\ me.pc = "running"
  BY TurnType DEF RunHermes, At
<1>2. history' \in Seq(Seq(Ids))
  <2>1. Recorded(me.id, me.session) \in Seq(Seq(Ids))
    BY <1>1, RecordedType DEF TypeOK, Turns
  <2> QED BY <2>1 DEF RunHermes, TypeOK
<1>3. faults' \in 0 .. MaxFaults
  BY FaultsType DEF RunHermes, TypeOK
<1>4. thread' = [thread EXCEPT ![t] = next]
  BY DEF RunHermes
<1>5. next \in Turns /\ next.id = me.id /\ next.pc \in Locked
  <2>1. CASE Again(me.session, out)
    <3>1. next = [me EXCEPT !.session = 0]
      BY <2>1
    <3> QED BY <1>1, <3>1 DEF Turns, Locked
  <2>2. CASE ~Again(me.session, out)
    <3>1. /\ next = [me EXCEPT !.pc = "ran", !.out = out, !.session = Used(me.session, out)]
          /\ Used(me.session, out) \in Nat
      BY <1>1, <2>2 DEF Used, Turns, TypeOK
    <3>2. out \in Outcome
      BY HermesAssumption
    <3> QED BY <1>1, <3>1, <3>2 DEF Turns, Locked
  <2> QED BY <2>1, <2>2
<1>6. thread'[t] = next
  BY <1>4 DEF TypeOK
<1> HIDE DEF next
<1>7. lock' = lock /\ UNCHANGED <<file, dedup, sessions, replies>>
  BY DEF RunHermes, disk
<1>8. thread' \in [Threads -> {Idle} \cup Turns] /\ Workable' /\ HoldsLock'
  BY <1>1, <1>4, <1>5, <1>6, <1>7, SameLock DEF Locked
<1> QED BY <1>2, <1>3, <1>7, <1>8 DEF TypeOK

LEMMA TimeOutInv ==
  ASSUME IInv, NEW t \in Threads, TimeOut(t)
  PROVE  IInv'
<1> USE DEF IInv
<1>1. thread[t] \in Turns /\ thread[t].pc \in Locked
  BY TurnType DEF TimeOut, At, Locked
<1>2. history' \in Seq(Seq(Ids))
  <2>1. Recorded(thread[t].id, thread[t].session) \in Seq(Seq(Ids))
    BY <1>1, RecordedType DEF TypeOK, Turns
  <2> QED BY <2>1 DEF TimeOut, TypeOK
<1>3. faults' \in 0 .. MaxFaults
  BY FaultsType DEF TimeOut, TypeOK
<1>4. thread' = [thread EXCEPT ![t] = Idle] /\ thread'[t] = Idle /\ lock' = Release(t)
  BY DEF TimeOut, Release, TypeOK
<1>5. UNCHANGED <<file, dedup, sessions, replies>>
  BY DEF TimeOut, disk
<1>6. /\ thread' \in [Threads -> {Idle} \cup Turns]
      /\ lock' \in [Keys -> Threads \cup {Free}]
      /\ Workable' /\ HoldsLock'
  BY <1>1, <1>4, LockReleased
<1> QED BY <1>2, <1>3, <1>5, <1>6 DEF TypeOK

\* A turn that is about to reply is a turn.
LEMMA ReplyingType ==
  ASSUME NEW id \in Ids
  PROVE  LET r == Fresh("replying", id)
         IN  r \in Turns /\ r.id = id /\ r.pc = "replying"
BY DEF Fresh, Turns, Well, Outcome, Attempts

LEMMA ConcludeInv ==
  ASSUME IInv, NEW t \in Threads, Conclude(t)
  PROVE  IInv'
<1> USE DEF IInv
<1> DEFINE me == thread[t]
           key == Key(me.id)
           r == Fresh("replying", me.id)
<1>1. me \in Turns /\ me.pc = "ran" /\ me.id \in Ids /\ me.session \in Nat
  <2>1. me \in Turns /\ me.pc = "ran"
    BY TurnType DEF Conclude, At
  <2> QED BY <2>1 DEF Turns
<1>2. faults' \in 0 .. MaxFaults
  BY FaultsType DEF Conclude, TypeOK
<1>3. PICK next \in {Idle, r} : thread' = [thread EXCEPT ![t] = next]
  BY DEF Conclude, Answered
<1>4. thread'[t] = next
  BY <1>3 DEF TypeOK
<1>5. next = Idle \/ (next \in Turns /\ next.id = me.id /\ next.pc \notin Locked)
  BY <1>1, <1>3, ReplyingType DEF Locked
<1>6. lock' = Release(t) /\ UNCHANGED <<file, dedup, history, replies>>
  BY DEF Conclude, world
<1>7. sessions' \in [Keys -> Nat]
  <2>1. \/ sessions' = [sessions EXCEPT ![key] = me.session]
        \/ sessions' = sessions
        \/ sessions' = [k \in Keys |-> IF k = key THEN me.session ELSE 0]
    BY DEF Conclude
  <2> QED BY <1>1, <2>1 DEF TypeOK
<1>8. /\ thread' \in [Threads -> {Idle} \cup Turns]
      /\ lock' \in [Keys -> Threads \cup {Free}]
      /\ Workable' /\ HoldsLock'
  BY <1>1, <1>3, <1>4, <1>5, <1>6, LockReleased DEF Locked
<1> QED BY <1>2, <1>6, <1>7, <1>8 DEF TypeOK

LEMMA ReplyInv ==
  ASSUME IInv, NEW t \in Threads, ReplySent(t) \/ ReplyFails(t)
  PROVE  IInv'
<1> USE DEF IInv
<1> DEFINE me == thread[t]
           more == [me EXCEPT !.tries = me.tries + 1]
<1>1. me \in Turns /\ me.pc = "replying" /\ me.id \in Ids
  <2>1. me \in Turns /\ me.pc = "replying"
    BY TurnType DEF ReplySent, ReplyFails, At
  <2> QED BY <2>1 DEF Turns
<1>2. faults' \in 0 .. MaxFaults
  BY FaultsType DEF ReplySent, ReplyFails, TypeOK
<1>3. \/ thread' = [thread EXCEPT ![t] = Idle]
      \/ ~Spent(t) /\ thread' = [thread EXCEPT ![t] = more]
  BY DEF ReplySent, ReplyFails, TryAgain, Ended
<1>4. ~Spent(t) => more \in Turns /\ more.id = me.id /\ more.pc = "replying"
  <2>1. me.tries \in 0 .. 2
    BY <1>1 DEF Turns, Attempts
  <2>2. ~Spent(t) => me.tries + 1 \in 0 .. 2
    BY <2>1 DEF Spent, Attempts
  <2> QED BY <1>1, <2>2 DEF Turns, Attempts
<1>5. lock' = lock /\ UNCHANGED <<file, dedup, sessions, history>>
  BY DEF ReplySent, ReplyFails, disk, world
<1>6. replies' \in [Ids -> Nat]
  <2>1. replies[me.id] + 1 \in Nat
    BY <1>1 DEF TypeOK
  <2>2. replies' = [replies EXCEPT ![me.id] = replies[me.id] + 1] \/ replies' = replies
    BY DEF ReplySent, ReplyFails, world
  <2> QED BY <2>1, <2>2 DEF TypeOK
<1>7. thread' \in [Threads -> {Idle} \cup Turns] /\ Workable' /\ HoldsLock'
  <2>1. CASE thread' = [thread EXCEPT ![t] = Idle]
    <3>1. thread'[t] = Idle
      BY <2>1 DEF TypeOK
    <3> QED BY <1>1, <1>5, <2>1, <3>1, IdleType, SameLock DEF Locked
  <2>2. CASE ~Spent(t) /\ thread' = [thread EXCEPT ![t] = more]
    <3>1. thread'[t] = more
      BY <2>2 DEF TypeOK
    <3> QED BY <1>1, <1>4, <1>5, <2>2, <3>1, SameLock DEF Locked
  <2> QED BY <1>3, <2>1, <2>2
<1> QED BY <1>2, <1>5, <1>6, <1>7 DEF TypeOK

LEMMA RestartInv ==
  ASSUME IInv, Restart
  PROVE  IInv'
<1>1. faults' \in 0 .. MaxFaults
  BY FaultsType DEF Restart, IInv, TypeOK
<1>2. /\ dedup' = {} /\ thread' = [t \in Threads |-> Idle] /\ lock' = [k \in Keys |-> Free]
      /\ UNCHANGED <<file, sessions, history, replies>>
  BY DEF Restart, disk, world
<1> QED BY <1>1, <1>2, IdleType, HermesAssumption DEF IInv, TypeOK, Workable, HoldsLock

LEMMA InitInv ==
  ASSUME Init
  PROVE  IInv
<1>1. history \in Seq(Seq(Ids)) /\ 0 \in 0 .. MaxFaults
  BY HermesAssumption DEF Init
<1> QED BY <1>1, IdleType, HermesAssumption DEF Init, IInv, TypeOK, Workable, HoldsLock

LEMMA NextInv ==
  ASSUME IInv, [Next]_vars
  PROVE  IInv'
<1>1. CASE Next
  <2>1. ASSUME NEW id \in Ids, Deliver(id) \/ Expire(id)
        PROVE  IInv'
    BY <2>1, AcceptInv, DeclineInv DEF Deliver
  <2>2. ASSUME NEW t \in Threads, Turn(t)
        PROVE  IInv'
    BY <2>2, AcquireInv, RunInv, TimeOutInv, ConcludeInv, ReplyInv DEF Turn
  <2> QED BY <1>1, <2>1, <2>2, RestartInv DEF Next
<1>2. CASE UNCHANGED vars
  BY <1>2 DEF vars, disk, world, IInv, TypeOK, Workable, HoldsLock
<1> QED BY <1>1, <1>2

\* The lock of a session is the lock of the turn that uses it (adapter.py:208-235).
THEOREM HermesInvariant == Spec => []IInv
<1>1. Init => IInv
  BY InitInv
<1>2. IInv /\ [Next]_vars => IInv'
  BY NextInv
<1> QED BY <1>1, <1>2, PTL DEF Spec

\* No two turns of one conversation run at once (adapter.py:208).
THEOREM TurnsTakeTurns == Spec => []OneTurnPerSession
<1>1. IInv => OneTurnPerSession
  <2> SUFFICES ASSUME IInv, NEW t \in Threads, NEW u \in Threads, t # u,
                      thread[t].pc \in Locked, thread[u].pc \in Locked,
                      Key(thread[t].id) = Key(thread[u].id)
               PROVE  FALSE
    BY DEF OneTurnPerSession
  <2>1. thread[t] \in Turns /\ Routed(thread[t].id)
    BY TurnType DEF IInv, Workable, Locked
  <2>2. Key(thread[t].id) \in Keys
    BY <2>1, KeyType DEF Turns
  <2>3. lock[Key(thread[t].id)] = t /\ lock[Key(thread[t].id)] = u
    BY <2>2 DEF IInv, HoldsLock
  <2> QED BY <2>3
<1> QED BY <1>1, HermesInvariant, PTL
-----------------------------------------------------------------------------
(* Once.  A message without a fault is in one thread at most, and its mark *)
(* is there before anything of it is.                                      *)

On(t, id) == thread[t].pc # "idle" /\ thread[t].id = id
Unmarked == {"expired", "restart"}

OneThread ==
  \A id \in Ids : ~Met({id}, Unmarked) =>
    /\ id \notin dedup => \A t \in Threads : ~On(t, id)
    /\ \A t, u \in Threads : On(t, id) /\ On(u, id) => t = u

\* No excuse is ever taken back.
LEMMA ExcusesStay ==
  ASSUME [Next]_vars, NEW ids, NEW kinds, Met(ids, kinds)
  PROVE  Met(ids, kinds)'
<1>1. excused \subseteq excused'
  BY DEF Next, Deliver, Accept, Decline, Answer, Expire, Turn, Acquire, RunHermes, TimeOut, Conclude,
         ReplySent, ReplyFails, Restart, Fault, NoFault, vars
<1> QED BY <1>1 DEF Met

LEMMA Excuses ==
  ASSUME NEW kind, NEW ids, Fault(kind, ids), NEW id \in ids, NEW kinds, kind \in kinds
  PROVE  Met({id}, kinds)'
<1>1. <<id, kind>> \in excused' \cap ({id} \X kinds)
  BY DEF Fault
<1> QED BY <1>1 DEF Met

\* A turn's step, seen from its thread: it goes on with its message, or ends.
LEMMA TurnStep ==
  ASSUME IInv, NEW t \in Threads, Turn(t)
  PROVE  /\ thread[t].pc # "idle"
         /\ \A u \in Threads \ {t} : thread'[u] = thread[u]
         /\ thread'[t] = Idle \/ thread'[t].id = thread[t].id
         /\ dedup' = dedup
<1> USE DEF IInv
<1>1. CASE Acquire(t)
  <2>1. thread' = [thread EXCEPT ![t].pc = "running", ![t].session = sessions[Key(thread[t].id)]]
    BY <1>1 DEF Acquire
  <2> QED BY <1>1, <2>1, TurnType DEF Acquire, At, TypeOK, Turns
<1>2. ASSUME NEW out \in Outcomes, RunHermes(t, out)
      PROVE  /\ thread[t].pc # "idle"
             /\ \A u \in Threads \ {t} : thread'[u] = thread[u]
             /\ thread'[t].id = thread[t].id
             /\ dedup' = dedup
  <2>1. thread[t] \in Turns
    BY <1>2, TurnType DEF RunHermes, At
  <2>2. PICK next \in {[thread[t] EXCEPT !.session = 0],
                        [thread[t] EXCEPT !.pc = "ran", !.out = out,
                                          !.session = Used(thread[t].session, out)]} :
          thread' = [thread EXCEPT ![t] = next]
    BY <1>2 DEF RunHermes
  <2>3. next.id = thread[t].id
    BY <2>1, <2>2 DEF Turns
  <2> QED BY <1>2, <2>2, <2>3 DEF RunHermes, At, TypeOK
<1>3. CASE TimeOut(t)
  BY <1>3 DEF TimeOut, At, TypeOK
<1>4. CASE Conclude(t)
  <2>1. PICK next \in {Idle, Fresh("replying", thread[t].id)} : thread' = [thread EXCEPT ![t] = next]
    BY <1>4 DEF Conclude, Answered
  <2> QED BY <1>4, <2>1 DEF Conclude, At, Fresh, TypeOK
<1>5. CASE ReplySent(t) \/ ReplyFails(t)
  <2>1. PICK next \in {Idle, [thread[t] EXCEPT !.tries = thread[t].tries + 1]} :
          thread' = [thread EXCEPT ![t] = next]
    BY <1>5 DEF ReplySent, ReplyFails, TryAgain, Ended
  <2>2. thread[t] \in Turns
    BY <1>5, TurnType DEF ReplySent, ReplyFails, At
  <2>3. next = Idle \/ next.id = thread[t].id
    BY <2>1, <2>2 DEF Turns
  <2> QED BY <1>5, <2>1, <2>3 DEF ReplySent, ReplyFails, At, TypeOK
<1> QED BY <1>1, <1>2, <1>3, <1>4, <1>5 DEF Turn

LEMMA AcceptStep ==
  ASSUME IInv, NEW id \in Ids, NEW t \in Threads, Accept(id, t)
  PROVE  /\ \A u \in Threads \ {t} : thread'[u] = thread[u]
         /\ \A i \in Ids : On(t, i)' => i = id
         /\ id \notin dedup /\ dedup' = dedup \cup {id}
         /\ UNCHANGED <<history, replies>>
<1>1. thread' = [thread EXCEPT ![t] = Begun(id)] /\ id \notin dedup /\ dedup' = dedup \cup {id}
      /\ UNCHANGED <<history, replies>>
  BY DEF Accept, world
<1>2. thread'[t] = Begun(id) /\ \A u \in Threads \ {t} : thread'[u] = thread[u]
  BY <1>1 DEF IInv, TypeOK
<1>3. \A i \in Ids : On(t, i)' => i = id
  BY <1>2, BegunType DEF On
<1> QED BY <1>1, <1>2, <1>3

LEMMA NextOneThread ==
  ASSUME IInv, OneThread, [Next]_vars
  PROVE  OneThread'
<1> SUFFICES ASSUME NEW i \in Ids, ~Met({i}, Unmarked)'
             PROVE  /\ i \notin dedup' => \A t \in Threads : ~On(t, i)'
                    /\ \A t, u \in Threads : On(t, i)' /\ On(u, i)' => t = u
  BY DEF OneThread
<1>0. /\ i \notin dedup => \A t \in Threads : ~On(t, i)
      /\ \A t, u \in Threads : On(t, i) /\ On(u, i) => t = u
  <2>1. ~Met({i}, Unmarked)
    BY ExcusesStay
  <2> QED BY <2>1 DEF OneThread
<1>1. ASSUME NEW id \in Ids, NEW t \in Threads, Accept(id, t)
      PROVE  /\ i \notin dedup' => \A v \in Threads : ~On(v, i)'
             /\ \A v, u \in Threads : On(v, i)' /\ On(u, i)' => v = u
  BY <1>0, <1>1, AcceptStep DEF On
<1>2. ASSUME NEW id \in Ids, Decline(id)
      PROVE  /\ i \notin dedup' => \A v \in Threads : ~On(v, i)'
             /\ \A v, u \in Threads : On(v, i)' /\ On(u, i)' => v = u
  BY <1>0, <1>2 DEF Decline, On
<1>3. ASSUME NEW id \in Ids, Expire(id)
      PROVE  /\ i \notin dedup' => \A v \in Threads : ~On(v, i)'
             /\ \A v, u \in Threads : On(v, i)' /\ On(u, i)' => v = u
  <2>1. id # i
    BY <1>3, Excuses DEF Expire, Unmarked
  <2>2. thread' = thread /\ dedup' = dedup \ {id}
    BY <1>3 DEF Expire
  <2> QED BY <1>0, <2>1, <2>2 DEF On
<1>4. ASSUME NEW t \in Threads, Turn(t)
      PROVE  /\ i \notin dedup' => \A v \in Threads : ~On(v, i)'
             /\ \A v, u \in Threads : On(v, i)' /\ On(u, i)' => v = u
  BY <1>0, <1>4, TurnStep, IdleType DEF On
<1>5. CASE Restart
  BY <1>5, Excuses DEF Restart, Unmarked
<1>6. CASE UNCHANGED vars
  BY <1>0, <1>6 DEF vars, On
<1> QED BY <1>1, <1>2, <1>3, <1>4, <1>5, <1>6 DEF Next, Deliver

LEMMA OneThreadAlways == Spec => [](IInv /\ OneThread)
<1>1. Init => IInv /\ OneThread
  <2> SUFFICES ASSUME Init
               PROVE  OneThread
    BY InitInv
  <2> QED BY IdleType DEF Init, OneThread, On
<1>2. IInv /\ OneThread /\ [Next]_vars => (IInv /\ OneThread)'
  BY NextInv, NextOneThread
<1> QED BY <1>1, <1>2, PTL DEF Spec
-----------------------------------------------------------------------------
(* Replies.                                                                *)

Doubled == {"lost reply", "expired", "restart"}

\* The reply of a message without a fault is its thread's last step.
OneReply ==
  \A id \in Ids : ~Met({id}, Doubled) =>
    /\ id \notin dedup => replies[id] = 0
    /\ \A t \in Threads : On(t, id) => replies[id] = 0
    /\ replies[id] <= 1

LEMMA FewerKinds ==
  ASSUME NEW ids, NEW kinds, NEW more, kinds \subseteq more, Met(ids, kinds)
  PROVE  Met(ids, more)
BY DEF Met

\* Nothing but ReplySent sends a reply, and it ends its thread unless the answer is lost.
LEMMA TurnReplies ==
  ASSUME IInv, NEW t \in Threads, Turn(t)
  PROVE  \/ replies' = replies
         \/ /\ thread[t] \in Turns
            /\ replies' = [replies EXCEPT ![thread[t].id] = replies[thread[t].id] + 1]
            /\ thread'[t] = Idle \/ \A i \in Ids : i = thread[t].id => Met({i}, Doubled)'
<1>1. CASE ReplySent(t)
  <2>1. thread[t] \in Turns
    BY <1>1, TurnType DEF ReplySent, At, IInv
  <2>2. replies' = [replies EXCEPT ![thread[t].id] = replies[thread[t].id] + 1]
    BY <1>1 DEF ReplySent
  <2>3. thread' = [thread EXCEPT ![t] = Idle] \/ Fault("lost reply", {thread[t].id})
    BY <1>1 DEF ReplySent, Ended
  <2>4. thread'[t] = Idle \/ \A i \in Ids : i = thread[t].id => Met({i}, Doubled)'
    <3>1. CASE thread' = [thread EXCEPT ![t] = Idle]
      BY <3>1 DEF IInv, TypeOK
    <3>2. CASE Fault("lost reply", {thread[t].id})
      <4>1. "lost reply" \in Doubled
        BY DEF Doubled
      <4> QED BY <3>2, <4>1, Excuses
    <3> QED BY <2>3, <3>1, <3>2
  <2> QED BY <2>1, <2>2, <2>4
<1>2. CASE ~ReplySent(t)
  BY <1>2 DEF Turn, Acquire, RunHermes, TimeOut, Conclude, ReplyFails, world
<1> QED BY <1>1, <1>2

LEMMA NextOneReply ==
  ASSUME IInv, OneThread, OneReply, [Next]_vars
  PROVE  OneReply'
<1> SUFFICES ASSUME NEW i \in Ids, ~Met({i}, Doubled)'
             PROVE  /\ i \notin dedup' => replies'[i] = 0
                    /\ \A t \in Threads : On(t, i)' => replies'[i] = 0
                    /\ replies'[i] <= 1
  BY DEF OneReply
<1>1. /\ i \notin dedup => replies[i] = 0 /\ \A t \in Threads : ~On(t, i)
      /\ \A t \in Threads : On(t, i) => replies[i] = 0
      /\ replies[i] <= 1
      /\ \A t, u \in Threads : On(t, i) /\ On(u, i) => t = u
  <2>1. ~Met({i}, Doubled)
    BY ExcusesStay
  <2>2. ~Met({i}, Unmarked)
    <3>1. Unmarked \subseteq Doubled
      BY DEF Unmarked, Doubled
    <3> QED BY <2>1, <3>1, FewerKinds
  <2> QED BY <2>1, <2>2 DEF OneReply, OneThread
<1>2. ASSUME NEW id \in Ids, NEW t \in Threads, Accept(id, t)
      PROVE  /\ i \notin dedup' => replies'[i] = 0
             /\ \A v \in Threads : On(v, i)' => replies'[i] = 0
             /\ replies'[i] <= 1
  BY <1>1, <1>2, AcceptStep DEF On
<1>3. ASSUME NEW id \in Ids, Decline(id)
      PROVE  /\ i \notin dedup' => replies'[i] = 0
             /\ \A v \in Threads : On(v, i)' => replies'[i] = 0
             /\ replies'[i] <= 1
  BY <1>1, <1>3 DEF Decline, On, world
<1>4. ASSUME NEW id \in Ids, Expire(id)
      PROVE  /\ i \notin dedup' => replies'[i] = 0
             /\ \A v \in Threads : On(v, i)' => replies'[i] = 0
             /\ replies'[i] <= 1
  <2>1. id # i
    BY <1>4, Excuses DEF Expire, Doubled
  <2>2. thread' = thread /\ dedup' = dedup \ {id} /\ replies' = replies
    BY <1>4 DEF Expire, world
  <2> QED BY <1>1, <2>1, <2>2 DEF On
<1>5. ASSUME NEW t \in Threads, Turn(t)
      PROVE  /\ i \notin dedup' => replies'[i] = 0
             /\ \A v \in Threads : On(v, i)' => replies'[i] = 0
             /\ replies'[i] <= 1
  <2>1. /\ dedup' = dedup
        /\ \A v \in Threads : On(v, i)' => On(v, i)
    BY <1>5, TurnStep, IdleType DEF On
  <2>2. CASE replies' = replies
    BY <1>1, <2>1, <2>2
  <2>3. CASE /\ thread[t] \in Turns
             /\ replies' = [replies EXCEPT ![thread[t].id] = replies[thread[t].id] + 1]
             /\ thread'[t] = Idle \/ \A id \in Ids : id = thread[t].id => Met({id}, Doubled)'
    <3>1. CASE thread[t].id # i
      BY <1>1, <2>1, <2>3, <3>1
    <3>2. CASE thread[t].id = i
      <4>1. On(t, i)
        BY <1>5, <3>2, TurnStep DEF On
      <4>2. \A v \in Threads : ~On(v, i)'
        BY <1>1, <2>1, <2>3, <3>2, <4>1, IdleType DEF On
      <4>3. replies'[i] = 1 /\ i \in dedup
        BY <1>1, <2>3, <3>2, <4>1 DEF IInv, TypeOK
      <4> QED BY <2>1, <4>2, <4>3
    <3> QED BY <3>1, <3>2
  <2> QED BY <1>5, <2>2, <2>3, TurnReplies
<1>6. CASE Restart
  BY <1>6, Excuses DEF Restart, Doubled
<1>7. CASE UNCHANGED vars
  BY <1>1, <1>7 DEF vars, world, On
<1> QED BY <1>2, <1>3, <1>4, <1>5, <1>6, <1>7 DEF Next, Deliver

\* The chat reads a reply once, unless the answer to it is lost or its mark is (adapter.py:138-163).
THEOREM RepliesOnce == Spec => []ReplyOnce
<1>1. Init => OneReply
  BY DEF Init, OneReply
<1>2. IInv /\ OneThread /\ OneReply /\ [Next]_vars => OneReply'
  BY NextOneReply
<1>3. IInv /\ OneReply => ReplyOnce
  <2> SUFFICES ASSUME IInv, OneReply, NEW id \in Ids, replies[id] > 1, ~Met({id}, Doubled)
               PROVE  FALSE
    BY DEF ReplyOnce, Doubled
  <2>1. replies[id] <= 1 /\ replies[id] \in Nat
    BY DEF OneReply, IInv, TypeOK
  <2> QED BY <2>1
<1> QED BY <1>1, <1>2, <1>3, OneThreadAlways, PTL DEF Spec
-----------------------------------------------------------------------------
(* Turns.                                                                  *)

Rerun == {"expired", "restart", "aborted", "failed"}

\* A message without a fault is answered once, by the run its thread is in or has been in.
OneAnswer ==
  \A id \in Ids : ~Met({id}, Rerun) =>
    /\ id \notin dedup => Answers(id) = {}
    /\ \A t \in Threads : On(t, id) /\ thread[t].pc \in {"waiting", "running"} => Answers(id) = {}
    /\ ~AnsweredTwice(id)

\* What a run's record adds to the answers of each message.
LEMMA RecordedAnswers ==
  ASSUME IInv, NEW id \in Ids, NEW session \in Nat, history' = Recorded(id, session), NEW i \in Ids
  PROVE  /\ i # id => Answers(i)' = Answers(i)
         /\ i = id /\ Answers(i) = {} => ~AnsweredTwice(i)'
<1>1. history \in Seq(Seq(Ids))
  BY DEF IInv, TypeOK
<1>2. CASE session = 0
  <2>1. history' = Append(history, <<id>>)
    BY <1>2 DEF Recorded
  <2>2. /\ DOMAIN history' = DOMAIN history \cup {Len(history) + 1}
        /\ \A s \in DOMAIN history : history'[s] = history[s]
        /\ history'[Len(history) + 1] = <<id>>
        /\ Len(history) + 1 \notin DOMAIN history
    BY <1>1, <2>1
  <2>3. DOMAIN <<id>> = {1} /\ <<id>>[1] = id
    OBVIOUS
  <2>4. \A s, j : <<s, j>> \in Answers(i)' <=>
          <<s, j>> \in Answers(i) \/ (i = id /\ s = Len(history) + 1 /\ j = 1)
    BY <2>2, <2>3 DEF Answers
  <2> QED BY <2>4 DEF Answers, AnsweredTwice
<1>3. CASE session # 0 /\ session \in DOMAIN history
  <2> DEFINE last == Len(history[session]) + 1
  <2>1. history' = [history EXCEPT ![session] = Append(history[session], id)]
    BY <1>3 DEF Recorded
  <2>2. /\ DOMAIN history' = DOMAIN history
        /\ \A s \in DOMAIN history \ {session} : history'[s] = history[s]
        /\ history'[session] = Append(history[session], id)
        /\ history[session] \in Seq(Ids)
    BY <1>1, <1>3, <2>1
  <2>3. /\ DOMAIN history'[session] = DOMAIN history[session] \cup {last}
        /\ \A j \in DOMAIN history[session] : history'[session][j] = history[session][j]
        /\ history'[session][last] = id /\ last \notin DOMAIN history[session]
    BY <2>2
  <2> HIDE DEF last
  <2>4. \A s, j : <<s, j>> \in Answers(i)' <=>
          <<s, j>> \in Answers(i) \/ (i = id /\ s = session /\ j = last)
    BY <1>3, <2>2, <2>3 DEF Answers
  <2> QED BY <2>4 DEF Answers, AnsweredTwice
<1>4. CASE session # 0 /\ session \notin DOMAIN history
  <2>1. history' = history
    BY <1>1, <1>4 DEF Recorded
  <2> QED BY <2>1 DEF Answers, AnsweredTwice
<1> QED BY <1>2, <1>3, <1>4

\* A turn's step and the answers: a record is made by a run only, and it is the last of its run
\* unless the run ended badly.
LEMMA TurnAnswers ==
  ASSUME IInv, NEW t \in Threads, Turn(t), NEW i \in Ids
  PROVE  \/ /\ Answers(i)' = Answers(i)
            /\ On(t, i)' /\ thread'[t].pc \in {"waiting", "running"}
               => thread[t].pc \in {"waiting", "running"}
         \/ /\ On(t, i) /\ thread[t].pc = "running"
            /\ Answers(i) = {} => ~AnsweredTwice(i)'
            /\ thread'[t].pc \notin {"waiting", "running"} \/ Met({i}, Rerun)'
<1> USE DEF IInv
<1>1. CASE Acquire(t)
  BY <1>1 DEF Acquire, At, world, Answers
<1>2. ASSUME NEW out \in Outcomes, RunHermes(t, out)
      PROVE  \/ Answers(i)' = Answers(i) /\ thread[t].pc = "running"
             \/ /\ On(t, i) /\ thread[t].pc = "running"
                /\ Answers(i) = {} => ~AnsweredTwice(i)'
                /\ thread'[t].pc \notin {"waiting", "running"} \/ Met({i}, Rerun)'
  <2>1. thread[t] \in Turns /\ thread[t].pc = "running"
    BY <1>2, TurnType DEF RunHermes, At
  <2>2. CASE ~out.session \/ thread[t].id # i
    <3>1. Answers(i)' = Answers(i)
      <4>1. CASE history' = history
        BY <4>1 DEF Answers
      <4>2. CASE history' = Recorded(thread[t].id, thread[t].session) /\ thread[t].id # i
        BY <2>1, <4>2, RecordedAnswers DEF Turns
      <4> QED BY <1>2, <2>2, <4>1, <4>2 DEF RunHermes
    <3> QED BY <2>1, <3>1
  <2>3. CASE out.session /\ thread[t].id = i
    <3>1. Answers(i) = {} => ~AnsweredTwice(i)'
      <4>1. history' = Recorded(i, thread[t].session) /\ thread[t].session \in Nat
        BY <1>2, <2>1, <2>3 DEF RunHermes, Turns
      <4> QED BY <4>1, RecordedAnswers
    <3>2. CASE out = Well
      <4>1. ~Again(thread[t].session, out)
        BY <3>2 DEF Again, Well
      <4>2. thread' = [thread EXCEPT ![t] = [thread[t] EXCEPT !.pc = "ran", !.out = out,
                                             !.session = Used(thread[t].session, out)]]
        BY <1>2, <4>1 DEF RunHermes
      <4>3. thread'[t].pc = "ran"
        BY <2>1, <4>2 DEF TypeOK, Turns
      <4> QED BY <2>1, <2>3, <3>1, <4>3 DEF On
    <3>3. CASE out # Well
      <4>1. Fault("aborted", {i}) \/ Fault("failed", {i})
        BY <1>2, <2>3, <3>3 DEF RunHermes
      <4>2. "aborted" \in Rerun /\ "failed" \in Rerun
        BY DEF Rerun
      <4>3. Met({i}, Rerun)'
        BY <4>1, <4>2, Excuses
      <4> QED BY <2>1, <2>3, <3>1, <4>3 DEF On
    <3> QED BY <3>2, <3>3
  <2> QED BY <2>2, <2>3
<1>3. CASE TimeOut(t)
  <2>1. thread[t] \in Turns /\ thread[t].pc = "running" /\ thread'[t] = Idle
    BY <1>3, TurnType DEF TimeOut, At, TypeOK
  <2>2. CASE history' = history
    BY <2>1, <2>2 DEF Answers
  <2>3. CASE history' = Recorded(thread[t].id, thread[t].session)
    BY <2>1, <2>3, RecordedAnswers, IdleType DEF On, Turns
  <2> QED BY <1>3, <2>2, <2>3 DEF TimeOut
<1>4. CASE Conclude(t)
  <2>1. PICK next \in {Idle, Fresh("replying", thread[t].id)} : thread' = [thread EXCEPT ![t] = next]
    BY <1>4 DEF Conclude, Answered
  <2>2. thread'[t].pc \notin {"waiting", "running"}
    BY <2>1, IdleType DEF Fresh, TypeOK
  <2> QED BY <1>4, <2>2 DEF Conclude, world, Answers
<1>5. CASE ReplySent(t) \/ ReplyFails(t)
  <2>1. PICK next \in {Idle, [thread[t] EXCEPT !.tries = thread[t].tries + 1]} :
          thread' = [thread EXCEPT ![t] = next]
    BY <1>5 DEF ReplySent, ReplyFails, TryAgain, Ended
  <2>2. thread[t] \in Turns /\ thread[t].pc = "replying"
    BY <1>5, TurnType DEF ReplySent, ReplyFails, At
  <2>3. thread'[t].pc \notin {"waiting", "running"}
    BY <2>1, <2>2, IdleType DEF TypeOK, Turns
  <2>4. history' = history
    BY <1>5 DEF ReplySent, ReplyFails, world
  <2>5. Answers(i)' = Answers(i)
    BY <2>4 DEF Answers
  <2> QED BY <2>3, <2>5
<1> QED BY <1>1, <1>2, <1>3, <1>4, <1>5 DEF Turn

LEMMA NextOneAnswer ==
  ASSUME IInv, OneThread, OneAnswer, [Next]_vars
  PROVE  OneAnswer'
<1> SUFFICES ASSUME NEW i \in Ids, ~Met({i}, Rerun)'
             PROVE  /\ i \notin dedup' => Answers(i)' = {}
                    /\ \A t \in Threads :
                         On(t, i)' /\ thread'[t].pc \in {"waiting", "running"} => Answers(i)' = {}
                    /\ ~AnsweredTwice(i)'
  BY DEF OneAnswer
<1>1. /\ i \notin dedup => Answers(i) = {} /\ \A t \in Threads : ~On(t, i)
      /\ \A t \in Threads : On(t, i) /\ thread[t].pc \in {"waiting", "running"} => Answers(i) = {}
      /\ ~AnsweredTwice(i)
      /\ \A t, u \in Threads : On(t, i) /\ On(u, i) => t = u
  <2>1. ~Met({i}, Rerun)
    BY ExcusesStay
  <2>2. Unmarked \subseteq Rerun
    BY DEF Unmarked, Rerun
  <2>3. ~Met({i}, Unmarked)
    BY <2>1, <2>2, FewerKinds
  <2> QED BY <2>1, <2>3 DEF OneAnswer, OneThread
<1>2. ASSUME NEW id \in Ids, NEW t \in Threads, Accept(id, t)
      PROVE  /\ i \notin dedup' => Answers(i)' = {}
             /\ \A v \in Threads :
                  On(v, i)' /\ thread'[v].pc \in {"waiting", "running"} => Answers(i)' = {}
             /\ ~AnsweredTwice(i)'
  <2>1. Answers(i)' = Answers(i) /\ (AnsweredTwice(i)' <=> AnsweredTwice(i))
    BY <1>2, AcceptStep DEF Answers, AnsweredTwice
  <2> QED BY <1>1, <1>2, <2>1, AcceptStep DEF On
<1>3. ASSUME UNCHANGED <<thread, history>>, i \notin dedup' => i \notin dedup
      PROVE  /\ i \notin dedup' => Answers(i)' = {}
             /\ \A v \in Threads :
                  On(v, i)' /\ thread'[v].pc \in {"waiting", "running"} => Answers(i)' = {}
             /\ ~AnsweredTwice(i)'
  BY <1>1, <1>3 DEF On, Answers, AnsweredTwice
<1>4. ASSUME NEW id \in Ids, Decline(id)
      PROVE  UNCHANGED <<thread, history>> /\ (i \notin dedup' => i \notin dedup)
  BY <1>4 DEF Decline, world
<1>5. ASSUME NEW id \in Ids, Expire(id)
      PROVE  UNCHANGED <<thread, history>> /\ (i \notin dedup' => i \notin dedup)
  <2>1. id # i
    BY <1>5, Excuses DEF Expire, Rerun
  <2> QED BY <1>5, <2>1 DEF Expire, world
<1>6. ASSUME NEW t \in Threads, Turn(t)
      PROVE  /\ i \notin dedup' => Answers(i)' = {}
             /\ \A v \in Threads :
                  On(v, i)' /\ thread'[v].pc \in {"waiting", "running"} => Answers(i)' = {}
             /\ ~AnsweredTwice(i)'
  <2>1. /\ dedup' = dedup
        /\ \A v \in Threads \ {t} : thread'[v] = thread[v]
        /\ \A v \in Threads : On(v, i)' => On(v, i)
    BY <1>6, TurnStep, IdleType DEF On
  <2>2. CASE /\ Answers(i)' = Answers(i)
             /\ On(t, i)' /\ thread'[t].pc \in {"waiting", "running"}
                => thread[t].pc \in {"waiting", "running"}
    <3>1. AnsweredTwice(i)' <=> AnsweredTwice(i)
      BY <2>2 DEF AnsweredTwice
    <3> QED BY <1>1, <2>1, <2>2, <3>1
  <2>3. CASE /\ On(t, i) /\ thread[t].pc = "running"
             /\ Answers(i) = {} => ~AnsweredTwice(i)'
             /\ thread'[t].pc \notin {"waiting", "running"}
    BY <1>1, <2>1, <2>3
  <2> QED BY <1>6, <2>2, <2>3, TurnAnswers
<1>7. CASE Restart
  BY <1>7, Excuses DEF Restart, Rerun
<1>8. CASE UNCHANGED vars
  BY <1>3, <1>8 DEF vars, world
<1> QED BY <1>2, <1>3, <1>4, <1>5, <1>6, <1>7, <1>8 DEF Next, Deliver

\* Hermes answers a message once, however often the shim sends it, unless its mark is gone or its
\* run ended badly (adapter.py:78-86, 311).
THEOREM TurnsOnce == Spec => []TurnOnce
<1>1. Init => OneAnswer
  BY DEF Init, OneAnswer, Answers, AnsweredTwice
<1>2. IInv /\ OneThread /\ OneAnswer /\ [Next]_vars => OneAnswer'
  BY NextOneAnswer
<1>3. OneAnswer => TurnOnce
  BY DEF OneAnswer, TurnOnce, Rerun
<1> QED BY <1>1, <1>2, <1>3, OneThreadAlways, PTL DEF Spec
-----------------------------------------------------------------------------
(* Nothing lost.  A message with something to ask is with the shim, in a   *)
(* thread, or replied to, unless it met one of the faults that lose it.    *)

Lost == {"failed", "timeout", "unsaved", "refused", "restart"}
Wanted(id) == ~Message[id].dropped /\ Routed(id) /\ Prompted(id)

Underway ==
  \A id \in Ids : Wanted(id) /\ ~Met({id}, Lost) =>
    /\ id \in dedup \/ id \notin file => replies[id] > 0 \/ \E t \in Threads : On(t, id)
    /\ \A t \in Threads : On(t, id) /\ thread[t].pc = "ran" => Texted(thread[t].out)

\* A turn's step takes its thread off its message only once the message is replied to.
LEMMA TurnGoesOn ==
  ASSUME IInv, Underway, NEW t \in Threads, Turn(t), NEW i \in Ids, Wanted(i), ~Met({i}, Lost)', ~Met({i}, Lost),
         On(t, i)
  PROVE  /\ On(t, i)' \/ replies'[i] > 0
         /\ thread'[t].pc = "ran" => Texted(thread'[t].out)
<1> USE DEF IInv
<1>1. thread[t] \in Turns /\ thread[t].id = i
  BY TurnType DEF On
<1>2. \A kind \in Lost : ~Fault(kind, {i}) /\ ~Fault(kind, Ids)
  BY Excuses
<1>3. {"failed", "timeout", "unsaved", "refused", "restart"} = Lost
  BY DEF Lost
<1>4. CASE Acquire(t)
  <2>1. thread' = [thread EXCEPT ![t].pc = "running", ![t].session = sessions[Key(thread[t].id)]]
    BY <1>4 DEF Acquire
  <2>2. thread'[t].pc = "running" /\ thread'[t].id = i
    BY <1>1, <2>1 DEF TypeOK, Turns
  <2> QED BY <2>2 DEF On
<1>5. ASSUME NEW out \in Outcomes, RunHermes(t, out)
      PROVE  On(t, i)' /\ (thread'[t].pc = "ran" => Texted(thread'[t].out))
  <2> DEFINE me == thread[t]
             again == [me EXCEPT !.session = 0]
             ran == [me EXCEPT !.pc = "ran", !.out = out, !.session = Used(me.session, out)]
  <2>1. thread' = [thread EXCEPT ![t] = IF Again(me.session, out) THEN again ELSE ran] /\ me.pc = "running"
    BY <1>5 DEF RunHermes, At
  <2>2. out = Well \/ (out.session /\ out.text)
    BY <1>1, <1>2, <1>3, <1>5 DEF RunHermes
  <2>3. Texted(out)
    BY <2>2 DEF Texted, Well
  <2>4. /\ again.pc = "running" /\ again.id = i
        /\ ran.pc = "ran" /\ ran.id = i /\ ran.out = out
    BY <1>1, <2>1 DEF Turns
  <2> HIDE DEF again, ran
  <2>5. thread'[t] = again \/ thread'[t] = ran
    BY <2>1 DEF TypeOK
  <2> QED BY <2>3, <2>4, <2>5 DEF On
<1>6. CASE TimeOut(t)
  BY <1>1, <1>2, <1>3, <1>6 DEF TimeOut
<1>7. CASE Conclude(t)
  <2>1. thread' = Answered(t)
    BY <1>1, <1>2, <1>3, <1>7 DEF Conclude
  <2>2. Texted(thread[t].out)
    BY <1>7 DEF Underway, Conclude, At
  <2>3. thread'[t] = Fresh("replying", i)
    BY <1>1, <2>1, <2>2 DEF Answered, TypeOK
  <2> QED BY <2>3, ReplyingType DEF On
<1>8. CASE ReplySent(t)
  <2>1. replies'[i] = replies[i] + 1 /\ replies[i] \in Nat
    BY <1>1, <1>8 DEF ReplySent, TypeOK
  <2>2. thread'[t].pc # "ran"
    <3>1. PICK next \in {Idle, [thread[t] EXCEPT !.tries = thread[t].tries + 1]} :
            thread' = [thread EXCEPT ![t] = next]
      BY <1>8 DEF ReplySent, TryAgain, Ended
    <3>2. thread[t].pc = "replying"
      BY <1>8 DEF ReplySent, At
    <3>3. next.pc # "ran"
      BY <1>1, <3>1, <3>2, IdleType DEF Turns
    <3> QED BY <3>1, <3>3 DEF TypeOK
  <2> QED BY <2>1, <2>2
<1>9. CASE ReplyFails(t)
  BY <1>1, <1>2, <1>3, <1>9 DEF ReplyFails
<1> QED BY <1>4, <1>5, <1>6, <1>7, <1>8, <1>9 DEF Turn

\* Replies are not taken back, and a turn leaves what the shim has.
LEMMA RepliesStay ==
  ASSUME IInv, NEW t \in Threads, Turn(t), NEW i \in Ids, replies[i] > 0
  PROVE  replies'[i] > 0
<1>1. CASE replies' = replies
  BY <1>1
<1>2. CASE thread[t] \in Turns /\ replies' = [replies EXCEPT ![thread[t].id] = replies[thread[t].id] + 1]
  BY <1>2 DEF IInv, TypeOK, Turns
<1> QED BY <1>1, <1>2, TurnReplies

LEMMA NextUnderway ==
  ASSUME IInv, Underway, [Next]_vars
  PROVE  Underway'
<1> SUFFICES ASSUME NEW i \in Ids, Wanted(i), ~Met({i}, Lost)'
             PROVE  /\ i \in dedup' \/ i \notin file' => replies'[i] > 0 \/ \E t \in Threads : On(t, i)'
                    /\ \A t \in Threads : On(t, i)' /\ thread'[t].pc = "ran" => Texted(thread'[t].out)
  BY DEF Underway, Wanted, Texted
<1>0. /\ ~Met({i}, Lost)
      /\ i \in dedup \/ i \notin file => replies[i] > 0 \/ \E t \in Threads : On(t, i)
      /\ \A t \in Threads : On(t, i) /\ thread[t].pc = "ran" => Texted(thread[t].out)
  <2>1. ~Met({i}, Lost)
    BY ExcusesStay
  <2> QED BY <2>1 DEF Underway
<1>1. ASSUME NEW id \in Ids, NEW t \in Threads, Accept(id, t)
      PROVE  /\ i \in dedup' \/ i \notin file' => replies'[i] > 0 \/ \E v \in Threads : On(v, i)'
             /\ \A v \in Threads : On(v, i)' /\ thread'[v].pc = "ran" => Texted(thread'[v].out)
  <2>1. /\ thread'[t] = Begun(id) /\ \A u \in Threads \ {t} : thread'[u] = thread[u]
        /\ thread[t].pc = "idle" /\ replies' = replies
        /\ dedup' = dedup \cup {id} /\ file \subseteq file' \cup {id}
    BY <1>1 DEF Accept, Answer, At, world, IInv, TypeOK
  <2>2. id = i => On(t, i)'
    BY <2>1 DEF Begun, Wanted, On, Fresh
  <2>3. thread'[t].pc # "ran"
    BY <2>1, BegunType
  <2>4. \A v \in Threads : On(v, i) => On(v, i)'
    BY <2>1 DEF On
  <2>5. i # id => (i \in dedup' \/ i \notin file' => i \in dedup \/ i \notin file)
    BY <2>1
  <2>6. \A v \in Threads : On(v, i)' /\ thread'[v].pc = "ran" => Texted(thread'[v].out)
    BY <1>0, <2>1, <2>3 DEF On
  <2> QED BY <1>0, <2>1, <2>2, <2>4, <2>5, <2>6
<1>2. ASSUME NEW id \in Ids, Decline(id)
      PROVE  /\ i \in dedup' \/ i \notin file' => replies'[i] > 0 \/ \E v \in Threads : On(v, i)'
             /\ \A v \in Threads : On(v, i)' /\ thread'[v].pc = "ran" => Texted(thread'[v].out)
  <2>1. /\ UNCHANGED <<thread, replies, dedup>> /\ file \subseteq file' \cup {id}
        /\ id = i => i \in dedup
    BY <1>2 DEF Decline, Answer, world, Wanted
  <2> QED BY <1>0, <2>1 DEF On, Texted
<1>3. ASSUME NEW id \in Ids, Expire(id)
      PROVE  /\ i \in dedup' \/ i \notin file' => replies'[i] > 0 \/ \E v \in Threads : On(v, i)'
             /\ \A v \in Threads : On(v, i)' /\ thread'[v].pc = "ran" => Texted(thread'[v].out)
  BY <1>0, <1>3 DEF Expire, disk, world, On, Texted
<1>4. ASSUME NEW t \in Threads, Turn(t)
      PROVE  /\ i \in dedup' \/ i \notin file' => replies'[i] > 0 \/ \E v \in Threads : On(v, i)'
             /\ \A v \in Threads : On(v, i)' /\ thread'[v].pc = "ran" => Texted(thread'[v].out)
  <2>1. /\ dedup' = dedup /\ \A v \in Threads \ {t} : thread'[v] = thread[v]
        /\ \A v \in Threads : On(v, i)' => On(v, i)
    BY <1>4, TurnStep, IdleType DEF On
  <2>2. file' = file
    BY <1>4 DEF Turn, Acquire, RunHermes, TimeOut, Conclude, ReplySent, ReplyFails, disk
  <2>3. On(t, i) => /\ On(t, i)' \/ replies'[i] > 0
                    /\ thread'[t].pc = "ran" => Texted(thread'[t].out)
    BY <1>0, <1>4, TurnGoesOn
  <2>4. \A v \in Threads \ {t} : On(v, i) => On(v, i)' /\ (thread'[v].pc = "ran" => Texted(thread'[v].out))
    BY <1>0, <2>1 DEF On
  <2>5. replies[i] > 0 => replies'[i] > 0
    BY <1>4, RepliesStay
  <2> QED BY <1>0, <2>1, <2>2, <2>3, <2>4, <2>5
<1>5. CASE Restart
  BY <1>5, Excuses DEF Restart, Lost
<1>6. CASE UNCHANGED vars
  BY <1>0, <1>6 DEF vars, disk, world, On, Texted
<1> QED BY <1>1, <1>2, <1>3, <1>4, <1>5, <1>6 DEF Next, Deliver

\* When all is quiet, what had something to ask has its reply, unless a run, a write or a reply failed or
\* the adapter was restarted (adapter.py:306-316, 246-256).
THEOREM NothingIsLost == Spec => []NothingLost
<1>1. Init => Underway
  <2> SUFFICES ASSUME Init PROVE Underway
    OBVIOUS
  <2> QED BY IdleType DEF Init, Underway, On
<1>2. IInv /\ Underway /\ [Next]_vars => Underway'
  BY NextUnderway
<1>3. IInv /\ Underway => NothingLost
  <2> SUFFICES ASSUME IInv, Underway, Done, NEW id \in Ids, Wanted(id), replies[id] = 0, ~Met({id}, Lost)
               PROVE  FALSE
    BY DEF NothingLost, Wanted, Lost
  <2> QED BY DEF Underway, Done, On, At
<1> QED BY <1>1, <1>2, <1>3, HermesInvariant, PTL DEF Spec
-----------------------------------------------------------------------------
(* Continuity.  A session of Hermes has the messages of one conversation,  *)
(* and until a run or a write fails a conversation has one session: the    *)
(* one in the file, or the one of the turn that is about to save it.       *)

Owns(h, s, k) ==
  /\ s \in DOMAIN h /\ h[s] # <<>>
  /\ \A i \in DOMAIN h[s] : h[s][i] \in Of(k)

Owned ==
  /\ \A s \in DOMAIN history : \E k \in Keys : Owns(history, s, k)
  /\ \A k \in Keys : sessions[k] = 0 \/ Owns(history, sessions[k], k)
  /\ \A t \in Threads :
       thread[t].pc \in Locked => thread[t].session = 0 \/ Owns(history, thread[t].session, Key(thread[t].id))

LEMMA OfKey ==
  ASSUME NEW id \in Ids, Routed(id), NEW k
  PROVE  id \in Of(k) <=> k = Key(id)
BY DEF Of, Key

\* A session is of one conversation only.
LEMMA OneOwner ==
  ASSUME TypeOK, NEW s, NEW k, NEW j, Owns(history, s, k), Owns(history, s, j)
  PROVE  k = j
<1>1. history[s] \in Seq(Ids) /\ history[s] # <<>>
  BY DEF TypeOK, Owns
<1>2. 1 \in DOMAIN history[s]
  BY <1>1
<1>3. history[s][1] \in Of(k) /\ history[s][1] \in Of(j)
  BY <1>2 DEF Owns
<1> QED BY <1>3 DEF Of

\* What a record does to the sessions: one message is added to a session of its own conversation,
\* or is the first of a new session.
LEMMA RecordedOwns ==
  ASSUME TypeOK, NEW id \in Ids, Routed(id), NEW session \in Nat, history' = Recorded(id, session),
         session = 0 \/ Owns(history, session, Key(id))
  PROVE  /\ \A s, k : Owns(history, s, k) => Owns(history', s, k)
         /\ \A s, k : Owns(history', s, k) => Owns(history, s, k) \/ (session = 0 /\ s = Len(history) + 1 /\ k = Key(id))
         /\ session = 0 => Owns(history', Len(history) + 1, Key(id))
         /\ DOMAIN history' \subseteq DOMAIN history \cup (IF session = 0 THEN {Len(history) + 1} ELSE {})
<1>1. history \in Seq(Seq(Ids)) /\ \A k : id \in Of(k) <=> k = Key(id)
  BY OfKey DEF TypeOK
<1>2. CASE session = 0
  <2> DEFINE new == Len(history) + 1
  <2>1. history' = Append(history, <<id>>)
    BY <1>2 DEF Recorded
  <2>2. /\ DOMAIN history' = DOMAIN history \cup {new}
        /\ \A s \in DOMAIN history : history'[s] = history[s]
        /\ history'[new] = <<id>> /\ new \notin DOMAIN history
    BY <1>1, <2>1
  <2>3. <<id>> # <<>> /\ DOMAIN <<id>> = {1} /\ <<id>>[1] = id
    OBVIOUS
  <2> HIDE DEF new
  <2>4. \A k : Owns(history', new, k) <=> k = Key(id)
    BY <1>1, <2>2, <2>3 DEF Owns
  <2>5. \A s, k : s # new => (Owns(history', s, k) <=> Owns(history, s, k))
    BY <2>2 DEF Owns
  <2>6. \A k : ~Owns(history, new, k)
    BY <2>2 DEF Owns
  <2> QED BY <1>2, <2>2, <2>4, <2>5, <2>6 DEF new
<1>3. CASE session # 0
  <2> DEFINE last == Len(history[session]) + 1
  <2>1. Owns(history, session, Key(id)) /\ session \in DOMAIN history
    BY <1>3 DEF Owns
  <2>2. /\ DOMAIN history' = DOMAIN history
        /\ \A s \in DOMAIN history \ {session} : history'[s] = history[s]
        /\ history'[session] = Append(history[session], id)
        /\ history[session] \in Seq(Ids)
    BY <1>1, <1>3, <2>1 DEF Recorded
  <2>3. /\ DOMAIN history'[session] = DOMAIN history[session] \cup {last}
        /\ \A j \in DOMAIN history[session] : history'[session][j] = history[session][j]
        /\ history'[session][last] = id /\ history'[session] # <<>>
    BY <2>2
  <2> HIDE DEF last
  <2>4. \A k : Owns(history', session, k) <=> k = Key(id)
    BY <1>1, <2>1, <2>2, <2>3 DEF Owns
  <2>5. \A k : Owns(history, session, k) <=> k = Key(id)
    BY <2>1, OneOwner
  <2>6. \A s, k : s # session => (Owns(history', s, k) <=> Owns(history, s, k))
    BY <2>2 DEF Owns
  <2> QED BY <1>3, <2>2, <2>4, <2>5, <2>6
<1> QED BY <1>2, <1>3

\* A turn's thread and its conversation.
LEMMA TurnKey ==
  ASSUME IInv, NEW t \in Threads, thread[t].pc \in Locked \cup {"waiting"}
  PROVE  /\ thread[t] \in Turns /\ thread[t].id \in Ids /\ thread[t].session \in Nat
         /\ Routed(thread[t].id) /\ Key(thread[t].id) \in Keys
<1>1. thread[t] \in Turns /\ Routed(thread[t].id)
  BY TurnType DEF IInv, Workable, Locked
<1> QED BY <1>1, KeyType DEF Turns

\* A turn that runs, and what becomes of its thread.
LEMMA RunStep ==
  ASSUME IInv, NEW t \in Threads, NEW out \in Outcomes, RunHermes(t, out)
  PROVE  /\ thread[t].pc = "running" /\ \A u \in Threads \ {t} : thread'[u] = thread[u]
         /\ thread'[t].id = thread[t].id /\ thread'[t].pc \in Locked
         /\ thread'[t].session = IF Again(thread[t].session, out) THEN 0 ELSE Used(thread[t].session, out)
         /\ ~Again(thread[t].session, out) => thread'[t].pc = "ran" /\ thread'[t].out = out
         /\ history' = IF out.session THEN Recorded(thread[t].id, thread[t].session) ELSE history
         /\ UNCHANGED sessions
<1> DEFINE me == thread[t]
           again == [me EXCEPT !.session = 0]
           ran == [me EXCEPT !.pc = "ran", !.out = out, !.session = Used(me.session, out)]
<1>1. me \in Turns /\ me.pc = "running"
  BY TurnType DEF RunHermes, At, IInv
<1>2. thread' = [thread EXCEPT ![t] = IF Again(me.session, out) THEN again ELSE ran]
  BY DEF RunHermes
<1>3. /\ again.pc = "running" /\ again.id = me.id /\ again.session = 0
      /\ ran.pc = "ran" /\ ran.id = me.id /\ ran.out = out /\ ran.session = Used(me.session, out)
  BY <1>1 DEF Turns
<1> HIDE DEF again, ran
<1>4. /\ thread'[t] = IF Again(me.session, out) THEN again ELSE ran
      /\ \A u \in Threads \ {t} : thread'[u] = thread[u]
  BY <1>2 DEF IInv, TypeOK
<1>5. history' = (IF out.session THEN Recorded(me.id, me.session) ELSE history) /\ UNCHANGED sessions
  BY DEF RunHermes, disk
<1> QED BY <1>1, <1>3, <1>4, <1>5 DEF Locked

LEMMA NextOwned ==
  ASSUME IInv, Owned, [Next]_vars
  PROVE  Owned'
<1>0. TypeOK
  BY DEF IInv
<1>1. ASSUME UNCHANGED <<history, sessions>>,
             \A u \in Threads : thread'[u] = thread[u] \/ thread'[u].pc \notin Locked
      PROVE  Owned'
  BY <1>1 DEF Owned
<1>2. ASSUME NEW t \in Threads, Acquire(t)
      PROVE  Owned'
  <2>1. thread[t] \in Turns /\ Key(thread[t].id) \in Keys
    BY <1>2, TurnKey DEF Acquire, At
  <2>2. /\ thread' = [thread EXCEPT ![t].pc = "running", ![t].session = sessions[Key(thread[t].id)]]
        /\ UNCHANGED <<history, sessions>>
    BY <1>2 DEF Acquire, disk, world
  <2>3. /\ thread'[t].session = sessions[Key(thread[t].id)] /\ thread'[t].id = thread[t].id
        /\ \A u \in Threads \ {t} : thread'[u] = thread[u]
    BY <2>1, <2>2 DEF IInv, TypeOK, Turns
  <2> QED BY <2>1, <2>2, <2>3 DEF Owned
<1>3. ASSUME NEW t \in Threads, NEW out \in Outcomes, RunHermes(t, out)
      PROVE  Owned'
  <2> DEFINE me == thread[t]
             k == Key(me.id)
  <2>1. /\ me.pc \in Locked /\ me.id \in Ids /\ Routed(me.id) /\ me.session \in Nat /\ k \in Keys
    BY <1>3, RunStep, TurnKey DEF Locked
  <2>2. me.session = 0 \/ Owns(history, me.session, k)
    BY <2>1 DEF Owned
  <2>3. CASE ~out.session
    <3>1. thread'[t].session \in {0, me.session} /\ history' = history
      BY <1>3, <2>3, RunStep DEF Used
    <3>2. \A s, j : Owns(history', s, j) <=> Owns(history, s, j)
      BY <3>1
    <3> QED BY <1>3, <2>2, <3>1, <3>2, RunStep DEF Owned
  <2>4. CASE out.session
    <3>1. history' = Recorded(me.id, me.session)
      BY <1>3, <2>4, RunStep
    <3>2. /\ \A s, j : Owns(history, s, j) => Owns(history', s, j)
          /\ me.session = 0 => Owns(history', Len(history) + 1, k)
          /\ DOMAIN history' \subseteq DOMAIN history \cup (IF me.session = 0 THEN {Len(history) + 1} ELSE {})
      BY <1>0, <2>1, <2>2, <3>1, RecordedOwns
    <3>3. thread'[t].session = 0 \/ Owns(history', thread'[t].session, k)
      BY <1>3, <2>2, <2>4, <3>2, RunStep DEF Used
    <3>4. \A s \in DOMAIN history' : \E j \in Keys : Owns(history', s, j)
      BY <2>1, <3>2 DEF Owned
    <3>5. \A u \in Threads : thread'[u].pc \in Locked =>
            thread'[u].session = 0 \/ Owns(history', thread'[u].session, Key(thread'[u].id))
      BY <1>3, <3>2, <3>3, RunStep DEF Owned
    <3>6. sessions' = sessions
      BY <1>3, RunStep
    <3> QED BY <3>2, <3>4, <3>5, <3>6 DEF Owned
  <2> QED BY <2>3, <2>4
<1>4. ASSUME NEW t \in Threads, TimeOut(t)
      PROVE  Owned'
  <2> DEFINE me == thread[t]
  <2>1. me.pc \in Locked /\ me.id \in Ids /\ Routed(me.id) /\ me.session \in Nat /\ Key(me.id) \in Keys
    BY <1>4, TurnKey DEF TimeOut, At, Locked
  <2>2. me.session = 0 \/ Owns(history, me.session, Key(me.id))
    BY <2>1 DEF Owned
  <2>3. \A u \in Threads : thread'[u] = thread[u] \/ thread'[u].pc \notin Locked
    BY <1>4, IdleType DEF TimeOut, IInv, TypeOK
  <2>4. sessions' = sessions
    BY <1>4 DEF TimeOut, disk
  <2>5. CASE history' = Recorded(me.id, me.session)
    <3>1. /\ \A s, j : Owns(history, s, j) => Owns(history', s, j)
          /\ me.session = 0 => Owns(history', Len(history) + 1, Key(me.id))
          /\ DOMAIN history' \subseteq DOMAIN history \cup (IF me.session = 0 THEN {Len(history) + 1} ELSE {})
      BY <1>0, <2>1, <2>2, <2>5, RecordedOwns
    <3>2. \A s \in DOMAIN history' : \E j \in Keys : Owns(history', s, j)
      BY <2>1, <3>1 DEF Owned
    <3> QED BY <2>3, <2>4, <3>1, <3>2 DEF Owned
  <2> QED BY <1>1, <1>4, <2>3, <2>4, <2>5 DEF TimeOut
<1>5. ASSUME NEW t \in Threads, Conclude(t)
      PROVE  Owned'
  <2> DEFINE me == thread[t]
             k == Key(me.id)
  <2>1. me.pc \in Locked /\ k \in Keys
    BY <1>5, TurnKey DEF Conclude, At, Locked
  <2>2. me.session = 0 \/ Owns(history, me.session, k)
    BY <2>1 DEF Owned
  <2>3. \A u \in Threads : thread'[u] = thread[u] \/ thread'[u].pc \notin Locked
    <3>1. PICK next \in {Idle, Fresh("replying", me.id)} : thread' = [thread EXCEPT ![t] = next]
      BY <1>5 DEF Conclude, Answered
    <3>2. next.pc \notin Locked
      BY <3>1, IdleType DEF Fresh, Locked
    <3> QED BY <3>1, <3>2 DEF IInv, TypeOK
  <2>4. history' = history
    BY <1>5 DEF Conclude, world
  <2>5. \A j \in Keys : sessions'[j] \in {0, sessions[j]} \/ (j = k /\ sessions'[j] = me.session)
    <3>1. \/ sessions' = [sessions EXCEPT ![k] = me.session]
          \/ sessions' = sessions
          \/ sessions' = [j \in Keys |-> IF j = k THEN me.session ELSE 0]
      BY <1>5 DEF Conclude
    <3> QED BY <3>1 DEF IInv, TypeOK
  <2>6. \A s, j : Owns(history', s, j) <=> Owns(history, s, j)
    BY <2>4
  <2> QED BY <2>2, <2>3, <2>4, <2>5, <2>6 DEF Owned
<1>6. ASSUME NEW t \in Threads, ReplySent(t) \/ ReplyFails(t)
      PROVE  Owned'
  <2>1. thread[t] \in Turns /\ thread[t].pc = "replying"
    BY <1>6, TurnType DEF ReplySent, ReplyFails, At, IInv
  <2>2. PICK next \in {Idle, [thread[t] EXCEPT !.tries = thread[t].tries + 1]} :
          thread' = [thread EXCEPT ![t] = next]
    BY <1>6 DEF ReplySent, ReplyFails, TryAgain, Ended
  <2>3. next.pc \notin Locked
    BY <2>1, <2>2, IdleType DEF Turns, Locked
  <2>4. UNCHANGED <<history, sessions>>
    BY <1>6 DEF ReplySent, ReplyFails, disk, world
  <2> QED BY <1>1, <2>2, <2>3, <2>4 DEF IInv, TypeOK
<1>7. ASSUME NEW id \in Ids, NEW t \in Threads, Accept(id, t)
      PROVE  Owned'
  <2>1. thread'[t] = Begun(id) /\ \A u \in Threads \ {t} : thread'[u] = thread[u]
    BY <1>7 DEF Accept, IInv, TypeOK
  <2> QED BY <1>1, <1>7, <2>1, BegunType DEF Accept, world
<1>8. ASSUME NEW id \in Ids, Decline(id) \/ Expire(id)
      PROVE  Owned'
  BY <1>1, <1>8 DEF Decline, Expire, disk, world
<1>9. CASE Restart
  BY <1>1, <1>9, IdleType DEF Restart, disk, world
<1>10. CASE UNCHANGED vars
  BY <1>1, <1>10 DEF vars, disk, world
<1> QED BY <1>2, <1>3, <1>4, <1>5, <1>6, <1>7, <1>8, <1>9, <1>10 DEF Next, Deliver, Turn

\* A turn that runs, or has run but is not saved yet, in conversation k.
Runs(me, k) == me.pc = "running" /\ Key(me.id) = k
Ran(me, k) == me.pc = "ran" /\ Key(me.id) = k
Only(h, k, s) == \A x \in DOMAIN h : Owns(h, x, k) => x = s

OneSession(k) ==
  /\ \A t \in Threads : Ran(thread[t], k) => thread[t].out.session /\ Only(history, k, thread[t].session)
  /\ \A t \in Threads : Runs(thread[t], k) => thread[t].session = sessions[k]
  /\ (\A t \in Threads : ~Ran(thread[t], k)) => Only(history, k, sessions[k])

Continued == \A k \in Keys : Of(k) # {} /\ ~Met(Of(k), Fork) => OneSession(k)

\* A conversation whose turns, saved session and records a step leaves alone.
LEMMA Framed ==
  ASSUME NEW k, OneSession(k), sessions'[k] = sessions[k],
         \A x : Owns(history', x, k) => Owns(history, x, k),
         \A u \in Threads :
           \/ thread'[u] = thread[u]
           \/ /\ ~Ran(thread[u], k) /\ ~Ran(thread'[u], k) /\ ~Runs(thread'[u], k)
  PROVE  OneSession(k)'
<1>1. \A s : Only(history, k, s) => Only(history', k, s)
  BY DEF Only, Owns
<1> QED BY <1>1 DEF OneSession

\* The lock: no other turn of the conversation runs or has yet to save its session.
LEMMA OneMine ==
  ASSUME IInv, NEW t \in Threads, NEW u \in Threads, NEW k \in Keys,
         Runs(thread[t], k) \/ Ran(thread[t], k), Runs(thread[u], k) \/ Ran(thread[u], k)
  PROVE  t = u
BY DEF IInv, HoldsLock, Runs, Ran, Locked

\* A fault of one message of a conversation is a fault of the conversation.
LEMMA Forked ==
  ASSUME NEW kind \in Fork, NEW ids, NEW k, NEW i \in Of(k), i \in ids, Fault(kind, ids)
  PROVE  Met(Of(k), Fork)'
<1>1. <<i, kind>> \in excused' \cap (Of(k) \X Fork)
  BY DEF Fault
<1> QED BY <1>1 DEF Met

LEMMA RunContinues ==
  ASSUME IInv, Owned, NEW t \in Threads, NEW out \in Outcomes, RunHermes(t, out),
         NEW k \in Keys, OneSession(k), ~Met(Of(k), Fork)'
  PROVE  OneSession(k)'
<1> DEFINE me == thread[t]
           new == Len(history) + 1
<1>1. /\ me.pc = "running" /\ me.id \in Ids /\ Routed(me.id) /\ me.session \in Nat
      /\ \A u \in Threads \ {t} : thread'[u] = thread[u]
      /\ thread'[t].id = me.id /\ sessions' = sessions
  BY RunStep, TurnKey DEF Locked
<1>2. me.session = 0 \/ Owns(history, me.session, Key(me.id))
  BY <1>1 DEF Owned, Locked
<1>3. /\ history' = history \/ history' = Recorded(me.id, me.session)
      /\ TypeOK
  BY RunStep DEF IInv
<1>4. \A s, j : Owns(history', s, j) =>
        Owns(history, s, j) \/ (me.session = 0 /\ s = new /\ j = Key(me.id))
  BY <1>1, <1>2, <1>3, RecordedOwns
<1>5. CASE Key(me.id) # k
  <2>1. /\ ~Ran(me, k) /\ ~Ran(thread'[t], k) /\ ~Runs(thread'[t], k)
    BY <1>1, <1>5 DEF Ran, Runs
  <2> QED BY <1>1, <1>4, <1>5, <2>1, Framed
<1>6. CASE Key(me.id) = k
  <2>1. me.id \in Of(k)
    BY <1>1, <1>6, OfKey
  <2>2. out = Well
    <3>1. \A kind \in Fork : ~Fault(kind, {me.id})
      BY <2>1, Forked
    <3>2. "aborted" \in Fork /\ "failed" \in Fork
      BY DEF Fork
    <3> QED BY <3>1, <3>2 DEF RunHermes
  <2>3. out.session /\ out.clean /\ ~out.stale
    BY <2>2 DEF Well
  <2>4. /\ thread'[t].pc = "ran" /\ thread'[t].out = out
        /\ thread'[t].session = IF me.session = 0 THEN new ELSE me.session
    BY <2>3, RunStep DEF Again, Used
  <2>5. me.session = sessions[k] /\ Runs(me, k)
    BY <1>1, <1>6 DEF OneSession, Runs
  <2>6. \A u \in Threads : ~Ran(thread[u], k) /\ (Runs(thread[u], k) => u = t)
    BY <1>1, <2>5, OneMine DEF Ran
  <2>7. Only(history, k, me.session)
    BY <2>5, <2>6 DEF OneSession
  <2>8. 0 \notin DOMAIN history
    BY <1>3 DEF TypeOK
  <2>9. Only(history', k, thread'[t].session)
    BY <1>4, <2>4, <2>7, <2>8 DEF Only, Owns
  <2>10. Ran(thread'[t], k) /\ ~Runs(thread'[t], k)
    BY <1>1, <1>6, <2>4 DEF Ran, Runs
  <2> QED BY <1>1, <2>3, <2>4, <2>6, <2>9, <2>10 DEF OneSession
<1> QED BY <1>5, <1>6

LEMMA ConcludeContinues ==
  ASSUME IInv, Owned, NEW t \in Threads, Conclude(t),
         NEW k \in Keys, Of(k) # {}, OneSession(k), ~Met(Of(k), Fork)'
  PROVE  OneSession(k)'
<1> DEFINE me == thread[t]
           key == Key(me.id)
<1>1. me.pc = "ran" /\ me.id \in Ids /\ Routed(me.id)
  BY TurnKey DEF Conclude, At, Locked
<1>2. "unsaved" \in Fork /\ "unread" \in Fork
  BY DEF Fork
<1>3. ~Fault("unread", Ids)
  <2>1. PICK i \in Of(k) : TRUE
    OBVIOUS
  <2>2. i \in Ids
    BY <2>1 DEF Of
  <2> QED BY <1>2, <2>1, <2>2, Forked
<1>4. history' = history
  BY DEF Conclude, world
<1>5. /\ thread'[t].pc \notin Locked
      /\ \A u \in Threads \ {t} : thread'[u] = thread[u]
  <2>1. PICK next \in {Idle, Fresh("replying", me.id)} : thread' = [thread EXCEPT ![t] = next]
    BY DEF Conclude, Answered
  <2>2. next.pc \notin Locked
    BY <2>1, IdleType DEF Fresh, Locked
  <2> QED BY <2>1, <2>2 DEF IInv, TypeOK
<1>6. ~Ran(thread'[t], k) /\ ~Runs(thread'[t], k)
  BY <1>5 DEF Ran, Runs, Locked
<1>7. CASE key # k
  <2>1. sessions' = sessions \/ sessions' = [sessions EXCEPT ![key] = me.session]
    BY <1>3 DEF Conclude
  <2>2. sessions'[k] = sessions[k]
    BY <1>7, <2>1 DEF IInv, TypeOK
  <2>3. ~Ran(me, k)
    BY <1>7 DEF Ran
  <2> QED BY <1>4, <1>5, <1>6, <2>2, <2>3, Framed
<1>8. CASE key = k
  <2>1. me.id \in Of(k)
    BY <1>1, <1>8, OfKey
  <2>2. ~Fault("unsaved", {me.id})
    BY <1>2, <2>1, Forked
  <2>3. Ran(me, k)
    BY <1>1, <1>8 DEF Ran
  <2>4. me.out.session /\ Only(history, k, me.session)
    BY <2>3 DEF OneSession
  <2>5. sessions' = [sessions EXCEPT ![k] = me.session]
    BY <1>3, <1>8, <2>2, <2>4 DEF Conclude, Saves
  <2>6. sessions'[k] = me.session
    BY <2>5 DEF IInv, TypeOK
  <2>7. \A u \in Threads : ~Ran(thread'[u], k) /\ ~Runs(thread'[u], k)
    BY <1>5, <1>6, <2>3, OneMine
  <2> QED BY <1>4, <2>4, <2>6, <2>7 DEF OneSession
<1> QED BY <1>7, <1>8

LEMMA NextContinued ==
  ASSUME IInv, Owned, Continued, [Next]_vars
  PROVE  Continued'
<1> SUFFICES ASSUME NEW k \in Keys, Of(k) # {}, ~Met(Of(k), Fork)'
             PROVE  OneSession(k)'
  BY DEF Continued
<1>1. OneSession(k)
  BY ExcusesStay DEF Continued
<1>2. ASSUME UNCHANGED <<history, sessions>>,
             \A u \in Threads : thread'[u] = thread[u] \/ {thread[u].pc, thread'[u].pc} \cap Locked = {}
      PROVE  OneSession(k)'
  <2>1. \A u \in Threads :
          {thread[u].pc, thread'[u].pc} \cap Locked = {}
          => ~Ran(thread[u], k) /\ ~Ran(thread'[u], k) /\ ~Runs(thread'[u], k)
    BY DEF Ran, Runs, Locked
  <2> QED BY <1>1, <1>2, <2>1, Framed
<1>3. ASSUME NEW t \in Threads, Acquire(t)
      PROVE  OneSession(k)'
  <2> DEFINE me == thread[t]
  <2>1. me \in Turns /\ me.pc = "waiting" /\ lock[Key(me.id)] = Free
    BY <1>3, TurnKey DEF Acquire, At
  <2>2. /\ thread' = [thread EXCEPT ![t].pc = "running", ![t].session = sessions[Key(me.id)]]
        /\ UNCHANGED <<history, sessions>>
    BY <1>3 DEF Acquire, disk, world
  <2>3. /\ thread'[t].session = sessions[Key(me.id)] /\ thread'[t].id = me.id
        /\ thread'[t].pc = "running"
        /\ \A u \in Threads \ {t} : thread'[u] = thread[u]
    BY <2>1, <2>2 DEF IInv, TypeOK, Turns
  <2>4. ~Ran(me, k) /\ ~Ran(thread'[t], k)
    BY <2>1, <2>3 DEF Ran
  <2>5. CASE Key(me.id) # k
    <3>1. ~Runs(thread'[t], k)
      BY <2>3, <2>5 DEF Runs
    <3> QED BY <1>1, <2>2, <2>3, <2>4, <3>1, Framed
  <2>6. CASE Key(me.id) = k
    <3>1. \A u \in Threads : ~Ran(thread[u], k) /\ ~Runs(thread[u], k)
      BY <2>1, <2>6, HermesAssumption DEF IInv, HoldsLock, Ran, Runs, Locked
    <3>2. Only(history, k, sessions[k])
      BY <1>1, <3>1 DEF OneSession
    <3> QED BY <2>2, <2>3, <2>4, <2>6, <3>1, <3>2 DEF OneSession
  <2> QED BY <2>5, <2>6
<1>4. ASSUME NEW t \in Threads, NEW out \in Outcomes, RunHermes(t, out)
      PROVE  OneSession(k)'
  BY <1>1, <1>4, RunContinues
<1>5. ASSUME NEW t \in Threads, TimeOut(t)
      PROVE  OneSession(k)'
  <2> DEFINE me == thread[t]
  <2>1. me.pc \in Locked /\ me.id \in Ids /\ Routed(me.id) /\ me.session \in Nat
    BY <1>5, TurnKey DEF TimeOut, At, Locked
  <2>2. me.session = 0 \/ Owns(history, me.session, Key(me.id))
    BY <2>1 DEF Owned
  <2>3. Key(me.id) # k
    <3>1. me.id \in Of(k) => Met(Of(k), Fork)'
      BY <1>5, Forked DEF TimeOut, Fork
    <3> QED BY <2>1, <3>1, OfKey
  <2>4. /\ history' = history \/ history' = Recorded(me.id, me.session)
        /\ TypeOK /\ sessions' = sessions
    BY <1>5 DEF TimeOut, disk, IInv
  <2>5. \A s : Owns(history', s, k) => Owns(history, s, k)
    BY <2>1, <2>2, <2>3, <2>4, RecordedOwns
  <2>6. thread'[t] = Idle /\ \A u \in Threads \ {t} : thread'[u] = thread[u]
    BY <1>5 DEF TimeOut, IInv, TypeOK
  <2>7. ~Ran(me, k) /\ ~Ran(thread'[t], k) /\ ~Runs(thread'[t], k)
    BY <2>3, <2>6, IdleType DEF Ran, Runs, Locked
  <2> QED BY <1>1, <2>4, <2>5, <2>6, <2>7, Framed
<1>6. ASSUME NEW t \in Threads, Conclude(t)
      PROVE  OneSession(k)'
  BY <1>1, <1>6, ConcludeContinues
<1>7. ASSUME NEW t \in Threads, ReplySent(t) \/ ReplyFails(t)
      PROVE  OneSession(k)'
  <2>1. thread[t] \in Turns /\ thread[t].pc = "replying"
    BY <1>7, TurnType DEF ReplySent, ReplyFails, At, IInv
  <2>2. PICK next \in {Idle, [thread[t] EXCEPT !.tries = thread[t].tries + 1]} :
          thread' = [thread EXCEPT ![t] = next]
    BY <1>7 DEF ReplySent, ReplyFails, TryAgain, Ended
  <2>3. next.pc \notin Locked /\ thread[t].pc \notin Locked
    BY <2>1, <2>2, IdleType DEF Turns, Locked
  <2>4. UNCHANGED <<history, sessions>>
    BY <1>7 DEF ReplySent, ReplyFails, disk, world
  <2>5. \A u \in Threads : thread'[u] = thread[u] \/ (u = t /\ thread'[u] = next)
    BY <2>2 DEF IInv, TypeOK
  <2> QED BY <1>2, <2>3, <2>4, <2>5
<1>8. ASSUME NEW id \in Ids, NEW t \in Threads, Accept(id, t)
      PROVE  OneSession(k)'
  <2>1. /\ thread'[t] = Begun(id) /\ \A u \in Threads \ {t} : thread'[u] = thread[u]
        /\ thread[t].pc = "idle"
    BY <1>8 DEF Accept, At, IInv, TypeOK
  <2>2. {thread[t].pc, thread'[t].pc} \cap Locked = {}
    BY <2>1, BegunType DEF Locked
  <2>3. UNCHANGED <<history, sessions>>
    BY <1>8 DEF Accept, world
  <2> QED BY <1>2, <2>1, <2>2, <2>3
<1>9. ASSUME NEW id \in Ids, Decline(id) \/ Expire(id)
      PROVE  OneSession(k)'
  BY <1>2, <1>9 DEF Decline, Expire, disk, world
<1>10. CASE Restart
  <2>1. PICK i \in Of(k) : TRUE
    OBVIOUS
  <2>2. i \in Ids /\ "restart" \in Fork
    BY <2>1 DEF Of, Fork
  <2> QED BY <1>10, <2>1, <2>2, Forked DEF Restart
<1>11. CASE UNCHANGED vars
  BY <1>2, <1>11 DEF vars, disk, world
<1> QED BY <1>3, <1>4, <1>5, <1>6, <1>7, <1>8, <1>9, <1>10, <1>11 DEF Next, Deliver, Turn

\* One conversation is one session: until a run or a write fails, the session in the file between two
\* turns is the one in which Hermes has answered the whole conversation, and no message of another
\* (adapter.py:9-10, 208-235).
THEOREM ConversationsContinue == Spec => []Continuity
<1>1. Init => Owned /\ Continued
  <2> SUFFICES ASSUME Init PROVE Owned /\ Continued
    OBVIOUS
  <2>1. history = <<>> /\ \A t \in Threads : thread[t].pc = "idle" /\ thread[t] = Idle
    BY IdleType DEF Init
  <2>2. Owned
    BY <2>1 DEF Init, Owned, Locked
  <2>3. \A k \in Keys : OneSession(k)
    BY <2>1 DEF OneSession, Ran, Runs, Only
  <2> QED BY <2>2, <2>3 DEF Continued
<1>2. IInv /\ Owned /\ Continued /\ [Next]_vars => Owned' /\ Continued'
  BY NextOwned, NextContinued
<1>3. IInv /\ Owned /\ Continued => Continuity
  <2> SUFFICES ASSUME IInv, Owned, Continued, NEW k \in Keys, lock[k] = Free, ~Met(Of(k), Fork),
                      NEW s \in DOMAIN history, NEW i \in DOMAIN history[s], history[s][i] \in Of(k)
               PROVE  s = sessions[k] /\ \A j \in DOMAIN history[s] : history[s][j] \in Of(k)
    BY DEF Continuity
  <2>1. PICK c \in Keys : Owns(history, s, c)
    BY DEF Owned
  <2>2. c = k
    BY <2>1 DEF Owns, Of
  <2>3. OneSession(k)
    BY DEF Continued
  <2>4. \A t \in Threads : ~Ran(thread[t], k)
    BY HermesAssumption DEF IInv, HoldsLock, Ran, Locked
  <2>5. Only(history, k, sessions[k])
    BY <2>3, <2>4 DEF OneSession
  <2> QED BY <2>1, <2>2, <2>5 DEF Only, Owns
<1> QED BY <1>1, <1>2, <1>3, HermesInvariant, PTL DEF Spec
=============================================================================
