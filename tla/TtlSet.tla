-------------------------------- MODULE TtlSet --------------------------------
(***************************************************************************)
(* The TTL'd, bounded set behind the inbound dedup and the sent-id cache   *)
(* (src/dedup.rs, src/sent_ids.rs).  Every operation reads the clock first *)
(* and takes the lock afterwards, so calls may enter the lock in another   *)
(* order than they read the clock in, and a time stamp may be older than   *)
(* those already in the map.                                               *)
(***************************************************************************)
EXTENDS Integers, FiniteSets

CONSTANTS
  Keys,             \* message ids
  Callers,          \* threads that use the set at the same time
  TTL,              \* how long an entry lives
  Capacity,         \* upper bound on the entries (at least 1: new takes the max)
  MaxClock          \* bound: the clock's last instant

ASSUME TtlSetAssumption ==
  /\ IsFiniteSet(Keys)
  /\ TTL \in Nat
  /\ Capacity \in Nat \ {0}
  /\ MaxClock \in Nat

VARIABLES
  clock,            \* what Instant::now() returns; it may return it twice
  seen,             \* the map: a partial function from Keys to instants
  call,             \* [Callers -> the call before the lock, or NoCall]
  answer,           \* [Callers -> what the last call returned]
  last,             \* history: the instant each key was last inserted with
  latest            \* history: the latest instant each key was inserted with

vars == <<clock, seen, call, answer, last, latest>>
-----------------------------------------------------------------------------
Ops == {"insert_new", "record", "contains"}
Calls == [op : Ops, key : Keys, now : Nat]
NoCall == [op |-> "none"]
Never == -1

TypeOK ==
  /\ clock \in Nat
  /\ DOMAIN seen \subseteq Keys
  /\ \A key \in DOMAIN seen : seen[key] \in Nat
  /\ call \in [Callers -> Calls \cup {NoCall}]
  /\ answer \in [Callers -> {"none", "seen", "unseen"}]
  /\ last \in [Keys -> Nat \cup {Never}]
  /\ latest \in [Keys -> Nat \cup {Never}]

Init ==
  /\ clock = 0
  /\ seen = [key \in {} |-> 0]
  /\ call = [c \in Callers |-> NoCall]
  /\ answer = [c \in Callers |-> "none"]
  /\ last = [key \in Keys |-> Never]
  /\ latest = [key \in Keys |-> Never]
-----------------------------------------------------------------------------
\* duration_since saturates at zero when the stamp is the younger instant.
Age(now, stamp) == IF now > stamp THEN now - stamp ELSE 0

LiveInclusive(now, stamp) == Age(now, stamp) <= TTL   \* mutant: off by one
Live(now, stamp) == Age(now, stamp) < TTL

\* What retain keeps of a map.
Unexpired(map, now) == {key \in DOMAIN map : Live(now, map[key])}

\* The key sets sweep may leave: the unexpired ones, less the oldest while they
\* are too many.  Which of several equally old keys goes is up to the hash map.
SweptNewestFirst(map, now) ==                   \* mutant: evicts the newest
  {kept \in SUBSET Unexpired(map, now) :
     /\ Cardinality(kept) <= Capacity
     /\ kept # Unexpired(map, now) => Cardinality(kept) = Capacity
     /\ \A out \in Unexpired(map, now) \ kept, in \in kept : map[in] <= map[out]}
Unswept(map, now) == {DOMAIN map}               \* mutant: no sweep
Swept(map, now) ==
  {kept \in SUBSET Unexpired(map, now) :
     /\ Cardinality(kept) <= Capacity
     /\ kept # Unexpired(map, now) => Cardinality(kept) = Capacity
     /\ \A out \in Unexpired(map, now) \ kept, in \in kept : map[out] <= map[in]}

\* map.insert and sweep, in one hold of the lock.
Insert(key, now) ==
  LET map == [k \in DOMAIN seen \cup {key} |-> IF k = key THEN now ELSE seen[k]] IN
  /\ \E kept \in Swept(map, now) : seen' = [k \in kept |-> map[k]]
  /\ last' = [last EXCEPT ![key] = now]
  /\ latest' = [latest EXCEPT ![key] = IF now > @ THEN now ELSE @]

\* The map has a live entry for key.
Present(key, now) == key \in DOMAIN seen /\ Live(now, seen[key])

Return(c, value) ==
  /\ call' = [call EXCEPT ![c] = NoCall]
  /\ answer' = [answer EXCEPT ![c] = value]
-----------------------------------------------------------------------------
\* The clock is read, the lock not yet taken.
Call(c, op, key) ==
  /\ call[c] = NoCall
  /\ call' = [call EXCEPT ![c] = [op |-> op, key |-> key, now |-> clock]]
  /\ answer' = [answer EXCEPT ![c] = "none"]
  /\ UNCHANGED <<clock, seen, last, latest>>

Pending(c, op) == call[c].op = op

\* false ("seen") leaves a live entry and its stamp alone.
InsertNew(c) ==
  /\ Pending(c, "insert_new")
  /\ \/ /\ Present(call[c].key, call[c].now)
        /\ Return(c, "seen")
        /\ UNCHANGED <<seen, last, latest>>
     \/ /\ ~Present(call[c].key, call[c].now)
        /\ Insert(call[c].key, call[c].now)
        /\ Return(c, "unseen")
  /\ UNCHANGED clock

Record(c) ==
  /\ Pending(c, "record")
  /\ Insert(call[c].key, call[c].now)
  /\ Return(c, "none")
  /\ UNCHANGED clock

Contains(c) ==
  /\ Pending(c, "contains")
  /\ Return(c, IF Present(call[c].key, call[c].now) THEN "seen" ELSE "unseen")
  /\ UNCHANGED <<clock, seen, last, latest>>

Tick ==
  /\ clock < MaxClock
  /\ clock' = clock + 1
  /\ UNCHANGED <<seen, call, answer, last, latest>>

Next ==
  \/ Tick
  \/ \E c \in Callers :
       \/ \E op \in Ops, key \in Keys : Call(c, op, key)
       \/ InsertNew(c) \/ Record(c) \/ Contains(c)

Spec == Init /\ [][Next]_vars
-----------------------------------------------------------------------------
\* The other keys that were ever stamped at least as young as key's entry.
Younger(key) == {k \in Keys \ {key} : latest[k] >= last[key]}

\* What a user of the set may count on: key was recorded less than TTL ago, and
\* fewer than Capacity other keys are competing with it for a place.
Promised(key) ==
  /\ last[key] # Never
  /\ clock - last[key] < TTL
  /\ Cardinality(Younger(key)) < Capacity

\* sweep (dedup.rs) drops no promised key, whatever the order of the clock
\* reads, equal instants, refreshes and expiries: only a key with Capacity
\* others at least as young can be evicted before its TTL is over.
RemembersRecent ==
  \A key \in Keys :
    Promised(key) => key \in DOMAIN seen /\ seen[key] = last[key]

\* insert_new and contains never deny a promised key, and never report a key
\* whose last insertion is TTL or more before they read the clock: a late
\* redelivery is a duplicate, and a key whose time is over is new again.
AnswersTrue ==
  [][\A c \in Callers :
       call[c] # NoCall /\ call'[c] = NoCall /\ call[c].op # "record" =>
         LET key == call[c].key IN
         /\ Promised(key) => answer'[c] = "seen"
         /\ answer'[c] = "seen" => last[key] # Never /\ call[c].now < last[key] + TTL
    ]_vars

\* The map never outgrows its capacity between two calls, and never disagrees
\* with the history; calls carry instants the clock has shown.
Bounded == Cardinality(DOMAIN seen) <= Capacity
Stamps ==
  /\ \A key \in DOMAIN seen : seen[key] = last[key]
  /\ \A key \in Keys : last[key] <= latest[key] /\ latest[key] <= clock
  /\ \A c \in Callers : call[c] # NoCall => call[c].now <= clock

\* The inductive invariant of dedup.rs's map: what the proofs carry from step to
\* step.
IInv == TypeOK /\ Bounded /\ Stamps /\ RemembersRecent
=============================================================================
