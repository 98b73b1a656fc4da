----------------------------- MODULE TtlSetProofs -----------------------------
(***************************************************************************)
(* Proofs about TtlSet, for any keys, callers, TTL and capacity.           *)
(***************************************************************************)
EXTENDS TtlSet, FiniteSetTheorems, TLAPS

\* A caller that is before the lock has a well-typed call.
LEMMA PendingCall ==
  ASSUME TypeOK, NEW c \in Callers, NEW op \in Ops, Pending(c, op)
  PROVE  call[c] \in Calls
  BY DEF TypeOK, Pending, NoCall, Ops

LEMMA ReturnTypes ==
  ASSUME TypeOK, NEW c \in Callers, NEW value \in {"none", "seen", "unseen"}, Return(c, value)
  PROVE  /\ call' \in [Callers -> Calls \cup {NoCall}]
         /\ answer' \in [Callers -> {"none", "seen", "unseen"}]
         /\ \A d \in Callers : call'[d] # NoCall => call'[d] = call[d]
  BY DEF TypeOK, Return

\* An entry that is young at the present instant was live at any earlier one.
LEMMA YoungIsLive ==
  ASSUME NEW now \in Nat, NEW later \in Nat, NEW stamp \in Nat,
         now <= later, stamp <= later, later - stamp < TTL
  PROVE  Live(now, stamp)
  BY TtlSetAssumption DEF Live, Age

(***************************************************************************)
(* insert and sweep in one hold of the lock.                               *)
(***************************************************************************)
\* What is in the map afterwards, and how many others a dropped live key had
\* to give way to.
LEMMA InsertEffect ==
  ASSUME IInv, NEW key \in Keys, NEW now \in Nat, now <= clock, Insert(key, now)
  PROVE  /\ last' \in [Keys -> Nat \cup {Never}]
         /\ latest' \in [Keys -> Nat \cup {Never}]
         /\ \A k \in Keys : last'[k] <= latest'[k] /\ latest'[k] <= clock
         /\ \A k \in Keys : latest[k] <= latest'[k]
         /\ \A k \in Keys : k # key => last'[k] = last[k]
         /\ last'[key] = now
         /\ DOMAIN seen' \subseteq DOMAIN seen \cup {key}
         /\ \A k \in DOMAIN seen' : seen'[k] = last'[k]
         /\ Cardinality(DOMAIN seen') <= Capacity
         /\ \A k \in DOMAIN seen \cup {key} :
              Live(now, last'[k]) /\ k \notin DOMAIN seen' =>
                /\ Cardinality(DOMAIN seen') = Capacity
                /\ \A j \in DOMAIN seen' : last'[k] <= last'[j]
  <1> DEFINE map == [k \in DOMAIN seen \cup {key} |-> IF k = key THEN now ELSE seen[k]]
  <1>1. PICK kept \in Swept(map, now) : seen' = [k \in kept |-> map[k]]
    BY DEF Insert
  <1>2. /\ kept \subseteq DOMAIN seen \cup {key}
        /\ kept \subseteq Unexpired(map, now)
        /\ Cardinality(kept) <= Capacity
        /\ kept # Unexpired(map, now) => Cardinality(kept) = Capacity
        /\ \A out \in Unexpired(map, now) \ kept, in \in kept : map[out] <= map[in]
    BY <1>1 DEF Swept, Unexpired
  <1>3. /\ last' = [last EXCEPT ![key] = now]
        /\ latest' = [latest EXCEPT ![key] = IF now > @ THEN now ELSE @]
    BY DEF Insert
  <1>4. /\ last \in [Keys -> Nat \cup {Never}]
        /\ latest \in [Keys -> Nat \cup {Never}]
        /\ clock \in Nat
        /\ DOMAIN seen \subseteq Keys
        /\ \A k \in DOMAIN seen : seen[k] = last[k]
        /\ \A k \in Keys : last[k] <= latest[k] /\ latest[k] <= clock
    BY DEF IInv, TypeOK, Stamps
  <1>5. /\ last' \in [Keys -> Nat \cup {Never}]
        /\ latest' \in [Keys -> Nat \cup {Never}]
        /\ \A k \in Keys : k # key => last'[k] = last[k] /\ latest'[k] = latest[k]
        /\ last'[key] = now
        /\ latest'[key] = IF now > latest[key] THEN now ELSE latest[key]
    BY <1>3, <1>4
  <1>6. /\ \A k \in Keys : last'[k] <= latest'[k] /\ latest'[k] <= clock
        /\ \A k \in Keys : latest[k] <= latest'[k]
    <2> SUFFICES ASSUME NEW k \in Keys
                 PROVE  last'[k] <= latest'[k] /\ latest'[k] <= clock /\ latest[k] <= latest'[k]
      OBVIOUS
    <2>1. latest[k] \in Int /\ last[k] \in Int
      BY <1>4 DEF Never
    <2>2. QED
      BY <1>4, <1>5, <2>1
  <1>7. \A k \in DOMAIN seen \cup {key} : map[k] = last'[k]
    BY <1>4, <1>5
  <1>8. DOMAIN seen' = kept /\ \A k \in kept : seen'[k] = last'[k]
    BY <1>1, <1>2, <1>7
  <1>9. ASSUME NEW k \in DOMAIN seen \cup {key}, Live(now, last'[k]), k \notin kept
        PROVE  Cardinality(kept) = Capacity /\ \A j \in kept : last'[k] <= last'[j]
    <2>1. k \in Unexpired(map, now)
      BY <1>7, <1>9 DEF Unexpired
    <2>2. QED
      BY <1>2, <1>7, <1>9, <2>1
  <1>10. QED
    BY <1>2, <1>5, <1>6, <1>8, <1>9

\* The invariant after an insert, but for the callers.
LEMMA InsertKeeps ==
  ASSUME IInv, NEW key \in Keys, NEW now \in Nat, now <= clock,
         Insert(key, now), UNCHANGED clock
  PROVE  /\ DOMAIN seen' \subseteq Keys /\ \A k \in DOMAIN seen' : seen'[k] \in Nat
         /\ Bounded' /\ RemembersRecent'
  <1>1. /\ DOMAIN seen \subseteq Keys
        /\ \A k \in DOMAIN seen : seen[k] \in Nat /\ seen[k] = last[k]
        /\ last \in [Keys -> Nat \cup {Never}] /\ latest \in [Keys -> Nat \cup {Never}]
        /\ clock \in Nat
    BY DEF IInv, TypeOK, Stamps
  <1>2. DOMAIN seen' \subseteq Keys /\ \A k \in DOMAIN seen' : seen'[k] \in Nat
    BY <1>1, InsertEffect
  <1>3. Bounded'
    BY InsertEffect DEF Bounded
  <1>4. ASSUME NEW k \in Keys, Promised(k)'
        PROVE  k \in DOMAIN seen' /\ seen'[k] = last'[k]
    <2>1. /\ last'[k] \in Nat /\ last'[k] <= clock /\ clock - last'[k] < TTL
          /\ Cardinality(Younger(k)') < Capacity
      <3>1. last'[k] # Never /\ clock - last'[k] < TTL /\ Cardinality(Younger(k)') < Capacity
        BY <1>4 DEF Promised
      <3>2. last'[k] \in Nat \cup {Never} /\ latest'[k] \in Nat \cup {Never}
            /\ last'[k] <= latest'[k] /\ latest'[k] <= clock
        BY InsertEffect
      <3>3. QED
        BY <1>1, <3>1, <3>2 DEF Never
    <2>2. IsFiniteSet(Younger(k)') /\ IsFiniteSet(Younger(k))
      BY TtlSetAssumption, FS_Subset DEF Younger
    <2>3. k \in DOMAIN seen \cup {key}
      <3>1. CASE k = key
        BY <3>1
      <3>2. CASE k # key
        <4>1. last'[k] = last[k] /\ \A j \in Keys : latest[j] <= latest'[j]
          BY <3>2, InsertEffect
        <4>2. Younger(k) \subseteq Younger(k)'
          <5>1. ASSUME NEW j \in Keys, latest[j] >= last[k]
                PROVE  latest'[j] >= last'[k]
            <6>1. latest[j] \in Int /\ latest'[j] \in Int /\ last[k] \in Int
              BY <1>1, InsertEffect DEF Never
            <6>2. QED
              BY <4>1, <5>1, <6>1
          <5>2. QED
            BY <5>1 DEF Younger
        <4>3. Cardinality(Younger(k)) <= Cardinality(Younger(k)')
          BY <2>2, <4>2, FS_Subset
        <4>4. Cardinality(Younger(k)) \in Nat /\ Cardinality(Younger(k)') \in Nat
          BY <2>2, FS_CardinalityType
        <4>5. Promised(k)
          BY <2>1, <4>1, <4>3, <4>4, TtlSetAssumption DEF Promised, Never
        <4>6. QED
          BY <4>5 DEF IInv, RemembersRecent
      <3>3. QED
        BY <3>1, <3>2
    <2>4. Live(now, last'[k])
      BY <1>1, <2>1, YoungIsLive
    <2>5. ASSUME k \notin DOMAIN seen' PROVE FALSE
      <3>1. Cardinality(DOMAIN seen') = Capacity /\ \A j \in DOMAIN seen' : last'[k] <= last'[j]
        BY <2>3, <2>4, <2>5, InsertEffect
      <3>2. DOMAIN seen' \subseteq Younger(k)'
        <4>1. ASSUME NEW j \in DOMAIN seen'
              PROVE  j \in Keys \ {k} /\ latest'[j] >= last'[k]
          <5>1. j \in Keys /\ j # k
            BY <1>2, <2>5, <4>1
          <5>2. /\ last'[j] \in Nat \cup {Never} /\ latest'[j] \in Nat \cup {Never}
                /\ last'[j] <= latest'[j]
            BY <5>1, InsertEffect
          <5>3. last'[k] <= last'[j]
            BY <3>1, <4>1
          <5>4. QED
            BY <2>1, <5>1, <5>2, <5>3 DEF Never
        <4>2. QED
          BY <4>1 DEF Younger
      <3>3. Cardinality(DOMAIN seen') <= Cardinality(Younger(k)')
        BY <2>2, <3>2, FS_Subset
      <3>4. Cardinality(Younger(k)') \in Nat
        BY <2>2, FS_CardinalityType
      <3>5. QED
        BY <2>1, <3>1, <3>3, <3>4, TtlSetAssumption
    <2>6. QED
      BY <2>5, InsertEffect
  <1>5. QED
    BY <1>2, <1>3, <1>4 DEF RemembersRecent
-----------------------------------------------------------------------------
(***************************************************************************)
(* The invariant.                                                          *)
(***************************************************************************)
LEMMA InitInvariant == Init => IInv
  <1> SUFFICES ASSUME Init PROVE IInv
    OBVIOUS
  <1>1. TypeOK
    BY DEF Init, TypeOK
  <1>2. Bounded
    BY FS_EmptySet, TtlSetAssumption DEF Init, Bounded
  <1>3. Stamps
    BY DEF Init, Stamps, Never
  <1>4. RemembersRecent
    BY DEF Init, RemembersRecent, Promised
  <1>5. QED
    BY <1>1, <1>2, <1>3, <1>4 DEF IInv

\* A call that inserts and returns keeps the invariant.
LEMMA InsertReturnInvariant ==
  ASSUME IInv, NEW c \in Callers, NEW op \in Ops, Pending(c, op),
         NEW value \in {"none", "seen", "unseen"}, Return(c, value),
         Insert(call[c].key, call[c].now), UNCHANGED clock
  PROVE  IInv'
  <1>1. call[c] \in Calls /\ call[c].key \in Keys /\ call[c].now \in Nat
    BY PendingCall DEF IInv, Calls
  <1>2. call[c].now <= clock
    BY <1>1 DEF IInv, Stamps, NoCall, Calls
  <1>3. /\ call' \in [Callers -> Calls \cup {NoCall}]
        /\ answer' \in [Callers -> {"none", "seen", "unseen"}]
        /\ \A d \in Callers : call'[d] # NoCall => call'[d] = call[d]
    BY ReturnTypes DEF IInv
  <1>4. /\ DOMAIN seen' \subseteq Keys /\ \A k \in DOMAIN seen' : seen'[k] \in Nat
        /\ Bounded' /\ RemembersRecent'
    BY <1>1, <1>2, InsertKeeps
  <1>5. /\ last' \in [Keys -> Nat \cup {Never}]
        /\ latest' \in [Keys -> Nat \cup {Never}]
        /\ \A k \in Keys : last'[k] <= latest'[k] /\ latest'[k] <= clock
        /\ \A k \in DOMAIN seen' : seen'[k] = last'[k]
    BY <1>1, <1>2, InsertEffect
  <1>6. TypeOK'
    BY <1>3, <1>4, <1>5 DEF IInv, TypeOK
  <1>7. Stamps'
    BY <1>3, <1>5 DEF IInv, Stamps
  <1>8. QED
    BY <1>4, <1>6, <1>7 DEF IInv

\* A call that returns without inserting keeps it too.
LEMMA ReturnInvariant ==
  ASSUME IInv, NEW c \in Callers, NEW value \in {"none", "seen", "unseen"},
         Return(c, value), UNCHANGED <<clock, seen, last, latest>>
  PROVE  IInv'
  <1>1. /\ call' \in [Callers -> Calls \cup {NoCall}]
        /\ answer' \in [Callers -> {"none", "seen", "unseen"}]
        /\ \A d \in Callers : call'[d] # NoCall => call'[d] = call[d]
    BY ReturnTypes DEF IInv
  <1>2. TypeOK' /\ Stamps' /\ Bounded'
    BY <1>1 DEF IInv, TypeOK, Stamps, Bounded
  <1>3. RemembersRecent'
    BY DEF IInv, RemembersRecent, Promised, Younger
  <1>4. QED
    BY <1>2, <1>3 DEF IInv

LEMMA CallInvariant ==
  ASSUME IInv, NEW c \in Callers, NEW op \in Ops, NEW key \in Keys, Call(c, op, key)
  PROVE  IInv'
  <1>1. [op |-> op, key |-> key, now |-> clock] \in Calls
    BY DEF IInv, TypeOK, Calls
  <1>2. TypeOK'
    BY <1>1 DEF IInv, TypeOK, Call
  <1>3. Stamps'
    BY DEF IInv, TypeOK, Stamps, Call
  <1>4. Bounded' /\ RemembersRecent'
    BY DEF IInv, Bounded, RemembersRecent, Promised, Younger, Call
  <1>5. QED
    BY <1>2, <1>3, <1>4 DEF IInv

LEMMA TickInvariant ==
  ASSUME IInv, Tick
  PROVE  IInv'
  <1>1. TypeOK' /\ Bounded'
    BY DEF IInv, TypeOK, Bounded, Tick
  <1>2. Stamps'
    <2>1. clock \in Nat /\ clock' = clock + 1 /\ latest \in [Keys -> Nat \cup {Never}]
      BY DEF IInv, TypeOK, Tick
    <2>2. \A k \in Keys : latest[k] <= clock'
      BY <2>1 DEF IInv, Stamps, Never
    <2>3. \A c \in Callers : call[c] # NoCall => call[c].now <= clock'
      <3> SUFFICES ASSUME NEW c \in Callers, call[c] # NoCall PROVE call[c].now <= clock'
        OBVIOUS
      <3>1. call[c].now \in Nat /\ call[c].now <= clock
        BY DEF IInv, TypeOK, Stamps, Calls
      <3>2. QED
        BY <2>1, <3>1
    <2>4. QED
      BY <2>2, <2>3 DEF IInv, Stamps, Tick
  <1>3. RemembersRecent'
    <2> SUFFICES ASSUME NEW key \in Keys, Promised(key)'
                 PROVE  key \in DOMAIN seen /\ seen[key] = last[key]
      BY DEF Tick, RemembersRecent
    <2>1. clock \in Nat /\ last[key] \in Nat \cup {Never} /\ clock' = clock + 1
      BY DEF IInv, TypeOK, Tick
    <2>2. Younger(key)' = Younger(key)
      BY DEF Tick, Younger
    <2>3. Promised(key)
      BY <2>1, <2>2, TtlSetAssumption DEF Promised, Never, Tick
    <2>4. QED
      BY <2>3 DEF IInv, RemembersRecent
  <1>4. QED
    BY <1>1, <1>2, <1>3 DEF IInv

LEMMA StepInvariant == IInv /\ [Next]_vars => IInv'
  <1> SUFFICES ASSUME IInv, [Next]_vars PROVE IInv'
    OBVIOUS
  <1>1. CASE Tick
    BY <1>1, TickInvariant
  <1>2. ASSUME NEW c \in Callers, NEW op \in Ops, NEW key \in Keys, Call(c, op, key)
        PROVE  IInv'
    BY <1>2, CallInvariant
  <1>3. ASSUME NEW c \in Callers, InsertNew(c)
        PROVE  IInv'
    <2>1. CASE Return(c, "seen") /\ UNCHANGED <<seen, last, latest>>
      BY <1>3, <2>1, ReturnInvariant DEF InsertNew
    <2>2. CASE Insert(call[c].key, call[c].now) /\ Return(c, "unseen")
      BY <1>3, <2>2, InsertReturnInvariant DEF InsertNew, Ops
    <2>3. QED
      BY <1>3, <2>1, <2>2 DEF InsertNew
  <1>4. ASSUME NEW c \in Callers, Record(c)
        PROVE  IInv'
    BY <1>4, InsertReturnInvariant DEF Record, Ops
  <1>5. ASSUME NEW c \in Callers, Contains(c)
        PROVE  IInv'
    BY <1>5, ReturnInvariant DEF Contains
  <1>6. CASE UNCHANGED vars
    BY <1>6 DEF vars, IInv, TypeOK, Bounded, Stamps, RemembersRecent, Promised, Younger
  <1>7. QED
    BY <1>1, <1>2, <1>3, <1>4, <1>5, <1>6 DEF Next

\* The map of dedup.rs keeps its types, its bound and its history.
THEOREM Invariance == Spec => []IInv
  BY InitInvariant, StepInvariant, PTL DEF Spec

\* sweep never drops a key it still owes an answer for: not through clock reads
\* that reach the lock out of order, equal instants, refreshes or expiry.
THEOREM RecentIsRemembered == Spec => []RemembersRecent
  <1>1. IInv => RemembersRecent
    BY DEF IInv
  <1>2. QED
    BY <1>1, Invariance, PTL
-----------------------------------------------------------------------------
(***************************************************************************)
(* The answers.                                                            *)
(***************************************************************************)
\* What a look at the map shows at the instant a caller has read.
LEMMA PresentIsTrue ==
  ASSUME IInv, NEW c \in Callers, call[c] \in Calls
  PROVE  LET key == call[c].key
             now == call[c].now
         IN /\ Promised(key) => Present(key, now)
            /\ Present(key, now) => last[key] # Never /\ now < last[key] + TTL
  <1> DEFINE key == call[c].key
             now == call[c].now
  <1>1. /\ key \in Keys /\ now \in Nat /\ now <= clock /\ clock \in Nat
        /\ last[key] \in Nat \cup {Never}
    BY DEF IInv, TypeOK, Stamps, Calls, NoCall
  <1>2. ASSUME Promised(key) PROVE Present(key, now)
    <2>1. key \in DOMAIN seen /\ seen[key] = last[key]
      BY <1>1, <1>2 DEF IInv, RemembersRecent
    <2>2. last[key] \in Nat /\ clock - last[key] < TTL
      BY <1>1, <1>2 DEF Promised
    <2>3. last[key] <= clock
      <3>1. last[key] <= latest[key] /\ latest[key] <= clock /\ latest[key] \in Nat \cup {Never}
        BY <1>1 DEF IInv, TypeOK, Stamps
      <3>2. QED
        BY <1>1, <2>2, <3>1 DEF Never
    <2>4. Live(now, last[key])
      BY <1>1, <2>2, <2>3, YoungIsLive
    <2>5. QED
      BY <2>1, <2>4 DEF Present
  <1>3. ASSUME Present(key, now) PROVE last[key] # Never /\ now < last[key] + TTL
    <2>1. /\ key \in DOMAIN seen /\ seen[key] \in Nat /\ seen[key] = last[key]
          /\ Live(now, seen[key])
      BY <1>3 DEF Present, IInv, TypeOK, Stamps
    <2>2. QED
      BY <1>1, <2>1, TtlSetAssumption DEF Live, Age, Never
  <1>4. QED
    BY <1>2, <1>3

\* insert_new and contains tell the truth about recent keys and about old ones.
THEOREM AnswersAreTrue == Spec => AnswersTrue
  <1> DEFINE True(c) ==
        call[c] # NoCall /\ call'[c] = NoCall /\ call[c].op # "record" =>
          /\ Promised(call[c].key) => answer'[c] = "seen"
          /\ answer'[c] = "seen" =>
               last[call[c].key] # Never /\ call[c].now < last[call[c].key] + TTL
  <1>1. IInv /\ [Next]_vars => [\A c \in Callers : True(c)]_vars
    <2> SUFFICES ASSUME IInv, Next, NEW c \in Callers,
                        call[c] # NoCall, call'[c] = NoCall, call[c].op # "record"
                 PROVE  True(c)
      BY DEF vars
    <2>1. call[c] \in Calls /\ call \in [Callers -> Calls \cup {NoCall}]
          /\ answer \in [Callers -> {"none", "seen", "unseen"}]
      BY DEF IInv, TypeOK
    <2>2. CASE Tick
      BY <2>2 DEF Tick
    <2>3. ASSUME NEW d \in Callers, NEW op \in Ops, NEW key \in Keys, Call(d, op, key)
          PROVE  FALSE
      BY <2>1, <2>3 DEF Call, NoCall
    <2>4. ASSUME NEW d \in Callers, InsertNew(d)
          PROVE  True(c)
      <3>1. d = c
        BY <2>1, <2>4 DEF InsertNew, Return
      <3>2. \/ Present(call[c].key, call[c].now) /\ answer'[c] = "seen"
            \/ ~Present(call[c].key, call[c].now) /\ answer'[c] = "unseen"
        BY <2>1, <2>4, <3>1 DEF InsertNew, Return
      <3>3. QED
        BY <2>1, <3>2, PresentIsTrue
    <2>5. ASSUME NEW d \in Callers, Record(d)
          PROVE  FALSE
      BY <2>1, <2>5 DEF Record, Return, Pending
    <2>6. ASSUME NEW d \in Callers, Contains(d)
          PROVE  True(c)
      <3>1. d = c
        BY <2>1, <2>6 DEF Contains, Return
      <3>2. \/ Present(call[c].key, call[c].now) /\ answer'[c] = "seen"
            \/ ~Present(call[c].key, call[c].now) /\ answer'[c] = "unseen"
        BY <2>1, <2>6, <3>1 DEF Contains, Return
      <3>3. QED
        BY <2>1, <3>2, PresentIsTrue
    <2>7. QED
      BY <2>2, <2>3, <2>4, <2>5, <2>6 DEF Next
  <1>2. QED
    BY <1>1, Invariance, PTL DEF Spec, AnswersTrue
=============================================================================
