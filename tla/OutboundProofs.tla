---------------------------- MODULE OutboundProofs ----------------------------
(***************************************************************************)
(* Proofs about Outbound, for any rate, refill time, calls and ids.        *)
(***************************************************************************)
EXTENDS Outbound, TLAPS

(***************************************************************************)
(* Arithmetic of the limiter: each of the facts is used on products of     *)
(* granted and Refill, which are kept together.                            *)
(***************************************************************************)
LEMMA MinuteType == Minute \in Nat /\ Minute >= Refill /\ Refill \in Nat \ {0}
  <1>1. PerMinute \in Nat \ {0} /\ Refill \in Nat \ {0}
    BY OutboundAssumption
  <1>2. PICK n \in Nat : PerMinute = n + 1
    <2>1. PerMinute - 1 \in Nat /\ PerMinute = (PerMinute - 1) + 1
      BY <1>1
    <2>2. QED
      BY <2>1
  <1>3. Minute = n * Refill + Refill /\ n * Refill \in Nat
    BY <1>1, <1>2 DEF Minute
  <1>4. QED
    BY <1>1, <1>3

LEMMA OneMore ==
  ASSUME NEW n \in Nat
  PROVE  /\ n * Refill \in Nat
         /\ (n + 1) * Refill = n * Refill + Refill
         /\ n = 0 => n * Refill = 0
  BY MinuteType

\* Fewer tokens than PerMinute refill less than a minute takes.
LEMMA Spent ==
  ASSUME NEW n \in Nat, n * Refill > Minute - Refill
  PROVE  n >= PerMinute
  <1> SUFFICES ASSUME n < PerMinute PROVE FALSE
    BY OutboundAssumption
  <1>1. PICK d \in Nat : PerMinute = n + 1 + d
    <2>1. PerMinute - 1 - n \in Nat /\ PerMinute = n + 1 + (PerMinute - 1 - n)
      BY OutboundAssumption
    <2>2. QED
      BY <2>1
  <1>2. Minute = n * Refill + Refill + d * Refill /\ d * Refill \in Nat /\ n * Refill \in Nat
    BY <1>1, OutboundAssumption DEF Minute
  <1>3. QED
    BY <1>2, MinuteType
-----------------------------------------------------------------------------
(***************************************************************************)
(* The bucket, step by step.                                               *)
(***************************************************************************)
\* A token is taken: what was let through and tat grow together.
LEMMA TakeKeepsBucket ==
  ASSUME clock \in Nat, tat \in Nat, opened \in Nat, granted \in Nat,
         Bucket, HasToken, TakeToken, granted' = granted + 1, UNCHANGED <<clock, opened>>
  PROVE  Bucket'
  <1> DEFINE load == granted * Refill
  <1>1. load \in Nat /\ granted' * Refill = load + Refill /\ (granted = 0 => load = 0)
    BY OneMore
  <1>2. Minute \in Nat /\ Refill \in Nat \ {0} /\ Minute >= Refill
    BY MinuteType
  <1>3. /\ opened <= clock
        /\ tat <= clock + Minute
        /\ granted > 0 => opened + load <= tat
        /\ tat <= Later(opened + Minute, clock) + load
    BY DEF Bucket
  <1>4. tat' = Later(tat, clock) + Refill /\ tat <= clock + Minute - Refill
    BY DEF HasToken, TakeToken
  <1> HIDE DEF load
  <1>5. tat' <= clock + Minute
    BY <1>2, <1>4 DEF Later
  <1>6. opened + (load + Refill) <= tat'
    <2>1. CASE granted = 0
      BY <1>1, <1>2, <1>3, <1>4, <2>1 DEF Later
    <2>2. CASE granted > 0
      BY <1>1, <1>2, <1>3, <1>4, <2>2 DEF Later
    <2>3. QED
      BY <2>1, <2>2
  <1>7. tat' <= Later(opened + Minute, clock) + (load + Refill)
    BY <1>1, <1>2, <1>3, <1>4 DEF Later
  <1>8. QED
    BY <1>1, <1>3, <1>5, <1>6, <1>7 DEF Bucket, Minute

LEMMA TickKeepsBucket ==
  ASSUME clock \in Nat, tat \in Nat, opened \in Nat, granted \in Nat, Bucket, Tick
  PROVE  Bucket'
  <1>1. clock' = clock + 1 /\ UNCHANGED <<tat, opened, granted>>
    BY DEF Tick, limiter
  <1>2. Minute \in Nat /\ granted * Refill \in Nat
    BY MinuteType, OneMore
  <1>3. Later(opened + Minute, clock) <= Later(opened + Minute, clock + 1)
    BY <1>2 DEF Later
  <1>4. Later(opened + Minute, clock) \in Nat /\ Later(opened + Minute, clock + 1) \in Nat
    BY <1>2 DEF Later
  <1>5. tat <= Later(opened + Minute, clock + 1) + granted * Refill
    BY <1>2, <1>3, <1>4 DEF Bucket
  <1>6. opened <= clock + 1 /\ tat <= clock + 1 + Minute
    BY <1>2 DEF Bucket
  <1>7. QED
    BY <1>1, <1>5, <1>6 DEF Bucket, Minute

\* A window begins, or the process does, with a full bucket.
LEMMA OpenKeepsBucket ==
  ASSUME clock \in Nat, tat' \in Nat, tat' <= clock + Minute,
         opened' = clock, granted' = 0, UNCHANGED clock
  PROVE  Bucket'
  <1>1. Minute \in Nat /\ granted' * Refill = 0
    BY MinuteType, OneMore
  <1>2. Later(opened' + Minute, clock') = clock + Minute
    BY <1>1 DEF Later
  <1>3. QED
    BY <1>1, <1>2 DEF Bucket, Minute
-----------------------------------------------------------------------------
(***************************************************************************)
(* The invariant.                                                          *)
(***************************************************************************)
LEMMA InitInvariant == Init => IInv
  <1> SUFFICES ASSUME Init PROVE IInv
    OBVIOUS
  <1>1. TypeOK
    BY DEF Init, TypeOK
  <1>2. Bucket
    <2>1. Minute \in Nat /\ granted * Refill = 0
      BY MinuteType, OneMore DEF Init
    <2>2. QED
      BY <2>1 DEF Init, Bucket, Later
  <1>3. Carried /\ ToldIsRecorded
    BY DEF Init, Carried, ToldIsRecorded, At, Idle
  <1>4. QED
    BY <1>1, <1>2, <1>3 DEF IInv

LEMMA DoneKeeps ==
  ASSUME IInv, NEW r \in Requests, Done(r), UNCHANGED delivered
  PROVE  /\ request' \in [Requests -> {Idle} \cup
                    [pc : {"posted", "sent"}, kind : Kinds, id : MsgIds \cup {NoMsg}]]
         /\ Carried'
  BY DEF IInv, TypeOK, Carried, Done, At, Idle

LEMMA PostInvariant ==
  ASSUME IInv, NEW r \in Requests, NEW kind \in Kinds, Post(r, kind)
  PROVE  IInv'
  <1>1. /\ clock \in Nat /\ tat \in Nat /\ opened \in Nat /\ granted \in Nat
        /\ UNCHANGED <<clock, gowa, sentIds, told, opened>>
    BY DEF IInv, TypeOK, Post
  <1>2. request' \in [Requests -> {Idle} \cup
                    [pc : {"posted", "sent"}, kind : Kinds, id : MsgIds \cup {NoMsg}]]
    BY DEF IInv, TypeOK, Post
  <1>3. Carried'
    BY <1>1 DEF IInv, TypeOK, Carried, Post, At, gowa
  <1>4. ToldIsRecorded'
    BY <1>1 DEF IInv, ToldIsRecorded, gowa
  <1>5. tat' \in Nat /\ granted' \in Nat /\ Bucket'
    <2>1. CASE kind = "presence"
      <3>1. UNCHANGED <<tat, granted>>
        BY <2>1 DEF Post, Charged, Visible
      <3>2. QED
        BY <1>1, <3>1 DEF IInv, Bucket, Minute
    <2>2. CASE kind # "presence"
      <3>1. HasToken /\ TakeToken /\ granted' = granted + 1
        BY <2>2 DEF Post, Charged, Visible, Kinds
      <3>2. tat' \in Nat
        BY <1>1, <3>1, MinuteType DEF TakeToken, Later
      <3>3. Bucket'
        BY <1>1, <3>1, TakeKeepsBucket DEF IInv
      <3>4. QED
        BY <1>1, <3>1, <3>2, <3>3
    <2>3. QED
      BY <2>1, <2>2
  <1>6. TypeOK'
    BY <1>1, <1>2, <1>5 DEF IInv, TypeOK, gowa
  <1>7. QED
    BY <1>3, <1>4, <1>5, <1>6 DEF IInv

LEMMA GowaInvariant ==
  ASSUME IInv, NEW r \in Requests, GowaAccepts(r)
  PROVE  IInv'
  <1>1. UNCHANGED <<clock, limiter, ignored, sentIds, told>>
    BY DEF GowaAccepts
  <1>2. request[r] \in [pc : {"posted", "sent"}, kind : Kinds, id : MsgIds \cup {NoMsg}]
    BY DEF IInv, TypeOK, GowaAccepts, At, Idle
  <1>3. /\ request' \in [Requests -> {Idle} \cup
                    [pc : {"posted", "sent"}, kind : Kinds, id : MsgIds \cup {NoMsg}]]
        /\ delivered' \subseteq MsgIds /\ delivered \subseteq delivered'
        /\ Carried'
    <2>1. CASE request[r].kind = "message"
      <3>1. PICK id \in MsgIds \ delivered :
              /\ delivered' = delivered \cup {id}
              /\ request' = [request EXCEPT
                   ![r] = [pc |-> "sent", kind |-> "message", id |-> id]]
        BY <2>1 DEF GowaAccepts
      <3>2. QED
        BY <3>1 DEF IInv, TypeOK, Carried, At, Kinds
    <2>2. CASE request[r].kind # "message"
      <3>1. request' = [request EXCEPT ![r].pc = "sent"] /\ delivered' = delivered
        BY <2>2 DEF GowaAccepts
      <3>2. request' = [request EXCEPT ![r] = [request[r] EXCEPT !.pc = "sent"]]
        BY <3>1, <1>2 DEF IInv, TypeOK
      <3>3. [request[r] EXCEPT !.pc = "sent"] = [pc |-> "sent", kind |-> request[r].kind, id |-> request[r].id]
        BY <1>2
      <3>4. QED
        BY <1>2, <2>2, <3>1, <3>2, <3>3 DEF IInv, TypeOK, Carried, At
    <2>3. QED
      BY <2>1, <2>2
  <1>4. TypeOK'
    BY <1>1, <1>3 DEF IInv, TypeOK, limiter
  <1>5. Bucket'
    BY <1>1 DEF IInv, Bucket, limiter, Minute
  <1>6. ToldIsRecorded'
    BY <1>1, <1>3 DEF IInv, ToldIsRecorded
  <1>7. QED
    BY <1>3, <1>4, <1>5, <1>6 DEF IInv

LEMMA AnswerInvariant ==
  ASSUME IInv, NEW r \in Requests, Answer(r)
  PROVE  IInv'
  <1>1. UNCHANGED <<clock, limiter, gowa>>
    BY DEF Answer
  <1>2. /\ request' \in [Requests -> {Idle} \cup
                    [pc : {"posted", "sent"}, kind : Kinds, id : MsgIds \cup {NoMsg}]]
        /\ Carried'
    BY <1>1, DoneKeeps DEF Answer, gowa
  <1>3. MessagesOf(r) \subseteq delivered
    BY DEF IInv, Carried, Answer, MessagesOf
  <1>4. ToldIsRecorded' /\ sentIds' \subseteq MsgIds /\ told' \subseteq MsgIds
    BY <1>1, <1>3 DEF IInv, TypeOK, ToldIsRecorded, Answer, gowa
  <1>5. TypeOK'
    BY <1>1, <1>2, <1>4 DEF IInv, TypeOK, limiter, gowa
  <1>6. Bucket'
    BY <1>1 DEF IInv, Bucket, limiter, Minute
  <1>7. QED
    BY <1>2, <1>4, <1>5, <1>6 DEF IInv

LEMMA StepInvariant == IInv /\ [Next]_vars => IInv'
  <1> SUFFICES ASSUME IInv, [Next]_vars PROVE IInv'
    OBVIOUS
  <1>1. ASSUME NEW r \in Requests, NEW kind \in Kinds, Post(r, kind) PROVE IInv'
    BY <1>1, PostInvariant
  <1>2. ASSUME NEW r \in Requests, GowaAccepts(r) PROVE IInv'
    BY <1>2, GowaInvariant
  <1>3. ASSUME NEW r \in Requests, Answer(r) PROVE IInv'
    BY <1>3, AnswerInvariant
  <1>4. ASSUME NEW r \in Requests, EndUnrecorded(r) PROVE IInv'
    <2>1. UNCHANGED <<clock, limiter, gowa, sentIds, told>> /\ Done(r)
      BY <1>4 DEF EndUnrecorded
    <2>2. QED
      BY <2>1, DoneKeeps DEF IInv, TypeOK, Bucket, ToldIsRecorded, limiter, gowa, Minute
  <1>5. ASSUME NEW id \in MsgIds, UserReplies(id) PROVE IInv'
    BY <1>5 DEF UserReplies, IInv, TypeOK, Bucket, Carried, ToldIsRecorded, limiter, Minute, At
  <1>6. CASE Restart
    <2>1. TypeOK' /\ Carried' /\ ToldIsRecorded'
      BY <1>6 DEF Restart, IInv, TypeOK, Carried, ToldIsRecorded, gowa, At, Idle
    <2>2. Bucket'
      BY <1>6, OpenKeepsBucket, MinuteType DEF Restart, IInv, TypeOK
    <2>3. QED
      BY <2>1, <2>2 DEF IInv
  <1>7. CASE Tick
    <2>1. TypeOK' /\ Carried' /\ ToldIsRecorded'
      BY <1>7 DEF Tick, IInv, TypeOK, Carried, ToldIsRecorded, gowa, limiter, At
    <2>2. Bucket'
      BY <1>7, TickKeepsBucket DEF IInv, TypeOK
    <2>3. QED
      BY <2>1, <2>2 DEF IInv
  <1>8. CASE OpenWindow
    <2>1. TypeOK' /\ Carried' /\ ToldIsRecorded'
      BY <1>8 DEF OpenWindow, IInv, TypeOK, Carried, ToldIsRecorded, gowa, At
    <2>2. Bucket'
      BY <1>8, OpenKeepsBucket DEF OpenWindow, IInv, TypeOK, Bucket
    <2>3. QED
      BY <2>1, <2>2 DEF IInv
  <1>9. CASE UNCHANGED vars
    BY <1>9 DEF vars, IInv, TypeOK, Bucket, Carried, ToldIsRecorded, limiter, gowa, Minute, At
  <1>10. QED
    BY <1>1, <1>2, <1>3, <1>4, <1>5, <1>6, <1>7, <1>8, <1>9 DEF Next, Call

\* The variables keep their types, the bucket its bounds, a call its id.
THEOREM Invariance == Spec => []IInv
  BY InitInvariant, StepInvariant, PTL DEF Spec

\* An id the agent was given is one the mention check knows.
THEOREM ToldIsRemembered == Spec => []ToldIsRecorded
  <1>1. IInv => ToldIsRecorded
    BY DEF IInv
  <1>2. QED
    BY <1>1, Invariance, PTL

\* In any window no more is let through than a full bucket and the refill.
THEOREM RateIsBounded == Spec => []WindowBound
  <1>1. IInv => WindowBound
    <2> SUFFICES ASSUME IInv PROVE WindowBound
      OBVIOUS
    <2>1. /\ clock \in Nat /\ tat \in Nat /\ opened \in Nat /\ granted \in Nat
          /\ opened <= clock /\ tat <= clock + Minute
          /\ granted > 0 => opened + granted * Refill <= tat
      BY DEF IInv, TypeOK, Bucket
    <2>2. Minute \in Nat /\ granted * Refill \in Nat /\ (granted = 0 => granted * Refill = 0)
      BY MinuteType, OneMore, <2>1
    <2>3. QED
      BY <2>1, <2>2 DEF WindowBound
  <1>2. QED
    BY <1>1, Invariance, PTL

\* The limiter refuses no call before a full bucket has been spent in a minute.
THEOREM DenialIsDeserved == Spec => []DeniedOnlyWhenSpent
  <1>1. IInv => DeniedOnlyWhenSpent
    <2> SUFFICES ASSUME IInv, ~HasToken, opened + Minute <= clock PROVE granted >= PerMinute
      BY DEF DeniedOnlyWhenSpent
    <2>1. /\ clock \in Nat /\ tat \in Nat /\ opened \in Nat /\ granted \in Nat
          /\ tat <= Later(opened + Minute, clock) + granted * Refill
      BY DEF IInv, TypeOK, Bucket
    <2>2. Minute \in Nat /\ Refill \in Nat /\ granted * Refill \in Nat
      BY MinuteType, OneMore, <2>1
    <2>3. Later(opened + Minute, clock) = clock
      BY <2>1, <2>2 DEF Later
    <2>4. tat > clock + Minute - Refill
      BY <2>1, <2>2 DEF HasToken
    <2>5. granted * Refill > Minute - Refill
      BY <2>1, <2>2, <2>3, <2>4
    <2>6. QED
      BY <2>1, <2>5, Spent
  <1>2. QED
    BY <1>1, Invariance, PTL
=============================================================================
