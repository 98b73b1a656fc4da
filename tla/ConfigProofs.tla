----------------------------- MODULE ConfigProofs ------------------------------
(***************************************************************************)
(* Lemmas that the proofs about the shim and about the view share: lists,  *)
(* least elements, what is put in order, and the configuration of a valid  *)
(* environment.                                                            *)
(***************************************************************************)
EXTENDS Config, FiniteSetTheorems, SequenceTheorems, TLAPS

(***************************************************************************)
(* Lists and finite sets.                                                  *)
(***************************************************************************)
LEMMA FiniteImage ==
  ASSUME NEW S, IsFiniteSet(S), NEW f, DOMAIN f = S
  PROVE  IsFiniteSet({f[x] : x \in S})
  <1> DEFINE T == {f[x] : x \in S}
             g == [x \in S |-> f[x]]
  <1>1. g \in Surjection(S, T)
    BY DEF Surjection
  <1>2. QED
    BY <1>1, FS_Surjection

LEMMA FunctionIsList ==
  ASSUME NEW n \in Nat, NEW f, f = [i \in 1 .. n |-> f[i]]
  PROVE  f \in Seq({f[i] : i \in 1 .. n}) /\ Len(f) = n /\ DOMAIN f = 1 .. n
  <1> DEFINE S == {f[i] : i \in 1 .. n}
  <1>1. \A i \in 1 .. n : f[i] \in S
    OBVIOUS
  <1> HIDE DEF S
  <1>2. f \in [1 .. n -> S]
    BY <1>1
  <1>3. f \in Seq(S) /\ Len(f) = n /\ DOMAIN f = 1 .. n
    BY <1>2
  <1>4. QED
    BY <1>3 DEF S

LEMMA ListParts ==
  ASSUME NEW list, IsList(list)
  PROVE  /\ Len(list) \in Nat /\ DOMAIN list = 1 .. Len(list)
         /\ IsFiniteSet(DOMAIN list)
         /\ \A i \in DOMAIN list : list[i] \in ToSet(list)
  <1>1. Len(list) \in Nat /\ DOMAIN list = 1 .. Len(list)
    BY DEF IsList
  <1>2. IsFiniteSet(DOMAIN list)
    BY <1>1, FS_Interval
  <1>3. QED
    BY <1>1, <1>2 DEF ToSet

LEMMA ListOf ==
  ASSUME NEW S, NEW list \in Seq(S)
  PROVE  IsList(list)
  <1>1. Len(list) \in Nat /\ list \in [1 .. Len(list) -> S] /\ DOMAIN list = 1 .. Len(list)
    OBVIOUS
  <1>2. \A i \in 1 .. Len(list) : list[i] \in ToSet(list)
    BY <1>1 DEF ToSet
  <1>3. list \in [1 .. Len(list) -> ToSet(list)]
    BY <1>1, <1>2
  <1>4. QED
    BY <1>1, <1>3 DEF IsList

LEMMA JoinIsList ==
  ASSUME NEW s, NEW t, IsList(s), IsList(t)
  PROVE  IsList(s \o t)
  <1> DEFINE S == ToSet(s) \cup ToSet(t)
  <1>1. s \in Seq(S) /\ t \in Seq(S)
    BY DEF IsList
  <1> HIDE DEF S
  <1>2. s \o t \in Seq(S)
    BY <1>1
  <1>3. QED
    BY <1>2, ListOf

\* A set of numbers has a least one: what stands in for induction here.
LEMMA LeastNumber ==
  ASSUME NEW T \in SUBSET Nat, T # {}
  PROVE  \E x \in T : \A y \in T : x <= y
  <1> DEFINE R == OpToRel(<, Nat)
  <1>1. \A x, y \in Nat : <<y, x>> \in R <=> y < x
    BY DEF OpToRel
  <1>2. IsWellFoundedOn(R, Nat)
    BY NatLessThanWellFounded
  <1> HIDE DEF R
  <1>3. PICK x \in T : \A y \in T : ~(<<y, x>> \in R)
    BY <1>2, WFMin
  <1>4. \A y \in T : y \in Nat /\ x \in Nat
    OBVIOUS
  <1>5. \A y \in T : ~(y < x)
    BY <1>1, <1>3, <1>4
  <1>6. QED
    BY <1>4, <1>5

\* Numbers in order: each of the set has its place, which is its rank, and only one.
LEMMA InOrder ==
  ASSUME NEW S \in SUBSET Nat, IsFiniteSet(S)
  PROVE  /\ Cardinality(S) \in Nat /\ DOMAIN Ascending(S) = 1 .. Cardinality(S)
         /\ Ascending(S) \in Seq(S) /\ Len(Ascending(S)) = Cardinality(S)
         /\ \A n \in 1 .. Cardinality(S) : Rank(S, Ascending(S)[n]) = n
         /\ \A i \in S : Rank(S, i) \in 1 .. Cardinality(S) /\ Ascending(S)[Rank(S, i)] = i
  <1> DEFINE n == Cardinality(S)
             below(i) == {j \in S : j <= i}
             rank == [i \in S |-> Rank(S, i)]
  <1>1. n \in Nat
    BY FS_CardinalityType
  <1>2. ASSUME NEW i \in S
        PROVE  IsFiniteSet(below(i)) /\ Cardinality(below(i)) \in 1 .. n
    <2>1. IsFiniteSet(below(i)) /\ Cardinality(below(i)) <= n
      BY FS_Subset
    <2>2. below(i) # {} /\ Cardinality(below(i)) \in Nat
      BY <2>1, FS_CardinalityType
    <2>3. Cardinality(below(i)) # 0
      BY <2>1, <2>2, FS_EmptySet
    <2>4. QED
      BY <1>1, <2>1, <2>2, <2>3
  <1>3. ASSUME NEW i \in S, NEW k \in S, i < k
        PROVE  Cardinality(below(i)) < Cardinality(below(k))
    <2>1. /\ \A j \in S : j \in Nat
          /\ \A j : j \in below(i) => j \in S /\ j <= i
          /\ \A j \in S : j <= k => j \in below(k)
      OBVIOUS
    <2> HIDE DEF below
    <2>2. i \in Nat /\ k \in Nat /\ i < k
      BY <1>3
    <2>3. k \notin below(i)
      BY <2>1, <2>2
    <2>4. \A j : j \in below(i) => j \in below(k)
      <3> SUFFICES ASSUME NEW j, j \in below(i) PROVE j \in below(k)
        OBVIOUS
      <3>1. j \in S /\ j \in Nat /\ j <= i
        BY <2>1
      <3>2. QED
        BY <2>1, <2>2, <3>1
    <2>5. k \in below(k)
      BY <2>1, <2>2
    <2>6. k \notin below(i) /\ below(i) \cup {k} \in SUBSET below(k)
      BY <2>3, <2>4, <2>5
    <2>7. Cardinality(below(i) \cup {k}) = Cardinality(below(i)) + 1
      BY <1>2, <2>6, FS_AddElement
    <2>8. Cardinality(below(i) \cup {k}) <= Cardinality(below(k))
      BY <1>2, <2>6, FS_Subset
    <2>9. QED
      BY <1>2, <2>7, <2>8
  <1>4. \A i \in S : rank[i] = Cardinality(below(i)) /\ rank[i] = Rank(S, i)
    BY DEF Rank
  <1> HIDE DEF below, rank
  <1>5. rank \in [S -> 1 .. n]
    BY <1>2, <1>4 DEF rank
  <1>6. \A i, k \in S : rank[i] = rank[k] => i = k
    <2> SUFFICES ASSUME NEW i \in S, NEW k \in S, rank[i] = rank[k], i # k
                 PROVE  FALSE
      OBVIOUS
    <2>1. i < k \/ k < i
      OBVIOUS
    <2>2. QED
      BY <1>2, <1>3, <1>4, <2>1
  <1>7. rank \in Injection(S, 1 .. n)
    BY <1>5, <1>6 DEF Injection, IsInjective
  <1>8. IsFiniteSet(1 .. n) /\ Cardinality(1 .. n) = n
    BY <1>1, FS_Interval
  <1>9. rank \in Surjection(S, 1 .. n)
    BY <1>7, <1>8, FS_Injection
  <1>10. \A m \in 1 .. n : \E i \in S : Rank(S, i) = m
    BY <1>4, <1>9 DEF Surjection
  <1>11. \A m \in 1 .. n : Ascending(S)[m] \in S /\ Rank(S, Ascending(S)[m]) = m
    BY <1>10 DEF Ascending
  <1>12. ASSUME NEW i \in S
         PROVE  Rank(S, i) \in 1 .. n /\ Ascending(S)[Rank(S, i)] = i
    <2>1. Rank(S, i) \in 1 .. n
      BY <1>4, <1>5
    <2>2. /\ Ascending(S)[Rank(S, i)] \in S
          /\ Rank(S, Ascending(S)[Rank(S, i)]) = Rank(S, i)
      BY <1>11, <2>1
    <2>3. QED
      BY <1>4, <1>6, <2>1, <2>2
  <1>13. Ascending(S) \in [1 .. n -> S] /\ DOMAIN Ascending(S) = 1 .. n
    BY <1>11 DEF Ascending
  <1>14. Ascending(S) \in Seq(S) /\ Len(Ascending(S)) = n
    BY <1>1, <1>13
  <1>15. QED
    BY <1>1, <1>11, <1>12, <1>13, <1>14

(***************************************************************************)
(* The configuration of a valid environment.                               *)
(***************************************************************************)
\* The map from groups to labels is the one the environment's text states.
LEMMA GroupMap ==
  ASSUME NEW v, Valid(v), NEW i \in DOMAIN v.group_channels
  PROVE  /\ v.group_channels[i].jid \in Groups
         /\ v.group_channels[i].jid \in DOMAIN from_env(v).group_channels
         /\ from_env(v).group_channels[v.group_channels[i].jid] = v.group_channels[i].label
         /\ v.group_channels[i].label \in DOMAIN from_env(v).channels
         /\ v.group_channels[i].jid \in from_env(v).policy.group_allow
  <1> DEFINE jid == v.group_channels[i].jid
             j == CHOOSE j \in DOMAIN v.group_channels : v.group_channels[j].jid = jid
  <1>1. j \in DOMAIN v.group_channels /\ v.group_channels[j].jid = jid
    OBVIOUS
  <1>2. j = i
    BY <1>1 DEF Valid, parse_group_channels
  <1>3. jid \in DOMAIN from_env(v).group_channels
    BY DEF from_env
  <1>4. from_env(v).group_channels[jid] = v.group_channels[i].label
    BY <1>2 DEF from_env, GroupLabel
  <1>5. v.group_channels[i].label \in DOMAIN from_env(v).channels
    BY DEF from_env, Valid, validate_group_channel_labels
  <1>6. jid \in from_env(v).policy.group_allow
    BY DEF from_env, Policy, group_allow
  <1>7. QED
    BY <1>3, <1>4, <1>5, <1>6 DEF Valid, parse_group_channels

\* A channel other than the default has the URL it was given, and its own token if it has one.
LEMMA ChannelMap ==
  ASSUME NEW v, Valid(v)
  PROVE  /\ DOMAIN from_env(v).channels = {"default"} \cup {v.channels[i].label : i \in DOMAIN v.channels}
         /\ from_env(v).channels["default"].inbound_url = v.agent_url
         /\ from_env(v).channels["default"].bearer = Secret(v.webhook_token)
         /\ \A i \in DOMAIN v.channels :
              LET c == from_env(v).channels[v.channels[i].label]
              IN  /\ v.channels[i].label # "default"
                  /\ c.inbound_url = v.channels[i].url
                  /\ Secret(v.channels[i].token) \in {"", c.bearer}
  <1>1. /\ DOMAIN from_env(v).channels = {"default"} \cup {v.channels[i].label : i \in DOMAIN v.channels}
        /\ from_env(v).channels["default"] = ChannelConfig(v, "default")
    BY DEF from_env, label_set, DEFAULT_CHANNEL
  <1>2. ChannelConfig(v, "default") = [inbound_url |-> v.agent_url, bearer |-> Secret(v.webhook_token)]
    BY DEF ChannelConfig, DEFAULT_CHANNEL
  <1>3. ASSUME NEW i \in DOMAIN v.channels
        PROVE  LET c == from_env(v).channels[v.channels[i].label]
               IN  /\ v.channels[i].label # "default"
                   /\ c.inbound_url = v.channels[i].url
                   /\ Secret(v.channels[i].token) \in {"", c.bearer}
    <2> DEFINE label == v.channels[i].label
               j == CHOOSE j \in DOMAIN v.channels : v.channels[j].label = label
    <2>1. j \in DOMAIN v.channels /\ v.channels[j].label = label
      OBVIOUS
    <2>2. j = i
      BY <2>1 DEF Valid, ChannelsValid
    <2>3. label # "default"
      BY DEF Valid, ChannelsValid, validate_channel_label, DEFAULT_CHANNEL
    <2>4. from_env(v).channels[label] =
            [inbound_url |-> v.channels[i].url,
             bearer |-> Or(Secret(v.channels[i].token), Secret(v.webhook_token))]
      BY <2>2, <2>3 DEF from_env, label_set, ChannelConfig, DEFAULT_CHANNEL
    <2>5. Secret(v.channels[i].token) \in {"", Or(Secret(v.channels[i].token), Secret(v.webhook_token))}
      BY DEF Or
    <2>6. from_env(v).channels[label].inbound_url = v.channels[i].url
      BY <2>4
    <2>7. from_env(v).channels[label].bearer = Or(Secret(v.channels[i].token), Secret(v.webhook_token))
      BY <2>4
    <2>8. QED
      BY <2>3, <2>5, <2>6, <2>7
  <1>4. /\ from_env(v).channels["default"].inbound_url = v.agent_url
        /\ from_env(v).channels["default"].bearer = Secret(v.webhook_token)
    BY <1>1, <1>2
  <1>5. QED
    BY <1>1, <1>3, <1>4
=============================================================================
