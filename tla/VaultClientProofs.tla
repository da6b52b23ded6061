-------------------------- MODULE VaultClientProofs --------------------------
(***************************************************************************)
(* Proofs about VaultClient for any cluster, any list of configured nodes, *)
(* and any order of elections, failures and expiries.                      *)
(***************************************************************************)
EXTENDS VaultClient, TLAPS

(***************************************************************************)
(* There is never more than one client: while nodes are tried none is      *)
(* kept, and the new one becomes the connection before it is used.         *)
(***************************************************************************)
OneClient ==
  /\ pc = "connect" => connection = NoConnection /\ probe = NoConnection
  /\ pc \in {"idle", "snapshot"} => probe = NoConnection
  /\ probe # NoConnection => connection = NoConnection

\* The outcome is that of the last attempt, never of the current one.
ForgetInv ==
  /\ OneClient
  /\ pc # "idle" => outcome = "none"
  /\ FailureForgetsConnection

LEMMA InitialForgetInv ==
  ASSUME Init
  PROVE  ForgetInv
  BY DEF Init, ForgetInv, OneClient, FailureForgetsConnection

LEMMA ForgetInvStep ==
  ASSUME ForgetInv, [Next]_vars
  PROVE  ForgetInv'
  <1> USE DEF ForgetInv, OneClient, FailureForgetsConnection
  <1>1. CASE \E n \in Nodes : ChangeStatus(n) \/ ChangeBelief(n)
    BY <1>1 DEF ChangeStatus, ChangeBelief
  <1>2. CASE Expire
    BY <1>2 DEF Expire
  <1>3. CASE Begin
    BY <1>3 DEF Begin
  <1>4. ASSUME NEW detected, NotLeader(detected), outcome = "none"
        PROVE  ForgetInv'
    BY <1>4 DEF NotLeader
  <1>5. CASE LoginFails \/ FindFollower
    <2>1. outcome = "none"
      BY <1>5 DEF LoginFails, FindFollower
    <2>2. QED
      BY <1>4, <1>5, <2>1 DEF LoginFails, FindFollower
  <1>6. CASE SkipLogin
    BY <1>6 DEF SkipLogin
  <1>7. CASE Login
    <2>1. CASE probe # NoConnection
      BY <1>7, <2>1 DEF Login
    <2>2. CASE probe = NoConnection
      BY <1>7, <2>2 DEF Login
    <2>3. QED
      BY <2>1, <2>2
  <1>8. CASE FindLeader
    BY <1>8 DEF FindLeader
  <1>9. CASE Connect
    BY <1>9 DEF Connect
  <1>10. CASE ConnectFails
    BY <1>10 DEF ConnectFails
  <1>11. CASE GiveUp
    BY <1>11 DEF GiveUp
  <1>12. CASE Snapshot
    BY <1>12 DEF Snapshot
  <1>13. CASE UNCHANGED vars
    BY <1>13 DEF vars
  <1>14. QED
    BY <1>1, <1>2, <1>3, <1>5, <1>6, <1>7, <1>8, <1>9, <1>10, <1>11, <1>12, <1>13
    DEF Next, Client

\* An attempt that found no leader leaves no connection to a node that may
\* have been the leader once: the next one starts from the configured nodes.
THEOREM ConnectionIsForgotten == Spec => []FailureForgetsConnection
  <1>1. Spec => []ForgetInv
    BY InitialForgetInv, ForgetInvStep, PTL DEF Spec
  <1>2. ForgetInv => FailureForgetsConnection
    BY DEF ForgetInv
  <1>3. QED
    BY <1>1, <1>2, PTL

-----------------------------------------------------------------------------
(* The nodes that are left                                                 *)

\* slices.DeleteFunc leaves what it has not been asked to delete, in order,
\* and no trace of the rest.
LEMMA WithoutFacts ==
  ASSUME NEW S, NEW s \in Seq(S), IsInjective(s), NEW n
  PROVE  /\ Without(s, n) \in Seq(S)
         /\ IsInjective(Without(s, n))
         /\ ToSet(Without(s, n)) = ToSet(s) \ {n}
         /\ n \in ToSet(s) => Len(Without(s, n)) = Len(s) - 1
  <1>1. CASE ~\E i \in DOMAIN s : s[i] = n
    BY <1>1 DEF Without, ToSet
  <1>2. CASE \E i \in DOMAIN s : s[i] = n
    <2> DEFINE i == CHOOSE i \in DOMAIN s : s[i] = n
               t == RemoveAt(s, i)
    <2>1. i \in 1..Len(s) /\ s[i] = n
      BY <1>2
    <2>2. Without(s, n) = t
      BY <1>2 DEF Without
    <2> HIDE DEF i
    <2>3. /\ t \in Seq(S)
          /\ Len(t) = Len(s) - 1
          /\ \A k \in 1..(Len(s) - 1) : t[k] = IF k < i THEN s[k] ELSE s[k + 1]
      <3> DEFINE u == SubSeq(s, 1, i - 1)
                 v == SubSeq(s, i + 1, Len(s))
      <3>1. /\ u \in Seq(S) /\ Len(u) = i - 1
            /\ \A k \in 1..(i - 1) : u[k] = s[k]
        BY <2>1
      <3>2. /\ v \in Seq(S) /\ Len(v) = Len(s) - i
            /\ \A k \in 1..(Len(s) - i) : v[k] = s[k + i]
        BY <2>1
      <3>3. t = u \o v
        BY DEF RemoveAt
      <3> HIDE DEF u, v, t
      <3>4. t \in Seq(S) /\ Len(t) = Len(s) - 1
        <4>1. t \in Seq(S) /\ Len(t) = Len(u) + Len(v)
          <5>1. u \in Seq(S) /\ v \in Seq(S)
            BY <3>1, <3>2
          <5>2. u \o v \in Seq(S) /\ Len(u \o v) = Len(u) + Len(v)
            BY <5>1
          <5>3. QED
            BY <3>3, <5>2
        <4>2. (i - 1) + (Len(s) - i) = Len(s) - 1
          BY <2>1
        <4>3. QED
          BY <3>1, <3>2, <4>1, <4>2
      <3>5. ASSUME NEW k \in 1..(Len(s) - 1)
            PROVE  t[k] = IF k < i THEN s[k] ELSE s[k + 1]
        <4>1. CASE k < i
          BY <2>1, <3>1, <3>2, <3>3, <4>1
        <4>2. CASE ~(k < i)
          <5>1. k - Len(u) \in 1..(Len(s) - i) /\ k - Len(u) + i = k + 1
            BY <2>1, <3>1, <4>2
          <5>2. t[k] = v[k - Len(u)]
            BY <2>1, <3>1, <3>2, <3>3, <4>2
          <5>3. QED
            BY <3>2, <4>2, <5>1, <5>2
        <4>3. QED
          BY <4>1, <4>2
      <3>6. QED
        BY <3>4, <3>5
    <2> HIDE DEF t
    <2>4. IsInjective(t)
      <3>1. DOMAIN t = 1..(Len(s) - 1)
        BY <2>3
      <3>2. ASSUME NEW j \in DOMAIN t, NEW k \in DOMAIN t, t[j] = t[k]
            PROVE  j = k
        <4> DEFINE p(m) == IF m < i THEN m ELSE m + 1
        <4>1. \A m \in DOMAIN t : p(m) \in 1..Len(s) /\ t[m] = s[p(m)]
          BY <2>1, <2>3, <3>1
        <4>2. p(j) = p(k)
          BY <3>2, <4>1 DEF IsInjective
        <4>3. QED
          BY <2>1, <3>1, <4>2
      <3>3. QED
        BY <3>2 DEF IsInjective
    <2>5. ToSet(t) \subseteq ToSet(s) \ {n}
      BY <2>1, <2>3 DEF IsInjective, ToSet
    <2>6. ASSUME NEW j \in 1..Len(s), s[j] # n
          PROVE  s[j] \in ToSet(t)
      <3>1. CASE j < i
        <4>1. j \in 1..(Len(s) - 1) /\ t[j] = s[j]
          BY <2>1, <2>3, <3>1
        <4>2. QED
          BY <2>3, <4>1 DEF ToSet
      <3>2. CASE j > i
        <4>1. j - 1 \in 1..(Len(s) - 1) /\ t[j - 1] = s[j]
          BY <2>1, <2>3, <3>2
        <4>2. QED
          BY <2>3, <4>1 DEF ToSet
      <3>3. QED
        BY <2>1, <2>6, <3>1, <3>2
    <2>7. ToSet(s) \ {n} \subseteq ToSet(t)
      BY <2>6 DEF ToSet
    <2>8. QED
      BY <2>2, <2>3, <2>4, <2>5, <2>7
  <1>3. QED
    BY <1>1, <1>2

LEMMA PrependFacts ==
  ASSUME NEW S, NEW s \in Seq(S), IsInjective(s), NEW n \in S, n \notin ToSet(s)
  PROVE  /\ <<n>> \o s \in Seq(S)
         /\ IsInjective(<<n>> \o s)
         /\ ToSet(<<n>> \o s) = {n} \cup ToSet(s)
  <1> DEFINE t == <<n>> \o s
  <1>1. /\ t \in Seq(S)
        /\ Len(t) = Len(s) + 1
        /\ t[1] = n
        /\ \A k \in 2..(Len(s) + 1) : t[k] = s[k - 1]
    OBVIOUS
  <1> HIDE DEF t
  <1>3. IsInjective(t)
    <2>1. ASSUME NEW k \in 2..(Len(s) + 1)
          PROVE  /\ k - 1 \in DOMAIN s /\ t[k] = s[k - 1]
                 /\ t[k] # t[1]
      <3>1. k - 1 \in DOMAIN s /\ t[k] = s[k - 1]
        BY <1>1
      <3>2. QED
        BY <1>1, <3>1 DEF ToSet
    <2>2. ASSUME NEW j \in DOMAIN t, NEW k \in DOMAIN t, t[j] = t[k]
          PROVE  j = k
      <3>1. \A m \in DOMAIN t : m = 1 \/ m \in 2..(Len(s) + 1)
        BY <1>1
      <3>2. CASE j = 1 \/ k = 1
        BY <2>1, <2>2, <3>1, <3>2
      <3>3. CASE j # 1 /\ k # 1
        <4>1. j - 1 = k - 1
          BY <2>1, <2>2, <3>1, <3>3 DEF IsInjective
        <4>2. QED
          BY <1>1, <4>1
      <3>4. QED
        BY <3>2, <3>3
    <2>3. QED
      BY <2>2 DEF IsInjective
  <1>4. ToSet(t) \subseteq {n} \cup ToSet(s)
    BY <1>1 DEF ToSet
  <1>5. {n} \cup ToSet(s) \subseteq ToSet(t)
    <2>1. n \in ToSet(t)
      BY <1>1 DEF ToSet
    <2>2. ASSUME NEW k \in 1..Len(s) PROVE s[k] \in ToSet(t)
      <3>1. k + 1 \in DOMAIN t /\ t[k + 1] = s[k]
        BY <1>1
      <3>2. QED
        BY <3>1, Zenon DEF ToSet
    <2>3. ToSet(s) \subseteq ToSet(t)
      BY <2>2 DEF ToSet
    <2>4. QED
      BY <2>1, <2>3
  <1>6. QED
    BY <1>1, <1>3, <1>4, <1>5 DEF t

LEMMA TailFacts ==
  ASSUME NEW S, NEW s \in Seq(S), IsInjective(s), s # <<>>
  PROVE  /\ Head(s) \in S
         /\ Head(s) \in ToSet(s)
         /\ Tail(s) \in Seq(S)
         /\ IsInjective(Tail(s))
         /\ ToSet(s) \ {Head(s)} \subseteq ToSet(Tail(s))
  <1>1. /\ Tail(s) \in Seq(S)
        /\ Len(Tail(s)) = Len(s) - 1
        /\ \A k \in 1..(Len(s) - 1) : Tail(s)[k] = s[k + 1]
        /\ Head(s) = s[1] /\ Len(s) >= 1
    OBVIOUS
  <1>2. IsInjective(Tail(s))
    BY <1>1 DEF IsInjective
  <1>3. ASSUME NEW k \in 1..Len(s), s[k] # Head(s)
        PROVE  s[k] \in ToSet(Tail(s))
    <2>1. k - 1 \in DOMAIN Tail(s) /\ Tail(s)[k - 1] = s[k]
      BY <1>1, <1>3
    <2>2. QED
      BY <2>1, Zenon DEF ToSet
  <1>4. QED
    BY <1>1, <1>2, <1>3 DEF ToSet

\* selectNodesToConnect drops no node but that of the current connection.
LEMMA NodesToConnectFacts ==
  ASSUME UrlListsAssumption,
         NEW list \in Seq(Nodes), IsInjective(list),
         NEW detected \in Nodes \cup {NoNode}, NEW current
  PROVE  /\ NodesToConnect(list, detected, current) \in Seq(Nodes)
         /\ IsInjective(NodesToConnect(list, detected, current))
         /\ \A n \in ToSet(list) :
              current = NoConnection \/ n # current.node
                => n \in ToSet(NodesToConnect(list, detected, current))
  <1> DEFINE sorted == IF detected = NoNode THEN list
                       ELSE <<detected>> \o Without(list, detected)
  <1>1. /\ sorted \in Seq(Nodes) /\ IsInjective(sorted)
        /\ ToSet(list) \subseteq ToSet(sorted)
    <2>1. CASE detected = NoNode
      BY <2>1
    <2>2. CASE detected # NoNode
      <3>1. detected \in Nodes
        BY <2>2
      <3>2. /\ Without(list, detected) \in Seq(Nodes)
            /\ IsInjective(Without(list, detected))
            /\ ToSet(Without(list, detected)) = ToSet(list) \ {detected}
        BY WithoutFacts
      <3>3. /\ <<detected>> \o Without(list, detected) \in Seq(Nodes)
            /\ IsInjective(<<detected>> \o Without(list, detected))
            /\ ToSet(<<detected>> \o Without(list, detected))
                 = {detected} \cup ToSet(Without(list, detected))
        BY <3>1, <3>2, PrependFacts
      <3>4. QED
        BY <2>2, <3>2, <3>3
    <2>3. QED
      BY <2>1, <2>2
  <1> HIDE DEF sorted
  <1>2. CASE current = NoConnection
    <2>1. NodesToConnect(list, detected, current) = sorted
      BY <1>2 DEF NodesToConnect, sorted
    <2>2. QED
      BY <1>1, <2>1
  <1>3. CASE current # NoConnection
    <2>1. NodesToConnect(list, detected, current) = Without(sorted, current.node)
      BY <1>3 DEF NodesToConnect, sorted
    <2>2. /\ Without(sorted, current.node) \in Seq(Nodes)
          /\ IsInjective(Without(sorted, current.node))
          /\ ToSet(Without(sorted, current.node)) = ToSet(sorted) \ {current.node}
      BY <1>1, WithoutFacts
    <2>3. QED
      BY <1>1, <1>3, <2>1, <2>2
  <1>4. QED
    BY <1>2, <1>3

-----------------------------------------------------------------------------
(* The search                                                              *)

\* A client is there whenever one is examined or used, and the node of a new
\* one is the first of those that are left.
SearchInv ==
  /\ pc \in {"refresh", "ask"} => Examined # NoConnection
  /\ pc \in {"refresh", "ask"} /\ probe # NoConnection =>
       nodes # <<>> /\ probe.node = Head(nodes)

\* A configured node that leads all the time is still to come.
StillToCome ==
  /\ \A n \in steady : status[n] = "up" /\ Leads(n)
  /\ pc = "connect" \/ (pc \in {"refresh", "ask"} /\ probe # NoConnection)
       => steady \cap Configured \subseteq ToSet(nodes)

IInv ==
  /\ TypeOK
  /\ ForgetInv
  /\ SearchInv
  /\ StillToCome
  /\ LeaderIsNotMissed

\* The node that is examined is one of the cluster.
LEMMA ExaminedIsNode ==
  ASSUME TypeOK, SearchInv, pc \in {"refresh", "ask"}
  PROVE  Examined.node \in Nodes
  <1>1. Examined \in Connections /\ Examined # NoConnection
    BY DEF TypeOK, SearchInv, Examined
  <1>2. QED
    BY <1>1 DEF Connections

\* What the configuration lists does not change, nor do nodes get in twice.
LEMMA UrlsFacts ==
  ASSUME TypeOK
  PROVE  urls \in Seq(Nodes) /\ IsInjective(urls) /\ Configured = ToSet(urls)
  BY UrlListsAssumption DEF TypeOK, Configured, ToSet

\* Giving up a node that does not lead loses none that does.
LEMMA NotLeaderKeepsLeaders ==
  ASSUME TypeOK, ForgetInv, SearchInv, StillToCome,
         pc \in {"refresh", "ask"}, Examined.node \notin steady,
         NEW detected \in Nodes \cup {NoNode}, NotLeader(detected)
  PROVE  /\ nodes' \in Seq(Nodes) /\ IsInjective(nodes')
         /\ steady \cap Configured \subseteq ToSet(nodes')
  <1>1. UrlListsAssumption
    BY UrlListsAssumption
  <1>2. nodes \in Seq(Nodes) /\ IsInjective(nodes)
    BY DEF TypeOK
  <1>3. CASE probe = NoConnection
    <2>1. nodes' = NodesToConnect(urls, detected, connection)
      BY <1>3 DEF NotLeader
    <2>2. connection.node \notin steady
      BY <1>3 DEF Examined
    <2>3. /\ NodesToConnect(urls, detected, connection) \in Seq(Nodes)
          /\ IsInjective(NodesToConnect(urls, detected, connection))
          /\ \A n \in ToSet(urls) :
               connection = NoConnection \/ n # connection.node
                 => n \in ToSet(NodesToConnect(urls, detected, connection))
      BY <1>1, UrlsFacts, NodesToConnectFacts
    <2>4. QED
      BY <2>1, <2>2, <2>3, UrlsFacts
  <1>4. CASE probe # NoConnection
    <2>1. /\ nodes # <<>> /\ probe.node = Head(nodes)
          /\ steady \cap Configured \subseteq ToSet(nodes)
      BY <1>4 DEF SearchInv, StillToCome
    <2>2. Head(nodes) \notin steady
      BY <1>4, <2>1 DEF Examined
    <2>3. CASE detected # NoNode
      <3>1. nodes' = NodesToConnect(nodes, detected, NoConnection)
        BY <1>4, <2>3 DEF NotLeader
      <3>2. /\ NodesToConnect(nodes, detected, NoConnection) \in Seq(Nodes)
            /\ IsInjective(NodesToConnect(nodes, detected, NoConnection))
            /\ \A n \in ToSet(nodes) :
                 n \in ToSet(NodesToConnect(nodes, detected, NoConnection))
        BY <1>1, <1>2, NodesToConnectFacts
      <3>3. QED
        BY <2>1, <3>1, <3>2
    <2>4. CASE detected = NoNode
      <3>1. nodes' = Tail(nodes)
        BY <1>4, <2>4 DEF NotLeader
      <3>2. /\ Tail(nodes) \in Seq(Nodes) /\ IsInjective(Tail(nodes))
            /\ ToSet(nodes) \ {Head(nodes)} \subseteq ToSet(Tail(nodes))
        BY <1>2, <2>1, TailFacts
      <3>3. QED
        BY <2>1, <2>2, <3>1, <3>2
    <2>5. QED
      BY <2>3, <2>4
  <1>5. QED
    BY <1>3, <1>4

LEMMA InitialIInv == Init => IInv
  <1>1. SUFFICES ASSUME Init PROVE IInv
    OBVIOUS
  <1>2. TypeOK
    <2>1. status \in [Nodes -> {"up", "refusing", "down"}]
      BY <1>1 DEF Init
    <2>2. belief \in [Nodes -> Nodes \cup {NoNode}]
      BY <1>1 DEF Init
    <2>3. nodes \in Seq(Nodes) /\ IsInjective(nodes)
      BY <1>1 DEF Init, IsInjective
    <2>4. connection \in Connections /\ probe \in Connections
      BY <1>1 DEF Init, Connections
    <2>5. QED
      BY <1>1, <2>1, <2>2, <2>3, <2>4 DEF Init, TypeOK
  <1>3. SearchInv /\ StillToCome /\ LeaderIsNotMissed
    BY <1>1 DEF Init, SearchInv, StillToCome, LeaderIsNotMissed
  <1>4. QED
    BY <1>1, <1>2, <1>3, InitialForgetInv DEF IInv

\* The steps of the cluster and of the clock.
LEMMA ExternalStep ==
  ASSUME IInv,
         \/ \E n \in Nodes : ChangeStatus(n) \/ ChangeBelief(n)
         \/ Expire
         \/ UNCHANGED vars
  PROVE  TypeOK' /\ SearchInv' /\ StillToCome' /\ LeaderIsNotMissed'
  <1>1. UNCHANGED <<config, connection, probe, nodes, pc, outcome>>
    BY DEF ChangeStatus, ChangeBelief, Expire, vars
  <1>2. steady' \subseteq steady
    BY DEF ChangeStatus, ChangeBelief, Expire, vars
  <1>3. SearchInv'
    BY <1>1 DEF IInv, SearchInv, Examined
  <1>4. LeaderIsNotMissed'
    BY <1>1, <1>2 DEF IInv, LeaderIsNotMissed, Configured, config
  <1>5. status' \in [Nodes -> {"up", "refusing", "down"}]
    BY DEF IInv, TypeOK, ChangeStatus, ChangeBelief, Expire, vars, clusterVars
  <1>6. belief' \in [Nodes -> Nodes \cup {NoNode}]
    BY DEF IInv, TypeOK, ChangeStatus, ChangeBelief, Expire, vars, clusterVars
  <1>7. fresh' \in BOOLEAN
    <2>1. fresh \in BOOLEAN
      BY DEF IInv, TypeOK
    <2>2. fresh' = FALSE \/ fresh' = fresh
      BY DEF ChangeStatus, ChangeBelief, Expire, vars
    <2>3. QED
      BY <2>1, <2>2, Zenon
  <1>8. TypeOK'
    BY <1>1, <1>2, <1>5, <1>6, <1>7 DEF IInv, TypeOK, config
  <1>9. \A n \in steady' : status'[n] = "up" /\ belief'[n] = n
    <2>1. \A n \in steady : status[n] = "up" /\ belief[n] = n
      BY DEF IInv, StillToCome, Leads
    <2>2. CASE Expire \/ UNCHANGED vars
      BY <2>1, <2>2 DEF Expire, vars, clusterVars
    <2>3. ASSUME NEW n \in Nodes, ChangeStatus(n)
          PROVE  \A m \in steady' : status'[m] = "up" /\ belief'[m] = m
      <3>1. PICK s \in {"up", "refusing", "down"} :
              /\ status' = [status EXCEPT ![n] = s]
              /\ steady' = IF s = "up" THEN steady ELSE steady \ {n}
        BY <2>3 DEF ChangeStatus
      <3>2. belief' = belief
        BY <2>3 DEF ChangeStatus
      <3>3. QED
        BY <2>1, <3>1, <3>2 DEF IInv, TypeOK
    <2>4. ASSUME NEW n \in Nodes, ChangeBelief(n)
          PROVE  \A m \in steady' : status'[m] = "up" /\ belief'[m] = m
      <3>1. PICK l \in {n, NoNode} \cup {m \in Nodes : Leads(m)} :
              /\ belief' = [belief EXCEPT ![n] = l]
              /\ steady' = IF l = n THEN steady ELSE steady \ {n}
        BY <2>4 DEF ChangeBelief
      <3>2. status' = status
        BY <2>4 DEF ChangeBelief
      <3>3. QED
        BY <2>1, <3>1, <3>2 DEF IInv, TypeOK
    <2>5. QED
      BY <2>2, <2>3, <2>4
  <1>10. StillToCome'
    BY <1>1, <1>2, <1>9 DEF IInv, StillToCome, Leads, Configured, config
  <1>11. QED
    BY <1>3, <1>4, <1>8, <1>10

\* What the steps of an attempt have in common.
Attempts ==
  /\ UNCHANGED <<clusterVars, config>>
  /\ \A n \in steady' : status[n] = "up" /\ Leads(n)
  /\ steady' \subseteq Nodes
  /\ fresh' \in BOOLEAN

LEMMA AttemptStep ==
  ASSUME IInv, Begin \/ Client
  PROVE  Attempts
  <1>1. fresh \in BOOLEAN
    BY DEF IInv, TypeOK
  <1>2. fresh' = fresh \/ fresh' = TRUE
    BY DEF Begin, Client, SkipLogin, Login, LoginFails, FindLeader,
           FindFollower, Connect, ConnectFails, GiveUp, Snapshot
  <1>3. fresh' \in BOOLEAN
    BY <1>1, <1>2, Zenon
  <1>4. \/ steady' = steady
        \/ steady' = {n \in Nodes : status[n] = "up" /\ Leads(n)}
    BY DEF Begin, Client, SkipLogin, Login, LoginFails, FindLeader,
           FindFollower, Connect, ConnectFails, GiveUp, Snapshot, NotLeader
  <1>5. UNCHANGED <<clusterVars, config>>
    BY DEF Begin, Client, SkipLogin, Login, LoginFails, FindLeader,
           FindFollower, Connect, ConnectFails, GiveUp, Snapshot, NotLeader
  <1>6. QED
    BY <1>3, <1>4, <1>5 DEF Attempts, IInv, TypeOK, StillToCome

\* What is left to show of each of them.
LEMMA AttemptInv ==
  ASSUME IInv, Attempts,
         connection' \in Connections, probe' \in Connections,
         nodes' \in Seq(Nodes), IsInjective(nodes'),
         pc' \in {"idle", "refresh", "ask", "connect", "snapshot"},
         outcome' \in {"none", "taken", "failed", "noLeader"},
         SearchInv', LeaderIsNotMissed',
         pc' = "connect" \/ (pc' \in {"refresh", "ask"} /\ probe' # NoConnection)
           => steady' \cap Configured \subseteq ToSet(nodes')
  PROVE  TypeOK' /\ SearchInv' /\ StillToCome' /\ LeaderIsNotMissed'
  <1>1. TypeOK'
    BY DEF IInv, TypeOK, Attempts, clusterVars, config
  <1>2. UNCHANGED <<status, belief, urls>>
    BY DEF Attempts, clusterVars, config
  <1>3. Configured' = Configured
    BY <1>2 DEF Configured
  <1>4. \A n \in steady' : status'[n] = "up" /\ belief'[n] = n
    BY <1>2 DEF Attempts, Leads
  <1>5. StillToCome'
    BY <1>3, <1>4 DEF StillToCome, Leads
  <1>6. QED
    BY <1>1, <1>5

LEMMA ClientStep ==
  ASSUME IInv, Begin \/ Client
  PROVE  TypeOK' /\ SearchInv' /\ StillToCome' /\ LeaderIsNotMissed'
  <1>1. Attempts
    BY AttemptStep
  <1>2. /\ connection \in Connections /\ probe \in Connections
        /\ nodes \in Seq(Nodes) /\ IsInjective(nodes)
        /\ outcome \in {"none", "taken", "failed", "noLeader"}
        /\ NoConnection \in Connections
    BY DEF IInv, TypeOK, Connections
  \* The node in question cannot be reached, refuses, or does not lead.
  <1>3. ASSUME NEW detected \in Nodes \cup {NoNode}, pc \in {"refresh", "ask"},
               \/ status[Examined.node] # "up"
               \/ ~Leads(Examined.node),
               NotLeader(detected)
        PROVE  TypeOK' /\ SearchInv' /\ StillToCome' /\ LeaderIsNotMissed'
    <2>1. Examined.node \notin steady
      BY <1>3 DEF IInv, StillToCome
    <2>2. /\ nodes' \in Seq(Nodes) /\ IsInjective(nodes')
          /\ steady \cap Configured \subseteq ToSet(nodes')
      BY <1>3, <2>1, NotLeaderKeepsLeaders DEF IInv
    <2>3. /\ connection' = NoConnection /\ probe' = NoConnection
          /\ pc' = "connect" /\ UNCHANGED <<outcome, steady>>
      BY <1>3 DEF NotLeader
    <2>4. SearchInv' /\ LeaderIsNotMissed'
      BY <2>3 DEF SearchInv, LeaderIsNotMissed
    <2>5. QED
      BY <1>1, <1>2, <2>2, <2>3, <2>4, AttemptInv
  <1>4. CASE Begin
    <2>1. CASE connection # NoConnection
      <3>1. /\ pc' = "refresh" /\ outcome' = "none"
            /\ UNCHANGED <<connection, probe, nodes>>
        BY <1>4, <2>1 DEF Begin
      <3>2. probe = NoConnection
        BY <1>4 DEF Begin, IInv, ForgetInv, OneClient
      <3>3. SearchInv' /\ LeaderIsNotMissed'
        BY <2>1, <3>1, <3>2 DEF SearchInv, LeaderIsNotMissed, Examined
      <3>4. QED
        BY <1>1, <1>2, <3>1, <3>2, <3>3, AttemptInv
    <2>2. CASE connection = NoConnection
      <3>1. /\ pc' = "connect" /\ outcome' = "none" /\ nodes' = urls
            /\ UNCHANGED <<connection, probe>>
        BY <1>4, <2>2 DEF Begin
      <3>2. SearchInv' /\ LeaderIsNotMissed'
        BY <3>1 DEF SearchInv, LeaderIsNotMissed
      <3>3. urls \in Seq(Nodes) /\ IsInjective(urls) /\ Configured = ToSet(urls)
        BY UrlsFacts DEF IInv
      <3>4. QED
        BY <1>1, <1>2, <3>1, <3>2, <3>3, AttemptInv
    <2>3. QED
      BY <2>1, <2>2
  <1>5. CASE SkipLogin
    <2>1. /\ pc = "refresh" /\ pc' = "ask"
          /\ UNCHANGED <<connection, probe, nodes, outcome, steady>>
      BY <1>5 DEF SkipLogin
    <2>2. SearchInv' /\ LeaderIsNotMissed'
      BY <2>1 DEF IInv, SearchInv, LeaderIsNotMissed, Examined
    <2>3. QED
      BY <1>1, <1>2, <2>1, <2>2, AttemptInv DEF IInv, StillToCome
  <1>6. CASE Login
    <2>1. /\ pc = "refresh" /\ pc' = "ask"
          /\ UNCHANGED <<nodes, outcome, steady>>
      BY <1>6 DEF Login
    <2>2. /\ connection' \in Connections /\ probe' \in Connections
          /\ probe' # NoConnection \/ connection' # NoConnection
          /\ probe' = NoConnection <=> probe = NoConnection
          /\ probe'.node = probe.node
      <3>1. Examined.node \in Nodes
        BY <2>1, ExaminedIsNode DEF IInv
      <3>2. CASE probe # NoConnection
        <4>1. probe' = [probe EXCEPT !.loggedIn = TRUE] /\ UNCHANGED connection
          BY <1>6, <3>2 DEF Login
        <4>2. probe \in [node : Nodes, loggedIn : BOOLEAN]
          BY <1>2, <3>2 DEF Connections
        <4>3. /\ probe' \in [node : Nodes, loggedIn : BOOLEAN]
              /\ probe'.node = probe.node
          BY <4>1, <4>2
        <4>4. probe' # NoConnection
          BY <4>3, UrlListsAssumption DEF NoConnection
        <4>5. QED
          BY <1>2, <3>2, <4>1, <4>3, <4>4 DEF Connections
      <3>3. CASE probe = NoConnection
        <4>1. /\ connection' = [connection EXCEPT !.loggedIn = TRUE]
              /\ UNCHANGED probe
          BY <1>6, <3>3 DEF Login
        <4>2. connection \in [node : Nodes, loggedIn : BOOLEAN]
          BY <1>2, <2>1, <3>3 DEF Connections, IInv, SearchInv, Examined
        <4>3. connection' \in [node : Nodes, loggedIn : BOOLEAN]
          BY <4>1, <4>2
        <4>4. connection' # NoConnection
          BY <4>3, UrlListsAssumption DEF NoConnection
        <4>5. QED
          BY <1>2, <3>3, <4>1, <4>3, <4>4 DEF Connections
      <3>4. QED
        BY <3>2, <3>3
    <2>3. SearchInv' /\ LeaderIsNotMissed'
      BY <2>1, <2>2 DEF IInv, SearchInv, LeaderIsNotMissed, Examined
    <2>4. QED
      BY <1>1, <1>2, <2>1, <2>2, <2>3, AttemptInv DEF IInv, StillToCome
  <1>7. CASE LoginFails
    BY <1>3, <1>7 DEF LoginFails
  <1>8. CASE FindLeader
    <2>1. /\ connection' = Examined /\ probe' = NoConnection
          /\ pc' = "snapshot" /\ UNCHANGED <<nodes, outcome, steady>>
      BY <1>8 DEF FindLeader
    <2>2. Examined \in Connections
      BY <1>2 DEF Examined
    <2>3. SearchInv' /\ LeaderIsNotMissed'
      BY <2>1 DEF SearchInv, LeaderIsNotMissed
    <2>4. QED
      BY <1>1, <1>2, <2>1, <2>2, <2>3, AttemptInv
  <1>9. CASE FindFollower
    <2>1. pc \in {"refresh", "ask"}
      BY <1>9 DEF FindFollower
    <2>2. status[Examined.node] # "up" \/ ~Leads(Examined.node)
      BY <1>9 DEF FindFollower
    <2>3. belief[Examined.node] \in Nodes \cup {NoNode}
      BY <2>1, ExaminedIsNode DEF IInv, TypeOK
    <2>4. QED
      BY <1>3, <1>9, <2>1, <2>2, <2>3 DEF FindFollower
  <1>10. CASE Connect
    <2>1. /\ pc = "connect" /\ nodes # <<>> /\ pc' = "refresh"
          /\ probe' = [node |-> Head(nodes), loggedIn |-> FALSE]
          /\ UNCHANGED <<connection, nodes, outcome, steady>>
      BY <1>10 DEF Connect
    <2>2. Head(nodes) \in Nodes
      BY <1>2, <2>1, TailFacts
    <2>3. probe' \in Connections /\ probe' # NoConnection
      BY <2>1, <2>2, UrlListsAssumption DEF Connections, NoConnection
    <2>4. SearchInv' /\ LeaderIsNotMissed'
      BY <2>1, <2>3 DEF SearchInv, LeaderIsNotMissed, Examined
    <2>5. steady' \cap Configured \subseteq ToSet(nodes')
      BY <2>1 DEF IInv, StillToCome
    <2>6. QED
      BY <1>1, <1>2, <2>1, <2>3, <2>4, <2>5, AttemptInv
  <1>11. CASE ConnectFails
    <2>1. /\ pc = "connect" /\ nodes # <<>> /\ nodes' = Tail(nodes)
          /\ status[Head(nodes)] = "down"
          /\ UNCHANGED <<connection, probe, pc, outcome, steady>>
      BY <1>11 DEF ConnectFails
    <2>2. /\ Tail(nodes) \in Seq(Nodes) /\ IsInjective(Tail(nodes))
          /\ ToSet(nodes) \ {Head(nodes)} \subseteq ToSet(Tail(nodes))
      BY <1>2, <2>1, TailFacts
    <2>3. steady \cap Configured \subseteq ToSet(Tail(nodes))
      <3>1. steady \cap Configured \subseteq ToSet(nodes)
        BY <2>1 DEF IInv, StillToCome
      <3>2. Head(nodes) \notin steady
        BY <2>1 DEF IInv, StillToCome
      <3>3. QED
        BY <2>2, <3>1, <3>2
    <2>4. SearchInv' /\ LeaderIsNotMissed'
      BY <2>1 DEF SearchInv, LeaderIsNotMissed
    <2>5. QED
      BY <1>1, <1>2, <2>1, <2>2, <2>3, <2>4, AttemptInv
  <1>12. CASE GiveUp
    <2>1. /\ pc = "connect" /\ nodes = <<>> /\ pc' = "idle"
          /\ outcome' = "noLeader"
          /\ UNCHANGED <<connection, probe, nodes, steady>>
      BY <1>12 DEF GiveUp
    <2>2. steady \cap Configured = {}
      <3>1. steady \cap Configured \subseteq ToSet(nodes)
        BY <2>1 DEF IInv, StillToCome
      <3>2. ToSet(nodes) = {}
        BY <2>1 DEF ToSet
      <3>3. QED
        BY <3>1, <3>2
    <2>3. Configured' = Configured
      BY <1>1 DEF Attempts, config, Configured
    <2>4. SearchInv' /\ LeaderIsNotMissed'
      BY <2>1, <2>2, <2>3 DEF SearchInv, LeaderIsNotMissed
    <2>5. QED
      BY <1>1, <1>2, <2>1, <2>4, AttemptInv
  <1>13. CASE Snapshot
    <2>1. /\ pc' = "idle" /\ nodes' = <<>> /\ outcome' \in {"failed", "taken"}
          /\ UNCHANGED <<connection, probe, steady>>
      BY <1>13 DEF Snapshot
    <2>2. nodes' \in Seq(Nodes) /\ IsInjective(nodes')
      BY <2>1 DEF IsInjective
    <2>3. SearchInv' /\ LeaderIsNotMissed'
      BY <2>1 DEF SearchInv, LeaderIsNotMissed
    <2>4. QED
      BY <1>1, <1>2, <2>1, <2>2, <2>3, AttemptInv
  <1>14. QED
    BY <1>4, <1>5, <1>6, <1>7, <1>8, <1>9, <1>10, <1>11, <1>12, <1>13 DEF Client

LEMMA InductiveIInv == IInv /\ [Next]_vars => IInv'
  <1>1. SUFFICES ASSUME IInv, [Next]_vars PROVE IInv'
    OBVIOUS
  <1>2. ForgetInv'
    BY <1>1, ForgetInvStep DEF IInv
  <1>3. TypeOK' /\ SearchInv' /\ StillToCome' /\ LeaderIsNotMissed'
    BY <1>1, ExternalStep, ClientStep DEF Next
  <1>4. QED
    BY <1>2, <1>3 DEF IInv

LEMMA AlwaysIInv == Spec => []IInv
  BY InitialIInv, InductiveIInv, PTL DEF Spec

\* Every variable has its type; in particular no node is twice in the list of
\* those that are left, whatever leaders were put in front of it.
THEOREM TypeCorrect == Spec => []TypeOK
  <1>1. IInv => TypeOK
    BY DEF IInv
  <1>2. QED
    BY <1>1, AlwaysIInv, PTL

\* README.md:202 for any number of nodes: an attempt that found no leader has
\* not passed over a configured node that was up and led all the time, however
\* the others misled it.
THEOREM LeaderIsFound == Spec => []LeaderIsNotMissed
  <1>1. IInv => LeaderIsNotMissed
    BY DEF IInv
  <1>2. QED
    BY <1>1, AlwaysIInv, PTL

\* A snapshot is asked of nobody but a node that has just said it leads.
THEOREM OnlyLeadersAreAsked == Spec => SnapshotOnlyFromLeader
  <1>1. ASSUME IInv, [Next]_vars, pc' = "snapshot", pc # "snapshot"
        PROVE  /\ connection'.node \in Nodes
               /\ Leads(connection'.node)
               /\ status[connection'.node] # "down"
    <2>1. FindLeader
      BY <1>1 DEF Next, Client, ChangeStatus, ChangeBelief, Expire, Begin,
                  SkipLogin, Login, LoginFails, FindFollower, Connect,
                  ConnectFails, GiveUp, Snapshot, NotLeader, vars
    <2>2. Examined.node \in Nodes
      BY <1>1, <2>1, ExaminedIsNode DEF FindLeader, IInv
    <2>3. QED
      BY <2>1, <2>2 DEF FindLeader
  <1>2. IInv /\ [Next]_vars =>
          [pc' = "snapshot" /\ pc # "snapshot" =>
             /\ connection'.node \in Nodes
             /\ Leads(connection'.node)
             /\ status[connection'.node] # "down"]_vars
    BY <1>1
  <1>3. QED
    BY <1>2, AlwaysIInv, PTL DEF Spec, SnapshotOnlyFromLeader

-----------------------------------------------------------------------------
(* Every attempt ends                                                      *)

\* Nobody but the configuration names nodes.
OnlyConfigured ==
  ~autoDetectLeader =>
    /\ ToSet(nodes) \subseteq Configured
    /\ connection # NoConnection => connection.node \in Configured

\* A client that may be given up is that of a configured node.
LEMMA ExaminedIsConfigured ==
  ASSUME IInv, OnlyConfigured, ~autoDetectLeader, pc \in {"refresh", "ask"}
  PROVE  /\ Examined.node \in Configured
         /\ probe # NoConnection => nodes # <<>>
         /\ probe = NoConnection => connection # NoConnection
  <1>1. CASE probe # NoConnection
    <2>1. nodes # <<>> /\ probe.node = Head(nodes)
      BY <1>1 DEF IInv, SearchInv
    <2>2. Head(nodes) \in ToSet(nodes)
      BY <2>1, TailFacts DEF IInv, TypeOK
    <2>3. QED
      BY <1>1, <2>1, <2>2 DEF OnlyConfigured, Examined
  <1>2. CASE probe = NoConnection
    BY <1>2 DEF IInv, SearchInv, OnlyConfigured, Examined
  <1>3. QED
    BY <1>1, <1>2

LEMMA TailIsShorter ==
  ASSUME NEW S, NEW s \in Seq(S), s # <<>>
  PROVE  /\ Len(s) \in Nat \ {0} /\ Len(Tail(s)) = Len(s) - 1
         /\ ToSet(Tail(s)) \subseteq ToSet(s)
  <1>1. /\ Len(s) \in Nat \ {0}
        /\ Len(Tail(s)) = Len(s) - 1
        /\ \A k \in 1..(Len(s) - 1) : Tail(s)[k] = s[k + 1]
        /\ DOMAIN Tail(s) = 1..(Len(s) - 1)
    OBVIOUS
  <1>2. ASSUME NEW k \in DOMAIN Tail(s)
        PROVE  Tail(s)[k] \in ToSet(s)
    <2>1. k + 1 \in DOMAIN s /\ Tail(s)[k] = s[k + 1]
      BY <1>1
    <2>2. QED
      BY <2>1, Zenon DEF ToSet
  <1>3. QED
    BY <1>1, <1>2 DEF ToSet

\* A node that is given up is not tried again: the nodes of the next turn are
\* configured, and fewer than were to be tried.
LEMMA NotLeaderLeavesFewer ==
  ASSUME IInv, OnlyConfigured, ~autoDetectLeader, pc \in {"refresh", "ask"},
         NotLeader(NoNode)
  PROVE  /\ ToSet(nodes') \subseteq Configured
         /\ Len(nodes') \in Nat
         /\ IF probe # NoConnection THEN Len(nodes') = Len(nodes) - 1
                                    ELSE Len(nodes') = Len(urls) - 1
  <1>1. /\ Examined.node \in Configured
        /\ probe # NoConnection => nodes # <<>>
        /\ probe = NoConnection => connection # NoConnection
    BY ExaminedIsConfigured
  <1>2. urls \in Seq(Nodes) /\ IsInjective(urls) /\ Configured = ToSet(urls)
    BY UrlsFacts DEF IInv
  <1>3. CASE probe # NoConnection
    <2>1. nodes' = Tail(nodes)
      BY <1>3 DEF NotLeader
    <2>2. nodes \in Seq(Nodes) /\ ToSet(nodes) \subseteq Configured
      BY DEF IInv, TypeOK, OnlyConfigured
    <2>3. /\ Len(nodes) \in Nat \ {0} /\ Len(Tail(nodes)) = Len(nodes) - 1
          /\ ToSet(Tail(nodes)) \subseteq ToSet(nodes)
      BY <1>1, <1>3, <2>2, TailIsShorter
    <2>4. QED
      BY <1>3, <2>1, <2>2, <2>3
  <1>4. CASE probe = NoConnection
    <2>1. nodes' = Without(urls, connection.node)
      BY <1>1, <1>4 DEF NotLeader, NodesToConnect
    <2>2. connection.node \in ToSet(urls)
      BY <1>1, <1>2, <1>4 DEF Examined
    <2>3. /\ ToSet(nodes') = ToSet(urls) \ {connection.node}
          /\ Len(nodes') = Len(urls) - 1
          /\ nodes' \in Seq(Nodes)
      BY <1>2, <2>1, <2>2, WithoutFacts
    <2>4. Len(nodes') \in Nat
      BY <2>3
    <2>5. QED
      BY <1>2, <1>4, <2>3, <2>4
  <1>5. QED
    BY <1>3, <1>4

LEMMA OnlyConfiguredStep == IInv /\ OnlyConfigured /\ [Next]_vars => OnlyConfigured'
  <1>0. ASSUME [Next]_vars
        PROVE  UNCHANGED <<autoDetectLeader, urls>>
    BY <1>0 DEF Next, Client, ChangeStatus, ChangeBelief, Expire, Begin, SkipLogin,
                Login, LoginFails, FindLeader, FindFollower, Connect, ConnectFails,
                GiveUp, Snapshot, NotLeader, config, vars
  <1>1. SUFFICES ASSUME IInv, OnlyConfigured, [Next]_vars, ~autoDetectLeader
                 PROVE  /\ ToSet(nodes') \subseteq Configured
                        /\ connection' # NoConnection => connection'.node \in Configured
    BY <1>0 DEF OnlyConfigured, Configured
  <1>2. /\ ToSet(nodes) \subseteq Configured
        /\ connection # NoConnection => connection.node \in Configured
    BY <1>1 DEF OnlyConfigured
  <1>3. ASSUME NotLeader(NoNode), pc \in {"refresh", "ask"}
        PROVE  /\ ToSet(nodes') \subseteq Configured
               /\ connection' = NoConnection
    BY <1>1, <1>3, NotLeaderLeavesFewer DEF NotLeader
  <1>4. CASE \/ \E n \in Nodes : ChangeStatus(n) \/ ChangeBelief(n)
             \/ Expire \/ SkipLogin \/ Connect \/ GiveUp \/ UNCHANGED vars
    <2>1. UNCHANGED <<nodes, connection>>
      BY <1>4 DEF ChangeStatus, ChangeBelief, Expire, SkipLogin, Connect, GiveUp, vars
    <2>2. QED
      BY <1>2, <2>1
  <1>5. CASE Begin
    BY <1>1, <1>2, <1>5, UrlsFacts DEF Begin, IInv
  <1>6. CASE Login
    <2>1. pc = "refresh" /\ UNCHANGED nodes
      BY <1>6 DEF Login
    <2>2. CASE probe # NoConnection
      BY <1>2, <1>6, <2>1, <2>2 DEF Login
    <2>3. CASE probe = NoConnection
      <3>1. connection' = [connection EXCEPT !.loggedIn = TRUE]
        BY <1>6, <2>3 DEF Login
      <3>2. connection # NoConnection /\ connection \in Connections
        BY <1>1, <2>1, <2>3 DEF IInv, TypeOK, SearchInv, Examined
      <3>3. connection'.node = connection.node
        BY <3>1, <3>2 DEF Connections
      <3>4. QED
        BY <1>2, <2>1, <3>2, <3>3
    <2>4. QED
      BY <2>2, <2>3
  <1>7. CASE LoginFails \/ FindFollower
    BY <1>1, <1>3, <1>7 DEF LoginFails, FindFollower
  <1>8. CASE FindLeader
    <2>1. connection' = Examined /\ pc = "ask" /\ UNCHANGED nodes
      BY <1>8 DEF FindLeader
    <2>2. QED
      BY <1>1, <1>2, <2>1, ExaminedIsConfigured
  <1>9. CASE ConnectFails
    <2>1. nodes # <<>> /\ nodes' = Tail(nodes) /\ UNCHANGED connection
      BY <1>9 DEF ConnectFails
    <2>2. nodes \in Seq(Nodes)
      BY <1>1 DEF IInv, TypeOK
    <2>3. ToSet(Tail(nodes)) \subseteq ToSet(nodes)
      BY <2>1, <2>2, TailIsShorter
    <2>4. QED
      BY <1>2, <2>1, <2>3
  <1>10. CASE Snapshot
    BY <1>2, <1>10 DEF Snapshot, ToSet
  <1>11. QED
    BY <1>1, <1>4, <1>5, <1>6, <1>7, <1>8, <1>9, <1>10 DEF Next, Client

(***************************************************************************)
(* Without auto-detection no attempt goes on for ever, for any number of   *)
(* nodes and whatever elections and failures it meets: each of its steps   *)
(* leaves fewer than there were before, and there are at most three for    *)
(* each configured node and two more.                                      *)
(***************************************************************************)
THEOREM AttemptsAreBounded == Spec => AttemptIsBounded
  <1>1. Init => OnlyConfigured
    BY DEF Init, OnlyConfigured, ToSet
  <1>2. ASSUME IInv, OnlyConfigured, [Next]_vars, ~autoDetectLeader
        PROVE  /\ Begin => StepsLeft' <= 3 * Len(urls) + 2
               /\ Client => StepsLeft' < StepsLeft
               /\ ~Begin /\ ~Client => UNCHANGED StepsLeft
    <2>1. /\ Len(nodes) \in Nat /\ Len(urls) \in Nat
      BY <1>2, UrlsFacts DEF IInv, TypeOK
    <2>2. ASSUME Begin
          PROVE  StepsLeft' <= 3 * Len(urls) + 2
      <3>1. UNCHANGED <<urls, probe>> /\ probe = NoConnection
        BY <1>2, <2>2 DEF Begin, config, IInv, ForgetInv, OneClient
      <3>2. CASE connection # NoConnection
        <4>1. pc' = "refresh"
          BY <2>2, <3>2 DEF Begin
        <4>2. StepsLeft' = 3 * Len(urls) + 1
          BY <3>1, <4>1 DEF StepsLeft
        <4>3. QED
          BY <2>1, <4>2
      <3>3. CASE connection = NoConnection
        <4>1. pc' = "connect" /\ nodes' = urls
          BY <2>2, <3>3 DEF Begin
        <4>2. StepsLeft' = 3 * Len(urls) + 2
          BY <4>1 DEF StepsLeft
        <4>3. QED
          BY <2>1, <4>2
      <3>4. QED
        BY <3>2, <3>3
    <2>3. ASSUME NotLeader(NoNode), pc \in {"refresh", "ask"}
          PROVE  StepsLeft' < StepsLeft
      <3>1. /\ Len(nodes') \in Nat
            /\ IF probe # NoConnection THEN Len(nodes') = Len(nodes) - 1
                                       ELSE Len(nodes') = Len(urls) - 1
        BY <1>2, <2>3, NotLeaderLeavesFewer
      <3>2. pc' = "connect"
        BY <2>3 DEF NotLeader
      <3>3. StepsLeft' = 3 * Len(nodes') + 2
        BY <3>2 DEF StepsLeft
      <3>4. CASE probe # NoConnection
        <4>1. StepsLeft \in {3 * Len(nodes), 3 * Len(nodes) + 1}
          BY <2>3, <3>4 DEF StepsLeft
        <4>2. QED
          BY <2>1, <3>1, <3>3, <3>4, <4>1
      <3>5. CASE probe = NoConnection
        <4>1. StepsLeft \in {3 * Len(urls), 3 * Len(urls) + 1}
          BY <2>3, <3>5 DEF StepsLeft
        <4>2. QED
          BY <2>1, <3>1, <3>3, <3>5, <4>1
      <3>6. QED
        BY <3>4, <3>5
    <2>4. LoginFails \/ FindFollower => StepsLeft' < StepsLeft
      BY <1>2, <2>3 DEF LoginFails, FindFollower
    <2>5. ASSUME SkipLogin \/ Login
          PROVE  StepsLeft' < StepsLeft
      <3>1. /\ pc = "refresh" /\ pc' = "ask" /\ UNCHANGED <<nodes, urls>>
        BY <2>5 DEF SkipLogin, Login, config
      <3>2. probe' = NoConnection <=> probe = NoConnection
        <4>1. CASE UNCHANGED probe
          BY <4>1
        <4>2. CASE probe # NoConnection /\ probe' = [probe EXCEPT !.loggedIn = TRUE]
          <5>1. probe \in [node : Nodes, loggedIn : BOOLEAN]
            BY <1>2, <4>2 DEF IInv, TypeOK, Connections
          <5>2. probe'.node \in Nodes
            BY <4>2, <5>1
          <5>3. QED
            BY <4>2, <5>2, UrlListsAssumption DEF NoConnection
        <4>3. QED
          BY <2>5, <4>1, <4>2 DEF SkipLogin, Login
      <3>3. CASE probe # NoConnection
        <4>1. StepsLeft = 3 * Len(nodes) + 1 /\ StepsLeft' = 3 * Len(nodes)
          BY <3>1, <3>2, <3>3 DEF StepsLeft
        <4>2. QED
          BY <2>1, <4>1
      <3>4. CASE probe = NoConnection
        <4>1. StepsLeft = 3 * Len(urls) + 1 /\ StepsLeft' = 3 * Len(urls)
          BY <3>1, <3>2, <3>4 DEF StepsLeft
        <4>2. QED
          BY <2>1, <4>1
      <3>5. QED
        BY <3>3, <3>4
    <2>6. ASSUME FindLeader
          PROVE  StepsLeft' < StepsLeft
      <3>1. pc = "ask" /\ pc' = "snapshot"
        BY <2>6 DEF FindLeader
      <3>2. Len(nodes) > 0 \/ probe = NoConnection
        BY <1>2, <2>1, <3>1, ExaminedIsConfigured DEF IInv, TypeOK
      <3>3. Len(urls) > 0
        BY UrlListsAssumption, <1>2 DEF IInv, TypeOK
      <3>4. StepsLeft' = 1 /\ StepsLeft \in {3 * Len(nodes), 3 * Len(urls)}
        BY <3>1 DEF StepsLeft
      <3>5. probe # NoConnection => StepsLeft = 3 * Len(nodes)
        BY <3>1 DEF StepsLeft
      <3>6. probe = NoConnection => StepsLeft = 3 * Len(urls)
        BY <3>1 DEF StepsLeft
      <3>7. QED
        BY <2>1, <3>2, <3>3, <3>4, <3>5, <3>6
    <2>7. ASSUME Connect
          PROVE  StepsLeft' < StepsLeft
      <3>1. pc = "connect" /\ pc' = "refresh" /\ nodes # <<>> /\ UNCHANGED nodes
        BY <2>7 DEF Connect
      <3>2. probe' # NoConnection
        <4>1. Head(nodes) \in Nodes /\ probe'.node = Head(nodes)
          BY <1>2, <2>7, <3>1, TailFacts DEF Connect, IInv, TypeOK
        <4>2. QED
          BY <4>1, UrlListsAssumption DEF NoConnection
      <3>3. StepsLeft = 3 * Len(nodes) + 2 /\ StepsLeft' = 3 * Len(nodes) + 1
        BY <3>1, <3>2 DEF StepsLeft
      <3>4. QED
        BY <2>1, <3>3
    <2>8. ASSUME ConnectFails
          PROVE  StepsLeft' < StepsLeft
      <3>1. pc = "connect" /\ pc' = "connect" /\ nodes # <<>> /\ nodes' = Tail(nodes)
        BY <2>8 DEF ConnectFails
      <3>2. Len(nodes') = Len(nodes) - 1
        BY <1>2, <3>1, TailIsShorter DEF IInv, TypeOK
      <3>3. StepsLeft = 3 * Len(nodes) + 2 /\ StepsLeft' = 3 * Len(nodes') + 2
        BY <3>1 DEF StepsLeft
      <3>4. QED
        BY <2>1, <3>2, <3>3
    <2>9. ASSUME GiveUp
          PROVE  StepsLeft' < StepsLeft
      <3>1. pc = "connect" /\ pc' = "idle" /\ nodes = <<>>
        BY <2>9 DEF GiveUp
      <3>2. StepsLeft = 2 /\ StepsLeft' = 0
        BY <3>1 DEF StepsLeft
      <3>3. QED
        BY <3>2
    <2>10. ASSUME Snapshot
          PROVE  StepsLeft' < StepsLeft
      <3>1. pc = "snapshot" /\ pc' = "idle"
        BY <2>10 DEF Snapshot
      <3>2. StepsLeft = 1 /\ StepsLeft' = 0
        BY <3>1 DEF StepsLeft
      <3>3. QED
        BY <3>2
    <2>11. Client => StepsLeft' < StepsLeft
      BY <2>4, <2>5, <2>6, <2>7, <2>8, <2>9, <2>10 DEF Client
    <2>12. ASSUME ~Begin, ~Client
           PROVE  UNCHANGED StepsLeft
      <3>1. UNCHANGED <<urls, nodes, probe, pc>>
        BY <1>2, <2>12 DEF Next, ChangeStatus, ChangeBelief, Expire, vars, config
      <3>2. QED
        BY <3>1 DEF StepsLeft
    <2>13. QED
      BY <2>2, <2>11, <2>12
  <1>3. IInv /\ OnlyConfigured /\ [Next]_vars =>
          [~autoDetectLeader =>
             /\ Begin => StepsLeft' <= 3 * Len(urls) + 2
             /\ Client => StepsLeft' < StepsLeft
             /\ ~Begin /\ ~Client => UNCHANGED StepsLeft]_vars
    BY <1>2
  <1>4. QED
    BY <1>1, <1>3, OnlyConfiguredStep, AlwaysIInv, PTL DEF Spec, AttemptIsBounded

=============================================================================
