---------------------------- MODULE VaultClient -----------------------------
(***************************************************************************)
(* internal/agent/vault/client.go with vault/auth/auth.go: one attempt to  *)
(* take a snapshot after another by a client that looks for the leader of  *)
(* a raft cluster.  Each request to a node is a step, and elections,       *)
(* failures and the expiry of the authentication happen between them.      *)
(*                                                                         *)
(* Simplifications                                                         *)
(*   - The cluster is external: a node is up, refuses logins and snapshots *)
(*     (it still answers sys/leader), or is down, and it believes in some  *)
(*     leader, itself included, as long as nobody tells it otherwise.      *)
(*   - Time is the one bit Refresh looks at: fresh says that auth.expires  *)
(*     lies in the future.                                                 *)
(*   - VAULT_TOKEN is not set: a new api.Client has no token.              *)
(*   - A request fails because of the state its node is in: a login never  *)
(*     fails because the agent cannot resolve its own secrets, and a node  *)
(*     that is up and reachable answers in time.                           *)
(*   - No node is configured twice.                                        *)
(***************************************************************************)
EXTENDS SequencesExt, Naturals

CONSTANTS Nodes,    \* the nodes of the cluster
          NoNode,   \* no node: the empty address, the nil client
          UrlLists  \* lists of nodes that may be configured, in order

ASSUME UrlListsAssumption ==
  /\ NoNode \notin Nodes
  /\ UrlLists \subseteq Seq(Nodes) \ {<<>>}
  /\ \A list \in UrlLists : IsInjective(list)

VARIABLES
  (* the cluster *)
  status,      \* [Nodes -> {"up", "refusing", "down"}]
  belief,      \* the leader each node believes in
  (* the client *)
  urls,        \* nodes.urls
  autoDetectLeader,
  fresh,       \* auth.expires.After(time.Now())
  connection,  \* VaultClient.connection: [node, loggedIn]
  probe,       \* conn of connectToLeader, with the same fields
  nodes,       \* nodes of connectToLeader from the loop's position on
  pc,          \* "idle", "refresh", "ask", "connect", "snapshot"
  outcome,     \* of the last attempt: "none", "taken", "failed", "noLeader"
  (* history *)
  steady       \* nodes that were up and led throughout the attempt

clusterVars == <<status, belief>>
config == <<urls, autoDetectLeader>>
vars == <<clusterVars, config, fresh, connection, probe, nodes,
          pc, outcome, steady>>

NoConnection == [node |-> NoNode, loggedIn |-> FALSE]

Leads(n) == belief[n] = n

Init ==
  /\ status \in [Nodes -> {"up", "down"}]
  /\ \E l \in Nodes \cup {NoNode} : belief = [n \in Nodes |-> l]
  /\ urls \in UrlLists
  /\ autoDetectLeader \in BOOLEAN
  /\ fresh = FALSE
  /\ connection = NoConnection
  /\ probe = NoConnection
  /\ nodes = <<>>
  /\ pc = "idle"
  /\ outcome = "none"
  /\ steady = {}

-----------------------------------------------------------------------------
(* The cluster and the clock.                                              *)

ChangeStatus(n) ==
  /\ \E s \in {"up", "refusing", "down"} :
       /\ s # status[n]
       /\ status' = [status EXCEPT ![n] = s]
       /\ steady' = IF s = "up" THEN steady ELSE steady \ {n}
  /\ UNCHANGED <<belief, config, fresh, connection, probe, nodes, pc,
                 outcome>>

\* A node is elected, learns of a leader, or loses it.
ChangeBelief(n) ==
  /\ \E l \in {n, NoNode} \cup {m \in Nodes : Leads(m)} :
       /\ l # belief[n]
       /\ belief' = [belief EXCEPT ![n] = l]
       /\ steady' = IF l = n THEN steady ELSE steady \ {n}
  /\ UNCHANGED <<status, config, fresh, connection, probe, nodes, pc,
                 outcome>>

\* Half of the token's TTL has passed.
Expire ==
  /\ fresh
  /\ fresh' = FALSE
  /\ UNCHANGED <<clusterVars, config, connection, probe, nodes, pc,
                 outcome, steady>>

-----------------------------------------------------------------------------
(* The client.                                                             *)

\* slices.DeleteFunc; there is at most one such node (TypeOK).
Without(s, n) ==
  IF \E i \in DOMAIN s : s[i] = n
  THEN RemoveAt(s, CHOOSE i \in DOMAIN s : s[i] = n)
  ELSE s

\* What if: "" is taken for a detected leader.
NodesToConnectEmpty(list, detected, current) ==
  LET sorted == <<detected>> \o Without(list, detected)
  IN  IF current = NoConnection THEN sorted ELSE Without(sorted, current.node)

\* What if: the detected leader replaces the nodes.
NodesToConnectDetected(list, detected, current) ==
  LET sorted == IF detected = NoNode THEN list ELSE <<detected>>
  IN  IF current = NoConnection THEN sorted ELSE Without(sorted, current.node)

(***************************************************************************)
(* selectNodesToConnect: the detected leader first, and not the node whose *)
(* connection is being replaced.                                           *)
(***************************************************************************)
NodesToConnect(list, detected, current) ==
  LET sorted == IF detected = NoNode THEN list
                ELSE <<detected>> \o Without(list, detected)
  IN  IF current = NoConnection THEN sorted ELSE Without(sorted, current.node)

\* The client isConnectedToLeader looks at: the new one, else the current one.
Examined == IF probe # NoConnection THEN probe ELSE connection

\* What if: an open connection is taken for one to the leader.
BeginConnected ==
  /\ pc = "idle"
  /\ outcome' = "none"
  /\ steady' = {n \in Nodes : status[n] = "up" /\ Leads(n)}
  /\ IF connection # NoConnection
     THEN pc' = "snapshot" /\ UNCHANGED nodes
     ELSE pc' = "connect" /\ nodes' = urls
  /\ UNCHANGED <<clusterVars, config, fresh, connection, probe>>

\* TakeSnapshot, ensureLeader.
Begin ==
  /\ pc = "idle"
  /\ outcome' = "none"
  /\ steady' = {n \in Nodes : status[n] = "up" /\ Leads(n)}
  /\ IF connection # NoConnection
     THEN pc' = "refresh" /\ UNCHANGED nodes
     ELSE pc' = "connect" /\ nodes' = urls
  /\ UNCHANGED <<clusterVars, config, fresh, connection, probe>>

\* What if: the current connection is not given up.
NotLeaderKeepsConnection(detected) ==
  /\ IF probe = NoConnection
     THEN nodes' = NodesToConnect(urls, detected, connection)
     ELSE IF detected # NoNode
          THEN nodes' = NodesToConnect(nodes, detected, NoConnection)
          ELSE nodes' = Tail(nodes)
  /\ probe' = NoConnection
  /\ pc' = "connect"
  /\ UNCHANGED <<clusterVars, config, connection, outcome, steady>>

\* What if: the loop does not go on to the next node.
NotLeaderSameNode(detected) ==
  /\ IF probe = NoConnection
     THEN nodes' = NodesToConnect(urls, detected, connection)
     ELSE IF detected # NoNode
          THEN nodes' = NodesToConnect(nodes, detected, NoConnection)
          ELSE nodes' = nodes
  /\ connection' = NoConnection
  /\ probe' = NoConnection
  /\ pc' = "connect"
  /\ UNCHANGED <<clusterVars, config, outcome, steady>>

(***************************************************************************)
(* The examined client is not connected to the leader: the current one is  *)
(* given up and the search starts, a new one is passed over, or the search *)
(* starts again with the leader it named.                                  *)
(***************************************************************************)
NotLeader(detected) ==
  /\ IF probe = NoConnection
     THEN nodes' = NodesToConnect(urls, detected, connection)
     ELSE IF detected # NoNode
          THEN nodes' = NodesToConnect(nodes, detected, NoConnection)
          ELSE nodes' = Tail(nodes)
  /\ connection' = NoConnection
  /\ probe' = NoConnection
  /\ pc' = "connect"
  /\ UNCHANGED <<clusterVars, config, outcome, steady>>

\* Refresh has nothing to do before the authentication expires.
SkipLogin ==
  /\ pc = "refresh"
  /\ fresh
  /\ pc' = "ask"
  /\ UNCHANGED <<clusterVars, config, fresh, connection, probe, nodes,
                 outcome, steady>>

Login ==
  /\ pc = "refresh"
  /\ ~fresh
  /\ status[Examined.node] = "up"
  /\ fresh' = TRUE
  /\ IF probe # NoConnection
     THEN probe' = [probe EXCEPT !.loggedIn = TRUE] /\ UNCHANGED connection
     ELSE connection' = [connection EXCEPT !.loggedIn = TRUE] /\ UNCHANGED probe
  /\ pc' = "ask"
  /\ UNCHANGED <<clusterVars, config, nodes, outcome, steady>>

LoginFails ==
  /\ pc = "refresh"
  /\ ~fresh
  /\ status[Examined.node] # "up"
  /\ NotLeader(NoNode)
  /\ UNCHANGED fresh

\* GetLeader: the node says it is the leader itself.
FindLeader ==
  /\ pc = "ask"
  /\ status[Examined.node] # "down"
  /\ Leads(Examined.node)
  /\ connection' = Examined
  /\ probe' = NoConnection
  /\ pc' = "snapshot"
  /\ UNCHANGED <<clusterVars, config, fresh, nodes, outcome, steady>>

\* What if: autoDetectLeader is not looked at.
FindFollowerDetects ==
  /\ pc = "ask"
  /\ status[Examined.node] = "down" \/ ~Leads(Examined.node)
  /\ NotLeader(IF status[Examined.node] # "down"
               THEN belief[Examined.node] ELSE NoNode)
  /\ UNCHANGED fresh

\* GetLeader: the node cannot be reached, or names another leader or none.
FindFollower ==
  /\ pc = "ask"
  /\ status[Examined.node] = "down" \/ ~Leads(Examined.node)
  /\ NotLeader(IF status[Examined.node] # "down" /\ autoDetectLeader
               THEN belief[Examined.node] ELSE NoNode)
  /\ UNCHANGED fresh

Connect ==
  /\ pc = "connect"
  /\ nodes # <<>>
  /\ probe' = [node |-> Head(nodes), loggedIn |-> FALSE]
  /\ pc' = "refresh"
  /\ UNCHANGED <<clusterVars, config, fresh, connection, nodes,
                 outcome, steady>>

\* vaultAPI.Connect returns an error for the node.
ConnectFails ==
  /\ pc = "connect"
  /\ nodes # <<>>
  /\ status[Head(nodes)] = "down"
  /\ nodes' = Tail(nodes)
  /\ UNCHANGED <<clusterVars, config, fresh, connection, probe, pc,
                 outcome, steady>>

\* "could not connect to leader"
GiveUp ==
  /\ pc = "connect"
  /\ nodes = <<>>
  /\ outcome' = "noLeader"
  /\ pc' = "idle"
  /\ UNCHANGED <<clusterVars, config, fresh, connection, probe, nodes,
                 steady>>

\* RaftSnapshotWithContext: the node must still lead and know the client; the
\* transfer may break off even then.  The connection is kept in any case.
Snapshot ==
  /\ pc = "snapshot"
  /\ outcome' \in {"failed"} \cup
       IF /\ status[connection.node] = "up"
          /\ Leads(connection.node)
          /\ connection.loggedIn
       THEN {"taken"} ELSE {}
  /\ pc' = "idle"
  /\ nodes' = <<>>
  /\ UNCHANGED <<clusterVars, config, fresh, connection, probe, steady>>

Client ==
  \/ SkipLogin
  \/ Login
  \/ LoginFails
  \/ FindLeader
  \/ FindFollower
  \/ Connect
  \/ ConnectFails
  \/ GiveUp
  \/ Snapshot

Next ==
  \/ \E n \in Nodes : ChangeStatus(n)
  \/ \E n \in Nodes : ChangeBelief(n)
  \/ Expire
  \/ Begin
  \/ Client

Spec == Init /\ [][Next]_vars

(***************************************************************************)
(* Requests are answered or time out: an attempt always takes its next     *)
(* step.  The ticker asks for another attempt, and a TTL passes.           *)
(***************************************************************************)
FairSpec == Spec /\ WF_vars(Client) /\ WF_vars(Begin) /\ WF_vars(Expire)

-----------------------------------------------------------------------------
(* Properties                                                              *)

Connections == [node : Nodes, loggedIn : BOOLEAN] \cup {NoConnection}

TypeOK ==
  /\ status \in [Nodes -> {"up", "refusing", "down"}]
  /\ belief \in [Nodes -> Nodes \cup {NoNode}]
  /\ urls \in UrlLists
  /\ autoDetectLeader \in BOOLEAN
  /\ fresh \in BOOLEAN
  /\ connection \in Connections
  /\ probe \in Connections
  /\ nodes \in Seq(Nodes) /\ IsInjective(nodes)
  /\ pc \in {"idle", "refresh", "ask", "connect", "snapshot"}
  /\ outcome \in {"none", "taken", "failed", "noLeader"}
  /\ steady \subseteq Nodes

(***************************************************************************)
(* A snapshot is requested only from a node that has just said that it is  *)
(* the leader, also over a connection that was the leader's last time.     *)
(***************************************************************************)
SnapshotOnlyFromLeader ==
  [][pc' = "snapshot" /\ pc # "snapshot" =>
       /\ connection'.node \in Nodes
       /\ Leads(connection'.node)
       /\ status[connection'.node] # "down"]_vars

(***************************************************************************)
(* README.md:202, the agent contacts each node until one reports that it   *)
(* is the leader: an attempt that found no leader missed none, no          *)
(* configured node was up and led from its beginning to its end.  What     *)
(* other nodes name as the leader, rightly or not, cannot hide one.        *)
(***************************************************************************)
Configured == {urls[i] : i \in DOMAIN urls}

LeaderIsNotMissed ==
  pc = "idle" /\ outcome = "noLeader" => steady \cap Configured = {}

\* After an attempt without leader the next one starts from all nodes
\* (TestClientFailsWhenNoLeaderCanBeFound asserts the nil connection).
FailureForgetsConnection ==
  outcome = "noLeader" => connection = NoConnection

(***************************************************************************)
(* ... and it contacts no node twice: without auto-detection an attempt    *)
(* has for each configured node one step to connect, one to log in and one *)
(* to ask, and at most two more, whatever the cluster does meanwhile.  The *)
(* node of an old connection is the first of them and not tried again.     *)
(***************************************************************************)
StepsLeft ==
  LET toTry == IF probe # NoConnection THEN Len(nodes) ELSE Len(urls)
  IN  CASE pc = "idle"     -> 0
        [] pc = "snapshot" -> 1
        [] pc = "connect"  -> 3 * Len(nodes) + 2
        [] pc = "ask"      -> 3 * toTry
        [] pc = "refresh"  -> 3 * toTry + 1

AttemptIsBounded ==
  [][~autoDetectLeader =>
       /\ Begin => StepsLeft' <= 3 * Len(urls) + 2
       /\ Client => StepsLeft' < StepsLeft
       /\ ~Begin /\ ~Client => UNCHANGED StepsLeft]_vars

\* Without auto-detection every attempt ends, whatever the cluster does.
AttemptEnds == ~autoDetectLeader => []<>(pc = "idle")

(***************************************************************************)
(* With auto-detection it ends once the cluster agrees on a leader that is *)
(* up.                                                                     *)
(***************************************************************************)
SettledOn(l) == status[l] = "up" /\ \A n \in Nodes : belief[n] = l
Settled == \E l \in Nodes : SettledOn(l)

SettledAttemptEnds == <>[]Settled => []<>(pc = "idle")

(***************************************************************************)
(* README.md:198-206: once the cluster has settled on a leader that is     *)
(* configured, or that the configured nodes name, snapshots are asked of   *)
(* it with a login it knows, whatever connection and authentication the    *)
(* elections before have left, and also if a new connection was first used *)
(* without a login.                                                        *)
(***************************************************************************)
Findable(l) ==
  \/ l \in Configured
  \/ autoDetectLeader /\ \A n \in Configured : status[n] = "up"

RecoversFromElections ==
  <>[](\E l \in Nodes : SettledOn(l) /\ Findable(l)) =>
    []<>(pc = "snapshot" /\ connection.loggedIn /\ Leads(connection.node))

(***************************************************************************)
(* README.md:228: the agent automatically renews its authentication; a     *)
(* client that asks for a snapshot has logged in.                          *)
(***************************************************************************)
SnapshotIsAuthenticated == pc = "snapshot" => connection.loggedIn

=============================================================================
