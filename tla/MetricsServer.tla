--------------------------- MODULE MetricsServer ----------------------------
(***************************************************************************)
(* The HTTP servers of internal/agent/metrics: every (re)configuration of  *)
(* the agent shuts one collector down and starts the next, whose goroutine *)
(* opens the port in its own time.  The steps of net/http.Server that the  *)
(* order depends on are external: ListenAndServe looks whether the server  *)
(* is shut down, opens the port, and looks again when it registers the     *)
(* listener; Shutdown closes registered listeners only and then waits for  *)
(* connections to become idle.                                             *)
(*                                                                         *)
(* Simplifications                                                         *)
(*   - All configurations name the same port, and no other program uses it.*)
(*   - One scrape per server at a time.                                    *)
(***************************************************************************)
EXTENDS Naturals

CONSTANT MaxCollectors  \* bound on the number of collectors that get created

ASSUME MaxCollectorsAssumption == MaxCollectors \in Nat \ {0}

VARIABLES
  collector,  \* the number of SnapshotAgent.metrics, 0 for nil
  server,     \* of each collector: "none" (it has no publisher), "new",
              \* "spawned", "checked", "bound", "serving", "closed"
  down,       \* inShutdown of each server
  scraped,    \* a request to it is being answered
  portLost    \* ListenAndServe returned "address already in use"

serverVars == <<collector, server, down, scraped, portLost>>

Collectors == 1..MaxCollectors

ServersInit ==
  /\ collector = 0
  /\ server = [c \in Collectors |-> "none"]
  /\ down = [c \in Collectors |-> FALSE]
  /\ scraped = [c \in Collectors |-> FALSE]
  /\ portLost = FALSE

\* CreateCollector, with or without a prometheus section.
CreateCollector(configured) ==
  IF configured THEN [server EXCEPT ![collector + 1] = "new"] ELSE server

\* What if: the collector shuts down none of its publishers.
ShutdownNothing(servers, c) ==
  /\ server' = servers
  /\ UNCHANGED down

\* Shutdown up to its wait; Serve's Accept fails and the goroutine returns.
BeginShutdown(servers, c) ==
  /\ down' = [down EXCEPT ![c] = server[c] # "none"]
  /\ server' = [servers EXCEPT ![c] = IF @ = "serving" THEN "closed" ELSE @]

ShutdownReturns(c) == ~scraped[c]

\* Start: the goroutine is on its way.
StartServer(c) == [server EXCEPT ![c] = IF @ = "new" THEN "spawned" ELSE @]

-----------------------------------------------------------------------------
(* The goroutine of collector c                                            *)

Moves(c, from, to) ==
  /\ server[c] = from
  /\ server' = [server EXCEPT ![c] = to]
  /\ UNCHANGED <<collector, down, scraped>>

CheckShutdown(c) ==
  /\ Moves(c, "spawned", IF down[c] THEN "closed" ELSE "checked")
  /\ UNCHANGED portLost

HoldsPort(c) == server[c] \in {"bound", "serving"}

\* net.Listen; without the port Start's goroutine ends the process.
Listen(c) ==
  IF \E d \in Collectors : HoldsPort(d)
  THEN /\ Moves(c, "checked", "closed")
       /\ portLost' = TRUE
  ELSE /\ Moves(c, "checked", "bound")
       /\ UNCHANGED portLost

\* trackListener; a server that was shut down meanwhile closes the port.
Serve(c) ==
  /\ Moves(c, "bound", IF down[c] THEN "closed" ELSE "serving")
  /\ UNCHANGED portLost

ScrapeBegins(c) ==
  /\ server[c] = "serving"
  /\ ~scraped[c]
  /\ scraped' = [scraped EXCEPT ![c] = TRUE]
  /\ UNCHANGED <<collector, server, down, portLost>>

ScrapeEnds(c) ==
  /\ scraped[c]
  /\ scraped' = [scraped EXCEPT ![c] = FALSE]
  /\ UNCHANGED <<collector, server, down, portLost>>

ServerStep(c) == CheckShutdown(c) \/ Listen(c) \/ Serve(c)

-----------------------------------------------------------------------------
(* Properties                                                              *)

ServersTypeOK ==
  /\ collector \in 0..MaxCollectors
  /\ server \in [Collectors -> {"none", "new", "spawned", "checked", "bound",
                                "serving", "closed"}]
  /\ down \in [Collectors -> BOOLEAN]
  /\ scraped \in [Collectors -> BOOLEAN]
  /\ portLost \in BOOLEAN

(***************************************************************************)
(* A scrape that begins is answered with the gauges TakeSnapshot sets:     *)
(* only the agent's current collector serves, also while its successor is  *)
(* being installed, however slowly the goroutines get on.                  *)
(***************************************************************************)
OnlyCurrentServes ==
  \A c \in Collectors : server[c] = "serving" => c = collector

(***************************************************************************)
(* The port is handed over: only a server that was shut down in the short  *)
(* time between its first look and the registration of its listener can    *)
(* find its successor's port in use, or keep its own from it.  The process *)
(* never ends for the port of a server that serves.                        *)
(***************************************************************************)
PortIsHandedOver ==
  [][~portLost /\ portLost' =>
       \E c \in Collectors : down[c] /\ server[c] \in {"checked", "bound"}]_serverVars

=============================================================================
