----------------------------- MODULE AgentLife ------------------------------
(***************************************************************************)
(* The life of the process, from cmd/vault-raft-snapshot-agent/main.go to  *)
(* the ways it ends: the main goroutine that starts the agent and takes    *)
(* snapshots, the watcher that reconfigures it, the goroutines of the      *)
(* metrics servers (MetricsServer), and the clients that both of the first *)
(* create, under the agent's lock, from secrets that may be lost at any    *)
(* moment (SecretSources).                                                 *)
(*                                                                         *)
(* Simplifications                                                         *)
(*   - Time is left out: the ticker may fire whenever main waits for it    *)
(*     (SnapshotAgent has the clock and the gauges).                       *)
(*   - A reload changes nothing but the collector (ConfigReload has the    *)
(*     rest), and the second result fills the watcher's channel for good.  *)
(*   - A snapshot needs at most one login (VaultClient has the others).    *)
(***************************************************************************)
EXTENDS MetricsServer, SecretSources

(***************************************************************************)
(* [storages, auths, source, metrics]: the kinds of the locations in the   *)
(* order of CreateManager, the authentication methods that are configured, *)
(* the sources of secrets (SecretSources), and the collectors that have a  *)
(* publisher.                                                              *)
(***************************************************************************)
CONSTANT Setups

\* The first collector and two reloads: the third never gets past the send.
ASSUME CollectorsAssumption == MaxCollectors = 3

StorageKinds == {"aws", "azure", "gcp", "local", "swift", "s3"}

IsRequired(use) ==
  \E i \in DOMAIN Reads[use[1]] :
    LET read == Reads[use[1]][i]
    IN  read.secret = use[2] /\ read.how \in {"required", "withKey"}

\* What is required is configured: it is validated at the start, or has a
\* default.  The nonce of AWS is neither.  Without a method CreateVaultAuth
\* ends the process before anything else happens.
ASSUME SetupsAssumption ==
  /\ {"unset", "noEnv", "emptyEnv"} \cap Files = {}
  /\ \A s \in Setups :
       /\ s.storages \in Seq(StorageKinds)
       /\ s.auths # {}
       /\ \A use \in DOMAIN s.source :
            /\ use \in (DOMAIN Reads) \X STRING
            /\ s.source[use].file \in Files \cup {"unset", "noEnv", "emptyEnv"}
            /\ s.source[use].relative \in BOOLEAN
            /\ s.source[use].file = "unset" /\ IsRequired(use)
                 => use = <<"awsAuth", "ec2Nonce">>

VARIABLES
  main,       \* "start", "ready", "select"
  watcher,    \* "off", "idle", "update", "send"
  changed,    \* the file has changed since the watcher read it
  results,    \* in the channel, which has room for one
  lock,       \* holder of SnapshotAgent.lock: "none", "main", "watcher"
  work,       \* what the holder is doing: "none", "shutdown", "schedule",
              \* "login", "vault", "upload"
  todo,       \* locations it still has to visit
  cancelled,  \* ctx.Done() is closed
  ended       \* "no", "error" (exit status 1), "stopped"

ownVars == <<main, watcher, changed, results, lock, work, todo, cancelled, ended>>
vars == <<ownVars, serverVars, secretVars>>

-----------------------------------------------------------------------------
Init ==
  /\ ServersInit
  /\ setup \in Setups
  /\ files \in [NamedFiles -> FileStates]
  /\ job = NoJob
  /\ main = "start"
  /\ watcher = "off"
  /\ changed = FALSE
  /\ results = 0
  /\ lock = "none"
  /\ work = "none"
  /\ todo = <<>>
  /\ cancelled = FALSE
  /\ ended = "no"

End(how) ==
  /\ ended' = how
  /\ UNCHANGED <<main, watcher, changed, results, lock, work, todo, cancelled,
                 serverVars, secretVars>>

-----------------------------------------------------------------------------
(* reconfigure and update, by main at the start, then by the watcher.      *)

Reconfigures(t) ==
  \/ t = "main" /\ main = "start" /\ watcher = "off"
  \/ t = "watcher" /\ watcher = "update"

\* What if: the new parts are assigned first, and their collector shut down.
BeginUpdateAssignsFirst(t) ==
  /\ Reconfigures(t)
  /\ lock = "none"
  /\ lock' = t
  /\ LET created == CreateCollector(collector + 1 \in setup.metrics)
     IN  IF collector = 0
         THEN server' = created /\ UNCHANGED down
         ELSE BeginShutdown(created, collector + 1)
  /\ work' = "shutdown"
  /\ UNCHANGED <<main, watcher, changed, results, todo, cancelled, ended,
                 collector, scraped, portLost, secretVars>>

\* update takes the lock and shuts the current collector down, if any.
BeginUpdate(t) ==
  /\ Reconfigures(t)
  /\ lock = "none"
  /\ lock' = t
  /\ LET created == CreateCollector(collector + 1 \in setup.metrics)
     IN  IF collector = 0
         THEN server' = created /\ UNCHANGED down
         ELSE BeginShutdown(created, collector)
  /\ work' = "shutdown"
  /\ UNCHANGED <<main, watcher, changed, results, todo, cancelled, ended,
                 collector, scraped, portLost, secretVars>>

\* Shutdown has returned: the new parts are assigned, the new manager asked.
Assign ==
  /\ work = "shutdown"
  /\ collector # 0 => ShutdownReturns(collector)
  /\ collector' = collector + 1
  /\ work' = "schedule"
  /\ todo' = setup.storages
  /\ UNCHANGED <<main, watcher, changed, results, lock, cancelled, ended,
                 server, down, scraped, portLost, secretVars>>

\* Where the caller goes on.  main starts the watcher and the loop.
Leave ==
  IF lock = "main"
  THEN main' = "ready" /\ watcher' = "idle"
  ELSE watcher' = "send" /\ UNCHANGED main

\* What if: the watcher sends its result before it unlocks.
EndUpdateKeepsLock ==
  /\ work = "schedule"
  /\ todo = <<>> /\ job = NoJob
  /\ server' = StartServer(collector)
  /\ work' = "none"
  /\ lock' = IF lock = "main" THEN "none" ELSE lock
  /\ Leave
  /\ UNCHANGED <<changed, results, todo, cancelled, ended, collector, down,
                 scraped, portLost, secretVars>>

\* What if: metrics are started once.
EndUpdateStartsOnce ==
  /\ work = "schedule"
  /\ todo = <<>> /\ job = NoJob
  /\ server' = IF collector = 1 THEN StartServer(collector) ELSE server
  /\ work' = "none"
  /\ lock' = "none"
  /\ Leave
  /\ UNCHANGED <<changed, results, todo, cancelled, ended, collector, down,
                 scraped, portLost, secretVars>>

\* The ticker is set, the new collector started and the lock released.
EndUpdate ==
  /\ work = "schedule"
  /\ todo = <<>> /\ job = NoJob
  /\ server' = StartServer(collector)
  /\ work' = "none"
  /\ lock' = "none"
  /\ Leave
  /\ UNCHANGED <<changed, results, todo, cancelled, ended, collector, down,
                 scraped, portLost, secretVars>>

-----------------------------------------------------------------------------
(* Both loops of the manager visit one location after another.             *)

Visiting == work \in {"schedule", "upload"}

NextLocation ==
  /\ Visiting
  /\ todo # <<>> /\ job = NoJob
  /\ job' = NewJob(Head(todo))
  /\ todo' = Tail(todo)
  /\ UNCHANGED <<main, watcher, changed, results, lock, work, cancelled, ended,
                 serverVars, setup, files>>

\* The next step of CreateController, createAuthMethod, or of logging.
WorkOnJob ==
  /\ ReadSecret \/ CreateClient
  /\ UNCHANGED <<ownVars, serverVars>>

\* The controller does its work, or could not be created.
VisitLocation ==
  /\ Visiting
  /\ job.phase \in {"created", "failed"}
  /\ job' = NoJob
  /\ UNCHANGED <<ownVars, serverVars, setup, files>>

-----------------------------------------------------------------------------
(* main.go                                                                 *)

\* ReadConfig or CreateVaultAuth fails: "Could not start agent".
StartFails ==
  /\ main = "start"
  /\ lock = "none"
  /\ End("error")

\* TakeSnapshot up to the refresh of the authentication.
BeginSnapshot ==
  /\ main = "ready"
  /\ lock = "none"
  /\ lock' = "main"
  /\ \E method \in setup.auths :
       /\ IsChosen(method, setup.auths)
       /\ \/ job' = NewJob(method) /\ work' = "login"
          \/ UNCHANGED job /\ work' = "vault"
  /\ UNCHANGED <<main, watcher, changed, results, todo, cancelled, ended,
                 serverVars, setup, files>>

ReturnTicker ==
  /\ main' = "select"
  /\ lock' = "none"
  /\ work' = "none"

\* The temp-file cannot be created: nothing is asked of Vault.
SnapshotRefused ==
  /\ main = "ready"
  /\ lock = "none"
  /\ main' = "select"
  /\ UNCHANGED <<watcher, changed, results, lock, work, todo, cancelled, ended,
                 serverVars, secretVars>>

LoggedIn ==
  /\ work = "login"
  /\ job.phase = "created"
  /\ job' = NoJob
  /\ work' = "vault"
  /\ UNCHANGED <<main, watcher, changed, results, lock, todo, cancelled, ended,
                 serverVars, setup, files>>

\* The method cannot be created, or Vault does not accept the login.
LoginFails ==
  /\ work = "login"
  /\ job.phase \in {"created", "failed"}
  /\ job' = NoJob
  /\ ReturnTicker
  /\ UNCHANGED <<watcher, changed, results, todo, cancelled, ended, serverVars,
                 setup, files>>

SnapshotTaken ==
  /\ work = "vault"
  /\ work' = "upload"
  /\ todo' = setup.storages
  /\ UNCHANGED <<main, watcher, changed, results, lock, cancelled, ended,
                 serverVars, secretVars>>

\* No snapshot, or an empty one; a file that cannot be rewound; or the end.
EndSnapshot ==
  /\ \/ work = "vault"
     \/ work = "upload" /\ job = NoJob
  /\ todo' = <<>>
  /\ ReturnTicker
  /\ UNCHANGED <<watcher, changed, results, cancelled, ended, serverVars,
                 secretVars>>

\* select picks at random when both cases are ready.
SelectTick ==
  /\ main = "select"
  /\ main' = "ready"
  /\ UNCHANGED <<watcher, changed, results, lock, work, todo, cancelled, ended,
                 serverVars, secretVars>>

\* What if: the loop is left for the deferred functions of a process that
\* still waits for its metrics server.
SelectDoneWaits ==
  /\ main = "select"
  /\ cancelled
  /\ \A c \in Collectors : server[c] # "serving"
  /\ End("stopped")

SelectDone ==
  /\ main = "select"
  /\ cancelled
  /\ End("stopped")

Signal ==
  /\ ~cancelled
  /\ cancelled' = TRUE
  /\ UNCHANGED <<main, watcher, changed, results, lock, work, todo, ended,
                 serverVars, secretVars>>

-----------------------------------------------------------------------------
(* The watcher                                                             *)

ChangeFile ==
  /\ watcher # "off"
  /\ ~changed
  /\ changed' = TRUE
  /\ UNCHANGED <<main, watcher, results, lock, work, todo, cancelled, ended,
                 serverVars, secretVars>>

\* A file that is invalid, or asks for a client that cannot be created, has
\* no effect here.
ReadChange ==
  /\ watcher = "idle"
  /\ changed
  /\ changed' = FALSE
  /\ watcher' \in {"update", "send"}
  /\ UNCHANGED <<main, results, lock, work, todo, cancelled, ended, serverVars,
                 secretVars>>

SendResult ==
  /\ watcher = "send"
  /\ results = 0
  /\ results' = 1
  /\ watcher' = "idle"
  /\ UNCHANGED <<main, changed, lock, work, todo, cancelled, ended, serverVars,
                 secretVars>>

-----------------------------------------------------------------------------
(* A metrics server that loses its port ends the process: logging.Fatal.   *)
Server(c) ==
  /\ ServerStep(c)
  /\ ended' = IF portLost' THEN "error" ELSE "no"
  /\ UNCHANGED <<main, watcher, changed, results, lock, work, todo, cancelled,
                 secretVars>>

Scrape(c) ==
  /\ ScrapeBegins(c)
  /\ UNCHANGED <<ownVars, secretVars>>

EndScrape(c) ==
  /\ ScrapeEnds(c)
  /\ UNCHANGED <<ownVars, secretVars>>

LoseSecret(f) ==
  /\ ChangeSecret(f)
  /\ UNCHANGED <<ownVars, serverVars>>

\* What the holder of the lock does next.
Holder ==
  \/ Assign
  \/ EndUpdate
  \/ NextLocation
  \/ WorkOnJob
  \/ VisitLocation
  \/ LoggedIn
  \/ LoginFails
  \/ SnapshotTaken
  \/ EndSnapshot

Starts == BeginUpdate("main") \/ StartFails
Snapshots == BeginSnapshot \/ SnapshotRefused

Next ==
  /\ ended = "no"
  /\ \/ Holder
     \/ Starts
     \/ BeginUpdate("watcher")
     \/ Snapshots
     \/ SelectTick
     \/ SelectDone
     \/ Signal
     \/ ChangeFile
     \/ ReadChange
     \/ SendResult
     \/ \E c \in Collectors : Server(c) \/ Scrape(c) \/ EndScrape(c)
     \/ \E f \in Files : LoseSecret(f)

Spec == Init /\ [][Next]_vars

Alive(A) == ended = "no" /\ A

(***************************************************************************)
(* Goroutines run: the ticker fires, requests to Vault and to the storages *)
(* return, a scrape is answered.  sync.Mutex hands a lock that is free     *)
(* again and again to one that waits for it, and a select that could again *)
(* and again take a case takes it: strong fairness.                        *)
(***************************************************************************)
FairSpec ==
  /\ Spec
  /\ WF_vars(Alive(Holder))
  /\ WF_vars(Alive(Starts))
  /\ WF_vars(Alive(Snapshots))
  /\ WF_vars(Alive(SelectTick))
  /\ SF_vars(Alive(SelectDone))
  /\ SF_vars(Alive(BeginUpdate("watcher")))
  /\ WF_vars(Alive(ReadChange))
  /\ WF_vars(Alive(SendResult))
  /\ \A c \in Collectors : WF_vars(Alive(Server(c))) /\ WF_vars(Alive(EndScrape(c)))

-----------------------------------------------------------------------------
(* Properties                                                              *)

TypeOK ==
  /\ ServersTypeOK
  /\ SecretsTypeOK
  /\ setup \in Setups
  /\ main \in {"start", "ready", "select"}
  /\ watcher \in {"off", "idle", "update", "send"}
  /\ changed \in BOOLEAN
  /\ results \in 0..1
  /\ lock \in {"none", "main", "watcher"}
  /\ work \in {"none", "shutdown", "schedule", "login", "vault", "upload"}
  /\ lock = "none" <=> work = "none"
  /\ todo \in Seq(StorageKinds)
  /\ cancelled \in BOOLEAN
  /\ ended \in {"no", "error", "stopped"}

(***************************************************************************)
(* Snapshots go on: main goes round its loop for ever, whatever happens to *)
(* the secrets, while the watcher reconfigures the agent, waits for a      *)
(* scrape of the old metrics under the lock, or is stuck with its result,  *)
(* unless the process ends.                                                *)
(***************************************************************************)
LoopGoesOn ==
  /\ []<>(main = "ready" \/ ended # "no")
  /\ []<>(main = "select" \/ ended # "no")

\* A signal ends the process, also one that comes while it starts, while the
\* watcher waits for a scrape under the lock, or when ticks keep coming.
SignalEndsProcess == cancelled ~> ended # "no"

(***************************************************************************)
(* The metrics of every configuration are served, until the next one shuts *)
(* them down, even if their goroutine only runs when its predecessor's     *)
(* port is given back.                                                     *)
(***************************************************************************)
MetricsComeUp ==
  \A c \in Collectors :
    server[c] \in {"new", "spawned"}
      ~> (server[c] = "serving" \/ down[c] \/ ended # "no")

=============================================================================
