# vault-raft-snapshot-agent in TLA+

The agent takes snapshots of a Vault raft cluster and distributes them to
storages.  This directory holds TLA+ modules that model it, TLC configurations
that check the models on small instances, and proofs for TLAPS.  Paths without a
directory are relative to `src/internal/agent/`.

1. [The system](#1-the-system) – its parts, their state, and what is hard
2. [The modules](#2-the-modules) – which part is where, and how it corresponds
3. [The runs](#3-the-runs) – what TLC checks, bounds, fairness
4. [Disagreements](#4-where-the-code-disagrees-with-its-documentation)
5. [The proofs](#5-the-proofs)
6. [What is not modelled, and the plan](#6-what-is-not-modelled-and-the-plan)

Running it (inside this directory):

    tlc -workers 2 -config MCStorageManager.cfg MCStorageManager.tla
    tlapm StorageManagerProofs.tla

## 1. The system

One process with two goroutines of interest.  **Main** (`cmd/.../main.go`,
`runAgent`) takes a snapshot, then waits in a `select` for the ticker or for the
end of the context, which a third goroutine cancels on SIGINT or SIGTERM.  The
**watcher** is started by viper; it reads the configuration file again whenever it
changes and calls back into the agent.  Both meet at `SnapshotAgent.lock`.

| Part | State | Operations | Hard about it |
|---|---|---|---|
| main loop, `main.go` | where it is, the context | `runAgent`, signal handler | random choice of `select` |
| `SnapshotAgent`, `snapshot-agent.go` | lock, client, manager, defaults, `lastSnapshotTime`, ticker, metrics | `TakeSnapshot`, `update`, `updateTicker`, `reconfigure` | two goroutines, long steps under the lock, a ticker with a memory, five ways to return |
| `Manager`, `storage/manager.go` | the factories | `ScheduleSnapshot`, `UploadSnapshot` | partial failure; the zero time as "unknown" |
| `StorageController`, `storage/controller.go` | `lastUpload` | `ScheduleSnapshot`, `UploadSnapshot`, `DeleteObsoleteSnapshots` | what is left behind by failures and crashes; listings in any order |
| backends, `storage/{local,s3,aws,azure,gcp,swift}.go` | the objects | put, delete, list | half-written files, late answers, pages |
| `VaultClient`, `vault/client.go` | the connection, the nodes | `TakeSnapshot` with the search for the leader | elections and failures between any two requests; recursion |
| authentication, `vault/auth/*.go` | `expires`, the token in the client | `Refresh`, `CreateVaultAuth`, one `createAuthMethod` per method | one expiry for many clients; secrets read anew for every login |
| configuration, `config/*.go` | the file, the struct decoded into, the result channel | `ReadConfig`, `OnConfigChange`, `Unmarshal` | in-place decoding into live data, a bounded channel nobody reads |
| metrics, `metrics/*.go` | the gauges, an HTTP server per configuration | `Collect`, `Start`, `Shutdown` | truthfulness; goroutines that open the port in their own time, shutdown without deadline |
| secrets, `config/secret/*.go` | none of their own: files and environment | `Resolve`, `String`, `ResolveFilePaths` | read one after another while the files change; what is required depends on earlier reads |
| logging, `logging/*.go` | none | `Fatal` ends the process | output otherwise |

How they interact: main calls `TakeSnapshot`, which holds the lock while it calls the
client (many requests to several nodes), then the manager (which creates one
controller per location and calls it), then the metrics, and sets the ticker twice.
The watcher decodes the file **without** the lock, builds new parts, and installs them
in `update` **with** the lock; `update` asks the new manager for a schedule and sets
the ticker.  The storages a reconfigured manager holds are pointers into the struct the
watcher decodes the next version of the file into.  Every configuration brings a metrics
server with a goroutine of its own, which ends the process when its port is taken.  Several
agents may share a bucket or container, and then meet in its listing.

What makes each part correct:

* the agent: snapshots go on for ever, neither closer together nor further apart than
  configured, whatever fails and whatever is reloaded; a reload never interferes
  with a snapshot; a signal stops it; the published next time is the scheduled one;
* the storages: once a location has confirmed a snapshot it always has a complete one
  at least as recent; only obsolete ones are deleted; the schedule is the earliest
  that any reachable location asks for;
* the client: a snapshot is only asked of the node that leads; a leader that is there
  is found; the search ends;
* several agents in one container: none costs another one a recent snapshot;
* the metrics: whoever scrapes gets the gauges of the current configuration, and a reload
  hands the port over;
* the secrets: a client is made from all of its credentials or not at all (which holds but for
  empty ones, section 4);
* the configuration: a change arrives, and only a valid one has an effect.

## 2. The modules

    SnapshotStore          what the storages promise (abstract)
      ^ implemented by
    StorageManager  ----- EXTENDS StorageOps     MCStorageManager
      proofs: StorageManagerProofs, SnapshotStoreProofs
    RetentionStore         what retain promises to each of several agents (abstract)
      ^ implemented by
    StorageBackends ----- EXTENDS StorageOps     MCStorageBackends
      proofs: StorageBackendsProofs, RetentionStoreProofs
    SnapshotService        what the agent promises its user (abstract)
      ^ implemented by
    SnapshotAgent   ----- EXTENDS ConfigReload   MCSnapshotAgent, MCConfigReload
      proofs: SnapshotAgentProofs, SnapshotServiceProofs
    VaultClient                                  MCVaultClient
      proofs: VaultClientProofs
    AgentLife       ----- EXTENDS MetricsServer, SecretSources
                                                 MCAgentLife
      proofs: AgentLifeProofs

`PROJECT.json` maps every definition to the lines it stands for.  Operators whose
comment begins with "What if:" are not part of any specification: they are plausible
mistakes, and putting one in the place of the definition that follows it must make a
property fail.

**StorageOps** has the decisions of the controller as operators on a configuration, a
controller and the objects of a location.  An object is `[slot, ts, mtime, whole]`: its
name (as the slot its timestamp formats to), the snapshot's timestamp, its modification
time, and whether it is complete.  `UploadOutcomes` and `DeleteOutcomes` give *all* the
results an upload or a clean-up may have: a local file truncated by `os.Create` before
`io.Copy` failed, a remote object that arrived though the request timed out, any subset
of failed deletions, either side of a tie in the unstable sort.

**StorageManager** is the two loops of `manager.go`, one step per location and outcome.
`op`, `index`, `ts` and `next` are the call, its loop index, its argument and its
`nextSnapshot`; `objects` is what the locations hold; `Crash` may happen at any point and
leaves nothing but `objects`.  As in the code each iteration has a *new* controller.
`answered` and `confirmed` are history.  `Spec` has every step; `OneProcess` has
fewer of them, so that the counterexample of `frequency` needs no failure: locations can be
reached, snapshots are on time, and there is no crash.

**SnapshotStore** is the promise to someone who has to restore: each location offers a
set of timestamps, to which each round may add one and from which older ones may then
go.  `StorageManager` implements it with `restorable` mapped to the complete objects of
the locations where names do not collide (below) and `current` to the upload in
progress.

**ConfigReload** is the way of a change: file, event, `Unmarshal` into the `shared` struct
(nothing is cleared: what the file does not have keeps its value; `defaults.Set` fills
zeroes), validation, `reconfigure`, and the result channel with room for one.  `running`
is the agent; `aliased` says that its storages are pointers into `shared`.

**SnapshotAgent** adds the main goroutine, the lock, the ticker, the gauges and the clock.
Time may pass between any two steps, so a snapshot or an upload may last as long as it
likes.  The ticker is `[fire, period, pending]`: the channel holds one tick, and `Reset`
drops it (Go 1.23, the version in go.mod).  `inForce` is history: the frequencies
configured at some moment since the last snapshot.  Vault and the locations are
reduced to the outcomes the other modules show.

**SnapshotService** is the same without goroutines, lock, ticker and gauges: an alarm clock.
It is set when a snapshot begins and may be set again when one ends or the parts are
exchanged, always to a frequency configured since the last snapshot; a snapshot begins only
when it has gone off, and is offered to the storages of the parts it was taken with, which do
not change meanwhile.  In the mapping `alarm` is the ticker's next fire, or 0 once the tick
is in the channel or main has received it, and `phase` is where main is.

**VaultClient** is `TakeSnapshot` of the client, one action per request.  The recursion of
`connectToLeader` is a loop over `nodes`, which a detected leader restarts.  `connection`
and `probe` carry whether they are logged in; `fresh` is the one bit `Refresh` takes from
the clock; `urls` is the configured list, chosen at the start.  Cluster and clock are
external: any node may fail, recover, win, lose or mistake the leadership at any moment.

**StorageBackends** is one container and several agents that upload to it, list it and delete
from it, one request per step.  `setup` gives each location its backend, folder, prefix,
suffix and retention; `Selects` has one operator per backend, translated from its
`listSnapshots`: local disks and S3 look at both ends of the name, aws anywhere in the key
below its folder and at one page only, azure, gcp and swift at the prefix and never at the
suffix.  `obsolete` is what `DeleteObsoleteSnapshots` has sorted and cut and not yet deleted:
it grows old while other agents work.  `stored` and `clean` are history.  `NamedApart` is what
a user can see in the configuration: that of every two locations folders, prefixes or suffixes
differ where the one's listing looks at them.

**RetentionStore** is what `retain` promises (README.md:501 of the repository): each location
has a store of its own, in which a snapshot may go once `retain` younger ones were added, and
no other location has a part.  `StorageBackends` implements it, with one store for each
location's objects in the shared container.

**MetricsServer** is the life of the HTTP servers, one per `Collector`: `new`, `spawned` by
`Start`, then the three steps of `ListenAndServe` that the order depends on.  **SecretSources**
has, for every storage and authentication method, the secrets its client is made from in the
order they are read, and `Resolve` by its outcome; the files they come from may be emptied,
lost or change hands between two reads, and variables may be missing or empty.  `job` is the
client in the making: `got` are the secrets that had a value, and `blank`, which is history,
those whose source was there and empty.  **AgentLife** puts both under the threads that use them: `main`
(start, loop, signal), `watcher` (reload, result), `lock` and what its holder is doing
(`work`), the manager's loops over the locations (`todo`), and all the ways a process `ended`.
It leaves out what SnapshotAgent and ConfigReload have: time, gauges, and the contents of the
configuration.

## 3. The runs

| Run | Question | States |
|---|---|---|
| `manager` | schedule, survival, deletion, refinement | 880,000 |
| `agent` | exclusion, pace, gauges, and that snapshots, reloads and signals are served | 240,000 |
| `vault` | the leader is found, only the leader is asked, attempts end, and the client recovers from elections | 520,000 |
| `backends` | agents that share a container, for every backend | 160,000 |
| `life` | metrics servers, secrets, start and end of the process | 110,000 |
| `frequency`, `ignored`, `stuck`, `auth`, `retain`, `relative`, `empty` | expected violations, section 4 | |

The properties worth knowing:

* `ImplementsStore`, `ImplementsRetention`, `ImplementsService`: the three refinements.  A step
  of the code is a step of the abstract specification or changes nothing it can see, so that
  none of the interleavings, failures and stale listings adds a behaviour.
* `NextIsEarliest`: at every point of either loop `next` is the earliest time given by
  the locations that answered so far; it fails if the zero time is compared as a time.
  Of a location that is asked for its last upload it accepts the time of any object, as the
  code does (section 4).
* `LastGoodSurvives`: a confirmed snapshot is never lost without a newer one.
  It excludes local disks with a timestamp format coarser than the frequency
  (`SafeLocations`): there the name is reused and a failing upload truncates the last good
  file.  That is a limit of the design (the format is the user's), so it is a condition
  and not a finding.
* `DoesNotHammer` and `NeverTooLate` bound the distance of two snapshots from both sides by
  the frequencies that were configured at some moment between them.
* `AnnouncedIsScheduled`: the published next time in the future is the tick's.  It speaks of
  snapshots whose outcome was published; an empty one is not (`snapshot-agent.go:182`).
* `ReloadExcludesSnapshot` is the lock, seen from both sides.
* `LeaderIsNotMissed`: an attempt that ends with "could not connect to leader" did not
  overlook a configured node that was up and led from its beginning to its end.
* `AttemptIsBounded`: without auto-detection every step of an attempt leaves fewer
  (`StepsLeft`), from at most three for each configured node and two; it fails if a node
  that was given up could be tried again.
* `RecoversFromElections`: once the cluster stays with a leader that can be found, snapshots
  are asked of it with a login it knows, again and again, whatever connection, login and
  expiry the elections before have left.  The unauthenticated request of the `auth` finding
  happens on the way there, at most until the old login expires.
* `MostRecentAreKept` and `CleanRoundLeavesRetain` bound the snapshots of each location from
  below and above: neither its own clean-ups nor those of other agents, whose listings were
  made before, touch the `retain` most recent ones, and a round without failure leaves no
  more.  Both fail for listings that do not tell the locations apart.
* `MissingSecretsFail`: a client is only made if the source of each secret it requires was
  there, that of the access key if it has a key id, whichever files disappear between the
  reads.  `CredentialsAreComplete` asks for a value too, as the documentation does, and does
  not hold (section 4).
* `OnlyCurrentServes`, `PortIsHandedOver`, `MetricsComeUp`: no old server answers a new scrape;
  the port is lost, and the process with it, only around a server that was shut down in the
  short time between its two looks at the shutdown flag; and unless that happens every
  configuration's metrics are served.  That such an end is possible at all is what the code
  does (`prometheus.go:105` calls `logging.Fatal`) and is documented nowhere.

**Bounds.**  `manager`: two locations (local and remote, own and default frequency and
retention, fine and coarse names), the clock from 3 to 9: room for three rounds of uploads,
so a location can exceed its retention of 2, with crashes and schedules anywhere; the start
of the clock is one more than the requirement of `TimeAssumption` that the zero time plus
a frequency has passed.  `agent`: one storage, a file that adds a second one and shorter
frequencies or is invalid, two changes (so the second one decodes into live data), seven
units of time with frequencies of 1 to 3, so two or more snapshots and every order of
ticks, failures and reloads.  After `MaxTime` the clock stops; the liveness properties only
ask for what can happen before it.  `vault`: three nodes, two of them configured; the
third can only be found by auto-detection.  `stuck` and `ignored`: three
changes of the file.  `backends`: two agents with retentions of 1 and 2 or none, ten ways to configure
them, six uploads (so each can exceed its retention, clean up, and be overtaken by the other
twice) and pages of three objects, fewer than the two may store.  All
setups of `backends` are `NamedApart` (an assumption of `MCStorageBackends` that TLC evaluates),
so that the hypothesis `TellsApart` of the proofs holds of them; of those of `retain` it does not.  `life`: seven
agents that between them use every storage, every way a secret may be given and most of the
authentication methods, at most two files each,
and three collectors; three is no restriction, as a result that nobody takes keeps the watcher
from a third reload (`AgentLifeProofs!TypeCorrect`).  Deadlock is not checked where the model
may stop: when the uploads are used up (`backends`) and when the process has ended (`life`).

**Fairness.**  Goroutines run and time passes.
Calls under the lock return: all requests to Vault have the client's timeout and all
uploads the storage's; `CreateController` and the metrics' shutdown have none, and the
hazards name them.  A lock that stays free is acquired, and a case of the `select` that
stays ready is taken.  In `agent` weak fairness is enough because the clock and the changes
of the file are bounded, so main comes to rest in its `select`.  `life` has no clock: main
takes the lock again and again, and ticks never cease.  There the watcher's wait for the lock
and the end of the context in the `select` need strong fairness, which `sync.Mutex` (a waiter
gets the lock after a millisecond) and the random choice of `select` justify.  `life` also
assumes that a scrape is answered; without it `Shutdown` would wait for ever, and
`LoopGoesOn` and `SignalEndsProcess` would fail: they say nothing of that hazard.
`vault` needs that the client takes its next step, that the ticker asks for another
attempt, and that the expiry of a login passes.

## 4. Where the code disagrees with its documentation

Each of these runs ends in a counterexample; `PROJECT.json` quotes the lines.

* `frequency` – a location's own, longer frequency has no effect: the controllers that
  would remember the last upload live for one snapshot.  The trace has two rounds of one
  process, both on time.
* `ignored` – an invalid file is logged as ignored but has changed the running storages,
  because it is decoded into the struct they point into.
* `stuck` – the second change of the file blocks the watcher on the result channel, and no
  change is handled after it.
* `auth` – after a change of leader the client asks the new leader for a snapshot without
  having logged in, until the expiry of the old login.
* `retain` – azure, gcp and swift ignore the name suffix when they list, so that of two agents
  in one container whose names differ in the suffix only, one that retains a single snapshot
  deletes those of the other, which retains all.  (Where both delete, an agent may also lose its
  own most recent snapshots to its own clean-up, in whose listing the other's take their place.)
* `relative` – `vault.auth.token` may be a `file://` secret, but its type is not `secret.Secret`,
  so a relative path is looked up in the working directory and not beside the configuration.
* `empty` – a required secret whose file is empty, or whose variable is set but empty, counts as
  resolved: absence is an error, emptiness is not, though the documentation demands a non-empty
  value.

Two more are plain from a few lines of the code and need no run, though the models have the code's
side of them: with several authentication methods configured, `userpass` is taken before `token`
(`vault/auth/auth.go:38-41`), which README.md:223-225 has the other way round; and with
none the agent is said to go on unauthenticated (README.md:225-226), where `auth.go:43` makes an
error that ends the start (`SetupsAssumption` leaves agents without a method out).

Noticed while modelling, without a run of their own because the documentation does not say
what is right, or because it is a matter of taste:

* a new process asks the locations for their last upload and takes the first entry of a listing
  that nothing sorts, on a local disk the oldest (`storage/controller.go:145`); the time that
  comes of it is only published until the first snapshot, which is taken at once;
* a truncated local file counts for the retention like a complete snapshot
  (`storage/local.go:38`);
* a reload that makes a snapshot overdue does not reschedule it; the old interval is waited
  for (`snapshot-agent.go:196`);
* a reload accepts a configuration without storages, which the start refuses
  (`config/parser.go:61`); `nodes.urls` may be an empty list;
* an empty snapshot is not reported to the metrics (`snapshot-agent.go:182`), one that no
  location stored is reported as a success (`snapshot-agent.go:188`);
* azure formats the account's name into its address with `String()`, whose panic `fmt` turns
  into text (`storage/azure.go:60`);
* the tag `valide:` in `storage/swift.go:17` validates nothing.

## 5. The proofs

All of them hold for every set of locations, every configuration and every clock, under the
named assumptions of the modules: no location and no node is listed twice, frequencies and
retentions are natural numbers with a positive default frequency, the clock starts late
enough that the zero time plus a frequency has passed, and required secrets are configured
(the validation of the start sees to it).

**StorageManagerProofs.**  `LastGoodSurvives` is not inductive: a new upload is the newest
object only if nothing in the location comes from the future, and it may replace an object
of its name only if the name cannot belong to a newer one.  The invariant `IInv` adds that
objects are no newer than the clock, that an upload in progress is at least as recent as
all that is stored or confirmed, and that the slot of an object is that of its timestamp.
The lemmas first describe what one upload leaves (`NewestIsKept`: the clean-up keeps the
newest whatever retention is configured and whichever deletions fail; `UploadEffect`), then
what it does to the invariant (`UploadStepInv`), and `IInvStep` has one step per action.

* `TypeCorrect`: `Spec => []TypeOK`
* `GoodSnapshotsSurvive`: `Spec => []LastGoodSurvives`
* `StoreImplemented`: `Spec => ImplementsStore`; every step maps to a step or a stutter of
  `SnapshotStore`: the upload to `Save` or a stutter, the begin of the call to `Begin`, its
  return, a failed `Seek` and a crash to `End`.
* `EarliestWins`: `Spec => []NextIsEarliest`, by an invariant (`ScheduleInv`) that relates `next`
  to the set of times answered so far, for any number of locations.
* `OnlyObsoleteIsDeleted`: `Spec => DeletesOnlyObsolete`, for which `ListingInv` says that the
  objects of a location are a finite set.

**SnapshotStoreProofs.**  `StoreLosesNothing`: a location of the abstract store never loses
a snapshot without one at least as new in its place.  By `StoreImplemented` the storages
inherit it.

**SnapshotAgentProofs.**  Every safety property of the agent, for any file contents, any
number of changes and storages, and any clock.  None of them is inductive.  `IInv` adds

* `ReloadInv`: the sections the agent holds pointers to are still in the struct, so every
  storage can be read at any time (`StoragesAreReadable`);
* `LockInv`: main has the lock exactly from the first to the last step of `TakeSnapshot`;
* `UsableIsInForce`: what the agent could use now counts as configured since the last
  snapshot, although the watcher may change it in place without the lock;
* `PaceInv`: from the moment a snapshot starts, the ticker's next tick lies between two
  times at which a configured frequency has passed, and a tick in the channel is due – the
  two-sided bound from which both `DoesNotHammer` and `NeverTooLate` follow;
* `AnnounceInv`: the gauges speak of the last snapshot only once its outcome is known, and
  until then the local `nextSnapshot` is what the ticker was set to.

The steps follow the same split (`ReloadStep`, `LockStep`, `InForceStep`, `TypeStep`,
`PaceStep`, `AnnounceStep`), with one case per action or per group of actions that leave a
part alone.  Theorems: `TypeCorrect`, `VaultIsNotHammered`, `NotTooLate`,
`AnnouncementsAreTrue`, `SnapshotsAndReloadsExclude`, and `StartIsStable` from an
invariant of its own.

`ServiceImplemented`: `Spec => ImplementsService`.  The steps that correspond to one of the
service are named in the lemmas before it; `UsableIsInForce` is needed where a snapshot
begins (the service only knows the frequencies allowed so far), `PaceInv` where the ticker is
set after it, and `LockInv` where the watcher installs new parts (the service does so only
between snapshots).

**SnapshotServiceProofs.**  `ServiceKeepsItsDistance` and `ServiceIsInTime`, the two-sided bound
on the pace, from one invariant about the alarm: what a user needs to know of the agent can be
read off a specification of a page.

**VaultClientProofs.**  For every cluster, every list of configured nodes and any order of
elections, failures and expiries.  Three lemmas say what `slices.DeleteFunc`, `slices.Insert`
and the next turn of the loop do to the list of nodes; `NodesToConnectFacts` that
`selectNodesToConnect` drops no node but that of the current connection.  The invariant `IInv`
adds `OneClient` (no connection is kept while nodes are tried), `SearchInv` (a new client is the
first of the nodes that are left) and `StillToCome` (a configured node that has led since the
attempt began is among them), which is what makes `LeaderIsNotMissed` inductive:
`NotLeaderKeepsLeaders` shows that the node that is given up cannot be that one.  Theorems:
`TypeCorrect`, `LeaderIsFound`, `OnlyLeadersAreAsked`, `ConnectionIsForgotten`.

`AttemptsAreBounded`: `Spec => AttemptIsBounded`, by the ranking function `StepsLeft`.  The
invariant `OnlyConfigured` is needed for the step that turns from the old connection to the
list: only if its node is a configured one does `selectNodesToConnect` leave one node less, as
`WithoutFacts` counts.  It holds only without auto-detection, and so does the theorem.
It is the safety core of `AttemptEnds`; that a number which decreases with every step ends the
attempt needs fairness and stays with TLC.

**StorageBackendsProofs.**  Any number of agents with any mixture of backends, names, retentions
and page sizes.  The theorems about snapshots have the hypothesis `TellsApart(setup)`: each
location lists its own keys and no others, which is the very thing the `retain` finding
lacks.  It is no assumption in disguise: `NamesTellApart` derives it from `NamedApart`, for
every backend and names of any length.  Its lemmas say where a key begins and ends
(`KeyFacts`), that what parts from it is neither prefix nor suffix, and that what occurs in it
has no parts of its own.  `IgnoredSuffixMixes` is its opposite, the general form of
`retain`: azure, gcp and swift with the same prefix never have it, whatever the suffixes.  `ObjectsInv`: objects are told apart by the time
of their upload; `ObsoleteInv`: whatever a clean-up still means to delete belongs to its own
location, where `retain` younger ones were stored since, however old the listing;
`CleanInv`: without failures what will remain is never more than `retain`.  Theorems:
`TypeCorrect`, `MostRecentSurvive`, `CleanUpsCatchUp`, and both of the latter from the names
alone as `NamesProtect`.  `RetentionImplemented`: `Spec /\ TellsApart(setup) =>
ImplementsRetention`.  An upload maps to `Store` of its location, a deletion to `Remove` of the
location that listed the object, for which `ObsoleteInv` has the younger ones counted;
everything else stutters.

**RetentionStoreProofs.**  `EnoughSurvive`: a location has all its snapshots or at least as many
as it is to retain.  The invariant `GoneWereOld` says that for whatever is gone enough younger ones were added; those
younger than the youngest of all that are gone are still there (`YoungestExists`, by the
well-foundedness of `<`).  Entries need not go in order.  The agents in one container inherit it.

**AgentLifeProofs.**  Any storages, authentication methods, sources of secrets and metrics.
`LockInv` says which thread may hold the lock for what, `CountInv` how many collectors the
watcher can have made, `ServersInv` that every collector but the current one is retired, and
`JobInv` that a client on its way has found what it required so far, read in the order of
`Reads`.  Theorems: `TypeCorrect`, `OldServersAreQuiet`, `PortNeverContested`, and
`ClientsFindTheirSecrets`: `Spec => []MissingSecretsFail`, for any sources, empty ones among
them.  `OnlyEmptySourcesAreMissed` is what remains of `CredentialsAreComplete`: it holds of
every client for which no source was there and empty.

Only model-checked: everything about liveness (`SnapshotsContinue`, `ReloadIsServed`,
`SignalIsServed`, `AttemptEnds`, `SettledAttemptEnds`, `RecoversFromElections`, `LoopGoesOn`,
`SignalEndsProcess`, `MetricsComeUp`), which is out of the prover's reach, as are ENABLED and
induction over data: the modules use no recursion.  Every safety property of a passing run
is a theorem.

## 6. What is not modelled, and the plan

Not modelled, and why:

* logging but for `Fatal`: output that nothing depends on;
* the command line, its help and version: read once before anything else happens;
* environment variables as a source of configuration (of secrets they are modelled): viper
  merges them before the struct this model starts from;
* the contents of the login requests: Vault decides on them, and either outcome is modelled;
* the libraries: HTTP, TLS, the storages' clients and viper, but for the steps whose order
  matters (marked external);
* a change of the file between `ReadConfig` and the start of the watcher
  (`snapshot-agent.go:80`);
* two locations of one agent with the same backend: the configuration has no room for them;
* build files, packaging and test helpers.

The order of the work, most important first:

1. the storages (`StorageOps`, `StorageManager`, `SnapshotStore`) with proofs – done;
2. reload and agent (`ConfigReload`, `SnapshotAgent`) with proofs – done;
3. the client (`VaultClient`) with proofs, and its liveness after elections – done;
4. `NextIsEarliest` and `DeletesOnlyObsolete` as theorems – done;
5. the backends' listings, prefixes, suffixes, folders and pages, with several agents in one
   container (`StorageBackends`) with proofs – done;
6. start and end of the process, the metrics' servers and the secrets (`AgentLife`,
   `MetricsServer`, `SecretSources`) with proofs – done;
7. abstract specifications of retention and service with the proofs that they are
   implemented, names that tell agents apart, and the bound on the search for a leader – done;
8. next: the schedule `SnapshotAgent` receives as an abstract manager that `StorageManager`
   implements, so that the two meet in one specification;
9. next: the start of the watcher as a step of its own, and nested folders on aws, once it is
   clear what the documentation promises of them.
