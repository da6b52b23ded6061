--------------------------- MODULE SnapshotAgent ----------------------------
(***************************************************************************)
(* internal/agent/snapshot-agent.go with the loop of                       *)
(* cmd/vault-raft-snapshot-agent/main.go: the main goroutine that takes a  *)
(* snapshot whenever the ticker fires, and the watcher goroutine of        *)
(* ConfigReload, whose update needs the same lock.  Time passes between    *)
(* any two steps; each step is what happens at one instant.                *)
(*                                                                         *)
(* Simplifications                                                         *)
(*   - Of the vault client and of the controllers only the outcome counts  *)
(*     (VaultClient and StorageManager have the rest).                     *)
(*   - UploadSnapshot visits the locations in any order: the earliest time *)
(*     does not depend on it.                                              *)
(*   - The metrics are configured.                                         *)
(***************************************************************************)
EXTENDS ConfigReload, FiniteSets

CONSTANTS StartTime,  \* the clock when the process starts
          MaxTime,    \* bound of the clock
          Hour        \* time.NewTicker(time.Hour)

ASSUME ClockAssumption ==
  /\ StartTime \in Nat \ {0}
  /\ MaxTime \in Nat
  /\ Hour \in Nat \ {0}
  /\ StartTime <= MaxTime

VARIABLES
  now,               \* the wall clock
  main,              \* main goroutine: "ready", "vault", "upload", "select",
                     \* "exited"
  lock,              \* holder of SnapshotAgent.lock: "none", "main", "watcher"
  lastSnapshotTime,  \* 0 until the first snapshot
  nextSnapshot,      \* local to TakeSnapshot: the time set in case of failure
  todo,              \* locations the upload still has to visit
  earliest,          \* local to Manager.UploadSnapshot, its nextSnapshot
  ticker,            \* [fire, period, pending]
  gauges,            \* [last, lastSuccess, success, next]
  cancelled,         \* ctx.Done() is closed
  inForce            \* history: frequencies that were configured at some
                     \* moment since the last snapshot started

takeVars == <<main, lastSnapshotTime, nextSnapshot, todo, earliest>>
agentVars == <<now, main, lock, lastSnapshotTime, nextSnapshot, todo, earliest,
               ticker, gauges, cancelled, inForce>>
vars == <<agentVars, reloadVars>>

ZeroTime == 0

-----------------------------------------------------------------------------
(* The ticker.  Its channel holds one tick; since Go 1.23 Reset drops it.  *)

ResetTicker(t, d) == [fire |-> t + d, period |-> d, pending |-> FALSE]

\* What if: the ticker is reset to a time that has passed (Reset panics).
UpdateTickerAlways(next) == ResetTicker(now, next - now)

\* What if: Reset leaves a tick in the channel, as it did before Go 1.23.
UpdateTickerKeepsTick(next) ==
  IF next > now
  THEN [ResetTicker(now, next - now) EXCEPT !.pending = ticker.pending]
  ELSE ticker

\* A next snapshot that is unknown or not after now leaves the ticker alone.
UpdateTicker(next) ==
  IF next > now THEN ResetTicker(now, next - now) ELSE ticker

Elapsed(t) ==
  IF ticker.fire <= t
  THEN [ticker EXCEPT !.fire = @ + ticker.period, !.pending = TRUE]
  ELSE ticker

(* The gauges of metrics/prometheus.go.                                    *)

NewGauges == [last |-> 0, lastSuccess |-> 0, success |-> FALSE, next |-> 0]

CollectFailure(next) ==
  [gauges EXCEPT !.last = lastSnapshotTime, !.success = FALSE, !.next = next]

CollectSuccess(next) ==
  [last |-> lastSnapshotTime, lastSuccess |-> lastSnapshotTime,
   success |-> TRUE, next |-> next]

(* Frequencies.                                                            *)

OrDefault(frequency, default) == IF frequency > 0 THEN frequency ELSE default

\* What the agent could use now: the default and those of its storages.
Usable(agent, struct) ==
  {agent.frequency} \cup
  {OrDefault(StoragesOf(agent, struct)[l], agent.frequency) : l \in agent.sections}

RunningFrequency(l) == OrDefault(RunningStorages[l], running.frequency)

-----------------------------------------------------------------------------
(* CreateSnapshotAgent has just reconfigured the agent for the first time: *)
(* no snapshot is known, so the storages told when theirs were written.    *)
Init ==
  /\ ReloadInit
  /\ now = StartTime
  /\ main = "ready"
  /\ lock = "none"
  /\ lastSnapshotTime = ZeroTime
  /\ nextSnapshot = ZeroTime
  /\ todo = {}
  /\ earliest = ZeroTime
  /\ \E next \in {ZeroTime} \cup
                 {t + f : t \in 1..StartTime, f \in Usable(running, shared)} :
       /\ ticker = IF next > now THEN ResetTicker(now, next - now)
                                 ELSE ResetTicker(now, Hour)
       /\ gauges = [NewGauges EXCEPT !.next = next]
  /\ cancelled = FALSE
  /\ inForce = Usable(running, shared)

Tick ==
  /\ main # "exited"
  /\ now < MaxTime
  /\ now' = now + 1
  /\ ticker' = Elapsed(now + 1)
  /\ UNCHANGED <<takeVars, lock, gauges, cancelled, inForce, reloadVars>>

-----------------------------------------------------------------------------
(* The main goroutine.                                                     *)

\* What if: the ticker is only set when the snapshot succeeds.
BeginWithoutTicker ==
  /\ main = "ready"
  /\ lock = "none"
  /\ lock' = "main"
  /\ lastSnapshotTime' = now
  /\ nextSnapshot' = now + running.frequency
  /\ main' = "vault"
  /\ inForce' = Usable(running, shared)
  /\ UNCHANGED <<now, todo, earliest, ticker, gauges, cancelled, reloadVars>>

(***************************************************************************)
(* TakeSnapshot: under the lock, the time is noted and the ticker is set   *)
(* to the default frequency in case anything below fails.                  *)
(***************************************************************************)
BeginSnapshot ==
  /\ main = "ready"
  /\ lock = "none"
  /\ lock' = "main"
  /\ lastSnapshotTime' = now
  /\ nextSnapshot' = now + running.frequency
  /\ ticker' = UpdateTicker(now + running.frequency)
  /\ main' = "vault"
  /\ inForce' = Usable(running, shared)
  /\ UNCHANGED <<now, todo, earliest, gauges, cancelled, reloadVars>>

\* Every return releases the lock and ends the life of the local variables;
\* main goes on to its select.
ReturnTicker ==
  /\ lock' = "none"
  /\ main' = "select"
  /\ nextSnapshot' = ZeroTime
  /\ earliest' = ZeroTime

\* The temp-file, the vault client or Stat fails.
SnapshotFails ==
  /\ main = "vault"
  /\ gauges' = CollectFailure(nextSnapshot)
  /\ ReturnTicker
  /\ UNCHANGED <<now, lastSnapshotTime, todo, ticker, cancelled, inForce,
                 reloadVars>>

\* What if: this return forgets the lock.
SnapshotEmptyKeepsLock ==
  /\ main = "vault"
  /\ main' = "select"
  /\ nextSnapshot' = ZeroTime
  /\ UNCHANGED <<now, lock, lastSnapshotTime, todo, earliest, ticker, gauges,
                 cancelled, inForce, reloadVars>>

\* An empty snapshot is ignored, by the gauges too.
SnapshotEmpty ==
  /\ main = "vault"
  /\ ReturnTicker
  /\ UNCHANGED <<now, lastSnapshotTime, todo, ticker, gauges, cancelled, inForce,
                 reloadVars>>

SnapshotTaken ==
  /\ main = "vault"
  /\ main' = "upload"
  /\ todo' = running.sections
  /\ earliest' = ZeroTime
  /\ UNCHANGED <<now, lock, lastSnapshotTime, nextSnapshot, ticker, gauges,
                 cancelled, inForce, reloadVars>>

\* Uploaded or failed, the location's controller gives the time of the next
\* upload; a controller that cannot be created gives none.
UploadTo(l) ==
  /\ main = "upload"
  /\ l \in todo
  /\ todo' = todo \ {l}
  /\ LET candidate == lastSnapshotTime + RunningFrequency(l)
     IN  \/ earliest' = IF earliest = ZeroTime \/ candidate < earliest
                        THEN candidate ELSE earliest
         \/ UNCHANGED earliest
  /\ UNCHANGED <<now, main, lock, lastSnapshotTime, nextSnapshot, ticker,
                 gauges, cancelled, inForce, reloadVars>>

\* The temp-file cannot be rewound: the remaining locations get nothing.
SeekFails ==
  /\ main = "upload"
  /\ todo # {}
  /\ todo' = {}
  /\ earliest' = lastSnapshotTime + running.frequency
  /\ UNCHANGED <<now, main, lock, lastSnapshotTime, nextSnapshot, ticker,
                 gauges, cancelled, inForce, reloadVars>>

\* What if: the metrics get the time that was meant for failures.
EndUploadCollectsFallback ==
  /\ main = "upload"
  /\ todo = {}
  /\ gauges' = CollectSuccess(nextSnapshot)
  /\ ticker' = UpdateTicker(earliest)
  /\ ReturnTicker
  /\ UNCHANGED <<now, lastSnapshotTime, todo, cancelled, inForce, reloadVars>>

\* What if: a location that fails ends the loop over all of them.
EndUploadAtFirst ==
  /\ main = "upload"
  /\ gauges' = CollectSuccess(earliest)
  /\ ticker' = UpdateTicker(earliest)
  /\ ReturnTicker
  /\ UNCHANGED <<now, lastSnapshotTime, todo, cancelled, inForce, reloadVars>>

EndUpload ==
  /\ main = "upload"
  /\ todo = {}
  /\ gauges' = CollectSuccess(earliest)
  /\ ticker' = UpdateTicker(earliest)
  /\ ReturnTicker
  /\ UNCHANGED <<now, lastSnapshotTime, todo, cancelled, inForce, reloadVars>>

(* select in runAgent: it picks at random when both cases are ready.       *)
SelectTick ==
  /\ main = "select"
  /\ ticker.pending
  /\ ticker' = [ticker EXCEPT !.pending = FALSE]
  /\ main' = "ready"
  /\ UNCHANGED <<now, lock, lastSnapshotTime, nextSnapshot, todo, earliest,
                 gauges, cancelled, inForce, reloadVars>>

\* What if: the case breaks out of the select instead of exiting.
SelectDoneBreaks ==
  /\ main = "select"
  /\ cancelled
  /\ main' = "ready"
  /\ UNCHANGED <<now, lock, lastSnapshotTime, nextSnapshot, todo, earliest,
                 ticker, gauges, cancelled, inForce, reloadVars>>

SelectDone ==
  /\ main = "select"
  /\ cancelled
  /\ main' = "exited"
  /\ UNCHANGED <<now, lock, lastSnapshotTime, nextSnapshot, todo, earliest,
                 ticker, gauges, cancelled, inForce, reloadVars>>

\* SIGINT or SIGTERM cancels the context.
Signal ==
  /\ main # "exited"
  /\ ~cancelled
  /\ cancelled' = TRUE
  /\ UNCHANGED <<now, takeVars, lock, ticker, gauges, inForce, reloadVars>>

-----------------------------------------------------------------------------
(* The watcher goroutine: the steps of ConfigReload, with the lock.        *)

Change ==
  /\ main # "exited"
  /\ ChangeFile
  /\ UNCHANGED agentVars

\* Decoding takes no lock; storages the agent already points to change here.
Read ==
  /\ main # "exited"
  /\ ReadChange
  /\ inForce' = inForce \cup Usable(running, shared')
  /\ UNCHANGED <<now, takeVars, lock, ticker, gauges, cancelled>>

\* What if: update does not lock.
UpdateAssignUnlocked ==
  /\ main # "exited"
  /\ Install
  /\ lock' = "watcher"
  /\ gauges' = NewGauges
  /\ inForce' = inForce \cup Usable(running', shared)
  /\ UNCHANGED <<now, takeVars, ticker, cancelled>>

\* update: the old metrics are shut down and the new parts are assigned.
UpdateAssign ==
  /\ main # "exited"
  /\ lock = "none"
  /\ Install
  /\ lock' = "watcher"
  /\ gauges' = NewGauges
  /\ inForce' = inForce \cup Usable(running', shared)
  /\ UNCHANGED <<now, takeVars, ticker, cancelled>>

\* CreateClient fails, or update cannot shut down the metrics and returns.
UpdateFails ==
  /\ main # "exited"
  /\ InstallFails
  /\ UNCHANGED agentVars

(***************************************************************************)
(* What Manager.ScheduleSnapshot may return: the earliest of the times of  *)
(* the locations that answer, zero if none does.                           *)
(***************************************************************************)
Schedules ==
  {ZeroTime} \cup
  IF lastSnapshotTime # ZeroTime
  THEN {lastSnapshotTime + RunningFrequency(l) : l \in running.sections}
  ELSE {t + RunningFrequency(l) : t \in 1..now, l \in running.sections}

\* What if: update returns without unlocking.
UpdateScheduleKeepsLock ==
  /\ main # "exited"
  /\ lock = "watcher"
  /\ \E next \in Schedules :
       /\ ticker' = UpdateTicker(next)
       /\ gauges' = [gauges EXCEPT !.next = next]
  /\ UNCHANGED <<now, takeVars, lock, cancelled, inForce, reloadVars>>

\* update goes on: the ticker is set and the new metrics are started.
UpdateSchedule ==
  /\ main # "exited"
  /\ lock = "watcher"
  /\ \E next \in Schedules :
       /\ ticker' = UpdateTicker(next)
       /\ gauges' = [gauges EXCEPT !.next = next]
  /\ lock' = "none"
  /\ UNCHANGED <<now, takeVars, cancelled, inForce, reloadVars>>

SendResult ==
  /\ main # "exited"
  /\ lock # "watcher"
  /\ Send
  /\ UNCHANGED agentVars

-----------------------------------------------------------------------------
Main ==
  \/ BeginSnapshot
  \/ SnapshotFails
  \/ SnapshotEmpty
  \/ SnapshotTaken
  \/ \E l \in Locations : UploadTo(l)
  \/ SeekFails
  \/ EndUpload

Watcher ==
  \/ Read
  \/ UpdateAssign
  \/ UpdateFails
  \/ UpdateSchedule
  \/ SendResult

Next ==
  \/ Tick
  \/ Signal
  \/ Change
  \/ Main
  \/ SelectTick
  \/ SelectDone
  \/ Watcher

Spec == Init /\ [][Next]_vars

(***************************************************************************)
(* Time passes and goroutines run; every call that is awaited under the    *)
(* lock returns, and a lock that stays free is acquired (sync.Mutex hands  *)
(* it to a waiter).  A reload may fail before it needs the lock, but need  *)
(* not.  Weak fairness is enough as the clock and the changes are bounded. *)
(***************************************************************************)
FairSpec ==
  /\ Spec
  /\ WF_vars(Tick)
  /\ WF_vars(Main)
  /\ WF_vars(SelectTick)
  /\ WF_vars(SelectDone)
  /\ WF_vars(Read \/ UpdateSchedule \/ SendResult)
  /\ WF_vars(lock = "none" /\ (UpdateAssign \/ UpdateFails))

-----------------------------------------------------------------------------
(* Properties                                                              *)

TypeOK ==
  /\ ReloadTypeOK
  /\ now \in StartTime..MaxTime
  /\ main \in {"ready", "vault", "upload", "select", "exited"}
  /\ lock \in {"none", "main", "watcher"}
  /\ lastSnapshotTime \in 0..now
  /\ nextSnapshot \in Nat
  /\ todo \subseteq Locations
  /\ earliest \in Nat
  /\ ticker \in [fire : Nat \ {0}, period : Nat \ {0}, pending : BOOLEAN]
  /\ gauges \in [last : Nat, lastSuccess : Nat, success : BOOLEAN, next : Nat]
  /\ cancelled \in BOOLEAN
  /\ inForce \subseteq Frequencies \ {0}

(***************************************************************************)
(* The lock excludes update from a snapshot (TestTakeSnapshotLocksUpdate): *)
(* client, manager and defaults stay the same from its first to its last   *)
(* step, and the time update schedules from is not overtaken by a snapshot.*)
(***************************************************************************)
ReloadExcludesSnapshot ==
  [][/\ main \in {"vault", "upload"} => UNCHANGED running
     /\ lock = "watcher" => UNCHANGED lastSnapshotTime]_vars

(***************************************************************************)
(* "ensure that we do not hammer on vault" (snapshot-agent.go:149): two    *)
(* snapshots start no closer together than the shortest frequency that was *)
(* configured at some moment between them, whatever fails, however long    *)
(* the first takes, and whatever is reloaded meanwhile.                    *)
(***************************************************************************)
DoesNotHammer ==
  [][/\ lastSnapshotTime # ZeroTime
     /\ lastSnapshotTime' # lastSnapshotTime
     => \E f \in inForce : lastSnapshotTime' >= lastSnapshotTime + f]_vars

(***************************************************************************)
(* The agent never waits longer than the longest frequency configured      *)
(* since its last snapshot: while main waits, the next tick is in the      *)
(* channel or due by then.                                                 *)
(***************************************************************************)
NeverTooLate ==
  main = "select" =>
    \/ ticker.pending
    \/ \E f \in inForce : ticker.fire <= lastSnapshotTime + f

(***************************************************************************)
(* The published next snapshot time is true: while main waits after a      *)
(* snapshot whose outcome was published, a next time in the future is the  *)
(* time the ticker fires.                                                  *)
(***************************************************************************)
AnnouncedIsScheduled ==
  (/\ main = "select"
   /\ lock = "none"
   /\ gauges.last = lastSnapshotTime
   /\ gauges.next > now)
  => ticker.pending \/ ticker.fire = gauges.next

(***************************************************************************)
(* Snapshots go on: an agent that waits, with time enough for its longest  *)
(* frequency before the clock's bound, starts another one unless it is     *)
(* told to stop.                                                           *)
(***************************************************************************)
SnapshotsContinue ==
  (/\ main = "select"
   /\ \A f \in Frequencies : lastSnapshotTime + f <= MaxTime)
  ~> main \in {"vault", "exited"}

\* A configuration that was read is handled: update gets the lock from a main
\* goroutine that keeps taking snapshots.
ReloadIsServed == watcher = "update" ~> (watcher # "update" \/ main = "exited")

\* A signal ends the process, whatever main is doing when it arrives.
SignalIsServed == cancelled ~> main = "exited"

(***************************************************************************)
(* The two goroutines with their lock and their ticker do what one alarm   *)
(* clock would: nothing that the lock orders, the ticker remembers or the  *)
(* select chooses can be seen from outside.  A tick that main has received *)
(* is an alarm that has gone off, and no reload takes it back.             *)
(***************************************************************************)
Phase == CASE main \in {"ready", "select"} -> "waiting"
           [] main = "vault" -> "taking"
           [] main = "upload" -> "distributing"
           [] main = "exited" -> "stopped"

Alarm == IF main = "ready" \/ ticker.pending THEN 0 ELSE ticker.fire

Service == INSTANCE SnapshotService WITH
             phase <- Phase,
             last <- lastSnapshotTime,
             alarm <- Alarm,
             allowed <- inForce,
             config <- running,
             rest <- IF main = "upload" THEN todo ELSE {}

ImplementsService == Service!Spec

=============================================================================
