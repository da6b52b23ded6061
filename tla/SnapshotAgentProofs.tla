------------------------ MODULE SnapshotAgentProofs -------------------------
(***************************************************************************)
(* Proofs about SnapshotAgent for any contents of the configuration file,  *)
(* any number of changes, storages and frequencies, and any bound of the   *)
(* clock.                                                                  *)
(***************************************************************************)
EXTENDS SnapshotAgent, TLAPS

-----------------------------------------------------------------------------
(* The invariant                                                           *)

\* Every storage of the agent can be read: those it points to are in the
\* struct it points into.
StoragesAreReadable ==
  running.sections = DOMAIN RunningStorages /\
  IF running.aliased THEN running.sections \subseteq DOMAIN shared.storages
                     ELSE running.sections = DOMAIN running.own

ReloadInv ==
  /\ ReloadTypeOK
  /\ events <= changes
  /\ shared.frequency # 0 \/ watcher # "update"
  /\ StoragesAreReadable

\* Main holds the lock from the first to the last step of TakeSnapshot, and
\* nobody but the watcher has it when main does not.
LockInv ==
  /\ main \in {"vault", "upload"} <=> lock = "main"
  /\ main \in {"vault", "upload", "select"} => lastSnapshotTime # ZeroTime
  /\ main = "upload" => todo \subseteq running.sections

\* What the agent may use now counts as configured since the last snapshot.
UsableIsInForce == Usable(running, shared) \subseteq inForce

DueSince(t) == \E f \in inForce : lastSnapshotTime + f <= t
DueUntil(t) == \E f \in inForce : t <= lastSnapshotTime + f
Due(t) == \E f \in inForce : t = lastSnapshotTime + f

(***************************************************************************)
(* The ticker never fires before some frequency has passed since the last  *)
(* snapshot, nor later than some frequency after it.                       *)
(***************************************************************************)
PaceInv ==
  /\ main = "ready" /\ lastSnapshotTime # ZeroTime => DueSince(now)
  /\ main \in {"vault", "upload", "select"} =>
       /\ ticker.pending => DueSince(now)
       /\ DueSince(ticker.fire)
       /\ ticker.pending \/ DueUntil(ticker.fire)
  /\ main = "upload" /\ earliest # ZeroTime => Due(earliest)

(***************************************************************************)
(* The gauges speak of the last snapshot only once its outcome is known,   *)
(* and until then nextSnapshot is what the ticker was set to.              *)
(***************************************************************************)
AnnounceInv ==
  /\ gauges.last <= lastSnapshotTime
  /\ main \in {"vault", "upload"} => gauges.last # lastSnapshotTime
  /\ main = "vault" => ticker.pending \/ ticker.fire = nextSnapshot
  /\ lock = "watcher" => gauges.last = 0
  /\ AnnouncedIsScheduled

IInv ==
  /\ TypeOK
  /\ ReloadInv
  /\ LockInv
  /\ UsableIsInForce
  /\ PaceInv
  /\ AnnounceInv

-----------------------------------------------------------------------------
(* The configuration                                                       *)

LEMMA FrequenciesType ==
  /\ Frequencies \subseteq Nat
  /\ DefaultFrequency \in Frequencies /\ DefaultFrequency # 0
  /\ \A f \in Files \cup {InitialFile} :
       /\ f.frequency \in Frequencies
       /\ DOMAIN f.storages \subseteq Locations
       /\ \A l \in DOMAIN f.storages : f.storages[l] \in Frequencies
BY FilesAssumption DEF Frequencies, Locations

(***************************************************************************)
(* Decoding a file into a configuration gives one whose frequencies all    *)
(* were configured at some time, and loses no section.                     *)
(***************************************************************************)
LEMMA UnmarshalType ==
  ASSUME NEW config, ConfigOK(config), NEW f \in Files \cup {InitialFile}
  PROVE  /\ ConfigOK(Unmarshal(config, f))
         /\ Unmarshal(config, f).frequency # 0
         /\ DOMAIN config.storages \subseteq DOMAIN Unmarshal(config, f).storages
<1> DEFINE decoded == Decode(config, f)
           result == Unmarshal(config, f)
<1>1. /\ decoded.frequency \in Frequencies \cup {0}
      /\ DOMAIN decoded.storages = DOMAIN config.storages \cup DOMAIN f.storages
      /\ \A l \in DOMAIN decoded.storages :
           decoded.storages[l] \in Frequencies \cup {0}
  BY FrequenciesType DEF ConfigOK, Decode, Given
<1>2. /\ result.frequency = Given(decoded.frequency, DefaultFrequency)
      /\ result.storages = decoded.storages
  BY DEF Unmarshal, SetDefaults, Decode
<1>3. result.frequency \in Frequencies /\ result.frequency # 0
  BY <1>1, <1>2, FrequenciesType DEF Given
<1>4. DOMAIN result.storages \subseteq Locations
  BY <1>1, <1>2, FrequenciesType DEF ConfigOK
<1> QED BY <1>1, <1>2, <1>3, <1>4 DEF ConfigOK

LEMMA EmptyType == ConfigOK(EmptyConfig)
BY DEF ConfigOK, EmptyConfig

LEMMA ReloadInitInv == ReloadInit => ReloadInv
<1> SUFFICES ASSUME ReloadInit PROVE ReloadInv
  OBVIOUS
<1> DEFINE start == Unmarshal(EmptyConfig, InitialFile)
<1>1. /\ ConfigOK(start)
      /\ start.frequency # 0
  BY EmptyType, UnmarshalType
<1>2. /\ running.frequency = start.frequency
      /\ running.sections = DOMAIN start.storages
      /\ running.aliased = FALSE
      /\ running.own = start.storages
  BY DEF ReloadInit, Started
<1> HIDE DEF start
<1>3. ReloadTypeOK
  <2>1. /\ running.frequency \in Frequencies \ {0}
        /\ running.sections \subseteq Locations
        /\ ConfigOK([frequency |-> 0, storages |-> running.own])
    BY <1>1, <1>2 DEF ConfigOK
  <2>2. ConfigOK(shared)
    BY EmptyType DEF ReloadInit
  <2>3. /\ file \in Files \cup {InitialFile}
        /\ changes \in 0..MaxChanges
        /\ events \in 0..MaxChanges
        /\ watcher \in {"idle", "update", "send"}
        /\ results \in 0..1
    BY FilesAssumption DEF ReloadInit
  <2> QED BY <1>2, <2>1, <2>2, <2>3 DEF ReloadTypeOK
<1>4. StoragesAreReadable
  BY <1>2 DEF StoragesAreReadable, RunningStorages, StoragesOf
<1> QED BY <1>3, <1>4, FilesAssumption DEF ReloadInit, ReloadInv

LEMMA ReloadStep == ReloadInv /\ [ReloadNext]_reloadVars => ReloadInv'
<1> SUFFICES ASSUME ReloadInv, [ReloadNext]_reloadVars PROVE ReloadInv'
  OBVIOUS
<1> USE DEF ReloadInv
<1>m. MaxChanges \in Nat
  BY FilesAssumption
<1>1. CASE ChangeFile
  <2>1. UNCHANGED <<shared, running, watcher>>
    BY <1>1 DEF ChangeFile
  <2>2. ReloadTypeOK'
    BY <1>1, <1>m DEF ChangeFile, ReloadTypeOK, ConfigOK
  <2>3. StoragesAreReadable'
    BY <2>1 DEF StoragesAreReadable, RunningStorages, StoragesOf
  <2> QED BY <1>1, <1>m, <2>1, <2>2, <2>3 DEF ChangeFile, ReloadTypeOK
<1>2. CASE ReadChange
  <2>1. /\ ConfigOK(shared')
        /\ shared'.frequency # 0
        /\ DOMAIN shared.storages \subseteq DOMAIN shared'.storages
    BY <1>2, UnmarshalType DEF ReadChange, ReloadTypeOK
  <2>2. ReloadTypeOK'
    BY <1>2, <1>m, <2>1 DEF ReadChange, ReloadTypeOK
  <2>3. StoragesAreReadable'
    BY <1>2, <2>1 DEF ReadChange, StoragesAreReadable, RunningStorages, StoragesOf
  <2> QED BY <1>2, <1>m, <2>1, <2>2, <2>3 DEF ReadChange, ReloadTypeOK
<1>3. CASE Install
  <2>1. /\ running'.frequency = shared.frequency
        /\ running'.sections = DOMAIN shared.storages
        /\ running'.aliased = TRUE
        /\ running'.own = EmptyConfig.storages
        /\ UNCHANGED shared
    BY <1>3 DEF Install, Installed
  <2>2. ReloadTypeOK'
    BY <1>3, <2>1, EmptyType DEF Install, ReloadTypeOK, ConfigOK
  <2>3. StoragesAreReadable'
    BY <2>1 DEF StoragesAreReadable, RunningStorages, StoragesOf
  <2> QED BY <1>3, <2>2, <2>3 DEF Install
<1>4. CASE InstallFails \/ Send \/ UNCHANGED reloadVars
  <2>1. UNCHANGED <<file, changes, events, shared, running>>
    BY <1>4 DEF InstallFails, Send, reloadVars
  <2>2. watcher' \in {"idle", "update", "send"} /\ results' \in 0..1
    BY <1>4 DEF InstallFails, Send, reloadVars, ReloadTypeOK
  <2>3. watcher' = "update" => watcher = "update"
    BY <1>4 DEF InstallFails, Send, reloadVars
  <2>4. StoragesAreReadable'
    BY <2>1 DEF StoragesAreReadable, RunningStorages, StoragesOf
  <2> QED BY <2>1, <2>2, <2>3, <2>4 DEF ReloadTypeOK, ConfigOK
<1> QED BY <1>1, <1>2, <1>3, <1>4 DEF ReloadNext

(***************************************************************************)
(* The frequencies the agent may use are positive and among those that     *)
(* were configured.                                                        *)
(***************************************************************************)
UsableOK ==
  /\ Usable(running, shared) \subseteq Frequencies \ {0}
  /\ running.frequency \in Usable(running, shared)
  /\ \A l \in running.sections : RunningFrequency(l) \in Usable(running, shared)

LEMMA UsableType == ReloadInv => UsableOK
<1> SUFFICES ASSUME ReloadInv PROVE UsableOK
  OBVIOUS
<1> USE DEF ReloadInv
<1>1. running.frequency \in Frequencies \ {0}
  BY DEF ReloadTypeOK
<1>2. ASSUME NEW l \in running.sections
      PROVE  RunningStorages[l] \in Frequencies \cup {0}
  BY <1>2 DEF ReloadTypeOK, StoragesAreReadable, RunningStorages, StoragesOf, ConfigOK
<1>3. ASSUME NEW l \in running.sections
      PROVE  RunningFrequency(l) \in Frequencies \ {0}
  BY <1>1, <1>2, FrequenciesType DEF RunningFrequency, OrDefault
<1>4. Usable(running, shared) =
        {running.frequency} \cup {RunningFrequency(l) : l \in running.sections}
  BY DEF Usable, RunningFrequency, RunningStorages
<1> QED BY <1>1, <1>3, <1>4 DEF UsableOK

-----------------------------------------------------------------------------
(* The ticker                                                              *)

Tickers == [fire : Nat \ {0}, period : Nat \ {0}, pending : BOOLEAN]

LEMMA ResetType ==
  ASSUME NEW t \in Nat, NEW d \in Nat \ {0}
  PROVE  /\ ResetTicker(t, d) \in Tickers
         /\ ResetTicker(t, d).fire = t + d
         /\ ResetTicker(t, d).pending = FALSE
BY DEF ResetTicker, Tickers

\* The ticker is set to a time in the future, or it is left alone.
LEMMA UpdateTickerType ==
  ASSUME now \in Nat, ticker \in Tickers, NEW next \in Nat
  PROVE  /\ UpdateTicker(next) \in Tickers
         /\ next > now => /\ UpdateTicker(next).fire = next
                          /\ UpdateTicker(next).pending = FALSE
         /\ ~(next > now) => UpdateTicker(next) = ticker
<1>1. CASE next > now
  <2>1. next - now \in Nat \ {0} /\ now + (next - now) = next
    BY <1>1
  <2>2. UpdateTicker(next) = ResetTicker(now, next - now)
    BY <1>1 DEF UpdateTicker
  <2> QED BY <1>1, <2>1, <2>2, ResetType
<1>2. CASE ~(next > now)
  BY <1>2 DEF UpdateTicker
<1> QED BY <1>1, <1>2

LEMMA ElapsedType ==
  ASSUME ticker \in Tickers, NEW t \in Nat
  PROVE  /\ Elapsed(t) \in Tickers
         /\ ticker.fire <= t => Elapsed(t).pending /\ Elapsed(t).fire >= ticker.fire
         /\ ~(ticker.fire <= t) => Elapsed(t) = ticker
<1>1. CASE ticker.fire <= t
  <2>1. Elapsed(t) = [ticker EXCEPT !.fire = @ + ticker.period, !.pending = TRUE]
    BY <1>1 DEF Elapsed
  <2>2. ticker.fire + ticker.period \in Nat \ {0}
    BY DEF Tickers
  <2>3. /\ Elapsed(t) = [fire |-> ticker.fire + ticker.period,
                        period |-> ticker.period, pending |-> TRUE]
    BY <2>1 DEF Tickers
  <2>4. ticker.fire + ticker.period >= ticker.fire
    BY DEF Tickers
  <2> QED BY <1>1, <2>2, <2>3, <2>4 DEF Tickers
<1>2. CASE ~(ticker.fire <= t)
  BY <1>2 DEF Elapsed
<1> QED BY <1>1, <1>2

-----------------------------------------------------------------------------
(* Types                                                                   *)

LEMMA NextReload == [Next]_vars => [ReloadNext]_reloadVars
BY DEF Next, Main, Watcher, Tick, Signal, Change, BeginSnapshot, SnapshotFails,
       SnapshotEmpty, SnapshotTaken, UploadTo, SeekFails, EndUpload, SelectTick,
       SelectDone, Read, UpdateAssign, UpdateFails, UpdateSchedule, SendResult,
       ReloadNext, vars

LEMMA ReloadInvStep == IInv /\ [Next]_vars => ReloadInv' /\ UsableOK /\ UsableOK'
<1>1. IInv /\ [Next]_vars => ReloadInv'
  BY NextReload, ReloadStep DEF IInv
<1>2. IInv => UsableOK
  BY UsableType DEF IInv
<1>3. ReloadInv' => UsableOK'
  BY UsableType, PTL
<1> QED BY <1>1, <1>2, <1>3

LEMMA InForceStep == IInv /\ [Next]_vars => UsableIsInForce'
<1> SUFFICES ASSUME IInv, [Next]_vars PROVE UsableIsInForce'
  OBVIOUS
<1>1. CASE BeginSnapshot
  BY <1>1 DEF BeginSnapshot, UsableIsInForce, Usable, StoragesOf, reloadVars
<1>2. CASE Read
  BY <1>2 DEF Read, ReadChange, UsableIsInForce
<1>3. CASE UpdateAssign
  BY <1>3 DEF UpdateAssign, Install, UsableIsInForce
<1>4. ASSUME UNCHANGED <<running, shared, inForce>>
      PROVE  UsableIsInForce'
  BY <1>4 DEF IInv, UsableIsInForce, Usable, StoragesOf
<1>5. CASE \/ Tick \/ Signal \/ Change \/ SnapshotFails \/ SnapshotEmpty
           \/ SnapshotTaken \/ (\E l \in Locations : UploadTo(l)) \/ SeekFails
           \/ EndUpload \/ SelectTick \/ SelectDone \/ UpdateFails
           \/ UpdateSchedule \/ SendResult \/ UNCHANGED vars
  <2>1. UNCHANGED <<running, shared, inForce>>
    BY <1>5 DEF Tick, Signal, Change, ChangeFile, SnapshotFails, SnapshotEmpty,
         SnapshotTaken, UploadTo, SeekFails, EndUpload, SelectTick, SelectDone,
         UpdateFails, InstallFails, UpdateSchedule, SendResult, Send, vars,
         agentVars, reloadVars
  <2> QED BY <2>1, <1>4
<1> QED BY <1>1, <1>2, <1>3, <1>5 DEF Next, Main, Watcher

LEMMA LockStep == IInv /\ [Next]_vars => LockInv'
<1> SUFFICES ASSUME IInv, [Next]_vars PROVE LockInv'
  OBVIOUS
<1> USE DEF LockInv
<1>i. LockInv /\ TypeOK
  BY DEF IInv
<1>1. CASE BeginSnapshot
  <2>1. now # ZeroTime
    BY <1>i, ClockAssumption DEF TypeOK, ZeroTime
  <2> QED BY <1>1, <1>i, <2>1 DEF BeginSnapshot, reloadVars
<1>2. CASE \/ SnapshotFails \/ SnapshotEmpty \/ EndUpload
  BY <1>2, <1>i DEF SnapshotFails, SnapshotEmpty, EndUpload, ReturnTicker, reloadVars
<1>3. CASE \/ SnapshotTaken \/ (\E l \in Locations : UploadTo(l)) \/ SeekFails
  BY <1>3, <1>i DEF SnapshotTaken, UploadTo, SeekFails, reloadVars
<1>4. CASE SelectTick \/ SelectDone
  BY <1>4, <1>i DEF SelectTick, SelectDone, reloadVars
<1>5. CASE UpdateAssign \/ UpdateSchedule
  BY <1>5, <1>i DEF UpdateAssign, Install, UpdateSchedule, takeVars, reloadVars
<1>6. CASE \/ Tick \/ Signal \/ Change \/ Read \/ UpdateFails \/ SendResult
           \/ UNCHANGED vars
  BY <1>6, <1>i DEF Tick, Signal, Change, ChangeFile, Read, ReadChange,
       UpdateFails, InstallFails, SendResult, Send, takeVars, vars, agentVars,
       reloadVars
<1> QED BY <1>1, <1>2, <1>3, <1>4, <1>5, <1>6 DEF Next, Main, Watcher

\* The times update may schedule for: unknown, or due by some frequency.
SchedulesOK ==
  /\ Schedules \subseteq Nat
  /\ lastSnapshotTime # ZeroTime =>
       \A next \in Schedules : next # ZeroTime => Due(next)

LEMMA SchedulesType == IInv => SchedulesOK
<1> SUFFICES ASSUME IInv PROVE SchedulesOK
  OBVIOUS
<1>1. UsableOK
  BY UsableType DEF IInv
<1>2. \A l \in running.sections : RunningFrequency(l) \in inForce /\ RunningFrequency(l) \in Nat
  BY <1>1, FrequenciesType DEF IInv, UsableIsInForce, UsableOK
<1>3. lastSnapshotTime \in Nat /\ now \in Nat
  BY ClockAssumption DEF IInv, TypeOK
<1>4. Schedules \subseteq Nat
  BY <1>2, <1>3 DEF Schedules, ZeroTime
<1>5. ASSUME lastSnapshotTime # ZeroTime, NEW next \in Schedules, next # ZeroTime
      PROVE  Due(next)
  BY <1>2, <1>5 DEF Schedules, Due
<1> QED BY <1>4, <1>5 DEF SchedulesOK

LEMMA TypeStep == IInv /\ [Next]_vars => TypeOK'
<1> SUFFICES ASSUME IInv, [Next]_vars PROVE TypeOK'
  OBVIOUS
<1>r. ReloadTypeOK' /\ UsableOK /\ UsableOK'
  BY ReloadInvStep DEF ReloadInv
<1>i. TypeOK /\ ticker \in Tickers /\ inForce \subseteq Frequencies \ {0}
  BY DEF IInv, TypeOK, Tickers
<1>n. /\ now \in Nat /\ lastSnapshotTime \in Nat /\ MaxTime \in Nat
      /\ StartTime \in Nat
  BY <1>i, ClockAssumption DEF TypeOK
<1>f. running.frequency \in Nat
  BY <1>i, FrequenciesType DEF TypeOK, ReloadTypeOK
<1>t. SUFFICES
        /\ now' \in StartTime..MaxTime
        /\ main' \in {"ready", "vault", "upload", "select", "exited"}
        /\ lock' \in {"none", "main", "watcher"}
        /\ lastSnapshotTime' \in 0..now'
        /\ nextSnapshot' \in Nat
        /\ todo' \subseteq Locations
        /\ earliest' \in Nat
        /\ ticker' \in Tickers
        /\ gauges' \in [last : Nat, lastSuccess : Nat, success : BOOLEAN, next : Nat]
        /\ cancelled' \in BOOLEAN
        /\ inForce' \subseteq Frequencies \ {0}
  BY <1>r DEF TypeOK, Tickers
<1> USE DEF TypeOK, ZeroTime
<1>1. CASE Tick
  <2>1. ticker' \in Tickers
    BY <1>1, <1>i, <1>n, ElapsedType DEF Tick
  <2> QED BY <1>1, <1>i, <1>n, <2>1 DEF Tick, takeVars
<1>2. CASE BeginSnapshot
  <2>0. now + running.frequency \in Nat
    BY <1>n, <1>f
  <2>1. ticker' \in Tickers
    BY <1>2, <1>i, <1>n, <2>0, UpdateTickerType DEF BeginSnapshot
  <2>2. inForce' \subseteq Frequencies \ {0}
    BY <1>2, <1>r DEF BeginSnapshot, UsableOK
  <2> QED BY <1>2, <1>i, <1>n, <1>f, <2>1, <2>2 DEF BeginSnapshot
<1>3. CASE SnapshotFails
  <2>1. gauges' \in [last : Nat, lastSuccess : Nat, success : BOOLEAN, next : Nat]
    BY <1>3, <1>i, <1>n DEF SnapshotFails, CollectFailure
  <2> QED BY <1>3, <1>i, <2>1 DEF SnapshotFails, ReturnTicker
<1>4. CASE SnapshotEmpty
  BY <1>4, <1>i DEF SnapshotEmpty, ReturnTicker
<1>5. CASE SnapshotTaken
  BY <1>5, <1>i DEF SnapshotTaken, ReloadTypeOK
<1>6. ASSUME NEW l \in Locations, UploadTo(l) PROVE TypeOK'
  <2>1. l \in running.sections
    BY <1>6 DEF UploadTo, IInv, LockInv
  <2>2. RunningFrequency(l) \in Nat
    BY <1>r, <2>1, FrequenciesType DEF UsableOK
  <2>3. earliest' \in Nat
    BY <1>6, <1>i, <1>n, <2>2 DEF UploadTo
  <2> QED BY <1>6, <1>i, <1>r, <2>3 DEF UploadTo, Tickers
<1>7. CASE SeekFails
  BY <1>7, <1>i, <1>n, <1>f DEF SeekFails
<1>8. CASE EndUpload
  <2>1. ticker' \in Tickers
    BY <1>8, <1>i, <1>n, UpdateTickerType DEF EndUpload
  <2>2. gauges' \in [last : Nat, lastSuccess : Nat, success : BOOLEAN, next : Nat]
    BY <1>8, <1>i, <1>n DEF EndUpload, CollectSuccess
  <2> QED BY <1>8, <1>i, <2>1, <2>2 DEF EndUpload, ReturnTicker
<1>9. CASE SelectTick
  <2>1. ticker' \in Tickers
    BY <1>9, <1>i DEF SelectTick, Tickers
  <2> QED BY <1>9, <1>i, <2>1 DEF SelectTick
<1>10. CASE SelectDone \/ Signal
  BY <1>10, <1>i DEF SelectDone, Signal, takeVars
<1>11. CASE Read
  <2>1. inForce' \subseteq Frequencies \ {0}
    BY <1>11, <1>i, <1>r DEF Read, ReadChange, UsableOK
  <2> QED BY <1>11, <1>i, <2>1 DEF Read, takeVars
<1>12. CASE UpdateAssign
  <2>1. inForce' \subseteq Frequencies \ {0}
    BY <1>12, <1>i, <1>r DEF UpdateAssign, Install, UsableOK
  <2>2. gauges' \in [last : Nat, lastSuccess : Nat, success : BOOLEAN, next : Nat]
    BY <1>12 DEF UpdateAssign, NewGauges
  <2> QED BY <1>12, <1>i, <2>1, <2>2 DEF UpdateAssign, takeVars
<1>13. CASE UpdateSchedule
  <2>1. PICK next \in Schedules : /\ ticker' = UpdateTicker(next)
                                  /\ gauges' = [gauges EXCEPT !.next = next]
    BY <1>13 DEF UpdateSchedule
  <2>2. next \in Nat
    BY SchedulesType DEF SchedulesOK
  <2>3. ticker' \in Tickers
    BY <1>i, <1>n, <2>1, <2>2, UpdateTickerType
  <2>4. gauges' \in [last : Nat, lastSuccess : Nat, success : BOOLEAN, next : Nat]
    BY <1>i, <2>1, <2>2
  <2> QED BY <1>13, <1>i, <2>3, <2>4 DEF UpdateSchedule, takeVars
<1>14. CASE Change \/ UpdateFails \/ SendResult \/ UNCHANGED vars
  BY <1>14, <1>i DEF Change, UpdateFails, SendResult, takeVars, agentVars, vars
<1> QED BY <1>1, <1>2, <1>3, <1>4, <1>5, <1>6, <1>7, <1>8, <1>9, <1>10, <1>11,
          <1>12, <1>13, <1>14 DEF Next, Main, Watcher, Tickers

-----------------------------------------------------------------------------
(* The pace                                                                *)

Waiting == {"vault", "upload", "select"}

\* Steps that leave the ticker alone, whatever becomes configured by them.
LEMMA QuietPace ==
  ASSUME IInv,
         UNCHANGED <<now, lastSnapshotTime, ticker>>,
         inForce \subseteq inForce',
         main' \in Waiting => main \in Waiting,
         main' = "ready" => main = "ready",
         main' = "upload" => \/ earliest' = ZeroTime
                             \/ main = "upload" /\ UNCHANGED earliest
  PROVE  PaceInv'
BY DEF IInv, PaceInv, Waiting, DueSince, DueUntil, Due

LEMMA PaceStep == IInv /\ [Next]_vars => PaceInv'
<1> SUFFICES ASSUME IInv, [Next]_vars PROVE PaceInv'
  OBVIOUS
<1>i. TypeOK /\ LockInv /\ PaceInv /\ ticker \in Tickers /\ inForce \subseteq Nat
  BY FrequenciesType DEF IInv, TypeOK, Tickers
<1>n. /\ now \in Nat /\ lastSnapshotTime \in Nat /\ ticker.fire \in Nat
      /\ lastSnapshotTime <= now
  BY <1>i, ClockAssumption DEF TypeOK, Tickers
<1>u. /\ running.frequency \in inForce
      /\ \A l \in running.sections : RunningFrequency(l) \in inForce
      /\ running.frequency \in Usable(running, shared)
      /\ running.frequency \in Nat \ {0}
  BY UsableType, FrequenciesType DEF IInv, UsableIsInForce, UsableOK
<1>1. CASE Tick
  <2>1. /\ UNCHANGED <<main, lastSnapshotTime, earliest, inForce>>
        /\ now' = now + 1
        /\ ticker' = Elapsed(now + 1)
    BY <1>1 DEF Tick, takeVars
  <2>2. CASE ticker.fire <= now + 1
    <3>1. ticker'.pending /\ ticker'.fire >= ticker.fire /\ ticker'.fire \in Nat
      BY <1>i, <1>n, <2>1, <2>2, ElapsedType DEF Tickers
    <3> QED BY <1>i, <1>n, <2>1, <2>2, <3>1 DEF PaceInv, DueSince, DueUntil, Due
  <2>3. CASE ~(ticker.fire <= now + 1)
    <3>1. ticker' = ticker
      BY <1>i, <1>n, <2>1, <2>3, ElapsedType
    <3> QED BY <1>i, <1>n, <2>1, <3>1 DEF PaceInv, DueSince, DueUntil, Due
  <2> QED BY <2>2, <2>3
<1>2. CASE BeginSnapshot
  <2>1. now + running.frequency \in Nat /\ now + running.frequency > now
    BY <1>n, <1>u
  <2>2. ticker'.fire = now + running.frequency /\ ticker'.pending = FALSE
    BY <1>2, <1>i, <1>n, <2>1, UpdateTickerType DEF BeginSnapshot
  <2>3. /\ main' = "vault" /\ lastSnapshotTime' = now
        /\ running.frequency \in inForce'
    BY <1>2, <1>u DEF BeginSnapshot
  <2> QED BY <1>n, <1>u, <2>1, <2>2, <2>3 DEF PaceInv, DueSince, DueUntil, Due
<1>3. CASE SnapshotFails \/ SnapshotEmpty
  BY <1>3, QuietPace DEF SnapshotFails, SnapshotEmpty, ReturnTicker, Waiting
<1>4. CASE SnapshotTaken
  BY <1>4, QuietPace DEF SnapshotTaken, Waiting
<1>5. ASSUME NEW l \in Locations, UploadTo(l) PROVE PaceInv'
  <2>1. /\ UNCHANGED <<now, main, lastSnapshotTime, ticker, inForce>>
        /\ \/ UNCHANGED earliest
           \/ earliest' = lastSnapshotTime + RunningFrequency(l)
    BY <1>5 DEF UploadTo
  <2>2. RunningFrequency(l) \in inForce
    BY <1>5, <1>i, <1>u DEF UploadTo, LockInv
  <2> QED BY <1>i, <2>1, <2>2 DEF PaceInv, DueSince, DueUntil, Due
<1>6. CASE SeekFails
  <2>1. /\ UNCHANGED <<now, main, lastSnapshotTime, ticker, inForce>>
        /\ earliest' = lastSnapshotTime + running.frequency
    BY <1>6 DEF SeekFails
  <2> QED BY <1>i, <1>u, <2>1 DEF PaceInv, DueSince, DueUntil, Due
<1>7. CASE EndUpload
  <2>1. /\ UNCHANGED <<now, lastSnapshotTime, inForce>>
        /\ main = "upload" /\ main' = "select" /\ earliest' = ZeroTime
        /\ ticker' = UpdateTicker(earliest)
    BY <1>7 DEF EndUpload, ReturnTicker
  <2>2. earliest \in Nat
    BY <1>i DEF TypeOK
  <2>3. CASE earliest > now
    <3>1. ticker'.fire = earliest /\ ticker'.pending = FALSE
      BY <1>i, <1>n, <2>1, <2>2, <2>3, UpdateTickerType
    <3>2. PICK f \in inForce : earliest = lastSnapshotTime + f
      BY <1>i, <1>n, <2>1, <2>3 DEF PaceInv, Due, ZeroTime
    <3>3. f \in inForce' /\ lastSnapshotTime' + f = ticker'.fire /\ ticker'.fire \in Nat
      BY <2>1, <2>2, <3>1, <3>2
    <3> QED BY <2>1, <3>1, <3>3 DEF PaceInv, DueSince, DueUntil, Due
  <2>4. CASE ~(earliest > now)
    <3>1. ticker' = ticker
      BY <1>i, <1>n, <2>1, <2>2, <2>4, UpdateTickerType
    <3> QED BY <2>1, <3>1, QuietPace DEF Waiting
  <2> QED BY <2>3, <2>4
<1>8. CASE SelectTick
  BY <1>8, <1>i DEF SelectTick, PaceInv, DueSince, DueUntil, Due
<1>9. CASE SelectDone
  BY <1>9, QuietPace DEF SelectDone, Waiting
<1>10. CASE UpdateSchedule
  <2>1. PICK next \in Schedules : ticker' = UpdateTicker(next)
    BY <1>10 DEF UpdateSchedule
  <2>2. next \in Nat /\ (lastSnapshotTime # ZeroTime /\ next # ZeroTime => Due(next))
    BY SchedulesType DEF SchedulesOK
  <2>3. UNCHANGED <<now, main, lastSnapshotTime, earliest, inForce>>
    BY <1>10 DEF UpdateSchedule, takeVars
  <2>4. CASE next > now
    <3>1. ticker'.fire = next /\ ticker'.pending = FALSE
      BY <1>i, <1>n, <2>1, <2>2, <2>4, UpdateTickerType
    <3>2. CASE lastSnapshotTime = ZeroTime
      BY <1>i, <2>3, <3>2 DEF LockInv, PaceInv
    <3>3. CASE lastSnapshotTime # ZeroTime
      <4>1. PICK f \in inForce : next = lastSnapshotTime + f
        BY <1>n, <2>2, <2>4, <3>3 DEF Due, ZeroTime
      <4>2. f \in inForce' /\ lastSnapshotTime' + f = ticker'.fire /\ ticker'.fire \in Nat
        BY <2>2, <2>3, <3>1, <4>1
      <4> QED BY <1>i, <2>3, <3>1, <4>2 DEF PaceInv, DueSince, DueUntil, Due
    <3> QED BY <3>2, <3>3
  <2>5. CASE ~(next > now)
    <3>1. ticker' = ticker
      BY <1>i, <1>n, <2>1, <2>2, <2>5, UpdateTickerType
    <3> QED BY <2>3, <3>1, QuietPace DEF Waiting
  <2> QED BY <2>4, <2>5
<1>11. CASE \/ Signal \/ Change \/ Read \/ UpdateAssign \/ UpdateFails \/ SendResult
            \/ UNCHANGED vars
  <2>1. /\ UNCHANGED <<now, main, lastSnapshotTime, earliest, ticker>>
        /\ inForce \subseteq inForce'
    BY <1>11 DEF Signal, Change, Read, UpdateAssign, UpdateFails, SendResult,
         takeVars, agentVars, vars
  <2> QED BY <2>1, QuietPace
<1> QED BY <1>1, <1>2, <1>3, <1>4, <1>5, <1>6, <1>7, <1>8, <1>9, <1>10, <1>11
        DEF Next, Main, Watcher

-----------------------------------------------------------------------------
(* The gauges                                                              *)

LEMMA AnnounceStep == IInv /\ [Next]_vars => AnnounceInv'
<1> SUFFICES ASSUME IInv, [Next]_vars PROVE AnnounceInv'
  OBVIOUS
<1>i. /\ TypeOK /\ LockInv /\ PaceInv /\ AnnounceInv
      /\ ticker \in Tickers /\ inForce \subseteq Nat \ {0}
  BY FrequenciesType DEF IInv, TypeOK, Tickers
<1>n. /\ now \in Nat \ {0} /\ lastSnapshotTime \in Nat /\ ticker.fire \in Nat
      /\ lastSnapshotTime <= now
      /\ gauges \in [last : Nat, lastSuccess : Nat, success : BOOLEAN, next : Nat]
      /\ nextSnapshot \in Nat /\ earliest \in Nat
  BY <1>i, ClockAssumption DEF TypeOK, Tickers
<1> USE DEF AnnounceInv, AnnouncedIsScheduled
<1>1. CASE Tick
  <2>1. /\ UNCHANGED <<main, lock, lastSnapshotTime, nextSnapshot, gauges>>
        /\ now' = now + 1
        /\ ticker' = Elapsed(now + 1)
    BY <1>1 DEF Tick, takeVars
  <2>2. CASE ticker.fire <= now + 1
    <3>1. ticker'.pending
      BY <1>i, <1>n, <2>1, <2>2, ElapsedType
    <3> QED BY <1>i, <2>1, <3>1
  <2>3. CASE ~(ticker.fire <= now + 1)
    <3>1. ticker' = ticker
      BY <1>i, <1>n, <2>1, <2>3, ElapsedType
    <3> QED BY <1>i, <1>n, <2>1, <3>1
  <2> QED BY <2>2, <2>3
<1>2. CASE BeginSnapshot
  <2>1. running.frequency \in Nat \ {0}
    BY UsableType, FrequenciesType DEF IInv, UsableOK
  <2>2. now + running.frequency \in Nat /\ now + running.frequency > now
    BY <1>n, <2>1
  <2>3. ticker'.fire = now + running.frequency
    BY <1>2, <1>i, <1>n, <2>2, UpdateTickerType DEF BeginSnapshot
  <2>4. lastSnapshotTime < now
    <3>1. CASE lastSnapshotTime = ZeroTime
      BY <1>n, <3>1 DEF ZeroTime
    <3>2. CASE lastSnapshotTime # ZeroTime
      <4>1. PICK f \in inForce : lastSnapshotTime + f <= now
        BY <1>2, <1>i, <3>2 DEF BeginSnapshot, PaceInv, DueSince
      <4> QED BY <1>i, <1>n, <4>1
    <3> QED BY <3>1, <3>2
  <2>5. gauges.last < now
    BY <1>i, <1>n, <2>4
  <2>6. /\ main' = "vault" /\ lock' = "main" /\ lastSnapshotTime' = now
        /\ nextSnapshot' = now + running.frequency /\ gauges' = gauges
    BY <1>2 DEF BeginSnapshot
  <2> QED BY <1>n, <2>3, <2>5, <2>6
<1>3. CASE SnapshotFails
  <2>1. /\ main = "vault" /\ main' = "select" /\ lock' = "none"
        /\ UNCHANGED <<now, lastSnapshotTime, ticker>>
        /\ gauges'.last = lastSnapshotTime /\ gauges'.next = nextSnapshot
    BY <1>3, <1>n DEF SnapshotFails, ReturnTicker, CollectFailure
  <2> QED BY <1>i, <1>n, <2>1
<1>4. CASE SnapshotEmpty
  <2>1. /\ main = "vault" /\ main' = "select" /\ lock' = "none"
        /\ UNCHANGED <<now, lastSnapshotTime, ticker, gauges>>
    BY <1>4 DEF SnapshotEmpty, ReturnTicker
  <2> QED BY <1>i, <2>1
<1>5. CASE SnapshotTaken \/ SeekFails \/ \E l \in Locations : UploadTo(l)
  <2>1. /\ main \in {"vault", "upload"} /\ main' = "upload"
        /\ UNCHANGED <<lock, lastSnapshotTime, gauges>>
    BY <1>5 DEF SnapshotTaken, SeekFails, UploadTo
  <2> QED BY <1>i, <2>1
<1>6. CASE EndUpload
  <2>1. /\ main' = "select" /\ lock' = "none" /\ UNCHANGED <<now, lastSnapshotTime>>
        /\ gauges'.last = lastSnapshotTime /\ gauges'.next = earliest
        /\ ticker' = UpdateTicker(earliest)
    BY <1>6 DEF EndUpload, ReturnTicker, CollectSuccess
  <2>2. earliest > now => ticker'.fire = earliest
    BY <1>i, <1>n, <2>1, UpdateTickerType
  <2> QED BY <1>n, <2>1, <2>2
<1>7. CASE SelectTick \/ SelectDone
  <2>1. /\ main' \in {"ready", "exited"}
        /\ UNCHANGED <<lock, lastSnapshotTime, gauges>>
    BY <1>7 DEF SelectTick, SelectDone
  <2> QED BY <1>i, <2>1
<1>8. CASE UpdateAssign
  <2>1. /\ gauges'.last = 0 /\ main \notin {"vault", "upload"}
        /\ UNCHANGED <<main, lastSnapshotTime>>
    BY <1>8, <1>i DEF UpdateAssign, NewGauges, takeVars, LockInv
  <2> QED BY <1>i, <1>n, <2>1 DEF LockInv, ZeroTime
<1>9. CASE UpdateSchedule
  <2>1. /\ gauges'.last = 0 /\ main \notin {"vault", "upload"} /\ lock' = "none"
        /\ UNCHANGED <<main, lastSnapshotTime>>
    BY <1>9, <1>i, <1>n DEF UpdateSchedule, takeVars, LockInv
  <2> QED BY <1>i, <1>n, <2>1 DEF LockInv, ZeroTime
<1>10. CASE Signal \/ Change \/ Read \/ UpdateFails \/ SendResult \/ UNCHANGED vars
  <2>1. UNCHANGED <<now, main, lock, lastSnapshotTime, nextSnapshot, ticker, gauges>>
    BY <1>10 DEF Signal, Change, Read, UpdateFails, SendResult, takeVars,
         agentVars, vars
  <2> QED BY <1>i, <2>1
<1> QED BY <1>1, <1>2, <1>3, <1>4, <1>5, <1>6, <1>7, <1>8, <1>9, <1>10
        DEF Next, Main, Watcher

-----------------------------------------------------------------------------
(* The theorems                                                            *)

LEMMA IInvInit == Init => IInv
<1> SUFFICES ASSUME Init PROVE IInv
  OBVIOUS
<1>1. ReloadInv /\ UsableOK
  BY ReloadInitInv, UsableType DEF Init
<1>2. now \in Nat \ {0} /\ Hour \in Nat \ {0} /\ now \in StartTime..MaxTime
  BY ClockAssumption DEF Init
<1>3. \A t \in 1..StartTime, f \in Usable(running, shared) : t + f \in Nat
  <2>1. Usable(running, shared) \subseteq Nat
    BY <1>1, FrequenciesType DEF UsableOK
  <2> QED BY <2>1, ClockAssumption
<1>4. PICK next \in Nat :
        /\ ticker = IF next > now THEN ResetTicker(now, next - now)
                                  ELSE ResetTicker(now, Hour)
        /\ gauges = [NewGauges EXCEPT !.next = next]
  BY <1>3 DEF Init, ZeroTime
<1>5. ticker \in Tickers
  <2>1. CASE next > now
    <3>1. next - now \in Nat \ {0}
      BY <1>2, <1>4, <2>1
    <3> QED BY <1>2, <1>4, <2>1, <3>1, ResetType
  <2>2. CASE ~(next > now)
    BY <1>2, <1>4, <2>2, ResetType
  <2> QED BY <2>1, <2>2
<1>6. /\ gauges \in [last : Nat, lastSuccess : Nat, success : BOOLEAN, next : Nat]
      /\ gauges.last = 0
  BY <1>4 DEF NewGauges
<1>7. UsableIsInForce /\ inForce \subseteq Frequencies \ {0}
  BY <1>1 DEF Init, UsableIsInForce, UsableOK
<1>8. /\ main = "ready" /\ lock = "none" /\ cancelled = FALSE
      /\ lastSnapshotTime = 0 /\ nextSnapshot = 0 /\ earliest = 0 /\ todo = {}
  BY DEF Init, ZeroTime
<1>9. TypeOK
  <2>1. /\ lastSnapshotTime \in 0..now /\ nextSnapshot \in Nat /\ earliest \in Nat
        /\ todo \subseteq Locations
    BY <1>2, <1>8
  <2>2. /\ main \in {"ready", "vault", "upload", "select", "exited"}
        /\ lock \in {"none", "main", "watcher"}
        /\ cancelled \in BOOLEAN
    BY <1>8
  <2>3. ReloadTypeOK
    BY <1>1 DEF ReloadInv
  <2> QED BY <1>2, <1>5, <1>6, <1>7, <2>1, <2>2, <2>3 DEF TypeOK, Tickers
<1>10. LockInv /\ PaceInv /\ AnnounceInv
  BY <1>6, <1>8 DEF LockInv, PaceInv, AnnounceInv, AnnouncedIsScheduled, ZeroTime
<1> QED BY <1>1, <1>7, <1>9, <1>10 DEF IInv

(***************************************************************************)
(* The inductive invariant of the agent: types, who holds the lock when,   *)
(* the pace the ticker keeps, and what the gauges say.                     *)
(***************************************************************************)
THEOREM Invariance == Spec => []IInv
<1>1. IInv /\ [Next]_vars => IInv'
  BY ReloadInvStep, TypeStep, LockStep, InForceStep, PaceStep, AnnounceStep DEF IInv
<1> QED BY IInvInit, <1>1, PTL DEF Spec

\* The state of agent and watcher has the type TypeOK says.
THEOREM TypeCorrect == Spec => []TypeOK
<1>1. IInv => TypeOK
  BY DEF IInv
<1> QED BY Invariance, <1>1, PTL

(***************************************************************************)
(* Two snapshots start no closer together than the shortest frequency that *)
(* was configured at some moment between them (TakeSnapshot, updateTicker  *)
(* and update together).                                                   *)
(***************************************************************************)
THEOREM VaultIsNotHammered == Spec => DoesNotHammer
<1>1. IInv /\ [Next]_vars =>
        [/\ lastSnapshotTime # ZeroTime
         /\ lastSnapshotTime' # lastSnapshotTime
         => \E f \in inForce : lastSnapshotTime' >= lastSnapshotTime + f]_vars
  <2> SUFFICES ASSUME IInv, [Next]_vars, lastSnapshotTime # ZeroTime,
                      lastSnapshotTime' # lastSnapshotTime
               PROVE  \E f \in inForce : lastSnapshotTime' >= lastSnapshotTime + f
    OBVIOUS
  <2>1. BeginSnapshot
    BY DEF Next, Main, Watcher, Tick, Signal, Change, SnapshotFails, SnapshotEmpty,
       SnapshotTaken, UploadTo, SeekFails, EndUpload, SelectTick, SelectDone, Read,
       UpdateAssign, UpdateFails, UpdateSchedule, SendResult, takeVars, agentVars,
       vars
  <2>2. PICK f \in inForce : lastSnapshotTime + f <= now
    BY <2>1 DEF BeginSnapshot, IInv, PaceInv, DueSince
  <2>3. lastSnapshotTime' = now
    BY <2>1 DEF BeginSnapshot
  <2>4. f \in Nat /\ lastSnapshotTime \in Nat /\ now \in Nat
    BY FrequenciesType, ClockAssumption DEF IInv, TypeOK
  <2> QED BY <2>2, <2>3, <2>4
<1> QED BY Invariance, <1>1, PTL DEF Spec, DoesNotHammer

(***************************************************************************)
(* A waiting agent never waits longer than the longest frequency that was  *)
(* configured since its last snapshot.                                     *)
(***************************************************************************)
THEOREM NotTooLate == Spec => []NeverTooLate
<1>1. IInv => NeverTooLate
  BY DEF IInv, PaceInv, DueUntil, NeverTooLate
<1> QED BY Invariance, <1>1, PTL

\* The next snapshot time the metrics publish is the one the ticker is set to.
THEOREM AnnouncementsAreTrue == Spec => []AnnouncedIsScheduled
<1>1. IInv => AnnouncedIsScheduled
  BY DEF IInv, AnnounceInv
<1> QED BY Invariance, <1>1, PTL

(***************************************************************************)
(* The lock of TakeSnapshot and update excludes one from the other.        *)
(***************************************************************************)
THEOREM SnapshotsAndReloadsExclude == Spec => ReloadExcludesSnapshot
<1>1. IInv /\ [Next]_vars =>
        [/\ main \in {"vault", "upload"} => UNCHANGED running
         /\ lock = "watcher" => UNCHANGED lastSnapshotTime]_vars
  <2> SUFFICES ASSUME IInv, Next
               PROVE  /\ main \in {"vault", "upload"} => UNCHANGED running
                      /\ lock = "watcher" => UNCHANGED lastSnapshotTime
    BY DEF vars, agentVars, reloadVars
  <2>1. CASE BeginSnapshot
    BY <2>1 DEF BeginSnapshot, reloadVars
  <2>2. CASE UpdateAssign
    BY <2>2 DEF UpdateAssign, IInv, LockInv, takeVars
  <2>3. CASE ~BeginSnapshot /\ ~UpdateAssign
    BY <2>3 DEF Next, Main, Watcher, Tick, Signal, Change, ChangeFile,
       SnapshotFails, SnapshotEmpty, SnapshotTaken, UploadTo, SeekFails, EndUpload,
       SelectTick, SelectDone, Read, ReadChange, UpdateFails, InstallFails,
       UpdateSchedule, SendResult, Send, takeVars, agentVars, reloadVars
  <2> QED BY <2>1, <2>2, <2>3
<1> QED BY Invariance, <1>1, PTL DEF Spec, ReloadExcludesSnapshot

\* The watcher's decoding reaches no storage of an agent that was never
\* reconfigured.
StartInv ==
  ~running.aliased =>
    /\ running.frequency = Unmarshal(EmptyConfig, InitialFile).frequency
    /\ running.own = Unmarshal(EmptyConfig, InitialFile).storages

(***************************************************************************)
(* Up to the first reload the agent runs on what ReadConfig gave it.       *)
(***************************************************************************)
THEOREM StartIsStable == Spec => []StartConfigIsStable
<1>1. Init => StartInv
  BY DEF Init, ReloadInit, Started, StartInv
<1>2. StartInv /\ [Next]_vars => StartInv'
  <2> SUFFICES ASSUME StartInv, [ReloadNext]_reloadVars PROVE StartInv'
    BY NextReload
  <2>1. CASE Install
    BY <2>1 DEF Install, Installed, StartInv
  <2>2. CASE UNCHANGED running
    BY <2>2 DEF StartInv
  <2> QED BY <2>1, <2>2 DEF ReloadNext, ChangeFile, ReadChange, InstallFails, Send,
             reloadVars
<1>3. StartInv => StartConfigIsStable
  BY DEF StartInv, StartConfigIsStable, RunningStorages, StoragesOf
<1> QED BY <1>1, <1>2, <1>3, PTL DEF Spec

-----------------------------------------------------------------------------
(* The abstract service                                                    *)

\* What the steps of the watcher and the ticker leave alone.
LEMMA SamePhase ==
  ASSUME UNCHANGED <<main, todo>>
  PROVE  UNCHANGED <<Phase, IF main = "upload" THEN todo ELSE {}>>
BY Zenon DEF Phase

LEMMA SameAlarm ==
  ASSUME UNCHANGED <<main, ticker>>
  PROVE  UNCHANGED Alarm
BY Zenon DEF Alarm

LEMMA PhaseOfMain ==
  /\ main \in {"ready", "select"} => Phase = "waiting"
  /\ main = "vault" => Phase = "taking"
  /\ main = "upload" => Phase = "distributing"
  /\ main = "exited" => Phase = "stopped"
BY DEF Phase

\* Setting the ticker sets the alarm, by a frequency that is in force, or
\* leaves it alone.
LEMMA TickerSetsAlarm ==
  ASSUME IInv, NEW next \in Nat, next # ZeroTime => Due(next),
         ticker' = UpdateTicker(next), main' = "select",
         main \in {"upload", "select"}, UNCHANGED <<now, lastSnapshotTime, inForce>>
  PROVE  Service!SetAlarm \/ UNCHANGED Alarm
<1>1. ticker \in Tickers /\ now \in Nat
  BY ClockAssumption DEF IInv, TypeOK, Tickers
<1>2. CASE next > now
  <2>1. ticker'.fire = next /\ ticker'.pending = FALSE
    BY <1>1, <1>2, UpdateTickerType
  <2>2. Alarm' = next
    BY <2>1 DEF Alarm
  <2>3. PICK f \in inForce : next = lastSnapshotTime + f
    BY <1>1, <1>2 DEF Due, ZeroTime
  <2> QED BY <1>2, <2>2, <2>3 DEF Service!SetAlarm
<1>3. CASE ~(next > now)
  <2>1. ticker' = ticker
    BY <1>1, <1>3, UpdateTickerType
  <2> QED BY <2>1 DEF Alarm
<1> QED BY <1>2, <1>3

LEMMA InForceType == IInv => inForce \in SUBSET (Nat \ {0})
BY FrequenciesType DEF IInv, TypeOK

LEMMA InitIsServiceInit == Init => Service!Init
<1> SUFFICES ASSUME Init PROVE Service!Init
  OBVIOUS
<1>1. IInv
  BY IInvInit
<1>2. inForce \in SUBSET (Nat \ {0})
  BY <1>1, InForceType
<1>3. Phase = "waiting" /\ Alarm = 0 /\ main # "upload"
  BY DEF Init, Phase, Alarm
<1>4. now \in Nat \ {0} /\ lastSnapshotTime = 0
  BY ClockAssumption DEF Init, ZeroTime
<1> QED BY <1>2, <1>3, <1>4 DEF Service!Init

LEMMA ServiceStep ==
  ASSUME IInv, [Next]_vars, IInv'
  PROVE  [Service!Next]_(Service!vars)
<1> DEFINE Rest == IF main = "upload" THEN todo ELSE {}
<1>i. TypeOK /\ LockInv /\ PaceInv /\ ticker \in Tickers /\ now \in Nat
  BY ClockAssumption DEF IInv, TypeOK, Tickers
<1>u. running.frequency \in Usable(running, shared) /\ running.frequency \in Nat \ {0}
  BY UsableType, FrequenciesType DEF IInv, UsableOK
<1>1. CASE Tick
  <2>1. /\ main # "exited" /\ now' = now + 1 /\ ticker' = Elapsed(now + 1)
        /\ UNCHANGED <<main, lastSnapshotTime, todo, inForce, running>>
    BY <1>1 DEF Tick, takeVars, reloadVars
  <2>2. Phase # "stopped" /\ UNCHANGED <<Phase, Rest>>
    BY <1>i, <2>1, SamePhase, PhaseOfMain DEF TypeOK
  <2>3. Alarm' = IF Alarm <= now + 1 THEN 0 ELSE Alarm
    <3>1. CASE main = "ready" \/ ticker.pending
      <4>1. main = "ready" \/ ticker'.pending
        BY <2>1, <3>1, <1>i, ElapsedType DEF Elapsed, Tickers
      <4> QED BY <1>i, <2>1, <3>1, <4>1 DEF Alarm
    <3>2. CASE ~(main = "ready" \/ ticker.pending)
      <4>1. CASE ticker.fire <= now + 1
        BY <1>i, <2>1, <3>2, <4>1, ElapsedType DEF Alarm
      <4>2. CASE ~(ticker.fire <= now + 1)
        BY <1>i, <2>1, <3>2, <4>2, ElapsedType DEF Alarm
      <4> QED BY <4>1, <4>2
    <3> QED BY <3>1, <3>2
  <2>4. Service!Pass
    BY <2>1, <2>2, <2>3 DEF Service!Pass
  <2> QED BY <2>4 DEF Service!Next
<1>2. CASE BeginSnapshot
  <2>1. now + running.frequency \in Nat /\ now + running.frequency > now
    BY <1>i, <1>u
  <2>2. ticker'.fire = now + running.frequency /\ ticker'.pending = FALSE
    BY <1>2, <1>i, <2>1, UpdateTickerType DEF BeginSnapshot
  <2>3. /\ main = "ready" /\ main' = "vault" /\ lastSnapshotTime' = now
        /\ inForce' = Usable(running, shared)
        /\ UNCHANGED <<now, running>>
    BY <1>2 DEF BeginSnapshot, reloadVars
  <2>4. Alarm = 0 /\ Alarm' = now + running.frequency
    BY <2>2, <2>3 DEF Alarm
  <2>5. inForce' \in SUBSET inForce /\ running.frequency \in inForce'
    BY <1>u, <2>3 DEF IInv, UsableIsInForce
  <2>6. Phase = "waiting" /\ Phase' = "taking"
    BY <2>3 DEF Phase
  <2>7. Service!Begin
    BY <2>3, <2>4, <2>5, <2>6 DEF Service!Begin
  <2> QED BY <2>7 DEF Service!Next
<1>3. CASE SnapshotFails \/ SnapshotEmpty
  <2>1. /\ main = "vault" /\ main' = "select"
        /\ UNCHANGED <<now, lastSnapshotTime, ticker, inForce, running>>
    BY <1>3 DEF SnapshotFails, SnapshotEmpty, ReturnTicker, reloadVars
  <2>2. UNCHANGED Alarm /\ Phase = "taking" /\ Phase' = "waiting"
    BY <2>1 DEF Alarm, Phase
  <2>3. Service!Fail
    BY <2>1, <2>2 DEF Service!Fail
  <2> QED BY <2>3 DEF Service!Next
<1>4. CASE SnapshotTaken
  <2>1. /\ main = "vault" /\ main' = "upload" /\ todo' = running.sections
        /\ UNCHANGED <<now, lastSnapshotTime, ticker, inForce, running>>
    BY <1>4 DEF SnapshotTaken, reloadVars
  <2>2. UNCHANGED Alarm /\ Phase = "taking" /\ Phase' = "distributing"
    BY <2>1 DEF Alarm, Phase
  <2>3. Service!Distribute
    BY <2>1, <2>2 DEF Service!Distribute
  <2> QED BY <2>3 DEF Service!Next
<1>5. CASE (\E l \in Locations : UploadTo(l)) \/ SeekFails
  <2>1. /\ main = "upload" /\ todo' \in {todo \ {l} : l \in todo} \cup {{}}
        /\ UNCHANGED <<now, main, lastSnapshotTime, ticker, inForce, running>>
    BY <1>5 DEF UploadTo, SeekFails, reloadVars
  <2>2. UNCHANGED Alarm /\ Phase = "distributing" /\ UNCHANGED Phase
    BY <2>1 DEF Alarm, Phase
  <2>3. Service!Offer
    BY <2>1, <2>2 DEF Service!Offer
  <2> QED BY <2>3 DEF Service!Next
<1>6. CASE EndUpload
  <2>1. /\ main = "upload" /\ todo = {} /\ main' = "select"
        /\ ticker' = UpdateTicker(earliest)
        /\ UNCHANGED <<now, lastSnapshotTime, inForce, running>>
    BY <1>6 DEF EndUpload, ReturnTicker, reloadVars
  <2>2. earliest \in Nat /\ (earliest # ZeroTime => Due(earliest))
    BY <1>i, <2>1 DEF TypeOK, PaceInv
  <2>3. Service!SetAlarm \/ UNCHANGED Alarm
    BY <2>1, <2>2, TickerSetsAlarm
  <2>4. Phase = "distributing" /\ Phase' = "waiting"
    BY <2>1 DEF Phase
  <2>5. Service!End
    BY <2>1, <2>3, <2>4 DEF Service!End
  <2> QED BY <2>5 DEF Service!Next
<1>7. CASE SelectTick
  <2>1. /\ main = "select" /\ main' = "ready" /\ ticker.pending
        /\ UNCHANGED <<now, lastSnapshotTime, inForce, running>>
    BY <1>7 DEF SelectTick, reloadVars
  <2>2. UNCHANGED <<Alarm, Phase, Rest>>
    BY <2>1 DEF Alarm, Phase
  <2> QED BY <2>1, <2>2 DEF Service!vars
<1>8. CASE SelectDone
  <2>1. /\ main = "select" /\ main' = "exited"
        /\ UNCHANGED <<now, lastSnapshotTime, ticker, inForce, running>>
    BY <1>8 DEF SelectDone, reloadVars
  <2>2. UNCHANGED Alarm /\ Phase = "waiting" /\ Phase' = "stopped"
    BY <2>1 DEF Alarm, Phase
  <2>3. Service!Stop
    BY <2>1, <2>2 DEF Service!Stop
  <2> QED BY <2>3 DEF Service!Next
<1>9. CASE Read \/ UpdateAssign
  <2>1. /\ main # "exited" /\ inForce \subseteq inForce'
        /\ main \in {"vault", "upload"} => UNCHANGED running
        /\ UNCHANGED <<now, main, lastSnapshotTime, todo, ticker>>
    BY <1>9, <1>i DEF Read, ReadChange, UpdateAssign, LockInv, takeVars
  <2>2. inForce' \in SUBSET (Nat \ {0})
    BY FrequenciesType DEF IInv, TypeOK
  <2>3. UNCHANGED <<Alarm, Phase, Rest>> /\ Phase # "stopped"
    BY <1>i, <2>1, SameAlarm, SamePhase, PhaseOfMain DEF TypeOK
  <2>4. Phase # "waiting" => UNCHANGED running
    BY <1>i, <2>1, PhaseOfMain DEF TypeOK
  <2>5. Service!Reload
    BY <2>1, <2>2, <2>3, <2>4 DEF Service!Reload
  <2> QED BY <2>5 DEF Service!Next
<1>10. CASE UpdateSchedule
  <2>1. PICK next \in Schedules : ticker' = UpdateTicker(next)
    BY <1>10 DEF UpdateSchedule
  <2>2. /\ lock = "watcher" /\ main # "exited"
        /\ UNCHANGED <<now, main, lastSnapshotTime, todo, inForce, running>>
    BY <1>10 DEF UpdateSchedule, takeVars, reloadVars
  <2>3. UNCHANGED <<Phase, Rest>>
    BY <2>2, SamePhase
  <2>4. CASE main = "ready"
    <3>1. UNCHANGED Alarm
      BY <2>2, <2>4 DEF Alarm
    <3> QED BY <2>2, <2>3, <3>1 DEF Service!vars
  <2>5. CASE main = "select"
    <3>1. lastSnapshotTime # ZeroTime
      BY <1>i, <2>5 DEF LockInv
    <3>2. next \in Nat /\ (next # ZeroTime => Due(next))
      BY <3>1, SchedulesType DEF SchedulesOK
    <3>3. Service!SetAlarm \/ UNCHANGED Alarm
      BY <2>1, <2>2, <2>5, <3>2, TickerSetsAlarm
    <3>4. CASE Service!SetAlarm
      <4>1. Service!Reschedule
        BY <2>2, <2>3, <2>5, <3>1, <3>4, PhaseOfMain DEF Service!Reschedule, ZeroTime
      <4> QED BY <4>1 DEF Service!Next
    <3>5. CASE UNCHANGED Alarm
      BY <2>2, <2>3, <3>5 DEF Service!vars
    <3> QED BY <3>3, <3>4, <3>5
  <2> QED BY <1>i, <2>2, <2>4, <2>5 DEF LockInv, TypeOK
<1>11. CASE Signal \/ Change \/ UpdateFails \/ SendResult \/ UNCHANGED vars
  <2>1. UNCHANGED <<now, main, lastSnapshotTime, todo, ticker, inForce, running>>
    BY <1>11 DEF Signal, Change, ChangeFile, UpdateFails, InstallFails, SendResult,
         Send, takeVars, agentVars, reloadVars, vars
  <2>2. UNCHANGED <<Alarm, Phase, Rest>>
    BY <2>1, SameAlarm, SamePhase
  <2> QED BY <2>1, <2>2 DEF Service!vars
<1> QED BY <1>1, <1>2, <1>3, <1>4, <1>5, <1>6, <1>7, <1>8, <1>9, <1>10, <1>11
        DEF Next, Main, Watcher

(***************************************************************************)
(* The agent implements the alarm clock of SnapshotService, for any file,  *)
(* any number of changes and any clock: BeginSnapshot is its Begin, a      *)
(* received tick its alarm, update its Reload and its Reschedule, and each *)
(* snapshot is offered to all storages of one configuration.               *)
(***************************************************************************)
THEOREM ServiceImplemented == Spec => ImplementsService
<1>1. IInv /\ [Next]_vars => IInv'
  BY ReloadInvStep, TypeStep, LockStep, InForceStep, PaceStep, AnnounceStep DEF IInv
<1>2. IInv /\ [Next]_vars => [Service!Next]_(Service!vars)
  BY <1>1, ServiceStep
<1> QED BY InitIsServiceInit, <1>2, Invariance, PTL
        DEF Spec, ImplementsService, Service!Spec

=============================================================================
