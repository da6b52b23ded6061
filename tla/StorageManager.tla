--------------------------- MODULE StorageManager ---------------------------
(***************************************************************************)
(* internal/agent/storage/manager.go with the controllers it creates: the  *)
(* loops of ScheduleSnapshot and UploadSnapshot over the configured        *)
(* locations, one action per iteration and outcome, over the objects each  *)
(* location holds.  The process may die between any two steps.             *)
(*                                                                         *)
(* Simplifications                                                         *)
(*   - An upload together with the deletions that follow it is one step:   *)
(*     nobody else writes to a location, and a crash between them leaves   *)
(*     what the step leaves when the deletions fail.                       *)
(*   - An upload, successful or not, takes one unit of time, so no two     *)
(*     objects of a location have one modification time.                   *)
(*   - Objects with other prefixes or suffixes are not represented.        *)
(***************************************************************************)
EXTENDS StorageOps, Sequences

CONSTANTS
  Factories,   \* the locations in the order CreateManager appends them
  Local,       \* those on a local disk; the others are remote services
  Config,      \* [location -> [frequency, retain, resolution]]
  Defaults,    \* StorageConfigDefaults: [frequency, retain]
  StartTime,   \* the clock when the first process starts
  MaxTime      \* bound of the clock

Locations == {Factories[i] : i \in DOMAIN Factories}

Frequency(l) == FrequencyOrDefault(Config[l], Defaults)
Retain(l) == RetainOrDefault(Config[l], Defaults)

ASSUME FactoriesAssumption ==
  /\ Factories \in Seq(Locations)
  /\ \A i, j \in DOMAIN Factories : Factories[i] = Factories[j] => i = j
  /\ Local \subseteq Locations

ASSUME ConfigAssumption ==
  /\ Config \in [Locations -> [frequency : Nat, retain : Nat \cup {Unset},
                               resolution : Nat \ {0}]]
  /\ Defaults \in [frequency : Nat \ {0}, retain : Nat]

\* The zero time plus any frequency lies before every real timestamp.
ASSUME TimeAssumption ==
  /\ StartTime \in Nat \ {0}
  /\ MaxTime \in Nat
  /\ StartTime <= MaxTime
  /\ \A l \in Locations : Frequency(l) <= StartTime

VARIABLES
  now,               \* the wall clock
  objects,           \* objects of each location
  op,                \* the call in progress: "idle", "schedule" or "upload"
  index,             \* position of the loop over the factories
  ts,                \* the time passed to the call
  next,              \* nextSnapshot: of the call, then the value it returned
  lastSnapshotTime,  \* the agent's memory of its last snapshot
  answered,          \* history: locations that gave a time in this call
  confirmed          \* history: snapshots whose upload each location confirmed

vars == <<now, objects, op, index, ts, next, lastSnapshotTime, answered, confirmed>>

Times == 0..MaxTime
Objects == [slot : Times, ts : Times, mtime : Times, whole : BOOLEAN]

Init ==
  /\ now = StartTime
  /\ objects = [l \in Locations |-> {}]
  /\ op = "idle"
  /\ index = 1
  /\ ts = ZeroTime
  /\ next = ZeroTime
  /\ lastSnapshotTime = ZeroTime
  /\ answered = {}
  /\ confirmed = [l \in Locations |-> {}]

-----------------------------------------------------------------------------
(* Nothing is called for a while.                                          *)
Wait ==
  /\ op = "idle"
  /\ now < MaxTime
  /\ now' = now + 1
  /\ UNCHANGED <<objects, op, index, ts, next, lastSnapshotTime, answered, confirmed>>

(* A call enters one of the two loops with its argument.                   *)
Enter(call, time) ==
  /\ op = "idle"
  /\ op' = call
  /\ ts' = time
  /\ index' = 1
  /\ next' = ZeroTime
  /\ answered' = {}
  /\ UNCHANGED <<now, objects, confirmed>>

\* TakeSnapshot passes the time at which it started.  (The guard on MaxTime
\* leaves the clock room for one upload to each location.)
BeginUpload ==
  /\ now + Len(Factories) <= MaxTime
  /\ Enter("upload", now)
  /\ lastSnapshotTime' = now

\* update passes the time of the last snapshot, zero in a new process.
BeginSchedule ==
  /\ Enter("schedule", lastSnapshotTime)
  /\ UNCHANGED lastSnapshotTime

\* What if: the test for the zero time is missing.
EarlierThanZero(candidate) == IF candidate < next THEN candidate ELSE next

(* nextSnapshot.IsZero() || candidate.Before(nextSnapshot)                 *)
Earlier(candidate) ==
  IF next = ZeroTime \/ candidate < next THEN candidate ELSE next

Looping == op # "idle" /\ index <= Len(Factories)

\* What if: passing over a location ignores the end of the loop.
CreateFailsPastEnd ==
  /\ op # "idle"
  /\ index' = index + 1
  /\ UNCHANGED <<now, objects, op, ts, next, lastSnapshotTime, answered, confirmed>>

\* factory.CreateController fails in either loop: the location is passed over.
CreateFails ==
  /\ Looping
  /\ index' = index + 1
  /\ UNCHANGED <<now, objects, op, ts, next, lastSnapshotTime, answered, confirmed>>

ScheduleLocation ==
  /\ op = "schedule" /\ Looping
  /\ LET l == Factories[index]
         controller == NewController
     IN  \/ \E t \in ScheduleTimes(controller, objects[l], ts, Frequency(l)) :
              /\ next' = Earlier(t)
              /\ answered' = answered \cup {l}
         \/ /\ ScheduleMayFail(controller, ts)
            /\ UNCHANGED <<next, answered>>
  /\ index' = index + 1
  /\ UNCHANGED <<now, objects, op, ts, lastSnapshotTime, confirmed>>

UploadLocation ==
  /\ op = "upload" /\ Looping
  /\ now < MaxTime
  /\ now' = now + 1
  /\ LET l == Factories[index]
     IN  \E outcome \in UploadOutcomes(NewController, Config[l], Frequency(l),
                                       l \in Local, objects[l], ts, now') :
           /\ next' = Earlier(outcome.next)
           /\ answered' = answered \cup {l}
           /\ \E left \in IF outcome.uploaded
                          THEN DeleteOutcomes(outcome.objects, Retain(l))
                          ELSE {outcome.objects} :
                objects' = [objects EXCEPT ![l] = left]
           /\ confirmed' = IF outcome.uploaded
                           THEN [confirmed EXCEPT ![l] = @ \cup {ts}]
                           ELSE confirmed
  /\ index' = index + 1
  /\ UNCHANGED <<op, ts, lastSnapshotTime>>

\* snapshot.Seek fails: the call gives up on the remaining locations and has
\* the default frequency decide.
SeekFails ==
  /\ op = "upload" /\ Looping
  /\ next' = ts + Defaults.frequency
  /\ op' = "idle"
  /\ answered' = {}
  /\ UNCHANGED <<now, objects, index, ts, lastSnapshotTime, confirmed>>

Return ==
  /\ op # "idle"
  /\ index > Len(Factories)
  /\ op' = "idle"
  /\ UNCHANGED <<now, objects, index, ts, next, lastSnapshotTime, answered, confirmed>>

\* The process dies and another one starts with nothing but the storages.
Crash ==
  /\ op' = "idle"
  /\ index' = 1
  /\ ts' = ZeroTime
  /\ next' = ZeroTime
  /\ lastSnapshotTime' = ZeroTime
  /\ answered' = {}
  /\ UNCHANGED <<now, objects, confirmed>>

Proceed ==
  \/ Wait
  \/ BeginUpload
  \/ BeginSchedule
  \/ ScheduleLocation
  \/ UploadLocation
  \/ Return

Disturbance ==
  \/ CreateFails
  \/ SeekFails
  \/ Crash

Next == Proceed \/ Disturbance

Spec == Init /\ [][Next]_vars

(***************************************************************************)
(* Less than that may happen: every location can be reached, a snapshot is *)
(* taken when the last call said, and the process is never restarted.      *)
(***************************************************************************)
OnTime == BeginUpload => now >= next

OneProcess == Init /\ [][Proceed /\ OnTime]_vars

-----------------------------------------------------------------------------
(* Properties                                                              *)

TypeOK ==
  /\ now \in Times
  /\ objects \in [Locations -> SUBSET Objects]
  /\ op \in {"idle", "schedule", "upload"}
  /\ index \in 1..(Len(Factories) + 1)
  /\ ts \in Times
  /\ next \in Nat
  /\ lastSnapshotTime \in Times
  /\ answered \in SUBSET Locations
  /\ confirmed \in [Locations -> SUBSET Times]

(***************************************************************************)
(* The time both loops hand back, at every point of the loop: the earliest *)
(* of the times given by the locations that answered so far.  A location   *)
(* that cannot be reached neither delays nor clears the schedule of the    *)
(* others, and a restarted process, which asks the storages, never         *)
(* schedules later than the newest object it could have found allows.      *)
(* It may schedule earlier: the object it finds need not be the newest.    *)
(***************************************************************************)
MayBeDue(l) ==
  IF ts # ZeroTime THEN {ts + Frequency(l)}
                   ELSE {o.mtime + Frequency(l) : o \in objects[l]}

NextIsEarliest ==
  answered # {} =>
    /\ \A l \in answered : \E t \in MayBeDue(l) : next <= t
    /\ \E l \in answered : next \in MayBeDue(l)

(***************************************************************************)
(* Whatever fails, a location still holds a complete snapshot at least as  *)
(* recent as each one whose upload it confirmed: a failed upload never     *)
(* destroys it and the clean-up never removes the newest.  It needs names  *)
(* that do not collide where a failed write truncates the file it opened.  *)
(***************************************************************************)
SafeLocations == {l \in Locations : l \in Local => Config[l].resolution = 1}

LastGoodSurvives ==
  \A l \in SafeLocations : \A t \in confirmed[l] :
    \E o \in objects[l] : o.whole /\ o.ts >= t

(***************************************************************************)
(* DeleteObsoleteSnapshots removes an object only where retain is set and  *)
(* leaves at least that many newer ones; any other disappearance is an     *)
(* upload under the same name.                                             *)
(***************************************************************************)
ReplacedByName(l, o) == \E p \in objects'[l] \ objects[l] : p.slot = o.slot

DeletesOnlyObsolete ==
  [][\A l \in Locations : \A o \in objects[l] \ objects'[l] :
       \/ ReplacedByName(l, o)
       \/ /\ Retain(l) >= 1
          /\ Cardinality({p \in objects'[l] : p.mtime > o.mtime}) >= Retain(l)]_vars

(***************************************************************************)
(* The storages keep the promise of SnapshotStore: the timestamps that can *)
(* be restored from a location change only by the arrival of a newer one.  *)
(***************************************************************************)
Restorable(l) == {o.ts : o \in {p \in objects[l] : p.whole}}

Store == INSTANCE SnapshotStore WITH
           Locations <- SafeLocations,
           restorable <- [l \in SafeLocations |-> Restorable(l)],
           current <- IF op = "upload" THEN ts ELSE 0

ImplementsStore == Store!Spec

(***************************************************************************)
(* The documented frequency of a location: two snapshots it stores are at  *)
(* least its frequency apart (README.md:528-529, manager.go:99-100), if    *)
(* one process stores them both.                                           *)
(***************************************************************************)
UploadsRespectFrequency ==
  \A l \in Locations : \A t, u \in confirmed[l] : t < u => t + Frequency(l) <= u

=============================================================================
