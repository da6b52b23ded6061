------------------------ MODULE StorageManagerProofs ------------------------
(***************************************************************************)
(* Proofs about StorageManager for every configuration, any number of      *)
(* locations and any bound of the clock.                                   *)
(***************************************************************************)
EXTENDS StorageManager, FiniteSetTheorems, TLAPS

-----------------------------------------------------------------------------
(* What a controller's operations leave behind                             *)

(***************************************************************************)
(* DeleteObsoleteSnapshots keeps the newest object of the listing whatever *)
(* retain is and whichever deletions fail.                                 *)
(***************************************************************************)
LEMMA NewestIsKept ==
  ASSUME NEW objs, NEW n \in objs, NEW retain \in Int,
         \A o \in objs : o.mtime \in Int,
         \A o \in objs : o # n => o.mtime < n.mtime,
         NEW left \in DeleteOutcomes(objs, retain)
  PROVE  left \subseteq objs /\ n \in left
<1>1. CASE retain < 1 \/ Cardinality(objs) <= retain
  BY <1>1 DEF DeleteOutcomes
<1>2. CASE ~(retain < 1 \/ Cardinality(objs) <= retain)
  <2>1. left \subseteq objs
    BY <1>2 DEF DeleteOutcomes
  <2>2. PICK kept \in SUBSET left : IsNewest(kept, objs, retain)
    BY <1>2 DEF DeleteOutcomes
  <2>3. kept # {}
    BY <1>2, <2>2, FS_EmptySet DEF IsNewest
  <2>4. PICK k \in kept : TRUE
    BY <2>3
  <2>5. n \in kept
    BY <2>2, <2>4 DEF IsNewest
  <2> QED BY <2>1, <2>5
<1> QED BY <1>1, <1>2

(***************************************************************************)
(* What one location may hold after UploadSnapshot and the clean-up.       *)
(***************************************************************************)
Left(outcome, l) ==
  IF outcome.uploaded THEN DeleteOutcomes(outcome.objects, Retain(l))
                      ELSE {outcome.objects}

Uploads(l, objs, time, mtime) ==
  UploadOutcomes(NewController, Config[l], Frequency(l), l \in Local, objs, time,
                 mtime)

LEMMA ConfigType ==
  ASSUME NEW l \in Locations
  PROVE  /\ Config[l].resolution \in Nat \ {0}
         /\ Frequency(l) \in Nat
         /\ Retain(l) \in Int
BY ConfigAssumption
   DEF Frequency, FrequencyOrDefault, Retain, RetainOrDefault, Unset

LEMMA SlotType ==
  ASSUME NEW l \in Locations, NEW t \in Nat
  PROVE  /\ SlotOf(Config[l], t) \in 0..t
         /\ Config[l].resolution = 1 => SlotOf(Config[l], t) = t
<1>1. Config[l].resolution \in Nat \ {0}
  BY ConfigType
<1>2. ASSUME NEW r \in Nat \ {0} PROVE t \div r \in 0..t /\ t \div 1 = t
  OBVIOUS
<1> QED BY <1>1, <1>2 DEF SlotOf

Effect(l, objs, time, mtime, outcome, left) ==
  /\ outcome.next \in Nat
  /\ outcome.uploaded =>
       /\ left \subseteq Put(objs, NewObject(Config[l], time, mtime, TRUE))
       /\ NewObject(Config[l], time, mtime, TRUE) \in left
  /\ ~outcome.uploaded =>
       \/ left = objs
       \/ left = Put(objs, NewObject(Config[l], time, mtime, l \notin Local))

LEMMA UploadEffect ==
  ASSUME NEW l \in Locations, NEW time \in Nat, NEW mtime \in Nat, NEW objs,
         \A o \in objs : o.mtime \in Int /\ o.mtime < mtime,
         NEW outcome \in Uploads(l, objs, time, mtime),
         NEW left \in Left(outcome, l)
  PROVE  Effect(l, objs, time, mtime, outcome, left)
<1> DEFINE new == NewObject(Config[l], time, mtime, TRUE)
           f == Frequency(l)
<1>1. f \in Nat /\ Retain(l) \in Int
  BY ConfigType
<1>2. \/ outcome \in [uploaded : {FALSE}, next : {ZeroTime + f}, objects : {objs}]
      \/ outcome \in [uploaded : {TRUE}, next : {time + f},
                      objects : {Put(objs, new)}]
      \/ outcome \in [uploaded : {FALSE}, next : {time + f},
                      objects : FailedUploads(Config[l], l \in Local, objs, time,
                                              mtime)]
  BY DEF Uploads, UploadOutcomes, NewController
<1>3. outcome.next \in Nat
  <2>1. outcome.next = ZeroTime + f \/ outcome.next = time + f
    BY <1>2
  <2> HIDE DEF f
  <2> QED BY <1>1, <2>1 DEF ZeroTime
<1>4. ASSUME ~outcome.uploaded
      PROVE  \/ left = objs
             \/ left = Put(objs, NewObject(Config[l], time, mtime, l \notin Local))
  <2>1. left = outcome.objects
    BY <1>4 DEF Left
  <2> QED BY <1>2, <1>4, <2>1 DEF FailedUploads
<1>5. ASSUME outcome.uploaded
      PROVE  left \subseteq Put(objs, new) /\ new \in left
  <2>1. outcome.objects = Put(objs, new)
    BY <1>2, <1>5
  <2>2. left \in DeleteOutcomes(Put(objs, new), Retain(l))
    BY <1>5, <2>1 DEF Left
  <2>3. new.mtime = mtime
    BY DEF NewObject
  <2> HIDE DEF new
  <2>4. /\ new \in Put(objs, new)
        /\ \A o \in Put(objs, new) : o.mtime \in Int
        /\ \A o \in Put(objs, new) : o # new => o.mtime < new.mtime
    BY <2>3 DEF Put
  <2> QED BY <1>1, <2>2, <2>4, NewestIsKept
<1> QED BY <1>3, <1>4, <1>5 DEF Effect

-----------------------------------------------------------------------------
(* Types                                                                   *)

(***************************************************************************)
(* The state has the type TypeOK says, for every configuration: no upload, *)
(* deletion or schedule leaves the bounds of the clock.                    *)
(***************************************************************************)
LEMMA FactoryTypes ==
  /\ Len(Factories) \in Nat
  /\ DOMAIN Factories = 1..Len(Factories)
  /\ \A i \in 1..Len(Factories) : Factories[i] \in Locations
BY FactoriesAssumption DEF Locations

LEMMA NewObjectType ==
  ASSUME NEW l \in Locations, NEW time \in Times, NEW mtime \in Times,
         NEW whole \in BOOLEAN
  PROVE  NewObject(Config[l], time, mtime, whole) \in Objects
<1>1. MaxTime \in Nat
  BY TimeAssumption
<1>2. time \in Nat /\ SlotOf(Config[l], time) \in 0..time
  BY <1>1, SlotType DEF Times
<1>3. SlotOf(Config[l], time) \in Times
  BY <1>1, <1>2 DEF Times
<1> QED BY <1>3 DEF NewObject, Objects

LEMMA ScheduleTimesType ==
  ASSUME NEW l \in Locations, NEW objs \in SUBSET Objects, NEW time \in Times,
         NEW t \in ScheduleTimes(NewController, objs, time, Frequency(l))
  PROVE  t \in Nat
<1>1. MaxTime \in Nat /\ Frequency(l) \in Nat
  BY TimeAssumption, ConfigType
<1>2. LastUploadTimes(NewController, objs, time) \subseteq Nat
  BY <1>1 DEF LastUploadTimes, NewController, Objects, Times, ZeroTime
<1> QED BY <1>1, <1>2 DEF ScheduleTimes

\* The body of UploadLocation for the location l, its outcome and what is left.
UploadStep(l, outcome, left) ==
  /\ l = Factories[index]
  /\ l \in Locations
  /\ outcome \in Uploads(l, objects[l], ts, now')
  /\ left \in Left(outcome, l)
  /\ next' = Earlier(outcome.next)
  /\ answered' = answered \cup {l}
  /\ objects' = [objects EXCEPT ![l] = left]
  /\ confirmed' = IF outcome.uploaded
                  THEN [confirmed EXCEPT ![l] = @ \cup {ts}]
                  ELSE confirmed

LEMMA UploadLocationStep ==
  ASSUME TypeOK, UploadLocation
  PROVE  \E l, outcome, left : UploadStep(l, outcome, left)
<1> DEFINE l == Factories[index]
<1>1. l \in Locations
  BY FactoryTypes DEF TypeOK, UploadLocation, Looping
<1>2. PICK outcome \in Uploads(l, objects[l], ts, now') :
        /\ next' = Earlier(outcome.next)
        /\ answered' = answered \cup {l}
        /\ \E left \in Left(outcome, l) : objects' = [objects EXCEPT ![l] = left]
        /\ confirmed' = IF outcome.uploaded
                        THEN [confirmed EXCEPT ![l] = @ \cup {ts}]
                        ELSE confirmed
  BY DEF UploadLocation, Uploads, Left
<1>3. PICK left \in Left(outcome, l) : objects' = [objects EXCEPT ![l] = left]
  BY <1>2
<1>4. UploadStep(l, outcome, left)
  BY <1>1, <1>2, <1>3 DEF UploadStep
<1> QED BY <1>4

(***************************************************************************)
(* Objects are written before now, from snapshots older than themselves.   *)
(***************************************************************************)
ObjectsAreInThePast ==
  /\ now \in Nat \ {0}
  /\ ts <= now
  /\ lastSnapshotTime <= now
  /\ \A l \in Locations : \A o \in objects[l] : o.ts < o.mtime /\ o.mtime <= now

(***************************************************************************)
(* The loop has not reached the locations from index on: in an upload they *)
(* hold nothing from this snapshot or a later one.                         *)
(***************************************************************************)
PendingAreOlder ==
  op = "upload" =>
    /\ ts > 0
    /\ \A i \in index..Len(Factories) : \A o \in objects[Factories[i]] : o.ts < ts

LEMMA UploadObjects ==
  ASSUME TypeOK, ObjectsAreInThePast, UploadLocation,
         NEW l, NEW outcome, NEW left, UploadStep(l, outcome, left)
  PROVE  Effect(l, objects[l], ts, now', outcome, left)
<1>1. l \in Locations /\ ts \in Nat /\ now \in Nat /\ now' = now + 1
  BY TimeAssumption DEF UploadStep, TypeOK, Times, UploadLocation
<1>2. \A o \in objects[l] : o.mtime \in Int /\ o.mtime < now'
  BY <1>1, TimeAssumption DEF ObjectsAreInThePast, TypeOK, Objects, Times
<1>3. outcome \in Uploads(l, objects[l], ts, now') /\ left \in Left(outcome, l)
  BY DEF UploadStep
<1>4. now' \in Nat
  BY <1>1
<1> QED BY <1>1, <1>2, <1>3, <1>4, UploadEffect

-----------------------------------------------------------------------------
(* The inductive invariant                                                 *)

\* Where the format resolves every timestamp, a name tells its snapshot.
SlotsTellSnapshots ==
  \A l \in Locations : Config[l].resolution = 1 =>
    \A o \in objects[l] : o.slot = o.ts

IInv ==
  /\ TypeOK
  /\ ObjectsAreInThePast
  /\ PendingAreOlder
  /\ SlotsTellSnapshots
  /\ LastGoodSurvives

LEMMA IInvInit == Init => IInv
<1> SUFFICES ASSUME Init PROVE IInv
  OBVIOUS
<1>1. TypeOK
  BY FactoryTypes, TimeAssumption DEF Init, TypeOK, Times, Objects, ZeroTime
<1>2. ObjectsAreInThePast
  BY TimeAssumption DEF Init, ObjectsAreInThePast, ZeroTime
<1>3. PendingAreOlder /\ SlotsTellSnapshots /\ LastGoodSurvives
  BY DEF Init, PendingAreOlder, SlotsTellSnapshots, LastGoodSurvives, SafeLocations
<1> QED BY <1>1, <1>2, <1>3 DEF IInv

(***************************************************************************)
(* Steps that touch no storage.                                            *)
(***************************************************************************)
Quiet ==
  \/ Wait
  \/ BeginUpload
  \/ BeginSchedule
  \/ CreateFails
  \/ ScheduleLocation
  \/ SeekFails
  \/ Return
  \/ Crash
  \/ UNCHANGED vars

LEMMA QuietStep ==
  ASSUME IInv, Quiet
  PROVE  IInv'
<1> USE DEF IInv
<1>1. MaxTime \in Nat /\ StartTime \in Nat
  BY TimeAssumption
<1>2. UNCHANGED <<objects, confirmed>>
  BY DEF Quiet, Wait, BeginUpload, BeginSchedule, Enter, CreateFails,
         ScheduleLocation, SeekFails, Return, Crash, vars
<1>3. now' \in Times /\ now' >= now /\ now \in Nat
  BY <1>1 DEF Quiet, Wait, BeginUpload, BeginSchedule, Enter, CreateFails,
         ScheduleLocation, SeekFails, Return, Crash, vars, TypeOK, Times
<1>4. /\ ts' \in Times /\ ts' <= now'
      /\ lastSnapshotTime' \in Times /\ lastSnapshotTime' <= now'
  BY <1>1 DEF Quiet, Wait, BeginUpload, BeginSchedule, Enter, CreateFails,
         ScheduleLocation, SeekFails, Return, Crash, vars, TypeOK, Times,
         ObjectsAreInThePast, ZeroTime
<1>5. /\ op' \in {"idle", "schedule", "upload"}
      /\ index' \in 1..(Len(Factories) + 1)
  BY FactoryTypes
     DEF Quiet, Wait, BeginUpload, BeginSchedule, Enter, CreateFails, Looping,
         ScheduleLocation, SeekFails, Return, Crash, vars, TypeOK
<1>6. next' \in Nat /\ answered' \in SUBSET Locations
  <2>1. CASE ScheduleLocation
    <3> DEFINE l == Factories[index]
    <3>1. l \in Locations /\ objects[l] \in SUBSET Objects
      BY <2>1, FactoryTypes DEF ScheduleLocation, Looping, TypeOK
    <3>2. \/ \E t \in ScheduleTimes(NewController, objects[l], ts, Frequency(l)) :
               next' = Earlier(t) /\ answered' = answered \cup {l}
          \/ UNCHANGED <<next, answered>>
      BY <2>1 DEF ScheduleLocation
    <3> QED BY <3>1, <3>2, ScheduleTimesType DEF TypeOK, Earlier
  <2>2. CASE Quiet /\ ~ScheduleLocation
    <3>1. ts \in Nat /\ Defaults.frequency \in Nat
      BY <1>1, ConfigAssumption DEF TypeOK, Times
    <3> QED
      BY <2>2, <3>1
         DEF Quiet, Wait, BeginUpload, BeginSchedule, Enter, CreateFails,
             SeekFails, Return, Crash, vars, TypeOK, ZeroTime
  <2> QED BY <2>1, <2>2
<1>7. TypeOK'
  BY <1>2, <1>3, <1>4, <1>5, <1>6 DEF TypeOK
<1>8. ObjectsAreInThePast'
  BY <1>1, <1>2, <1>3, <1>4 DEF ObjectsAreInThePast, TypeOK, Objects, Times
<1>9. PendingAreOlder'
  <2>1. CASE BeginUpload
    <3>1. ts' = now /\ index' = 1
      BY <2>1 DEF BeginUpload, Enter
    <3>2. \A i \in 1..Len(Factories) : \A o \in objects[Factories[i]] : o.ts < now
      BY <1>1, FactoryTypes DEF ObjectsAreInThePast, TypeOK, Objects, Times
    <3>3. now > 0
      BY DEF ObjectsAreInThePast
    <3> QED BY <1>2, <3>1, <3>2, <3>3 DEF PendingAreOlder
  <2>2. CASE op' = "upload" /\ ~BeginUpload
    <3>1. op = "upload" /\ ts' = ts /\ index' >= index
      BY <2>2, FactoryTypes
         DEF Quiet, Wait, BeginSchedule, Enter, CreateFails, ScheduleLocation,
             SeekFails, Return, Crash, vars, TypeOK
    <3>2. \A i : i \in index'..Len(Factories) => i \in index..Len(Factories)
      BY <1>5, <3>1, FactoryTypes DEF TypeOK
    <3> QED BY <1>2, <3>1, <3>2 DEF PendingAreOlder
  <2>3. CASE op' # "upload"
    BY <2>3 DEF PendingAreOlder
  <2> QED BY <2>1, <2>2, <2>3
<1>10. SlotsTellSnapshots' /\ LastGoodSurvives'
  BY <1>2 DEF SlotsTellSnapshots, LastGoodSurvives, SafeLocations
<1> QED BY <1>7, <1>8, <1>9, <1>10

(***************************************************************************)
(* The step of UploadLocation: what it leaves in its location are objects  *)
(* that were there and the new one; the new one is there when the upload   *)
(* is confirmed, and nothing but the object it replaces is gone when not.  *)
(***************************************************************************)
New(l, whole) == NewObject(Config[l], ts, now + 1, whole)

LEMMA UploadLeaves ==
  ASSUME IInv, UploadLocation,
         NEW l, NEW outcome, NEW left, UploadStep(l, outcome, left)
  PROVE  /\ outcome.next \in Nat
         /\ left \subseteq objects[l] \cup {New(l, TRUE), New(l, FALSE)}
         /\ outcome.uploaded => New(l, TRUE) \in left /\ New(l, FALSE) \notin left
         /\ l \notin Local => New(l, FALSE) \notin left
         /\ ~outcome.uploaded /\ left # objects[l] =>
              left = Put(objects[l], New(l, l \notin Local))
<1>1. Effect(l, objects[l], ts, now', outcome, left)
  BY UploadObjects DEF IInv
<1>2. now' = now + 1
  BY DEF UploadLocation
<1>3. New(l, FALSE) # New(l, TRUE)
  BY DEF New, NewObject
<1>4. New(l, FALSE) \notin objects[l]
  <2>1. l \in Locations /\ now \in Nat
    BY DEF UploadStep, IInv, ObjectsAreInThePast
  <2>2. \A o \in objects[l] : o.mtime <= now /\ o.mtime \in Int
    BY <2>1, TimeAssumption DEF IInv, ObjectsAreInThePast, TypeOK, Objects, Times
  <2>3. New(l, FALSE).mtime = now + 1
    BY DEF New, NewObject
  <2>4. \A o \in objects[l] : o.mtime # now + 1
    BY <2>1, <2>2
  <2> QED BY <2>3, <2>4
<1>5. /\ outcome.next \in Nat
      /\ outcome.uploaded =>
           /\ left \subseteq Put(objects[l], New(l, TRUE))
           /\ New(l, TRUE) \in left
      /\ ~outcome.uploaded =>
           \/ left = objects[l]
           \/ left = Put(objects[l], New(l, l \notin Local))
  BY <1>1, <1>2 DEF Effect, New
<1>6. CASE outcome.uploaded
  <2>1. left \subseteq objects[l] \cup {New(l, TRUE)}
    BY <1>5, <1>6 DEF Put
  <2> QED BY <1>3, <1>4, <1>5, <1>6, <2>1
<1>7. CASE ~outcome.uploaded
  <2>1. CASE l \in Local
    <3>1. left \subseteq objects[l] \cup {New(l, FALSE)}
      BY <1>5, <1>7, <2>1 DEF Put
    <3> QED BY <1>5, <1>7, <2>1, <3>1
  <2>2. CASE l \notin Local
    <3>1. left \subseteq objects[l] \cup {New(l, TRUE)}
      BY <1>5, <1>7, <2>2 DEF Put
    <3> QED BY <1>3, <1>4, <1>5, <1>7, <2>2, <3>1
  <2> QED BY <2>1, <2>2
<1> QED BY <1>6, <1>7

(***************************************************************************)
(* In a location whose names cannot hurt, every snapshot that could be     *)
(* restored before is still there or the new one is.                       *)
(***************************************************************************)
LEMMA UploadKeepsRestorable ==
  ASSUME IInv, UploadLocation,
         NEW l, NEW outcome, NEW left, UploadStep(l, outcome, left),
         l \in SafeLocations
  PROVE  \/ New(l, TRUE) \in left
         \/ /\ {o \in left : o.whole} = {o \in objects[l] : o.whole}
            /\ ~outcome.uploaded
<1>1. l \in Locations /\ ts \in Nat /\ now \in Nat
  BY TimeAssumption DEF UploadStep, IInv, TypeOK, Times
<1>2. CASE outcome.uploaded \/ left = objects[l]
  BY <1>2, UploadLeaves
<1>3. CASE ~outcome.uploaded /\ left # objects[l]
  <2>1. left = Put(objects[l], New(l, l \notin Local))
    BY <1>3, UploadLeaves
  <2>2. CASE l \notin Local
    <3>1. New(l, l \notin Local) = New(l, TRUE)
      BY <2>2
    <3> QED BY <2>1, <3>1 DEF Put
  <2>3. CASE l \in Local
    <3>1. New(l, l \notin Local) = New(l, FALSE)
      BY <2>3
    <3>2. Config[l].resolution = 1
      BY <2>3 DEF SafeLocations
    <3>3. New(l, FALSE).slot = ts /\ New(l, FALSE).whole = FALSE
      BY <1>1, <3>2, SlotType DEF New, NewObject
    <3>4. \A o \in objects[l] : o.slot # ts
      <4>1. PICK i \in 1..Len(Factories) : i = index /\ Factories[i] = l
        BY FactoryTypes DEF UploadLocation, Looping, UploadStep, IInv, TypeOK
      <4>2. \A o \in objects[l] : o.ts < ts
        BY <4>1, FactoryTypes DEF IInv, PendingAreOlder, UploadLocation
      <4>3. \A o \in objects[l] : o.slot = o.ts /\ o.ts \in Nat
        BY <1>1, <3>2, TimeAssumption
           DEF IInv, SlotsTellSnapshots, TypeOK, Objects, Times
      <4> QED BY <1>1, <4>2, <4>3
    <3> QED BY <1>3, <2>1, <3>1, <3>3, <3>4 DEF Put
  <2> QED BY <2>2, <2>3
<1> QED BY <1>2, <1>3

LEMMA UploadStepInv ==
  ASSUME IInv, UploadLocation
  PROVE  IInv'
<1> USE DEF IInv
<1>1. PICK l, outcome, left : UploadStep(l, outcome, left)
  BY UploadLocationStep
<1>2. /\ MaxTime \in Nat /\ now \in Nat /\ now + 1 \in Times /\ now' = now + 1
      /\ ts \in Times /\ ts \in Nat /\ ts <= now
      /\ index \in 1..Len(Factories) /\ index' = index + 1
      /\ l = Factories[index] /\ l \in Locations
      /\ op = "upload" /\ UNCHANGED <<op, ts, lastSnapshotTime>>
      /\ objects' = [objects EXCEPT ![l] = left]
      /\ next' = Earlier(outcome.next)
      /\ answered' = answered \cup {l}
  BY <1>1, TimeAssumption, FactoryTypes
     DEF UploadStep, UploadLocation, Looping, TypeOK, ObjectsAreInThePast, Times
<1>3. /\ outcome.next \in Nat
      /\ left \subseteq objects[l] \cup {New(l, TRUE), New(l, FALSE)}
  BY <1>1, UploadLeaves
<1>4. \A w \in BOOLEAN :
        /\ New(l, w) \in Objects
        /\ New(l, w).ts = ts
        /\ New(l, w).mtime = now + 1
        /\ New(l, w).whole = w
        /\ Config[l].resolution = 1 => New(l, w).slot = ts
  <2> SUFFICES ASSUME NEW w \in BOOLEAN
               PROVE  /\ New(l, w) \in Objects
                      /\ New(l, w).ts = ts
                      /\ New(l, w).mtime = now + 1
                      /\ New(l, w).whole = w
                      /\ Config[l].resolution = 1 => New(l, w).slot = ts
    OBVIOUS
  <2>1. New(l, w) \in Objects
    BY <1>2, NewObjectType DEF New
  <2> QED BY <1>2, <2>1, SlotType DEF New, NewObject
<1>5. objects' \in [Locations -> SUBSET Objects]
  <2>1. left \subseteq Objects
    BY <1>2, <1>3, <1>4 DEF TypeOK
  <2> QED BY <1>2, <2>1 DEF TypeOK
<1>6. objects'[l] = left /\ \A k \in Locations : k # l => objects'[k] = objects[k]
  BY <1>2 DEF TypeOK
<1>7. confirmed' \in [Locations -> SUBSET Times]
  BY <1>1, <1>2 DEF UploadStep, TypeOK
<1>8. TypeOK'
  <2>1. next' \in Nat
    BY <1>2, <1>3 DEF TypeOK, Earlier
  <2>2. index' \in 1..(Len(Factories) + 1)
    BY <1>2, FactoryTypes
  <2> QED BY <1>2, <1>5, <1>7, <2>1, <2>2 DEF TypeOK
<1>9. ObjectsAreInThePast'
  <2>1. \A k \in Locations : \A o \in objects'[k] : o.ts < o.mtime /\ o.mtime <= now + 1
    <3> SUFFICES ASSUME NEW k \in Locations, NEW o \in objects'[k]
                 PROVE  o.ts < o.mtime /\ o.mtime <= now + 1
      OBVIOUS
    <3>1. CASE o \in objects[k]
      BY <1>2, <3>1 DEF ObjectsAreInThePast, TypeOK, Objects, Times
    <3>2. CASE o \notin objects[k]
      <4>1. o \in {New(l, TRUE), New(l, FALSE)}
        BY <1>3, <1>6, <3>2
      <4>2. o.ts = ts /\ o.mtime = now + 1
        BY <1>4, <4>1
      <4> QED BY <1>2, <4>2
    <3> QED BY <3>1, <3>2
  <2> QED BY <1>2, <2>1 DEF ObjectsAreInThePast, TypeOK, Times
<1>10. PendingAreOlder'
  <2> SUFFICES ASSUME NEW i \in (index + 1)..Len(Factories)
               PROVE  \A o \in objects'[Factories[i]] : o.ts < ts
    BY <1>2 DEF PendingAreOlder
  <2>1. i \in index..Len(Factories) /\ i \in 1..Len(Factories) /\ i # index
    BY <1>2, FactoryTypes
  <2>2. Factories[i] # l /\ Factories[i] \in Locations
    BY <1>2, <2>1, FactoryTypes, FactoriesAssumption
  <2>3. objects'[Factories[i]] = objects[Factories[i]]
    BY <1>6, <2>2
  <2> QED BY <1>2, <2>1, <2>3 DEF PendingAreOlder
<1>11. SlotsTellSnapshots'
  <2> SUFFICES ASSUME NEW k \in Locations, Config[k].resolution = 1,
                      NEW o \in objects'[k]
               PROVE  o.slot = o.ts
    BY DEF SlotsTellSnapshots
  <2>1. CASE o \in objects[k]
    BY <2>1 DEF SlotsTellSnapshots
  <2>2. CASE o \notin objects[k]
    <3>1. k = l /\ o \in {New(l, TRUE), New(l, FALSE)}
      BY <1>3, <1>6, <2>2
    <3> QED BY <1>4, <3>1
  <2> QED BY <2>1, <2>2
<1>12. LastGoodSurvives'
  <2> SUFFICES ASSUME NEW k \in SafeLocations, NEW t \in confirmed'[k]
               PROVE  \E o \in objects'[k] : o.whole /\ o.ts >= t
    BY DEF LastGoodSurvives, SafeLocations
  <2>1. k \in Locations /\ confirmed[k] \in SUBSET Times
    BY DEF SafeLocations, TypeOK
  <2>2. CASE k # l
    <3>1. confirmed'[k] = confirmed[k]
      BY <1>1, <2>1, <2>2 DEF UploadStep, TypeOK
    <3> QED BY <1>6, <2>1, <2>2, <3>1 DEF LastGoodSurvives
  <2>3. CASE k = l
    <3>1. /\ t \in confirmed[l] \cup {ts}
          /\ ~outcome.uploaded => t \in confirmed[l]
      BY <1>1, <1>2, <2>3 DEF UploadStep, TypeOK
    <3>2. t \in confirmed[l] => \E o \in objects[l] : o.whole /\ o.ts >= t
      BY <2>3 DEF LastGoodSurvives
    <3>3. CASE New(l, TRUE) \in left
      <4>1. t <= ts
        <5>1. \A o \in objects[l] : o.ts < ts /\ o.ts \in Nat
          BY <1>2, FactoryTypes DEF PendingAreOlder, TypeOK, Objects, Times
        <5>2. t \in Nat
          BY <1>2, <2>1, <2>3, <3>1 DEF Times
        <5> QED BY <1>2, <3>1, <3>2, <5>1, <5>2
      <4> QED BY <1>4, <1>6, <2>3, <3>3, <4>1
    <3>4. CASE New(l, TRUE) \notin left
      <4>1. /\ {o \in left : o.whole} = {o \in objects[l] : o.whole}
            /\ ~outcome.uploaded
        BY <1>1, <2>3, <3>4, UploadKeepsRestorable
      <4> QED BY <1>6, <2>3, <3>1, <3>2, <4>1
    <3> QED BY <3>3, <3>4
  <2> QED BY <2>2, <2>3
<1> QED BY <1>8, <1>9, <1>10, <1>11, <1>12

LEMMA IInvStep == IInv /\ [Next]_vars => IInv'
<1> SUFFICES ASSUME IInv, [Next]_vars PROVE IInv'
  OBVIOUS
<1>1. CASE UploadLocation
  BY <1>1, UploadStepInv
<1>2. CASE ~UploadLocation
  BY <1>2, QuietStep DEF Next, Proceed, Disturbance, Quiet
<1> QED BY <1>1, <1>2

THEOREM Invariance == Spec => []IInv
BY IInvInit, IInvStep, PTL DEF Spec

(***************************************************************************)
(* Every state has the type TypeOK says: no schedule, upload or deletion   *)
(* leaves it, for all configurations.                                      *)
(***************************************************************************)
THEOREM TypeCorrect == Spec => []TypeOK
BY Invariance, PTL DEF IInv

(***************************************************************************)
(* A location with harmless names never loses the newest snapshot it has   *)
(* confirmed, whatever uploads, deletions and processes fail: the promise  *)
(* of UploadSnapshot and DeleteObsoleteSnapshots to whoever restores.      *)
(***************************************************************************)
THEOREM GoodSnapshotsSurvive == Spec => []LastGoodSurvives
BY Invariance, PTL DEF IInv

-----------------------------------------------------------------------------
(* The storages implement SnapshotStore                                    *)

LEMMA SafeAreLocations == SafeLocations \subseteq Locations
BY DEF SafeLocations

LEMMA StoreInit == Init => Store!Init
BY SafeAreLocations DEF Init, Store!Init, Restorable

LEMMA StoreStep == IInv /\ [Next]_vars => [Store!Next]_(Store!vars)
<1> SUFFICES ASSUME IInv, [Next]_vars PROVE [Store!Next]_(Store!vars)
  OBVIOUS
<1>1. now \in Nat \ {0} /\ ts \in Nat
  BY TimeAssumption DEF IInv, ObjectsAreInThePast, TypeOK, Times
<1>2. CASE BeginUpload
  <2>1. /\ op = "idle" /\ op' = "upload" /\ ts' = now
        /\ UNCHANGED objects
    BY <1>2 DEF BeginUpload, Enter
  <2>2. \A l \in SafeLocations : \A t \in Restorable(l) : t < now
    BY <1>1, SafeAreLocations, TimeAssumption
       DEF Restorable, IInv, ObjectsAreInThePast, TypeOK, Objects, Times
  <2>3. Store!Begin
    BY <1>1, <2>1, <2>2 DEF Store!Begin, Restorable
  <2> QED BY <2>3 DEF Store!Next
<1>3. CASE UploadLocation
  <2>1. PICK l, outcome, left : UploadStep(l, outcome, left)
    BY <1>3, UploadLocationStep DEF IInv
  <2>2. /\ op = "upload" /\ UNCHANGED <<op, ts>>
        /\ l \in Locations
        /\ objects' = [objects EXCEPT ![l] = left]
    BY <1>3, <2>1 DEF UploadLocation, UploadStep
  <2>3. /\ objects'[l] = left
        /\ \A k \in Locations : k # l => objects'[k] = objects[k]
    BY <2>2 DEF IInv, TypeOK
  <2>4. \A k \in SafeLocations : k # l => Restorable(k)' = Restorable(k)
    BY <2>3, SafeAreLocations DEF Restorable
  <2>5. CASE l \notin SafeLocations
    <3>1. \A k \in SafeLocations : Restorable(k)' = Restorable(k)
      BY <2>4, <2>5
    <3> QED BY <2>2, <3>1 DEF Store!vars
  <2>6. CASE l \in SafeLocations /\ New(l, TRUE) \notin left
    <3>1. {o \in left : o.whole} = {o \in objects[l] : o.whole}
      BY <1>3, <2>1, <2>6, UploadKeepsRestorable
    <3>2. Restorable(l)' = Restorable(l)
      BY <2>3, <3>1 DEF Restorable
    <3>3. \A k \in SafeLocations : Restorable(k)' = Restorable(k)
      BY <2>4, <3>2
    <3> QED BY <2>2, <3>3 DEF Store!vars
  <2>7. CASE l \in SafeLocations /\ New(l, TRUE) \in left
    <3> DEFINE kept == Restorable(l) \cap Restorable(l)'
    <3>1. \A w \in BOOLEAN : New(l, w).ts = ts /\ New(l, w).whole = w
      BY DEF New, NewObject
    <3>2. left \subseteq objects[l] \cup {New(l, TRUE), New(l, FALSE)}
      BY <1>3, <2>1, UploadLeaves
    <3>3. Restorable(l)' = {o.ts : o \in {p \in left : p.whole}}
      BY <2>3 DEF Restorable
    <3>4. ts \in Restorable(l)'
      BY <2>7, <3>1, <3>3
    <3>5. Restorable(l)' \subseteq Restorable(l) \cup {ts}
      BY <3>1, <3>2, <3>3 DEF Restorable
    <3>6. Restorable(l)' = kept \cup {ts}
      BY <3>4, <3>5
    <3>7. ts # 0
      BY <1>1, <2>2 DEF IInv, PendingAreOlder
    <3>8. [k \in SafeLocations |-> Restorable(k)]' =
            [[k \in SafeLocations |-> Restorable(k)] EXCEPT ![l] = kept \cup {ts}]
      BY <2>4, <2>7, <3>6
    <3>9. kept \in SUBSET [k \in SafeLocations |-> Restorable(k)][l]
      BY <2>7
    <3> HIDE DEF kept
    <3>10. Store!Save(l)
      BY <2>2, <3>7, <3>8, <3>9 DEF Store!Save
    <3> QED BY <2>7, <3>10 DEF Store!Next
  <2> QED BY <2>5, <2>6, <2>7
<1>4. CASE op = "upload" /\ op' = "idle" /\ UNCHANGED objects
  <2>1. ts # 0
    BY <1>1, <1>4 DEF IInv, PendingAreOlder
  <2>2. \A k \in SafeLocations : Restorable(k)' = Restorable(k)
    BY <1>4 DEF Restorable
  <2>3. Store!End
    BY <1>4, <2>1, <2>2 DEF Store!End
  <2> QED BY <2>3 DEF Store!Next
<1>5. CASE UNCHANGED objects /\ (op' = "upload" <=> op = "upload")
           /\ (op = "upload" => ts' = ts)
  <2>1. \A k \in SafeLocations : Restorable(k)' = Restorable(k)
    BY <1>5 DEF Restorable
  <2> QED BY <1>5, <2>1 DEF Store!vars
<1>6. CASE Quiet /\ ~BeginUpload
  <2>1. UNCHANGED objects
    BY <1>6
       DEF Quiet, Wait, BeginSchedule, Enter, CreateFails, ScheduleLocation,
           SeekFails, Return, Crash, vars
  <2>2. \/ op = "upload" /\ op' = "idle"
        \/ op' # "upload" /\ op # "upload"
        \/ op' = op /\ ts' = ts
    BY <1>6
       DEF Quiet, Wait, BeginSchedule, Enter, CreateFails, ScheduleLocation,
           SeekFails, Return, Crash, vars
  <2> QED BY <1>4, <1>5, <2>1, <2>2
<1> QED BY <1>2, <1>3, <1>6 DEF Next, Proceed, Disturbance, Quiet

(***************************************************************************)
(* Refinement: seen from a restore, the manager, its controllers and the   *)
(* failures they meet are SnapshotStore, for every configuration.          *)
(***************************************************************************)
THEOREM StoreImplemented == Spec => ImplementsStore
BY StoreInit, StoreStep, Invariance, PTL DEF Spec, Store!Spec, ImplementsStore

-----------------------------------------------------------------------------
(* The schedule                                                            *)

(***************************************************************************)
(* An upload is later than the zero time by any frequency, so that no new  *)
(* controller finds it too early; and until a location has answered, the   *)
(* call has no time to hand back.                                          *)
(***************************************************************************)
ScheduleInv ==
  /\ StartTime <= now
  /\ op = "upload" => StartTime <= ts
  /\ op # "idle" /\ answered = {} => next = ZeroTime
  /\ NextIsEarliest

LEMMA DueIsNotZero ==
  ASSUME IInv, NEW l \in Locations, NEW t \in MayBeDue(l)
  PROVE  t \in Nat \ {0}
<1>1. ts \in Nat /\ Frequency(l) \in Nat
  BY TimeAssumption, ConfigType DEF IInv, TypeOK, Times
<1>2. \A o \in objects[l] : o.mtime \in Nat \ {0}
  BY TimeAssumption DEF IInv, ObjectsAreInThePast, TypeOK, Objects, Times
<1> QED BY <1>1, <1>2 DEF MayBeDue, ZeroTime

\* One more location answers with one of its times.
LEMMA Answer ==
  ASSUME IInv, ScheduleInv, op # "idle",
         NEW l \in Locations, NEW t \in MayBeDue(l),
         next' = Earlier(t), answered' = answered \cup {l},
         \A k \in Locations : MayBeDue(k)' = MayBeDue(k)
  PROVE  NextIsEarliest' /\ answered' # {}
<1>1. answered \subseteq Locations /\ next \in Nat
  BY DEF IInv, TypeOK
<1>2. \A k \in Locations : \A u \in MayBeDue(k) : u \in Nat \ {0}
  BY DueIsNotZero
<1>3. CASE answered = {}
  <2>1. next' = t /\ answered' = {l}
    BY <1>3 DEF ScheduleInv, Earlier
  <2>2. t <= t
    BY <1>2
  <2> QED BY <2>1, <2>2 DEF NextIsEarliest
<1>4. CASE answered # {}
  <2>1. PICK k \in answered : next \in MayBeDue(k)
    BY <1>4 DEF ScheduleInv, NextIsEarliest
  <2>2. next \in Nat \ {0} /\ t \in Nat \ {0}
    BY <1>1, <1>2, <2>1
  <2>3. next' \in {next, t} /\ next' <= next /\ next' <= t
    BY <2>2 DEF Earlier, ZeroTime
  <2>4. \A m \in answered' : \E u \in MayBeDue(m) : next' <= u
    <3>1. TAKE m \in answered'
    <3>2. CASE m = l
      BY <2>3, <3>2
    <3>3. CASE m \in answered
      <4>1. PICK u \in MayBeDue(m) : next <= u
        BY <1>4, <3>3 DEF ScheduleInv, NextIsEarliest
      <4>2. u \in Nat
        BY <1>1, <1>2, <3>3
      <4>3. next' <= u
        BY <2>2, <2>3, <4>1, <4>2
      <4> QED BY <4>3
    <3> QED BY <3>2, <3>3
  <2>5. \E m \in answered' : next' \in MayBeDue(m)
    BY <2>1, <2>3
  <2>6. answered' \subseteq Locations
    BY <1>1
  <2> QED BY <2>4, <2>5, <2>6 DEF NextIsEarliest
<1> QED BY <1>3, <1>4

LEMMA ScheduleInvInit == Init => ScheduleInv
BY TimeAssumption DEF Init, ScheduleInv, NextIsEarliest

LEMMA ScheduleInvStep == IInv /\ ScheduleInv /\ [Next]_vars => ScheduleInv'
<1> SUFFICES ASSUME IInv, ScheduleInv, [Next]_vars PROVE ScheduleInv'
  OBVIOUS
<1>1. StartTime \in Nat /\ now \in Nat /\ ts \in Nat /\ MaxTime \in Nat
  BY TimeAssumption DEF IInv, TypeOK, Times
<1>2. CASE Wait
  BY <1>1, <1>2 DEF Wait, ScheduleInv, NextIsEarliest, MayBeDue
<1>3. CASE BeginUpload \/ BeginSchedule
  BY <1>1, <1>3 DEF BeginUpload, BeginSchedule, Enter, ScheduleInv, NextIsEarliest
<1>4. CASE CreateFails \/ Return \/ UNCHANGED vars
  BY <1>4 DEF CreateFails, Return, vars, ScheduleInv, NextIsEarliest, MayBeDue
<1>5. CASE SeekFails \/ Crash
  BY <1>5 DEF SeekFails, Crash, ScheduleInv, NextIsEarliest
<1>6. CASE ScheduleLocation
  <2> DEFINE l == Factories[index]
  <2>1. /\ op = "schedule"
        /\ UNCHANGED <<now, objects, op, ts>>
        /\ l \in Locations
    BY <1>6, FactoryTypes DEF ScheduleLocation, Looping, IInv, TypeOK
  <2>2. \A k \in Locations : MayBeDue(k)' = MayBeDue(k)
    BY <2>1 DEF MayBeDue
  <2>3. CASE UNCHANGED <<next, answered>>
    BY <2>1, <2>3 DEF ScheduleInv, NextIsEarliest, MayBeDue
  <2>4. CASE \E t \in ScheduleTimes(NewController, objects[l], ts, Frequency(l)) :
               next' = Earlier(t) /\ answered' = answered \cup {l}
    <3>1. PICK t \in ScheduleTimes(NewController, objects[l], ts, Frequency(l)) :
            next' = Earlier(t) /\ answered' = answered \cup {l}
      BY <2>4
    <3>2. t \in MayBeDue(l)
      BY <3>1
         DEF ScheduleTimes, LastUploadTimes, NewController, MayBeDue, ZeroTime
    <3>3. NextIsEarliest' /\ answered' # {}
      BY <2>1, <2>2, <3>1, <3>2, Answer
    <3> QED BY <2>1, <3>3 DEF ScheduleInv
  <2> QED BY <1>6, <2>3, <2>4 DEF ScheduleLocation
<1>7. CASE UploadLocation
  <2>1. PICK l, outcome, left : UploadStep(l, outcome, left)
    BY <1>7, UploadLocationStep DEF IInv
  <2>2. /\ op = "upload"
        /\ UNCHANGED <<op, ts>>
        /\ now' = now + 1
        /\ l \in Locations
        /\ outcome \in Uploads(l, objects[l], ts, now')
        /\ next' = Earlier(outcome.next)
        /\ answered' = answered \cup {l}
    BY <1>7, <2>1 DEF UploadLocation, UploadStep
  <2>3. ts # ZeroTime
    BY <1>1, <2>2, TimeAssumption DEF ScheduleInv, ZeroTime
  <2>4. \A k \in Locations : MayBeDue(k) = {ts + Frequency(k)}
                             /\ MayBeDue(k)' = MayBeDue(k)
    BY <2>2, <2>3 DEF MayBeDue
  <2>5. ~(ts < ZeroTime + Frequency(l))
    <3>1. Frequency(l) \in Nat /\ Frequency(l) <= StartTime /\ StartTime <= ts
      BY <2>2, ConfigType, TimeAssumption DEF ScheduleInv
    <3> QED BY <1>1, <3>1 DEF ZeroTime
  <2>6. outcome.next = ts + Frequency(l)
    BY <2>2, <2>5 DEF Uploads, UploadOutcomes, NewController
  <2>7. NextIsEarliest' /\ answered' # {}
    BY <2>2, <2>4, <2>6, Answer
  <2> QED BY <1>1, <2>2, <2>7 DEF ScheduleInv
<1> QED BY <1>2, <1>3, <1>4, <1>5, <1>6, <1>7 DEF Next, Proceed, Disturbance

(***************************************************************************)
(* Whichever locations cannot be created, listed or written to, the loops  *)
(* hand back the earliest time of those that answered.                     *)
(***************************************************************************)
THEOREM EarliestWins == Spec => []NextIsEarliest
<1>1. Spec => []ScheduleInv
  BY ScheduleInvInit, ScheduleInvStep, Invariance, PTL DEF Spec
<1> QED BY <1>1, PTL DEF ScheduleInv

-----------------------------------------------------------------------------
(* The clean-up                                                            *)

\* The listing of a location, which has no two objects of one time.
ListingInv ==
  \A l \in Locations :
    /\ IsFiniteSet(objects[l])
    /\ \A o, p \in objects[l] : o.mtime = p.mtime => o = p

LEMMA OneNewer ==
  ASSUME NEW objs, NEW n, n.mtime \in Nat,
         \A o \in objs : o.mtime \in Nat /\ o.mtime < n.mtime,
         \A o, p \in objs : o.mtime = p.mtime => o = p,
         NEW some \in SUBSET (objs \cup {n})
  PROVE  /\ \A o \in some : o.mtime \in Int
         /\ \A o, p \in some : o.mtime = p.mtime => o = p
OBVIOUS

LEMMA UploadListing ==
  ASSUME IInv, ListingInv, UploadLocation,
         NEW l, NEW outcome, NEW left, UploadStep(l, outcome, left)
  PROVE  /\ IsFiniteSet(left)
         /\ \A o, p \in left : o.mtime = p.mtime => o = p
<1>1. l \in Locations /\ now \in Nat
  BY DEF UploadStep, IInv, ObjectsAreInThePast
<1>2. PICK w \in BOOLEAN : left \subseteq objects[l] \cup {New(l, w)}
  <2>1. CASE outcome.uploaded
    <3>1. /\ left \subseteq objects[l] \cup {New(l, TRUE), New(l, FALSE)}
          /\ New(l, FALSE) \notin left
      BY <2>1, UploadLeaves
    <3>2. left \subseteq objects[l] \cup {New(l, TRUE)}
      BY <3>1
    <3> QED BY <3>2
  <2>2. CASE ~outcome.uploaded /\ left = objects[l]
    BY <2>2
  <2>3. CASE ~outcome.uploaded /\ left # objects[l]
    <3>1. left = Put(objects[l], New(l, l \notin Local))
      BY <2>3, UploadLeaves
    <3> QED BY <3>1 DEF Put
  <2> QED BY <2>1, <2>2, <2>3
<1>3. \A o \in objects[l] : o.mtime \in Nat /\ o.mtime < now + 1
  BY <1>1, TimeAssumption DEF IInv, ObjectsAreInThePast, TypeOK, Objects, Times
<1>4. New(l, w).mtime = now + 1
  BY DEF New, NewObject
<1>5. IsFiniteSet(objects[l] \cup {New(l, w)})
  BY <1>1, FS_AddElement DEF ListingInv
<1>6. IsFiniteSet(left)
  BY <1>2, <1>5, FS_Subset
<1>7. \A o, p \in left : o.mtime = p.mtime => o = p
  BY <1>1, <1>2, <1>3, <1>4, OneNewer DEF ListingInv
<1> QED BY <1>6, <1>7

LEMMA ListingInvStep == IInv /\ ListingInv /\ [Next]_vars => ListingInv'
<1> SUFFICES ASSUME IInv, ListingInv, [Next]_vars PROVE ListingInv'
  OBVIOUS
<1>1. CASE UploadLocation
  <2>1. PICK l, outcome, left : UploadStep(l, outcome, left)
    BY <1>1, UploadLocationStep DEF IInv
  <2>2. objects' = [objects EXCEPT ![l] = left] /\ l \in Locations
    BY <2>1 DEF UploadStep
  <2>3. IsFiniteSet(left) /\ \A o, p \in left : o.mtime = p.mtime => o = p
    BY <1>1, <2>1, UploadListing
  <2> QED BY <2>2, <2>3 DEF ListingInv, IInv, TypeOK
<1>2. CASE UNCHANGED objects
  BY <1>2 DEF ListingInv
<1>3. CASE Quiet
  BY <1>2, <1>3
     DEF Quiet, Wait, BeginUpload, BeginSchedule, Enter, CreateFails,
         ScheduleLocation, SeekFails, Return, Crash, vars
<1> QED BY <1>1, <1>3 DEF Next, Proceed, Disturbance, Quiet

\* What the clean-up removes has retain newer ones that stay.
LEMMA ObsoleteHasNewer ==
  ASSUME NEW objs, IsFiniteSet(objs), NEW retain \in Int,
         \A o \in objs : o.mtime \in Int,
         \A o, p \in objs : o.mtime = p.mtime => o = p,
         NEW left \in DeleteOutcomes(objs, retain), NEW o \in objs \ left
  PROVE  /\ retain >= 1
         /\ Cardinality({p \in left : p.mtime > o.mtime}) >= retain
<1> DEFINE newer == {p \in left : p.mtime > o.mtime}
<1>1. ~(retain < 1 \/ Cardinality(objs) <= retain)
  BY DEF DeleteOutcomes
<1>2. left \subseteq objs
  BY <1>1 DEF DeleteOutcomes
<1>3. PICK kept \in SUBSET left : IsNewest(kept, objs, retain)
  BY <1>1 DEF DeleteOutcomes
<1>4. kept \subseteq newer
  BY <1>2, <1>3 DEF IsNewest
<1>5. IsFiniteSet(newer)
  BY <1>2, FS_Subset
<1>6. Cardinality(kept) <= Cardinality(newer)
  BY <1>4, <1>5, FS_Subset
<1>7. Cardinality(kept) = retain
  BY <1>3 DEF IsNewest
<1> QED BY <1>1, <1>6, <1>7

LEMMA DeletionStep ==
  ASSUME IInv, ListingInv, [Next]_vars,
         NEW l \in Locations, NEW o \in objects[l] \ objects'[l]
  PROVE  \/ ReplacedByName(l, o)
         \/ /\ Retain(l) >= 1
            /\ Cardinality({p \in objects'[l] : p.mtime > o.mtime}) >= Retain(l)
<1>1. UploadLocation
  BY DEF Next, Proceed, Disturbance, Wait, BeginUpload, BeginSchedule, Enter,
         CreateFails, ScheduleLocation, SeekFails, Return, Crash, vars
<1>2. PICK k, outcome, left : UploadStep(k, outcome, left)
  BY <1>1, UploadLocationStep DEF IInv
<1>3. /\ objects' = [objects EXCEPT ![k] = left]
      /\ k \in Locations
      /\ outcome \in Uploads(k, objects[k], ts, now')
      /\ left \in Left(outcome, k)
  BY <1>2 DEF UploadStep
<1>4. k = l /\ objects'[l] = left
  BY <1>3 DEF IInv, TypeOK
<1>5. now \in Nat /\ now' = now + 1 /\ Retain(l) \in Int
  BY <1>1, ConfigType DEF UploadLocation, IInv, ObjectsAreInThePast
<1>6. \A p \in objects[l] : p.mtime \in Nat /\ p.mtime < now + 1
  BY <1>5, TimeAssumption DEF IInv, ObjectsAreInThePast, TypeOK, Objects, Times
<1>7. \A w \in BOOLEAN : New(l, w).mtime = now + 1 /\ New(l, w) \notin objects[l]
  <2>1. \A w \in BOOLEAN : New(l, w).mtime = now + 1
    BY DEF New, NewObject
  <2> QED BY <1>5, <1>6, <2>1
<1>8. ASSUME NEW w \in BOOLEAN, New(l, w) \in left, o.slot = New(l, w).slot
      PROVE  ReplacedByName(l, o)
  BY <1>4, <1>7, <1>8 DEF ReplacedByName
<1>9. CASE ~outcome.uploaded
  <2>1. left = Put(objects[l], New(l, l \notin Local))
    BY <1>1, <1>2, <1>4, <1>9, UploadLeaves
  <2>2. New(l, l \notin Local) \in left /\ o.slot = New(l, l \notin Local).slot
    BY <1>4, <2>1 DEF Put
  <2> QED BY <1>8, <2>2
<1>10. CASE outcome.uploaded
  <2> DEFINE written == Put(objects[l], New(l, TRUE))
  <2>1. New(l, TRUE) \in left
    BY <1>1, <1>2, <1>4, <1>10, UploadLeaves
  <2>2. outcome.objects = written
    BY <1>3, <1>4, <1>5, <1>10
       DEF Uploads, UploadOutcomes, NewController, New
  <2>3. left \in DeleteOutcomes(written, Retain(l))
    BY <1>3, <1>4, <1>10, <2>2 DEF Left
  <2>4. CASE o \notin written
    <3>1. o.slot = New(l, TRUE).slot
      BY <2>4 DEF Put
    <3> QED BY <1>8, <2>1, <3>1
  <2>5. CASE o \in written
    <3>1. written \subseteq objects[l] \cup {New(l, TRUE)}
      BY DEF Put
    <3> HIDE DEF written
    <3>2. IsFiniteSet(written)
      <4>1. IsFiniteSet(objects[l] \cup {New(l, TRUE)})
        BY FS_AddElement DEF ListingInv
      <4> QED BY <3>1, <4>1, FS_Subset
    <3>3. /\ \A p \in written : p.mtime \in Int
          /\ \A p, q \in written : p.mtime = q.mtime => p = q
      <4>1. New(l, TRUE).mtime = now + 1
        BY <1>7
      <4>2. \A p, q \in objects[l] : p.mtime = q.mtime => p = q
        BY DEF ListingInv
      <4>3. \A p \in objects[l] : p.mtime \in Nat /\ p.mtime < New(l, TRUE).mtime
        BY <1>6, <4>1
      <4>4. New(l, TRUE).mtime \in Nat
        <5>1. now + 1 \in Nat
          BY <1>5
        <5> QED BY <4>1, <5>1
      <4>5. written \in SUBSET (objects[l] \cup {New(l, TRUE)})
        BY <3>1
      <4> QED BY <4>2, <4>3, <4>4, <4>5, OneNewer, Zenon
    <3>4. o \in written \ left
      BY <1>4, <2>5
    <3>5. /\ Retain(l) >= 1
          /\ Cardinality({p \in left : p.mtime > o.mtime}) >= Retain(l)
      BY <1>5, <2>3, <3>2, <3>3, <3>4, ObsoleteHasNewer
    <3> QED BY <1>4, <3>5
  <2> QED BY <2>4, <2>5
<1> QED BY <1>9, <1>10

(***************************************************************************)
(* An object that disappears was replaced under its name or has at least   *)
(* retain newer ones in its location, which stay.                          *)
(***************************************************************************)
THEOREM OnlyObsoleteIsDeleted == Spec => DeletesOnlyObsolete
<1>1. Init => ListingInv
  BY FS_EmptySet DEF Init, ListingInv
<1>2. Spec => []ListingInv
  BY <1>1, ListingInvStep, Invariance, PTL DEF Spec
<1>3. IInv /\ ListingInv /\ [Next]_vars =>
        [\A l \in Locations : \A o \in objects[l] \ objects'[l] :
           \/ ReplacedByName(l, o)
           \/ /\ Retain(l) >= 1
              /\ Cardinality({p \in objects'[l] : p.mtime > o.mtime}) >= Retain(l)]_vars
  BY DeletionStep
<1> QED BY <1>2, <1>3, Invariance, PTL DEF Spec, DeletesOnlyObsolete

=============================================================================
