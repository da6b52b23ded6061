----------------------------- MODULE StorageOps -----------------------------
(***************************************************************************)
(* The decisions of internal/agent/storage as operators: the fallbacks of  *)
(* config.go, the controller of controller.go (when is the next upload     *)
(* due, what may an upload leave behind, which objects are obsolete).      *)
(*                                                                         *)
(* Time is a natural number and 0 stands for Go's zero time.Time, which is *)
(* earlier than every real timestamp by more than any frequency.           *)
(*                                                                         *)
(* An object is [slot, ts, mtime, whole]: the name (prefix and suffix are  *)
(* fixed per location, so a name is told apart by its formatted timestamp  *)
(* only), the timestamp of the snapshot it was written from, the time the  *)
(* backend reports as last modification, and whether all bytes arrived.    *)
(***************************************************************************)
EXTENDS Integers, FiniteSets

ZeroTime == 0

\* A nil *int in StorageControllerConfig.Retain.
Unset == -1

FrequencyOrDefault(config, defaults) ==
  IF config.frequency > 0 THEN config.frequency ELSE defaults.frequency

RetainOrDefault(config, defaults) ==
  IF config.retain # Unset THEN config.retain ELSE defaults.retain

(***************************************************************************)
(* time.Format by what it does to names: all timestamps that agree up to   *)
(* the format's resolution get one name (timestampFormat "2006-01-02" has  *)
(* the resolution of a day).                                               *)
(***************************************************************************)
SlotOf(config, ts) == ts \div config.resolution

\* A controller fresh from newStorageController.
NewController == [lastUpload |-> ZeroTime]

-----------------------------------------------------------------------------
(* ScheduleSnapshot                                                        *)

(***************************************************************************)
(* ensureLastUploadTime: the controller's own lastUpload, else the time of *)
(* the last snapshot, else what the storage reports.  The storage is asked *)
(* for the first entry of its unsorted listing: any object may be first.   *)
(***************************************************************************)
LastUploadTimes(controller, objs, lastSnapshotTime) ==
  IF controller.lastUpload # ZeroTime THEN {controller.lastUpload}
  ELSE IF lastSnapshotTime # ZeroTime THEN {lastSnapshotTime}
  ELSE {o.mtime : o \in objs}

ScheduleTimes(controller, objs, lastSnapshotTime, frequency) ==
  {t + frequency : t \in LastUploadTimes(controller, objs, lastSnapshotTime)}

\* Only a controller that has to list its storage can fail to schedule: the
\* listing fails, or it is empty.
ScheduleMayFail(controller, lastSnapshotTime) ==
  controller.lastUpload = ZeroTime /\ lastSnapshotTime = ZeroTime

-----------------------------------------------------------------------------
(* UploadSnapshot                                                          *)

NewObject(config, ts, mtime, whole) ==
  [slot |-> SlotOf(config, ts), ts |-> ts, mtime |-> mtime, whole |-> whole]

\* Writing an object replaces the one that has its name.
Put(objs, object) == {o \in objs : o.slot # object.slot} \cup {object}

\* What if: every failed upload leaves a truncated object under its name.
FailedUploadsTruncate(config, local, objs, ts, mtime) ==
  {objs, Put(objs, NewObject(config, ts, mtime, FALSE))}

(***************************************************************************)
(* What a failed upload leaves: nothing, or, on a local disk, the file     *)
(* os.Create truncated before io.Copy gave up; or, on a remote service,    *)
(* the complete object whose confirmation came too late.                   *)
(***************************************************************************)
FailedUploads(config, local, objs, ts, mtime) ==
  {objs, Put(objs, NewObject(config, ts, mtime, ~local))}

(***************************************************************************)
(* UploadSnapshot of a controller as the set of its outcomes.  A snapshot  *)
(* older than lastUpload + frequency is skipped; else the outcome is an    *)
(* uploaded object or one of the failures, and the next upload is due one  *)
(* frequency later in both cases.                                          *)
(***************************************************************************)
UploadOutcomes(controller, config, frequency, local, objs, ts, mtime) ==
  IF ts < controller.lastUpload + frequency
  THEN [uploaded : {FALSE}, next : {controller.lastUpload + frequency},
        objects : {objs}]
  ELSE [uploaded : {TRUE}, next : {ts + frequency},
        objects : {Put(objs, NewObject(config, ts, mtime, TRUE))}]
       \cup
       [uploaded : {FALSE}, next : {ts + frequency},
        objects : FailedUploads(config, local, objs, ts, mtime)]

-----------------------------------------------------------------------------
(* DeleteObsoleteSnapshots                                                 *)

\* What if: the listing is sorted by increasing modification time.
IsOldest(kept, objs, retain) ==
  /\ kept \subseteq objs
  /\ Cardinality(kept) = retain
  /\ \A k \in kept, o \in objs \ kept : k.mtime <= o.mtime

(***************************************************************************)
(* snapshots[:retain] of the listing sorted by decreasing modification     *)
(* time.  The sort is not stable: ties may fall on either side.            *)
(***************************************************************************)
IsNewest(kept, objs, retain) ==
  /\ kept \subseteq objs
  /\ Cardinality(kept) = retain
  /\ \A k \in kept, o \in objs \ kept : k.mtime >= o.mtime

\* What if: snapshots[retain-1:] is deleted.
DeleteOutcomesOffByOne(objs, retain) ==
  IF retain < 1 \/ Cardinality(objs) <= retain
  THEN {objs}
  ELSE {left \in SUBSET objs :
          \E kept \in SUBSET left : IsNewest(kept, objs, retain - 1)}

(***************************************************************************)
(* Every obsolete object is deleted, or its deletion failed and it stays;  *)
(* when the listing fails they all stay.                                   *)
(***************************************************************************)
DeleteOutcomes(objs, retain) ==
  IF retain < 1 \/ Cardinality(objs) <= retain
  THEN {objs}
  ELSE {left \in SUBSET objs :
          \E kept \in SUBSET left : IsNewest(kept, objs, retain)}

=============================================================================
