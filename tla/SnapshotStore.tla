--------------------------- MODULE SnapshotStore ----------------------------
(***************************************************************************)
(* What the storages promise a user who may have to restore: each location *)
(* offers a set of timestamps it can restore, a new snapshot is added to   *)
(* it, older ones may go, and they go only in the step that brings a newer *)
(* one.  StorageManager implements this specification.                     *)
(***************************************************************************)
EXTENDS Naturals

CONSTANT Locations

VARIABLES restorable,  \* [Locations -> SUBSET Nat]
          current      \* timestamp of the snapshot being distributed, or 0

vars == <<restorable, current>>

Init == /\ restorable = [l \in Locations |-> {}]
        /\ current = 0

\* A snapshot newer than everything a location holds starts its round.
Begin == /\ current = 0
         /\ current' \in Nat \ {0}
         /\ \A l \in Locations : \A t \in restorable[l] : t < current'
         /\ UNCHANGED restorable

Save(l) == /\ current # 0
           /\ \E kept \in SUBSET restorable[l] :
                restorable' = [restorable EXCEPT ![l] = kept \cup {current}]
           /\ UNCHANGED current

\* The round is over, or the process died in it.
End == /\ current # 0
       /\ current' = 0
       /\ UNCHANGED restorable

Next == \/ Begin
        \/ \E l \in Locations : Save(l)
        \/ End

Spec == Init /\ [][Next]_vars

(***************************************************************************)
(* A timestamp that could be restored is replaced by the same or a newer   *)
(* one, never lost: the promise behind uploadSnapshot and                  *)
(* DeleteObsoleteSnapshots together.                                       *)
(***************************************************************************)
NothingLost ==
  [][\A l \in Locations : \A t \in restorable[l] :
       \E u \in restorable'[l] : u >= t]_vars

=============================================================================
