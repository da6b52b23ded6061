------------------------ MODULE SnapshotStoreProofs -------------------------
(***************************************************************************)
(* The promise of SnapshotStore keeps what its users rely on.              *)
(***************************************************************************)
EXTENDS SnapshotStore, TLAPS

\* All that can be restored is a time, and none is later than the snapshot
\* being distributed.
NoneIsNewer ==
  /\ restorable \in [Locations -> SUBSET Nat]
  /\ current \in Nat
  /\ current # 0 => \A l \in Locations : \A t \in restorable[l] : t <= current

LEMMA NoneIsNewerInvariant == Spec => []NoneIsNewer
<1>1. Init => NoneIsNewer
  BY DEF Init, NoneIsNewer
<1>2. NoneIsNewer /\ [Next]_vars => NoneIsNewer'
  <2> SUFFICES ASSUME NoneIsNewer, [Next]_vars PROVE NoneIsNewer'
    OBVIOUS
  <2> USE DEF NoneIsNewer
  <2>1. CASE Begin
    BY <2>1 DEF Begin
  <2>2. ASSUME NEW l \in Locations, Save(l) PROVE NoneIsNewer'
    BY <2>2 DEF Save
  <2>3. CASE End
    BY <2>3 DEF End
  <2>4. CASE UNCHANGED vars
    BY <2>4 DEF vars
  <2> QED BY <2>1, <2>2, <2>3, <2>4 DEF Next
<1> QED BY <1>1, <1>2, PTL DEF Spec

(***************************************************************************)
(* Whatever implements SnapshotStore never loses a snapshot but to the     *)
(* same or a newer one in the same location.                               *)
(***************************************************************************)
THEOREM StoreLosesNothing == Spec => NothingLost
<1>1. NoneIsNewer /\ [Next]_vars =>
        [\A l \in Locations : \A t \in restorable[l] :
           \E u \in restorable'[l] : u >= t]_vars
  <2> SUFFICES ASSUME NoneIsNewer, Next,
                      NEW k \in Locations, NEW t \in restorable[k]
               PROVE  \E u \in restorable'[k] : u >= t
    OBVIOUS
  <2> USE DEF NoneIsNewer
  <2>1. ASSUME NEW l \in Locations, Save(l)
        PROVE  \E u \in restorable'[k] : u >= t
    <3>1. CASE k = l
      <4>1. current \in restorable'[k] /\ current >= t
        BY <2>1, <3>1 DEF Save
      <4> QED BY <4>1
    <3>2. CASE k # l
      BY <2>1, <3>2 DEF Save
    <3> QED BY <3>1, <3>2
  <2>2. CASE Begin \/ End
    BY <2>2 DEF Begin, End
  <2> QED BY <2>1, <2>2 DEF Next
<1> QED BY <1>1, NoneIsNewerInvariant, PTL DEF Spec, NothingLost

=============================================================================
