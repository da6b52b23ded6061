------------------------ MODULE RetentionStoreProofs ------------------------
(***************************************************************************)
(* That a snapshot goes only after enough younger ones were added implies  *)
(* that enough of them are there.                                          *)
(***************************************************************************)
EXTENDS RetentionStore, FiniteSetTheorems, WellFoundedInduction, TLAPS

StoreOK ==
  /\ retain \in [Locations -> Nat]
  /\ stored \in [Locations -> SUBSET Times]
  /\ kept \in [Locations -> SUBSET Times]
  /\ \A l \in Locations : IsFiniteSet(stored[l]) /\ kept[l] \subseteq stored[l]

\* What is gone was not among the most recent.
GoneWereOld ==
  \A l \in Locations : \A t \in stored[l] \ kept[l] :
    retain[l] > 0 /\ Cardinality(Younger(l, t)) >= retain[l]

LEMMA YoungerIsFinite ==
  ASSUME StoreOK, NEW l \in Locations, NEW t
  PROVE  IsFiniteSet(Younger(l, t)) /\ Cardinality(Younger(l, t)) \in Nat
  <1>1. Younger(l, t) \subseteq stored[l]
    BY DEF Younger
  <1>2. QED
    BY <1>1, FS_Subset, FS_CardinalityType DEF StoreOK

LEMMA Invariance == Spec => [](StoreOK /\ GoneWereOld)
  <1>1. Init => StoreOK /\ GoneWereOld
    <2>1. Init => StoreOK
      BY FS_EmptySet DEF Init, StoreOK
    <2>2. Init => GoneWereOld
      BY DEF Init, GoneWereOld
    <2>3. QED
      BY <2>1, <2>2
  <1>2. ASSUME StoreOK, GoneWereOld, [Next]_vars
        PROVE  StoreOK' /\ GoneWereOld'
    <2>1. ASSUME NEW l \in Locations, Store(l)
          PROVE  StoreOK' /\ GoneWereOld'
      <3>1. PICK t \in Times :
              /\ \A u \in stored[l] : u < t
              /\ stored' = [stored EXCEPT ![l] = @ \cup {t}]
              /\ kept' = [kept EXCEPT ![l] = @ \cup {t}]
        BY <2>1 DEF Store
      <3>2. UNCHANGED retain
        BY <2>1 DEF Store
      <3>3. IsFiniteSet(stored[l] \cup {t})
        BY <1>2, FS_AddElement DEF StoreOK
      <3>4. StoreOK'
        BY <1>2, <3>1, <3>2, <3>3 DEF StoreOK
      <3>5. ASSUME NEW k \in Locations, NEW u \in stored'[k] \ kept'[k]
            PROVE  retain[k] > 0 /\ Cardinality(Younger(k, u)') >= retain[k]
        <4>1. u \in stored[k] \ kept[k]
          BY <1>2, <3>1, <3>5 DEF StoreOK
        <4>2. retain[k] > 0 /\ Cardinality(Younger(k, u)) >= retain[k]
          BY <1>2, <4>1 DEF GoneWereOld
        <4>3. Younger(k, u) \subseteq Younger(k, u)'
          BY <1>2, <3>1 DEF Younger, StoreOK
        <4>4. IsFiniteSet(Younger(k, u)') /\ Cardinality(Younger(k, u)') \in Nat
          <5>1. Younger(k, u)' \subseteq stored'[k]
            BY DEF Younger
          <5>2. QED
            BY <3>4, <5>1, FS_Subset, FS_CardinalityType DEF StoreOK
        <4>5. /\ Cardinality(Younger(k, u)) \in Nat
              /\ Cardinality(Younger(k, u)) <= Cardinality(Younger(k, u)')
          BY <1>2, <4>3, <4>4, YoungerIsFinite, FS_Subset
        <4>6. QED
          BY <1>2, <4>2, <4>4, <4>5 DEF StoreOK
      <3>6. QED
        BY <3>2, <3>4, <3>5 DEF GoneWereOld
    <2>2. ASSUME NEW l \in Locations, Remove(l)
          PROVE  StoreOK' /\ GoneWereOld'
      <3>1. PICK t \in kept[l] :
              /\ Cardinality(Younger(l, t)) >= retain[l]
              /\ kept' = [kept EXCEPT ![l] = @ \ {t}]
        BY <2>2 DEF Remove
      <3>2. retain[l] > 0 /\ UNCHANGED <<retain, stored>>
        BY <2>2 DEF Remove
      <3>3. StoreOK'
        BY <1>2, <3>1, <3>2 DEF StoreOK
      <3>4. \A k \in Locations : \A u : Younger(k, u)' = Younger(k, u)
        BY <3>2 DEF Younger
      <3>5. \A k \in Locations : \A u \in stored'[k] \ kept'[k] :
              u \in stored[k] \ kept[k] \/ (k = l /\ u = t)
        BY <1>2, <3>1, <3>2 DEF StoreOK
      <3>6. QED
        BY <1>2, <3>1, <3>2, <3>3, <3>4, <3>5 DEF GoneWereOld
    <2>3. CASE UNCHANGED vars
      BY <1>2, <2>3 DEF vars, StoreOK, GoneWereOld, Younger
    <2>4. QED
      BY <1>2, <2>1, <2>2, <2>3 DEF Next
  <1>3. QED
    BY <1>1, <1>2, PTL DEF Spec

\* The youngest of a set of snapshots that were added.
LEMMA YoungestExists ==
  ASSUME Times \subseteq Nat, StoreOK,
         NEW l \in Locations, NEW T \in SUBSET stored[l], T # {}
  PROVE  \E t \in T : \A u \in T : u <= t
  <1> DEFINE after == {Cardinality(Younger(l, t)) : t \in T}
  <1>1. after \subseteq Nat /\ after # {}
    BY YoungerIsFinite
  <1>2. \E n \in after : \A m \in after : ~(<<m, n>> \in OpToRel(<, Nat))
    BY <1>1, NatLessThanWellFounded, WFMin
  <1>3. PICK n \in after : \A m \in after : ~(m < n)
    BY <1>1, <1>2 DEF OpToRel
  <1>4. PICK t \in T : n = Cardinality(Younger(l, t))
    BY <1>3
  <1>5. ASSUME NEW u \in T
        PROVE  u <= t
    <2>1. t \in Nat /\ u \in Nat
      BY DEF StoreOK
    <2>2. ASSUME u > t
          PROVE  FALSE
      <3>1. Younger(l, u) \subseteq Younger(l, t)
        <4>1. ASSUME NEW v \in stored[l], v > u
              PROVE  v > t
          <5>1. v \in Nat
            BY DEF StoreOK
          <5>2. QED
            BY <2>1, <2>2, <4>1, <5>1
        <4>2. QED
          BY <4>1 DEF Younger
      <3>2. u \in Younger(l, t) /\ u \notin Younger(l, u)
        BY <2>1, <2>2 DEF Younger
      <3>3. Cardinality(Younger(l, u)) < Cardinality(Younger(l, t))
        BY <3>1, <3>2, YoungerIsFinite, FS_Subset
      <3>4. Cardinality(Younger(l, u)) \in after
        OBVIOUS
      <3>5. QED
        BY <1>3, <1>4, <3>3, <3>4
    <2>3. QED
      BY <2>1, <2>2
  <1>6. QED
    BY <1>5

(***************************************************************************)
(* Whatever implements RetentionStore leaves each location at least retain *)
(* snapshots, or all of them: those younger than the youngest that is gone *)
(* are enough, and none of them is gone.                                   *)
(***************************************************************************)
THEOREM EnoughSurvive ==
  ASSUME Times \subseteq Nat
  PROVE  Spec => []EnoughAreKept
  <1>1. ASSUME StoreOK, GoneWereOld, NEW l \in Locations, kept[l] # stored[l]
        PROVE  retain[l] > 0 /\ Cardinality(kept[l]) >= retain[l]
    <2> DEFINE gone == stored[l] \ kept[l]
    <2>1. gone # {} /\ gone \subseteq stored[l]
      BY <1>1 DEF StoreOK
    <2>2. PICK t \in gone : \A u \in gone : u <= t
      BY <1>1, <2>1, YoungestExists
    <2>3. retain[l] > 0 /\ Cardinality(Younger(l, t)) >= retain[l]
      BY <1>1, <2>2 DEF GoneWereOld
    <2>4. Younger(l, t) \subseteq kept[l]
      <3>1. \A u \in stored[l] : u \in Nat
        BY <1>1 DEF StoreOK
      <3>2. \A u \in gone : ~(u > t)
        BY <2>1, <2>2, <3>1
      <3>3. QED
        BY <3>2 DEF Younger
    <2>5. IsFiniteSet(kept[l]) /\ Cardinality(kept[l]) \in Nat
      BY <1>1, FS_Subset, FS_CardinalityType DEF StoreOK
    <2>6. /\ Cardinality(Younger(l, t)) \in Nat
          /\ Cardinality(Younger(l, t)) <= Cardinality(kept[l])
      BY <1>1, <2>4, <2>5, YoungerIsFinite, FS_Subset
    <2>7. QED
      BY <1>1, <2>3, <2>5, <2>6 DEF StoreOK
  <1>2. StoreOK /\ GoneWereOld => EnoughAreKept
    BY <1>1 DEF EnoughAreKept
  <1>3. QED
    BY <1>2, Invariance, PTL

=============================================================================
