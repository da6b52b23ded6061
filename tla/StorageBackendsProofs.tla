----------------------- MODULE StorageBackendsProofs ------------------------
(***************************************************************************)
(* Proofs about StorageBackends for any number of agents, any mixture of   *)
(* backends, names and retentions, any page size and any number of         *)
(* uploads.  Where the listings of the locations tell their keys apart no  *)
(* agent's clean-up costs another one a snapshot.                          *)
(***************************************************************************)
EXTENDS StorageBackends, SequenceTheorems, FiniteSetTheorems, TLAPS

-----------------------------------------------------------------------------
(* The invariant                                                           *)

\* Objects are told apart by the time of their upload, and known to the
\* history of the location that stored them.
ObjectsInv ==
  /\ IsFiniteSet(objects)
  /\ \A o \in objects :
       /\ o.owner \in Locations
       /\ o.mtime \in stored[o.owner]
       /\ o.key = Key(setup[o.owner], o.mtime)
  /\ \A o, p \in objects : o.mtime = p.mtime => o = p

\* Snapshots of l that were stored after the time t.
StoredAfter(l, t) == {u \in stored[l] : u > t}

\* A clean-up is about to delete obsolete snapshots of its own location.
ObsoleteInv ==
  \A l \in Locations :
    /\ pc[l] # "idle" => setup[l].retain > 0
    /\ \A o \in obsolete[l] :
         /\ o.owner = l
         /\ Cardinality(StoredAfter(l, o.mtime)) >= setup[l].retain

\* What the clean-up of l leaves if no request fails.
Remaining(l) == Own(l) \ obsolete[l]

\* As long as nothing fails the clean-up is on its way to the retention.
CleanInv ==
  \A l \in Locations : clean[l] =>
    /\ pc[l] # "list"
    /\ Cardinality(Remaining(l)) <= setup[l].retain

IInv ==
  /\ TypeOK
  /\ ObjectsInv
  /\ TellsApart(setup) => ObsoleteInv /\ MostRecentAreKept /\ CleanInv

-----------------------------------------------------------------------------
(* Sets of objects                                                         *)

LEMMA StoredIsFinite ==
  ASSUME TypeOK, NEW l \in Locations, NEW t
  PROVE  IsFiniteSet(StoredAfter(l, t))
  <1>1. clock \in Int
    BY SetupsAssumption DEF TypeOK
  <1>2. IsFiniteSet(1..clock)
    BY <1>1, FS_Interval
  <1>3. StoredAfter(l, t) \subseteq 1..clock
    BY DEF StoredAfter, TypeOK
  <1>4. QED
    BY <1>2, <1>3, FS_Subset

\* Objects of one location, all younger than t, are no more than the
\* snapshots it has stored since.
LEMMA YoungerAreStored ==
  ASSUME TypeOK, ObjectsInv, NEW l \in Locations, NEW t,
         NEW kept \in SUBSET Own(l), \A k \in kept : k.mtime > t
  PROVE  Cardinality(kept) <= Cardinality(StoredAfter(l, t))
  <1> DEFINE f == [k \in kept |-> k.mtime]
  <1>1. f \in [kept -> StoredAfter(l, t)]
    BY DEF Own, ObjectsInv, StoredAfter
  <1>2. \A j, k \in kept : f[j] = f[k] => j = k
    BY DEF Own, ObjectsInv
  <1>3. f \in Injection(kept, StoredAfter(l, t))
    BY <1>1, <1>2 DEF Injection, IsInjective
  <1>4. QED
    BY <1>3, StoredIsFinite, FS_Injection

\* The keys that a location tells from the others' are those it lists.
LEMMA ListsItsOwn ==
  ASSUME TypeOK, ObjectsInv, TellsApart(setup),
         NEW l \in Locations, NEW listing \in Listings(setup[l])
  PROVE  /\ listing \subseteq Own(l)
         /\ Fits(setup[l]) => listing = Own(l)
  <1>1. PICK response \in Responses(setup[l]) :
          listing = {o \in response : Selects(setup[l], o.key)}
    BY DEF Listings
  <1>2. /\ response \subseteq InFolder(setup[l])
        /\ Fits(setup[l]) => response = InFolder(setup[l])
    BY <1>1 DEF Responses
  <1>3. ASSUME NEW o \in objects
        PROVE  o.owner = l <=> /\ IsPrefix(setup[l].folder, o.key)
                               /\ Selects(setup[l], o.key)
    <2>1. o.owner \in Locations /\ o.mtime \in 1..MaxUploads
      <3>1. o.mtime \in 1..clock /\ clock \in 0..MaxUploads
        BY DEF TypeOK
      <3>2. QED
        BY <3>1, SetupsAssumption DEF ObjectsInv
    <2>2. o.key = Key(setup[o.owner], o.mtime)
      BY DEF ObjectsInv
    <2>3. QED
      BY <2>1, <2>2 DEF TellsApart
  <1>4. QED
    BY <1>1, <1>2, <1>3 DEF InFolder, Own

-----------------------------------------------------------------------------
(* Every step preserves the invariant                                      *)

\* The clean-up has a list of obsolete snapshots while it deletes, and only
\* then.
LEMMA CutIsNotEmpty ==
  ASSUME NEW listing, NEW retain \in Nat, Cardinality(listing) \in Nat,
         ~(Cardinality(listing) <= retain),
         NEW kept \in SUBSET listing, IsNewest(kept, listing, retain)
  PROVE  listing \ kept # {}
  <1>1. Cardinality(kept) = retain
    BY DEF IsNewest
  <1>2. kept # listing
    BY <1>1
  <1>3. QED
    BY <1>2

LEMMA ListingIsFinite ==
  ASSUME ObjectsInv, NEW c, NEW listing \in Listings(c)
  PROVE  IsFiniteSet(listing) /\ Cardinality(listing) \in Nat
  <1>1. listing \subseteq objects
    BY DEF Listings, Responses, InFolder
  <1>2. QED
    BY <1>1, FS_Subset, FS_CardinalityType DEF ObjectsInv

\* An upload, successful or not, adds the snapshot to the container and to
\* the history of its location, or nothing to both.
Adds(l) ==
  /\ objects' = objects \cup {Snapshot(l)}
  /\ stored' = [stored EXCEPT ![l] = @ \cup {clock + 1}]

LEMMA UploadEffect ==
  ASSUME TypeOK, NEW l \in Locations, Upload(l) \/ UploadFails(l)
  PROVE  /\ clock < MaxUploads /\ clock' = clock + 1
         /\ clean' = [clean EXCEPT ![l] = FALSE]
         /\ Adds(l) \/ UNCHANGED <<objects, stored>>
         /\ pc[l] = "idle"
         /\ \/ UNCHANGED pc
            \/ /\ setup[l].retain >= 1
               /\ pc' = [pc EXCEPT ![l] = "list"]
         /\ UNCHANGED <<setup, obsolete>>
  <1>1. CASE UploadFails(l)
    BY <1>1 DEF UploadFails, UploadBegins, Adds
  <1>2. CASE Upload(l)
    <2>1. setup[l].retain \in Nat
      BY SetupsAssumption DEF TypeOK
    <2>2. pc' = [pc EXCEPT ![l] = IF setup[l].retain < 1 THEN "idle" ELSE "list"]
          /\ pc[l] = "idle"
      BY <1>2 DEF Upload, UploadBegins
    <2>3. \/ UNCHANGED pc
          \/ setup[l].retain >= 1 /\ pc' = [pc EXCEPT ![l] = "list"]
      <3>1. CASE setup[l].retain < 1
        BY <2>2, <3>1 DEF TypeOK
      <3>2. CASE ~(setup[l].retain < 1)
        BY <2>1, <2>2, <3>2
      <3>3. QED
        BY <3>1, <3>2
    <2>4. QED
      BY <1>2, <2>2, <2>3 DEF Upload, UploadBegins, Adds
  <1>3. QED
    BY <1>1, <1>2

LEMMA BaseStep ==
  ASSUME TypeOK, ObjectsInv, [Next]_vars
  PROVE  TypeOK' /\ ObjectsInv'
  <1>1. MaxUploads \in Nat /\ clock \in Nat
    BY SetupsAssumption DEF TypeOK
  <1>2. ASSUME NEW l \in Locations, Upload(l) \/ UploadFails(l)
        PROVE  TypeOK' /\ ObjectsInv'
    <2>1. /\ clock < MaxUploads /\ clock' = clock + 1
          /\ clean' = [clean EXCEPT ![l] = FALSE]
          /\ Adds(l) \/ UNCHANGED <<objects, stored>>
          /\ pc[l] = "idle"
          /\ \/ UNCHANGED pc
             \/ pc' = [pc EXCEPT ![l] = "list"]
          /\ UNCHANGED <<setup, obsolete>>
      BY <1>2, UploadEffect
    <2>2. 1..clock \subseteq 1..clock' /\ clock + 1 \in 1..clock'
      BY <1>1, <2>1
    <2>3. /\ Snapshot(l).owner = l /\ Snapshot(l).mtime = clock + 1
          /\ Snapshot(l).key = Key(setup[l], Snapshot(l).mtime)
      BY DEF Snapshot
    <2>4. \A o \in objects' : o.owner \in Locations /\ o.mtime \in 1..clock'
      BY <2>1, <2>2, <2>3 DEF TypeOK, Adds
    <2>5. stored' \in [Locations -> SUBSET (1..clock')]
      BY <2>1, <2>2 DEF TypeOK, Adds
    <2>6. \A m \in Locations : pc'[m] = "delete" <=> obsolete'[m] # {}
      BY <2>1 DEF TypeOK
    <2>7. clock' \in 0..MaxUploads
      BY <1>1, <2>1
    <2>8. TypeOK'
      BY <2>1, <2>4, <2>5, <2>6, <2>7 DEF TypeOK
    <2>9. CASE UNCHANGED <<objects, stored>>
      BY <2>1, <2>8, <2>9 DEF ObjectsInv
    <2>10. CASE Adds(l)
      <3>1. IsFiniteSet(objects')
        BY <2>10, FS_AddElement DEF Adds, ObjectsInv
      <3>2. \A m \in Locations : stored[m] \subseteq stored'[m]
        BY <2>10 DEF Adds, TypeOK
      <3>3. clock + 1 \in stored'[l]
        BY <2>10 DEF Adds, TypeOK
      <3>4. \A o \in objects : o.mtime # clock + 1
        BY <1>1 DEF TypeOK
      <3>5. \A o \in objects' : /\ o.owner \in Locations
                                /\ o.mtime \in stored'[o.owner]
                                /\ o.key = Key(setup[o.owner], o.mtime)
        BY <2>3, <2>10, <3>2, <3>3 DEF Adds, ObjectsInv
      <3>6. \A o, p \in objects' : o.mtime = p.mtime => o = p
        BY <2>3, <2>10, <3>4 DEF Adds, ObjectsInv
      <3>7. QED
        BY <2>1, <2>8, <3>1, <3>5, <3>6 DEF ObjectsInv
    <2>11. QED
      BY <2>1, <2>9, <2>10
  <1>3. ASSUME UNCHANGED <<setup, objects, clock, stored>>
        PROVE  ObjectsInv'
    BY <1>3 DEF ObjectsInv
  <1>4. ASSUME NEW l \in Locations, List(l)
        PROVE  TypeOK' /\ ObjectsInv'
    <2>1. PICK listing \in Listings(setup[l]) :
            IF Cardinality(listing) <= setup[l].retain
            THEN /\ pc' = [pc EXCEPT ![l] = "idle"]
                 /\ UNCHANGED obsolete
            ELSE \E kept \in SUBSET listing :
                   /\ IsNewest(kept, listing, setup[l].retain)
                   /\ pc' = [pc EXCEPT ![l] = "delete"]
                   /\ obsolete' = [obsolete EXCEPT ![l] = listing \ kept]
      BY <1>4 DEF List
    <2>2. clean' \in [Locations -> BOOLEAN]
      BY <1>4 DEF List, TypeOK, Fits
    <2>3. setup[l].retain \in Nat /\ Cardinality(listing) \in Nat
      BY ListingIsFinite, SetupsAssumption DEF TypeOK
    <2>4. pc[l] = "list" /\ UNCHANGED <<setup, objects, clock, stored>>
      BY <1>4 DEF List
    <2>5. CASE Cardinality(listing) <= setup[l].retain
      BY <1>3, <2>1, <2>2, <2>4, <2>5 DEF TypeOK
    <2>6. CASE ~(Cardinality(listing) <= setup[l].retain)
      <3>1. PICK kept \in SUBSET listing :
              /\ IsNewest(kept, listing, setup[l].retain)
              /\ pc' = [pc EXCEPT ![l] = "delete"]
              /\ obsolete' = [obsolete EXCEPT ![l] = listing \ kept]
        BY <2>1, <2>6
      <3>2. listing \ kept # {}
        BY <2>3, <2>6, <3>1, CutIsNotEmpty
      <3>3. obsolete'[l] # {}
        BY <3>1, <3>2 DEF TypeOK
      <3>4. QED
        BY <1>3, <2>2, <2>4, <3>1, <3>3 DEF TypeOK
    <2>7. QED
      BY <2>5, <2>6
  <1>5. ASSUME NEW l \in Locations, ListFails(l)
        PROVE  TypeOK' /\ ObjectsInv'
    BY <1>3, <1>5 DEF ListFails, TypeOK
  <1>6. ASSUME NEW l \in Locations, Delete(l)
        PROVE  TypeOK' /\ ObjectsInv'
    <2>1. PICK o \in obsolete[l] :
            /\ obsolete' = [obsolete EXCEPT ![l] = @ \ {o}]
            /\ pc' = [pc EXCEPT ![l] = IF obsolete[l] = {o} THEN "idle" ELSE "delete"]
            /\ \/ objects' = objects \ {o} /\ UNCHANGED clean
               \/ clean' = [clean EXCEPT ![l] = FALSE] /\ UNCHANGED objects
      BY <1>6 DEF Delete
    <2>2. UNCHANGED <<setup, clock, stored>>
      BY <1>6 DEF Delete
    <2>3. objects' \subseteq objects
      BY <2>1
    <2>4. TypeOK'
      <3>1. \A m \in Locations : pc'[m] = "delete" <=> obsolete'[m] # {}
        <4>1. pc[l] = "delete"
          BY <1>6 DEF Delete
        <4>2. obsolete[l] # {o} => obsolete[l] \ {o} # {}
          BY <2>1
        <4>3. QED
          BY <2>1, <4>1, <4>2 DEF TypeOK
      <3>2. /\ pc' \in [Locations -> {"idle", "list", "delete"}]
            /\ clean' \in [Locations -> BOOLEAN]
            /\ DOMAIN obsolete' = Locations
        BY <2>1 DEF TypeOK
      <3>3. QED
        BY <2>2, <2>3, <3>1, <3>2 DEF TypeOK
    <2>5. IsFiniteSet(objects')
      BY <2>3, FS_Subset DEF ObjectsInv
    <2>6. QED
      BY <2>2, <2>3, <2>4, <2>5 DEF ObjectsInv
  <1>7. ASSUME NEW l \in Locations, Restart(l)
        PROVE  TypeOK' /\ ObjectsInv'
    BY <1>3, <1>7 DEF Restart, TypeOK
  <1>8. CASE UNCHANGED vars
    BY <1>3, <1>8 DEF vars, TypeOK
  <1>9. QED
    BY <1>2, <1>4, <1>5, <1>6, <1>7, <1>8 DEF Next

\* The history never forgets.
LEMMA HistoryGrows ==
  ASSUME TypeOK, ObjectsInv, [Next]_vars, NEW l \in Locations, NEW t
  PROVE  /\ stored[l] \subseteq stored'[l]
         /\ Cardinality(StoredAfter(l, t)) \in Nat
         /\ Cardinality(StoredAfter(l, t)') \in Nat
         /\ Cardinality(StoredAfter(l, t)) <= Cardinality(StoredAfter(l, t)')
  <1>1. UNCHANGED stored \/ \E m \in Locations : Adds(m)
    <2>1. ASSUME NEW m \in Locations, Upload(m) \/ UploadFails(m)
          PROVE  UNCHANGED stored \/ Adds(m)
      BY <2>1, UploadEffect
    <2>2. ASSUME NEW m \in Locations,
                 List(m) \/ ListFails(m) \/ Delete(m) \/ Restart(m)
          PROVE  UNCHANGED stored
      BY <2>2 DEF List, ListFails, Delete, Restart
    <2>3. QED
      BY <2>1, <2>2 DEF Next, vars
  <1>2. stored[l] \subseteq stored'[l]
    BY <1>1 DEF Adds, TypeOK
  <1>3. TypeOK'
    BY BaseStep
  <1>4. IsFiniteSet(StoredAfter(l, t)')
    <2>1. clock' \in Int
      BY <1>3, SetupsAssumption DEF TypeOK
    <2>2. IsFiniteSet(1..clock')
      BY <2>1, FS_Interval
    <2>3. StoredAfter(l, t)' \subseteq 1..clock'
      BY <1>3 DEF StoredAfter, TypeOK
    <2>4. QED
      BY <2>2, <2>3, FS_Subset
  <1>5. StoredAfter(l, t) \subseteq StoredAfter(l, t)'
    BY <1>2 DEF StoredAfter
  <1>6. QED
    BY <1>2, <1>4, <1>5, StoredIsFinite, FS_Subset, FS_CardinalityType

LEMMA ObsoleteStep ==
  ASSUME TypeOK, ObjectsInv, TellsApart(setup), ObsoleteInv, [Next]_vars
  PROVE  ObsoleteInv'
  <1>1. UNCHANGED setup
    BY DEF Next, Upload, UploadFails, List, ListFails, Delete, Restart, vars
  <1>2. \A m \in Locations : setup[m].retain \in Nat
    BY SetupsAssumption DEF TypeOK
  <1>3. ASSUME NEW m \in Locations,
               pc'[m] # "idle" => pc[m] # "idle" \/ setup[m].retain >= 1,
               obsolete'[m] \subseteq obsolete[m]
        PROVE  /\ pc'[m] # "idle" => setup[m].retain > 0
               /\ \A o \in obsolete'[m] :
                    /\ o.owner = m
                    /\ Cardinality(StoredAfter(m, o.mtime)') >= setup[m].retain
    <2>1. pc'[m] # "idle" => setup[m].retain > 0
      BY <1>2, <1>3 DEF ObsoleteInv
    <2>2. ASSUME NEW o \in obsolete'[m]
          PROVE  /\ o.owner = m
                 /\ Cardinality(StoredAfter(m, o.mtime)') >= setup[m].retain
      <3>1. /\ o.owner = m
            /\ Cardinality(StoredAfter(m, o.mtime)) >= setup[m].retain
        BY <1>3, <2>2 DEF ObsoleteInv
      <3>2. /\ Cardinality(StoredAfter(m, o.mtime)) \in Nat
            /\ Cardinality(StoredAfter(m, o.mtime)') \in Nat
            /\ Cardinality(StoredAfter(m, o.mtime))
                 <= Cardinality(StoredAfter(m, o.mtime)')
        BY HistoryGrows
      <3>3. QED
        BY <1>2, <3>1, <3>2
    <2>3. QED
      BY <2>1, <2>2
  <1>4. ASSUME \A m \in Locations :
                 /\ pc'[m] # "idle" => pc[m] # "idle" \/ setup[m].retain >= 1
                 /\ obsolete'[m] \subseteq obsolete[m]
        PROVE  ObsoleteInv'
    BY <1>1, <1>3, <1>4 DEF ObsoleteInv
  <1>5. ASSUME NEW l \in Locations, Upload(l) \/ UploadFails(l)
        PROVE  ObsoleteInv'
    <2>1. /\ \/ UNCHANGED pc
             \/ /\ setup[l].retain >= 1
                /\ pc' = [pc EXCEPT ![l] = "list"]
          /\ UNCHANGED obsolete
      BY <1>5, UploadEffect
    <2>2. QED
      BY <1>4, <2>1 DEF TypeOK
  <1>6. ASSUME NEW l \in Locations, ListFails(l) \/ Restart(l) \/ Delete(l)
        PROVE  ObsoleteInv'
    <2>1. CASE ListFails(l)
      BY <1>4, <2>1 DEF ListFails, TypeOK
    <2>2. CASE Restart(l)
      BY <1>4, <2>2 DEF Restart, TypeOK
    <2>3. CASE Delete(l)
      BY <1>4, <2>3 DEF Delete, TypeOK
    <2>4. QED
      BY <1>6, <2>1, <2>2, <2>3
  <1>7. ASSUME NEW l \in Locations, List(l)
        PROVE  ObsoleteInv'
    <2>1. pc[l] = "list" /\ UNCHANGED <<setup, objects, clock, stored>>
      BY <1>7 DEF List
    <2>2. PICK listing \in Listings(setup[l]) :
            IF Cardinality(listing) <= setup[l].retain
            THEN /\ pc' = [pc EXCEPT ![l] = "idle"]
                 /\ UNCHANGED obsolete
            ELSE \E kept \in SUBSET listing :
                   /\ IsNewest(kept, listing, setup[l].retain)
                   /\ pc' = [pc EXCEPT ![l] = "delete"]
                   /\ obsolete' = [obsolete EXCEPT ![l] = listing \ kept]
      BY <1>7 DEF List
    <2>3. CASE Cardinality(listing) <= setup[l].retain
      BY <1>4, <2>1, <2>2, <2>3 DEF TypeOK
    <2>4. CASE ~(Cardinality(listing) <= setup[l].retain)
      <3>1. PICK kept \in SUBSET listing :
              /\ IsNewest(kept, listing, setup[l].retain)
              /\ pc' = [pc EXCEPT ![l] = "delete"]
              /\ obsolete' = [obsolete EXCEPT ![l] = listing \ kept]
        BY <2>2, <2>4
      <3>2. listing \subseteq Own(l)
        BY ListsItsOwn
      <3>3. ASSUME NEW o \in listing \ kept
            PROVE  /\ o.owner = l
                   /\ Cardinality(StoredAfter(l, o.mtime)) >= setup[l].retain
        <4>1. o.owner = l
          BY <3>2 DEF Own
        <4>2. \A k \in Own(l) : k.mtime \in Int
          BY DEF Own, TypeOK
        <4>3. \A k \in kept : k.mtime > o.mtime
          <5>1. \A k \in kept : k.mtime >= o.mtime /\ k # o
            BY <3>1 DEF IsNewest
          <5>2. \A k \in kept : k.mtime # o.mtime
            BY <3>2, <5>1 DEF Own, ObjectsInv
          <5>3. QED
            BY <3>2, <4>2, <5>1, <5>2
        <4>4. Cardinality(kept) = setup[l].retain
          BY <3>1 DEF IsNewest
        <4>5. kept \in SUBSET Own(l)
          BY <3>2
        <4>6. setup[l].retain <= Cardinality(StoredAfter(l, o.mtime))
          BY <4>3, <4>4, <4>5, YoungerAreStored
        <4>7. QED
          BY <4>1, <4>6
      <3>4. /\ pc'[l] # "idle" => setup[l].retain > 0
            /\ \A o \in obsolete'[l] :
                 /\ o.owner = l
                 /\ Cardinality(StoredAfter(l, o.mtime)') >= setup[l].retain
        <4>1. setup[l].retain > 0
          BY <2>1 DEF ObsoleteInv
        <4>2. obsolete'[l] = listing \ kept
          BY <3>1 DEF TypeOK
        <4>3. \A t : StoredAfter(l, t)' = StoredAfter(l, t)
          BY <2>1 DEF StoredAfter
        <4>4. QED
          BY <3>3, <4>1, <4>2, <4>3
      <3>5. ASSUME NEW m \in Locations, m # l
            PROVE  /\ pc'[m] # "idle" => setup[m].retain > 0
                   /\ \A o \in obsolete'[m] :
                        /\ o.owner = m
                        /\ Cardinality(StoredAfter(m, o.mtime)') >= setup[m].retain
        <4>1. pc'[m] = pc[m] /\ obsolete'[m] = obsolete[m]
          BY <3>1, <3>5 DEF TypeOK
        <4>2. QED
          BY <1>3, <4>1
      <3>6. QED
        BY <1>1, <3>4, <3>5 DEF ObsoleteInv
    <2>5. QED
      BY <2>3, <2>4
  <1>8. CASE UNCHANGED vars
    BY <1>4, <1>8 DEF vars
  <1>9. QED
    BY <1>5, <1>6, <1>7, <1>8 DEF Next

LEMMA MostRecentStep ==
  ASSUME TypeOK, ObjectsInv, TellsApart(setup), ObsoleteInv, MostRecentAreKept,
         [Next]_vars
  PROVE  MostRecentAreKept'
  <1>1. UNCHANGED setup
    BY DEF Next, Upload, UploadFails, List, ListFails, Delete, Restart, vars
  <1>2. \A m \in Locations : setup[m].retain \in Nat
    BY SetupsAssumption DEF TypeOK
  <1>3. ASSUME NEW m \in Locations, NEW t, setup[m].retain > 0,
               Cardinality(StoredAfter(m, t)) >= setup[m].retain
        PROVE  Cardinality(StoredAfter(m, t)') >= setup[m].retain
    <2>1. /\ Cardinality(StoredAfter(m, t)) \in Nat
          /\ Cardinality(StoredAfter(m, t)') \in Nat
          /\ Cardinality(StoredAfter(m, t)) <= Cardinality(StoredAfter(m, t)')
      BY HistoryGrows
    <2>2. QED
      BY <1>2, <1>3, <2>1
  <1>4. ASSUME NEW m \in Locations, NEW t \in stored[m],
               \A o \in objects : o.owner = m /\ o.mtime = t =>
                 o \in objects' \/ \E l \in Locations : o \in obsolete[l]
                                     /\ pc[l] = "delete"
        PROVE  \/ /\ setup[m].retain > 0
                  /\ Cardinality(StoredAfter(m, t)') >= setup[m].retain
               \/ \E o \in Own(m)' : o.mtime = t
    <2>1. CASE /\ setup[m].retain > 0
               /\ Cardinality(StoredAfter(m, t)) >= setup[m].retain
      BY <1>3, <2>1
    <2>2. CASE \E o \in Own(m) : o.mtime = t
      <3>1. PICK o \in objects : o.owner = m /\ o.mtime = t
        BY <2>2 DEF Own
      <3>2. CASE o \in objects'
        BY <3>1, <3>2 DEF Own
      <3>3. CASE \E l \in Locations : o \in obsolete[l] /\ pc[l] = "delete"
        <4>1. PICK l \in Locations : o \in obsolete[l] /\ pc[l] = "delete"
          BY <3>3
        <4>2. /\ l = m
              /\ setup[m].retain > 0
              /\ Cardinality(StoredAfter(m, t)) >= setup[m].retain
          BY <3>1, <4>1 DEF ObsoleteInv
        <4>3. QED
          BY <1>3, <4>2
      <3>4. QED
        BY <1>4, <3>1, <3>2, <3>3
    <2>3. QED
      BY <2>1, <2>2 DEF MostRecentAreKept, StoredAfter
  <1>5. ASSUME \A m \in Locations : \A t \in stored'[m] :
                 \/ /\ setup[m].retain > 0
                    /\ Cardinality(StoredAfter(m, t)') >= setup[m].retain
                 \/ \E o \in Own(m)' : o.mtime = t
        PROVE  MostRecentAreKept'
    BY <1>1, <1>5 DEF MostRecentAreKept, StoredAfter
  <1>6. ASSUME UNCHANGED stored, objects \subseteq objects'
        PROVE  MostRecentAreKept'
    BY <1>4, <1>5, <1>6
  <1>7. ASSUME NEW l \in Locations, Upload(l) \/ UploadFails(l)
        PROVE  MostRecentAreKept'
    <2>1. CASE UNCHANGED <<objects, stored>>
      BY <1>6, <2>1
    <2>2. CASE Adds(l)
      <3>1. ASSUME NEW m \in Locations, NEW t \in stored'[m]
            PROVE  \/ /\ setup[m].retain > 0
                      /\ Cardinality(StoredAfter(m, t)') >= setup[m].retain
                   \/ \E o \in Own(m)' : o.mtime = t
        <4>1. CASE t \in stored[m]
          BY <1>4, <2>2, <4>1 DEF Adds
        <4>2. CASE t \notin stored[m]
          <5>1. m = l /\ t = clock + 1
            BY <2>2, <4>2 DEF Adds, TypeOK
          <5>2. /\ Snapshot(l) \in objects'
                /\ Snapshot(l).owner = l
                /\ Snapshot(l).mtime = clock + 1
            BY <2>2 DEF Adds, Snapshot
          <5>3. QED
            BY <5>1, <5>2 DEF Own
        <4>3. QED
          BY <4>1, <4>2
      <3>2. QED
        BY <1>5, <3>1
    <2>3. QED
      BY <1>7, <2>1, <2>2, UploadEffect
  <1>8. ASSUME NEW l \in Locations, List(l) \/ ListFails(l) \/ Restart(l)
        PROVE  MostRecentAreKept'
    BY <1>6, <1>8 DEF List, ListFails, Restart
  <1>9. ASSUME NEW l \in Locations, Delete(l)
        PROVE  MostRecentAreKept'
    <2>1. pc[l] = "delete" /\ UNCHANGED stored
      BY <1>9 DEF Delete
    <2>2. \A o \in objects : o \in objects' \/ o \in obsolete[l]
      BY <1>9 DEF Delete
    <2>3. QED
      BY <1>4, <1>5, <2>1, <2>2
  <1>10. CASE UNCHANGED vars
    BY <1>6, <1>10 DEF vars
  <1>11. QED
    BY <1>7, <1>8, <1>9, <1>10 DEF Next

LEMMA CleanStep ==
  ASSUME TypeOK, ObjectsInv, TellsApart(setup), CleanInv, [Next]_vars
  PROVE  CleanInv'
  <1>1. UNCHANGED setup
    BY DEF Next, Upload, UploadFails, List, ListFails, Delete, Restart, vars
  <1>2. \A m \in Locations : setup[m].retain \in Nat
    BY SetupsAssumption DEF TypeOK
  <1>3. ASSUME NEW m \in Locations,
               clean'[m] => /\ clean[m]
                            /\ pc[m] # "list" => pc'[m] # "list"
                            /\ Remaining(m)' \subseteq Remaining(m)
        PROVE  clean'[m] => /\ pc'[m] # "list"
                            /\ Cardinality(Remaining(m)') <= setup[m].retain
    <2>1. SUFFICES ASSUME clean'[m]
                   PROVE  /\ pc'[m] # "list"
                          /\ Cardinality(Remaining(m)') <= setup[m].retain
      OBVIOUS
    <2>2. /\ clean[m]
          /\ pc[m] # "list" => pc'[m] # "list"
          /\ Remaining(m)' \subseteq Remaining(m)
      BY <1>3, <2>1
    <2>3. pc[m] # "list" /\ Cardinality(Remaining(m)) <= setup[m].retain
      BY <2>2 DEF CleanInv
    <2>4. IsFiniteSet(Remaining(m))
      BY FS_Subset DEF Remaining, Own, ObjectsInv
    <2>5. /\ Cardinality(Remaining(m)') <= Cardinality(Remaining(m))
          /\ Cardinality(Remaining(m)) \in Nat
          /\ Cardinality(Remaining(m)') \in Nat
      BY <2>2, <2>4, FS_Subset, FS_CardinalityType
    <2>6. QED
      BY <1>2, <2>2, <2>3, <2>5
  <1>4. ASSUME \A m \in Locations : clean'[m] =>
                 /\ pc'[m] # "list"
                 /\ Cardinality(Remaining(m)') <= setup[m].retain
        PROVE  CleanInv'
    BY <1>1, <1>4 DEF CleanInv
  \* What a step does not touch stays as it is.
  <1>5. ASSUME NEW m \in Locations, clean'[m] = clean[m], pc'[m] = pc[m],
               obsolete'[m] = obsolete[m],
               \A o \in objects' : o.owner = m => o \in objects
        PROVE  clean'[m] => /\ pc'[m] # "list"
                            /\ Cardinality(Remaining(m)') <= setup[m].retain
    <2>1. Remaining(m)' \subseteq Remaining(m)
      BY <1>5 DEF Remaining, Own
    <2>2. QED
      BY <1>3, <1>5, <2>1
  <1>6. ASSUME NEW l \in Locations, Upload(l) \/ UploadFails(l)
        PROVE  CleanInv'
    <2>1. /\ clean' = [clean EXCEPT ![l] = FALSE]
          /\ Adds(l) \/ UNCHANGED objects
          /\ UNCHANGED pc \/ pc' = [pc EXCEPT ![l] = "list"]
          /\ UNCHANGED obsolete
      BY <1>6, UploadEffect
    <2>2. ~clean'[l]
      BY <2>1 DEF TypeOK
    <2>3. ASSUME NEW m \in Locations, m # l
          PROVE  /\ clean'[m] = clean[m] /\ pc'[m] = pc[m]
                 /\ obsolete'[m] = obsolete[m]
                 /\ \A o \in objects' : o.owner = m => o \in objects
      <3>1. Snapshot(l).owner = l
        BY DEF Snapshot
      <3>2. clean'[m] = clean[m]
        BY <2>1, <2>3 DEF TypeOK
      <3>3. QED
        BY <2>1, <2>3, <3>1, <3>2 DEF Adds, TypeOK
    <2>4. QED
      BY <1>4, <1>5, <2>2, <2>3
  <1>7. ASSUME NEW l \in Locations, List(l)
        PROVE  CleanInv'
    <2>1. pc[l] = "list" /\ UNCHANGED <<setup, objects, clock, stored>>
      BY <1>7 DEF List
    <2>2. PICK listing \in Listings(setup[l]) :
            IF Cardinality(listing) <= setup[l].retain
            THEN /\ pc' = [pc EXCEPT ![l] = "idle"]
                 /\ clean' = [clean EXCEPT ![l] = Fits(setup[l])]
                 /\ UNCHANGED obsolete
            ELSE \E kept \in SUBSET listing :
                   /\ IsNewest(kept, listing, setup[l].retain)
                   /\ pc' = [pc EXCEPT ![l] = "delete"]
                   /\ obsolete' = [obsolete EXCEPT ![l] = listing \ kept]
                   /\ clean' = [clean EXCEPT ![l] = Fits(setup[l])]
      BY <1>7 DEF List
    <2>3. /\ clean' = [clean EXCEPT ![l] = Fits(setup[l])]
          /\ pc'[l] # "list"
          /\ \A m \in Locations : m # l =>
               pc'[m] = pc[m] /\ obsolete'[m] = obsolete[m]
      BY <2>2 DEF TypeOK
    <2>4. \A m \in Locations : m # l => clean'[m] = clean[m]
      BY <2>3 DEF TypeOK
    <2>5. clean'[l] => Fits(setup[l])
      BY <2>3 DEF TypeOK
    <2>6. ASSUME Fits(setup[l])
          PROVE  Cardinality(Remaining(l)') <= setup[l].retain
      <3>1. listing = Own(l) /\ Own(l)' = Own(l)
        BY <2>1, <2>6, ListsItsOwn DEF Own
      <3>2. CASE Cardinality(listing) <= setup[l].retain
        <4>1. obsolete'[l] = {}
          BY <2>1, <2>2, <3>2 DEF TypeOK
        <4>2. Remaining(l)' = listing
          BY <3>1, <4>1 DEF Remaining
        <4>3. QED
          BY <3>2, <4>2
      <3>3. CASE ~(Cardinality(listing) <= setup[l].retain)
        <4>1. PICK kept \in SUBSET listing :
                /\ IsNewest(kept, listing, setup[l].retain)
                /\ obsolete' = [obsolete EXCEPT ![l] = listing \ kept]
          BY <2>2, <3>3
        <4>2. obsolete'[l] = listing \ kept
          BY <4>1 DEF TypeOK
        <4>3. Remaining(l)' = kept
          BY <3>1, <4>2 DEF Remaining
        <4>4. Cardinality(kept) = setup[l].retain
          BY <4>1 DEF IsNewest
        <4>5. QED
          BY <1>2, <4>3, <4>4
      <3>4. QED
        BY <3>2, <3>3
    <2>7. ASSUME NEW m \in Locations, m # l
          PROVE  clean'[m] => /\ pc'[m] # "list"
                              /\ Cardinality(Remaining(m)') <= setup[m].retain
      BY <1>5, <2>1, <2>3, <2>4, <2>7
    <2>8. clean'[l] => /\ pc'[l] # "list"
                       /\ Cardinality(Remaining(l)') <= setup[l].retain
      BY <2>3, <2>5, <2>6
    <2>9. QED
      BY <1>4, <2>7, <2>8
  <1>8. ASSUME NEW l \in Locations, ListFails(l)
        PROVE  CleanInv'
    <2>1. ~clean'[l]
      BY <1>8 DEF ListFails, CleanInv
    <2>2. ASSUME NEW m \in Locations, m # l
          PROVE  clean'[m] => /\ pc'[m] # "list"
                              /\ Cardinality(Remaining(m)') <= setup[m].retain
      BY <1>5, <1>8, <2>2 DEF ListFails, TypeOK
    <2>3. QED
      BY <1>4, <2>1, <2>2
  <1>9. ASSUME NEW l \in Locations, Restart(l)
        PROVE  CleanInv'
    <2>1. ~clean'[l]
      BY <1>9 DEF Restart, TypeOK
    <2>2. ASSUME NEW m \in Locations, m # l
          PROVE  clean'[m] => /\ pc'[m] # "list"
                              /\ Cardinality(Remaining(m)') <= setup[m].retain
      <3>1. clean'[m] = clean[m]
        BY <1>9, <2>2 DEF Restart, TypeOK
      <3>2. /\ pc'[m] = pc[m] /\ obsolete'[m] = obsolete[m]
            /\ objects' = objects
        BY <1>9, <2>2 DEF Restart, TypeOK
      <3>3. QED
        BY <1>5, <3>1, <3>2
    <2>3. QED
      BY <1>4, <2>1, <2>2
  <1>10. ASSUME NEW l \in Locations, Delete(l)
         PROVE  CleanInv'
    <2>1. PICK o \in obsolete[l] :
            /\ obsolete' = [obsolete EXCEPT ![l] = @ \ {o}]
            /\ pc' = [pc EXCEPT ![l] = IF obsolete[l] = {o} THEN "idle" ELSE "delete"]
            /\ \/ objects' = objects \ {o} /\ UNCHANGED clean
               \/ clean' = [clean EXCEPT ![l] = FALSE] /\ UNCHANGED objects
      BY <1>10 DEF Delete
    <2>2. clean'[l] => clean[l] /\ objects' = objects \ {o}
      BY <2>1 DEF TypeOK
    <2>3. /\ obsolete'[l] = obsolete[l] \ {o}
          /\ pc'[l] # "list"
          /\ objects' \subseteq objects
          /\ \A m \in Locations : m # l =>
               pc'[m] = pc[m] /\ obsolete'[m] = obsolete[m]
      BY <2>1 DEF TypeOK
    <2>4. \A m \in Locations : m # l => clean'[m] = clean[m]
      BY <2>1 DEF TypeOK
    <2>5. objects' = objects \ {o} => Remaining(l)' \subseteq Remaining(l)
      BY <2>3 DEF Remaining, Own
    <2>6. clean'[l] => /\ pc'[l] # "list"
                       /\ Cardinality(Remaining(l)') <= setup[l].retain
      BY <1>3, <2>2, <2>3, <2>5
    <2>7. ASSUME NEW m \in Locations, m # l
          PROVE  clean'[m] => /\ pc'[m] # "list"
                              /\ Cardinality(Remaining(m)') <= setup[m].retain
      BY <1>5, <2>3, <2>4, <2>7
    <2>8. QED
      BY <1>4, <2>6, <2>7
  <1>11. CASE UNCHANGED vars
    BY <1>4, <1>5, <1>11 DEF vars
  <1>12. QED
    BY <1>6, <1>7, <1>8, <1>9, <1>10, <1>11 DEF Next

-----------------------------------------------------------------------------
(* Names                                                                   *)

\* A prefix agrees with what it is a prefix of, part by part.
LEMMA PrefixAgrees ==
  ASSUME NEW P, NEW s \in Seq(P), NEW t \in Seq(P)
  PROVE  IsPrefix(s, t) <=> /\ Len(s) <= Len(t)
                            /\ \A i \in DOMAIN s : s[i] = t[i]
  <1>1. /\ Len(s) \in Nat /\ DOMAIN s = 1..Len(s)
        /\ Len(t) \in Nat /\ DOMAIN t = 1..Len(t)
    BY LenProperties
  <1>2. /\ SubSeq(s, 1, Len(s)) = s
    BY <1>1, SubSeqFull
  <1>3. CASE Len(s) <= Len(t)
    <2>1. /\ SubSeq(t, 1, Len(s)) \in Seq(P)
          /\ Len(SubSeq(t, 1, Len(s))) = Len(s)
          /\ \A i \in 1..Len(s) : SubSeq(t, 1, Len(s))[i] = t[i]
      BY <1>1, <1>3
    <2>2. s = SubSeq(t, 1, Len(s)) <=> \A i \in 1..Len(s) : s[i] = t[i]
      BY <1>1, <2>1, SeqEqual
    <2>3. QED
      BY <1>1, <1>2, <1>3, <2>2 DEF IsPrefix
  <1>4. QED
    BY <1>3 DEF IsPrefix

\* Sequences that part ways are not prefixes of one another, nor of anything
\* that begins with one.
LEMMA PartedIsNoPrefix ==
  ASSUME NEW P, NEW s \in Seq(P), NEW t \in Seq(P), NEW u \in Seq(P),
         PartWays(s, t)
  PROVE  ~IsPrefix(s, t \o u)
  <1> DEFINE key == t \o u
  <1>1. PICK i \in DOMAIN s \cap DOMAIN t : s[i] # t[i]
    BY DEF PartWays
  <1>2. t \o u \in Seq(P)
    BY ConcatProperties
  <1>3. Len(t) \in Nat /\ Len(u) \in Nat /\ i \in 1..Len(t)
    BY <1>1, LenProperties
  <1>4. (t \o u)[i] = t[i]
    BY <1>3, ConcatProperties
  <1>5. key \in Seq(P) /\ key[i] = t[i]
    BY <1>2, <1>4
  <1> HIDE DEF key
  <1>6. IsPrefix(s, key) => s[i] = key[i]
    BY <1>1, <1>5, PrefixAgrees
  <1>7. ~IsPrefix(s, key)
    BY <1>1, <1>5, <1>6
  <1>8. QED
    BY <1>7 DEF key

LEMMA ReverseFacts ==
  ASSUME NEW P, NEW s \in Seq(P)
  PROVE  /\ Reverse(s) \in Seq(P)
         /\ Len(Reverse(s)) = Len(s)
         /\ \A i \in 1..Len(s) : Reverse(s)[i] = s[(Len(s) - i) + 1]
  <1>1. \A i \in 1..Len(s) : (Len(s) - i) + 1 \in 1..Len(s)
    BY LenProperties
  <1>2. \A i \in 1..Len(s) : s[(Len(s) - i) + 1] \in P
    BY <1>1, ElementOfSeq
  <1>3. QED
    BY <1>2, LenProperties, IsASeq DEF Reverse

\* The parts of a key, read from its end, are those of its suffix first.
LEMMA EndOfConcat ==
  ASSUME NEW P, NEW s \in Seq(P), NEW t \in Seq(P), NEW i \in 1..Len(t)
  PROVE  Reverse(s \o t)[i] = Reverse(t)[i]
  <1>1. Len(s) \in Nat /\ Len(t) \in Nat
    BY LenProperties
  <1>2. /\ s \o t \in Seq(P)
        /\ Len(s \o t) = Len(s) + Len(t)
        /\ \A j \in 1..Len(s) + Len(t) :
             (s \o t)[j] = IF j <= Len(s) THEN s[j] ELSE t[j - Len(s)]
    BY ConcatProperties
  <1>3. /\ i \in 1..Len(s) + Len(t)
        /\ (Len(s) + Len(t) - i) + 1 \in 1..Len(s) + Len(t)
        /\ ~((Len(s) + Len(t) - i) + 1 <= Len(s))
        /\ ((Len(s) + Len(t) - i) + 1) - Len(s) = (Len(t) - i) + 1
    BY <1>1
  <1>4. Reverse(s \o t)[i] = (s \o t)[(Len(s) + Len(t) - i) + 1]
    BY <1>2, <1>3 DEF Reverse
  <1>5. Reverse(t)[i] = t[(Len(t) - i) + 1]
    BY ReverseFacts
  <1>6. QED
    BY <1>2, <1>3, <1>4, <1>5

LEMMA EndsAreSuffixes ==
  ASSUME NEW P, NEW s \in Seq(P), NEW t \in Seq(P)
  PROVE  IsSuffix(t, s \o t)
  <1>1. s \o t \in Seq(P) /\ Len(s \o t) = Len(s) + Len(t)
    BY ConcatProperties
  <1>2. Len(s) \in Nat /\ Len(t) \in Nat
    BY LenProperties
  <1>3. /\ Reverse(t) \in Seq(P) /\ Len(Reverse(t)) = Len(t)
        /\ Reverse(s \o t) \in Seq(P) /\ Len(Reverse(s \o t)) = Len(s \o t)
    BY <1>1, ReverseFacts
  <1>4. DOMAIN Reverse(t) = 1..Len(t)
    BY DEF Reverse
  <1>5. \A i \in DOMAIN Reverse(t) : Reverse(t)[i] = Reverse(s \o t)[i]
    BY <1>4, EndOfConcat
  <1>6. Len(Reverse(t)) <= Len(Reverse(s \o t))
    BY <1>1, <1>2, <1>3
  <1>7. QED
    BY <1>3, <1>5, <1>6, PrefixAgrees DEF IsSuffix

LEMMA PartedIsNoSuffix ==
  ASSUME NEW P, NEW s \in Seq(P), NEW t \in Seq(P), NEW u \in Seq(P),
         PartWays(Reverse(s), Reverse(t))
  PROVE  ~IsSuffix(s, u \o t)
  <1>1. /\ Reverse(s) \in Seq(P) /\ Reverse(t) \in Seq(P)
        /\ u \o t \in Seq(P) /\ Reverse(u \o t) \in Seq(P)
    BY ReverseFacts, ConcatProperties
  <1>2. PICK i \in DOMAIN Reverse(s) \cap DOMAIN Reverse(t) :
          Reverse(s)[i] # Reverse(t)[i]
    BY DEF PartWays
  <1>3. i \in 1..Len(t)
    BY <1>2 DEF Reverse
  <1>4. Reverse(u \o t)[i] = Reverse(t)[i]
    BY <1>3, EndOfConcat
  <1>5. QED
    BY <1>1, <1>2, <1>4, PrefixAgrees DEF IsSuffix

LEMMA BeginsArePrefixes ==
  ASSUME NEW P, NEW s \in Seq(P), NEW t \in Seq(P)
  PROVE  IsPrefix(s, s \o t)
  <1> DEFINE key == s \o t
  <1>1. Len(s) \in Nat /\ Len(t) \in Nat /\ DOMAIN s = 1..Len(s)
    BY LenProperties
  <1>2. /\ key \in Seq(P) /\ Len(key) = Len(s) + Len(t)
        /\ \A i \in 1..Len(s) + Len(t) :
             key[i] = IF i <= Len(s) THEN s[i] ELSE t[i - Len(s)]
    BY ConcatProperties
  <1> HIDE DEF key
  <1>3. Len(s) <= Len(key) /\ \A i \in DOMAIN s : s[i] = key[i]
    BY <1>1, <1>2
  <1>4. IsPrefix(s, key)
    BY <1>2, <1>3, PrefixAgrees
  <1>5. QED
    BY <1>4 DEF key

\* What occurs in a key contributes all its parts to it.
LEMMA PartsOfOccurrence ==
  ASSUME NEW P, NEW s \in Seq(P), NEW key \in Seq(P), Occurs(s, key)
  PROVE  Range(s) \subseteq Range(key)
  <1>1. PICK i \in 1..Len(key) : IsPrefix(s, SubSeq(key, i, Len(key)))
    BY DEF Occurs
  <1> DEFINE rest == SubSeq(key, i, Len(key))
  <1>2. /\ Len(key) \in Nat /\ DOMAIN key = 1..Len(key)
        /\ DOMAIN s = 1..Len(s) /\ Len(s) \in Nat
    BY LenProperties
  <1>3. \A j \in i..Len(key) : key[j] \in P
    BY <1>2, ElementOfSeq
  <1>4. /\ rest \in Seq(P) /\ Len(rest) = (Len(key) - i) + 1
        /\ \A j \in 1..(Len(key) - i) + 1 : rest[j] = key[(i + j) - 1]
    BY <1>2, <1>3, SubSeqProperties
  <1>5. IsPrefix(s, rest)
    BY <1>1
  <1> HIDE DEF rest
  <1>6. Len(s) <= Len(rest) /\ \A j \in DOMAIN s : s[j] = rest[j]
    BY <1>4, <1>5, PrefixAgrees
  <1>7. ASSUME NEW j \in DOMAIN s
        PROVE  s[j] \in Range(key)
    <2>1. j \in 1..(Len(key) - i) + 1 /\ (i + j) - 1 \in DOMAIN key
      BY <1>2, <1>4, <1>6
    <2>2. s[j] = key[(i + j) - 1]
      BY <1>4, <1>6, <2>1
    <2>3. QED
      BY <2>1, <2>2 DEF Range
  <1>8. QED
    BY <1>7 DEF Range

\* The prefix occurs where the folder ends.
LEMMA MiddlesOccur ==
  ASSUME NEW P, NEW s \in Seq(P), NEW t \in Seq(P), NEW u \in Seq(P), u # <<>>
  PROVE  Occurs(t, (s \o t) \o u)
  <1> DEFINE key == s \o (t \o u)
             rest == SubSeq(key, Len(s) + 1, Len(key))
  <1>1. (s \o t) \o u = key
    BY ConcatAssociative
  <1>2. t \o u \in Seq(P) /\ Len(t \o u) = Len(t) + Len(u)
    BY ConcatProperties
  <1>3. Len(s) \in Nat /\ Len(t) \in Nat /\ Len(u) \in Nat \ {0}
    BY LenProperties, EmptySeq
  <1>4. key \in Seq(P) /\ Len(key) = Len(s) + (Len(t) + Len(u))
    BY <1>2, ConcatProperties
  <1>5. rest = t \o u
    <2>1. \A v \in Seq(P) : SubSeq(s \o v, Len(s) + 1, Len(s \o v)) = v
      BY SubSeqOfConcat2, ConcatProperties
    <2>2. QED
      BY <1>2, <2>1, Zenon
  <1>6. IsPrefix(t, rest)
    BY <1>5, BeginsArePrefixes
  <1>7. Len(s) + 1 \in 1..Len(key)
    BY <1>3, <1>4
  <1> HIDE DEF key
  <1>8. Occurs(t, key)
    BY <1>6, <1>7, Zenon DEF Occurs
  <1>9. QED
    BY <1>1, <1>8

\* All parts of the names of a setup, and the timestamps.
Parts(s) ==
  Nat \cup UNION {Range(s[l].folder) \cup Range(s[l].prefix) \cup Range(s[l].suffix) :
                    l \in Locations}

LEMMA KeyFacts ==
  ASSUME NEW s \in Setups, NEW l \in Locations, NEW ts \in Nat
  PROVE  LET P == Parts(s) IN
         /\ s[l].folder \in Seq(P) /\ s[l].prefix \in Seq(P)
         /\ s[l].suffix \in Seq(P) /\ <<ts>> \in Seq(P)
         /\ s[l].folder \o s[l].prefix \in Seq(P)
         /\ <<ts>> \o s[l].suffix \in Seq(P)
         /\ <<ts>> \o s[l].suffix # <<>>
         /\ (s[l].folder \o s[l].prefix) \o <<ts>> \in Seq(P)
         /\ Key(s[l], ts) \in Seq(P)
         /\ Key(s[l], ts) = (s[l].folder \o s[l].prefix) \o (<<ts>> \o s[l].suffix)
         /\ Range(Key(s[l], ts)) =
              UNION {Range(s[l].folder), Range(s[l].prefix), Range(s[l].suffix), {ts}}
  <1> DEFINE P == Parts(s)
             f == s[l].folder
             p == s[l].prefix
             t == <<ts>>
             x == s[l].suffix
  <1>1. /\ Range(f) \subseteq P /\ Range(p) \subseteq P /\ Range(x) \subseteq P
        /\ ts \in P
    BY DEF Parts
  <1>2. f \in Seq(Range(f)) /\ p \in Seq(Range(p)) /\ x \in Seq(Range(x))
    BY SetupsAssumption
  <1>3. Key(s[l], ts) = ((f \o p) \o t) \o x
    BY DEF Key
  <1>4. Range(t) = {ts} /\ Len(t) = 1
    BY DEF Range
  <1>5. t \in Seq(P)
    BY <1>1
  <1> HIDE DEF P, f, p, t, x
  <1>6. f \in Seq(P) /\ p \in Seq(P) /\ x \in Seq(P)
    BY <1>1, <1>2, SeqMonotonic
  <1>7. /\ f \o p \in Seq(P) /\ Range(f \o p) = Range(f) \cup Range(p)
    BY <1>6, ConcatProperties, RangeConcatenation
  <1>8. /\ (f \o p) \o t \in Seq(P)
        /\ Range((f \o p) \o t) = Range(f) \cup Range(p) \cup Range(t)
    <2>1. (f \o p) \o t \in Seq(P)
      BY <1>5, <1>7, ConcatProperties
    <2>2. \A u \in Seq(P) : Range(u \o t) = Range(u) \cup Range(t)
      BY <1>5, RangeConcatenation
    <2>3. QED
      BY <1>7, <2>1, <2>2
  <1>9. /\ ((f \o p) \o t) \o x \in Seq(P)
        /\ Range(((f \o p) \o t) \o x) = Range(f) \cup Range(p) \cup Range(t) \cup Range(x)
    <2>1. ((f \o p) \o t) \o x \in Seq(P)
      BY <1>6, <1>8, ConcatProperties
    <2>2. \A u \in Seq(P) : Range(u \o x) = Range(u) \cup Range(x)
      BY <1>6, RangeConcatenation
    <2>3. QED
      BY <1>8, <2>1, <2>2
  <1>10. t \o x \in Seq(P) /\ Len(t \o x) = 1 + Len(x)
    <2>1. t \o x \in Seq(P) /\ Len(t \o x) = Len(t) + Len(x)
      BY <1>5, <1>6, ConcatProperties, Zenon
    <2>2. QED
      BY <1>4, <2>1, Zenon
  <1>11. t \o x # <<>>
    <2>1. Len(x) \in Nat
      BY <1>6, LenProperties
    <2>2. Len(t \o x) # 0
      BY <1>10, <2>1
    <2>3. QED
      BY <2>2, EmptySeq, Zenon
  <1>12. ((f \o p) \o t) \o x = (f \o p) \o (t \o x)
    <2>1. \A a, b, c \in Seq(P) : (a \o b) \o c = a \o (b \o c)
      BY ConcatAssociative
    <2>2. QED
      BY <1>5, <1>6, <1>7, <2>1, Zenon
  <1>13. /\ Key(s[l], ts) \in Seq(P)
         /\ Key(s[l], ts) = (f \o p) \o (t \o x)
         /\ Range(Key(s[l], ts)) = UNION {Range(f), Range(p), Range(x), {ts}}
    <2>1. UNION {Range(f), Range(p), Range(x), {ts}} =
            Range(f) \cup Range(p) \cup Range(t) \cup Range(x)
      BY <1>4, Zenon
    <2>2. QED
      BY <1>3, <1>9, <1>12, <2>1, Zenon
  <1>14. QED
    BY <1>5, <1>6, <1>7, <1>8, <1>10, <1>11, <1>13, Zenon DEF P, f, p, t, x

\* A key consists of the parts of the names and its timestamp.
LEMMA KeyParts ==
  \A s \in Setups, l \in Locations, ts \in Nat :
    Range(Key(s[l], ts)) =
      UNION {Range(s[l].folder), Range(s[l].prefix), Range(s[l].suffix), {ts}}
  <1>1. TAKE s \in Setups, l \in Locations, ts \in Nat
  <1>2. QED
    BY KeyFacts

\* A location lists what it has stored.
LEMMA OwnKeysAreListed ==
  ASSUME NEW s \in Setups, NEW l \in Locations, NEW ts \in Nat
  PROVE  /\ IsPrefix(s[l].folder, Key(s[l], ts))
         /\ Selects(s[l], Key(s[l], ts))
  <1> DEFINE P == Parts(s)
             f == s[l].folder
             p == s[l].prefix
             t == <<ts>>
             x == s[l].suffix
             key == Key(s[l], ts)
  <1>1. /\ f \in Seq(P) /\ p \in Seq(P) /\ x \in Seq(P)
        /\ f \o p \in Seq(P) /\ t \o x \in Seq(P) /\ t \o x # <<>>
        /\ (f \o p) \o t \in Seq(P)
        /\ key = (f \o p) \o (t \o x)
    BY KeyFacts
  <1>2. key = ((f \o p) \o t) \o x
    BY DEF Key
  <1>3. /\ s[l].kind \in Kinds
        /\ f # <<>> => s[l].kind = "aws"
    BY SetupsAssumption
  <1>4. (f = <<>>) => f \o p = p
    BY <1>1, ConcatEmptySeq
  <1> HIDE DEF P, f, p, t, x
  <1>5. key = f \o (p \o (t \o x)) /\ p \o (t \o x) \in Seq(P)
    <2> DEFINE end == t \o x
    <2>1. end \in Seq(P) /\ key = (f \o p) \o end
      BY <1>1
    <2> HIDE DEF end, key
    <2>2. f \in Seq(P) /\ p \in Seq(P)
      BY <1>1
    <2>3. (f \o p) \o end = f \o (p \o end)
      BY <2>1, <2>2, ConcatAssociative
    <2>4. p \o end \in Seq(P)
      BY <2>1, <2>2, ConcatProperties
    <2>5. QED
      BY <2>1, <2>3, <2>4 DEF end
  <1>6. IsPrefix(f, key)
    BY <1>1, <1>5, BeginsArePrefixes
  <1>7. IsSuffix(x, key)
    BY <1>1, <1>2, EndsAreSuffixes
  <1>8. Occurs(p, key)
    BY <1>1, MiddlesOccur
  <1>9. IsPrefix(f \o p, key)
    BY <1>1, BeginsArePrefixes
  <1>10. s[l].kind # "aws" => IsPrefix(p, key)
    BY <1>3, <1>4, <1>9
  <1> HIDE DEF key
  <1>11. Selects(s[l], key)
    BY <1>3, <1>6, <1>7, <1>8, <1>10
       DEF f, p, x, Kinds, Selects, SelectsLocal, SelectsS3, SelectsAws,
           SelectsAzure, SelectsGcp, SelectsSwift
  <1>12. QED
    BY <1>6, <1>11 DEF f, key

\* ... and not what it separates itself from.
LEMMA SeparatedKeysAreNotListed ==
  ASSUME NEW s \in Setups, NEW l \in Locations, NEW m \in Locations,
         Separates(s[l], s[m]), NEW ts \in 1..MaxUploads
  PROVE  ~(/\ IsPrefix(s[l].folder, Key(s[m], ts))
           /\ Selects(s[l], Key(s[m], ts)))
  <1> DEFINE P == Parts(s)
             c == s[l]
             key == Key(s[m], ts)
             begin == s[m].folder \o s[m].prefix
             end == <<ts>> \o s[m].suffix
  <1>1. ts \in Nat
    BY SetupsAssumption
  <1>2. /\ c.folder \in Seq(P) /\ c.prefix \in Seq(P) /\ c.suffix \in Seq(P)
    BY <1>1, KeyFacts
  <1>3. /\ begin \in Seq(P) /\ end \in Seq(P)
        /\ begin \o <<ts>> \in Seq(P) /\ s[m].suffix \in Seq(P)
        /\ key \in Seq(P) /\ key = begin \o end
    BY <1>1, KeyFacts
  <1>4. key = (begin \o <<ts>>) \o s[m].suffix
    BY DEF Key
  <1>5. c.kind \in Kinds
    BY SetupsAssumption
  <1>6. CASE PartWays(c.folder, begin)
    <2>1. ~IsPrefix(c.folder, key)
      BY <1>2, <1>3, <1>6, PartedIsNoPrefix
    <2>2. QED
      BY <2>1
  <1>7. CASE c.kind # "aws" /\ PartWays(c.prefix, begin)
    <2>1. ~IsPrefix(c.prefix, key)
      BY <1>2, <1>3, <1>7, PartedIsNoPrefix
    <2>2. QED
      BY <1>5, <1>7, <2>1
         DEF Kinds, Selects, SelectsLocal, SelectsS3, SelectsAzure, SelectsGcp,
             SelectsSwift
  <1>8. CASE /\ c.kind \in {"local", "s3", "aws"}
             /\ PartWays(Reverse(c.suffix), Reverse(s[m].suffix))
    <2>1. ~IsSuffix(c.suffix, key)
      BY <1>2, <1>3, <1>4, <1>8, PartedIsNoSuffix
    <2>2. QED
      BY <1>8, <2>1 DEF Selects, SelectsLocal, SelectsS3, SelectsAws
  <1>9. CASE /\ c.kind = "aws"
             /\ \E part \in Range(c.prefix) :
                  part \notin UNION {Range(s[m].folder), Range(s[m].prefix),
                                    Range(s[m].suffix), 1..MaxUploads}
    <2>1. Range(key) =
            UNION {Range(s[m].folder), Range(s[m].prefix), Range(s[m].suffix), {ts}}
      BY <1>1, KeyParts, Zenon
    <2>2. PICK part \in Range(c.prefix) :
            part \notin UNION {Range(s[m].folder), Range(s[m].prefix),
                              Range(s[m].suffix), 1..MaxUploads}
      BY <1>9
    <2>. HIDE DEF key
    <2>3. part \notin Range(key)
      BY <2>1, <2>2, Zenon
    <2>4. ~Occurs(c.prefix, key)
      <3>1. c.prefix \in Seq(P) /\ key \in Seq(P)
        BY <1>2, <1>3
      <3>. HIDE DEF P, c
      <3>2. Occurs(c.prefix, key) => Range(c.prefix) \subseteq Range(key)
        BY <3>1, PartsOfOccurrence
      <3>3. QED
        BY <2>2, <2>3, <3>2, Zenon
    <2>5. QED
      BY <1>9, <2>4 DEF Selects, SelectsAws, key
  <1>10. QED
    BY <1>6, <1>7, <1>8, <1>9 DEF Separates

(***************************************************************************)
(* What the theorems about snapshots ask of a configuration can be seen in *)
(* its names: if of every two locations folders, prefixes or suffixes part *)
(* ways where the one's listSnapshots looks at them, each location lists   *)
(* its own keys and no others, for every backend and every timestamp.      *)
(***************************************************************************)
THEOREM NamesTellApart ==
  ASSUME NEW s \in Setups, NamedApart(s)
  PROVE  TellsApart(s)
  <1>1. 1..MaxUploads \subseteq Nat
    BY SetupsAssumption
  <1>2. \A l \in Locations, ts \in 1..MaxUploads :
          IsPrefix(s[l].folder, Key(s[l], ts)) /\ Selects(s[l], Key(s[l], ts))
    BY <1>1, OwnKeysAreListed
  <1>3. \A l, m \in Locations : \A ts \in 1..MaxUploads : l # m =>
          ~(IsPrefix(s[l].folder, Key(s[m], ts)) /\ Selects(s[l], Key(s[m], ts)))
    BY SeparatedKeysAreNotListed DEF NamedApart
  <1>4. QED
    BY <1>2, <1>3 DEF TellsApart

(***************************************************************************)
(* ... and where azure, gcp or swift share a container and a prefix with   *)
(* another location, no suffix whatever keeps the other one's snapshots    *)
(* out of the listing: listSnapshots of these backends never looks at it.  *)
(***************************************************************************)
THEOREM IgnoredSuffixMixes ==
  ASSUME NEW s \in Setups, NEW l \in Locations, NEW m \in Locations, l # m,
         s[l].kind \in {"azure", "gcp", "swift"},
         s[l].prefix = s[m].prefix, s[m].folder = <<>>, MaxUploads > 0
  PROVE  ~TellsApart(s)
  <1> DEFINE key == Key(s[m], 1)
             end == <<1>> \o s[m].suffix
             P == Parts(s)
  <1>1. 1 \in 1..MaxUploads
    BY SetupsAssumption
  <1>2. /\ s[m].prefix \in Seq(P) /\ end \in Seq(P)
        /\ key = (s[m].folder \o s[m].prefix) \o end
    BY KeyFacts
  <1>3. key = s[l].prefix \o end
    BY <1>2, ConcatEmptySeq
  <1>4. IsPrefix(s[l].prefix, key)
    BY <1>2, <1>3, BeginsArePrefixes
  <1>5. s[l].folder = <<>>
    BY SetupsAssumption
  <1>6. key = s[l].folder \o key /\ key \in Seq(P) /\ s[l].folder \in Seq(P)
    <2>1. key \in Seq(P) /\ s[l].folder \in Seq(P)
      BY KeyFacts
    <2>2. <<>> \o key = key
      BY <2>1, ConcatEmptySeq
    <2>3. QED
      BY <1>5, <2>1, <2>2
  <1>7. IsPrefix(s[l].folder, key)
    BY <1>6, BeginsArePrefixes
  <1>8. Selects(s[l], key)
    BY <1>4 DEF Selects, SelectsAzure, SelectsGcp, SelectsSwift
  <1>9. QED
    BY <1>1, <1>7, <1>8 DEF TellsApart

-----------------------------------------------------------------------------
(* The theorems                                                            *)

LEMMA InitialIInv == Init => IInv
  <1>1. SUFFICES ASSUME Init PROVE IInv
    OBVIOUS
  <1>2. TypeOK
    <2>1. MaxUploads \in Nat
      BY SetupsAssumption
    <2>2. clean \in [Locations -> BOOLEAN]
      BY <1>1 DEF Init
    <2>3. QED
      BY <1>1, <2>1, <2>2 DEF Init, TypeOK
  <1>3. ObjectsInv
    BY <1>1, FS_EmptySet DEF Init, ObjectsInv
  <1>4. ObsoleteInv /\ MostRecentAreKept
    BY <1>1 DEF Init, ObsoleteInv, MostRecentAreKept
  <1>5. CleanInv
    BY <1>1 DEF Init, CleanInv
  <1>6. QED
    BY <1>2, <1>3, <1>4, <1>5 DEF IInv

LEMMA InductiveIInv == IInv /\ [Next]_vars => IInv'
  <1>1. SUFFICES ASSUME IInv, [Next]_vars PROVE IInv'
    OBVIOUS
  <1>2. UNCHANGED setup
    BY <1>1 DEF Next, Upload, UploadFails, List, ListFails, Delete, Restart, vars
  <1>3. TypeOK' /\ ObjectsInv'
    BY <1>1, BaseStep DEF IInv
  <1>4. ASSUME TellsApart(setup)
        PROVE  ObsoleteInv' /\ MostRecentAreKept' /\ CleanInv'
    BY <1>1, <1>4, ObsoleteStep, MostRecentStep, CleanStep DEF IInv
  <1>5. TellsApart(setup)' => TellsApart(setup)
    BY <1>2, Zenon
  <1>6. QED
    BY <1>3, <1>4, <1>5 DEF IInv

LEMMA AlwaysIInv == Spec => []IInv
  BY InitialIInv, InductiveIInv, PTL DEF Spec

(***************************************************************************)
(* Of every state: the owners and times of the objects are those of        *)
(* uploads that took place, and an agent is in its deletion loop exactly   *)
(* while there is a snapshot left to delete.                               *)
(***************************************************************************)
THEOREM TypeCorrect == Spec => []TypeOK
  <1>1. IInv => TypeOK
    BY DEF IInv
  <1>2. QED
    BY <1>1, AlwaysIInv, PTL

(***************************************************************************)
(* README.md:501 for any number of agents that share a container and any   *)
(* mixture of backends: if every location lists its own keys and no others *)
(* the retain most recent snapshots of each of them are never deleted,     *)
(* whichever requests fail, at whatever moment an agent dies, and however  *)
(* old a listing is by the time it is used.                                *)
(***************************************************************************)
THEOREM MostRecentSurvive == Spec => [](TellsApart(setup) => MostRecentAreKept)
  <1>1. IInv => (TellsApart(setup) => MostRecentAreKept)
    BY DEF IInv
  <1>2. QED
    BY <1>1, AlwaysIInv, PTL

(***************************************************************************)
(* ... and a clean-up in which nothing fails and that sees all there is    *)
(* leaves no more than retain snapshots, whatever earlier failures and     *)
(* crashes had left behind.                                                *)
(***************************************************************************)
THEOREM CleanUpsCatchUp ==
  Spec => [](TellsApart(setup) => CleanRoundLeavesRetain)
  <1>1. ASSUME IInv, TellsApart(setup), NEW l \in Locations,
               pc[l] = "idle", clean[l]
        PROVE  Cardinality(Own(l)) <= setup[l].retain
    <2>1. obsolete[l] = {}
      BY <1>1 DEF IInv, TypeOK
    <2>2. Remaining(l) = Own(l)
      BY <2>1 DEF Remaining
    <2>3. Cardinality(Remaining(l)) <= setup[l].retain
      BY <1>1 DEF IInv, CleanInv
    <2>4. QED
      BY <2>2, <2>3
  <1>2. IInv => (TellsApart(setup) => CleanRoundLeavesRetain)
    BY <1>1 DEF CleanRoundLeavesRetain
  <1>3. QED
    BY <1>2, AlwaysIInv, PTL

(***************************************************************************)
(* Both for configurations as users write them: names that part ways are   *)
(* all it takes for the two most recent snapshots, or however many retain  *)
(* says, to be there at every moment, and no others after a clean round.   *)
(***************************************************************************)
THEOREM NamesProtect ==
  Spec => [](NamedApart(setup) => MostRecentAreKept /\ CleanRoundLeavesRetain)
  <1>1. TypeOK => (NamedApart(setup) => TellsApart(setup))
    BY NamesTellApart DEF TypeOK
  <1>2. QED
    BY <1>1, TypeCorrect, MostRecentSurvive, CleanUpsCatchUp, PTL

-----------------------------------------------------------------------------
(* Every location has a store of its own                                   *)

KeptTimes(l) == {o.mtime : o \in Own(l)}

\* A location whose objects and history a step leaves alone.
LEMMA SameObjectsSameTimes ==
  ASSUME UNCHANGED <<setup, objects, stored>>
  PROVE  UNCHANGED Retention!vars
  BY Zenon DEF Retention!vars, Own

LEMMA SameCardinality == \A S : Retention!Cardinality(S) = Cardinality(S)
  BY DEF Retention!Cardinality, Cardinality

LEMMA AddsIsStore ==
  ASSUME IInv, NEW l \in Locations, Adds(l), UNCHANGED setup, clock < MaxUploads
  PROVE  Retention!Store(l)
  <1>1. clock \in Nat /\ MaxUploads \in Nat
    BY SetupsAssumption DEF IInv, TypeOK
  <1>2. clock + 1 \in 1..MaxUploads
    BY <1>1
  <1>3. \A u \in stored[l] : u < clock + 1
    BY <1>1 DEF IInv, TypeOK
  <1>4. /\ Snapshot(l).owner = l /\ Snapshot(l).mtime = clock + 1
        /\ objects' = objects \cup {Snapshot(l)}
    BY DEF Snapshot, Adds
  <1>5. \A m \in Locations :
          KeptTimes(m)' = IF m = l THEN KeptTimes(m) \cup {clock + 1} ELSE KeptTimes(m)
    BY <1>4 DEF KeptTimes, Own
  <1>6. [m \in Locations |-> KeptTimes(m)'] =
          [[m \in Locations |-> KeptTimes(m)] EXCEPT ![l] = @ \cup {clock + 1}]
    BY <1>5
  <1>7. stored' = [stored EXCEPT ![l] = @ \cup {clock + 1}]
    BY DEF Adds
  <1>8. QED
    BY <1>2, <1>3, <1>6, <1>7 DEF Retention!Store, KeptTimes

LEMMA DeleteIsRemove ==
  ASSUME IInv, TellsApart(setup), NEW l \in Locations, Delete(l)
  PROVE  Retention!Remove(l) \/ UNCHANGED Retention!vars
  <1>1. PICK o \in obsolete[l] : objects' = objects \ {o} \/ UNCHANGED objects
    BY DEF Delete
  <1>2. pc[l] = "delete" /\ UNCHANGED <<setup, stored>>
    BY DEF Delete
  <1>3. CASE UNCHANGED objects \/ o \notin objects
    <2>1. UNCHANGED objects
      BY <1>1, <1>3
    <2>2. QED
      BY <1>2, <2>1, SameObjectsSameTimes
  <1>4. CASE objects' = objects \ {o} /\ o \in objects
    <2>1. /\ o.owner = l
          /\ setup[l].retain > 0
          /\ Cardinality(StoredAfter(l, o.mtime)) >= setup[l].retain
      BY <1>2 DEF IInv, ObsoleteInv
    <2>2. o.mtime \in KeptTimes(l)
      BY <1>4, <2>1 DEF KeptTimes, Own
    <2>3. \A p \in objects : p # o => p.mtime # o.mtime
      BY <1>4 DEF IInv, ObjectsInv
    <2>4. \A m \in Locations :
            KeptTimes(m)' = IF m = l THEN KeptTimes(m) \ {o.mtime} ELSE KeptTimes(m)
      BY <1>4, <2>1, <2>3 DEF KeptTimes, Own
    <2>5. [m \in Locations |-> KeptTimes(m)'] =
            [[m \in Locations |-> KeptTimes(m)] EXCEPT ![l] = @ \ {o.mtime}]
      BY <2>4
    <2>6. QED
      BY <1>2, <2>1, <2>2, <2>5, SameCardinality
         DEF Retention!Remove, Retention!Younger, KeptTimes, StoredAfter
  <1>5. QED
    BY <1>1, <1>3, <1>4

(***************************************************************************)
(* Where the listings tell the locations apart each of them has a store of *)
(* its own: whatever the agents do to each other's listings and whatever   *)
(* fails, an upload is a Store, and a deletion that removes something a    *)
(* Remove of the agent's own location; all other steps change nothing.     *)
(***************************************************************************)
THEOREM RetentionImplemented == Spec /\ TellsApart(setup) => ImplementsRetention
  <1>1. Init => Retention!Init
    <2>1. SUFFICES ASSUME Init PROVE Retention!Init
      OBVIOUS
    <2>2. [l \in Locations |-> setup[l].retain] \in [Locations -> Nat]
      BY <2>1, SetupsAssumption DEF Init
    <2>3. \A l \in Locations : KeptTimes(l) = {}
      BY <2>1 DEF Init, KeptTimes, Own
    <2>4. stored = [l \in Locations |-> {}]
      BY <2>1 DEF Init
    <2>5. [l \in Locations |-> KeptTimes(l)] = stored
      BY <2>3, <2>4
    <2>6. QED
      BY <2>2, <2>4, <2>5 DEF Retention!Init, KeptTimes
  <1>2. ASSUME IInv, TellsApart(setup), [Next]_vars
        PROVE  [Retention!Next]_(Retention!vars)
    <2>1. ASSUME NEW l \in Locations, Upload(l) \/ UploadFails(l)
          PROVE  [Retention!Next]_(Retention!vars)
      <3>1. /\ clock < MaxUploads
            /\ Adds(l) \/ UNCHANGED <<objects, stored>>
            /\ UNCHANGED setup
        BY <1>2, <2>1, UploadEffect DEF IInv
      <3>2. CASE Adds(l)
        BY <1>2, <3>1, <3>2, AddsIsStore DEF Retention!Next
      <3>3. CASE UNCHANGED <<objects, stored>>
        BY <3>1, <3>3, SameObjectsSameTimes
      <3>4. QED
        BY <3>1, <3>2, <3>3
    <2>2. ASSUME NEW l \in Locations, List(l) \/ ListFails(l) \/ Restart(l)
          PROVE  [Retention!Next]_(Retention!vars)
      <3>1. UNCHANGED <<setup, objects, stored>>
        BY <2>2 DEF List, ListFails, Restart
      <3>2. QED
        BY <3>1, SameObjectsSameTimes
    <2>3. ASSUME NEW l \in Locations, Delete(l)
          PROVE  [Retention!Next]_(Retention!vars)
      BY <1>2, <2>3, DeleteIsRemove DEF Retention!Next
    <2>4. CASE UNCHANGED vars
      <3>1. UNCHANGED <<setup, objects, stored>>
        BY <2>4 DEF vars
      <3>2. QED
        BY <3>1, SameObjectsSameTimes
    <2>5. QED
      BY <1>2, <2>1, <2>2, <2>3, <2>4 DEF Next
  <1>3. TellsApart(setup) /\ [Next]_vars => TellsApart(setup)'
    <2>1. ASSUME [Next]_vars
          PROVE  UNCHANGED setup
      BY <2>1 DEF Next, Upload, UploadFails, List, ListFails, Delete, Restart, vars
    <2>2. QED
      BY <2>1, Zenon
  <1>4. QED
    BY <1>1, <1>2, <1>3, AlwaysIInv, PTL DEF Spec, ImplementsRetention, Retention!Spec

=============================================================================
