--------------------------- MODULE RetentionStore ---------------------------
(***************************************************************************)
(* What retain promises (README.md:501): each location has a store of its  *)
(* own.  Snapshots are added to it in the order of their times, and one of *)
(* them may go once as many younger ones as are to be retained were added. *)
(* No other location has a part in it.  StorageBackends, where several of  *)
(* them share a container, implements this specification.                  *)
(***************************************************************************)
EXTENDS Naturals, FiniteSets

CONSTANTS Locations,
          Times       \* the times of snapshots, natural numbers

VARIABLES retain,  \* [Locations -> Nat], 0 for all
          stored,  \* [Locations -> SUBSET Times], all that were ever added
          kept     \* [Locations -> SUBSET Times], those that are still there

vars == <<retain, stored, kept>>

Init == /\ retain \in [Locations -> Nat]
        /\ stored = [l \in Locations |-> {}]
        /\ kept = stored

Younger(l, t) == {u \in stored[l] : u > t}

Store(l) == /\ \E t \in Times :
                 /\ \A u \in stored[l] : u < t
                 /\ stored' = [stored EXCEPT ![l] = @ \cup {t}]
                 /\ kept' = [kept EXCEPT ![l] = @ \cup {t}]
            /\ UNCHANGED retain

Remove(l) == /\ retain[l] > 0
             /\ \E t \in kept[l] :
                  /\ Cardinality(Younger(l, t)) >= retain[l]
                  /\ kept' = [kept EXCEPT ![l] = @ \ {t}]
             /\ UNCHANGED <<retain, stored>>

Next == \E l \in Locations : Store(l) \/ Remove(l)

Spec == Init /\ [][Next]_vars

(***************************************************************************)
(* A user finds all snapshots of a location, or at least as many as are to *)
(* be retained: the promise behind the clean-ups of all agents together.   *)
(***************************************************************************)
EnoughAreKept ==
  \A l \in Locations :
    \/ kept[l] = stored[l]
    \/ retain[l] > 0 /\ Cardinality(kept[l]) >= retain[l]

=============================================================================
