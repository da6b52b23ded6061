-------------------------- MODULE StorageBackends ---------------------------
(***************************************************************************)
(* internal/agent/storage/{local,s3,aws,azure,gcp,swift}.go under          *)
(* controller.go: what the six backends list, and what the clean-ups of    *)
(* several agents do to each other's snapshots when their locations share  *)
(* a directory, bucket or container (one agent per Vault cluster, say).    *)
(* A clean-up deletes what it has listed, one object after another, while  *)
(* the other agents upload and delete.                                     *)
(*                                                                         *)
(* Simplifications                                                         *)
(*   - A key is a sequence of parts: those of the folder, the name prefix  *)
(*     and the name suffix, and the timestamp, which gives every snapshot  *)
(*     a name of its own (StorageManager has the coarser formats).  No     *)
(*     prefix or suffix contains a slash.                                  *)
(*   - A snapshot is taken and stored at one instant: only the order of    *)
(*     the modification times counts.                                      *)
(*   - Agents upload as often as they like (frequencies: StorageManager).  *)
(***************************************************************************)
EXTENDS StorageOps, SequencesExt

CONSTANTS
  Locations,   \* one location of each agent, all in one container
  Setups,      \* the ways to configure them, see SetupsAssumption
  PageSize,    \* keys in one response to ListObjectsV2 (1000)
  MaxUploads   \* bound on the number of uploads

Kinds == {"local", "s3", "aws", "azure", "gcp", "swift"}

\* Only an aws location has a folder, its keyPrefix with a slash; the others
\* have the empty one.
ASSUME SetupsAssumption ==
  /\ \A s \in Setups : DOMAIN s = Locations
  /\ \A s \in Setups : \A l \in Locations :
       /\ s[l].kind \in Kinds
       /\ \A name \in {s[l].folder, s[l].prefix, s[l].suffix} :
            name \in Seq(Range(name))
       /\ s[l].folder # <<>> => s[l].kind = "aws"
       /\ s[l].retain \in Nat
  /\ PageSize \in Nat \ {0}
  /\ MaxUploads \in Nat

VARIABLES
  setup,     \* [Locations -> [kind, folder, prefix, suffix, retain]]
  objects,   \* in the container: [key, owner, mtime]
  clock,     \* number of uploads so far, and the time of the last one
  pc,        \* of each agent: "idle", "list", "delete"
  obsolete,  \* snapshots[retain:] that its loop has not visited yet
  stored,    \* history: the times of the objects it has stored
  clean      \* history: nothing went wrong since its last upload

vars == <<setup, objects, clock, pc, obsolete, stored, clean>>

-----------------------------------------------------------------------------
(* The listings                                                            *)

\* strings.Contains
Occurs(part, key) == \E i \in 1..Len(key) : IsPrefix(part, SubSeq(key, i, Len(key)))

(***************************************************************************)
(* The keys the listSnapshots of each backend returns.                     *)
(***************************************************************************)

\* Both ends of the name are looked at.
SelectsLocal(c, key) == IsPrefix(c.prefix, key) /\ IsSuffix(c.suffix, key)
SelectsS3(c, key) == IsPrefix(c.prefix, key) /\ IsSuffix(c.suffix, key)

\* Every key below the folder, at any depth, that contains the prefix
\* somewhere.
SelectsAws(c, key) ==
  /\ IsPrefix(c.folder, key)
  /\ IsSuffix(c.suffix, key)
  /\ Occurs(c.prefix, key)

\* The service is asked for the prefix and the suffix is ignored.
SelectsAzure(c, key) == IsPrefix(c.prefix, key)
SelectsGcp(c, key) == IsPrefix(c.prefix, key)
SelectsSwift(c, key) == IsPrefix(c.prefix, key)

\* What if: the suffix is left to the service, which knows prefixes only.
SelectsPrefix(c, key) ==
  IF c.kind = "aws" THEN IsPrefix(c.folder, key) /\ Occurs(c.prefix, key)
                    ELSE IsPrefix(c.prefix, key)

\* What if: aws compares the prefix with the start of the whole key.
SelectsFromStart(c, key) ==
  /\ IsPrefix(c.prefix, key)
  /\ c.kind \in {"local", "s3", "aws"} => IsSuffix(c.suffix, key)

Selects(c, key) ==
  CASE c.kind = "local" -> SelectsLocal(c, key)
    [] c.kind = "s3"    -> SelectsS3(c, key)
    [] c.kind = "aws"   -> SelectsAws(c, key)
    [] c.kind = "azure" -> SelectsAzure(c, key)
    [] c.kind = "gcp"   -> SelectsGcp(c, key)
    [] c.kind = "swift" -> SelectsSwift(c, key)

InFolder(c) == {o \in objects : IsPrefix(c.folder, o.key)}

Fits(c) == c.kind = "aws" => Cardinality(InFolder(c)) <= PageSize

(***************************************************************************)
(* What the service may answer.  aws asks for one page, which is filled in *)
(* the order of the keys: those of one location are in the order of time,  *)
(* those of different locations in any order.  The others ask for every    *)
(* page.                                                                   *)
(***************************************************************************)
Responses(c) ==
  IF Fits(c) THEN {InFolder(c)}
  ELSE {page \in SUBSET InFolder(c) :
          /\ Cardinality(page) = PageSize
          /\ \A o \in page, p \in InFolder(c) \ page :
               o.owner = p.owner => o.mtime < p.mtime}

Listings(c) == {{o \in r : Selects(c, o.key)} : r \in Responses(c)}

-----------------------------------------------------------------------------
Init ==
  /\ setup \in Setups
  /\ objects = {}
  /\ clock = 0
  /\ pc = [l \in Locations |-> "idle"]
  /\ obsolete = [l \in Locations |-> {}]
  /\ stored = [l \in Locations |-> {}]
  /\ clean = [l \in Locations |-> FALSE]

\* uploadSnapshot of aws puts its folder before the name.
Key(c, ts) == c.folder \o c.prefix \o <<ts>> \o c.suffix

Snapshot(l) ==
  [key |-> Key(setup[l], clock + 1), owner |-> l, mtime |-> clock + 1]

UploadBegins(l) ==
  /\ pc[l] = "idle"
  /\ clock < MaxUploads
  /\ clock' = clock + 1
  /\ clean' = [clean EXCEPT ![l] = FALSE]

\* DeleteObsoleteSnapshots follows, and returns at once without a retention.
Upload(l) ==
  /\ UploadBegins(l)
  /\ objects' = objects \cup {Snapshot(l)}
  /\ stored' = [stored EXCEPT ![l] = @ \cup {clock + 1}]
  /\ pc' = [pc EXCEPT ![l] = IF setup[l].retain < 1 THEN "idle" ELSE "list"]
  /\ UNCHANGED <<setup, obsolete>>

\* A failed upload leaves nothing, or a truncated file on a local disk, or a
\* complete object on a service that answered too late; either counts.
UploadFails(l) ==
  /\ UploadBegins(l)
  /\ \/ UNCHANGED <<objects, stored>>
     \/ /\ objects' = objects \cup {Snapshot(l)}
        /\ stored' = [stored EXCEPT ![l] = @ \cup {clock + 1}]
  /\ UNCHANGED <<setup, pc, obsolete>>

\* What if: the number of snapshots is not compared with the retention.
ListUnguarded(l) ==
  /\ pc[l] = "list"
  /\ \E listing \in Listings(setup[l]) :
       \E kept \in SUBSET listing :
         /\ IsNewest(kept, listing, setup[l].retain) \/ Cardinality(listing) < setup[l].retain
         /\ pc' = [pc EXCEPT ![l] = "delete"]
         /\ obsolete' = [obsolete EXCEPT ![l] = listing \ kept]
         /\ UNCHANGED clean
  /\ UNCHANGED <<setup, objects, clock, stored>>

\* The listing is sorted, newest first, and cut after the retained ones.
List(l) ==
  /\ pc[l] = "list"
  /\ \E listing \in Listings(setup[l]) :
       IF Cardinality(listing) <= setup[l].retain
       THEN /\ pc' = [pc EXCEPT ![l] = "idle"]
            /\ clean' = [clean EXCEPT ![l] = Fits(setup[l])]
            /\ UNCHANGED obsolete
       ELSE \E kept \in SUBSET listing :
              /\ IsNewest(kept, listing, setup[l].retain)
              /\ pc' = [pc EXCEPT ![l] = "delete"]
              /\ obsolete' = [obsolete EXCEPT ![l] = listing \ kept]
              /\ clean' = [clean EXCEPT ![l] = Fits(setup[l])]
  /\ UNCHANGED <<setup, objects, clock, stored>>

ListFails(l) ==
  /\ pc[l] = "list"
  /\ pc' = [pc EXCEPT ![l] = "idle"]
  /\ UNCHANGED <<setup, objects, clock, obsolete, stored, clean>>

(***************************************************************************)
(* deleteSnapshot of the next object.  It fails for one that is gone, or   *)
(* for any other reason; the loop goes on in any case.                     *)
(***************************************************************************)
Delete(l) ==
  /\ pc[l] = "delete"
  /\ \E o \in obsolete[l] :
       /\ \A p \in obsolete[l] : o.mtime >= p.mtime
       /\ obsolete' = [obsolete EXCEPT ![l] = @ \ {o}]
       /\ pc' = [pc EXCEPT ![l] = IF obsolete[l] = {o} THEN "idle" ELSE "delete"]
       /\ \/ objects' = objects \ {o} /\ UNCHANGED clean
          \/ clean' = [clean EXCEPT ![l] = FALSE] /\ UNCHANGED objects
  /\ UNCHANGED <<setup, clock, stored>>

\* The agent's process dies and a new one starts.
Restart(l) ==
  /\ pc[l] # "idle"
  /\ pc' = [pc EXCEPT ![l] = "idle"]
  /\ obsolete' = [obsolete EXCEPT ![l] = {}]
  /\ clean' = [clean EXCEPT ![l] = FALSE]
  /\ UNCHANGED <<setup, objects, clock, stored>>

Next ==
  \E l \in Locations :
    \/ Upload(l)
    \/ UploadFails(l)
    \/ List(l)
    \/ ListFails(l)
    \/ Delete(l)
    \/ Restart(l)

Spec == Init /\ [][Next]_vars

-----------------------------------------------------------------------------
(* Properties                                                              *)

TypeOK ==
  /\ setup \in Setups
  /\ \A o \in objects :
       o.owner \in Locations /\ o.mtime \in 1..clock
  /\ clock \in 0..MaxUploads
  /\ pc \in [Locations -> {"idle", "list", "delete"}]
  /\ DOMAIN obsolete = Locations
  /\ \A l \in Locations : pc[l] = "delete" <=> obsolete[l] # {}
  /\ stored \in [Locations -> SUBSET (1..clock)]
  /\ clean \in [Locations -> BOOLEAN]

Own(l) == {o \in objects : o.owner = l}

(***************************************************************************)
(* What a user can see in the configuration: c does not list what d stores *)
(* if their folders or prefixes part before one of them ends, if the       *)
(* suffixes do, read from their ends, where c looks at them, or if the     *)
(* prefix of c has a part that no key of d contains, where c looks for it  *)
(* anywhere.                                                               *)
(***************************************************************************)
PartWays(s, t) == \E i \in DOMAIN s \cap DOMAIN t : s[i] # t[i]

Separates(c, d) ==
  \/ PartWays(c.folder, d.folder \o d.prefix)
  \/ c.kind # "aws" /\ PartWays(c.prefix, d.folder \o d.prefix)
  \/ /\ c.kind \in {"local", "s3", "aws"}
     /\ PartWays(Reverse(c.suffix), Reverse(d.suffix))
  \/ /\ c.kind = "aws"
     /\ \E part \in Range(c.prefix) :
          part \notin UNION {Range(d.folder), Range(d.prefix), Range(d.suffix),
                            1..MaxUploads}

NamedApart(s) == \A l, m \in Locations : l # m => Separates(s[l], s[m])

\* What the proofs ask of a configuration: each location lists the keys that
\* are its own, and no others.
TellsApart(s) ==
  \A l, m \in Locations : \A ts \in 1..MaxUploads :
    LET key == Key(s[m], ts)
    IN  l = m <=> IsPrefix(s[l].folder, key) /\ Selects(s[l], key)

(***************************************************************************)
(* README.md:501, "if you set retain: 2, the two most recent snapshots     *)
(* will be kept in storage. 0 means all snapshots will be retained": at    *)
(* every moment the most recent snapshots of each location are there,      *)
(* whatever the clean-ups of the locations beside it have listed before    *)
(* they were stored, however the uploads and deletions interleave, and     *)
(* wherever they fail.  What a failed upload leaves counts as a snapshot,  *)
(* as it does for the code.                                                *)
(***************************************************************************)
MostRecentAreKept ==
  \A l \in Locations : \A t \in stored[l] :
    \/ /\ setup[l].retain > 0
       /\ Cardinality({u \in stored[l] : u > t}) >= setup[l].retain
    \/ \E o \in Own(l) : o.mtime = t

(***************************************************************************)
(* ... and no others: a clean-up in which no request failed leaves at most *)
(* retain snapshots, those of earlier failures and crashes included, as    *)
(* long as the listing fits into one page where one page is asked for.     *)
(***************************************************************************)
CleanRoundLeavesRetain ==
  \A l \in Locations :
    pc[l] = "idle" /\ clean[l] => Cardinality(Own(l)) <= setup[l].retain

(***************************************************************************)
(* Where the listings tell the locations apart the container they share is *)
(* as good as one of its own for each: a location's snapshots come and go  *)
(* as RetentionStore has it, step by step, under every agent's clean-ups.  *)
(***************************************************************************)
Retention == INSTANCE RetentionStore WITH
               Times <- 1..MaxUploads,
               retain <- [l \in Locations |-> setup[l].retain],
               kept <- [l \in Locations |-> {o.mtime : o \in Own(l)}]

ImplementsRetention == Retention!Spec

=============================================================================
