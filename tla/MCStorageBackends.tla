------------------------- MODULE MCStorageBackends --------------------------
(***************************************************************************)
(* Two agents, for two Vault clusters, that store into one container and   *)
(* tell their snapshots apart by name prefix, by name suffix or by folder. *)
(***************************************************************************)
EXTENDS StorageBackends, TLC

CONSTANTS eu, us, raft, snap

Location(kind, folder, prefix, suffix, retain) ==
  [kind |-> kind, folder |-> folder, prefix |-> prefix, suffix |-> suffix,
   retain |-> retain]

ByPrefix(kind) ==
  eu :> Location(kind, <<>>, <<raft, eu>>, <<snap>>, 1) @@
  us :> Location(kind, <<>>, <<raft, us>>, <<snap>>, 2)

BySuffix(kind, ofEu, ofUs) ==
  eu :> Location(kind, <<>>, <<raft>>, <<eu, snap>>, ofEu) @@
  us :> Location(kind, <<>>, <<raft>>, <<us, snap>>, ofUs)

ByFolder ==
  eu :> Location("aws", <<eu>>, <<raft>>, <<snap>>, 1) @@
  us :> Location("aws", <<us>>, <<raft>>, <<snap>>, 2)

\* What the listings of the backends can tell apart: all of them satisfy
\* TellsApart.
MCSetups ==
  {ByPrefix(k) : k \in Kinds} \cup
  {BySuffix(k, 1, 0) : k \in {"local", "s3", "aws"}} \cup
  {ByFolder}

ASSUME NamesAreApart == \A s \in MCSetups : NamedApart(s)

\* Suffixes that the backends do not look at.  eu retains all of its snapshots,
\* so nobody but us deletes any.
MCSetupsIgnoredSuffix == {BySuffix(k, 0, 1) : k \in {"azure", "gcp", "swift"}}

=============================================================================
