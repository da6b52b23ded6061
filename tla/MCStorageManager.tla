-------------------------- MODULE MCStorageManager --------------------------
(***************************************************************************)
(* The README's example in small: a local disk and a remote service with a *)
(* frequency, a retention and a coarser timestamp format of its own.       *)
(***************************************************************************)
EXTENDS StorageManager, TLC

CONSTANTS aws, local

MCFactories == <<aws, local>>

MCLocal == {local}

MCConfig ==
  (aws   :> [frequency |-> 3, retain |-> Unset, resolution |-> 2]) @@
  (local :> [frequency |-> 0, retain |-> 2, resolution |-> 1])

MCDefaults == [frequency |-> 2, retain |-> 1]

=============================================================================
