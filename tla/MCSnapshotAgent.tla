-------------------------- MODULE MCSnapshotAgent ---------------------------
(***************************************************************************)
(* An agent with one storage, and a file that adds a second one and gives  *)
(* shorter frequencies, that does not validate, or that is as it was.      *)
(***************************************************************************)
EXTENDS SnapshotAgent, TLC

CONSTANTS aws, local

MCInitialFile ==
  [valid |-> TRUE, frequency |-> 3, storages |-> local :> 0]

MCFiles ==
  {MCInitialFile,
   [valid |-> TRUE, frequency |-> 2, storages |-> aws :> 0 @@ local :> 1],
   [valid |-> FALSE, frequency |-> 0, storages |-> local :> 2]}

=============================================================================
