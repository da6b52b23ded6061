--------------------------- MODULE MCConfigReload ---------------------------
(***************************************************************************)
(* A file with one storage that may lose it, get another one, or be        *)
(* invalid.                                                                *)
(***************************************************************************)
EXTENDS ConfigReload, TLC

CONSTANTS aws, local

MCInitialFile ==
  [valid |-> TRUE, frequency |-> 3, storages |-> local :> 0]

MCFiles ==
  {MCInitialFile,
   [valid |-> TRUE, frequency |-> 2, storages |-> EmptyConfig.storages],
   [valid |-> TRUE, frequency |-> 0, storages |-> aws :> 1],
   [valid |-> FALSE, frequency |-> 0, storages |-> local :> 2]}

=============================================================================
