--------------------------- MODULE MCVaultClient ----------------------------
(***************************************************************************)
(* Two configured nodes, and a third one of the cluster that is known only *)
(* to those who ask.                                                       *)
(***************************************************************************)
EXTENDS VaultClient

CONSTANTS n1, n2, n3

MCTwoUrls == {<<n1, n2>>}

=============================================================================
