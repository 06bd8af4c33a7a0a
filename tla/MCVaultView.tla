---------------------------- MODULE MCVaultView ----------------------------
(* Small instances of VaultView for TLC.                                   *)
EXTENDS VaultView
=============================================================================
