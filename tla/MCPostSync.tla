----------------------------- MODULE MCPostSync -----------------------------
(***************************************************************************)
(* Instances of PostSync for TLC: its constants are sets of model values   *)
(* and numbers.                                                            *)
(***************************************************************************)
EXTENDS PostSyncProperties

=============================================================================
