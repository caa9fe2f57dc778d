----------------------------- MODULE MCAccounts -----------------------------
(***************************************************************************)
(* Instances of Accounts for TLC: its constants are sets of model values   *)
(* and numbers.                                                            *)
(***************************************************************************)
EXTENDS AccountsProperties

=============================================================================
