----------------------------- MODULE MCVoteFlow -----------------------------
(***************************************************************************)
(* Instances of VoteFlow for TLC: who is signed in on which phone.         *)
(***************************************************************************)
EXTENDS VoteProperties, TLC

CONSTANTS d1, d2, u1

OnePhone     == d1 :> u1
OneAccount   == d1 :> u1 @@ d2 :> u1

=============================================================================
