----------------------------- MODULE MCComments -----------------------------
(***************************************************************************)
(* Instances of Comments for TLC: its constants are numbers.               *)
(***************************************************************************)
EXTENDS CommentsProperties

=============================================================================
