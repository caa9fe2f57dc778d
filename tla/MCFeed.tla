------------------------------- MODULE MCFeed -------------------------------
(***************************************************************************)
(* Instances of Feed for TLC: a place, and one whose latitude is its       *)
(* longitude.                                                              *)
(***************************************************************************)
EXTENDS FeedProperties

Here   == [lat |-> 1, lon |-> 2]
Middle == [lat |-> 3, lon |-> 3]

OnePlace  == {Here}
TwoPlaces == {Here, Middle}

=============================================================================
