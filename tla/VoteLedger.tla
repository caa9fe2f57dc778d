----------------------------- MODULE VoteLedger -----------------------------
(***************************************************************************)
(* What voting promises, seen from the database alone: no devices, no      *)
(* connection, no screen.  A vote is two writes, made in this order by     *)
(* DBHelper.setUpvotes and DBHelper.setDownvotes:                          *)
(*                                                                         *)
(*   users/<user>/voted_posts/<post>  :=  the new state of the vote        *)
(*   posts/<post>/upvotes|downvotes   +=  1 or -1                          *)
(*                                                                         *)
(* The first may be repeated, as long as the second has not happened; the  *)
(* second happens at most once, and never without the first.  A vote may   *)
(* stop after the first: nothing joins the two.                            *)
(***************************************************************************)
EXTENDS Integers

CONSTANTS
  Users,        \* the signed-in accounts
  Posts,        \* the posts in the feed
  Votes,        \* the identities of votes: one for every tap on a thumb
  Uncast        \* the content of a vote nobody has cast yet

VARIABLES
  content,      \* content[v]: who votes, on what, and with which effect
  record,       \* record[u][p]: users/u/voted_posts/p
  ups, downs,   \* ups[p], downs[p]: posts/p/upvotes, posts/p/downvotes
  recorded,     \* the votes whose record was written at least once
  counted       \* the votes whose counter was changed

vars == <<content, record, ups, downs, recorded, counted>>

NoRecord == -2                   \* the record of a user who never voted

(* kind: the thumb tapped.  value: what the record becomes.  delta: what   *)
(* is added to the counter of that thumb.                                  *)
Contents ==
  [user : Users, post : Posts, kind : {1, -1}, value : {-1, 0, 1}, delta : {1, -1}]

Init ==
  /\ content = [v \in Votes |-> Uncast]
  /\ record = [u \in Users |-> [p \in Posts |-> NoRecord]]
  /\ ups = [p \in Posts |-> 0]
  /\ downs = [p \in Posts |-> 0]
  /\ recorded = {}
  /\ counted = {}

Cast(v) ==
  /\ content[v] = Uncast
  /\ \E c \in Contents : content' = [content EXCEPT ![v] = c]
  /\ UNCHANGED <<record, ups, downs, recorded, counted>>

Record(v) ==
  /\ content[v] # Uncast
  /\ v \notin counted
  /\ record' = [record EXCEPT ![content[v].user][content[v].post] = content[v].value]
  /\ recorded' = recorded \cup {v}
  /\ UNCHANGED <<content, ups, downs, counted>>

Count(v) ==
  /\ v \in recorded \ counted
  /\ \/ /\ content[v].kind = 1
        /\ ups' = [ups EXCEPT ![content[v].post] = @ + content[v].delta]
        /\ UNCHANGED downs
     \/ /\ content[v].kind = -1
        /\ downs' = [downs EXCEPT ![content[v].post] = @ + content[v].delta]
        /\ UNCHANGED ups
  /\ counted' = counted \cup {v}
  /\ UNCHANGED <<content, record, recorded>>

Next == \E v \in Votes : Cast(v) \/ Record(v) \/ Count(v)

Spec == Init /\ [][Next]_vars

=============================================================================
