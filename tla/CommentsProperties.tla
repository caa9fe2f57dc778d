------------------------- MODULE CommentsProperties -------------------------
(***************************************************************************)
(* What the detail screen and the Reply sheet guarantee.                   *)
(***************************************************************************)
EXTENDS Comments

Elements(s) == {s[n] : n \in 1..Len(s)}

(* The type of every variable; in particular a read has a listen, or the   *)
(* answer of one, on its way.                                              *)
TypeOK ==
  /\ made \in 0..MaxComments
  /\ stored \subseteq Made /\ table \subseteq Made /\ denied \subseteq Made
  /\ stage \in [Made -> Stages]
  /\ vote \in [on : BOOLEAN, base : SUBSET Made, marks : Nat]
  /\ page \in 0..pages /\ sheet \in [id : 0..sheets, alert : BOOLEAN]
  /\ spinner \in BOOLEAN
  /\ reads # << >> =>
       \E m \in Elements(up) \cup Elements(down) : m.type \in {"listen", "comments", "error"}

(* What is listed exists: each comment is in the database, or still on its *)
(* way there, or was refused after it had been listed; a lost connection   *)
(* never takes away what is listed.                                        *)
ListedExists == table \subseteq stored \cup Pending \cup denied

(* A list that the server has answered holds all the comments that were    *)
(* stored when its listen was sent, in spite of votes that begin and end   *)
(* meanwhile, lost connections, and answers on their way.  (A list that is *)
(* answered by a vote under way may be empty, see StartVote; one that      *)
(* failed is empty, see ShowComments.)                                     *)
ListIsComplete == listed.how = "server" => listed.floor \subseteq table

(* Back on the detail screen, with nothing under way, a comment that was   *)
(* reported as stored is listed, under the same conditions: the reads that *)
(* were under way when it was stored do not hide it.                       *)
ReplyIsListed ==
  page # 0 /\ reads = << >> /\ mainq = << >> /\ listed.how = "server" =>
    \A i \in returned : from[i].page = page => i \in table

(* The refresh control stops spinning, and every comment is answered by a  *)
(* dismissed sheet or an alert, whatever is refused or lost (FairSpec):    *)
(* getAllComments completes with an error, too, and a comment without an   *)
(* answer is sent again.                                                   *)
Waiting == spinner \/ \E i \in Made : stage[i] \notin {"foreign", "done", "failed"}

EverythingIsAnswered == Waiting ~> ~Waiting

=============================================================================
