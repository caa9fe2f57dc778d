--------------------------- MODULE FeedProperties ---------------------------
(***************************************************************************)
(* What posting and reading the feed guarantees.                           *)
(***************************************************************************)
EXTENDS Feed

Coordinates == Places \cup {Origin}
Sheets == [id : 0..MaxSheets, fix : Coordinates, alert : BOOLEAN]

(* The type of every variable; in particular a read is outstanding exactly *)
(* when the client listens.                                                *)
TypeOK ==
  /\ made \in 0..MaxPosts
  /\ posts \subseteq Made
  /\ \A i \in Made : /\ post[i].dev \in Devices /\ post[i].sheet \in 1..MaxSheets
                     /\ stage[i] \in Stages
  /\ here \in [Devices -> Places]
  /\ alive \in [Devices -> BOOLEAN]
  /\ fix \in [Devices -> Coordinates]
  /\ sheet \in [Devices -> Sheets]
  /\ \A d \in Devices :
       /\ reads[d] \in Seq(Coordinates)
       /\ listen[d] \in {"idle", "sent", "answered"}
       /\ listen[d] = "idle" <=> reads[d] = << >>
       /\ table[d] \subseteq Made
       /\ spinner[d] \in BOOLEAN
  /\ faults \in 0..MaxFaults /\ moves \in 0..MaxMoves
  /\ denied \subseteq Made

(* What the feed displays exists: each post is in the database, or still   *)
(* on its way there from this very phone, or was refused after it had been *)
(* read; a lost connection never makes a displayed post vanish.            *)
ShownExists ==
  \A d \in Devices : \A i \in table[d] : i \in posts \cup Pending(d) \cup denied

(* A phone with nothing under way displays each of its own posts that was  *)
(* reported as posted, if the place it was read for is near the one that   *)
(* was written, whatever reads were under way when it was posted: the read *)
(* that follows a post is answered after the post is stored.               *)
PostedIsShown ==
  \A d \in Devices :
    /\ alive[d] /\ ~failed[d] /\ reads[d] = << >> /\ mainq[d] = << >>
    => \A i \in Made :
         /\ post[i].dev = d /\ stage[i] = "done"
         /\ Near(shownAt[d], post[i].coords)
         => i \in table[d]

(* "Anonymously share posts with your local community": the same of the    *)
(* place where the phone was when the user tapped Post, if the sheet's     *)
(* helper knew it by then (README.md; the table is headed "Within 9        *)
(* miles").  createNewPost takes the latitude for the longitude.           *)
LocalPostIsShown ==
  \A d \in Devices :
    /\ alive[d] /\ ~failed[d] /\ reads[d] = << >> /\ mainq[d] = << >>
    => \A i \in Made :
         /\ post[i].dev = d /\ stage[i] = "done" /\ post[i].fix = post[i].at
         /\ Near(shownAt[d], post[i].at)
         => i \in table[d]

(* The refresh control stops spinning, even if the connection is lost      *)
(* while it does, unless a read has failed (FairSpec): getAllPosts returns *)
(* on an error before it ends the refreshing.                              *)
SpinnerStops == \A d \in Devices : spinner[d] ~> ~spinner[d] \/ failed[d]

=============================================================================
