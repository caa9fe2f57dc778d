-------------------------------- MODULE Feed --------------------------------
(***************************************************************************)
(* Posting and reading the feed.                                           *)
(*                                                                         *)
(* A phone has two location helpers: one of the home screen, one of each   *)
(* new-post sheet.  Both say 0/0 until their first fix arrives.  A post is *)
(* a write with a key of its own, which the client shows in its own reads  *)
(* at once and sends again until it is answered.  A read is a single event *)
(* on all posts: reads that start while another is outstanding share its   *)
(* answer.  The server's messages to a phone arrive in order, and so do    *)
(* the blocks for its main thread.                                         *)
(*                                                                         *)
(* Of the feed only its contents are modelled; their order is PushKeys.    *)
(***************************************************************************)
EXTENDS Integers, Sequences

CONSTANTS
  Devices,      \* phones, each with somebody signed in
  Places,       \* where phones can be: [lat, lon]
  Radius,       \* the radius of the feed, in the units of Places
  MaxPosts,     \* bound: taps on Post, on all phones together
  MaxReads,     \* bound: reads that one phone's user asks for
  MaxSheets,    \* bound: new-post sheets that one phone opens
  MaxMoves,     \* bound: moves, of all phones together
  MaxFaults     \* bound: lost connections, refused reads and writes, kills

ASSUME BoundAssumption ==
  /\ MaxPosts \in Nat /\ MaxReads \in Nat /\ MaxSheets \in Nat
  /\ MaxMoves \in Nat /\ MaxFaults \in Nat

VARIABLES
  posts,        \* the posts in the database
  made,         \* how many posts have been made: post i is the i-th
  post,         \* post[i]: what was written, and by whom
  stage,        \* stage[i]: how far its write has come
  here,         \* here[d]: where the phone is
  alive,        \* the app is running
  fix,          \* fix[d]: the coordinates of the home screen's helper
  sheet,        \* sheet[d]: the new-post sheet on screen
  reads,        \* reads[d]: the reads under way, with their coordinates
  listen,       \* listen[d]: "idle", "sent" or, at the server, "answered"
  down,         \* messages of the server not yet processed, in order
  mainq,        \* blocks waiting for the main thread, in order
  table,        \* table[d]: the posts that the feed displays
  spinner,      \* spinner[d]: the refresh control is spinning
  asked, sheets, moves, faults,     \* bounds
  \* history
  shownAt,      \* shownAt[d]: the coordinates of the read that table[d] comes from
  failed,       \* failed[d]: a read has failed since
  denied        \* the posts whose write was refused

writing == <<made, post>>
phone   == <<here, alive>>
bounds  == <<asked, sheets, moves, faults>>
history == <<shownAt, failed, denied>>

vars == <<posts, writing, stage, phone, fix, sheet, reads, listen, down, mainq,
          table, spinner, bounds, history>>

Origin == [lat |-> 0, lon |-> 0]       \* a helper without a fix
NoSheet == [id |-> 0, fix |-> Origin, alert |-> FALSE]

(* "sent": the write is outstanding.  "stored", "refused": its answer is   *)
(* on its way.  "acked", "denied": its completion waits for the main       *)
(* thread.  "done", "failed": the completion ran.  "lost": the app died.   *)
Stages == {"sent", "stored", "refused", "acked", "denied", "done", "failed", "lost"}

Made == 1..made

(* createNewPost: what the sheet's helper says goes into the post.         *)
Located(f) == [lat |-> f.lon, lon |-> f.lat]

(* getAllPosts: the distance to a post is less than the range.             *)
Within(n) == n < Radius /\ -n < Radius
Near(a, b) == Within(a.lat - b.lat) /\ Within(a.lon - b.lon)

(* The posts that phone d's client knows of when the server tells it S:    *)
(* its own pending writes are laid over the answer.                        *)
Pending(d) == {i \in Made : post[i].dev = d /\ stage[i] \in {"sent", "stored", "refused"}}

Overlaid(d, S) == S \cup Pending(d)

Init ==
  /\ posts = {}
  /\ made = 0
  /\ post = << >>
  /\ stage = << >>
  /\ here \in [Devices -> Places]
  /\ alive = [d \in Devices |-> FALSE]
  /\ fix = [d \in Devices |-> Origin]
  /\ sheet = [d \in Devices |-> NoSheet]
  /\ reads = [d \in Devices |-> << >>]
  /\ listen = [d \in Devices |-> "idle"]
  /\ down = [d \in Devices |-> << >>]
  /\ mainq = [d \in Devices |-> << >>]
  /\ table = [d \in Devices |-> {}]
  /\ spinner = [d \in Devices |-> FALSE]
  /\ asked = [d \in Devices |-> 0]
  /\ sheets = [d \in Devices |-> 0]
  /\ moves = 0
  /\ faults = 0
  /\ shownAt = [d \in Devices |-> Origin]
  /\ failed = [d \in Devices |-> FALSE]
  /\ denied = {}

(* getPosts, getAllPosts: the coordinates are taken when the read starts.  *)
GetPostsSilently(d, f) ==   \* mutant: the first read that asks is the last
  /\ reads' = [reads EXCEPT ![d] = Append(@, f)]
  /\ UNCHANGED listen

GetPosts(d, f) ==
  /\ reads' = [reads EXCEPT ![d] = Append(@, f)]
  /\ listen' = [listen EXCEPT ![d] = IF @ = "idle" THEN "sent" ELSE @]

(***************************************************************************)
(* The user and the location service.                                      *)
(***************************************************************************)

(* viewDidLoad of the home screen, whose helper was created with it.       *)
Launch(d) ==
  /\ ~alive[d] /\ asked[d] < MaxReads
  /\ alive' = [alive EXCEPT ![d] = TRUE]
  /\ GetPosts(d, Origin)
  /\ asked' = [asked EXCEPT ![d] = @ + 1]
  /\ UNCHANGED <<posts, writing, stage, here, fix, sheet, down, mainq, table,
                 spinner, sheets, moves, faults, history>>

(* Pull to refresh.                                                        *)
Pull(d) ==
  /\ alive[d] /\ sheet[d].id = 0 /\ ~spinner[d] /\ asked[d] < MaxReads
  /\ spinner' = [spinner EXCEPT ![d] = TRUE]
  /\ GetPosts(d, fix[d])
  /\ asked' = [asked EXCEPT ![d] = @ + 1]
  /\ UNCHANGED <<posts, writing, stage, phone, fix, sheet, down, mainq, table,
                 sheets, moves, faults, history>>

(* The sheet that the home screen presents has a helper of its own.        *)
OpenSheet(d) ==
  /\ alive[d] /\ sheet[d].id = 0 /\ sheets[d] < MaxSheets
  /\ sheet' = [sheet EXCEPT ![d] = [id |-> sheets[d] + 1, fix |-> Origin, alert |-> FALSE]]
  /\ sheets' = [sheets EXCEPT ![d] = @ + 1]
  /\ UNCHANGED <<posts, writing, stage, phone, fix, reads, listen, down, mainq,
                 table, spinner, asked, moves, faults, history>>

(* cancelNewPost, or the button of the alert.                              *)
CloseSheet(d) ==
  /\ alive[d] /\ sheet[d].id # 0
  /\ sheet' = [sheet EXCEPT ![d] = IF @.alert THEN [@ EXCEPT !.alert = FALSE] ELSE NoSheet]
  /\ UNCHANGED <<posts, writing, stage, phone, fix, reads, listen, down, mainq,
                 table, spinner, bounds, history>>

(* createNewPost and createPost.  Nothing keeps the user from tapping Post *)
(* again, or from cancelling, before the answer.                           *)
Post(d) ==
  /\ alive[d] /\ sheet[d].id # 0 /\ ~sheet[d].alert
  /\ made < MaxPosts
  /\ made' = made + 1
  /\ post' = Append(post, [dev |-> d, sheet |-> sheet[d].id,
                           fix |-> sheet[d].fix, at |-> here[d],
                           coords |-> Located(sheet[d].fix)])
  /\ stage' = Append(stage, "sent")
  /\ UNCHANGED <<posts, phone, fix, sheet, reads, listen, down, mainq, table,
                 spinner, bounds, history>>

(* didUpdateLocations, of either helper.                                   *)
Locate(d) ==
  /\ alive[d]
  /\ \/ fix' = [fix EXCEPT ![d] = here[d]] /\ UNCHANGED sheet
     \/ /\ sheet[d].id # 0
        /\ sheet' = [sheet EXCEPT ![d].fix = here[d]] /\ UNCHANGED fix
  /\ UNCHANGED <<posts, writing, stage, phone, reads, listen, down, mainq, table,
                 spinner, bounds, history>>

Move(d) ==
  /\ moves < MaxMoves
  /\ moves' = moves + 1
  /\ \E p \in Places \ {here[d]} : here' = [here EXCEPT ![d] = p]
  /\ UNCHANGED <<posts, writing, stage, alive, fix, sheet, reads, listen, down,
                 mainq, table, spinner, asked, sheets, faults, history>>

(***************************************************************************)
(* The server, and the connection.                                         *)
(***************************************************************************)

AnswerRead(d) ==
  /\ alive[d] /\ listen[d] = "sent"
  /\ listen' = [listen EXCEPT ![d] = "answered"]
  /\ down' = [down EXCEPT ![d] = Append(@, [type |-> "posts", told |-> posts])]
  /\ UNCHANGED <<posts, writing, stage, phone, fix, sheet, reads, mainq, table,
                 spinner, bounds, history>>

RefuseRead(d) ==
  /\ alive[d] /\ listen[d] = "sent"
  /\ faults < MaxFaults
  /\ faults' = faults + 1
  /\ listen' = [listen EXCEPT ![d] = "answered"]
  /\ down' = [down EXCEPT ![d] = Append(@, [type |-> "error"])]
  /\ UNCHANGED <<posts, writing, stage, phone, fix, sheet, reads, mainq, table,
                 spinner, asked, sheets, moves, history>>

StorePost(d, i) ==
  /\ alive[d] /\ i \in Made /\ post[i].dev = d /\ stage[i] = "sent"
  /\ \A j \in 1..(i - 1) : post[j].dev = d => stage[j] # "sent"
  /\ posts' = posts \cup {i}
  /\ stage' = [stage EXCEPT ![i] = "stored"]
  /\ down' = [down EXCEPT ![d] = Append(@, [type |-> "reply", post |-> i])]
  /\ UNCHANGED <<writing, phone, fix, sheet, reads, listen, mainq, table, spinner,
                 bounds, history>>

RefusePost(d, i) ==
  /\ alive[d] /\ i \in Made /\ post[i].dev = d /\ stage[i] = "sent"
  /\ i \notin posts
  /\ \A j \in 1..(i - 1) : post[j].dev = d => stage[j] # "sent"
  /\ faults < MaxFaults
  /\ faults' = faults + 1
  /\ stage' = [stage EXCEPT ![i] = "refused"]
  /\ denied' = denied \cup {i}
  /\ down' = [down EXCEPT ![d] = Append(@, [type |-> "reply", post |-> i])]
  /\ UNCHANGED <<posts, writing, phone, fix, sheet, reads, listen, mainq, table,
                 spinner, asked, sheets, moves, shownAt, failed>>

(* The connection is lost, and comes back: what the server said is gone,   *)
(* and what is outstanding is sent again.                                  *)
DisconnectForListens(d) ==      \* mutant: listens are not sent again
  /\ alive[d]
  /\ faults < MaxFaults
  /\ faults' = faults + 1
  /\ down' = [down EXCEPT ![d] = << >>]
  /\ stage' = [i \in Made |->
       IF post[i].dev = d /\ stage[i] \in {"stored", "refused"} THEN "sent" ELSE stage[i]]
  /\ UNCHANGED <<posts, writing, phone, fix, sheet, reads, listen, mainq, table,
                 spinner, asked, sheets, moves, history>>

DisconnectDroppingWrites(d) ==  \* mutant: writes are not sent again
  /\ alive[d]
  /\ faults < MaxFaults
  /\ faults' = faults + 1
  /\ down' = [down EXCEPT ![d] = << >>]
  /\ listen' = [listen EXCEPT ![d] = IF @ = "answered" THEN "sent" ELSE @]
  /\ stage' = [i \in Made |-> IF i \in Pending(d) THEN "lost" ELSE stage[i]]
  /\ UNCHANGED <<posts, writing, phone, fix, sheet, reads, mainq, table, spinner,
                 asked, sheets, moves, history>>

Disconnect(d) ==
  /\ alive[d]
  /\ faults < MaxFaults
  /\ faults' = faults + 1
  /\ down' = [down EXCEPT ![d] = << >>]
  /\ listen' = [listen EXCEPT ![d] = IF @ = "answered" THEN "sent" ELSE @]
  /\ stage' = [i \in Made |->
       IF post[i].dev = d /\ stage[i] \in {"stored", "refused"} THEN "sent" ELSE stage[i]]
  /\ UNCHANGED <<posts, writing, phone, fix, sheet, reads, mainq, table, spinner,
                 asked, sheets, moves, history>>

(***************************************************************************)
(* The client's queue.                                                     *)
(***************************************************************************)

(* Every read under way is completed, and the client stops listening.      *)
DeliverPosts(d) ==
  /\ alive[d] /\ down[d] # << >>
  /\ LET m == Head(down[d])
     IN /\ m.type \in {"posts", "error"}
        /\ mainq' = [mainq EXCEPT ![d] = @ \o [n \in 1..Len(reads[d]) |->
             IF m.type = "error" THEN [type |-> "noFeed"]
             ELSE [type |-> "feed", read |-> reads[d][n],
                   told |-> Overlaid(d, m.told)]]]
  /\ reads' = [reads EXCEPT ![d] = << >>]
  /\ listen' = [listen EXCEPT ![d] = "idle"]
  /\ down' = [down EXCEPT ![d] = Tail(@)]
  /\ UNCHANGED <<posts, writing, stage, phone, fix, sheet, table, spinner, bounds,
                 history>>

DeliverReply(d) ==
  /\ alive[d] /\ down[d] # << >> /\ Head(down[d]).type = "reply"
  /\ LET i == Head(down[d]).post
     IN /\ stage' = [stage EXCEPT ![i] = IF @ = "stored" THEN "acked" ELSE "denied"]
        /\ mainq' = [mainq EXCEPT ![d] = Append(@, [type |-> "reply", post |-> i])]
  /\ down' = [down EXCEPT ![d] = Tail(@)]
  /\ UNCHANGED <<posts, writing, phone, fix, sheet, reads, listen, table, spinner,
                 bounds, history>>

(***************************************************************************)
(* The main thread.                                                        *)
(***************************************************************************)

(* getAllPosts without an error: the posts within the radius of where the  *)
(* read began.                                                             *)
ShowFeed(d) ==
  /\ alive[d] /\ mainq[d] # << >> /\ Head(mainq[d]).type = "feed"
  /\ LET b == Head(mainq[d])
     IN /\ table' = [table EXCEPT ![d] =
             {i \in b.told : Near(b.read, post[i].coords)}]
        /\ shownAt' = [shownAt EXCEPT ![d] = b.read]
  /\ spinner' = [spinner EXCEPT ![d] = FALSE]
  /\ failed' = [failed EXCEPT ![d] = FALSE]
  /\ mainq' = [mainq EXCEPT ![d] = Tail(@)]
  /\ UNCHANGED <<posts, writing, stage, phone, fix, sheet, reads, listen, down,
                 bounds, denied>>

(* getAllPosts with an error: nothing happens, and the control spins on.   *)
NoFeed(d) ==
  /\ alive[d] /\ mainq[d] # << >> /\ Head(mainq[d]).type = "noFeed"
  /\ failed' = [failed EXCEPT ![d] = TRUE]
  /\ mainq' = [mainq EXCEPT ![d] = Tail(@)]
  /\ UNCHANGED <<posts, writing, stage, phone, fix, sheet, reads, listen, down,
                 table, spinner, bounds, shownAt, denied>>

(* The post is stored: its sheet goes (or the alert over it), and the feed *)
(* is read.                                                                *)
PostedWithoutRead(d) ==     \* mutant: the feed is left as it is
  /\ alive[d] /\ mainq[d] # << >> /\ Head(mainq[d]).type = "reply"
  /\ LET i == Head(mainq[d]).post
     IN /\ stage[i] = "acked"
        /\ stage' = [stage EXCEPT ![i] = "done"]
        /\ sheet' = IF sheet[d].id = post[i].sheet
                   THEN [sheet EXCEPT ![d] =
                           IF @.alert THEN [@ EXCEPT !.alert = FALSE] ELSE NoSheet]
                   ELSE sheet
  /\ mainq' = [mainq EXCEPT ![d] = Tail(@)]
  /\ UNCHANGED <<posts, writing, phone, fix, reads, listen, down, table, spinner,
                 bounds, history>>

Posted(d) ==
  /\ alive[d] /\ mainq[d] # << >> /\ Head(mainq[d]).type = "reply"
  /\ LET i == Head(mainq[d]).post
     IN /\ stage[i] = "acked"
        /\ stage' = [stage EXCEPT ![i] = "done"]
        /\ sheet' = IF sheet[d].id = post[i].sheet
                   THEN [sheet EXCEPT ![d] =
                           IF @.alert THEN [@ EXCEPT !.alert = FALSE] ELSE NoSheet]
                   ELSE sheet
  /\ GetPosts(d, fix[d])
  /\ mainq' = [mainq EXCEPT ![d] = Tail(@)]
  /\ UNCHANGED <<posts, writing, phone, fix, down, table, spinner, bounds, history>>

(* The post is refused: an alert, if its sheet is still there.             *)
NotPosted(d) ==
  /\ alive[d] /\ mainq[d] # << >> /\ Head(mainq[d]).type = "reply"
  /\ LET i == Head(mainq[d]).post
     IN /\ stage[i] = "denied"
        /\ stage' = [stage EXCEPT ![i] = "failed"]
        /\ sheet' = IF sheet[d].id = post[i].sheet
                   THEN [sheet EXCEPT ![d].alert = TRUE] ELSE sheet
  /\ mainq' = [mainq EXCEPT ![d] = Tail(@)]
  /\ UNCHANGED <<posts, writing, phone, fix, reads, listen, down, table, spinner,
                 bounds, history>>

(* The app is killed, or crashes.                                          *)
Kill(d) ==
  /\ alive[d]
  /\ faults < MaxFaults
  /\ faults' = faults + 1
  /\ alive' = [alive EXCEPT ![d] = FALSE]
  /\ stage' = [i \in Made |->
       IF post[i].dev = d /\ stage[i] \notin {"done", "failed"} THEN "lost" ELSE stage[i]]
  /\ fix' = [fix EXCEPT ![d] = Origin]
  /\ sheet' = [sheet EXCEPT ![d] = NoSheet]
  /\ reads' = [reads EXCEPT ![d] = << >>]
  /\ listen' = [listen EXCEPT ![d] = "idle"]
  /\ down' = [down EXCEPT ![d] = << >>]
  /\ mainq' = [mainq EXCEPT ![d] = << >>]
  /\ table' = [table EXCEPT ![d] = {}]
  /\ spinner' = [spinner EXCEPT ![d] = FALSE]
  /\ shownAt' = [shownAt EXCEPT ![d] = Origin]
  /\ failed' = [failed EXCEPT ![d] = FALSE]
  /\ UNCHANGED <<posts, writing, here, asked, sheets, moves, denied>>

-----------------------------------------------------------------------------

Server(d) ==
  \/ AnswerRead(d)
  \/ \E i \in Made : StorePost(d, i)

Client(d) == DeliverPosts(d) \/ DeliverReply(d)

MainThread(d) == ShowFeed(d) \/ NoFeed(d) \/ Posted(d) \/ NotPosted(d)

Next ==
  \E d \in Devices :
    \/ Launch(d) \/ Pull(d)
    \/ OpenSheet(d) \/ CloseSheet(d) \/ Post(d)
    \/ Locate(d) \/ Move(d)
    \/ Server(d) \/ Client(d) \/ MainThread(d)
    \/ RefuseRead(d)
    \/ \E i \in Made : RefusePost(d, i)
    \/ Disconnect(d)
    \/ Kill(d)

Spec == Init /\ [][Next]_vars

(* The server answers, and what is queued is run: as long as any of it is  *)
(* left, some is done.  What one post or read causes is bounded, so that   *)
(* more fairness among phones, server and threads is not needed.           *)
FairSpec ==
  /\ Spec
  /\ WF_vars(\E d \in Devices : Server(d) \/ Client(d) \/ MainThread(d))

=============================================================================
