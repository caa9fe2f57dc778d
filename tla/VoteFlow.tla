------------------------------ MODULE VoteFlow ------------------------------
(***************************************************************************)
(* Voting, from the thumb to the database and back to the screen.          *)
(*                                                                         *)
(* Three actors per phone run concurrently: the main thread (taps, table   *)
(* view, completion blocks), the queue of the Firebase client (local       *)
(* writes, answers of the server, events) and the connection.  The server  *)
(* is shared.  A vote is a chain of asynchronous steps                     *)
(*                                                                         *)
(*   tap -> write users/<u>/voted_posts/<p> -> its answer -> transaction   *)
(*       on posts/<p> -> its answer -> completion block of the cell        *)
(*                                                                         *)
(* and every other event (a second tap, another phone, a lost connection,  *)
(* a reload of the feed, a killed app) can come between two of them.       *)
(*                                                                         *)
(* A tap and the local write it makes are one step: the write is handed to *)
(* the client's serial queue at once, and nothing the client does in       *)
(* between depends on it.  The same holds of a completion block and the    *)
(* transaction it starts.                                                  *)
(***************************************************************************)
EXTENDS Integers, Sequences, FiniteSets

CONSTANTS
  Devices,      \* phones running the app
  Users,        \* accounts
  UserOf,       \* UserOf[d]: the account signed in on d
  Posts,        \* the posts in the feed
  Cells,        \* the table view's cell objects, on every phone
  MaxTaps,      \* bound: taps on a thumb, on all phones together
  MaxFaults,    \* bound: lost connections, refused writes, transactions
                \* given up or forgotten
  MaxLoads      \* bound: times each phone fills its table from the feed

ASSUME DeviceAssumption == UserOf \in [Devices -> Users]
ASSUME BoundAssumption ==
  MaxTaps \in Nat /\ MaxFaults \in Nat /\ MaxLoads \in Nat

VARIABLES
  \* the database
  record,       \* record[u][p]: users/u/voted_posts/p
  ups, downs,   \* ups[p], downs[p]: posts/p/upvotes, posts/p/downvotes
  \* the votes under way
  taps,         \* how many taps there have been: tap t is the t-th
  vote,         \* vote[t]: what tap t asked for
  stage,        \* stage[t]: how far tap t has come
  \* the client and its connection, per phone
  alive,        \* the app is running
  online,       \* the connection is up
  listening,    \* listening[d][p]: the server answered the listen on the record
  down,         \* messages of the server not yet processed, in order
  synced,       \* synced[d][p]: the record as the server last told it
  view,         \* view[d][p]: the record as the app's observers see it
  mainq,        \* blocks waiting for the main thread, in order
  \* the screen, per phone
  row,          \* row[d][c]: the post cell c displays (its postUID)
  observers,    \* <<c, p>>: an observer of the record of p captured cell c
  thumb,        \* thumb[d][c]: isUpvoted is 1, isDownvoted is -1, neither is 0
  count,        \* count[d][c]: upvoteCountInt
  \* bounds
  faults, loads,
  \* history
  recorded,     \* the taps whose record write reached the database
  counted,      \* the taps whose counter change was committed
  expected,     \* expected[d][p]: points last loaded, plus own votes counted since
  raced         \* the taps that were under way when their phone reloaded the feed

dbVars     == <<record, ups, downs>>
tapVars    == <<taps, vote>>
linkVars   == <<online, listening, down, synced, view>>
screenVars == <<row, observers, thumb, count>>
boundVars  == <<faults, loads>>
histVars   == <<recorded, counted, expected, raced>>

vars == <<dbVars, tapVars, stage, alive, linkVars, mainq, screenVars,
          boundVars, histVars>>

NoRecord == -2      \* nothing stored at the path: the user never voted
Unknown  == -3      \* the client has no value for the path yet
Nowhere  == "none"  \* the row of a cell in the reuse pool

ASSUME PostAssumption == Nowhere \notin Posts

(* The life of a vote.  "sent": the record write is outstanding.           *)
(* "stored", "refused": the server processed it, the answer is under way.  *)
(* "acked", "denied": the answer waits for the main thread.  "count": the  *)
(* transaction is outstanding.  "counted": the server committed it.        *)
(* "cancelled": the connection broke, its outcome is unknown to the client *)
(* and its callback is about to be queued.  "answered", "aborted": the     *)
(* callback waits for the main thread.  "forgotten": the client dropped    *)
(* its queue, and will never call it.  "done", "failed": the cell's        *)
(* completion block ran, without and with an error.  "lost": the app died. *)
Stages == {"sent", "stored", "refused", "acked", "denied", "count", "counted",
           "cancelled", "answered", "aborted", "forgotten", "done", "failed",
           "lost"}
Closed == {"done", "failed", "lost"}

Taps == 1..taps
Open(t) == stage[t] \notin Closed

(***************************************************************************)
(* What a tap asks for: prevVal is taken from the cell when it is tapped.  *)
(***************************************************************************)

(* What is written to the record: prevVal == kind ? 0 : kind.              *)
NewValueBySubtraction(v) == v.kind - v.shown      \* mutant: one formula for all cases
NewValue(v) == IF v.shown = v.kind THEN 0 ELSE v.kind

(* What is added to the counter of the thumb.                              *)
DeltaWithoutUndo(v) == 1                          \* mutant: an undo adds, too
Delta(v) == IF v.shown = v.kind THEN -1 ELSE 1

Votes == [dev : Devices, cell : Cells, post : Posts, kind : {1, -1},
          shown : {-1, 0, 1}, informed : BOOLEAN]

Points(p) == ups[p] - downs[p]

(* The record write of a tap is pending in the client, and hides what the  *)
(* server says of the path, until its answer has been processed.           *)
Pending(d, p, st) ==
  {t \in Taps : vote[t].dev = d /\ vote[t].post = p
                /\ st[t] \in {"sent", "stored", "refused"}}

(* The value an observer sees of a record, as a thumb.                     *)
AsThumb(r) == IF r \in {1, -1} THEN r ELSE 0

(***************************************************************************)
(* Initial state: every phone has just loaded an unvoted feed, into cells  *)
(* fresh from the storyboard.                                              *)
(***************************************************************************)

(* Which cell the table view dequeues for which post is its own choice.    *)
Layouts == {f \in [Posts -> Cells] : \A p, q \in Posts : f[p] = f[q] => p = q}

RowsOf(f) == [c \in Cells |->
                IF \E p \in Posts : f[p] = c THEN CHOOSE p \in Posts : f[p] = c
                                             ELSE Nowhere]

Watching(f) == {<<f[p], p>> : p \in Posts}

Init ==
  /\ record = [u \in Users |-> [p \in Posts |-> NoRecord]]
  /\ ups = [p \in Posts |-> 0]
  /\ downs = [p \in Posts |-> 0]
  /\ taps = 0
  /\ vote = << >>
  /\ stage = << >>
  /\ alive = [d \in Devices |-> TRUE]
  /\ online = [d \in Devices |-> TRUE]
  /\ listening = [d \in Devices |-> [p \in Posts |-> FALSE]]
  /\ down = [d \in Devices |-> << >>]
  /\ synced = [d \in Devices |-> [p \in Posts |-> Unknown]]
  /\ view = [d \in Devices |-> [p \in Posts |-> Unknown]]
  /\ mainq = [d \in Devices |-> << >>]
  /\ \E f \in Layouts :
       /\ row = [d \in Devices |-> RowsOf(f)]
       /\ observers = [d \in Devices |-> Watching(f)]
  /\ thumb = [d \in Devices |-> [c \in Cells |-> 0]]
  /\ count = [d \in Devices |-> [c \in Cells |-> 0]]
  /\ faults = 0
  /\ loads = [d \in Devices |-> 1]
  /\ recorded = {}
  /\ counted = {}
  /\ expected = [d \in Devices |-> [p \in Posts |-> 0]]
  /\ raced = {}

(***************************************************************************)
(* The client's queue.                                                     *)
(***************************************************************************)

(* The client is not in the middle of cancelling transactions.             *)
Settling(d) == \E t \in Taps : vote[t].dev = d /\ stage[t] = "cancelled"

(* The block put on the main thread's queue when the observers' view of    *)
(* record p becomes r: an event is raised only if that is a change.  It    *)
(* tells r to the cells that observers of p captured, and nothing (which   *)
(* is what NoRecord tells) to the others.                                  *)
EventUnlessZero(d, p, r) ==     \* mutant: a vote taken back is not news
  IF r \in {0, view[d][p]} THEN << >>
  ELSE <<[type |-> "value",
          told |-> [c \in Cells |-> IF <<c, p>> \in observers[d] THEN r ELSE NoRecord]]>>

Event(d, p, r) ==
  IF r = view[d][p] THEN << >>
  ELSE <<[type |-> "value",
          told |-> [c \in Cells |-> IF <<c, p>> \in observers[d] THEN r ELSE NoRecord]]>>

Reply(t) == <<[type |-> "reply", tap |-> t]>>

(* The user who taps cell c sees what is recorded, and has no other vote   *)
(* on the post under way (history: the code keeps no such information).    *)
Informed(d, c) ==
  /\ thumb[d][c] = AsThumb(record[UserOf[d]][row[d][c]])
  /\ ~ \E t \in Taps : /\ UserOf[vote[t].dev] = UserOf[d]
                       /\ vote[t].post = row[d][c] /\ Open(t)

NewVote(d, c, kind) ==
  [dev |-> d, cell |-> c, post |-> row[d][c], kind |-> kind,
   shown |-> thumb[d][c], informed |-> Informed(d, c)]

(* upvotePost, downvotePost and the first write of setUpvotes and          *)
(* setDownvotes: the write is applied locally, raises its event, and waits *)
(* for the server, which it reaches when the phone is online.              *)
Tap(d, c, kind) ==
  /\ alive[d] /\ ~Settling(d)
  /\ taps < MaxTaps
  /\ row[d][c] # Nowhere
  /\ LET v == NewVote(d, c, kind)
     IN /\ vote' = [t \in 1..(taps + 1) |-> IF t \in Taps THEN vote[t] ELSE v]
        /\ mainq' = [mainq EXCEPT ![d] = @ \o Event(d, v.post, NewValue(v))]
        /\ view' = [view EXCEPT ![d][v.post] = NewValue(v)]
  /\ stage' = [t \in 1..(taps + 1) |-> IF t \in Taps THEN stage[t] ELSE "sent"]
  /\ taps' = taps + 1
  /\ UNCHANGED <<dbVars, alive, online, listening, down, synced, screenVars,
                 boundVars, histVars>>

(* The head of the server's messages is new data for a watched record.     *)
DeliverValue(d) ==
  /\ alive[d] /\ ~Settling(d)
  /\ down[d] # << >> /\ Head(down[d]).type = "value"
  /\ LET p == Head(down[d]).post
         r == IF Pending(d, p, stage) = {} THEN Head(down[d]).val ELSE view[d][p]
     IN /\ synced' = [synced EXCEPT ![d][p] = Head(down[d]).val]
        /\ mainq' = [mainq EXCEPT ![d] = @ \o Event(d, p, r)]
        /\ view' = [view EXCEPT ![d][p] = r]
  /\ down' = [down EXCEPT ![d] = Tail(@)]
  /\ UNCHANGED <<dbVars, tapVars, stage, alive, online, listening, screenVars,
                 boundVars, histVars>>

(* The server's value of the record once the write of tap t is answered:   *)
(* on success it already contains the write, because the server updates a  *)
(* listener before it answers its write.                                   *)
AckedValueReverting(d, t) ==    \* mutant: the answer overtakes the update
  synced[d][vote[t].post]

AckedValue(d, t) ==
  IF stage[t] = "stored" THEN NewValue(vote[t]) ELSE synced[d][vote[t].post]

(* The head of the server's messages answers a record write.  The pending  *)
(* write is removed, and if it was the last one the observers see what the *)
(* server says: on failure, the record without the write.                  *)
DeliverAck(d) ==
  /\ alive[d] /\ ~Settling(d)
  /\ down[d] # << >> /\ Head(down[d]).type = "reply"
  /\ LET t == Head(down[d]).tap
         p == vote[t].post
         s == AckedValue(d, t)
         newStage == [stage EXCEPT ![t] = IF @ = "stored" THEN "acked" ELSE "denied"]
         r == IF Pending(d, p, newStage) = {} THEN s ELSE view[d][p]
     IN /\ stage[t] \in {"stored", "refused"}
        /\ stage' = newStage
        /\ synced' = [synced EXCEPT ![d][p] = s]
        /\ mainq' = [mainq EXCEPT ![d] = @ \o Event(d, p, r) \o Reply(t)]
        /\ view' = [view EXCEPT ![d][p] = r]
  /\ down' = [down EXCEPT ![d] = Tail(@)]
  /\ UNCHANGED <<dbVars, tapVars, alive, online, listening, screenVars,
                 boundVars, histVars>>

DeliverCommitAgain(d) ==        \* mutant: a committed transaction is run again
  /\ alive[d] /\ ~Settling(d)
  /\ down[d] # << >> /\ Head(down[d]).type = "reply"
  /\ stage[Head(down[d]).tap] = "counted"
  /\ stage' = [stage EXCEPT ![Head(down[d]).tap] = "count"]
  /\ down' = [down EXCEPT ![d] = Tail(@)]
  /\ UNCHANGED <<dbVars, tapVars, alive, online, listening, synced, view, mainq,
                 screenVars, boundVars, histVars>>

(* The head of the server's messages says a transaction was committed.     *)
DeliverCommit(d) ==
  /\ alive[d] /\ ~Settling(d)
  /\ down[d] # << >> /\ Head(down[d]).type = "reply"
  /\ LET t == Head(down[d]).tap
     IN /\ stage[t] = "counted"
        /\ stage' = [stage EXCEPT ![t] = "answered"]
        /\ mainq' = [mainq EXCEPT ![d] = @ \o Reply(t)]
  /\ down' = [down EXCEPT ![d] = Tail(@)]
  /\ UNCHANGED <<dbVars, tapVars, alive, online, listening, synced, view,
                 screenVars, boundVars, histVars>>

(* The client gives a transaction up, and queues its callback: after 25    *)
(* stale attempts, or for a setValue of the app under the same post (a     *)
(* comment), which aborts an unsent transaction at once and a sent one     *)
(* when the server refuses its attempt.                                    *)
GiveUp(d, t) ==
  /\ alive[d] /\ ~Settling(d)
  /\ faults < MaxFaults
  /\ vote[t].dev = d /\ stage[t] = "count"
  /\ faults' = faults + 1
  /\ stage' = [stage EXCEPT ![t] = "aborted"]
  /\ mainq' = [mainq EXCEPT ![d] = @ \o Reply(t)]
  /\ UNCHANGED <<dbVars, tapVars, alive, linkVars, screenVars, loads, histVars>>

(* The callback of a transaction that the broken connection cancelled.     *)
Cancel(d, t) ==
  /\ alive[d]
  /\ vote[t].dev = d /\ stage[t] = "cancelled"
  /\ stage' = [stage EXCEPT ![t] = "aborted"]
  /\ mainq' = [mainq EXCEPT ![d] = @ \o Reply(t)]
  /\ UNCHANGED <<dbVars, tapVars, alive, linkVars, screenVars, boundVars, histVars>>

(* A second comment finds the sent transaction marked already, takes       *)
(* nothing for outstanding, and drops the queue.  If the attempt is then   *)
(* refused, or its answer lost, the client looks for the transaction in    *)
(* vain: its callback is never called, and its local write stays.          *)
Forget(d, t) ==
  /\ alive[d]
  /\ faults < MaxFaults
  /\ vote[t].dev = d
  /\ \/ stage[t] = "count" /\ online[d] /\ ~Settling(d)
     \/ stage[t] = "cancelled"
  /\ faults' = faults + 1
  /\ stage' = [stage EXCEPT ![t] = "forgotten"]
  /\ UNCHANGED <<dbVars, tapVars, alive, linkVars, mainq, screenVars, loads, histVars>>

(***************************************************************************)
(* The connection and the server.                                          *)
(***************************************************************************)

Connect(d) ==
  /\ alive[d] /\ ~online[d] /\ ~Settling(d)
  /\ online' = [online EXCEPT ![d] = TRUE]
  /\ UNCHANGED <<dbVars, tapVars, stage, alive, listening, down, synced, view,
                 mainq, screenVars, boundVars, histVars>>

(* The server answers the listen on a record with its present value.       *)
Listen(d, p) ==
  /\ alive[d] /\ online[d] /\ ~listening[d][p]
  /\ listening' = [listening EXCEPT ![d][p] = TRUE]
  /\ down' = [down EXCEPT ![d] =
       Append(@, [type |-> "value", post |-> p, val |-> record[UserOf[d]][p]])]
  /\ UNCHANGED <<dbVars, tapVars, stage, alive, online, synced, view, mainq,
                 screenVars, boundVars, histVars>>

(* Listens are sent (and sent again) before the writes that follow them,   *)
(* and writes in the order they were made.                                 *)
FirstWrite(d, t) ==
  /\ alive[d] /\ online[d] /\ \A p \in Posts : listening[d][p]
  /\ t \in Taps /\ vote[t].dev = d /\ stage[t] = "sent"
  /\ \A s \in 1..(t - 1) : vote[s].dev = d => stage[s] # "sent"

(* The server stores a record, tells the account's other phones that watch *)
(* it, and answers the writer.                                             *)
StoreRecord(d, t) ==
  /\ FirstWrite(d, t)
  /\ LET u == UserOf[d]
         p == vote[t].post
         watchers == {e \in Devices \ {d} : UserOf[e] = u /\ listening[e][p]}
     IN /\ record' = [record EXCEPT ![u][p] = NewValue(vote[t])]
        /\ down' = [e \in Devices |->
             IF e = d THEN Append(down[e], [type |-> "reply", tap |-> t])
             ELSE IF e \in watchers
             THEN Append(down[e], [type |-> "value", post |-> p,
                                   val |-> NewValue(vote[t])])
             ELSE down[e]]
  /\ stage' = [stage EXCEPT ![t] = "stored"]
  /\ recorded' = recorded \cup {t}
  /\ UNCHANGED <<ups, downs, tapVars, alive, online, listening, synced, view,
                 mainq, screenVars, boundVars, counted, expected, raced>>

(* The server refuses a record write.                                      *)
RefuseRecord(d, t) ==
  /\ faults < MaxFaults
  /\ FirstWrite(d, t)
  /\ faults' = faults + 1
  /\ stage' = [stage EXCEPT ![t] = "refused"]
  /\ down' = [down EXCEPT ![d] = Append(@, [type |-> "reply", tap |-> t])]
  /\ UNCHANGED <<dbVars, tapVars, alive, online, listening, synced, view, mainq,
                 screenVars, loads, histVars>>

(* The server commits the transaction of a vote: upvotes or downvotes      *)
(* changes by one from whatever it is by then (an attempt made on stale    *)
(* data is refused by its hash and repeated, so only the last one counts). *)
(* The transactions of one phone on one post are committed in order.  That *)
(* an accepted attempt adds to what it replaces is shown in PostSync, with *)
(* the exception of two transactions under way and a listen elsewhere.     *)
CommitCount(d, t) ==
  /\ alive[d] /\ online[d] /\ \A p \in Posts : listening[d][p]
  /\ t \in Taps /\ vote[t].dev = d /\ stage[t] = "count"
  /\ \A s \in 1..(t - 1) : vote[s].dev = d /\ vote[s].post = vote[t].post
                             => stage[s] # "count"
  /\ LET v == vote[t]
     IN /\ IF v.kind = 1
           THEN ups' = [ups EXCEPT ![v.post] = @ + Delta(v)] /\ UNCHANGED downs
           ELSE downs' = [downs EXCEPT ![v.post] = @ + Delta(v)] /\ UNCHANGED ups
        /\ expected' = [expected EXCEPT ![d][v.post] = @ + v.kind * Delta(v)]
  /\ stage' = [stage EXCEPT ![t] = "counted"]
  /\ down' = [down EXCEPT ![d] = Append(@, [type |-> "reply", tap |-> t])]
  /\ counted' = counted \cup {t}
  /\ UNCHANGED <<record, tapVars, alive, online, listening, synced, view, mainq,
                 screenVars, boundVars, recorded, raced>>

(* What a broken connection makes of a vote.  A record write is kept and   *)
(* sent again, even if the server has stored it.  A transaction that was   *)
(* sent is cancelled, even if the server has committed it; one that still  *)
(* waits behind another is kept.                                           *)
AfterDropResending(d, kept, t) ==   \* mutant: transactions are sent again, too
  IF vote[t].dev # d THEN stage[t]
  ELSE IF stage[t] \in {"stored", "refused"} THEN "sent"
  ELSE IF stage[t] = "counted" THEN "count"
  ELSE stage[t]

AfterDropForgetting(d, kept, t) ==  \* mutant: a write is not sent twice
  IF vote[t].dev = d /\ stage[t] = "count" /\ t \notin kept THEN "cancelled"
  ELSE stage[t]

AfterDrop(d, kept, t) ==
  IF vote[t].dev # d THEN stage[t]
  ELSE IF stage[t] \in {"stored", "refused"} THEN "sent"
  ELSE IF stage[t] = "counted" \/ (stage[t] = "count" /\ t \notin kept)
  THEN "cancelled"
  ELSE stage[t]

(* The transactions that may still be unsent: they wait behind another of  *)
(* the same phone on the same post, or the client has not yet restored its *)
(* listens.                                                                *)
MayBeUnsent(d) ==
  {t \in Taps : /\ vote[t].dev = d /\ stage[t] = "count"
                /\ \/ \E p \in Posts : ~listening[d][p]
                   \/ \E s \in 1..(t - 1) : /\ vote[s].dev = d
                                            /\ vote[s].post = vote[t].post
                                            /\ stage[s] \in {"count", "counted"}}

Disconnect(d) ==
  /\ alive[d] /\ online[d] /\ ~Settling(d)
  /\ faults < MaxFaults
  /\ faults' = faults + 1
  /\ online' = [online EXCEPT ![d] = FALSE]
  /\ listening' = [listening EXCEPT ![d] = [p \in Posts |-> FALSE]]
  /\ down' = [down EXCEPT ![d] = << >>]
  /\ \E kept \in SUBSET MayBeUnsent(d) :
       stage' = [t \in Taps |-> AfterDrop(d, kept, t)]
  /\ UNCHANGED <<dbVars, tapVars, alive, synced, view, mainq, screenVars, loads,
                 histVars>>

(***************************************************************************)
(* The main thread.                                                        *)
(***************************************************************************)

(* An observer's block: setVoteState on every cell that was captured.  A   *)
(* value that is not a number (no record) is dropped.                      *)
MainValue(d) ==
  /\ alive[d]
  /\ mainq[d] # << >> /\ Head(mainq[d]).type = "value"
  /\ LET told == Head(mainq[d]).told
     IN thumb' = [thumb EXCEPT ![d] = [c \in Cells |->
          IF told[c] = NoRecord THEN @[c] ELSE AsThumb(told[c])]]
  /\ mainq' = [mainq EXCEPT ![d] = Tail(@)]
  /\ UNCHANGED <<dbVars, tapVars, stage, alive, linkVars, row, observers, count,
                 boundVars, histVars>>

MainStoredIgnoringError(d) ==   \* mutant: the error of the write is not looked at
  /\ alive[d]
  /\ mainq[d] # << >> /\ Head(mainq[d]).type = "reply"
  /\ stage[Head(mainq[d]).tap] \in {"acked", "denied"}
  /\ stage' = [stage EXCEPT ![Head(mainq[d]).tap] = "count"]
  /\ mainq' = [mainq EXCEPT ![d] = Tail(@)]
  /\ UNCHANGED <<dbVars, tapVars, alive, linkVars, screenVars, boundVars, histVars>>

(* The record is stored: start the transaction.                            *)
MainStored(d) ==
  /\ alive[d]
  /\ mainq[d] # << >> /\ Head(mainq[d]).type = "reply"
  /\ LET t == Head(mainq[d]).tap
     IN /\ stage[t] = "acked"
        /\ stage' = [stage EXCEPT ![t] = "count"]
  /\ mainq' = [mainq EXCEPT ![d] = Tail(@)]
  /\ UNCHANGED <<dbVars, tapVars, alive, linkVars, screenVars, boundVars, histVars>>

CompleteAsTapped(d, v, result) ==   \* mutant: the result is not looked at
  /\ thumb' = [thumb EXCEPT ![d][v.cell] = v.kind]
  /\ count' = [count EXCEPT ![d][v.cell] = @ + v.kind]

(* The completion block of the cell that was tapped, whatever it displays  *)
(* by now: it corrects the count if the cell shows the opposite vote, sets *)
(* the thumb to the result, and adds or takes one point.                   *)
Complete(d, v, result) ==
  /\ thumb' = [thumb EXCEPT ![d][v.cell] = AsThumb(result)]
  /\ count' = [count EXCEPT ![d][v.cell] =
       @ + (IF thumb[d][v.cell] = -v.kind THEN v.kind ELSE 0)
         + (IF result = v.kind THEN v.kind ELSE -v.kind)]

MainCountedIgnoringError(d) ==  \* mutant: a failed transaction is reported as done
  /\ alive[d]
  /\ mainq[d] # << >> /\ Head(mainq[d]).type = "reply"
  /\ LET t == Head(mainq[d]).tap
     IN /\ stage[t] \in {"answered", "aborted"}
        /\ stage' = [stage EXCEPT ![t] = "done"]
        /\ Complete(d, vote[t], NewValue(vote[t]))
  /\ mainq' = [mainq EXCEPT ![d] = Tail(@)]
  /\ UNCHANGED <<dbVars, tapVars, alive, linkVars, row, observers, boundVars, histVars>>

(* Both writes are done: the cell is told the new state of the vote.       *)
MainCounted(d) ==
  /\ alive[d]
  /\ mainq[d] # << >> /\ Head(mainq[d]).type = "reply"
  /\ LET t == Head(mainq[d]).tap
     IN /\ stage[t] = "answered"
        /\ stage' = [stage EXCEPT ![t] = "done"]
        /\ Complete(d, vote[t], NewValue(vote[t]))
  /\ mainq' = [mainq EXCEPT ![d] = Tail(@)]
  /\ UNCHANGED <<dbVars, tapVars, alive, linkVars, row, observers, boundVars, histVars>>

(* Either write failed.  A release build completes with 0.                 *)
MainError(d) ==
  /\ alive[d]
  /\ mainq[d] # << >> /\ Head(mainq[d]).type = "reply"
  /\ LET t == Head(mainq[d]).tap
     IN /\ stage[t] \in {"denied", "aborted"}
        /\ stage' = [stage EXCEPT ![t] = "failed"]
        /\ Complete(d, vote[t], 0)
  /\ mainq' = [mainq EXCEPT ![d] = Tail(@)]
  /\ UNCHANGED <<dbVars, tapVars, alive, linkVars, row, observers, boundVars, histVars>>

(* cellForRowAt for every row of a feed just read: a cell for each post,   *)
(* with its points.  The thumbs are left as they are.                      *)
Fill(d, f, points) ==
  /\ row' = [row EXCEPT ![d] = RowsOf(f)]
  /\ count' = [count EXCEPT ![d] =
       [c \in Cells |-> IF RowsOf(f)[c] = Nowhere THEN @[c] ELSE points[RowsOf(f)[c]]]]
  /\ expected' = [expected EXCEPT ![d] = [p \in Posts |-> Points(p)]]
  /\ loads' = [loads EXCEPT ![d] = @ + 1]

(* The points that a set of votes is worth.                                *)
Worth(S) == Cardinality({t \in S : vote[t].kind = Delta(vote[t])})
              - Cardinality({t \in S : vote[t].kind # Delta(vote[t])})

(* The votes that a forgotten one of phone d may hide: its write, of the   *)
(* whole post as it was, is not removed.                                   *)
Hideable(d) ==
  {t \in counted : \E s \in Taps : /\ vote[s].dev = d /\ stage[s] = "forgotten"
                                  /\ vote[s].post = vote[t].post}

(* Pull to refresh, or the return from a new post.  Transactions that this *)
(* phone has outstanding, or forgotten, may be overlaid on the points the  *)
(* server reports.  One more observer captures each cell, and is told at   *)
(* once what the client knows of the record; the observers of earlier rows *)
(* stay.                                                                   *)
ReloadFeed(d) ==
  /\ alive[d] /\ online[d] /\ ~Settling(d)
  /\ loads[d] < MaxLoads
  /\ \E f \in Layouts,
        overlaid \in SUBSET {t \in Taps : /\ vote[t].dev = d
                                         /\ stage[t] \in {"count", "forgotten"}},
        hidden \in SUBSET Hideable(d) :
       /\ Fill(d, f, [p \in Posts |->
                 Points(p) + Worth({t \in overlaid : vote[t].post = p})
                   - Worth({t \in hidden : vote[t].post = p})])
       /\ observers' = [observers EXCEPT ![d] = @ \cup Watching(f)]
       /\ mainq' = [mainq EXCEPT ![d] = Append(@,
            [type |-> "value", told |-> [c \in Cells |->
               LET p == RowsOf(f)[c]
               IN IF p = Nowhere THEN NoRecord
                  ELSE IF view[d][p] = Unknown THEN NoRecord ELSE view[d][p]]])]
  /\ raced' = raced \cup {t \in Taps : vote[t].dev = d /\ Open(t)}
  /\ UNCHANGED <<dbVars, tapVars, stage, alive, linkVars, thumb, faults,
                 recorded, counted>>

(* The app is killed, or a debug build stops at an assertionFailure.       *)
(* Nothing is persisted: writes and transactions not yet made are gone.    *)
Kill(d) ==
  /\ alive[d]
  /\ alive' = [alive EXCEPT ![d] = FALSE]
  /\ online' = [online EXCEPT ![d] = FALSE]
  /\ listening' = [listening EXCEPT ![d] = [p \in Posts |-> FALSE]]
  /\ down' = [down EXCEPT ![d] = << >>]
  /\ synced' = [synced EXCEPT ![d] = [p \in Posts |-> Unknown]]
  /\ view' = [view EXCEPT ![d] = [p \in Posts |-> Unknown]]
  /\ mainq' = [mainq EXCEPT ![d] = << >>]
  /\ row' = [row EXCEPT ![d] = [c \in Cells |-> Nowhere]]
  /\ observers' = [observers EXCEPT ![d] = {}]
  /\ thumb' = [thumb EXCEPT ![d] = [c \in Cells |-> 0]]
  /\ count' = [count EXCEPT ![d] = [c \in Cells |-> 0]]
  /\ stage' = [t \in Taps |->
       IF vote[t].dev = d /\ stage[t] # "done" THEN "lost" ELSE stage[t]]
  /\ UNCHANGED <<dbVars, tapVars, boundVars, histVars>>

(* The app starts again, its user still signed in, and loads the feed.     *)
Launch(d) ==
  /\ ~alive[d]
  /\ loads[d] < MaxLoads
  /\ alive' = [alive EXCEPT ![d] = TRUE]
  /\ online' = [online EXCEPT ![d] = TRUE]
  /\ \E f \in Layouts :
       /\ Fill(d, f, [p \in Posts |-> Points(p)])
       /\ observers' = [observers EXCEPT ![d] = Watching(f)]
  /\ UNCHANGED <<dbVars, tapVars, stage, listening, down, synced, view, mainq,
                 thumb, faults, recorded, counted, raced>>

-----------------------------------------------------------------------------

Server(d) ==
  \/ \E p \in Posts : Listen(d, p)
  \/ \E t \in Taps : StoreRecord(d, t)
  \/ \E t \in Taps : CommitCount(d, t)

Client(d) ==
  \/ DeliverValue(d)
  \/ DeliverAck(d)
  \/ DeliverCommit(d)
  \/ \E t \in Taps : Cancel(d, t)

MainThread(d) ==
  \/ MainValue(d)
  \/ MainStored(d)
  \/ MainCounted(d)
  \/ MainError(d)

Fault(d) ==
  \/ \E t \in Taps : RefuseRecord(d, t)
  \/ \E t \in Taps : GiveUp(d, t)
  \/ \E t \in Taps : Forget(d, t)
  \/ Disconnect(d)
  \/ Kill(d)

Next ==
  \E d \in Devices :
    \/ \E c \in Cells, kind \in {1, -1} : Tap(d, c, kind)
    \/ ReloadFeed(d)
    \/ Launch(d)
    \/ Connect(d)
    \/ Server(d)
    \/ Client(d)
    \/ MainThread(d)
    \/ Fault(d)

Spec == Init /\ [][Next]_vars

(* The client reconnects for as long as the app runs, the server answers,  *)
(* and the main thread and the client's queue run what they are given.     *)
(* Nobody has to tap, and nothing has to fail or to be started again.      *)
FairSpec ==
  /\ Spec
  /\ \A d \in Devices : /\ WF_vars(Connect(d))
                        /\ WF_vars(Server(d))
                        /\ WF_vars(Client(d))
                        /\ WF_vars(MainThread(d))

=============================================================================
