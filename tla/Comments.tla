------------------------------ MODULE Comments ------------------------------
(***************************************************************************)
(* The comments of one post, on one phone: the detail screen lists them,   *)
(* pulling it lists them again, and the Reply sheet writes one.  Other     *)
(* phones write comments, too, and the user may have voted on the post     *)
(* just before opening it.                                                 *)
(*                                                                         *)
(* A list is read once, by a listen that is given up when it is answered.  *)
(* While a vote's transaction is under way the client has an answer of its *)
(* own, the post as the transaction leaves it, and does not wait for the   *)
(* server.  The attempts of the transaction are those of PostSync.         *)
(***************************************************************************)
EXTENDS Integers, Sequences, FiniteSets

CONSTANTS
  MaxComments,  \* bound: comments, of this phone and others together
  MaxReads,     \* bound: times the detail screen is opened or pulled
  MaxSheets,    \* bound: Reply sheets
  MaxAttempts,  \* bound: attempts of votes on the post
  MaxFaults     \* bound: lost connections, refused reads and comments

ASSUME BoundAssumption ==
  /\ MaxComments \in Nat /\ MaxReads \in Nat /\ MaxSheets \in Nat
  /\ MaxAttempts \in Nat /\ MaxFaults \in Nat

VARIABLES
  \* the database
  stored,       \* the comments below the post
  \* the comments of this phone
  made,         \* how many comments have been written: comment i is the i-th
  stage,        \* stage[i]: how far its write has come, or "foreign"
  from,         \* from[i]: the sheet it was written on
  \* the client and its connection
  reads,        \* the reads without an answer, in order
  vote,         \* the transaction under way on the post
  up,           \* requests that the server has not processed yet, in order
  down,         \* messages of the server not yet processed, in order
  \* the screen
  mainq,        \* blocks waiting for the main thread, in order
  page,         \* the detail screen that is open, 0 for the feed
  sheet,        \* the Reply sheet over it
  table,        \* the comments that it lists
  spinner,      \* its refresh control is spinning
  pages, asked, sheets, attempts, faults,       \* bounds
  \* history
  listed,       \* what the list on screen comes from
  denied,       \* the comments whose write was refused
  returned      \* the comments stored whose sheet was there to be dismissed

writing == <<made, stage, from>>
link    == <<reads, vote, up, down>>
screen  == <<page, sheet, table, spinner>>
bounds  == <<pages, asked, sheets, attempts, faults>>
history == <<listed, denied, returned>>

vars == <<stored, writing, link, mainq, screen, bounds, history>>

Made == 1..made

(* "sent": the write is outstanding.  "stored", "refused": its answer is   *)
(* on its way.  "acked", "denied": its completion waits for the main       *)
(* thread.  "done", "failed": the completion ran.                          *)
Stages == {"foreign", "sent", "stored", "refused", "acked", "denied", "done", "failed"}

Pending == {i \in Made : stage[i] \in {"sent", "stored", "refused"}}

(* The transaction: what its output has for comments, and the comments     *)
(* that were set since it was sent.  The first marks it to be aborted; the *)
(* second drops the queue it is in, and with it whoever would have removed *)
(* its write if the attempt fails (see PostSync).                          *)
NoVote == [on |-> FALSE, base |-> {}, marks |-> 0]
Attempt(base) == [on |-> TRUE, base |-> base, marks |-> 0]
Dropped == vote.marks > 1

NoSheet == [id |-> 0, alert |-> FALSE]
Nothing == [how |-> "nothing", floor |-> {}]

Init ==
  /\ stored = {} /\ made = 0 /\ stage = << >> /\ from = << >>
  /\ reads = << >> /\ vote = NoVote /\ up = << >> /\ down = << >>
  /\ mainq = << >>
  /\ page = 0 /\ sheet = NoSheet /\ table = {} /\ spinner = FALSE
  /\ pages = 0 /\ asked = 0 /\ sheets = 0 /\ attempts = 0 /\ faults = 0
  /\ listed = Nothing /\ denied = {} /\ returned = {}

(***************************************************************************)
(* Reads.                                                                  *)
(***************************************************************************)

(* What the observers see below a transaction, or above what the server    *)
(* told: this phone's pending comments are added to it.                    *)
Overlaid(S) == S \cup Pending

(* The block that completes a read.  how: who answered it.  floor: what    *)
(* was stored when the listen that it shares was sent.                     *)
Block(r, how, S) ==
  [type |-> "comments", page |-> r.page, floor |-> r.floor, how |-> how, told |-> S]

Asking(p) == [page |-> p, floor |-> IF reads = << >> THEN stored ELSE reads[1].floor]

Answered(how, S) == [n \in 1..Len(reads) |-> Block(reads[n], how, S)]

(* getAllComments, by the detail screen p.  A transaction under way hides  *)
(* the post, and is an answer at once; reads under way share a listen.     *)
(* blocks: what waits for the main thread.                                 *)
GetCommentsOfVote(p, blocks) == \* mutant: a transaction once known is an answer for ever
  LET r == Asking(p)
  IN IF vote.on \/ attempts > 0
     THEN /\ mainq' = Append(blocks, Block(r, "server", Overlaid(vote.base)))
          /\ UNCHANGED <<reads, up>>
     ELSE /\ reads' = Append(reads, r)
          /\ up' = IF reads = << >> THEN Append(up, [type |-> "listen"]) ELSE up
          /\ mainq' = blocks

GetComments(p, blocks) ==
  LET r == Asking(p)
  IN IF vote.on
     THEN /\ mainq' = Append(blocks, Block(r, "vote", Overlaid(vote.base)))
          /\ UNCHANGED <<reads, up>>
     ELSE /\ reads' = Append(reads, r)
          /\ up' = IF reads = << >> THEN Append(up, [type |-> "listen"]) ELSE up
          /\ mainq' = blocks

(***************************************************************************)
(* The user.                                                               *)
(***************************************************************************)

(* viewDidLoad of the detail screen.                                       *)
OpenPost ==
  /\ page = 0 /\ asked < MaxReads
  /\ page' = pages + 1 /\ pages' = pages + 1 /\ asked' = asked + 1
  /\ table' = {} /\ listed' = Nothing
  /\ GetComments(pages + 1, mainq)
  /\ UNCHANGED <<stored, writing, vote, down, sheet, spinner, sheets, attempts, faults,
                 denied, returned>>

Back ==
  /\ page # 0 /\ sheet = NoSheet
  /\ page' = 0 /\ table' = {} /\ spinner' = FALSE /\ listed' = Nothing
  /\ UNCHANGED <<stored, writing, link, mainq, sheet, bounds, denied, returned>>

Pull ==
  /\ page # 0 /\ sheet = NoSheet /\ ~spinner /\ asked < MaxReads
  /\ spinner' = TRUE /\ asked' = asked + 1
  /\ GetComments(page, mainq)
  /\ UNCHANGED <<stored, writing, vote, down, page, sheet, table, pages, sheets,
                 attempts, faults, history>>

OpenSheet ==
  /\ page # 0 /\ sheet = NoSheet /\ sheets < MaxSheets
  /\ sheet' = [id |-> sheets + 1, alert |-> FALSE] /\ sheets' = sheets + 1
  /\ UNCHANGED <<stored, writing, link, mainq, page, table, spinner, pages, asked,
                 attempts, faults, history>>

(* cancel, or the button of the alert.                                     *)
CloseSheet ==
  /\ sheet # NoSheet
  /\ sheet' = IF sheet.alert THEN [sheet EXCEPT !.alert = FALSE] ELSE NoSheet
  /\ UNCHANGED <<stored, writing, link, mainq, page, table, spinner, bounds, history>>

(* createPost of the sheet, and createComment.  Nothing keeps the user     *)
(* from tapping again before the answer.                                   *)
Reply ==
  /\ sheet # NoSheet /\ ~sheet.alert
  /\ made < MaxComments
  /\ made' = made + 1
  /\ stage' = Append(stage, "sent") /\ from' = Append(from, [id |-> sheet.id, page |-> page])
  /\ up' = Append(up, [type |-> "put", comment |-> made + 1])
  /\ vote' = [vote EXCEPT !.marks = IF vote.on THEN @ + 1 ELSE @]
  /\ UNCHANGED <<stored, reads, down, mainq, screen, bounds, history>>

(* The transaction of a vote that was tapped on the feed starts: it hides  *)
(* the post, and reads under way are answered from its first output, which *)
(* has none but this phone's own pending comments.                         *)
StartVote ==
  /\ ~vote.on /\ attempts < MaxAttempts
  /\ attempts' = attempts + 1
  /\ vote' = Attempt(Pending)
  /\ up' = Append(up, [type |-> "vote", known |-> FALSE, base |-> Pending])
  /\ mainq' = mainq \o Answered("vote", Pending)
  /\ reads' = << >>
  /\ UNCHANGED <<stored, writing, down, screen, pages, asked, sheets, faults, history>>

(***************************************************************************)
(* The server, and other phones.                                           *)
(***************************************************************************)

Asked(type) == up # << >> /\ Head(up).type = type

Say(m) == down' = Append(down, m) /\ up' = Tail(up)

AnswerRead ==
  /\ Asked("listen")
  /\ Say([type |-> "comments", told |-> stored])
  /\ UNCHANGED <<stored, writing, reads, vote, mainq, screen, bounds, history>>

RefuseRead ==
  /\ Asked("listen") /\ faults < MaxFaults
  /\ faults' = faults + 1
  /\ Say([type |-> "error"])
  /\ UNCHANGED <<stored, writing, reads, vote, mainq, screen, pages, asked, sheets,
                 attempts, history>>

StoreComment ==
  /\ Asked("put")
  /\ stored' = stored \cup {Head(up).comment}
  /\ stage' = [stage EXCEPT ![Head(up).comment] = "stored"]
  /\ Say([type |-> "reply", comment |-> Head(up).comment])
  /\ UNCHANGED <<made, from, reads, vote, mainq, screen, bounds, history>>

RefuseComment ==
  /\ Asked("put") /\ Head(up).comment \notin stored /\ faults < MaxFaults
  /\ faults' = faults + 1
  /\ stage' = [stage EXCEPT ![Head(up).comment] = "refused"]
  /\ denied' = denied \cup {Head(up).comment}
  /\ Say([type |-> "reply", comment |-> Head(up).comment])
  /\ UNCHANGED <<stored, made, from, reads, vote, mainq, screen, pages, asked, sheets,
                 attempts, listed, returned>>

OthersComment ==
  /\ made < MaxComments
  /\ made' = made + 1
  /\ stage' = Append(stage, "foreign") /\ from' = Append(from, [id |-> 0, page |-> 0])
  /\ stored' = stored \cup {made + 1}
  /\ UNCHANGED <<link, mainq, screen, bounds, history>>

(* The hash of an attempt fits only if it knows the post as it is.         *)
AcceptVote ==
  /\ Asked("vote") /\ Head(up).known /\ Head(up).base = stored
  /\ Say([type |-> "voted"])
  /\ UNCHANGED <<stored, writing, reads, vote, mainq, screen, bounds, history>>

(* Another phone may have voted in between, too.                           *)
RefuseVote ==
  /\ Asked("vote")
  /\ Say([type |-> "stale", told |-> stored])
  /\ UNCHANGED <<stored, writing, reads, vote, mainq, screen, bounds, history>>

(* The pending writes, in the order in which they were made.              *)
Orders == {s \in [1..Cardinality(Pending) -> Pending] :
             \A m, n \in DOMAIN s : m < n => s[m] < s[n]}

Resent(s) == [n \in 1..Len(s) |-> [type |-> "put", comment |-> s[n]]]

(* The connection is lost, and comes back: what is outstanding is sent     *)
(* again, except for the transaction, which is given up unless dropped.    *)
DisconnectDroppingReads ==      \* mutant: listens are not sent again
  /\ faults < MaxFaults
  /\ faults' = faults + 1
  /\ down' = << >> /\ vote' = IF Dropped THEN vote ELSE NoVote
  /\ stage' = [i \in Made |-> IF i \in Pending THEN "sent" ELSE stage[i]]
  /\ \E s \in Orders : up' = Resent(s)
  /\ UNCHANGED <<stored, made, from, reads, mainq, screen, pages, asked, sheets,
                 attempts, history>>

DisconnectDroppingWrites ==     \* mutant: comments are not sent again
  /\ faults < MaxFaults
  /\ faults' = faults + 1
  /\ down' = << >> /\ vote' = IF Dropped THEN vote ELSE NoVote
  /\ stage' = [i \in Made |-> IF i \in Pending THEN "failed" ELSE stage[i]]
  /\ up' = IF reads = << >> THEN << >> ELSE <<[type |-> "listen"]>>
  /\ UNCHANGED <<stored, made, from, reads, mainq, screen, pages, asked, sheets,
                 attempts, history>>

Disconnect ==
  /\ faults < MaxFaults
  /\ faults' = faults + 1
  /\ down' = << >> /\ vote' = IF Dropped THEN vote ELSE NoVote
  /\ stage' = [i \in Made |-> IF i \in Pending THEN "sent" ELSE stage[i]]
  /\ \E s \in Orders :
       up' = (IF reads = << >> THEN << >> ELSE <<[type |-> "listen"]>>) \o Resent(s)
  /\ UNCHANGED <<stored, made, from, reads, mainq, screen, pages, asked, sheets,
                 attempts, history>>

(***************************************************************************)
(* The client's queue.                                                     *)
(***************************************************************************)

Told(type) == down # << >> /\ Head(down).type = type

(* Every read under way is completed.                                      *)
DeliverComments ==
  /\ Told("comments")
  /\ mainq' = mainq \o Answered("server", Overlaid(Head(down).told))
  /\ reads' = << >> /\ down' = Tail(down)
  /\ UNCHANGED <<stored, writing, vote, up, screen, bounds, history>>

DeliverError ==
  /\ Told("error")
  /\ mainq' = mainq \o Answered("error", {})
  /\ reads' = << >> /\ down' = Tail(down)
  /\ UNCHANGED <<stored, writing, vote, up, screen, bounds, history>>

DeliverReply ==
  /\ Told("reply")
  /\ LET i == Head(down).comment
     IN /\ stage' = [stage EXCEPT ![i] = IF @ = "stored" THEN "acked" ELSE "denied"]
        /\ mainq' = Append(mainq, [type |-> "reply", comment |-> i])
  /\ down' = Tail(down)
  /\ UNCHANGED <<stored, made, from, reads, vote, up, screen, bounds, history>>

(* The attempt was accepted, or failed and is marked, or the last one.     *)
(* What was dropped and fails hides the post until the app ends.           *)
EndVote ==
  /\ \/ Told("voted") /\ vote' = NoVote
     \/ /\ Told("stale")
        /\ vote.marks > 0 \/ attempts = MaxAttempts
        /\ vote' = IF Dropped THEN vote ELSE NoVote
  /\ down' = Tail(down)
  /\ UNCHANGED <<stored, writing, reads, up, mainq, screen, bounds, history>>

(* The block is run again, on the post as the server told it.              *)
VoteAgain ==
  /\ Told("stale") /\ vote.marks = 0 /\ attempts < MaxAttempts
  /\ attempts' = attempts + 1
  /\ LET base == Overlaid(Head(down).told)
     IN /\ vote' = Attempt(base)
        /\ up' = Append(up, [type |-> "vote", known |-> TRUE, base |-> base])
  /\ down' = Tail(down)
  /\ UNCHANGED <<stored, writing, reads, mainq, screen, pages, asked, sheets, faults,
                 history>>

(***************************************************************************)
(* The main thread.                                                        *)
(***************************************************************************)

Run(type) == mainq # << >> /\ Head(mainq).type = type

(* getAllComments of the detail screen that asked, with or without an      *)
(* error: it lists what it is given, nothing on an error.                  *)
ShowComments ==
  /\ Run("comments")
  /\ mainq' = Tail(mainq)
  /\ LET b == Head(mainq)
     IN IF b.page = page
        THEN /\ table' = b.told /\ spinner' = FALSE
             /\ listed' = [how |-> b.how, floor |-> b.floor]
        ELSE UNCHANGED <<table, spinner, listed>>
  /\ UNCHANGED <<stored, writing, link, page, sheet, bounds, denied, returned>>

(* dismiss takes away the alert over the sheet, or else the sheet; when it *)
(* is done the comments are read.  UIKit does not say what becomes of that *)
(* if the sheet has gone already.                                          *)
RepliedWithoutRead ==           \* mutant: the comments are left as they are
  /\ Run("reply")
  /\ LET i == Head(mainq).comment
     IN /\ stage[i] = "acked"
        /\ stage' = [stage EXCEPT ![i] = "done"]
        /\ mainq' = Tail(mainq)
        /\ returned' = IF sheet.id = from[i].id THEN returned \cup {i} ELSE returned
        /\ sheet' = IF sheet.id # from[i].id THEN sheet
                    ELSE IF sheet.alert THEN [sheet EXCEPT !.alert = FALSE] ELSE NoSheet
  /\ UNCHANGED <<stored, made, from, link, page, table, spinner, bounds, listed,
                 denied>>

Replied ==
  /\ Run("reply")
  /\ LET i == Head(mainq).comment
         gone == [type |-> "dismissed", page |-> from[i].page]
     IN /\ stage[i] = "acked"
        /\ stage' = [stage EXCEPT ![i] = "done"]
        /\ \/ mainq' = Append(Tail(mainq), gone)
           \/ sheet.id # from[i].id /\ mainq' = Tail(mainq)
        /\ returned' = IF sheet.id = from[i].id THEN returned \cup {i} ELSE returned
        /\ sheet' = IF sheet.id # from[i].id THEN sheet
                    ELSE IF sheet.alert THEN [sheet EXCEPT !.alert = FALSE] ELSE NoSheet
  /\ UNCHANGED <<stored, made, from, link, page, table, spinner, bounds, listed,
                 denied>>

NotReplied ==
  /\ Run("reply")
  /\ LET i == Head(mainq).comment
     IN /\ stage[i] = "denied"
        /\ stage' = [stage EXCEPT ![i] = "failed"]
        /\ sheet' = IF sheet.id = from[i].id THEN [sheet EXCEPT !.alert = TRUE] ELSE sheet
  /\ mainq' = Tail(mainq)
  /\ UNCHANGED <<stored, made, from, link, page, table, spinner, bounds, history>>

Dismissed ==
  /\ Run("dismissed")
  /\ GetComments(Head(mainq).page, Tail(mainq))
  /\ UNCHANGED <<stored, writing, vote, down, screen, bounds, history>>

-----------------------------------------------------------------------------

User == OpenPost \/ Back \/ Pull \/ OpenSheet \/ CloseSheet \/ Reply

Server == AnswerRead \/ StoreComment \/ AcceptVote \/ RefuseVote

Client == DeliverComments \/ DeliverError \/ DeliverReply \/ EndVote \/ VoteAgain

MainThread == ShowComments \/ Replied \/ NotReplied \/ Dismissed

Fault == RefuseRead \/ RefuseComment \/ Disconnect

Next == User \/ StartVote \/ OthersComment \/ Server \/ Client \/ MainThread \/ Fault

Spec == Init /\ [][Next]_vars

(* The server answers, the client reconnects, and what is queued is run:   *)
(* as long as any of it is left, some is done.                             *)
FairSpec == Spec /\ WF_vars(Server \/ Client \/ MainThread)

=============================================================================
