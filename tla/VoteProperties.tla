--------------------------- MODULE VoteProperties ---------------------------
(***************************************************************************)
(* What voting as VoteFlow describes it guarantees, and under which        *)
(* circumstances.                                                          *)
(***************************************************************************)
EXTENDS VoteFlow

CONSTANT Uncast       \* the content of a vote nobody has cast yet

Values == {NoRecord, Unknown, -1, 0, 1}

DownMessages ==
  [type : {"value"}, post : Posts, val : Values]
    \cup [type : {"reply"}, tap : Taps]

MainBlocks ==
  [type : {"value"}, told : [Cells -> Values]]
    \cup [type : {"reply"}, tap : Taps]

DbTypeOK ==
  /\ record \in [Users -> [Posts -> Values]]
  /\ ups \in [Posts -> Int]
  /\ downs \in [Posts -> Int]

TapTypeOK ==
  /\ taps \in 0..MaxTaps
  /\ vote \in [Taps -> Votes]
  /\ stage \in [Taps -> Stages]

LinkTypeOK ==
  /\ alive \in [Devices -> BOOLEAN]
  /\ online \in [Devices -> BOOLEAN]
  /\ listening \in [Devices -> [Posts -> BOOLEAN]]
  /\ down \in [Devices -> Seq(DownMessages)]
  /\ synced \in [Devices -> [Posts -> Values]]
  /\ view \in [Devices -> [Posts -> Values]]
  /\ mainq \in [Devices -> Seq(MainBlocks)]

ScreenTypeOK ==
  /\ row \in [Devices -> [Cells -> Posts \cup {Nowhere}]]
  /\ observers \in [Devices -> SUBSET (Cells \X Posts)]
  /\ thumb \in [Devices -> [Cells -> {-1, 0, 1}]]
  /\ count \in [Devices -> [Cells -> Int]]

BoundTypeOK == faults \in Nat /\ loads \in [Devices -> Nat]

HistTypeOK ==
  /\ recorded \subseteq Taps
  /\ counted \subseteq Taps
  /\ expected \in [Devices -> [Posts -> Int]]
  /\ raced \subseteq Taps

(* The type of every variable; in particular every answer on its way, of   *)
(* the server or to the main thread, names a tap that was made.            *)
TypeOK ==
  /\ DbTypeOK
  /\ TapTypeOK
  /\ LinkTypeOK
  /\ ScreenTypeOK
  /\ BoundTypeOK
  /\ HistTypeOK

-----------------------------------------------------------------------------
(* The two writes of a vote.                                               *)

(* The counter of a post never changes for a vote whose record was not     *)
(* written first, whatever connections break and apps die in between       *)
(* (setUpvotes and setDownvotes start the transaction in the completion of *)
(* the write).                                                             *)
CountedVoteIsRecorded == counted \subseteq recorded

(* What the stage of a vote says of its two writes.                        *)
StageTellsWrites ==
  \A t \in Taps :
    /\ stage[t] \in {"stored", "acked", "count", "counted", "cancelled",
                     "answered", "aborted", "forgotten", "done"} => t \in recorded
    /\ stage[t] \in {"sent", "stored", "refused", "acked", "denied", "count"}
         => t \notin counted
    /\ stage[t] \in {"counted", "answered", "done"} => t \in counted

(* A completion block that is told of no error tells the truth: both       *)
(* writes of its vote are in the database.                                 *)
SuccessMeansStored == \A t \in Taps : stage[t] = "done" => t \in recorded \cap counted

(* The database, and the votes as far as it knows them, behave as          *)
(* VoteLedger says: a record write that is repeated after a lost answer    *)
(* never comes after the count of its vote, and no vote is counted twice.  *)
Ledger == INSTANCE VoteLedger WITH
  Votes <- 1..MaxTaps,
  content <- [t \in 1..MaxTaps |->
     IF t \in Taps
     THEN [user |-> UserOf[vote[t].dev], post |-> vote[t].post,
           kind |-> vote[t].kind, value |-> NewValue(vote[t]),
           delta |-> Delta(vote[t])]
     ELSE Uncast]

ASSUME UncastAssumption == Uncast \notin Ledger!Contents

LedgerSpec == Ledger!Spec

(* The votes of p are tidy: each was tapped when the cell showed what is   *)
(* recorded and no other vote of its user on p was under way, and both its *)
(* writes were made and reported.                                          *)
Tidy(p) ==
  \A t \in Taps : vote[t].post = p => vote[t].informed /\ stage[t] = "done"

Recorded(p, r) == {u \in Users : record[u][p] = r}
Switched(p, k) ==
  {t \in Taps : vote[t].post = p /\ vote[t].kind = -k /\ vote[t].shown = k}

(* When all votes of a post are tidy its counters are exactly the recorded *)
(* votes plus one for every time a user switched thumbs: a vote that is    *)
(* switched is never taken back from the other counter.                    *)
TidyVotesAreCounted ==
  \A p \in Posts : Tidy(p) =>
    /\ ups[p] = Cardinality(Recorded(p, 1)) + Cardinality(Switched(p, 1))
    /\ downs[p] = Cardinality(Recorded(p, -1)) + Cardinality(Switched(p, -1))

-----------------------------------------------------------------------------
(* The screen.                                                             *)

(* Nothing on its way can change what phone d shows of post p.             *)
Settled(d, p) ==
  /\ alive[d] /\ online[d] /\ \A q \in Posts : listening[d][q]
  /\ down[d] = << >> /\ mainq[d] = << >>
  /\ \A t \in Taps : vote[t].post = p /\ UserOf[vote[t].dev] = UserOf[d] => ~Open(t)

(* Whatever was tapped where, and whatever failed, a settled phone's       *)
(* client sees the record that is in the database: its pending writes have *)
(* all been replaced by what the server said.                              *)
SettledViewIsRecord ==
  \A d \in Devices, p \in Posts :
    Settled(d, p) => view[d][p] = record[UserOf[d]][p]

Alone(d) == \A e \in Devices \ {d} : UserOf[e] # UserOf[d]

(* The cell has displayed no post but p.                                   *)
NeverReused(d, c, p) ==
  row[d][c] = p /\ \A q \in Posts : <<c, q>> \in observers[d] => q = p

(* Once settled, a cell shows the recorded vote of its user, even after    *)
(* fast taps, lost connections, reloads and restarts, unless a vote on it  *)
(* was completed with an error, the cell was reused for another post, or   *)
(* the user voted on the post elsewhere, too, through another cell or from *)
(* another phone: the cell that was tapped is told when its vote is        *)
(* completed, whatever the record is by then.                              *)
SettledCellShowsRecord ==
  \A d \in Devices, c \in Cells, p \in Posts :
    /\ Settled(d, p) /\ NeverReused(d, c, p)
    /\ \A t \in Taps : vote[t].dev = d =>
         /\ vote[t].cell = c => stage[t] # "failed"
         /\ vote[t].post = p => vote[t].cell = c /\ Alone(d)
    => thumb[d][c] = AsThumb(record[UserOf[d]][p])

(* Once settled, the count of a cell is the points it was loaded with plus *)
(* the votes of this phone counted since, unless a vote was under way when *)
(* the feed was reloaded, failed, or was tapped before an earlier one on   *)
(* the post had been answered.                                             *)
SettledCountIsExpected ==
  \A d \in Devices, c \in Cells, p \in Posts :
    /\ Settled(d, p) /\ NeverReused(d, c, p) /\ Alone(d)
    /\ \A t \in Taps : vote[t].dev = d /\ vote[t].post = p =>
         t \notin raced /\ stage[t] # "failed" /\ vote[t].informed
    => count[d][c] = expected[d][p]

-----------------------------------------------------------------------------
(* Progress.                                                               *)

Answered(t) == t \in Taps /\ ~Open(t)

Forgotten(t) == t \in Taps /\ stage[t] = "forgotten"

(* Every tap is answered, by a completion with or without an error, unless *)
(* the app dies first or two comments of the user made the client forget   *)
(* the vote's transaction (abortTransactionsAtNode, which drops a queue of *)
(* marked transactions): no other vote waits for ever in the client, for a *)
(* lost answer, or behind another one, be that one forgotten (FairSpec).   *)
OnlyForgottenTapsWait ==
  \A t \in 1..MaxTaps : t \in Taps ~> Answered(t) \/ Forgotten(t)

=============================================================================
