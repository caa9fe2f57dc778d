----------------------------- MODULE VoteProofs -----------------------------
(***************************************************************************)
(* Proofs about VoteFlow, for any number of phones, accounts, posts, cells *)
(* and taps: types, writes, the ledger and the counters; that a settled    *)
(* phone sees the records that are in the database, that the votes of a    *)
(* phone on a post stay in the order in which they were tapped, and that a *)
(* settled cell shows the recorded vote of its user and counts it.         *)
(***************************************************************************)
EXTENDS VoteProperties, SequenceTheorems, FiniteSetTheorems, TLAPS

-----------------------------------------------------------------------------
(* Lemmas about the operators of the model.                                *)

(* A vote writes 1, 0 or -1, and changes a counter by one.                 *)
LEMMA VoteEffect ==
  ASSUME NEW v \in Votes
  PROVE  /\ NewValue(v) \in {-1, 0, 1}
         /\ Delta(v) \in {-1, 1}
         /\ v.kind * Delta(v) \in {-1, 1}
BY DEF Votes, NewValue, Delta

(* A thumb is up, down or neither.                                         *)
LEMMA ThumbType == \A r : AsThumb(r) \in {-1, 0, 1}
BY DEF AsThumb

(* An event is at most one block for the main thread.                      *)
LEMMA EventType ==
  ASSUME NEW d, NEW p, NEW r \in Values
  PROVE  Event(d, p, r) \in Seq(MainBlocks)
<1> DEFINE m == [type |-> "value",
                 told |-> [c \in Cells |->
                             IF <<c, p>> \in observers[d] THEN r ELSE NoRecord]]
<1>1. NoRecord \in Values
  BY DEF Values
<1>2. m.told \in [Cells -> Values]
  BY <1>1
<1>3. m \in MainBlocks
  BY <1>2 DEF MainBlocks
<1>4. <<m>> \in Seq(MainBlocks)
  BY <1>3
<1> QED
  BY <1>4 DEF Event

(* The block that runs the completion of a tap.                            *)
LEMMA ReplyType ==
  ASSUME NEW t \in Taps
  PROVE  /\ Reply(t) \in Seq(MainBlocks)
         /\ [type |-> "reply", tap |-> t] \in DownMessages
BY DEF Reply, MainBlocks, DownMessages

(* A layout puts a post, or nothing, into every cell.                      *)
LEMMA RowsType ==
  ASSUME NEW f \in Layouts
  PROVE  /\ RowsOf(f) \in [Cells -> Posts \cup {Nowhere}]
         /\ Watching(f) \in SUBSET (Cells \X Posts)
<1>1. ASSUME NEW c \in Cells, \E p \in Posts : f[p] = c
      PROVE  (CHOOSE p \in Posts : f[p] = c) \in Posts
  BY <1>1
<1> QED
  BY <1>1 DEF RowsOf, Watching, Layouts

(* A set of taps is worth a number of points.                              *)
LEMMA WorthType ==
  ASSUME TypeOK, NEW S \in SUBSET Taps
  PROVE  Worth(S) \in Int
<1>1. IsFiniteSet(Taps)
  BY FS_Interval DEF TypeOK, TapTypeOK, Taps
<1>2. ASSUME NEW T \in SUBSET S
      PROVE  Cardinality(T) \in Nat
  <2>1. T \in SUBSET Taps
    OBVIOUS
  <2> QED
    BY <1>1, <2>1, FS_Subset, FS_CardinalityType
<1>3. /\ {t \in S : vote[t].kind = Delta(vote[t])} \in SUBSET S
      /\ {t \in S : vote[t].kind # Delta(vote[t])} \in SUBSET S
  OBVIOUS
<1>4. /\ Cardinality({t \in S : vote[t].kind = Delta(vote[t])}) \in Nat
      /\ Cardinality({t \in S : vote[t].kind # Delta(vote[t])}) \in Nat
  BY <1>2, <1>3
<1> QED
  BY <1>4 DEF Worth

(* The points of a post are a number.                                      *)
LEMMA PointsType ==
  ASSUME TypeOK, NEW p \in Posts
  PROVE  Points(p) \in Int
BY DEF TypeOK, DbTypeOK, Points

(* Taking one message from a queue leaves a queue, and the message was one *)
(* of the queue's.                                                         *)
LEMMA QueueType ==
  ASSUME NEW M, NEW q \in Seq(M), q # << >>
  PROVE  Head(q) \in M /\ Tail(q) \in Seq(M)
BY HeadTailProperties

-----------------------------------------------------------------------------
(* Type correctness, one lemma per group of actions.                       *)

(* Only a tap makes new taps.                                              *)
LEMMA SameTaps ==
  ASSUME UNCHANGED tapVars
  PROVE  /\ UNCHANGED <<taps, vote>> /\ Taps' = Taps
         /\ DownMessages' = DownMessages /\ MainBlocks' = MainBlocks
BY DEF tapVars, Taps, DownMessages, MainBlocks

(* The state the program starts in is typed.                               *)
LEMMA InitType == Init => TypeOK
<1> SUFFICES ASSUME Init PROVE TypeOK
  OBVIOUS
<1> USE DEF Init
<1>1. DbTypeOK
  BY DEF DbTypeOK, Values, NoRecord
<1>2. TapTypeOK
  BY BoundAssumption DEF TapTypeOK, Taps
<1>3. LinkTypeOK
  BY DEF LinkTypeOK, Values, Unknown
<1>4. ScreenTypeOK
  BY RowsType DEF ScreenTypeOK
<1>5. BoundTypeOK
  BY DEF BoundTypeOK
<1>6. HistTypeOK
  BY DEF HistTypeOK
<1> QED
  BY <1>1, <1>2, <1>3, <1>4, <1>5, <1>6 DEF TypeOK

(* A tap adds a vote, its pending write and perhaps an event.              *)
LEMMA TapType ==
  ASSUME TypeOK, NEW d \in Devices, NEW c \in Cells, NEW kind \in {1, -1},
         Tap(d, c, kind)
  PROVE  TypeOK'
<1> DEFINE w == NewVote(d, c, kind)
           p == w.post
<1>1. taps \in Nat /\ taps' = taps + 1 /\ taps' \in 0..MaxTaps
  BY BoundAssumption DEF TypeOK, TapTypeOK, Tap
<1>2. Taps' = 1..(taps + 1) /\ taps + 1 \in Taps' /\ Taps \subseteq Taps'
  BY <1>1 DEF Taps
<1>3. w \in Votes /\ p \in Posts
  <2>1. row[d][c] \in Posts /\ thumb[d][c] \in {-1, 0, 1}
    BY DEF TypeOK, ScreenTypeOK, Tap
  <2>2. Informed(d, c) \in BOOLEAN
    BY DEF Informed
  <2> QED
    BY <2>1, <2>2 DEF NewVote, Votes
<1>4. /\ vote' = [t \in 1..(taps + 1) |-> IF t \in Taps THEN vote[t] ELSE w]
      /\ stage' = [t \in 1..(taps + 1) |-> IF t \in Taps THEN stage[t] ELSE "sent"]
      /\ mainq' = [mainq EXCEPT ![d] = @ \o Event(d, p, NewValue(w))]
      /\ view' = [view EXCEPT ![d][p] = NewValue(w)]
  BY DEF Tap
<1> HIDE DEF w
<1>5. TapTypeOK'
  BY <1>1, <1>2, <1>3, <1>4 DEF TypeOK, TapTypeOK, Stages
<1>6. NewValue(w) \in Values
  BY <1>3, VoteEffect DEF Values
<1>7. DownMessages \subseteq DownMessages' /\ MainBlocks \subseteq MainBlocks'
  BY <1>2 DEF DownMessages, MainBlocks
<1>8. /\ Seq(DownMessages) \subseteq Seq(DownMessages')
      /\ Seq(MainBlocks) \subseteq Seq(MainBlocks')
  BY <1>7, SeqMonotonic
<1>9. mainq[d] \o Event(d, p, NewValue(w)) \in Seq(MainBlocks)
  BY <1>6, EventType, ConcatProperties DEF TypeOK, LinkTypeOK
<1>10. mainq' \in [Devices -> Seq(MainBlocks')]
  BY <1>4, <1>8, <1>9 DEF TypeOK, LinkTypeOK
<1>11. down' \in [Devices -> Seq(DownMessages')]
  BY <1>8 DEF TypeOK, LinkTypeOK, Tap
<1>12. view' \in [Devices -> [Posts -> Values]]
  BY <1>3, <1>4, <1>6 DEF TypeOK, LinkTypeOK
<1>13. LinkTypeOK'
  BY <1>10, <1>11, <1>12 DEF TypeOK, LinkTypeOK, Tap
<1>14. DbTypeOK' /\ ScreenTypeOK' /\ BoundTypeOK'
  BY DEF TypeOK, DbTypeOK, ScreenTypeOK, BoundTypeOK, Tap, dbVars, screenVars, boundVars
<1>15. HistTypeOK'
  BY <1>2 DEF TypeOK, HistTypeOK, Tap, histVars
<1> QED
  BY <1>5, <1>13, <1>14, <1>15 DEF TypeOK

(* The client's queue takes its messages in order.                         *)
LEMMA DeliverType ==
  ASSUME TypeOK, NEW d \in Devices,
         DeliverValue(d) \/ DeliverAck(d) \/ DeliverCommit(d)
  PROVE  TypeOK'
<1>1. /\ UNCHANGED <<dbVars, tapVars, alive, online, listening, screenVars,
                     boundVars, histVars>>
      /\ down[d] # << >>
      /\ down' = [down EXCEPT ![d] = Tail(@)]
  BY DEF DeliverValue, DeliverAck, DeliverCommit
<1>2. Taps' = Taps /\ DownMessages' = DownMessages /\ MainBlocks' = MainBlocks
  BY <1>1, SameTaps
<1>3. Head(down[d]) \in DownMessages /\ Tail(down[d]) \in Seq(DownMessages)
  BY <1>1, QueueType DEF TypeOK, LinkTypeOK
<1>4. /\ stage' \in [Taps -> Stages]
      /\ synced' \in [Devices -> [Posts -> Values]]
      /\ view' \in [Devices -> [Posts -> Values]]
      /\ mainq' \in [Devices -> Seq(MainBlocks)]
  <2>1. CASE DeliverValue(d)
    <3> DEFINE p == Head(down[d]).post
               r == IF Pending(d, p, stage) = {} THEN Head(down[d]).val ELSE view[d][p]
    <3>1. p \in Posts /\ Head(down[d]).val \in Values
      BY <1>3, <2>1 DEF DeliverValue, DownMessages
    <3>2. r \in Values
      BY <3>1 DEF TypeOK, LinkTypeOK
    <3>3. mainq[d] \o Event(d, p, r) \in Seq(MainBlocks)
      BY <3>2, EventType, ConcatProperties DEF TypeOK, LinkTypeOK
    <3>4. /\ synced' = [synced EXCEPT ![d][p] = Head(down[d]).val]
          /\ mainq' = [mainq EXCEPT ![d] = @ \o Event(d, p, r)]
          /\ view' = [view EXCEPT ![d][p] = r]
          /\ stage' = stage
      BY <2>1 DEF DeliverValue
    <3>5. mainq' \in [Devices -> Seq(MainBlocks)]
      BY <3>3, <3>4 DEF TypeOK, LinkTypeOK
    <3>6. /\ synced' \in [Devices -> [Posts -> Values]]
          /\ view' \in [Devices -> [Posts -> Values]]
      BY <3>1, <3>2, <3>4 DEF TypeOK, LinkTypeOK
    <3> QED
      BY <3>4, <3>5, <3>6 DEF TypeOK, TapTypeOK
  <2>2. CASE DeliverAck(d)
    <3> DEFINE t == Head(down[d]).tap
               p == vote[t].post
               s == AckedValue(d, t)
               newStage == [stage EXCEPT ![t] = IF @ = "stored" THEN "acked" ELSE "denied"]
               r == IF Pending(d, p, newStage) = {} THEN s ELSE view[d][p]
    <3>1. t \in Taps
      BY <1>3, <2>2 DEF DeliverAck, DownMessages
    <3>2. vote[t] \in Votes /\ p \in Posts
      BY <3>1 DEF TypeOK, TapTypeOK, Votes
    <3>3. s \in Values /\ r \in Values
      BY <3>2, VoteEffect DEF AckedValue, TypeOK, LinkTypeOK, Values
    <3>4. /\ Event(d, p, r) \in Seq(MainBlocks)
          /\ Reply(t) \in Seq(MainBlocks)
          /\ mainq[d] \in Seq(MainBlocks)
      BY <3>1, <3>3, EventType, ReplyType DEF TypeOK, LinkTypeOK
    <3>5. mainq[d] \o Event(d, p, r) \o Reply(t) \in Seq(MainBlocks)
      BY <3>4, ConcatProperties
    <3>6. /\ synced' = [synced EXCEPT ![d][p] = s]
          /\ mainq' = [mainq EXCEPT ![d] = @ \o Event(d, p, r) \o Reply(t)]
          /\ view' = [view EXCEPT ![d][p] = r]
          /\ stage' = newStage
      BY <2>2 DEF DeliverAck
    <3>7. mainq' \in [Devices -> Seq(MainBlocks)]
      BY <3>5, <3>6 DEF TypeOK, LinkTypeOK
    <3>8. /\ synced' \in [Devices -> [Posts -> Values]]
          /\ view' \in [Devices -> [Posts -> Values]]
      BY <3>2, <3>3, <3>6 DEF TypeOK, LinkTypeOK
    <3>9. stage' \in [Taps -> Stages]
      BY <3>6 DEF TypeOK, TapTypeOK, Stages
    <3> QED
      BY <3>7, <3>8, <3>9
  <2>3. CASE DeliverCommit(d)
    <3> DEFINE t == Head(down[d]).tap
    <3>1. t \in Taps
      BY <1>3, <2>3 DEF DeliverCommit, DownMessages
    <3>2. mainq[d] \o Reply(t) \in Seq(MainBlocks)
      BY <3>1, ReplyType, ConcatProperties DEF TypeOK, LinkTypeOK
    <3>3. mainq' \in [Devices -> Seq(MainBlocks)]
      BY <2>3, <3>2 DEF DeliverCommit, TypeOK, LinkTypeOK
    <3> QED
      BY <2>3, <3>3 DEF DeliverCommit, TypeOK, LinkTypeOK, TapTypeOK, Stages
  <2> QED
    BY <2>1, <2>2, <2>3
<1>5. LinkTypeOK'
  BY <1>1, <1>2, <1>3, <1>4 DEF TypeOK, LinkTypeOK
<1>6. TapTypeOK'
  BY <1>1, <1>2, <1>4, SameTaps DEF TypeOK, TapTypeOK
<1>7. DbTypeOK' /\ ScreenTypeOK' /\ BoundTypeOK' /\ HistTypeOK'
  BY <1>1, <1>2 DEF TypeOK, DbTypeOK, ScreenTypeOK, BoundTypeOK, HistTypeOK,
                    dbVars, screenVars, boundVars, histVars
<1> QED
  BY <1>5, <1>6, <1>7 DEF TypeOK

(* A given-up or cancelled transaction queues its callback.                *)
LEMMA AbortType ==
  ASSUME TypeOK, NEW d \in Devices, NEW t \in Taps, GiveUp(d, t) \/ Cancel(d, t)
  PROVE  TypeOK'
<1>1. /\ UNCHANGED <<dbVars, tapVars, alive, linkVars, screenVars, loads, histVars>>
      /\ stage' = [stage EXCEPT ![t] = "aborted"]
      /\ mainq' = [mainq EXCEPT ![d] = @ \o Reply(t)]
      /\ faults' \in Nat
  BY DEF GiveUp, Cancel, boundVars, TypeOK, BoundTypeOK
<1>2. Taps' = Taps /\ DownMessages' = DownMessages /\ MainBlocks' = MainBlocks
  BY <1>1, SameTaps
<1>3. mainq[d] \o Reply(t) \in Seq(MainBlocks)
  BY ReplyType, ConcatProperties DEF TypeOK, LinkTypeOK
<1>4. LinkTypeOK'
  BY <1>1, <1>2, <1>3 DEF TypeOK, LinkTypeOK, linkVars
<1>5. TapTypeOK'
  BY <1>1, <1>2, SameTaps DEF TypeOK, TapTypeOK, Stages
<1>6. DbTypeOK' /\ ScreenTypeOK' /\ BoundTypeOK' /\ HistTypeOK'
  BY <1>1, <1>2 DEF TypeOK, DbTypeOK, ScreenTypeOK, BoundTypeOK, HistTypeOK,
                    dbVars, screenVars, histVars
<1> QED
  BY <1>4, <1>5, <1>6 DEF TypeOK

(* A forgotten transaction queues nothing.                                 *)
LEMMA ForgetType ==
  ASSUME TypeOK, NEW d \in Devices, NEW t \in Taps, Forget(d, t)
  PROVE  TypeOK'
<1>1. /\ UNCHANGED <<dbVars, tapVars, alive, linkVars, mainq, screenVars, loads, histVars>>
      /\ stage' = [stage EXCEPT ![t] = "forgotten"]
      /\ faults' \in Nat
  BY DEF Forget, TypeOK, BoundTypeOK
<1>2. Taps' = Taps /\ DownMessages' = DownMessages /\ MainBlocks' = MainBlocks
  BY <1>1, SameTaps
<1>3. LinkTypeOK'
  BY <1>1, <1>2 DEF TypeOK, LinkTypeOK, linkVars
<1>4. TapTypeOK'
  BY <1>1, <1>2, SameTaps DEF TypeOK, TapTypeOK, Stages
<1>5. DbTypeOK' /\ ScreenTypeOK' /\ BoundTypeOK' /\ HistTypeOK'
  BY <1>1, <1>2 DEF TypeOK, DbTypeOK, ScreenTypeOK, BoundTypeOK, HistTypeOK,
                    dbVars, screenVars, histVars
<1> QED
  BY <1>3, <1>4, <1>5 DEF TypeOK

(* A listen is answered.                                                   *)
LEMMA ListenType ==
  ASSUME TypeOK, NEW d \in Devices, NEW p \in Posts, Listen(d, p)
  PROVE  TypeOK'
<1>1. UNCHANGED <<dbVars, tapVars, stage, alive, synced, view, mainq,
                  screenVars, boundVars, histVars>>
  BY DEF Listen
<1>2. Taps' = Taps /\ DownMessages' = DownMessages /\ MainBlocks' = MainBlocks
  BY <1>1, SameTaps
<1>3. online' \in [Devices -> BOOLEAN] /\ listening' \in [Devices -> [Posts -> BOOLEAN]]
  BY DEF TypeOK, LinkTypeOK, Listen
<1>4. [type |-> "value", post |-> p, val |-> record[UserOf[d]][p]] \in DownMessages
  BY DeviceAssumption DEF TypeOK, DbTypeOK, DownMessages
<1>5. Append(down[d], [type |-> "value", post |-> p, val |-> record[UserOf[d]][p]])
        \in Seq(DownMessages)
  BY <1>4, AppendProperties DEF TypeOK, LinkTypeOK
<1>6. down' \in [Devices -> Seq(DownMessages)]
  BY <1>5 DEF TypeOK, LinkTypeOK, Listen
<1>7. LinkTypeOK'
  BY <1>1, <1>2, <1>3, <1>6 DEF TypeOK, LinkTypeOK
<1>8. TapTypeOK'
  BY <1>1, <1>2, SameTaps DEF TypeOK, TapTypeOK
<1>9. DbTypeOK' /\ ScreenTypeOK' /\ BoundTypeOK' /\ HistTypeOK'
  BY <1>1, <1>2 DEF TypeOK, DbTypeOK, ScreenTypeOK, BoundTypeOK, HistTypeOK,
                    dbVars, screenVars, boundVars, histVars
<1> QED
  BY <1>7, <1>8, <1>9 DEF TypeOK

(* The server stores or refuses a record, or commits a counter.            *)
LEMMA ServerType ==
  ASSUME TypeOK, NEW d \in Devices, NEW t \in Taps,
         StoreRecord(d, t) \/ RefuseRecord(d, t) \/ CommitCount(d, t)
  PROVE  TypeOK'
<1>1. UNCHANGED <<tapVars, alive, online, listening, synced, view, mainq,
                  screenVars, loads, raced>>
  BY DEF StoreRecord, RefuseRecord, CommitCount, boundVars, histVars
<1>2. Taps' = Taps /\ DownMessages' = DownMessages /\ MainBlocks' = MainBlocks
  BY <1>1, SameTaps
<1>3. /\ vote[t] \in Votes /\ vote[t].post \in Posts /\ UserOf[d] \in Users
      /\ NewValue(vote[t]) \in Values
      /\ Delta(vote[t]) \in Int /\ vote[t].kind * Delta(vote[t]) \in Int
  BY VoteEffect, DeviceAssumption DEF TypeOK, TapTypeOK, Votes, Values
<1>4. [type |-> "reply", tap |-> t] \in DownMessages
  BY ReplyType
<1>5. Append(down[d], [type |-> "reply", tap |-> t]) \in Seq(DownMessages)
  BY <1>4, AppendProperties DEF TypeOK, LinkTypeOK
<1>6. down' \in [Devices -> Seq(DownMessages)]
  <2>1. CASE StoreRecord(d, t)
    <3> DEFINE m == [type |-> "value", post |-> vote[t].post, val |-> NewValue(vote[t])]
    <3>1. m \in DownMessages
      BY <1>3 DEF DownMessages
    <3>2. \A e \in Devices : Append(down[e], m) \in Seq(DownMessages)
      BY <3>1, AppendProperties DEF TypeOK, LinkTypeOK
    <3> QED
      BY <1>5, <2>1, <3>2 DEF StoreRecord, TypeOK, LinkTypeOK
  <2>2. CASE RefuseRecord(d, t) \/ CommitCount(d, t)
    <3>1. down' = [down EXCEPT ![d] = Append(@, [type |-> "reply", tap |-> t])]
      BY <2>2 DEF RefuseRecord, CommitCount
    <3> QED
      BY <1>5, <3>1 DEF TypeOK, LinkTypeOK
  <2> QED
    BY <2>1, <2>2
<1>7. LinkTypeOK'
  BY <1>1, <1>2, <1>6 DEF TypeOK, LinkTypeOK
<1>8. stage' \in [Taps -> Stages]
  BY DEF StoreRecord, RefuseRecord, CommitCount, TypeOK, TapTypeOK, Stages
<1>9. TapTypeOK'
  BY <1>1, <1>2, <1>8, SameTaps DEF TypeOK, TapTypeOK
<1>10. DbTypeOK'
  <2>1. record' \in [Users -> [Posts -> Values]]
    <3>1. record' = record \/ record' = [record EXCEPT ![UserOf[d]][vote[t].post] = NewValue(vote[t])]
      BY DEF StoreRecord, RefuseRecord, CommitCount, dbVars
    <3> QED
      BY <1>3, <3>1 DEF TypeOK, DbTypeOK
  <2>2. ups' \in [Posts -> Int] /\ downs' \in [Posts -> Int]
    BY <1>3 DEF StoreRecord, RefuseRecord, CommitCount, TypeOK, DbTypeOK, dbVars
  <2> QED
    BY <2>1, <2>2 DEF DbTypeOK
<1>11. HistTypeOK'
  <2>1. recorded' \subseteq Taps /\ counted' \subseteq Taps
    BY DEF StoreRecord, RefuseRecord, CommitCount, TypeOK, HistTypeOK, histVars
  <2>2. \/ expected' = expected
        \/ expected' = [expected EXCEPT ![d][vote[t].post] =
                          @ + vote[t].kind * Delta(vote[t])]
    BY DEF StoreRecord, RefuseRecord, CommitCount, histVars
  <2>3. expected' \in [Devices -> [Posts -> Int]]
    BY <1>3, <2>2 DEF TypeOK, HistTypeOK
  <2> QED
    BY <1>1, <1>2, <2>1, <2>3 DEF TypeOK, HistTypeOK
<1>12. ScreenTypeOK' /\ BoundTypeOK'
  BY <1>1 DEF StoreRecord, RefuseRecord, CommitCount, TypeOK, ScreenTypeOK, BoundTypeOK,
              screenVars, boundVars
<1> QED
  BY <1>7, <1>9, <1>10, <1>11, <1>12 DEF TypeOK

(* A broken connection, and a killed app.                                  *)
LEMMA DropType ==
  ASSUME TypeOK, NEW d \in Devices, Disconnect(d) \/ Kill(d)
  PROVE  TypeOK'
<1>1. UNCHANGED <<dbVars, tapVars, loads, histVars>> /\ faults' \in Nat
  BY DEF Disconnect, Kill, boundVars, TypeOK, BoundTypeOK
<1>2. Taps' = Taps /\ DownMessages' = DownMessages /\ MainBlocks' = MainBlocks
  BY <1>1, SameTaps
<1>3. stage' \in [Taps -> Stages]
  BY DEF Disconnect, Kill, AfterDrop, TypeOK, TapTypeOK, Stages
<1>4. TapTypeOK'
  BY <1>1, <1>2, <1>3, SameTaps DEF TypeOK, TapTypeOK
<1>5. [p \in Posts |-> Unknown] \in [Posts -> Values]
  BY DEF Values
<1>6. << >> \in Seq(DownMessages) /\ << >> \in Seq(MainBlocks)
  OBVIOUS
<1>7. LinkTypeOK' /\ ScreenTypeOK'
  <2>1. CASE Disconnect(d)
    <3>1. /\ UNCHANGED <<alive, synced, view, mainq, row, observers, thumb, count>>
          /\ online' = [online EXCEPT ![d] = FALSE]
          /\ listening' = [listening EXCEPT ![d] = [p \in Posts |-> FALSE]]
          /\ down' = [down EXCEPT ![d] = << >>]
      BY <2>1 DEF Disconnect, screenVars
    <3>2. LinkTypeOK'
      BY <1>2, <1>6, <3>1 DEF TypeOK, LinkTypeOK
    <3> QED
      BY <3>1, <3>2 DEF TypeOK, ScreenTypeOK
  <2>2. CASE Kill(d)
    <3>1. /\ alive' = [alive EXCEPT ![d] = FALSE]
          /\ online' = [online EXCEPT ![d] = FALSE]
          /\ listening' = [listening EXCEPT ![d] = [p \in Posts |-> FALSE]]
          /\ synced' = [synced EXCEPT ![d] = [p \in Posts |-> Unknown]]
          /\ view' = [view EXCEPT ![d] = [p \in Posts |-> Unknown]]
          /\ down' = [down EXCEPT ![d] = << >>]
          /\ mainq' = [mainq EXCEPT ![d] = << >>]
      BY <2>2 DEF Kill
    <3>2. LinkTypeOK'
      BY <1>2, <1>5, <1>6, <3>1 DEF TypeOK, LinkTypeOK
    <3>3. /\ row' = [row EXCEPT ![d] = [c \in Cells |-> Nowhere]]
          /\ observers' = [observers EXCEPT ![d] = {}]
          /\ thumb' = [thumb EXCEPT ![d] = [c \in Cells |-> 0]]
          /\ count' = [count EXCEPT ![d] = [c \in Cells |-> 0]]
      BY <2>2 DEF Kill
    <3>4. ScreenTypeOK'
      BY <3>3 DEF TypeOK, ScreenTypeOK
    <3> QED
      BY <3>2, <3>4
  <2> QED
    BY <2>1, <2>2
<1>8. DbTypeOK' /\ BoundTypeOK' /\ HistTypeOK'
  BY <1>1, <1>2 DEF TypeOK, DbTypeOK, BoundTypeOK, HistTypeOK, dbVars, histVars
<1> QED
  BY <1>4, <1>7, <1>8 DEF TypeOK

(* The main thread runs its blocks in order.                               *)
LEMMA MainType ==
  ASSUME TypeOK, NEW d \in Devices, MainThread(d)
  PROVE  TypeOK'
<1> USE DEF MainThread
<1>1. /\ UNCHANGED <<dbVars, tapVars, alive, linkVars, row, observers,
                     boundVars, histVars>>
      /\ mainq[d] # << >>
      /\ mainq' = [mainq EXCEPT ![d] = Tail(@)]
  BY DEF MainValue, MainStored, MainCounted, MainError, screenVars
<1>2. Taps' = Taps /\ DownMessages' = DownMessages /\ MainBlocks' = MainBlocks
  BY <1>1, SameTaps
<1>3. Head(mainq[d]) \in MainBlocks /\ Tail(mainq[d]) \in Seq(MainBlocks)
  BY <1>1, QueueType DEF TypeOK, LinkTypeOK
<1>4. LinkTypeOK'
  BY <1>1, <1>2, <1>3 DEF TypeOK, LinkTypeOK, linkVars
<1>5. TapTypeOK'
  <2>1. stage' \in [Taps -> Stages]
    BY DEF MainValue, MainStored, MainCounted, MainError, TypeOK, TapTypeOK, Stages
  <2> QED
    BY <1>1, <1>2, <2>1, SameTaps DEF TypeOK, TapTypeOK
<1>6. ASSUME NEW t \in Taps, NEW result, Complete(d, vote[t], result)
      PROVE  /\ thumb' \in [Devices -> [Cells -> {-1, 0, 1}]]
             /\ count' \in [Devices -> [Cells -> Int]]
  <2>1. vote[t].cell \in Cells /\ vote[t].kind \in {1, -1}
    BY DEF TypeOK, TapTypeOK, Votes
  <2>2. AsThumb(result) \in {-1, 0, 1}
    BY ThumbType
  <2>3. thumb' \in [Devices -> [Cells -> {-1, 0, 1}]]
    BY <1>6, <2>1, <2>2 DEF Complete, TypeOK, ScreenTypeOK
  <2>4. count' \in [Devices -> [Cells -> Int]]
    BY <1>6, <2>1 DEF Complete, TypeOK, ScreenTypeOK
  <2> QED
    BY <2>3, <2>4
<1>7. thumb' \in [Devices -> [Cells -> {-1, 0, 1}]] /\ count' \in [Devices -> [Cells -> Int]]
  <2>1. CASE MainValue(d)
    BY <2>1, ThumbType DEF MainValue, TypeOK, ScreenTypeOK
  <2>2. CASE MainStored(d)
    BY <2>2 DEF MainStored, screenVars, TypeOK, ScreenTypeOK
  <2>3. CASE MainCounted(d)
    <3>1. Head(mainq[d]).tap \in Taps
      BY <1>3, <2>3 DEF MainCounted, MainBlocks
    <3> QED
      BY <1>6, <2>3, <3>1 DEF MainCounted
  <2>4. CASE MainError(d)
    <3>1. Head(mainq[d]).tap \in Taps
      BY <1>3, <2>4 DEF MainError, MainBlocks
    <3> QED
      BY <1>6, <2>4, <3>1 DEF MainError
  <2> QED
    BY <2>1, <2>2, <2>3, <2>4
<1>8. ScreenTypeOK'
  BY <1>1, <1>7 DEF TypeOK, ScreenTypeOK
<1>9. DbTypeOK' /\ BoundTypeOK' /\ HistTypeOK'
  BY <1>1, <1>2 DEF TypeOK, DbTypeOK, BoundTypeOK, HistTypeOK, dbVars, boundVars, histVars
<1> QED
  BY <1>4, <1>5, <1>8, <1>9 DEF TypeOK

(* The table view is filled from a feed, on a reload and on a launch.      *)
LEMMA FillType ==
  ASSUME TypeOK, NEW d \in Devices, ReloadFeed(d) \/ Launch(d)
  PROVE  TypeOK'
<1>1. /\ UNCHANGED <<dbVars, tapVars, stage, listening, down, synced, view, thumb,
                     faults, recorded, counted>>
      /\ alive' \in [Devices -> BOOLEAN] /\ online' \in [Devices -> BOOLEAN]
  BY DEF ReloadFeed, Launch, linkVars, TypeOK, LinkTypeOK
<1>2. Taps' = Taps /\ DownMessages' = DownMessages /\ MainBlocks' = MainBlocks
  BY <1>1, SameTaps
<1>3. ASSUME NEW f \in Layouts, NEW points \in [Posts -> Int], Fill(d, f, points)
      PROVE  /\ row' \in [Devices -> [Cells -> Posts \cup {Nowhere}]]
             /\ count' \in [Devices -> [Cells -> Int]]
             /\ expected' \in [Devices -> [Posts -> Int]]
             /\ loads' \in [Devices -> Nat]
  <2>1. RowsOf(f) \in [Cells -> Posts \cup {Nowhere}]
    BY RowsType
  <2>2. row' \in [Devices -> [Cells -> Posts \cup {Nowhere}]]
    BY <1>3, <2>1 DEF Fill, TypeOK, ScreenTypeOK
  <2>3. count' \in [Devices -> [Cells -> Int]]
    BY <1>3, <2>1 DEF Fill, TypeOK, ScreenTypeOK
  <2>4. expected' \in [Devices -> [Posts -> Int]]
    BY <1>3, PointsType DEF Fill, TypeOK, HistTypeOK
  <2>5. loads' \in [Devices -> Nat]
    BY <1>3 DEF Fill, TypeOK, BoundTypeOK
  <2> QED
    BY <2>2, <2>3, <2>4, <2>5
<1>4. /\ row' \in [Devices -> [Cells -> Posts \cup {Nowhere}]]
      /\ count' \in [Devices -> [Cells -> Int]]
      /\ expected' \in [Devices -> [Posts -> Int]]
      /\ loads' \in [Devices -> Nat]
      /\ observers' \in [Devices -> SUBSET (Cells \X Posts)]
      /\ mainq' \in [Devices -> Seq(MainBlocks)]
      /\ raced' \subseteq Taps
  <2>1. CASE ReloadFeed(d)
    <3>1. PICK f \in Layouts,
               overlaid \in SUBSET {t \in Taps : /\ vote[t].dev = d
                                                /\ stage[t] \in {"count", "forgotten"}},
               hidden \in SUBSET Hideable(d) :
            /\ Fill(d, f, [p \in Posts |->
                      Points(p) + Worth({t \in overlaid : vote[t].post = p})
                        - Worth({t \in hidden : vote[t].post = p})])
            /\ observers' = [observers EXCEPT ![d] = @ \cup Watching(f)]
            /\ mainq' = [mainq EXCEPT ![d] = Append(@,
                 [type |-> "value", told |-> [c \in Cells |->
                    LET p == RowsOf(f)[c]
                    IN IF p = Nowhere THEN NoRecord
                       ELSE IF view[d][p] = Unknown THEN NoRecord ELSE view[d][p]]])]
      BY <2>1 DEF ReloadFeed
    <3> DEFINE points == [p \in Posts |->
                   Points(p) + Worth({t \in overlaid : vote[t].post = p})
                     - Worth({t \in hidden : vote[t].post = p})]
               told == [c \in Cells |->
                    LET p == RowsOf(f)[c]
                    IN IF p = Nowhere THEN NoRecord
                       ELSE IF view[d][p] = Unknown THEN NoRecord ELSE view[d][p]]
               m == [type |-> "value", told |-> told]
    <3>2. \A p \in Posts : /\ Worth({t \in overlaid : vote[t].post = p}) \in Int
                           /\ Worth({t \in hidden : vote[t].post = p}) \in Int
      BY WorthType DEF Hideable, TypeOK, HistTypeOK
    <3>3. points \in [Posts -> Int]
      BY <3>2, PointsType
    <3>4. told \in [Cells -> Values]
      <4>1. RowsOf(f) \in [Cells -> Posts \cup {Nowhere}]
        BY RowsType
      <4> QED
        BY <4>1 DEF TypeOK, LinkTypeOK, Values
    <3>5. m \in MainBlocks
      BY <3>4 DEF MainBlocks
    <3>6. Append(mainq[d], m) \in Seq(MainBlocks)
      BY <3>5, AppendProperties DEF TypeOK, LinkTypeOK
    <3>7. mainq' \in [Devices -> Seq(MainBlocks)]
      BY <3>1, <3>6 DEF TypeOK, LinkTypeOK
    <3>8. observers' \in [Devices -> SUBSET (Cells \X Posts)]
      <4>1. Watching(f) \in SUBSET (Cells \X Posts)
        BY RowsType
      <4> QED
        BY <3>1, <4>1 DEF TypeOK, ScreenTypeOK
    <3>9. raced' \subseteq Taps
      BY <2>1 DEF ReloadFeed, TypeOK, HistTypeOK
    <3>10. Fill(d, f, points)
      BY <3>1
    <3> HIDE DEF points
    <3> QED
      BY <1>3, <3>3, <3>7, <3>8, <3>9, <3>10
  <2>2. CASE Launch(d)
    <3>1. PICK f \in Layouts :
            /\ Fill(d, f, [p \in Posts |-> Points(p)])
            /\ observers' = [observers EXCEPT ![d] = Watching(f)]
      BY <2>2 DEF Launch
    <3> DEFINE points == [p \in Posts |-> Points(p)]
    <3>2. points \in [Posts -> Int]
      BY PointsType
    <3>3. observers' \in [Devices -> SUBSET (Cells \X Posts)]
      <4>1. Watching(f) \in SUBSET (Cells \X Posts)
        BY RowsType
      <4> QED
        BY <3>1, <4>1 DEF TypeOK, ScreenTypeOK
    <3>4. mainq' = mainq /\ raced' = raced
      BY <2>2 DEF Launch
    <3>5. Fill(d, f, points)
      BY <3>1
    <3> HIDE DEF points
    <3> QED
      BY <1>3, <3>2, <3>3, <3>4, <3>5 DEF TypeOK, LinkTypeOK, HistTypeOK
  <2> QED
    BY <2>1, <2>2
<1>5. LinkTypeOK'
  BY <1>1, <1>2, <1>4 DEF TypeOK, LinkTypeOK
<1>6. ScreenTypeOK' /\ BoundTypeOK'
  BY <1>1, <1>4 DEF TypeOK, ScreenTypeOK, BoundTypeOK
<1>7. DbTypeOK' /\ TapTypeOK' /\ HistTypeOK'
  BY <1>1, <1>2, <1>4, SameTaps DEF TypeOK, DbTypeOK, TapTypeOK, HistTypeOK, dbVars
<1> QED
  BY <1>5, <1>6, <1>7 DEF TypeOK

(* Every variable keeps its type.                                          *)
THEOREM TypeCorrect == Spec => []TypeOK
<1>1. Init => TypeOK
  BY InitType
<1>2. TypeOK /\ [Next]_vars => TypeOK'
  <2> SUFFICES ASSUME TypeOK, [Next]_vars
               PROVE  TypeOK'
    OBVIOUS
  <2>1. CASE UNCHANGED vars
    <3>1. /\ UNCHANGED <<dbVars, tapVars, stage, alive, linkVars, mainq, screenVars,
                         boundVars, histVars>>
          /\ Taps' = Taps /\ DownMessages' = DownMessages /\ MainBlocks' = MainBlocks
      BY <2>1, SameTaps DEF vars
    <3> QED
      BY <3>1, SameTaps
         DEF TypeOK, DbTypeOK, TapTypeOK, LinkTypeOK, ScreenTypeOK, BoundTypeOK, HistTypeOK,
             dbVars, linkVars, screenVars, boundVars, histVars
  <2>2. ASSUME NEW d \in Devices, NEW c \in Cells, NEW kind \in {1, -1}, Tap(d, c, kind)
        PROVE  TypeOK'
    BY <2>2, TapType
  <2>3. ASSUME NEW d \in Devices, ReloadFeed(d) \/ Launch(d)
        PROVE  TypeOK'
    BY <2>3, FillType
  <2>4. ASSUME NEW d \in Devices, Connect(d)
        PROVE  TypeOK'
    <3>1. UNCHANGED <<dbVars, tapVars, stage, alive, listening, down, synced, view, mainq,
                      screenVars, boundVars, histVars>>
      BY <2>4 DEF Connect
    <3>2. Taps' = Taps /\ DownMessages' = DownMessages /\ MainBlocks' = MainBlocks
      BY <3>1, SameTaps
    <3>3. online' \in [Devices -> BOOLEAN]
      BY <2>4 DEF Connect, TypeOK, LinkTypeOK
    <3> QED
      BY <3>1, <3>2, <3>3, SameTaps
         DEF TypeOK, DbTypeOK, TapTypeOK, LinkTypeOK, ScreenTypeOK, BoundTypeOK, HistTypeOK,
             dbVars, screenVars, boundVars, histVars
  <2>5. ASSUME NEW d \in Devices, Server(d)
        PROVE  TypeOK'
    BY <2>5, ListenType, ServerType DEF Server
  <2>6. ASSUME NEW d \in Devices, Client(d)
        PROVE  TypeOK'
    BY <2>6, DeliverType, AbortType DEF Client
  <2>7. ASSUME NEW d \in Devices, MainThread(d)
        PROVE  TypeOK'
    BY <2>7, MainType
  <2>8. ASSUME NEW d \in Devices, Fault(d)
        PROVE  TypeOK'
    BY <2>8, ServerType, AbortType, ForgetType, DropType DEF Fault
  <2> QED
    BY <2>1, <2>2, <2>3, <2>4, <2>5, <2>6, <2>7, <2>8 DEF Next
<1> QED
  BY <1>1, <1>2, PTL DEF Spec

-----------------------------------------------------------------------------
(* The two writes of a vote.                                               *)

(* The inductive invariant: the stage of a vote tells which of its writes  *)
(* reached the database.                                                   *)
WriteInv == TypeOK /\ StageTellsWrites /\ CountedVoteIsRecorded

(* A step that writes nothing to the database keeps the invariant if it    *)
(* moves votes only between stages that tell the same, or less, of their   *)
(* writes.                                                                 *)
LEMMA MovesKeepWriteInv ==
  ASSUME StageTellsWrites, CountedVoteIsRecorded, TypeOK',
         Taps' = Taps, recorded' = recorded, counted' = counted,
         \A t \in Taps :
           \/ stage'[t] = stage[t]
           \/ stage'[t] \in {"denied", "refused", "failed", "lost"} /\ stage[t] \in {"sent", "refused"}
           \/ stage'[t] = "sent" /\ stage[t] \in {"stored", "refused"}
           \/ stage'[t] = "acked" /\ stage[t] = "stored"
           \/ stage'[t] = "count" /\ stage[t] = "acked"
           \/ stage'[t] = "cancelled" /\ stage[t] \in {"count", "counted"}
           \/ stage'[t] \in {"aborted", "forgotten"} /\ stage[t] \in {"count", "cancelled"}
           \/ stage'[t] = "answered" /\ stage[t] = "counted"
           \/ stage'[t] = "done" /\ stage[t] = "answered"
           \/ stage'[t] \in {"failed", "lost"}
  PROVE  WriteInv'
<1>1. CountedVoteIsRecorded'
  BY DEF CountedVoteIsRecorded
<1>2. StageTellsWrites'
  BY DEF StageTellsWrites
<1> QED
  BY <1>1, <1>2 DEF WriteInv

(* Every step keeps the invariant.                                         *)
LEMMA WriteInvStep == WriteInv /\ TypeOK' /\ [Next]_vars => WriteInv'
<1> SUFFICES ASSUME WriteInv, TypeOK', [Next]_vars
             PROVE  WriteInv'
  OBVIOUS
<1> USE DEF WriteInv
<1>1. CASE UNCHANGED vars
  <2>1. Taps' = Taps /\ recorded' = recorded /\ counted' = counted /\ stage' = stage
    BY <1>1, SameTaps DEF vars, histVars
  <2> QED
    BY <2>1, MovesKeepWriteInv
<1>2. ASSUME NEW d \in Devices, NEW c \in Cells, NEW kind \in {1, -1}, Tap(d, c, kind)
      PROVE  WriteInv'
  <2>1. /\ taps' = taps + 1 /\ taps \in Nat
        /\ stage' = [t \in 1..(taps + 1) |-> IF t \in Taps THEN stage[t] ELSE "sent"]
        /\ recorded' = recorded /\ counted' = counted
    BY <1>2 DEF Tap, histVars, TypeOK, TapTypeOK
  <2>2. Taps' = 1..(taps + 1) /\ counted \subseteq Taps
    BY <2>1 DEF Taps, TypeOK, HistTypeOK
  <2>3. StageTellsWrites'
    BY <2>1, <2>2 DEF StageTellsWrites
  <2> QED
    BY <2>1, <2>3 DEF CountedVoteIsRecorded
<1>3. ASSUME NEW d \in Devices, NEW t \in Taps, StoreRecord(d, t)
      PROVE  WriteInv'
  <2>1. /\ stage[t] = "sent" /\ stage' = [stage EXCEPT ![t] = "stored"]
        /\ recorded' = recorded \cup {t} /\ counted' = counted /\ Taps' = Taps
    BY <1>3, SameTaps DEF StoreRecord, FirstWrite
  <2>2. StageTellsWrites'
    BY <2>1 DEF StageTellsWrites, TypeOK, TapTypeOK
  <2> QED
    BY <2>1, <2>2 DEF CountedVoteIsRecorded
<1>4. ASSUME NEW d \in Devices, NEW t \in Taps, CommitCount(d, t)
      PROVE  WriteInv'
  <2>1. /\ stage[t] = "count" /\ stage' = [stage EXCEPT ![t] = "counted"]
        /\ recorded' = recorded /\ counted' = counted \cup {t} /\ Taps' = Taps
    BY <1>4, SameTaps DEF CommitCount
  <2>2. StageTellsWrites'
    BY <2>1 DEF StageTellsWrites, TypeOK, TapTypeOK
  <2>3. t \in recorded
    BY <2>1 DEF StageTellsWrites
  <2> QED
    BY <2>1, <2>2, <2>3 DEF CountedVoteIsRecorded
<1>5. ASSUME NEW d \in Devices,
             \/ ReloadFeed(d) \/ Launch(d) \/ Connect(d)
             \/ \E p \in Posts : Listen(d, p)
             \/ Client(d) \/ MainThread(d)
             \/ \E t \in Taps : RefuseRecord(d, t)
             \/ \E t \in Taps : GiveUp(d, t) \/ Forget(d, t)
             \/ Disconnect(d) \/ Kill(d)
      PROVE  WriteInv'
  <2>1. UNCHANGED tapVars /\ recorded' = recorded /\ counted' = counted
    BY <1>5 DEF ReloadFeed, Launch, Connect, Listen, Client, DeliverValue, DeliverAck,
      DeliverCommit, Cancel, MainThread, MainValue, MainStored, MainCounted, MainError,
      RefuseRecord, GiveUp, Forget, Disconnect, Kill, histVars
  <2>2. Taps' = Taps
    BY <2>1, SameTaps
  <2>3. stage \in [Taps -> Stages]
    BY DEF TypeOK, TapTypeOK
  <2>4. CASE \/ ReloadFeed(d) \/ Launch(d) \/ Connect(d)
             \/ \E p \in Posts : Listen(d, p)
             \/ DeliverValue(d) \/ MainValue(d)
    <3>1. stage' = stage
      BY <2>4 DEF ReloadFeed, Launch, Connect, Listen, DeliverValue, MainValue
    <3> QED
      BY <2>1, <2>2, <3>1, MovesKeepWriteInv
  <2>5. CASE DeliverAck(d) \/ DeliverCommit(d)
    <3>1. PICK t : \/ /\ stage[t] \in {"stored", "refused"}
                      /\ stage' = [stage EXCEPT ![t] = IF @ = "stored" THEN "acked" ELSE "denied"]
                   \/ /\ stage[t] = "counted"
                      /\ stage' = [stage EXCEPT ![t] = "answered"]
      BY <2>5 DEF DeliverAck, DeliverCommit
    <3> QED
      BY <2>1, <2>2, <2>3, <3>1, MovesKeepWriteInv
  <2>6. CASE \E t \in Taps : \/ Cancel(d, t) \/ GiveUp(d, t)
                             \/ Forget(d, t) \/ RefuseRecord(d, t)
    <3>1. PICK t \in Taps :
                   \/ /\ stage[t] \in {"count", "cancelled"}
                      /\ \/ stage' = [stage EXCEPT ![t] = "aborted"]
                         \/ stage' = [stage EXCEPT ![t] = "forgotten"]
                   \/ /\ stage[t] = "sent"
                      /\ stage' = [stage EXCEPT ![t] = "refused"]
      BY <2>6 DEF Cancel, GiveUp, Forget, RefuseRecord, FirstWrite
    <3> QED
      BY <2>1, <2>2, <2>3, <3>1, MovesKeepWriteInv
  <2>7. CASE MainStored(d) \/ MainCounted(d) \/ MainError(d)
    <3>1. PICK t : \/ /\ stage[t] = "acked"
                      /\ stage' = [stage EXCEPT ![t] = "count"]
                   \/ /\ stage[t] = "answered"
                      /\ stage' = [stage EXCEPT ![t] = "done"]
                   \/ stage' = [stage EXCEPT ![t] = "failed"]
      BY <2>7 DEF MainStored, MainCounted, MainError
    <3> QED
      BY <2>1, <2>2, <2>3, <3>1, MovesKeepWriteInv
  <2>8. CASE Disconnect(d) \/ Kill(d)
    <3>1. \A t \in Taps : \/ stage'[t] = stage[t]
                          \/ stage'[t] = "sent" /\ stage[t] \in {"stored", "refused"}
                          \/ stage'[t] = "cancelled" /\ stage[t] \in {"count", "counted"}
                          \/ stage'[t] = "lost"
      BY <2>8 DEF Disconnect, AfterDrop, Kill
    <3> QED
      BY <2>1, <2>2, <2>3, <3>1, MovesKeepWriteInv
  <2> QED
    BY <1>5, <2>4, <2>5, <2>6, <2>7, <2>8 DEF Client, MainThread
<1> QED
  BY <1>1, <1>2, <1>3, <1>4, <1>5 DEF Next, Server, Fault

(* The stages of a vote tell the truth about the database.                 *)
THEOREM StagesAreRight == Spec => []WriteInv
<1>1. Init => WriteInv
  BY InitType DEF Init, WriteInv, StageTellsWrites, CountedVoteIsRecorded, Taps
<1> QED
  BY <1>1, TypeCorrect, WriteInvStep, PTL DEF Spec

(* No counter is changed for a vote whose record was not written first.    *)
THEOREM CountsFollowRecords == Spec => []CountedVoteIsRecorded
<1>1. WriteInv => CountedVoteIsRecorded
  BY DEF WriteInv
<1> QED
  BY <1>1, StagesAreRight, PTL

(* A completion without an error comes after both writes.                  *)
THEOREM SuccessIsStored == Spec => []SuccessMeansStored
<1>1. WriteInv => SuccessMeansStored
  BY DEF WriteInv, StageTellsWrites, SuccessMeansStored
<1> QED
  BY <1>1, StagesAreRight, PTL

-----------------------------------------------------------------------------
(* VoteFlow implements VoteLedger.                                         *)

(* What the ledger knows of a vote is the content of a vote.               *)
LEMMA LedgerContent ==
  ASSUME NEW v \in Votes
  PROVE  [user |-> UserOf[v.dev], post |-> v.post, kind |-> v.kind,
          value |-> NewValue(v), delta |-> Delta(v)] \in Ledger!Contents
<1>1. /\ UserOf[v.dev] \in Users /\ v.post \in Posts /\ v.kind \in {1, -1}
  BY DeviceAssumption DEF Votes
<1>2. NewValue(v) \in {-1, 0, 1} /\ Delta(v) \in {1, -1}
  BY VoteEffect
<1> QED
  BY <1>1, <1>2 DEF Ledger!Contents

(* Every behaviour of the phones, the connections and the server is one    *)
(* of the ledger: a tap casts a vote, the server's two steps record and    *)
(* count it, and everything else leaves the ledger alone.                  *)
THEOREM LedgerImplemented == Spec => LedgerSpec
<1> DEFINE Content(t) == [user |-> UserOf[vote[t].dev], post |-> vote[t].post,
                          kind |-> vote[t].kind, value |-> NewValue(vote[t]),
                          delta |-> Delta(vote[t])]
           content == [t \in 1..MaxTaps |-> IF t \in Taps THEN Content(t) ELSE Uncast]
<1>1. Init => Ledger!Init
  <2> SUFFICES ASSUME Init PROVE Ledger!Init
    OBVIOUS
  <2>1. Taps = {}
    BY DEF Init, Taps
  <2> QED
    BY <2>1 DEF Init, Ledger!Init, NoRecord, Ledger!NoRecord
<1>2. WriteInv /\ [Next]_vars => [Ledger!Next]_(Ledger!vars)
  <2> SUFFICES ASSUME WriteInv, [Next]_vars
               PROVE  [Ledger!Next]_(Ledger!vars)
    OBVIOUS
  <2>1. /\ taps \in 0..MaxTaps /\ vote \in [Taps -> Votes] /\ Taps \subseteq 1..MaxTaps
    BY BoundAssumption DEF WriteInv, TypeOK, TapTypeOK, Taps
  <2>2. ASSUME UNCHANGED <<tapVars, dbVars, recorded, counted>>
        PROVE  UNCHANGED Ledger!vars
    BY <2>2, SameTaps DEF Ledger!vars, dbVars
  <2>3. ASSUME NEW d \in Devices, NEW c \in Cells, NEW kind \in {1, -1}, Tap(d, c, kind)
        PROVE  Ledger!Next
    <3> DEFINE v == NewVote(d, c, kind)
    <3>0. PICK n \in 1..MaxTaps : n = taps + 1
      BY <2>1, <2>3, BoundAssumption DEF Tap
    <3>1. /\ taps' = n /\ n \notin Taps /\ Taps' = Taps \cup {n} /\ Taps' = 1..n
          /\ vote' = [t \in 1..n |-> IF t \in Taps THEN vote[t] ELSE v]
      BY <2>1, <2>3, <3>0 DEF Tap, Taps
    <3>2. v \in Votes
      <4>1. row[d][c] \in Posts /\ thumb[d][c] \in {-1, 0, 1}
        BY <2>3 DEF WriteInv, TypeOK, ScreenTypeOK, Tap
      <4>2. Informed(d, c) \in BOOLEAN
        BY DEF Informed
      <4> QED
        BY <4>1, <4>2 DEF NewVote, Votes
    <3> DEFINE k == [user |-> UserOf[v.dev], post |-> v.post, kind |-> v.kind,
                     value |-> NewValue(v), delta |-> Delta(v)]
    <3>3. k \in Ledger!Contents
      BY <3>2, LedgerContent
    <3>4. content' = [content EXCEPT ![n] = k]
      <4> HIDE DEF v
      <4>1. \A t \in Taps : Content(t)' = Content(t)
        BY <2>1, <3>1 DEF NewValue, Delta
      <4>2. Content(n)' = k
        BY <3>1 DEF NewValue, Delta
      <4> QED
        BY ZenonT(30), <2>1, <3>1, <4>1, <4>2
    <3>5. content[n] = Uncast
      BY <3>1
    <3>6. UNCHANGED <<record, ups, downs, recorded, counted>>
      BY <2>3 DEF Tap, dbVars, histVars
    <3>7. Ledger!Cast(n)
      BY <3>3, <3>4, <3>5, <3>6 DEF Ledger!Cast
    <3> QED
      BY <3>7 DEF Ledger!Next
  <2>4. ASSUME NEW t \in Taps
        PROVE  /\ t \in 1..MaxTaps /\ content[t] = Content(t)
               /\ Content(t) \in Ledger!Contents /\ content[t] # Uncast
               /\ vote[t] \in Votes
    BY <2>1, LedgerContent, UncastAssumption
  <2>5. ASSUME NEW d \in Devices, NEW t \in Taps, StoreRecord(d, t)
        PROVE  Ledger!Next
    <3>1. /\ vote[t].dev = d /\ stage[t] = "sent"
          /\ record' = [record EXCEPT ![UserOf[d]][vote[t].post] = NewValue(vote[t])]
          /\ recorded' = recorded \cup {t}
          /\ UNCHANGED <<tapVars, ups, downs, counted>>
      BY <2>5 DEF StoreRecord, FirstWrite
    <3>2. t \notin counted
      BY <3>1 DEF WriteInv, StageTellsWrites
    <3>3. content' = content
      BY <3>1, SameTaps
    <3>4. record' = [record EXCEPT ![content[t].user][content[t].post] = content[t].value]
      BY <2>4, <3>1
    <3>5. Ledger!Record(t)
      BY <2>4, <3>1, <3>2, <3>3, <3>4 DEF Ledger!Record
    <3> QED
      BY <2>4, <3>5 DEF Ledger!Next
  <2>6. ASSUME NEW d \in Devices, NEW t \in Taps, CommitCount(d, t)
        PROVE  Ledger!Next
    <3>1. /\ stage[t] = "count"
          /\ IF vote[t].kind = 1
             THEN ups' = [ups EXCEPT ![vote[t].post] = @ + Delta(vote[t])] /\ UNCHANGED downs
             ELSE downs' = [downs EXCEPT ![vote[t].post] = @ + Delta(vote[t])] /\ UNCHANGED ups
          /\ counted' = counted \cup {t}
          /\ UNCHANGED <<tapVars, record, recorded>>
      BY <2>6 DEF CommitCount
    <3>2. t \in recorded \ counted
      BY <3>1 DEF WriteInv, StageTellsWrites
    <3>3. content' = content
      BY <3>1, SameTaps
    <3>4. vote[t].kind \in {1, -1}
      BY <2>4 DEF Votes
    <3>5. /\ content[t].kind = vote[t].kind /\ content[t].post = vote[t].post
          /\ content[t].delta = Delta(vote[t])
      BY <2>4
    <3>6. Ledger!Count(t)
      BY <3>1, <3>2, <3>3, <3>4, <3>5 DEF Ledger!Count
    <3> QED
      BY <2>4, <3>6 DEF Ledger!Next
  <2>7. ASSUME NEW d \in Devices,
               \/ ReloadFeed(d) \/ Launch(d) \/ Connect(d)
               \/ \E p \in Posts : Listen(d, p)
               \/ Client(d) \/ MainThread(d)
               \/ \E t \in Taps : RefuseRecord(d, t)
               \/ \E t \in Taps : GiveUp(d, t) \/ Forget(d, t)
               \/ Disconnect(d) \/ Kill(d)
        PROVE  UNCHANGED <<tapVars, dbVars, recorded, counted>>
    BY <2>7 DEF ReloadFeed, Launch, Connect, Listen, Client, DeliverValue, DeliverAck,
      DeliverCommit, Cancel, MainThread, MainValue, MainStored, MainCounted, MainError,
      RefuseRecord, GiveUp, Forget, Disconnect, Kill, histVars
  <2>8. CASE UNCHANGED vars
    BY <2>2, <2>8 DEF vars, histVars
  <2> QED
    BY <2>2, <2>3, <2>5, <2>6, <2>7, <2>8 DEF Next, Server, Fault
<1> QED
  BY <1>1, <1>2, StagesAreRight, PTL DEF Spec, LedgerSpec, Ledger!Spec

-----------------------------------------------------------------------------
(* The counters of a post with tidy votes are what its users voted.        *)

(* The inductive invariant.  Between the two writes of a vote the counters *)
(* are behind the record: they agree with what the record was when the     *)
(* thumb was tapped.                                                       *)

(* These stages end in an error, or with the app.                          *)
Doomed == {"denied", "cancelled", "aborted", "forgotten", "failed", "lost"}

(* No vote on p was tapped on a cell that did not show the truth, or has   *)
(* failed, or is going to fail.                                            *)
Clean(p) ==
  \A t \in Taps : vote[t].post = p =>
    /\ vote[t].informed
    /\ stage[t] \notin Doomed

(* The votes of u on p that the counters do not know.                      *)
Uncounted(u, p) ==
  {t \in Taps : UserOf[vote[t].dev] = u /\ vote[t].post = p /\ t \notin counted}

(* The users whose vote on p is k as far as the counters know: what was    *)
(* recorded before the vote that they do not know, if there is one.        *)
Held(p, k) ==
  {u \in Users : IF Uncounted(u, p) = {} THEN record[u][p] = k
                 ELSE \E t \in Uncounted(u, p) : vote[t].shown = k}

(* A user has one vote under way at a time.                                *)
OneByOne(p) ==
  \A u \in Users : \A s, t \in Uncounted(u, p) : s = t

(* The record holds that vote, or still what its cell showed.              *)
RecordTells(p) ==
  \A u \in Users : \A t \in Uncounted(u, p) :
    IF t \in recorded THEN record[u][p] = NewValue(vote[t])
    ELSE AsThumb(record[u][p]) = vote[t].shown

(* Counter n of p is right for thumb k.                                    *)
CountsHeld(p, k, n) ==
  /\ IsFiniteSet(Held(p, k))
  /\ n = Cardinality(Held(p, k)) + Cardinality(Switched(p, k) \cap counted)

CountersRight(p) == CountsHeld(p, 1, ups[p]) /\ CountsHeld(p, -1, downs[p])

Balanced(p) == Clean(p) => OneByOne(p) /\ RecordTells(p) /\ CountersRight(p)

CountInv == \A p \in Posts : Balanced(p)

-----------------------------------------------------------------------------
(* Lemmas about the parts of the invariant.                                *)

(* Votes stay what they are, and a vote that is going to fail does.        *)
LEMMA VotesStay ==
  ASSUME TypeOK, [Next]_vars, NEW t \in Taps
  PROVE  /\ t \in Taps' /\ vote'[t] = vote[t]
         /\ stage[t] \in Doomed => stage'[t] \in Doomed
<1>1. stage \in [Taps -> Stages]
  BY DEF TypeOK, TapTypeOK
<1>2. CASE UNCHANGED vars
  BY <1>2, SameTaps DEF vars
<1>3. ASSUME NEW d \in Devices, NEW c \in Cells, NEW kind \in {1, -1}, Tap(d, c, kind)
      PROVE  t \in Taps' /\ vote'[t] = vote[t] /\ stage'[t] = stage[t]
  <2>1. taps \in Nat /\ taps' = taps + 1
    BY <1>3 DEF Tap, TypeOK, TapTypeOK
  <2>2. Taps' = 1..(taps + 1) /\ t \in 1..(taps + 1)
    BY <2>1 DEF Taps
  <2> QED
    BY <1>3, <2>2 DEF Tap
<1>4. ASSUME NEW d \in Devices, Disconnect(d) \/ Kill(d)
      PROVE  /\ t \in Taps' /\ vote'[t] = vote[t]
             /\ stage[t] \in Doomed => stage'[t] \in Doomed
  <2>1. Taps' = Taps /\ vote' = vote
    BY <1>4, SameTaps DEF Disconnect, Kill
  <2>2. CASE Disconnect(d)
    BY <2>1, <2>2 DEF Disconnect, AfterDrop, Doomed
  <2>3. CASE Kill(d)
    BY <2>1, <2>3 DEF Kill, Doomed
  <2> QED
    BY <1>4, <2>1, <2>2, <2>3
<1>5. ASSUME NEW d \in Devices,
             \/ ReloadFeed(d) \/ Launch(d) \/ Connect(d) \/ Server(d)
             \/ Client(d) \/ MainThread(d)
             \/ \E s \in Taps : RefuseRecord(d, s)
             \/ \E s \in Taps : GiveUp(d, s) \/ Forget(d, s)
      PROVE  /\ t \in Taps' /\ vote'[t] = vote[t]
             /\ stage[t] \in Doomed => stage'[t] \in Doomed
  <2>1. Taps' = Taps /\ vote' = vote
    <3>1. UNCHANGED tapVars
      BY <1>5 DEF ReloadFeed, Launch, Connect, Server, Listen, StoreRecord, CommitCount,
        Client, DeliverValue, DeliverAck, DeliverCommit, Cancel, MainThread, MainValue,
        MainStored, MainCounted, MainError, RefuseRecord, GiveUp, Forget
    <3> QED
      BY <3>1, SameTaps
  <2>2. CASE \/ ReloadFeed(d) \/ Launch(d) \/ Connect(d) \/ DeliverValue(d) \/ MainValue(d)
             \/ \E p \in Posts : Listen(d, p)
    BY <2>1, <2>2 DEF ReloadFeed, Launch, Connect, DeliverValue, MainValue, Listen
  <2>3. CASE \E s \in Taps : \/ StoreRecord(d, s) \/ RefuseRecord(d, s) \/ Forget(d, s)
                             \/ CommitCount(d, s) \/ GiveUp(d, s) \/ Cancel(d, s)
    <3>1. PICK s \in Taps, x \in Stages :
            /\ stage' = [stage EXCEPT ![s] = x]
            /\ stage[s] \in Doomed => x \in Doomed
      <4>1. PICK s \in Taps : \/ StoreRecord(d, s) \/ RefuseRecord(d, s) \/ Forget(d, s)
                              \/ CommitCount(d, s) \/ GiveUp(d, s) \/ Cancel(d, s)
        BY <2>3
      <4> QED
        BY <4>1 DEF StoreRecord, RefuseRecord, FirstWrite, CommitCount, GiveUp, Cancel,
          Forget, Doomed, Stages
    <3> QED
      BY <1>1, <2>1, <3>1
  <2>4. CASE DeliverAck(d) \/ DeliverCommit(d)
    <3>1. PICK s : \/ /\ stage[s] \in {"stored", "refused"}
                      /\ stage' = [stage EXCEPT ![s] = IF @ = "stored" THEN "acked" ELSE "denied"]
                   \/ /\ stage[s] = "counted"
                      /\ stage' = [stage EXCEPT ![s] = "answered"]
      BY <2>4 DEF DeliverAck, DeliverCommit
    <3> QED
      BY <1>1, <2>1, <3>1 DEF Doomed
  <2>5. CASE MainStored(d) \/ MainCounted(d) \/ MainError(d)
    <3>1. PICK s : \/ /\ stage[s] = "acked"
                      /\ stage' = [stage EXCEPT ![s] = "count"]
                   \/ /\ stage[s] = "answered"
                      /\ stage' = [stage EXCEPT ![s] = "done"]
                   \/ stage' = [stage EXCEPT ![s] = "failed"]
      BY <2>5 DEF MainStored, MainCounted, MainError
    <3> QED
      BY <1>1, <2>1, <3>1 DEF Doomed
  <2> QED
    BY <1>5, <2>2, <2>3, <2>4, <2>5 DEF Server, Client, MainThread
<1> QED
  BY <1>2, <1>3, <1>4, <1>5 DEF Next, Fault

(* A post whose votes are clean had clean votes before.                    *)
LEMMA CleanBefore ==
  ASSUME TypeOK, [Next]_vars, NEW p, Clean(p)'
  PROVE  Clean(p)
BY VotesStay DEF Clean

(* A vote that the counters of a clean post do not know is still open.     *)
LEMMA UncountedIsOpen ==
  ASSUME StageTellsWrites, NEW p, Clean(p), NEW u, NEW t \in Uncounted(u, p)
  PROVE  Open(t)
BY DEF StageTellsWrites, Clean, Uncounted, Open, Closed, Doomed

(* The votes that switched thumbs are finitely many.                       *)
LEMMA SwitchedFinite ==
  ASSUME TypeOK, NEW p, NEW k
  PROVE  IsFiniteSet(Switched(p, k) \cap counted)
<1>1. IsFiniteSet(Taps)
  BY FS_Interval DEF TypeOK, TapTypeOK, Taps
<1>2. Switched(p, k) \cap counted \subseteq Taps
  BY DEF Switched
<1> QED
  BY <1>1, <1>2, FS_Subset

(* The invariant of a post is about the writes and the votes on it.        *)
LEMMA PostUntouched ==
  ASSUME NEW p \in Posts, Balanced(p), Clean(p)' => Clean(p),
         \A u \in Users : Uncounted(u, p)' = Uncounted(u, p),
         \A u \in Users : record'[u][p] = record[u][p],
         \A u \in Users : \A t \in Uncounted(u, p) :
           vote'[t] = vote[t] /\ (t \in recorded' <=> t \in recorded),
         \A k : (Switched(p, k) \cap counted)' = Switched(p, k) \cap counted,
         ups'[p] = ups[p], downs'[p] = downs[p]
  PROVE  Balanced(p)'
<1> SUFFICES ASSUME Clean(p)'
             PROVE  OneByOne(p)' /\ RecordTells(p)' /\ CountersRight(p)'
  BY DEF Balanced
<1>1. OneByOne(p) /\ RecordTells(p) /\ CountersRight(p)
  BY DEF Balanced
<1>2. OneByOne(p)'
  BY <1>1 DEF OneByOne
<1>3. RecordTells(p)'
  BY <1>1 DEF RecordTells, NewValue, AsThumb
<1>4. ASSUME NEW k
      PROVE  Held(p, k)' = Held(p, k)
  BY DEF Held
<1>5. CountersRight(p)'
  BY <1>1, <1>4 DEF CountersRight, CountsHeld
<1> QED
  BY <1>2, <1>3, <1>5

-----------------------------------------------------------------------------
(* The steps.                                                              *)

(* A tap on a cell that shows the truth: the record is what its user holds.*)
LEMMA TapBalances ==
  ASSUME TypeOK, StageTellsWrites, TypeOK', CountInv,
         NEW d \in Devices, NEW c \in Cells, NEW kind \in {1, -1}, Tap(d, c, kind),
         NEW p \in Posts, Clean(p)' => Clean(p)
  PROVE  Balanced(p)'
<1> DEFINE n == taps + 1
           w == NewVote(d, c, kind)
           o == UserOf[d]
<1>1. /\ taps \in Nat /\ taps' = n /\ n \notin Taps /\ Taps' = Taps \cup {n}
      /\ \A t \in Taps : vote'[t] = vote[t]
      /\ vote'[n] = w
  <2>1. taps \in Nat /\ taps' = taps + 1
    BY DEF Tap, TypeOK, TapTypeOK
  <2>2. Taps' = 1..(taps + 1) /\ Taps = 1..taps
    BY <2>1 DEF Taps
  <2> QED
    BY <2>1, <2>2 DEF Tap
<1>2. /\ record' = record /\ ups' = ups /\ downs' = downs
      /\ recorded' = recorded /\ counted' = counted
      /\ counted \subseteq Taps /\ recorded \subseteq Taps
  BY DEF Tap, dbVars, histVars, TypeOK, HistTypeOK
<1>3. /\ w.dev = d /\ w.post = row[d][c] /\ w.shown = thumb[d][c]
      /\ w.informed = Informed(d, c) /\ w.kind = kind
  BY DEF NewVote
<1>4. o \in Users
  BY DeviceAssumption
<1>5. \A k : (Switched(p, k) \cap counted)' = Switched(p, k) \cap counted
  BY <1>1, <1>2 DEF Switched
<1>6. ASSUME NEW u \in Users
      PROVE  Uncounted(u, p)' = Uncounted(u, p) \cup (IF u = o /\ w.post = p THEN {n} ELSE {})
  <2>1. n \notin counted
    BY <1>1, <1>2
  <2> QED
    BY <1>1, <1>2, <1>3, <2>1 DEF Uncounted
<1>7. CASE w.post # p
  <2>1. \A u \in Users : Uncounted(u, p)' = Uncounted(u, p)
    BY <1>6, <1>7
  <2>2. \A u \in Users : \A t \in Uncounted(u, p) : vote'[t] = vote[t]
    BY <1>1 DEF Uncounted
  <2> QED
    BY <1>2, <1>5, <2>1, <2>2, PostUntouched DEF CountInv
<1>8. CASE w.post = p
  <2> SUFFICES ASSUME Clean(p)'
               PROVE  OneByOne(p)' /\ RecordTells(p)' /\ CountersRight(p)'
    BY DEF Balanced
  <2>1. Clean(p) /\ OneByOne(p) /\ RecordTells(p) /\ CountersRight(p)
    BY DEF CountInv, Balanced
  <2>2. Informed(d, c)
    BY <1>1, <1>3, <1>8 DEF Clean
  <2>3. Uncounted(o, p) = {}
    <3>1. ASSUME NEW t \in Uncounted(o, p)
          PROVE  FALSE
      <4>1. Open(t)
        BY <2>1, UncountedIsOpen
      <4> QED
        BY <1>3, <1>8, <2>2, <4>1 DEF Informed, Uncounted
    <3> QED
      BY <3>1
  <2>4. AsThumb(record[o][p]) = w.shown
    BY <1>3, <1>8, <2>2 DEF Informed
  <2>5. Uncounted(o, p)' = {n} /\ \A u \in Users \ {o} : Uncounted(u, p)' = Uncounted(u, p)
    <3>1. Uncounted(o, p)' = Uncounted(o, p) \cup (IF o = o /\ w.post = p THEN {n} ELSE {})
      BY <1>4, <1>6
    <3>2. Uncounted(o, p)' = {n}
      BY <1>8, <2>3, <3>1
    <3>3. ASSUME NEW u \in Users \ {o}
          PROVE  Uncounted(u, p)' = Uncounted(u, p)
      BY <1>6
    <3> QED
      BY <3>2, <3>3
  <2>6. OneByOne(p)'
    BY <2>1, <2>5 DEF OneByOne
  <2>7. RecordTells(p)'
    <3>1. n \notin recorded
      BY <1>1, <1>2
    <3>2. ASSUME NEW u \in Users \ {o}, NEW t \in Uncounted(u, p)
          PROVE  vote'[t] = vote[t]
      BY <1>1 DEF Uncounted
    <3>3. ASSUME NEW u \in Users, NEW t \in Uncounted(u, p)'
          PROVE  IF t \in recorded' THEN record'[u][p] = NewValue(vote'[t])
                 ELSE AsThumb(record'[u][p]) = vote'[t].shown
      <4>1. CASE u = o
        BY <1>1, <1>2, <2>4, <2>5, <3>1, <4>1
      <4>2. CASE u # o
        BY <1>2, <2>1, <2>5, <3>2, <4>2 DEF RecordTells
      <4> QED
        BY <4>1, <4>2
    <3> QED
      BY <3>3 DEF RecordTells, NewValue, AsThumb
  <2>8. ASSUME NEW k \in {1, -1}
        PROVE  Held(p, k)' = Held(p, k)
    <3>1. o \in Held(p, k) <=> record[o][p] = k
      BY <1>4, <2>3 DEF Held
    <3>2. o \in Held(p, k)' <=> w.shown = k
      BY <1>1, <1>4, <2>5 DEF Held
    <3>3. AsThumb(record[o][p]) = k <=> record[o][p] = k
      BY DEF AsThumb
    <3>4. ASSUME NEW u \in Users \ {o}
          PROVE  u \in Held(p, k)' <=> u \in Held(p, k)
      <4>1. \A t \in Uncounted(u, p) : vote'[t] = vote[t]
        BY <1>1 DEF Uncounted
      <4> QED
        BY <1>2, <2>5, <4>1 DEF Held
    <3>5. Held(p, k) \subseteq Users /\ Held(p, k)' \subseteq Users
      BY DEF Held
    <3> QED
      BY <2>4, <3>1, <3>2, <3>3, <3>4, <3>5
  <2>9. CountersRight(p)'
    BY <1>2, <1>5, <2>1, <2>8 DEF CountersRight, CountsHeld
  <2> QED
    BY <2>6, <2>7, <2>9
<1> QED
  BY <1>7, <1>8

(* The record write: the counters do not know its vote yet.                *)
LEMMA StoreBalances ==
  ASSUME TypeOK, StageTellsWrites, CountInv,
         NEW d \in Devices, NEW t \in Taps, StoreRecord(d, t),
         NEW p \in Posts, Clean(p)' => Clean(p)
  PROVE  Balanced(p)'
<1> DEFINE o == UserOf[d]
           q == vote[t].post
<1>1. /\ Taps' = Taps /\ vote' = vote /\ ups' = ups /\ downs' = downs
      /\ counted' = counted /\ recorded' = recorded \cup {t}
      /\ vote[t].dev = d /\ stage[t] = "sent"
      /\ record' = [record EXCEPT ![o][q] = NewValue(vote[t])]
  BY SameTaps DEF StoreRecord, FirstWrite, tapVars
<1>2. o \in Users /\ t \in Uncounted(o, q)
  BY <1>1, DeviceAssumption DEF StageTellsWrites, Uncounted
<1>3. record \in [Users -> [Posts -> Values]] /\ q \in Posts
  BY DEF TypeOK, DbTypeOK, TapTypeOK, Votes
<1>4. \A u \in Users : Uncounted(u, p)' = Uncounted(u, p)
  BY <1>1 DEF Uncounted
<1>5. \A k : (Switched(p, k) \cap counted)' = Switched(p, k) \cap counted
  BY <1>1 DEF Switched
<1>6. CASE q # p
  <2>1. \A u \in Users : record'[u][p] = record[u][p]
    BY <1>1, <1>3, <1>6
  <2>2. \A u \in Users : \A s \in Uncounted(u, p) :
          vote'[s] = vote[s] /\ (s \in recorded' <=> s \in recorded)
    BY <1>1, <1>6 DEF Uncounted
  <2> QED
    BY <1>1, <1>4, <1>5, <2>1, <2>2, PostUntouched DEF CountInv
<1>7. CASE q = p
  <2> SUFFICES ASSUME Clean(p)'
               PROVE  OneByOne(p)' /\ RecordTells(p)' /\ CountersRight(p)'
    BY DEF Balanced
  <2>1. Clean(p) /\ OneByOne(p) /\ RecordTells(p) /\ CountersRight(p)
    BY DEF CountInv, Balanced
  <2>2. \A s \in Uncounted(o, p) : s = t
    BY <1>2, <1>7, <2>1 DEF OneByOne
  <2>3. record'[o][p] = NewValue(vote[t]) /\ \A u \in Users \ {o} : record'[u][p] = record[u][p]
    BY <1>1, <1>2, <1>3, <1>7
  <2>4. OneByOne(p)'
    BY <1>4, <2>1 DEF OneByOne
  <2>5. ASSUME NEW u \in Users, NEW s \in Uncounted(u, p)
        PROVE  IF s \in recorded' THEN record'[u][p] = NewValue(vote[s])
               ELSE AsThumb(record'[u][p]) = vote[s].shown
    <3>1. CASE u = o
      BY <1>1, <2>2, <2>3, <3>1
    <3>2. CASE u # o
      <4>1. s # t
        BY <1>1, <3>2 DEF Uncounted
      <4> QED
        BY <1>1, <2>1, <2>3, <3>2, <4>1 DEF RecordTells
    <3> QED
      BY <3>1, <3>2
  <2>6. RecordTells(p)'
    BY <1>1, <1>4, <2>5 DEF RecordTells, NewValue, AsThumb
  <2>7. ASSUME NEW k
        PROVE  Held(p, k)' = Held(p, k)
    BY <1>1, <1>2, <1>4, <1>7, <2>3 DEF Held
  <2>8. CountersRight(p)'
    BY <1>1, <1>5, <2>1, <2>7 DEF CountersRight, CountsHeld
  <2> QED
    BY <2>4, <2>6, <2>8
<1> QED
  BY <1>6, <1>7

(* The transaction: the counters catch up with the record.                 *)
LEMMA CommitBalances ==
  ASSUME TypeOK, StageTellsWrites, CountInv,
         NEW d \in Devices, NEW t \in Taps, CommitCount(d, t),
         NEW p \in Posts, Clean(p)' => Clean(p)
  PROVE  Balanced(p)'
<1> DEFINE v == vote[t]
           o == UserOf[d]
           q == v.post
<1>1. /\ Taps' = Taps /\ vote' = vote /\ record' = record
      /\ recorded' = recorded /\ counted' = counted \cup {t}
      /\ v.dev = d /\ stage[t] = "count"
  BY SameTaps DEF CommitCount, tapVars
<1>2. IF v.kind = 1
      THEN ups' = [ups EXCEPT ![q] = @ + Delta(v)] /\ downs' = downs
      ELSE downs' = [downs EXCEPT ![q] = @ + Delta(v)] /\ ups' = ups
  BY DEF CommitCount
<1>3. /\ v \in Votes /\ q \in Posts /\ v.kind \in {1, -1} /\ v.shown \in {-1, 0, 1}
      /\ o \in Users /\ ups \in [Posts -> Int] /\ downs \in [Posts -> Int]
  BY DeviceAssumption DEF TypeOK, DbTypeOK, TapTypeOK, Votes
<1>4. t \in recorded /\ t \notin counted /\ t \in Uncounted(o, q)
  BY <1>1 DEF StageTellsWrites, Uncounted
<1>5. \A u \in Users : Uncounted(u, p)' = Uncounted(u, p) \ {t}
  BY <1>1 DEF Uncounted
<1>6. CASE q # p
  <2>1. \A u \in Users : Uncounted(u, p)' = Uncounted(u, p)
    BY <1>5, <1>6 DEF Uncounted
  <2>2. ups'[p] = ups[p] /\ downs'[p] = downs[p]
    BY <1>2, <1>3, <1>6
  <2>3. \A k : (Switched(p, k) \cap counted)' = Switched(p, k) \cap counted
    BY <1>1, <1>6 DEF Switched
  <2> QED
    BY <1>1, <2>1, <2>2, <2>3, PostUntouched DEF CountInv
<1>7. CASE q = p
  <2> SUFFICES ASSUME Clean(p)'
               PROVE  OneByOne(p)' /\ RecordTells(p)' /\ CountersRight(p)'
    BY DEF Balanced
  <2>1. Clean(p) /\ OneByOne(p) /\ RecordTells(p) /\ CountersRight(p)
    BY DEF CountInv, Balanced
  <2>2. Uncounted(o, p) = {t}
    BY <1>3, <1>4, <1>7, <2>1 DEF OneByOne
  <2>3. Uncounted(o, p)' = {}
    <3>1. Uncounted(o, p)' = Uncounted(o, p) \ {t}
      BY <1>3, <1>5
    <3> QED
      BY <2>2, <3>1
  <2>4. ASSUME NEW u \in Users, u # o
        PROVE  Uncounted(u, p)' = Uncounted(u, p)
    <3>1. t \notin Uncounted(u, p)
      BY <1>1, <2>4 DEF Uncounted
    <3> QED
      BY <1>5, <3>1
  <2>5. OneByOne(p)'
    BY <1>5, <2>1 DEF OneByOne
  <2>6. RecordTells(p)'
    BY <1>1, <1>5, <2>1 DEF RecordTells, NewValue, AsThumb
  <2>7. record[o][p] = NewValue(v)
    BY <1>3, <1>4, <1>7, <2>1 DEF RecordTells
  <2>8. ASSUME NEW k
        PROVE  /\ o \in Held(p, k) <=> v.shown = k
               /\ o \in Held(p, k)' <=> NewValue(v) = k
               /\ \A u \in Users : u # o => (u \in Held(p, k)' <=> u \in Held(p, k))
               /\ Held(p, k) \subseteq Users /\ Held(p, k)' \subseteq Users
    <3>1. o \in Held(p, k) <=> v.shown = k
      BY <1>3, <2>2 DEF Held
    <3>2. o \in Held(p, k)' <=> NewValue(v) = k
      BY <1>1, <1>3, <2>3, <2>7 DEF Held
    <3>3. ASSUME NEW u \in Users, u # o
          PROVE  u \in Held(p, k)' <=> u \in Held(p, k)
      BY <1>1, <2>4, <3>3 DEF Held
    <3>4. Held(p, k) \subseteq Users /\ Held(p, k)' \subseteq Users
      BY DEF Held
    <3> QED
      BY <3>1, <3>2, <3>3, <3>4
  <2>9. ASSUME NEW k \in {1, -1}, v.kind = k, NEW n \in Int, CountsHeld(p, k, n),
               NEW e, e = Delta(v)
        PROVE  CountsHeld(p, k, n + e)'
    <3>1. (Switched(p, k) \cap counted)' = Switched(p, k) \cap counted
      BY <1>1, <2>9 DEF Switched
    <3>2. /\ IsFiniteSet(Held(p, k))
          /\ n = Cardinality(Held(p, k)) + Cardinality(Switched(p, k) \cap counted)
      BY <2>9 DEF CountsHeld
    <3>3. Cardinality(Held(p, k)) \in Nat /\ Cardinality(Switched(p, k) \cap counted) \in Nat
      BY <3>2, SwitchedFinite, FS_CardinalityType
    <3>4. CASE v.shown = k
      <4>1. o \in Held(p, k) /\ o \notin Held(p, k)'
        BY <2>8, <2>9, <3>4 DEF NewValue
      <4>2. Held(p, k)' = Held(p, k) \ {o}
        BY <2>8, <4>1
      <4>3. /\ IsFiniteSet(Held(p, k) \ {o})
            /\ Cardinality(Held(p, k) \ {o}) = Cardinality(Held(p, k)) - 1
        BY <3>2, <4>1, FS_RemoveElement
      <4>4. e = -1
        BY <2>9, <3>4 DEF Delta
      <4>5. n - 1 = Cardinality(Held(p, k) \ {o}) + Cardinality(Switched(p, k) \cap counted)
        BY <3>2, <3>3, <4>3
      <4>6. n + e = n - 1
        BY <4>4
      <4> QED
        BY <3>1, <4>2, <4>3, <4>5, <4>6 DEF CountsHeld
    <3>5. CASE v.shown # k
      <4>1. o \notin Held(p, k) /\ o \in Held(p, k)'
        BY <2>8, <2>9, <3>5 DEF NewValue
      <4>2. Held(p, k)' = Held(p, k) \cup {o}
        BY <2>8, <4>1
      <4>3. /\ IsFiniteSet(Held(p, k) \cup {o})
            /\ Cardinality(Held(p, k) \cup {o}) = Cardinality(Held(p, k)) + 1
        BY <3>2, <4>1, FS_AddElement
      <4>4. e = 1
        BY <2>9, <3>5 DEF Delta
      <4>5. n + 1 = Cardinality(Held(p, k) \cup {o}) + Cardinality(Switched(p, k) \cap counted)
        BY <3>2, <3>3, <4>3
      <4>6. n + e = n + 1
        BY <4>4
      <4> QED
        BY <3>1, <4>2, <4>3, <4>5, <4>6 DEF CountsHeld
    <3> QED
      BY <3>4, <3>5
  <2>10. ASSUME NEW k \in {1, -1}, v.kind # k, NEW n \in Int, CountsHeld(p, k, n)
         PROVE  CountsHeld(p, k, n)'
    <3>1. /\ IsFiniteSet(Held(p, k)) /\ IsFiniteSet(Switched(p, k) \cap counted)
          /\ n = Cardinality(Held(p, k)) + Cardinality(Switched(p, k) \cap counted)
      BY <2>10, SwitchedFinite DEF CountsHeld
    <3>2. Cardinality(Held(p, k)) \in Nat /\ Cardinality(Switched(p, k) \cap counted) \in Nat
      BY <3>1, FS_CardinalityType
    <3>3. o \notin Held(p, k)'
      BY <2>8, <2>10 DEF NewValue
    <3>4. CASE v.shown = k
      <4>1. o \in Held(p, k) /\ Held(p, k)' = Held(p, k) \ {o}
        BY <2>8, <3>3, <3>4
      <4>2. /\ IsFiniteSet(Held(p, k) \ {o})
            /\ Cardinality(Held(p, k) \ {o}) = Cardinality(Held(p, k)) - 1
        BY <3>1, <4>1, FS_RemoveElement
      <4>3. t \in Switched(p, k) /\ Switched(p, k)' = Switched(p, k)
        BY <1>1, <1>3, <1>7, <2>10, <3>4 DEF Switched
      <4>4. (Switched(p, k) \cap counted)' = (Switched(p, k) \cap counted) \cup {t}
        BY <1>1, <4>3
      <4>5. Cardinality((Switched(p, k) \cap counted) \cup {t})
              = Cardinality(Switched(p, k) \cap counted) + 1
        BY <1>4, <3>1, FS_AddElement
      <4>6. n = Cardinality(Held(p, k) \ {o})
                  + Cardinality((Switched(p, k) \cap counted) \cup {t})
        BY <3>1, <3>2, <4>2, <4>5
      <4> QED
        BY <4>1, <4>2, <4>4, <4>6 DEF CountsHeld
    <3>5. CASE v.shown # k
      <4>1. Held(p, k)' = Held(p, k)
        BY <2>8, <3>3, <3>5
      <4>2. (Switched(p, k) \cap counted)' = Switched(p, k) \cap counted
        BY <1>1, <3>5 DEF Switched
      <4> QED
        BY <3>1, <4>1, <4>2 DEF CountsHeld
    <3> QED
      BY <3>4, <3>5
  <2>11. CountersRight(p)'
    <3>1. PICK a \in Int, b \in Int, e \in {1, -1} :
            a = ups[p] /\ b = downs[p] /\ e = Delta(v)
      BY <1>3, VoteEffect
    <3>2. CountsHeld(p, 1, a) /\ CountsHeld(p, -1, b)
      BY <2>1, <3>1 DEF CountersRight
    <3>3. CASE v.kind = 1
      <4>1. ups'[p] = a + e /\ downs'[p] = b
        BY <1>2, <1>3, <1>7, <3>1, <3>3
      <4>2. CountsHeld(p, 1, a + e)' /\ CountsHeld(p, -1, b)'
        BY <2>9, <2>10, <3>1, <3>2, <3>3
      <4>3. CountsHeld(p, 1, ups[p])'
        BY <4>1, <4>2 DEF CountsHeld
      <4>4. CountsHeld(p, -1, downs[p])'
        BY <4>1, <4>2 DEF CountsHeld
      <4> QED
        BY <4>3, <4>4 DEF CountersRight
    <3>4. CASE v.kind = -1
      <4>1. downs'[p] = b + e /\ ups'[p] = a
        BY <1>2, <1>3, <1>7, <3>1, <3>4
      <4>2. CountsHeld(p, -1, b + e)' /\ CountsHeld(p, 1, a)'
        BY <2>9, <2>10, <3>1, <3>2, <3>4
      <4>3. CountsHeld(p, 1, ups[p])'
        BY <4>1, <4>2 DEF CountsHeld
      <4>4. CountsHeld(p, -1, downs[p])'
        BY <4>1, <4>2 DEF CountsHeld
      <4> QED
        BY <4>3, <4>4 DEF CountersRight
    <3> QED
      BY <1>3, <3>3, <3>4
  <2> QED
    BY <2>5, <2>6, <2>11
<1> QED
  BY <1>6, <1>7

(* Every other step writes nothing and casts nothing.                      *)
LEMMA OthersBalance ==
  ASSUME TypeOK, CountInv, NEW p \in Posts, Clean(p)' => Clean(p),
         \/ UNCHANGED vars
         \/ \E d \in Devices :
              \/ ReloadFeed(d) \/ Launch(d) \/ Connect(d)
              \/ \E q \in Posts : Listen(d, q)
              \/ Client(d) \/ MainThread(d) \/ Fault(d)
  PROVE  Balanced(p)'
<1>1. /\ UNCHANGED tapVars /\ record' = record /\ ups' = ups /\ downs' = downs
      /\ recorded' = recorded /\ counted' = counted
  <2>1. CASE UNCHANGED vars
    BY <2>1 DEF vars, dbVars, histVars
  <2>2. ASSUME NEW d \in Devices,
               \/ ReloadFeed(d) \/ Launch(d) \/ Connect(d)
               \/ \E q \in Posts : Listen(d, q)
               \/ Disconnect(d) \/ Kill(d)
        PROVE  /\ UNCHANGED <<tapVars, dbVars>>
               /\ recorded' = recorded /\ counted' = counted
    BY <2>2 DEF ReloadFeed, Launch, Connect, Listen, Disconnect, Kill, histVars
  <2>3. ASSUME NEW d \in Devices, Client(d) \/ MainThread(d)
        PROVE  /\ UNCHANGED <<tapVars, dbVars>>
               /\ recorded' = recorded /\ counted' = counted
    BY <2>3 DEF Client, DeliverValue, DeliverAck, DeliverCommit, Cancel, MainThread,
      MainValue, MainStored, MainCounted, MainError, histVars
  <2>4. ASSUME NEW d \in Devices, NEW t \in Taps,
               RefuseRecord(d, t) \/ GiveUp(d, t) \/ Forget(d, t)
        PROVE  /\ UNCHANGED <<tapVars, dbVars>>
               /\ recorded' = recorded /\ counted' = counted
    BY <2>4 DEF RefuseRecord, GiveUp, Forget, histVars
  <2> QED
    BY <2>1, <2>2, <2>3, <2>4 DEF Fault, dbVars
<1>2. Taps' = Taps /\ vote' = vote
  BY <1>1, SameTaps
<1>3. \A u \in Users : Uncounted(u, p)' = Uncounted(u, p)
  BY <1>1, <1>2 DEF Uncounted
<1>4. \A k : (Switched(p, k) \cap counted)' = Switched(p, k) \cap counted
  BY <1>1, <1>2 DEF Switched
<1> QED
  BY <1>1, <1>2, <1>3, <1>4, PostUntouched DEF CountInv

(* At first nobody has voted.                                              *)
LEMMA InitBalanced == Init => CountInv
<1> SUFFICES ASSUME Init, NEW p \in Posts
             PROVE  OneByOne(p) /\ RecordTells(p) /\ CountersRight(p)
  BY DEF CountInv, Balanced
<1>1. Taps = {} /\ counted = {}
  BY DEF Init, Taps
<1>2. \A u \in Users : Uncounted(u, p) = {}
  BY <1>1 DEF Uncounted
<1>3. ASSUME NEW k \in {1, -1}
      PROVE  CountsHeld(p, k, 0)
  <2>1. Held(p, k) = {}
    BY <1>2 DEF Held, Init, NoRecord
  <2>2. Switched(p, k) \cap counted = {}
    BY <1>1
  <2>3. IsFiniteSet({}) /\ Cardinality({}) = 0
    BY FS_EmptySet
  <2> QED
    BY <2>1, <2>2, <2>3 DEF CountsHeld
<1>4. ups[p] = 0 /\ downs[p] = 0
  BY DEF Init
<1> QED
  BY <1>2, <1>3, <1>4 DEF OneByOne, RecordTells, CountersRight

-----------------------------------------------------------------------------
(* The theorems.                                                           *)

(* While no vote on a post has failed, and each was tapped on a cell that  *)
(* showed the truth, its counters are the votes that its users held before *)
(* the ones now under way, plus the switches that were counted.            *)
THEOREM CountersFollowVotes == Spec => []CountInv
<1>1. TypeOK /\ TypeOK' /\ StageTellsWrites /\ CountInv /\ [Next]_vars => CountInv'
  <2> SUFFICES ASSUME TypeOK, TypeOK', StageTellsWrites, CountInv, [Next]_vars,
                      NEW p \in Posts
               PROVE  Balanced(p)'
    BY DEF CountInv
  <2>1. Clean(p)' => Clean(p)
    BY CleanBefore
  <2>2. ASSUME NEW d \in Devices, NEW c \in Cells, NEW kind \in {1, -1}, Tap(d, c, kind)
        PROVE  Balanced(p)'
    BY <2>1, <2>2, TapBalances
  <2>3. ASSUME NEW d \in Devices, NEW t \in Taps, StoreRecord(d, t)
        PROVE  Balanced(p)'
    BY <2>1, <2>3, StoreBalances
  <2>4. ASSUME NEW d \in Devices, NEW t \in Taps, CommitCount(d, t)
        PROVE  Balanced(p)'
    BY <2>1, <2>4, CommitBalances
  <2>5. CASE \/ UNCHANGED vars
             \/ \E d \in Devices :
                  \/ ReloadFeed(d) \/ Launch(d) \/ Connect(d)
                  \/ \E q \in Posts : Listen(d, q)
                  \/ Client(d) \/ MainThread(d) \/ Fault(d)
    BY <2>1, <2>5, OthersBalance
  <2> QED
    BY <2>2, <2>3, <2>4, <2>5 DEF Next, Server
<1>2. WriteInv => StageTellsWrites
  BY DEF WriteInv
<1> QED
  BY <1>1, <1>2, InitBalanced, TypeCorrect, StagesAreRight, PTL DEF Spec

(* When all votes of a post are tidy its counters are exactly the recorded *)
(* votes plus one for every switch of thumbs: a completed vote has moved   *)
(* its counter by what it moved the record.                                *)
THEOREM TidyVotesCount == Spec => []TidyVotesAreCounted
<1>1. TypeOK /\ StageTellsWrites /\ CountInv => TidyVotesAreCounted
  <2> SUFFICES ASSUME TypeOK, StageTellsWrites, CountInv, NEW p \in Posts, Tidy(p)
               PROVE  /\ ups[p] = Cardinality(Recorded(p, 1)) + Cardinality(Switched(p, 1))
                      /\ downs[p] = Cardinality(Recorded(p, -1)) + Cardinality(Switched(p, -1))
    BY DEF TidyVotesAreCounted
  <2>1. Clean(p)
    BY DEF Tidy, Clean, Doomed
  <2>2. CountersRight(p)
    BY <2>1 DEF CountInv, Balanced
  <2>3. \A u \in Users : Uncounted(u, p) = {}
    BY DEF Tidy, Uncounted, StageTellsWrites
  <2>4. ASSUME NEW k
        PROVE  Held(p, k) = Recorded(p, k) /\ Switched(p, k) \cap counted = Switched(p, k)
    <3>1. Held(p, k) = Recorded(p, k)
      BY <2>3 DEF Held, Recorded
    <3>2. Switched(p, k) \subseteq counted
      BY DEF Switched, Tidy, StageTellsWrites
    <3> QED
      BY <3>1, <3>2
  <2> QED
    BY <2>2, <2>4 DEF CountersRight, CountsHeld
<1>2. WriteInv => TypeOK /\ StageTellsWrites
  BY DEF WriteInv
<1> QED
  BY <1>1, <1>2, CountersFollowVotes, StagesAreRight, PTL

-----------------------------------------------------------------------------
(* The inductive invariant.  What the client believes of a record it was   *)
(* told by the server; what it will believe, when it has taken all that is *)
(* on its way, is the record.                                              *)

(* Message m says what the record of p is, if votes are vt and their       *)
(* stages st: it brings its value, or answers a write that was stored.     *)
Speaks(m, p, vt, st) ==
  \/ m.type = "value" /\ m.post = p
  \/ m.type = "reply" /\ vt[m.tap].post = p /\ st[m.tap] = "stored"

Word(m, vt) == IF m.type = "value" THEN m.val ELSE NewValue(vt[m.tap])

(* A client that believes s of the record of p, with the messages q on     *)
(* their way, is going to believe r.                                       *)
Hears(q, p, s, r, vt, st) ==
  /\ (\A i \in 1..Len(q) : ~Speaks(q[i], p, vt, st)) => s = r
  /\ \A i \in 1..Len(q) :
       /\ Speaks(q[i], p, vt, st)
       /\ \A j \in 1..Len(q) : i < j => ~Speaks(q[j], p, vt, st)
       => Word(q[i], vt) = r

(* The stages of a vote that waits for an answer of the server.            *)
Awaited == {"stored", "refused", "counted"}

(* The answers in the queue q of phone d are to its own votes, to each at  *)
(* most one, and their votes wait for them, in the stages W.               *)
RightAnswers(q, d, W, vt, st) ==
  \A i \in 1..Len(q) : q[i].type = "reply" =>
    /\ q[i].tap \in DOMAIN vt
    /\ vt[q[i].tap].dev = d
    /\ st[q[i].tap] \in W
    /\ \A j \in 1..Len(q) : q[j].type = "reply" /\ q[j].tap = q[i].tap => i = j

(* No answer to tap t is among the messages q.                             *)
Unanswered(q, t) ==
  \A i \in 1..Len(q) : q[i].type = "reply" => q[i].tap # t

AnswersRight(d) == RightAnswers(down[d], d, Awaited, vote, stage)

(* What the server tells a phone that listens ends with the record.        *)
Heard(d, p) ==
  listening[d][p] =>
    Hears(down[d], p, synced[d][p], record[UserOf[d]][p], vote, stage)

(* Observers see what the client believes, unless a write is pending.      *)
Unhidden(d, p) == Pending(d, p, stage) = {} => view[d][p] = synced[d][p]

ViewOf(d) == AnswersRight(d) /\ \A p \in Posts : Unhidden(d, p) /\ Heard(d, p)

ViewInv == \A d \in Devices : ViewOf(d)

-----------------------------------------------------------------------------
(* Sequences.                                                              *)

(* Appending keeps the sequence and puts one element at its end.           *)
LEMMA AppendFacts ==
  ASSUME NEW S, NEW q \in Seq(S), NEW x \in S
  PROVE  /\ Append(q, x) \in Seq(S)
         /\ Len(q) \in Nat /\ Len(Append(q, x)) = Len(q) + 1
         /\ \A n \in 1..Len(q) : Append(q, x)[n] = q[n]
         /\ Append(q, x)[Len(q) + 1] = x
BY AppendProperties

(* Taking the head moves the others one place up.                          *)
LEMMA TailFacts ==
  ASSUME NEW S, NEW q \in Seq(S), q # << >>
  PROVE  /\ Tail(q) \in Seq(S)
         /\ Len(q) \in Nat \ {0} /\ Len(Tail(q)) = Len(q) - 1
         /\ \A n \in 1..Len(Tail(q)) : n + 1 \in 1..Len(q) /\ Tail(q)[n] = q[n + 1]
         /\ Head(q) \in S /\ Head(q) = q[1] /\ 1 \in 1..Len(q)
BY HeadTailProperties

-----------------------------------------------------------------------------
(* What a queue says.                                                      *)

(* A message that speaks has the last word.                                *)
LEMMA HearsSpoken ==
  ASSUME NEW S, NEW q \in Seq(S), NEW m \in S, NEW p, NEW s, NEW r, NEW vt, NEW st,
         Speaks(m, p, vt, st), Word(m, vt) = r, NEW a, a = Append(q, m)
  PROVE  Hears(a, p, s, r, vt, st)
<1>0. PICK n \in Nat : n = Len(q)
  BY AppendFacts
<1>1. Len(a) = n + 1 /\ a[n + 1] = m
  BY <1>0, AppendFacts
<1>2. n + 1 \in 1..Len(a) /\ \A i \in 1..Len(a) : i = n + 1 \/ i < n + 1
  BY <1>1
<1> QED
  BY <1>1, <1>2 DEF Hears

(* One that does not speak changes nothing.                                *)
LEMMA HearsSilent ==
  ASSUME NEW S, NEW q \in Seq(S), NEW m \in S, NEW p, NEW s, NEW r, NEW vt, NEW st,
         ~Speaks(m, p, vt, st), Hears(q, p, s, r, vt, st), NEW a, a = Append(q, m)
  PROVE  Hears(a, p, s, r, vt, st)
<1>0. PICK n \in Nat : n = Len(q)
  BY AppendFacts
<1>1. Len(a) = n + 1 /\ a[n + 1] = m /\ \A i \in 1..n : a[i] = q[i]
  BY <1>0, AppendFacts
<1>2. /\ \A i \in 1..Len(a) : i = n + 1 \/ i \in 1..n
      /\ \A i \in 1..n : i \in 1..Len(a)
  BY <1>1
<1>3. (\A i \in 1..Len(a) : ~Speaks(a[i], p, vt, st)) => s = r
  BY <1>0, <1>1, <1>2 DEF Hears
<1>4. ASSUME NEW i \in 1..Len(a), Speaks(a[i], p, vt, st),
             \A j \in 1..Len(a) : i < j => ~Speaks(a[j], p, vt, st)
      PROVE  Word(a[i], vt) = r
  <2>1. i \in 1..n /\ a[i] = q[i]
    BY <1>1, <1>2, <1>4
  <2>2. \A j \in 1..n : i < j => ~Speaks(q[j], p, vt, st)
    BY <1>1, <1>2, <1>4
  <2> QED
    BY <1>0, <1>1, <1>4, <2>1, <2>2 DEF Hears
<1> QED
  BY <1>3, <1>4 DEF Hears

(* What the first message says is believed when it has been taken.         *)
LEMMA HearsTail ==
  ASSUME NEW S, NEW q \in Seq(S), q # << >>, NEW p, NEW s, NEW r,
         NEW vt, NEW st, Hears(q, p, s, r, vt, st),
         NEW x, x = (IF Speaks(Head(q), p, vt, st) THEN Word(Head(q), vt) ELSE s),
         NEW a, a = Tail(q)
  PROVE  Hears(a, p, x, r, vt, st)
<1>0. PICK n \in Nat : n = Len(a) /\ Len(q) = n + 1
  BY TailFacts
<1>1. Head(q) = q[1] /\ \A i \in 1..n : a[i] = q[i + 1]
  BY <1>0, TailFacts
<1>2. /\ \A i \in 1..n : i + 1 \in 1..(n + 1) /\ i \in Int
      /\ \A j \in 1..(n + 1) : j = 1 \/ (j - 1 \in 1..n /\ j = (j - 1) + 1)
      /\ 1 \in 1..(n + 1)
  OBVIOUS
<1>3. ASSUME \A i \in 1..n : ~Speaks(a[i], p, vt, st)
      PROVE  x = r
  <2>1. ASSUME NEW j \in 1..(n + 1), 1 < j
        PROVE  ~Speaks(q[j], p, vt, st)
    <3>1. j - 1 \in 1..n /\ (j - 1) + 1 = j
      BY <2>1
    <3>2. a[j - 1] = q[j]
      BY <1>1, <3>1
    <3> QED
      BY <1>3, <3>1, <3>2
  <2>2. CASE Speaks(q[1], p, vt, st)
    BY <1>0, <1>1, <1>2, <2>1, <2>2 DEF Hears
  <2>3. CASE ~Speaks(q[1], p, vt, st)
    <3>1. \A j \in 1..(n + 1) : ~Speaks(q[j], p, vt, st)
      BY <1>2, <2>1, <2>3
    <3> QED
      BY <1>0, <1>1, <2>3, <3>1 DEF Hears
  <2> QED
    BY <2>2, <2>3
<1>4. ASSUME NEW i \in 1..n, Speaks(a[i], p, vt, st),
             \A j \in 1..n : i < j => ~Speaks(a[j], p, vt, st)
      PROVE  Word(a[i], vt) = r
  <2>1. i + 1 \in 1..(n + 1) /\ a[i] = q[i + 1]
    BY <1>1, <1>2
  <2>2. ASSUME NEW j \in 1..(n + 1), i + 1 < j
        PROVE  ~Speaks(q[j], p, vt, st)
    <3>1. j - 1 \in 1..n /\ i < j - 1 /\ (j - 1) + 1 = j
      BY <2>2
    <3>2. a[j - 1] = q[j]
      BY <1>1, <3>1
    <3> QED
      BY <1>4, <3>1, <3>2
  <2>3. PICK k \in 1..(n + 1) : k = i + 1
    BY <2>1
  <2>4. Speaks(q[k], p, vt, st) /\ Word(a[i], vt) = Word(q[k], vt)
    BY <1>4, <2>1, <2>3
  <2>5. \A j \in 1..(n + 1) : k < j => ~Speaks(q[j], p, vt, st)
    BY <2>2, <2>3
  <2>6. Word(q[k], vt) = r
    BY <1>0, <2>4, <2>5 DEF Hears
  <2> QED
    BY <2>4, <2>6
<1> QED
  BY <1>0, <1>3, <1>4 DEF Hears

(* A queue says what it said while the votes it answers are as they were.  *)
LEMMA HearsSame ==
  ASSUME NEW S, NEW q \in Seq(S), NEW p, NEW s, NEW r,
         NEW vt, NEW st, NEW vu, NEW su, Hears(q, p, s, r, vt, st),
         \A i \in 1..Len(q) : q[i].type = "reply" =>
           vu[q[i].tap] = vt[q[i].tap] /\ su[q[i].tap] = st[q[i].tap]
  PROVE  Hears(q, p, s, r, vu, su)
<1>1. \A i \in 1..Len(q) : Speaks(q[i], p, vu, su) <=> Speaks(q[i], p, vt, st)
  BY DEF Speaks
<1>2. ASSUME NEW i \in 1..Len(q), Speaks(q[i], p, vt, st)
      PROVE  Word(q[i], vu) = Word(q[i], vt)
  BY <1>2 DEF Speaks, Word
<1> QED
  BY <1>1, <1>2 DEF Hears

(* A message that is no answer may be added.                               *)
LEMMA ValueAppended ==
  ASSUME NEW S, NEW q \in Seq(S), NEW m \in S, NEW d, NEW W, NEW vt, NEW st,
         RightAnswers(q, d, W, vt, st), m.type # "reply",
         NEW a, a = Append(q, m)
  PROVE  RightAnswers(a, d, W, vt, st)
<1>0. PICK n \in Nat : n = Len(q)
  BY AppendFacts
<1>1. Len(a) = n + 1 /\ a[n + 1] = m /\ \A i \in 1..n : a[i] = q[i]
  BY <1>0, AppendFacts
<1>2. \A i \in 1..(n + 1) : i = n + 1 \/ i \in 1..n
  BY <1>1
<1> QED
  BY <1>0, <1>1, <1>2 DEF RightAnswers

(* Taking a message leaves the answers right.                              *)
LEMMA AnswersTail ==
  ASSUME NEW S, NEW q \in Seq(S), q # << >>, NEW d, NEW W, NEW vt, NEW st,
         RightAnswers(q, d, W, vt, st),
         NEW a, a = Tail(q)
  PROVE  RightAnswers(a, d, W, vt, st)
<1>0. PICK n \in Nat : n = Len(a) /\ Len(q) = n + 1
  BY TailFacts
<1>1. \A i \in 1..n : a[i] = q[i + 1]
  BY <1>0, TailFacts
<1>2. /\ \A i \in 1..n : i + 1 \in 1..(n + 1)
      /\ \A i, j \in 1..n : i + 1 = j + 1 => i = j
  OBVIOUS
<1> QED
  BY <1>0, <1>1, <1>2 DEF RightAnswers

(* Taking an answer to a vote leaves none to it.                           *)
LEMMA AnswerTaken ==
  ASSUME NEW S, NEW q \in Seq(S), q # << >>, NEW d, NEW W, NEW vt, NEW st,
         RightAnswers(q, d, W, vt, st),
         NEW m \in S, m = Head(q), m.type = "reply",
         NEW a, a = Tail(q)
  PROVE  Unanswered(a, m.tap)
<1>0. PICK n \in Nat : n = Len(a) /\ Len(q) = n + 1
  BY TailFacts
<1>1. m = q[1] /\ \A i \in 1..n : a[i] = q[i + 1]
  BY <1>0, TailFacts
<1>2. /\ \A i \in 1..n : i + 1 \in 1..(n + 1) /\ i + 1 # 1
      /\ 1 \in 1..(n + 1)
  OBVIOUS
<1> QED
  BY <1>0, <1>1, <1>2 DEF RightAnswers, Unanswered

(* The answers stay right while the votes they answer are as they were.    *)
LEMMA AnswersSame ==
  ASSUME NEW q, NEW d, NEW W, NEW vt, NEW st, NEW vu, NEW su,
         RightAnswers(q, d, W, vt, st),
         DOMAIN vt \subseteq DOMAIN vu,
         \A i \in 1..Len(q) : q[i].type = "reply" =>
           vu[q[i].tap] = vt[q[i].tap] /\ su[q[i].tap] = st[q[i].tap]
  PROVE  RightAnswers(q, d, W, vu, su)
BY DEF RightAnswers

-----------------------------------------------------------------------------
(* Steps that leave what is on its way to phone e alone.                   *)

(* Votes keep their content; those of e that wait for an answer, and those *)
(* whose write is pending, stay so.                                        *)
Steady(e) ==
  /\ Taps \subseteq Taps'
  /\ \A t \in Taps : vote'[t] = vote[t]
  /\ \A t \in Taps : vote[t].dev = e =>
       /\ stage[t] \in {"stored", "refused", "counted"} => stage'[t] = stage[t]
       /\ stage'[t] \in {"sent", "stored", "refused"}
            <=> stage[t] \in {"sent", "stored", "refused"}

(* An answer on its way is to a tap.                                       *)
LEMMA AnswersKnown ==
  ASSUME TypeOK, NEW e \in Devices, AnswersRight(e)
  PROVE  /\ down[e] \in Seq(DownMessages) /\ Len(down[e]) \in Nat
         /\ \A i \in 1..Len(down[e]) : down[e][i].type = "reply" =>
              /\ down[e][i].tap \in Taps
              /\ vote[down[e][i].tap].dev = e
              /\ stage[down[e][i].tap] \in {"stored", "refused", "counted"}
<1>1. down[e] \in Seq(DownMessages) /\ DOMAIN vote = Taps
  BY DEF TypeOK, LinkTypeOK, TapTypeOK
<1>2. Len(down[e]) \in Nat
  BY <1>1, LenProperties
<1> QED
  BY <1>1, <1>2 DEF AnswersRight, RightAnswers, Awaited

(* Answers stay right.                                                     *)
LEMMA SteadyAnswers ==
  ASSUME TypeOK, TypeOK', NEW e \in Devices, AnswersRight(e), Steady(e),
         down'[e] = down[e]
  PROVE  AnswersRight(e)'
<1>1. DOMAIN vote \subseteq DOMAIN vote'
  BY DEF TypeOK, TapTypeOK, Steady
<1>2. \A i \in 1..Len(down[e]) : down[e][i].type = "reply" =>
        /\ vote'[down[e][i].tap] = vote[down[e][i].tap]
        /\ stage'[down[e][i].tap] = stage[down[e][i].tap]
  BY AnswersKnown DEF Steady
<1>3. RightAnswers(down[e], e, Awaited, vote', stage')
  BY <1>1, <1>2, AnswersSame DEF AnswersRight
<1> QED
  BY <1>3 DEF AnswersRight

(* What the server tells still ends with the record.                       *)
LEMMA SteadyHeard ==
  ASSUME TypeOK, NEW e \in Devices, NEW p \in Posts, AnswersRight(e), Heard(e, p), Steady(e),
         down'[e] = down[e], synced'[e][p] = synced[e][p],
         listening'[e][p] => listening[e][p] /\ record'[UserOf[e]][p] = record[UserOf[e]][p]
  PROVE  Heard(e, p)'
<1> SUFFICES ASSUME listening'[e][p]
             PROVE  Hears(down'[e], p, synced'[e][p], record'[UserOf[e]][p], vote', stage')
  BY DEF Heard
<1>1. Hears(down[e], p, synced[e][p], record[UserOf[e]][p], vote, stage)
  BY DEF Heard
<1>2. down[e] \in Seq(DownMessages)
  BY AnswersKnown
<1>3. \A i \in 1..Len(down[e]) : down[e][i].type = "reply" =>
        /\ vote'[down[e][i].tap] = vote[down[e][i].tap]
        /\ stage'[down[e][i].tap] = stage[down[e][i].tap]
  BY AnswersKnown DEF Steady
<1>4. Hears(down[e], p, synced[e][p], record[UserOf[e]][p], vote', stage')
  BY <1>1, <1>2, <1>3, HearsSame
<1> QED
  BY <1>4

(* The pending writes of e on p stay the same, but for new taps.           *)
LEMMA SteadyPending ==
  ASSUME NEW e, NEW p, Steady(e),
         \A t \in Taps' \ Taps : vote'[t].dev # e \/ vote'[t].post # p
  PROVE  Pending(e, p, stage)' = Pending(e, p, stage)
<1>1. ASSUME NEW t \in Taps
      PROVE  t \in Pending(e, p, stage)' <=> t \in Pending(e, p, stage)
  BY DEF Pending, Steady
<1>2. Pending(e, p, stage) \subseteq Taps /\ Pending(e, p, stage)' \subseteq Taps
  BY DEF Pending
<1> QED
  BY <1>1, <1>2

(* A step that does nothing to e, and changes no record it listens to.     *)
LEMMA QuietView ==
  ASSUME TypeOK, TypeOK', NEW e \in Devices, ViewOf(e), Steady(e),
         \A t \in Taps' \ Taps : vote'[t].dev # e,
         down'[e] = down[e], synced'[e] = synced[e], view'[e] = view[e],
         \A p \in Posts : listening'[e][p] =>
           listening[e][p] /\ record'[UserOf[e]][p] = record[UserOf[e]][p]
  PROVE  ViewOf(e)'
<1>1. AnswersRight(e)'
  BY SteadyAnswers DEF ViewOf
<1>2. ASSUME NEW p \in Posts
      PROVE  Heard(e, p)' /\ Unhidden(e, p)'
  <2>1. Heard(e, p)'
    BY SteadyHeard DEF ViewOf
  <2>2. Pending(e, p, stage)' = Pending(e, p, stage)
    BY SteadyPending
  <2>3. Unhidden(e, p)'
    BY <2>2 DEF ViewOf, Unhidden
  <2> QED
    BY <2>1, <2>3
<1> QED
  BY <1>1, <1>2 DEF ViewOf

-----------------------------------------------------------------------------
(* Steps of a phone, and of the server for it.                             *)

(* A tap hides the record of its post.                                     *)
LEMMA TapView ==
  ASSUME TypeOK, TypeOK', NEW d \in Devices, NEW c \in Cells, NEW kind \in {1, -1},
         Tap(d, c, kind), NEW e \in Devices, ViewOf(e)
  PROVE  ViewOf(e)'
<1> DEFINE n == taps + 1
           w == NewVote(d, c, kind)
<1>1. /\ n \in Taps' /\ n \notin Taps /\ Taps' = Taps \cup {n}
      /\ \A t \in Taps : vote'[t] = vote[t] /\ stage'[t] = stage[t]
      /\ vote'[n] = w /\ stage'[n] = "sent"
  <2>1. taps \in Nat /\ taps' = taps + 1
    BY DEF Tap, TypeOK, TapTypeOK
  <2>2. Taps' = 1..(taps + 1) /\ Taps = 1..taps
    BY <2>1 DEF Taps
  <2> QED
    BY <2>1, <2>2 DEF Tap
<1>2. /\ record' = record /\ listening' = listening /\ down' = down /\ synced' = synced
      /\ view' = [view EXCEPT ![d][w.post] = NewValue(w)]
  BY DEF Tap, dbVars
<1>3. w.dev = d /\ w.post = row[d][c] /\ w.post \in Posts
  BY DEF NewVote, Tap, TypeOK, ScreenTypeOK
<1>4. Steady(e)
  BY <1>1 DEF Steady
<1>5. view \in [Devices -> [Posts -> Values]]
  BY DEF TypeOK, LinkTypeOK
<1>6. CASE e # d
  <2>1. view'[e] = view[e]
    BY <1>2, <1>3, <1>5, <1>6
  <2>2. \A t \in Taps' \ Taps : vote'[t].dev # e
    BY <1>1, <1>3, <1>6
  <2> QED
    BY <1>2, <1>4, <2>1, <2>2, QuietView
<1>7. CASE e = d
  <2>1. AnswersRight(e)'
    BY <1>2, <1>4, SteadyAnswers DEF ViewOf
  <2>2. ASSUME NEW p \in Posts
        PROVE  Heard(e, p)' /\ Unhidden(e, p)'
    <3>1. Heard(e, p)'
      BY <1>2, <1>4, SteadyHeard DEF ViewOf
    <3>2. CASE p = w.post
      <4>1. n \in Pending(e, p, stage)'
        BY <1>1, <1>3, <1>7, <3>2 DEF Pending
      <4>2. Unhidden(e, p)'
        BY <4>1 DEF Unhidden
      <4> QED
        BY <3>1, <4>2
    <3>3. CASE p # w.post
      <4>1. Pending(e, p, stage)' = Pending(e, p, stage)
        BY <1>1, <1>4, <3>3, SteadyPending
      <4>2. view'[e][p] = view[e][p]
        BY <1>2, <1>3, <1>5, <3>3
      <4>3. Unhidden(e, p)'
        BY <1>2, <4>1, <4>2 DEF ViewOf, Unhidden
      <4> QED
        BY <3>1, <4>3
    <3> QED
      BY <3>2, <3>3
  <2> QED
    BY <2>1, <2>2 DEF ViewOf
<1> QED
  BY <1>6, <1>7

(* The value of a record arrives: observers see it, unless it is hidden.   *)
LEMMA ValueView ==
  ASSUME TypeOK, TypeOK', NEW d \in Devices, DeliverValue(d), ViewOf(d)
  PROVE  ViewOf(d)'
<1>a. PICK q \in Seq(DownMessages) : q = down[d] /\ q # << >>
  BY DEF DeliverValue, TypeOK, LinkTypeOK
<1>b. PICK m \in DownMessages : m = Head(q)
  BY <1>a, TailFacts
<1>c. PICK x \in Seq(DownMessages) : x = Tail(q)
  BY <1>a, TailFacts
<1>1. q = down[d] /\ m = Head(q) /\ x = Tail(q) /\ q # << >>
  BY <1>a, <1>b, <1>c
<1>2. m.type = "value" /\ m.post \in Posts /\ m.val \in Values
  BY <1>1 DEF DeliverValue, DownMessages
<1>3. /\ record' = record /\ listening' = listening /\ stage' = stage
      /\ vote' = vote /\ Taps' = Taps
      /\ down'[d] = x
      /\ synced' = [synced EXCEPT ![d][m.post] = m.val]
  BY <1>1, SameTaps DEF DeliverValue, dbVars, tapVars, TypeOK, LinkTypeOK
<1>4. view' = [view EXCEPT ![d][m.post] =
                 IF Pending(d, m.post, stage) = {} THEN m.val ELSE view[d][m.post]]
  BY <1>1 DEF DeliverValue
<1>5. /\ view \in [Devices -> [Posts -> Values]]
      /\ synced \in [Devices -> [Posts -> Values]]
  BY DEF TypeOK, LinkTypeOK
<1>6. AnswersRight(d)'
  <2>1. RightAnswers(x, d, Awaited, vote, stage)
    BY <1>1, AnswersTail DEF ViewOf, AnswersRight
  <2> QED
    BY <1>3, <2>1 DEF AnswersRight
<1>7. ASSUME NEW p \in Posts
      PROVE  Heard(d, p)'
  <2> SUFFICES ASSUME listening[d][p]
               PROVE  Hears(x, p, synced'[d][p], record[UserOf[d]][p], vote, stage)
    BY <1>3 DEF Heard
  <2>1. synced'[d][p] = IF Speaks(m, p, vote, stage) THEN Word(m, vote) ELSE synced[d][p]
    <3>1. Speaks(m, p, vote, stage) <=> p = m.post
      BY <1>2 DEF Speaks
    <3>2. Word(m, vote) = m.val
      BY <1>2 DEF Word
    <3> QED
      BY <1>2, <1>3, <1>5, <3>1, <3>2
  <2>2. Hears(q, p, synced[d][p], record[UserOf[d]][p], vote, stage)
    BY <1>1 DEF ViewOf, Heard
  <2> QED
    BY <1>1, <2>1, <2>2, HearsTail
<1>8. ASSUME NEW p \in Posts
      PROVE  Unhidden(d, p)'
  <2>1. Pending(d, p, stage)' = Pending(d, p, stage)
    BY <1>3 DEF Pending
  <2>2. CASE p = m.post
    <3>1. /\ synced'[d][p] = m.val
          /\ Pending(d, p, stage) = {} => view'[d][p] = m.val
      BY <1>3, <1>4, <1>5, <2>2
    <3> QED
      BY <2>1, <3>1 DEF Unhidden
  <2>3. CASE p # m.post
    <3>1. synced'[d][p] = synced[d][p] /\ view'[d][p] = view[d][p]
      BY <1>2, <1>3, <1>4, <1>5, <2>3
    <3> QED
      BY <2>1, <3>1 DEF ViewOf, Unhidden
  <2> QED
    BY <2>2, <2>3
<1> QED
  BY <1>6, <1>7, <1>8 DEF ViewOf

(* The answer to a write arrives: what it hid is seen.                     *)
LEMMA AckView ==
  ASSUME TypeOK, TypeOK', NEW d \in Devices, DeliverAck(d), ViewOf(d)
  PROVE  ViewOf(d)'
<1>a. PICK q \in Seq(DownMessages) : q = down[d] /\ q # << >>
  BY DEF DeliverAck, TypeOK, LinkTypeOK
<1>b. PICK m \in DownMessages : m = Head(q)
  BY <1>a, TailFacts
<1>c. PICK x \in Seq(DownMessages) : x = Tail(q)
  BY <1>a, TailFacts
<1>1. q = down[d] /\ m = Head(q) /\ x = Tail(q) /\ q # << >>
  BY <1>a, <1>b, <1>c
<1>2. PICK t \in Taps : m.type = "reply" /\ m.tap = t
  BY <1>1 DEF DeliverAck, DownMessages
<1> DEFINE s == AckedValue(d, t)
<1>o. PICK o \in Posts : o = vote[t].post
  BY DEF TypeOK, TapTypeOK, Votes
<1>3. /\ stage[t] \in {"stored", "refused"}
      /\ record' = record /\ listening' = listening
      /\ vote' = vote /\ Taps' = Taps
      /\ down'[d] = x
      /\ stage' = [stage EXCEPT ![t] = IF @ = "stored" THEN "acked" ELSE "denied"]
      /\ synced' = [synced EXCEPT ![d][o] = s]
  BY <1>1, <1>2, <1>o, SameTaps DEF DeliverAck, dbVars, tapVars, TypeOK, LinkTypeOK
<1>4. view' = [view EXCEPT ![d][o] = IF Pending(d, o, stage') = {} THEN s ELSE view[d][o]]
  BY <1>1, <1>2, <1>3, <1>o DEF DeliverAck
<1>5. /\ view \in [Devices -> [Posts -> Values]]
      /\ synced \in [Devices -> [Posts -> Values]]
      /\ stage \in [Taps -> Stages] /\ DOMAIN vote = Taps
  BY DEF TypeOK, LinkTypeOK, TapTypeOK
<1>6. /\ RightAnswers(x, d, Awaited, vote, stage)
      /\ \A i \in 1..Len(x) : x[i].type = "reply" => x[i].tap # t
  <2>1. RightAnswers(q, d, Awaited, vote, stage)
    BY <1>1 DEF ViewOf, AnswersRight
  <2>2. RightAnswers(x, d, Awaited, vote, stage)
    BY <1>1, <2>1, AnswersTail
  <2>3. Unanswered(x, m.tap)
    BY <1>1, <1>2, <2>1, AnswerTaken
  <2> QED
    BY <1>2, <2>2, <2>3 DEF Unanswered
<1>7. \A i \in 1..Len(x) : x[i].type = "reply" =>
        vote'[x[i].tap] = vote[x[i].tap] /\ stage'[x[i].tap] = stage[x[i].tap]
  <2>1. \A i \in 1..Len(x) : x[i].type = "reply" => x[i].tap \in Taps
    BY <1>5, <1>6 DEF RightAnswers
  <2> QED
    BY <1>3, <1>5, <1>6, <2>1
<1>8. AnswersRight(d)'
  <2>1. DOMAIN vote \subseteq DOMAIN vote'
    BY <1>3
  <2>2. RightAnswers(x, d, Awaited, vote', stage')
    BY <1>6, <1>7, <2>1, AnswersSame
  <2> QED
    BY <1>3, <2>2 DEF AnswersRight
<1>9. ASSUME NEW p \in Posts
      PROVE  Heard(d, p)'
  <2> SUFFICES ASSUME listening[d][p]
               PROVE  Hears(x, p, synced'[d][p], record[UserOf[d]][p], vote', stage')
    BY <1>3 DEF Heard
  <2>1. synced'[d][p] = IF Speaks(m, p, vote, stage) THEN Word(m, vote) ELSE synced[d][p]
    <3>1. Speaks(m, p, vote, stage) <=> p = o /\ stage[t] = "stored"
      BY <1>2, <1>o DEF Speaks
    <3>2. Word(m, vote) = NewValue(vote[t])
      BY <1>2 DEF Word
    <3>3. s = IF stage[t] = "stored" THEN NewValue(vote[t]) ELSE synced[d][o]
      BY <1>o DEF AckedValue
    <3> QED
      BY <1>3, <1>5, <3>1, <3>2, <3>3
  <2>2. Hears(q, p, synced[d][p], record[UserOf[d]][p], vote, stage)
    BY <1>1 DEF ViewOf, Heard
  <2>3. Hears(x, p, synced'[d][p], record[UserOf[d]][p], vote, stage)
    BY <1>1, <2>1, <2>2, HearsTail
  <2> QED
    BY <1>7, <2>3, HearsSame
<1>10. ASSUME NEW p \in Posts
       PROVE  Unhidden(d, p)'
  <2>1. CASE p = o
    <3>1. synced'[d][p] = s
      BY <1>3, <1>5, <2>1
    <3>2. Pending(d, o, stage)' = Pending(d, o, stage')
      BY <1>3 DEF Pending
    <3>3. Pending(d, o, stage') = {} => view'[d][p] = s
      BY <1>4, <1>5, <2>1
    <3> QED
      BY <2>1, <3>1, <3>2, <3>3 DEF Unhidden
  <2>2. CASE p # o
    <3>1. synced'[d][p] = synced[d][p] /\ view'[d][p] = view[d][p]
      BY <1>3, <1>4, <1>5, <2>2
    <3>2. Pending(d, p, stage)' = Pending(d, p, stage)
      BY <1>3, <1>5, <1>o, <2>2 DEF Pending
    <3> QED
      BY <3>1, <3>2 DEF ViewOf, Unhidden
  <2> QED
    BY <2>1, <2>2
<1> QED
  BY <1>8, <1>9, <1>10 DEF ViewOf

(* The answer to a transaction says nothing of a record.                   *)
LEMMA CommitView ==
  ASSUME TypeOK, TypeOK', NEW d \in Devices, DeliverCommit(d), ViewOf(d)
  PROVE  ViewOf(d)'
<1>a. PICK q \in Seq(DownMessages) : q = down[d] /\ q # << >>
  BY DEF DeliverCommit, TypeOK, LinkTypeOK
<1>b. PICK m \in DownMessages : m = Head(q)
  BY <1>a, TailFacts
<1>c. PICK x \in Seq(DownMessages) : x = Tail(q)
  BY <1>a, TailFacts
<1>1. q = down[d] /\ m = Head(q) /\ x = Tail(q) /\ q # << >>
  BY <1>a, <1>b, <1>c
<1>2. PICK t \in Taps : m.type = "reply" /\ m.tap = t
  BY <1>1 DEF DeliverCommit, DownMessages
<1>3. /\ stage[t] = "counted" /\ stage' = [stage EXCEPT ![t] = "answered"]
      /\ record' = record /\ listening' = listening /\ synced' = synced /\ view' = view
      /\ vote' = vote /\ Taps' = Taps
      /\ down'[d] = x
  BY <1>1, <1>2, SameTaps DEF DeliverCommit, dbVars, tapVars, TypeOK, LinkTypeOK
<1>4. stage \in [Taps -> Stages] /\ DOMAIN vote = Taps
  BY DEF TypeOK, TapTypeOK
<1>5. /\ RightAnswers(x, d, Awaited, vote, stage)
      /\ \A i \in 1..Len(x) : x[i].type = "reply" => x[i].tap # t
  <2>1. RightAnswers(q, d, Awaited, vote, stage)
    BY <1>1 DEF ViewOf, AnswersRight
  <2>2. RightAnswers(x, d, Awaited, vote, stage)
    BY <1>1, <2>1, AnswersTail
  <2>3. Unanswered(x, m.tap)
    BY <1>1, <1>2, <2>1, AnswerTaken
  <2> QED
    BY <1>2, <2>2, <2>3 DEF Unanswered
<1>6. \A i \in 1..Len(x) : x[i].type = "reply" =>
        vote'[x[i].tap] = vote[x[i].tap] /\ stage'[x[i].tap] = stage[x[i].tap]
  <2>1. \A i \in 1..Len(x) : x[i].type = "reply" => x[i].tap \in Taps
    BY <1>4, <1>5 DEF RightAnswers
  <2> QED
    BY <1>3, <1>4, <1>5, <2>1
<1>7. AnswersRight(d)'
  <2>1. DOMAIN vote \subseteq DOMAIN vote'
    BY <1>3
  <2>2. RightAnswers(x, d, Awaited, vote', stage')
    BY <1>5, <1>6, <2>1, AnswersSame
  <2> QED
    BY <1>3, <2>2 DEF AnswersRight
<1>8. ASSUME NEW p \in Posts
      PROVE  Heard(d, p)' /\ Unhidden(d, p)'
  <2>1. Heard(d, p)'
    <3> SUFFICES ASSUME listening[d][p]
                 PROVE  Hears(x, p, synced[d][p], record[UserOf[d]][p], vote', stage')
      BY <1>3 DEF Heard
    <3>1. ~Speaks(m, p, vote, stage)
      BY <1>2, <1>3 DEF Speaks
    <3>2. Hears(q, p, synced[d][p], record[UserOf[d]][p], vote, stage)
      BY <1>1 DEF ViewOf, Heard
    <3>3. Hears(x, p, synced[d][p], record[UserOf[d]][p], vote, stage)
      BY <1>1, <3>1, <3>2, HearsTail
    <3> QED
      BY <1>6, <3>3, HearsSame
  <2>2. Pending(d, p, stage)' = Pending(d, p, stage)
    BY <1>3, <1>4 DEF Pending
  <2>3. Unhidden(d, p)'
    BY <1>3, <2>2 DEF ViewOf, Unhidden
  <2> QED
    BY <2>1, <2>3
<1> QED
  BY <1>7, <1>8 DEF ViewOf

(* A phone is told the value of the record of p, as it is now.             *)
LEMMA ToldView ==
  ASSUME TypeOK, TypeOK', NEW e \in Devices, ViewOf(e), Steady(e),
         \A t \in Taps' \ Taps : vote'[t].dev # e,
         NEW p \in Posts, NEW r \in Values,
         record'[UserOf[e]][p] = r,
         down'[e] = Append(down[e], [type |-> "value", post |-> p, val |-> r]),
         synced'[e] = synced[e], view'[e] = view[e],
         \A q \in Posts \ {p} : listening'[e][q] =>
           listening[e][q] /\ record'[UserOf[e]][q] = record[UserOf[e]][q]
  PROVE  ViewOf(e)'
<1>1. PICK m \in DownMessages : m = [type |-> "value", post |-> p, val |-> r]
  BY DEF DownMessages
<1>2. m.type = "value" /\ m.post = p /\ m.val = r
  BY <1>1
<1>3. PICK q \in Seq(DownMessages) : q = down[e]
  BY DEF TypeOK, LinkTypeOK
<1>4. down'[e] = Append(q, m)
  BY <1>1, <1>3
<1>5. \A i \in 1..Len(q) : q[i].type = "reply" =>
        vote'[q[i].tap] = vote[q[i].tap] /\ stage'[q[i].tap] = stage[q[i].tap]
  BY SMTT(30), <1>3, AnswersKnown DEF ViewOf, Steady
<1>6. AnswersRight(e)'
  <2>1. DOMAIN vote \subseteq DOMAIN vote'
    BY DEF TypeOK, TapTypeOK, Steady
  <2>2. RightAnswers(q, e, Awaited, vote, stage)
    BY <1>3 DEF ViewOf, AnswersRight
  <2>3. RightAnswers(q, e, Awaited, vote', stage')
    BY <1>5, <2>1, <2>2, AnswersSame
  <2>4. m.type # "reply"
    BY <1>2
  <2>5. RightAnswers(down'[e], e, Awaited, vote', stage')
    BY <1>4, <2>3, <2>4, ValueAppended
  <2> QED
    BY <2>5 DEF AnswersRight
<1>7. ASSUME NEW o \in Posts
      PROVE  Heard(e, o)' /\ Unhidden(e, o)'
  <2>3. Heard(e, o)'
    <3>1. CASE o = p
      <4>1. Speaks(m, o, vote', stage') /\ Word(m, vote') = r
        BY <1>2, <3>1 DEF Speaks, Word
      <4>2. Hears(down'[e], o, synced'[e][o], r, vote', stage')
        BY <1>4, <4>1, HearsSpoken
      <4> QED
        BY <3>1, <4>2 DEF Heard
    <3>2. CASE o # p
      <4> SUFFICES ASSUME listening'[e][o]
                   PROVE  Hears(down'[e], o, synced'[e][o], record'[UserOf[e]][o],
                                vote', stage')
        BY DEF Heard
      <4>1. listening[e][o] /\ record'[UserOf[e]][o] = record[UserOf[e]][o]
        BY <3>2
      <4>2. Hears(q, o, synced[e][o], record[UserOf[e]][o], vote, stage)
        BY <1>3, <4>1 DEF ViewOf, Heard
      <4>3. Hears(q, o, synced[e][o], record[UserOf[e]][o], vote', stage')
        BY <1>5, <4>2, HearsSame
      <4>4. ~Speaks(m, o, vote', stage')
        BY <1>2, <3>2 DEF Speaks
      <4>5. Hears(down'[e], o, synced[e][o], record[UserOf[e]][o], vote', stage')
        BY <1>4, <4>3, <4>4, HearsSilent
      <4> QED
        BY <4>1, <4>5
    <3> QED
      BY <3>1, <3>2
  <2>4. Pending(e, o, stage)' = Pending(e, o, stage)
    BY SteadyPending
  <2>5. Unhidden(e, o)'
    BY <2>4 DEF ViewOf, Unhidden
  <2> QED
    BY <2>3, <2>5
<1> QED
  BY <1>6, <1>7 DEF ViewOf

(* The server takes a write or a transaction of a phone and answers it.    *)
LEMMA AnswerView ==
  ASSUME TypeOK, NEW d \in Devices, ViewOf(d), NEW t \in Taps, vote[t].dev = d,
         NEW x \in {"stored", "refused", "counted"},
         stage[t] = (IF x = "counted" THEN "count" ELSE "sent"),
         stage'[t] = x, \A s \in Taps : s # t => stage'[s] = stage[s],
         vote' = vote, Taps' = Taps, listening' = listening,
         synced' = synced, view' = view,
         down'[d] = Append(down[d], [type |-> "reply", tap |-> t]),
         \A p \in Posts : record'[UserOf[d]][p] =
           IF x = "stored" /\ p = vote[t].post THEN NewValue(vote[t])
                                               ELSE record[UserOf[d]][p]
  PROVE  ViewOf(d)'
<1>1. PICK m \in DownMessages : m = [type |-> "reply", tap |-> t]
  BY DEF DownMessages
<1>2. m.type = "reply" /\ m.tap = t
  BY <1>1
<1>3. PICK q \in Seq(DownMessages) : q = down[d]
  BY DEF TypeOK, LinkTypeOK
<1>4. down'[d] = Append(q, m)
  BY <1>1, <1>3
<1>5. stage \in [Taps -> Stages] /\ DOMAIN vote = Taps
  BY DEF TypeOK, TapTypeOK
<1>6. Unanswered(q, t)
  BY <1>3, AnswersKnown DEF ViewOf, Unanswered
<1>7. \A i \in 1..Len(q) : q[i].type = "reply" =>
        vote'[q[i].tap] = vote[q[i].tap] /\ stage'[q[i].tap] = stage[q[i].tap]
  BY <1>3, <1>5, <1>6, AnswersKnown DEF ViewOf, Unanswered
<1>9. AnswersRight(d)'
  <2>1. DOMAIN vote \subseteq DOMAIN vote'
    OBVIOUS
  <2>2. RightAnswers(q, d, Awaited, vote, stage)
    BY <1>3 DEF ViewOf, AnswersRight
  <2>3. RightAnswers(q, d, Awaited, vote', stage')
    BY <1>7, <2>1, <2>2, AnswersSame
  <2>4. /\ t \in DOMAIN vote' /\ vote'[t].dev = d
        /\ stage'[t] \in {"stored", "refused", "counted"}
    BY <1>5
  <2>5. PICK n \in Nat : n = Len(q)
    BY AppendFacts
  <2>6. PICK a \in Seq(DownMessages) : a = down'[d]
    BY <1>4, AppendFacts
  <2>7. Len(a) = n + 1 /\ a[n + 1] = m /\ \A i \in 1..n : a[i] = q[i]
    BY <1>4, <2>5, <2>6, AppendFacts
  <2>8. \A i \in 1..(n + 1) : i = n + 1 \/ i \in 1..n
    BY <2>5
  <2>9. RightAnswers(a, d, Awaited, vote', stage')
    BY <1>2, <1>6, <2>3, <2>4, <2>5, <2>7, <2>8 DEF RightAnswers, Unanswered, Awaited
  <2> QED
    BY <2>6, <2>9 DEF AnswersRight
<1>10. ASSUME NEW p \in Posts
       PROVE  Heard(d, p)' /\ Unhidden(d, p)'
  <2>1. Heard(d, p)'
    <3> SUFFICES ASSUME listening[d][p]
                 PROVE  Hears(down'[d], p, synced[d][p], record'[UserOf[d]][p], vote', stage')
      BY DEF Heard
    <3>1. Hears(q, p, synced[d][p], record[UserOf[d]][p], vote, stage)
      BY <1>3 DEF ViewOf, Heard
    <3>2. Hears(q, p, synced[d][p], record[UserOf[d]][p], vote', stage')
      BY <1>7, <3>1, HearsSame
    <3>3. CASE x = "stored" /\ p = vote[t].post
      <4>1. Speaks(m, p, vote', stage') /\ Word(m, vote') = record'[UserOf[d]][p]
        BY <1>2, <3>3 DEF Speaks, Word
      <4> QED
        BY ZenonT(30), <1>4, <4>1, HearsSpoken
    <3>4. CASE ~(x = "stored" /\ p = vote[t].post)
      <4>1. ~Speaks(m, p, vote', stage')
        BY <1>2, <3>4 DEF Speaks
      <4>2. record'[UserOf[d]][p] = record[UserOf[d]][p]
        BY <3>4
      <4>3. Hears(down'[d], p, synced[d][p], record[UserOf[d]][p], vote', stage')
        BY <1>4, <3>2, <4>1, HearsSilent
      <4> QED
        BY <4>2, <4>3
    <3> QED
      BY <3>3, <3>4
  <2>2. Pending(d, p, stage)' = Pending(d, p, stage)
    BY <1>5 DEF Pending
  <2>3. Unhidden(d, p)'
    BY <2>2 DEF ViewOf, Unhidden
  <2> QED
    BY <2>1, <2>3
<1> QED
  BY <1>9, <1>10 DEF ViewOf

(* A broken connection loses what was on its way, and sends it again.      *)
LEMMA DisconnectView ==
  ASSUME TypeOK, NEW d \in Devices, Disconnect(d), ViewOf(d)
  PROVE  ViewOf(d)'
<1>1. /\ vote' = vote /\ Taps' = Taps /\ view' = view /\ synced' = synced
      /\ down'[d] = << >> /\ \A p \in Posts : ~listening'[d][p]
  BY SameTaps DEF Disconnect, tapVars, TypeOK, LinkTypeOK
<1>2. PICK kept \in SUBSET MayBeUnsent(d) : stage' = [t \in Taps |-> AfterDrop(d, kept, t)]
  BY DEF Disconnect
<1>3. AnswersRight(d)'
  BY <1>1 DEF AnswersRight, RightAnswers
<1>4. ASSUME NEW p \in Posts
      PROVE  Heard(d, p)' /\ Unhidden(d, p)'
  <2>1. Heard(d, p)'
    BY <1>1 DEF Heard
  <2>2. \A t \in Taps : stage'[t] \in {"sent", "stored", "refused"}
                          <=> stage[t] \in {"sent", "stored", "refused"}
    BY <1>2 DEF AfterDrop
  <2>3. Pending(d, p, stage)' = Pending(d, p, stage)
    BY <1>1, <2>2 DEF Pending
  <2>4. Unhidden(d, p)'
    BY <1>1, <2>3 DEF ViewOf, Unhidden
  <2> QED
    BY <2>1, <2>4
<1> QED
  BY <1>3, <1>4 DEF ViewOf

(* A client that just started knows nothing.                               *)
LEMMA KillView ==
  ASSUME TypeOK, NEW d \in Devices, Kill(d)
  PROVE  ViewOf(d)'
<1>1. /\ down'[d] = << >>
      /\ \A p \in Posts : ~listening'[d][p] /\ view'[d][p] = Unknown /\ synced'[d][p] = Unknown
  BY DEF Kill, TypeOK, LinkTypeOK
<1>2. AnswersRight(d)'
  BY <1>1 DEF AnswersRight, RightAnswers
<1> QED
  BY <1>1, <1>2 DEF ViewOf, Heard, Unhidden

(* A step of one phone does nothing to another, if no record is written.   *)
LEMMA OtherView ==
  ASSUME TypeOK, TypeOK', NEW d \in Devices, NEW e \in Devices, e # d, ViewOf(e),
         vote' = vote, Taps' = Taps,
         \A t \in Taps : vote[t].dev = d \/ stage'[t] = stage[t],
         down'[e] = down[e], synced'[e] = synced[e], view'[e] = view[e],
         \A p \in Posts : listening'[e][p] =>
           listening[e][p] /\ record'[UserOf[e]][p] = record[UserOf[e]][p]
  PROVE  ViewOf(e)'
<1>1. Steady(e)
  BY DEF Steady
<1> QED
  BY <1>1, QuietView

(* The server stores a record, and tells the other phones of its account.  *)
LEMMA StoreView ==
  ASSUME TypeOK, TypeOK', NEW d \in Devices, NEW t \in Taps, StoreRecord(d, t),
         NEW e \in Devices, ViewOf(e)
  PROVE  ViewOf(e)'
<1> DEFINE u == UserOf[d]
           watchers(p) == {f \in Devices \ {d} : UserOf[f] = u /\ listening[f][p]}
<1>1. PICK p \in Posts : p = vote[t].post
  BY DEF TypeOK, TapTypeOK, Votes
<1>2. PICK r \in Values : r = NewValue(vote[t])
  <2>1. vote[t] \in Votes
    BY DEF TypeOK, TapTypeOK
  <2> QED
    BY <2>1, VoteEffect DEF Values
<1>3. /\ vote' = vote /\ Taps' = Taps /\ listening' = listening
      /\ synced' = synced /\ view' = view
      /\ vote[t].dev = d /\ stage[t] = "sent"
      /\ stage' = [stage EXCEPT ![t] = "stored"]
      /\ record' = [record EXCEPT ![u][p] = r]
  BY <1>1, <1>2, SameTaps DEF StoreRecord, FirstWrite, tapVars
<1>4. down' = [f \in Devices |->
         IF f = d THEN Append(down[f], [type |-> "reply", tap |-> t])
         ELSE IF f \in watchers(p)
         THEN Append(down[f], [type |-> "value", post |-> p, val |-> r])
         ELSE down[f]]
  BY <1>1, <1>2 DEF StoreRecord
<1>5. /\ record \in [Users -> [Posts -> Values]] /\ u \in Users
      /\ stage \in [Taps -> Stages]
  BY DeviceAssumption DEF TypeOK, DbTypeOK, TapTypeOK
<1>6. \A f \in Devices, q \in Posts :
        record'[UserOf[f]][q] = IF UserOf[f] = u /\ q = p THEN r ELSE record[UserOf[f]][q]
  BY <1>3, <1>5, DeviceAssumption
<1>7. \A s \in Taps : vote[s].dev = d \/ stage'[s] = stage[s]
  BY <1>3, <1>5
<1>8. CASE e = d
  <2>1. down'[d] = Append(down[d], [type |-> "reply", tap |-> t])
    BY <1>4
  <2>2. \A q \in Posts : record'[UserOf[d]][q] =
          IF q = vote[t].post THEN NewValue(vote[t]) ELSE record[UserOf[d]][q]
    BY <1>1, <1>2, <1>6
  <2>3. stage'[t] = "stored" /\ \A s \in Taps : s # t => stage'[s] = stage[s]
    BY <1>3, <1>5
  <2>4. PICK x \in {"stored", "refused", "counted"} : x = "stored"
    OBVIOUS
  <2>5. /\ vote' = vote /\ Taps' = Taps /\ listening' = listening
        /\ synced' = synced /\ view' = view
        /\ vote[t].dev = d /\ stage[t] = "sent"
    BY <1>3
  <2> QED
    BY <1>8, <2>1, <2>2, <2>3, <2>4, <2>5, AnswerView
<1>9. CASE e # d /\ e \in watchers(p)
  <2>1. Steady(e)
    BY <1>3, <1>7, <1>9 DEF Steady
  <2>2. /\ record'[UserOf[e]][p] = r
        /\ \A q \in Posts \ {p} : record'[UserOf[e]][q] = record[UserOf[e]][q]
    BY <1>6, <1>9
  <2>3. down'[e] = Append(down[e], [type |-> "value", post |-> p, val |-> r])
    BY <1>4, <1>9
  <2> QED
    BY <1>3, <2>1, <2>2, <2>3, ToldView
<1>10. CASE e # d /\ e \notin watchers(p)
  <2>1. down'[e] = down[e]
    BY <1>4, <1>10
  <2>2. \A q \in Posts : listening'[e][q] =>
          listening[e][q] /\ record'[UserOf[e]][q] = record[UserOf[e]][q]
    BY <1>3, <1>6, <1>10
  <2> QED
    BY <1>3, <1>7, <1>10, <2>1, <2>2, OtherView
<1> QED
  BY <1>8, <1>9, <1>10

(* Steps that move no message and no record, and change no vote that the   *)
(* server has yet to answer or whose write is pending.                     *)
LEMMA IdleView ==
  ASSUME TypeOK, TypeOK', NEW e \in Devices, ViewOf(e),
         UNCHANGED <<record, listening, down, synced, view, taps, vote>>,
         \A t \in Taps : \/ stage'[t] = stage[t]
                         \/ /\ stage[t] \notin {"sent", "stored", "refused", "counted"}
                            /\ stage'[t] \notin {"sent", "stored", "refused"}
  PROVE  ViewOf(e)'
<1>1. Taps' = Taps
  BY DEF Taps
<1>2. Steady(e)
  BY <1>1 DEF Steady
<1> QED
  BY <1>1, <1>2, QuietView

(* The steps of the main thread, and what the client does on its own.      *)
LEMMA MainThreadView ==
  ASSUME TypeOK, TypeOK', NEW d \in Devices, NEW e \in Devices, ViewOf(e),
         MainThread(d) \/ \E t \in Taps : Cancel(d, t) \/ GiveUp(d, t) \/ Forget(d, t)
  PROVE  ViewOf(e)'
<1>1. /\ UNCHANGED <<record, listening, down, synced, view, taps, vote>>
      /\ stage \in [Taps -> Stages]
  BY DEF MainThread, MainValue, MainStored, MainCounted, MainError, Cancel, GiveUp,
         Forget, dbVars, tapVars, linkVars, TypeOK, TapTypeOK
<1>2. ASSUME NEW t \in Taps, stage'[t] # stage[t]
      PROVE  /\ stage[t] \notin {"sent", "stored", "refused", "counted"}
             /\ stage'[t] \notin {"sent", "stored", "refused"}
  <2>1. stage' # stage
    BY <1>2
  <2>2. CASE MainStored(d)
    BY <1>1, <1>2, <2>2 DEF MainStored
  <2>3. CASE MainCounted(d)
    BY <1>1, <1>2, <2>3 DEF MainCounted
  <2>4. CASE MainError(d)
    BY <1>1, <1>2, <2>4 DEF MainError
  <2>5. CASE \E s \in Taps : Cancel(d, s)
    BY <1>1, <1>2, <2>5 DEF Cancel
  <2>6. CASE \E s \in Taps : GiveUp(d, s)
    BY <1>1, <1>2, <2>6 DEF GiveUp
  <2>7. CASE MainValue(d)
    BY <2>1, <2>7 DEF MainValue
  <2>8. CASE \E s \in Taps : Forget(d, s)
    BY <1>1, <1>2, <2>8 DEF Forget
  <2> QED
    BY <2>2, <2>3, <2>4, <2>5, <2>6, <2>7, <2>8 DEF MainThread
<1> QED
  BY <1>1, <1>2, IdleView

(* The connection comes back, and feeds are read.                          *)
LEMMA ScreenView ==
  ASSUME TypeOK, TypeOK', NEW d \in Devices, NEW e \in Devices, ViewOf(e),
         Connect(d) \/ ReloadFeed(d) \/ Launch(d)
  PROVE  ViewOf(e)'
<1>1. UNCHANGED <<record, listening, down, synced, view, taps, vote, stage>>
  BY DEF Connect, ReloadFeed, Launch, dbVars, tapVars, linkVars
<1> QED
  BY <1>1, IdleView

(* The client takes a message of the server.                               *)
LEMMA DeliverView ==
  ASSUME TypeOK, TypeOK', NEW d \in Devices, ViewOf(d), NEW e \in Devices, ViewOf(e),
         DeliverValue(d) \/ DeliverAck(d) \/ DeliverCommit(d)
  PROVE  ViewOf(e)'
<1>1. CASE e = d
  BY <1>1, ValueView, AckView, CommitView
<1>2. CASE e # d
  <2>1. /\ vote' = vote /\ Taps' = Taps /\ listening' = listening /\ record' = record
        /\ down'[e] = down[e] /\ synced'[e] = synced[e] /\ view'[e] = view[e]
    BY ZenonT(30), <1>2, SameTaps DEF DeliverValue, DeliverAck, DeliverCommit, dbVars, tapVars,
       TypeOK, LinkTypeOK
  <2>2. ASSUME NEW t \in Taps
        PROVE  vote[t].dev = d \/ stage'[t] = stage[t]
    <3>1. CASE DeliverValue(d)
      BY <3>1 DEF DeliverValue
    <3>2. CASE DeliverAck(d) \/ DeliverCommit(d)
      <4>1. PICK q \in Seq(DownMessages) : q = down[d] /\ q # << >>
        BY <3>2 DEF DeliverAck, DeliverCommit, TypeOK, LinkTypeOK
      <4>2. Head(q) = q[1] /\ 1 \in 1..Len(q)
        BY <4>1, TailFacts
      <4>3. Head(q).type = "reply"
        BY <3>2, <4>1 DEF DeliverAck, DeliverCommit
      <4>4. Head(q).tap \in Taps /\ vote[Head(q).tap].dev = d
        BY <4>1, <4>2, <4>3, AnswersKnown DEF ViewOf
      <4>5. stage'[t] = stage[t] \/ t = Head(q).tap
        BY <3>2, <4>1 DEF DeliverAck, DeliverCommit, TypeOK, TapTypeOK
      <4> QED
        BY <4>4, <4>5
    <3> QED
      BY <3>1, <3>2
  <2> QED
    BY <1>2, <2>1, <2>2, OtherView
<1> QED
  BY <1>1, <1>2

(* The server answers the listen on a record.                              *)
LEMMA ListenView ==
  ASSUME TypeOK, TypeOK', NEW d \in Devices, NEW p \in Posts, Listen(d, p),
         NEW e \in Devices, ViewOf(e)
  PROVE  ViewOf(e)'
<1>1. /\ vote' = vote /\ Taps' = Taps /\ stage' = stage
      /\ record' = record /\ synced' = synced /\ view' = view
      /\ listening' = [listening EXCEPT ![d][p] = TRUE]
      /\ down' = [down EXCEPT ![d] =
           Append(@, [type |-> "value", post |-> p, val |-> record[UserOf[d]][p]])]
  BY SameTaps DEF Listen, dbVars, tapVars
<1>2. /\ down \in [Devices -> Seq(DownMessages)]
      /\ listening \in [Devices -> [Posts -> BOOLEAN]]
      /\ record[UserOf[d]][p] \in Values
  BY DeviceAssumption DEF TypeOK, DbTypeOK, LinkTypeOK
<1>3. CASE e # d
  <2>1. down'[e] = down[e] /\ listening'[e] = listening[e]
    BY <1>1, <1>2, <1>3
  <2> QED
    BY <1>1, <1>3, <2>1, OtherView
<1>4. CASE e = d
  <2>1. PICK r \in Values : r = record[UserOf[d]][p]
    BY <1>2
  <2>2. down'[e] = Append(down[e], [type |-> "value", post |-> p, val |-> r])
    BY <1>1, <1>2, <1>4, <2>1
  <2>3. \A q \in Posts \ {p} : listening'[e][q] => listening[e][q]
    BY <1>1, <1>2, <1>4
  <2>4. Steady(e)
    BY <1>1 DEF Steady
  <2> QED
    BY <1>1, <1>4, <2>1, <2>2, <2>3, <2>4, ToldView
<1> QED
  BY <1>3, <1>4

(* The server refuses a write, or commits a transaction.                   *)
LEMMA RefuseCommitView ==
  ASSUME TypeOK, TypeOK', NEW d \in Devices, NEW t \in Taps,
         RefuseRecord(d, t) \/ CommitCount(d, t),
         NEW e \in Devices, ViewOf(e)
  PROVE  ViewOf(e)'
<1>1. PICK x \in {"stored", "refused", "counted"} :
        /\ x # "stored"
        /\ stage[t] = (IF x = "counted" THEN "count" ELSE "sent")
        /\ stage' = [stage EXCEPT ![t] = x]
  BY DEF RefuseRecord, CommitCount, FirstWrite
<1>2. /\ vote' = vote /\ Taps' = Taps /\ listening' = listening
      /\ record' = record /\ synced' = synced /\ view' = view
      /\ vote[t].dev = d
      /\ down' = [down EXCEPT ![d] = Append(@, [type |-> "reply", tap |-> t])]
  BY SameTaps DEF RefuseRecord, CommitCount, FirstWrite, dbVars, tapVars
<1>3. /\ stage \in [Taps -> Stages]
      /\ down \in [Devices -> Seq(DownMessages)]
  BY DEF TypeOK, TapTypeOK, LinkTypeOK
<1>4. stage'[t] = x /\ \A s \in Taps : s # t => stage'[s] = stage[s]
  BY <1>1, <1>3
<1>5. CASE e # d
  <2>1. down'[e] = down[e]
    BY <1>2, <1>3, <1>5
  <2>2. \A s \in Taps : vote[s].dev = d \/ stage'[s] = stage[s]
    BY <1>2, <1>4
  <2> QED
    BY <1>2, <1>5, <2>1, <2>2, OtherView
<1>6. CASE e = d
  <2>1. down'[d] = Append(down[d], [type |-> "reply", tap |-> t])
    BY <1>2, <1>3
  <2>2. stage[t] = (IF x = "counted" THEN "count" ELSE "sent")
    BY <1>1
  <2>3. \A p \in Posts : record'[UserOf[d]][p] =
          IF x = "stored" /\ p = vote[t].post THEN NewValue(vote[t])
                                              ELSE record[UserOf[d]][p]
    BY <1>1, <1>2
  <2> QED
    BY <1>2, <1>4, <1>6, <2>1, <2>2, <2>3, AnswerView
<1> QED
  BY <1>5, <1>6

(* A connection breaks, or an app dies.                                    *)
LEMMA DownView ==
  ASSUME TypeOK, TypeOK', NEW d \in Devices, Disconnect(d) \/ Kill(d),
         NEW e \in Devices, ViewOf(e)
  PROVE  ViewOf(e)'
<1>1. CASE e = d
  BY <1>1, DisconnectView, KillView
<1>2. CASE e # d
  <2>1. /\ vote' = vote /\ Taps' = Taps /\ record' = record
        /\ listening'[e] = listening[e]
        /\ down'[e] = down[e] /\ synced'[e] = synced[e] /\ view'[e] = view[e]
    BY <1>2, SameTaps DEF Disconnect, Kill, dbVars, tapVars, TypeOK, LinkTypeOK
  <2>2. \A t \in Taps : vote[t].dev = d \/ stage'[t] = stage[t]
    BY DEF Disconnect, Kill, AfterDrop
  <2> QED
    BY <1>2, <2>1, <2>2, OtherView
<1> QED
  BY <1>1, <1>2

-----------------------------------------------------------------------------
(* At the start no phone has been told anything.                           *)
LEMMA InitView == Init => ViewInv
BY DEF Init, ViewInv, ViewOf, AnswersRight, RightAnswers, Heard, Unhidden

(* Every step keeps what phones see, and are being told, right.            *)
LEMMA NextView ==
  ASSUME TypeOK, TypeOK', ViewInv, [Next]_vars
  PROVE  ViewInv'
<1> SUFFICES ASSUME NEW e \in Devices
             PROVE  ViewOf(e)'
  BY DEF ViewInv
<1>1. ViewOf(e)
  BY DEF ViewInv
<1>2. CASE UNCHANGED vars
  <2>1. UNCHANGED <<record, listening, down, synced, view, taps, vote, stage>>
    BY <1>2 DEF vars, dbVars, tapVars, linkVars
  <2> QED
    BY <1>1, <2>1, IdleView
<1>3. ASSUME NEW d \in Devices, NEW c \in Cells, NEW kind \in {1, -1}, Tap(d, c, kind)
      PROVE  ViewOf(e)'
  BY <1>1, <1>3, TapView
<1>4. ASSUME NEW d \in Devices, ReloadFeed(d) \/ Launch(d) \/ Connect(d)
      PROVE  ViewOf(e)'
  BY <1>1, <1>4, ScreenView
<1>5. ASSUME NEW d \in Devices, NEW p \in Posts, Listen(d, p)
      PROVE  ViewOf(e)'
  BY <1>1, <1>5, ListenView
<1>6. ASSUME NEW d \in Devices, NEW t \in Taps, StoreRecord(d, t)
      PROVE  ViewOf(e)'
  BY <1>1, <1>6, StoreView
<1>7. ASSUME NEW d \in Devices, NEW t \in Taps, CommitCount(d, t) \/ RefuseRecord(d, t)
      PROVE  ViewOf(e)'
  BY <1>1, <1>7, RefuseCommitView
<1>8. ASSUME NEW d \in Devices, DeliverValue(d) \/ DeliverAck(d) \/ DeliverCommit(d)
      PROVE  ViewOf(e)'
  BY <1>1, <1>8, DeliverView DEF ViewInv
<1>9. ASSUME NEW d \in Devices,
             MainThread(d) \/ \E t \in Taps : Cancel(d, t) \/ GiveUp(d, t) \/ Forget(d, t)
      PROVE  ViewOf(e)'
  BY <1>1, <1>9, MainThreadView
<1>10. ASSUME NEW d \in Devices, Disconnect(d) \/ Kill(d)
       PROVE  ViewOf(e)'
  BY <1>1, <1>10, DownView
<1> QED
  BY <1>2, <1>3, <1>4, <1>5, <1>6, <1>7, <1>8, <1>9, <1>10 DEF Next, Server, Client, Fault

(* In every state a client that listens to a record believes, once it has  *)
(* taken the messages of the server that are on their way, what is in the  *)
(* database, and shows its observers what it believes unless a write of    *)
(* its own is pending: an answer never overtakes the update it confirms,   *)
(* and a write whose answer was lost comes with its value again.           *)
THEOREM ViewFollowsRecord == Spec => []ViewInv
<1>1. Init => ViewInv
  BY InitView
<1>2. TypeOK /\ TypeOK' /\ ViewInv /\ [Next]_vars => ViewInv'
  BY NextView
<1> QED
  BY <1>1, <1>2, TypeCorrect, PTL DEF Spec

(* Whatever was tapped where, and whatever failed, the client of a settled *)
(* phone shows the record that is in the database.                         *)
THEOREM SettledViewHolds == Spec => []SettledViewIsRecord
<1>1. ViewInv => SettledViewIsRecord
  <2> SUFFICES ASSUME ViewInv, NEW d \in Devices, NEW p \in Posts, Settled(d, p)
               PROVE  view[d][p] = record[UserOf[d]][p]
    BY DEF SettledViewIsRecord
  <2>1. ViewOf(d)
    BY DEF ViewInv
  <2>2. Pending(d, p, stage) = {}
    BY DEF Settled, Pending, Open, Closed
  <2>3. view[d][p] = synced[d][p]
    BY <2>1, <2>2 DEF ViewOf, Unhidden
  <2>4. down[d] = << >> /\ listening[d][p]
    BY DEF Settled
  <2>5. synced[d][p] = record[UserOf[d]][p]
    BY <2>1, <2>4 DEF ViewOf, Heard, Hears
  <2> QED
    BY <2>3, <2>5
<1> QED
  BY <1>1, ViewFollowsRecord, PTL

-----------------------------------------------------------------------------
(* The order of votes: at the server, in the server's answers and in the   *)
(* queue of the main thread.                                               *)

(* The stages of a vote that waits for the main thread.                    *)
Queued == {"acked", "denied", "answered", "aborted"}

(* A vote on its way forward, in the order of the stages; one that failed  *)
(* or was lost has no place.                                               *)
Rank(x) ==
  CASE x = "sent" -> 0
    [] x = "stored" -> 1
    [] x = "refused" -> 1
    [] x = "acked" -> 2
    [] x = "count" -> 3
    [] x = "counted" -> 4
    [] x = "answered" -> 5
    [] x = "done" -> 6
    [] OTHER -> -1

(* Tap s came before tap t, on the same phone and the same post.           *)
Before(s, t, vt) == s < t /\ vt[s].dev = vt[t].dev /\ vt[s].post = vt[t].post

(* An earlier vote in stage x has not been overtaken by one in stage y.    *)
InTurn(x, y) ==
  /\ Rank(y) >= 0 /\ Rank(x) >= 0 => Rank(x) >= Rank(y)
  /\ y = "lost" => x \in {"done", "lost"}

(* Votes that have come equally far are answered in their order.           *)
Ordered(q, vt, st) ==
  \A i, j \in 1..Len(q) :
    /\ q[i].type = "reply" /\ q[j].type = "reply"
    /\ Before(q[i].tap, q[j].tap, vt)
    /\ Rank(st[q[i].tap]) = Rank(st[q[j].tap]) /\ Rank(st[q[i].tap]) >= 0
    => i < j

(* The queue q of phone d has an answer for every vote that waits for one  *)
(* in it, and answers them in their order.                                 *)
Orderly(q, d, W, vt, st) ==
  /\ RightAnswers(q, d, W, vt, st)
  /\ Ordered(q, vt, st)
  /\ \A t \in DOMAIN vt : vt[t].dev = d /\ st[t] \in W => ~Unanswered(q, t)

OrderInv ==
  /\ \A d \in Devices : /\ Orderly(down[d], d, Awaited, vote, stage)
                        /\ Orderly(mainq[d], d, Queued, vote, stage)
  /\ \A s, t \in Taps : Before(s, t, vote) => InTurn(stage[s], stage[t])

-----------------------------------------------------------------------------
(* Ranks.                                                                  *)

(* Which stages have which rank.                                           *)
LEMMA RankIs ==
  /\ Rank("sent") = 0 /\ Rank("stored") = 1 /\ Rank("refused") = 1
  /\ Rank("acked") = 2 /\ Rank("count") = 3 /\ Rank("counted") = 4
  /\ Rank("answered") = 5 /\ Rank("done") = 6
  /\ Rank("denied") = -1 /\ Rank("cancelled") = -1 /\ Rank("aborted") = -1
  /\ Rank("forgotten") = -1 /\ Rank("failed") = -1 /\ Rank("lost") = -1
BY DEF Rank

(* Stages of equal rank wait for the same kind of answer.                  *)
LEMMA RankTells ==
  ASSUME NEW x \in Stages, NEW y \in Stages
  PROVE  /\ Rank(x) \in -1..6
         /\ (Rank(x) = Rank(y) /\ Rank(x) >= 0) => (x \in Awaited <=> y \in Awaited)
         /\ (Rank(x) = Rank(y) /\ Rank(x) >= 0) => (x \in Queued <=> y \in Queued)
BY RankIs DEF Stages, Awaited, Queued

-----------------------------------------------------------------------------
(* Orderly queues.                                                         *)

(* A queue stays orderly while the votes that wait for it are the same.    *)
LEMMA OrderlySame ==
  ASSUME NEW S, NEW q \in Seq(S), NEW d, NEW W, NEW vt, NEW st, NEW vu, NEW su,
         Orderly(q, d, W, vt, st),
         DOMAIN vt \subseteq DOMAIN vu,
         \A t \in DOMAIN vt : vu[t] = vt[t],
         \A t \in DOMAIN vt : vt[t].dev = d /\ (st[t] \in W \/ su[t] \in W) => su[t] = st[t],
         \A t \in DOMAIN vu \ DOMAIN vt : vu[t].dev # d \/ su[t] \notin W
  PROVE  Orderly(q, d, W, vu, su)
<1>1. \A i \in 1..Len(q) : q[i].type = "reply" =>
        /\ q[i].tap \in DOMAIN vt
        /\ vu[q[i].tap] = vt[q[i].tap] /\ su[q[i].tap] = st[q[i].tap]
  BY DEF Orderly, RightAnswers
<1>2. RightAnswers(q, d, W, vu, su)
  BY <1>1 DEF Orderly, RightAnswers
<1>3. Ordered(q, vu, su)
  <2>1. \A i, j \in 1..Len(q) : q[i].type = "reply" /\ q[j].type = "reply" =>
          (Before(q[i].tap, q[j].tap, vu) <=> Before(q[i].tap, q[j].tap, vt))
    BY <1>1 DEF Before
  <2> QED
    BY <1>1, <2>1 DEF Orderly, Ordered
<1>4. \A t \in DOMAIN vu : vu[t].dev = d /\ su[t] \in W => ~Unanswered(q, t)
  BY DEF Orderly
<1> QED
  BY <1>2, <1>3, <1>4 DEF Orderly

(* A message that is no answer does not disturb a queue, at its end,       *)
LEMMA OrderlyNews ==
  ASSUME NEW S, NEW q \in Seq(S), NEW m \in S, NEW d, NEW W, NEW vt, NEW st,
         Orderly(q, d, W, vt, st), m.type # "reply",
         NEW a, a = Append(q, m)
  PROVE  Orderly(a, d, W, vt, st)
<1>0. PICK n \in Nat : n = Len(q)
  BY AppendFacts
<1>1. Len(a) = n + 1 /\ a[n + 1] = m /\ \A i \in 1..n : a[i] = q[i]
  BY <1>0, AppendFacts
<1>2. /\ \A i \in 1..(n + 1) : i = n + 1 \/ i \in 1..n
      /\ \A i \in 1..n : i \in 1..(n + 1)
  BY <1>0
<1>3. RightAnswers(a, d, W, vt, st)
  BY <1>0, <1>1, <1>2 DEF Orderly, RightAnswers
<1>4. Ordered(a, vt, st)
  BY <1>0, <1>1, <1>2 DEF Orderly, Ordered
<1>5. \A t : ~Unanswered(q, t) => ~Unanswered(a, t)
  BY <1>0, <1>1, <1>2 DEF Unanswered
<1> QED
  BY <1>3, <1>4, <1>5 DEF Orderly

(* or when it is taken.                                                    *)
LEMMA OrderlyDrop ==
  ASSUME NEW S, NEW q \in Seq(S), q # << >>, NEW d, NEW W, NEW vt, NEW st,
         Orderly(q, d, W, vt, st), Head(q).type # "reply",
         NEW a, a = Tail(q)
  PROVE  Orderly(a, d, W, vt, st)
<1>0. PICK n \in Nat : n = Len(a) /\ Len(q) = n + 1
  BY TailFacts
<1>1. Head(q) = q[1] /\ \A i \in 1..n : a[i] = q[i + 1]
  BY <1>0, TailFacts
<1>2. /\ \A i \in 1..n : i + 1 \in 1..(n + 1)
      /\ \A i, j \in 1..n : (i + 1 = j + 1 => i = j) /\ (i + 1 < j + 1 => i < j)
      /\ \A i \in 1..(n + 1) : i = 1 \/ (i - 1 \in 1..n /\ (i - 1) + 1 = i)
  OBVIOUS
<1>3. RightAnswers(a, d, W, vt, st)
  BY <1>0, <1>1, <1>2 DEF Orderly, RightAnswers
<1>4. Ordered(a, vt, st)
  BY <1>0, <1>1, <1>2 DEF Orderly, Ordered
<1>5. \A t : ~Unanswered(q, t) => ~Unanswered(a, t)
  BY <1>0, <1>1, <1>2 DEF Unanswered
<1> QED
  BY <1>3, <1>4, <1>5 DEF Orderly

(* Vote t of phone d begins to wait, and no later one of its rank does.    *)
Joins(t, d, W, vt, st, su) ==
  /\ t \in DOMAIN vt /\ vt[t].dev = d /\ ~(t < t)
  /\ st[t] \notin W /\ su[t] \in W
  /\ \A s \in DOMAIN vt : s # t => su[s] = st[s]
  /\ \A s \in DOMAIN vt : Before(t, s, vt) =>
       ~(Rank(su[t]) >= 0 /\ Rank(st[s]) = Rank(su[t]))

Answers(m, t) == m.type = "reply" /\ m.tap = t

(* The answer to a vote that begins to wait for it comes at the end, after *)
(* those to earlier ones.                                                  *)
LEMMA OrderlyGain ==
  ASSUME NEW S, NEW q \in Seq(S), NEW m \in S, NEW d, NEW W, NEW vt, NEW st, NEW su,
         Orderly(q, d, W, vt, st), NEW t, Joins(t, d, W, vt, st, su), Answers(m, t),
         NEW a, a = Append(q, m)
  PROVE  Orderly(a, d, W, vt, su)
<1> USE DEF Joins, Answers
<1>0. PICK n \in Nat : n = Len(q)
  BY AppendFacts
<1>1. Len(a) = n + 1 /\ a[n + 1] = m /\ \A i \in 1..n : a[i] = q[i]
  BY <1>0, AppendFacts
<1>2. /\ \A i \in 1..(n + 1) : i = n + 1 \/ i \in 1..n
      /\ \A i \in 1..n : i \in 1..(n + 1) /\ i < n + 1
      /\ n + 1 \in 1..(n + 1)
  BY <1>0
<1>3. \A i \in 1..n : q[i].type = "reply" =>
        /\ q[i].tap \in DOMAIN vt /\ q[i].tap # t
        /\ su[q[i].tap] = st[q[i].tap]
  BY <1>0 DEF Orderly, RightAnswers
<1>4. RightAnswers(a, d, W, vt, su)
  BY <1>0, <1>1, <1>2, <1>3 DEF Orderly, RightAnswers
<1>5. Ordered(a, vt, su)
  <2> SUFFICES ASSUME NEW i \in 1..(n + 1), NEW j \in 1..(n + 1),
                      a[i].type = "reply", a[j].type = "reply",
                      Before(a[i].tap, a[j].tap, vt),
                      Rank(su[a[i].tap]) = Rank(su[a[j].tap]), Rank(su[a[i].tap]) >= 0
               PROVE  i < j
    BY <1>1 DEF Ordered
  <2>1. CASE i \in 1..n /\ j \in 1..n
    BY <1>0, <1>1, <1>3, <2>1 DEF Orderly, Ordered
  <2>2. CASE i \in 1..n /\ j = n + 1
    BY <1>2, <2>2
  <2>3. CASE i = n + 1 /\ j \in 1..n
    <3>1. a[i].tap = t /\ a[j].tap \in DOMAIN vt /\ su[a[j].tap] = st[a[j].tap]
      BY <1>1, <1>3, <2>3
    <3>2. Before(t, a[j].tap, vt) /\ Rank(st[a[j].tap]) = Rank(su[t]) /\ Rank(su[t]) >= 0
      BY <3>1
    <3>3. FALSE
      BY <3>1, <3>2
    <3> QED
      BY <3>3
  <2>4. CASE i = n + 1 /\ j = n + 1
    BY <1>1, <2>4 DEF Before
  <2> QED
    BY <1>2, <2>1, <2>2, <2>3, <2>4
<1>6. \A s : ~Unanswered(q, s) => ~Unanswered(a, s)
  BY <1>0, <1>1, <1>2 DEF Unanswered
<1>7. ~Unanswered(a, t)
  BY <1>1, <1>2 DEF Unanswered
<1> QED
  BY <1>4, <1>5, <1>6, <1>7 DEF Orderly

(* The first answer is taken.                                              *)
LEMMA OrderlyLose ==
  ASSUME NEW S, NEW q \in Seq(S), q # << >>, NEW d, NEW W, NEW vt, NEW st, NEW su,
         Orderly(q, d, W, vt, st),
         NEW t, Head(q).type = "reply", Head(q).tap = t, su[t] \notin W,
         \A s \in DOMAIN vt : s # t => su[s] = st[s],
         NEW a, a = Tail(q)
  PROVE  Orderly(a, d, W, vt, su)
<1>0. PICK n \in Nat : n = Len(a) /\ Len(q) = n + 1
  BY TailFacts
<1>1. Head(q) = q[1] /\ \A i \in 1..n : a[i] = q[i + 1]
  BY <1>0, TailFacts
<1>2. /\ \A i \in 1..n : i + 1 \in 1..(n + 1) /\ i + 1 # 1
      /\ \A i, j \in 1..n : (i + 1 = j + 1 => i = j) /\ (i + 1 < j + 1 => i < j)
      /\ \A i \in 1..(n + 1) : i = 1 \/ (i - 1 \in 1..n /\ (i - 1) + 1 = i)
      /\ 1 \in 1..(n + 1)
  OBVIOUS
<1>3. \A i \in 1..n : a[i].type = "reply" =>
        /\ a[i].tap \in DOMAIN vt /\ a[i].tap # t
        /\ su[a[i].tap] = st[a[i].tap]
  BY <1>0, <1>1, <1>2 DEF Orderly, RightAnswers
<1>4. RightAnswers(a, d, W, vt, su)
  <2>1. RightAnswers(a, d, W, vt, st)
    BY <1>0, <1>1, <1>2 DEF Orderly, RightAnswers
  <2> QED
    BY <1>0, <1>3, <2>1 DEF RightAnswers
<1>5. Ordered(a, vt, su)
  <2>1. Ordered(a, vt, st)
    BY <1>0, <1>1, <1>2 DEF Orderly, Ordered
  <2> QED
    BY SMTT(30), <1>0, <1>3, <2>1 DEF Ordered
<1>6. ASSUME NEW s \in DOMAIN vt, vt[s].dev = d, su[s] \in W
      PROVE  ~Unanswered(a, s)
  <2>1. s # t /\ st[s] \in W
    BY <1>6
  <2>2. PICK i \in 1..(n + 1) : q[i].type = "reply" /\ q[i].tap = s
    BY <1>0, <1>6, <2>1 DEF Orderly, Unanswered
  <2>3. i # 1
    BY <1>1, <2>1, <2>2
  <2>4. i - 1 \in 1..n /\ (i - 1) + 1 = i
    BY <1>2, <2>3
  <2>5. a[i - 1] = q[i]
    BY <1>1, <2>4
  <2> QED
    BY <1>0, <2>2, <2>4, <2>5 DEF Unanswered
<1> QED
  BY <1>4, <1>5, <1>6 DEF Orderly

(* The first answer is to a vote that waits for it, and no earlier one     *)
(* that has come equally far waits, too.                                   *)
LEMMA OrderlyFirst ==
  ASSUME NEW S, NEW q \in Seq(S), q # << >>, NEW d, NEW W, NEW vt, NEW st,
         Orderly(q, d, W, vt, st),
         NEW t, Head(q).type = "reply", Head(q).tap = t,
         NEW s \in DOMAIN vt, Before(s, t, vt), st[s] \in W, Rank(st[t]) >= 0, s # t
  PROVE  Rank(st[s]) # Rank(st[t])
<1>1. Head(q) = q[1] /\ 1 \in 1..Len(q) /\ Len(q) \in Nat
  BY TailFacts
<1>2. t \in DOMAIN vt /\ vt[t].dev = d /\ vt[s].dev = d
  BY <1>1 DEF Orderly, RightAnswers, Before
<1>3. PICK i \in 1..Len(q) : q[i].type = "reply" /\ q[i].tap = s
  BY <1>2 DEF Orderly, Unanswered
<1>4. SUFFICES ASSUME Rank(st[s]) = Rank(st[t])
               PROVE  FALSE
  OBVIOUS
<1>5. i < 1
  BY <1>1, <1>3, <1>4 DEF Orderly, Ordered
<1> QED
  BY <1>1, <1>5

-----------------------------------------------------------------------------
(* Steps.                                                                  *)

OrderlyPhone(e) ==
  /\ Orderly(down[e], e, Awaited, vote, stage)
  /\ Orderly(mainq[e], e, Queued, vote, stage)

TurnsRight == \A s, t \in Taps : Before(s, t, vote) => InTurn(stage[s], stage[t])

(* A queue keeps its answers: it stays as it is, gets an event at its end, *)
(* or passes on a message that is no answer.                               *)
KeepsAnswers(q, a, M) ==
  \/ a = q
  \/ \E m \in M : m.type = "value" /\ a = Append(q, m)
  \/ q # << >> /\ Head(q).type # "reply" /\ a = Tail(q)

(* What the proofs need of the types.                                      *)
LEMMA OrderTypes ==
  ASSUME TypeOK
  PROVE  /\ vote \in [Taps -> Votes] /\ DOMAIN vote = Taps /\ stage \in [Taps -> Stages]
         /\ \A d \in Devices : /\ down[d] \in Seq(DownMessages)
                               /\ mainq[d] \in Seq(MainBlocks)
         /\ Taps \subseteq Nat
BY DEF TypeOK, TapTypeOK, LinkTypeOK, Taps

(* A queue that keeps its answers stays orderly.                           *)
LEMMA StaysOrderly ==
  ASSUME NEW M, NEW q \in Seq(M), NEW d, NEW W, NEW vt, NEW st,
         Orderly(q, d, W, vt, st), NEW a, KeepsAnswers(q, a, M)
  PROVE  Orderly(a, d, W, vt, st) /\ a \in Seq(M)
<1>1. CASE a = q
  BY <1>1
<1>2. ASSUME NEW m \in M, m.type = "value", a = Append(q, m)
      PROVE  Orderly(a, d, W, vt, st) /\ a \in Seq(M)
  <2>1. m.type # "reply"
    BY <1>2
  <2>2. Orderly(a, d, W, vt, st)
    BY <1>2, <2>1, OrderlyNews
  <2> QED
    BY <1>2, <2>2, AppendFacts
<1>3. ASSUME q # << >>, Head(q).type # "reply", a = Tail(q)
      PROVE  Orderly(a, d, W, vt, st) /\ a \in Seq(M)
  <2>1. Orderly(a, d, W, vt, st)
    BY <1>3, OrderlyDrop
  <2> QED
    BY <1>3, <2>1, TailFacts
<1> QED
  BY <1>1, <1>2, <1>3 DEF KeepsAnswers

(* What an event adds to the main thread's queue.                          *)
LEMMA EventKeepsAnswers ==
  ASSUME NEW q \in Seq(MainBlocks), NEW d, NEW p, NEW r \in Values
  PROVE  /\ KeepsAnswers(q, q \o Event(d, p, r), MainBlocks)
         /\ q \o Event(d, p, r) \in Seq(MainBlocks)
<1> DEFINE told == [c \in Cells |-> IF <<c, p>> \in observers[d] THEN r ELSE NoRecord]
           m == [type |-> "value", told |-> told]
<1>1. m \in MainBlocks /\ m.type = "value"
  <2>1. told \in [Cells -> Values]
    BY DEF Values, NoRecord
  <2> QED
    BY <2>1 DEF MainBlocks
<1>2. q \o << >> = q /\ q \o <<m>> = Append(q, m)
  BY <1>1
<1>3. Event(d, p, r) = << >> \/ Event(d, p, r) = <<m>>
  BY DEF Event
<1>4. q \o Event(d, p, r) = q \/ q \o Event(d, p, r) = Append(q, m)
  BY <1>2, <1>3
<1>5. KeepsAnswers(q, q \o Event(d, p, r), MainBlocks)
  BY <1>1, <1>4 DEF KeepsAnswers
<1>6. q \o Event(d, p, r) \in Seq(MainBlocks)
  BY ZenonT(30), <1>1, <1>4, AppendFacts
<1> QED
  BY <1>5, <1>6

(* A phone whose queues keep their answers, and whose waiting votes stay   *)
(* as they are.                                                            *)
LEMMA EventOrder ==
  ASSUME TypeOK, TypeOK', NEW e \in Devices, OrderlyPhone(e),
         Taps \subseteq Taps', \A t \in Taps : vote'[t] = vote[t],
         \A t \in Taps : /\ vote[t].dev = e
                         /\ \/ stage[t] \in Awaited \cup Queued
                            \/ stage'[t] \in Awaited \cup Queued
                         => stage'[t] = stage[t],
         \A t \in Taps' \ Taps : stage'[t] = "sent",
         KeepsAnswers(down[e], down'[e], DownMessages),
         KeepsAnswers(mainq[e], mainq'[e], MainBlocks)
  PROVE  OrderlyPhone(e)'
<1>1. /\ DOMAIN vote = Taps /\ DOMAIN vote' = Taps'
      /\ down[e] \in Seq(DownMessages) /\ mainq[e] \in Seq(MainBlocks)
  BY OrderTypes DEF TypeOK, TapTypeOK
<1>2. "sent" \notin Awaited /\ "sent" \notin Queued
  BY DEF Awaited, Queued
<1>3. Orderly(down[e], e, Awaited, vote', stage')
  <2>1. Orderly(down[e], e, Awaited, vote, stage)
    BY DEF OrderlyPhone
  <2> QED
    BY <1>1, <1>2, <2>1, OrderlySame
<1>4. Orderly(mainq[e], e, Queued, vote', stage')
  <2>1. Orderly(mainq[e], e, Queued, vote, stage)
    BY DEF OrderlyPhone
  <2> QED
    BY <1>1, <1>2, <2>1, OrderlySame
<1>5. Orderly(down'[e], e, Awaited, vote', stage')
  BY <1>1, <1>3, StaysOrderly
<1>6. Orderly(mainq'[e], e, Queued, vote', stage')
  BY <1>1, <1>4, StaysOrderly
<1> QED
  BY <1>5, <1>6 DEF OrderlyPhone

(* One vote advances by one stage, or fails.                               *)
LEMMA AdvanceTurns ==
  ASSUME TypeOK, TurnsRight, NEW t \in Taps, NEW x \in Stages,
         vote' = vote, Taps' = Taps,
         stage'[t] = x, \A s \in Taps : s # t => stage'[s] = stage[s],
         x # "lost", stage[t] \notin {"done", "lost"},
         \/ Rank(x) = -1
         \/ /\ Rank(x) = Rank(stage[t]) + 1 /\ Rank(stage[t]) >= 0
            /\ \A s \in Taps : Before(s, t, vote) => Rank(stage[s]) # Rank(stage[t])
  PROVE  TurnsRight'
<1>1. ASSUME NEW s \in Taps, Before(s, t, vote)
      PROVE  InTurn(stage[s], x)
  BY <1>1, RankTells, OrderTypes DEF TurnsRight, InTurn
<1>2. ASSUME NEW s \in Taps, Before(t, s, vote)
      PROVE  InTurn(x, stage[s])
  BY <1>2, RankTells, OrderTypes DEF TurnsRight, InTurn
<1>3. \A s \in Taps : ~Before(s, s, vote)
  BY OrderTypes DEF Before
<1>4. ASSUME NEW s \in Taps, NEW r \in Taps, Before(s, r, vote)
      PROVE  InTurn(stage'[s], stage'[r])
  <2>1. s # r
    BY <1>3, <1>4
  <2> QED
    BY <1>1, <1>2, <1>4, <2>1 DEF TurnsRight
<1> QED
  BY <1>4 DEF TurnsRight

(* A vote can advance to stage x: to the next rank, or to none.            *)
Advances(t, x) ==
  \/ Rank(x) = -1
  \/ Rank(x) = Rank(stage[t]) + 1 /\ Rank(stage[t]) >= 0

(* No later vote is where a vote advances to.                              *)
LEMMA LaterBehind ==
  ASSUME TypeOK, TurnsRight, NEW t \in Taps, NEW x \in Stages, Advances(t, x),
         NEW s \in Taps, Before(t, s, vote)
  PROVE  ~(Rank(x) >= 0 /\ Rank(stage[s]) = Rank(x))
BY RankTells, OrderTypes DEF TurnsRight, InTurn, Advances

(* A queue in which t waits neither before nor after.                      *)
LEMMA ApartOrder ==
  ASSUME TypeOK, NEW M, NEW q \in Seq(M), NEW d, NEW W, Orderly(q, d, W, vote, stage),
         NEW t \in Taps, stage[t] \notin W, stage'[t] \notin W,
         \A s \in Taps : s # t => stage'[s] = stage[s]
  PROVE  Orderly(q, d, W, vote, stage')
<1>1. DOMAIN vote = Taps
  BY OrderTypes
<1> QED
  BY <1>1, OrderlySame

(* A vote that advances to a stage of W joins those that wait there.       *)
LEMMA AdvanceJoins ==
  ASSUME TypeOK, TurnsRight, NEW d, NEW W,
         NEW t \in Taps, vote[t].dev = d, NEW x \in Stages, Advances(t, x),
         stage'[t] = x, \A s \in Taps : s # t => stage'[s] = stage[s],
         stage[t] \notin W, x \in W
  PROVE  Joins(t, d, W, vote, stage, stage')
<1>1. DOMAIN vote = Taps /\ ~(t < t)
  BY OrderTypes
<1>2. \A s \in DOMAIN vote : Before(t, s, vote) =>
        ~(Rank(stage'[t]) >= 0 /\ Rank(stage[s]) = Rank(stage'[t]))
  BY <1>1, LaterBehind
<1> QED
  BY <1>1, <1>2 DEF Joins

(* The answer to t is taken from a queue.                                  *)
LEMMA LoseOrder ==
  ASSUME TypeOK, NEW M, NEW q \in Seq(M), NEW d, NEW W,
         Orderly(q, d, W, vote, stage), q # << >>,
         NEW t, Head(q).type = "reply", Head(q).tap = t,
         stage'[t] \notin W, \A s \in Taps : s # t => stage'[s] = stage[s],
         NEW a, a = Tail(q)
  PROVE  Orderly(a, d, W, vote, stage')
<1>1. DOMAIN vote = Taps
  BY OrderTypes
<1> QED
  BY <1>1, OrderlyLose

(* The vote that is answered first has no equal before it.                 *)
LEMMA FirstInTurn ==
  ASSUME TypeOK, NEW M, NEW q \in Seq(M), NEW d, NEW W, W = Awaited \/ W = Queued,
         Orderly(q, d, W, vote, stage), q # << >>,
         NEW t, Head(q).type = "reply", Head(q).tap = t
  PROVE  /\ t \in Taps /\ vote[t].dev = d /\ stage[t] \in W
         /\ Rank(stage[t]) >= 0 =>
              \A s \in Taps : Before(s, t, vote) => Rank(stage[s]) # Rank(stage[t])
<1>1. DOMAIN vote = Taps /\ stage \in [Taps -> Stages]
  BY OrderTypes
<1>2. t \in Taps /\ vote[t].dev = d /\ stage[t] \in W
  <2>1. Head(q) = q[1] /\ 1 \in 1..Len(q)
    BY TailFacts
  <2> QED
    BY <1>1, <2>1 DEF Orderly, RightAnswers
<1>3. ASSUME Rank(stage[t]) >= 0, NEW s \in Taps, Before(s, t, vote),
             Rank(stage[s]) = Rank(stage[t])
      PROVE  FALSE
  <2>1. stage[s] \in W
    <3>1. stage[s] \in Stages /\ stage[t] \in Stages
      BY <1>1, <1>2
    <3>2. /\ (stage[s] \in Awaited <=> stage[t] \in Awaited)
          /\ (stage[s] \in Queued <=> stage[t] \in Queued)
      BY <1>3, <3>1, RankTells
    <3> QED
      BY <1>2, <3>2
  <2>2. s # t
    BY <1>2, <1>3, OrderTypes DEF Before
  <2>3. Rank(stage[s]) # Rank(stage[t])
    BY <1>1, <1>3, <2>1, <2>2, OrderlyFirst
  <2> QED
    BY <1>3, <2>3
<1> QED
  BY <1>2, <1>3

(* Steps in which no vote changes its stage.                               *)
LEMMA StillOrder ==
  ASSUME TypeOK, TypeOK', OrderInv, vote' = vote, Taps' = Taps, stage' = stage,
         \A e \in Devices : /\ KeepsAnswers(down[e], down'[e], DownMessages)
                            /\ KeepsAnswers(mainq[e], mainq'[e], MainBlocks)
  PROVE  OrderInv'
<1>1. ASSUME NEW e \in Devices
      PROVE  OrderlyPhone(e)'
  <2>1. OrderlyPhone(e)
    BY DEF OrderInv, OrderlyPhone
  <2> QED
    BY <2>1, EventOrder
<1> QED
  BY <1>1 DEF OrderInv, OrderlyPhone

(* A tap adds a vote that waits for nothing yet.                           *)
LEMMA TapOrder ==
  ASSUME TypeOK, TypeOK', OrderInv, NEW d \in Devices, NEW c \in Cells,
         NEW kind \in {1, -1}, Tap(d, c, kind)
  PROVE  OrderInv'
<1> DEFINE n == taps + 1
           w == NewVote(d, c, kind)
<1>1. /\ n \in Taps' /\ n \notin Taps /\ Taps' = Taps \cup {n}
      /\ \A t \in Taps : vote'[t] = vote[t] /\ stage'[t] = stage[t] /\ t < n
      /\ stage'[n] = "sent"
  <2>1. taps \in Nat /\ taps' = taps + 1
    BY DEF Tap, TypeOK, TapTypeOK
  <2>2. Taps' = 1..(taps + 1) /\ Taps = 1..taps
    BY <2>1 DEF Taps
  <2> QED
    BY <2>1, <2>2 DEF Tap
<1>2. /\ down' = down
      /\ mainq' = [mainq EXCEPT ![d] = @ \o Event(d, w.post, NewValue(w))]
  BY DEF Tap
<1>3. NewValue(w) \in Values
  BY DEF NewValue, NewVote, Values, TypeOK, ScreenTypeOK
<1>4. ASSUME NEW e \in Devices
      PROVE  OrderlyPhone(e)'
  <2>1. mainq \in [Devices -> Seq(MainBlocks)]
    BY DEF TypeOK, LinkTypeOK
  <2>2. KeepsAnswers(mainq[e], mainq'[e], MainBlocks)
    <3>1. CASE e = d
      BY <1>2, <1>3, <2>1, <3>1, EventKeepsAnswers
    <3>2. CASE e # d
      BY <1>2, <2>1, <3>2 DEF KeepsAnswers
    <3> QED
      BY <3>1, <3>2
  <2>3. KeepsAnswers(down[e], down'[e], DownMessages)
    BY <1>2 DEF KeepsAnswers
  <2>4. OrderlyPhone(e)
    BY DEF OrderInv, OrderlyPhone
  <2>5. Taps \subseteq Taps' /\ \A t \in Taps' \ Taps : stage'[t] = "sent"
    BY <1>1
  <2> QED
    BY <1>1, <2>2, <2>3, <2>4, <2>5, EventOrder
<1>5. ASSUME NEW s \in Taps', NEW t \in Taps', Before(s, t, vote')
      PROVE  InTurn(stage'[s], stage'[t])
  <2>1. Taps' \subseteq Nat /\ Taps \subseteq Nat /\ n \in Nat
    BY <1>1, OrderTypes DEF Taps, TypeOK, TapTypeOK
  <2>2. s \in Taps
    BY <1>1, <1>5, <2>1 DEF Before
  <2>3. CASE t \in Taps
    BY <1>1, <1>5, <2>2, <2>3 DEF OrderInv, Before
  <2>4. CASE t = n
    BY <1>1, <2>4, RankIs DEF InTurn
  <2> QED
    BY <1>1, <2>3, <2>4
<1> QED
  BY <1>4, <1>5 DEF OrderInv, OrderlyPhone

(* The server's answer is sent.                                            *)
LEMMA SendOrder ==
  ASSUME NEW t \in Taps, NEW y \in Seq(DownMessages), NEW d, NEW su,
         Orderly(y, d, Awaited, vote, stage), Joins(t, d, Awaited, vote, stage, su)
  PROVE  Orderly(Append(y, [type |-> "reply", tap |-> t]), d, Awaited, vote, su)
<1>1. PICK m \in DownMessages : m = [type |-> "reply", tap |-> t]
  BY DEF DownMessages
<1>2. Answers(m, t)
  BY <1>1 DEF Answers
<1>3. PICK a : a = Append(y, m)
  OBVIOUS
<1>4. Orderly(a, d, Awaited, vote, su)
  BY <1>2, <1>3, OrderlyGain
<1> QED
  BY <1>1, <1>3, <1>4

(* The server takes a write or a transaction and answers it.               *)
LEMMA ServeOrder ==
  ASSUME TypeOK, TypeOK', OrderInv, NEW d \in Devices, NEW t \in Taps, vote[t].dev = d,
         NEW x \in Awaited, stage[t] \in {"sent", "count"}, Rank(x) = Rank(stage[t]) + 1,
         \A s \in Taps : Before(s, t, vote) => Rank(stage[s]) # Rank(stage[t]),
         vote' = vote, Taps' = Taps, mainq' = mainq,
         stage'[t] = x, \A s \in Taps : s # t => stage'[s] = stage[s],
         down'[d] = Append(down[d], [type |-> "reply", tap |-> t]),
         \A e \in Devices : e # d => KeepsAnswers(down[e], down'[e], DownMessages)
  PROVE  OrderInv'
<1>1. /\ x \in Stages /\ Advances(t, x) /\ x # "lost"
      /\ stage[t] \notin Awaited /\ stage[t] \notin Queued /\ x \notin Queued
  BY RankIs DEF Awaited, Queued, Stages, Advances
<1>2. TurnsRight /\ \A e \in Devices : OrderlyPhone(e)
  BY DEF OrderInv, TurnsRight, OrderlyPhone
<1>3. TurnsRight'
  BY <1>1, <1>2, AdvanceTurns, RankIs DEF Advances
<1>4. OrderlyPhone(d)'
  <2>1. down[d] \in Seq(DownMessages) /\ mainq[d] \in Seq(MainBlocks)
    BY OrderTypes
  <2>4. Orderly(down[d], d, Awaited, vote, stage) /\ Orderly(mainq[d], d, Queued, vote, stage)
    BY <1>2 DEF OrderlyPhone
  <2>5. Orderly(down'[d], d, Awaited, vote, stage')
    <3>1. Joins(t, d, Awaited, vote, stage, stage')
      BY <1>1, <1>2, AdvanceJoins
    <3> QED
      BY <2>1, <2>4, <3>1, SendOrder
  <2>6. Orderly(mainq[d], d, Queued, vote, stage')
    BY <1>1, <2>1, <2>4, ApartOrder
  <2> QED
    BY <2>5, <2>6 DEF OrderlyPhone
<1>5. ASSUME NEW e \in Devices, e # d
      PROVE  OrderlyPhone(e)'
  <2>1. KeepsAnswers(mainq[e], mainq'[e], MainBlocks)
    BY DEF KeepsAnswers
  <2>2. \A s \in Taps : vote[s].dev = e => stage'[s] = stage[s]
    BY <1>5
  <2> QED
    BY <1>2, <1>5, <2>1, <2>2, EventOrder
<1> QED
  BY <1>3, <1>4, <1>5 DEF OrderInv, TurnsRight, OrderlyPhone

(* The completion of a vote is queued.                                     *)
LEMMA QueueOrder ==
  ASSUME NEW t \in Taps, NEW y \in Seq(MainBlocks), NEW d, NEW su,
         Orderly(y, d, Queued, vote, stage), Joins(t, d, Queued, vote, stage, su)
  PROVE  Orderly(Append(y, [type |-> "reply", tap |-> t]), d, Queued, vote, su)
<1>1. PICK m \in MainBlocks : m = [type |-> "reply", tap |-> t]
  BY DEF MainBlocks
<1>2. Answers(m, t)
  BY <1>1 DEF Answers
<1>3. PICK a : a = Append(y, m)
  OBVIOUS
<1>4. Orderly(a, d, Queued, vote, su)
  BY <1>2, <1>3, OrderlyGain
<1> QED
  BY <1>1, <1>3, <1>4

(* Phone d takes the first of the messages q, the answer to t, whose stage *)
(* becomes x, and queues its completion after the blocks y.                *)
Passes(d, q, t, x, y) ==
  /\ q = down[d] /\ q # << >> /\ Answers(Head(q), t)
  /\ Rank(x) = -1 \/ Rank(x) = Rank(stage[t]) + 1
  /\ stage'[t] = x /\ \A s \in Taps : s # t => stage'[s] = stage[s]
  /\ down'[d] = Tail(q) /\ KeepsAnswers(mainq[d], y, MainBlocks)
  /\ mainq'[d] = Append(y, [type |-> "reply", tap |-> t])
  /\ \A e \in Devices : e # d => down'[e] = down[e] /\ mainq'[e] = mainq[e]

(* The client takes an answer and queues the completion of its vote.       *)
LEMMA PassOrder ==
  ASSUME TypeOK, TypeOK', OrderInv, NEW d \in Devices, vote' = vote, Taps' = Taps,
         NEW q \in Seq(DownMessages), NEW t, NEW x \in Queued, NEW y \in Seq(MainBlocks),
         Passes(d, q, t, x, y)
  PROVE  OrderInv'
<1>0. /\ q = down[d] /\ q # << >> /\ Head(q).type = "reply" /\ Head(q).tap = t
      /\ Rank(x) = -1 \/ Rank(x) = Rank(stage[t]) + 1
      /\ stage'[t] = x
      /\ down'[d] = Tail(q) /\ KeepsAnswers(mainq[d], y, MainBlocks)
      /\ mainq'[d] = Append(y, [type |-> "reply", tap |-> t])
  BY DEF Passes, Answers
<1>a. \A s \in Taps : s # t => stage'[s] = stage[s]
  BY DEF Passes
<1>b. \A e \in Devices : e # d => down'[e] = down[e] /\ mainq'[e] = mainq[e]
  BY DEF Passes
<1> USE <1>0, <1>a, <1>b
<1>1. TurnsRight /\ \A e \in Devices : OrderlyPhone(e)
  BY DEF OrderInv, TurnsRight, OrderlyPhone
<1>2. /\ Orderly(q, d, Awaited, vote, stage) /\ Orderly(mainq[d], d, Queued, vote, stage)
      /\ mainq[d] \in Seq(MainBlocks)
  BY <1>1, OrderTypes DEF OrderlyPhone
<1>3. /\ t \in Taps /\ vote[t].dev = d /\ stage[t] \in Awaited
      /\ Rank(stage[t]) >= 0 =>
           \A s \in Taps : Before(s, t, vote) => Rank(stage[s]) # Rank(stage[t])
  BY SMTT(30), <1>2, FirstInTurn
<1>4. /\ x \in Stages /\ x # "lost" /\ x \notin Awaited /\ stage[t] \notin Queued
      /\ stage[t] \notin {"done", "lost"} /\ Rank(stage[t]) >= 0
  BY <1>3, RankIs DEF Awaited, Queued, Stages
<1>5. Advances(t, x)
  BY <1>4 DEF Advances
<1>6. TurnsRight'
  BY <1>1, <1>3, <1>4, AdvanceTurns
<1>7. OrderlyPhone(d)'
  <2>1. Orderly(down'[d], d, Awaited, vote, stage')
    <3>1. stage'[t] \notin Awaited
      BY <1>4
    <3> QED
      BY <1>2, <3>1, LoseOrder
  <2>4. Orderly(y, d, Queued, vote, stage)
    BY <1>2, StaysOrderly
  <2>5. Orderly(mainq'[d], d, Queued, vote, stage')
    <3>1. Joins(t, d, Queued, vote, stage, stage')
      BY <1>1, <1>3, <1>4, <1>5, AdvanceJoins
    <3> QED
      BY <1>3, <2>4, <3>1, QueueOrder
  <2> QED
    BY <2>1, <2>5 DEF OrderlyPhone
<1>8. ASSUME NEW e \in Devices, e # d
      PROVE  OrderlyPhone(e)'
  <2>1. /\ KeepsAnswers(mainq[e], mainq'[e], MainBlocks)
        /\ KeepsAnswers(down[e], down'[e], DownMessages)
    BY <1>8 DEF KeepsAnswers
  <2>2. \A s \in Taps : vote[s].dev = e => stage'[s] = stage[s]
    BY <1>3, <1>8
  <2> QED
    BY <1>1, <1>8, <2>1, <2>2, EventOrder
<1> QED
  BY <1>6, <1>7, <1>8 DEF OrderInv, TurnsRight, OrderlyPhone

(* A transaction that is given up or cancelled queues its completion.      *)
LEMMA FailOrder ==
  ASSUME TypeOK, TypeOK', OrderInv, NEW d \in Devices, NEW t \in Taps, vote[t].dev = d,
         stage[t] \in {"count", "cancelled"}, vote' = vote, Taps' = Taps, down' = down,
         stage'[t] = "aborted", \A s \in Taps : s # t => stage'[s] = stage[s],
         NEW y \in Seq(MainBlocks), KeepsAnswers(mainq[d], y, MainBlocks),
         mainq'[d] = Append(y, [type |-> "reply", tap |-> t]),
         \A e \in Devices : e # d => mainq'[e] = mainq[e]
  PROVE  OrderInv'
<1> DEFINE x == "aborted"
<1>1. /\ x \in Stages /\ Advances(t, x) /\ x # "lost" /\ Rank(x) = -1
      /\ stage[t] \notin Awaited /\ stage[t] \notin Queued
      /\ x \notin Awaited /\ x \in Queued /\ stage[t] \notin {"done", "lost"}
  BY RankIs DEF Awaited, Queued, Stages, Advances
<1>2. TurnsRight /\ \A e \in Devices : OrderlyPhone(e)
  BY DEF OrderInv, TurnsRight, OrderlyPhone
<1>3. TurnsRight'
  BY <1>1, <1>2, AdvanceTurns
<1>4. OrderlyPhone(d)'
  <2>1. down[d] \in Seq(DownMessages) /\ mainq[d] \in Seq(MainBlocks)
    BY OrderTypes
  <2>4. Orderly(down[d], d, Awaited, vote, stage) /\ Orderly(mainq[d], d, Queued, vote, stage)
    BY <1>2 DEF OrderlyPhone
  <2>7. Orderly(y, d, Queued, vote, stage)
    BY <2>1, <2>4, StaysOrderly
  <2>5. Orderly(mainq'[d], d, Queued, vote, stage')
    <3>1. Joins(t, d, Queued, vote, stage, stage')
      BY <1>1, <1>2, AdvanceJoins
    <3> QED
      BY <2>7, <3>1, QueueOrder
  <2>6. Orderly(down[d], d, Awaited, vote, stage')
    BY <1>1, <2>1, <2>4, ApartOrder
  <2> QED
    BY <2>5, <2>6 DEF OrderlyPhone
<1>5. ASSUME NEW e \in Devices, e # d
      PROVE  OrderlyPhone(e)'
  <2>1. /\ KeepsAnswers(mainq[e], mainq'[e], MainBlocks)
        /\ KeepsAnswers(down[e], down'[e], DownMessages)
    BY <1>5 DEF KeepsAnswers
  <2>2. \A s \in Taps : vote[s].dev = e => stage'[s] = stage[s]
    BY <1>5
  <2> QED
    BY <1>2, <1>5, <2>1, <2>2, EventOrder
<1> QED
  BY <1>3, <1>4, <1>5 DEF OrderInv, TurnsRight, OrderlyPhone

(* The main thread runs a completion.                                      *)
LEMMA MainOrder ==
  ASSUME TypeOK, TypeOK', OrderInv, NEW d \in Devices,
         NEW q \in Seq(MainBlocks), q = mainq[d], q # << >>,
         NEW t, Head(q).type = "reply", Head(q).tap = t,
         NEW x \in {"count", "done", "failed"},
         Rank(x) = -1 \/ (Rank(x) = Rank(stage[t]) + 1 /\ Rank(stage[t]) >= 0),
         vote' = vote, Taps' = Taps, down' = down,
         stage'[t] = x, \A s \in Taps : s # t => stage'[s] = stage[s],
         mainq'[d] = Tail(q), \A e \in Devices : e # d => mainq'[e] = mainq[e]
  PROVE  OrderInv'
<1>1. TurnsRight /\ \A e \in Devices : OrderlyPhone(e)
  BY DEF OrderInv, TurnsRight, OrderlyPhone
<1>2. /\ Orderly(q, d, Queued, vote, stage) /\ Orderly(down[d], d, Awaited, vote, stage)
      /\ down[d] \in Seq(DownMessages)
  BY <1>1, OrderTypes DEF OrderlyPhone
<1>3. /\ t \in Taps /\ vote[t].dev = d /\ stage[t] \in Queued
      /\ Rank(stage[t]) >= 0 =>
           \A s \in Taps : Before(s, t, vote) => Rank(stage[s]) # Rank(stage[t])
  BY <1>2, FirstInTurn
<1>4. /\ x \in Stages /\ x # "lost" /\ x \notin Queued /\ x \notin Awaited
      /\ stage[t] \notin Awaited /\ stage[t] \notin {"done", "lost"}
  BY <1>3, RankIs DEF Awaited, Queued, Stages
<1>5. TurnsRight'
  BY <1>1, <1>3, <1>4, AdvanceTurns
<1>6. OrderlyPhone(d)'
  <2>1. Orderly(mainq'[d], d, Queued, vote, stage')
    <3>1. stage'[t] \notin Queued
      BY <1>4
    <3> QED
      BY <1>2, <3>1, LoseOrder
  <2>2. Orderly(down[d], d, Awaited, vote, stage')
    <3>1. stage'[t] \notin Awaited
      BY <1>4
    <3> QED
      BY <1>2, <1>3, <1>4, <3>1, ApartOrder
  <2> QED
    BY <2>1, <2>2 DEF OrderlyPhone
<1>7. ASSUME NEW e \in Devices, e # d
      PROVE  OrderlyPhone(e)'
  <2>1. /\ KeepsAnswers(mainq[e], mainq'[e], MainBlocks)
        /\ KeepsAnswers(down[e], down'[e], DownMessages)
    BY <1>7 DEF KeepsAnswers
  <2>2. \A s \in Taps : vote[s].dev = e => stage'[s] = stage[s]
    BY <1>3, <1>7
  <2> QED
    BY <1>1, <1>7, <2>1, <2>2, EventOrder
<1> QED
  BY <1>5, <1>6, <1>7 DEF OrderInv, TurnsRight, OrderlyPhone

(* The empty queue is orderly for a phone none of whose votes waits.       *)
LEMMA OrderlyNone ==
  ASSUME NEW d, NEW W, NEW vt, NEW st,
         \A t \in DOMAIN vt : vt[t].dev = d => st[t] \notin W
  PROVE  Orderly(<< >>, d, W, vt, st)
BY DEF Orderly, RightAnswers, Ordered

(* What a lost connection and a killed app make of a stage.                *)
Dropped(x, v) ==
  IF x \in {"stored", "refused"} THEN v = "sent"
  ELSE IF x = "counted" THEN v = "cancelled"
  ELSE v = x \/ (x = "count" /\ v = "cancelled")

Killed(x, v) == v = IF x = "done" THEN "done" ELSE "lost"

(* Votes stay in turn when they are dropped or killed together.            *)
LEMMA DropTurns ==
  ASSUME NEW x \in Stages, NEW y \in Stages, InTurn(x, y), NEW v, NEW w,
         \/ Dropped(x, v) /\ Dropped(y, w)
         \/ Killed(x, v) /\ Killed(y, w)
  PROVE  InTurn(v, w)
<1>1. CASE Dropped(x, v) /\ Dropped(y, w)
  BY <1>1, RankIs DEF InTurn, Stages, Dropped
<1>2. CASE Killed(x, v) /\ Killed(y, w)
  <2>1. v \in {"done", "lost"} /\ w \in {"done", "lost"}
    BY <1>2 DEF Killed
  <2> QED
    BY <1>2, <2>1, RankIs DEF InTurn, Killed
<1> QED
  BY <1>1, <1>2

(* A lost connection forgets the server's answers, and the votes that      *)
(* waited for them start again or are cancelled.                           *)
LEMMA DisconnectOrder ==
  ASSUME TypeOK, TypeOK', OrderInv, NEW d \in Devices, Disconnect(d)
  PROVE  OrderInv'
<1> PICK kept : stage' = [t \in Taps |-> AfterDrop(d, kept, t)]
  BY DEF Disconnect
<1>1. /\ vote' = vote /\ Taps' = Taps /\ mainq' = mainq
      /\ down'[d] = << >> /\ \A e \in Devices : e # d => down'[e] = down[e]
      /\ DOMAIN vote = Taps /\ stage \in [Taps -> Stages]
  BY SameTaps, OrderTypes DEF Disconnect, TypeOK, LinkTypeOK
<1>2. /\ \A t \in Taps : vote[t].dev # d => stage'[t] = stage[t]
      /\ \A t \in Taps : vote[t].dev = d => Dropped(stage[t], stage'[t])
  BY DEF AfterDrop, Dropped
<1>3. \A e \in Devices : OrderlyPhone(e)
  BY DEF OrderInv, OrderlyPhone
<1>4. OrderlyPhone(d)'
  <2>1. Orderly(<< >>, d, Awaited, vote, stage')
    BY <1>1, <1>2, OrderlyNone DEF Awaited, Dropped
  <2>2. /\ mainq[d] \in Seq(MainBlocks)
        /\ Orderly(mainq[d], d, Queued, vote, stage)
    BY <1>3, OrderTypes DEF OrderlyPhone
  <2>3. \A t \in Taps : stage[t] \in Queued \/ stage'[t] \in Queued => stage'[t] = stage[t]
    BY <1>2 DEF Queued, Dropped
  <2>4. Orderly(mainq[d], d, Queued, vote, stage')
    BY <1>1, <2>2, <2>3, OrderlySame
  <2> QED
    BY <1>1, <2>1, <2>4 DEF OrderlyPhone
<1>5. ASSUME NEW e \in Devices, e # d
      PROVE  OrderlyPhone(e)'
  <2>1. /\ KeepsAnswers(mainq[e], mainq'[e], MainBlocks)
        /\ KeepsAnswers(down[e], down'[e], DownMessages)
    BY <1>1, <1>5 DEF KeepsAnswers
  <2>2. \A s \in Taps : vote[s].dev = e => stage'[s] = stage[s]
    BY <1>2, <1>5
  <2> QED
    BY <1>1, <1>3, <1>5, <2>1, <2>2, EventOrder
<1>6. ASSUME NEW s \in Taps, NEW t \in Taps, Before(s, t, vote)
      PROVE  InTurn(stage'[s], stage'[t])
  <2>1. InTurn(stage[s], stage[t]) /\ stage[s] \in Stages /\ stage[t] \in Stages
    BY <1>1, <1>6 DEF OrderInv
  <2>2. vote[s].dev = vote[t].dev
    BY <1>6 DEF Before
  <2>3. CASE vote[s].dev # d
    BY <1>2, <2>1, <2>2, <2>3
  <2>4. CASE vote[s].dev = d
    BY <1>2, <2>1, <2>2, <2>4, DropTurns
  <2> QED
    BY <2>3, <2>4
<1> QED
  BY <1>1, <1>4, <1>5, <1>6 DEF OrderInv, OrderlyPhone

(* A killed app forgets everything, and its votes are lost.                *)
LEMMA KillOrder ==
  ASSUME TypeOK, TypeOK', OrderInv, NEW d \in Devices, Kill(d)
  PROVE  OrderInv'
<1>1. /\ vote' = vote /\ Taps' = Taps /\ mainq'[d] = << >> /\ down'[d] = << >>
      /\ \A e \in Devices : e # d => down'[e] = down[e] /\ mainq'[e] = mainq[e]
      /\ DOMAIN vote = Taps /\ stage \in [Taps -> Stages]
  BY SameTaps, OrderTypes DEF Kill, TypeOK, LinkTypeOK
<1>2. /\ \A t \in Taps : vote[t].dev # d => stage'[t] = stage[t]
      /\ \A t \in Taps : vote[t].dev = d => Killed(stage[t], stage'[t])
  BY DEF Kill, Killed
<1>3. \A e \in Devices : OrderlyPhone(e)
  BY DEF OrderInv, OrderlyPhone
<1>4. OrderlyPhone(d)'
  <2>1. /\ Orderly(<< >>, d, Awaited, vote, stage')
        /\ Orderly(<< >>, d, Queued, vote, stage')
    BY <1>1, <1>2, OrderlyNone DEF Awaited, Queued, Killed
  <2> QED
    BY <1>1, <2>1 DEF OrderlyPhone
<1>5. ASSUME NEW e \in Devices, e # d
      PROVE  OrderlyPhone(e)'
  <2>1. /\ KeepsAnswers(mainq[e], mainq'[e], MainBlocks)
        /\ KeepsAnswers(down[e], down'[e], DownMessages)
    BY <1>1, <1>5 DEF KeepsAnswers
  <2>2. \A s \in Taps : vote[s].dev = e => stage'[s] = stage[s]
    BY <1>2, <1>5
  <2> QED
    BY <1>1, <1>3, <1>5, <2>1, <2>2, EventOrder
<1>6. ASSUME NEW s \in Taps, NEW t \in Taps, Before(s, t, vote)
      PROVE  InTurn(stage'[s], stage'[t])
  <2>1. InTurn(stage[s], stage[t]) /\ stage[s] \in Stages /\ stage[t] \in Stages
    BY <1>1, <1>6 DEF OrderInv
  <2>2. vote[s].dev = vote[t].dev
    BY <1>6 DEF Before
  <2>3. CASE vote[s].dev # d
    BY <1>2, <2>1, <2>2, <2>3
  <2>4. CASE vote[s].dev = d
    BY <1>2, <2>1, <2>2, <2>4, DropTurns
  <2> QED
    BY <2>3, <2>4
<1> QED
  BY <1>1, <1>4, <1>5, <1>6 DEF OrderInv, OrderlyPhone

(* Ranks that one stage has only.                                          *)
LEMMA RankOf ==
  ASSUME NEW x \in Stages
  PROVE  (Rank(x) = 0 => x = "sent") /\ (Rank(x) = 3 => x = "count")
BY RankIs DEF Stages

(* The server's steps.                                                     *)
LEMMA ServerOrder ==
  ASSUME TypeOK, TypeOK', OrderInv, NEW d \in Devices, NEW t \in Taps,
         StoreRecord(d, t) \/ RefuseRecord(d, t) \/ CommitCount(d, t)
  PROVE  OrderInv'
<1>1. UNCHANGED tapVars /\ mainq' = mainq /\ vote[t].dev = d
  BY DEF StoreRecord, RefuseRecord, CommitCount, FirstWrite
<1>2. vote' = vote /\ Taps' = Taps /\ stage \in [Taps -> Stages] /\ Taps \subseteq Nat
  BY <1>1, SameTaps, OrderTypes
<1>3. \A s \in Taps : Before(s, t, vote) =>
        /\ vote[s].dev = d /\ vote[s].post = vote[t].post
        /\ s \in 1..(t - 1)
  BY <1>1, <1>2 DEF Before, Taps
<1>4. down \in [Devices -> Seq(DownMessages)]
  BY DEF TypeOK, LinkTypeOK
<1>5. PICK x \in Awaited :
        /\ stage' = [stage EXCEPT ![t] = x]
        /\ stage[t] \in {"sent", "count"} /\ Rank(x) = Rank(stage[t]) + 1
  BY RankIs DEF StoreRecord, RefuseRecord, CommitCount, FirstWrite, Awaited
<1>6. \A s \in Taps : Before(s, t, vote) => Rank(stage[s]) # Rank(stage[t])
  <2>1. CASE StoreRecord(d, t) \/ RefuseRecord(d, t)
    BY <1>2, <1>3, <2>1, RankIs, RankOf DEF StoreRecord, RefuseRecord, FirstWrite
  <2>2. CASE CommitCount(d, t)
    BY <1>2, <1>3, <2>2, RankIs, RankOf DEF CommitCount
  <2> QED
    BY <2>1, <2>2
<1>7. stage'[t] = x /\ \A s \in Taps : s # t => stage'[s] = stage[s]
  BY <1>2, <1>5
<1>8. down'[d] = Append(down[d], [type |-> "reply", tap |-> t])
  BY <1>4 DEF StoreRecord, RefuseRecord, CommitCount
<1>9. ASSUME NEW e \in Devices, e # d
      PROVE  KeepsAnswers(down[e], down'[e], DownMessages)
  <2>1. CASE StoreRecord(d, t)
    <3> DEFINE m == [type |-> "value", post |-> vote[t].post, val |-> NewValue(vote[t])]
    <3>1. down'[e] = down[e] \/ down'[e] = Append(down[e], m)
      BY <1>9, <2>1 DEF StoreRecord
    <3>2. m \in DownMessages /\ m.type = "value"
      BY VoteEffect DEF DownMessages, TypeOK, TapTypeOK, Votes, Values
    <3> QED
      BY <3>1, <3>2 DEF KeepsAnswers
  <2>2. CASE RefuseRecord(d, t) \/ CommitCount(d, t)
    BY <1>4, <1>9, <2>2 DEF RefuseRecord, CommitCount, KeepsAnswers
  <2> QED
    BY <2>1, <2>2
<1> QED
  BY <1>1, <1>2, <1>5, <1>6, <1>7, <1>8, <1>9, ServeOrder

(* The client gives a transaction up, or tells that it was cancelled.      *)
LEMMA AbortOrder ==
  ASSUME TypeOK, TypeOK', OrderInv, NEW d \in Devices, NEW t \in Taps,
         GiveUp(d, t) \/ Cancel(d, t)
  PROVE  OrderInv'
<1>1. /\ UNCHANGED tapVars /\ down' = down /\ vote[t].dev = d
      /\ stage[t] \in {"count", "cancelled"}
      /\ stage' = [stage EXCEPT ![t] = "aborted"]
      /\ mainq' = [mainq EXCEPT ![d] = @ \o Reply(t)]
  BY DEF GiveUp, Cancel, linkVars
<1>2. /\ vote' = vote /\ Taps' = Taps /\ stage \in [Taps -> Stages]
      /\ mainq \in [Devices -> Seq(MainBlocks)]
  BY <1>1, SameTaps, OrderTypes DEF TypeOK, LinkTypeOK
<1>3. [type |-> "reply", tap |-> t] \in MainBlocks
  BY DEF MainBlocks
<1>4. mainq'[d] = Append(mainq[d], [type |-> "reply", tap |-> t])
  BY <1>1, <1>2, <1>3 DEF Reply
<1>5. /\ stage'[t] = "aborted" /\ \A s \in Taps : s # t => stage'[s] = stage[s]
      /\ KeepsAnswers(mainq[d], mainq[d], MainBlocks)
  BY <1>1, <1>2 DEF KeepsAnswers
<1>6. \A e \in Devices : e # d => mainq'[e] = mainq[e]
  BY <1>1, <1>2
<1> QED
  BY SMTT(30), <1>1, <1>2, <1>4, <1>5, <1>6, FailOrder

(* The client forgets a transaction, which has no place any more.          *)
LEMMA ForgetOrder ==
  ASSUME TypeOK, TypeOK', OrderInv, NEW d \in Devices, NEW t \in Taps, Forget(d, t)
  PROVE  OrderInv'
<1>1. /\ UNCHANGED tapVars /\ down' = down /\ mainq' = mainq
      /\ stage[t] \in {"count", "cancelled"}
      /\ stage' = [stage EXCEPT ![t] = "forgotten"]
  BY DEF Forget, linkVars
<1>2. /\ vote' = vote /\ Taps' = Taps /\ stage \in [Taps -> Stages]
      /\ DOMAIN vote = Taps
  BY <1>1, SameTaps, OrderTypes
<1>3. stage'[t] = "forgotten" /\ \A s \in Taps : s # t => stage'[s] = stage[s]
  BY <1>1, <1>2
<1>4. ASSUME NEW e \in Devices
      PROVE  Orderly(down'[e], e, Awaited, vote', stage')
  <2>1. down[e] \in Seq(DownMessages) /\ Orderly(down[e], e, Awaited, vote, stage)
    BY OrderTypes DEF OrderInv, TypeOK, LinkTypeOK
  <2>2. \A s \in Taps : stage[s] \in Awaited \/ stage'[s] \in Awaited => stage'[s] = stage[s]
    BY <1>1, <1>3 DEF Awaited
  <2>3. Orderly(down[e], e, Awaited, vote, stage')
    BY <1>2, <2>1, <2>2, OrderlySame
  <2> QED
    BY <1>1, <1>2, <2>3
<1>5. ASSUME NEW e \in Devices
      PROVE  Orderly(mainq'[e], e, Queued, vote', stage')
  <2>1. mainq[e] \in Seq(MainBlocks) /\ Orderly(mainq[e], e, Queued, vote, stage)
    BY OrderTypes DEF OrderInv, TypeOK, LinkTypeOK
  <2>2. \A s \in Taps : stage[s] \in Queued \/ stage'[s] \in Queued => stage'[s] = stage[s]
    BY <1>1, <1>3 DEF Queued
  <2>3. Orderly(mainq[e], e, Queued, vote, stage')
    BY <1>2, <2>1, <2>2, OrderlySame
  <2> QED
    BY <1>1, <1>2, <2>3
<1>6. ASSUME NEW r \in Taps, NEW s \in Taps, Before(r, s, vote)
      PROVE  InTurn(stage'[r], stage'[s])
  <2>1. InTurn(stage[r], stage[s]) /\ r # s
    BY <1>6 DEF OrderInv, Before, Taps, TypeOK, TapTypeOK
  <2>2. CASE r = t
    BY <1>1, <1>3, <2>1, <2>2, RankIs DEF InTurn
  <2>3. CASE s = t
    BY <1>3, <2>1, <2>3, RankIs DEF InTurn
  <2>4. CASE r # t /\ s # t
    BY <1>3, <2>1, <2>4
  <2> QED
    BY <2>2, <2>3, <2>4
<1> QED
  BY <1>2, <1>4, <1>5, <1>6 DEF OrderInv

(* The client takes an answer.                                             *)
LEMMA AnswerOrder ==
  ASSUME TypeOK, TypeOK', OrderInv, NEW d \in Devices, DeliverAck(d) \/ DeliverCommit(d)
  PROVE  OrderInv'
<1>1. /\ UNCHANGED tapVars /\ down[d] # << >> /\ Head(down[d]).type = "reply"
      /\ down' = [down EXCEPT ![d] = Tail(@)]
  BY DEF DeliverAck, DeliverCommit
<1>2. /\ vote' = vote /\ Taps' = Taps /\ stage \in [Taps -> Stages]
      /\ mainq \in [Devices -> Seq(MainBlocks)] /\ down \in [Devices -> Seq(DownMessages)]
      /\ vote \in [Taps -> Votes]
  BY <1>1, SameTaps, OrderTypes DEF TypeOK, LinkTypeOK
<1>3. PICK q \in Seq(DownMessages) : q = down[d]
  BY <1>2
<1>4. PICK t \in Taps : t = Head(q).tap
  <2>1. Head(q) \in DownMessages
    BY <1>1, <1>3, TailFacts
  <2> QED
    BY <1>1, <1>3, <2>1 DEF DownMessages
<1>5. [type |-> "reply", tap |-> t] \in MainBlocks
  BY DEF MainBlocks
<1>6. PICK x \in Queued :
        /\ Rank(x) = -1 \/ Rank(x) = Rank(stage[t]) + 1
        /\ stage'[t] = x
        /\ \A s \in Taps : s # t => stage'[s] = stage[s]
  <2>1. CASE DeliverAck(d)
    <3>1. /\ stage[t] \in {"stored", "refused"}
          /\ stage' = [stage EXCEPT ![t] = IF @ = "stored" THEN "acked" ELSE "denied"]
      BY <1>3, <1>4, <2>1 DEF DeliverAck
    <3>2. CASE stage[t] = "stored"
      BY <1>2, <3>1, <3>2, RankIs DEF Queued
    <3>3. CASE stage[t] = "refused"
      BY <1>2, <3>1, <3>3, RankIs DEF Queued
    <3> QED
      BY <3>1, <3>2, <3>3
  <2>2. CASE DeliverCommit(d)
    <3>1. stage[t] = "counted" /\ stage' = [stage EXCEPT ![t] = "answered"]
      BY <1>3, <1>4, <2>2 DEF DeliverCommit
    <3> QED
      BY <1>2, <3>1, RankIs DEF Queued
  <2> QED
    BY <2>1, <2>2
<1>7. PICK y \in Seq(MainBlocks) :
        /\ KeepsAnswers(mainq[d], y, MainBlocks)
        /\ mainq' = [mainq EXCEPT ![d] = y \o Reply(t)]
  <2>1. CASE DeliverAck(d)
    <3>1. PICK r : /\ r = IF Pending(d, vote[t].post, stage') = {} THEN AckedValue(d, t)
                          ELSE view[d][vote[t].post]
                   /\ mainq' = [mainq EXCEPT ![d] = @ \o Event(d, vote[t].post, r) \o Reply(t)]
      BY <1>3, <1>4, <2>1 DEF DeliverAck
    <3>2. r \in Values
      <4>1. /\ vote[t].post \in Posts /\ NewValue(vote[t]) \in Values
            /\ synced[d][vote[t].post] \in Values /\ view[d][vote[t].post] \in Values
        BY <1>2, VoteEffect DEF TypeOK, LinkTypeOK, Values, Votes
      <4> QED
        BY <3>1, <4>1 DEF AckedValue
    <3>3. PICK y : y = mainq[d] \o Event(d, vote[t].post, r)
      OBVIOUS
    <3>4. y \in Seq(MainBlocks) /\ KeepsAnswers(mainq[d], y, MainBlocks)
      BY <1>2, <3>2, <3>3, EventKeepsAnswers
    <3> QED
      BY <3>1, <3>3, <3>4
  <2>2. CASE DeliverCommit(d)
    BY <1>2, <1>3, <1>4, <2>2 DEF DeliverCommit, KeepsAnswers
  <2> QED
    BY <2>1, <2>2
<1>8. mainq'[d] = Append(y, [type |-> "reply", tap |-> t])
  BY <1>2, <1>5, <1>7 DEF Reply
<1>9. \A e \in Devices : e # d => down'[e] = down[e] /\ mainq'[e] = mainq[e]
  BY <1>1, <1>2, <1>7
<1>10. /\ down'[d] = Tail(q) /\ q # << >> /\ Answers(Head(q), t)
       /\ KeepsAnswers(mainq[d], y, MainBlocks)
  BY <1>1, <1>2, <1>3, <1>4, <1>7 DEF Answers
<1>11. Passes(d, q, t, x, y)
  BY <1>3, <1>6, <1>8, <1>9, <1>10 DEF Passes
<1> QED
  BY <1>2, <1>11, PassOrder

(* The main thread runs a completion.                                      *)
LEMMA CompletionOrder ==
  ASSUME TypeOK, TypeOK', OrderInv, NEW d \in Devices,
         MainStored(d) \/ MainCounted(d) \/ MainError(d)
  PROVE  OrderInv'
<1>1. /\ UNCHANGED tapVars /\ down' = down /\ mainq[d] # << >>
      /\ Head(mainq[d]).type = "reply" /\ mainq' = [mainq EXCEPT ![d] = Tail(@)]
  BY DEF MainStored, MainCounted, MainError, linkVars
<1>2. /\ vote' = vote /\ Taps' = Taps /\ stage \in [Taps -> Stages]
      /\ mainq \in [Devices -> Seq(MainBlocks)]
  BY <1>1, SameTaps, OrderTypes DEF TypeOK, LinkTypeOK
<1>3. PICK q \in Seq(MainBlocks) : q = mainq[d]
  BY <1>2
<1>4. PICK t \in Taps : t = Head(q).tap
  <2>1. Head(q) \in MainBlocks
    BY <1>1, <1>3, TailFacts
  <2> QED
    BY <1>1, <1>3, <2>1 DEF MainBlocks
<1>5. PICK x \in {"count", "done", "failed"} :
        /\ Rank(x) = -1 \/ (Rank(x) = Rank(stage[t]) + 1 /\ Rank(stage[t]) >= 0)
        /\ stage' = [stage EXCEPT ![t] = x]
  BY <1>3, <1>4, RankIs DEF MainStored, MainCounted, MainError
<1>6. stage'[t] = x /\ \A s \in Taps : s # t => stage'[s] = stage[s]
  BY <1>2, <1>5
<1>7. /\ q # << >> /\ Head(q).type = "reply" /\ Head(q).tap = t
      /\ mainq'[d] = Tail(q) /\ \A e \in Devices : e # d => mainq'[e] = mainq[e]
  BY <1>1, <1>2, <1>3, <1>4
<1> QED
  BY <1>1, <1>2, <1>3, <1>5, <1>6, <1>7, MainOrder

(* Steps that change no stage.                                             *)
LEMMA QuietOrder ==
  ASSUME TypeOK, TypeOK', OrderInv, NEW d \in Devices,
         \/ ReloadFeed(d) \/ Launch(d) \/ Connect(d) \/ DeliverValue(d) \/ MainValue(d)
         \/ \E p \in Posts : Listen(d, p)
  PROVE  OrderInv'
<1>1. UNCHANGED tapVars /\ stage' = stage
  BY DEF ReloadFeed, Launch, Connect, DeliverValue, MainValue, Listen
<1>2. vote' = vote /\ Taps' = Taps
  BY <1>1, SameTaps
<1>3. mainq \in [Devices -> Seq(MainBlocks)] /\ down \in [Devices -> Seq(DownMessages)]
  BY DEF TypeOK, LinkTypeOK
<1>4. ASSUME NEW e \in Devices
      PROVE  /\ KeepsAnswers(down[e], down'[e], DownMessages)
             /\ KeepsAnswers(mainq[e], mainq'[e], MainBlocks)
  <2>1. CASE ReloadFeed(d)
    <3> DEFINE heard(f) == [c \in Cells |->
                 LET p == RowsOf(f)[c]
                 IN IF p = Nowhere THEN NoRecord
                    ELSE IF view[d][p] = Unknown THEN NoRecord ELSE view[d][p]]
    <3>1. PICK f \in Layouts :
            mainq' = [mainq EXCEPT ![d] = Append(@, [type |-> "value", told |-> heard(f)])]
      BY <2>1 DEF ReloadFeed
    <3>2. down' = down
      BY <2>1 DEF ReloadFeed, linkVars
    <3>3. heard(f) \in [Cells -> Values]
      BY RowsType DEF TypeOK, LinkTypeOK, Values, NoRecord
    <3>4. PICK m \in MainBlocks : m = [type |-> "value", told |-> heard(f)]
      BY <3>3 DEF MainBlocks
    <3>5. mainq' = [mainq EXCEPT ![d] = Append(@, m)] /\ m.type = "value"
      BY <3>1, <3>4
    <3> HIDE DEF heard
    <3> QED
      BY <1>3, <3>2, <3>5 DEF KeepsAnswers
  <2>2. CASE Launch(d) \/ Connect(d)
    BY <2>2 DEF Launch, Connect, KeepsAnswers
  <2>3. CASE DeliverValue(d)
    <3> DEFINE p == Head(down[d]).post
               r == IF Pending(d, p, stage) = {} THEN Head(down[d]).val ELSE view[d][p]
    <3>1. /\ down[d] # << >> /\ Head(down[d]).type = "value"
          /\ down' = [down EXCEPT ![d] = Tail(@)]
          /\ mainq' = [mainq EXCEPT ![d] = @ \o Event(d, p, r)]
      BY <2>3 DEF DeliverValue
    <3>2. KeepsAnswers(down[e], down'[e], DownMessages)
      BY <1>3, <3>1 DEF KeepsAnswers
    <3>3. r \in Values
      <4>1. Head(down[d]) \in DownMessages
        BY <1>3, <3>1, TailFacts
      <4>2. p \in Posts /\ Head(down[d]).val \in Values
        BY <3>1, <4>1 DEF DownMessages
      <4> QED
        BY <4>2 DEF TypeOK, LinkTypeOK
    <3>4. KeepsAnswers(mainq[d], mainq'[d], MainBlocks)
      BY <1>3, <3>1, <3>3, EventKeepsAnswers
    <3>5. e # d => mainq'[e] = mainq[e]
      BY <1>3, <3>1
    <3> QED
      BY <3>2, <3>4, <3>5 DEF KeepsAnswers
  <2>4. CASE MainValue(d)
    <3>1. /\ mainq[d] # << >> /\ Head(mainq[d]).type = "value"
          /\ mainq' = [mainq EXCEPT ![d] = Tail(@)] /\ down' = down
      BY <2>4 DEF MainValue, linkVars
    <3> QED
      BY <1>3, <3>1 DEF KeepsAnswers
  <2>5. CASE \E p \in Posts : Listen(d, p)
    <3>1. PICK p \in Posts : Listen(d, p)
      BY <2>5
    <3>2. PICK m : m = [type |-> "value", post |-> p, val |-> record[UserOf[d]][p]]
      OBVIOUS
    <3>3. /\ down' = [down EXCEPT ![d] = Append(@, m)] /\ mainq' = mainq
          /\ m \in DownMessages /\ m.type = "value"
      BY <3>1, <3>2, DeviceAssumption DEF Listen, TypeOK, DbTypeOK, DownMessages
    <3> QED
      BY <1>3, <3>3 DEF KeepsAnswers
  <2> QED
    BY <2>1, <2>2, <2>3, <2>4, <2>5
<1> QED
  BY <1>1, <1>2, <1>4, StillOrder

-----------------------------------------------------------------------------
(* The order of the votes is an invariant.                                 *)

(* Every step keeps it.                                                    *)
LEMMA NextOrder == TypeOK /\ TypeOK' /\ OrderInv /\ [Next]_vars => OrderInv'
<1> SUFFICES ASSUME TypeOK, TypeOK', OrderInv, [Next]_vars
             PROVE  OrderInv'
  OBVIOUS
<1>1. CASE UNCHANGED vars
  <2>1. vote' = vote /\ Taps' = Taps /\ stage' = stage /\ down' = down /\ mainq' = mainq
    BY <1>1 DEF vars, tapVars, linkVars, Taps
  <2> QED
    BY <2>1, StillOrder DEF KeepsAnswers
<1>2. ASSUME NEW d \in Devices, NEW c \in Cells, NEW kind \in {1, -1}, Tap(d, c, kind)
      PROVE  OrderInv'
  BY <1>2, TapOrder
<1>3. ASSUME NEW d \in Devices, ReloadFeed(d) \/ Launch(d) \/ Connect(d)
      PROVE  OrderInv'
  BY <1>3, QuietOrder
<1>4. ASSUME NEW d \in Devices, Server(d)
      PROVE  OrderInv'
  BY <1>4, QuietOrder, ServerOrder DEF Server
<1>5. ASSUME NEW d \in Devices, Client(d)
      PROVE  OrderInv'
  BY <1>5, QuietOrder, AnswerOrder, AbortOrder DEF Client
<1>6. ASSUME NEW d \in Devices, MainThread(d)
      PROVE  OrderInv'
  BY <1>6, QuietOrder, CompletionOrder DEF MainThread
<1>7. ASSUME NEW d \in Devices, Fault(d)
      PROVE  OrderInv'
  BY <1>7, ServerOrder, AbortOrder, ForgetOrder, DisconnectOrder, KillOrder DEF Fault
<1> QED
  BY <1>1, <1>2, <1>3, <1>4, <1>5, <1>6, <1>7 DEF Next

(* In the initial state there are no votes.                                *)
LEMMA InitOrder == Init => OrderInv
<1> SUFFICES ASSUME Init PROVE OrderInv
  OBVIOUS
<1>1. Taps = {} /\ DOMAIN vote = {}
  BY InitType, OrderTypes DEF Init, Taps
<1>2. \A d \in Devices : down[d] = << >> /\ mainq[d] = << >>
  BY DEF Init
<1>3. \A d \in Devices : /\ Orderly(<< >>, d, Awaited, vote, stage)
                         /\ Orderly(<< >>, d, Queued, vote, stage)
  BY <1>1, OrderlyNone
<1> QED
  BY <1>1, <1>2, <1>3 DEF OrderInv

(* No vote of a phone overtakes an earlier one of the phone on the same    *)
(* post, wherever the votes are: at the server, in its answers, or waiting *)
(* for the main thread (setUpvotes, setDownvotes, restoreState).           *)
THEOREM VotesStayInOrder == Spec => []OrderInv
<1>1. Init => OrderInv
  BY InitOrder
<1>2. TypeOK /\ TypeOK' /\ OrderInv /\ [Next]_vars => OrderInv'
  BY NextOrder
<1> QED
  BY <1>1, <1>2, TypeCorrect, PTL DEF Spec

-----------------------------------------------------------------------------
(* The inductive invariant, on top of those about what phones hear and the *)
(* order of votes.                                                         *)

(* A client that knows of no vote: it was told nothing, or that there is   *)
(* none.                                                                   *)
Blank(x) == x \in {Unknown, NoRecord}

(* Who knows that the record of p is there is told nothing else: the       *)
(* client believes s, the messages q are on their way, the record is r.    *)
Grows(q, p, s, r, vt, st) ==
  /\ ~Blank(s) => r # NoRecord
  /\ \A i \in 1..Len(q) : Speaks(q[i], p, vt, st) =>
       /\ ~Blank(s) => Word(q[i], vt) # NoRecord
       /\ Word(q[i], vt) # NoRecord =>
            /\ r # NoRecord
            /\ \A j \in 1..Len(q) :
                 i < j /\ Speaks(q[j], p, vt, st) => Word(q[j], vt) # NoRecord

(* The messages q bring the value of p only to a phone that listens, l,    *)
(* and once to one that is alone with its account, a.                      *)
Brings(m, p) == m.type = "value" /\ m.post = p

Once(q, p, l, a) ==
  \A i \in 1..Len(q) : Brings(q[i], p) =>
    /\ l
    /\ a => \A j \in 1..Len(q) : Brings(q[j], p) => i = j

(* A record that is there is not taken away.                               *)
Steadfast(d, p) ==
  /\ Grows(down[d], p, synced[d][p], record[UserOf[d]][p], vote, stage)
  /\ Once(down[d], p, listening[d][p], Alone(d))

(* Stages in which the write of a vote has been stored, and those in which *)
(* its phone's observers see what was tapped.                              *)
Stored == {"stored", "acked", "count", "counted", "answered"}
Seen   == {"sent", "refused"} \cup Stored

Last(d, p, t) ==
  /\ t \in Taps /\ vote[t].dev = d /\ vote[t].post = p
  /\ \A s \in Taps : ~Before(t, s, vote)

(* The last vote of a phone that is alone with its account is what its     *)
(* observers see, from when it is tapped, and what its record is, from     *)
(* when it is stored.                                                      *)
LastVote(d, p) ==
  Alone(d) => \A t \in Taps : Last(d, p, t) =>
    /\ stage[t] \in Stored => record[UserOf[d]][p] = NewValue(vote[t])
    /\ stage[t] \in Seen => view[d][p] = NewValue(vote[t])

(* What cells display is observed, and so is what was tapped on them; an   *)
(* app that is not running shows nothing.                                  *)
Watched(d) ==
  /\ \A c \in Cells : row[d][c] # Nowhere => <<c, row[d][c]>> \in observers[d]
  /\ \A t \in Taps : vote[t].dev = d /\ Open(t) =>
       <<vote[t].cell, vote[t].post>> \in observers[d]
  /\ ~alive[d] =>
       /\ mainq[d] = << >> /\ observers[d] = {}
       /\ \A p \in Posts : view[d][p] = Unknown

(* Block b of the main thread tells cell c a thumb.                        *)
Tells(b, c, vt, st) ==
  \/ b.type = "value" /\ b.told[c] # NoRecord
  \/ b.type = "reply" /\ vt[b.tap].cell = c /\ st[b.tap] = "answered"

Told(b, c, vt) == AsThumb(IF b.type = "value" THEN b.told[c] ELSE NewValue(vt[b.tap]))

(* A cell that shows s, with the blocks q to come, is going to show r.     *)
Shows(q, c, s, r, vt, st) ==
  /\ (\A i \in 1..Len(q) : ~Tells(q[i], c, vt, st)) => s = r
  /\ \A i \in 1..Len(q) :
       /\ Tells(q[i], c, vt, st)
       /\ \A j \in 1..Len(q) : i < j => ~Tells(q[j], c, vt, st)
       => Told(q[i], c, vt) = r

(* Cell c of d was for p only, p was voted on through c only and by nobody *)
(* else, and no vote on c has failed.                                      *)
Faithful(d, c, p) ==
  /\ \A q \in Posts : <<c, q>> \in observers[d] => q = p
  /\ \A t \in Taps : vote[t].dev = d =>
       /\ vote[t].cell = c => stage[t] # "failed"
       /\ vote[t].post = p => vote[t].cell = c /\ Alone(d)

(* The votes of d on p have all been answered.                             *)
AllAnswered(d, p) ==
  \A t \in Taps : vote[t].dev = d /\ vote[t].post = p /\ Open(t) => stage[t] = "answered"

(* What such a cell has to show.                                           *)
Due(d, c, p) == IF <<c, p>> \in observers[d] THEN AsThumb(view[d][p]) ELSE 0

CellRight(d, c, p) ==
  Faithful(d, c, p) /\ AllAnswered(d, p) =>
    Shows(mainq[d], c, thumb[d][c], Due(d, c, p), vote, stage)

ScreenOf(d) ==
  /\ Watched(d)
  /\ \A p \in Posts : Steadfast(d, p) /\ LastVote(d, p)
  /\ \A c \in Cells, p \in Posts : CellRight(d, c, p)

ScreenInv == \A d \in Devices : ScreenOf(d)

-----------------------------------------------------------------------------
(* Records that are there.                                                 *)

(* A message that says what the record is now comes last.                  *)
LEMMA GrowsSpoken ==
  ASSUME NEW S, NEW q \in Seq(S), NEW m \in S, NEW p, NEW s, NEW x, NEW vt, NEW st,
         Grows(q, p, s, x, vt, st), Word(m, vt) = x,
         NEW a, a = Append(q, m)
  PROVE  Grows(a, p, s, x, vt, st)
<1>0. PICK n \in Nat : n = Len(q)
  BY AppendFacts
<1>1. Len(a) = n + 1 /\ a[n + 1] = m /\ \A i \in 1..n : a[i] = q[i]
  BY <1>0, AppendFacts
<1>2. /\ \A i \in 1..(n + 1) : i = n + 1 \/ i \in 1..n
      /\ \A i \in 1..(n + 1) : ~(n + 1 < i)
  BY <1>0
<1>3. ~Blank(s) => x # NoRecord
  BY DEF Grows
<1>4. ASSUME NEW i \in 1..(n + 1), Speaks(a[i], p, vt, st)
      PROVE  ~Blank(s) => Word(a[i], vt) # NoRecord
  BY <1>0, <1>1, <1>2, <1>3, <1>4 DEF Grows
<1>5. ASSUME NEW i \in 1..(n + 1), Speaks(a[i], p, vt, st), Word(a[i], vt) # NoRecord
      PROVE  x # NoRecord
  BY <1>0, <1>1, <1>2, <1>5 DEF Grows
<1>6. ASSUME NEW i \in 1..(n + 1), Speaks(a[i], p, vt, st), Word(a[i], vt) # NoRecord,
             NEW j \in 1..(n + 1), i < j, Speaks(a[j], p, vt, st)
      PROVE  Word(a[j], vt) # NoRecord
  <2>1. CASE j = n + 1
    BY <1>1, <1>5, <1>6, <2>1
  <2>2. CASE j \in 1..n
    <3>1. i \in 1..n
      BY <1>2, <1>6, <2>2
    <3> QED
      BY <1>0, <1>1, <1>6, <2>2, <3>1 DEF Grows
  <2> QED
    BY <1>2, <2>1, <2>2
<1> QED
  BY <1>1, <1>3, <1>4, <1>5, <1>6 DEF Grows

(* One that says nothing of the record changes nothing.                    *)
LEMMA GrowsSilent ==
  ASSUME NEW S, NEW q \in Seq(S), NEW m \in S, NEW p, NEW s, NEW r, NEW vt, NEW st,
         Grows(q, p, s, r, vt, st), ~Speaks(m, p, vt, st),
         NEW a, a = Append(q, m)
  PROVE  Grows(a, p, s, r, vt, st)
<1>0. PICK n \in Nat : n = Len(q)
  BY AppendFacts
<1>1. Len(a) = n + 1 /\ a[n + 1] = m /\ \A i \in 1..n : a[i] = q[i]
  BY <1>0, AppendFacts
<1>2. \A i \in 1..(n + 1) : i = n + 1 \/ i \in 1..n
  BY <1>0
<1> QED
  BY <1>0, <1>1, <1>2 DEF Grows

(* What the first message says is believed when it has been taken.         *)
LEMMA GrowsTail ==
  ASSUME NEW S, NEW q \in Seq(S), q # << >>, NEW p, NEW s, NEW r,
         NEW vt, NEW st, Grows(q, p, s, r, vt, st),
         NEW x, x = (IF Speaks(Head(q), p, vt, st) THEN Word(Head(q), vt) ELSE s),
         NEW a, a = Tail(q)
  PROVE  Grows(a, p, x, r, vt, st)
<1>0. PICK n \in Nat : n = Len(a) /\ Len(q) = n + 1
  BY TailFacts
<1>1. Head(q) = q[1] /\ \A i \in 1..n : a[i] = q[i + 1]
  BY <1>0, TailFacts
<1>2. /\ \A i \in 1..n : i + 1 \in 1..(n + 1) /\ 1 < i + 1
      /\ \A i, j \in 1..n : i < j => i + 1 < j + 1
      /\ 1 \in 1..(n + 1)
  OBVIOUS
<1>3. ~Blank(x) => r # NoRecord
  BY <1>0, <1>1, <1>2 DEF Grows, Blank
<1>4. ASSUME NEW i \in 1..n, Speaks(a[i], p, vt, st)
      PROVE  ~Blank(x) => Word(a[i], vt) # NoRecord
  BY <1>0, <1>1, <1>2, <1>4 DEF Grows, Blank
<1>5. ASSUME NEW i \in 1..n, Speaks(a[i], p, vt, st), Word(a[i], vt) # NoRecord
      PROVE  /\ r # NoRecord
             /\ \A j \in 1..n : i < j /\ Speaks(a[j], p, vt, st) => Word(a[j], vt) # NoRecord
  BY <1>0, <1>1, <1>2, <1>5 DEF Grows
<1> QED
  BY <1>0, <1>3, <1>4, <1>5 DEF Grows

(* The record may become another one that is there.                        *)
LEMMA GrowsSame ==
  ASSUME NEW S, NEW q \in Seq(S), NEW p, NEW s, NEW r, NEW x,
         NEW vt, NEW st, NEW vu, NEW su, Grows(q, p, s, r, vt, st),
         r # NoRecord => x # NoRecord,
         \A i \in 1..Len(q) : q[i].type = "reply" =>
           vu[q[i].tap] = vt[q[i].tap] /\ su[q[i].tap] = st[q[i].tap]
  PROVE  Grows(q, p, s, x, vu, su)
<1>1. \A i \in 1..Len(q) : Speaks(q[i], p, vu, su) <=> Speaks(q[i], p, vt, st)
  BY DEF Speaks
<1>2. ASSUME NEW i \in 1..Len(q), Speaks(q[i], p, vt, st)
      PROVE  Word(q[i], vu) = Word(q[i], vt)
  BY <1>2 DEF Speaks, Word
<1> QED
  BY <1>1, <1>2 DEF Grows

-----------------------------------------------------------------------------
(* Records that are told once.                                             *)

(* A message that does not bring the record.                               *)
LEMMA OnceOther ==
  ASSUME NEW S, NEW q \in Seq(S), NEW m \in S, NEW p, NEW l, NEW al, Once(q, p, l, al),
         ~Brings(m, p), NEW a, a = Append(q, m)
  PROVE  Once(a, p, l, al)
<1>0. PICK n \in Nat : n = Len(q)
  BY AppendFacts
<1>1. Len(a) = n + 1 /\ a[n + 1] = m /\ \A i \in 1..n : a[i] = q[i]
  BY <1>0, AppendFacts
<1>2. \A i \in 1..(n + 1) : i = n + 1 \/ i \in 1..n
  BY <1>0
<1> QED
  BY <1>0, <1>1, <1>2 DEF Once

(* The answer to a listen is the first that brings the record.             *)
LEMMA OnceFirst ==
  ASSUME NEW S, NEW q \in Seq(S), NEW m \in S, NEW p, NEW al, Once(q, p, FALSE, al),
         NEW a, a = Append(q, m)
  PROVE  Once(a, p, TRUE, al)
<1>0. PICK n \in Nat : n = Len(q)
  BY AppendFacts
<1>1. Len(a) = n + 1 /\ a[n + 1] = m /\ \A i \in 1..n : a[i] = q[i]
  BY <1>0, AppendFacts
<1>2. \A i \in 1..(n + 1) : i = n + 1 \/ i \in 1..n
  BY <1>0
<1>3. \A i \in 1..n : ~Brings(a[i], p)
  BY <1>0, <1>1 DEF Once
<1> QED
  BY <1>0, <1>1, <1>2, <1>3 DEF Once

(* One that is not alone may be told again.                                *)
LEMMA OnceMore ==
  ASSUME NEW q, NEW p, NEW l, l, NEW al, ~al
  PROVE  Once(q, p, l, al)
BY DEF Once

(* Taking a message.                                                       *)
LEMMA OnceTail ==
  ASSUME NEW S, NEW q \in Seq(S), q # << >>, NEW p, NEW l, NEW al, Once(q, p, l, al),
         NEW a, a = Tail(q)
  PROVE  Once(a, p, l, al)
<1>0. PICK n \in Nat : n = Len(a) /\ Len(q) = n + 1
  BY TailFacts
<1>1. \A i \in 1..n : a[i] = q[i + 1]
  BY <1>0, TailFacts
<1>2. /\ \A i \in 1..n : i + 1 \in 1..(n + 1)
      /\ \A i, j \in 1..n : i + 1 = j + 1 => i = j
  OBVIOUS
<1> QED
  BY <1>0, <1>1, <1>2 DEF Once

-----------------------------------------------------------------------------
(* What a cell is going to show.                                           *)

(* A block that tells the cell its thumb comes last.                       *)
LEMMA ShowsTold ==
  ASSUME NEW S, NEW q \in Seq(S), NEW b \in S, NEW c, NEW s, NEW r, NEW vt, NEW st,
         Tells(b, c, vt, st), Told(b, c, vt) = r, NEW a, a = Append(q, b)
  PROVE  Shows(a, c, s, r, vt, st)
<1>0. PICK n \in Nat : n = Len(q)
  BY AppendFacts
<1>1. Len(a) = n + 1 /\ a[n + 1] = b
  BY <1>0, AppendFacts
<1>2. n + 1 \in 1..Len(a) /\ \A i \in 1..Len(a) : i = n + 1 \/ i < n + 1
  BY <1>1
<1> QED
  BY <1>1, <1>2 DEF Shows

(* One that tells it nothing changes nothing.                              *)
LEMMA ShowsSilent ==
  ASSUME NEW S, NEW q \in Seq(S), NEW b \in S, NEW c, NEW s, NEW r, NEW vt, NEW st,
         ~Tells(b, c, vt, st), Shows(q, c, s, r, vt, st), NEW a, a = Append(q, b)
  PROVE  Shows(a, c, s, r, vt, st)
<1>0. PICK n \in Nat : n = Len(q)
  BY AppendFacts
<1>1. Len(a) = n + 1 /\ a[n + 1] = b /\ \A i \in 1..n : a[i] = q[i]
  BY <1>0, AppendFacts
<1>2. /\ \A i \in 1..Len(a) : i = n + 1 \/ i \in 1..n
      /\ \A i \in 1..n : i \in 1..Len(a)
  BY <1>1
<1>3. (\A i \in 1..Len(a) : ~Tells(a[i], c, vt, st)) => s = r
  BY <1>0, <1>1, <1>2 DEF Shows
<1>4. ASSUME NEW i \in 1..Len(a), Tells(a[i], c, vt, st),
             \A j \in 1..Len(a) : i < j => ~Tells(a[j], c, vt, st)
      PROVE  Told(a[i], c, vt) = r
  <2>1. i \in 1..n /\ a[i] = q[i]
    BY <1>1, <1>2, <1>4
  <2>2. \A j \in 1..n : i < j => ~Tells(q[j], c, vt, st)
    BY <1>1, <1>2, <1>4
  <2> QED
    BY <1>0, <1>1, <1>4, <2>1, <2>2 DEF Shows
<1> QED
  BY <1>3, <1>4 DEF Shows

(* What the first block tells is shown when it has run.                    *)
LEMMA ShowsTail ==
  ASSUME NEW S, NEW q \in Seq(S), q # << >>, NEW c, NEW s, NEW r,
         NEW vt, NEW st, Shows(q, c, s, r, vt, st),
         NEW x, x = (IF Tells(Head(q), c, vt, st) THEN Told(Head(q), c, vt) ELSE s),
         NEW a, a = Tail(q)
  PROVE  Shows(a, c, x, r, vt, st)
<1>0. PICK n \in Nat : n = Len(a) /\ Len(q) = n + 1
  BY TailFacts
<1>1. Head(q) = q[1] /\ \A i \in 1..n : a[i] = q[i + 1]
  BY <1>0, TailFacts
<1>2. /\ \A i \in 1..n : i + 1 \in 1..(n + 1) /\ i \in Int
      /\ \A j \in 1..(n + 1) : j = 1 \/ (j - 1 \in 1..n /\ j = (j - 1) + 1)
      /\ 1 \in 1..(n + 1)
  OBVIOUS
<1>3. ASSUME \A i \in 1..n : ~Tells(a[i], c, vt, st)
      PROVE  x = r
  <2>1. ASSUME NEW j \in 1..(n + 1), 1 < j
        PROVE  ~Tells(q[j], c, vt, st)
    <3>1. j - 1 \in 1..n /\ (j - 1) + 1 = j
      BY <2>1
    <3>2. a[j - 1] = q[j]
      BY <1>1, <3>1
    <3> QED
      BY <1>3, <3>1, <3>2
  <2>2. CASE Tells(q[1], c, vt, st)
    BY <1>0, <1>1, <1>2, <2>1, <2>2 DEF Shows
  <2>3. CASE ~Tells(q[1], c, vt, st)
    <3>1. \A j \in 1..(n + 1) : ~Tells(q[j], c, vt, st)
      BY <1>2, <2>1, <2>3
    <3> QED
      BY <1>0, <1>1, <2>3, <3>1 DEF Shows
  <2> QED
    BY <2>2, <2>3
<1>4. ASSUME NEW i \in 1..n, Tells(a[i], c, vt, st),
             \A j \in 1..n : i < j => ~Tells(a[j], c, vt, st)
      PROVE  Told(a[i], c, vt) = r
  <2>1. i + 1 \in 1..(n + 1) /\ a[i] = q[i + 1]
    BY <1>1, <1>2
  <2>2. ASSUME NEW j \in 1..(n + 1), i + 1 < j
        PROVE  ~Tells(q[j], c, vt, st)
    <3>1. j - 1 \in 1..n /\ i < j - 1 /\ (j - 1) + 1 = j
      BY <2>2
    <3>2. a[j - 1] = q[j]
      BY <1>1, <3>1
    <3> QED
      BY <1>4, <3>1, <3>2
  <2>3. PICK k \in 1..(n + 1) : k = i + 1
    BY <2>1
  <2>4. Tells(q[k], c, vt, st) /\ Told(a[i], c, vt) = Told(q[k], c, vt)
    BY <1>4, <2>1, <2>3
  <2>5. \A j \in 1..(n + 1) : k < j => ~Tells(q[j], c, vt, st)
    BY <2>2, <2>3
  <2>6. Told(q[k], c, vt) = r
    BY <1>0, <2>4, <2>5 DEF Shows
  <2> QED
    BY <2>4, <2>6
<1> QED
  BY <1>0, <1>3, <1>4 DEF Shows

(* Blocks tell what they told while their votes are as they were.          *)
LEMMA ShowsSame ==
  ASSUME NEW S, NEW q \in Seq(S), NEW c, NEW s, NEW r,
         NEW vt, NEW st, NEW vu, NEW su, Shows(q, c, s, r, vt, st),
         \A i \in 1..Len(q) : q[i].type = "reply" =>
           vu[q[i].tap] = vt[q[i].tap] /\ su[q[i].tap] = st[q[i].tap]
  PROVE  Shows(q, c, s, r, vu, su)
<1>1. \A i \in 1..Len(q) : Tells(q[i], c, vu, su) <=> Tells(q[i], c, vt, st)
  BY DEF Tells
<1>2. ASSUME NEW i \in 1..Len(q), Tells(q[i], c, vt, st)
      PROVE  Told(q[i], c, vu) = Told(q[i], c, vt)
  BY <1>2 DEF Tells, Told
<1> QED
  BY <1>1, <1>2 DEF Shows

-----------------------------------------------------------------------------
(* What steps may leave alone.                                             *)

(* The votes there were are there, as they were.                           *)
VotesKept == Taps \subseteq Taps' /\ \A t \in Taps : vote'[t] = vote[t]

(* Phone e does not vote.                                                  *)
NoVote(e) == \A t \in Taps' \ Taps : vote'[t].dev # e

(* No completion of a vote of e is queued or run.                          *)
Calm(e) ==
  \A t \in Taps : vote[t].dev = e =>
    /\ stage[t] \in Queued \cup Closed => stage'[t] = stage[t]
    /\ stage[t] \notin Queued \cup Closed => stage'[t] \notin Closed \cup {"answered"}

SameScreen(e) ==
  /\ row'[e] = row[e] /\ observers'[e] = observers[e] /\ thumb'[e] = thumb[e]
  /\ alive'[e] = alive[e] /\ view'[e] = view[e] /\ mainq'[e] = mainq[e]

(* What the proofs need of the types.                                      *)
LEMMA ScreenTypes ==
  ASSUME TypeOK
  PROVE  /\ vote \in [Taps -> Votes] /\ DOMAIN vote = Taps /\ stage \in [Taps -> Stages]
         /\ \A t \in Taps : /\ vote[t].dev \in Devices /\ vote[t].cell \in Cells
                            /\ vote[t].post \in Posts /\ NewValue(vote[t]) \in {-1, 0, 1}
         /\ \A d \in Devices : /\ down[d] \in Seq(DownMessages)
                               /\ mainq[d] \in Seq(MainBlocks)
                               /\ observers[d] \in SUBSET (Cells \X Posts)
<1>1. \A t \in Taps : vote[t] \in Votes
  BY DEF TypeOK, TapTypeOK
<1>2. \A t \in Taps : NewValue(vote[t]) \in {-1, 0, 1}
  BY <1>1, VoteEffect
<1> QED
  BY <1>1, <1>2 DEF TypeOK, TapTypeOK, LinkTypeOK, ScreenTypeOK, Votes

(* The completions that wait for the main thread.                          *)
LEMMA BlocksKnown ==
  ASSUME TypeOK, NEW e \in Devices, OrderlyPhone(e)
  PROVE  /\ mainq[e] \in Seq(MainBlocks)
         /\ \A i \in 1..Len(mainq[e]) : mainq[e][i].type = "reply" =>
              /\ mainq[e][i].tap \in Taps
              /\ vote[mainq[e][i].tap].dev = e
              /\ stage[mainq[e][i].tap] \in Queued
<1>1. mainq[e] \in Seq(MainBlocks) /\ DOMAIN vote = Taps
  BY ScreenTypes
<1>2. RightAnswers(mainq[e], e, Queued, vote, stage)
  BY DEF OrderlyPhone, Orderly
<1> QED
  BY <1>1, <1>2 DEF RightAnswers

(* Blocks tell what they told if their votes did not move.                 *)
LEMMA QueueTells ==
  ASSUME TypeOK, NEW e \in Devices, OrderlyPhone(e), VotesKept,
         \A t \in Taps : vote[t].dev = e /\ stage[t] \in Queued => stage'[t] = stage[t],
         NEW c, NEW s, NEW r, Shows(mainq[e], c, s, r, vote, stage)
  PROVE  Shows(mainq[e], c, s, r, vote', stage')
<1>1. PICK q \in Seq(MainBlocks) : q = mainq[e]
  BY BlocksKnown
<1>2. \A i \in 1..Len(q) : q[i].type = "reply" =>
        vote'[q[i].tap] = vote[q[i].tap] /\ stage'[q[i].tap] = stage[q[i].tap]
  BY <1>1, BlocksKnown DEF VotesKept
<1>3. Shows(q, c, s, r, vote', stage')
  BY <1>1, <1>2, ShowsSame
<1> QED
  BY <1>1, <1>3

(* A cell goes on to show the right thumb if it was to be right before,    *)
(* and what it is told makes up for what has changed.                      *)
LEMMA CellKept ==
  ASSUME NEW e \in Devices, NEW c \in Cells, NEW p \in Posts, CellRight(e, c, p), VotesKept,
         \A t \in Taps : vote[t].dev = e /\ stage[t] = "failed" => stage'[t] = "failed",
         observers[e] \subseteq observers'[e],
         Faithful(e, c, p)' /\ AllAnswered(e, p)' => AllAnswered(e, p),
         /\ Faithful(e, c, p)' /\ AllAnswered(e, p)'
         /\ Faithful(e, c, p) /\ AllAnswered(e, p)
         /\ Shows(mainq[e], c, thumb[e][c], Due(e, c, p), vote, stage)
         => Shows(mainq'[e], c, thumb'[e][c], Due(e, c, p)', vote', stage')
  PROVE  CellRight(e, c, p)'
<1>1. Faithful(e, c, p)' => Faithful(e, c, p)
  BY DEF Faithful, VotesKept
<1> QED
  BY <1>1 DEF CellRight

(* Steps that queue and run no completion.                                 *)
LEMMA CalmAnswered ==
  ASSUME TypeOK, NEW e \in Devices, NEW p \in Posts, VotesKept, Calm(e), AllAnswered(e, p)'
  PROVE  AllAnswered(e, p)
BY DEF AllAnswered, VotesKept, Calm, Open, Queued, Closed

(* A step that leaves the screen of e alone.                               *)
LEMMA CalmScreen ==
  ASSUME TypeOK, NEW e \in Devices, OrderlyPhone(e), VotesKept, NoVote(e), Calm(e),
         SameScreen(e), Watched(e), \A c \in Cells, p \in Posts : CellRight(e, c, p)
  PROVE  Watched(e)' /\ \A c \in Cells, p \in Posts : CellRight(e, c, p)'
<1>1. Watched(e)'
  <2>1. ASSUME NEW t \in Taps', vote'[t].dev = e, Open(t)'
        PROVE  <<vote'[t].cell, vote'[t].post>> \in observers'[e]
    <3>1. t \in Taps /\ vote'[t] = vote[t]
      BY <2>1 DEF NoVote, VotesKept
    <3>2. Open(t)
      BY <2>1, <3>1 DEF Calm, Open
    <3> QED
      BY <2>1, <3>1, <3>2 DEF Watched, SameScreen
  <2> QED
    BY <2>1 DEF Watched, SameScreen
<1>2. ASSUME NEW c \in Cells, NEW p \in Posts
      PROVE  CellRight(e, c, p)'
  <2>1. CellRight(e, c, p)
    OBVIOUS
  <2>2. \A t \in Taps : vote[t].dev = e =>
          /\ stage[t] \in Queued => stage'[t] = stage[t]
          /\ stage[t] = "failed" => stage'[t] = "failed"
    BY DEF Calm, Closed
  <2>3. Due(e, c, p)' = Due(e, c, p)
    BY DEF Due, SameScreen
  <2>4. Shows(mainq[e], c, thumb[e][c], Due(e, c, p), vote, stage)
        => Shows(mainq'[e], c, thumb'[e][c], Due(e, c, p)', vote', stage')
    BY <2>2, <2>3, QueueTells DEF SameScreen
  <2>5. AllAnswered(e, p)' => AllAnswered(e, p)
    BY CalmAnswered
  <2>6. observers[e] \subseteq observers'[e]
    BY DEF SameScreen
  <2> QED
    BY <2>1, <2>2, <2>4, <2>5, <2>6, CellKept
<1> QED
  BY <1>1, <1>2

(* A step that tells e nothing.                                            *)
LEMMA QuietSteadfast ==
  ASSUME TypeOK, NEW e \in Devices, NEW p \in Posts, AnswersRight(e), VotesKept,
         \A t \in Taps : vote[t].dev = e /\ stage[t] \in Awaited => stage'[t] = stage[t],
         down'[e] = down[e], synced'[e][p] = synced[e][p],
         listening[e][p] => listening'[e][p],
         record[UserOf[e]][p] # NoRecord => record'[UserOf[e]][p] # NoRecord,
         Steadfast(e, p)
  PROVE  Steadfast(e, p)'
<1>1. PICK q \in Seq(DownMessages) : q = down[e]
  BY ScreenTypes
<1>2. \A i \in 1..Len(q) : q[i].type = "reply" =>
        vote'[q[i].tap] = vote[q[i].tap] /\ stage'[q[i].tap] = stage[q[i].tap]
  BY <1>1, AnswersKnown DEF VotesKept, Awaited
<1>3. Grows(q, p, synced[e][p], record[UserOf[e]][p], vote, stage)
  BY <1>1 DEF Steadfast
<1>4. Grows(q, p, synced[e][p], record'[UserOf[e]][p], vote', stage')
  BY <1>2, <1>3, GrowsSame
<1>5. Once(q, p, listening'[e][p], Alone(e))
  BY <1>1 DEF Steadfast, Once
<1>6. Alone(e)' = Alone(e)
  BY DEF Alone
<1> QED
  BY <1>1, <1>4, <1>5, <1>6 DEF Steadfast

(* A step that changes neither what e sees nor its record, and no vote of  *)
(* e that was not tapped or stored before.                                 *)
LEMMA QuietLast ==
  ASSUME TypeOK, NEW e \in Devices, NEW p \in Posts, VotesKept, NoVote(e),
         \A t \in Taps : vote[t].dev = e =>
           /\ stage'[t] \in Stored => stage[t] \in Stored
           /\ stage'[t] \in Seen => stage[t] \in Seen,
         view'[e][p] = view[e][p],
         Alone(e) => record'[UserOf[e]][p] = record[UserOf[e]][p],
         LastVote(e, p)
  PROVE  LastVote(e, p)'
<1>1. SUFFICES ASSUME Alone(e), NEW t \in Taps', Last(e, p, t)'
               PROVE  /\ stage'[t] \in Stored => record'[UserOf[e]][p] = NewValue(vote'[t])
                      /\ stage'[t] \in Seen => view'[e][p] = NewValue(vote'[t])
  BY DEF LastVote, Alone
<1>2. t \in Taps /\ vote'[t] = vote[t] /\ vote[t].dev = e
  BY <1>1 DEF Last, NoVote, VotesKept
<1>3. Last(e, p, t)
  BY <1>1, <1>2 DEF Last, VotesKept, Before
<1> QED
  BY <1>1, <1>2, <1>3 DEF LastVote

-----------------------------------------------------------------------------
(* What the server says to a phone.                                        *)

(* What is on its way keeps its meaning if the votes that wait for an      *)
(* answer did not move.                                                    *)
LEMMA QueueGrows ==
  ASSUME TypeOK, NEW e \in Devices, NEW p \in Posts, AnswersRight(e), VotesKept,
         \A t \in Taps : vote[t].dev = e /\ stage[t] \in Awaited => stage'[t] = stage[t],
         NEW x, record[UserOf[e]][p] # NoRecord => x # NoRecord,
         Steadfast(e, p)
  PROVE  Grows(down[e], p, synced[e][p], x, vote', stage')
<1>1. PICK q \in Seq(DownMessages) : q = down[e]
  BY ScreenTypes
<1>2. \A i \in 1..Len(q) : q[i].type = "reply" =>
        vote'[q[i].tap] = vote[q[i].tap] /\ stage'[q[i].tap] = stage[q[i].tap]
  BY <1>1, AnswersKnown DEF VotesKept, Awaited
<1>3. Grows(q, p, synced[e][p], record[UserOf[e]][p], vote, stage)
  BY <1>1 DEF Steadfast
<1>4. Grows(q, p, synced[e][p], x, vote', stage')
  BY <1>2, <1>3, GrowsSame
<1> QED
  BY <1>1, <1>4

(* The value of a record is sent: the first to a phone that begins to      *)
(* listen, another one to a phone that is not alone.                       *)
LEMMA ToldSteadfast ==
  ASSUME TypeOK, NEW e \in Devices, NEW p \in Posts, NEW x \in Posts,
         AnswersRight(e), VotesKept,
         \A t \in Taps : vote[t].dev = e /\ stage[t] \in Awaited => stage'[t] = stage[t],
         NEW m \in DownMessages, Brings(m, p), m.val = record'[UserOf[e]][p],
         down'[e] = Append(down[e], m), synced'[e][x] = synced[e][x],
         listening \in [Devices -> [Posts -> BOOLEAN]],
         listening[e][x] => listening'[e][x], listening'[e][p] = TRUE,
         ~listening[e][p] \/ ~Alone(e),
         record[UserOf[e]][x] # NoRecord => record'[UserOf[e]][x] # NoRecord,
         Steadfast(e, x)
  PROVE  Steadfast(e, x)'
<1>1. PICK q \in Seq(DownMessages) : q = down[e]
  BY ScreenTypes
<1>2. PICK a : a = Append(q, m)
  OBVIOUS
<1>3. Grows(q, x, synced[e][x], record'[UserOf[e]][x], vote', stage')
  BY <1>1, QueueGrows
<1>4. Grows(a, x, synced[e][x], record'[UserOf[e]][x], vote', stage')
  <2>1. CASE x = p
    <3>1. Word(m, vote') = record'[UserOf[e]][x]
      BY <2>1 DEF Word, Brings
    <3> QED
      BY <1>2, <1>3, <3>1, GrowsSpoken
  <2>2. CASE x # p
    <3>1. ~Speaks(m, x, vote', stage')
      BY <2>2 DEF Speaks, Brings
    <3> QED
      BY <1>2, <1>3, <3>1, GrowsSilent
  <2> QED
    BY <2>1, <2>2
<1>5. Once(q, x, listening[e][x], Alone(e))
  BY <1>1 DEF Steadfast
<1>6. Once(a, x, listening'[e][x], Alone(e))
  <2>1. CASE x # p
    <3>1. ~Brings(m, x)
      BY <2>1 DEF Brings
    <3>2. Once(q, x, listening'[e][x], Alone(e))
      BY <1>5 DEF Once
    <3> QED
      BY <1>2, <3>1, <3>2, OnceOther
  <2>2. CASE x = p /\ ~listening[e][p]
    <3>1. listening[e][x] = FALSE /\ listening'[e][x] = TRUE
      BY <2>2
    <3> QED
      BY <1>2, <1>5, <3>1, OnceFirst
  <2>3. CASE x = p /\ ~Alone(e)
    BY <2>3, OnceMore
  <2> QED
    BY <2>1, <2>2, <2>3
<1>7. Alone(e)' = Alone(e)
  BY DEF Alone
<1> QED
  BY <1>1, <1>2, <1>4, <1>6, <1>7 DEF Steadfast

(* The server answers a vote of e, and what it stores it answers.          *)
LEMMA AnswerSteadfast ==
  ASSUME TypeOK, NEW e \in Devices, NEW p \in Posts, AnswersRight(e), VotesKept,
         NEW t \in Taps, vote[t].dev = e, stage[t] \notin Awaited,
         \A s \in Taps : s # t => stage'[s] = stage[s],
         down'[e] = Append(down[e], [type |-> "reply", tap |-> t]),
         synced'[e][p] = synced[e][p], listening'[e][p] = listening[e][p],
         record'[UserOf[e]][p] =
           IF stage'[t] = "stored" /\ vote[t].post = p THEN NewValue(vote[t])
                                                       ELSE record[UserOf[e]][p],
         Steadfast(e, p)
  PROVE  Steadfast(e, p)'
<1>1. PICK q \in Seq(DownMessages) : q = down[e]
  BY ScreenTypes
<1>2. PICK m \in DownMessages : m = [type |-> "reply", tap |-> t]
  BY DEF DownMessages
<1>3. PICK a : a = Append(q, m)
  OBVIOUS
<1>4. record[UserOf[e]][p] # NoRecord => record'[UserOf[e]][p] # NoRecord
  BY SMTT(30), ScreenTypes DEF NoRecord
<1>5. \A s \in Taps : vote[s].dev = e /\ stage[s] \in Awaited => stage'[s] = stage[s]
  OBVIOUS
<1>6. Grows(q, p, synced[e][p], record'[UserOf[e]][p], vote', stage')
  BY <1>1, <1>4, <1>5, QueueGrows
<1>7. Grows(a, p, synced[e][p], record'[UserOf[e]][p], vote', stage')
  <2>1. vote'[t] = vote[t]
    BY DEF VotesKept
  <2>2. CASE stage'[t] = "stored" /\ vote[t].post = p
    <3>1. Word(m, vote') = record'[UserOf[e]][p]
      BY <1>2, <2>1, <2>2 DEF Word
    <3> QED
      BY <1>3, <1>6, <3>1, GrowsSpoken
  <2>3. CASE ~(stage'[t] = "stored" /\ vote[t].post = p)
    <3>1. ~Speaks(m, p, vote', stage')
      BY <1>2, <2>1, <2>3 DEF Speaks
    <3> QED
      BY <1>3, <1>6, <3>1, GrowsSilent
  <2> QED
    BY <2>2, <2>3
<1>8. Once(a, p, listening'[e][p], Alone(e))
  <2>1. Once(q, p, listening'[e][p], Alone(e)) /\ ~Brings(m, p)
    BY <1>1, <1>2 DEF Steadfast, Brings
  <2> QED
    BY <1>3, <2>1, OnceOther
<1>9. Alone(e)' = Alone(e)
  BY DEF Alone
<1> QED
  BY <1>1, <1>2, <1>3, <1>7, <1>8, <1>9 DEF Steadfast

(* The server tells e nothing, or what another phone of its account did.   *)
Overheard(e) ==
  \/ down'[e] = down[e]
  \/ \E p \in Posts : \E m \in DownMessages :
       /\ Brings(m, p) /\ m.val = record'[UserOf[e]][p]
       /\ ~Alone(e) /\ listening[e][p]
       /\ down'[e] = Append(down[e], m)

(* A step of another phone.                                                *)
Apart(e) ==
  /\ VotesKept /\ NoVote(e) /\ SameScreen(e) /\ Overheard(e)
  /\ \A t \in Taps : vote[t].dev = e => stage'[t] = stage[t]
  /\ synced'[e] = synced[e] /\ listening'[e] = listening[e]
  /\ \A p \in Posts :
       /\ record[UserOf[e]][p] # NoRecord => record'[UserOf[e]][p] # NoRecord
       /\ Alone(e) => record'[UserOf[e]][p] = record[UserOf[e]][p]

LEMMA ApartScreen ==
  ASSUME TypeOK, NEW e \in Devices, OrderlyPhone(e), AnswersRight(e), ScreenOf(e), Apart(e)
  PROVE  ScreenOf(e)'
<1>1. VotesKept /\ NoVote(e) /\ SameScreen(e)
  BY DEF Apart
<1>2. Calm(e)
  BY DEF Apart, Calm, Queued, Closed
<1>3. Watched(e)' /\ \A c \in Cells, p \in Posts : CellRight(e, c, p)'
  BY <1>1, <1>2, CalmScreen DEF ScreenOf
<1>4. ASSUME NEW x \in Posts
      PROVE  Steadfast(e, x)'
  <2>1. /\ \A t \in Taps : vote[t].dev = e /\ stage[t] \in Awaited => stage'[t] = stage[t]
        /\ synced'[e][x] = synced[e][x]
        /\ listening[e][x] => listening'[e][x]
        /\ record[UserOf[e]][x] # NoRecord => record'[UserOf[e]][x] # NoRecord
        /\ Steadfast(e, x)
    BY DEF Apart, ScreenOf
  <2>2. CASE down'[e] = down[e]
    BY <1>1, <2>1, <2>2, QuietSteadfast
  <2>3. ASSUME NEW p \in Posts, NEW m \in DownMessages,
               Brings(m, p), m.val = record'[UserOf[e]][p],
               ~Alone(e), listening[e][p], down'[e] = Append(down[e], m)
        PROVE  Steadfast(e, x)'
    <3>1. listening'[e][p] = TRUE /\ listening \in [Devices -> [Posts -> BOOLEAN]]
      BY <2>3 DEF Apart, TypeOK, LinkTypeOK
    <3> QED
      BY <1>1, <2>1, <2>3, <3>1, ToldSteadfast
  <2> QED
    BY <2>2, <2>3 DEF Apart, Overheard
<1>5. ASSUME NEW p \in Posts
      PROVE  LastVote(e, p)'
  <2>1. /\ view'[e][p] = view[e][p] /\ LastVote(e, p)
        /\ Alone(e) => record'[UserOf[e]][p] = record[UserOf[e]][p]
    BY DEF Apart, SameScreen, ScreenOf
  <2>2. \A t \in Taps : vote[t].dev = e =>
          /\ stage'[t] \in Stored => stage[t] \in Stored
          /\ stage'[t] \in Seen => stage[t] \in Seen
    BY DEF Apart
  <2> QED
    BY <1>1, <2>1, <2>2, QuietLast
<1> QED
  BY <1>3, <1>4, <1>5 DEF ScreenOf

-----------------------------------------------------------------------------
(* Steps of another phone.                                                 *)

(* What a step of phone d cannot change, of phone e.                       *)
SamePhone(e) ==
  SameScreen(e) /\ synced'[e] = synced[e] /\ listening'[e] = listening[e]

(* The client, the connection and the server of d.                         *)
LEMMA LinkApart ==
  ASSUME TypeOK, NEW d \in Devices, NEW e \in Devices, e # d,
         \/ Connect(d) \/ \E p \in Posts : Listen(d, p)
         \/ DeliverValue(d) \/ DeliverAck(d) \/ DeliverCommit(d) \/ Disconnect(d)
         \/ \E t \in Taps : \/ StoreRecord(d, t) \/ RefuseRecord(d, t) \/ CommitCount(d, t)
                            \/ GiveUp(d, t) \/ Cancel(d, t) \/ Forget(d, t)
  PROVE  SamePhone(e)
<1>1. /\ listening \in [Devices -> [Posts -> BOOLEAN]]
      /\ synced \in [Devices -> [Posts -> Values]] /\ view \in [Devices -> [Posts -> Values]]
      /\ mainq \in [Devices -> Seq(MainBlocks)]
  BY DEF TypeOK, LinkTypeOK
<1>2. alive' = alive /\ UNCHANGED screenVars
  BY DEF Connect, Listen, DeliverValue, DeliverAck, DeliverCommit, Disconnect,
     StoreRecord, RefuseRecord, CommitCount, GiveUp, Cancel, Forget
<1>3. /\ listening'[e] = listening[e] /\ synced'[e] = synced[e]
      /\ view'[e] = view[e] /\ mainq'[e] = mainq[e]
  <2>1. CASE Connect(d)
    BY <2>1 DEF Connect
  <2>2. CASE \E p \in Posts : Listen(d, p)
    BY <1>1, <2>2 DEF Listen
  <2>3. CASE DeliverValue(d)
    BY <1>1, <2>3 DEF DeliverValue
  <2>4. CASE DeliverAck(d)
    BY <1>1, <2>4 DEF DeliverAck
  <2>5. CASE DeliverCommit(d)
    BY <1>1, <2>5 DEF DeliverCommit
  <2>6. CASE Disconnect(d)
    BY <1>1, <2>6 DEF Disconnect
  <2>7. CASE \E t \in Taps : StoreRecord(d, t) \/ RefuseRecord(d, t) \/ CommitCount(d, t)
    BY <2>7 DEF StoreRecord, RefuseRecord, CommitCount
  <2>8. CASE \E t \in Taps : GiveUp(d, t) \/ Cancel(d, t) \/ Forget(d, t)
    BY <1>1, <2>8 DEF GiveUp, Cancel, Forget, linkVars
  <2> QED
    BY <2>1, <2>2, <2>3, <2>4, <2>5, <2>6, <2>7, <2>8
<1> QED
  BY <1>2, <1>3 DEF SamePhone, SameScreen, screenVars

(* The main thread and the screen of d.                                    *)
LEMMA MainApart ==
  ASSUME TypeOK, NEW d \in Devices, NEW e \in Devices, e # d,
         \/ \E c \in Cells, kind \in {1, -1} : Tap(d, c, kind)
         \/ MainThread(d) \/ ReloadFeed(d) \/ Launch(d) \/ Kill(d)
  PROVE  SamePhone(e)
<1>1. /\ listening \in [Devices -> [Posts -> BOOLEAN]] /\ alive \in [Devices -> BOOLEAN]
      /\ synced \in [Devices -> [Posts -> Values]] /\ view \in [Devices -> [Posts -> Values]]
      /\ mainq \in [Devices -> Seq(MainBlocks)]
      /\ row \in [Devices -> [Cells -> Posts \cup {Nowhere}]]
      /\ observers \in [Devices -> SUBSET (Cells \X Posts)]
      /\ thumb \in [Devices -> [Cells -> {-1, 0, 1}]]
  BY DEF TypeOK, LinkTypeOK, ScreenTypeOK
<1>2. CASE \E c \in Cells, kind \in {1, -1} : Tap(d, c, kind)
  BY <1>1, <1>2 DEF Tap, SamePhone, SameScreen, screenVars
<1>3. CASE MainValue(d)
  BY <1>1, <1>3 DEF MainValue, SamePhone, SameScreen, linkVars
<1>4. CASE MainStored(d)
  BY <1>1, <1>4 DEF MainStored, SamePhone, SameScreen, linkVars, screenVars
<1>5. CASE MainCounted(d)
  BY <1>1, <1>5 DEF MainCounted, Complete, SamePhone, SameScreen, linkVars
<1>6. CASE MainError(d)
  BY <1>1, <1>6 DEF MainError, Complete, SamePhone, SameScreen, linkVars
<1>7. CASE ReloadFeed(d)
  BY <1>1, <1>7 DEF ReloadFeed, Fill, SamePhone, SameScreen, linkVars
<1>8. CASE Launch(d)
  BY <1>1, <1>8 DEF Launch, Fill, SamePhone, SameScreen
<1>9. CASE Kill(d)
  BY <1>1, <1>9 DEF Kill, SamePhone, SameScreen
<1> QED
  BY <1>2, <1>3, <1>4, <1>5, <1>6, <1>7, <1>8, <1>9 DEF MainThread

(* Steps of d that write no record and send nothing to e.                  *)
LEMMA SilentApart ==
  ASSUME NEW e \in Devices, SamePhone(e), VotesKept, NoVote(e),
         record' = record, down'[e] = down[e],
         \A t \in Taps : vote[t].dev = e => stage'[t] = stage[t]
  PROVE  Apart(e)
BY DEF Apart, SamePhone, Overheard

(* A step that moves one vote of d.                                        *)
LEMMA VoteApart ==
  ASSUME TypeOK, NEW d \in Devices, NEW e \in Devices, e # d, SamePhone(e),
         UNCHANGED tapVars, NEW t, t \in Taps => vote[t].dev = d,
         NEW x, stage' = [stage EXCEPT ![t] = x],
         record' = record, down'[e] = down[e]
  PROVE  Apart(e)
<1>1. Taps' = Taps /\ vote' = vote
  BY SameTaps
<1>2. VotesKept /\ NoVote(e)
  BY <1>1 DEF VotesKept, NoVote
<1>3. \A s \in Taps : vote[s].dev = e => stage'[s] = stage[s]
  BY ScreenTypes
<1> QED
  BY <1>2, <1>3, SilentApart

(* A step that moves no vote.                                              *)
LEMMA StillApart ==
  ASSUME NEW e \in Devices, SamePhone(e), UNCHANGED <<tapVars, stage, record>>,
         down'[e] = down[e]
  PROVE  Apart(e)
<1>1. Taps' = Taps /\ vote' = vote
  BY SameTaps
<1>2. VotesKept /\ NoVote(e)
  BY <1>1 DEF VotesKept, NoVote
<1> QED
  BY <1>2, SilentApart

(* The server stores a record of d, and tells the other phones of its      *)
(* account.                                                                *)
LEMMA StoreApart ==
  ASSUME TypeOK, NEW d \in Devices, NEW e \in Devices, e # d,
         NEW t \in Taps, StoreRecord(d, t)
  PROVE  Apart(e)
<1>1. SamePhone(e)
  BY LinkApart
<1>2. PICK p \in Posts : p = vote[t].post
  BY ScreenTypes
<1>3. PICK r \in {-1, 0, 1} : r = NewValue(vote[t])
  BY ScreenTypes
<1>4. /\ UNCHANGED tapVars /\ vote[t].dev = d
      /\ stage' = [stage EXCEPT ![t] = "stored"]
      /\ record' = [record EXCEPT ![UserOf[d]][p] = r]
  BY <1>2, <1>3 DEF StoreRecord, FirstWrite
<1>5. Taps' = Taps /\ vote' = vote
  BY <1>4, SameTaps
<1>6. VotesKept /\ NoVote(e)
  BY <1>5 DEF VotesKept, NoVote
<1>7. \A s \in Taps : vote[s].dev = e => stage'[s] = stage[s]
  BY <1>4, ScreenTypes
<1>8. record \in [Users -> [Posts -> Values]] /\ UserOf[d] \in Users /\ UserOf[e] \in Users
  BY DeviceAssumption DEF TypeOK, DbTypeOK
<1>9. \A x \in Posts : record'[UserOf[e]][x] =
        IF UserOf[e] = UserOf[d] /\ x = p THEN r ELSE record[UserOf[e]][x]
  BY <1>4, <1>8
<1>10. UserOf[e] = UserOf[d] => ~Alone(e)
  BY DEF Alone
<1>11. \A x \in Posts :
        /\ record[UserOf[e]][x] # NoRecord => record'[UserOf[e]][x] # NoRecord
        /\ Alone(e) => record'[UserOf[e]][x] = record[UserOf[e]][x]
  BY <1>9, <1>10 DEF NoRecord
<1>12. Overheard(e)
  <2>1. PICK m \in DownMessages : m = [type |-> "value", post |-> p, val |-> r]
    BY DEF DownMessages, Values
  <2>2. down'[e] = IF UserOf[e] = UserOf[d] /\ listening[e][p]
                   THEN Append(down[e], m) ELSE down[e]
    BY <1>2, <1>3, <2>1 DEF StoreRecord
  <2>3. CASE UserOf[e] = UserOf[d] /\ listening[e][p]
    <3>1. Brings(m, p) /\ m.val = record'[UserOf[e]][p]
      BY <1>9, <2>1, <2>3 DEF Brings
    <3> QED
      BY <1>10, <2>2, <2>3, <3>1 DEF Overheard
  <2>4. CASE ~(UserOf[e] = UserOf[d] /\ listening[e][p])
    BY <2>2, <2>4 DEF Overheard
  <2> QED
    BY <2>3, <2>4
<1> QED
  BY <1>1, <1>6, <1>7, <1>11, <1>12 DEF Apart, SamePhone

-----------------------------------------------------------------------------
(* Every step of another phone.                                            *)
LEMMA TapApart ==
  ASSUME TypeOK, NEW d \in Devices, NEW e \in Devices, e # d,
         NEW c \in Cells, NEW kind \in {1, -1}, Tap(d, c, kind)
  PROVE  Apart(e)
<1>1. SamePhone(e)
  BY MainApart
<1>2. /\ Taps' = Taps \cup {taps + 1} /\ taps + 1 \notin Taps
      /\ 1..(taps + 1) = Taps \cup {taps + 1}
  BY DEF Tap, Taps, TypeOK, TapTypeOK
<1>3. /\ \A t \in Taps : vote'[t] = vote[t] /\ stage'[t] = stage[t]
      /\ vote'[taps + 1].dev = d
  BY <1>2 DEF Tap, NewVote
<1>4. VotesKept /\ NoVote(e)
  BY <1>2, <1>3 DEF VotesKept, NoVote
<1>5. record' = record /\ down'[e] = down[e]
  BY DEF Tap, dbVars
<1> QED
  BY <1>1, <1>3, <1>4, <1>5, SilentApart

(* Disconnect and Kill move many votes of d.                               *)
LEMMA DropApart ==
  ASSUME TypeOK, NEW d \in Devices, NEW e \in Devices, e # d, Disconnect(d) \/ Kill(d)
  PROVE  Apart(e)
<1>1. SamePhone(e)
  BY LinkApart, MainApart
<1>2. UNCHANGED tapVars /\ record' = record
  BY DEF Disconnect, Kill, dbVars
<1>3. Taps' = Taps /\ vote' = vote
  BY <1>2, SameTaps
<1>4. VotesKept /\ NoVote(e)
  BY <1>3 DEF VotesKept, NoVote
<1>5. \A t \in Taps : vote[t].dev = e => stage'[t] = stage[t]
  BY DEF Disconnect, AfterDrop, Kill
<1>6. down'[e] = down[e]
  BY DEF Disconnect, Kill, TypeOK, LinkTypeOK
<1> QED
  BY <1>1, <1>2, <1>4, <1>5, <1>6, SilentApart

(* The heads of both queues of d are about votes of d.                     *)
LEMMA HeadsKnown ==
  ASSUME TypeOK, NEW d \in Devices, OrderlyPhone(d)
  PROVE  /\ down[d] # << >> /\ Head(down[d]).type = "reply" =>
              /\ Head(down[d]).tap \in Taps /\ vote[Head(down[d]).tap].dev = d
              /\ stage[Head(down[d]).tap] \in Awaited
         /\ mainq[d] # << >> /\ Head(mainq[d]).type = "reply" =>
              /\ Head(mainq[d]).tap \in Taps /\ vote[Head(mainq[d]).tap].dev = d
              /\ stage[Head(mainq[d]).tap] \in Queued
<1>1. DOMAIN vote = Taps /\ down[d] \in Seq(DownMessages) /\ mainq[d] \in Seq(MainBlocks)
  BY ScreenTypes
<1>2. /\ RightAnswers(down[d], d, Awaited, vote, stage)
      /\ RightAnswers(mainq[d], d, Queued, vote, stage)
  BY DEF OrderlyPhone, Orderly
<1>3. ASSUME down[d] # << >>, Head(down[d]).type = "reply"
      PROVE  /\ Head(down[d]).tap \in Taps /\ vote[Head(down[d]).tap].dev = d
             /\ stage[Head(down[d]).tap] \in Awaited
  <2>1. Head(down[d]) = down[d][1] /\ 1 \in 1..Len(down[d])
    BY <1>1, <1>3, TailFacts
  <2> QED
    BY <1>1, <1>2, <1>3, <2>1 DEF RightAnswers
<1>4. ASSUME mainq[d] # << >>, Head(mainq[d]).type = "reply"
      PROVE  /\ Head(mainq[d]).tap \in Taps /\ vote[Head(mainq[d]).tap].dev = d
             /\ stage[Head(mainq[d]).tap] \in Queued
  <2>1. Head(mainq[d]) = mainq[d][1] /\ 1 \in 1..Len(mainq[d])
    BY <1>1, <1>4, TailFacts
  <2> QED
    BY <1>1, <1>2, <1>4, <2>1 DEF RightAnswers
<1> QED
  BY <1>3, <1>4

LEMMA OthersApart ==
  ASSUME TypeOK, NEW d \in Devices, OrderlyPhone(d), NEW e \in Devices, e # d,
         \/ \E c \in Cells, kind \in {1, -1} : Tap(d, c, kind)
         \/ ReloadFeed(d) \/ Launch(d) \/ Connect(d)
         \/ Server(d) \/ Client(d) \/ MainThread(d) \/ Fault(d)
  PROVE  Apart(e)
<1>1. /\ down \in [Devices -> Seq(DownMessages)] /\ stage \in [Taps -> Stages]
  BY DEF TypeOK, LinkTypeOK, TapTypeOK
<1>2. CASE \E c \in Cells, kind \in {1, -1} : Tap(d, c, kind)
  BY <1>2, TapApart
<1>3. CASE \/ ReloadFeed(d) \/ Launch(d) \/ Connect(d) \/ DeliverValue(d) \/ MainValue(d)
           \/ \E p \in Posts : Listen(d, p)
  <2>1. SamePhone(e)
    BY <1>3, LinkApart, MainApart DEF MainThread
  <2>2. UNCHANGED <<tapVars, stage, record>>
    BY <1>3 DEF ReloadFeed, Launch, Connect, DeliverValue, MainValue, Listen, dbVars
  <2>3. down'[e] = down[e]
    <3>1. CASE \/ DeliverValue(d) \/ \E p \in Posts : Listen(d, p)
      BY <1>1, <3>1 DEF DeliverValue, Listen
    <3>2. CASE ReloadFeed(d) \/ Launch(d) \/ Connect(d) \/ MainValue(d)
      BY <3>2 DEF ReloadFeed, Launch, Connect, MainValue, linkVars
    <3> QED
      BY <1>3, <3>1, <3>2
  <2> QED
    BY <2>1, <2>2, <2>3, StillApart
<1>4. ASSUME NEW t \in Taps, StoreRecord(d, t)
      PROVE  Apart(e)
  BY <1>4, StoreApart
<1>5. ASSUME NEW t \in Taps,
             \/ RefuseRecord(d, t) \/ CommitCount(d, t)
             \/ GiveUp(d, t) \/ Cancel(d, t) \/ Forget(d, t)
      PROVE  Apart(e)
  <2>1. SamePhone(e)
    BY <1>5, LinkApart
  <2>2. PICK x : stage' = [stage EXCEPT ![t] = x]
    BY <1>5 DEF RefuseRecord, CommitCount, GiveUp, Cancel, Forget
  <2>3. UNCHANGED tapVars /\ vote[t].dev = d /\ record' = record
    BY <1>5 DEF RefuseRecord, CommitCount, GiveUp, Cancel, Forget, FirstWrite, dbVars
  <2>4. down'[e] = down[e]
    BY <1>1, <1>5 DEF RefuseRecord, CommitCount, GiveUp, Cancel, Forget, linkVars
  <2> QED
    BY <2>1, <2>2, <2>3, <2>4, VoteApart
<1>6. CASE DeliverAck(d) \/ DeliverCommit(d)
  <2>1. SamePhone(e)
    BY <1>6, LinkApart
  <2>2. PICK t : t = Head(down[d]).tap
    OBVIOUS
  <2>3. vote[t].dev = d
    BY <1>6, <2>2, HeadsKnown DEF DeliverAck, DeliverCommit
  <2>4. PICK x : stage' = [stage EXCEPT ![t] = x]
    BY <1>6, <2>2 DEF DeliverAck, DeliverCommit
  <2>5. UNCHANGED tapVars /\ record' = record
    BY <1>6 DEF DeliverAck, DeliverCommit, dbVars
  <2>6. down'[e] = down[e]
    BY <1>1, <1>6 DEF DeliverAck, DeliverCommit
  <2> QED
    BY <2>1, <2>3, <2>4, <2>5, <2>6, VoteApart
<1>7. CASE MainStored(d) \/ MainCounted(d) \/ MainError(d)
  <2>1. SamePhone(e)
    BY <1>7, MainApart DEF MainThread
  <2>2. PICK t : t = Head(mainq[d]).tap
    OBVIOUS
  <2>3. vote[t].dev = d
    BY <1>7, <2>2, HeadsKnown DEF MainStored, MainCounted, MainError
  <2>4. PICK x : stage' = [stage EXCEPT ![t] = x]
    BY <1>7, <2>2 DEF MainStored, MainCounted, MainError
  <2>5. UNCHANGED tapVars /\ record' = record /\ down'[e] = down[e]
    BY <1>7 DEF MainStored, MainCounted, MainError, dbVars, linkVars
  <2> QED
    BY <2>1, <2>3, <2>4, <2>5, VoteApart
<1>8. CASE Disconnect(d) \/ Kill(d)
  BY <1>8, DropApart
<1> QED
  BY <1>2, <1>3, <1>4, <1>5, <1>6, <1>7, <1>8 DEF Server, Client, MainThread, Fault

-----------------------------------------------------------------------------
(* Steps of the server and the connection of a phone.                      *)

(* They leave its screen alone.                                            *)
LEMMA ServerScreen ==
  ASSUME TypeOK, NEW d \in Devices, OrderlyPhone(d), ScreenOf(d),
         \/ Connect(d) \/ Disconnect(d) \/ \E p \in Posts : Listen(d, p)
         \/ \E t \in Taps : StoreRecord(d, t) \/ RefuseRecord(d, t) \/ CommitCount(d, t)
  PROVE  /\ VotesKept /\ NoVote(d) /\ SameScreen(d)
         /\ Watched(d)' /\ \A c \in Cells, p \in Posts : CellRight(d, c, p)'
<1>1. UNCHANGED tapVars /\ SameScreen(d)
  BY DEF Connect, Disconnect, Listen, StoreRecord, RefuseRecord, CommitCount,
     SameScreen, screenVars
<1>2. Taps' = Taps /\ vote' = vote
  BY <1>1, SameTaps
<1>3. VotesKept /\ NoVote(d)
  BY <1>2 DEF VotesKept, NoVote
<1>4. stage \in [Taps -> Stages]
  BY ScreenTypes
<1>5. Calm(d)
  <2>1. CASE Connect(d) \/ \E p \in Posts : Listen(d, p)
    BY <2>1 DEF Connect, Listen, Calm, Queued, Closed
  <2>2. CASE Disconnect(d)
    BY <2>2 DEF Disconnect, AfterDrop, Calm, Queued, Closed
  <2>3. ASSUME NEW t \in Taps, StoreRecord(d, t) \/ RefuseRecord(d, t) \/ CommitCount(d, t)
        PROVE  Calm(d)
    BY ZenonT(30), <1>4, <2>3 DEF StoreRecord, RefuseRecord, CommitCount, FirstWrite, Calm, Queued, Closed
  <2> QED
    BY <2>1, <2>2, <2>3
<1> QED
  BY <1>1, <1>3, <1>5, CalmScreen DEF ScreenOf

(* What the stages say of ranks.                                           *)
LEMMA RankSeen ==
  ASSUME NEW x \in Stages
  PROVE  /\ x \in Stored => Rank(x) >= 1
         /\ Rank(x) = -1 => x \notin Seen
         /\ Rank(x) = 6 <=> x = "done"
         /\ Rank(x) = 5 <=> x = "answered"
         /\ Rank(x) \in {0, 1} => x \in {"sent", "stored", "refused"}
BY RankIs DEF Stages, Stored, Seen

(* A vote is the last, or is followed by the last.                         *)
LEMMA LastAfter ==
  ASSUME TypeOK, NEW d \in Devices, NEW p \in Posts, NEW s, Last(d, p, s),
         NEW t \in Taps, vote[t].dev = d, vote[t].post = p, t # s
  PROVE  s \in Taps /\ Before(t, s, vote)
<1>1. s \in Taps /\ vote[s].dev = d /\ vote[s].post = p /\ ~Before(s, t, vote)
  BY DEF Last
<1>2. s \in Nat /\ t \in Nat
  BY <1>1, OrderTypes
<1> QED
  BY <1>1, <1>2 DEF Before

(* The server stores a vote.                                               *)
LEMMA StoreLast ==
  ASSUME TypeOK, TurnsRight, NEW d \in Devices, NEW t \in Taps, StoreRecord(d, t),
         NEW p \in Posts, LastVote(d, p)
  PROVE  LastVote(d, p)'
<1>1. /\ UNCHANGED tapVars /\ vote[t].dev = d /\ stage[t] = "sent"
      /\ stage' = [stage EXCEPT ![t] = "stored"] /\ view' = view
      /\ record' = [record EXCEPT ![UserOf[d]][vote[t].post] = NewValue(vote[t])]
  BY DEF StoreRecord, FirstWrite
<1>2. Taps' = Taps /\ vote' = vote /\ stage \in [Taps -> Stages]
  BY <1>1, SameTaps, ScreenTypes
<1>3. record \in [Users -> [Posts -> Values]] /\ UserOf[d] \in Users
  BY DeviceAssumption DEF TypeOK, DbTypeOK
<1>4. record'[UserOf[d]][p] = IF vote[t].post = p THEN NewValue(vote[t])
                                                  ELSE record[UserOf[d]][p]
  BY <1>1, <1>3
<1>5. SUFFICES ASSUME Alone(d), NEW s \in Taps, Last(d, p, s)
               PROVE  /\ stage'[s] \in Stored => record'[UserOf[d]][p] = NewValue(vote[s])
                      /\ stage'[s] \in Seen => view[d][p] = NewValue(vote[s])
  BY <1>1, <1>2 DEF LastVote, Last, Alone
<1>6. /\ stage[s] \in Stored => record[UserOf[d]][p] = NewValue(vote[s])
      /\ stage[s] \in Seen => view[d][p] = NewValue(vote[s])
  BY <1>5 DEF LastVote
<1>7. CASE s = t
  BY <1>1, <1>2, <1>4, <1>5, <1>6, <1>7 DEF Last, Seen
<1>8. CASE s # t /\ vote[t].post = p
  <2>1. Before(t, s, vote)
    BY <1>1, <1>5, <1>8, LastAfter
  <2>2. InTurn("sent", stage[s])
    BY <1>1, <2>1 DEF TurnsRight
  <2>3. stage[s] \notin Stored
    <3>1. stage[s] \in Stages
      BY <1>2, <1>5
    <3>2. Rank(stage[s]) \in -1..6
      BY <3>1, RankTells
    <3>3. ~(Rank(stage[s]) >= 1)
      BY <2>2, <3>2, RankIs DEF InTurn
    <3> QED
      BY <3>1, <3>3, RankSeen
  <2> QED
    BY <1>1, <1>2, <1>6, <1>8, <2>3
<1>9. CASE s # t /\ vote[t].post # p
  BY <1>1, <1>2, <1>4, <1>6, <1>9
<1> QED
  BY <1>7, <1>8, <1>9

(* The server takes a write or a transaction of d.                         *)
LEMMA ServeScreen ==
  ASSUME TypeOK, TurnsRight, NEW d \in Devices, OrderlyPhone(d), AnswersRight(d),
         ScreenOf(d), NEW t \in Taps,
         StoreRecord(d, t) \/ RefuseRecord(d, t) \/ CommitCount(d, t)
  PROVE  ScreenOf(d)'
<1>1. /\ VotesKept /\ NoVote(d) /\ SameScreen(d)
      /\ Watched(d)' /\ \A c \in Cells, p \in Posts : CellRight(d, c, p)'
  BY ServerScreen
<1>2. PICK x \in Awaited :
        /\ stage' = [stage EXCEPT ![t] = x]
        /\ x = "stored" <=> StoreRecord(d, t)
        /\ stage[t] = IF x = "counted" THEN "count" ELSE "sent"
  BY DEF StoreRecord, RefuseRecord, CommitCount, FirstWrite, Awaited
<1>3. /\ stage \in [Taps -> Stages] /\ down \in [Devices -> Seq(DownMessages)]
      /\ record \in [Users -> [Posts -> Values]] /\ UserOf[d] \in Users
  BY DeviceAssumption DEF TypeOK, TapTypeOK, LinkTypeOK, DbTypeOK
<1>4. stage'[t] = x /\ \A s \in Taps : s # t => stage'[s] = stage[s]
  BY <1>2, <1>3
<1>5. /\ vote[t].dev = d /\ stage[t] \notin Awaited
      /\ synced' = synced /\ listening' = listening
  BY <1>2 DEF StoreRecord, RefuseRecord, CommitCount, FirstWrite, Awaited
<1>6. down'[d] = Append(down[d], [type |-> "reply", tap |-> t])
  BY <1>3 DEF StoreRecord, RefuseRecord, CommitCount
<1>7. \A p \in Posts : record'[UserOf[d]][p] =
        IF x = "stored" /\ vote[t].post = p THEN NewValue(vote[t])
                                            ELSE record[UserOf[d]][p]
  BY <1>2, <1>3 DEF StoreRecord, RefuseRecord, CommitCount, dbVars
<1>8. ASSUME NEW p \in Posts
      PROVE  Steadfast(d, p)'
  BY <1>1, <1>4, <1>5, <1>6, <1>7, AnswerSteadfast DEF ScreenOf
<1>9. ASSUME NEW p \in Posts
      PROVE  LastVote(d, p)'
  <2>1. CASE StoreRecord(d, t)
    BY <2>1, StoreLast DEF ScreenOf
  <2>2. CASE ~StoreRecord(d, t)
    <3>1. \A s \in Taps : vote[s].dev = d =>
            /\ stage'[s] \in Stored => stage[s] \in Stored
            /\ stage'[s] \in Seen => stage[s] \in Seen
      BY <1>2, <1>4, <2>2 DEF Stored, Seen, Awaited
    <3>2. view'[d][p] = view[d][p] /\ record'[UserOf[d]][p] = record[UserOf[d]][p]
      BY <1>1, <1>2, <1>7, <2>2 DEF SameScreen
    <3> QED
      BY <1>1, <3>1, <3>2, QuietLast DEF ScreenOf
  <2> QED
    BY <2>1, <2>2
<1> QED
  BY <1>1, <1>8, <1>9 DEF ScreenOf

(* The connection comes back, or the server answers a listen.              *)
LEMMA LinkScreen ==
  ASSUME TypeOK, NEW d \in Devices, OrderlyPhone(d), AnswersRight(d), ScreenOf(d),
         Connect(d) \/ \E p \in Posts : Listen(d, p)
  PROVE  ScreenOf(d)'
<1>1. /\ VotesKept /\ NoVote(d) /\ SameScreen(d)
      /\ Watched(d)' /\ \A c \in Cells, p \in Posts : CellRight(d, c, p)'
  BY ServerScreen
<1>2. stage' = stage /\ record' = record /\ synced' = synced
  BY DEF Connect, Listen, dbVars
<1>3. ASSUME NEW p \in Posts
      PROVE  LastVote(d, p)'
  BY <1>1, <1>2, QuietLast DEF ScreenOf, SameScreen
<1>4. CASE Connect(d)
  <2>1. down' = down /\ listening' = listening
    BY <1>4 DEF Connect
  <2>2. ASSUME NEW p \in Posts
        PROVE  Steadfast(d, p)'
    BY <1>1, <1>2, <2>1, QuietSteadfast DEF ScreenOf
  <2> QED
    BY <1>1, <1>3, <2>2 DEF ScreenOf
<1>5. ASSUME NEW p \in Posts, Listen(d, p)
      PROVE  ScreenOf(d)'
  <2>1. /\ listening \in [Devices -> [Posts -> BOOLEAN]]
        /\ down \in [Devices -> Seq(DownMessages)] /\ record[UserOf[d]][p] \in Values
    BY DeviceAssumption DEF TypeOK, LinkTypeOK, DbTypeOK
  <2>2. /\ ~listening[d][p] /\ listening'[d][p] = TRUE
        /\ \A x \in Posts : listening[d][x] => listening'[d][x]
    BY <1>5, <2>1 DEF Listen
  <2>3. PICK m \in DownMessages :
          m = [type |-> "value", post |-> p, val |-> record[UserOf[d]][p]]
    BY <2>1 DEF DownMessages
  <2>4. /\ down'[d] = Append(down[d], m)
        /\ Brings(m, p) /\ m.val = record'[UserOf[d]][p]
    BY <1>2, <1>5, <2>1, <2>3 DEF Listen, Brings
  <2>5. ASSUME NEW x \in Posts
        PROVE  Steadfast(d, x)'
    BY <1>1, <1>2, <2>1, <2>2, <2>4, ToldSteadfast DEF ScreenOf
  <2> QED
    BY <1>1, <1>3, <2>5 DEF ScreenOf
<1> QED
  BY <1>4, <1>5

(* The connection breaks.                                                  *)
LEMMA BreakScreen ==
  ASSUME TypeOK, NEW d \in Devices, OrderlyPhone(d), ScreenOf(d), Disconnect(d)
  PROVE  ScreenOf(d)'
<1>1. /\ VotesKept /\ NoVote(d) /\ SameScreen(d)
      /\ Watched(d)' /\ \A c \in Cells, p \in Posts : CellRight(d, c, p)'
  BY ServerScreen
<1>2. /\ record' = record /\ synced' = synced /\ down'[d] = << >>
  BY DEF Disconnect, dbVars, TypeOK, LinkTypeOK
<1>3. ASSUME NEW p \in Posts
      PROVE  Steadfast(d, p)'
  <2>1. ~Blank(synced[d][p]) => record[UserOf[d]][p] # NoRecord
    BY DEF ScreenOf, Steadfast, Grows
  <2> QED
    BY <1>2, <2>1 DEF Steadfast, Grows, Once
<1>4. ASSUME NEW p \in Posts
      PROVE  LastVote(d, p)'
  <2>1. \A s \in Taps : vote[s].dev = d =>
          /\ stage'[s] \in Stored => stage[s] \in Stored
          /\ stage'[s] \in Seen => stage[s] \in Seen
    BY DEF Disconnect, AfterDrop, Stored, Seen
  <2> QED
    BY <1>1, <1>2, <2>1, QuietLast DEF ScreenOf, SameScreen
<1> QED
  BY <1>1, <1>3, <1>4 DEF ScreenOf

-----------------------------------------------------------------------------
(* What the main thread is told when what observers see changes.           *)

(* Cell c, which is for x only, is told that the record of p is seen as r, *)
(* and has to show z then.  That there is no record is not told, so        *)
(* nothing may have been seen before.                                      *)
IsDue(d, c, x, p, r, z) ==
  /\ \A y \in Posts : <<c, y>> \in observers[d] => y = x
  /\ x = p /\ r = NoRecord => AsThumb(view[d][p]) = 0
  /\ z = IF x = p /\ <<c, x>> \in observers[d] THEN AsThumb(r) ELSE Due(d, c, x)

LEMMA EventShows ==
  ASSUME NEW q \in Seq(MainBlocks), NEW d, NEW p \in Posts, NEW r \in Values,
         NEW c \in Cells, NEW x \in Posts, NEW z, IsDue(d, c, x, p, r, z),
         NEW s, NEW vt, NEW st, Shows(q, c, s, Due(d, c, x), vt, st),
         NEW a, a = q \o Event(d, p, r)
  PROVE  Shows(a, c, s, z, vt, st) /\ a \in Seq(MainBlocks)
<1> DEFINE told == [k \in Cells |-> IF <<k, p>> \in observers[d] THEN r ELSE NoRecord]
<1>1. PICK m : m = [type |-> "value", told |-> told]
  OBVIOUS
<1>2. m \in MainBlocks /\ m.type = "value"
  <2>1. told \in [Cells -> Values]
    BY DEF Values, NoRecord
  <2> QED
    BY <1>1, <2>1 DEF MainBlocks
<1>3. m.told[c] = IF <<c, p>> \in observers[d] THEN r ELSE NoRecord
  BY <1>1
<1>4. q \o << >> = q /\ q \o <<m>> = Append(q, m)
  BY <1>2
<1>5. Event(d, p, r) = IF r = view[d][p] THEN << >> ELSE <<m>>
  BY <1>1 DEF Event
<1>6. a = IF r = view[d][p] THEN q ELSE Append(q, m)
  BY <1>4, <1>5
<1>7. a \in Seq(MainBlocks)
  BY <1>2, <1>6, AppendFacts
<1>8. AsThumb(NoRecord) = 0
  BY DEF AsThumb, NoRecord
<1>9. CASE r = view[d][p]
  <2>1. z = Due(d, c, x)
    BY <1>9 DEF Due, IsDue
  <2> QED
    BY <1>6, <1>7, <1>9, <2>1
<1>10. CASE r # view[d][p] /\ m.told[c] = NoRecord
  <2>1. ~Tells(m, c, vt, st)
    BY <1>2, <1>10 DEF Tells
  <2>2. z = Due(d, c, x)
    BY <1>3, <1>8, <1>10 DEF Due, IsDue
  <2>3. a = Append(q, m)
    BY <1>6, <1>10
  <2>4. Shows(a, c, s, Due(d, c, x), vt, st)
    BY <1>2, <2>1, <2>3, ShowsSilent
  <2> QED
    BY <1>7, <2>2, <2>4
<1>11. CASE r # view[d][p] /\ m.told[c] # NoRecord
  <2>1. <<c, p>> \in observers[d] /\ m.told[c] = r /\ x = p
    BY <1>3, <1>11 DEF IsDue
  <2>2. Tells(m, c, vt, st) /\ Told(m, c, vt) = z
    BY <1>2, <1>11, <2>1 DEF Tells, Told, IsDue
  <2>3. a = Append(q, m)
    BY <1>6, <1>11
  <2> QED
    BY <1>2, <1>7, <2>2, <2>3, ShowsTold
<1> QED
  BY <1>9, <1>10, <1>11

(* A step that moves no vote.                                              *)
LEMMA SameVotes ==
  ASSUME UNCHANGED tapVars, NEW d
  PROVE  VotesKept /\ NoVote(d) /\ vote' = vote /\ Taps' = Taps
BY SameTaps DEF VotesKept, NoVote

(* A step that raises an event for the record of p, seen as r, and leaves  *)
(* the completions that wait where they are.                               *)
LEMMA EventCell ==
  ASSUME TypeOK, NEW d \in Devices, OrderlyPhone(d), VotesKept,
         \A t \in Taps : vote[t].dev = d /\ stage[t] \in Queued => stage'[t] = stage[t],
         NEW p \in Posts, NEW r \in Values,
         observers' = observers, view' = [view EXCEPT ![d][p] = r],
         NEW c \in Cells, NEW x \in Posts, Faithful(d, c, x),
         x = p /\ r = NoRecord => AsThumb(view[d][p]) = 0,
         Shows(mainq[d], c, thumb[d][c], Due(d, c, x), vote, stage),
         NEW a, a = mainq[d] \o Event(d, p, r)
  PROVE  Shows(a, c, thumb[d][c], Due(d, c, x)', vote', stage') /\ a \in Seq(MainBlocks)
<1>1. mainq[d] \in Seq(MainBlocks) /\ view \in [Devices -> [Posts -> Values]]
  BY DEF TypeOK, LinkTypeOK
<1>2. Shows(mainq[d], c, thumb[d][c], Due(d, c, x), vote', stage')
  BY QueueTells
<1>3. \A y \in Posts : <<c, y>> \in observers[d] => y = x
  BY DEF Faithful
<1>4. PICK z : z = Due(d, c, x)'
  OBVIOUS
<1>5. IsDue(d, c, x, p, r, z)
  BY <1>1, <1>3, <1>4 DEF Due, IsDue
<1>6. PICK q \in Seq(MainBlocks) : q = mainq[d]
  BY <1>1
<1>7. PICK s, vu, su : s = thumb[d][c] /\ vu = vote' /\ su = stage'
  OBVIOUS
<1>8. Shows(q, c, s, Due(d, c, x), vu, su) /\ a = q \o Event(d, p, r)
  BY <1>2, <1>6, <1>7
<1>9. Shows(a, c, s, z, vu, su) /\ a \in Seq(MainBlocks)
  BY <1>5, <1>6, <1>8, EventShows
<1> QED
  BY <1>4, <1>7, <1>9

(* A tap.                                                                  *)
LEMMA TapScreen ==
  ASSUME TypeOK, NEW d \in Devices, OrderlyPhone(d), AnswersRight(d), ScreenOf(d),
         NEW k \in Cells, NEW kind \in {1, -1}, Tap(d, k, kind)
  PROVE  ScreenOf(d)'
<1>1. PICK n : n = taps + 1
  OBVIOUS
<1>2. PICK w : w = NewVote(d, k, kind)
  OBVIOUS
<1>3. PICK p \in Posts : p = row[d][k]
  BY DEF Tap, TypeOK, ScreenTypeOK
<1>4. w.dev = d /\ w.cell = k /\ w.post = p
  BY <1>2, <1>3 DEF NewVote
<1>5. PICK r \in Values : r = NewValue(w)
  BY <1>2 DEF NewValue, NewVote, Values, TypeOK, ScreenTypeOK
<1>6. /\ Taps' = Taps \cup {n} /\ n \in Taps' /\ n \notin Taps
      /\ \A t \in Taps : vote'[t] = vote[t] /\ stage'[t] = stage[t] /\ t < n
      /\ vote'[n] = w /\ stage'[n] = "sent"
  <2>1. taps \in Nat /\ taps' = taps + 1
    BY DEF Tap, TypeOK, TapTypeOK
  <2>2. Taps' = 1..(taps + 1) /\ Taps = 1..taps
    BY <2>1 DEF Taps
  <2> QED
    BY <1>1, <1>2, <2>1, <2>2 DEF Tap
<1>7. VotesKept
  BY <1>6 DEF VotesKept
<1>8. /\ observers' = observers /\ row' = row /\ alive' = alive /\ alive[d]
      /\ thumb' = thumb /\ k \in Cells /\ row[d][k] # Nowhere
      /\ record' = record /\ down' = down /\ synced' = synced /\ listening' = listening
  BY DEF Tap, screenVars, dbVars
<1>9. /\ mainq' = [mainq EXCEPT ![d] = @ \o Event(d, p, r)]
      /\ view' = [view EXCEPT ![d][p] = r]
  BY <1>2, <1>4, <1>5 DEF Tap
<1>10. /\ view \in [Devices -> [Posts -> Values]]
       /\ mainq \in [Devices -> Seq(MainBlocks)]
  BY DEF TypeOK, LinkTypeOK
<1>11. Watched(d)'
  <2>1. <<k, p>> \in observers[d]
    BY <1>3, <1>8 DEF ScreenOf, Watched
  <2>2. ASSUME NEW t \in Taps', vote'[t].dev = d, Open(t)'
        PROVE  <<vote'[t].cell, vote'[t].post>> \in observers[d]
    BY <1>4, <1>6, <2>1, <2>2 DEF ScreenOf, Watched, Open
  <2> QED
    BY <1>8, <2>2 DEF ScreenOf, Watched
<1>12. ASSUME NEW x \in Posts
       PROVE  Steadfast(d, x)'
  BY <1>6, <1>7, <1>8, QuietSteadfast DEF ScreenOf
<1>13. ASSUME NEW x \in Posts
       PROVE  LastVote(d, x)'
  <2> SUFFICES ASSUME Alone(d), NEW t \in Taps', Last(d, x, t)'
               PROVE  /\ stage'[t] \in Stored => record'[UserOf[d]][x] = NewValue(vote'[t])
                      /\ stage'[t] \in Seen => view'[d][x] = NewValue(vote'[t])
    BY DEF LastVote, Alone
  <2>1. vote'[t].dev = d /\ vote'[t].post = x /\ \A s \in Taps' : ~Before(t, s, vote')
    BY DEF Last
  <2>2. CASE t = n
    <3>1. x = p /\ stage'[t] \notin Stored
      BY <1>4, <1>6, <2>1, <2>2 DEF Stored
    <3>2. view'[d][p] = r
      BY <1>9, <1>10
    <3> QED
      BY <1>5, <1>6, <2>2, <3>1, <3>2
  <2>3. CASE t \in Taps
    <3>1. x # p
      BY <1>4, <1>6, <2>1, <2>3 DEF Before
    <3>2. Last(d, x, t)
      BY <1>6, <2>1, <2>3 DEF Last, Before
    <3>3. view'[d][x] = view[d][x]
      BY <1>9, <1>10, <3>1
    <3> QED
      BY <1>6, <1>8, <2>3, <3>2, <3>3 DEF ScreenOf, LastVote
  <2> QED
    BY <1>6, <2>2, <2>3
<1>14. ASSUME NEW c \in Cells, NEW x \in Posts
       PROVE  CellRight(d, c, x)'
  <2>1. AllAnswered(d, x)' => AllAnswered(d, x)
    BY <1>6 DEF AllAnswered, Open
  <2>2. CASE x = p
    <3>1. ~AllAnswered(d, x)'
      BY <1>4, <1>6, <2>2 DEF AllAnswered, Open, Closed
    <3> QED
      BY <3>1 DEF CellRight
  <2>3. CASE x # p
    <3>1. ASSUME Faithful(d, c, x),
                 Shows(mainq[d], c, thumb[d][c], Due(d, c, x), vote, stage)
          PROVE  Shows(mainq'[d], c, thumb'[d][c], Due(d, c, x)', vote', stage')
      <4>1. mainq'[d] = mainq[d] \o Event(d, p, r)
        BY <1>9, <1>10
      <4> QED
        BY <1>6, <1>7, <1>8, <1>9, <2>3, <3>1, <4>1, EventCell
    <3> QED
      BY <1>6, <1>7, <1>8, <2>1, <3>1, CellKept DEF ScreenOf
  <2> QED
    BY <2>2, <2>3
<1> QED
  BY <1>11, <1>12, <1>13, <1>14 DEF ScreenOf

-----------------------------------------------------------------------------
(* The client takes a message of the server.                               *)

(* Brings and Speaks, of the first message.                                *)
LEMMA SteadfastTail ==
  ASSUME TypeOK, NEW d \in Devices, NEW p \in Posts, Steadfast(d, p),
         NEW q \in Seq(DownMessages), q = down[d], q # << >>,
         VotesKept, listening' = listening, record' = record, down'[d] = Tail(q),
         synced'[d][p] = IF Speaks(Head(q), p, vote, stage) THEN Word(Head(q), vote)
                                                           ELSE synced[d][p],
         \A i \in 1..Len(Tail(q)) : Tail(q)[i].type = "reply" =>
           /\ vote'[Tail(q)[i].tap] = vote[Tail(q)[i].tap]
           /\ stage'[Tail(q)[i].tap] = stage[Tail(q)[i].tap]
  PROVE  Steadfast(d, p)'
<1>1. PICK a \in Seq(DownMessages) : a = Tail(q)
  BY TailFacts
<1>2. Grows(q, p, synced[d][p], record[UserOf[d]][p], vote, stage)
  BY DEF Steadfast
<1>3. PICK x : x = synced'[d][p]
  OBVIOUS
<1>4. Grows(a, p, x, record[UserOf[d]][p], vote, stage)
  BY <1>1, <1>2, <1>3, GrowsTail
<1>5. Grows(a, p, x, record[UserOf[d]][p], vote', stage')
  <2>1. \A i \in 1..Len(a) : a[i].type = "reply" =>
          vote'[a[i].tap] = vote[a[i].tap] /\ stage'[a[i].tap] = stage[a[i].tap]
    BY <1>1
  <2> QED
    BY <1>4, <2>1, GrowsSame
<1>6. Once(a, p, listening[d][p], Alone(d))
  BY <1>1, OnceTail DEF Steadfast
<1>7. Alone(d)' = Alone(d)
  BY DEF Alone
<1> QED
  BY <1>1, <1>3, <1>5, <1>6, <1>7 DEF Steadfast

(* The only value that a phone alone with its account is told is the       *)
(* record, once none of its writes is pending.                             *)
LEMMA OnlyValue ==
  ASSUME TypeOK, NEW d \in Devices, NEW p \in Posts, Steadfast(d, p), Heard(d, p),
         AnswersRight(d), Alone(d), Pending(d, p, stage) = {},
         NEW q \in Seq(DownMessages), q = down[d], q # << >>, Brings(Head(q), p)
  PROVE  Head(q).val = record[UserOf[d]][p]
<1>1. Head(q) = q[1] /\ 1 \in 1..Len(q)
  BY TailFacts
<1>2. /\ listening[d][p]
      /\ \A j \in 1..Len(q) : Brings(q[j], p) => j = 1
  BY <1>1 DEF Steadfast, Once
<1>3. ASSUME NEW j \in 1..Len(q), 1 < j
      PROVE  ~Speaks(q[j], p, vote, stage)
  <2>1. ~Brings(q[j], p)
    BY <1>2, <1>3
  <2>2. ASSUME q[j].type = "reply", vote[q[j].tap].post = p, stage[q[j].tap] = "stored"
        PROVE  FALSE
    <3>1. q[j].tap \in Taps /\ vote[q[j].tap].dev = d
      BY <2>2, AnswersKnown
    <3>2. q[j].tap \in Pending(d, p, stage)
      BY <2>2, <3>1 DEF Pending
    <3> QED
      BY <3>2
  <2> QED
    BY <2>1, <2>2 DEF Speaks, Brings
<1>4. Hears(q, p, synced[d][p], record[UserOf[d]][p], vote, stage)
  BY <1>2 DEF Heard
<1>5. Speaks(q[1], p, vote, stage) /\ Word(q[1], vote) = Head(q).val
  BY <1>1 DEF Speaks, Word, Brings
<1> QED
  BY <1>1, <1>3, <1>4, <1>5 DEF Hears

(* Nothing that was told can be followed by the news that there is no      *)
(* record: its observers have seen nothing yet.                            *)
LEMMA NothingSeen ==
  ASSUME TypeOK, NEW d \in Devices, NEW p \in Posts, Steadfast(d, p), Unhidden(d, p),
         NEW q \in Seq(DownMessages), q = down[d], q # << >>, Brings(Head(q), p),
         NEW r, r = (IF Pending(d, p, stage) = {} THEN Head(q).val ELSE view[d][p]),
         r = NoRecord
  PROVE  AsThumb(view[d][p]) = 0
<1>1. AsThumb(NoRecord) = 0 /\ AsThumb(Unknown) = 0
  BY DEF AsThumb, NoRecord, Unknown
<1>2. CASE Pending(d, p, stage) = {}
  <2>1. Head(q) = q[1] /\ 1 \in 1..Len(q)
    BY TailFacts
  <2>2. Speaks(q[1], p, vote, stage) /\ Word(q[1], vote) = NoRecord
    BY <1>2, <2>1 DEF Speaks, Word, Brings
  <2>3. Blank(synced[d][p])
    BY <2>1, <2>2 DEF Steadfast, Grows
  <2> QED
    BY <1>1, <1>2, <2>3 DEF Unhidden, Blank
<1>3. CASE Pending(d, p, stage) # {}
  BY <1>1, <1>3
<1> QED
  BY <1>2, <1>3

(* The value of a record arrives.                                          *)
LEMMA ValueScreen ==
  ASSUME TypeOK, NEW d \in Devices, OrderlyPhone(d), ViewOf(d), ScreenOf(d),
         DeliverValue(d)
  PROVE  ScreenOf(d)'
<1>1. PICK q \in Seq(DownMessages) : q = down[d] /\ q # << >>
  BY DEF DeliverValue, TypeOK, LinkTypeOK
<1>2. PICK m \in DownMessages : m = Head(q)
  BY <1>1, TailFacts
<1>3. m.type = "value" /\ m.val \in Values
  BY <1>1, <1>2 DEF DeliverValue, DownMessages
<1>4. PICK p \in Posts : p = m.post
  BY <1>3 DEF DownMessages
<1>5. PICK r \in Values :
        r = IF Pending(d, p, stage) = {} THEN m.val ELSE view[d][p]
  BY <1>3 DEF TypeOK, LinkTypeOK
<1>6. /\ synced' = [synced EXCEPT ![d][p] = m.val]
      /\ mainq' = [mainq EXCEPT ![d] = @ \o Event(d, p, r)]
      /\ view' = [view EXCEPT ![d][p] = r]
      /\ down'[d] = Tail(q)
  BY <1>1, <1>2, <1>4, <1>5 DEF DeliverValue, TypeOK, LinkTypeOK
<1>7. /\ VotesKept /\ vote' = vote /\ Taps' = Taps
      /\ stage' = stage /\ record' = record /\ listening' = listening
      /\ alive[d] /\ alive' = alive
      /\ observers' = observers /\ row' = row /\ thumb' = thumb
  BY SameVotes DEF DeliverValue, dbVars, screenVars
<1>8. /\ view \in [Devices -> [Posts -> Values]] /\ synced \in [Devices -> [Posts -> Values]]
      /\ mainq \in [Devices -> Seq(MainBlocks)]
  BY DEF TypeOK, LinkTypeOK
<1>9. AnswersRight(d) /\ Unhidden(d, p) /\ Heard(d, p) /\ Brings(m, p)
  BY <1>3, <1>4 DEF ViewOf, Brings
<1>10. Watched(d)'
  BY <1>7 DEF ScreenOf, Watched, Open
<1>11. ASSUME NEW x \in Posts
       PROVE  Steadfast(d, x)'
  <2>1. synced'[d][x] = IF Speaks(m, x, vote, stage) THEN Word(m, vote) ELSE synced[d][x]
    <3>1. (Speaks(m, x, vote, stage) <=> x = p) /\ Word(m, vote) = m.val
      BY <1>3, <1>4 DEF Speaks, Word
    <3> QED
      BY <1>6, <1>8, <3>1
  <2> QED
    BY <1>1, <1>2, <1>6, <1>7, <2>1, SteadfastTail DEF ScreenOf
<1>12. ASSUME NEW x \in Posts
       PROVE  LastVote(d, x)'
  <2> SUFFICES ASSUME Alone(d), NEW t \in Taps, Last(d, x, t)
               PROVE  /\ stage[t] \in Stored => record[UserOf[d]][x] = NewValue(vote[t])
                      /\ stage[t] \in Seen => view'[d][x] = NewValue(vote[t])
    BY <1>7 DEF LastVote, Last, Alone
  <2>1. /\ stage[t] \in Stored => record[UserOf[d]][x] = NewValue(vote[t])
        /\ stage[t] \in Seen => view[d][x] = NewValue(vote[t])
    BY DEF ScreenOf, LastVote
  <2>2. CASE x # p
    BY <1>6, <1>8, <2>1, <2>2
  <2>3. CASE x = p /\ Pending(d, p, stage) # {}
    BY <1>5, <1>6, <1>8, <2>1, <2>3
  <2>4. CASE x = p /\ Pending(d, p, stage) = {}
    <3>1. view'[d][p] = record[UserOf[d]][p]
      <4>1. Head(q).val = record[UserOf[d]][p]
        BY <1>1, <1>2, <1>9, <2>4, OnlyValue DEF ScreenOf
      <4> QED
        BY <1>2, <1>5, <1>6, <1>8, <2>4, <4>1
    <3>2. t \notin Pending(d, p, stage)
      BY <2>4
    <3>3. stage[t] \in Seen => stage[t] \in Stored
      BY <2>4, <3>2 DEF Last, Pending, Seen, Stored
    <3> QED
      BY <2>1, <2>4, <3>1, <3>3
  <2> QED
    BY <2>2, <2>3, <2>4
<1>13. ASSUME NEW c \in Cells, NEW x \in Posts
       PROVE  CellRight(d, c, x)'
  <2>1. AllAnswered(d, x)' => AllAnswered(d, x)
    BY <1>7 DEF AllAnswered, Open
  <2>2. x = p /\ r = NoRecord => AsThumb(view[d][p]) = 0
    BY <1>1, <1>2, <1>5, <1>9, NothingSeen DEF ScreenOf
  <2>3. ASSUME Faithful(d, c, x),
               Shows(mainq[d], c, thumb[d][c], Due(d, c, x), vote, stage)
        PROVE  Shows(mainq'[d], c, thumb'[d][c], Due(d, c, x)', vote', stage')
    <3>1. mainq'[d] = mainq[d] \o Event(d, p, r)
      BY <1>6, <1>8
    <3>2. Shows(mainq'[d], c, thumb[d][c], Due(d, c, x)', vote', stage')
      BY <1>6, <1>7, <2>2, <2>3, <3>1, EventCell
    <3> QED
      BY <1>7, <3>2
  <2> QED
    BY <1>7, <2>1, <2>3, CellKept DEF ScreenOf
<1> QED
  BY <1>10, <1>11, <1>12, <1>13 DEF ScreenOf

-----------------------------------------------------------------------------
(* Completions are queued.                                                 *)

(* A completion at the end of the queue.                                   *)
LEMMA ReplyAppended ==
  ASSUME NEW y \in Seq(MainBlocks), NEW t \in Taps
  PROVE  \E m \in MainBlocks : Answers(m, t) /\ y \o Reply(t) = Append(y, m)
<1>1. PICK m : m = [type |-> "reply", tap |-> t]
  OBVIOUS
<1>2. m \in MainBlocks /\ Answers(m, t)
  BY <1>1 DEF MainBlocks, Answers
<1>3. y \o <<m>> = Append(y, m)
  BY <1>2
<1> QED
  BY <1>1, <1>2, <1>3 DEF Reply

(* It tells no thumb if its vote was not counted, or was tapped elsewhere, *)
LEMMA ReplySilent ==
  ASSUME NEW y \in Seq(MainBlocks), NEW t \in Taps, NEW c, NEW s, NEW r, NEW vt, NEW st,
         st[t] # "answered" \/ vt[t].cell # c, Shows(y, c, s, r, vt, st),
         NEW a, a = y \o Reply(t)
  PROVE  Shows(a, c, s, r, vt, st)
<1>1. PICK m \in MainBlocks : Answers(m, t) /\ y \o Reply(t) = Append(y, m)
  BY ReplyAppended
<1>2. ~Tells(m, c, vt, st)
  BY <1>1 DEF Answers, Tells
<1> QED
  BY <1>1, <1>2, ShowsSilent

(* and the outcome of the vote if it was.                                  *)
LEMMA ReplyTold ==
  ASSUME NEW y \in Seq(MainBlocks), NEW t \in Taps, NEW c, NEW s, NEW vt, NEW st,
         st[t] = "answered", vt[t].cell = c,
         NEW r, r = AsThumb(NewValue(vt[t])), NEW a, a = y \o Reply(t)
  PROVE  Shows(a, c, s, r, vt, st)
<1>1. PICK m \in MainBlocks : Answers(m, t) /\ y \o Reply(t) = Append(y, m)
  BY ReplyAppended
<1>2. Tells(m, c, vt, st) /\ Told(m, c, vt) = r
  BY <1>1 DEF Answers, Tells, Told
<1> QED
  BY <1>1, <1>2, ShowsTold

(* Vote t moves, and no other.                                             *)
OneMoves(t) ==
  /\ t \in Taps /\ vote' = vote /\ Taps' = Taps
  /\ \A s \in Taps : s # t => stage'[s] = stage[s]

(* A step that moves one vote of d, which was open before, and not as far  *)
(* as its completion.                                                      *)
LEMMA MovedCalm ==
  ASSUME NEW d \in Devices, NEW t, OneMoves(t), stage[t] \notin Queued \cup Closed,
         stage'[t] \notin Closed \cup {"answered"}
  PROVE  VotesKept /\ NoVote(d) /\ Calm(d)
<1>1. VotesKept /\ NoVote(d)
  BY DEF OneMoves, VotesKept, NoVote
<1>2. "answered" \in Queued
  BY DEF Queued
<1>3. Calm(d)
  BY <1>2 DEF OneMoves, Calm
<1> QED
  BY <1>1, <1>3

(* The client gives up a transaction of d.                                 *)
LEMMA AbortScreen ==
  ASSUME TypeOK, NEW d \in Devices, OrderlyPhone(d), AnswersRight(d), ScreenOf(d),
         NEW t \in Taps, GiveUp(d, t) \/ Cancel(d, t)
  PROVE  ScreenOf(d)'
<1>1. /\ UNCHANGED tapVars /\ alive[d] /\ stage[t] \in {"count", "cancelled"}
      /\ stage' = [stage EXCEPT ![t] = "aborted"]
      /\ mainq' = [mainq EXCEPT ![d] = @ \o Reply(t)]
      /\ record' = record /\ alive' = alive /\ listening' = listening /\ down' = down
      /\ synced' = synced /\ view' = view
      /\ row' = row /\ observers' = observers /\ thumb' = thumb
  BY DEF GiveUp, Cancel, dbVars, linkVars, screenVars
<1>2. /\ vote' = vote /\ Taps' = Taps /\ stage \in [Taps -> Stages]
      /\ mainq \in [Devices -> Seq(MainBlocks)]
  BY <1>1, SameTaps DEF TypeOK, TapTypeOK, LinkTypeOK
<1>3. OneMoves(t) /\ stage'[t] = "aborted"
  BY <1>1, <1>2 DEF OneMoves
<1>4. VotesKept /\ NoVote(d) /\ Calm(d)
  BY <1>1, <1>3, MovedCalm DEF Queued, Closed
<1>5. Watched(d)'
  BY <1>1, <1>2, <1>4 DEF ScreenOf, Watched, Calm, Open
<1>6. ASSUME NEW p \in Posts
      PROVE  Steadfast(d, p)' /\ LastVote(d, p)'
  <2>1. \A s \in Taps : vote[s].dev = d =>
          /\ stage[s] \in Awaited => stage'[s] = stage[s]
          /\ stage'[s] \in Stored => stage[s] \in Stored
          /\ stage'[s] \in Seen => stage[s] \in Seen
    BY <1>1, <1>2 DEF Awaited, Stored, Seen
  <2>2. Steadfast(d, p)'
    BY <1>1, <1>4, <2>1, QuietSteadfast DEF ScreenOf
  <2>3. LastVote(d, p)'
    BY <1>1, <1>4, <2>1, QuietLast DEF ScreenOf
  <2> QED
    BY <2>2, <2>3
<1>7. ASSUME NEW c \in Cells, NEW p \in Posts
      PROVE  CellRight(d, c, p)'
  <2>1. AllAnswered(d, p)' => AllAnswered(d, p)
    BY <1>4, CalmAnswered
  <2>2. \A s \in Taps : vote[s].dev = d =>
          /\ stage[s] \in Queued => stage'[s] = stage[s]
          /\ stage[s] = "failed" => stage'[s] = "failed"
    BY <1>4 DEF Calm, Closed
  <2>3. ASSUME Shows(mainq[d], c, thumb[d][c], Due(d, c, p), vote, stage)
        PROVE  Shows(mainq'[d], c, thumb'[d][c], Due(d, c, p)', vote', stage')
    <3>1. Shows(mainq[d], c, thumb[d][c], Due(d, c, p), vote', stage')
      BY <1>4, <2>2, <2>3, QueueTells
    <3>2. mainq'[d] = mainq[d] \o Reply(t) /\ mainq[d] \in Seq(MainBlocks)
      BY <1>1, <1>2
    <3>3. Shows(mainq'[d], c, thumb[d][c], Due(d, c, p), vote', stage')
      BY <1>3, <3>1, <3>2, ReplySilent
    <3>4. thumb'[d][c] = thumb[d][c] /\ Due(d, c, p)' = Due(d, c, p)
      BY <1>1 DEF Due
    <3> QED
      BY <3>3, <3>4
  <2>4. observers[d] \subseteq observers'[d]
    BY <1>1
  <2> QED
    BY <1>4, <2>1, <2>2, <2>3, <2>4, CellKept DEF ScreenOf
<1> QED
  BY <1>5, <1>6, <1>7 DEF ScreenOf

(* The client forgets a transaction of d.                                  *)
LEMMA ForgetScreen ==
  ASSUME TypeOK, NEW d \in Devices, OrderlyPhone(d), AnswersRight(d), ScreenOf(d),
         NEW t \in Taps, Forget(d, t)
  PROVE  ScreenOf(d)'
<1>1. /\ UNCHANGED tapVars /\ alive[d] /\ stage[t] \in {"count", "cancelled"}
      /\ stage' = [stage EXCEPT ![t] = "forgotten"]
      /\ mainq' = mainq
      /\ record' = record /\ alive' = alive /\ listening' = listening /\ down' = down
      /\ synced' = synced /\ view' = view
      /\ row' = row /\ observers' = observers /\ thumb' = thumb
  BY DEF Forget, dbVars, linkVars, screenVars
<1>2. /\ vote' = vote /\ Taps' = Taps /\ stage \in [Taps -> Stages]
  BY <1>1, SameTaps DEF TypeOK, TapTypeOK
<1>3. OneMoves(t) /\ stage'[t] = "forgotten"
  BY <1>1, <1>2 DEF OneMoves
<1>4. VotesKept /\ NoVote(d) /\ Calm(d)
  BY <1>1, <1>3, MovedCalm DEF Queued, Closed
<1>5. Watched(d)'
  BY <1>1, <1>2, <1>4 DEF ScreenOf, Watched, Calm, Open
<1>6. ASSUME NEW p \in Posts
      PROVE  Steadfast(d, p)' /\ LastVote(d, p)'
  <2>1. \A s \in Taps : vote[s].dev = d =>
          /\ stage[s] \in Awaited => stage'[s] = stage[s]
          /\ stage'[s] \in Stored => stage[s] \in Stored
          /\ stage'[s] \in Seen => stage[s] \in Seen
    BY <1>1, <1>2 DEF Awaited, Stored, Seen
  <2>2. Steadfast(d, p)'
    BY <1>1, <1>4, <2>1, QuietSteadfast DEF ScreenOf
  <2>3. LastVote(d, p)'
    BY <1>1, <1>4, <2>1, QuietLast DEF ScreenOf
  <2> QED
    BY <2>2, <2>3
<1>7. ASSUME NEW c \in Cells, NEW p \in Posts
      PROVE  CellRight(d, c, p)'
  <2>1. AllAnswered(d, p)' => AllAnswered(d, p)
    BY <1>4, CalmAnswered
  <2>2. \A s \in Taps : vote[s].dev = d =>
          /\ stage[s] \in Queued => stage'[s] = stage[s]
          /\ stage[s] = "failed" => stage'[s] = "failed"
    BY <1>4 DEF Calm, Closed
  <2>3. ASSUME Shows(mainq[d], c, thumb[d][c], Due(d, c, p), vote, stage)
        PROVE  Shows(mainq'[d], c, thumb'[d][c], Due(d, c, p)', vote', stage')
    <3>1. Shows(mainq[d], c, thumb[d][c], Due(d, c, p), vote', stage')
      BY <1>4, <2>2, <2>3, QueueTells
    <3>2. thumb'[d][c] = thumb[d][c] /\ Due(d, c, p)' = Due(d, c, p)
      BY <1>1 DEF Due
    <3> QED
      BY <1>1, <3>1, <3>2
  <2>4. observers[d] \subseteq observers'[d]
    BY <1>1
  <2> QED
    BY <1>4, <2>1, <2>2, <2>3, <2>4, CellKept DEF ScreenOf
<1> QED
  BY <1>5, <1>6, <1>7 DEF ScreenOf

(* The first answer of the server is to one of the votes of d.             *)
LEMMA FirstAnswer ==
  ASSUME TypeOK, NEW d \in Devices, AnswersRight(d),
         NEW q \in Seq(DownMessages), q = down[d], q # << >>, Head(q).type = "reply",
         NEW t, Head(q).tap = t
  PROVE  /\ t \in Taps /\ vote[t].dev = d /\ stage[t] \in Awaited
         /\ \A i \in 1..Len(Tail(q)) : Tail(q)[i].type = "reply" =>
              Tail(q)[i].tap \in Taps /\ Tail(q)[i].tap # t
<1>1. RightAnswers(q, d, Awaited, vote, stage) /\ DOMAIN vote = Taps
  BY ScreenTypes DEF AnswersRight
<1>2. PICK a \in Seq(DownMessages) : a = Tail(q)
  BY TailFacts
<1>3. RightAnswers(a, d, Awaited, vote, stage)
  BY <1>1, <1>2, AnswersTail
<1>4. Unanswered(a, t)
  <2>1. PICK m \in DownMessages : m = Head(q)
    BY TailFacts
  <2>2. Unanswered(a, m.tap)
    BY <1>1, <1>2, <2>1, AnswerTaken
  <2> QED
    BY <2>1, <2>2
<1>5. Head(q) = q[1] /\ 1 \in 1..Len(q)
  BY TailFacts
<1>6. t \in Taps /\ vote[t].dev = d /\ stage[t] \in Awaited
  BY <1>1, <1>5 DEF RightAnswers
<1> QED
  BY <1>1, <1>2, <1>3, <1>4, <1>6 DEF RightAnswers, Unanswered

-----------------------------------------------------------------------------
(* The answers to a write and to a transaction.                            *)

(* What the answer to a write changes: the client takes the first of its   *)
(* messages q, the answer to the write of t on p, and its observers see r. *)
Acks(d, q, t, p, r) ==
  /\ q = down[d] /\ q # << >> /\ Answers(Head(q), t) /\ down'[d] = Tail(q)
  /\ OneMoves(t) /\ vote[t].dev = d /\ vote[t].post = p
  /\ \/ stage[t] = "stored" /\ stage'[t] = "acked"
     \/ stage[t] = "refused" /\ stage'[t] = "denied"
  /\ r = IF Pending(d, p, stage') = {} THEN AckedValue(d, t) ELSE view[d][p]
  /\ synced' = [synced EXCEPT ![d][p] = AckedValue(d, t)]
  /\ view' = [view EXCEPT ![d][p] = r]
  /\ mainq'[d] = (mainq[d] \o Event(d, p, r)) \o Reply(t)

(* What the client's queue leaves alone.                                   *)
ClientOnly(d) ==
  /\ alive[d] /\ alive' = alive /\ listening' = listening /\ record' = record
  /\ observers' = observers /\ row' = row /\ thumb' = thumb

LEMMA AckActs ==
  ASSUME TypeOK, NEW d \in Devices, AnswersRight(d), DeliverAck(d)
  PROVE  /\ ClientOnly(d)
         /\ \E q \in Seq(DownMessages), t \in Taps, p \in Posts, r \in Values :
              Acks(d, q, t, p, r)
<1>1. PICK q \in Seq(DownMessages) : q = down[d]
  BY ScreenTypes
<1>2. q # << >> /\ Head(q).type = "reply" /\ down'[d] = Tail(q)
  BY <1>1 DEF DeliverAck, TypeOK, LinkTypeOK
<1>3. PICK t : t = Head(q).tap
  OBVIOUS
<1>4. t \in Taps /\ vote[t].dev = d
  BY <1>1, <1>2, <1>3, FirstAnswer
<1>5. PICK p \in Posts : p = vote[t].post
  BY <1>4, ScreenTypes
<1>6. /\ vote' = vote /\ Taps' = Taps
      /\ stage \in [Taps -> Stages] /\ mainq \in [Devices -> Seq(MainBlocks)]
  BY SameTaps DEF DeliverAck, TypeOK, TapTypeOK, LinkTypeOK
<1>7. /\ stage[t] \in {"stored", "refused"}
      /\ stage' = [stage EXCEPT ![t] = IF @ = "stored" THEN "acked" ELSE "denied"]
      /\ synced' = [synced EXCEPT ![d][p] = AckedValue(d, t)]
  BY <1>1, <1>3, <1>5 DEF DeliverAck
<1>8. OneMoves(t)
  BY <1>4, <1>6, <1>7 DEF OneMoves
<1>9. \/ stage[t] = "stored" /\ stage'[t] = "acked"
      \/ stage[t] = "refused" /\ stage'[t] = "denied"
  BY <1>4, <1>6, <1>7
<1>10. PICK r : r = IF Pending(d, p, stage') = {} THEN AckedValue(d, t) ELSE view[d][p]
  OBVIOUS
<1>11. r \in Values
  <2>1. NewValue(vote[t]) \in Values /\ synced[d][p] \in Values /\ view[d][p] \in Values
    BY <1>4, ScreenTypes DEF TypeOK, LinkTypeOK, Values
  <2> QED
    BY <1>5, <1>10, <2>1 DEF AckedValue
<1>12. /\ view' = [view EXCEPT ![d][p] = r]
       /\ mainq' = [mainq EXCEPT ![d] = @ \o Event(d, p, r) \o Reply(t)]
  BY <1>1, <1>3, <1>5, <1>7, <1>10 DEF DeliverAck
<1>13. mainq'[d] = (mainq[d] \o Event(d, p, r)) \o Reply(t)
  BY <1>6, <1>12
<1>14. ClientOnly(d)
  BY DEF DeliverAck, ClientOnly, dbVars, screenVars
<1>15. Acks(d, q, t, p, r)
  BY <1>1, <1>2, <1>3, <1>4, <1>5, <1>7, <1>8, <1>9, <1>10, <1>12, <1>13
     DEF Acks, Answers
<1> QED
  BY <1>4, <1>11, <1>14, <1>15

(* The last vote stays what is seen: its own answer confirms it, and that  *)
(* to an earlier one is hidden by its write.                               *)
LEMMA AckLast ==
  ASSUME TypeOK, TurnsRight, NEW d \in Devices, ClientOnly(d),
         NEW q, NEW t \in Taps, NEW p \in Posts, NEW r, Acks(d, q, t, p, r),
         NEW x \in Posts, LastVote(d, x)
  PROVE  LastVote(d, x)'
<1>1. /\ vote' = vote /\ Taps' = Taps /\ record' = record
      /\ vote[t].dev = d /\ vote[t].post = p
      /\ \/ stage[t] = "stored" /\ stage'[t] = "acked"
         \/ stage[t] = "refused" /\ stage'[t] = "denied"
      /\ \A s \in Taps : s # t => stage'[s] = stage[s]
  BY DEF Acks, OneMoves, ClientOnly
<1>2. view \in [Devices -> [Posts -> Values]] /\ stage \in [Taps -> Stages]
  BY DEF TypeOK, TapTypeOK, LinkTypeOK
<1>3. \A y \in Posts : view'[d][y] = IF y = p THEN r ELSE view[d][y]
  BY <1>2 DEF Acks
<1>4. r = IF Pending(d, p, stage') = {} THEN AckedValue(d, t) ELSE view[d][p]
  BY DEF Acks
<1>5. SUFFICES ASSUME Alone(d), NEW u \in Taps, Last(d, x, u)
               PROVE  /\ stage'[u] \in Stored => record[UserOf[d]][x] = NewValue(vote[u])
                      /\ stage'[u] \in Seen => view'[d][x] = NewValue(vote[u])
  BY <1>1 DEF LastVote, Last, Alone
<1>6. /\ stage[u] \in Stored => record[UserOf[d]][x] = NewValue(vote[u])
      /\ stage[u] \in Seen => view[d][x] = NewValue(vote[u])
  BY <1>5 DEF LastVote
<1>7. CASE u = t
  <2>1. x = p
    BY <1>1, <1>5, <1>7 DEF Last
  <2>2. CASE stage[t] = "stored"
    <3>1. AckedValue(d, t) = NewValue(vote[t]) /\ view[d][p] = NewValue(vote[t])
      BY <1>6, <1>7, <2>1, <2>2 DEF AckedValue, Seen, Stored
    <3>2. record[UserOf[d]][x] = NewValue(vote[t])
      BY <1>6, <1>7, <2>2 DEF Stored
    <3> QED
      BY <1>3, <1>4, <1>7, <2>1, <3>1, <3>2
  <2>3. CASE stage[t] = "refused"
    BY <1>1, <1>7, <2>3 DEF Stored, Seen
  <2> QED
    BY <1>1, <2>2, <2>3
<1>8. CASE u # t /\ x # p
  BY <1>1, <1>3, <1>6, <1>8
<1>9. CASE u # t /\ x = p
  <2>1. Before(t, u, vote)
    BY <1>1, <1>5, <1>9, LastAfter
  <2>2. stage'[u] = stage[u] /\ vote[u].dev = d /\ vote[u].post = p
    BY <1>1, <1>5, <1>9 DEF Last
  <2>3. stage[u] \in Seen => stage[u] \in {"sent", "stored", "refused"}
    <3>1. stage[u] \in Stages /\ Rank(stage[u]) \in -1..6
      BY <1>2, RankTells
    <3>2. Rank(stage[t]) = 1
      BY <1>1, RankIs
    <3>3. InTurn(stage[t], stage[u])
      BY <2>1 DEF TurnsRight
    <3>4. Rank(stage[u]) \in {-1, 0, 1}
      BY <3>1, <3>2, <3>3 DEF InTurn
    <3> QED
      BY <3>1, <3>4, RankSeen
  <2>4. stage[u] \in Seen => u \in Pending(d, p, stage')
    BY <2>2, <2>3 DEF Pending
  <2>5. stage[u] \in Seen => view'[d][x] = view[d][x]
    BY <1>3, <1>4, <1>9, <2>4
  <2> QED
    BY <1>6, <2>2, <2>5
<1> QED
  BY <1>7, <1>8, <1>9

(* Cells for other posts learn nothing; that of the vote is told later.    *)
LEMMA AckCell ==
  ASSUME TypeOK, NEW d \in Devices, OrderlyPhone(d), ClientOnly(d),
         NEW q, NEW t \in Taps, NEW p \in Posts, NEW r \in Values, Acks(d, q, t, p, r),
         NEW c \in Cells, NEW x \in Posts, CellRight(d, c, x)
  PROVE  CellRight(d, c, x)'
<1>1. OneMoves(t) /\ vote[t].dev = d /\ vote[t].post = p
  BY DEF Acks
<1>2. stage[t] \notin Queued \cup Closed /\ stage'[t] \notin Closed \cup {"answered"}
  BY DEF Acks, Queued, Closed
<1>3. VotesKept /\ NoVote(d) /\ Calm(d)
  BY <1>1, <1>2, MovedCalm
<1>4. \A s \in Taps : vote[s].dev = d =>
        /\ stage[s] \in Queued => stage'[s] = stage[s]
        /\ stage[s] = "failed" => stage'[s] = "failed"
  BY <1>3 DEF Calm, Closed
<1>5. AllAnswered(d, x)' => AllAnswered(d, x)
  BY <1>3, CalmAnswered
<1>6. /\ observers' = observers /\ thumb' = thumb
      /\ view' = [view EXCEPT ![d][p] = r]
      /\ mainq'[d] = (mainq[d] \o Event(d, p, r)) \o Reply(t)
  BY DEF Acks, ClientOnly
<1>7. CASE x = p
  <2>1. ~AllAnswered(d, x)'
    BY <1>1, <1>2, <1>7 DEF AllAnswered, Open, OneMoves
  <2> QED
    BY <2>1 DEF CellRight
<1>8. CASE x # p
  <2>1. ASSUME Faithful(d, c, x),
               Shows(mainq[d], c, thumb[d][c], Due(d, c, x), vote, stage)
        PROVE  Shows(mainq'[d], c, thumb'[d][c], Due(d, c, x)', vote', stage')
    <3>1. PICK a : a = mainq[d] \o Event(d, p, r)
      OBVIOUS
    <3>2. Shows(a, c, thumb[d][c], Due(d, c, x)', vote', stage') /\ a \in Seq(MainBlocks)
      BY <1>3, <1>4, <1>6, <1>8, <2>1, <3>1, EventCell
    <3>3. PICK z, vu, su : z = Due(d, c, x)' /\ vu = vote' /\ su = stage'
      OBVIOUS
    <3>4. su[t] # "answered"
      BY <1>2, <3>3
    <3>5. Shows(mainq'[d], c, thumb[d][c], z, vu, su)
      BY <1>6, <3>1, <3>2, <3>3, <3>4, ReplySilent
    <3> QED
      BY <1>6, <3>3, <3>5
  <2>2. observers[d] \subseteq observers'[d]
    BY <1>6
  <2> QED
    BY <1>3, <1>4, <1>5, <2>1, <2>2, CellKept
<1> QED
  BY <1>7, <1>8

LEMMA AckScreen ==
  ASSUME TypeOK, TurnsRight, NEW d \in Devices, OrderlyPhone(d), ViewOf(d), ScreenOf(d),
         DeliverAck(d)
  PROVE  ScreenOf(d)'
<1>1. AnswersRight(d) /\ ClientOnly(d)
  BY AckActs DEF ViewOf
<1>2. PICK q \in Seq(DownMessages), t \in Taps, p \in Posts, r \in Values :
        Acks(d, q, t, p, r)
  BY <1>1, AckActs
<1>3. /\ q = down[d] /\ q # << >> /\ Head(q).type = "reply" /\ Head(q).tap = t
      /\ down'[d] = Tail(q) /\ OneMoves(t) /\ vote[t].dev = d /\ vote[t].post = p
      /\ stage[t] \in {"stored", "refused"} /\ stage'[t] \in {"acked", "denied"}
      /\ synced' = [synced EXCEPT ![d][p] = AckedValue(d, t)]
  BY <1>2 DEF Acks, Answers
<1>4. /\ vote' = vote /\ Taps' = Taps /\ VotesKept
      /\ \A s \in Taps : s # t => stage'[s] = stage[s]
  BY <1>3 DEF OneMoves, VotesKept
<1>5. \A i \in 1..Len(Tail(q)) : Tail(q)[i].type = "reply" =>
        /\ vote'[Tail(q)[i].tap] = vote[Tail(q)[i].tap]
        /\ stage'[Tail(q)[i].tap] = stage[Tail(q)[i].tap]
  BY <1>1, <1>3, <1>4, FirstAnswer
<1>6. Watched(d)'
  <2>1. \A s \in Taps : Open(s)' => Open(s)
    BY <1>3, <1>4 DEF Open, Closed
  <2> QED
    BY <1>1, <1>4, <2>1 DEF ScreenOf, Watched, ClientOnly
<1>7. ASSUME NEW x \in Posts
      PROVE  Steadfast(d, x)'
  <2>1. synced'[d][x] = IF Speaks(Head(q), x, vote, stage) THEN Word(Head(q), vote)
                                                           ELSE synced[d][x]
    <3>1. synced \in [Devices -> [Posts -> Values]]
      BY DEF TypeOK, LinkTypeOK
    <3>2. Speaks(Head(q), x, vote, stage) <=> x = p /\ stage[t] = "stored"
      BY <1>3 DEF Speaks
    <3>3. Word(Head(q), vote) = NewValue(vote[t])
      BY <1>3 DEF Word
    <3>4. AckedValue(d, t) = IF stage[t] = "stored" THEN NewValue(vote[t]) ELSE synced[d][p]
      BY <1>3 DEF AckedValue
    <3> QED
      BY <1>3, <3>1, <3>2, <3>3, <3>4
  <2> QED
    BY <1>1, <1>3, <1>4, <1>5, <2>1, SteadfastTail DEF ScreenOf, ClientOnly
<1>8. ASSUME NEW x \in Posts
      PROVE  LastVote(d, x)'
  BY <1>1, <1>2, AckLast DEF ScreenOf
<1>9. ASSUME NEW c \in Cells, NEW x \in Posts
      PROVE  CellRight(d, c, x)'
  BY <1>1, <1>2, AckCell DEF ScreenOf
<1> QED
  BY <1>6, <1>7, <1>8, <1>9 DEF ScreenOf

-----------------------------------------------------------------------------
(* When the only open vote on a post is counted, it is the last one: what  *)
(* its completion tells is what its observers see.                         *)
LEMMA CommitLast ==
  ASSUME TypeOK, TurnsRight, NEW d \in Devices, Watched(d),
         NEW t \in Taps, OneMoves(t), vote[t].dev = d, stage[t] = "counted",
         NEW p \in Posts, p = vote[t].post,
         NEW c \in Cells, Faithful(d, c, p), LastVote(d, p), AllAnswered(d, p)'
  PROVE  view[d][p] = NewValue(vote[t]) /\ vote[t].cell = c /\ <<c, p>> \in observers[d]
<1>1. vote[t].cell = c /\ Alone(d)
  BY DEF Faithful
<1>2. Open(t) /\ stage[t] \in Seen
  BY DEF Open, Closed, Seen, Stored
<1>3. <<c, p>> \in observers[d]
  BY <1>1, <1>2 DEF Watched
<1>4. ASSUME NEW s \in Taps, Before(t, s, vote)
      PROVE  FALSE
  <2>1. s # t /\ vote[s].dev = d /\ vote[s].post = p
    BY <1>4, OrderTypes DEF Before
  <2>2. InTurn("counted", stage[s])
    BY <1>4 DEF TurnsRight
  <2>3. stage'[s] = stage[s] /\ vote' = vote /\ Taps' = Taps
    BY <2>1 DEF OneMoves
  <2>4. stage[s] \in Closed \cup {"answered"}
    BY <2>1, <2>3 DEF AllAnswered, Open
  <2>5. stage[s] # "failed"
    BY <2>1 DEF Faithful
  <2>6. stage[s] \in {"answered", "done", "lost"}
    BY <2>4, <2>5 DEF Closed
  <2>7. stage[s] # "lost"
    BY <2>2 DEF InTurn
  <2>8. stage[s] # "answered" /\ stage[s] # "done"
    BY <2>2, RankIs DEF InTurn
  <2> QED
    BY <2>6, <2>7, <2>8
<1>5. Last(d, p, t)
  BY <1>4 DEF Last
<1>6. view[d][p] = NewValue(vote[t])
  BY <1>1, <1>2, <1>5 DEF LastVote
<1> QED
  BY <1>1, <1>3, <1>6

(* The answer to a transaction arrives.                                    *)
LEMMA CommitScreen ==
  ASSUME TypeOK, TurnsRight, NEW d \in Devices, OrderlyPhone(d), AnswersRight(d),
         ScreenOf(d), DeliverCommit(d)
  PROVE  ScreenOf(d)'
<1>1. PICK q \in Seq(DownMessages) : q = down[d]
  BY ScreenTypes
<1>2. q # << >> /\ Head(q).type = "reply" /\ down'[d] = Tail(q)
  BY <1>1 DEF DeliverCommit, TypeOK, LinkTypeOK
<1>3. PICK t : t = Head(q).tap
  OBVIOUS
<1>4. t \in Taps /\ vote[t].dev = d
  BY <1>1, <1>2, <1>3, FirstAnswer
<1>5. PICK p \in Posts : p = vote[t].post
  BY <1>4, ScreenTypes
<1>6. /\ vote' = vote /\ Taps' = Taps
      /\ stage \in [Taps -> Stages] /\ mainq \in [Devices -> Seq(MainBlocks)]
  BY SameTaps DEF DeliverCommit, TypeOK, TapTypeOK, LinkTypeOK
<1>7. /\ stage[t] = "counted"
      /\ stage' = [stage EXCEPT ![t] = "answered"]
      /\ mainq' = [mainq EXCEPT ![d] = @ \o Reply(t)]
  BY <1>1, <1>3 DEF DeliverCommit
<1>8. /\ OneMoves(t) /\ stage'[t] = "answered"
      /\ mainq'[d] = mainq[d] \o Reply(t) /\ mainq[d] \in Seq(MainBlocks)
  BY <1>4, <1>6, <1>7 DEF OneMoves
<1>9. /\ VotesKept /\ NoVote(d)
      /\ \A s \in Taps : s # t => stage'[s] = stage[s]
  BY <1>8 DEF OneMoves, VotesKept, NoVote
<1>10. /\ alive[d] /\ alive' = alive /\ listening' = listening /\ record' = record
       /\ observers' = observers /\ row' = row /\ thumb' = thumb
       /\ synced' = synced /\ view' = view
  BY DEF DeliverCommit, dbVars, screenVars
<1>11. Watched(d)'
  <2>1. \A s \in Taps : Open(s)' => Open(s)
    BY <1>7, <1>9 DEF Open, Closed
  <2> QED
    BY <1>6, <1>10, <2>1 DEF ScreenOf, Watched
<1>12. ASSUME NEW x \in Posts
       PROVE  Steadfast(d, x)'
  <2>1. ~Speaks(Head(q), x, vote, stage)
    BY <1>2, <1>3, <1>7 DEF Speaks
  <2>2. \A i \in 1..Len(Tail(q)) : Tail(q)[i].type = "reply" =>
          /\ vote'[Tail(q)[i].tap] = vote[Tail(q)[i].tap]
          /\ stage'[Tail(q)[i].tap] = stage[Tail(q)[i].tap]
    BY <1>1, <1>2, <1>3, <1>6, <1>9, FirstAnswer
  <2> QED
    BY <1>1, <1>2, <1>9, <1>10, <2>1, <2>2, SteadfastTail DEF ScreenOf
<1>13. ASSUME NEW x \in Posts
       PROVE  LastVote(d, x)'
  <2>1. \A s \in Taps : /\ stage'[s] \in Stored => stage[s] \in Stored
                        /\ stage'[s] \in Seen => stage[s] \in Seen
    BY <1>7, <1>9 DEF Stored, Seen
  <2> QED
    BY <1>9, <1>10, <2>1, QuietLast DEF ScreenOf
<1>14. ASSUME NEW c \in Cells, NEW x \in Posts
       PROVE  CellRight(d, c, x)'
  <2>1. SUFFICES ASSUME Faithful(d, c, x)', AllAnswered(d, x)'
                 PROVE  Shows(mainq'[d], c, thumb'[d][c], Due(d, c, x)', vote', stage')
    BY DEF CellRight
  <2>2. Faithful(d, c, x)
    BY <1>6, <1>7, <1>9, <1>10, <2>1 DEF Faithful, Alone
  <2>3. thumb'[d][c] = thumb[d][c] /\ Due(d, c, x)' = Due(d, c, x)
    BY <1>10 DEF Due
  <2>4. CASE x = p
    <3>1. /\ view[d][p] = NewValue(vote[t])
          /\ vote[t].cell = c /\ <<c, p>> \in observers[d]
      BY <1>4, <1>5, <1>7, <1>8, <2>1, <2>2, <2>4, CommitLast DEF ScreenOf
    <3>2. Due(d, c, x) = AsThumb(NewValue(vote[t]))
      BY <2>4, <3>1 DEF Due
    <3>3. PICK z, vu, su : z = Due(d, c, x) /\ vu = vote' /\ su = stage'
      OBVIOUS
    <3>4. su[t] = "answered" /\ vu[t].cell = c /\ z = AsThumb(NewValue(vu[t]))
      BY <1>6, <1>8, <3>1, <3>2, <3>3
    <3>5. Shows(mainq'[d], c, thumb[d][c], z, vu, su)
      BY <1>4, <1>8, <3>4, ReplyTold
    <3> QED
      BY <2>3, <3>3, <3>5
  <2>5. CASE x # p
    <3>1. vote[t].cell # c
      <4>1. <<vote[t].cell, p>> \in observers[d]
        BY <1>4, <1>5, <1>7 DEF ScreenOf, Watched, Open, Closed
      <4> QED
        BY <2>2, <2>5, <4>1 DEF Faithful
    <3>2. AllAnswered(d, x)
      BY <1>5, <1>6, <1>9, <2>1, <2>5 DEF AllAnswered, Open
    <3>3. Shows(mainq[d], c, thumb[d][c], Due(d, c, x), vote, stage)
      BY <2>2, <3>2 DEF ScreenOf, CellRight
    <3>4. \A s \in Taps : stage[s] \in Queued => stage'[s] = stage[s]
      BY <1>7, <1>9 DEF Queued
    <3>5. Shows(mainq[d], c, thumb[d][c], Due(d, c, x), vote', stage')
      BY <1>9, <3>3, <3>4, QueueTells
    <3>6. PICK z, vu, su : z = Due(d, c, x) /\ vu = vote' /\ su = stage'
      OBVIOUS
    <3>7. vu[t].cell # c
      BY <1>6, <3>1, <3>6
    <3>8. Shows(mainq'[d], c, thumb[d][c], z, vu, su)
      BY <1>4, <1>8, <3>5, <3>6, <3>7, ReplySilent
    <3> QED
      BY <2>3, <3>6, <3>8
  <2> QED
    BY <2>4, <2>5
<1> QED
  BY <1>11, <1>12, <1>13, <1>14 DEF ScreenOf

-----------------------------------------------------------------------------
(* The main thread.                                                        *)

(* What the main thread leaves alone.                                      *)
ScreenOnly(d) ==
  /\ vote' = vote /\ Taps' = Taps /\ alive[d] /\ alive' = alive
  /\ down' = down /\ synced' = synced /\ listening' = listening /\ record' = record
  /\ view' = view /\ observers' = observers /\ row' = row

(* It runs the first of its blocks q, the completion of t.                 *)
Completes(d, q, t) ==
  /\ q = mainq[d] /\ q # << >> /\ Answers(Head(q), t) /\ mainq'[d] = Tail(q)
  /\ OneMoves(t) /\ vote[t].dev = d

LEMMA CompleteActs ==
  ASSUME TypeOK, NEW d \in Devices, OrderlyPhone(d),
         MainStored(d) \/ MainCounted(d) \/ MainError(d)
  PROVE  /\ ScreenOnly(d)
         /\ \E q \in Seq(MainBlocks), t \in Taps : Completes(d, q, t)
<1>1. PICK q \in Seq(MainBlocks) : q = mainq[d]
  BY ScreenTypes
<1>2. q # << >> /\ Head(q).type = "reply" /\ mainq'[d] = Tail(q)
  BY <1>1 DEF MainStored, MainCounted, MainError, TypeOK, LinkTypeOK
<1>3. PICK t : t = Head(q).tap
  OBVIOUS
<1>4. t \in Taps /\ vote[t].dev = d
  BY <1>1, <1>2, <1>3, HeadsKnown
<1>5. vote' = vote /\ Taps' = Taps /\ stage \in [Taps -> Stages]
  BY SameTaps, ScreenTypes DEF MainStored, MainCounted, MainError
<1>6. PICK x : stage' = [stage EXCEPT ![t] = x]
  BY <1>1, <1>3 DEF MainStored, MainCounted, MainError
<1>7. OneMoves(t)
  BY <1>4, <1>5, <1>6 DEF OneMoves
<1>8. ScreenOnly(d)
  BY <1>5 DEF ScreenOnly, MainStored, MainCounted, MainError, dbVars, linkVars, screenVars
<1>9. Completes(d, q, t)
  BY <1>1, <1>2, <1>3, <1>4, <1>7 DEF Completes, Answers
<1> QED
  BY <1>4, <1>8, <1>9

(* What a cell is going to show, once the completion of t has run.         *)
LEMMA CompleteShows ==
  ASSUME TypeOK, NEW d \in Devices, OrderlyPhone(d),
         NEW q \in Seq(MainBlocks), NEW t \in Taps, Completes(d, q, t),
         NEW c, NEW s, NEW r, Shows(mainq[d], c, s, r, vote, stage),
         NEW x, x = (IF stage[t] = "answered" /\ vote[t].cell = c
                     THEN AsThumb(NewValue(vote[t])) ELSE s)
  PROVE  Shows(mainq'[d], c, x, r, vote', stage')
<1>1. /\ q = mainq[d] /\ q # << >> /\ Head(q).type = "reply" /\ Head(q).tap = t
      /\ mainq'[d] = Tail(q) /\ vote' = vote
      /\ \A u \in Taps : u # t => stage'[u] = stage[u]
  BY DEF Completes, Answers, OneMoves
<1>2. PICK a \in Seq(MainBlocks) : a = Tail(q)
  BY <1>1, TailFacts
<1>3. x = IF Tells(Head(q), c, vote, stage) THEN Told(Head(q), c, vote) ELSE s
  BY <1>1 DEF Tells, Told
<1>4. Shows(a, c, x, r, vote, stage)
  BY <1>1, <1>2, <1>3, ShowsTail
<1>5. RightAnswers(q, d, Queued, vote, stage) /\ DOMAIN vote = Taps
  BY <1>1, ScreenTypes DEF OrderlyPhone, Orderly
<1>6. RightAnswers(a, d, Queued, vote, stage)
  BY <1>1, <1>2, <1>5, AnswersTail
<1>7. Unanswered(a, t)
  <2>1. PICK m \in MainBlocks : m = Head(q)
    BY <1>1, TailFacts
  <2>2. Unanswered(a, m.tap)
    BY <1>1, <1>2, <1>5, <2>1, AnswerTaken
  <2> QED
    BY <1>1, <2>1, <2>2
<1>8. \A i \in 1..Len(a) : a[i].type = "reply" =>
        vote'[a[i].tap] = vote[a[i].tap] /\ stage'[a[i].tap] = stage[a[i].tap]
  BY <1>1, <1>5, <1>6, <1>7 DEF RightAnswers, Unanswered
<1>9. Shows(a, c, x, r, vote', stage')
  BY <1>4, <1>8, ShowsSame
<1> QED
  BY <1>1, <1>2, <1>9

(* A step of the main thread that puts no vote back.                       *)
LEMMA MainKept ==
  ASSUME TypeOK, NEW d \in Devices, AnswersRight(d), ScreenOf(d), ScreenOnly(d),
         \A s \in Taps : vote[s].dev = d =>
           /\ stage[s] \in Awaited => stage'[s] = stage[s]
           /\ stage'[s] \in Stored => stage[s] \in Stored
           /\ stage'[s] \in Seen => stage[s] \in Seen
           /\ Open(s)' => Open(s)
  PROVE  /\ VotesKept /\ Watched(d)'
         /\ \A p \in Posts : Steadfast(d, p)' /\ LastVote(d, p)'
<1>1. VotesKept /\ NoVote(d)
  BY DEF ScreenOnly, VotesKept, NoVote
<1>2. Watched(d)'
  BY DEF ScreenOf, Watched, ScreenOnly
<1>3. ASSUME NEW p \in Posts
      PROVE  Steadfast(d, p)'
  BY <1>1, QuietSteadfast DEF ScreenOf, ScreenOnly
<1>4. ASSUME NEW p \in Posts
      PROVE  LastVote(d, p)'
  BY <1>1, QuietLast DEF ScreenOf, ScreenOnly
<1> QED
  BY <1>1, <1>2, <1>3, <1>4

(* A completion block.                                                     *)
LEMMA CompleteScreen ==
  ASSUME TypeOK, NEW d \in Devices, OrderlyPhone(d), AnswersRight(d), ScreenOf(d),
         MainStored(d) \/ MainCounted(d) \/ MainError(d)
  PROVE  ScreenOf(d)'
<1>1. ScreenOnly(d)
  BY CompleteActs
<1>2. PICK q \in Seq(MainBlocks), t \in Taps : Completes(d, q, t)
  BY CompleteActs
<1>3. /\ t = Head(mainq[d]).tap /\ vote[t].dev = d
      /\ vote' = vote /\ Taps' = Taps
      /\ \A s \in Taps : s # t => stage'[s] = stage[s]
  BY <1>2 DEF Completes, Answers, OneMoves
<1>4. PICK k \in Cells : k = vote[t].cell
  BY ScreenTypes
<1>5. stage \in [Taps -> Stages] /\ thumb \in [Devices -> [Cells -> {-1, 0, 1}]]
  BY DEF TypeOK, TapTypeOK, ScreenTypeOK
<1>6. \/ /\ stage[t] = "acked" /\ stage'[t] = "count" /\ thumb'[d] = thumb[d]
      \/ /\ stage[t] = "answered" /\ stage'[t] = "done"
         /\ \A c \in Cells : thumb'[d][c] =
              IF c = k THEN AsThumb(NewValue(vote[t])) ELSE thumb[d][c]
      \/ /\ stage[t] \in {"denied", "aborted"} /\ stage'[t] = "failed"
         /\ \A c \in Cells : c # k => thumb'[d][c] = thumb[d][c]
  <2>1. CASE MainStored(d)
    BY <1>3, <1>5, <2>1 DEF MainStored, screenVars
  <2>2. CASE MainCounted(d)
    BY <1>3, <1>4, <1>5, <2>2 DEF MainCounted, Complete
  <2>3. CASE MainError(d)
    BY <1>3, <1>4, <1>5, <2>3 DEF MainError, Complete
  <2> QED
    BY <2>1, <2>2, <2>3
<1>7. \A s \in Taps : vote[s].dev = d =>
        /\ stage[s] \in Awaited => stage'[s] = stage[s]
        /\ stage'[s] \in Stored => stage[s] \in Stored
        /\ stage'[s] \in Seen => stage[s] \in Seen
        /\ Open(s)' => Open(s)
  BY <1>3, <1>6 DEF Awaited, Stored, Seen, Open, Closed
<1>8. /\ VotesKept /\ Watched(d)'
      /\ \A p \in Posts : Steadfast(d, p)' /\ LastVote(d, p)'
  BY <1>1, <1>7, MainKept
<1>9. ASSUME NEW c \in Cells, NEW p \in Posts
      PROVE  CellRight(d, c, p)'
  <2>1. observers' = observers /\ Due(d, c, p)' = Due(d, c, p)
    BY <1>1 DEF ScreenOnly, Due
  <2>2. \A s \in Taps : stage[s] = "failed" => stage'[s] = "failed"
    BY <1>3, <1>6
  <2>3. Faithful(d, c, p)' /\ AllAnswered(d, p)' => AllAnswered(d, p)
    <3>1. CASE stage[t] = "answered"
      BY <1>3, <3>1 DEF AllAnswered, Open
    <3>2. CASE stage'[t] = "count"
      BY <1>3, <3>2 DEF AllAnswered, Open, Closed
    <3>3. CASE stage'[t] = "failed"
      BY <1>3, <3>3 DEF AllAnswered, Open, Faithful
    <3> QED
      BY <1>6, <3>1, <3>2, <3>3
  <2>4. ASSUME Faithful(d, c, p)',
               Shows(mainq[d], c, thumb[d][c], Due(d, c, p), vote, stage)
        PROVE  Shows(mainq'[d], c, thumb'[d][c], Due(d, c, p)', vote', stage')
    <3>1. PICK x : x = IF stage[t] = "answered" /\ vote[t].cell = c
                       THEN AsThumb(NewValue(vote[t])) ELSE thumb[d][c]
      OBVIOUS
    <3>2. Shows(mainq'[d], c, x, Due(d, c, p), vote', stage')
      BY <1>2, <2>4, <3>1, CompleteShows
    <3>3. stage'[t] = "failed" => c # k
      BY <1>3, <1>4, <2>4 DEF Faithful
    <3>4. thumb'[d][c] = x
      BY <1>4, <1>6, <3>1, <3>3
    <3> QED
      BY <2>1, <3>2, <3>4
  <2>5. observers[d] \subseteq observers'[d]
    BY <2>1
  <2> QED
    BY <1>8, <2>2, <2>3, <2>4, <2>5, CellKept DEF ScreenOf
<1> QED
  BY <1>8, <1>9 DEF ScreenOf

(* An observer's block.                                                    *)
LEMMA BlockScreen ==
  ASSUME TypeOK, NEW d \in Devices, OrderlyPhone(d), AnswersRight(d), ScreenOf(d),
         MainValue(d)
  PROVE  ScreenOf(d)'
<1>1. PICK q \in Seq(MainBlocks) : q = mainq[d]
  BY ScreenTypes
<1>2. q # << >> /\ Head(q).type = "value" /\ mainq'[d] = Tail(q)
  BY <1>1 DEF MainValue, TypeOK, LinkTypeOK
<1>3. ScreenOnly(d) /\ stage' = stage
  BY SameTaps DEF ScreenOnly, MainValue, dbVars, linkVars
<1>4. VotesKept /\ Watched(d)' /\ \A p \in Posts : Steadfast(d, p)' /\ LastVote(d, p)'
  <2>1. \A s \in Taps : Open(s)' => Open(s)
    BY <1>3 DEF Open
  <2> QED
    BY <1>3, <2>1, MainKept
<1>5. \A c \in Cells : thumb'[d][c] = IF Head(q).told[c] = NoRecord THEN thumb[d][c]
                                      ELSE AsThumb(Head(q).told[c])
  BY <1>1 DEF MainValue, TypeOK, ScreenTypeOK
<1>6. ASSUME NEW c \in Cells, NEW p \in Posts
      PROVE  CellRight(d, c, p)'
  <2>1. observers' = observers /\ Due(d, c, p)' = Due(d, c, p)
    BY <1>3 DEF ScreenOnly, Due
  <2>2. AllAnswered(d, p)' => AllAnswered(d, p)
    BY <1>3 DEF ScreenOnly, AllAnswered, Open
  <2>3. ASSUME Shows(mainq[d], c, thumb[d][c], Due(d, c, p), vote, stage)
        PROVE  Shows(mainq'[d], c, thumb'[d][c], Due(d, c, p)', vote', stage')
    <3>1. PICK a \in Seq(MainBlocks) : a = Tail(q)
      BY <1>2, TailFacts
    <3>2. PICK x : x = thumb'[d][c]
      OBVIOUS
    <3>3. x = IF Tells(Head(q), c, vote, stage) THEN Told(Head(q), c, vote)
                                                ELSE thumb[d][c]
      BY <1>2, <1>5, <3>2 DEF Tells, Told
    <3>4. Shows(a, c, x, Due(d, c, p), vote, stage)
      BY <1>1, <1>2, <2>3, <3>1, <3>3, ShowsTail
    <3> QED
      BY <1>2, <1>3, <2>1, <3>1, <3>2, <3>4 DEF ScreenOnly
  <2>4. observers[d] \subseteq observers'[d]
    BY <2>1
  <2> QED
    BY <1>3, <1>4, <2>2, <2>3, <2>4, CellKept DEF ScreenOf
<1> QED
  BY <1>4, <1>6 DEF ScreenOf

-----------------------------------------------------------------------------
(* The feed is read, the app is killed and starts again.                   *)

(* A cell is watched for the post in its row, and for no other.            *)
LEMMA RowsWatched ==
  ASSUME NEW f \in Layouts, NEW c \in Cells
  PROVE  /\ RowsOf(f)[c] # Nowhere =>
              RowsOf(f)[c] \in Posts /\ <<c, RowsOf(f)[c]>> \in Watching(f)
         /\ \A p \in Posts : <<c, p>> \in Watching(f) => RowsOf(f)[c] = p /\ p # Nowhere
<1>1. f \in [Posts -> Cells] /\ \A p, q \in Posts : f[p] = f[q] => p = q
  BY DEF Layouts
<1>2. RowsOf(f)[c] = IF \E p \in Posts : f[p] = c THEN CHOOSE p \in Posts : f[p] = c
                                                   ELSE Nowhere
  BY DEF RowsOf
<1>3. CASE \E p \in Posts : f[p] = c
  <2>1. PICK r : r = RowsOf(f)[c]
    OBVIOUS
  <2>2. r = CHOOSE p \in Posts : f[p] = c
    BY <1>2, <1>3, <2>1
  <2>3. r \in Posts /\ f[r] = c
    BY <1>3, <2>2
  <2>4. <<c, r>> \in Watching(f)
    BY <2>3 DEF Watching
  <2>5. ASSUME NEW p \in Posts, <<c, p>> \in Watching(f)
        PROVE  r = p /\ p # Nowhere
    <3>1. f[p] = c
      BY <2>5 DEF Watching
    <3> QED
      BY <1>1, <2>3, <3>1, PostAssumption
  <2> QED
    BY <2>1, <2>3, <2>4, <2>5
<1>4. CASE ~ \E p \in Posts : f[p] = c
  <2>1. \A p \in Posts : <<c, p>> \notin Watching(f)
    BY <1>4 DEF Watching
  <2> QED
    BY <1>2, <1>4, <2>1
<1> QED
  BY <1>3, <1>4

(* The block that a reload puts in the queue of the main thread, told of   *)
(* the layout f.                                                           *)
Telling(d, f) ==
  [type |-> "value", told |-> [c \in Cells |->
     LET p == RowsOf(f)[c]
     IN IF p = Nowhere THEN NoRecord
        ELSE IF view[d][p] = Unknown THEN NoRecord ELSE view[d][p]]]

(* It tells a cell what the observers of its post see.                     *)
LEMMA ReloadShows ==
  ASSUME TypeOK, NEW d \in Devices, NEW f \in Layouts, NEW c \in Cells, NEW p \in Posts,
         \A x \in Posts : <<c, x>> \in observers[d] \cup Watching(f) => x = p,
         NEW q \in Seq(MainBlocks), Telling(d, f) \in MainBlocks,
         NEW s, NEW vt, NEW st, Shows(q, c, s, Due(d, c, p), vt, st),
         NEW a, a = Append(q, Telling(d, f)),
         NEW z, z = (IF <<c, p>> \in observers[d] \cup Watching(f)
                     THEN AsThumb(view[d][p]) ELSE 0)
  PROVE  Shows(a, c, s, z, vt, st)
<1>1. PICK m \in MainBlocks : m = Telling(d, f)
  OBVIOUS
<1>2. PICK w : w = RowsOf(f)[c]
  OBVIOUS
<1>3. /\ m.type = "value"
      /\ m.told[c] = IF w = Nowhere \/ view[d][w] = Unknown THEN NoRecord ELSE view[d][w]
  BY <1>1, <1>2 DEF Telling
<1>4. AsThumb(NoRecord) = 0 /\ AsThumb(Unknown) = 0
  BY DEF AsThumb, NoRecord, Unknown
<1>5. CASE m.told[c] # NoRecord
  <2>1. w # Nowhere /\ m.told[c] = view[d][w]
    BY <1>3, <1>5
  <2>2. w = p /\ <<c, p>> \in Watching(f)
    BY <1>2, <2>1, RowsWatched
  <2>3. Tells(m, c, vt, st) /\ Told(m, c, vt) = z
    BY <1>3, <1>5, <2>1, <2>2 DEF Tells, Told
  <2> QED
    BY <1>1, <2>3, ShowsTold
<1>6. CASE m.told[c] = NoRecord
  <2>1. ~Tells(m, c, vt, st)
    BY <1>3, <1>6 DEF Tells
  <2>2. CASE <<c, p>> \in Watching(f)
    <3>1. w = p /\ w # Nowhere
      BY <1>2, <2>2, RowsWatched
    <3>2. AsThumb(view[d][p]) = 0
      BY <1>3, <1>4, <1>6, <3>1
    <3>3. z = Due(d, c, p)
      BY <3>2 DEF Due
    <3> QED
      BY <1>1, <2>1, <3>3, ShowsSilent
  <2>3. CASE <<c, p>> \notin Watching(f)
    <3>1. z = Due(d, c, p)
      BY <2>3 DEF Due
    <3> QED
      BY <1>1, <2>1, <3>1, ShowsSilent
  <2> QED
    BY <2>2, <2>3
<1> QED
  BY <1>5, <1>6

(* A reload.                                                               *)
LEMMA ReloadScreen ==
  ASSUME TypeOK, NEW d \in Devices, OrderlyPhone(d), AnswersRight(d), ScreenOf(d),
         ReloadFeed(d)
  PROVE  ScreenOf(d)'
<1>1. PICK f \in Layouts :
        /\ row' = [row EXCEPT ![d] = RowsOf(f)]
        /\ observers' = [observers EXCEPT ![d] = @ \cup Watching(f)]
        /\ mainq' = [mainq EXCEPT ![d] = Append(@, Telling(d, f))]
  BY DEF ReloadFeed, Fill, Telling
<1>2. /\ vote' = vote /\ Taps' = Taps /\ stage' = stage /\ alive[d] /\ alive' = alive
      /\ VotesKept /\ NoVote(d) /\ record' = record /\ thumb' = thumb
      /\ down' = down /\ synced' = synced /\ view' = view /\ listening' = listening
  BY SameVotes DEF ReloadFeed, dbVars, linkVars
<1>3. /\ row \in [Devices -> [Cells -> Posts \cup {Nowhere}]]
      /\ observers \in [Devices -> SUBSET (Cells \X Posts)]
      /\ mainq \in [Devices -> Seq(MainBlocks)] /\ view \in [Devices -> [Posts -> Values]]
  BY DEF TypeOK, ScreenTypeOK, LinkTypeOK
<1>4. /\ row'[d] = RowsOf(f) /\ observers'[d] = observers[d] \cup Watching(f)
      /\ mainq'[d] = Append(mainq[d], Telling(d, f))
  BY <1>1, <1>3
<1>5. Telling(d, f) \in MainBlocks
  <2>1. ASSUME NEW c \in Cells
        PROVE  Telling(d, f).told[c] \in Values
    <3>1. PICK p : p = RowsOf(f)[c]
      OBVIOUS
    <3>2. p # Nowhere => p \in Posts
      BY <3>1, RowsWatched
    <3>3. p # Nowhere => view[d][p] \in Values
      BY <1>3, <3>2
    <3> QED
      BY <3>1, <3>3 DEF Telling, Values
  <2> QED
    BY <2>1 DEF Telling, MainBlocks
<1>6. Watched(d)'
  <2>1. ASSUME NEW c \in Cells, RowsOf(f)[c] # Nowhere
        PROVE  <<c, RowsOf(f)[c]>> \in Watching(f)
    BY <2>1, RowsWatched
  <2> QED
    BY <1>2, <1>4, <2>1 DEF ScreenOf, Watched, Open
<1>7. ASSUME NEW p \in Posts
      PROVE  Steadfast(d, p)' /\ LastVote(d, p)'
  <2>1. Steadfast(d, p)'
    BY <1>2, QuietSteadfast DEF ScreenOf
  <2>2. LastVote(d, p)'
    BY <1>2, QuietLast DEF ScreenOf
  <2> QED
    BY <2>1, <2>2
<1>8. ASSUME NEW c \in Cells, NEW p \in Posts
      PROVE  CellRight(d, c, p)'
  <2>1. AllAnswered(d, p)' => AllAnswered(d, p)
    BY <1>2 DEF AllAnswered, Open
  <2>2. ASSUME Faithful(d, c, p)',
               Shows(mainq[d], c, thumb[d][c], Due(d, c, p), vote, stage)
        PROVE  Shows(mainq'[d], c, thumb'[d][c], Due(d, c, p)', vote', stage')
    <3>1. \A x \in Posts : <<c, x>> \in observers[d] \cup Watching(f) => x = p
      BY <1>4, <2>2 DEF Faithful
    <3>2. PICK z : z = Due(d, c, p)'
      OBVIOUS
    <3>3. z = IF <<c, p>> \in observers[d] \cup Watching(f) THEN AsThumb(view[d][p]) ELSE 0
      BY <1>2, <1>4, <3>2 DEF Due
    <3>4. Shows(mainq'[d], c, thumb[d][c], z, vote, stage)
      BY <1>3, <1>4, <1>5, <2>2, <3>1, <3>3, ReloadShows
    <3> QED
      BY <1>2, <3>2, <3>4
  <2>3. observers[d] \subseteq observers'[d]
    BY <1>4
  <2> QED
    BY <1>2, <2>1, <2>2, <2>3, CellKept DEF ScreenOf
<1> QED
  BY <1>6, <1>7, <1>8 DEF ScreenOf

(* The app dies.                                                           *)
LEMMA KillScreen ==
  ASSUME TypeOK, NEW d \in Devices, ScreenOf(d), Kill(d)
  PROVE  ScreenOf(d)'
<1>1. /\ vote' = vote /\ Taps' = Taps
      /\ \A t \in Taps : vote[t].dev = d => stage'[t] \in {"done", "lost"}
  BY SameVotes DEF Kill
<1>2. /\ \A c \in Cells : row'[d][c] = Nowhere /\ thumb'[d][c] = 0
      /\ \A p \in Posts : view'[d][p] = Unknown /\ synced'[d][p] = Unknown
      /\ observers'[d] = {} /\ mainq'[d] = << >> /\ down'[d] = << >>
  BY DEF Kill, TypeOK, LinkTypeOK, ScreenTypeOK
<1>3. Watched(d)'
  BY <1>1, <1>2 DEF Watched, Open, Closed
<1>4. \A p \in Posts : Steadfast(d, p)'
  BY <1>2 DEF Steadfast, Grows, Once, Blank
<1>5. \A p \in Posts : LastVote(d, p)'
  BY <1>1 DEF LastVote, Last, Stored, Seen
<1>6. \A c \in Cells, p \in Posts : CellRight(d, c, p)'
  BY <1>2 DEF CellRight, Shows, Due
<1> QED
  BY <1>3, <1>4, <1>5, <1>6 DEF ScreenOf

(* The app starts again.                                                   *)
LEMMA LaunchScreen ==
  ASSUME TypeOK, NEW d \in Devices, OrderlyPhone(d), AnswersRight(d), ScreenOf(d),
         Launch(d)
  PROVE  ScreenOf(d)'
<1>1. PICK f \in Layouts : /\ row' = [row EXCEPT ![d] = RowsOf(f)]
                           /\ observers' = [observers EXCEPT ![d] = Watching(f)]
  BY DEF Launch, Fill
<1>2. /\ vote' = vote /\ Taps' = Taps /\ stage' = stage /\ ~alive[d] /\ alive'[d]
      /\ VotesKept /\ NoVote(d) /\ record' = record /\ thumb' = thumb /\ mainq' = mainq
      /\ down' = down /\ synced' = synced /\ view' = view /\ listening' = listening
  BY SameVotes DEF Launch, dbVars, TypeOK, LinkTypeOK
<1>3. row'[d] = RowsOf(f) /\ observers'[d] = Watching(f)
  BY <1>1 DEF TypeOK, ScreenTypeOK
<1>4. /\ mainq[d] = << >> /\ observers[d] = {} /\ \A p \in Posts : view[d][p] = Unknown
      /\ \A t \in Taps : vote[t].dev = d => ~Open(t)
  BY <1>2 DEF ScreenOf, Watched
<1>5. Watched(d)'
  <2>1. ASSUME NEW c \in Cells, RowsOf(f)[c] # Nowhere
        PROVE  <<c, RowsOf(f)[c]>> \in Watching(f)
    BY <2>1, RowsWatched
  <2> QED
    BY <1>2, <1>3, <1>4, <2>1 DEF Watched, Open
<1>6. ASSUME NEW p \in Posts
      PROVE  Steadfast(d, p)' /\ LastVote(d, p)'
  <2>1. Steadfast(d, p)'
    BY <1>2, QuietSteadfast DEF ScreenOf
  <2>2. LastVote(d, p)'
    BY <1>2, QuietLast DEF ScreenOf
  <2> QED
    BY <2>1, <2>2
<1>7. ASSUME NEW c \in Cells, NEW p \in Posts
      PROVE  CellRight(d, c, p)'
  <2>1. AllAnswered(d, p)' => AllAnswered(d, p)
    BY <1>2 DEF AllAnswered, Open
  <2>2. Due(d, c, p)' = 0 /\ Due(d, c, p) = 0
    BY <1>2, <1>4 DEF Due, AsThumb, Unknown
  <2>3. ASSUME Shows(mainq[d], c, thumb[d][c], Due(d, c, p), vote, stage)
        PROVE  Shows(mainq'[d], c, thumb'[d][c], Due(d, c, p)', vote', stage')
    BY <1>2, <2>2, <2>3
  <2>4. observers[d] \subseteq observers'[d]
    BY <1>4
  <2> QED
    BY <1>2, <2>1, <2>3, <2>4, CellKept DEF ScreenOf
<1> QED
  BY <1>5, <1>6, <1>7 DEF ScreenOf

-----------------------------------------------------------------------------
(* All steps.                                                              *)

(* The app starts with a feed nobody voted on.                             *)
LEMMA InitScreen == Init => ScreenInv
<1> SUFFICES ASSUME Init, NEW d \in Devices
             PROVE  ScreenOf(d)
  BY DEF ScreenInv
<1>1. Taps = {}
  BY DEF Init, Taps
<1>2. PICK f \in Layouts : row[d] = RowsOf(f) /\ observers[d] = Watching(f)
  BY DEF Init
<1>3. /\ alive[d] /\ down[d] = << >> /\ mainq[d] = << >>
      /\ \A p \in Posts : synced[d][p] = Unknown /\ view[d][p] = Unknown
      /\ \A c \in Cells : thumb[d][c] = 0
  BY DEF Init
<1>4. Watched(d)
  <2>1. ASSUME NEW c \in Cells, RowsOf(f)[c] # Nowhere
        PROVE  <<c, RowsOf(f)[c]>> \in Watching(f)
    BY <2>1, RowsWatched
  <2> QED
    BY <1>1, <1>2, <1>3, <2>1 DEF Watched
<1>5. \A p \in Posts : Steadfast(d, p) /\ LastVote(d, p)
  BY <1>1, <1>3 DEF Steadfast, Grows, Once, Blank, LastVote, Last
<1>6. \A c \in Cells, p \in Posts : CellRight(d, c, p)
  BY <1>3 DEF CellRight, Shows, Due, AsThumb, Unknown
<1> QED
  BY <1>4, <1>5, <1>6 DEF ScreenOf

(* Each step of a phone keeps its own screen right.                        *)
LEMMA OwnScreen ==
  ASSUME TypeOK, ViewInv, OrderInv, ScreenInv, NEW d \in Devices,
         \/ \E c \in Cells, kind \in {1, -1} : Tap(d, c, kind)
         \/ ReloadFeed(d) \/ Launch(d) \/ Connect(d)
         \/ Server(d) \/ Client(d) \/ MainThread(d) \/ Fault(d)
  PROVE  ScreenOf(d)'
<1>1. /\ OrderlyPhone(d) /\ TurnsRight /\ ViewOf(d) /\ AnswersRight(d) /\ ScreenOf(d)
  BY DEF ViewInv, ViewOf, OrderInv, OrderlyPhone, TurnsRight, ScreenInv
<1>2. CASE \E c \in Cells, kind \in {1, -1} : Tap(d, c, kind)
  BY <1>1, <1>2, TapScreen
<1>3. CASE ReloadFeed(d)
  BY <1>1, <1>3, ReloadScreen
<1>4. CASE Launch(d)
  BY <1>1, <1>4, LaunchScreen
<1>5. CASE Connect(d) \/ \E p \in Posts : Listen(d, p)
  BY <1>1, <1>5, LinkScreen
<1>6. ASSUME NEW t \in Taps, StoreRecord(d, t) \/ RefuseRecord(d, t) \/ CommitCount(d, t)
      PROVE  ScreenOf(d)'
  BY <1>1, <1>6, ServeScreen
<1>7. CASE DeliverValue(d)
  BY <1>1, <1>7, ValueScreen
<1>8. CASE DeliverAck(d)
  BY <1>1, <1>8, AckScreen
<1>9. CASE DeliverCommit(d)
  BY <1>1, <1>9, CommitScreen
<1>10. ASSUME NEW t \in Taps, GiveUp(d, t) \/ Cancel(d, t)
       PROVE  ScreenOf(d)'
  BY <1>1, <1>10, AbortScreen
<1>11. CASE MainValue(d)
  BY <1>1, <1>11, BlockScreen
<1>12. CASE MainStored(d) \/ MainCounted(d) \/ MainError(d)
  BY <1>1, <1>12, CompleteScreen
<1>13. CASE Disconnect(d)
  BY <1>1, <1>13, BreakScreen
<1>14. CASE Kill(d)
  BY <1>1, <1>14, KillScreen
<1>15. ASSUME NEW t \in Taps, Forget(d, t)
       PROVE  ScreenOf(d)'
  BY <1>1, <1>15, ForgetScreen
<1> QED
  BY <1>2, <1>3, <1>4, <1>5, <1>6, <1>7, <1>8, <1>9, <1>10, <1>11, <1>12, <1>13, <1>14,
     <1>15
     DEF Server, Client, MainThread, Fault

(* Each step keeps every screen right.                                     *)
LEMMA NextScreen == TypeOK /\ ViewInv /\ OrderInv /\ ScreenInv /\ [Next]_vars => ScreenInv'
<1> SUFFICES ASSUME TypeOK, ViewInv, OrderInv, ScreenInv, [Next]_vars
             PROVE  ScreenInv'
  OBVIOUS
<1>1. ASSUME NEW d \in Devices,
             \/ \E c \in Cells, kind \in {1, -1} : Tap(d, c, kind)
             \/ ReloadFeed(d) \/ Launch(d) \/ Connect(d)
             \/ Server(d) \/ Client(d) \/ MainThread(d) \/ Fault(d)
      PROVE  ScreenInv'
  <2>1. ScreenOf(d)'
    BY <1>1, OwnScreen
  <2>2. ASSUME NEW e \in Devices, e # d
        PROVE  ScreenOf(e)'
    <3>1. OrderlyPhone(d) /\ OrderlyPhone(e) /\ AnswersRight(e) /\ ScreenOf(e)
      BY DEF ViewInv, ViewOf, OrderInv, OrderlyPhone, ScreenInv
    <3>2. Apart(e)
      BY <1>1, <2>2, <3>1, OthersApart
    <3> QED
      BY <3>1, <3>2, ApartScreen
  <2> QED
    BY <2>1, <2>2 DEF ScreenInv
<1>2. CASE UNCHANGED vars
  <2>1. UNCHANGED <<record, taps, vote, stage, synced, listening, down, view, alive, mainq,
                    observers, row, thumb>>
    BY <1>2 DEF vars, dbVars, tapVars, linkVars, screenVars
  <2> SUFFICES ASSUME NEW d \in Devices
               PROVE  ScreenOf(d)'
    BY DEF ScreenInv
  <2>2. Watched(d)'
    BY <2>1 DEF ScreenInv, ScreenOf, Watched, Open, Taps
  <2>3. ASSUME NEW p \in Posts
        PROVE  Steadfast(d, p)'
    BY <2>1 DEF ScreenInv, ScreenOf, Steadfast, Alone
  <2>4. ASSUME NEW p \in Posts
        PROVE  LastVote(d, p)'
    <3>1. LastVote(d, p)
      BY DEF ScreenInv, ScreenOf
    <3> QED
      BY <2>1, <3>1 DEF LastVote, Last, Alone, Taps
  <2>5. ASSUME NEW c \in Cells, NEW p \in Posts
        PROVE  CellRight(d, c, p)'
    <3>1. CellRight(d, c, p)
      BY DEF ScreenInv, ScreenOf
    <3>2. Faithful(d, c, p)' = Faithful(d, c, p)
      BY <2>1 DEF Faithful, Alone, Taps
    <3>3. AllAnswered(d, p)' = AllAnswered(d, p)
      BY <2>1 DEF AllAnswered, Open, Taps
    <3>4. Due(d, c, p)' = Due(d, c, p)
      BY <2>1 DEF Due
    <3> QED
      BY <2>1, <3>1, <3>2, <3>3, <3>4 DEF CellRight
  <2> QED
    BY <2>2, <2>3, <2>4, <2>5 DEF ScreenOf
<1> QED
  BY <1>1, <1>2 DEF Next

(* However often a user taps, whatever fails and restarts, what a cell     *)
(* that is for one post will show, when all blocks of the main thread have *)
(* run, is what its observers see of the record.                           *)
THEOREM ScreensFollowViews == Spec => []ScreenInv
<1>1. Init => ScreenInv
  BY InitScreen
<1>2. TypeOK /\ ViewInv /\ OrderInv /\ ScreenInv /\ [Next]_vars => ScreenInv'
  BY NextScreen
<1> QED
  BY <1>1, <1>2, TypeCorrect, ViewFollowsRecord, VotesStayInOrder, PTL DEF Spec

(* A settled cell shows the recorded vote of its user, unless a vote on it *)
(* failed, it was reused, or the user voted on the post elsewhere, too.    *)
THEOREM SettledCellHolds == Spec => []SettledCellShowsRecord
<1>1. ScreenInv /\ SettledViewIsRecord => SettledCellShowsRecord
  <2> SUFFICES ASSUME ScreenInv, SettledViewIsRecord,
                      NEW d \in Devices, NEW c \in Cells, NEW p \in Posts,
                      Settled(d, p), NeverReused(d, c, p),
                      \A t \in Taps : vote[t].dev = d =>
                        /\ vote[t].cell = c => stage[t] # "failed"
                        /\ vote[t].post = p => vote[t].cell = c /\ Alone(d)
               PROVE  thumb[d][c] = AsThumb(record[UserOf[d]][p])
    BY DEF SettledCellShowsRecord
  <2>1. view[d][p] = record[UserOf[d]][p]
    BY DEF SettledViewIsRecord
  <2>2. Faithful(d, c, p)
    BY DEF Faithful, NeverReused
  <2>3. AllAnswered(d, p)
    BY DEF AllAnswered, Settled
  <2>4. Shows(mainq[d], c, thumb[d][c], Due(d, c, p), vote, stage)
    BY <2>2, <2>3 DEF ScreenInv, ScreenOf, CellRight
  <2>5. mainq[d] = << >>
    BY DEF Settled
  <2>6. thumb[d][c] = Due(d, c, p)
    BY <2>4, <2>5 DEF Shows
  <2>7. <<c, p>> \in observers[d]
    <3>1. row[d][c] = p /\ p # Nowhere
      BY PostAssumption DEF NeverReused
    <3> QED
      BY <3>1 DEF ScreenInv, ScreenOf, Watched
  <2> QED
    BY <2>1, <2>6, <2>7 DEF Due
<1> QED
  BY <1>1, ScreensFollowViews, SettledViewHolds, PTL

-----------------------------------------------------------------------------
(* The counts of cells.                                                    *)

(* Tap t is a vote on p from phone d.                                      *)
Own(t, d, p) == t \in Taps /\ vote[t].dev = d /\ vote[t].post = p

(* What SettledCountIsExpected asks of the votes on p.                     *)
Undisturbed(d, p) ==
  /\ Alone(d)
  /\ \A t \in Taps : vote[t].dev = d /\ vote[t].post = p =>
       t \notin raced /\ stage[t] # "failed" /\ vote[t].informed

(* No post has two cells, and the cell of a vote that is under way still   *)
(* displays its post, unless the feed has been reloaded since.             *)
Placed(d) ==
  /\ \A c, k \in Cells : row[d][c] = row[d][k] /\ row[d][c] # Nowhere => c = k
  /\ \A t \in Taps : vote[t].dev = d /\ Open(t) /\ t \notin raced =>
       row[d][vote[t].cell] = vote[t].post

(* Votes of the same user on the same post.                                *)
Rivals(s, t) ==
  UserOf[vote[s].dev] = UserOf[vote[t].dev] /\ vote[s].post = vote[t].post

(* An informed vote is the only one of its user on its post under way.     *)
Single == \A s, t \in Taps : s < t /\ Rivals(s, t) /\ vote[t].informed => ~Open(s)

(* No vote of d on p is under way.                                         *)
Idle(d, p) == \A t \in Taps : Own(t, d, p) => ~Open(t)

(* Between undisturbed votes the observers of p see what is recorded.      *)
Seeing(d, p) == view[d][p] \in {Unknown, record[UserOf[d]][p]}
Known(d, p) == Undisturbed(d, p) /\ Idle(d, p) => Seeing(d, p)

(* Block b tells cell c a record.                                          *)
Paints(b, c) == b.type = "value" /\ b.told[c] # NoRecord

(* The thumb of c, now s, becomes v and stays it: either it is v already,  *)
(* or a block before the answer to t says so; and no later one says else.  *)
From(q, c, s, v, t, j) ==
  /\ j \in 0..Len(q)
  /\ j = 0 => s = v
  /\ j # 0 => Paints(q[j], c) /\ AsThumb(q[j].told[c]) = v
  /\ \A i \in 1..Len(q) : i > j /\ Paints(q[i], c) => AsThumb(q[i].told[c]) = v
  /\ \A i \in 1..Len(q) : i <= j => ~Answers(q[i], t)
Becomes(q, c, s, v, t) == \E j \in Nat : From(q, c, s, v, t, j)

(* Votes that have not been refused or given up; those that are counted    *)
(* and not yet shown; and those that end with an error.                    *)
Live   == {"sent", "stored", "refused", "acked", "count", "counted", "answered"}
Scored == {"counted", "answered"}
Failing == {"cancelled", "aborted", "forgotten"}

(* No vote of d on p is counted but not shown, or about to fail.           *)
NoneCounted(d, p) == \A t \in Taps : Own(t, d, p) => stage[t] \notin Scored \cup Failing

(* A vote that is counted is missing from the count of its cell until the  *)
(* completion has run, and by then the thumb shows the vote.               *)
Pays(d, c, p, t) ==
  /\ stage[t] \in Scored => count[d][c] + vote[t].kind * Delta(vote[t]) = expected[d][p]
  /\ stage[t] \in Live => Becomes(mainq[d], c, thumb[d][c], NewValue(vote[t]), t)

(* The count of cell c, which has displayed only p since it was loaded.    *)
Tally(d, c, p) ==
  /\ NoneCounted(d, p) => count[d][c] = expected[d][p]
  /\ \A t \in Taps : Own(t, d, p) => Pays(d, c, p, t)
ScoreRight(d, c, p) == Undisturbed(d, p) /\ NeverReused(d, c, p) => Tally(d, c, p)

(* What holds of the phone d.                                              *)
ScoreOf(d) ==
  /\ Placed(d)
  /\ \A p \in Posts : Known(d, p)
  /\ \A c \in Cells, p \in Posts : ScoreRight(d, c, p)

(* The inductive invariant of the counts.                                  *)
ScoreInv == Single /\ \A d \in Devices : ScoreOf(d)

-----------------------------------------------------------------------------
(* What a queue of blocks makes of a thumb.                                *)

(* One more block that tells the same, or nothing.                         *)
LEMMA BecomesMore ==
  ASSUME NEW S, NEW q \in Seq(S), NEW b \in S, NEW c, NEW s, NEW v, NEW t,
         Becomes(q, c, s, v, t), Paints(b, c) => AsThumb(b.told[c]) = v,
         NEW a, a = Append(q, b)
  PROVE  Becomes(a, c, s, v, t)
<1>0. PICK n \in Nat : n = Len(q)
  BY AppendFacts
<1>1. Len(a) = n + 1 /\ a[n + 1] = b /\ \A i \in 1..n : a[i] = q[i]
  BY <1>0, AppendFacts
<1>2. PICK j \in Nat : From(q, c, s, v, t, j)
  BY DEF Becomes
<1>3. j \in 0..n /\ j \in 0..Len(a) /\ (j # 0 => j \in 1..n)
  BY <1>0, <1>1, <1>2 DEF From
<1>4. ASSUME NEW i \in 1..Len(a), i > j, Paints(a[i], c)
      PROVE  AsThumb(a[i].told[c]) = v
  <2>1. CASE i = n + 1
    BY <1>1, <1>4, <2>1
  <2>2. CASE i # n + 1
    <3>1. i \in 1..n /\ a[i] = q[i]
      BY <1>1, <2>2
    <3> QED
      BY <1>0, <1>2, <1>4, <3>1 DEF From
  <2> QED
    BY <2>1, <2>2
<1>5. ASSUME NEW i \in 1..Len(a), i <= j
      PROVE  ~Answers(a[i], t)
  <2>1. i \in 1..n /\ a[i] = q[i]
    BY <1>1, <1>3, <1>5
  <2> QED
    BY <1>0, <1>2, <1>5, <2>1 DEF From
<1>6. j # 0 => Paints(a[j], c) /\ AsThumb(a[j].told[c]) = v
  BY <1>1, <1>2, <1>3 DEF From
<1>7. From(a, c, s, v, t, j)
  BY <1>2, <1>3, <1>4, <1>5, <1>6 DEF From
<1> QED
  BY <1>7 DEF Becomes

(* A new block says so, and t is not answered before.                      *)
LEMMA BecomesNow ==
  ASSUME NEW S, NEW q \in Seq(S), NEW b \in S, NEW c, NEW s, NEW v, NEW t,
         \A i \in 1..Len(q) : ~Answers(q[i], t),
         Paints(b, c), AsThumb(b.told[c]) = v,
         NEW a, a = Append(q, b)
  PROVE  Becomes(a, c, s, v, t)
<1>0. PICK n \in Nat : n = Len(q)
  BY AppendFacts
<1>1. Len(a) = n + 1 /\ a[n + 1] = b /\ \A i \in 1..n : a[i] = q[i]
  BY <1>0, AppendFacts
<1>2. PICK j \in Nat : j = n + 1
  OBVIOUS
<1>3. j \in 0..Len(a) /\ j # 0 /\ a[j] = b
  BY <1>1, <1>2
<1>4. \A i \in 1..Len(a) : ~(i > j)
  BY <1>1, <1>2
<1>5. ASSUME NEW i \in 1..Len(a)
      PROVE  ~Answers(a[i], t)
  <2>1. CASE i = n + 1
    BY <1>1, <2>1 DEF Answers, Paints
  <2>2. CASE i # n + 1
    <3>1. i \in 1..n /\ a[i] = q[i]
      BY <1>1, <2>2
    <3> QED
      BY <1>0, <3>1
  <2> QED
    BY <2>1, <2>2
<1>6. From(a, c, s, v, t, j)
  BY <1>3, <1>4, <1>5 DEF From
<1> QED
  BY <1>6 DEF Becomes

(* The first block has run, and is not needed any more.                    *)
LEMMA BecomesTail ==
  ASSUME NEW S, NEW q \in Seq(S), q # << >>, NEW c, NEW s, NEW v, NEW t,
         Becomes(q, c, s, v, t), 
         NEW x, x = (IF Paints(Head(q), c) THEN AsThumb(Head(q).told[c]) ELSE s),
         NEW a, a = Tail(q)
  PROVE  Becomes(a, c, x, v, t)
<1>0. PICK n \in Nat : n = Len(a) /\ Len(q) = n + 1
  BY TailFacts
<1>1. Head(q) = q[1] /\ \A i \in 1..n : i + 1 \in 1..Len(q) /\ a[i] = q[i + 1]
  BY <1>0, TailFacts
<1>2. PICK j \in Nat : From(q, c, s, v, t, j)
  BY DEF Becomes
<1>3. PICK k \in Nat : k = IF j = 0 THEN 0 ELSE j - 1
  OBVIOUS
<1>4. k \in 0..n /\ j \in 0..(n + 1) /\ 1 \in 1..Len(q)
  BY <1>0, <1>2, <1>3 DEF From
<1>5. k = 0 => x = v
  <2>1. CASE j = 0
    <3>1. s = v /\ (Paints(q[1], c) => AsThumb(q[1].told[c]) = v)
      BY <1>2, <1>4, <2>1 DEF From
    <3> QED
      BY <1>1, <3>1
  <2>2. CASE j = 1
    BY <1>1, <1>2, <2>2 DEF From
  <2> QED
    BY <1>3, <2>1, <2>2
<1>6. k # 0 => Paints(a[k], c) /\ AsThumb(a[k].told[c]) = v
  <2> HAVE k # 0
  <2>1. j = k + 1 /\ k \in 1..n /\ j # 0
    BY <1>3, <1>4
  <2>2. a[k] = q[j]
    BY <1>1, <2>1
  <2> QED
    BY <1>2, <2>1, <2>2 DEF From
<1>7. ASSUME NEW i \in 1..Len(a), i > k, Paints(a[i], c)
      PROVE  AsThumb(a[i].told[c]) = v
  <2>1. PICK m \in 1..Len(q) : m = i + 1 /\ a[i] = q[m]
    BY <1>0, <1>1
  <2>2. m > j
    BY <1>3, <1>7, <2>1
  <2> QED
    BY <1>2, <1>7, <2>1, <2>2 DEF From
<1>8. ASSUME NEW i \in 1..Len(a), i <= k
      PROVE  ~Answers(a[i], t)
  <2>1. PICK m \in 1..Len(q) : m = i + 1 /\ a[i] = q[m]
    BY <1>0, <1>1
  <2>2. m <= j
    BY <1>3, <1>8, <2>1
  <2> QED
    BY <1>2, <2>1, <2>2 DEF From
<1>9. From(a, c, x, v, t, k)
  BY <1>0, <1>4, <1>5, <1>6, <1>7, <1>8 DEF From
<1> QED
  BY <1>9 DEF Becomes

(* When the first block answers t the thumb shows the vote.                *)
LEMMA BecomesAnswered ==
  ASSUME NEW S, NEW q \in Seq(S), q # << >>, NEW c, NEW s, NEW v, NEW t,
         Becomes(q, c, s, v, t), Answers(Head(q), t)
  PROVE  s = v
<1>1. PICK j \in Nat : From(q, c, s, v, t, j)
  BY DEF Becomes
<1>2. Head(q) = q[1] /\ 1 \in 1..Len(q)
  BY TailFacts
<1>3. ~(1 <= j)
  BY <1>1, <1>2 DEF From
<1>4. j = 0
  BY <1>3
<1> QED
  BY <1>1, <1>4 DEF From

(* An event for p that tells c nothing else.                               *)
LEMMA BecomesEvent ==
  ASSUME NEW q \in Seq(MainBlocks), NEW d, NEW p \in Posts, NEW r \in Values,
         NEW c \in Cells, NEW s, NEW v, NEW t,
         \/ Becomes(q, c, s, v, t) /\ (<<c, p>> \in observers[d] => AsThumb(r) = v)
         \/ /\ \A i \in 1..Len(q) : ~Answers(q[i], t)
            /\ <<c, p>> \in observers[d] /\ AsThumb(r) = v
            /\ r # view[d][p] /\ r # NoRecord,
         NEW a, a = q \o Event(d, p, r)
  PROVE  Becomes(a, c, s, v, t) /\ a \in Seq(MainBlocks)
<1> DEFINE told == [k \in Cells |-> IF <<k, p>> \in observers[d] THEN r ELSE NoRecord]
<1>1. PICK m : m = [type |-> "value", told |-> told]
  OBVIOUS
<1>2. m \in MainBlocks /\ m.type = "value"
  <2>1. told \in [Cells -> Values]
    BY DEF Values, NoRecord
  <2> QED
    BY <1>1, <2>1 DEF MainBlocks
<1>3. m.told[c] = IF <<c, p>> \in observers[d] THEN r ELSE NoRecord
  BY <1>1
<1>4. q \o << >> = q /\ q \o <<m>> = Append(q, m)
  BY <1>2
<1>5. Event(d, p, r) = IF r = view[d][p] THEN << >> ELSE <<m>>
  BY <1>1 DEF Event
<1>6. a = IF r = view[d][p] THEN q ELSE Append(q, m)
  BY <1>4, <1>5
<1>7. a \in Seq(MainBlocks)
  BY <1>2, <1>6, AppendFacts
<1>8. CASE Becomes(q, c, s, v, t) /\ (<<c, p>> \in observers[d] => AsThumb(r) = v)
  <2>1. Paints(m, c) => AsThumb(m.told[c]) = v
    BY <1>3, <1>8 DEF Paints
  <2>2. a = Append(q, m) => Becomes(a, c, s, v, t)
    BY <1>2, <1>8, <2>1, BecomesMore
  <2> QED
    BY <1>6, <1>7, <1>8, <2>2
<1>9. CASE /\ \A i \in 1..Len(q) : ~Answers(q[i], t)
           /\ <<c, p>> \in observers[d] /\ AsThumb(r) = v
           /\ r # view[d][p] /\ r # NoRecord
  <2>1. Paints(m, c) /\ AsThumb(m.told[c]) = v /\ a = Append(q, m)
    BY <1>2, <1>3, <1>6, <1>9 DEF Paints
  <2>2. Becomes(a, c, s, v, t)
    BY <1>2, <1>9, <2>1, BecomesNow
  <2> QED
    BY <1>7, <2>2
<1> QED
  BY <1>8, <1>9

(* An answer at the end of the queue tells no record.                      *)
LEMMA BecomesReply ==
  ASSUME NEW y \in Seq(MainBlocks), NEW u \in Taps, NEW c, NEW s, NEW v, NEW t,
         Becomes(y, c, s, v, t), NEW a, a = y \o Reply(u)
  PROVE  Becomes(a, c, s, v, t)
<1>1. PICK m \in MainBlocks : Answers(m, u) /\ a = Append(y, m)
  BY ReplyAppended
<1>2. ~Paints(m, c)
  BY <1>1 DEF Answers, Paints
<1> QED
  BY <1>1, <1>2, BecomesMore

-----------------------------------------------------------------------------
(* Undisturbed votes.                                                      *)

(* No other vote on the post is under way with one.                        *)
LEMMA OnlyOpen ==
  ASSUME TypeOK, Single, NEW d, NEW p, Undisturbed(d, p),
         NEW t, Own(t, d, p), Open(t), NEW s, Own(s, d, p), s # t
  PROVE  ~Open(s)
<1>1. s \in Int /\ t \in Int /\ Rivals(s, t) /\ Rivals(t, s)
  BY DEF Own, Rivals, Taps, TypeOK, TapTypeOK
<1>2. s < t \/ t < s
  BY <1>1
<1>3. vote[s].informed /\ vote[t].informed
  BY DEF Undisturbed, Own
<1> QED
  BY <1>1, <1>2, <1>3 DEF Single, Own

(* It is the last of them.                                                 *)
LEMMA OpenIsLast ==
  ASSUME TypeOK, Single, NEW d, NEW p, Undisturbed(d, p),
         NEW t, Own(t, d, p), Open(t)
  PROVE  Last(d, p, t)
<1>1. ASSUME NEW s \in Taps, Before(t, s, vote)
      PROVE  FALSE
  <2>1. Own(s, d, p) /\ vote[s].informed /\ Rivals(t, s) /\ t < s
    BY <1>1 DEF Before, Own, Undisturbed, Rivals
  <2> QED
    BY <1>1, <2>1 DEF Single, Own
<1> QED
  BY <1>1 DEF Last, Own

(* What a cell that was for one post completes is a vote on that post.     *)
LEMMA CellIsOfPost ==
  ASSUME TypeOK, NEW d \in Devices, Watched(d), NEW c \in Cells, NEW p \in Posts,
         NeverReused(d, c, p), NEW t \in Taps, vote[t].dev = d, vote[t].cell = c, Open(t)
  PROVE  Own(t, d, p)
<1>1. vote[t].post \in Posts
  BY ScreenTypes
<1>2. <<c, vote[t].post>> \in observers[d]
  BY DEF Watched
<1> QED
  BY <1>1, <1>2 DEF NeverReused, Own

(* The vote is completed in the cell that displays its post.               *)
LEMMA PostIsOfCell ==
  ASSUME TypeOK, NEW d \in Devices, Placed(d), NEW c \in Cells, NEW p \in Posts,
         Undisturbed(d, p), NeverReused(d, c, p), NEW t, Own(t, d, p), Open(t)
  PROVE  vote[t].cell = c
<1>1. t \in Taps /\ vote[t].cell \in Cells /\ t \notin raced /\ p # Nowhere
  BY ScreenTypes, PostAssumption DEF Own, Undisturbed
<1>2. row[d][vote[t].cell] = p /\ row[d][c] = p
  BY <1>1 DEF Placed, Own, NeverReused
<1> QED
  BY <1>1, <1>2 DEF Placed

(* A post whose votes are undisturbed after a step that ends no vote well  *)
(* was so before.                                                          *)
LEMMA UndisturbedBefore ==
  ASSUME NEW d, NEW p, VotesKept, raced \subseteq raced',
         \A t \in Taps : vote[t].dev = d /\ stage[t] = "failed" => stage'[t] = "failed",
         Undisturbed(d, p)'
  PROVE  Undisturbed(d, p)
<1>1. Alone(d)
  BY DEF Undisturbed, Alone
<1> SUFFICES ASSUME NEW t \in Taps, vote[t].dev = d, vote[t].post = p
             PROVE  t \notin raced /\ stage[t] # "failed" /\ vote[t].informed
  BY <1>1 DEF Undisturbed
<1>2. t \in Taps' /\ vote'[t] = vote[t]
  BY DEF VotesKept
<1>3. t \notin raced' /\ stage'[t] # "failed" /\ vote'[t].informed
  BY <1>2 DEF Undisturbed
<1> QED
  BY <1>2, <1>3

-----------------------------------------------------------------------------
(* Steps that neither make nor end a vote of a phone, nor count one.       *)
Gentle(e) ==
  \A t \in Taps : vote[t].dev = e =>
    /\ Open(t) <=> Open(t)'
    /\ stage[t] = "failed" => stage'[t] = "failed"
    /\ stage'[t] \in Live => stage[t] \in Live
    /\ stage'[t] \in Scored => stage[t] \in Scored
    /\ stage[t] \in Scored \cup Failing => stage'[t] \in Scored \cup Failing

(* They keep its counts right if observers go on seeing what is recorded   *)
(* and the blocks make of the thumbs what they made.                       *)
LEMMA GentleScore ==
  ASSUME TypeOK, NEW e \in Devices, ScoreOf(e), VotesKept, NoVote(e), Gentle(e),
         raced \subseteq raced', row'[e] = row[e], observers'[e] = observers[e],
         count'[e] = count[e], expected'[e] = expected[e],
         \A p \in Posts : Undisturbed(e, p) /\ Idle(e, p) /\ Seeing(e, p) => Seeing(e, p)',
         \A c \in Cells, p \in Posts, t \in Taps :
           /\ Undisturbed(e, p) /\ NeverReused(e, c, p) /\ Own(t, e, p)
           /\ stage[t] \in Live /\ stage'[t] \in Live
           /\ Becomes(mainq[e], c, thumb[e][c], NewValue(vote[t]), t)
           => Becomes(mainq'[e], c, thumb'[e][c], NewValue(vote[t]), t)
  PROVE  ScoreOf(e)'
<1>1. /\ \A t \in Taps : t \in Taps' /\ vote'[t] = vote[t]
      /\ \A t \in Taps' : vote'[t].dev = e => t \in Taps
  BY DEF VotesKept, NoVote
<1>2. ASSUME NEW p, Undisturbed(e, p)'
      PROVE  Undisturbed(e, p)
  <2>1. \A t \in Taps : vote[t].dev = e /\ stage[t] = "failed" => stage'[t] = "failed"
    BY DEF Gentle
  <2> QED
    BY <1>2, <2>1, UndisturbedBefore
<1>3. \A t, p : Own(t, e, p)' <=> Own(t, e, p)
  BY <1>1 DEF Own
<1>4. Placed(e)'
  <2>1. \A c, k \in Cells : row'[e][c] = row'[e][k] /\ row'[e][c] # Nowhere => c = k
    BY DEF ScoreOf, Placed
  <2>2. ASSUME NEW t \in Taps', vote'[t].dev = e, Open(t)', t \notin raced'
        PROVE  row'[e][vote'[t].cell] = vote'[t].post
    <3>1. t \in Taps /\ vote'[t] = vote[t] /\ Open(t) /\ t \notin raced
      BY <1>1, <2>2 DEF Gentle
    <3> QED
      BY <2>2, <3>1 DEF ScoreOf, Placed
  <2> QED
    BY <2>1, <2>2 DEF Placed
<1>5. ASSUME NEW p \in Posts
      PROVE  Known(e, p)'
  <2> SUFFICES ASSUME Undisturbed(e, p)', Idle(e, p)'
               PROVE  Seeing(e, p)'
    BY DEF Known
  <2>1. Undisturbed(e, p)
    BY <1>2
  <2>2. Idle(e, p)
    BY <1>3 DEF Idle, Gentle, Own
  <2> QED
    BY <2>1, <2>2 DEF ScoreOf, Known
<1>6. ASSUME NEW c \in Cells, NEW p \in Posts
      PROVE  ScoreRight(e, c, p)'
  <2> SUFFICES ASSUME Undisturbed(e, p)', NeverReused(e, c, p)'
               PROVE  Tally(e, c, p)'
    BY DEF ScoreRight
  <2>1. Undisturbed(e, p) /\ NeverReused(e, c, p)
    BY <1>2 DEF NeverReused
  <2>2. Tally(e, c, p)
    BY <2>1 DEF ScoreOf, ScoreRight
  <2>3. NoneCounted(e, p)' => NoneCounted(e, p)
    BY SMTT(30), <1>3 DEF NoneCounted, Gentle, Own
  <2>4. ASSUME NEW t, Own(t, e, p)'
        PROVE  Pays(e, c, p, t)'
    <3>1. Own(t, e, p) /\ t \in Taps /\ vote[t].dev = e /\ vote'[t] = vote[t]
      BY <1>1, <1>3, <2>4 DEF Own
    <3>2. Pays(e, c, p, t)
      BY <2>2, <3>1 DEF Tally
    <3>3. /\ stage'[t] \in Scored => stage[t] \in Scored
          /\ stage'[t] \in Live => stage[t] \in Live
      BY <3>1 DEF Gentle
    <3>4. stage'[t] \in Scored =>
            count'[e][c] + vote'[t].kind * Delta(vote'[t]) = expected'[e][p]
      BY <3>1, <3>2, <3>3 DEF Pays
    <3>5. stage'[t] \in Live =>
            Becomes(mainq'[e], c, thumb'[e][c], NewValue(vote'[t]), t)
      BY <2>1, <3>1, <3>2, <3>3 DEF Pays
    <3> QED
      BY <3>4, <3>5 DEF Pays
  <2> QED
    BY <2>2, <2>3, <2>4 DEF Tally
<1> QED
  BY <1>4, <1>5, <1>6 DEF ScoreOf

-----------------------------------------------------------------------------
(* Steps of the connection and the server, but for the count.              *)

(* What a phone's own screen makes of a step that leaves it alone.         *)
LEMMA SameTold ==
  ASSUME NEW e \in Devices, SameScreen(e)
  PROVE  /\ row'[e] = row[e] /\ observers'[e] = observers[e]
         /\ mainq'[e] = mainq[e] /\ thumb'[e] = thumb[e] /\ view'[e] = view[e]
BY DEF SameScreen

(* The steps of the link, of a listener and of the record's write end no   *)
(* vote.                                                                   *)
LEMMA LinkGentle ==
  ASSUME TypeOK, NEW d \in Devices,
         \/ Connect(d) \/ Disconnect(d) \/ \E p \in Posts : Listen(d, p)
         \/ \E t \in Taps : StoreRecord(d, t) \/ RefuseRecord(d, t)
  PROVE  Gentle(d)
<1>1. stage \in [Taps -> Stages]
  BY ScreenTypes
<1>2. CASE Connect(d) \/ \E p \in Posts : Listen(d, p)
  <2>1. stage' = stage
    BY <1>2 DEF Connect, Listen
  <2> QED
    BY <2>1 DEF Gentle, Open
<1>3. CASE Disconnect(d)
  <2>1. PICK kept : stage' = [t \in Taps |-> AfterDrop(d, kept, t)]
    BY <1>3 DEF Disconnect
  <2>2. \A t \in Taps : stage'[t] = AfterDrop(d, kept, t)
    BY <2>1
  <2>3. ASSUME NEW t \in Taps
        PROVE  \/ stage'[t] = stage[t]
               \/ stage[t] \in {"stored", "refused"} /\ stage'[t] = "sent"
               \/ stage[t] \in {"count", "counted"} /\ stage'[t] = "cancelled"
    BY <2>2 DEF AfterDrop
  <2> SUFFICES ASSUME NEW t \in Taps
               PROVE  /\ Open(t) <=> Open(t)'
                      /\ stage[t] = "failed" => stage'[t] = "failed"
                      /\ stage'[t] \in Live => stage[t] \in Live
                      /\ stage'[t] \in Scored => stage[t] \in Scored
                      /\ stage[t] \in Scored \cup Failing => stage'[t] \in Scored \cup Failing
    BY DEF Gentle
  <2>4. PICK x, y : x = stage[t] /\ y = stage'[t]
    OBVIOUS
  <2>5. \/ y = x
        \/ x \in {"stored", "refused"} /\ y = "sent"
        \/ x \in {"count", "counted"} /\ y = "cancelled"
    BY <2>3, <2>4
  <2>6. /\ x \notin Closed <=> y \notin Closed
        /\ x = "failed" => y = "failed"
        /\ y \in Scored => x \in Scored
        /\ x \in Scored \cup Failing => y \in Scored \cup Failing
    BY <2>5 DEF Closed, Scored, Failing
  <2>7. y \in Live => x \in Live
    BY <2>5 DEF Live
  <2> QED
    BY <2>4, <2>6, <2>7 DEF Open
<1>4. ASSUME NEW t \in Taps, StoreRecord(d, t) \/ RefuseRecord(d, t)
      PROVE  Gentle(d)
  <2>1. stage[t] = "sent" /\ \A s \in Taps : s # t => stage'[s] = stage[s]
    BY SMTT(30), <1>1, <1>4 DEF StoreRecord, RefuseRecord, FirstWrite
  <2>2. stage'[t] \in {"stored", "refused"}
    BY <1>1, <1>4 DEF StoreRecord, RefuseRecord
  <2> QED
    BY <2>1, <2>2 DEF Gentle, Open, Closed, Live, Scored, Failing
<1> QED
  BY <1>2, <1>3, <1>4

(* A record is written while its vote is under way.                        *)
LEMMA LinkSeeing ==
  ASSUME TypeOK, NEW d \in Devices, SameScreen(d),
         \/ Connect(d) \/ Disconnect(d) \/ \E p \in Posts : Listen(d, p)
         \/ \E t \in Taps : StoreRecord(d, t) \/ RefuseRecord(d, t),
         NEW p \in Posts, Idle(d, p), Seeing(d, p)
  PROVE  Seeing(d, p)'
<1>1. view'[d] = view[d]
  BY DEF SameScreen
<1>2. CASE \/ Connect(d) \/ Disconnect(d) \/ \E x \in Posts : Listen(d, x)
           \/ \E t \in Taps : RefuseRecord(d, t)
  <2>1. record' = record
    BY <1>2 DEF Connect, Disconnect, Listen, RefuseRecord, dbVars
  <2> QED
    BY <1>1, <2>1 DEF Seeing
<1>3. ASSUME NEW t \in Taps, StoreRecord(d, t)
      PROVE  Seeing(d, p)'
  <2>1. vote[t].dev = d /\ Open(t)
    BY <1>3 DEF StoreRecord, FirstWrite, Open, Closed
  <2>2. p # vote[t].post
    BY <2>1 DEF Idle, Own
  <2>3. record'[UserOf[d]][p] = record[UserOf[d]][p]
    <3>1. record \in [Users -> [Posts -> Values]] /\ UserOf[d] \in Users
      BY DeviceAssumption DEF TypeOK, DbTypeOK
    <3>2. PICK x, r : x = vote[t].post /\ r = NewValue(vote[t])
      OBVIOUS
    <3>3. record' = [record EXCEPT ![UserOf[d]][x] = r]
      BY <1>3, <3>2 DEF StoreRecord
    <3> QED
      BY <2>2, <3>1, <3>2, <3>3
  <2> QED
    BY <1>1, <2>3 DEF Seeing
<1> QED
  BY <1>2, <1>3

(* They keep the counts of their phone right.                              *)
LEMMA LinkScore ==
  ASSUME TypeOK, NEW d \in Devices, OrderlyPhone(d), ScreenOf(d), ScoreOf(d),
         \/ Connect(d) \/ Disconnect(d) \/ \E p \in Posts : Listen(d, p)
         \/ \E t \in Taps : StoreRecord(d, t) \/ RefuseRecord(d, t)
  PROVE  ScoreOf(d)'
<1>1. VotesKept /\ NoVote(d) /\ SameScreen(d)
  BY ServerScreen
<1>2. Gentle(d)
  BY LinkGentle
<1>3. raced' = raced /\ expected' = expected /\ count' = count
  BY DEF Connect, Disconnect, Listen, StoreRecord, RefuseRecord, histVars, screenVars
<1>4. /\ row'[d] = row[d] /\ observers'[d] = observers[d]
      /\ mainq'[d] = mainq[d] /\ thumb'[d] = thumb[d]
  BY <1>1, SameTold
<1>5. \A p \in Posts : Idle(d, p) /\ Seeing(d, p) => Seeing(d, p)'
  BY <1>1, LinkSeeing
<1> QED
  BY <1>1, <1>2, <1>3, <1>4, <1>5, GentleScore

-----------------------------------------------------------------------------
(* Steps of another phone.                                                 *)
LEMMA CountsApart ==
  ASSUME TypeOK, NEW d \in Devices, NEW e \in Devices, e # d,
         \/ \E c \in Cells, kind \in {1, -1} : Tap(d, c, kind)
         \/ ReloadFeed(d) \/ Launch(d) \/ Connect(d)
         \/ Server(d) \/ Client(d) \/ MainThread(d) \/ Fault(d)
  PROVE  count'[e] = count[e] /\ expected'[e] = expected[e] /\ raced \subseteq raced'
<1>1. /\ count \in [Devices -> [Cells -> Int]]
      /\ expected \in [Devices -> [Posts -> Int]]
  BY DEF TypeOK, ScreenTypeOK, HistTypeOK
<1>2. CASE ReloadFeed(d)
  BY <1>1, <1>2 DEF ReloadFeed, Fill
<1>3. CASE Launch(d)
  BY <1>1, <1>3 DEF Launch, Fill
<1>4. CASE Kill(d)
  BY <1>1, <1>4 DEF Kill, histVars
<1>5. CASE \E t \in Taps : CommitCount(d, t)
  <2>1. PICK t \in Taps : CommitCount(d, t)
    BY <1>5
  <2>2. PICK x, y : expected' = [expected EXCEPT ![d][x] = @ + y]
    BY <2>1 DEF CommitCount
  <2> QED
    BY <1>1, <2>1, <2>2 DEF CommitCount, screenVars
<1>6. CASE MainCounted(d) \/ MainError(d)
  <2>1. count'[e] = count[e]
    BY <1>1, <1>6 DEF MainCounted, MainError, Complete
  <2> QED
    BY <1>6, <2>1 DEF MainCounted, MainError, histVars
<1>7. CASE \/ \E c \in Cells, kind \in {1, -1} : Tap(d, c, kind)
           \/ Connect(d) \/ \E p \in Posts : Listen(d, p)
           \/ \E t \in Taps : \/ StoreRecord(d, t) \/ RefuseRecord(d, t)
                              \/ GiveUp(d, t) \/ Cancel(d, t) \/ Forget(d, t)
           \/ DeliverValue(d) \/ DeliverAck(d) \/ DeliverCommit(d)
           \/ MainValue(d) \/ MainStored(d) \/ Disconnect(d)
  BY <1>7 DEF Tap, Connect, Listen, StoreRecord, RefuseRecord, GiveUp, Cancel, Forget,
     DeliverValue, DeliverAck, DeliverCommit, MainValue, MainStored, Disconnect,
     histVars, screenVars
<1> QED
  BY <1>2, <1>3, <1>4, <1>5, <1>6, <1>7 DEF Server, Client, MainThread, Fault

(* A step of another phone keeps them right.                               *)
LEMMA ApartScore ==
  ASSUME TypeOK, NEW e \in Devices, ScoreOf(e), Apart(e),
         count'[e] = count[e], expected'[e] = expected[e], raced \subseteq raced'
  PROVE  ScoreOf(e)'
<1>1. /\ VotesKept /\ NoVote(e) /\ SameScreen(e)
      /\ \A t \in Taps : vote[t].dev = e => stage'[t] = stage[t]
      /\ \A p \in Posts : Alone(e) => record'[UserOf[e]][p] = record[UserOf[e]][p]
  BY DEF Apart
<1>2. Gentle(e)
  BY <1>1 DEF Gentle, Open
<1>3. /\ row'[e] = row[e] /\ observers'[e] = observers[e]
      /\ mainq'[e] = mainq[e] /\ thumb'[e] = thumb[e] /\ view'[e] = view[e]
  BY <1>1, SameTold
<1>4. \A p \in Posts : Undisturbed(e, p) /\ Seeing(e, p) => Seeing(e, p)'
  BY <1>1, <1>3 DEF Undisturbed, Seeing
<1> QED
  BY <1>1, <1>2, <1>3, <1>4, GentleScore

-----------------------------------------------------------------------------
(* The client's queue.                                                     *)

(* A step that moves one vote of d.                                        *)
LEMMA OneGentle ==
  ASSUME NEW d, NEW t, OneMoves(t),
         \/ stage[t] = "stored" /\ stage'[t] = "acked"
         \/ stage[t] = "refused" /\ stage'[t] = "denied"
         \/ stage[t] = "counted" /\ stage'[t] = "answered"
         \/ stage[t] = "count" /\ stage'[t] = "aborted"
         \/ stage[t] = "cancelled" /\ stage'[t] = "aborted"
         \/ stage[t] \in {"count", "cancelled"} /\ stage'[t] = "forgotten"
         \/ stage[t] = "acked" /\ stage'[t] = "count"
  PROVE  Gentle(d) /\ VotesKept /\ NoVote(d)
<1>1. VotesKept /\ NoVote(d)
  BY DEF OneMoves, VotesKept, NoVote
<1>2. \A s \in Taps : s # t => stage'[s] = stage[s]
  BY DEF OneMoves
<1>3. Gentle(d)
  BY <1>2 DEF Gentle, Open, Closed, Live, Scored, Failing
<1> QED
  BY <1>1, <1>3

(* So does a counting that is given up: its completion says an error, and  *)
(* then its post is no longer undisturbed.                                 *)
LEMMA AbortScore ==
  ASSUME TypeOK, NEW d \in Devices, ScoreOf(d),
         NEW t \in Taps, GiveUp(d, t) \/ Cancel(d, t)
  PROVE  ScoreOf(d)'
<1>1. /\ vote' = vote /\ Taps' = Taps /\ record' = record /\ view' = view
      /\ row' = row /\ observers' = observers /\ count' = count /\ thumb' = thumb
      /\ expected' = expected /\ raced' = raced
  BY SameTaps DEF GiveUp, Cancel, dbVars, linkVars, screenVars, histVars
<1>2. /\ stage' = [stage EXCEPT ![t] = "aborted"] /\ stage[t] \in {"count", "cancelled"}
      /\ mainq' = [mainq EXCEPT ![d] = @ \o Reply(t)]
  BY DEF GiveUp, Cancel
<1>3. OneMoves(t) /\ stage'[t] = "aborted" /\ mainq[d] \in Seq(MainBlocks)
      /\ mainq'[d] = mainq[d] \o Reply(t)
  BY <1>1, <1>2 DEF OneMoves, TypeOK, TapTypeOK, LinkTypeOK
<1>4. Gentle(d) /\ VotesKept /\ NoVote(d)
  BY <1>2, <1>3, OneGentle
<1>5. \A c, s, v, u : Becomes(mainq[d], c, s, v, u) => Becomes(mainq'[d], c, s, v, u)
  BY <1>3, BecomesReply
<1>6. \A p \in Posts : Seeing(d, p) => Seeing(d, p)'
  BY <1>1 DEF Seeing
<1> QED
  BY <1>1, <1>4, <1>5, <1>6, GentleScore

(* And so does one that is forgotten: it stays open.                       *)
LEMMA ForgetScore ==
  ASSUME TypeOK, NEW d \in Devices, ScoreOf(d), NEW t \in Taps, Forget(d, t)
  PROVE  ScoreOf(d)'
<1>1. /\ vote' = vote /\ Taps' = Taps /\ record' = record /\ view' = view
      /\ row' = row /\ observers' = observers /\ count' = count /\ thumb' = thumb
      /\ expected' = expected /\ raced' = raced /\ mainq' = mainq
  BY SameTaps DEF Forget, dbVars, linkVars, screenVars, histVars
<1>2. stage' = [stage EXCEPT ![t] = "forgotten"] /\ stage[t] \in {"count", "cancelled"}
  BY DEF Forget
<1>3. OneMoves(t) /\ stage'[t] = "forgotten"
  BY <1>1, <1>2 DEF OneMoves, TypeOK, TapTypeOK
<1>4. Gentle(d) /\ VotesKept /\ NoVote(d)
  BY <1>2, <1>3, OneGentle
<1>5. \A p \in Posts : Seeing(d, p) => Seeing(d, p)'
  BY <1>1 DEF Seeing
<1> QED
  BY <1>1, <1>4, <1>5, GentleScore

(* The answer that the counter has been written puts the completion behind *)
(* every block that the thumb still has to run.                            *)
LEMMA CommitScore ==
  ASSUME TypeOK, NEW d \in Devices, AnswersRight(d), ScoreOf(d), DeliverCommit(d)
  PROVE  ScoreOf(d)'
<1>1. PICK q \in Seq(DownMessages) : q = down[d]
  BY ScreenTypes
<1>2. PICK t : t = Head(q).tap
  OBVIOUS
<1>3. t \in Taps
  BY <1>1, <1>2, FirstAnswer DEF DeliverCommit
<1>4. /\ vote' = vote /\ Taps' = Taps /\ record' = record /\ view' = view
      /\ row' = row /\ observers' = observers /\ count' = count /\ thumb' = thumb
      /\ expected' = expected /\ raced' = raced
  BY SameTaps DEF DeliverCommit, dbVars, screenVars, histVars
<1>5. /\ stage' = [stage EXCEPT ![t] = "answered"] /\ stage[t] = "counted"
      /\ mainq' = [mainq EXCEPT ![d] = @ \o Reply(t)]
  BY <1>1, <1>2 DEF DeliverCommit
<1>6. OneMoves(t) /\ stage'[t] = "answered" /\ mainq[d] \in Seq(MainBlocks)
      /\ mainq'[d] = mainq[d] \o Reply(t)
  BY <1>3, <1>4, <1>5 DEF OneMoves, TypeOK, TapTypeOK, LinkTypeOK
<1>7. Gentle(d) /\ VotesKept /\ NoVote(d)
  BY <1>5, <1>6, OneGentle
<1>8. \A c, s, v, u : Becomes(mainq[d], c, s, v, u) => Becomes(mainq'[d], c, s, v, u)
  BY <1>3, <1>6, BecomesReply
<1>9. \A p \in Posts : Seeing(d, p) => Seeing(d, p)'
  BY <1>4 DEF Seeing
<1> QED
  BY <1>4, <1>7, <1>8, <1>9, GentleScore

(* The server's word on an undisturbed post is the vote under way, and     *)
(* what is recorded when none is.                                          *)
LEMMA ValueScore ==
  ASSUME TypeOK, Single, NEW d \in Devices, OrderlyPhone(d), ViewOf(d), ScreenOf(d),
         ScoreOf(d), DeliverValue(d)
  PROVE  ScoreOf(d)'
<1>1. PICK q \in Seq(DownMessages) : q = down[d] /\ q # << >>
  BY DEF DeliverValue, TypeOK, LinkTypeOK
<1>2. PICK m \in DownMessages : m = Head(q)
  BY <1>1, TailFacts
<1>3. m.type = "value" /\ m.val \in Values
  BY <1>1, <1>2 DEF DeliverValue, DownMessages
<1>4. PICK p \in Posts : p = m.post
  BY <1>3 DEF DownMessages
<1>5. PICK r \in Values :
        r = IF Pending(d, p, stage) = {} THEN m.val ELSE view[d][p]
  BY <1>3 DEF TypeOK, LinkTypeOK
<1>6. view \in [Devices -> [Posts -> Values]] /\ mainq \in [Devices -> Seq(MainBlocks)]
  BY DEF TypeOK, LinkTypeOK
<1>7. /\ mainq' = [mainq EXCEPT ![d] = @ \o Event(d, p, r)]
      /\ view' = [view EXCEPT ![d][p] = r]
  BY <1>1, <1>2, <1>4, <1>5 DEF DeliverValue
<1>8. /\ mainq'[d] = mainq[d] \o Event(d, p, r) /\ mainq[d] \in Seq(MainBlocks)
      /\ view'[d][p] = r /\ \A x \in Posts : x # p => view'[d][x] = view[d][x]
  BY <1>6, <1>7
<1>9. /\ vote' = vote /\ Taps' = Taps /\ record' = record /\ stage' = stage
      /\ VotesKept /\ NoVote(d)
      /\ row' = row /\ observers' = observers /\ count' = count /\ thumb' = thumb
      /\ expected' = expected /\ raced' = raced
  BY SameVotes DEF DeliverValue, dbVars, screenVars, histVars
<1>10. Gentle(d)
  BY <1>9 DEF Gentle, Open
<1>11. ASSUME Undisturbed(d, p), Pending(d, p, stage) = {}
       PROVE  r = record[UserOf[d]][p]
  <2>1. AnswersRight(d) /\ Heard(d, p) /\ Brings(Head(q), p)
    BY <1>2, <1>3, <1>4 DEF ViewOf, Brings
  <2>2. Head(q).val = record[UserOf[d]][p]
    BY <1>1, <1>11, <2>1, OnlyValue DEF ScreenOf, Undisturbed
  <2> QED
    BY <1>2, <1>5, <1>11, <2>2
<1>12. ASSUME NEW x \in Posts, Undisturbed(d, x), Idle(d, x), Seeing(d, x)
       PROVE  Seeing(d, x)'
  <2>1. CASE x # p
    BY <1>8, <1>9, <1>12, <2>1 DEF Seeing
  <2>2. CASE x = p
    <3>1. Pending(d, p, stage) = {}
      BY <1>12, <2>2 DEF Pending, Idle, Own, Open, Closed
    <3> QED
      BY <1>8, <1>9, <1>11, <1>12, <2>2, <3>1 DEF Seeing
  <2> QED
    BY <2>1, <2>2
<1>13. ASSUME NEW c \in Cells, NEW x \in Posts, NEW t \in Taps,
              Undisturbed(d, x), NeverReused(d, c, x), Own(t, d, x), stage[t] \in Live,
              Becomes(mainq[d], c, thumb[d][c], NewValue(vote[t]), t)
       PROVE  Becomes(mainq'[d], c, thumb'[d][c], NewValue(vote[t]), t)
  <2>1. PICK v \in {-1, 0, 1} : v = NewValue(vote[t])
    BY ScreenTypes
  <2>2. ASSUME <<c, p>> \in observers[d]
        PROVE  AsThumb(r) = v
    <3>1. p = x
      BY <1>13, <2>2 DEF NeverReused
    <3>2. Open(t) /\ Last(d, p, t)
      BY <1>13, <3>1, OpenIsLast DEF Live, Open, Closed
    <3>3. /\ stage[t] \in Stored => record[UserOf[d]][p] = v
          /\ stage[t] \in Seen => view[d][p] = v
      BY <1>13, <2>1, <3>2 DEF ScreenOf, LastVote, Undisturbed
    <3>4. r = v
      <4>1. CASE Pending(d, p, stage) = {}
        <5>1. t \notin Pending(d, p, stage)
          BY <4>1
        <5>2. stage[t] \in Stored
          BY <1>13, <3>1, <5>1 DEF Pending, Own, Live, Stored
        <5> QED
          BY <1>11, <1>13, <3>1, <3>3, <4>1, <5>2
      <4>2. CASE Pending(d, p, stage) # {}
        <5>1. stage[t] \in Seen
          BY <1>13 DEF Live, Seen, Stored
        <5> QED
          BY <1>5, <3>3, <4>2, <5>1
      <4> QED
        BY <4>1, <4>2
    <3> QED
      BY <3>4 DEF AsThumb
  <2>3. Becomes(mainq[d], c, thumb[d][c], v, t)
    BY <1>13, <2>1
  <2>4. PICK s : s = thumb[d][c]
    OBVIOUS
  <2>5. Becomes(mainq'[d], c, s, v, t)
    BY <1>8, <2>2, <2>3, <2>4, BecomesEvent
  <2> QED
    BY <1>9, <2>1, <2>4, <2>5
<1> QED
  BY <1>9, <1>10, <1>12, <1>13, GentleScore

(* The answer to a record write confirms the only vote under way.          *)
LEMMA AckScore ==
  ASSUME TypeOK, Single, NEW d \in Devices, ViewOf(d), ScreenOf(d), ScoreOf(d),
         DeliverAck(d)
  PROVE  ScoreOf(d)'
<1>1. AnswersRight(d)
  BY DEF ViewOf
<1>2. PICK q \in Seq(DownMessages), u \in Taps, p \in Posts, r \in Values :
        ClientOnly(d) /\ Acks(d, q, u, p, r)
  BY <1>1, AckActs
<1>3. /\ OneMoves(u) /\ vote[u].dev = d /\ vote[u].post = p
      /\ \/ stage[u] = "stored" /\ stage'[u] = "acked"
         \/ stage[u] = "refused" /\ stage'[u] = "denied"
      /\ r = IF Pending(d, p, stage') = {} THEN AckedValue(d, u) ELSE view[d][p]
      /\ mainq'[d] = (mainq[d] \o Event(d, p, r)) \o Reply(u)
  BY <1>2 DEF Acks
<1>4. Gentle(d) /\ VotesKept /\ NoVote(d)
  BY <1>3, OneGentle
<1>5. /\ view \in [Devices -> [Posts -> Values]] /\ mainq[d] \in Seq(MainBlocks)
  BY DEF TypeOK, LinkTypeOK
<1>6. \A x \in Posts : x # p => view'[d][x] = view[d][x]
  BY <1>2, <1>5 DEF Acks
<1>7. /\ row' = row /\ observers' = observers /\ count' = count /\ thumb' = thumb
      /\ expected' = expected /\ raced' = raced /\ record' = record
  BY DEF DeliverAck, dbVars, screenVars, histVars
<1>8. Own(u, d, p) /\ Open(u)
  BY <1>3 DEF Own, Open, Closed
<1>9. ASSUME NEW x \in Posts, Idle(d, x), Seeing(d, x)
      PROVE  Seeing(d, x)'
  <2>1. x # p
    BY <1>8, <1>9 DEF Idle
  <2> QED
    BY <1>6, <1>7, <1>9, <2>1 DEF Seeing
<1>10. ASSUME NEW c \in Cells, NEW x \in Posts, NEW t \in Taps,
              Undisturbed(d, x), NeverReused(d, c, x), Own(t, d, x),
              stage[t] \in Live, stage'[t] \in Live,
              Becomes(mainq[d], c, thumb[d][c], NewValue(vote[t]), t)
       PROVE  Becomes(mainq'[d], c, thumb'[d][c], NewValue(vote[t]), t)
  <2>1. PICK v \in {-1, 0, 1} : v = NewValue(vote[t])
    BY ScreenTypes
  <2>2. ASSUME <<c, p>> \in observers[d]
        PROVE  AsThumb(r) = v
    <3>1. p = x
      BY <1>10, <2>2 DEF NeverReused
    <3>2. Open(t)
      BY <1>10 DEF Live, Open, Closed
    <3>3. t = u
      BY <1>8, <1>10, <3>1, <3>2, OnlyOpen
    <3>4. stage[u] = "stored" /\ stage'[u] = "acked"
      BY <1>3, <1>10, <3>3 DEF Live
    <3>5. Pending(d, p, stage') = {}
      <4> SUFFICES ASSUME NEW s \in Taps, vote[s].dev = d, vote[s].post = p,
                          stage'[s] \in {"sent", "stored", "refused"}
                   PROVE  FALSE
        BY <1>3 DEF Pending, OneMoves
      <4>1. s # u /\ Own(s, d, p)
        BY <3>4 DEF Own
      <4>2. stage'[s] = stage[s]
        BY <1>3, <4>1 DEF OneMoves
      <4>3. ~Open(s)
        BY <1>8, <1>10, <3>1, <4>1, OnlyOpen
      <4> QED
        BY <4>2, <4>3 DEF Open, Closed
    <3>6. r = v
      BY <1>3, <2>1, <3>3, <3>4, <3>5 DEF AckedValue
    <3> QED
      BY <3>6 DEF AsThumb
  <2>3. Becomes(mainq[d], c, thumb[d][c], v, t)
    BY <1>10, <2>1
  <2>4. PICK s, w, y : s = thumb[d][c] /\ w = mainq[d] /\ y = w \o Event(d, p, r)
    OBVIOUS
  <2>5. Becomes(w, c, s, v, t) /\ w \in Seq(MainBlocks)
    BY <1>5, <2>3, <2>4
  <2>6. Becomes(y, c, s, v, t) /\ y \in Seq(MainBlocks)
    <3>1. <<c, p>> \in observers[d] => AsThumb(r) = v
      BY <2>2
    <3>2. y = w \o Event(d, p, r)
      BY <2>4
    <3> QED
      BY <2>5, <3>1, <3>2, BecomesEvent
  <2>7. Becomes(mainq'[d], c, s, v, t)
    BY <1>3, <2>4, <2>6, BecomesReply
  <2> QED
    BY <1>7, <2>1, <2>4, <2>7
<1> QED
  BY <1>4, <1>7, <1>9, <1>10, GentleScore

-----------------------------------------------------------------------------
(* The main thread.                                                        *)

(* A block of a listener may change thumbs, to what the votes it follows   *)
(* have made them.                                                         *)
LEMMA BlockScore ==
  ASSUME TypeOK, NEW d \in Devices, ScoreOf(d), MainValue(d)
  PROVE  ScoreOf(d)'
<1>1. PICK q \in Seq(MainBlocks) : q = mainq[d] /\ q # << >>
  BY ScreenTypes DEF MainValue
<1>2. PICK b : b = Head(q)
  OBVIOUS
<1>3. /\ b.type = "value"
      /\ thumb' = [thumb EXCEPT ![d] = [c \in Cells |->
           IF b.told[c] = NoRecord THEN @[c] ELSE AsThumb(b.told[c])]]
      /\ mainq' = [mainq EXCEPT ![d] = Tail(@)]
  BY <1>1, <1>2 DEF MainValue
<1>4. /\ mainq'[d] = Tail(q)
      /\ \A c \in Cells : thumb'[d][c] =
           IF Paints(b, c) THEN AsThumb(b.told[c]) ELSE thumb[d][c]
  BY <1>1, <1>3 DEF Paints, TypeOK, LinkTypeOK, ScreenTypeOK
<1>5. /\ vote' = vote /\ Taps' = Taps /\ stage' = stage /\ record' = record
      /\ view' = view /\ VotesKept /\ NoVote(d)
      /\ row' = row /\ observers' = observers /\ count' = count
      /\ expected' = expected /\ raced' = raced
  BY SameVotes DEF MainValue, dbVars, linkVars, histVars
<1>6. Gentle(d)
  BY <1>5 DEF Gentle, Open
<1>7. ASSUME NEW c \in Cells, NEW v, NEW t, Becomes(mainq[d], c, thumb[d][c], v, t)
      PROVE  Becomes(mainq'[d], c, thumb'[d][c], v, t)
  <2>1. PICK s, x, a : s = thumb[d][c] /\ x = thumb'[d][c] /\ a = Tail(q)
    OBVIOUS
  <2>2. x = IF Paints(Head(q), c) THEN AsThumb(Head(q).told[c]) ELSE s
    BY <1>2, <1>4, <2>1
  <2>3. Becomes(q, c, s, v, t)
    BY <1>1, <1>7, <2>1
  <2>4. Becomes(a, c, x, v, t)
    BY <1>1, <2>1, <2>2, <2>3, BecomesTail
  <2> QED
    BY <1>4, <2>1, <2>4
<1>8. \A p \in Posts : Seeing(d, p) => Seeing(d, p)'
  BY <1>5 DEF Seeing
<1> QED
  BY <1>5, <1>6, <1>7, <1>8, GentleScore

(* A completion tells no record.                                           *)
LEMMA CompletedTail ==
  ASSUME NEW d, NEW q \in Seq(MainBlocks), NEW u, Completes(d, q, u),
         NEW c, NEW s, NEW v, NEW t, Becomes(mainq[d], c, s, v, t)
  PROVE  Becomes(mainq'[d], c, s, v, t)
<1>1. /\ q = mainq[d] /\ q # << >> /\ Answers(Head(q), u) /\ mainq'[d] = Tail(q)
  BY DEF Completes
<1>2. ~Paints(Head(q), c)
  BY <1>1 DEF Answers, Paints
<1>3. PICK a : a = Tail(q)
  OBVIOUS
<1>4. Becomes(q, c, s, v, t)
  BY <1>1
<1>5. s = IF Paints(Head(q), c) THEN AsThumb(Head(q).told[c]) ELSE s
  BY <1>2
<1>6. Becomes(a, c, s, v, t)
  BY <1>1, <1>3, <1>4, <1>5, BecomesTail
<1> QED
  BY <1>1, <1>3, <1>6

(* The completion of the record's write starts the counting and shows      *)
(* nothing.                                                                *)
LEMMA StoredScore ==
  ASSUME TypeOK, NEW d \in Devices, OrderlyPhone(d), ScoreOf(d), MainStored(d)
  PROVE  ScoreOf(d)'
<1>1. PICK q \in Seq(MainBlocks), u \in Taps : ScreenOnly(d) /\ Completes(d, q, u)
  BY CompleteActs
<1>2. OneMoves(u) /\ u = Head(mainq[d]).tap
  BY <1>1 DEF Completes, Answers
<1>3. stage[u] = "acked" /\ stage'[u] = "count"
  BY <1>2 DEF MainStored, TypeOK, TapTypeOK
<1>4. Gentle(d) /\ VotesKept /\ NoVote(d)
  BY <1>2, <1>3, OneGentle
<1>5. /\ row' = row /\ observers' = observers /\ count' = count /\ thumb' = thumb
      /\ expected' = expected /\ raced' = raced /\ record' = record /\ view' = view
  BY DEF MainStored, dbVars, linkVars, screenVars, histVars
<1>6. \A c, s, v, t : Becomes(mainq[d], c, s, v, t) => Becomes(mainq'[d], c, s, v, t)
  BY <1>1, CompletedTail
<1>7. \A p \in Posts : Seeing(d, p) => Seeing(d, p)'
  BY <1>5 DEF Seeing
<1> QED
  BY <1>4, <1>5, <1>6, <1>7, GentleScore

(* What a completion adds to the count of a cell that shows the vote.      *)
LEMMA CompleteAdds ==
  ASSUME NEW v \in Votes
  PROVE  /\ NewValue(v) # -v.kind
         /\ (IF NewValue(v) = v.kind THEN v.kind ELSE -v.kind) = v.kind * Delta(v)
         /\ v.kind \in {1, -1} /\ v.kind * Delta(v) \in Int
<1>1. v.kind \in {1, -1} /\ v.shown \in {-1, 0, 1}
  BY DEF Votes
<1> QED
  BY <1>1 DEF NewValue, Delta

(* The completion of u ends it, with the vote counted or with an error.    *)
Ends(d, u) ==
  /\ u \in Taps /\ vote[u].dev = d /\ OneMoves(u) /\ Open(u)
  /\ \/ stage'[u] = "failed"
     \/ /\ stage[u] = "answered" /\ stage'[u] = "done"
        /\ count'[d][vote[u].cell] = count[d][vote[u].cell]
             + (IF thumb[d][vote[u].cell] = -vote[u].kind THEN vote[u].kind ELSE 0)
             + (IF NewValue(vote[u]) = vote[u].kind THEN vote[u].kind ELSE -vote[u].kind)
  /\ \A c \in Cells : c # vote[u].cell =>
       count'[d][c] = count[d][c] /\ thumb'[d][c] = thumb[d][c]
  /\ expected' = expected /\ raced' = raced

(* What the completion of the counting does: it ends its vote, and adds to *)
(* the count what the thumb says.                                          *)
LEMMA CompletionEnds ==
  ASSUME TypeOK, NEW d \in Devices, NEW q \in Seq(MainBlocks), NEW u \in Taps,
         Completes(d, q, u), MainCounted(d) \/ MainError(d)
  PROVE  Ends(d, u)
<1>1. OneMoves(u) /\ u = Head(mainq[d]).tap /\ vote[u].dev = d
  BY DEF Completes, Answers
<1>2. /\ stage \in [Taps -> Stages] /\ vote[u].cell \in Cells
      /\ count \in [Devices -> [Cells -> Int]] /\ thumb \in [Devices -> [Cells -> {-1, 0, 1}]]
  BY ScreenTypes DEF TypeOK, ScreenTypeOK
<1>3. PICK c \in Cells : c = vote[u].cell
  BY <1>2
<1>4. expected' = expected /\ raced' = raced
  BY DEF MainCounted, MainError, histVars
<1>5. CASE MainCounted(d)
  <2>1. /\ stage[u] = "answered" /\ stage' = [stage EXCEPT ![u] = "done"]
        /\ Complete(d, vote[u], NewValue(vote[u]))
    BY <1>1, <1>5 DEF MainCounted
  <2>2. PICK x : x = AsThumb(NewValue(vote[u]))
    OBVIOUS
  <2>3. PICK y : y = count[d][c]
             + (IF thumb[d][c] = -vote[u].kind THEN vote[u].kind ELSE 0)
             + (IF NewValue(vote[u]) = vote[u].kind THEN vote[u].kind ELSE -vote[u].kind)
    OBVIOUS
  <2>4. thumb' = [thumb EXCEPT ![d][c] = x] /\ count' = [count EXCEPT ![d][c] = y]
    BY <1>2, <1>3, <2>1, <2>2, <2>3 DEF Complete
  <2>5. /\ count'[d][c] = y
        /\ \A k \in Cells : k # c => count'[d][k] = count[d][k] /\ thumb'[d][k] = thumb[d][k]
    BY <1>2, <2>4
  <2>6. stage'[u] = "done" /\ Open(u)
    BY <1>2, <2>1 DEF Open, Closed
  <2> QED
    BY <1>1, <1>3, <1>4, <2>1, <2>3, <2>5, <2>6 DEF Ends
<1>6. CASE MainError(d)
  <2>1. /\ stage[u] \in {"denied", "aborted"} /\ stage' = [stage EXCEPT ![u] = "failed"]
        /\ Complete(d, vote[u], 0)
    BY <1>1, <1>6 DEF MainError
  <2>2. PICK x, y : thumb' = [thumb EXCEPT ![d][c] = x] /\ count' = [count EXCEPT ![d][c] = y]
    <3>1. PICK y : y = count[d][c]
             + (IF thumb[d][c] = -vote[u].kind THEN vote[u].kind ELSE 0)
             + (IF 0 = vote[u].kind THEN vote[u].kind ELSE -vote[u].kind)
      OBVIOUS
    <3> QED
      BY <1>2, <1>3, <2>1, <3>1 DEF Complete
  <2>3. \A k \in Cells : k # c => count'[d][k] = count[d][k] /\ thumb'[d][k] = thumb[d][k]
    BY <1>2, <2>2
  <2>4. stage'[u] = "failed" /\ Open(u)
    BY <1>2, <2>1 DEF Open, Closed
  <2> QED
    BY <1>1, <1>3, <1>4, <2>3, <2>4 DEF Ends
<1> QED
  BY <1>5, <1>6

(* The count of the cell makes up for the vote when it ends.               *)
LEMMA EndTally ==
  ASSUME TypeOK, Single, NEW d \in Devices, Placed(d), Watched(d),
         NEW q \in Seq(MainBlocks), NEW u \in Taps, Completes(d, q, u), Ends(d, u),
         NEW c \in Cells, NEW p \in Posts, Undisturbed(d, p), Undisturbed(d, p)',
         NeverReused(d, c, p), Tally(d, c, p)
  PROVE  Tally(d, c, p)'
<1>1. /\ vote' = vote /\ Taps' = Taps /\ \A s \in Taps : s # u => stage'[s] = stage[s]
      /\ expected' = expected
  BY DEF Ends, OneMoves
<1>2. \A t : Own(t, d, p)' <=> Own(t, d, p)
  BY <1>1 DEF Own
<1>3. CASE Own(u, d, p)
  <2>1. stage[u] = "answered" /\ stage'[u] = "done"
    BY <1>1, <1>3 DEF Ends, Undisturbed, Own
  <2>2. Open(u) /\ vote[u].cell = c
    BY <1>3, PostIsOfCell DEF Ends
  <2>3. ASSUME NEW t, Own(t, d, p)
        PROVE  stage'[t] \in Closed
    <3>1. CASE t = u
      BY <2>1, <3>1 DEF Closed
    <3>2. CASE t # u
      <4>1. ~Open(t) /\ t \in Taps
        BY <1>3, <2>2, <2>3, <3>2, OnlyOpen DEF Own
      <4> QED
        BY <1>1, <3>2, <4>1 DEF Open
    <3> QED
      BY <3>1, <3>2
  <2>4. Pays(d, c, p, u)
    BY <1>3 DEF Tally
  <2>5. PICK v \in Votes : v = vote[u]
    BY ScreenTypes
  <2>6. /\ count[d][c] + v.kind * Delta(v) = expected[d][p]
        /\ Becomes(mainq[d], c, thumb[d][c], NewValue(v), u)
    BY <2>1, <2>4, <2>5 DEF Pays, Scored, Live
  <2>7. thumb[d][c] = NewValue(v)
    <3>1. q = mainq[d] /\ q # << >> /\ Answers(Head(q), u)
      BY DEF Completes
    <3> QED
      BY <2>6, <3>1, BecomesAnswered
  <2>8. count'[d][c] = expected[d][p]
    <3>1. count[d][c] \in Int
      BY DEF TypeOK, ScreenTypeOK
    <3>2. count'[d][c] = count[d][c]
            + (IF thumb[d][c] = -v.kind THEN v.kind ELSE 0)
            + (IF NewValue(v) = v.kind THEN v.kind ELSE -v.kind)
      BY <2>1, <2>2, <2>5 DEF Ends
    <3>3. PICK w : w = v.kind * Delta(v)
      OBVIOUS
    <3>4. /\ NewValue(v) # -v.kind /\ w \in Int
          /\ (IF NewValue(v) = v.kind THEN v.kind ELSE -v.kind) = w
      BY <3>3, CompleteAdds
    <3>5. count'[d][c] = count[d][c] + w
      BY <2>7, <3>1, <3>2, <3>4
    <3> QED
      BY <2>6, <3>3, <3>5
  <2>9. \A t : Own(t, d, p) => Pays(d, c, p, t)'
    BY <2>3 DEF Pays, Closed, Scored, Live
  <2> QED
    BY <1>1, <1>2, <2>8, <2>9 DEF Tally
<1>4. CASE ~Own(u, d, p)
  <2>1. vote[u].cell # c
    BY <1>4, CellIsOfPost DEF Ends
  <2>2. count'[d][c] = count[d][c] /\ thumb'[d][c] = thumb[d][c]
    BY <2>1 DEF Ends
  <2>3. \A t : Own(t, d, p) => t \in Taps /\ stage'[t] = stage[t]
    BY <1>1, <1>4 DEF Own
  <2>4. ASSUME NEW t, Own(t, d, p), stage[t] \in Live
        PROVE  Becomes(mainq'[d], c, thumb'[d][c], NewValue(vote[t]), t)
    <3>1. PICK s, v : s = thumb[d][c] /\ v = NewValue(vote[t])
      OBVIOUS
    <3>2. Becomes(mainq[d], c, s, v, t)
      BY <2>3, <2>4, <3>1 DEF Tally, Pays
    <3>3. Becomes(mainq'[d], c, s, v, t)
      BY <3>2, CompletedTail
    <3> QED
      BY <2>2, <3>1, <3>3
  <2>5. ASSUME NEW t, Own(t, d, p)
        PROVE  Pays(d, c, p, t)'
    <3>1. Pays(d, c, p, t) /\ stage'[t] = stage[t]
      BY <2>3, <2>5 DEF Tally
    <3>2. stage[t] \in Scored =>
            count'[d][c] + vote'[t].kind * Delta(vote'[t]) = expected'[d][p]
      BY <1>1, <2>2, <3>1 DEF Pays
    <3>3. stage[t] \in Live =>
            Becomes(mainq'[d], c, thumb'[d][c], NewValue(vote'[t]), t)
      BY <1>1, <2>4, <2>5
    <3> QED
      BY <3>1, <3>2, <3>3 DEF Pays
  <2>6. NoneCounted(d, p)' => NoneCounted(d, p)
    BY <1>1, <1>2, <2>3 DEF NoneCounted
  <2> QED
    BY <1>1, <1>2, <2>2, <2>5, <2>6 DEF Tally
<1> QED
  BY <1>3, <1>4

(* It leaves the count as expected: the thumb has reached the value of the *)
(* vote, which is the only one under way.                                  *)
LEMMA EndScore ==
  ASSUME TypeOK, Single, NEW d \in Devices, OrderlyPhone(d), ScreenOf(d), ScoreOf(d),
         MainCounted(d) \/ MainError(d)
  PROVE  ScoreOf(d)'
<1>1. PICK q \in Seq(MainBlocks), u \in Taps : ScreenOnly(d) /\ Completes(d, q, u)
  BY CompleteActs
<1>2. Ends(d, u)
  BY <1>1, CompletionEnds
<1>3. /\ vote' = vote /\ Taps' = Taps /\ row' = row /\ observers' = observers
      /\ view' = view /\ record' = record
      /\ \A s \in Taps : s # u => stage'[s] = stage[s]
      /\ vote[u].dev = d /\ Open(u) /\ ~Open(u)' /\ raced' = raced
  BY <1>1, <1>2 DEF Ends, OneMoves, ScreenOnly, Open, Closed
<1>4. ASSUME NEW p, Undisturbed(d, p)'
      PROVE  Undisturbed(d, p)
  <2>1. VotesKept
    BY <1>3 DEF VotesKept
  <2>2. \A t \in Taps : vote[t].dev = d /\ stage[t] = "failed" => stage'[t] = "failed"
    BY <1>3 DEF Open, Closed
  <2> QED
    BY <1>3, <1>4, <2>1, <2>2, UndisturbedBefore
<1>5. Placed(d)'
  <2>1. \A t \in Taps : Open(t)' => Open(t)
    BY <1>3 DEF Open
  <2> QED
    BY <1>3, <2>1 DEF ScoreOf, Placed
<1>6. ASSUME NEW p \in Posts, Undisturbed(d, p)', Idle(d, p)'
      PROVE  Seeing(d, p)'
  <2>1. Undisturbed(d, p)
    BY <1>4, <1>6
  <2>2. CASE Own(u, d, p)
    <3>1. stage[u] = "answered"
      BY <1>2, <1>3, <1>6, <2>2 DEF Ends, Undisturbed, Own
    <3>2. Last(d, p, u)
      BY <1>3, <2>1, <2>2, OpenIsLast
    <3>3. /\ record[UserOf[d]][p] = NewValue(vote[u])
          /\ view[d][p] = NewValue(vote[u])
      BY <2>1, <3>1, <3>2 DEF ScreenOf, LastVote, Undisturbed, Stored, Seen
    <3> QED
      BY <1>3, <3>3 DEF Seeing
  <2>3. CASE ~Own(u, d, p)
    <3>1. Idle(d, p)
      BY <1>3, <1>6, <2>3 DEF Idle, Own, Open
    <3>2. Seeing(d, p)
      BY <2>1, <3>1 DEF ScoreOf, Known
    <3> QED
      BY <1>3, <3>2 DEF Seeing
  <2> QED
    BY <2>2, <2>3
<1>7. ASSUME NEW c \in Cells, NEW p \in Posts, Undisturbed(d, p)', NeverReused(d, c, p)'
      PROVE  Tally(d, c, p)'
  <2>1. Undisturbed(d, p) /\ NeverReused(d, c, p)
    BY <1>3, <1>4, <1>7 DEF NeverReused
  <2>2. Placed(d) /\ Watched(d) /\ Tally(d, c, p)
    BY <2>1 DEF ScoreOf, ScoreRight, ScreenOf
  <2> QED
    BY <1>1, <1>2, <1>7, <2>1, <2>2, EndTally
<1> QED
  BY <1>5, <1>6, <1>7 DEF ScoreOf, Known, ScoreRight

-----------------------------------------------------------------------------
(* A vote is counted.                                                      *)

(* The points the cell is to show change, and its count is to follow.      *)
LEMMA CountScore ==
  ASSUME TypeOK, Single, NEW d \in Devices, ScoreOf(d), NEW u \in Taps, CommitCount(d, u)
  PROVE  ScoreOf(d)'
<1>1. /\ vote' = vote /\ Taps' = Taps /\ record' = record /\ view' = view
      /\ mainq' = mainq /\ row' = row /\ observers' = observers /\ count' = count
      /\ thumb' = thumb /\ raced' = raced
  BY SameTaps DEF CommitCount, screenVars
<1>2. /\ vote[u].dev = d /\ stage[u] = "count" /\ stage' = [stage EXCEPT ![u] = "counted"]
  BY DEF CommitCount
<1>3. stage'[u] = "counted" /\ \A s \in Taps : s # u => stage'[s] = stage[s]
  BY <1>2, ScreenTypes
<1>4. PICK x \in Posts : x = vote[u].post
  BY ScreenTypes
<1>5. PICK w : w = vote[u].kind * Delta(vote[u])
  OBVIOUS
<1>6. expected' = [expected EXCEPT ![d][x] = @ + w]
  BY <1>4, <1>5 DEF CommitCount
<1>7. \A p \in Posts : expected'[d][p] =
        IF p = x THEN expected[d][p] + w ELSE expected[d][p]
  BY <1>6 DEF TypeOK, HistTypeOK
<1>8. \A t \in Taps : Open(t) <=> Open(t)'
  BY <1>2, <1>3 DEF Open, Closed
<1>9. ASSUME NEW p, Undisturbed(d, p)'
      PROVE  Undisturbed(d, p)
  <2>1. VotesKept
    BY <1>1 DEF VotesKept
  <2>2. \A t \in Taps : vote[t].dev = d /\ stage[t] = "failed" => stage'[t] = "failed"
    BY <1>2, <1>3
  <2> QED
    BY <1>1, <1>9, <2>1, <2>2, UndisturbedBefore
<1>10. \A t, p : Own(t, d, p)' <=> Own(t, d, p)
  BY <1>1 DEF Own
<1>11. Placed(d)'
  BY <1>1, <1>8 DEF ScoreOf, Placed
<1>12. ASSUME NEW p \in Posts, Undisturbed(d, p)', Idle(d, p)'
       PROVE  Seeing(d, p)'
  <2>1. Undisturbed(d, p)
    BY <1>9, <1>12
  <2>2. Idle(d, p)
    BY <1>1, <1>8, <1>10, <1>12 DEF Idle, Own
  <2>3. Seeing(d, p)
    BY <2>1, <2>2 DEF ScoreOf, Known
  <2> QED
    BY <1>1, <2>3 DEF Seeing
<1>13. ASSUME NEW c \in Cells, NEW p \in Posts, Undisturbed(d, p)', NeverReused(d, c, p)'
       PROVE  Tally(d, c, p)'
  <2>1. Undisturbed(d, p) /\ NeverReused(d, c, p)
    BY <1>1, <1>9, <1>13 DEF NeverReused
  <2>2. Tally(d, c, p)
    BY <2>1 DEF ScoreOf, ScoreRight
  <2>3. CASE p # x
    <3>1. \A t : Own(t, d, p) => t \in Taps /\ stage'[t] = stage[t]
      BY <1>3, <1>4, <2>3 DEF Own
    <3>2. expected'[d][p] = expected[d][p]
      BY <1>7, <2>3
    <3>3. NoneCounted(d, p)' => NoneCounted(d, p)
      BY <1>1, <1>10, <3>1 DEF NoneCounted
    <3>4. \A t : Own(t, d, p) => Pays(d, c, p, t)'
      BY <1>1, <2>2, <3>1, <3>2 DEF Tally, Pays
    <3> QED
      BY <1>1, <1>10, <2>2, <3>2, <3>3, <3>4 DEF Tally
  <2>4. CASE p = x
    <3>1. Own(u, d, p) /\ Open(u)
      BY <1>2, <1>4, <2>4 DEF Own, Open, Closed
    <3>2. ASSUME NEW t, Own(t, d, p), t # u
          PROVE  stage[t] \in Closed /\ stage'[t] = stage[t]
      BY <1>3, <2>1, <3>1, <3>2, OnlyOpen DEF Open, Own
    <3>3. NoneCounted(d, p)
      BY <1>2, <3>2 DEF NoneCounted, Closed, Scored, Failing
    <3>4. ~NoneCounted(d, p)'
      BY <1>1, <1>3, <1>10, <3>1 DEF NoneCounted, Scored
    <3>5. count[d][c] + w = expected'[d][p]
      BY <1>7, <2>2, <2>4, <3>3 DEF Tally
    <3>6. Becomes(mainq[d], c, thumb[d][c], NewValue(vote[u]), u)
      BY <1>2, <2>2, <3>1 DEF Tally, Pays, Live
    <3>7. Pays(d, c, p, u)'
      BY <1>1, <1>5, <3>5, <3>6 DEF Pays
    <3>8. \A t : Own(t, d, p) /\ t # u => Pays(d, c, p, t)'
      BY <3>2 DEF Pays, Closed, Scored, Live
    <3> QED
      BY <1>10, <3>4, <3>7, <3>8 DEF Tally
  <2> QED
    BY <2>3, <2>4
<1> QED
  BY <1>11, <1>12, <1>13 DEF ScoreOf, Known, ScoreRight

-----------------------------------------------------------------------------
(* A tap.                                                                  *)

(* What a tap makes of the votes.                                          *)
Makes(d, k, u) ==
  /\ u \in Nat /\ u \notin Taps /\ Taps' = Taps \cup {u} /\ \A s \in Taps : s < u
  /\ \A t \in Taps : vote'[t] = vote[t] /\ stage'[t] = stage[t]
  /\ stage'[u] = "sent" /\ vote'[u] \in Votes
  /\ vote'[u].dev = d /\ vote'[u].cell = k /\ vote'[u].post = row[d][k]
  /\ vote'[u].shown = thumb[d][k] /\ vote'[u].informed = Informed(d, k)

(* A tap makes a vote.                                                     *)
LEMMA TapMakes ==
  ASSUME TypeOK, NEW d \in Devices, NEW k \in Cells, NEW kind \in {1, -1}, Tap(d, k, kind)
  PROVE  \E u : Makes(d, k, u) /\ vote'[u] = NewVote(d, k, kind)
<1>1. taps \in Nat /\ stage \in [Taps -> Stages] /\ vote \in [Taps -> Votes]
  BY DEF TypeOK, TapTypeOK
<1>2. PICK u \in Nat : u = taps + 1
  BY <1>1
<1>3. /\ u \notin Taps /\ Taps' = Taps \cup {u} /\ \A s \in Taps : s < u
      /\ 1..(taps + 1) = Taps \cup {u}
  BY <1>1, <1>2 DEF Tap, Taps
<1>4. /\ row[d][k] \in Posts /\ thumb[d][k] \in {-1, 0, 1}
  BY DEF Tap, TypeOK, ScreenTypeOK
<1>5. Informed(d, k) \in BOOLEAN
  BY DEF Informed
<1>6. PICK v \in Votes : v = NewVote(d, k, kind)
  BY <1>4, <1>5 DEF NewVote, Votes
<1>7. /\ vote' = [t \in Taps \cup {u} |-> IF t \in Taps THEN vote[t] ELSE v]
      /\ stage' = [t \in Taps \cup {u} |-> IF t \in Taps THEN stage[t] ELSE "sent"]
  BY <1>2, <1>3, <1>6 DEF Tap
<1>8. /\ \A t \in Taps : vote'[t] = vote[t] /\ stage'[t] = stage[t]
      /\ stage'[u] = "sent" /\ vote'[u] = v
  BY <1>3, <1>7
<1>9. /\ v.dev = d /\ v.cell = k /\ v.post = row[d][k]
      /\ v.shown = thumb[d][k] /\ v.informed = Informed(d, k)
  BY <1>6 DEF NewVote
<1>10. Makes(d, k, u)
  BY <1>2, <1>3, <1>8, <1>9 DEF Makes
<1> QED
  BY <1>6, <1>8, <1>10

(* An informed one has no rival under way.                                 *)
LEMMA TapSingle ==
  ASSUME TypeOK, Single, NEW d \in Devices, NEW k \in Cells, NEW u, Makes(d, k, u)
  PROVE  Single'
<1> SUFFICES ASSUME NEW s \in Taps', NEW t \in Taps', s < t, Rivals(s, t)', vote'[t].informed
             PROVE  ~Open(s)'
  BY DEF Single
<1>1. /\ Taps' = Taps \cup {u} /\ \A r \in Taps : r < u
      /\ \A r \in Taps : vote'[r] = vote[r] /\ stage'[r] = stage[r]
      /\ u \notin Taps /\ vote'[u].dev = d /\ vote'[u].post = row[d][k]
      /\ vote'[u].informed = Informed(d, k)
  BY DEF Makes
<1>2. s \in Taps
  <2>1. Taps \subseteq Nat /\ u \in Nat
    BY OrderTypes DEF Makes
  <2>2. s # u
    BY <1>1, <2>1
  <2> QED
    BY <1>1, <2>2
<1>3. CASE t \in Taps
  <2>1. Rivals(s, t) /\ vote[t].informed
    BY <1>1, <1>2, <1>3 DEF Rivals
  <2>2. ~Open(s)
    BY <1>2, <1>3, <2>1 DEF Single
  <2> QED
    BY <1>1, <1>2, <2>2 DEF Open
<1>4. CASE t = u
  <2>1. UserOf[vote[s].dev] = UserOf[d] /\ vote[s].post = row[d][k] /\ Informed(d, k)
    BY <1>1, <1>2, <1>4 DEF Rivals
  <2>2. ~Open(s)
    BY <1>2, <2>1 DEF Informed
  <2> QED
    BY <1>1, <1>2, <2>2 DEF Open
<1> QED
  BY <1>1, <1>3, <1>4

(* No block answers a vote that is just made.                              *)
LEMMA NotYetAnswered ==
  ASSUME TypeOK, NEW d \in Devices, OrderlyPhone(d), NEW u, u \notin Taps
  PROVE  \A i \in 1..Len(mainq[d]) : ~Answers(mainq[d][i], u)
BY BlocksKnown DEF Answers

(* An informed tap on an undisturbed post changes what the observers see,  *)
(* and thereby what the cell is told.                                      *)
LEMMA TapTold ==
  ASSUME TypeOK, NEW d \in Devices, OrderlyPhone(d), Watched(d), ScoreOf(d),
         NEW k \in Cells, NEW u, Makes(d, k, u), NEW p \in Posts, p = row[d][k],
         Undisturbed(d, p), Informed(d, k),
         NEW r \in Values, r = NewValue(vote'[u]),
         NEW a, a = mainq[d] \o Event(d, p, r)
  PROVE  Idle(d, p) /\ Becomes(a, k, thumb[d][k], r, u)
<1>1. thumb[d][k] = AsThumb(record[UserOf[d]][p])
  BY DEF Informed
<1>2. Idle(d, p)
  BY DEF Informed, Idle, Own
<1>3. Seeing(d, p)
  BY <1>2 DEF ScoreOf, Known
<1>4. PICK v \in Votes : v = vote'[u] /\ v.shown = thumb[d][k] /\ v.kind \in {1, -1}
  BY DEF Makes, Votes
<1>5. PICK x \in Values : x = record[UserOf[d]][p]
  BY DeviceAssumption DEF TypeOK, DbTypeOK
<1>6. r \in {-1, 0, 1} /\ r # x /\ r # NoRecord /\ r # Unknown
  <2>1. r = IF v.shown = v.kind THEN 0 ELSE v.kind
    BY <1>4 DEF NewValue
  <2>2. v.shown = IF x \in {1, -1} THEN x ELSE 0
    BY <1>1, <1>4, <1>5 DEF AsThumb
  <2> QED
    BY <1>4, <2>1, <2>2 DEF NoRecord, Unknown
<1>7. r # view[d][p]
  BY <1>3, <1>5, <1>6 DEF Seeing
<1>8. <<k, p>> \in observers[d] /\ AsThumb(r) = r
  BY <1>6, PostAssumption DEF Watched, AsThumb
<1>9. PICK q \in Seq(MainBlocks) : q = mainq[d]
  BY ScreenTypes
<1>10. \A i \in 1..Len(q) : ~Answers(q[i], u)
  BY <1>9, NotYetAnswered DEF Makes
<1>11. PICK s : s = thumb[d][k]
  OBVIOUS
<1>12. a = q \o Event(d, p, r)
  BY <1>9
<1>13. Becomes(a, k, s, r, u)
  BY <1>6, <1>7, <1>8, <1>10, <1>12, BecomesEvent
<1> QED
  BY <1>2, <1>11, <1>13

(* A tap expects of the count what the vote will add to it, once its event *)
(* has changed the thumb.                                                  *)
LEMMA TapScore ==
  ASSUME TypeOK, NEW d \in Devices, OrderlyPhone(d), ScreenOf(d), ScoreOf(d),
         NEW k \in Cells, NEW kind \in {1, -1}, Tap(d, k, kind)
  PROVE  ScoreOf(d)'
<1>1. PICK u : Makes(d, k, u) /\ vote'[u] = NewVote(d, k, kind)
  BY TapMakes
<1>2. PICK x \in Posts : x = row[d][k] /\ x # Nowhere
  BY DEF Tap, TypeOK, ScreenTypeOK
<1>3. PICK r \in Values : r = NewValue(vote'[u]) /\ r = NewValue(NewVote(d, k, kind))
  BY <1>1, VoteEffect DEF Makes, Values
<1>4. NewVote(d, k, kind).post = x
  BY <1>2 DEF NewVote
<1>5. /\ mainq' = [mainq EXCEPT ![d] = @ \o Event(d, x, r)]
      /\ view' = [view EXCEPT ![d][x] = r]
  BY <1>3, <1>4 DEF Tap
<1>6. /\ row' = row /\ observers' = observers /\ count' = count /\ thumb' = thumb
      /\ expected' = expected /\ raced' = raced /\ record' = record
  BY DEF Tap, dbVars, screenVars, histVars
<1>7. /\ mainq'[d] = mainq[d] \o Event(d, x, r) /\ mainq[d] \in Seq(MainBlocks)
      /\ \A p \in Posts : p # x => view'[d][p] = view[d][p]
  BY <1>5 DEF TypeOK, LinkTypeOK
<1>8. /\ u \notin Taps /\ Taps' = Taps \cup {u}
      /\ \A t \in Taps : vote'[t] = vote[t] /\ stage'[t] = stage[t]
      /\ stage'[u] = "sent" /\ vote'[u].dev = d /\ vote'[u].cell = k
      /\ vote'[u].post = x /\ vote'[u].informed = Informed(d, k)
  BY <1>1, <1>2 DEF Makes
<1>9. ASSUME NEW p, Undisturbed(d, p)'
      PROVE  Undisturbed(d, p)
  <2>1. VotesKept
    BY <1>8 DEF VotesKept
  <2>2. \A t \in Taps : vote[t].dev = d /\ stage[t] = "failed" => stage'[t] = "failed"
    BY <1>8
  <2> QED
    BY <1>6, <1>9, <2>1, <2>2, UndisturbedBefore
<1>10. \A t, p : Own(t, d, p)' <=> Own(t, d, p) \/ (t = u /\ p = x)
  BY <1>8 DEF Own
<1>11. Placed(d)'
  <2>1. ASSUME NEW t \in Taps', vote'[t].dev = d, Open(t)', t \notin raced'
        PROVE  row'[d][vote'[t].cell] = vote'[t].post
    <3>1. CASE t = u
      BY <1>2, <1>6, <1>8, <3>1
    <3>2. CASE t \in Taps
      BY <1>6, <1>8, <2>1, <3>2 DEF ScoreOf, Placed, Open
    <3> QED
      BY <1>8, <3>1, <3>2
  <2> QED
    BY <1>6, <2>1 DEF ScoreOf, Placed
<1>12. ASSUME NEW p \in Posts, Undisturbed(d, p)', Idle(d, p)'
       PROVE  Seeing(d, p)'
  <2>1. p # x
    BY <1>8, <1>10, <1>12 DEF Idle, Open, Closed
  <2>2. Idle(d, p)
    BY <1>8, <1>10, <1>12 DEF Idle, Open, Own
  <2>3. Seeing(d, p)
    BY <1>9, <1>12, <2>2 DEF ScoreOf, Known
  <2> QED
    BY <1>6, <1>7, <2>1, <2>3 DEF Seeing
<1>13. ASSUME NEW c \in Cells, NEW p \in Posts, Undisturbed(d, p)', NeverReused(d, c, p)'
       PROVE  Tally(d, c, p)'
  <2>1. Undisturbed(d, p) /\ NeverReused(d, c, p)
    BY <1>6, <1>9, <1>13 DEF NeverReused
  <2>2. Tally(d, c, p)
    BY <2>1 DEF ScoreOf, ScoreRight
  <2>3. NoneCounted(d, p)' => NoneCounted(d, p)
    BY <1>8, <1>10 DEF NoneCounted, Own
  <2>4. count'[d][c] = count[d][c] /\ expected'[d][p] = expected[d][p]
    BY <1>6
  <2>5. CASE p # x
    <3>1. <<c, x>> \notin observers[d]
      BY <2>1, <2>5 DEF NeverReused
    <3>2. ASSUME NEW t, Own(t, d, p), stage[t] \in Live
          PROVE  Becomes(mainq'[d], c, thumb[d][c], NewValue(vote[t]), t)
      <4>1. PICK s, v, q : s = thumb[d][c] /\ v = NewValue(vote[t]) /\ q = mainq[d]
        OBVIOUS
      <4>2. Becomes(q, c, s, v, t) /\ q \in Seq(MainBlocks)
        BY <1>7, <2>2, <3>2, <4>1 DEF Tally, Pays, Own
      <4>3. mainq'[d] = q \o Event(d, x, r)
        BY <1>7, <4>1
      <4>4. Becomes(mainq'[d], c, s, v, t)
        BY <3>1, <4>2, <4>3, BecomesEvent
      <4> QED
        BY <4>1, <4>4
    <3>3. ASSUME NEW t, Own(t, d, p)
          PROVE  Pays(d, c, p, t)'
      <4>1. Pays(d, c, p, t) /\ stage'[t] = stage[t] /\ vote'[t] = vote[t]
        BY <1>8, <2>2, <3>3 DEF Tally, Own
      <4> QED
        BY <1>6, <2>4, <3>2, <3>3, <4>1 DEF Pays
    <3> QED
      BY <1>10, <2>2, <2>3, <2>4, <2>5, <3>3 DEF Tally
  <2>6. CASE p = x
    <3>1. c = k
      BY <1>2, <2>1, <2>6 DEF ScoreOf, Placed, NeverReused
    <3>2. Informed(d, k)
      BY <1>8, <1>13, <2>6 DEF Undisturbed
    <3>3. PICK a : a = mainq[d] \o Event(d, x, r)
      OBVIOUS
    <3>4. Idle(d, x) /\ Becomes(a, k, thumb[d][k], r, u)
      BY <1>1, <1>2, <1>3, <2>1, <2>6, <3>2, <3>3, TapTold DEF ScreenOf
    <3>5. ASSUME NEW t, Own(t, d, p)
          PROVE  Pays(d, c, p, t)'
      <4>1. stage'[t] = stage[t] /\ stage[t] \in Closed
        BY <1>8, <2>6, <3>4, <3>5 DEF Idle, Open, Own
      <4> QED
        BY <4>1 DEF Pays, Closed, Scored, Live
    <3>6. Pays(d, c, p, u)'
      BY <1>3, <1>6, <1>7, <1>8, <3>1, <3>3, <3>4 DEF Pays, Scored
    <3> QED
      BY <1>10, <2>2, <2>3, <2>4, <3>5, <3>6 DEF Tally
  <2> QED
    BY <2>5, <2>6
<1> QED
  BY <1>11, <1>12, <1>13 DEF ScoreOf, Known, ScoreRight

-----------------------------------------------------------------------------
(* The table is filled.                                                    *)

(* A layout gives a post one cell.                                         *)
LEMMA RowsApart ==
  ASSUME NEW f \in Layouts, NEW c \in Cells, NEW k \in Cells,
         RowsOf(f)[c] = RowsOf(f)[k], RowsOf(f)[c] # Nowhere
  PROVE  c = k
<1>1. ASSUME NEW h \in Cells, RowsOf(f)[h] # Nowhere
      PROVE  RowsOf(f)[h] \in Posts /\ f[RowsOf(f)[h]] = h
  <2>1. \E p \in Posts : f[p] = h
    BY <1>1 DEF RowsOf
  <2>2. RowsOf(f)[h] = CHOOSE p \in Posts : f[p] = h
    BY <2>1 DEF RowsOf
  <2>3. \E p : p \in Posts /\ f[p] = h
    BY <2>1
  <2> QED
    BY <2>2, <2>3
<1>2. f[RowsOf(f)[c]] = c /\ f[RowsOf(f)[k]] = k
  BY <1>1
<1> QED
  BY <1>2

(* No votes are worth nothing.                                             *)
LEMMA NothingWorth == Worth({}) = 0
<1>1. {t \in {} : vote[t].kind = Delta(vote[t])} = {}
      /\ {t \in {} : vote[t].kind # Delta(vote[t])} = {}
  OBVIOUS
<1>2. Cardinality({}) = 0
  BY FS_EmptySet
<1> QED
  BY <1>1, <1>2 DEF Worth

(* A phone that has none of its votes under way, or none that still counts *)
(* as undisturbed, starts its counts afresh.                               *)
LEMMA FreshScore ==
  ASSUME TypeOK, NEW d \in Devices, ScoreOf(d), NEW f \in Layouts,
         vote' = vote, Taps' = Taps, stage' = stage, view' = view, record' = record,
         raced \subseteq raced', row'[d] = RowsOf(f),
         \A t \in Taps : vote[t].dev = d /\ Open(t) => t \in raced',
         NEW g, \A c \in Cells : RowsOf(f)[c] # Nowhere => count'[d][c] = g[RowsOf(f)[c]],
         \A p \in Posts : Idle(d, p) => g[p] = expected'[d][p]
  PROVE  ScoreOf(d)'
<1>1. ASSUME NEW p \in Posts, Undisturbed(d, p)'
      PROVE  Undisturbed(d, p) /\ Idle(d, p)
  <2>1. VotesKept
    BY DEF VotesKept
  <2>2. Undisturbed(d, p)
    BY <1>1, <2>1, UndisturbedBefore
  <2>3. Idle(d, p)
    BY <1>1 DEF Undisturbed, Idle, Own
  <2> QED
    BY <2>2, <2>3
<1>2. Placed(d)'
  <2>1. \A t \in Taps : Open(t)' => Open(t)
    BY DEF Open
  <2>2. \A c, k \in Cells : row'[d][c] = row'[d][k] /\ row'[d][c] # Nowhere => c = k
    BY RowsApart
  <2> QED
    BY <2>1, <2>2 DEF Placed
<1>3. ASSUME NEW p \in Posts, Undisturbed(d, p)'
      PROVE  Seeing(d, p)'
  <2>1. Seeing(d, p)
    BY <1>1, <1>3 DEF ScoreOf, Known
  <2> QED
    BY <2>1 DEF Seeing
<1>4. ASSUME NEW c \in Cells, NEW p \in Posts, Undisturbed(d, p)', NeverReused(d, c, p)'
      PROVE  Tally(d, c, p)'
  <2>1. Idle(d, p)
    BY <1>1, <1>4
  <2>2. RowsOf(f)[c] = p /\ p # Nowhere
    BY <1>4, PostAssumption DEF NeverReused
  <2>3. count'[d][c] = expected'[d][p]
    BY <2>1, <2>2
  <2>4. ASSUME NEW t, Own(t, d, p)'
        PROVE  Pays(d, c, p, t)'
    <3>1. stage'[t] \in Closed
      BY <2>1, <2>4 DEF Idle, Own, Open
    <3> QED
      BY <3>1 DEF Pays, Closed, Scored, Live
  <2> QED
    BY <2>3, <2>4 DEF Tally
<1> QED
  BY <1>2, <1>3, <1>4 DEF ScoreOf, Known, ScoreRight

(* A reload fills the cells with the points they are expected to show.     *)
LEMMA ReloadScore ==
  ASSUME TypeOK, NEW d \in Devices, ScoreOf(d), ReloadFeed(d)
  PROVE  ScoreOf(d)'
<1>1. PICK f \in Layouts,
           overlaid \in SUBSET {t \in Taps : /\ vote[t].dev = d
                                            /\ stage[t] \in {"count", "forgotten"}},
           hidden \in SUBSET Hideable(d) :
        Fill(d, f, [p \in Posts |->
                 Points(p) + Worth({t \in overlaid : vote[t].post = p})
                   - Worth({t \in hidden : vote[t].post = p})])
  BY ZenonT(60) DEF ReloadFeed
<1>2. PICK g : g = [p \in Posts |->
                      Points(p) + Worth({t \in overlaid : vote[t].post = p})
                        - Worth({t \in hidden : vote[t].post = p})]
  OBVIOUS
<1>3. Fill(d, f, g)
  BY <1>1, <1>2
<1>4. /\ row'[d] = RowsOf(f)
      /\ \A c \in Cells : RowsOf(f)[c] # Nowhere => count'[d][c] = g[RowsOf(f)[c]]
      /\ \A p \in Posts : expected'[d][p] = Points(p)
  BY <1>3 DEF Fill, TypeOK, ScreenTypeOK, HistTypeOK
<1>5. /\ vote' = vote /\ Taps' = Taps /\ stage' = stage /\ view' = view /\ record' = record
      /\ raced' = raced \cup {t \in Taps : vote[t].dev = d /\ Open(t)}
  BY SameTaps DEF ReloadFeed, dbVars, linkVars
<1>6. ASSUME NEW p \in Posts, Idle(d, p)
      PROVE  g[p] = expected'[d][p]
  <2>1. {t \in overlaid : vote[t].post = p} = {}
    BY <1>6 DEF Idle, Own, Open, Closed
  <2>2. {t \in hidden : vote[t].post = p} = {}
    BY <1>6 DEF Hideable, Idle, Own, Open, Closed
  <2>3. g[p] = Points(p) + Worth({}) - Worth({})
    BY <1>2, <2>1, <2>2
  <2>4. g[p] = Points(p)
    BY <2>3, NothingWorth, PointsType
  <2> QED
    BY <1>4, <2>4
<1>7. \A t \in Taps : vote[t].dev = d /\ Open(t) => t \in raced'
  BY <1>5
<1> QED
  BY <1>4, <1>5, <1>6, <1>7, FreshScore

(* So does a launch, which ends every vote of the phone before.            *)
LEMMA LaunchScore ==
  ASSUME TypeOK, NEW d \in Devices, Watched(d), ScoreOf(d), Launch(d)
  PROVE  ScoreOf(d)'
<1>1. PICK f \in Layouts : Fill(d, f, [p \in Posts |-> Points(p)])
  BY DEF Launch
<1>2. PICK g : g = [p \in Posts |-> Points(p)]
  OBVIOUS
<1>3. Fill(d, f, g)
  BY <1>1, <1>2
<1>4. /\ row'[d] = RowsOf(f)
      /\ \A c \in Cells : RowsOf(f)[c] # Nowhere => count'[d][c] = g[RowsOf(f)[c]]
      /\ \A p \in Posts : expected'[d][p] = Points(p)
  BY <1>3 DEF Fill, TypeOK, ScreenTypeOK, HistTypeOK
<1>5. /\ vote' = vote /\ Taps' = Taps /\ stage' = stage /\ view' = view /\ record' = record
      /\ raced' = raced /\ ~alive[d]
  BY SameTaps DEF Launch, dbVars
<1>6. \A t \in Taps : vote[t].dev = d => ~Open(t)
  BY <1>5 DEF Watched
<1>7. \A p \in Posts : g[p] = expected'[d][p]
  BY <1>2, <1>4
<1>8. \A t \in Taps : vote[t].dev = d /\ Open(t) => t \in raced'
  BY <1>6
<1> QED
  BY <1>4, <1>5, <1>7, <1>8, FreshScore

(* A phone that is off displays nothing.                                   *)
LEMMA KillScore ==
  ASSUME TypeOK, NEW d \in Devices, Kill(d)
  PROVE  ScoreOf(d)'
<1>1. /\ \A c \in Cells : row'[d][c] = Nowhere
      /\ \A p \in Posts : view'[d][p] = Unknown
      /\ vote' = vote /\ Taps' = Taps
      /\ \A t \in Taps : vote[t].dev = d => ~Open(t)'
  BY SameTaps DEF Kill, Open, Closed, TypeOK, LinkTypeOK, ScreenTypeOK
<1>2. Placed(d)'
  BY <1>1 DEF Placed
<1>3. \A p \in Posts : Known(d, p)'
  BY <1>1 DEF Known, Seeing
<1>4. \A c \in Cells, p \in Posts : ~NeverReused(d, c, p)'
  BY <1>1, PostAssumption DEF NeverReused
<1> QED
  BY <1>2, <1>3, <1>4 DEF ScoreOf, ScoreRight

-----------------------------------------------------------------------------
(* All steps.                                                              *)

LEMMA InitScore == Init => ScoreInv
<1> SUFFICES ASSUME Init
             PROVE  ScoreInv
  OBVIOUS
<1>1. Taps = {}
  BY DEF Init, Taps
<1>2. Single
  BY <1>1 DEF Single
<1>3. ASSUME NEW d \in Devices
      PROVE  ScoreOf(d)
  <2>1. PICK f \in Layouts : row[d] = RowsOf(f)
    BY DEF Init
  <2>2. Placed(d)
    BY <1>1, <2>1, RowsApart DEF Placed
  <2>3. \A p \in Posts : Known(d, p)
    BY DEF Init, Known, Seeing
  <2>4. \A c \in Cells, p \in Posts : Tally(d, c, p)
    BY <1>1 DEF Init, Tally, Own
  <2> QED
    BY <2>2, <2>3, <2>4 DEF ScoreOf, ScoreRight
<1> QED
  BY <1>2, <1>3 DEF ScoreInv

(* Votes that have ended stay so.                                          *)
LEMMA EndedStays ==
  ASSUME TypeOK, NEW d \in Devices, OrderlyPhone(d),
         \/ ReloadFeed(d) \/ Launch(d) \/ Connect(d)
         \/ Server(d) \/ Client(d) \/ MainThread(d) \/ Fault(d)
  PROVE  vote' = vote /\ Taps' = Taps /\ \A t \in Taps : ~Open(t) => ~Open(t)'
<1>1. stage \in [Taps -> Stages]
  BY ScreenTypes
<1>2. vote' = vote /\ Taps' = Taps
  <2>1. UNCHANGED tapVars
    BY DEF ReloadFeed, Launch, Connect, Server, Listen, StoreRecord, CommitCount,
       Client, DeliverValue, DeliverAck, DeliverCommit, Cancel,
       MainThread, MainValue, MainStored, MainCounted, MainError,
       Fault, RefuseRecord, GiveUp, Forget, Disconnect, Kill
  <2> QED
    BY <2>1, SameTaps
<1>3. CASE \/ ReloadFeed(d) \/ Launch(d) \/ Connect(d) \/ DeliverValue(d) \/ MainValue(d)
           \/ \E p \in Posts : Listen(d, p)
  <2>1. stage' = stage
    BY <1>3 DEF ReloadFeed, Launch, Connect, DeliverValue, MainValue, Listen
  <2> QED
    BY <1>2, <2>1 DEF Open
<1>4. ASSUME NEW t, NEW x, Open(t), stage' = [stage EXCEPT ![t] = x]
      PROVE  \A s \in Taps : ~Open(s) => ~Open(s)'
  BY <1>1, <1>4 DEF Open
<1>5. CASE \E t \in Taps : \/ StoreRecord(d, t) \/ CommitCount(d, t) \/ Cancel(d, t)
                           \/ RefuseRecord(d, t) \/ GiveUp(d, t) \/ Forget(d, t)
  <2>1. PICK t \in Taps : \/ StoreRecord(d, t) \/ CommitCount(d, t) \/ Cancel(d, t)
                          \/ RefuseRecord(d, t) \/ GiveUp(d, t) \/ Forget(d, t)
    BY <1>5
  <2>2. Open(t)
    BY <2>1 DEF StoreRecord, CommitCount, Cancel, RefuseRecord, GiveUp, Forget, FirstWrite,
       Open, Closed
  <2>3. \E x : stage' = [stage EXCEPT ![t] = x]
    BY <2>1 DEF StoreRecord, CommitCount, Cancel, RefuseRecord, GiveUp, Forget
  <2> QED
    BY <1>2, <1>4, <2>2, <2>3
<1>6. CASE DeliverAck(d) \/ DeliverCommit(d)
  <2>1. PICK t : t = Head(down[d]).tap
    OBVIOUS
  <2>2. Open(t) /\ \E x : stage' = [stage EXCEPT ![t] = x]
    BY <1>6, <2>1 DEF DeliverAck, DeliverCommit, Open, Closed
  <2> QED
    BY <1>2, <1>4, <2>2
<1>7. CASE MainStored(d) \/ MainCounted(d) \/ MainError(d)
  <2>1. PICK t : t = Head(mainq[d]).tap
    OBVIOUS
  <2>2. Open(t) /\ \E x : stage' = [stage EXCEPT ![t] = x]
    BY <1>7, <2>1 DEF MainStored, MainCounted, MainError, Open, Closed
  <2> QED
    BY <1>2, <1>4, <2>2
<1>8. CASE Disconnect(d)
  BY <1>2, <1>8 DEF Disconnect, AfterDrop, Open, Closed
<1>9. CASE Kill(d)
  BY <1>2, <1>9 DEF Kill, Open, Closed
<1> QED
  BY <1>3, <1>5, <1>6, <1>7, <1>8, <1>9 DEF Server, Client, MainThread, Fault

(* No step of a phone gives an informed vote a rival.                      *)
LEMMA NextSingle ==
  ASSUME TypeOK, Single, NEW d \in Devices, OrderlyPhone(d),
         \/ \E c \in Cells, kind \in {1, -1} : Tap(d, c, kind)
         \/ ReloadFeed(d) \/ Launch(d) \/ Connect(d)
         \/ Server(d) \/ Client(d) \/ MainThread(d) \/ Fault(d)
  PROVE  Single'
<1>1. CASE \E c \in Cells, kind \in {1, -1} : Tap(d, c, kind)
  BY <1>1, TapMakes, TapSingle
<1>2. CASE \/ ReloadFeed(d) \/ Launch(d) \/ Connect(d)
           \/ Server(d) \/ Client(d) \/ MainThread(d) \/ Fault(d)
  <2>1. vote' = vote /\ Taps' = Taps /\ \A t \in Taps : ~Open(t) => ~Open(t)'
    BY <1>2, EndedStays
  <2> QED
    BY <2>1 DEF Single, Rivals
<1> QED
  BY <1>1, <1>2

(* Each step of a phone keeps its own counts right.                        *)
LEMMA OwnScore ==
  ASSUME TypeOK, ViewInv, OrderInv, ScreenInv, ScoreInv, NEW d \in Devices,
         \/ \E c \in Cells, kind \in {1, -1} : Tap(d, c, kind)
         \/ ReloadFeed(d) \/ Launch(d) \/ Connect(d)
         \/ Server(d) \/ Client(d) \/ MainThread(d) \/ Fault(d)
  PROVE  ScoreOf(d)'
<1>1. /\ OrderlyPhone(d) /\ AnswersRight(d) /\ ViewOf(d) /\ ScreenOf(d) /\ ScoreOf(d)
      /\ Single /\ Watched(d)
  BY DEF ViewInv, ViewOf, OrderInv, OrderlyPhone, ScreenInv, ScreenOf, ScoreInv
<1>2. CASE \E c \in Cells, kind \in {1, -1} : Tap(d, c, kind)
  BY <1>1, <1>2, TapScore
<1>3. CASE ReloadFeed(d)
  BY <1>1, <1>3, ReloadScore
<1>4. CASE Launch(d)
  BY <1>1, <1>4, LaunchScore
<1>5. CASE \/ Connect(d) \/ Disconnect(d) \/ \E p \in Posts : Listen(d, p)
           \/ \E t \in Taps : StoreRecord(d, t) \/ RefuseRecord(d, t)
  BY <1>1, <1>5, LinkScore
<1>6. CASE \E t \in Taps : CommitCount(d, t)
  BY <1>1, <1>6, CountScore
<1>7. CASE DeliverValue(d)
  BY <1>1, <1>7, ValueScore
<1>8. CASE DeliverAck(d)
  BY <1>1, <1>8, AckScore
<1>9. CASE DeliverCommit(d)
  BY <1>1, <1>9, CommitScore
<1>10. CASE \E t \in Taps : GiveUp(d, t) \/ Cancel(d, t)
  BY <1>1, <1>10, AbortScore
<1>11. CASE MainValue(d)
  BY <1>1, <1>11, BlockScore
<1>12. CASE MainStored(d)
  BY <1>1, <1>12, StoredScore
<1>13. CASE MainCounted(d) \/ MainError(d)
  BY <1>1, <1>13, EndScore
<1>14. CASE Kill(d)
  BY <1>14, KillScore
<1>15. CASE \E t \in Taps : Forget(d, t)
  BY <1>1, <1>15, ForgetScore
<1> QED
  BY <1>2, <1>3, <1>4, <1>5, <1>6, <1>7, <1>8, <1>9, <1>10, <1>11, <1>12, <1>13, <1>14,
     <1>15
     DEF Server, Client, MainThread, Fault

(* A step that changes nothing keeps the invariant.                        *)
LEMMA StutterScore ==
  ASSUME ScoreInv, UNCHANGED vars
  PROVE  ScoreInv'
<1>1. UNCHANGED <<record, taps, vote, stage, view, mainq, observers, row, thumb, count,
                  expected, raced>>
  BY DEF vars, dbVars, tapVars, linkVars, screenVars, histVars
<1>2. Taps' = Taps
  BY <1>1 DEF Taps
<1>3. Single'
  BY <1>1, <1>2 DEF ScoreInv, Single, Rivals, Open
<1>4. ASSUME NEW d \in Devices
      PROVE  ScoreOf(d)'
  <2>1. Placed(d)'
    BY <1>1, <1>2 DEF ScoreInv, ScoreOf, Placed, Open
  <2>2. \A t, p : Own(t, d, p)' = Own(t, d, p)
    BY <1>1, <1>2 DEF Own
  <2>3. \A p : Undisturbed(d, p)' = Undisturbed(d, p)
    BY <1>1, <1>2 DEF Undisturbed, Alone
  <2>4. ASSUME NEW p \in Posts
        PROVE  Known(d, p)'
    <3>1. Known(d, p) /\ Seeing(d, p)' = Seeing(d, p)
      BY <1>1 DEF ScoreInv, ScoreOf, Seeing
    <3>2. Idle(d, p)' = Idle(d, p)
      BY <1>1, <1>2, <2>2 DEF Idle, Open
    <3> QED
      BY <2>3, <3>1, <3>2 DEF Known
  <2>5. ASSUME NEW c \in Cells, NEW p \in Posts
        PROVE  ScoreRight(d, c, p)'
    <3>1. ScoreRight(d, c, p) /\ NeverReused(d, c, p)' = NeverReused(d, c, p)
      BY <1>1 DEF ScoreInv, ScoreOf, NeverReused
    <3>2. NoneCounted(d, p)' = NoneCounted(d, p)
      BY <1>1, <1>2, <2>2 DEF NoneCounted
    <3>3. \A t : Pays(d, c, p, t)' = Pays(d, c, p, t)
      BY <1>1 DEF Pays
    <3>4. Tally(d, c, p) => Tally(d, c, p)'
      BY <1>1, <1>2, <2>2, <3>2, <3>3 DEF Tally
    <3> QED
      BY <2>3, <3>1, <3>4 DEF ScoreRight
  <2> QED
    BY <2>1, <2>4, <2>5 DEF ScoreOf
<1> QED
  BY <1>3, <1>4 DEF ScoreInv

(* Every step keeps the invariant: the phone that makes it by the lemmas   *)
(* above, the others because they are apart.                               *)
LEMMA NextScore ==
  TypeOK /\ ViewInv /\ OrderInv /\ ScreenInv /\ ScoreInv /\ [Next]_vars => ScoreInv'
<1> SUFFICES ASSUME TypeOK, ViewInv, OrderInv, ScreenInv, ScoreInv, [Next]_vars
             PROVE  ScoreInv'
  OBVIOUS
<1>1. ASSUME NEW d \in Devices,
             \/ \E c \in Cells, kind \in {1, -1} : Tap(d, c, kind)
             \/ ReloadFeed(d) \/ Launch(d) \/ Connect(d)
             \/ Server(d) \/ Client(d) \/ MainThread(d) \/ Fault(d)
      PROVE  ScoreInv'
  <2>1. ScoreOf(d)'
    BY <1>1, OwnScore
  <2>2. OrderlyPhone(d) /\ Single
    BY DEF OrderInv, OrderlyPhone, ScoreInv
  <2>3. Single'
    BY <1>1, <2>2, NextSingle
  <2>4. ASSUME NEW e \in Devices, e # d
        PROVE  ScoreOf(e)'
    <3>1. Apart(e)
      BY <1>1, <2>2, <2>4, OthersApart
    <3>2. count'[e] = count[e] /\ expected'[e] = expected[e] /\ raced \subseteq raced'
      BY <1>1, <2>4, CountsApart
    <3>3. ScoreOf(e)
      BY DEF ScoreInv
    <3> QED
      BY <3>1, <3>2, <3>3, ApartScore
  <2> QED
    BY <2>1, <2>3, <2>4 DEF ScoreInv
<1>2. CASE UNCHANGED vars
  BY <1>2, StutterScore
<1> QED
  BY <1>1, <1>2 DEF Next

(* Whatever was tapped where and whatever failed, the count of a cell for  *)
(* an undisturbed post lacks exactly the vote that is counted and not yet  *)
(* completed.                                                              *)
THEOREM CountsFollowVotes == Spec => []ScoreInv
<1>1. Init => ScoreInv
  BY InitScore
<1>2. TypeOK /\ ViewInv /\ OrderInv /\ ScreenInv /\ ScoreInv /\ [Next]_vars => ScoreInv'
  BY NextScore
<1> QED
  BY <1>1, <1>2, TypeCorrect, ViewFollowsRecord, VotesStayInOrder, ScreensFollowViews, PTL
     DEF Spec

(* A settled cell counts the points it was loaded with and this phone's    *)
(* votes since, whatever those took, if all were informed and none failed  *)
(* or was under way at a reload.                                           *)
THEOREM SettledCountHolds == Spec => []SettledCountIsExpected
<1>1. ScoreInv => SettledCountIsExpected
  <2> SUFFICES ASSUME ScoreInv, NEW d \in Devices, NEW c \in Cells, NEW p \in Posts,
                      Settled(d, p), NeverReused(d, c, p), Alone(d),
                      \A t \in Taps : vote[t].dev = d /\ vote[t].post = p =>
                        t \notin raced /\ stage[t] # "failed" /\ vote[t].informed
               PROVE  count[d][c] = expected[d][p]
    BY DEF SettledCountIsExpected
  <2>1. Undisturbed(d, p)
    BY DEF Undisturbed
  <2>2. Tally(d, c, p)
    BY <2>1 DEF ScoreInv, ScoreOf, ScoreRight
  <2>3. NoneCounted(d, p)
    BY DEF NoneCounted, Own, Settled, Open, Closed, Scored, Failing
  <2> QED
    BY <2>2, <2>3 DEF Tally
<1> QED
  BY <1>1, CountsFollowVotes, PTL
=============================================================================
