--------------------------- MODULE CommentsProofs ---------------------------
(***************************************************************************)
(* Proofs about Comments: the four invariants that TLC checks on a small   *)
(* instance hold for any number of comments, reads, sheets, attempts and   *)
(* faults.                                                                 *)
(*                                                                         *)
(* The inductive invariant follows what is in flight between the client    *)
(* and the server.  Shape: the types.  Known: whatever a message, a queued *)
(* block or the screen lists exists.  Flight: a read has exactly one       *)
(* listen or answer in flight, none while a transaction hides the post,    *)
(* and every one of them goes before the attempt of the transaction.       *)
(* Covered: an answer of the server holds what was stored when its listen  *)
(* was sent.  Included: an answer that comes after the reply to a comment  *)
(* holds that comment.                                                     *)
(***************************************************************************)
EXTENDS CommentsProperties, FiniteSetTheorems, SequenceTheorems, TLAPS

Requests == [type : {"listen"}] \cup [type : {"put"}, comment : Nat]
              \cup [type : {"vote"}, known : BOOLEAN, base : SUBSET Nat]

Messages == [type : {"comments", "stale"}, told : SUBSET Nat]
              \cup [type : {"error", "voted"}]
              \cup [type : {"reply"}, comment : Nat]

Blocks == [type : {"comments"}, page : Nat, floor : SUBSET Nat,
           how : {"server", "vote", "error"}, told : SUBSET Nat]
            \cup [type : {"reply"}, comment : Nat]
            \cup [type : {"dismissed"}, page : Nat]

Reads == [page : Nat, floor : SUBSET Nat]
Origins == [id : Nat, page : Nat]

(* The comments; the queues; the screen; the transaction.                  *)
CommentShape ==
  /\ made \in 0..MaxComments
  /\ stored \subseteq Made /\ denied \subseteq Made
  /\ stage \in [Made -> Stages]
  /\ from \in [Made -> Origins]
  /\ \A i \in Made : from[i].page <= pages

QueueShape ==
  /\ reads \in Seq(Reads)
  /\ up \in Seq(Requests) /\ down \in Seq(Messages) /\ mainq \in Seq(Blocks)

ScreenShape ==
  /\ pages \in Nat /\ sheets \in Nat
  /\ page \in 0..pages /\ sheet \in [id : 0..sheets, alert : BOOLEAN]
  /\ spinner \in BOOLEAN

VoteShape == vote \in [on : BOOLEAN, base : SUBSET Nat, marks : Nat]

Shape == CommentShape /\ QueueShape /\ ScreenShape /\ VoteShape

(* What may be listed.                                                     *)
Exists == stored \cup Pending \cup denied

(* The comments whose put, reply or completion is on its way, each once.   *)
PutAt(n) == n \in 1..Len(up) /\ up[n].type = "put"
ReplyAt(n) == n \in 1..Len(down) /\ down[n].type = "reply"
DoneAt(n) == n \in 1..Len(mainq) /\ mainq[n].type = "reply"

(* What the stage of a comment says of the database.                       *)
Stored ==
  /\ \A i \in Made : /\ stage[i] \in {"stored", "acked", "done"} => i \in stored
                     /\ stage[i] = "refused" => i \in denied
  /\ returned \subseteq Made /\ \A i \in returned : stage[i] = "done"

Puts ==
  /\ \A n : PutAt(n) => up[n].comment \in Made /\ stage[up[n].comment] = "sent"
  /\ \A n, k : PutAt(n) /\ PutAt(k) /\ up[n].comment = up[k].comment => n = k

Replies ==
  /\ \A n : ReplyAt(n) =>
       down[n].comment \in Made /\ stage[down[n].comment] \in {"stored", "refused"}
  /\ \A n, k : ReplyAt(n) /\ ReplyAt(k) /\ down[n].comment = down[k].comment => n = k

Dones ==
  /\ \A n : DoneAt(n) =>
       mainq[n].comment \in Made /\ stage[mainq[n].comment] \in {"acked", "denied"}
  /\ \A n, k : DoneAt(n) /\ DoneAt(k) /\ mainq[n].comment = mainq[k].comment => n = k

Known == Stored /\ Puts /\ Replies /\ Dones

Listable ==
  /\ \A n \in 1..Len(down) : down[n].type \in {"comments", "stale"} => down[n].told \subseteq stored
  /\ \A n \in 1..Len(mainq) : mainq[n].type = "comments" => mainq[n].told \subseteq Exists
  /\ vote.base \subseteq Exists
  /\ table \subseteq Exists

(* A listen in flight, or its answer; an attempt, or its answer.           *)
ListenAt(n) == n \in 1..Len(up) /\ up[n].type = "listen"
AnswerAt(n) == n \in 1..Len(down) /\ down[n].type \in {"comments", "error"}
VoteAt(n)   == n \in 1..Len(up) /\ up[n].type = "vote"
VotedAt(n)  == n \in 1..Len(down) /\ down[n].type \in {"voted", "stale"}

Flight ==
  /\ vote.on => reads = << >>
  /\ ~vote.on => \A n : ~VoteAt(n) /\ ~VotedAt(n)
  /\ \A n, k : VoteAt(n) /\ VoteAt(k) => n = k
  /\ \A n, k : VotedAt(n) /\ VotedAt(k) => n = k
  /\ \A n, k : ~(VoteAt(n) /\ VotedAt(k))
  /\ \A n, k : VoteAt(n) /\ ListenAt(k) => k < n
  /\ \A n, k : VotedAt(n) => ~ListenAt(k) /\ (AnswerAt(k) => k < n)
  /\ ~vote.on =>
       /\ \A n, k : ListenAt(n) /\ ListenAt(k) => n = k
       /\ \A n, k : AnswerAt(n) /\ AnswerAt(k) => n = k
       /\ \A n, k : ~(ListenAt(n) /\ AnswerAt(k))
       /\ reads = << >> => \A n : ~ListenAt(n) /\ ~AnswerAt(n)
       /\ reads # << >> => \E n : ListenAt(n) \/ AnswerAt(n)

Covered ==
  /\ \A n \in 1..Len(reads) : reads[n].floor = reads[1].floor /\ reads[n].floor \subseteq stored
  /\ \A n : AnswerAt(n) /\ down[n].type = "comments" /\ reads # << >>
       => reads[1].floor \subseteq down[n].told
  /\ \A n \in 1..Len(mainq) : mainq[n].type = "comments" /\ mainq[n].how = "server"
       => mainq[n].floor \subseteq mainq[n].told
  /\ listed.how = "server" => listed.floor \subseteq table

(* Positions of answers that hold comments.                                *)
ToldAt(n) == n \in 1..Len(down) /\ down[n].type = "comments"
ServedAt(n) == n \in 1..Len(mainq) /\ mainq[n].type = "comments" /\ mainq[n].how = "server"

(* A list of page p is being read, or about to be shown.                   *)
Coming(p) ==
  \/ \E n \in 1..Len(reads) : reads[n].page = p
  \/ \E n \in 1..Len(mainq) : mainq[n].type \in {"comments", "dismissed"} /\ mainq[n].page = p

RepliesCome ==
  /\ \A n, k : ReplyAt(n) /\ stage[down[n].comment] = "stored" /\ ToldAt(k) /\ n < k
       => down[n].comment \in down[k].told
  /\ \A i \in Made : stage[i] \in {"acked", "done"} => \A k : ToldAt(k) => i \in down[k].told

RepliesRun ==
  /\ \A n, k : DoneAt(n) /\ stage[mainq[n].comment] = "acked" /\ ServedAt(k) /\ n < k
       => mainq[n].comment \in mainq[k].told
  /\ \A i \in Made : stage[i] = "done" => \A k : ServedAt(k) => i \in mainq[k].told

RepliesShow ==
  \A i \in returned :
    from[i].page = page /\ page # 0 /\ ~Coming(page) /\ listed.how = "server" => i \in table

Included == RepliesCome /\ RepliesRun /\ RepliesShow

IInv == Shape /\ Known /\ Listable /\ Flight /\ Covered /\ Included

-----------------------------------------------------------------------------
(* Queues.                                                                 *)

(* Appending keeps the queue and puts one element at its end.              *)
LEMMA AppendFacts ==
  ASSUME NEW S, NEW q \in Seq(S), NEW x \in S
  PROVE  /\ Append(q, x) \in Seq(S)
         /\ Len(Append(q, x)) = Len(q) + 1
         /\ \A n \in 1..Len(q) : Append(q, x)[n] = q[n]
         /\ Append(q, x)[Len(q) + 1] = x
         /\ Append(q, x) # << >>
BY AppendProperties

(* Taking the head moves the others one place up.                          *)
LEMMA TailFacts ==
  ASSUME NEW S, NEW q \in Seq(S), q # << >>
  PROVE  /\ Tail(q) \in Seq(S)
         /\ Len(q) \in Nat \ {0} /\ Len(Tail(q)) = Len(q) - 1
         /\ \A n \in 1..Len(Tail(q)) : n + 1 \in 1..Len(q) /\ Tail(q)[n] = q[n + 1]
         /\ Head(q) \in S /\ Head(q) = q[1] /\ 1 \in 1..Len(q)
BY HeadTailProperties

(* A concatenation holds the elements of both queues, in order.            *)
LEMMA ConcatFacts ==
  ASSUME NEW S, NEW q \in Seq(S), NEW r \in Seq(S)
  PROVE  /\ q \o r \in Seq(S)
         /\ Len(q \o r) = Len(q) + Len(r)
         /\ \A n \in 1..Len(q) : (q \o r)[n] = q[n]
         /\ \A n \in 1..Len(r) : (q \o r)[Len(q) + n] = r[n]
         /\ \A n \in 1..Len(q \o r) :
              n \in 1..Len(q) \/ \E k \in 1..Len(r) : n = Len(q) + k
BY ConcatProperties

(* A queue has elements exactly at its positions.                          *)
LEMMA QueueFacts ==
  ASSUME NEW S, NEW q \in Seq(S)
  PROVE  /\ Len(q) \in Nat /\ \A n \in 1..Len(q) : q[n] \in S
         /\ q = << >> <=> Len(q) = 0
OBVIOUS

-----------------------------------------------------------------------------
(* Shape.                                                                  *)

(* The numbers of comments, pages and sheets.                              *)
LEMMA Numbers ==
  ASSUME Shape
  PROVE  /\ made \in Nat /\ MaxComments \in Nat /\ made <= MaxComments
         /\ pages \in Nat /\ pages + 1 \in Nat /\ page \in Nat
         /\ sheets \in Nat /\ sheet.id \in Nat
         /\ Made \subseteq Nat /\ made + 1 \notin Made
         /\ Pending \subseteq Made /\ stored \subseteq Nat /\ vote.base \subseteq Nat
BY BoundAssumption DEF Shape, CommentShape, ScreenShape, VoteShape, Made, Pending

(* The parts of messages and blocks.                                       *)
LEMMA MessageFacts ==
  /\ \A m \in Messages : /\ m.type \in {"comments", "stale"} => m.told \subseteq Nat
                         /\ m.type = "reply" => m.comment \in Nat
  /\ \A r \in Requests : r.type = "put" => r.comment \in Nat
  /\ \A b \in Blocks : /\ b.type \in {"comments", "dismissed"} => b.page \in Nat
                       /\ b.type = "reply" => b.comment \in Nat
BY DEF Messages, Requests, Blocks

(* Answering every read queues a block for each.                           *)
LEMMA AnsweredFacts ==
  ASSUME Shape, NEW how \in {"server", "vote", "error"}, NEW S \in SUBSET Nat
  PROVE  /\ Answered(how, S) \in Seq(Blocks)
         /\ mainq \o Answered(how, S) \in Seq(Blocks)
         /\ Len(Answered(how, S)) = Len(reads)
         /\ \A n \in 1..Len(reads) : Answered(how, S)[n] = Block(reads[n], how, S)
<1>1. Len(reads) \in Nat /\ \A n \in 1..Len(reads) : reads[n] \in Reads
  BY QueueFacts DEF Shape, QueueShape
<1>2. \A n \in 1..Len(reads) : Block(reads[n], how, S) \in Blocks
  BY <1>1 DEF Block, Blocks, Reads
<1>3. Answered(how, S) \in Seq(Blocks)
  BY <1>1, <1>2 DEF Answered
<1>4. mainq \o Answered(how, S) \in Seq(Blocks)
  BY <1>3, ConcatFacts DEF Shape, QueueShape
<1> QED
  BY <1>1, <1>3, <1>4 DEF Answered

(* A read is asked for, or answered by the transaction under way.          *)
LEMMA GetShape ==
  ASSUME Shape, NEW p \in Nat, NEW blocks \in Seq(Blocks), GetComments(p, blocks)
  PROVE  /\ Asking(p) \in Reads /\ Block(Asking(p), "vote", Overlaid(vote.base)) \in Blocks
         /\ reads' \in Seq(Reads) /\ up' \in Seq(Requests) /\ mainq' \in Seq(Blocks)
<1>1. Pending \subseteq Nat /\ stored \subseteq Nat /\ vote.base \subseteq Nat
  BY Numbers
<1>2. Asking(p) \in Reads
  <2>1. CASE reads = << >>
    BY <1>1, <2>1 DEF Asking, Reads
  <2>2. CASE reads # << >>
    <3>1. reads[1] \in Reads
      BY <2>2, QueueFacts DEF Shape, QueueShape
    <3> QED
      BY <2>2, <3>1 DEF Asking, Reads
  <2> QED
    BY <2>1, <2>2
<1>3. Block(Asking(p), "vote", Overlaid(vote.base)) \in Blocks
  BY <1>1, <1>2 DEF Block, Blocks, Reads, Overlaid
<1>4. [type |-> "listen"] \in Requests
  BY DEF Requests
<1>5. CASE vote.on
  <2>1. /\ mainq' = Append(blocks, Block(Asking(p), "vote", Overlaid(vote.base)))
        /\ reads' = reads /\ up' = up
    BY <1>5 DEF GetComments
  <2> QED
    BY <1>2, <1>3, <2>1, AppendFacts DEF Shape, QueueShape
<1>6. CASE ~vote.on
  <2>1. /\ reads' = Append(reads, Asking(p)) /\ mainq' = blocks
        /\ up' = Append(up, [type |-> "listen"]) \/ up' = up
    BY <1>6 DEF GetComments
  <2>2. reads \in Seq(Reads) /\ up \in Seq(Requests)
    BY DEF Shape, QueueShape
  <2>3. reads' \in Seq(Reads)
    BY <1>2, <2>1, <2>2, AppendFacts
  <2>4. up' \in Seq(Requests)
    BY ZenonT(30), <1>4, <2>1, <2>2, AppendFacts
  <2> QED
    BY <1>2, <1>3, <2>1, <2>3, <2>4
<1> QED
  BY <1>2, <1>3, <1>5, <1>6

(* The pending writes, sent again in order, each once.                     *)
LEMMA OrderFacts ==
  ASSUME Shape, NEW s \in Orders
  PROVE  /\ Len(s) \in Nat /\ s \in Seq(Pending)
         /\ \A n \in 1..Len(s) : s[n] \in Pending
         /\ \A n, k \in 1..Len(s) : s[n] = s[k] => n = k
         /\ Resent(s) \in Seq(Requests) /\ Len(Resent(s)) = Len(s)
         /\ \A n \in 1..Len(s) : Resent(s)[n] = [type |-> "put", comment |-> s[n]]
<1>1. Pending \subseteq Made /\ Made \subseteq Nat /\ made \in Nat
  BY Numbers
<1>2. Cardinality(Pending) \in Nat
  <2>1. IsFiniteSet(Made)
    BY <1>1, FS_Interval DEF Made
  <2> QED
    BY <1>1, <2>1, FS_Subset, FS_CardinalityType
<1>3. /\ s \in [1..Cardinality(Pending) -> Pending]
      /\ \A m, n \in DOMAIN s : m < n => s[m] < s[n]
  BY DEF Orders
<1>4. s \in Seq(Pending) /\ Len(s) = Cardinality(Pending) /\ DOMAIN s = 1..Len(s)
  BY <1>2, <1>3
<1>5. \A n \in 1..Len(s) : s[n] \in Pending /\ s[n] \in Nat
  BY <1>1, <1>3, <1>4
<1>6. ASSUME NEW n \in 1..Len(s), NEW k \in 1..Len(s), s[n] = s[k]
      PROVE  n = k
  <2>1. ~(n < k) /\ ~(k < n)
    BY <1>3, <1>4, <1>5, <1>6
  <2> QED
    BY <1>2, <1>4, <2>1
<1>7. \A n \in 1..Len(s) : [type |-> "put", comment |-> s[n]] \in Requests
  BY <1>5 DEF Requests
<1>8. Resent(s) \in Seq(Requests) /\ Len(Resent(s)) = Len(s)
  BY <1>2, <1>4, <1>7 DEF Resent
<1> QED
  BY <1>2, <1>4, <1>5, <1>6, <1>8 DEF Resent

(* What is true of the program's first state.                              *)
LEMMA ShapeInit == Init => Shape
<1> SUFFICES ASSUME Init PROVE Shape
  OBVIOUS
<1>1. CommentShape
  BY BoundAssumption DEF Init, CommentShape, Made
<1>2. QueueShape
  BY DEF Init, QueueShape
<1>3. ScreenShape /\ VoteShape
  <2>1. 0 \in Nat /\ 0 \in 0..0 /\ {} \in SUBSET Nat
    OBVIOUS
  <2>2. ScreenShape
    BY <2>1 DEF Init, ScreenShape, NoSheet
  <2>3. VoteShape
    BY <2>1 DEF Init, VoteShape, NoVote
  <2> QED
    BY <2>2, <2>3
<1> QED
  BY <1>1, <1>2, <1>3 DEF Shape

(* A step that leaves the comments alone.                                  *)
LEMMA SameComments ==
  ASSUME CommentShape, UNCHANGED <<stored, writing, denied>>, pages' >= pages,
         pages \in Nat, pages' \in Nat
  PROVE  CommentShape'
<1>1. made' = made /\ Made' = Made /\ stage' = stage /\ from' = from
  BY DEF writing, Made
<1>2. \A i \in Made : from[i].page \in Nat /\ from[i].page <= pages
  BY DEF CommentShape, Origins
<1>3. \A i \in Made' : from'[i].page <= pages'
  BY <1>1, <1>2
<1> QED
  BY <1>1, <1>3 DEF CommentShape

(* A stage moves on.                                                       *)
LEMMA StageMoves ==
  ASSUME CommentShape, UNCHANGED <<made, from, pages>>,
         stored' \subseteq Made, denied' \subseteq Made, stage' \in [Made -> Stages]
  PROVE  CommentShape'
BY DEF CommentShape, Made

(* The transaction, or the screen, is left alone.                          *)
LEMMA SameVote == VoteShape /\ vote' = vote => VoteShape'
BY DEF VoteShape

(* The screen is left alone.                                               *)
LEMMA SameScreen == ScreenShape /\ UNCHANGED <<screen, pages, sheets>> => ScreenShape'
BY DEF ScreenShape, screen

(* The queues are left alone.                                              *)
LEMMA SameQueues == QueueShape /\ UNCHANGED <<reads, up, down, mainq>> => QueueShape'
BY DEF QueueShape

(* A comment is written.                                                   *)
LEMMA Written ==
  ASSUME Shape, made < MaxComments, made' = made + 1, pages' = pages,
         NEW s \in Stages, stage' = Append(stage, s),
         NEW f \in Origins, f.page <= pages, from' = Append(from, f)
  PROVE  /\ made' \in 0..MaxComments /\ Made' = Made \cup {made + 1}
         /\ stage' \in [Made' -> Stages]
         /\ from' \in [Made' -> Origins]
         /\ \A i \in Made' : from'[i].page <= pages'
         /\ \A i \in Made : stage'[i] = stage[i] /\ from'[i] = from[i]
         /\ stage'[made + 1] = s /\ from'[made + 1] = f
<1>1. made \in Nat /\ MaxComments \in Nat
  BY Numbers
<1>2. made' \in 0..MaxComments /\ Made' = Made \cup {made + 1} /\ Made' = 1..(made + 1)
  BY <1>1 DEF Made
<1>3. stage \in [1..made -> Stages] /\ from \in [1..made -> Origins]
  BY DEF Shape, CommentShape, Made
<1>4. /\ stage' \in [1..(made + 1) -> Stages]
      /\ \A i \in 1..made : stage'[i] = stage[i]
      /\ stage'[made + 1] = s
  <2>1. stage \in Seq(Stages) /\ Len(stage) = made
    BY <1>1, <1>3
  <2>2. /\ stage' \in Seq(Stages) /\ Len(stage') = made + 1
        /\ \A i \in 1..made : stage'[i] = stage[i]
        /\ stage'[made + 1] = s
    BY <2>1, AppendFacts
  <2> QED
    BY <2>2, LenProperties
<1>5. /\ from' \in [1..(made + 1) -> Origins]
      /\ \A i \in 1..made : from'[i] = from[i]
      /\ from'[made + 1] = f
  <2>1. from \in Seq(Origins) /\ Len(from) = made
    BY <1>1, <1>3
  <2>2. /\ from' \in Seq(Origins) /\ Len(from') = made + 1
        /\ \A i \in 1..made : from'[i] = from[i]
        /\ from'[made + 1] = f
    BY <2>1, AppendFacts
  <2> QED
    BY <2>2, LenProperties
<1>6. \A i \in 1..made : from[i].page <= pages
  BY DEF Shape, CommentShape, Made
<1>7. \A i \in 1..(made + 1) : from'[i].page <= pages'
  BY <1>1, <1>2, <1>5, <1>6 DEF Made
<1> QED
  BY <1>2, <1>4, <1>5, <1>7 DEF Made

(* The user and a dismissed sheet keep the shape.                          *)
LEMMA ShapeUser == Shape /\ (User \/ Dismissed) => Shape'
<1> SUFFICES ASSUME Shape, User \/ Dismissed PROVE Shape'
  OBVIOUS
<1>1. /\ CommentShape /\ QueueShape /\ ScreenShape /\ VoteShape
      /\ pages \in Nat /\ pages + 1 \in Nat /\ page \in Nat /\ sheets \in Nat
  BY Numbers DEF Shape
<1>2. CASE OpenPost
  <2>1. QueueShape'
    <3>1. reads' \in Seq(Reads) /\ up' \in Seq(Requests) /\ mainq' \in Seq(Blocks)
      BY <1>1, <1>2, GetShape DEF OpenPost, QueueShape
    <3> QED
      BY <1>1, <1>2, <3>1 DEF OpenPost, QueueShape
  <2>2. CommentShape'
    BY <1>1, <1>2, SameComments DEF OpenPost
  <2>3. ScreenShape' /\ VoteShape'
    BY <1>1, <1>2 DEF OpenPost, ScreenShape, VoteShape
  <2> QED
    BY <2>1, <2>2, <2>3 DEF Shape
<1>3. CASE Back
  <2>1. CommentShape'
    BY <1>1, <1>3, SameComments DEF Back, bounds
  <2>2. ScreenShape'
    <3>1. page' = 0 /\ 0 \in 0..pages /\ spinner' = FALSE
      BY <1>1, <1>3 DEF Back
    <3> QED
      BY <1>1, <1>3, <3>1 DEF Back, ScreenShape, bounds
  <2>3. VoteShape' /\ QueueShape'
    BY <1>1, <1>3, SameVote, SameQueues DEF Back, link
  <2> QED
    BY <2>1, <2>2, <2>3 DEF Shape
<1>4. CASE Pull
  <2>1. QueueShape'
    <3>1. reads' \in Seq(Reads) /\ up' \in Seq(Requests) /\ mainq' \in Seq(Blocks)
      BY <1>1, <1>4, GetShape DEF Pull, QueueShape
    <3> QED
      BY <1>1, <1>4, <3>1 DEF Pull, QueueShape
  <2>2. CommentShape'
    BY <1>1, <1>4, SameComments DEF Pull, history
  <2>3. ScreenShape' /\ VoteShape'
    BY <1>1, <1>4 DEF Pull, ScreenShape, VoteShape
  <2> QED
    BY <2>1, <2>2, <2>3 DEF Shape
<1>5. CASE OpenSheet \/ CloseSheet
  <2>1. CommentShape'
    BY <1>1, <1>5, SameComments DEF OpenSheet, CloseSheet, history, bounds
  <2>2. QueueShape' /\ VoteShape'
    BY <1>1, <1>5 DEF OpenSheet, CloseSheet, VoteShape, QueueShape, link
  <2>3. ScreenShape'
    <3>1. CASE OpenSheet
      BY <1>1, <3>1 DEF OpenSheet, ScreenShape
    <3>2. CASE CloseSheet
      <4>1. NoSheet \in [id : 0..sheets, alert : BOOLEAN]
        BY <1>1 DEF NoSheet
      <4>2. sheet' \in [id : 0..sheets, alert : BOOLEAN]
        BY <1>1, <3>2, <4>1 DEF CloseSheet, ScreenShape
      <4> QED
        BY <1>1, <3>2, <4>2 DEF CloseSheet, ScreenShape, bounds
    <3> QED
      BY <1>5, <3>1, <3>2
  <2> QED
    BY <2>1, <2>2, <2>3 DEF Shape
<1>6. CASE Reply
  <2>1. [id |-> sheet.id, page |-> page] \in Origins /\ page <= pages
    BY <1>1 DEF ScreenShape, Origins
  <2>2. "sent" \in Stages
    BY DEF Stages
  <2>3. CommentShape'
    BY <1>1, <1>6, <2>1, <2>2, Written DEF Reply, CommentShape, bounds, history
  <2>4. [type |-> "put", comment |-> made + 1] \in Requests
    BY Numbers DEF Requests
  <2>5. QueueShape'
    BY <1>1, <1>6, <2>4, AppendFacts DEF Reply, QueueShape
  <2>6. ScreenShape'
    BY <1>1, <1>6, SameScreen DEF Reply, bounds
  <2>7. VoteShape'
    <3>1. vote' = [vote EXCEPT !.marks = @ + 1] \/ vote' = vote
      BY <1>1, <1>6 DEF Reply, VoteShape
    <3> QED
      BY <1>1, <3>1 DEF VoteShape
  <2> QED
    BY <2>3, <2>5, <2>6, <2>7 DEF Shape
<1>7. CASE Dismissed
  <2>1. Head(mainq) \in Blocks /\ Tail(mainq) \in Seq(Blocks) /\ Head(mainq).type = "dismissed"
    BY <1>1, <1>7, TailFacts DEF Dismissed, Run, QueueShape
  <2>2. Head(mainq).page \in Nat
    BY <2>1 DEF Blocks
  <2>3. reads' \in Seq(Reads) /\ up' \in Seq(Requests) /\ mainq' \in Seq(Blocks)
    BY <1>7, <2>1, <2>2, GetShape DEF Dismissed
  <2>4. QueueShape'
    BY <1>1, <1>7, <2>3 DEF Dismissed, QueueShape
  <2>5. CommentShape'
    BY <1>1, <1>7, SameComments DEF Dismissed, bounds, history
  <2>6. ScreenShape' /\ VoteShape'
    BY <1>1, <1>7, SameScreen, SameVote DEF Dismissed, bounds
  <2> QED
    BY <2>4, <2>5, <2>6 DEF Shape
<1> QED
  BY <1>2, <1>3, <1>4, <1>5, <1>6, <1>7 DEF User

(* The server, the other phones and the faults keep the shape.             *)
LEMMA ShapeServer ==
  Shape /\ Known /\ (Server \/ StartVote \/ OthersComment \/ Fault) => Shape'
<1> SUFFICES ASSUME Shape, Known,
                    Server \/ StartVote \/ OthersComment \/ Fault
             PROVE  Shape'
  OBVIOUS
<1>1. /\ CommentShape /\ QueueShape /\ ScreenShape /\ VoteShape
      /\ up \in Seq(Requests) /\ down \in Seq(Messages)
      /\ pages \in Nat /\ Pending \subseteq Nat /\ stored \subseteq Nat
  BY Numbers DEF Shape, QueueShape
<1>2. ASSUME UNCHANGED <<screen, pages, sheets>>, CommentShape', QueueShape', VoteShape'
      PROVE  Shape'
  BY <1>1, <1>2, SameScreen DEF Shape
<1>3. ASSUME NEW type, Asked(type)
      PROVE  /\ Head(up) \in Requests /\ Tail(up) \in Seq(Requests)
             /\ Head(up) = up[1] /\ 1 \in 1..Len(up) /\ up[1].type = type
  BY <1>1, <1>3, TailFacts DEF Asked
<1>4. ASSUME NEW m \in Messages, NEW type, Asked(type), Say(m),
             UNCHANGED <<reads, mainq>>
      PROVE  QueueShape'
  BY <1>1, <1>3, <1>4, AppendFacts DEF Say, QueueShape
<1>5. CASE AnswerRead \/ RefuseRead
  <2>1. [type |-> "comments", told |-> stored] \in Messages /\ [type |-> "error"] \in Messages
    BY <1>1 DEF Messages
  <2>2. QueueShape'
    BY <1>4, <1>5, <2>1 DEF AnswerRead, RefuseRead
  <2>3. CommentShape' /\ VoteShape'
    BY <1>1, <1>5, SameComments, SameVote DEF AnswerRead, RefuseRead, bounds, history
  <2> QED
    BY <1>2, <1>5, <2>2, <2>3 DEF AnswerRead, RefuseRead, bounds
<1>6. CASE StoreComment \/ RefuseComment
  <2> DEFINE c == Head(up).comment
  <2>1. c \in Made /\ c \in Nat /\ Asked("put")
    BY <1>3, <1>6, Numbers DEF StoreComment, RefuseComment, Known, Puts, PutAt
  <2>2. [type |-> "reply", comment |-> c] \in Messages
    BY <2>1 DEF Messages
  <2>3. QueueShape'
    BY <1>4, <1>6, <2>1, <2>2 DEF StoreComment, RefuseComment
  <2>4. stage' \in [Made -> Stages]
    BY <1>1, <1>6 DEF StoreComment, RefuseComment, CommentShape, Stages
  <2>5. stored' \subseteq Made /\ denied' \subseteq Made
    BY <1>1, <1>6, <2>1 DEF StoreComment, RefuseComment, CommentShape, history
  <2>6. CommentShape'
    BY <1>1, <1>6, <2>4, <2>5, StageMoves DEF StoreComment, RefuseComment, bounds
  <2>7. VoteShape'
    BY <1>1, <1>6, SameVote DEF StoreComment, RefuseComment
  <2> QED
    BY <1>2, <1>6, <2>3, <2>6, <2>7 DEF StoreComment, RefuseComment, bounds
<1>7. CASE AcceptVote \/ RefuseVote
  <2>1. [type |-> "voted"] \in Messages /\ [type |-> "stale", told |-> stored] \in Messages
    BY <1>1 DEF Messages
  <2>2. QueueShape'
    BY <1>4, <1>7, <2>1 DEF AcceptVote, RefuseVote
  <2>3. CommentShape' /\ VoteShape'
    BY <1>1, <1>7, SameComments, SameVote DEF AcceptVote, RefuseVote, bounds, history
  <2> QED
    BY <1>2, <1>7, <2>2, <2>3 DEF AcceptVote, RefuseVote, bounds
<1>8. CASE StartVote
  <2>1. [type |-> "vote", known |-> FALSE, base |-> Pending] \in Requests
    BY <1>1 DEF Requests
  <2>2. QueueShape'
    BY <1>1, <1>8, <2>1, AppendFacts, AnsweredFacts DEF StartVote, QueueShape
  <2>3. VoteShape'
    BY <1>1, <1>8 DEF StartVote, VoteShape, Attempt
  <2>4. CommentShape'
    BY <1>1, <1>8, SameComments DEF StartVote, history
  <2> QED
    BY <1>2, <1>8, <2>2, <2>3, <2>4 DEF StartVote
<1>9. CASE OthersComment
  <2>1. [id |-> 0, page |-> 0] \in Origins /\ 0 <= pages /\ "foreign" \in Stages
    BY <1>1 DEF Origins, Stages
  <2>2. CommentShape'
    <3>1. /\ made' \in 0..MaxComments /\ Made' = Made \cup {made + 1}
          /\ stage' \in [Made' -> Stages] /\ from' \in [Made' -> Origins]
          /\ \A i \in Made' : from'[i].page <= pages'
      BY <1>9, <2>1, Written DEF OthersComment, bounds
    <3> QED
      BY <1>1, <1>9, <3>1 DEF OthersComment, CommentShape, history
  <2>3. QueueShape' /\ VoteShape'
    BY <1>1, <1>9, SameVote, SameQueues DEF OthersComment, link
  <2> QED
    BY <1>2, <1>9, <2>2, <2>3 DEF OthersComment, bounds
<1>10. CASE Disconnect
  <2>1. PICK s \in Orders :
          up' = (IF reads = << >> THEN << >> ELSE <<[type |-> "listen"]>>) \o Resent(s)
    BY <1>10 DEF Disconnect
  <2>2. Resent(s) \in Seq(Requests)
    BY OrderFacts
  <2>3. <<[type |-> "listen"]>> \in Seq(Requests) /\ << >> \in Seq(Requests)
    BY DEF Requests
  <2>4. up' \in Seq(Requests)
    BY <2>1, <2>2, <2>3, ConcatFacts
  <2>5. QueueShape'
    BY <1>1, <1>10, <2>4 DEF Disconnect, QueueShape
  <2>6. stage' \in [Made -> Stages]
    BY <1>1, <1>10 DEF Disconnect, CommentShape, Stages
  <2>7. CommentShape'
    BY <1>1, <1>10, <2>6, StageMoves DEF Disconnect, CommentShape, history
  <2>8. VoteShape'
    BY <1>1, <1>10 DEF Disconnect, VoteShape, NoVote
  <2> QED
    BY <1>2, <1>10, <2>5, <2>7, <2>8 DEF Disconnect
<1> QED
  BY <1>5, <1>6, <1>7, <1>8, <1>9, <1>10 DEF Server, Fault

(* The client and the main thread keep the shape.                          *)
LEMMA ShapePhone ==
  Shape /\ Known /\ (Client \/ ShowComments \/ Replied \/ NotReplied) => Shape'
<1> SUFFICES ASSUME Shape, Known, Client \/ ShowComments \/ Replied \/ NotReplied
             PROVE  Shape'
  OBVIOUS
<1>1. /\ CommentShape /\ QueueShape /\ ScreenShape /\ VoteShape
      /\ up \in Seq(Requests) /\ down \in Seq(Messages) /\ mainq \in Seq(Blocks)
      /\ pages \in Nat /\ sheets \in Nat /\ Pending \subseteq Nat /\ stored \subseteq Nat
  BY Numbers DEF Shape, QueueShape
<1>2. ASSUME NEW type, Told(type)
      PROVE  /\ Head(down) \in Messages /\ Tail(down) \in Seq(Messages)
             /\ Head(down) = down[1] /\ 1 \in 1..Len(down) /\ down[1].type = type
  BY <1>1, <1>2, TailFacts DEF Told
<1>3. ASSUME NEW type, Run(type)
      PROVE  /\ Head(mainq) \in Blocks /\ Tail(mainq) \in Seq(Blocks)
             /\ Head(mainq) = mainq[1] /\ 1 \in 1..Len(mainq) /\ mainq[1].type = type
  BY <1>1, <1>3, TailFacts DEF Run
<1>4. CASE DeliverComments \/ DeliverError
  <2>1. PICK how \in {"server", "vote", "error"}, S \in SUBSET Nat :
          mainq' = mainq \o Answered(how, S)
    <3>1. CASE DeliverComments
      <4>1. Overlaid(Head(down).told) \subseteq Nat
        BY <1>1, <1>2, <3>1, MessageFacts DEF DeliverComments, Overlaid
      <4> QED
        BY <3>1, <4>1 DEF DeliverComments
    <3>2. CASE DeliverError
      BY <3>2 DEF DeliverError
    <3> QED
      BY <1>4, <3>1, <3>2
  <2>2. mainq' \in Seq(Blocks)
    BY <2>1, AnsweredFacts
  <2>3. down' \in Seq(Messages)
    BY <1>2, <1>4 DEF DeliverComments, DeliverError
  <2>4. QueueShape'
    <3>1. reads' = << >> /\ up' = up /\ << >> \in Seq(Reads)
      BY <1>4 DEF DeliverComments, DeliverError
    <3> QED
      BY <1>1, <2>2, <2>3, <3>1 DEF QueueShape
  <2>5. CommentShape' /\ VoteShape' /\ ScreenShape'
    BY <1>1, <1>4, SameComments, SameVote, SameScreen
    DEF DeliverComments, DeliverError, bounds, history
  <2> QED
    BY <2>4, <2>5 DEF Shape
<1>5. CASE DeliverReply
  <2>1. Head(down).comment \in Nat
    BY <1>2, <1>5, Numbers DEF DeliverReply, Known, Replies, ReplyAt
  <2>2. [type |-> "reply", comment |-> Head(down).comment] \in Blocks
    BY <2>1 DEF Blocks
  <2>3. mainq' \in Seq(Blocks) /\ down' \in Seq(Messages)
    BY <1>1, <1>2, <1>5, <2>2, AppendFacts DEF DeliverReply
  <2>4. QueueShape'
    BY <1>1, <1>5, <2>3 DEF DeliverReply, QueueShape
  <2>5. stage' \in [Made -> Stages]
    BY <1>1, <1>5 DEF DeliverReply, CommentShape, Stages
  <2>6. CommentShape'
    BY <1>1, <1>5, <2>5, StageMoves DEF DeliverReply, CommentShape, bounds, history
  <2>7. VoteShape' /\ ScreenShape'
    BY <1>1, <1>5, SameVote, SameScreen DEF DeliverReply, bounds
  <2> QED
    BY <2>4, <2>6, <2>7 DEF Shape
<1>6. CASE EndVote
  <2>1. down' \in Seq(Messages)
    BY <1>2, <1>6 DEF EndVote
  <2>2. QueueShape'
    BY <1>1, <1>6, <2>1 DEF EndVote, QueueShape
  <2>3. VoteShape'
    <3>1. vote' = vote \/ vote' = NoVote
      BY <1>6 DEF EndVote
    <3>2. NoVote \in [on : BOOLEAN, base : SUBSET Nat, marks : Nat]
      BY DEF NoVote
    <3> QED
      BY <1>1, <3>1, <3>2 DEF VoteShape
  <2>4. CommentShape' /\ ScreenShape'
    BY <1>1, <1>6, SameComments, SameScreen DEF EndVote, bounds, history
  <2> QED
    BY <2>2, <2>3, <2>4 DEF Shape
<1>7. CASE VoteAgain
  <2> DEFINE base == Overlaid(Head(down).told)
  <2>1. base \subseteq Nat
    BY <1>1, <1>2, <1>7, MessageFacts DEF VoteAgain, Overlaid
  <2>2. [type |-> "vote", known |-> TRUE, base |-> base] \in Requests
    BY <2>1 DEF Requests
  <2>3. vote' = Attempt(base) /\ up' = Append(up, [type |-> "vote", known |-> TRUE, base |-> base])
    BY <1>7 DEF VoteAgain
  <2> HIDE DEF base
  <2>4. up' \in Seq(Requests) /\ down' \in Seq(Messages)
    BY <1>1, <1>2, <1>7, <2>2, <2>3, AppendFacts DEF VoteAgain
  <2>5. QueueShape'
    BY <1>1, <1>7, <2>4 DEF VoteAgain, QueueShape
  <2>6. VoteShape'
    BY <2>1, <2>3 DEF VoteShape, Attempt
  <2>7. CommentShape' /\ ScreenShape'
    BY <1>1, <1>7, SameComments, SameScreen DEF VoteAgain, history
  <2> QED
    BY <2>5, <2>6, <2>7 DEF Shape
<1>8. CASE ShowComments
  <2>1. QueueShape'
    BY <1>1, <1>3, <1>8 DEF ShowComments, QueueShape, link
  <2>2. CommentShape' /\ VoteShape'
    BY <1>1, <1>8, SameComments, SameVote DEF ShowComments, bounds, link
  <2>3. ScreenShape'
    BY <1>1, <1>8 DEF ShowComments, ScreenShape, bounds
  <2> QED
    BY <2>1, <2>2, <2>3 DEF Shape
<1>9. CASE Replied \/ NotReplied
  <2>1. Tail(mainq) \in Seq(Blocks) /\ DoneAt(1) /\ Head(mainq) = mainq[1]
    BY <1>3, <1>9 DEF Replied, NotReplied, DoneAt
  <2>2. Head(mainq).comment \in Made
    BY <2>1 DEF Known, Dones
  <2>3. [type |-> "dismissed", page |-> from[Head(mainq).comment].page] \in Blocks
    BY <1>1, <2>2 DEF CommentShape, Origins, Blocks
  <2>4. mainq' \in Seq(Blocks)
    <3>1. \/ mainq' = Tail(mainq)
          \/ mainq' = Append(Tail(mainq),
               [type |-> "dismissed", page |-> from[Head(mainq).comment].page])
      BY <1>9 DEF Replied, NotReplied
    <3> QED
      BY SMTT(30), <2>1, <2>3, <3>1, AppendFacts
  <2>5. QueueShape'
    BY <1>1, <1>9, <2>4 DEF Replied, NotReplied, QueueShape, link
  <2>6. stage' \in [Made -> Stages]
    BY <1>1, <1>9 DEF Replied, NotReplied, CommentShape, Stages
  <2>7. CommentShape'
    BY <1>1, <1>9, <2>6, StageMoves DEF Replied, NotReplied, CommentShape, bounds, history
  <2>8. sheet' \in [id : 0..sheets, alert : BOOLEAN]
    <3>1. NoSheet \in [id : 0..sheets, alert : BOOLEAN]
      BY <1>1 DEF NoSheet
    <3>2. /\ sheet \in [id : 0..sheets, alert : BOOLEAN]
          /\ \A b \in BOOLEAN : [sheet EXCEPT !.alert = b] \in [id : 0..sheets, alert : BOOLEAN]
      BY <1>1 DEF ScreenShape
    <3>3. \/ sheet' = sheet \/ sheet' = NoSheet
          \/ \E b \in BOOLEAN : sheet' = [sheet EXCEPT !.alert = b]
      BY <1>9 DEF Replied, NotReplied
    <3> QED
      BY <3>1, <3>2, <3>3
  <2>9. ScreenShape' /\ VoteShape'
    BY <1>1, <1>9, <2>8, SameVote DEF Replied, NotReplied, ScreenShape, bounds, link
  <2> QED
    BY <2>5, <2>7, <2>9 DEF Shape
<1> QED
  BY <1>4, <1>5, <1>6, <1>7, <1>8, <1>9 DEF Client

-----------------------------------------------------------------------------
(* What a step does to a queue: its first k elements go, and elements of X *)
(* come to its end.                                                        *)

Moves(q, r, k, X) ==
  /\ k \in {0, 1} /\ Len(q) \in Nat /\ Len(r) \in Nat
  /\ \A n \in 1..Len(r) : \/ n + k \in 1..Len(q) /\ r[n] = q[n + k]
                          \/ n + k > Len(q) /\ r[n] \in X
  /\ \A n \in 1..Len(q) : n > k => n - k \in 1..Len(r) /\ r[n - k] = q[n]

(* At most one element comes.                                              *)
Single(q, r, k) == Len(r) + k <= Len(q) + 1

(* A queue is left alone.                                                  *)
LEMMA MoveNone ==
  ASSUME NEW S, NEW q \in Seq(S)
  PROVE  \A X : Moves(q, q, 0, X) /\ Single(q, q, 0)
BY QueueFacts DEF Moves, Single

(* An element comes.                                                       *)
LEMMA MoveAppend ==
  ASSUME NEW S, NEW q \in Seq(S), NEW x \in S, NEW X, x \in X
  PROVE  Moves(q, Append(q, x), 0, X) /\ Single(q, Append(q, x), 0)
<1>1. /\ Len(q) \in Nat /\ Len(Append(q, x)) = Len(q) + 1
      /\ \A n \in 1..Len(q) : Append(q, x)[n] = q[n]
      /\ Append(q, x)[Len(q) + 1] = x
  BY QueueFacts, AppendFacts
<1> QED
  BY <1>1 DEF Moves, Single

(* The head goes.                                                          *)
LEMMA MoveTail ==
  ASSUME NEW S, NEW q \in Seq(S), q # << >>
  PROVE  \A X : Moves(q, Tail(q), 1, X) /\ Single(q, Tail(q), 1)
<1>1. /\ Len(q) \in Nat \ {0} /\ Len(Tail(q)) = Len(q) - 1
      /\ \A n \in 1..Len(Tail(q)) : n + 1 \in 1..Len(q) /\ Tail(q)[n] = q[n + 1]
  BY TailFacts
<1>2. \A n \in 1..Len(q) : n > 1 => n - 1 \in 1..Len(Tail(q)) /\ Tail(q)[n - 1] = q[n]
  BY <1>1
<1> QED
  BY <1>1, <1>2 DEF Moves, Single

(* The head goes, and an element comes.                                    *)
LEMMA MoveTailAppend ==
  ASSUME NEW S, NEW q \in Seq(S), q # << >>, NEW x \in S, NEW X, x \in X
  PROVE  Moves(q, Append(Tail(q), x), 1, X) /\ Single(q, Append(Tail(q), x), 1)
<1> DEFINE t == Tail(q)
           r == Append(t, x)
<1>1. /\ t \in Seq(S) /\ Len(q) \in Nat \ {0} /\ Len(t) = Len(q) - 1
      /\ \A n \in 1..Len(t) : n + 1 \in 1..Len(q) /\ t[n] = q[n + 1]
  BY TailFacts
<1>2. /\ Len(r) = Len(t) + 1 /\ \A n \in 1..Len(t) : r[n] = t[n]
      /\ r[Len(t) + 1] = x
  BY <1>1, AppendFacts
<1> HIDE DEF t, r
<1>3. \A n \in 1..Len(q) : n > 1 => n - 1 \in 1..Len(r) /\ r[n - 1] = q[n]
  BY <1>1, <1>2
<1>4. Moves(q, r, 1, X) /\ Single(q, r, 1)
  BY <1>1, <1>2, <1>3 DEF Moves, Single
<1> QED
  BY <1>4 DEF r, t

(* Several elements come.                                                  *)
LEMMA MoveConcat ==
  ASSUME NEW S, NEW q \in Seq(S), NEW r \in Seq(S), NEW X,
         \A n \in 1..Len(r) : r[n] \in X
  PROVE  Moves(q, q \o r, 0, X)
<1>1. /\ Len(q) \in Nat /\ Len(r) \in Nat /\ Len(q \o r) = Len(q) + Len(r)
      /\ \A n \in 1..Len(q) : (q \o r)[n] = q[n]
      /\ \A n \in 1..Len(r) : (q \o r)[Len(q) + n] = r[n]
      /\ \A n \in 1..Len(q \o r) : n \in 1..Len(q) \/ \E k \in 1..Len(r) : n = Len(q) + k
  BY ConcatFacts, QueueFacts
<1>2. ASSUME NEW n \in 1..Len(q \o r)
      PROVE  n \in 1..Len(q) \/ (n > Len(q) /\ (q \o r)[n] \in X)
  <2>1. CASE \E k \in 1..Len(r) : n = Len(q) + k
    <3>1. PICK k \in 1..Len(r) : n = Len(q) + k
      BY <2>1
    <3>2. n > Len(q)
      BY <1>1, <3>1
    <3>3. (q \o r)[n] = r[k] /\ r[k] \in X
      BY <1>1, <3>1
    <3> QED
      BY <3>2, <3>3
  <2> QED
    BY <1>1, <2>1
<1> QED
  BY <1>1, <1>2 DEF Moves

(* All three queues of a step.  U, D, M: what comes to them.               *)
Queues(a, U, b, D, c, M) ==
  Moves(up, up', a, U) /\ Moves(down, down', b, D) /\ Moves(mainq, mainq', c, M)

Singles(a, b, c) ==
  Single(up, up', a) /\ Single(down, down', b) /\ Single(mainq, mainq', c)

(* A request is taken, and its answer m sent.                              *)
LEMMA ServerQueues ==
  ASSUME Shape, NEW type, Asked(type), NEW m \in Messages, Say(m), UNCHANGED mainq
  PROVE  /\ Queues(1, {}, 0, {m}, 0, {}) /\ Singles(1, 0, 0)
         /\ up[1] = Head(up) /\ up[1].type = type /\ 1 \in 1..Len(up)
<1>1. /\ up \in Seq(Requests) /\ down \in Seq(Messages) /\ mainq \in Seq(Blocks)
      /\ up # << >> /\ down' = Append(down, m) /\ up' = Tail(up) /\ Head(up).type = type
  BY DEF Shape, QueueShape, Say, Asked
<1>2. Moves(up, up', 1, {}) /\ Single(up, up', 1)
  BY <1>1, MoveTail
<1>3. Moves(down, down', 0, {m}) /\ Single(down, down', 0)
  BY <1>1, MoveAppend
<1>4. Moves(mainq, mainq', 0, {}) /\ Single(mainq, mainq', 0)
  BY <1>1, MoveNone
<1> QED
  BY <1>1, <1>2, <1>3, <1>4, TailFacts DEF Queues, Singles

(* Nothing moves.                                                          *)
LEMMA StillQueues ==
  ASSUME Shape, UNCHANGED <<up, down, mainq>>
  PROVE  Queues(0, {}, 0, {}, 0, {}) /\ Singles(0, 0, 0)
BY MoveNone DEF Shape, QueueShape, Queues, Singles

ListenRequest == [type |-> "listen"]

(* A read of page p is asked for, after the first k blocks of the main     *)
(* thread are gone.                                                        *)
VoteBlock(p) == Block(Asking(p), "vote", Overlaid(vote.base))

Asks(p, k) ==
  /\ Queues(0, {ListenRequest}, 0, {}, k, {VoteBlock(p)}) /\ Singles(0, 0, k)
  /\ Asking(p) \in Reads
  /\ vote.on \/ reads # << >> => up' = up
  /\ ~vote.on => reads' = Append(reads, Asking(p))
  /\ ~vote.on /\ reads = << >> => up' = Append(up, ListenRequest)
  /\ vote.on => reads' = reads /\ \E n \in 1..Len(mainq') : mainq'[n] = VoteBlock(p)
  /\ ~vote.on => Moves(mainq, mainq', k, {})

(* GetComments asks, or is answered by the transaction under way.          *)
LEMMA GetQueues ==
  ASSUME Shape, NEW p \in Nat, UNCHANGED down,
         NEW k \in {0, 1}, NEW blocks,
         k = 0 => blocks = mainq,
         k = 1 => mainq # << >> /\ blocks = Tail(mainq),
         GetComments(p, blocks)
  PROVE  Asks(p, k)
<1> DEFINE b == Block(Asking(p), "vote", Overlaid(vote.base))
<1>1. up \in Seq(Requests) /\ down \in Seq(Messages) /\ mainq \in Seq(Blocks)
  BY DEF Shape, QueueShape
<1>2. blocks \in Seq(Blocks) /\ (k = 1 => mainq # << >>)
  BY <1>1, TailFacts
<1>3. b \in Blocks
  BY <1>2, GetShape
<1>4. ListenRequest \in Requests
  BY DEF Requests, ListenRequest
<1> HIDE DEF b
<1>5. Moves(down, down', 0, {}) /\ Single(down, down', 0)
  BY <1>1, MoveNone
<1>6. \/ vote.on /\ mainq' = Append(blocks, b) /\ up' = up
      \/ ~vote.on /\ mainq' = blocks /\ (up' = up \/ up' = Append(up, ListenRequest))
  BY DEF GetComments, b, ListenRequest
<1>7. Moves(up, up', 0, {ListenRequest}) /\ Single(up, up', 0)
  <2>1. CASE up' = up
    BY <1>1, <2>1, MoveNone
  <2>2. CASE up' = Append(up, ListenRequest)
    BY <1>1, <1>4, <2>2, MoveAppend
  <2> QED
    BY <1>6, <2>1, <2>2
<1>8. Moves(mainq, mainq', k, {b}) /\ Single(mainq, mainq', k)
  <2>1. CASE mainq' = Append(blocks, b) /\ k = 0
    BY <1>1, <1>3, <2>1, MoveAppend
  <2>2. CASE mainq' = Append(blocks, b) /\ k = 1
    BY <1>1, <1>3, <2>2, MoveTailAppend
  <2>3. CASE mainq' = blocks /\ k = 0
    BY <1>1, <2>3, MoveNone
  <2>4. CASE mainq' = blocks /\ k = 1
    BY <1>1, <2>4, MoveTail
  <2> QED
    BY <1>6, <2>1, <2>2, <2>3, <2>4
<1>9. vote.on => \E n \in 1..Len(mainq') : mainq'[n] = b
  <2>1. Append(blocks, b)[Len(blocks) + 1] = b /\ Len(Append(blocks, b)) = Len(blocks) + 1
        /\ Len(blocks) \in Nat
    BY <1>2, <1>3, AppendFacts, QueueFacts
  <2> QED
    BY <1>6, <2>1
<1>10. ~vote.on => Moves(mainq, mainq', k, {})
  BY <1>1, <1>2, <1>6, MoveNone, MoveTail
<1>11. Queues(0, {ListenRequest}, 0, {}, k, {b}) /\ Singles(0, 0, k)
  BY <1>5, <1>7, <1>8 DEF Queues, Singles
<1>12. Asking(p) \in Reads
  BY <1>2, GetShape
<1>13. b = VoteBlock(p)
  BY DEF b, VoteBlock
<1>14.
      /\ vote.on \/ reads # << >> => up' = up
      /\ ~vote.on => reads' = Append(reads, Asking(p))
      /\ ~vote.on /\ reads = << >> => up' = Append(up, ListenRequest)
      /\ vote.on => reads' = reads
  BY DEF GetComments, ListenRequest
<1>15. /\ Queues(0, {ListenRequest}, 0, {}, k, {VoteBlock(p)}) /\ Singles(0, 0, k)
       /\ vote.on => \E n \in 1..Len(mainq') : mainq'[n] = VoteBlock(p)
  BY <1>9, <1>11, <1>13
<1> QED
  BY <1>10, <1>12, <1>14, <1>15 DEF Asks

(* A message is taken; nothing, or x, comes to the main thread.            *)
LEMMA DeliverQueues ==
  ASSUME Shape, down # << >>, down' = Tail(down), up' = up,
         NEW X, NEW r \in Seq(Blocks), mainq' = mainq \o r,
         \A n \in 1..Len(r) : r[n] \in X
  PROVE  /\ Queues(0, {}, 1, {}, 0, X)
         /\ down[1] = Head(down) /\ 1 \in 1..Len(down)
<1>1. up \in Seq(Requests) /\ down \in Seq(Messages) /\ mainq \in Seq(Blocks)
  BY DEF Shape, QueueShape
<1>2. Moves(up, up', 0, {}) /\ Moves(down, down', 1, {})
  BY <1>1, MoveNone, MoveTail
<1>3. Moves(mainq, mainq', 0, X)
  BY <1>1, MoveConcat
<1> QED
  BY <1>1, <1>2, <1>3, TailFacts DEF Queues

(* Where the puts, replies and completions of a step come from.            *)
LEMMA PutFrom ==
  ASSUME NEW a, NEW U, Moves(up, up', a, U), NEW n, PutAt(n)'
  PROVE  /\ n \in Nat /\ a \in {0, 1} /\ Len(up) \in Nat
         /\ \/ PutAt(n + a) /\ up'[n] = up[n + a]
            \/ n + a > Len(up) /\ up'[n] \in U /\ up'[n].type = "put"
BY DEF Moves, PutAt

(* A reply was on its way, or has just been sent.                          *)
LEMMA ReplyFrom ==
  ASSUME NEW b, NEW D, Moves(down, down', b, D), NEW n, ReplyAt(n)'
  PROVE  /\ n \in Nat /\ b \in {0, 1} /\ Len(down) \in Nat
         /\ \/ ReplyAt(n + b) /\ down'[n] = down[n + b]
            \/ n + b > Len(down) /\ down'[n] \in D /\ down'[n].type = "reply"
BY DEF Moves, ReplyAt

(* A completion was queued, or has just been.                              *)
LEMMA DoneFrom ==
  ASSUME NEW c, NEW M, Moves(mainq, mainq', c, M), NEW n, DoneAt(n)'
  PROVE  /\ n \in Nat /\ c \in {0, 1} /\ Len(mainq) \in Nat
         /\ \/ DoneAt(n + c) /\ mainq'[n] = mainq[n + c]
            \/ n + c > Len(mainq) /\ mainq'[n] \in M /\ mainq'[n].type = "reply"
BY DEF Moves, DoneAt

-----------------------------------------------------------------------------
(* Known.                                                                  *)

(* Puts, replies and completions of comments whose stage stays; none come. *)
LEMMA PutsStay ==
  ASSUME Puts, NEW a, NEW U, Moves(up, up', a, U), \A x \in U : x.type # "put",
         Made \subseteq Made',
         \A n : PutAt(n)' => stage'[up'[n].comment] = stage[up'[n].comment]
  PROVE  Puts'
<1>1. ASSUME NEW n, PutAt(n)'
      PROVE  n \in Nat /\ a \in {0, 1} /\ PutAt(n + a) /\ up'[n] = up[n + a]
  BY <1>1, PutFrom
<1>2. ASSUME NEW n, PutAt(n)'
      PROVE  up'[n].comment \in Made' /\ stage'[up'[n].comment] = "sent"
  BY <1>1, <1>2 DEF Puts
<1>3. ASSUME NEW n, NEW k, PutAt(n)', PutAt(k)', up'[n].comment = up'[k].comment
      PROVE  n = k
  <2>1. n + a = k + a
    BY <1>1, <1>3 DEF Puts
  <2> QED
    BY <1>1, <1>3, <2>1
<1> QED
  BY <1>2, <1>3 DEF Puts

(* The same of replies on their way.                                       *)
LEMMA RepliesStay ==
  ASSUME Replies, NEW b, NEW D, Moves(down, down', b, D), \A x \in D : x.type # "reply",
         Made \subseteq Made',
         \A n : ReplyAt(n)' => stage'[down'[n].comment] = stage[down'[n].comment]
  PROVE  Replies'
<1>1. ASSUME NEW n, ReplyAt(n)'
      PROVE  n \in Nat /\ b \in {0, 1} /\ ReplyAt(n + b) /\ down'[n] = down[n + b]
  BY <1>1, ReplyFrom
<1>2. ASSUME NEW n, ReplyAt(n)'
      PROVE  down'[n].comment \in Made' /\ stage'[down'[n].comment] \in {"stored", "refused"}
  BY <1>1, <1>2 DEF Replies
<1>3. ASSUME NEW n, NEW k, ReplyAt(n)', ReplyAt(k)', down'[n].comment = down'[k].comment
      PROVE  n = k
  <2>1. n + b = k + b
    BY <1>1, <1>3 DEF Replies
  <2> QED
    BY <1>1, <1>3, <2>1
<1> QED
  BY <1>2, <1>3 DEF Replies

(* The same of completions.                                                *)
LEMMA DonesStay ==
  ASSUME Dones, NEW c, NEW M, Moves(mainq, mainq', c, M), \A x \in M : x.type # "reply",
         Made \subseteq Made',
         \A n : DoneAt(n)' => stage'[mainq'[n].comment] = stage[mainq'[n].comment]
  PROVE  Dones'
<1>1. ASSUME NEW n, DoneAt(n)'
      PROVE  n \in Nat /\ c \in {0, 1} /\ DoneAt(n + c) /\ mainq'[n] = mainq[n + c]
  BY <1>1, DoneFrom
<1>2. ASSUME NEW n, DoneAt(n)'
      PROVE  mainq'[n].comment \in Made' /\ stage'[mainq'[n].comment] \in {"acked", "denied"}
  BY <1>1, <1>2 DEF Dones
<1>3. ASSUME NEW n, NEW k, DoneAt(n)', DoneAt(k)', mainq'[n].comment = mainq'[k].comment
      PROVE  n = k
  <2>1. n + c = k + c
    BY <1>1, <1>3 DEF Dones
  <2> QED
    BY <1>1, <1>3, <2>1
<1> QED
  BY <1>2, <1>3 DEF Dones

(* A step that writes, stores and completes no comment.                    *)
LEMMA QuietKnown ==
  ASSUME Known, UNCHANGED <<made, stage, stored, denied, returned>>,
         NEW a, NEW U, NEW b, NEW D, NEW c, NEW M, Queues(a, U, b, D, c, M),
         \A x \in U : x.type # "put", \A x \in D \cup M : x.type # "reply"
  PROVE  Known'
<1>1. Moves(up, up', a, U) /\ Moves(down, down', b, D) /\ Moves(mainq, mainq', c, M)
  BY DEF Queues
<1>2. Made' = Made /\ stage' = stage
  BY DEF Made
<1>3. Puts'
  BY <1>1, <1>2, PutsStay DEF Known
<1>4. Replies'
  BY <1>1, <1>2, RepliesStay DEF Known
<1>5. Dones'
  BY <1>1, <1>2, DonesStay DEF Known
<1>6. Stored'
  BY <1>2 DEF Known, Stored
<1> QED
  BY <1>3, <1>4, <1>5, <1>6 DEF Known

-----------------------------------------------------------------------------
(* What each action does to the queues.                                    *)

(* Opening the post, pulling it and a dismissed sheet read the comments.   *)
LEMMA AskSteps ==
  ASSUME Shape
  PROVE  /\ OpenPost => pages + 1 \in Nat /\ Asks(pages + 1, 0)
         /\ Pull => page \in Nat /\ Asks(page, 0)
         /\ Dismissed => /\ mainq[1].type = "dismissed" /\ 1 \in 1..Len(mainq)
                         /\ mainq[1].page \in Nat /\ Asks(mainq[1].page, 1)
<1>1. pages + 1 \in Nat /\ page \in Nat /\ mainq \in Seq(Blocks)
  BY Numbers DEF Shape, QueueShape
<1>2. ASSUME OpenPost PROVE Asks(pages + 1, 0)
  BY <1>1, <1>2, GetQueues DEF OpenPost
<1>3. ASSUME Pull PROVE Asks(page, 0)
  BY <1>1, <1>3, GetQueues DEF Pull
<1>4. ASSUME Dismissed
      PROVE  /\ mainq[1].type = "dismissed" /\ 1 \in 1..Len(mainq)
             /\ mainq[1].page \in Nat /\ Asks(mainq[1].page, 1)
  <2>1. mainq # << >> /\ Head(mainq).type = "dismissed"
    BY <1>4 DEF Dismissed, Run
  <2>2. Head(mainq) = mainq[1] /\ Head(mainq) \in Blocks /\ 1 \in 1..Len(mainq)
    BY <1>1, <2>1, TailFacts
  <2>3. mainq[1].page \in Nat
    BY <2>1, <2>2, MessageFacts
  <2>4. GetComments(mainq[1].page, Tail(mainq)) /\ UNCHANGED down
    BY <1>4, <2>2 DEF Dismissed
  <2>5. ASSUME NEW p \in Nat, NEW blocks, NEW k \in {0, 1}, k = 1,
               blocks = Tail(mainq), GetComments(p, blocks)
        PROVE  Asks(p, k)
    <3>1. k # 0
      BY <2>5
    <3> QED
      BY <2>1, <2>4, <2>5, <3>1, GetQueues
  <2>6. Asks(mainq[1].page, 1)
    BY <2>3, <2>4, <2>5
  <2> QED
    BY <2>1, <2>2, <2>3, <2>6
<1> QED
  BY <1>1, <1>2, <1>3, <1>4

(* The user's other actions, and the comments of others.                   *)
LEMMA StillSteps ==
  ASSUME Shape, Back \/ OpenSheet \/ CloseSheet \/ OthersComment
  PROVE  Queues(0, {}, 0, {}, 0, {}) /\ Singles(0, 0, 0) /\ UNCHANGED link
BY StillQueues DEF Back, OpenSheet, CloseSheet, OthersComment, link

PutRequest(i) == [type |-> "put", comment |-> i]

(* Reply sends a put.                                                      *)
LEMMA ReplyStep ==
  ASSUME Shape, Reply
  PROVE  /\ Queues(0, {PutRequest(made + 1)}, 0, {}, 0, {}) /\ Singles(0, 0, 0)
         /\ up' = Append(up, PutRequest(made + 1)) /\ UNCHANGED <<reads, down, mainq>>
<1>1. up \in Seq(Requests) /\ down \in Seq(Messages) /\ mainq \in Seq(Blocks)
  BY DEF Shape, QueueShape
<1>2. up' = Append(up, PutRequest(made + 1)) /\ UNCHANGED <<reads, down, mainq>>
  BY DEF Reply, PutRequest
<1>3. PutRequest(made + 1) \in Requests
  BY Numbers DEF Requests, PutRequest
<1>4. Moves(up, up', 0, {PutRequest(made + 1)}) /\ Single(up, up', 0)
  BY <1>1, <1>2, <1>3, MoveAppend
<1>5. /\ Moves(down, down', 0, {}) /\ Single(down, down', 0)
      /\ Moves(mainq, mainq', 0, {}) /\ Single(mainq, mainq', 0)
  BY <1>1, <1>2, MoveNone
<1> QED
  BY <1>2, <1>4, <1>5 DEF Queues, Singles

FirstAttempt == [type |-> "vote", known |-> FALSE, base |-> Pending]

(* The first attempt is sent; every read is answered.                      *)
LEMMA StartStep ==
  ASSUME Shape, StartVote
  PROVE  /\ Queues(0, {FirstAttempt}, 0, {}, 0,
                   {Block(reads[n], "vote", Pending) : n \in 1..Len(reads)})
         /\ Single(up, up', 0)
         /\ up' = Append(up, FirstAttempt) /\ down' = down
         /\ mainq' = mainq \o Answered("vote", Pending)
<1>1. up \in Seq(Requests) /\ down \in Seq(Messages) /\ mainq \in Seq(Blocks)
  BY DEF Shape, QueueShape
<1>2. FirstAttempt \in Requests
  BY Numbers DEF Requests, FirstAttempt
<1>3. up' = Append(up, FirstAttempt) /\ down' = down
      /\ mainq' = mainq \o Answered("vote", Pending)
  BY DEF StartVote, FirstAttempt
<1>4. Moves(up, up', 0, {FirstAttempt}) /\ Single(up, up', 0) /\ Moves(down, down', 0, {})
  BY <1>1, <1>2, <1>3, MoveAppend, MoveNone
<1>5. /\ Answered("vote", Pending) \in Seq(Blocks)
      /\ Len(Answered("vote", Pending)) = Len(reads)
      /\ \A n \in 1..Len(reads) : Answered("vote", Pending)[n] = Block(reads[n], "vote", Pending)
  BY Numbers, AnsweredFacts
<1>6. Moves(mainq, mainq', 0, {Block(reads[n], "vote", Pending) : n \in 1..Len(reads)})
  BY <1>1, <1>3, <1>5, MoveConcat
<1> QED
  BY <1>3, <1>4, <1>6 DEF Queues

(* The server takes the first request and answers it.                      *)
TellComments == [type |-> "comments", told |-> stored]
TellError    == [type |-> "error"]
TellStale    == [type |-> "stale", told |-> stored]
TellVoted    == [type |-> "voted"]
TellReply(i) == [type |-> "reply", comment |-> i]

Serves(type, m) ==
  /\ Queues(1, {}, 0, {m}, 0, {}) /\ Singles(1, 0, 0)
  /\ up[1] = Head(up) /\ up[1].type = type /\ 1 \in 1..Len(up)
  /\ UNCHANGED <<reads, mainq>> /\ down' = Append(down, m)

(* The server's answers, and its refusals.                                 *)
LEMMA ServerSteps ==
  ASSUME Shape
  PROVE  /\ AnswerRead => Serves("listen", TellComments)
         /\ RefuseRead => Serves("listen", TellError)
         /\ AcceptVote => Serves("vote", TellVoted)
         /\ RefuseVote => Serves("vote", TellStale)
         /\ StoreComment \/ RefuseComment => Serves("put", TellReply(Head(up).comment))
<1>1. /\ TellComments \in Messages /\ TellError \in Messages
      /\ TellVoted \in Messages /\ TellStale \in Messages
  BY Numbers DEF Messages, TellComments, TellError, TellVoted, TellStale
<1>2. ASSUME NEW type, NEW m \in Messages, Asked(type), Say(m), UNCHANGED <<reads, mainq>>
      PROVE  Serves(type, m)
  BY <1>2, ServerQueues DEF Serves, Say
<1>3. ASSUME AnswerRead PROVE Serves("listen", TellComments)
  BY <1>1, <1>2, <1>3 DEF AnswerRead, TellComments
<1>4. ASSUME RefuseRead PROVE Serves("listen", TellError)
  BY <1>1, <1>2, <1>4 DEF RefuseRead, TellError
<1>5. ASSUME AcceptVote PROVE Serves("vote", TellVoted)
  BY <1>1, <1>2, <1>5 DEF AcceptVote, TellVoted
<1>6. ASSUME RefuseVote PROVE Serves("vote", TellStale)
  BY <1>1, <1>2, <1>6 DEF RefuseVote, TellStale
<1>7. ASSUME StoreComment \/ RefuseComment
      PROVE  Serves("put", TellReply(Head(up).comment))
  <2>1. Asked("put") /\ Say(TellReply(Head(up).comment)) /\ UNCHANGED <<reads, mainq>>
    BY <1>7 DEF StoreComment, RefuseComment, TellReply
  <2>2. Head(up) \in Requests /\ Head(up).type = "put"
    BY <2>1, TailFacts DEF Shape, QueueShape, Asked
  <2>3. TellReply(Head(up).comment) \in Messages
    BY <2>2, MessageFacts DEF Messages, TellReply
  <2> QED
    BY <1>2, <2>1, <2>3
<1> QED
  BY <1>3, <1>4, <1>5, <1>6, <1>7

(* The client takes the first message.                                     *)
Takes(X) ==
  /\ Queues(0, {}, 1, {}, 0, X)
  /\ down[1] = Head(down) /\ 1 \in 1..Len(down) /\ down[1] \in Messages
  /\ up' = up

(* Every read is answered, by a list or by an error.                       *)
LEMMA AnswerSteps ==
  ASSUME Shape
  PROVE  /\ DeliverComments =>
              Takes({Block(reads[n], "server", Overlaid(down[1].told)) : n \in 1..Len(reads)})
         /\ DeliverError =>
              Takes({Block(reads[n], "error", {}) : n \in 1..Len(reads)})
<1>1. down \in Seq(Messages) /\ Pending \subseteq Nat
  BY Numbers DEF Shape, QueueShape
<1>2. ASSUME NEW how \in {"server", "vote", "error"}, NEW S \in SUBSET Nat,
             mainq' = mainq \o Answered(how, S), down # << >>, down' = Tail(down), up' = up
      PROVE  Takes({Block(reads[n], how, S) : n \in 1..Len(reads)})
  <2>1. /\ Answered(how, S) \in Seq(Blocks) /\ Len(Answered(how, S)) = Len(reads)
        /\ \A n \in 1..Len(reads) : Answered(how, S)[n] = Block(reads[n], how, S)
    BY <1>2, AnsweredFacts
  <2> DEFINE X == {Block(reads[n], how, S) : n \in 1..Len(reads)}
  <2>2. \A n \in 1..Len(Answered(how, S)) : Answered(how, S)[n] \in X
    BY <2>1
  <2> HIDE DEF X
  <2>3. Queues(0, {}, 1, {}, 0, X) /\ down[1] = Head(down) /\ 1 \in 1..Len(down)
    BY <1>2, <2>1, <2>2, DeliverQueues
  <2>4. Takes(X)
    BY <1>1, <1>2, <2>3, TailFacts DEF Takes
  <2> QED
    BY <2>4 DEF X
<1>3. ASSUME DeliverComments
      PROVE  Takes({Block(reads[n], "server", Overlaid(down[1].told)) : n \in 1..Len(reads)})
  <2>1. /\ down # << >> /\ Head(down) = down[1] /\ Head(down) \in Messages
        /\ Head(down).type = "comments" /\ down' = Tail(down) /\ up' = up
        /\ mainq' = mainq \o Answered("server", Overlaid(Head(down).told))
    BY <1>1, <1>3, TailFacts DEF DeliverComments, Told
  <2>2. Overlaid(Head(down).told) \subseteq Nat
    BY <1>1, <2>1, MessageFacts DEF Overlaid
  <2> QED
    BY <1>2, <2>1, <2>2
<1>4. ASSUME DeliverError
      PROVE  Takes({Block(reads[n], "error", {}) : n \in 1..Len(reads)})
  <2>1. /\ down # << >> /\ down' = Tail(down) /\ up' = up
        /\ mainq' = mainq \o Answered("error", {})
    BY <1>4 DEF DeliverError, Told
  <2> QED
    BY <1>2, <2>1
<1> QED
  BY <1>3, <1>4

(* A reply becomes a completion.                                           *)
LEMMA DeliverReplyStep ==
  ASSUME Shape, DeliverReply
  PROVE  Takes({TellReply(down[1].comment)}) /\ down[1].type = "reply" /\ reads' = reads
         /\ Single(mainq, mainq', 0)
<1>1. down \in Seq(Messages) /\ mainq \in Seq(Blocks) /\ up \in Seq(Requests)
  BY DEF Shape, QueueShape
<1>2. /\ down # << >> /\ Head(down) = down[1] /\ Head(down) \in Messages /\ 1 \in 1..Len(down)
      /\ down[1].type = "reply" /\ down' = Tail(down) /\ up' = up
      /\ mainq' = Append(mainq, TellReply(down[1].comment))
  BY <1>1, TailFacts DEF DeliverReply, Told, TellReply
<1>3. TellReply(down[1].comment) \in Blocks
  BY <1>2, MessageFacts DEF Blocks, TellReply
<1>4. Moves(mainq, mainq', 0, {TellReply(down[1].comment)}) /\ Single(mainq, mainq', 0)
  BY <1>1, <1>2, <1>3, MoveAppend
<1>5. Moves(down, down', 1, {}) /\ Moves(up, up', 0, {})
  BY <1>1, <1>2, MoveTail, MoveNone
<1> QED
  BY <1>2, <1>4, <1>5 DEF Takes, Queues, DeliverReply

(* The answer of an attempt is taken; another attempt may follow.          *)
LEMMA VoteSteps ==
  ASSUME Shape, EndVote \/ VoteAgain
  PROVE  /\ Moves(down, down', 1, {}) /\ Moves(mainq, mainq', 0, {})
         /\ down[1].type \in {"voted", "stale"} /\ 1 \in 1..Len(down) /\ down[1] \in Messages
         /\ down[1] = Head(down)
         /\ EndVote => Moves(up, up', 0, {})
         /\ VoteAgain =>
              \E x \in Requests : /\ x.type = "vote" /\ up' = Append(up, x)
                                  /\ Moves(up, up', 0, {x})
<1>1. down \in Seq(Messages) /\ mainq \in Seq(Blocks) /\ up \in Seq(Requests)
  BY DEF Shape, QueueShape
<1>2. /\ down # << >> /\ down' = Tail(down) /\ mainq' = mainq
      /\ Head(down).type \in {"voted", "stale"}
  BY DEF EndVote, VoteAgain, Told
<1>3. Head(down) = down[1] /\ Head(down) \in Messages /\ 1 \in 1..Len(down)
  BY <1>1, <1>2, TailFacts
<1>4. Moves(down, down', 1, {}) /\ Moves(mainq, mainq', 0, {})
  BY <1>1, <1>2, MoveTail, MoveNone
<1>5. ASSUME EndVote PROVE Moves(up, up', 0, {})
  BY <1>1, <1>5, MoveNone DEF EndVote
<1>6. ASSUME VoteAgain
      PROVE  \E x \in Requests : /\ x.type = "vote" /\ up' = Append(up, x)
                                 /\ Moves(up, up', 0, {x})
  <2> DEFINE base == Overlaid(Head(down).told)
             x == [type |-> "vote", known |-> TRUE, base |-> base]
  <2>1. Head(down).type = "stale"
    BY <1>6 DEF VoteAgain, Told
  <2>2. base \subseteq Nat
    BY <1>3, <2>1, Numbers, MessageFacts DEF Overlaid
  <2>3. x \in Requests /\ x.type = "vote" /\ up' = Append(up, x)
    BY <1>6, <2>2 DEF VoteAgain, Requests
  <2> HIDE DEF x
  <2>4. Moves(up, up', 0, {x})
    BY <1>1, <2>3, MoveAppend
  <2> QED
    BY <2>3, <2>4
<1> QED
  BY <1>2, <1>3, <1>4, <1>5, <1>6

(* The main thread runs the first block.                                   *)
Runs(type, X) ==
  /\ Queues(0, {}, 0, {}, 1, X) /\ Singles(0, 0, 1)
  /\ mainq[1] = Head(mainq) /\ mainq[1].type = type /\ 1 \in 1..Len(mainq)
  /\ mainq[1] \in Blocks
  /\ UNCHANGED link

DismissedBlock(p) == [type |-> "dismissed", page |-> p]

(* The blocks that the main thread runs.                                   *)
LEMMA MainSteps ==
  ASSUME Shape, Known
  PROVE  /\ ShowComments => Runs("comments", {})
         /\ NotReplied => Runs("reply", {})
         /\ Replied => Runs("reply", {DismissedBlock(from[mainq[1].comment].page)})
<1>1. down \in Seq(Messages) /\ mainq \in Seq(Blocks) /\ up \in Seq(Requests)
  BY DEF Shape, QueueShape
<1>2. ASSUME NEW type, Run(type), UNCHANGED link, NEW x \in Blocks, NEW X,
             (mainq' = Tail(mainq)) \/ (mainq' = Append(Tail(mainq), x) /\ x \in X)
      PROVE  Runs(type, X)
  <2>1. /\ mainq # << >> /\ Head(mainq).type = type /\ Head(mainq) = mainq[1]
        /\ 1 \in 1..Len(mainq) /\ Head(mainq) \in Blocks
    BY <1>1, <1>2, TailFacts DEF Run
  <2>2. Moves(mainq, mainq', 1, X) /\ Single(mainq, mainq', 1)
    BY <1>1, <1>2, <2>1, MoveTail, MoveTailAppend
  <2>3. /\ Moves(up, up', 0, {}) /\ Single(up, up', 0)
        /\ Moves(down, down', 0, {}) /\ Single(down, down', 0)
    BY <1>1, <1>2, MoveNone DEF link
  <2> QED
    BY <1>2, <2>1, <2>2, <2>3 DEF Runs, Queues, Singles
<1>3. DismissedBlock(0) \in Blocks
  BY DEF Blocks, DismissedBlock
<1>4. ASSUME ShowComments PROVE Runs("comments", {})
  BY <1>2, <1>3, <1>4 DEF ShowComments
<1>5. ASSUME NotReplied PROVE Runs("reply", {})
  BY <1>2, <1>3, <1>5 DEF NotReplied
<1>6. ASSUME Replied PROVE Runs("reply", {DismissedBlock(from[mainq[1].comment].page)})
  <2> DEFINE x == DismissedBlock(from[mainq[1].comment].page)
  <2>1. mainq # << >> /\ Head(mainq).type = "reply"
    BY <1>6 DEF Replied, Run
  <2>2. Head(mainq) = mainq[1] /\ DoneAt(1)
    BY <1>1, <2>1, TailFacts DEF DoneAt
  <2>3. mainq[1].comment \in Made
    BY <2>2 DEF Known, Dones
  <2>4. x \in Blocks
    BY <2>3 DEF Shape, CommentShape, Origins, Blocks, DismissedBlock
  <2>5. Run("reply") /\ UNCHANGED link /\ (mainq' = Tail(mainq) \/ mainq' = Append(Tail(mainq), x))
    BY <1>6, <2>2 DEF Replied, DismissedBlock
  <2> HIDE DEF x
  <2>6. Runs("reply", {x})
    BY <1>2, <2>4, <2>5
  <2> QED
    BY <2>6 DEF x
<1> QED
  BY <1>4, <1>5, <1>6

-----------------------------------------------------------------------------
(* Every step keeps what is known.                                         *)

(* Nothing is known at first.                                              *)
LEMMA KnownInit == Init => Known
BY DEF Init, Known, Stored, Puts, Replies, Dones, PutAt, ReplyAt, DoneAt, Made

(* The reads, the votes and the screen.                                    *)
LEMMA KnownQuiet ==
  ASSUME Shape, Known,
         \/ OpenPost \/ Back \/ Pull \/ OpenSheet \/ CloseSheet \/ Dismissed
         \/ StartVote \/ AnswerRead \/ RefuseRead \/ AcceptVote \/ RefuseVote
         \/ DeliverComments \/ DeliverError \/ EndVote \/ VoteAgain \/ ShowComments
  PROVE  Known'
<1>1. \A r, how, S : Block(r, how, S).type = "comments"
  BY DEF Block
<1>2. ListenRequest.type = "listen" /\ FirstAttempt.type = "vote"
  BY DEF ListenRequest, FirstAttempt
<1>3. /\ TellComments.type # "reply" /\ TellError.type # "reply"
      /\ TellStale.type # "reply" /\ TellVoted.type # "reply"
  BY DEF TellComments, TellError, TellStale, TellVoted
<1>4. CASE OpenPost \/ Pull \/ Dismissed
  <2>1. UNCHANGED <<made, stage, stored, denied, returned>>
    BY <1>4 DEF OpenPost, Pull, Dismissed, writing, history
  <2>2. PICK p, k : Asks(p, k)
    <3>1. Asks(pages + 1, 0) \/ Asks(page, 0) \/ Asks(mainq[1].page, 1)
      BY <1>4, AskSteps
    <3> QED
      BY <3>1
  <2>3. Queues(0, {ListenRequest}, 0, {}, k, {VoteBlock(p)})
    BY <2>2 DEF Asks
  <2>4. VoteBlock(p).type # "reply"
    BY <1>1 DEF VoteBlock
  <2> QED
    BY <1>2, <2>1, <2>3, <2>4, QuietKnown
<1>5. CASE Back \/ OpenSheet \/ CloseSheet
  <2>1. UNCHANGED <<made, stage, stored, denied, returned>>
    BY <1>5 DEF Back, OpenSheet, CloseSheet, writing, history
  <2>2. Queues(0, {}, 0, {}, 0, {})
    BY <1>5, StillSteps
  <2> QED
    BY <2>1, <2>2, QuietKnown
<1>6. CASE StartVote
  <2>1. UNCHANGED <<made, stage, stored, denied, returned>>
    BY <1>6 DEF StartVote, writing, history
  <2>2. Queues(0, {FirstAttempt}, 0, {}, 0,
               {Block(reads[n], "vote", Pending) : n \in 1..Len(reads)})
    BY <1>6, StartStep
  <2>3. \A x \in {Block(reads[n], "vote", Pending) : n \in 1..Len(reads)} : x.type # "reply"
    BY <1>1
  <2> QED
    BY <1>2, <2>1, <2>2, <2>3, QuietKnown
<1>7. CASE AnswerRead \/ RefuseRead \/ AcceptVote \/ RefuseVote
  <2>1. UNCHANGED <<made, stage, stored, denied, returned>>
    BY <1>7 DEF AnswerRead, RefuseRead, AcceptVote, RefuseVote, writing, history
  <2>2. PICK m \in {TellComments, TellError, TellStale, TellVoted} :
          Queues(1, {}, 0, {m}, 0, {})
    BY <1>7, ServerSteps DEF Serves
  <2> QED
    BY <1>3, <2>1, <2>2, QuietKnown
<1>8. CASE DeliverComments \/ DeliverError
  <2>1. UNCHANGED <<made, stage, stored, denied, returned>>
    BY <1>8 DEF DeliverComments, DeliverError, writing, history
  <2>2. PICK how, S : Queues(0, {}, 1, {}, 0, {Block(reads[n], how, S) : n \in 1..Len(reads)})
    BY <1>8, AnswerSteps DEF Takes
  <2>3. \A x \in {Block(reads[n], how, S) : n \in 1..Len(reads)} : x.type # "reply"
    BY <1>1
  <2> QED
    BY <2>1, <2>2, <2>3, QuietKnown
<1>9. CASE EndVote \/ VoteAgain
  <2>1. UNCHANGED <<made, stage, stored, denied, returned>>
    BY <1>9 DEF EndVote, VoteAgain, writing, history
  <2>2. PICK U : Moves(up, up', 0, U) /\ \A x \in U : x.type = "vote"
    <3>1. CASE EndVote
      BY <3>1, VoteSteps
    <3>2. CASE VoteAgain
      <4>1. PICK x : x.type = "vote" /\ Moves(up, up', 0, {x})
        BY <3>2, VoteSteps
      <4> QED
        BY <4>1
    <3> QED
      BY <1>9, <3>1, <3>2
  <2>3. Queues(0, U, 1, {}, 0, {})
    BY <1>9, <2>2, VoteSteps DEF Queues
  <2> QED
    BY <2>1, <2>2, <2>3, QuietKnown
<1>10. CASE ShowComments
  <2>1. UNCHANGED <<made, stage, stored, denied, returned>>
    BY <1>10 DEF ShowComments, writing
  <2>2. Queues(0, {}, 0, {}, 1, {})
    BY <1>10, MainSteps DEF Runs
  <2> QED
    BY <2>1, <2>2, QuietKnown
<1> QED
  BY <1>4, <1>5, <1>6, <1>7, <1>8, <1>9, <1>10

(* A comment is written, here or elsewhere.                                *)
LEMMA KnownWritten ==
  ASSUME Shape, Known, Reply \/ OthersComment
  PROVE  Known'
<1> DEFINE i == made + 1
<1>1. PICK s \in {"sent", "foreign"}, f \in Origins :
        /\ made < MaxComments /\ made' = made + 1 /\ pages' = pages
        /\ stage' = Append(stage, s) /\ from' = Append(from, f) /\ f.page <= pages
        /\ Reply => s = "sent"
        /\ OthersComment => s = "foreign"
  <2>1. [id |-> sheet.id, page |-> page] \in Origins /\ page <= pages
    BY DEF Shape, ScreenShape, Origins
  <2>2. [id |-> 0, page |-> 0] \in Origins /\ 0 <= pages
    BY DEF Shape, ScreenShape, Origins
  <2>3. CASE Reply
    <3>1. ~OthersComment \/ stage' = Append(stage, "foreign")
      BY DEF OthersComment
    <3>2. Reply /\ ~OthersComment
      <4>1. OthersComment => up' = up
        BY DEF OthersComment, link
      <4>2. up' # up
        BY <2>3, ReplyStep, AppendFacts, QueueFacts, Numbers
        DEF Shape, QueueShape, Requests, PutRequest
      <4> QED
        BY <2>3, <4>1, <4>2
    <3> QED
      BY <2>1, <2>3, <3>2 DEF Reply, bounds
  <2>4. CASE OthersComment /\ ~Reply
    BY <2>2, <2>4 DEF OthersComment, bounds
  <2> QED
    BY <2>3, <2>4
<1>2. s \in Stages
  BY DEF Stages
<1>3. /\ Made' = Made \cup {i} /\ i \notin Made
      /\ \A j \in Made : stage'[j] = stage[j]
      /\ stage'[i] = s
  BY <1>1, <1>2, Written, Numbers
<1> HIDE DEF i
<1>4. /\ Moves(down, down', 0, {}) /\ Moves(mainq, mainq', 0, {})
      /\ Reply => Moves(up, up', 0, {PutRequest(i)})
      /\ OthersComment => Moves(up, up', 0, {})
  BY ReplyStep, StillSteps DEF Queues, i
<1>5. UNCHANGED <<denied, returned>> /\ stored \subseteq stored'
  BY DEF Reply, OthersComment, history
<1>6. Stored'
  <2>1. \A j \in Made' : stage'[j] \in {"stored", "acked", "done", "refused"} => j \in Made
    BY <1>3
  <2>2. \A j \in returned : j \in Made
    BY DEF Known, Stored
  <2> QED
    BY <1>3, <1>5, <2>1, <2>2 DEF Known, Stored
<1>7. Replies'
  <2>1. \A n : ReplyAt(n)' => down'[n].comment \in Made
    BY <1>4, ReplyFrom DEF Known, Replies
  <2> QED
    BY <1>3, <1>4, <2>1, RepliesStay DEF Known
<1>8. Dones'
  <2>1. \A n : DoneAt(n)' => mainq'[n].comment \in Made
    BY <1>4, DoneFrom DEF Known, Dones
  <2> QED
    BY <1>3, <1>4, <2>1, DonesStay DEF Known
<1>9. Puts'
  <2>1. CASE OthersComment
    <3>1. Moves(up, up', 0, {})
      BY <1>4, <2>1
    <3>2. \A n : PutAt(n)' => up'[n].comment \in Made
      BY <3>1, PutFrom DEF Known, Puts
    <3> QED
      BY <1>3, <3>1, <3>2, PutsStay DEF Known
  <2>2. CASE Reply
    <3>1. Moves(up, up', 0, {PutRequest(i)}) /\ Single(up, up', 0) /\ s = "sent"
      BY <1>1, <1>4, <2>2, ReplyStep DEF Singles
    <3>2. PutRequest(i).comment = i
      BY DEF PutRequest
    <3>3. ASSUME NEW n, PutAt(n)'
          PROVE  /\ n \in Nat
                 /\ \/ PutAt(n) /\ up'[n] = up[n] /\ up'[n].comment \in Made
                    \/ up'[n].comment = i /\ n = Len(up) + 1
      <4>1. /\ n \in Nat /\ Len(up) \in Nat
            /\ \/ PutAt(n) /\ up'[n] = up[n]
               \/ n > Len(up) /\ up'[n] = PutRequest(i)
        BY <3>1, <3>3, PutFrom
      <4>2. n <= Len(up) + 1
        BY <3>1, <3>3 DEF Single, PutAt, Moves
      <4> QED
        BY <3>2, <4>1, <4>2 DEF Known, Puts
    <3>4. ASSUME NEW n, PutAt(n)'
          PROVE  up'[n].comment \in Made' /\ stage'[up'[n].comment] = "sent"
      BY <1>3, <3>1, <3>3, <3>4 DEF Known, Puts
    <3>5. ASSUME NEW n, NEW k, PutAt(n)', PutAt(k)', up'[n].comment = up'[k].comment
          PROVE  n = k
      BY <1>3, <3>3, <3>5 DEF Known, Puts
    <3> QED
      BY <3>4, <3>5 DEF Puts
  <2> QED
    BY <2>1, <2>2
<1> QED
  BY <1>6, <1>7, <1>8, <1>9 DEF Known

(* The server stores a comment, or refuses it.                             *)
LEMMA KnownServed ==
  ASSUME Shape, Known, StoreComment \/ RefuseComment
  PROVE  Known'
<1> DEFINE i == Head(up).comment
<1>1. Serves("put", TellReply(i)) /\ up[1] = Head(up) /\ PutAt(1)
  BY ServerSteps DEF Serves, PutAt
<1>2. i \in Made /\ stage[i] = "sent"
  BY <1>1 DEF Known, Puts
<1>3. PICK s \in {"stored", "refused"} :
        /\ stage' = [stage EXCEPT ![i] = s] /\ UNCHANGED <<made, returned>>
        /\ stored' = stored \cup (IF s = "stored" THEN {i} ELSE {})
        /\ denied' = denied \cup (IF s = "refused" THEN {i} ELSE {})
  BY DEF StoreComment, RefuseComment, history
<1> HIDE DEF i
<1>4. Made' = Made /\ stage'[i] = s /\ \A j \in Made : j # i => stage'[j] = stage[j]
  BY <1>2, <1>3 DEF Shape, CommentShape, Made
<1>5. /\ Moves(up, up', 1, {}) /\ Moves(down, down', 0, {TellReply(i)})
      /\ Single(down, down', 0) /\ Moves(mainq, mainq', 0, {})
  BY <1>1 DEF Serves, Queues, Singles
<1>6. Stored'
  BY <1>2, <1>3, <1>4 DEF Known, Stored
<1>7. Puts'
  <2>1. ASSUME NEW n, PutAt(n)'
        PROVE  stage'[up'[n].comment] = stage[up'[n].comment]
    <3>1. n \in Nat /\ PutAt(n + 1) /\ up'[n] = up[n + 1]
      BY <1>5, <2>1, PutFrom
    <3>2. n # 0
      BY <2>1 DEF PutAt
    <3>3. up'[n].comment # i /\ up'[n].comment \in Made
      BY <1>1, <3>1, <3>2 DEF Known, Puts, i
    <3> QED
      BY <1>4, <3>3
  <2> QED
    BY <1>4, <1>5, <2>1, PutsStay DEF Known
<1>8. Dones'
  <2>1. ASSUME NEW n, DoneAt(n)'
        PROVE  mainq'[n].comment \in Made /\ mainq'[n].comment # i
    BY <1>2, <1>5, <2>1, DoneFrom DEF Known, Dones
  <2> QED
    BY <1>4, <1>5, <2>1, DonesStay DEF Known
<1>9. Replies'
  <2>1. ASSUME NEW n, ReplyAt(n)'
        PROVE  /\ n \in Nat
               /\ \/ /\ ReplyAt(n) /\ down'[n] = down[n]
                     /\ down'[n].comment \in Made /\ down'[n].comment # i
                  \/ n = Len(down) + 1 /\ down'[n].comment = i
    <3>1. /\ n \in Nat /\ Len(down) \in Nat
          /\ \/ ReplyAt(n) /\ down'[n] = down[n]
             \/ n > Len(down) /\ down'[n] = TellReply(i)
      BY <1>5, <2>1, ReplyFrom
    <3>2. n <= Len(down) + 1
      BY <1>5, <2>1 DEF Single, ReplyAt, Moves
    <3>3. TellReply(i).comment = i
      BY DEF TellReply
    <3> QED
      BY <1>2, <3>1, <3>2, <3>3 DEF Known, Replies
  <2>2. ASSUME NEW n, ReplyAt(n)'
        PROVE  down'[n].comment \in Made' /\ stage'[down'[n].comment] \in {"stored", "refused"}
    BY <1>2, <1>4, <2>1, <2>2 DEF Known, Replies
  <2>3. ASSUME NEW n, NEW k, ReplyAt(n)', ReplyAt(k)', down'[n].comment = down'[k].comment
        PROVE  n = k
    BY <2>1, <2>3 DEF Known, Replies
  <2> QED
    BY <2>2, <2>3 DEF Replies
<1> QED
  BY <1>6, <1>7, <1>8, <1>9 DEF Known

(* The answer to a comment reaches the client.                             *)
LEMMA KnownDelivered ==
  ASSUME Shape, Known, DeliverReply
  PROVE  Known'
<1> DEFINE i == down[1].comment
<1>1. /\ Takes({TellReply(i)}) /\ ReplyAt(1) /\ down[1] = Head(down)
      /\ Single(mainq, mainq', 0)
  BY DeliverReplyStep DEF Takes, ReplyAt
<1>2. i \in Made /\ stage[i] \in {"stored", "refused"}
  BY <1>1 DEF Known, Replies
<1>3. /\ stage' = [stage EXCEPT ![i] = IF stage[i] = "stored" THEN "acked" ELSE "denied"]
      /\ UNCHANGED <<made, stored, denied, returned>>
  BY <1>1 DEF DeliverReply, history
<1> HIDE DEF i
<1>4. /\ Made' = Made /\ \A j \in Made : j # i => stage'[j] = stage[j]
      /\ stage'[i] = IF stage[i] = "stored" THEN "acked" ELSE "denied"
  BY <1>2, <1>3 DEF Shape, CommentShape, Made
<1>5. /\ Moves(up, up', 0, {}) /\ Moves(down, down', 1, {})
      /\ Moves(mainq, mainq', 0, {TellReply(i)}) /\ Single(mainq, mainq', 0)
  BY <1>1 DEF Takes, Queues
<1>6. Stored'
  BY <1>2, <1>3, <1>4 DEF Known, Stored
<1>7. Puts'
  <2>1. ASSUME NEW n, PutAt(n)'
        PROVE  up'[n].comment \in Made /\ up'[n].comment # i
    BY <1>2, <1>5, <2>1, PutFrom DEF Known, Puts
  <2> QED
    BY <1>4, <1>5, <2>1, PutsStay DEF Known
<1>8. Replies'
  <2>1. ASSUME NEW n, ReplyAt(n)'
        PROVE  stage'[down'[n].comment] = stage[down'[n].comment]
    <3>1. n \in Nat /\ ReplyAt(n + 1) /\ down'[n] = down[n + 1]
      BY <1>5, <2>1, ReplyFrom
    <3>2. n # 0
      BY <2>1 DEF ReplyAt
    <3>3. down'[n].comment # i /\ down'[n].comment \in Made
      BY <1>1, <3>1, <3>2 DEF Known, Replies, i
    <3> QED
      BY <1>4, <3>3
  <2> QED
    BY <1>4, <1>5, <2>1, RepliesStay DEF Known
<1>9. Dones'
  <2>1. ASSUME NEW n, DoneAt(n)'
        PROVE  /\ n \in Nat
               /\ \/ /\ DoneAt(n) /\ mainq'[n] = mainq[n]
                     /\ mainq'[n].comment \in Made /\ mainq'[n].comment # i
                  \/ n = Len(mainq) + 1 /\ mainq'[n].comment = i
    <3>1. /\ n \in Nat /\ Len(mainq) \in Nat
          /\ \/ DoneAt(n) /\ mainq'[n] = mainq[n]
             \/ n > Len(mainq) /\ mainq'[n] = TellReply(i)
      BY <1>5, <2>1, DoneFrom
    <3>2. n <= Len(mainq) + 1
      BY <1>5, <2>1 DEF Single, DoneAt, Moves
    <3>3. TellReply(i).comment = i
      BY DEF TellReply
    <3> QED
      BY <1>2, <3>1, <3>2, <3>3 DEF Known, Dones
  <2>2. ASSUME NEW n, DoneAt(n)'
        PROVE  mainq'[n].comment \in Made' /\ stage'[mainq'[n].comment] \in {"acked", "denied"}
    BY <1>2, <1>4, <2>1, <2>2 DEF Known, Dones
  <2>3. ASSUME NEW n, NEW k, DoneAt(n)', DoneAt(k)', mainq'[n].comment = mainq'[k].comment
        PROVE  n = k
    BY <2>1, <2>3 DEF Known, Dones
  <2> QED
    BY <2>2, <2>3 DEF Dones
<1> QED
  BY <1>6, <1>7, <1>8, <1>9 DEF Known

(* The completion of a comment runs.                                       *)
LEMMA KnownCompleted ==
  ASSUME Shape, Known, Replied \/ NotReplied
  PROVE  Known'
<1> DEFINE i == mainq[1].comment
<1>1. PICK p : Runs("reply", {}) \/ Runs("reply", {DismissedBlock(p)})
  BY MainSteps
<1>2. DoneAt(1) /\ mainq[1] = Head(mainq)
  BY <1>1 DEF Runs, DoneAt
<1>3. i \in Made /\ stage[i] \in {"acked", "denied"}
  BY <1>2 DEF Known, Dones
<1>4. PICK s \in {"done", "failed"} :
        /\ stage' = [stage EXCEPT ![i] = s]
        /\ s = "done" => stage[i] = "acked"
        /\ UNCHANGED <<made, stored, denied>>
        /\ returned' = returned \/ (returned' = returned \cup {i} /\ s = "done")
  BY <1>2 DEF Replied, NotReplied, history
<1> HIDE DEF i
<1>5. Made' = Made /\ stage'[i] = s /\ \A j \in Made : j # i => stage'[j] = stage[j]
  BY <1>3, <1>4 DEF Shape, CommentShape, Made
<1>6. /\ Moves(up, up', 0, {}) /\ Moves(down, down', 0, {})
      /\ Moves(mainq, mainq', 1, {}) \/ Moves(mainq, mainq', 1, {DismissedBlock(p)})
  BY <1>1 DEF Runs, Queues
<1>7. Stored'
  <2>1. i \notin returned
    BY <1>3 DEF Known, Stored
  <2> QED
    BY <1>3, <1>4, <1>5, <2>1 DEF Known, Stored
<1>8. Puts'
  <2>1. ASSUME NEW n, PutAt(n)'
        PROVE  up'[n].comment \in Made /\ up'[n].comment # i
    BY <1>3, <1>6, <2>1, PutFrom DEF Known, Puts
  <2> QED
    BY <1>5, <1>6, <2>1, PutsStay DEF Known
<1>9. Replies'
  <2>1. ASSUME NEW n, ReplyAt(n)'
        PROVE  down'[n].comment \in Made /\ down'[n].comment # i
    BY <1>3, <1>6, <2>1, ReplyFrom DEF Known, Replies
  <2> QED
    BY <1>5, <1>6, <2>1, RepliesStay DEF Known
<1>10. Dones'
  <2>1. PICK M : Moves(mainq, mainq', 1, M) /\ \A x \in M : x.type # "reply"
    BY <1>6 DEF DismissedBlock
  <2>2. ASSUME NEW n, DoneAt(n)'
        PROVE  stage'[mainq'[n].comment] = stage[mainq'[n].comment]
    <3>1. n \in Nat /\ DoneAt(n + 1) /\ mainq'[n] = mainq[n + 1]
      BY <2>1, <2>2, DoneFrom
    <3>2. n # 0
      BY <2>2 DEF DoneAt
    <3>3. mainq'[n].comment # i /\ mainq'[n].comment \in Made
      BY <1>2, <3>1, <3>2 DEF Known, Dones, i
    <3> QED
      BY <1>5, <3>3
  <2> QED
    BY <1>5, <2>1, <2>2, DonesStay DEF Known
<1> QED
  BY <1>7, <1>8, <1>9, <1>10 DEF Known

(* The connection is lost: every pending comment is sent again.            *)
ResentAt(s, o, n) == n \in Nat /\ n > o /\ n - o \in 1..Len(s)

(* After a lost connection a listen, if a read waits, and the pending puts *)
(* are sent, each once.                                                    *)
LEMMA DisconnectStep ==
  ASSUME Shape, Disconnect
  PROVE  \E s \in Orders, o \in {0, 1} :
           /\ Len(up') = o + Len(s) /\ down' = << >>
           /\ o = 0 <=> reads = << >>
           /\ o = 1 => up'[1] = ListenRequest
           /\ \A n \in 1..Len(up') :
                \/ n = 1 /\ o = 1
                \/ ResentAt(s, o, n) /\ up'[n] = PutRequest(s[n - o])
<1>1. PICK s \in Orders :
        up' = (IF reads = << >> THEN << >> ELSE <<ListenRequest>>) \o Resent(s)
  BY DEF Disconnect, ListenRequest
<1>2. /\ Len(s) \in Nat /\ Resent(s) \in Seq(Requests) /\ Len(Resent(s)) = Len(s)
      /\ \A n \in 1..Len(s) : Resent(s)[n] = PutRequest(s[n])
  BY OrderFacts DEF PutRequest
<1>3. down' = << >>
  BY DEF Disconnect
<1>4. CASE reads = << >>
  <2>1. up' = Resent(s)
    BY <1>1, <1>2, <1>4
  <2> QED
    BY <1>2, <1>3, <1>4, <2>1 DEF ResentAt
<1>5. CASE reads # << >>
  <2>1. up' = <<ListenRequest>> \o Resent(s) /\ <<ListenRequest>> \in Seq(Requests)
        /\ Len(<<ListenRequest>>) = 1 /\ <<ListenRequest>>[1] = ListenRequest
    BY <1>1, <1>5 DEF Requests, ListenRequest
  <2>2. /\ Len(up') = 1 + Len(s) /\ up'[1] = ListenRequest
        /\ \A n \in 1..Len(s) : up'[1 + n] = Resent(s)[n]
    BY <1>2, <2>1, ConcatFacts
  <2>3. ASSUME NEW n \in 1..Len(up'), n # 1
        PROVE  ResentAt(s, 1, n) /\ up'[n] = PutRequest(s[n - 1])
    <3>1. n - 1 \in 1..Len(s) /\ n = 1 + (n - 1) /\ n \in Nat /\ n > 1
      BY <1>2, <2>2, <2>3
    <3>2. up'[1 + (n - 1)] = PutRequest(s[n - 1])
      BY <1>2, <2>2, <3>1
    <3> QED
      BY <3>1, <3>2 DEF ResentAt
  <2> QED
    BY <1>3, <1>5, <2>2, <2>3
<1> QED
  BY <1>4, <1>5

(* The puts sent again are those of the comments that are sent again.      *)
LEMMA KnownDisconnected ==
  ASSUME Shape, Known, Disconnect
  PROVE  Known'
<1>1. PICK s \in Orders, o \in {0, 1} :
           /\ Len(up') = o + Len(s) /\ down' = << >>
           /\ o = 1 => up'[1] = ListenRequest
           /\ \A n \in 1..Len(up') :
                \/ n = 1 /\ o = 1
                \/ ResentAt(s, o, n) /\ up'[n] = PutRequest(s[n - o])
  BY DisconnectStep
<1>2. /\ UNCHANGED <<made, stored, denied, returned, mainq>> /\ Made' = Made
      /\ \A j \in Made : stage'[j] = IF j \in Pending THEN "sent" ELSE stage[j]
  BY DEF Disconnect, history, Made
<1>3. \A j \in Made : j \in Pending <=> stage[j] \in {"sent", "stored", "refused"}
  BY DEF Pending
<1>4. Stored'
  BY <1>2, <1>3 DEF Known, Stored
<1>5. Replies'
  BY <1>1 DEF Replies, ReplyAt
<1>6. Dones'
  BY <1>2, <1>3 DEF Known, Dones, DoneAt
<1>7. ASSUME NEW n, PutAt(n)'
      PROVE  n \in Nat /\ n - o \in 1..Len(s) /\ up'[n].comment = s[n - o]
  <2>1. n \in 1..Len(up') /\ up'[n].type = "put"
    BY <1>7 DEF PutAt
  <2>2. ~(n = 1 /\ o = 1)
    BY <1>1, <2>1 DEF ListenRequest
  <2>3. ResentAt(s, o, n) /\ up'[n] = PutRequest(s[n - o])
    BY <1>1, <2>1, <2>2
  <2> QED
    BY <2>3 DEF ResentAt, PutRequest
<1>8. ASSUME NEW n, PutAt(n)'
      PROVE  up'[n].comment \in Made' /\ stage'[up'[n].comment] = "sent"
  <2>1. up'[n].comment \in Pending /\ Pending \subseteq Made
    BY <1>7, <1>8, OrderFacts, Numbers
  <2> QED
    BY <1>2, <2>1
<1>9. ASSUME NEW n, NEW k, PutAt(n)', PutAt(k)', up'[n].comment = up'[k].comment
      PROVE  n = k
  <2>1. n - o = k - o
    BY <1>7, <1>9, OrderFacts
  <2> QED
    BY <1>7, <1>9, <2>1
<1> QED
  BY <1>4, <1>5, <1>6, <1>8, <1>9 DEF Known, Puts

(* Every step keeps what is known.                                         *)
LEMMA KnownNext == Shape /\ Known /\ Next => Known'
BY KnownQuiet, KnownWritten, KnownServed, KnownDelivered, KnownCompleted, KnownDisconnected
DEF Next, User, Server, Client, MainThread, Fault

-----------------------------------------------------------------------------
(* Listable.                                                               *)

(* Nothing is listed at first.                                             *)
LEMMA ListableInit == Init => Listable
BY DEF Init, Listable, NoVote

(* What exists goes on existing.                                           *)
LEMMA ExistsGrows ==
  ASSUME Shape, Known, Next
  PROVE  stored \subseteq stored' /\ Exists \subseteq Exists'
<1>1. CASE UNCHANGED <<made, stage, stored, denied>>
  BY <1>1 DEF Exists, Pending, Made
<1>2. CASE Reply \/ OthersComment
  <2>1. made \in Nat /\ (stage' = Append(stage, "sent") \/ stage' = Append(stage, "foreign"))
    BY <1>2, Numbers DEF Reply, OthersComment
  <2>2. "sent" \in Stages /\ "foreign" \in Stages
    BY DEF Stages
  <2>3. stage \in Seq(Stages) /\ Len(stage) = made
    BY <2>1 DEF Shape, CommentShape, Made
  <2>4. \A j \in Made : stage'[j] = stage[j]
    BY <2>1, <2>2, <2>3, AppendFacts DEF Made
  <2>5. Made \subseteq Made' /\ stored \subseteq stored' /\ denied' = denied
    BY <1>2, <2>1 DEF Reply, OthersComment, history, Made
  <2> QED
    BY <2>4, <2>5 DEF Exists, Pending
<1>3. CASE StoreComment \/ RefuseComment
  <2> DEFINE i == Head(up).comment
  <2>1. PutAt(1) /\ up[1] = Head(up)
    BY <1>3, ServerSteps DEF Serves, PutAt
  <2>2. i \in Made
    BY <2>1 DEF Known, Puts
  <2>3. /\ Made' = Made /\ \A j \in Made : j # i => stage'[j] = stage[j]
        /\ i \in stored' \cup denied' /\ stored \subseteq stored' /\ denied \subseteq denied'
    BY <1>3 DEF StoreComment, RefuseComment, Made, Shape, CommentShape, history
  <2> QED
    BY <2>3 DEF Exists, Pending
<1>4. CASE DeliverReply
  <2> DEFINE i == down[1].comment
  <2>1. ReplyAt(1) /\ down[1] = Head(down)
    BY <1>4, DeliverReplyStep DEF Takes, ReplyAt
  <2>2. i \in Made /\ i \in stored \cup denied
    BY <2>1 DEF Known, Replies, Stored
  <2>3. /\ Made' = Made /\ \A j \in Made : j # i => stage'[j] = stage[j]
        /\ stored' = stored /\ denied' = denied
    BY <1>4, <2>1 DEF DeliverReply, Made, Shape, CommentShape, history
  <2> QED
    BY <2>2, <2>3 DEF Exists, Pending
<1>5. CASE Replied \/ NotReplied
  <2> DEFINE i == mainq[1].comment
  <2>1. DoneAt(1) /\ mainq[1] = Head(mainq)
    BY <1>5, MainSteps DEF Runs, DoneAt
  <2>2. i \in Made /\ i \notin Pending
    BY <2>1 DEF Known, Dones, Pending
  <2>3. /\ Made' = Made /\ \A j \in Made : j # i => stage'[j] = stage[j]
        /\ stored' = stored /\ denied' = denied
    BY <1>5, <2>1 DEF Replied, NotReplied, Made, Shape, CommentShape, history
  <2> QED
    BY <2>2, <2>3 DEF Exists, Pending
<1>6. CASE Disconnect
  BY <1>6 DEF Disconnect, Exists, Pending, Made, history
<1>7. CASE \/ OpenPost \/ Back \/ Pull \/ OpenSheet \/ CloseSheet \/ Dismissed
           \/ StartVote \/ AnswerRead \/ RefuseRead \/ AcceptVote \/ RefuseVote
           \/ DeliverComments \/ DeliverError \/ EndVote \/ VoteAgain \/ ShowComments
  BY <1>1, <1>7
  DEF OpenPost, Back, Pull, OpenSheet, CloseSheet, Dismissed, StartVote, AnswerRead,
      RefuseRead, AcceptVote, RefuseVote, DeliverComments, DeliverError, EndVote,
      VoteAgain, ShowComments, writing, history
<1> QED
  BY <1>2, <1>3, <1>4, <1>5, <1>6, <1>7 DEF Next, User, Server, Client, MainThread, Fault

(* A step keeps what may be listed, if what comes may be listed.           *)
LEMMA ListableStays ==
  ASSUME Listable, stored \subseteq stored', Exists \subseteq Exists',
         NEW b, NEW D, Moves(down, down', b, D),
         \A x \in D : x.type \in {"comments", "stale"} => x.told \subseteq stored',
         NEW c, NEW M, Moves(mainq, mainq', c, M),
         \A x \in M : x.type = "comments" => x.told \subseteq Exists',
         vote'.base \subseteq Exists', table' \subseteq Exists'
  PROVE  Listable'
<1>1. ASSUME NEW n \in 1..Len(down'), down'[n].type \in {"comments", "stale"}
      PROVE  down'[n].told \subseteq stored'
  <2>1. \/ n + b \in 1..Len(down) /\ down'[n] = down[n + b]
        \/ down'[n] \in D
    BY DEF Moves
  <2> QED
    BY <1>1, <2>1 DEF Listable
<1>2. ASSUME NEW n \in 1..Len(mainq'), mainq'[n].type = "comments"
      PROVE  mainq'[n].told \subseteq Exists'
  <2>1. \/ n + c \in 1..Len(mainq) /\ mainq'[n] = mainq[n + c]
        \/ mainq'[n] \in M
    BY DEF Moves
  <2> QED
    BY <1>2, <2>1 DEF Listable
<1> QED
  BY <1>1, <1>2 DEF Listable

(* The transaction's base stays, or is empty.                              *)
LEMMA SameBase ==
  ASSUME Shape, Next, ~StartVote, ~VoteAgain
  PROVE  vote'.base = vote.base \/ vote'.base = {}
<1>1. Reply \/ vote' = vote \/ vote' = NoVote
  BY DEF Next, User, Server, Client, MainThread, Fault, OpenPost, Back, Pull, OpenSheet,
         CloseSheet, Dismissed, AnswerRead, RefuseRead, AcceptVote, RefuseVote,
         DeliverComments, DeliverError, EndVote, ShowComments, OthersComment,
         StoreComment, RefuseComment, DeliverReply, Replied, NotReplied, Disconnect, link
<1>2. Reply => vote'.base = vote.base
  BY DEF Reply, Shape, VoteShape
<1> QED
  BY <1>1, <1>2 DEF NoVote

(* The table stays, is emptied or shows the block that is run.             *)
LEMMA SameTable ==
  ASSUME Next
  PROVE  table' = table \/ table' = {} \/ (ShowComments /\ table' = Head(mainq).told)
BY DEF Next, User, Server, Client, MainThread, Fault, OpenPost, Back, Pull, OpenSheet,
       CloseSheet, Dismissed, AnswerRead, RefuseRead, AcceptVote, RefuseVote, StartVote,
       VoteAgain, DeliverComments, DeliverError, EndVote, ShowComments, Reply,
       OthersComment, StoreComment, RefuseComment, DeliverReply, Replied, NotReplied,
       Disconnect, screen

(* Every step lists what exists, and keeps what it lists in existence.     *)
LEMMA ListableNext ==
  ASSUME Shape, Known, Listable, Next
  PROVE  Listable'
<1>1. stored \subseteq stored' /\ Exists \subseteq Exists' /\ stored' \subseteq Exists'
  BY ExistsGrows DEF Exists
<1>2. Pending \subseteq Exists' /\ \A S : S \subseteq stored => Overlaid(S) \subseteq Exists'
  BY <1>1 DEF Exists, Overlaid
<1>3. vote.base \subseteq Exists' /\ table \subseteq Exists'
  BY <1>1 DEF Listable
<1>4. table' \subseteq Exists'
  <2>1. CASE ShowComments /\ table' = Head(mainq).told
    <3>1. mainq[1] = Head(mainq) /\ mainq[1].type = "comments" /\ 1 \in 1..Len(mainq)
      BY <2>1, MainSteps DEF Runs
    <3> QED
      BY <1>1, <2>1, <3>1 DEF Listable
  <2> QED
    BY <1>3, <2>1, SameTable
<1>5. ~StartVote /\ ~VoteAgain => vote'.base \subseteq Exists'
  BY <1>3, SameBase
<1>6. \A r, how, S : Block(r, how, S).told = S
  BY DEF Block
<1>7. CASE OpenPost \/ Pull \/ Dismissed
  <2>1. PICK p, k : Asks(p, k)
    <3>1. Asks(pages + 1, 0) \/ Asks(page, 0) \/ Asks(mainq[1].page, 1)
      BY <1>7, AskSteps
    <3> QED
      BY <3>1
  <2>2. /\ Moves(down, down', 0, {})
        /\ vote.on => Moves(mainq, mainq', k, {VoteBlock(p)})
        /\ ~vote.on => Moves(mainq, mainq', k, {})
    BY <2>1 DEF Asks, Queues
  <2>3. VoteBlock(p).told \subseteq Exists'
    BY <1>1, <1>3, <1>6 DEF VoteBlock, Overlaid, Exists
  <2>4. vote' = vote
    BY <1>7 DEF OpenPost, Pull, Dismissed
  <2> QED
    BY <1>1, <1>3, <1>4, <2>2, <2>3, <2>4, ListableStays
<1>8. CASE Back \/ OpenSheet \/ CloseSheet \/ OthersComment \/ Reply
  <2>1. Moves(down, down', 0, {}) /\ Moves(mainq, mainq', 0, {})
    BY <1>8, StillSteps, ReplyStep DEF Queues
  <2>2. vote'.base = vote.base
    BY <1>8 DEF Back, OpenSheet, CloseSheet, OthersComment, Reply, link, Shape, VoteShape
  <2> QED
    BY <1>1, <1>3, <1>4, <2>1, <2>2, ListableStays
<1>9. CASE StartVote
  <2> DEFINE M == {Block(reads[n], "vote", Pending) : n \in 1..Len(reads)}
  <2>1. Moves(down, down', 0, {}) /\ Moves(mainq, mainq', 0, M)
    BY <1>9, StartStep DEF Queues
  <2>2. \A x \in M : x.told \subseteq Exists'
    BY <1>2, <1>6
  <2>3. vote'.base = Pending
    BY <1>9 DEF StartVote, Attempt
  <2> HIDE DEF M
  <2> QED
    BY <1>1, <1>2, <1>4, <2>1, <2>2, <2>3, ListableStays
<1>10. CASE AnswerRead \/ RefuseRead \/ AcceptVote \/ RefuseVote \/ StoreComment \/ RefuseComment
  <2>1. PICK m : /\ Moves(down, down', 0, {m}) /\ Moves(mainq, mainq', 0, {})
                 /\ m.type \in {"comments", "stale"} => m.told = stored
    <3>1. ASSUME NEW type, NEW m, Serves(type, m)
          PROVE  Moves(down, down', 0, {m}) /\ Moves(mainq, mainq', 0, {})
      BY <3>1 DEF Serves, Queues
    <3>2. /\ TellComments.told = stored /\ TellStale.told = stored
          /\ TellError.type = "error" /\ TellVoted.type = "voted"
          /\ \A i : TellReply(i).type = "reply"
      BY DEF TellComments, TellStale, TellError, TellVoted, TellReply
    <3>3. CASE AnswerRead \/ RefuseRead
      BY <3>1, <3>2, <3>3, ServerSteps
    <3>4. CASE AcceptVote \/ RefuseVote
      BY <3>1, <3>2, <3>4, ServerSteps
    <3>5. CASE StoreComment \/ RefuseComment
      BY <3>1, <3>2, <3>5, ServerSteps
    <3> QED
      BY <1>10, <3>3, <3>4, <3>5
  <2>2. vote' = vote
    BY <1>10 DEF AnswerRead, RefuseRead, AcceptVote, RefuseVote, StoreComment, RefuseComment
  <2> QED
    BY <1>1, <1>3, <1>4, <2>1, <2>2, ListableStays
<1>11. CASE DeliverComments \/ DeliverError
  <2>1. PICK M : /\ Moves(down, down', 1, {}) /\ Moves(mainq, mainq', 0, M)
                 /\ \A x \in M : x.told \subseteq Exists'
    <3>1. CASE DeliverComments
      <4> DEFINE M == {Block(reads[n], "server", Overlaid(down[1].told)) : n \in 1..Len(reads)}
      <4>1. Takes(M)
        BY <3>1, AnswerSteps
      <4>2. down[1].type = "comments" /\ 1 \in 1..Len(down)
        BY <3>1, <4>1 DEF DeliverComments, Told, Takes
      <4>3. Overlaid(down[1].told) \subseteq Exists'
        BY <1>2, <4>2 DEF Listable
      <4>4. \A x \in M : x.told \subseteq Exists'
        BY <1>6, <4>3
      <4> HIDE DEF M
      <4> QED
        BY <4>1, <4>4 DEF Takes, Queues
    <3>2. CASE DeliverError
      <4> DEFINE M == {Block(reads[n], "error", {}) : n \in 1..Len(reads)}
      <4>1. Takes(M) /\ \A x \in M : x.told \subseteq Exists'
        BY <1>6, <3>2, AnswerSteps
      <4> HIDE DEF M
      <4> QED
        BY <4>1 DEF Takes, Queues
    <3> QED
      BY <1>11, <3>1, <3>2
  <2>3. vote' = vote
    BY <1>11 DEF DeliverComments, DeliverError
  <2> QED
    BY <1>1, <1>3, <1>4, <2>1, <2>3, ListableStays
<1>12. CASE DeliverReply
  <2>1. Moves(down, down', 1, {}) /\ Moves(mainq, mainq', 0, {TellReply(down[1].comment)})
    BY <1>12, DeliverReplyStep DEF Takes, Queues
  <2>2. TellReply(down[1].comment).type = "reply" /\ vote' = vote
    BY <1>12 DEF TellReply, DeliverReply
  <2> QED
    BY <1>1, <1>3, <1>4, <2>1, <2>2, ListableStays
<1>13. CASE EndVote \/ VoteAgain
  <2>1. Moves(down, down', 1, {}) /\ Moves(mainq, mainq', 0, {})
        /\ 1 \in 1..Len(down) /\ down[1] = Head(down)
    BY <1>13, VoteSteps
  <2>2. vote'.base \subseteq Exists'
    <3>1. CASE EndVote
      BY <1>3, <3>1 DEF EndVote, NoVote
    <3>2. CASE VoteAgain
      <4>1. down[1].type = "stale" /\ vote'.base = Overlaid(down[1].told)
        BY <2>1, <3>2 DEF VoteAgain, Told, Attempt
      <4> QED
        BY <1>2, <2>1, <4>1 DEF Listable
    <3> QED
      BY <1>13, <3>1, <3>2
  <2> QED
    BY <1>1, <1>4, <2>1, <2>2, ListableStays
<1>14. CASE ShowComments \/ Replied \/ NotReplied
  <2>1. PICK p : /\ Moves(down, down', 0, {})
                 /\ Moves(mainq, mainq', 1, {}) \/ Moves(mainq, mainq', 1, {DismissedBlock(p)})
    BY <1>14, MainSteps DEF Runs, Queues
  <2>2. DismissedBlock(p).type = "dismissed" /\ vote' = vote
    BY <1>14 DEF DismissedBlock, ShowComments, Replied, NotReplied, link
  <2> QED
    BY <1>1, <1>3, <1>4, <2>1, <2>2, ListableStays
<1>15. CASE Disconnect
  <2>1. down' = << >> /\ mainq' = mainq /\ vote'.base \subseteq Exists'
    BY <1>3, <1>15 DEF Disconnect, NoVote
  <2> QED
    BY <1>1, <1>4, <2>1 DEF Listable
<1> QED
  BY <1>7, <1>8, <1>9, <1>10, <1>11, <1>12, <1>13, <1>14, <1>15
  DEF Next, User, Server, Client, MainThread, Fault

-----------------------------------------------------------------------------
(* Flight.                                                                 *)

(* Nothing is in flight at first.                                          *)
LEMMA FlightInit == Init => Flight
BY DEF Init, Flight, NoVote, ListenAt, AnswerAt, VoteAt, VotedAt

(* Where listens, attempts and their answers come from, and where they go. *)
LEMMA RequestFrom ==
  ASSUME NEW a, NEW U, Moves(up, up', a, U), NEW n, ListenAt(n)' \/ VoteAt(n)'
  PROVE  /\ n \in Nat \ {0} /\ a \in {0, 1} /\ Len(up) \in Nat
         /\ \/ /\ up'[n] = up[n + a]
               /\ ListenAt(n)' => ListenAt(n + a)
               /\ VoteAt(n)' => VoteAt(n + a)
            \/ n + a > Len(up) /\ up'[n] \in U
BY DEF Moves, ListenAt, VoteAt

(* An answer was on its way, or has just been sent.                        *)
LEMMA MessageFrom ==
  ASSUME NEW b, NEW D, Moves(down, down', b, D), NEW n, AnswerAt(n)' \/ VotedAt(n)'
  PROVE  /\ n \in Nat \ {0} /\ b \in {0, 1} /\ Len(down) \in Nat
         /\ \/ /\ down'[n] = down[n + b]
               /\ AnswerAt(n)' => AnswerAt(n + b)
               /\ VotedAt(n)' => VotedAt(n + b)
            \/ n + b > Len(down) /\ down'[n] \in D
BY DEF Moves, AnswerAt, VotedAt

(* A listen that is not taken stays.                                       *)
LEMMA RequestStays ==
  ASSUME NEW a, NEW U, Moves(up, up', a, U), NEW n, ListenAt(n), n > a
  PROVE  ListenAt(n - a)'
BY DEF Moves, ListenAt

(* An answer that is not taken stays.                                      *)
LEMMA MessageStays ==
  ASSUME NEW b, NEW D, Moves(down, down', b, D), NEW n, AnswerAt(n), n > b
  PROVE  AnswerAt(n - b)'
BY DEF Moves, AnswerAt

(* A step that asks, answers and votes for nothing.                        *)
LEMMA QuietFlight ==
  ASSUME Flight, reads' = << >> <=> reads = << >>, vote'.on = vote.on,
         NEW a, NEW U, Moves(up, up', a, U), \A x \in U : x.type \notin {"listen", "vote"},
         NEW b, NEW D, Moves(down, down', b, D), \A x \in D : x.type = "reply",
         a = 1 => ~ListenAt(1), b = 1 => ~AnswerAt(1)
  PROVE  Flight'
<1>1. \A n : ListenAt(n)' => n \in Nat /\ ListenAt(n + a)
  BY RequestFrom DEF ListenAt
<1>2. \A n : VoteAt(n)' => n \in Nat /\ VoteAt(n + a)
  BY RequestFrom DEF VoteAt
<1>3. \A n : AnswerAt(n)' => n \in Nat /\ AnswerAt(n + b)
  BY MessageFrom DEF AnswerAt
<1>4. \A n : VotedAt(n)' => n \in Nat /\ VotedAt(n + b)
  BY MessageFrom DEF VotedAt
<1>5. a \in {0, 1} /\ b \in {0, 1}
  BY DEF Moves
<1>6. ASSUME NEW n, ListenAt(n) PROVE \E k : ListenAt(k)'
  <2>1. n \in Nat \ {0} /\ n > a
    BY <1>5, <1>6 DEF ListenAt, Moves
  <2> QED
    BY <1>6, <2>1, RequestStays
<1>7. ASSUME NEW n, AnswerAt(n) PROVE \E k : AnswerAt(k)'
  <2>1. n \in Nat \ {0} /\ n > b
    BY <1>5, <1>7 DEF AnswerAt, Moves
  <2> QED
    BY <1>7, <2>1, MessageStays
<1>8. /\ \A n, k : VoteAt(n)' /\ VoteAt(k)' => n = k
      /\ \A n, k : VotedAt(n)' /\ VotedAt(k)' => n = k
      /\ \A n, k : ~(VoteAt(n)' /\ VotedAt(k)')
  <2>1. ASSUME NEW n, NEW k, VoteAt(n)', VoteAt(k)' PROVE n = k
    <3>1. n + a = k + a
      BY <1>2, <2>1 DEF Flight
    <3> QED
      BY <1>2, <1>5, <2>1, <3>1
  <2>2. ASSUME NEW n, NEW k, VotedAt(n)', VotedAt(k)' PROVE n = k
    <3>1. n + b = k + b
      BY <1>4, <2>2 DEF Flight
    <3> QED
      BY <1>4, <1>5, <2>2, <3>1
  <2> QED
    BY <1>2, <1>4, <2>1, <2>2 DEF Flight
<1>9. /\ \A n, k : VoteAt(n)' /\ ListenAt(k)' => k < n
      /\ \A n, k : VotedAt(n)' => ~ListenAt(k)' /\ (AnswerAt(k)' => k < n)
  <2>1. ASSUME NEW n, NEW k, VoteAt(n)', ListenAt(k)' PROVE k < n
    <3>1. k + a < n + a /\ n \in Nat /\ k \in Nat
      BY <1>1, <1>2, <2>1 DEF Flight
    <3> QED
      BY <1>5, <3>1
  <2>2. ASSUME NEW n, NEW k, VotedAt(n)', AnswerAt(k)' PROVE k < n
    <3>1. k + b < n + b /\ n \in Nat /\ k \in Nat
      BY <1>3, <1>4, <2>2 DEF Flight
    <3> QED
      BY <1>5, <3>1
  <2> QED
    BY <1>1, <1>4, <2>1, <2>2 DEF Flight
<1>10. ASSUME ~vote.on
       PROVE  /\ \A n, k : ListenAt(n)' /\ ListenAt(k)' => n = k
              /\ \A n, k : AnswerAt(n)' /\ AnswerAt(k)' => n = k
              /\ \A n, k : ~(ListenAt(n)' /\ AnswerAt(k)')
              /\ reads' = << >> => \A n : ~ListenAt(n)' /\ ~AnswerAt(n)'
              /\ reads' # << >> => \E n : ListenAt(n)' \/ AnswerAt(n)'
  <2>1. ASSUME NEW n, NEW k, ListenAt(n)', ListenAt(k)' PROVE n = k
    <3>1. n + a = k + a
      BY <1>1, <1>10, <2>1 DEF Flight
    <3> QED
      BY <1>1, <1>5, <2>1, <3>1
  <2>2. ASSUME NEW n, NEW k, AnswerAt(n)', AnswerAt(k)' PROVE n = k
    <3>1. n + b = k + b
      BY <1>3, <1>10, <2>2 DEF Flight
    <3> QED
      BY <1>3, <1>5, <2>2, <3>1
  <2>3. reads # << >> => \E n : ListenAt(n)' \/ AnswerAt(n)'
    BY <1>6, <1>7, <1>10 DEF Flight
  <2> QED
    BY <1>1, <1>3, <1>10, <2>1, <2>2, <2>3 DEF Flight
<1>11. ~vote.on => \A n : ~VoteAt(n)' /\ ~VotedAt(n)'
  BY <1>2, <1>4 DEF Flight
<1>12. vote.on => reads' = << >>
  BY DEF Flight
<1> QED
  BY <1>8, <1>9, <1>10, <1>11, <1>12 DEF Flight

(* A read is asked for.                                                    *)
LEMMA FlightAsked ==
  ASSUME Shape, Flight, OpenPost \/ Pull \/ Dismissed
  PROVE  Flight'
<1>1. PICK p, k : Asks(p, k)
  <2>1. Asks(pages + 1, 0) \/ Asks(page, 0) \/ Asks(mainq[1].page, 1)
    BY AskSteps
  <2> QED
    BY <2>1
<1>2. vote' = vote /\ down' = down /\ reads \in Seq(Reads) /\ Asking(p) \in Reads
      /\ up \in Seq(Requests) /\ down \in Seq(Messages)
  BY <1>1 DEF OpenPost, Pull, Dismissed, Asks, Shape, QueueShape
<1>3. Moves(down, down', 0, {}) /\ Moves(up, up, 0, {})
  BY <1>2, MoveNone
<1>4. CASE vote.on \/ reads # << >>
  <2>1. up' = up /\ (reads' = << >> <=> reads = << >>)
    <3>1. up' = up /\ (vote.on => reads' = reads) /\ (~vote.on => reads' = Append(reads, Asking(p)))
      BY <1>1, <1>4 DEF Asks
    <3>2. Append(reads, Asking(p)) # << >>
      BY <1>2, AppendFacts
    <3> QED
      BY <1>4, <3>1, <3>2
  <2> QED
    BY <1>2, <1>3, <2>1, QuietFlight
<1>5. CASE ~vote.on /\ reads = << >>
  <2>1. reads' # << >> /\ up' = Append(up, ListenRequest) /\ ListenRequest.type = "listen"
        /\ ListenRequest \in Requests
    <3>1. reads' = Append(reads, Asking(p)) /\ up' = Append(up, ListenRequest)
      BY <1>1, <1>5 DEF Asks
    <3> QED
      BY <1>2, <3>1, AppendFacts DEF ListenRequest, Requests
  <2>2. \A n : ~ListenAt(n) /\ ~VoteAt(n) /\ ~AnswerAt(n) /\ ~VotedAt(n)
    BY <1>5 DEF Flight
  <2>3. \A n : ~AnswerAt(n)' /\ ~VotedAt(n)'
    BY <1>2, <2>2 DEF AnswerAt, VotedAt
  <2>4. /\ Len(up') = Len(up) + 1 /\ Len(up) \in Nat
        /\ \A n \in 1..Len(up) : up'[n] = up[n]
        /\ up'[Len(up) + 1] = ListenRequest
    BY <1>2, <2>1, AppendFacts, QueueFacts
  <2>5. \A n : (ListenAt(n)' <=> n = Len(up) + 1) /\ ~VoteAt(n)'
    BY <2>1, <2>2, <2>4 DEF ListenAt, VoteAt
  <2> QED
    BY <1>2, <1>5, <2>1, <2>3, <2>5 DEF Flight
<1> QED
  BY <1>4, <1>5

(* Reads, attempts and their answers are left alone.                       *)
LEMMA FlightQuiet ==
  ASSUME Shape, Known, Flight,
         \/ Back \/ OpenSheet \/ CloseSheet \/ Reply \/ OthersComment
         \/ StoreComment \/ RefuseComment \/ DeliverReply
         \/ ShowComments \/ Replied \/ NotReplied
  PROVE  Flight'
<1>1. CASE Back \/ OpenSheet \/ CloseSheet \/ OthersComment
  BY <1>1, StillSteps, QuietFlight DEF Queues, link
<1>2. CASE Reply
  <2>1. vote'.on = vote.on /\ reads' = reads
    BY <1>2 DEF Reply, Shape, VoteShape
  <2>2. PutRequest(made + 1).type = "put"
    BY DEF PutRequest
  <2> QED
    BY <1>2, <2>1, <2>2, ReplyStep, QuietFlight DEF Queues
<1>3. CASE StoreComment \/ RefuseComment
  <2>1. Serves("put", TellReply(Head(up).comment))
    BY <1>3, ServerSteps
  <2>2. TellReply(Head(up).comment).type = "reply" /\ vote' = vote
    BY <1>3 DEF TellReply, StoreComment, RefuseComment
  <2> QED
    BY <2>1, <2>2, QuietFlight DEF Serves, Queues, ListenAt
<1>4. CASE DeliverReply
  BY <1>4, DeliverReplyStep, QuietFlight DEF Takes, Queues, AnswerAt, DeliverReply
<1>5. CASE ShowComments \/ Replied \/ NotReplied
  <2>1. Moves(up, up', 0, {}) /\ Moves(down, down', 0, {}) /\ UNCHANGED link
    BY <1>5, MainSteps DEF Runs, Queues
  <2> QED
    BY <2>1, QuietFlight DEF link
<1> QED
  BY <1>1, <1>2, <1>3, <1>4, <1>5

(* The first attempt goes behind every listen.                             *)
LEMMA FlightStarted ==
  ASSUME Shape, Flight, StartVote
  PROVE  Flight'
<1>1. ~vote.on /\ vote'.on /\ reads' = << >>
  BY DEF StartVote, Attempt
<1>2. /\ up' = Append(up, FirstAttempt) /\ down' = down
      /\ FirstAttempt.type = "vote" /\ FirstAttempt \in Requests
      /\ up \in Seq(Requests)
  BY StartStep, Numbers DEF FirstAttempt, Requests, Shape, QueueShape
<1>3. /\ Len(up') = Len(up) + 1 /\ Len(up) \in Nat
      /\ \A n \in 1..Len(up) : up'[n] = up[n]
      /\ up'[Len(up) + 1] = FirstAttempt
  BY <1>2, AppendFacts, QueueFacts
<1>4. \A n : /\ ListenAt(n)' => n \in 1..Len(up)
             /\ VoteAt(n)' => n = Len(up) + 1
             /\ ~VotedAt(n)'
  <2>1. \A n : ~VoteAt(n) /\ ~VotedAt(n)
    BY <1>1 DEF Flight
  <2> QED
    BY <1>2, <1>3, <2>1 DEF ListenAt, VoteAt, VotedAt
<1> QED
  BY <1>1, <1>3, <1>4 DEF Flight

(* The server answers a read.                                              *)
LEMMA FlightAnswered ==
  ASSUME Shape, Flight, AnswerRead \/ RefuseRead
  PROVE  Flight'
<1>1. PICK m \in {TellComments, TellError} : Serves("listen", m)
  BY ServerSteps
<1>1a. m.type \in {"comments", "error"} /\ m \in Messages
  BY Numbers DEF Messages, TellComments, TellError
<1>2. /\ Moves(up, up', 1, {}) /\ Moves(down, down', 0, {m}) /\ ListenAt(1)
      /\ reads' = reads /\ vote' = vote /\ down' = Append(down, m)
  BY <1>1 DEF Serves, Queues, ListenAt, AnswerRead, RefuseRead
<1>3. \A n : /\ ListenAt(n)' => n \in Nat \ {0} /\ ListenAt(n + 1)
             /\ VoteAt(n)' => n \in Nat \ {0} /\ VoteAt(n + 1)
  BY <1>2, RequestFrom
<1>4. \A n : ~VotedAt(n)
  BY <1>2 DEF Flight
<1>5. \A n : ~VotedAt(n)'
  BY <1>1a, <1>2, <1>4, MessageFrom DEF VotedAt
<1>6. \E n : AnswerAt(n)'
  <2>2. Len(down') = Len(down) + 1 /\ down'[Len(down) + 1] = m /\ Len(down) \in Nat
    BY <1>2, <1>1a, AppendFacts, QueueFacts DEF Shape, QueueShape
  <2> QED
    BY <1>1a, <2>2 DEF AnswerAt
<1>7. \A n, k : VoteAt(n)' /\ ListenAt(k)' => k < n
  <2>1. ASSUME NEW n, NEW k, VoteAt(n)', ListenAt(k)' PROVE k < n
    <3>1. k + 1 < n + 1 /\ n \in Nat /\ k \in Nat
      BY <1>3, <2>1 DEF Flight
    <3> QED
      BY <3>1
  <2> QED
    BY <2>1
<1>8. \A n, k : VoteAt(n)' /\ VoteAt(k)' => n = k
  <2>1. ASSUME NEW n, NEW k, VoteAt(n)', VoteAt(k)' PROVE n = k
    <3>1. n + 1 = k + 1 /\ n \in Nat /\ k \in Nat
      BY <1>3, <2>1 DEF Flight
    <3> QED
      BY <3>1
  <2> QED
    BY <2>1
<1>9. ASSUME ~vote.on
      PROVE  /\ \A n : ~ListenAt(n)' /\ ~VoteAt(n)'
             /\ \A n : AnswerAt(n)' => n = Len(down) + 1
             /\ reads' # << >>
  <2>1. \A n : ListenAt(n)' => FALSE
    <3>1. ASSUME NEW n, ListenAt(n)' PROVE FALSE
      <4>1. n + 1 = 1 /\ n \in Nat \ {0}
        BY <1>2, <1>3, <1>9, <3>1 DEF Flight
      <4> QED
        BY <4>1
    <3> QED
      BY <3>1
  <2>2. \A n : ~VoteAt(n)' /\ ~AnswerAt(n)
    BY <1>2, <1>3, <1>9 DEF Flight
  <2>3. \A n : AnswerAt(n)' => n = Len(down) + 1
    <3>1. ASSUME NEW n, AnswerAt(n)' PROVE n = Len(down) + 1
      <4>1. n \in Nat /\ Len(down) \in Nat /\ n > Len(down)
        BY <1>2, <2>2, <3>1, MessageFrom
      <4>2. n <= Len(down) + 1
        BY <1>1, <3>1, <4>1 DEF Serves, Singles, Single, AnswerAt, Moves, Queues
      <4> QED
        BY <4>1, <4>2
    <3> QED
      BY <3>1
  <2>4. reads' # << >>
    BY <1>2, <1>9 DEF Flight
  <2> QED
    BY <2>1, <2>2, <2>3, <2>4
<1>10. vote.on => reads' = << >>
  BY <1>2 DEF Flight
<1> QED
  BY <1>2, <1>5, <1>6, <1>7, <1>8, <1>9, <1>10 DEF Flight

(* The server answers an attempt: behind the answer of every listen.       *)
LEMMA FlightJudged ==
  ASSUME Shape, Flight, AcceptVote \/ RefuseVote
  PROVE  Flight'
<1>1. PICK m \in {TellVoted, TellStale} : Serves("vote", m)
  BY ServerSteps
<1>2. /\ Moves(up, up', 1, {}) /\ Moves(down, down', 0, {m}) /\ VoteAt(1)
      /\ reads' = reads /\ vote' = vote /\ Single(down, down', 0)
  BY <1>1 DEF Serves, Queues, Singles, VoteAt, AcceptVote, RefuseVote
<1>3. vote.on /\ reads = << >> /\ \A n : ~VotedAt(n)
  BY <1>2 DEF Flight
<1>4. m.type \in {"voted", "stale"}
  BY DEF TellVoted, TellStale
<1>5. \A n : ~ListenAt(n)' /\ ~VoteAt(n)'
  <2>1. ASSUME NEW n, ListenAt(n)' PROVE FALSE
    <3>1. n \in Nat \ {0} /\ ListenAt(n + 1)
      BY <1>2, <2>1, RequestFrom
    <3>2. n + 1 < 1
      BY <1>2, <3>1 DEF Flight
    <3> QED
      BY <3>1, <3>2
  <2>2. ASSUME NEW n, VoteAt(n)' PROVE FALSE
    <3>1. n \in Nat \ {0} /\ VoteAt(n + 1)
      BY <1>2, <2>2, RequestFrom
    <3>2. n + 1 = 1
      BY <1>2, <3>1 DEF Flight
    <3> QED
      BY <3>1, <3>2
  <2> QED
    BY <2>1, <2>2
<1>6. ASSUME NEW n, VotedAt(n)'
      PROVE  n = Len(down) + 1 /\ Len(down) \in Nat
  <2>1. n \in Nat /\ Len(down) \in Nat /\ n > Len(down)
    BY <1>2, <1>3, <1>6, MessageFrom
  <2>2. n <= Len(down) + 1
    BY <1>2, <1>6, <2>1 DEF Single, VotedAt, Moves
  <2> QED
    BY <2>1, <2>2
<1>7. ASSUME NEW n, AnswerAt(n)'
      PROVE  n \in Nat /\ Len(down) \in Nat /\ n <= Len(down)
  <2>1. /\ n \in Nat /\ Len(down) \in Nat
        /\ AnswerAt(n) \/ (down'[n] = m)
    BY <1>2, <1>7, MessageFrom
  <2>2. down'[n] # m
    BY <1>4, <1>7 DEF AnswerAt
  <2> QED
    BY <2>1, <2>2 DEF AnswerAt
<1>8. \A n, k : VotedAt(n)' /\ AnswerAt(k)' => k < n
  BY <1>6, <1>7
<1> QED
  BY <1>2, <1>3, <1>5, <1>6, <1>8 DEF Flight

(* The answer of a read reaches the client: every read is answered.        *)
LEMMA FlightDelivered ==
  ASSUME Shape, Flight, DeliverComments \/ DeliverError
  PROVE  Flight'
<1>1. PICK X : Takes(X)
  <2>1. CASE DeliverComments
    <3>1. Takes({Block(reads[n], "server", Overlaid(down[1].told)) : n \in 1..Len(reads)})
      BY <2>1, AnswerSteps
    <3> QED
      BY <3>1
  <2>2. CASE DeliverError
    <3>1. Takes({Block(reads[n], "error", {}) : n \in 1..Len(reads)})
      BY <2>2, AnswerSteps
    <3> QED
      BY <3>1
  <2> QED
    BY <2>1, <2>2
<1>2. /\ Moves(up, up', 0, {}) /\ Moves(down, down', 1, {}) /\ AnswerAt(1)
      /\ reads' = << >> /\ vote' = vote
  BY <1>1 DEF Takes, Queues, AnswerAt, DeliverComments, DeliverError, Told
<1>3. \A n : /\ ListenAt(n)' => n \in Nat \ {0} /\ ListenAt(n)
             /\ VoteAt(n)' => n \in Nat \ {0} /\ VoteAt(n)
  BY <1>2, RequestFrom
<1>4. \A n : /\ AnswerAt(n)' => n \in Nat \ {0} /\ AnswerAt(n + 1)
             /\ VotedAt(n)' => n \in Nat \ {0} /\ VotedAt(n + 1)
  BY <1>2, MessageFrom
<1>5. ~vote.on => \A n : ~ListenAt(n)' /\ ~AnswerAt(n)' /\ ~VoteAt(n)' /\ ~VotedAt(n)'
  <2>1. ASSUME ~vote.on, NEW n, AnswerAt(n)' PROVE FALSE
    <3>1. n + 1 = 1 /\ n \in Nat \ {0}
      BY <1>2, <1>4, <2>1 DEF Flight
    <3> QED
      BY <3>1
  <2> QED
    BY <1>2, <1>3, <1>4, <2>1 DEF Flight
<1>6. \A n, k : VotedAt(n)' /\ VotedAt(k)' => n = k
  <2>1. ASSUME NEW n, NEW k, VotedAt(n)', VotedAt(k)' PROVE n = k
    <3>1. n + 1 = k + 1 /\ n \in Nat /\ k \in Nat
      BY <1>4, <2>1 DEF Flight
    <3> QED
      BY <3>1
  <2> QED
    BY <2>1
<1>7. \A n, k : VotedAt(n)' /\ AnswerAt(k)' => k < n
  <2>1. ASSUME NEW n, NEW k, VotedAt(n)', AnswerAt(k)' PROVE k < n
    <3>1. k + 1 < n + 1 /\ n \in Nat /\ k \in Nat
      BY <1>4, <2>1 DEF Flight
    <3> QED
      BY <3>1
  <2> QED
    BY <2>1
<1>8. /\ \A n, k : VoteAt(n)' /\ VoteAt(k)' => n = k
      /\ \A n, k : VoteAt(n)' /\ ListenAt(k)' => k < n
      /\ \A n, k : ~(VoteAt(n)' /\ VotedAt(k)') /\ ~(VotedAt(n)' /\ ListenAt(k)')
  BY <1>3, <1>4 DEF Flight
<1> QED
  BY <1>2, <1>5, <1>6, <1>7, <1>8 DEF Flight

(* The answer of an attempt reaches the client: nothing is in flight but   *)
(* the attempt that follows it.                                            *)
LEMMA FlightVoted ==
  ASSUME Shape, Flight, EndVote \/ VoteAgain
  PROVE  Flight'
<1>1. Moves(down, down', 1, {}) /\ VotedAt(1) /\ reads' = reads
  BY VoteSteps DEF VotedAt, EndVote, VoteAgain
<1>2. vote.on /\ reads = << >> /\ \A n : ~ListenAt(n) /\ ~VoteAt(n)
  BY <1>1 DEF Flight
<1>3. \A n : ~AnswerAt(n)' /\ ~VotedAt(n)'
  <2>1. ASSUME NEW n, AnswerAt(n)' PROVE FALSE
    <3>1. n \in Nat \ {0} /\ AnswerAt(n + 1)
      BY <1>1, <2>1, MessageFrom
    <3>2. n + 1 < 1
      BY <1>1, <3>1 DEF Flight
    <3> QED
      BY <3>1, <3>2
  <2>2. ASSUME NEW n, VotedAt(n)' PROVE FALSE
    <3>1. n \in Nat \ {0} /\ VotedAt(n + 1)
      BY <1>1, <2>2, MessageFrom
    <3>2. n + 1 = 1
      BY <1>1, <3>1 DEF Flight
    <3> QED
      BY <3>1, <3>2
  <2> QED
    BY <2>1, <2>2
<1>4. CASE EndVote
  <2>1. \A n : ~ListenAt(n)' /\ ~VoteAt(n)'
    <3>1. Moves(up, up', 0, {})
      BY <1>4, VoteSteps
    <3> QED
      BY <1>2, <3>1, RequestFrom
  <2> QED
    BY <1>1, <1>2, <1>3, <2>1 DEF Flight
<1>5. CASE VoteAgain
  <2>1. PICK x \in Requests : x.type = "vote" /\ up' = Append(up, x)
    BY <1>5, VoteSteps
  <2>2. /\ Len(up') = Len(up) + 1 /\ Len(up) \in Nat
        /\ \A n \in 1..Len(up) : up'[n] = up[n]
        /\ up'[Len(up) + 1] = x
    BY <2>1, AppendFacts, QueueFacts DEF Shape, QueueShape
  <2>3. \A n : ~ListenAt(n)' /\ (VoteAt(n)' => n = Len(up) + 1)
    BY <1>2, <2>1, <2>2 DEF ListenAt, VoteAt
  <2>4. vote'.on
    BY <1>5 DEF VoteAgain, Attempt
  <2> QED
    BY <1>1, <1>2, <1>3, <2>3, <2>4 DEF Flight
<1> QED
  BY <1>4, <1>5

(* The connection is lost: the listen is sent again, the attempt is not.   *)
LEMMA FlightDisconnected ==
  ASSUME Shape, Flight, Disconnect
  PROVE  Flight'
<1>1. PICK s \in Orders, o \in {0, 1} :
           /\ Len(up') = o + Len(s) /\ down' = << >>
           /\ o = 0 <=> reads = << >>
           /\ o = 1 => up'[1] = ListenRequest
           /\ \A n \in 1..Len(up') :
                \/ n = 1 /\ o = 1
                \/ ResentAt(s, o, n) /\ up'[n] = PutRequest(s[n - o])
  BY DisconnectStep
<1>2. reads' = reads /\ (vote'.on => vote.on) /\ Len(s) \in Nat
  BY OrderFacts DEF Disconnect, NoVote
<1>3. \A i : PutRequest(i).type = "put" /\ ListenRequest.type = "listen"
  BY DEF PutRequest, ListenRequest
<1>4. \A n : /\ ListenAt(n)' => n = 1 /\ o = 1
             /\ ~VoteAt(n)'
             /\ ~AnswerAt(n)' /\ ~VotedAt(n)'
  BY <1>1, <1>3 DEF ListenAt, VoteAt, AnswerAt, VotedAt
<1>5. o = 1 => ListenAt(1)'
  BY <1>1, <1>2, <1>3 DEF ListenAt
<1>6. /\ reads # << >> => o = 1
      /\ reads = << >> => o = 0
  BY <1>1
<1>7. vote'.on => reads' = << >>
  BY <1>2 DEF Flight
<1> QED
  BY <1>2, <1>4, <1>5, <1>6, <1>7 DEF Flight

(* Every step keeps what is in flight in order.                            *)
LEMMA FlightNext == Shape /\ Known /\ Flight /\ Next => Flight'
BY FlightAsked, FlightQuiet, FlightStarted, FlightAnswered, FlightJudged, FlightDelivered,
   FlightVoted, FlightDisconnected
DEF Next, User, Server, Client, MainThread, Fault

-----------------------------------------------------------------------------
(* Covered.                                                                *)

(* Nothing is read at first.                                               *)
LEMMA CoveredInit == Init => Covered
BY DEF Init, Covered, Nothing, AnswerAt

(* A read is asked for, after k blocks: what is waiting stays.             *)
LEMMA AskedMoves ==
  ASSUME Shape, OpenPost \/ Pull \/ Dismissed
  PROVE  \E p, k :
           /\ Asks(p, k)
           /\ Moves(down, down', 0, {}) /\ vote' = vote
           /\ Moves(mainq, mainq', k, {VoteBlock(p)})
           /\ k = 1 => Dismissed /\ mainq[1].type = "dismissed" /\ p = mainq[1].page
<1>1. vote' = vote
  BY DEF OpenPost, Pull, Dismissed
<1>2. \A p, k : Asks(p, k) => Moves(down, down', 0, {}) /\ Moves(mainq, mainq', k, {VoteBlock(p)})
  BY DEF Asks, Queues
<1>3. CASE OpenPost \/ Pull
  <2>1. PICK p : Asks(p, 0)
    BY <1>3, AskSteps
  <2>2. /\ Asks(p, 0) /\ Moves(down, down', 0, {}) /\ vote' = vote
        /\ Moves(mainq, mainq', 0, {VoteBlock(p)})
    BY <1>1, <1>2, <2>1
  <2> QED
    BY <2>2
<1>4. CASE Dismissed
  BY <1>1, <1>2, <1>4, AskSteps
<1> QED
  BY <1>3, <1>4

(* A step that asks for nothing: what it sends holds what is stored.       *)
LEMMA CoveredStays ==
  ASSUME Shape, Covered, stored \subseteq stored',
         reads' = reads \/ reads' = << >>,
         NEW b, NEW D, Moves(down, down', b, D),
         \A x \in D : x.type = "comments" => x.told = stored,
         NEW c, NEW M, Moves(mainq, mainq', c, M),
         \A x \in M : x.type = "comments" /\ x.how = "server" => x.floor \subseteq x.told,
         listed'.how = "server" => listed'.floor \subseteq table'
  PROVE  Covered'
<1>1. \A n \in 1..Len(reads') : reads'[n].floor = reads'[1].floor /\ reads'[n].floor \subseteq stored'
  BY DEF Covered
<1>2. ASSUME NEW n, AnswerAt(n)', down'[n].type = "comments", reads' # << >>
      PROVE  reads'[1].floor \subseteq down'[n].told
  <2>1. reads' = reads
    BY <1>2
  <2>2. \/ AnswerAt(n + b) /\ down'[n] = down[n + b]
        \/ down'[n] \in D
    BY <1>2, MessageFrom
  <2>3. reads[1].floor \subseteq stored
    <3>1. 1 \in 1..Len(reads)
      BY <1>2, <2>1, QueueFacts DEF Shape, QueueShape
    <3> QED
      BY <3>1 DEF Covered
  <2>4. CASE AnswerAt(n + b) /\ down'[n] = down[n + b]
    BY <1>2, <2>1, <2>4 DEF Covered
  <2>5. CASE down'[n] \in D
    BY <1>2, <2>1, <2>3, <2>5
  <2> QED
    BY <2>2, <2>4, <2>5
<1>3. ASSUME NEW n \in 1..Len(mainq'), mainq'[n].type = "comments", mainq'[n].how = "server"
      PROVE  mainq'[n].floor \subseteq mainq'[n].told
  <2>1. \/ n + c \in 1..Len(mainq) /\ mainq'[n] = mainq[n + c]
        \/ mainq'[n] \in M
    BY DEF Moves
  <2> QED
    BY <1>3, <2>1 DEF Covered
<1> QED
  BY <1>1, <1>2, <1>3 DEF Covered

(* The list on screen stays, is dropped, or is the block that is run.      *)
LEMMA SameList ==
  ASSUME Next
  PROVE  \/ table' = table /\ listed' = listed
         \/ listed' = Nothing
         \/ /\ ShowComments /\ Head(mainq).page = page /\ table' = Head(mainq).told
            /\ listed' = [how |-> Head(mainq).how, floor |-> Head(mainq).floor]
BY DEF Next, User, Server, Client, MainThread, Fault, OpenPost, Back, Pull, OpenSheet,
       CloseSheet, Dismissed, AnswerRead, RefuseRead, AcceptVote, RefuseVote, StartVote,
       VoteAgain, DeliverComments, DeliverError, EndVote, ShowComments, Reply,
       OthersComment, StoreComment, RefuseComment, DeliverReply, Replied, NotReplied,
       Disconnect, screen, history

(* Every step keeps the answers of the server complete.                    *)
LEMMA CoveredNext ==
  ASSUME Shape, Known, Flight, Covered, Next
  PROVE  Covered'
<1>1. stored \subseteq stored'
  BY ExistsGrows
<1>2. listed'.how = "server" => listed'.floor \subseteq table'
  <2>1. CASE table' = table /\ listed' = listed
    BY <2>1 DEF Covered
  <2>2. CASE listed' = Nothing
    BY <2>2 DEF Nothing
  <2>3. CASE /\ ShowComments /\ table' = Head(mainq).told
             /\ listed' = [how |-> Head(mainq).how, floor |-> Head(mainq).floor]
    <3>1. mainq[1] = Head(mainq) /\ mainq[1].type = "comments" /\ 1 \in 1..Len(mainq)
      BY <2>3, MainSteps DEF Runs
    <3> QED
      BY <2>3, <3>1 DEF Covered
  <2> QED
    BY <2>1, <2>2, <2>3, SameList
<1>3. \A r, how, S : /\ Block(r, how, S).how = how /\ Block(r, how, S).floor = r.floor
                     /\ Block(r, how, S).told = S
  BY DEF Block
<1>4. CASE OpenPost \/ Pull \/ Dismissed
  <2>1. PICK p, k : /\ Asks(p, k) /\ Moves(down, down', 0, {}) /\ vote' = vote
                    /\ Moves(mainq, mainq', k, {VoteBlock(p)})
    BY <1>4, AskedMoves
  <2>2. VoteBlock(p).how = "vote"
    BY <1>3 DEF VoteBlock
  <2>3. CASE vote.on
    BY <1>1, <1>2, <2>1, <2>2, <2>3, CoveredStays DEF Asks
  <2>4. ASSUME NEW n \in 1..Len(mainq'), mainq'[n].type = "comments", mainq'[n].how = "server"
        PROVE  mainq'[n].floor \subseteq mainq'[n].told
    <3>1. \/ n + k \in 1..Len(mainq) /\ mainq'[n] = mainq[n + k]
          \/ mainq'[n] = VoteBlock(p)
      BY <2>1 DEF Moves
    <3> QED
      BY <2>2, <2>4, <3>1 DEF Covered
  <2>5. CASE ~vote.on
    <3>1. /\ reads' = Append(reads, Asking(p)) /\ Asking(p) \in Reads /\ reads \in Seq(Reads)
          /\ down' = down /\ stored' = stored
      BY <1>4, <2>1, <2>5 DEF Asks, Shape, QueueShape, OpenPost, Pull, Dismissed
    <3>2. /\ Len(reads') = Len(reads) + 1 /\ Len(reads) \in Nat
          /\ \A n \in 1..Len(reads) : reads'[n] = reads[n]
          /\ reads'[Len(reads) + 1] = Asking(p)
      BY <3>1, AppendFacts, QueueFacts
    <3>3. /\ reads = << >> <=> Len(reads) = 0
          /\ reads = << >> => Asking(p).floor = stored
          /\ reads # << >> => Asking(p).floor = reads[1].floor
      BY <3>1, QueueFacts DEF Asking
    <3>4. CASE reads = << >>
      <4>1. Len(reads') = 1 /\ reads'[1].floor = stored
        BY <3>2, <3>3, <3>4
      <4>2. \A n : ~AnswerAt(n)'
        BY <2>5, <3>1, <3>4 DEF Flight, AnswerAt
      <4> QED
        BY <1>2, <2>4, <3>1, <4>1, <4>2 DEF Covered
    <3>5. CASE reads # << >>
      <4>1. 1 \in 1..Len(reads) /\ reads'[1] = reads[1] /\ reads[1].floor \subseteq stored
        BY <3>2, <3>3, <3>5 DEF Covered
      <4>2. \A n \in 1..Len(reads') :
              reads'[n].floor = reads'[1].floor /\ reads'[n].floor \subseteq stored'
        <5>1. ASSUME NEW n \in 1..Len(reads')
              PROVE  reads'[n].floor = reads[1].floor
          <6>1. n \in 1..Len(reads) \/ n = Len(reads) + 1
            BY <3>2
          <6>2. CASE n \in 1..Len(reads)
            BY <3>2, <6>2 DEF Covered
          <6>3. CASE n = Len(reads) + 1
            BY <3>2, <3>3, <3>5, <6>3
          <6> QED
            BY <6>1, <6>2, <6>3
        <5> QED
          BY <1>1, <4>1, <5>1
      <4>3. \A n : AnswerAt(n)' /\ down'[n].type = "comments" => reads'[1].floor \subseteq down'[n].told
        BY <3>1, <3>5, <4>1 DEF Covered, AnswerAt
      <4> QED
        BY <1>2, <2>4, <4>2, <4>3 DEF Covered
    <3> QED
      BY <3>4, <3>5
  <2> QED
    BY <2>3, <2>5
<1>5. CASE Back \/ OpenSheet \/ CloseSheet \/ OthersComment \/ Reply
  <2>1. Moves(down, down', 0, {}) /\ Moves(mainq, mainq', 0, {}) /\ reads' = reads
    BY <1>5, StillSteps, ReplyStep DEF Queues, link
  <2> QED
    BY <1>1, <1>2, <2>1, CoveredStays
<1>6. CASE StartVote
  <2> DEFINE M == {Block(reads[n], "vote", Pending) : n \in 1..Len(reads)}
  <2>1. Moves(down, down', 0, {}) /\ Moves(mainq, mainq', 0, M) /\ reads' = << >>
    BY <1>6, StartStep DEF Queues, StartVote
  <2>2. \A x \in M : x.how = "vote"
    BY <1>3
  <2> HIDE DEF M
  <2> QED
    BY <1>1, <1>2, <2>1, <2>2, CoveredStays
<1>7. CASE AnswerRead \/ RefuseRead \/ AcceptVote \/ RefuseVote \/ StoreComment \/ RefuseComment
  <2>1. PICK m : /\ Moves(down, down', 0, {m}) /\ Moves(mainq, mainq', 0, {})
                 /\ m.type = "comments" => m.told = stored
                 /\ reads' = reads
    <3>1. ASSUME NEW type, NEW m, Serves(type, m)
          PROVE  Moves(down, down', 0, {m}) /\ Moves(mainq, mainq', 0, {}) /\ reads' = reads
      BY <3>1 DEF Serves, Queues
    <3>2. /\ TellComments.told = stored /\ TellStale.told = stored
          /\ TellError.type = "error" /\ TellVoted.type = "voted"
          /\ \A i : TellReply(i).type = "reply"
      BY DEF TellComments, TellStale, TellError, TellVoted, TellReply
    <3>3. CASE AnswerRead \/ RefuseRead
      BY <3>1, <3>2, <3>3, ServerSteps
    <3>4. CASE AcceptVote \/ RefuseVote
      BY <3>1, <3>2, <3>4, ServerSteps
    <3>5. CASE StoreComment \/ RefuseComment
      BY <3>1, <3>2, <3>5, ServerSteps
    <3> QED
      BY <1>7, <3>3, <3>4, <3>5
  <2> QED
    BY <1>1, <1>2, <2>1, CoveredStays
<1>8. CASE DeliverComments
  <2> DEFINE M == {Block(reads[n], "server", Overlaid(down[1].told)) : n \in 1..Len(reads)}
  <2>1. Takes(M) /\ reads' = << >> /\ AnswerAt(1) /\ down[1].type = "comments"
    BY <1>8, AnswerSteps DEF Takes, DeliverComments, Told, AnswerAt
  <2>2. \A n \in 1..Len(reads) : reads[n].floor \subseteq Overlaid(down[1].told)
    <3>1. ASSUME NEW n \in 1..Len(reads)
          PROVE  reads[n].floor \subseteq down[1].told
      <4>1. reads # << >>
        BY <3>1, QueueFacts DEF Shape, QueueShape
      <4> QED
        BY <2>1, <4>1 DEF Covered
    <3> QED
      BY <3>1 DEF Overlaid
  <2>3. \A x \in M : x.floor \subseteq x.told
    BY <1>3, <2>2
  <2> HIDE DEF M
  <2>4. Moves(down, down', 1, {}) /\ Moves(mainq, mainq', 0, M)
    BY <2>1 DEF Takes, Queues
  <2> QED
    BY <1>1, <1>2, <2>1, <2>3, <2>4, CoveredStays
<1>9. CASE DeliverError
  <2> DEFINE M == {Block(reads[n], "error", {}) : n \in 1..Len(reads)}
  <2>1. Takes(M) /\ reads' = << >>
    BY <1>9, AnswerSteps DEF DeliverError
  <2>2. \A x \in M : x.how = "error"
    BY <1>3
  <2> HIDE DEF M
  <2>3. Moves(down, down', 1, {}) /\ Moves(mainq, mainq', 0, M)
    BY <2>1 DEF Takes, Queues
  <2> QED
    BY <1>1, <1>2, <2>1, <2>2, <2>3, CoveredStays
<1>10. CASE DeliverReply
  <2>1. Moves(down, down', 1, {}) /\ Moves(mainq, mainq', 0, {TellReply(down[1].comment)})
        /\ reads' = reads
    BY <1>10, DeliverReplyStep DEF Takes, Queues
  <2>2. TellReply(down[1].comment).type = "reply"
    BY DEF TellReply
  <2> QED
    BY <1>1, <1>2, <2>1, <2>2, CoveredStays
<1>11. CASE EndVote \/ VoteAgain
  <2>1. Moves(down, down', 1, {}) /\ Moves(mainq, mainq', 0, {}) /\ reads' = reads
    BY <1>11, VoteSteps DEF EndVote, VoteAgain
  <2> QED
    BY <1>1, <1>2, <2>1, CoveredStays
<1>12. CASE ShowComments \/ Replied \/ NotReplied
  <2>1. PICK p : /\ Moves(down, down', 0, {}) /\ reads' = reads
                 /\ Moves(mainq, mainq', 1, {}) \/ Moves(mainq, mainq', 1, {DismissedBlock(p)})
    BY <1>12, MainSteps DEF Runs, Queues, link
  <2>2. DismissedBlock(p).type = "dismissed"
    BY DEF DismissedBlock
  <2> QED
    BY <1>1, <1>2, <2>1, <2>2, CoveredStays
<1>13. CASE Disconnect
  <2>1. UNCHANGED <<reads, mainq>> /\ down' = << >>
    BY <1>13 DEF Disconnect
  <2> QED
    BY <1>1, <1>2, <2>1 DEF Covered, AnswerAt
<1> QED
  BY <1>4, <1>5, <1>6, <1>7, <1>8, <1>9, <1>10, <1>11, <1>12, <1>13
  DEF Next, User, Server, Client, MainThread, Fault

-----------------------------------------------------------------------------
(* Included.                                                               *)

(* No comment is made at first.                                            *)
LEMMA IncludedInit == Init => Included
BY DEF Init, Included, RepliesCome, RepliesRun, RepliesShow, ReplyAt, ToldAt, DoneAt,
       ServedAt, Made

(* An answer with comments was on its way, or has just been sent.          *)
LEMMA ToldFrom ==
  ASSUME NEW b, NEW D, Moves(down, down', b, D), NEW n, ToldAt(n)'
  PROVE  /\ n \in Nat \ {0} /\ b \in {0, 1} /\ Len(down) \in Nat
         /\ \/ ToldAt(n + b) /\ down'[n] = down[n + b]
            \/ n + b > Len(down) /\ down'[n] \in D /\ down'[n].type = "comments"
BY DEF Moves, ToldAt

(* A list of the server was queued, or has just been.                      *)
LEMMA ServedFrom ==
  ASSUME NEW c, NEW M, Moves(mainq, mainq', c, M), NEW n, ServedAt(n)'
  PROVE  /\ n \in Nat \ {0} /\ c \in {0, 1} /\ Len(mainq) \in Nat
         /\ \/ ServedAt(n + c) /\ mainq'[n] = mainq[n + c]
            \/ /\ n + c > Len(mainq) /\ mainq'[n] \in M
               /\ mainq'[n].type = "comments" /\ mainq'[n].how = "server"
BY DEF Moves, ServedAt

(* Answers on their way: what comes holds what is stored, and a reply that *)
(* is taken goes before the answers that are left.                         *)
LEMMA RepliesComeStay ==
  ASSUME RepliesCome, Known, Known',
         NEW b, NEW D, Moves(down, down', b, D),
         \A x \in D : x.type = "comments" => x.told = stored',
         \A i \in Made' : stage'[i] \in {"acked", "done"} =>
           \/ i \in Made /\ stage[i] \in {"acked", "done"}
           \/ b = 1 /\ ReplyAt(1) /\ down[1].comment = i /\ stage[i] = "stored",
         \A n : ReplyAt(n) /\ stage'[down[n].comment] = "stored" => stage[down[n].comment] = "stored"
  PROVE  RepliesCome'
<1>1. \A i \in Made' : stage'[i] \in {"stored", "acked", "done"} => i \in stored'
  BY DEF Known, Stored
<1>2. ASSUME NEW n, NEW k, ReplyAt(n)', stage'[down'[n].comment] = "stored", ToldAt(k)', n < k
      PROVE  down'[n].comment \in down'[k].told
  <2>1. down'[n].comment \in Made'
    BY <1>2 DEF Known, Replies
  <2>2. /\ n \in Nat /\ k \in Nat /\ b \in {0, 1} /\ Len(down) \in Nat
        /\ \/ ReplyAt(n + b) /\ down'[n] = down[n + b]
           \/ n + b > Len(down)
        /\ \/ ToldAt(k + b) /\ down'[k] = down[k + b]
           \/ down'[k].told = stored'
    BY <1>2, ReplyFrom, ToldFrom
  <2>3. CASE down'[k].told = stored'
    BY <1>1, <1>2, <2>1, <2>3
  <2>4. CASE ToldAt(k + b) /\ down'[k] = down[k + b]
    <3>1. k + b <= Len(down) /\ n + b < k + b
      BY <1>2, <2>2, <2>4 DEF ToldAt
    <3>2. ReplyAt(n + b) /\ down'[n] = down[n + b]
      BY <2>2, <3>1
    <3>3. stage[down[n + b].comment] = "stored"
      BY <1>2, <3>2
    <3> QED
      BY <2>4, <3>1, <3>2, <3>3 DEF RepliesCome
  <2> QED
    BY <2>2, <2>3, <2>4
<1>3. ASSUME NEW i \in Made', stage'[i] \in {"acked", "done"}, NEW k, ToldAt(k)'
      PROVE  i \in down'[k].told
  <2>1. /\ k \in Nat \ {0} /\ b \in {0, 1}
        /\ \/ ToldAt(k + b) /\ down'[k] = down[k + b]
           \/ down'[k].told = stored'
    BY <1>3, ToldFrom
  <2>2. CASE down'[k].told = stored'
    BY <1>1, <1>3, <2>2
  <2>3. CASE ToldAt(k + b) /\ down'[k] = down[k + b]
    <3>1. CASE i \in Made /\ stage[i] \in {"acked", "done"}
      BY <2>3, <3>1 DEF RepliesCome
    <3>2. CASE b = 1 /\ ReplyAt(1) /\ down[1].comment = i /\ stage[i] = "stored"
      <4>1. 1 < k + b
        BY <2>1, <3>2
      <4> QED
        BY <2>3, <3>2, <4>1 DEF RepliesCome
    <3> QED
      BY <1>3, <3>1, <3>2
  <2> QED
    BY <2>1, <2>2, <2>3
<1> QED
  BY <1>2, <1>3 DEF RepliesCome

(* Blocks waiting for the main thread, in the same way.                    *)
LEMMA RepliesRunStay ==
  ASSUME RepliesRun, Known, Known',
         NEW c, NEW M, Moves(mainq, mainq', c, M),
         \A x \in M : x.type = "comments" /\ x.how = "server" =>
           \A i \in Made' : stage'[i] \in {"acked", "done"} => i \in x.told,
         \A i \in Made' : stage'[i] = "done" =>
           \/ i \in Made /\ stage[i] = "done"
           \/ c = 1 /\ DoneAt(1) /\ mainq[1].comment = i /\ stage[i] = "acked",
         \A n : DoneAt(n) /\ stage'[mainq[n].comment] = "acked" => stage[mainq[n].comment] = "acked"
  PROVE  RepliesRun'
<1>1. ASSUME NEW n, NEW k, DoneAt(n)', stage'[mainq'[n].comment] = "acked", ServedAt(k)', n < k
      PROVE  mainq'[n].comment \in mainq'[k].told
  <2>1. mainq'[n].comment \in Made'
    BY <1>1 DEF Known, Dones
  <2>2. /\ n \in Nat /\ k \in Nat /\ c \in {0, 1} /\ Len(mainq) \in Nat
        /\ \/ DoneAt(n + c) /\ mainq'[n] = mainq[n + c]
           \/ n + c > Len(mainq)
        /\ \/ ServedAt(k + c) /\ mainq'[k] = mainq[k + c]
           \/ mainq'[k] \in M /\ mainq'[k].type = "comments" /\ mainq'[k].how = "server"
    BY <1>1, DoneFrom, ServedFrom
  <2>3. CASE mainq'[k] \in M /\ mainq'[k].type = "comments" /\ mainq'[k].how = "server"
    BY <1>1, <2>1, <2>3
  <2>4. CASE ServedAt(k + c) /\ mainq'[k] = mainq[k + c]
    <3>1. k + c <= Len(mainq) /\ n + c < k + c
      BY <1>1, <2>2, <2>4 DEF ServedAt
    <3>2. DoneAt(n + c) /\ mainq'[n] = mainq[n + c]
      BY <2>2, <3>1
    <3>3. stage[mainq[n + c].comment] = "acked"
      BY <1>1, <3>2
    <3> QED
      BY <2>4, <3>1, <3>2, <3>3 DEF RepliesRun
  <2> QED
    BY <2>2, <2>3, <2>4
<1>2. ASSUME NEW i \in Made', stage'[i] = "done", NEW k, ServedAt(k)'
      PROVE  i \in mainq'[k].told
  <2>1. /\ k \in Nat \ {0} /\ c \in {0, 1}
        /\ \/ ServedAt(k + c) /\ mainq'[k] = mainq[k + c]
           \/ mainq'[k] \in M /\ mainq'[k].type = "comments" /\ mainq'[k].how = "server"
    BY <1>2, ServedFrom
  <2>2. CASE mainq'[k] \in M /\ mainq'[k].type = "comments" /\ mainq'[k].how = "server"
    BY <1>2, <2>2
  <2>3. CASE ServedAt(k + c) /\ mainq'[k] = mainq[k + c]
    <3>1. CASE i \in Made /\ stage[i] = "done"
      BY <2>3, <3>1 DEF RepliesRun
    <3>2. CASE c = 1 /\ DoneAt(1) /\ mainq[1].comment = i /\ stage[i] = "acked"
      <4>1. 1 < k + c
        BY <2>1, <3>2
      <4> QED
        BY <2>3, <3>2, <4>1 DEF RepliesRun
    <3> QED
      BY <1>2, <3>1, <3>2
  <2> QED
    BY <2>1, <2>2, <2>3
<1> QED
  BY <1>1, <1>2 DEF RepliesRun

(* What happens to the stages of comments.                                 *)
LEMMA StageSteps ==
  ASSUME Shape, Known, Next
  PROVE  /\ \A i \in Made' : stage'[i] \in {"acked", "done"} =>
              \/ i \in Made /\ stage[i] \in {"acked", "done"}
              \/ /\ DeliverReply /\ ReplyAt(1) /\ down[1].comment = i
                 /\ stage[i] = "stored" /\ stage'[i] = "acked"
         /\ \A i \in Made' : stage'[i] = "done" =>
              \/ i \in Made /\ stage[i] = "done"
              \/ Replied /\ DoneAt(1) /\ mainq[1].comment = i /\ stage[i] = "acked"
         /\ \A n : ReplyAt(n) /\ stage'[down[n].comment] = "stored"
              => stage[down[n].comment] = "stored"
         /\ \A n : DoneAt(n) /\ stage'[mainq[n].comment] = "acked"
              => stage[mainq[n].comment] = "acked"
<1>1. CASE UNCHANGED <<made, stage>>
  BY <1>1 DEF Made
<1>2. CASE Reply \/ OthersComment
  <2>1. PICK s \in {"sent", "foreign"} : made' = made + 1 /\ stage' = Append(stage, s)
    BY <1>2 DEF Reply, OthersComment
  <2>2. made \in Nat /\ stage \in Seq(Stages) /\ Len(stage) = made /\ s \in Stages
    BY Numbers DEF Shape, CommentShape, Made, Stages
  <2>3. /\ \A j \in Made : stage'[j] = stage[j]
        /\ \A j \in Made' : j \in Made \/ stage'[j] = s
    BY <2>1, <2>2, AppendFacts DEF Made
  <2>4. /\ \A n : ReplyAt(n) => down[n].comment \in Made
        /\ \A n : DoneAt(n) => mainq[n].comment \in Made
    BY DEF Known, Replies, Dones
  <2> QED
    BY <2>3, <2>4
<1>3. CASE StoreComment \/ RefuseComment
  <2> DEFINE i == Head(up).comment
  <2>1. PutAt(1) /\ up[1] = Head(up)
    BY <1>3, ServerSteps DEF Serves, PutAt
  <2>2. i \in Made /\ stage[i] = "sent"
    BY <2>1 DEF Known, Puts
  <2>3. /\ Made' = Made /\ \A j \in Made : j # i => stage'[j] = stage[j]
        /\ stage'[i] \in {"stored", "refused"}
    BY <1>3, <2>2 DEF StoreComment, RefuseComment, Made, Shape, CommentShape
  <2>4. /\ \A n : ReplyAt(n) => down[n].comment \in Made /\ down[n].comment # i
        /\ \A n : DoneAt(n) => mainq[n].comment \in Made
    BY <2>2 DEF Known, Replies, Dones
  <2> HIDE DEF i
  <2> QED
    BY <2>3, <2>4
<1>4. CASE DeliverReply
  <2> DEFINE i == down[1].comment
  <2>1. ReplyAt(1) /\ down[1] = Head(down)
    BY <1>4, DeliverReplyStep DEF Takes, ReplyAt
  <2>2. i \in Made /\ stage[i] \in {"stored", "refused"}
    BY <2>1 DEF Known, Replies
  <2>3. /\ Made' = Made /\ \A j \in Made : j # i => stage'[j] = stage[j]
        /\ stage'[i] = IF stage[i] = "stored" THEN "acked" ELSE "denied"
    BY <1>4, <2>1, <2>2 DEF DeliverReply, Made, Shape, CommentShape
  <2>4. /\ \A n : ReplyAt(n) => down[n].comment \in Made
        /\ \A n : DoneAt(n) => mainq[n].comment \in Made /\ mainq[n].comment # i
    BY <2>2 DEF Known, Replies, Dones
  <2>5. down[1].comment = i
    OBVIOUS
  <2> HIDE DEF i
  <2> QED
    BY <1>4, <2>1, <2>2, <2>3, <2>4, <2>5
<1>5. CASE Replied \/ NotReplied
  <2> DEFINE i == mainq[1].comment
  <2>1. DoneAt(1) /\ mainq[1] = Head(mainq)
    BY <1>5, MainSteps DEF Runs, DoneAt
  <2>2. i \in Made /\ stage[i] \in {"acked", "denied"}
    BY <2>1 DEF Known, Dones
  <2>3. /\ Made' = Made /\ \A j \in Made : j # i => stage'[j] = stage[j]
        /\ \/ Replied /\ stage[i] = "acked" /\ stage'[i] = "done"
           \/ stage'[i] = "failed"
    BY <1>5, <2>1, <2>2 DEF Replied, NotReplied, Made, Shape, CommentShape
  <2>4. /\ \A n : ReplyAt(n) => down[n].comment \in Made
        /\ \A n : DoneAt(n) => mainq[n].comment \in Made
    BY DEF Known, Replies, Dones
  <2>5. mainq[1].comment = i
    OBVIOUS
  <2> HIDE DEF i
  <2> QED
    BY <2>1, <2>2, <2>3, <2>4, <2>5
<1>6. CASE Disconnect
  <2>1. Made' = Made /\ \A j \in Made : stage'[j] = stage[j] \/ stage'[j] = "sent"
    BY <1>6 DEF Disconnect, Made
  <2>2. /\ \A n : ReplyAt(n) => down[n].comment \in Made
        /\ \A n : DoneAt(n) => mainq[n].comment \in Made
    BY DEF Known, Replies, Dones
  <2> QED
    BY <2>1, <2>2
<1>7. CASE \/ OpenPost \/ Back \/ Pull \/ OpenSheet \/ CloseSheet \/ Dismissed
           \/ StartVote \/ AnswerRead \/ RefuseRead \/ AcceptVote \/ RefuseVote
           \/ DeliverComments \/ DeliverError \/ EndVote \/ VoteAgain \/ ShowComments
  BY <1>1, <1>7
  DEF OpenPost, Back, Pull, OpenSheet, CloseSheet, Dismissed, StartVote, AnswerRead,
      RefuseRead, AcceptVote, RefuseVote, DeliverComments, DeliverError, EndVote,
      VoteAgain, ShowComments, writing
<1> QED
  BY <1>2, <1>3, <1>4, <1>5, <1>6, <1>7 DEF Next, User, Server, Client, MainThread, Fault

(* Every answer behind a reply holds its comment.                          *)
LEMMA RepliesComeNext ==
  ASSUME Shape, Known, Known', RepliesCome, Next
  PROVE  RepliesCome'
<1>1. /\ \A i \in Made' : stage'[i] \in {"acked", "done"} =>
              \/ i \in Made /\ stage[i] \in {"acked", "done"}
              \/ DeliverReply /\ ReplyAt(1) /\ down[1].comment = i /\ stage[i] = "stored"
      /\ \A n : ReplyAt(n) /\ stage'[down[n].comment] = "stored"
              => stage[down[n].comment] = "stored"
  BY StageSteps
<1>2. ASSUME NEW b \in {0, 1}, NEW D, Moves(down, down', b, D), DeliverReply => b = 1,
             \A x \in D : x.type = "comments" => x.told = stored'
      PROVE  RepliesCome'
  <2>1. \A i \in Made' : stage'[i] \in {"acked", "done"} =>
              \/ i \in Made /\ stage[i] \in {"acked", "done"}
              \/ b = 1 /\ ReplyAt(1) /\ down[1].comment = i /\ stage[i] = "stored"
    BY <1>1, <1>2
  <2> QED
    BY <1>1, <1>2, <2>1, RepliesComeStay
<1>3. CASE OpenPost \/ Pull \/ Dismissed
  <2>1. Moves(down, down', 0, {}) /\ ~DeliverReply
    <3>1. Moves(down, down', 0, {})
      BY <1>3, AskedMoves
    <3>2. UNCHANGED stage /\ UNCHANGED down
      BY <1>3 DEF OpenPost, Pull, Dismissed, writing
    <3>3. DeliverReply => Len(down') # Len(down)
      BY TailFacts DEF DeliverReply, Told, Shape, QueueShape
    <3> QED
      BY <3>1, <3>2, <3>3
  <2> QED
    BY <1>2, <2>1
<1>4. CASE DeliverReply
  BY <1>2, <1>4, DeliverReplyStep DEF Takes, Queues
<1>5. CASE ~DeliverReply /\ (Back \/ OpenSheet \/ CloseSheet \/ OthersComment \/ Reply)
  BY <1>2, <1>5, StillSteps, ReplyStep DEF Queues
<1>6. CASE ~DeliverReply /\ StartVote
  BY <1>2, <1>6, StartStep DEF Queues
<1>7. CASE /\ ~DeliverReply
           /\ \/ AnswerRead \/ RefuseRead \/ AcceptVote \/ RefuseVote
              \/ StoreComment \/ RefuseComment
  <2>1. PICK m : /\ Moves(down, down', 0, {m})
                 /\ m.type = "comments" => m.told = stored'
    <3>1. ASSUME NEW type, NEW m, Serves(type, m)
          PROVE  Moves(down, down', 0, {m})
      BY <3>1 DEF Serves, Queues
    <3>2. /\ TellComments.told = stored /\ TellStale.type = "stale"
          /\ TellError.type = "error" /\ TellVoted.type = "voted"
          /\ \A i : TellReply(i).type = "reply"
      BY DEF TellComments, TellStale, TellError, TellVoted, TellReply
    <3>3. CASE AnswerRead \/ RefuseRead
      <4>1. stored' = stored
        BY <3>3 DEF AnswerRead, RefuseRead
      <4> QED
        BY <3>1, <3>2, <3>3, <4>1, ServerSteps
    <3>4. CASE AcceptVote \/ RefuseVote
      BY <3>1, <3>2, <3>4, ServerSteps
    <3>5. CASE StoreComment \/ RefuseComment
      BY <3>1, <3>2, <3>5, ServerSteps
    <3> QED
      BY <1>7, <3>3, <3>4, <3>5
  <2> QED
    BY <1>2, <1>7, <2>1
<1>8. CASE ~DeliverReply /\ (DeliverComments \/ DeliverError)
  <2>1. PICK X : Takes(X)
    <3>1. CASE DeliverComments
      <4>1. Takes({Block(reads[n], "server", Overlaid(down[1].told)) : n \in 1..Len(reads)})
        BY <3>1, AnswerSteps
      <4> QED
        BY <4>1
    <3>2. CASE DeliverError
      <4>1. Takes({Block(reads[n], "error", {}) : n \in 1..Len(reads)})
        BY <3>2, AnswerSteps
      <4> QED
        BY <4>1
    <3> QED
      BY <1>8, <3>1, <3>2
  <2> QED
    BY <1>2, <1>8, <2>1 DEF Takes, Queues
<1>9. CASE ~DeliverReply /\ (EndVote \/ VoteAgain)
  BY <1>2, <1>9, VoteSteps
<1>10. CASE ~DeliverReply /\ (ShowComments \/ Replied \/ NotReplied)
  BY <1>2, <1>10, MainSteps DEF Runs, Queues
<1>11. CASE Disconnect
  <2>1. down' = << >>
    BY <1>11 DEF Disconnect
  <2> QED
    BY <2>1 DEF RepliesCome, ReplyAt, ToldAt
<1> QED
  BY <1>3, <1>4, <1>5, <1>6, <1>7, <1>8, <1>9, <1>10, <1>11
  DEF Next, User, Server, Client, MainThread, Fault

(* Every list behind a completion holds its comment.                       *)
LEMMA RepliesRunNext ==
  ASSUME Shape, Known, Known', RepliesCome, RepliesRun, Next
  PROVE  RepliesRun'
<1>1. /\ \A i \in Made' : stage'[i] = "done" =>
              \/ i \in Made /\ stage[i] = "done"
              \/ Replied /\ DoneAt(1) /\ mainq[1].comment = i /\ stage[i] = "acked"
      /\ \A n : DoneAt(n) /\ stage'[mainq[n].comment] = "acked"
              => stage[mainq[n].comment] = "acked"
  BY StageSteps
<1>2. ASSUME NEW c \in {0, 1}, NEW M, Moves(mainq, mainq', c, M), Replied => c = 1,
             \A x \in M : x.type = "comments" /\ x.how = "server" =>
               \A i \in Made' : stage'[i] \in {"acked", "done"} => i \in x.told
      PROVE  RepliesRun'
  <2>1. \A i \in Made' : stage'[i] = "done" =>
              \/ i \in Made /\ stage[i] = "done"
              \/ c = 1 /\ DoneAt(1) /\ mainq[1].comment = i /\ stage[i] = "acked"
    BY <1>1, <1>2
  <2> QED
    BY <1>1, <1>2, <2>1, RepliesRunStay
<1>3. \A r, how, S : Block(r, how, S).how = how /\ Block(r, how, S).told = S
  BY DEF Block
<1>4. CASE Replied \/ NotReplied \/ ShowComments
  <2>1. PICK p : Moves(mainq, mainq', 1, {}) \/ Moves(mainq, mainq', 1, {DismissedBlock(p)})
    BY <1>4, MainSteps DEF Runs, Queues
  <2>2. DismissedBlock(p).type = "dismissed"
    BY DEF DismissedBlock
  <2> QED
    BY <1>2, <2>1, <2>2
<1>5. CASE ~Replied /\ (OpenPost \/ Pull \/ Dismissed)
  <2>1. PICK p, k : Asks(p, k) /\ Moves(mainq, mainq', k, {VoteBlock(p)})
    BY <1>5, AskedMoves
  <2>2. k \in {0, 1} /\ VoteBlock(p).how = "vote"
    BY <1>3, <2>1 DEF Moves, VoteBlock
  <2> QED
    BY <1>2, <1>5, <2>1, <2>2
<1>6. CASE ~Replied /\ (Back \/ OpenSheet \/ CloseSheet \/ OthersComment \/ Reply)
  BY <1>2, <1>6, StillSteps, ReplyStep DEF Queues
<1>7. CASE ~Replied /\ StartVote
  <2> DEFINE M == {Block(reads[n], "vote", Pending) : n \in 1..Len(reads)}
  <2>1. Moves(mainq, mainq', 0, M) /\ \A x \in M : x.how = "vote"
    BY <1>3, <1>7, StartStep DEF Queues
  <2> HIDE DEF M
  <2> QED
    BY <1>2, <1>7, <2>1
<1>8. CASE /\ ~Replied
           /\ \/ AnswerRead \/ RefuseRead \/ AcceptVote \/ RefuseVote
              \/ StoreComment \/ RefuseComment
  <2>1. ASSUME NEW type, NEW m, Serves(type, m)
        PROVE  Moves(mainq, mainq', 0, {})
    BY <2>1 DEF Serves, Queues
  <2>2. Moves(mainq, mainq', 0, {})
    BY <1>8, <2>1, ServerSteps
  <2> QED
    BY <1>2, <1>8, <2>2
<1>9. CASE ~Replied /\ DeliverComments
  <2> DEFINE M == {Block(reads[n], "server", Overlaid(down[1].told)) : n \in 1..Len(reads)}
  <2>1. Takes(M) /\ ToldAt(1)
    BY <1>9, AnswerSteps DEF Takes, DeliverComments, Told, ToldAt
  <2>2. \A i \in Made' : stage'[i] \in {"acked", "done"} => i \in Overlaid(down[1].told)
    <3>1. made' = made /\ stage' = stage /\ Made' = Made
      BY <1>9 DEF DeliverComments, writing, Made
    <3> QED
      BY <2>1, <3>1 DEF RepliesCome, Overlaid
  <2>3. \A x \in M : \A i \in Made' : stage'[i] \in {"acked", "done"} => i \in x.told
    BY <1>3, <2>2
  <2> HIDE DEF M
  <2>4. Moves(mainq, mainq', 0, M)
    BY <2>1 DEF Takes, Queues
  <2> QED
    BY <1>2, <1>9, <2>3, <2>4
<1>10. CASE ~Replied /\ DeliverError
  <2> DEFINE M == {Block(reads[n], "error", {}) : n \in 1..Len(reads)}
  <2>1. Takes(M) /\ \A x \in M : x.how = "error"
    BY <1>3, <1>10, AnswerSteps
  <2> HIDE DEF M
  <2>2. Moves(mainq, mainq', 0, M)
    BY <2>1 DEF Takes, Queues
  <2> QED
    BY <1>2, <1>10, <2>1, <2>2
<1>11. CASE ~Replied /\ DeliverReply
  <2>1. Moves(mainq, mainq', 0, {TellReply(down[1].comment)})
    BY <1>11, DeliverReplyStep DEF Takes, Queues
  <2>2. TellReply(down[1].comment).type = "reply"
    BY DEF TellReply
  <2> QED
    BY <1>2, <1>11, <2>1, <2>2
<1>12. CASE ~Replied /\ (EndVote \/ VoteAgain)
  BY <1>2, <1>12, VoteSteps
<1>13. CASE Disconnect
  <2>1. mainq' = mainq /\ \A i \in Made' : stage'[i] = "done" => i \in Made /\ stage[i] = "done"
    BY <1>13 DEF Disconnect, Made
  <2> QED
    BY <1>1, <2>1 DEF RepliesRun, DoneAt, ServedAt
<1> QED
  BY <1>4, <1>5, <1>6, <1>7, <1>8, <1>9, <1>10, <1>11, <1>12, <1>13
  DEF Next, User, Server, Client, MainThread, Fault

(* What is being read goes on being read, or is queued.                    *)
ReadsStay == \A n \in 1..Len(reads) : \A q : q = reads[n].page => Coming(q)'

(* A list on its way to page p stays on its way, unless its block is run.  *)
LEMMA ComingStays ==
  ASSUME NEW c, NEW M, Moves(mainq, mainq', c, M),
         ReadsStay,
         NEW p, Coming(p),
         c = 1 => \/ mainq[1].type \notin {"comments", "dismissed"}
                  \/ mainq[1].page # p \/ Coming(p)'
  PROVE  Coming(p)'
<1>1. CASE \E n \in 1..Len(reads) : reads[n].page = p
  BY <1>1 DEF ReadsStay
<1>2. CASE \E n \in 1..Len(mainq) : mainq[n].type \in {"comments", "dismissed"} /\ mainq[n].page = p
  <2>1. PICK n \in 1..Len(mainq) : mainq[n].type \in {"comments", "dismissed"} /\ mainq[n].page = p
    BY <1>2
  <2>2. CASE n > c
    <3>1. n - c \in 1..Len(mainq') /\ mainq'[n - c] = mainq[n]
      BY <2>2 DEF Moves
    <3> QED
      BY <2>1, <3>1 DEF Coming
  <2>3. CASE ~(n > c)
    <3>1. n = 1 /\ c = 1
      BY <2>3 DEF Moves
    <3> QED
      BY <2>1, <3>1
  <2> QED
    BY <2>2, <2>3
<1> QED
  BY <1>1, <1>2 DEF Coming

(* Reads that are left alone, or answered, are on their way.               *)
LEMMA ReadsCome ==
  ASSUME Shape
  PROVE  /\ UNCHANGED reads => ReadsStay
         /\ \A how \in {"server", "vote", "error"}, S \in SUBSET Nat :
              mainq' = mainq \o Answered(how, S)
                => ReadsStay
         /\ \A p : Asks(p, 0) \/ Asks(p, 1)
              => Coming(p)' /\ ReadsStay
<1>1. reads \in Seq(Reads) /\ mainq \in Seq(Blocks)
  BY DEF Shape, QueueShape
<1>2. ASSUME UNCHANGED reads PROVE ReadsStay
  BY <1>2 DEF ReadsStay, Coming
<1>3. ASSUME NEW how \in {"server", "vote", "error"}, NEW S \in SUBSET Nat,
             mainq' = mainq \o Answered(how, S)
      PROVE  ReadsStay
  <2>1. /\ Answered(how, S) \in Seq(Blocks) /\ Len(Answered(how, S)) = Len(reads)
        /\ \A n \in 1..Len(reads) : Answered(how, S)[n] = Block(reads[n], how, S)
    BY <1>3, AnsweredFacts
  <2>2. /\ Len(mainq') = Len(mainq) + Len(reads) /\ Len(mainq) \in Nat /\ Len(reads) \in Nat
        /\ \A n \in 1..Len(reads) : mainq'[Len(mainq) + n] = Answered(how, S)[n]
    <3>1. ASSUME NEW r \in Seq(Blocks), mainq' = mainq \o r, Len(r) = Len(reads)
          PROVE  /\ Len(mainq') = Len(mainq) + Len(reads)
                 /\ \A n \in 1..Len(reads) : mainq'[Len(mainq) + n] = r[n]
      <4>1. /\ Len(mainq \o r) = Len(mainq) + Len(r)
            /\ \A n \in 1..Len(r) : (mainq \o r)[Len(mainq) + n] = r[n]
        BY <1>1, ConcatFacts
      <4> QED
        BY <3>1, <4>1
    <3> QED
      BY <1>1, <1>3, <2>1, <3>1, QueueFacts
  <2>3. \A n : /\ Block(reads[n], how, S).type = "comments"
               /\ Block(reads[n], how, S).page = reads[n].page
    BY DEF Block
  <2>4. \A n \in 1..Len(reads) : Len(mainq) + n \in 1..Len(mainq')
    BY <2>2
  <2>5. \A n \in 1..Len(reads) :
          \E k \in 1..Len(mainq') : mainq'[k].type = "comments" /\ mainq'[k].page = reads[n].page
    <3>1. ASSUME NEW n \in 1..Len(reads), NEW k, k = Len(mainq) + n
          PROVE  /\ k \in 1..Len(mainq') /\ mainq'[k].type = "comments"
                 /\ mainq'[k].page = reads[n].page
      <4>1. k \in 1..Len(mainq') /\ mainq'[k] = Block(reads[n], how, S)
        BY <2>1, <2>2, <2>4, <3>1
      <4> QED
        BY <2>3, <4>1
    <3> QED
      BY <3>1
  <2> QED
    BY <2>5 DEF ReadsStay, Coming
<1>4. ASSUME NEW p, Asks(p, 0) \/ Asks(p, 1)
      PROVE  Coming(p)' /\ ReadsStay
  <2>1. CASE vote.on
    <3>1. reads' = reads
      BY <1>4, <2>1 DEF Asks
    <3>2. PICK n \in 1..Len(mainq') : mainq'[n] = VoteBlock(p)
      BY <1>4, <2>1 DEF Asks
    <3>3. VoteBlock(p).type = "comments" /\ VoteBlock(p).page = p
      BY DEF VoteBlock, Block, Asking
    <3>4. Coming(p)'
      BY <3>2, <3>3 DEF Coming
    <3> QED
      BY <1>2, <3>1, <3>4
  <2>2. CASE ~vote.on
    <3>1. reads' = Append(reads, Asking(p)) /\ Asking(p) \in Reads
      BY <1>4, <2>2 DEF Asks
    <3>2. /\ Len(reads') = Len(reads) + 1 /\ Len(reads) \in Nat
          /\ \A n \in 1..Len(reads) : reads'[n] = reads[n]
          /\ reads'[Len(reads) + 1] = Asking(p)
      BY <1>1, <3>1, AppendFacts, QueueFacts
    <3>3. Asking(p).page = p
      BY DEF Asking
    <3>4. Len(reads) + 1 \in 1..Len(reads') /\ \A n \in 1..Len(reads) : n \in 1..Len(reads')
      BY <3>2
    <3>5. Coming(p)'
      BY <3>2, <3>3, <3>4 DEF Coming
    <3>6. ReadsStay
      BY <3>2, <3>4 DEF ReadsStay, Coming
    <3> QED
      BY <3>5, <3>6
  <2> QED
    BY <2>1, <2>2
<1> QED
  BY <1>2, <1>3, <1>4

(* The screen is left alone, and the lists on their way to it.             *)
LEMMA RepliesShowStay ==
  ASSUME RepliesShow, Known, UNCHANGED <<returned, page, table, listed>>,
         \A i \in Made : from'[i] = from[i],
         NEW c, NEW M, Moves(mainq, mainq', c, M),
         ReadsStay,
         c = 1 => \/ mainq[1].type \notin {"comments", "dismissed"}
                  \/ \A q : q = mainq[1].page => Coming(q)'
  PROVE  RepliesShow'
<1> SUFFICES ASSUME NEW i \in returned, from'[i].page = page', page' # 0,
                    NEW p, p = page, ~Coming(p)', listed'.how = "server"
             PROVE  i \in table'
  BY DEF RepliesShow, Coming
<1>1. ~Coming(p)
  BY ComingStays
<1>2. from'[i] = from[i]
  BY DEF Known, Stored
<1> QED
  BY <1>1, <1>2 DEF RepliesShow, Coming

(* What returned with a dismissed sheet is listed, or being read.          *)
LEMMA RepliesShowNext ==
  ASSUME Shape, Known, Known', RepliesRun, RepliesShow, Next
  PROVE  RepliesShow'
<1>1. /\ reads \in Seq(Reads) /\ mainq \in Seq(Blocks) /\ down \in Seq(Messages)
      /\ Pending \subseteq Nat
  BY Numbers DEF Shape, QueueShape
<1>2. CASE OpenPost
  <2>1. page' = pages + 1 /\ from' = from /\ returned' = returned /\ pages \in Nat
    BY <1>2, Numbers DEF OpenPost, writing
  <2>2. \A i \in returned : from[i].page \in Nat /\ from[i].page <= pages
    BY DEF Known, Stored, Shape, CommentShape, Origins
  <2>3. \A i \in returned : from[i].page # pages + 1
    BY <2>1, <2>2
  <2> QED
    BY <2>1, <2>3 DEF RepliesShow
<1>3. CASE Back
  BY <1>3 DEF Back, RepliesShow
<1>4. CASE Pull \/ Dismissed
  <2>1. PICK p, k : /\ Asks(p, k) /\ Moves(mainq, mainq', k, {VoteBlock(p)})
                    /\ k = 1 => p = mainq[1].page
    BY <1>4, AskedMoves
  <2>2. k \in {0, 1}
    BY <2>1 DEF Moves
  <2>3. Coming(p)' /\ ReadsStay
    BY <2>1, <2>2, ReadsCome
  <2>4. UNCHANGED <<returned, page, table, listed, from>>
    BY <1>4 DEF Pull, Dismissed, writing, screen, history
  <2> QED
    BY <2>1, <2>3, <2>4, RepliesShowStay
<1>5. CASE OpenSheet \/ CloseSheet \/ StoreComment \/ RefuseComment \/ AnswerRead
           \/ RefuseRead \/ AcceptVote \/ RefuseVote \/ EndVote \/ VoteAgain \/ Disconnect
  <2>1. UNCHANGED <<reads, mainq, returned, page, table, listed, from>>
    BY <1>5 DEF OpenSheet, CloseSheet, StoreComment, RefuseComment, AnswerRead, RefuseRead,
                AcceptVote, RefuseVote, EndVote, VoteAgain, Disconnect, writing, screen,
                history, link
  <2>2. Moves(mainq, mainq', 0, {})
    BY <1>1, <2>1, MoveNone
  <2> QED
    BY <2>1, <2>2, ReadsCome, RepliesShowStay
<1>6. CASE Reply \/ OthersComment
  <2>1. UNCHANGED <<reads, mainq, returned, page, table, listed>>
    BY <1>6 DEF Reply, OthersComment, screen, history, link
  <2>2. Moves(mainq, mainq', 0, {})
    BY <1>1, <2>1, MoveNone
  <2>3. \A i \in Made : from'[i] = from[i]
    <3>1. PICK f : from' = Append(from, f)
      BY <1>6 DEF Reply, OthersComment
    <3>2. from \in Seq(Origins) /\ Len(from) = made
      BY Numbers DEF Shape, CommentShape, Made
    <3> QED
      BY <3>1, <3>2 DEF Made
  <2> QED
    BY <2>1, <2>2, <2>3, ReadsCome, RepliesShowStay
<1>7. CASE StartVote
  <2>1. UNCHANGED <<returned, page, table, listed, from>> /\ mainq' = mainq \o Answered("vote", Pending)
    BY <1>7 DEF StartVote, writing, screen, history
  <2>2. ReadsStay
    BY <1>1, <2>1, ReadsCome
  <2>3. PICK M : Moves(mainq, mainq', 0, M)
    <3>1. Moves(mainq, mainq', 0, {Block(reads[n], "vote", Pending) : n \in 1..Len(reads)})
      BY <1>7, StartStep DEF Queues
    <3> QED
      BY <3>1
  <2> QED
    BY <2>1, <2>2, <2>3, RepliesShowStay
<1>8. CASE DeliverComments \/ DeliverError
  <2>1. UNCHANGED <<returned, page, table, listed, from>>
    BY <1>8 DEF DeliverComments, DeliverError, writing, screen, history
  <2>2. PICK how \in {"server", "vote", "error"}, S \in SUBSET Nat :
          mainq' = mainq \o Answered(how, S)
    <3>1. CASE DeliverComments
      <4>1. down # << >> /\ Head(down).type = "comments" /\ Head(down) \in Messages
        BY <1>1, <3>1, TailFacts DEF DeliverComments, Told
      <4>2. Overlaid(Head(down).told) \subseteq Nat
        BY <1>1, <4>1, MessageFacts DEF Overlaid
      <4> QED
        BY <3>1, <4>2 DEF DeliverComments
    <3>2. CASE DeliverError
      BY <3>2 DEF DeliverError
    <3> QED
      BY <1>8, <3>1, <3>2
  <2>3. ReadsStay
    BY <2>2, ReadsCome
  <2>4. PICK M : Moves(mainq, mainq', 0, M)
    <3>1. Answered(how, S) \in Seq(Blocks)
      BY AnsweredFacts
    <3>2. \A n \in 1..Len(Answered(how, S)) : Answered(how, S)[n] \in Blocks
      BY <3>1
    <3>3. Moves(mainq, mainq', 0, Blocks)
      BY <1>1, <2>2, <3>1, <3>2, MoveConcat
    <3> QED
      BY <3>3
  <2> QED
    BY <2>1, <2>3, <2>4, RepliesShowStay
<1>9. CASE DeliverReply
  <2>1. UNCHANGED <<reads, returned, page, table, listed, from>>
    BY <1>9 DEF DeliverReply, screen, history
  <2>2. Moves(mainq, mainq', 0, {TellReply(down[1].comment)})
    BY <1>9, DeliverReplyStep DEF Takes, Queues
  <2> QED
    BY <2>1, <2>2, ReadsCome, RepliesShowStay
<1>10. CASE NotReplied
  <2>1. UNCHANGED <<reads, returned, page, table, listed, from>>
    BY <1>10 DEF NotReplied, history, link
  <2>2. Moves(mainq, mainq', 1, {}) /\ mainq[1].type = "reply"
    BY <1>10, MainSteps DEF Runs, Queues
  <2> QED
    BY <2>1, <2>2, ReadsCome, RepliesShowStay
<1>11. CASE ShowComments
  <2>1. /\ Moves(mainq, mainq', 1, {}) /\ mainq[1].type = "comments" /\ 1 \in 1..Len(mainq)
        /\ mainq[1] = Head(mainq)
    BY <1>11, MainSteps DEF Runs, Queues
  <2>2. UNCHANGED <<reads, returned, page, from>>
    BY <1>11 DEF ShowComments, link, writing
  <2>3. CASE mainq[1].page = page
    <3>1. table' = mainq[1].told /\ listed'.how = mainq[1].how
      BY <1>11, <2>1, <2>3 DEF ShowComments
    <3>2. listed'.how = "server" => ServedAt(1)
      BY <2>1, <3>1 DEF ServedAt
    <3>3. \A i \in returned : i \in Made /\ stage[i] = "done"
      BY DEF Known, Stored
    <3>4. listed'.how = "server" => \A i \in returned : i \in table'
      BY <3>1, <3>2, <3>3 DEF RepliesRun
    <3> QED
      BY <2>2, <3>4 DEF RepliesShow
  <2>4. CASE mainq[1].page # page
    <3>1. UNCHANGED <<table, listed>>
      BY <1>11, <2>1, <2>4 DEF ShowComments
    <3> SUFFICES ASSUME NEW i \in returned, from'[i].page = page', page' # 0,
                        NEW p, p = page, ~Coming(p)', listed'.how = "server"
                 PROVE  i \in table'
      BY <2>2 DEF RepliesShow, Coming
    <3>2. ReadsStay
      BY <2>2, ReadsCome
    <3>3. ~Coming(p)
      BY <2>1, <2>4, <3>2, ComingStays
    <3> QED
      BY <2>2, <3>1, <3>3 DEF RepliesShow, Coming
  <2> QED
    BY <2>3, <2>4
<1>12. CASE Replied
  <2> DEFINE i == mainq[1].comment
  <2>1. UNCHANGED <<reads, page, table, listed, from>>
    BY <1>12 DEF Replied, link
  <2>2. /\ Moves(mainq, mainq', 1, {DismissedBlock(from[i].page)}) /\ mainq[1].type = "reply"
        /\ mainq[1] = Head(mainq) /\ 1 \in 1..Len(mainq)
    BY <1>12, MainSteps DEF Runs, Queues
  <2>3. ReadsStay
    BY <2>1, ReadsCome
  <2>4. \/ returned' = returned
        \/ /\ returned' = returned \cup {i}
           /\ mainq' = Append(Tail(mainq), DismissedBlock(from[i].page))
    BY <1>12, <2>2 DEF Replied, DismissedBlock
  <2>5. CASE returned' = returned
    BY <2>1, <2>2, <2>3, <2>5, RepliesShowStay
  <2>6. CASE /\ returned' = returned \cup {i}
             /\ mainq' = Append(Tail(mainq), DismissedBlock(from[i].page))
    <3>1. /\ Tail(mainq) \in Seq(Blocks) /\ DismissedBlock(from[i].page) \in Blocks
      <4>1. mainq # << >> /\ DoneAt(1)
        BY <1>1, <2>2, QueueFacts DEF DoneAt
      <4>2. i \in Made
        BY <4>1 DEF Known, Dones
      <4>3. from[i].page \in Nat
        BY <4>2 DEF Shape, CommentShape, Origins
      <4> QED
        BY <1>1, <4>1, <4>3, TailFacts DEF DismissedBlock, Blocks
    <3>2. /\ Len(mainq') = Len(Tail(mainq)) + 1 /\ Len(Tail(mainq)) \in Nat
          /\ mainq'[Len(Tail(mainq)) + 1] = DismissedBlock(from[i].page)
      BY <2>6, <3>1, AppendFacts, QueueFacts
    <3>3. \E n \in 1..Len(mainq') : mainq'[n] = DismissedBlock(from[i].page)
      <4>1. Len(Tail(mainq)) + 1 \in 1..Len(mainq')
        BY <3>2
      <4> QED
        BY <3>2, <4>1
    <3>4. \A p : p = from[i].page => Coming(p)'
      BY <3>3 DEF Coming, DismissedBlock
    <3> HIDE DEF i
    <3> SUFFICES ASSUME NEW j \in returned', from'[j].page = page', page' # 0,
                        NEW p, p = page, ~Coming(p)', listed'.how = "server"
                 PROVE  j \in table'
      BY <2>1 DEF RepliesShow, Coming
    <3>5. j # i
      BY <2>1, <3>4
    <3>6. ~Coming(p)
      BY <2>2, <2>3, ComingStays
    <3> QED
      BY <2>1, <2>6, <3>5, <3>6 DEF RepliesShow, Coming
  <2> QED
    BY <2>4, <2>5, <2>6
<1> QED
  BY <1>2, <1>3, <1>4, <1>5, <1>6, <1>7, <1>8, <1>9, <1>10, <1>11, <1>12
  DEF Next, User, Server, Client, MainThread, Fault

(* The three parts of Included.                                            *)
LEMMA IncludedNext ==
  ASSUME Shape, Known, Known', Included, Next
  PROVE  Included'
BY RepliesComeNext, RepliesRunNext, RepliesShowNext DEF Included

-----------------------------------------------------------------------------
(* The inductive invariant, and what follows from it.                      *)

(* The invariant is about the variables only.                              *)
LEMMA Stutter == IInv /\ UNCHANGED vars => IInv'
<1> SUFFICES ASSUME IInv, UNCHANGED vars PROVE IInv'
  OBVIOUS
<1> USE DEF vars, writing, link, screen, bounds, history
<1>1. Shape'
  BY DEF IInv, Shape, CommentShape, QueueShape, ScreenShape, VoteShape, Made
<1>2. Known'
  BY DEF IInv, Known, Stored, Puts, Replies, Dones, PutAt, ReplyAt, DoneAt, Made
<1>3. Listable'
  BY DEF IInv, Listable, Exists, Pending, Made
<1>4. Flight'
  BY DEF IInv, Flight, ListenAt, AnswerAt, VoteAt, VotedAt
<1>5. Covered'
  BY DEF IInv, Covered, AnswerAt
<1>6. Included'
  BY DEF IInv, Included, RepliesCome, RepliesRun, RepliesShow, ReplyAt, ToldAt, DoneAt,
         ServedAt, Coming, Made
<1> QED
  BY <1>1, <1>2, <1>3, <1>4, <1>5, <1>6 DEF IInv

(* The inductive invariant holds in every state.                           *)
THEOREM Invariance == Spec => []IInv
<1>1. Init => IInv
  BY ShapeInit, KnownInit, ListableInit, FlightInit, CoveredInit, IncludedInit DEF IInv
<1>2. IInv /\ [Next]_vars => IInv'
  <2> SUFFICES ASSUME IInv, Next PROVE IInv'
    BY Stutter
  <2>1. Shape'
    BY ShapeUser, ShapeServer, ShapePhone DEF IInv, Next, User, MainThread
  <2>2. Known'
    BY KnownNext DEF IInv
  <2>3. Listable' /\ Flight' /\ Covered'
    BY ListableNext, FlightNext, CoveredNext DEF IInv
  <2>4. Included'
    BY <2>2, IncludedNext DEF IInv
  <2> QED
    BY <2>1, <2>2, <2>3, <2>4 DEF IInv
<1> QED
  BY <1>1, <1>2, PTL DEF Spec

(* What is listed was made: it is stored, pending or refused.              *)
LEMMA ExistsMade == Shape => Exists \subseteq Made /\ stored \subseteq Made
BY DEF Shape, CommentShape, Exists, Pending

(* The types, and: a read that waits has its listen, or the answer of it,  *)
(* on its way, whatever was lost in between (see Disconnect).              *)
THEOREM TypesHold == Spec => []TypeOK
<1>1. IInv => TypeOK
  <2> SUFFICES ASSUME IInv PROVE TypeOK
    OBVIOUS
  <2>1. Shape /\ Listable /\ Flight
    BY DEF IInv
  <2>2. /\ made \in 0..MaxComments
        /\ stored \subseteq Made /\ denied \subseteq Made /\ stage \in [Made -> Stages]
        /\ page \in 0..pages /\ sheet \in [id : 0..sheets, alert : BOOLEAN]
        /\ spinner \in BOOLEAN
    BY <2>1 DEF Shape, CommentShape, ScreenShape
  <2>3. table \subseteq Made /\ vote.base \subseteq Made
    BY <2>1, ExistsMade DEF Listable
  <2>4. vote \in [on : BOOLEAN, base : SUBSET Made, marks : Nat]
    BY <2>1, <2>3 DEF Shape, VoteShape
  <2>5. reads # << >> =>
          \E m \in Elements(up) \cup Elements(down) : m.type \in {"listen", "comments", "error"}
    <3>1. reads # << >> => \E n : ListenAt(n) \/ AnswerAt(n)
      BY <2>1 DEF Flight
    <3> QED
      BY <3>1 DEF ListenAt, AnswerAt, Elements
  <2> QED
    BY <2>2, <2>3, <2>4, <2>5 DEF TypeOK
<1> QED
  BY <1>1, Invariance, PTL

(* Nothing is ever listed that is neither in the database nor on its way   *)
(* there, nor was refused: what a vote shows of the post, what the server  *)
(* tells and what is on screen are all of that kind.                       *)
THEOREM ListedExistsHolds == Spec => []ListedExists
<1>1. IInv => ListedExists
  BY DEF IInv, Listable, ListedExists, Exists
<1> QED
  BY <1>1, Invariance, PTL

(* A list answered by the server lacks nothing that was stored when its    *)
(* listen was sent.                                                        *)
THEOREM ListIsCompleteHolds == Spec => []ListIsComplete
<1>1. IInv => ListIsComplete
  BY DEF IInv, Covered, ListIsComplete
<1> QED
  BY <1>1, Invariance, PTL

(* A comment whose sheet was dismissed by its success is in the list that  *)
(* the user comes back to, once that is read: the answer of no earlier     *)
(* read can hide it.                                                       *)
THEOREM ReplyIsListedHolds == Spec => []ReplyIsListed
<1>1. IInv => ReplyIsListed
  <2> SUFFICES ASSUME IInv, page # 0, reads = << >>, mainq = << >>, listed.how = "server",
                      NEW i \in returned, from[i].page = page
               PROVE  i \in table
    BY DEF ReplyIsListed
  <2>1. ~Coming(page)
    BY DEF Coming
  <2> QED
    BY <2>1 DEF IInv, Included, RepliesShow
<1> QED
  BY <1>1, Invariance, PTL

=============================================================================
