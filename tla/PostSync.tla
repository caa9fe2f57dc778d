------------------------------ MODULE PostSync ------------------------------
(***************************************************************************)
(* The transaction engine of the database client, on one post.             *)
(*                                                                         *)
(* A vote's transaction is an optimistic loop.  The client runs the block  *)
(* on the post as it knows it, pending writes included, lays the result    *)
(* over what it knows, and sends it with the hash of the state it should   *)
(* replace.  The server takes it if the hash is right; otherwise the block *)
(* is run again.  Transactions of one phone wait in a queue until those    *)
(* before them are answered.  Meanwhile other phones write the post, the   *)
(* app reads the feed, comments are set below the post, and connections    *)
(* break.                                                                  *)
(*                                                                         *)
(* Everything a phone does here happens on the client's serial queue; a    *)
(* handler is one step.  What a listen asks for and its acknowledgement    *)
(* are two messages that follow each other; here they are one.             *)
(***************************************************************************)
EXTENDS Integers, Sequences, FiniteSets

CONSTANTS
  Devices,          \* phones
  Comments,         \* the comments that may be written
  MaxRetries,       \* attempts after which a transaction is given up (25)
  MaxTransactions,  \* bound: transactions, of all phones together
  MaxEvents         \* bound: everything else the app and the network do:
                    \* comments, reads of the feed, listens elsewhere,
                    \* lost connections, refused comments

(* Transactions are numbered; a comment is none of them.                   *)
ASSUME CommentAssumption == \A c \in Comments : c \notin Nat

ASSUME RetriesAssumption == MaxRetries \in Nat \ {0}

ASSUME BoundAssumption == MaxTransactions \in Nat /\ MaxEvents \in Nat

VARIABLES
  post,         \* the post in the database
  watch,        \* watch[d]: the server tells d of every change of the post
  \* the client, per phone
  cache,        \* cache[d]: the post as the server last told it, if watched
  queue,        \* queue[d]: transactions not yet completed, in order
  writes,       \* writes[d]: pending writes (transactions, comments), in order
  txn,          \* txn[t]: transaction t
  feed,         \* feed[d]: the read of the feed: "idle", "sent", "answered"
  \* the connection, per phone
  online,
  outbox,       \* requests the server has not processed yet, in order
  down,         \* messages of the server not yet delivered, in order
  unanswered,   \* puts of transactions without an answer
  held,         \* answers kept back while a listen is unacknowledged
  todo,         \* answers being handled
  \* bounds
  written,      \* the comments that have been set
  events,
  \* history
  applied,      \* the transactions that the server accepted
  crowded       \* a transaction waited behind another while its phone
                \* listened elsewhere, or had more to come (Elsewhere)

client  == <<cache, queue, writes, txn>>
network == <<outbox, down, unanswered, held, todo>>
bounds  == <<written, events>>
history == <<applied, crowded>>

vars == <<post, watch, client, feed, online, network, bounds, history>>

(* What is stored at posts/p: whether it has the fields of a post, the     *)
(* counter, and the comments below it.                                     *)
Node == [whole : BOOLEAN, ups : Int, comments : SUBSET Comments]
Empty == [whole |-> FALSE, ups |-> 0, comments |-> {}]

Started == 1..Len(txn)

(* A transaction listens to its post until its completion is called.       *)
UnderWay(tx, d) == {t \in 1..Len(tx) : tx[t].dev = d /\ tx[t].told = "none"}

Elements(s) == {s[i] : i \in 1..Len(s)}

(* The elements of s in keep, and those not in gone, in their order.       *)
Only(s, keep) ==
  LET at == {i \in 1..Len(s) : s[i] \in keep}
  IN [k \in 1..Cardinality(at) |->
        s[CHOOSE i \in at : Cardinality({j \in at : j <= i}) = k]]

Without(s, gone) == Only(s, Elements(s) \ gone)

(* The transaction block: one more upvote, on whatever is there.           *)
Plus(n, k) == [n EXCEPT !.ups = @ + k]

(***************************************************************************)
(* The state of a phone that its handlers work on.                         *)
(***************************************************************************)

State(d) == [cache |-> cache[d], queue |-> queue[d], writes |-> writes[d],
             txn |-> txn, feed |-> feed[d], unanswered |-> unanswered[d],
             puts |-> << >>]

(* latestStateAtPath: a transaction writes the whole post, a comment adds  *)
(* to it.  A post that is not known counts as empty.                       *)
Latest(s, excluded) ==
  LET ws == Without(s.writes, excluded)
      overwrites == {i \in 1..Len(ws) : ws[i] \notin Comments}
      top == IF overwrites = {} THEN 0
             ELSE CHOOSE i \in overwrites : \A j \in overwrites : j <= i
      base == IF top = 0 THEN s.cache ELSE s.txn[ws[top]].out
  IN [base EXCEPT !.comments = @ \cup {ws[i] : i \in (top + 1)..Len(ws)}]

ForgetLast(s, gone) ==          \* mutant: only the last write is dropped
  IF s.writes # << >> /\ s.writes[Len(s.writes)] \in gone
  THEN [s EXCEPT !.writes = SubSeq(@, 1, Len(@) - 1)] ELSE s

Forget(s, gone) == [s EXCEPT !.writes = Without(@, gone)]

(* sendAllReadyTransactions: the queue is sent as one put if none of it is *)
(* outstanding; the last output stands for all of them.                    *)
Attempted(x) == [x EXCEPT !.status = "sent", !.retries = @ + 1]

SendReady(s) ==
  IF s.queue = << >> \/ \E t \in Elements(s.queue) : s.txn[t].status # "run"
  THEN s
  ELSE LET members == Elements(s.queue)
       IN [s EXCEPT
             !.txn = [t \in DOMAIN s.txn |->
                IF t \in members THEN Attempted(s.txn[t]) ELSE s.txn[t]],
             !.unanswered = Append(@, s.queue),
             !.puts = Append(@,
                [type |-> "put", batch |-> s.queue, hash |-> Latest(s, members),
                 data |-> s.txn[s.queue[Len(s.queue)]].out])]

(* rerunTransactionQueue.  Transactions to be aborted are told so; those   *)
(* not outstanding are run again, one on the result of the other, without  *)
(* any of the queue's writes; their new writes are the last ones.          *)
RerunOnItself(s) ==             \* mutant: the writes of the queue are not left out
  LET members == Elements(s.queue)
      tired == {t \in members : s.txn[t].status = "run" /\ s.txn[t].retries >= MaxRetries}
      gone == tired \cup {t \in members : s.txn[t].status = "needsAbort"}
      again == Only(s.queue, {t \in members : s.txn[t].status = "run"} \ tired)
      base == Latest(s, {})
      place(t) == CHOOSE i \in 1..Len(again) : again[i] = t
      moved == Forget(s, gone \cup Elements(again))
  IN [moved EXCEPT
       !.writes = @ \o again,
       !.queue = Without(@, gone),
       !.txn = [t \in DOMAIN s.txn |->
          IF t \in gone
          THEN [s.txn[t] EXCEPT
                  !.status = "completed",
                  !.told = IF t \in tired THEN "maxretries" ELSE s.txn[t].why]
          ELSE IF t \in Elements(again)
          THEN [s.txn[t] EXCEPT !.out = Plus(base, place(t))]
          ELSE s.txn[t]]]

Rerun(s) ==
  LET members == Elements(s.queue)
      tired == {t \in members : s.txn[t].status = "run" /\ s.txn[t].retries >= MaxRetries}
      gone == tired \cup {t \in members : s.txn[t].status = "needsAbort"}
      again == Only(s.queue, {t \in members : s.txn[t].status = "run"} \ tired)
      base == Latest(s, members)
      place(t) == CHOOSE i \in 1..Len(again) : again[i] = t
      moved == Forget(s, gone \cup Elements(again))
  IN [moved EXCEPT
       !.writes = @ \o again,
       !.queue = Without(@, gone),
       !.txn = [t \in DOMAIN s.txn |->
          IF t \in gone
          THEN [s.txn[t] EXCEPT
                  !.status = "completed",
                  !.told = IF t \in tired THEN "maxretries" ELSE s.txn[t].why]
          ELSE IF t \in Elements(again)
          THEN [s.txn[t] EXCEPT !.out = Plus(base, place(t))]
          ELSE s.txn[t]]]

(***************************************************************************)
(* What a handler leaves behind.                                           *)
(***************************************************************************)

Listen(what) == [type |-> "listen", what |-> what]

(* Puts are kept while the phone is offline; listens are restored later.   *)
Say(d, m) == IF online[d] THEN <<m>> ELSE << >>

(* The handler's state becomes that of the phone.  When the last           *)
(* transaction is completed nobody listens to the post any more.           *)
Commit(d, s) ==
  LET over == UnderWay(s.txn, d) = {}
  IN /\ txn' = s.txn
     /\ feed' = [feed EXCEPT ![d] = s.feed]
     /\ queue' = [queue EXCEPT ![d] = s.queue]
     /\ writes' = [writes EXCEPT ![d] = s.writes]
     /\ cache' = [cache EXCEPT ![d] =
          IF over /\ s.feed # "answered" THEN Empty ELSE s.cache]
     /\ outbox' = [outbox EXCEPT ![d] = @ \o s.puts \o
          (IF over /\ s.feed = "idle" /\ UnderWay(txn, d) # {}
           THEN Say(d, [type |-> "unlisten"]) ELSE << >>)]
     /\ unanswered' = [unanswered EXCEPT ![d] = s.unanswered]

(* The end of a handler that may have changed what transactions run on:    *)
(* they are run again, and sent.                                           *)
CommitUnsent(d, s) ==           \* mutant: what is run again is not sent again
  \E again \in {Rerun(s)} : Commit(d, again)

CommitRerun(d, s) ==
  \E again \in {Rerun(s)} : \E sent \in {SendReady(again)} : Commit(d, sent)

(* No answers are waiting to be handled before anything else is done.      *)
Free(d) == todo[d] = << >>

(* A transaction waits for those before it to be answered.                 *)
Waiting(d) == \E t \in Elements(queue[d]) : txn[t].status = "run"

(* Listens, other than the first one for a transaction, that have not been *)
(* answered yet; an answer kept back; a transaction whose queue a comment  *)
(* has dropped, and whose answer is still to come.                         *)
Elsewhere(d) ==
  \/ feed[d] # "idle"
  \/ \E m \in Elements(outbox[d]) \cup Elements(down[d]) :
       m.type \in {"listen", "value"} /\ m.what \notin {"post", "restored"}
  \/ held[d] # << >>
  \/ UnderWay(txn, d) \ Elements(queue[d]) # {}

Init ==
  /\ post = [whole |-> TRUE, ups |-> 0, comments |-> {}]
  /\ watch = [d \in Devices |-> FALSE]
  /\ cache = [d \in Devices |-> Empty]
  /\ queue = [d \in Devices |-> << >>]
  /\ writes = [d \in Devices |-> << >>]
  /\ txn = << >>
  /\ feed = [d \in Devices |-> "idle"]
  /\ online = [d \in Devices |-> TRUE]
  /\ outbox = [d \in Devices |-> << >>]
  /\ down = [d \in Devices |-> << >>]
  /\ unanswered = [d \in Devices |-> << >>]
  /\ held = [d \in Devices |-> << >>]
  /\ todo = [d \in Devices |-> << >>]
  /\ written = {}
  /\ events = 0
  /\ applied = {}
  /\ crowded = FALSE

(***************************************************************************)
(* The app.                                                                *)
(***************************************************************************)

(* startTransactionOnPath: listen, run the block, show the result, send.   *)
Start(d) ==
  /\ Free(d) /\ Len(txn) < MaxTransactions
  /\ LET t == Len(txn) + 1
         s == State(d)
         begun == [s EXCEPT
           !.txn = Append(@, [dev |-> d, status |-> "run", retries |-> 0,
                              out |-> Plus(Latest(s, {}), 1),
                              why |-> "none", told |-> "none", sets |-> 0]),
           !.queue = Append(@, t), !.writes = Append(@, t)]
         first == UnderWay(txn, d) = {} /\ feed[d] = "idle"
         after == SendReady(begun)
     IN /\ txn' = after.txn
        /\ queue' = [queue EXCEPT ![d] = after.queue]
        /\ writes' = [writes EXCEPT ![d] = after.writes]
        /\ outbox' = [outbox EXCEPT ![d] =
             @ \o (IF first THEN Say(d, Listen("post")) ELSE << >>) \o after.puts]
        /\ unanswered' = [unanswered EXCEPT ![d] = after.unanswered]
  /\ crowded' = (crowded \/ (queue[d] # << >> /\ Elsewhere(d)))
  /\ UNCHANGED <<post, watch, cache, feed, online, down, held, todo, bounds,
                 applied>>

(* abortTransactionsAtNode: transactions that are outstanding are marked,  *)
(* the others completed with an error.  If none had to be marked now the   *)
(* queue is dropped, marked ones included.                                 *)
AbortForgettingToMark(s) ==     \* mutant: outstanding transactions are not marked
  LET sent == {t \in Elements(s.queue) : s.txn[t].status = "sent"}
      told == {t \in Elements(s.queue) : s.txn[t].status \notin {"sent", "sentNeedsAbort"}}
      after == Forget(s, told)
  IN [after EXCEPT
        !.queue = Only(@, sent),
        !.txn = [t \in DOMAIN s.txn |->
           IF t \in sent \cup told
           THEN [s.txn[t] EXCEPT !.status = "completed", !.told = "set"]
           ELSE s.txn[t]]]

Abort(s) ==
  LET sent == {t \in Elements(s.queue) : s.txn[t].status = "sent"}
      told == {t \in Elements(s.queue) : s.txn[t].status \notin {"sent", "sentNeedsAbort"}}
      after == Forget(s, told)
  IN [after EXCEPT
        !.queue = Only(@, sent),
        !.txn = [t \in DOMAIN s.txn |->
           IF t \in sent
           THEN [s.txn[t] EXCEPT !.status = "sentNeedsAbort", !.why = "set"]
           ELSE IF t \in told
           THEN [s.txn[t] EXCEPT !.status = "completed", !.told = "set"]
           ELSE s.txn[t]]]

(* set, below the post: createComment.                                     *)
CountedSet(x) == [x EXCEPT !.sets = @ + 1]

SetComment(d, c) ==
  /\ Free(d) /\ c \notin written /\ events < MaxEvents
  /\ events' = events + 1
  /\ written' = written \cup {c}
  /\ LET s == State(d)
         counted == [t \in Started |->
           IF t \in UnderWay(txn, d) THEN CountedSet(txn[t]) ELSE txn[t]]
     IN CommitRerun(d, Abort([s EXCEPT
          !.txn = counted, !.writes = Append(@, c),
          !.puts = <<[type |-> "set", comment |-> c]>>]))
  /\ UNCHANGED <<post, watch, online, down, held, todo, history>>

(* A read of the whole feed begins.  It listens to the post, too, so that  *)
(* the transactions' own listen is taken back.                             *)
ReadFeed(d) ==
  /\ Free(d) /\ feed[d] = "idle" /\ events < MaxEvents
  /\ events' = events + 1
  /\ feed' = [feed EXCEPT ![d] = "sent"]
  /\ outbox' = [outbox EXCEPT ![d] = @ \o Say(d, Listen("feed"))]
  /\ crowded' = (crowded \/ Waiting(d))
  /\ UNCHANGED <<post, watch, client, online, down, unanswered, held, todo, written,
                 applied>>

(* The main thread has its answer and stops listening; transactions under  *)
(* way listen to the post again.                                           *)
EndRead(d) ==
  /\ Free(d) /\ feed[d] = "answered"
  /\ feed' = [feed EXCEPT ![d] = "idle"]
  /\ IF UnderWay(txn, d) = {}
     THEN /\ cache' = [cache EXCEPT ![d] = Empty]
          /\ outbox' = [outbox EXCEPT ![d] = @ \o Say(d, [type |-> "unlisten"])]
     ELSE /\ UNCHANGED cache
          /\ outbox' = [outbox EXCEPT ![d] = @ \o Say(d, Listen("again"))]
  /\ UNCHANGED <<post, watch, queue, writes, txn, online, down, unanswered, held,
                 todo, bounds, history>>

(* A listen on something else: the record of another post, comments.       *)
ListenElsewhere(d) ==
  /\ Free(d) /\ online[d] /\ events < MaxEvents
  /\ events' = events + 1
  /\ outbox' = [outbox EXCEPT ![d] = Append(@, Listen("other"))]
  /\ crowded' = (crowded \/ Waiting(d))
  /\ UNCHANGED <<post, watch, client, feed, online, down, unanswered, held, todo,
                 written, applied>>

(***************************************************************************)
(* The server: one request after the other.                                *)
(***************************************************************************)

Next1(d, type) == online[d] /\ outbox[d] # << >> /\ Head(outbox[d]).type = type

AnswerListen(d) ==
  /\ Next1(d, "listen")
  /\ LET what == Head(outbox[d]).what
     IN /\ watch' = [watch EXCEPT ![d] = @ \/ what \notin {"other", "restored"}]
        /\ down' = [down EXCEPT ![d] =
             Append(@, [type |-> "value", what |-> what, node |-> post])]
  /\ outbox' = [outbox EXCEPT ![d] = Tail(@)]
  /\ UNCHANGED <<post, client, feed, online, unanswered, held, todo, bounds, history>>

AnswerUnlisten(d) ==
  /\ Next1(d, "unlisten")
  /\ watch' = [watch EXCEPT ![d] = FALSE]
  /\ outbox' = [outbox EXCEPT ![d] = Tail(@)]
  /\ UNCHANGED <<post, client, feed, online, down, unanswered, held, todo, bounds,
                 history>>

(* Whoever watches the post is told before the writer has its answer.      *)
Publish(d, n, reply) ==
  /\ post' = n
  /\ down' = [e \in Devices |->
       down[e] \o (IF watch[e] THEN <<[type |-> "update", node |-> n]>> ELSE << >>)
               \o (IF e = d THEN <<reply>> ELSE << >>)]
  /\ outbox' = [outbox EXCEPT ![d] = Tail(@)]

Reply(what, status) == [type |-> "reply", what |-> what, status |-> status]

AcceptAnyPut(d) ==              \* mutant: the put carries no hash
  /\ Next1(d, "put")
  /\ LET m == Head(outbox[d])
     IN /\ Publish(d, m.data, Reply(m.batch, "ok"))
        /\ applied' = applied \cup Elements(m.batch)
  /\ UNCHANGED <<watch, client, feed, online, unanswered, held, todo, bounds,
                 crowded>>

AcceptPut(d) ==
  /\ Next1(d, "put") /\ Head(outbox[d]).hash = post
  /\ LET m == Head(outbox[d])
     IN /\ Publish(d, m.data, Reply(m.batch, "ok"))
        /\ applied' = applied \cup Elements(m.batch)
  /\ UNCHANGED <<watch, client, feed, online, unanswered, held, todo, bounds,
                 crowded>>

RefusePut(d) ==
  /\ Next1(d, "put") /\ Head(outbox[d]).hash # post
  /\ down' = [down EXCEPT ![d] = Append(@, Reply(Head(outbox[d]).batch, "datastale"))]
  /\ outbox' = [outbox EXCEPT ![d] = Tail(@)]
  /\ UNCHANGED <<post, watch, client, feed, online, unanswered, held, todo, bounds,
                 history>>

StoreComment(d) ==
  /\ Next1(d, "set")
  /\ LET c == Head(outbox[d]).comment
     IN Publish(d, [post EXCEPT !.comments = @ \cup {c}], Reply(<<c>>, "ok"))
  /\ UNCHANGED <<watch, client, feed, online, unanswered, held, todo, bounds, history>>

RefuseComment(d) ==
  /\ Next1(d, "set") /\ Head(outbox[d]).comment \notin post.comments
  /\ events < MaxEvents
  /\ events' = events + 1
  /\ down' = [down EXCEPT ![d] = Append(@, Reply(<<Head(outbox[d]).comment>>, "denied"))]
  /\ outbox' = [outbox EXCEPT ![d] = Tail(@)]
  /\ UNCHANGED <<post, watch, client, feed, online, unanswered, held, todo, written,
                 history>>

(***************************************************************************)
(* The connection.                                                         *)
(***************************************************************************)

(* onDisconnect: transactions that were sent are answered "disconnect",    *)
(* whatever the server has made of them; sets without an answer are kept.  *)
Kept(d) ==
  Only(writes[d],
       {c \in Comments : \A i \in 1..Len(held[d]) : held[d][i].what # <<c>>})

DisconnectForgetting(d) ==      \* mutant: transactions that were sent are not cancelled
  /\ Free(d) /\ online[d]
  /\ events < MaxEvents
  /\ events' = events + 1
  /\ online' = [online EXCEPT ![d] = FALSE]
  /\ watch' = [watch EXCEPT ![d] = FALSE]
  /\ down' = [down EXCEPT ![d] = << >>]
  /\ outbox' = [outbox EXCEPT ![d] =
       [i \in 1..Len(Kept(d)) |-> [type |-> "set", comment |-> Kept(d)[i]]]]
  /\ unanswered' = [unanswered EXCEPT ![d] = << >>]
  /\ UNCHANGED <<post, client, feed, held, todo, written, history>>

Disconnect(d) ==
  /\ Free(d) /\ online[d]
  /\ events < MaxEvents
  /\ events' = events + 1
  /\ online' = [online EXCEPT ![d] = FALSE]
  /\ watch' = [watch EXCEPT ![d] = FALSE]
  /\ down' = [down EXCEPT ![d] = << >>]
  /\ outbox' = [outbox EXCEPT ![d] =
       [i \in 1..Len(Kept(d)) |-> [type |-> "set", comment |-> Kept(d)[i]]]]
  /\ todo' = [todo EXCEPT ![d] =
       [i \in 1..Len(unanswered[d]) |-> Reply(unanswered[d][i], "disconnect")]]
  /\ unanswered' = [unanswered EXCEPT ![d] = << >>]
  /\ UNCHANGED <<post, client, feed, held, written, history>>

(* restoreState: the listens (there is always one on some record), then    *)
(* the puts.                                                               *)
Connect(d) ==
  /\ Free(d) /\ ~online[d]
  /\ online' = [online EXCEPT ![d] = TRUE]
  /\ outbox' = [outbox EXCEPT ![d] =
       <<Listen("restored")>>
         \o (IF feed[d] = "sent" THEN <<Listen("feed")>>
             ELSE IF feed[d] = "answered" THEN <<Listen("again")>>
             ELSE IF UnderWay(txn, d) # {} THEN <<Listen("post")>> ELSE << >>)
         \o @]
  /\ UNCHANGED <<post, watch, client, feed, down, unanswered, held, todo, bounds,
                 history>>

(* A listen has been sent and not been acknowledged.                       *)
Unacked(asked, told) ==
  \/ \E m \in Elements(asked) : m.type = "listen"
  \/ \E m \in Elements(told) : m.type = "value"

(* The acknowledgement of the last listen releases the answers kept back.  *)
Acknowledge(d) ==
  IF Unacked(outbox[d], Tail(down[d])) THEN UNCHANGED <<held, todo>>
  ELSE /\ todo' = [todo EXCEPT ![d] = held[d]]
       /\ held' = [held EXCEPT ![d] = << >>]

(***************************************************************************)
(* The client's queue.                                                     *)
(***************************************************************************)

Received(d, type) == Free(d) /\ down[d] # << >> /\ Head(down[d]).type = type

Take(d) == down' = [down EXCEPT ![d] = Tail(@)]

Watched(d) == UnderWay(txn, d) # {} \/ feed[d] = "answered"

Learn(d, n) == cache' = [cache EXCEPT ![d] = IF Watched(d) THEN n ELSE @]

(* onDataUpdate on the post itself.  A transaction in the queue hides it,  *)
(* so that no event is raised and nothing is run again.                    *)
DeliverUpdate(d) ==
  /\ Received(d, "update")
  /\ Learn(d, Head(down[d]).node)
  /\ Take(d)
  /\ UNCHANGED <<post, watch, queue, writes, txn, feed, online, outbox, unanswered,
                 held, todo, bounds, history>>

DeliverValue(d) ==
  /\ Received(d, "value") /\ Head(down[d]).what # "feed"
  /\ IF Head(down[d]).what \in {"other", "restored"} THEN UNCHANGED cache
     ELSE Learn(d, Head(down[d]).node)
  /\ Take(d)
  /\ Acknowledge(d)
  /\ UNCHANGED <<post, watch, queue, writes, txn, feed, online, outbox, unanswered,
                 bounds, history>>

(* The post as a read of the feed shows it: with the pending writes.       *)
Shown(d) == Latest([State(d) EXCEPT !.cache = Head(down[d]).node], {})

(* The feed arrives: it is shown, and every queue below it is run again.   *)
DeliverFeed(d) ==
  /\ Received(d, "value") /\ Head(down[d]).what = "feed"
  /\ CommitRerun(d, [State(d) EXCEPT !.cache = Head(down[d]).node, !.feed = "answered"])
  /\ Take(d)
  /\ Acknowledge(d)
  /\ UNCHANGED <<post, watch, online, bounds, history>>

(* The answer to a put is kept back while a listen is unacknowledged.      *)
HoldReply(d) ==
  /\ Received(d, "reply") /\ Unacked(outbox[d], down[d])
  /\ held' = [held EXCEPT ![d] = Append(@, Head(down[d]))]
  /\ unanswered' = [unanswered EXCEPT ![d] = Without(@, {Head(down[d]).what})]
  /\ Take(d)
  /\ UNCHANGED <<post, watch, client, feed, online, outbox, todo, bounds, history>>

(* The answer to be handled next.                                          *)
Answered(d) ==
  todo[d] # << >> \/ (Received(d, "reply") /\ ~Unacked(outbox[d], down[d]))

Answer(d) == IF todo[d] # << >> THEN Head(todo[d]) ELSE Head(down[d])

TakeAnswer(d) ==
  IF todo[d] # << >> THEN todo' = [todo EXCEPT ![d] = Tail(@)] /\ UNCHANGED down
                     ELSE Take(d) /\ UNCHANGED todo

(* The answer of a set: its write is no longer pending.                    *)
HandleSet(d) ==
  /\ Answered(d) /\ Head(Answer(d).what) \in Comments
  /\ Commit(d, Forget(State(d), Elements(Answer(d).what)))
  /\ TakeAnswer(d)
  /\ UNCHANGED <<post, watch, online, held, bounds, history>>

(* What the answer of a put makes of a transaction that it carried.        *)
SettledAgain(x, status) ==      \* mutant: a lost answer is taken for a stale one
  IF status = "ok" THEN [x EXCEPT !.status = "completed", !.told = "ok"]
  ELSE [x EXCEPT !.status = IF @ = "sentNeedsAbort" THEN "needsAbort" ELSE "run"]

Settled(x, status) ==
  IF status = "ok" THEN [x EXCEPT !.status = "completed", !.told = "ok"]
  ELSE IF status # "datastale" THEN [x EXCEPT !.status = "needsAbort", !.why = status]
  ELSE [x EXCEPT !.status = IF @ = "sentNeedsAbort" THEN "needsAbort" ELSE "run"]

(* The callback of sendTransactionQueue.  What an accepted put carried     *)
(* leaves the queue and the writes, and what waited behind it is sent,     *)
(* before the queue is run again.                                          *)
AfterPut(s, status, batch) ==
  IF status # "ok" THEN s
  ELSE SendReady([Forget(s, batch) EXCEPT !.queue = Without(@, batch)])

HandlePut(d) ==
  /\ Answered(d) /\ Head(Answer(d).what) \notin Comments
  /\ \E a \in {Answer(d)} :
       LET batch == Elements(a.what)
       IN \E s \in {[State(d) EXCEPT
                    !.unanswered = Without(@, {a.what}),
                    !.txn = [t \in Started |->
                       IF t \in batch THEN Settled(txn[t], a.status) ELSE txn[t]]]} :
          \E after \in {AfterPut(s, a.status, batch)} : CommitRerun(d, after)
  /\ TakeAnswer(d)
  /\ UNCHANGED <<post, watch, online, held, bounds, history>>

-----------------------------------------------------------------------------

App(d) ==
  \/ Start(d)
  \/ \E c \in Comments : SetComment(d, c)
  \/ ReadFeed(d)
  \/ ListenElsewhere(d)

Server(d) ==
  \/ AnswerListen(d)
  \/ AnswerUnlisten(d)
  \/ AcceptPut(d)
  \/ RefusePut(d)
  \/ StoreComment(d)

Client(d) ==
  \/ DeliverUpdate(d)
  \/ DeliverValue(d)
  \/ DeliverFeed(d)
  \/ HoldReply(d)
  \/ HandleSet(d)
  \/ HandlePut(d)
  \/ EndRead(d)

Next ==
  \E d \in Devices :
    App(d) \/ Server(d) \/ Client(d) \/ Connect(d) \/ Disconnect(d) \/ RefuseComment(d)

Spec == Init /\ [][Next]_vars

(* The server answers, the client's queue and the main thread run what     *)
(* they are given, and the client reconnects: as long as anything is under *)
(* way, something of it is done.  What phones do is bounded, so that more  *)
(* fairness among them is not needed.                                      *)
FairSpec ==
  /\ Spec
  /\ WF_vars(\E d \in Devices : Server(d) \/ Client(d) \/ Connect(d))

=============================================================================
