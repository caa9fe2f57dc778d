------------------------- MODULE PostSyncProperties -------------------------
(***************************************************************************)
(* What the client's transactions guarantee on one post.                   *)
(***************************************************************************)
EXTENDS PostSync

Statuses == {"run", "sent", "sentNeedsAbort", "needsAbort", "completed"}
Outcomes == {"none", "ok", "set", "maxretries", "disconnect"}

Transactions == [dev : Devices, status : Statuses, retries : 0..MaxRetries,
                 out : Node, why : Outcomes, told : Outcomes, sets : Nat]

(* The type of every variable; in particular a transaction is pending in   *)
(* the writes of its own phone exactly while its completion has not been   *)
(* called.                                                                 *)
TypeOK ==
  /\ post \in Node
  /\ watch \in [Devices -> BOOLEAN]
  /\ cache \in [Devices -> Node]
  /\ txn \in Seq(Transactions)
  /\ feed \in [Devices -> {"idle", "sent", "answered"}]
  /\ online \in [Devices -> BOOLEAN]
  /\ \A d \in Devices :
       /\ Elements(queue[d]) \subseteq UnderWay(txn, d)
       /\ Elements(writes[d]) \ Comments = UnderWay(txn, d)
       /\ Elements(writes[d]) \cap Comments \subseteq written
  /\ applied \subseteq Started

(* The counter is the number of transactions that the server accepted:     *)
(* none is lost, or added twice, by an attempt that was computed from old  *)
(* data, by lost answers, or by comments (runTransactionBlock: an          *)
(* optimistic-concurrency transactional update).                           *)
EveryCommitCounts == post.ups = Cardinality(applied)

(* The same, unless a transaction waited behind another while its phone    *)
(* listened elsewhere, had an answer kept back over a reconnect, or waited *)
(* for the answer to a transaction that a comment had overridden.          *)
CountIsWhole == crowded \/ EveryCommitCounts

(* Under the same condition no transaction takes away a comment that is    *)
(* stored, although each writes the whole post.                            *)
CommentsStay == [][post.comments \subseteq post'.comments \/ crowded]_vars

(* A transaction whose completion is told that it was overridden by a set, *)
(* or tried too often, has not changed the post and never will; only after *)
(* a lost connection that is not known.                                    *)
FailureIsTrue ==
  \A t \in Started : txn[t].told \in {"set", "maxretries"} =>
    /\ t \notin applied
    /\ \A i \in 1..Len(outbox[txn[t].dev]) :
         outbox[txn[t].dev][i].type = "put"
         => t \notin Elements(outbox[txn[t].dev][i].batch)

(* A read of the feed shows a whole post unless a transaction of the phone *)
(* has had no answer yet, or will not have one: Post.fromDictionary stops  *)
(* the app at a post without its fields.                                   *)
ReadIsWhole ==
  \A d \in Devices : Received(d, "value") /\ Head(down[d]).what = "feed" =>
    Shown(d).whole \/ \E t \in UnderWay(txn, d) : txn[t].retries < 2 \/ txn[t].sets > 1

(* A phone that has nothing to handle has sent the first transaction of    *)
(* its queue, and waits for its answer.                                    *)
QueueIsSent ==
  \A d \in Devices : Free(d) /\ queue[d] # << >> =>
    /\ txn[queue[d][1]].status \in {"sent", "sentNeedsAbort"}
    /\ \/ \E i \in 1..Len(unanswered[d]) : queue[d][1] \in Elements(unanswered[d][i])
       \/ \E i \in 1..Len(held[d]) : queue[d][1] \in Elements(held[d][i].what)

Told(t) == t \in Started /\ txn[t].told # "none"

(* "This block will be triggered once the transaction is complete, whether *)
(* it was successful or not" (FIRDatabaseReference.h:762).                 *)
EveryTransactionIsTold == \A t \in 1..MaxTransactions : t \in Started ~> Told(t)

(* That holds unless two comments were set on the post while the           *)
(* transaction was under way.                                              *)
UndisturbedIsTold ==
  \A t \in 1..MaxTransactions :
    t \in Started ~> Told(t) \/ (t \in Started /\ txn[t].sets > 1)

=============================================================================
