--------------------------- MODULE PostSyncProofs ---------------------------
(***************************************************************************)
(* Proofs about the transaction engine of the client, for any number of    *)
(* phones, transactions, attempts and comments.                            *)
(***************************************************************************)
EXTENDS PostSyncProperties, FiniteSetTheorems, SequenceTheorems, TLAPS

-----------------------------------------------------------------------------
(* The inductive invariant.                                                *)

(* The messages between client and server, and the state that handlers     *)
(* work on.                                                                *)
Puts == [type : {"put"}, batch : Seq(Nat), hash : Node, data : Node]

Kinds == {"post", "feed", "again", "other", "restored"}

Requests == Puts \cup [type : {"set"}, comment : Comments]
                 \cup [type : {"listen"}, what : Kinds] \cup [type : {"unlisten"}]

Answers == [type : {"reply"}, what : Seq(Nat) \cup Seq(Comments),
            status : {"ok", "datastale", "disconnect", "denied"}]

Notices == Answers \cup [type : {"value"}, what : Kinds, node : Node]
                   \cup [type : {"update"}, node : Node]

Phone == [cache : Node, queue : Seq(Nat), writes : Seq(Nat \cup Comments),
          txn : Seq(Transactions), feed : {"idle", "sent", "answered"},
          unanswered : Seq(Seq(Nat)), puts : Seq(Requests)]

(* Where the puts of a phone are: their requests, their answers on the     *)
(* way, those kept back, and those that are being handled.                 *)
Line == [ob : Seq(Requests), dn : Seq(Notices), hd : Seq(Answers), td : Seq(Answers)]

LineOf(d) == [ob |-> outbox[d], dn |-> down[d], hd |-> held[d], td |-> todo[d]]

Of(x, d) == {t \in 1..Len(x) : x[t].dev = d}

Pending == {"sent", "sentNeedsAbort"}

(* The transactions that a message is about.                               *)
Carried(m) ==
  IF m.type = "put" THEN Elements(m.batch)
  ELSE IF m.type = "reply" THEN Elements(m.what) \ Comments
  ELSE {}

None(t, q) == \A m \in Elements(q) : t \notin Carried(m)

Once(t, q) ==
  \E i \in 1..Len(q) : t \in Carried(q[i]) /\ \A j \in 1..Len(q) : t \in Carried(q[j]) => j = i

(* The same of the puts that have no answer yet.                           *)
Unasked(t, u) == \A b \in Elements(u) : t \notin Elements(b)

Asked(t, u) ==
  \E i \in 1..Len(u) :
    t \in Elements(u[i]) /\ \A j \in 1..Len(u) : t \in Elements(u[j]) => j = i

(* The requests of a phone, with those that the running handler adds.      *)
Asks(s, l) == l.ob \o s.puts

(* A transaction that is outstanding is in one put, which is in one place. *)
Nowhere(t, s, l) ==
  /\ None(t, Asks(s, l)) /\ None(t, l.dn) /\ None(t, l.hd) /\ None(t, l.td)
  /\ Unasked(t, s.unanswered)

InAsks(t, s, l) ==
  /\ Once(t, Asks(s, l)) /\ None(t, l.dn) /\ None(t, l.hd) /\ None(t, l.td)
  /\ Asked(t, s.unanswered)

InNotices(t, s, l) ==
  /\ None(t, Asks(s, l)) /\ Once(t, l.dn) /\ None(t, l.hd) /\ None(t, l.td)
  /\ Asked(t, s.unanswered)

InHeld(t, s, l) ==
  /\ None(t, Asks(s, l)) /\ None(t, l.dn) /\ Once(t, l.hd) /\ None(t, l.td)
  /\ Unasked(t, s.unanswered)

InTodo(t, s, l) ==
  /\ None(t, Asks(s, l)) /\ None(t, l.dn) /\ None(t, l.hd) /\ Once(t, l.td)
  /\ Unasked(t, s.unanswered)

Somewhere(t, s, l) ==
  InAsks(t, s, l) \/ InNotices(t, s, l) \/ InHeld(t, s, l) \/ InTodo(t, s, l)

Placed(d, s, l) ==
  \A t \in Of(s.txn, d) :
    IF s.txn[t].status \in Pending THEN Somewhere(t, s, l) ELSE Nowhere(t, s, l)

(* A put without an answer has been noted as it was sent.                  *)
Content(m) == IF m.type = "put" THEN m.batch ELSE m.what

Linked(q, u) ==
  \A m \in Elements(q), b \in Elements(u) :
    Carried(m) \cap Elements(b) # {} => b = Content(m)

Noted(s, l) == Linked(Asks(s, l), s.unanswered) /\ Linked(l.dn, s.unanswered)

(* Messages are about transactions of the phone.  One that is not applied  *)
(* by its put is not applied, and what is outstanding in the queue is in   *)
(* one put.                                                                *)
Fruitless(m) == m.type = "put" \/ (m.type = "reply" /\ m.status = "datastale")

Outstanding(s) == {t \in Elements(s.queue) : s.txn[t].status \in Pending}

RightMessage(d, m, s, ap) ==
  /\ Carried(m) \subseteq Of(s.txn, d)
  /\ Fruitless(m) => Carried(m) \cap ap = {}
  /\ m.type = "put" => m.batch # << >>
  /\ Carried(m) \cap Outstanding(s) # {} => Outstanding(s) \subseteq Carried(m)
  /\ m.type = "reply" =>
       \/ m.what \in Seq(Nat) \ {<< >>} /\ m.status \in {"ok", "datastale", "disconnect"}
       \/ \E c \in Comments : m.what = <<c>> /\ m.status \in {"ok", "denied"}

RightMessages(d, q, s, ap) == \A m \in Elements(q) : RightMessage(d, m, s, ap)

Carries(d, s, l, ap) ==
  /\ RightMessages(d, Asks(s, l), s, ap) /\ RightMessages(d, l.dn, s, ap)
  /\ RightMessages(d, l.hd, s, ap) /\ RightMessages(d, l.td, s, ap)
  /\ \A b \in Elements(s.unanswered) :
       /\ b # << >> /\ Elements(b) \subseteq Of(s.txn, d)
       /\ Elements(b) \cap Outstanding(s) # {} => Outstanding(s) \subseteq Elements(b)

(* What is outstanding comes first in the queue.                           *)
Queued(d, s) ==
  /\ \A t \in Elements(s.queue) :
       t \in Of(s.txn, d) /\ s.txn[t].status \in Pending \cup {"run", "needsAbort"}
  /\ \A i, j \in 1..Len(s.queue) :
       i < j /\ s.txn[s.queue[j]].status \in Pending => s.txn[s.queue[i]].status \in Pending
  /\ \A t \in Of(s.txn, d) : s.txn[t].status \in {"run", "sent"} => t \in Elements(s.queue)

(* What is known of a transaction by its status.                           *)
Honest(t, s, ap) ==
  LET x == s.txn[t]
  IN /\ x.status = "completed" <=> x.told # "none"
     /\ x.status = "sentNeedsAbort" => x.why = "set"
     /\ x.status = "run" => t \notin ap
     /\ x.told \in {"set", "maxretries"} => t \notin ap
     /\ x.status = "needsAbort" /\ t \in Elements(s.queue) =>
          x.why = "disconnect" \/ (x.why = "set" /\ t \notin ap)

(* The writes of a phone are its transactions under way and comments.      *)
Listed(d, s, w) ==
  /\ Elements(s.writes) \ Comments = UnderWay(s.txn, d)
  /\ Elements(s.writes) \cap Comments \subseteq w

(* A transaction that waits behind others has not been sent yet.           *)
Fresh(d, s) ==
  Outstanding(s) # {} =>
    \A t \in Of(s.txn, d) : s.txn[t].status = "run" => s.txn[t].retries = 0

Upright(d, s, ap) == \A t \in Of(s.txn, d) : Honest(t, s, ap)

Sound(d, s, l, ap, w) ==
  /\ Placed(d, s, l) /\ Noted(s, l) /\ Carries(d, s, l, ap)
  /\ Queued(d, s) /\ Fresh(d, s) /\ Listed(d, s, w) /\ Upright(d, s, ap)

(* Between handlers nothing in the queue is to be aborted, and it is sent. *)
Sent(s) ==
  /\ \A t \in Elements(s.queue) : s.txn[t].status # "needsAbort"
  /\ s.queue # << >> => s.txn[s.queue[1]].status # "run"

Shape ==
  /\ post \in Node
  /\ watch \in [Devices -> BOOLEAN]
  /\ cache \in [Devices -> Node]
  /\ queue \in [Devices -> Seq(Nat)]
  /\ writes \in [Devices -> Seq(Nat \cup Comments)]
  /\ txn \in Seq(Transactions)
  /\ feed \in [Devices -> {"idle", "sent", "answered"}]
  /\ online \in [Devices -> BOOLEAN]
  /\ outbox \in [Devices -> Seq(Requests)]
  /\ down \in [Devices -> Seq(Notices)]
  /\ unanswered \in [Devices -> Seq(Seq(Nat))]
  /\ held \in [Devices -> Seq(Answers)]
  /\ todo \in [Devices -> Seq(Answers)]
  /\ written \in SUBSET Comments
  /\ applied \in SUBSET Started

PhoneOf(d) == Sound(d, State(d), LineOf(d), applied, written) /\ Sent(State(d))

IInv == Shape /\ \A d \in Devices : PhoneOf(d)

-----------------------------------------------------------------------------
(* Lemmas about the operators of the model.                                *)

(* The places of a sequence that hold something wanted are counted one     *)
(* after the other.                                                        *)
LEMMA Ranks ==
  ASSUME NEW n \in Nat, NEW at \in SUBSET (1..n)
  PROVE  /\ Cardinality(at) \in Nat
         /\ \A i \in at : Cardinality({j \in at : j <= i}) \in 1..Cardinality(at)
         /\ \A i, j \in at : i < j =>
              Cardinality({x \in at : x <= i}) < Cardinality({x \in at : x <= j})
         /\ \A k \in 1..Cardinality(at) : \E i \in at : Cardinality({j \in at : j <= i}) = k
<1> DEFINE below(i) == {j \in at : j <= i}
           rank(i) == Cardinality(below(i))
<1>1. IsFiniteSet(at)
  <2>1. IsFiniteSet(1..n)
    BY FS_Interval
  <2> QED
    BY <2>1, FS_Subset
<1>2. Cardinality(at) \in Nat
  BY <1>1, FS_CardinalityType
<1>3. \A i : IsFiniteSet(below(i)) /\ rank(i) \in Nat /\ rank(i) <= Cardinality(at)
  <2> TAKE i
  <2>1. below(i) \in SUBSET at
    OBVIOUS
  <2>2. IsFiniteSet(below(i)) /\ rank(i) <= Cardinality(at)
    BY <1>1, <2>1, FS_Subset
  <2> QED
    BY <2>2, FS_CardinalityType
<1>4. \A i \in at : rank(i) # 0
  BY <1>3, FS_EmptySet
<1>5. ASSUME NEW i \in at, NEW j \in at, i < j
      PROVE  rank(i) < rank(j)
  <2>0. i \in Nat /\ j \in Nat /\ \A x \in at : x \in Nat
    OBVIOUS
  <2>1. below(i) \in SUBSET below(j) /\ j \in below(j) /\ j \notin below(i)
    <3>1. \A x \in at : x <= i => x <= j
      BY <1>5, <2>0
    <3>2. j <= j /\ ~(j <= i)
      BY <1>5, <2>0
    <3> QED
      BY <3>1, <3>2
  <2>2. rank(i) <= rank(j) /\ rank(i) # rank(j)
    BY <1>3, <2>1, FS_Subset
  <2> QED
    BY <1>3, <2>2
<1>6. ASSUME NEW k \in 1..Cardinality(at)
      PROVE  \E i \in at : rank(i) = k
  <2> DEFINE T == 1..Cardinality(at)
             f == [i \in at |-> rank(i)]
  <2>1. IsFiniteSet(T) /\ Cardinality(T) = Cardinality(at)
    <3>1. /\ IsFiniteSet(1..Cardinality(at))
          /\ Cardinality(1..Cardinality(at))
               = IF 1 > Cardinality(at) THEN 0 ELSE Cardinality(at) - 1 + 1
      BY <1>2, FS_Interval
    <3> QED
      BY <1>2, <3>1
  <2>2. f \in [at -> T]
    BY <1>2, <1>3, <1>4
  <2>3. \A i, j \in at : f[i] = f[j] => i = j
    <3> SUFFICES ASSUME NEW i \in at, NEW j \in at, i # j
                 PROVE  rank(i) # rank(j)
      OBVIOUS
    <3>1. i < j \/ j < i
      OBVIOUS
    <3> QED
      BY <1>3, <1>5, <3>1
  <2>4. f \in Injection(at, T)
    BY <2>2, <2>3 DEF Injection, IsInjective
  <2>5. f \in Surjection(at, T)
    BY <1>1, <2>1, <2>4, FS_Injection
  <2>6. PICK i \in at : f[i] = k
    BY <2>5 DEF Surjection
  <2> QED
    BY <2>6
<1>7. \A i \in at : rank(i) \in 1..Cardinality(at)
  <2> SUFFICES ASSUME NEW i \in at
               PROVE  rank(i) \in 1..Cardinality(at)
    OBVIOUS
  <2>1. rank(i) \in Nat /\ rank(i) <= Cardinality(at) /\ rank(i) # 0
    BY <1>3, <1>4
  <2> QED
    BY <1>2, <2>1
<1> HIDE DEF rank
<1> QED
  BY <1>2, <1>5, <1>6, <1>7 DEF rank

(* The places f of q hold what is wanted, all of it, and r in that order.  *)
Selects(r, q, keep, f) ==
  /\ f \in [1..Len(r) -> 1..Len(q)]
  /\ \A k \in 1..Len(r) : r[k] = q[f[k]] /\ q[f[k]] \in keep
  /\ \A k, l \in 1..Len(r) : k < l => f[k] < f[l]
  /\ \A i \in 1..Len(q) : q[i] \in keep => \E k \in 1..Len(r) : f[k] = i

(* Only keeps what is wanted, all of it, in its order.                     *)
LEMMA OnlyFacts ==
  ASSUME NEW S, NEW q \in Seq(S), NEW keep
  PROVE  Only(q, keep) \in Seq(S) /\ \E f : Selects(Only(q, keep), q, keep, f)
<1> DEFINE at == {i \in 1..Len(q) : q[i] \in keep}
           rank(i) == Cardinality({j \in at : j <= i})
           f == [k \in 1..Cardinality(at) |-> CHOOSE i \in at : rank(i) = k]
<1>0. Len(q) \in Nat /\ at \in SUBSET (1..Len(q)) /\ \A i \in 1..Len(q) : q[i] \in S
  BY ElementOfSeq
<1>1. /\ Cardinality(at) \in Nat
      /\ \A i \in at : rank(i) \in 1..Cardinality(at)
      /\ \A i, j \in at : i < j => rank(i) < rank(j)
      /\ \A k \in 1..Cardinality(at) : \E i \in at : rank(i) = k
  BY <1>0, Ranks
<1> HIDE DEF rank
<1>2. \A k \in 1..Cardinality(at) : f[k] \in at /\ rank(f[k]) = k
  BY <1>1
<1>3. Only(q, keep) = [k \in 1..Cardinality(at) |-> q[f[k]]]
  <2>1. Only(q, keep) = [k \in 1..Cardinality(at) |-> q[CHOOSE i \in at : rank(i) = k]]
    BY DEF Only, rank
  <2> QED
    BY <2>1
<1> HIDE DEF f, at
<1>4. \A k \in 1..Cardinality(at) : f[k] \in 1..Len(q) /\ q[f[k]] \in keep
  BY <1>2 DEF at
<1>5. Only(q, keep) \in Seq(S) /\ Len(Only(q, keep)) = Cardinality(at)
  <2>1. \A k \in 1..Cardinality(at) : q[f[k]] \in S
    BY <1>0, <1>4
  <2> QED
    BY <1>1, <1>3, <2>1
<1>6. ASSUME NEW k \in 1..Cardinality(at), NEW l \in 1..Cardinality(at), k < l
      PROVE  f[k] < f[l]
  <2>1. f[k] \in Nat /\ f[l] \in Nat
    BY <1>0, <1>4
  <2>2. f[l] < f[k] => l < k
    BY <1>1, <1>2
  <2>3. f[l] = f[k] => l = k
    BY <1>2
  <2> QED
    BY <1>1, <1>6, <2>1, <2>2, <2>3
<1>7. ASSUME NEW i \in 1..Len(q), q[i] \in keep
      PROVE  \E k \in 1..Cardinality(at) : f[k] = i
  <2>1. i \in at /\ rank(i) \in 1..Cardinality(at)
    BY <1>1, <1>7 DEF at
  <2>2. f[rank(i)] \in at /\ rank(f[rank(i)]) = rank(i)
    BY <1>2, <2>1
  <2>3. f[rank(i)] = i
    <3>1. f[rank(i)] \in Nat /\ i \in Nat
      BY <1>0, <1>4, <2>1
    <3>2. PICK j \in at : j = f[rank(i)] /\ rank(j) = rank(i) /\ j \in Nat
      BY <2>2, <3>1
    <3>3. PICK k \in Nat : k = rank(i) /\ k = rank(j)
      BY <1>1, <2>1, <3>2
    <3>4. ~(j < i) /\ ~(i < j)
      <4>1. ~(k < k)
        OBVIOUS
      <4> QED
        BY <1>1, <2>1, <3>3, <4>1
    <3> QED
      BY <3>1, <3>2, <3>4
  <2> QED
    BY <2>1, <2>3
<1>8. f \in [1..Cardinality(at) -> 1..Len(q)]
  BY <1>4 DEF f
<1>9. \A k \in 1..Cardinality(at) : Only(q, keep)[k] = q[f[k]]
  BY <1>3
<1>10. Selects(Only(q, keep), q, keep, f)
  BY <1>4, <1>5, <1>6, <1>7, <1>8, <1>9 DEF Selects
<1> QED
  BY <1>5, <1>10

(* A set of places that is not empty has a last one.                       *)
LEMMA LastExists ==
  ASSUME NEW n \in Nat, NEW at \in SUBSET (1..n), at # {}
  PROVE  \E i \in at : \A j \in at : j <= i
<1> DEFINE c == Cardinality(at)
<1>1. IsFiniteSet(at) /\ c \in Nat /\ c # 0
  <2>1. IsFiniteSet(1..n)
    BY FS_Interval
  <2>2. IsFiniteSet(at)
    BY <2>1, FS_Subset
  <2> QED
    BY <2>2, FS_CardinalityType, FS_EmptySet
<1>2. PICK i \in at : Cardinality({j \in at : j <= i}) = c
  <2>1. c \in 1..c
    BY <1>1
  <2> QED
    BY <2>1, Ranks
<1>3. {j \in at : j <= i} = at
  <2>1. {j \in at : j <= i} \in SUBSET at
    OBVIOUS
  <2> QED
    BY <1>1, <1>2, <2>1, FS_Subset
<1> QED
  BY <1>3

(* A function of the first numbers is a sequence.                          *)
LEMMA SeqOf ==
  ASSUME NEW S, NEW n \in Nat, NEW x, x = [i \in 1..n |-> x[i]],
         \A i \in 1..n : x[i] \in S
  PROVE  x \in Seq(S) /\ Len(x) = n
<1>1. x \in [1..n -> S]
  OBVIOUS
<1> QED
  BY <1>1

(* Appending to a queue, and taking its head.                              *)
LEMMA AppendFacts ==
  ASSUME NEW S, NEW q \in Seq(S), NEW x \in S
  PROVE  /\ Append(q, x) \in Seq(S)
         /\ Len(q) \in Nat /\ Len(Append(q, x)) = Len(q) + 1
         /\ \A n \in 1..Len(q) : Append(q, x)[n] = q[n]
         /\ Append(q, x)[Len(q) + 1] = x
BY AppendProperties

(* What is behind the head of a queue.                                     *)
LEMMA TailFacts ==
  ASSUME NEW S, NEW q \in Seq(S), q # << >>
  PROVE  /\ Tail(q) \in Seq(S)
         /\ Len(q) \in Nat \ {0} /\ Len(Tail(q)) = Len(q) - 1
         /\ \A n \in 1..Len(Tail(q)) : n + 1 \in 1..Len(q) /\ Tail(q)[n] = q[n + 1]
         /\ Head(q) \in S /\ Head(q) = q[1] /\ 1 \in 1..Len(q)
BY HeadTailProperties

(* What a queue consists of.                                               *)
LEMMA ElementsFacts ==
  /\ Elements(<< >>) = {}
  /\ \A S : \A q \in Seq(S) : Elements(q) \subseteq S /\ (q = << >> <=> Elements(q) = {})
  /\ \A x : Elements(<<x>>) = {x}
<1>1. ASSUME NEW S, NEW q \in Seq(S)
      PROVE  Elements(q) \subseteq S /\ (q = << >> <=> Elements(q) = {})
  <2>1. Len(q) \in Nat /\ \A i \in 1..Len(q) : q[i] \in S
    BY ElementOfSeq
  <2>2. CASE q # << >>
    <3>1. 1 \in 1..Len(q)
      BY <2>1, <2>2, EmptySeq
    <3>2. q[1] \in Elements(q)
      BY <3>1 DEF Elements
    <3> QED
      BY <2>1, <2>2, <3>2 DEF Elements
  <2>3. CASE q = << >>
    <3>1. 1..Len(q) = {}
      BY <2>3
    <3> QED
      BY <2>1, <2>3, <3>1 DEF Elements
  <2> QED
    BY <2>2, <2>3
<1>2. Elements(<< >>) = {}
  BY DEF Elements
<1>3. ASSUME NEW x
      PROVE  Elements(<<x>>) = {x}
  <2>1. Len(<<x>>) = 1 /\ <<x>>[1] = x /\ \A i \in 1..1 : i = 1
    OBVIOUS
  <2> QED
    BY <2>1 DEF Elements
<1> QED
  BY <1>1, <1>2, <1>3

(* An element more, at the end.                                            *)
LEMMA ElementsAppend ==
  ASSUME NEW S, NEW q \in Seq(S), NEW x \in S
  PROVE  Append(q, x) \in Seq(S) /\ Elements(Append(q, x)) = Elements(q) \cup {x}
<1>1. PICK n \in Nat : n = Len(q) /\ Len(Append(q, x)) = n + 1
  BY AppendFacts
<1>2. /\ \A i \in 1..n : Append(q, x)[i] = q[i] /\ i \in 1..(n + 1)
      /\ n + 1 \in 1..(n + 1) /\ Append(q, x)[n + 1] = x
      /\ \A i \in 1..(n + 1) : i = n + 1 \/ i \in 1..n
  BY <1>1, AppendFacts
<1> QED
  BY <1>1, <1>2, AppendFacts DEF Elements

(* An element less, at the front.                                          *)
LEMMA ElementsTail ==
  ASSUME NEW S, NEW q \in Seq(S), q # << >>
  PROVE  /\ Tail(q) \in Seq(S) /\ Head(q) \in S
         /\ Elements(q) = Elements(Tail(q)) \cup {Head(q)}
<1>1. PICK n \in Nat : n = Len(Tail(q)) /\ Len(q) = n + 1
  BY TailFacts
<1>2. /\ \A i \in 1..n : Tail(q)[i] = q[i + 1] /\ i + 1 \in 1..(n + 1)
      /\ 1 \in 1..(n + 1) /\ q[1] = Head(q)
      /\ \A i \in 1..(n + 1) : i = 1 \/ (i - 1 \in 1..n /\ (i - 1) + 1 = i)
  BY <1>1, TailFacts
<1>3. ASSUME NEW i \in 1..(n + 1)
      PROVE  q[i] \in {Tail(q)[j] : j \in 1..n} \cup {Head(q)}
  <2>1. CASE i = 1
    BY <1>2, <2>1
  <2>2. CASE i - 1 \in 1..n /\ (i - 1) + 1 = i
    <3>1. Tail(q)[i - 1] = q[i]
      BY <1>2, <2>2
    <3> QED
      BY <2>2, <3>1
  <2> QED
    BY <1>2, <2>1, <2>2
<1> QED
  BY <1>1, <1>2, <1>3, TailFacts DEF Elements

(* One queue behind another.                                               *)
LEMMA ElementsConcat ==
  ASSUME NEW S, NEW q \in Seq(S), NEW u \in Seq(S)
  PROVE  q \o u \in Seq(S) /\ Elements(q \o u) = Elements(q) \cup Elements(u)
<1>1. PICK n \in Nat, k \in Nat : n = Len(q) /\ k = Len(u)
  BY LenProperties
<1>2. q \o u \in Seq(S) /\ Len(q \o u) = n + k
  BY <1>1, ConcatProperties
<1>3. \A i \in 1..(n + k) : (q \o u)[i] = IF i <= n THEN q[i] ELSE u[i - n]
  BY <1>1, ConcatProperties
<1>4. ASSUME NEW i \in 1..n
      PROVE  (q \o u)[i] = q[i] /\ i \in 1..(n + k)
  <2>1. i \in 1..(n + k) /\ i <= n
    OBVIOUS
  <2> QED
    BY <1>3, <2>1
<1>5. ASSUME NEW i \in 1..k
      PROVE  n + i \in 1..(n + k) /\ (q \o u)[n + i] = u[i]
  <2>1. n + i \in 1..(n + k) /\ ~(n + i <= n) /\ (n + i) - n = i
    OBVIOUS
  <2> QED
    BY <1>3, <2>1
<1>6. ASSUME NEW i \in 1..(n + k)
      PROVE  (q \o u)[i] \in Elements(q) \cup Elements(u)
  <2>1. CASE i <= n
    BY <1>1, <1>3, <2>1 DEF Elements
  <2>2. CASE ~(i <= n)
    <3>1. i - n \in 1..k
      BY <2>2
    <3> QED
      BY <1>1, <1>3, <2>2, <3>1 DEF Elements
  <2> QED
    BY <2>1, <2>2
<1>7. Elements(q) \subseteq Elements(q \o u)
  BY <1>1, <1>2, <1>4 DEF Elements
<1>8. Elements(u) \subseteq Elements(q \o u)
  BY <1>1, <1>2, <1>5 DEF Elements
<1> QED
  BY <1>2, <1>6, <1>7, <1>8 DEF Elements

(* What Only keeps.                                                        *)
LEMMA ElementsOnly ==
  ASSUME NEW S, NEW q \in Seq(S), NEW keep
  PROVE  Only(q, keep) \in Seq(S) /\ Elements(Only(q, keep)) = Elements(q) \cap keep
<1>0. PICK f : Selects(Only(q, keep), q, keep, f)
  BY OnlyFacts
<1>1. PICK n : n = Len(Only(q, keep))
  OBVIOUS
<1>2. Only(q, keep) \in Seq(S)
  BY OnlyFacts
<1>3. \A k \in 1..n : Only(q, keep)[k] \in Elements(q) \cap keep
  BY <1>0, <1>1 DEF Elements, Selects
<1>4. \A i \in 1..Len(q) : q[i] \in keep => \E k \in 1..n : Only(q, keep)[k] = q[i]
  BY <1>0, <1>1 DEF Selects
<1> QED
  BY <1>1, <1>2, <1>3, <1>4 DEF Elements

(* What Without keeps.                                                     *)
LEMMA ElementsWithout ==
  ASSUME NEW S, NEW q \in Seq(S), NEW gone
  PROVE  Without(q, gone) \in Seq(S) /\ Elements(Without(q, gone)) = Elements(q) \ gone
<1>1. PICK keep : keep = Elements(q) \ gone
  OBVIOUS
<1> QED
  BY <1>1, ElementsOnly DEF Without

(* Whatever is before another in what is left was so before.               *)
InOrder(r, q) ==
  \A k, l \in 1..Len(r) : k < l =>
    \E i, j \in 1..Len(q) : i < j /\ r[k] = q[i] /\ r[l] = q[j]

(* Only keeps the order.                                                   *)
LEMMA OnlyOrder ==
  ASSUME NEW S, NEW q \in Seq(S), NEW keep
  PROVE  InOrder(Only(q, keep), q)
<1>1. PICK f : Selects(Only(q, keep), q, keep, f)
  BY OnlyFacts
<1>2. PICK r : r = Only(q, keep)
  OBVIOUS
<1>3. ASSUME NEW k \in 1..Len(r), NEW l \in 1..Len(r), k < l
      PROVE  \E i, j \in 1..Len(q) : i < j /\ r[k] = q[i] /\ r[l] = q[j]
  <2>1. f[k] \in 1..Len(q) /\ f[l] \in 1..Len(q) /\ f[k] < f[l]
    BY <1>1, <1>2, <1>3 DEF Selects
  <2>2. r[k] = q[f[k]] /\ r[l] = q[f[l]]
    BY <1>1, <1>2, <1>3 DEF Selects
  <2> QED
    BY <2>1, <2>2
<1> QED
  BY <1>2, <1>3 DEF InOrder

-----------------------------------------------------------------------------
(* Where a transaction is.                                                 *)

(* What is in one message is not in none.                                  *)
LEMMA NoneOnce == \A t, q : Once(t, q) => ~None(t, q)
BY DEF Once, None, Elements

(* A message is added at the end.                                          *)
LEMMA OnceAppend ==
  ASSUME NEW S, NEW q \in Seq(S), NEW m \in S, NEW t, NEW a, a = Append(q, m)
  PROVE  /\ t \notin Carried(m) /\ Once(t, q) => Once(t, a)
         /\ t \in Carried(m) /\ None(t, q) => Once(t, a)
<1>1. PICK n \in Nat : n = Len(q) /\ Len(a) = n + 1
  BY AppendFacts
<1>2. /\ \A i \in 1..n : a[i] = q[i] /\ i \in 1..(n + 1)
      /\ n + 1 \in 1..(n + 1) /\ a[n + 1] = m
      /\ \A i \in 1..(n + 1) : i = n + 1 \/ i \in 1..n
  BY <1>1, AppendFacts
<1>3. ASSUME t \notin Carried(m), Once(t, q)
      PROVE  Once(t, a)
  BY <1>1, <1>2, <1>3 DEF Once
<1>4. ASSUME t \in Carried(m), None(t, q)
      PROVE  Once(t, a)
  BY <1>1, <1>2, <1>4 DEF Once, None, Elements
<1> QED
  BY <1>3, <1>4

(* The first message is taken.                                             *)
LEMMA OnceTail ==
  ASSUME NEW S, NEW q \in Seq(S), q # << >>, NEW t, Once(t, q), NEW a, a = Tail(q)
  PROVE  IF t \in Carried(Head(q)) THEN None(t, a) ELSE Once(t, a)
<1>1. PICK n \in Nat : n = Len(a) /\ Len(q) = n + 1
  BY TailFacts
<1>2. \A i \in 1..n : a[i] = q[i + 1] /\ i + 1 \in 1..(n + 1) /\ i + 1 # 1
  BY <1>1, TailFacts
<1>3. PICK x \in 1..(n + 1) :
        t \in Carried(q[x]) /\ \A j \in 1..(n + 1) : t \in Carried(q[j]) => j = x
  BY <1>1 DEF Once
<1>4. 1 \in 1..(n + 1) /\ q[1] = Head(q)
  BY TailFacts
<1>5. CASE t \in Carried(Head(q))
  <2>1. x = 1
    BY <1>3, <1>4, <1>5
  <2> QED
    BY <1>1, <1>2, <1>3, <1>5, <2>1 DEF None, Elements
<1>6. CASE t \notin Carried(Head(q))
  <2>1. x # 1
    BY <1>3, <1>4, <1>6
  <2>2. x - 1 \in 1..n /\ (x - 1) + 1 = x
    BY <2>1
  <2>3. t \in Carried(a[x - 1])
    BY <1>2, <1>3, <2>2
  <2>4. ASSUME NEW j \in 1..n, t \in Carried(a[j])
        PROVE  j = x - 1
    <3>1. j + 1 = x
      BY <1>2, <1>3, <2>4
    <3> QED
      BY <3>1
  <2> QED
    BY <1>1, <1>6, <2>2, <2>3, <2>4 DEF Once
<1> QED
  BY <1>5, <1>6

(* The first message is taken: nothing comes in.                           *)
LEMMA NoneTail ==
  ASSUME NEW S, NEW q \in Seq(S), q # << >>, NEW t, None(t, q)
  PROVE  None(t, Tail(q))
BY ElementsTail DEF None

(* Two queues in a row have what either has.                               *)
LEMMA NoneConcat ==
  ASSUME NEW S, NEW q \in Seq(S), NEW u \in Seq(S), NEW t
  PROVE  None(t, q \o u) <=> None(t, q) /\ None(t, u)
BY ElementsConcat DEF None

(* A message more.                                                         *)
LEMMA NoneAppend ==
  ASSUME NEW S, NEW q \in Seq(S), NEW m \in S, NEW t
  PROVE  None(t, Append(q, m)) <=> None(t, q) /\ t \notin Carried(m)
BY ElementsAppend DEF None

(* Two queues in a row, of which one has the transaction.                  *)
LEMMA OnceConcat ==
  ASSUME NEW S, NEW q \in Seq(S), NEW u \in Seq(S), NEW t, NEW a, a = q \o u
  PROVE  /\ Once(t, q) /\ None(t, u) => Once(t, a)
         /\ None(t, q) /\ Once(t, u) => Once(t, a)
<1>1. PICK n \in Nat, k \in Nat : n = Len(q) /\ k = Len(u) /\ Len(a) = n + k
  BY LenProperties, ConcatProperties
<1>2. \A i \in 1..(n + k) : a[i] = IF i <= n THEN q[i] ELSE u[i - n]
  BY <1>1, ConcatProperties
<1>3. ASSUME NEW i \in 1..n
      PROVE  a[i] = q[i] /\ i \in 1..(n + k)
  <2>1. i \in 1..(n + k) /\ i <= n
    OBVIOUS
  <2> QED
    BY <1>2, <2>1
<1>4. ASSUME NEW i \in 1..k
      PROVE  n + i \in 1..(n + k) /\ a[n + i] = u[i]
  <2>1. n + i \in 1..(n + k) /\ ~(n + i <= n) /\ (n + i) - n = i
    OBVIOUS
  <2> QED
    BY <1>2, <2>1
<1>5. ASSUME NEW i \in 1..(n + k)
      PROVE  i \in 1..n \/ (i - n \in 1..k /\ a[i] = u[i - n] /\ n + (i - n) = i)
  <2>1. CASE i <= n
    BY <2>1
  <2>2. CASE ~(i <= n)
    <3>1. i - n \in 1..k /\ n + (i - n) = i
      BY <2>2
    <3> QED
      BY <1>2, <2>2, <3>1
  <2> QED
    BY <2>1, <2>2
<1>6. ASSUME Once(t, q), None(t, u)
      PROVE  Once(t, a)
  BY <1>1, <1>3, <1>5, <1>6 DEF Once, None, Elements
<1>7. ASSUME None(t, q), Once(t, u)
      PROVE  Once(t, a)
  <2>1. PICK x \in 1..k :
          t \in Carried(u[x]) /\ \A j \in 1..k : t \in Carried(u[j]) => j = x
    BY <1>1, <1>7 DEF Once
  <2>2. n + x \in 1..(n + k) /\ t \in Carried(a[n + x])
    BY <1>4, <2>1
  <2>3. ASSUME NEW j \in 1..(n + k), t \in Carried(a[j])
        PROVE  j = n + x
    <3>1. j \notin 1..n
      BY <1>1, <1>3, <1>7, <2>3 DEF None, Elements
    <3>2. j - n \in 1..k /\ a[j] = u[j - n] /\ n + (j - n) = j
      BY <1>5, <3>1
    <3>3. j - n = x
      BY <2>1, <2>3, <3>2
    <3> QED
      BY <3>2, <3>3
  <2> QED
    BY <1>1, <2>2, <2>3 DEF Once
<1> QED
  BY <1>6, <1>7

(* In no message there is nothing.                                         *)
LEMMA NoneEmpty == \A t : None(t, << >>)
BY ElementsFacts DEF None

(* A put more that has no answer.                                          *)
LEMMA AskedAppend ==
  ASSUME NEW S, NEW u \in Seq(S), NEW b \in S, NEW t, NEW a, a = Append(u, b)
  PROVE  /\ t \notin Elements(b) /\ Asked(t, u) => Asked(t, a)
         /\ t \in Elements(b) /\ Unasked(t, u) => Asked(t, a)
         /\ t \notin Elements(b) /\ Unasked(t, u) => Unasked(t, a)
<1>1. PICK n \in Nat : n = Len(u) /\ Len(a) = n + 1
  BY AppendFacts
<1>2. /\ \A i \in 1..n : a[i] = u[i] /\ i \in 1..(n + 1)
      /\ n + 1 \in 1..(n + 1) /\ a[n + 1] = b
      /\ \A i \in 1..(n + 1) : i = n + 1 \/ i \in 1..n
  BY <1>1, AppendFacts
<1>3. ASSUME t \notin Elements(b), Asked(t, u)
      PROVE  Asked(t, a)
  <2>1. PICK i \in 1..n :
          t \in Elements(u[i]) /\ \A j \in 1..n : t \in Elements(u[j]) => j = i
    BY <1>1, <1>3 DEF Asked
  <2>2. i \in 1..(n + 1) /\ t \in Elements(a[i])
    BY <1>2, <2>1
  <2>3. \A j \in 1..(n + 1) : t \in Elements(a[j]) => j = i
    BY <1>2, <1>3, <2>1
  <2> QED
    BY <1>1, <2>2, <2>3 DEF Asked
<1>4. ASSUME t \in Elements(b), Unasked(t, u)
      PROVE  Asked(t, a)
  <2>1. \A i \in 1..n : t \notin Elements(u[i])
    <3>1. \A i \in 1..n : u[i] \in Elements(u)
      BY <1>1 DEF Elements
    <3> QED
      BY <1>4, <3>1 DEF Unasked
  <2>2. \A j \in 1..(n + 1) : t \in Elements(a[j]) => j = n + 1
    BY <1>2, <2>1
  <2> QED
    BY <1>1, <1>2, <1>4, <2>2 DEF Asked
<1>5. t \notin Elements(b) /\ Unasked(t, u) => Unasked(t, a)
  BY ElementsAppend DEF Unasked
<1> QED
  BY <1>3, <1>4, <1>5

(* A put less that has no answer.                                          *)
LEMMA AskedWithout ==
  ASSUME NEW S, NEW u \in Seq(S), NEW b, NEW t, NEW a, a = Without(u, {b})
  PROVE  /\ t \notin Elements(b) /\ Asked(t, u) => Asked(t, a)
         /\ Unasked(t, u) => Unasked(t, a)
<1>1. Elements(a) = Elements(u) \ {b}
  BY ElementsWithout
<1>2. ASSUME t \notin Elements(b), Asked(t, u)
      PROVE  Asked(t, a)
  <2>1. PICK x \in 1..Len(u) :
          t \in Elements(u[x]) /\ \A j \in 1..Len(u) : t \in Elements(u[j]) => j = x
    BY <1>2 DEF Asked
  <2>2. u[x] # b /\ u[x] \in Elements(a)
    <3>1. u[x] \in Elements(u)
      BY DEF Elements
    <3> QED
      BY <1>1, <1>2, <2>1, <3>1
  <2>3. PICK k \in 1..Len(a) : a[k] = u[x]
    BY <2>2 DEF Elements
  <2>4. ASSUME NEW l \in 1..Len(a), t \in Elements(a[l]), l # k
        PROVE  FALSE
    <3>1. InOrder(a, u)
      BY OnlyOrder DEF Without
    <3>3. a \in Seq(S) /\ Len(a) \in Nat
      BY ElementsWithout
    <3>4. k < l \/ l < k
      BY <2>4, <3>3
    <3>5. \E i, j \in 1..Len(u) :
            i # j /\ ((a[k] = u[i] /\ a[l] = u[j]) \/ (a[l] = u[i] /\ a[k] = u[j]))
      <4>1. Len(u) \in Nat
        BY LenProperties
      <4>2. CASE k < l
        <5>1. PICK i \in 1..Len(u), j \in 1..Len(u) : i < j /\ a[k] = u[i] /\ a[l] = u[j]
          BY <3>1, <4>2 DEF InOrder
        <5> QED
          BY <4>1, <5>1
      <4>3. CASE l < k
        <5>1. PICK i \in 1..Len(u), j \in 1..Len(u) : i < j /\ a[l] = u[i] /\ a[k] = u[j]
          BY <3>1, <4>3 DEF InOrder
        <5> QED
          BY <4>1, <5>1
      <4> QED
        BY <3>4, <4>2, <4>3
    <3> QED
      BY <2>1, <2>3, <2>4, <3>5
  <2> QED
    BY <2>1, <2>3, <2>4 DEF Asked
<1>3. Unasked(t, u) => Unasked(t, a)
  BY <1>1 DEF Unasked
<1> QED
  BY <1>2, <1>3

(* The last answers that come when the connection is lost: to every put    *)
(* that has none.                                                          *)
Lost(u) == [i \in 1..Len(u) |-> Reply(u[i], "disconnect")]

(* Each put that had no answer has one of the lost connection.             *)
LEMMA LostFacts ==
  ASSUME NEW u \in Seq(Seq(Nat)), NEW t, t \notin Comments
  PROVE  /\ Lost(u) \in Seq(Answers)
         /\ Elements(Lost(u)) = {Reply(b, "disconnect") : b \in Elements(u)}
         /\ Asked(t, u) => Once(t, Lost(u))
         /\ Unasked(t, u) => None(t, Lost(u))
<1>1. PICK n \in Nat : n = Len(u)
  BY LenProperties
<1>2. \A i \in 1..n : u[i] \in Seq(Nat)
  BY <1>1, ElementOfSeq
<1>3. \A b \in Seq(Nat) : Reply(b, "disconnect") \in Answers
  BY DEF Reply, Answers
<1>4. Lost(u) = [i \in 1..n |-> Reply(u[i], "disconnect")]
  BY <1>1 DEF Lost
<1>5. Lost(u) \in Seq(Answers) /\ Len(Lost(u)) = n
  <2>1. \A i \in 1..n : Reply(u[i], "disconnect") \in Answers
    BY <1>2, <1>3
  <2> HIDE DEF Reply
  <2> QED
    BY <1>1, <1>4, <2>1
<1>6. \A i \in 1..n : Lost(u)[i] = Reply(u[i], "disconnect")
  BY <1>4
<1>7. Elements(Lost(u)) = {Reply(b, "disconnect") : b \in Elements(u)}
  BY <1>1, <1>5, <1>6 DEF Elements
<1>8. \A b : t \in Carried(Reply(b, "disconnect")) <=> t \in Elements(b)
  BY DEF Carried, Reply
<1>9. Asked(t, u) => Once(t, Lost(u))
  BY <1>1, <1>5, <1>6, <1>8 DEF Asked, Once
<1>10. Unasked(t, u) => None(t, Lost(u))
  BY <1>7, <1>8 DEF Unasked, None
<1> QED
  BY <1>5, <1>7, <1>9, <1>10

-----------------------------------------------------------------------------
(* What the parts of handlers make of a phone.                             *)

(* The transaction block makes a post of a post.                           *)
LEMMA PlusType == \A n \in Node, k \in Int : Plus(n, k) \in Node
BY DEF Plus, Node

(* The post as a phone knows it.                                           *)
LEMMA LatestType ==
  ASSUME NEW s \in Phone, Elements(s.writes) \ Comments \subseteq 1..Len(s.txn), NEW x
  PROVE  Latest(s, x) \in Node
<1> DEFINE ws == Without(s.writes, x)
           overwrites == {i \in 1..Len(ws) : ws[i] \notin Comments}
           top == IF overwrites = {} THEN 0
                  ELSE CHOOSE i \in overwrites : \A j \in overwrites : j <= i
           base == IF top = 0 THEN s.cache ELSE s.txn[ws[top]].out
           late == {ws[i] : i \in (top + 1)..Len(ws)}
<1>1. /\ s.writes \in Seq(Nat \cup Comments) /\ s.cache \in Node
      /\ s.txn \in Seq(Transactions)
  BY DEF Phone
<1>2. ws \in Seq(Nat \cup Comments) /\ Elements(ws) \subseteq Elements(s.writes)
  BY <1>1, ElementsWithout
<1>3. Len(ws) \in Nat /\ \A i \in 1..Len(ws) : ws[i] \in Elements(ws)
  BY <1>2, LenProperties DEF Elements
<1>4. overwrites \in SUBSET (1..Len(ws))
  OBVIOUS
<1>5. \A t \in 1..Len(s.txn) : s.txn[t].out \in Node
  <2>1. \A t \in 1..Len(s.txn) : s.txn[t] \in Transactions
    BY <1>1, ElementOfSeq
  <2> QED
    BY <2>1 DEF Transactions
<1> HIDE DEF ws
<1>6. CASE overwrites = {}
  <2>1. top = 0 /\ base = s.cache
    BY <1>6
  <2>2. late \subseteq Comments
    BY <1>3, <1>6, <2>1
  <2>3. [base EXCEPT !.comments = @ \cup late] \in Node
    BY <1>1, <2>1, <2>2 DEF Node
  <2> QED
    BY <2>3 DEF Latest, ws
<1>7. CASE overwrites # {}
  <2>1. \E i \in overwrites : \A j \in overwrites : j <= i
    BY <1>3, <1>4, <1>7, LastExists
  <2>2. top \in overwrites /\ \A j \in overwrites : j <= top
    BY <1>7, <2>1
  <2> HIDE DEF top
  <2>3. top \in 1..Len(ws) /\ ws[top] \in 1..Len(s.txn) /\ top # 0
    BY <1>2, <1>3, <2>2
  <2>4. base \in Node
    BY <1>5, <2>3
  <2>5. late \subseteq Comments
    <3>1. ASSUME NEW i \in (top + 1)..Len(ws)
          PROVE  ws[i] \in Comments
      <4>1. i \in 1..Len(ws) /\ ~(i <= top)
        BY <1>3, <2>3
      <4> QED
        BY <2>2, <4>1
    <3> QED
      BY <3>1
  <2> HIDE DEF base, late
  <2>6. [base EXCEPT !.comments = @ \cup late] \in Node
    BY <2>4, <2>5 DEF Node
  <2> QED
    BY <2>6 DEF Latest, ws, top, base, late
<1> QED
  BY <1>6, <1>7

(* Writes are forgotten.                                                   *)
LEMMA ForgetFacts ==
  ASSUME NEW s \in Phone, NEW gone, NEW r, r = Forget(s, gone)
  PROVE  /\ r \in Phone
         /\ r.cache = s.cache /\ r.queue = s.queue /\ r.txn = s.txn /\ r.feed = s.feed
         /\ r.unanswered = s.unanswered /\ r.puts = s.puts
         /\ Elements(r.writes) = Elements(s.writes) \ gone
<1>1. s.writes \in Seq(Nat \cup Comments)
  BY DEF Phone
<1>2. PICK w : w = Without(s.writes, gone)
  OBVIOUS
<1>3. w \in Seq(Nat \cup Comments) /\ Elements(w) = Elements(s.writes) \ gone
  BY <1>1, <1>2, ElementsWithout
<1>4. r = [s EXCEPT !.writes = w]
  BY <1>2 DEF Forget
<1> QED
  BY <1>3, <1>4 DEF Phone

(* A transaction that may be tried once more is one afterwards.            *)
LEMMA AttemptedType ==
  ASSUME NEW x \in Transactions, x.retries < MaxRetries
  PROVE  Attempted(x) \in Transactions
<1>1. x.retries \in Int /\ 0 <= x.retries /\ MaxRetries \in Nat
  BY RetriesAssumption DEF Transactions
<1>2. x.retries + 1 \in 0..MaxRetries
  BY <1>1
<1> QED
  BY <1>2 DEF Attempted, Transactions, Statuses

(* The queue is sent, if none of it is outstanding.                        *)
Waits(s) == s.queue # << >> /\ \A t \in Elements(s.queue) : s.txn[t].status = "run"

Launched(s, r) ==
  /\ r.cache = s.cache /\ r.queue = s.queue /\ r.writes = s.writes /\ r.feed = s.feed
  /\ Len(r.txn) = Len(s.txn)
  /\ \A t \in 1..Len(s.txn) :
       r.txn[t] = IF t \in Elements(s.queue) THEN Attempted(s.txn[t]) ELSE s.txn[t]
  /\ r.unanswered = Append(s.unanswered, s.queue)
  /\ \E m \in Puts : m.batch = s.queue /\ r.puts = Append(s.puts, m)

(* SendReady sends the queue if all of it waits, and does nothing          *)
(* otherwise.                                                              *)
LEMMA SendFacts ==
  ASSUME NEW s \in Phone, NEW r, r = SendReady(s),
         Elements(s.writes) \ Comments \subseteq 1..Len(s.txn),
         Elements(s.queue) \subseteq 1..Len(s.txn),
         \A t \in Elements(s.queue) :
           s.txn[t].status = "run" => s.txn[t].retries < MaxRetries
  PROVE  r \in Phone /\ IF Waits(s) THEN Launched(s, r) ELSE r = s
<1>1. CASE ~Waits(s)
  <2>1. r = s
    BY <1>1 DEF Waits, SendReady
  <2> QED
    BY <1>1, <2>1
<1>2. CASE Waits(s)
  <2> DEFINE members == Elements(s.queue)
             x == [t \in DOMAIN s.txn |->
                     IF t \in members THEN Attempted(s.txn[t]) ELSE s.txn[t]]
             m == [type |-> "put", batch |-> s.queue, hash |-> Latest(s, members),
                   data |-> s.txn[s.queue[Len(s.queue)]].out]
  <2>1. r = [s EXCEPT !.txn = x, !.unanswered = Append(@, s.queue), !.puts = Append(@, m)]
    BY <1>2 DEF Waits, SendReady
  <2>2. /\ s.queue \in Seq(Nat) /\ s.txn \in Seq(Transactions)
        /\ s.unanswered \in Seq(Seq(Nat)) /\ s.puts \in Seq(Requests)
    BY DEF Phone
  <2>3. Len(s.txn) \in Nat /\ \A t \in 1..Len(s.txn) : s.txn[t] \in Transactions
    BY <2>2, ElementOfSeq
  <2>4. m \in Puts
    <3>1. s.queue[Len(s.queue)] \in Elements(s.queue)
      <4>1. Len(s.queue) \in Nat \ {0}
        BY <1>2, <2>2, EmptySeq DEF Waits
      <4> QED
        BY <4>1 DEF Elements
    <3>2. s.txn[s.queue[Len(s.queue)]].out \in Node
      BY <2>3, <3>1 DEF Transactions
    <3>3. Latest(s, members) \in Node
      BY LatestType
    <3> QED
      BY <2>2, <3>2, <3>3 DEF Puts
  <2>5. x \in Seq(Transactions) /\ Len(x) = Len(s.txn)
    <3>1. DOMAIN s.txn = 1..Len(s.txn)
      BY <2>2, LenProperties
    <3>2. ASSUME NEW t \in 1..Len(s.txn)
          PROVE  x[t] \in Transactions
      <4>1. /\ s.txn[t] \in Transactions
            /\ x[t] = IF t \in members THEN Attempted(s.txn[t]) ELSE s.txn[t]
        BY <2>3, <3>1
      <4>2. CASE t \in members
        <5>1. s.txn[t].retries < MaxRetries /\ MaxRetries \in Nat
          BY <1>2, <4>2, RetriesAssumption DEF Waits
        <5>2. Attempted(s.txn[t]) \in Transactions
          BY <4>1, <5>1, AttemptedType
        <5> QED
          BY <4>1, <4>2, <5>2
      <4> QED
        BY <4>1, <4>2
    <3>3. x = [t \in 1..Len(s.txn) |-> x[t]]
      BY <3>1
    <3> HIDE DEF x
    <3> QED
      BY <2>3, <3>2, <3>3
  <2>6. \A t \in 1..Len(s.txn) :
          x[t] = IF t \in Elements(s.queue) THEN Attempted(s.txn[t]) ELSE s.txn[t]
    BY <2>2, LenProperties
  <2> HIDE DEF x, m
  <2>7. Append(s.unanswered, s.queue) \in Seq(Seq(Nat)) /\ Append(s.puts, m) \in Seq(Requests)
    BY <2>2, <2>4, AppendFacts DEF Requests
  <2>8. r \in Phone
    BY <2>1, <2>5, <2>7 DEF Phone
  <2>9. /\ r.cache = s.cache /\ r.queue = s.queue /\ r.writes = s.writes /\ r.feed = s.feed
        /\ r.txn = x /\ r.unanswered = Append(s.unanswered, s.queue)
        /\ r.puts = Append(s.puts, m)
    BY <2>1 DEF Phone
  <2>10. m.batch = s.queue
    BY DEF m
  <2> QED
    BY <1>2, <2>4, <2>5, <2>6, <2>8, <2>9, <2>10 DEF Launched
<1> QED
  BY <1>1, <1>2

(* The queue is run again: what is to be aborted or was tried too often    *)
(* leaves it.                                                              *)
Tired(s) ==
  {t \in Elements(s.queue) : s.txn[t].status = "run" /\ s.txn[t].retries >= MaxRetries}

Gone(s) == Tired(s) \cup {t \in Elements(s.queue) : s.txn[t].status = "needsAbort"}

Again(s) == {t \in Elements(s.queue) : s.txn[t].status = "run"} \ Tired(s)

Reran(s, r) ==
  /\ r.cache = s.cache /\ r.feed = s.feed /\ r.unanswered = s.unanswered /\ r.puts = s.puts
  /\ Elements(r.queue) = Elements(s.queue) \ Gone(s) /\ InOrder(r.queue, s.queue)
  /\ Elements(r.writes) = (Elements(s.writes) \ (Gone(s) \cup Again(s))) \cup Again(s)
  /\ Len(r.txn) = Len(s.txn)
  /\ \A t \in 1..Len(s.txn) :
       /\ t \in Gone(s) => r.txn[t] = [s.txn[t] EXCEPT !.status = "completed",
            !.told = IF t \in Tired(s) THEN "maxretries" ELSE s.txn[t].why]
       /\ t \in Again(s) => \E o \in Node : r.txn[t] = [s.txn[t] EXCEPT !.out = o]
       /\ t \notin Gone(s) \cup Again(s) => r.txn[t] = s.txn[t]

(* Rerun does what Reran says.                                             *)
LEMMA RerunFacts ==
  ASSUME NEW s \in Phone, NEW r, r = Rerun(s),
         Elements(s.writes) \ Comments \subseteq 1..Len(s.txn),
         Elements(s.queue) \subseteq 1..Len(s.txn)
  PROVE  r \in Phone /\ Reran(s, r)
<1> DEFINE members == Elements(s.queue)
           tired == {t \in members : s.txn[t].status = "run"
                                     /\ s.txn[t].retries >= MaxRetries}
           gone == tired \cup {t \in members : s.txn[t].status = "needsAbort"}
           again == Only(s.queue, {t \in members : s.txn[t].status = "run"} \ tired)
           base == Latest(s, members)
           place(t) == CHOOSE i \in 1..Len(again) : again[i] = t
           moved == Forget(s, gone \cup Elements(again))
           x == [t \in DOMAIN s.txn |->
                   IF t \in gone
                   THEN [s.txn[t] EXCEPT !.status = "completed",
                           !.told = IF t \in tired THEN "maxretries" ELSE s.txn[t].why]
                   ELSE IF t \in Elements(again)
                   THEN [s.txn[t] EXCEPT !.out = Plus(base, place(t))]
                   ELSE s.txn[t]]
<1>1. r = [moved EXCEPT !.writes = @ \o again, !.queue = Without(@, gone), !.txn = x]
  BY DEF Rerun
<1>2. tired = Tired(s) /\ gone = Gone(s)
  BY DEF Tired, Gone
<1>3. /\ s.queue \in Seq(Nat) /\ s.txn \in Seq(Transactions)
      /\ Len(s.txn) \in Nat /\ DOMAIN s.txn = 1..Len(s.txn)
      /\ \A t \in 1..Len(s.txn) : s.txn[t] \in Transactions
  <2>1. s.queue \in Seq(Nat) /\ s.txn \in Seq(Transactions)
    BY DEF Phone
  <2> QED
    BY <2>1, LenProperties, ElementOfSeq
<1>4. again \in Seq(Nat) /\ Elements(again) = Again(s)
  <2>1. PICK keep : keep = {t \in members : s.txn[t].status = "run"} \ tired
    OBVIOUS
  <2>2. again = Only(s.queue, keep)
    BY <2>1
  <2>3. again \in Seq(Nat) /\ Elements(again) = members \cap keep
    BY ZenonT(30), <1>3, <2>2, ElementsOnly
  <2>4. keep = Again(s) /\ keep \subseteq members
    BY <2>1 DEF Again, Tired
  <2> QED
    BY <2>3, <2>4
<1>5. base \in Node
  BY LatestType
<1>6. \A t \in Elements(again) : place(t) \in Int
  <2> SUFFICES ASSUME NEW t \in Elements(again)
               PROVE  place(t) \in Int
    OBVIOUS
  <2>1. Len(again) \in Nat
    BY <1>4, LenProperties
  <2>2. \E i \in 1..Len(again) : again[i] = t
    BY DEF Elements
  <2>3. place(t) \in 1..Len(again)
    BY <2>2
  <2> QED
    BY SMTT(30), <2>1, <2>3
<1> HIDE DEF tired, gone, again, base, place
<1>7. /\ moved \in Phone /\ moved.queue = s.queue /\ moved.txn = s.txn
      /\ moved.cache = s.cache /\ moved.feed = s.feed
      /\ moved.unanswered = s.unanswered /\ moved.puts = s.puts
      /\ Elements(moved.writes) = Elements(s.writes) \ (gone \cup Elements(again))
  <2>1. PICK g, v : g = gone \cup Elements(again) /\ v = Forget(s, g)
    OBVIOUS
  <2>2. /\ v \in Phone /\ v.queue = s.queue /\ v.txn = s.txn
        /\ v.cache = s.cache /\ v.feed = s.feed
        /\ v.unanswered = s.unanswered /\ v.puts = s.puts
        /\ Elements(v.writes) = Elements(s.writes) \ g
    BY <2>1, ForgetFacts
  <2> QED
    BY <2>1, <2>2
<1> HIDE DEF moved
<1>8. /\ moved.writes \o again \in Seq(Nat \cup Comments)
      /\ Elements(moved.writes \o again) = Elements(moved.writes) \cup Elements(again)
  <2>1. moved.writes \in Seq(Nat \cup Comments)
    BY <1>7 DEF Phone
  <2>2. again \in Seq(Nat \cup Comments)
    BY <1>4, SeqMonotonic
  <2> QED
    BY <2>1, <2>2, ElementsConcat
<1>9. /\ Without(s.queue, gone) \in Seq(Nat)
      /\ Elements(Without(s.queue, gone)) = members \ gone
      /\ InOrder(Without(s.queue, gone), s.queue)
  BY ZenonT(30), <1>3, ElementsWithout, OnlyOrder DEF Without
<1>10. ASSUME NEW t \in 1..Len(s.txn)
       PROVE  /\ x[t] \in Transactions
              /\ t \in gone => x[t] = [s.txn[t] EXCEPT !.status = "completed",
                   !.told = IF t \in tired THEN "maxretries" ELSE s.txn[t].why]
              /\ t \notin gone /\ t \in Elements(again) =>
                   \E o \in Node : x[t] = [s.txn[t] EXCEPT !.out = o]
              /\ t \notin gone \cup Elements(again) => x[t] = s.txn[t]
  <2>1. CASE t \in gone
    <3>1. x[t] = [s.txn[t] EXCEPT !.status = "completed",
                    !.told = IF t \in tired THEN "maxretries" ELSE s.txn[t].why]
      BY <1>3, <2>1
    <3>2. (IF t \in tired THEN "maxretries" ELSE s.txn[t].why) \in Outcomes
      BY <1>3 DEF Transactions, Outcomes
    <3>3. x[t] \in Transactions
      BY ZenonT(30), <1>3, <3>1, <3>2 DEF Transactions, Statuses
    <3> QED
      BY <2>1, <3>1, <3>3
  <2>2. CASE t \notin gone /\ t \in Elements(again)
    <3>1. x[t] = [s.txn[t] EXCEPT !.out = Plus(base, place(t))]
      BY <1>3, <2>2
    <3>2. Plus(base, place(t)) \in Node
      BY <1>5, <1>6, <2>2, PlusType
    <3>3. x[t] \in Transactions
      BY <1>3, <3>1, <3>2 DEF Transactions
    <3> QED
      BY <2>2, <3>1, <3>2, <3>3
  <2>3. CASE t \notin gone /\ t \notin Elements(again)
    BY <1>3, <2>3
  <2> QED
    BY <2>1, <2>2, <2>3
<1>11. x \in Seq(Transactions) /\ Len(x) = Len(s.txn)
  <2>1. x = [t \in 1..Len(s.txn) |-> x[t]]
    BY <1>3
  <2>2. \A t \in 1..Len(s.txn) : x[t] \in Transactions
    BY <1>10
  <2> HIDE DEF x
  <2> QED
    BY <1>3, <2>1, <2>2, SeqOf
<1> HIDE DEF x
<1>12. PICK w, q : w = moved.writes \o again /\ q = Without(s.queue, gone)
  OBVIOUS
<1>13. r = [moved EXCEPT !.writes = w, !.queue = q, !.txn = x]
  BY <1>1, <1>7, <1>12
<1>14. r \in Phone
  BY <1>7, <1>8, <1>9, <1>11, <1>12, <1>13 DEF Phone
<1>15. /\ r.writes = w /\ r.queue = q /\ r.txn = x /\ r.cache = s.cache /\ r.feed = s.feed
       /\ r.unanswered = s.unanswered /\ r.puts = s.puts
  BY <1>7, <1>13 DEF Phone
<1>16. gone \cap Elements(again) = {}
  BY <1>2, <1>4 DEF Gone, Again
<1>17. Reran(s, r)
  BY ZenonT(30), <1>2, <1>4, <1>7, <1>8, <1>9, <1>10, <1>11, <1>12, <1>15, <1>16 DEF Reran
<1> QED
  BY <1>14, <1>17

(* A set below the post marks what is outstanding in the queue, and        *)
(* completes the rest of it.                                               *)
Marked(s) == {t \in Elements(s.queue) : s.txn[t].status = "sent"}

Dropped(s) ==
  {t \in Elements(s.queue) : s.txn[t].status \notin {"sent", "sentNeedsAbort"}}

Aborted(s, r) ==
  /\ r.cache = s.cache /\ r.feed = s.feed /\ r.unanswered = s.unanswered /\ r.puts = s.puts
  /\ Elements(r.queue) = Marked(s) /\ InOrder(r.queue, s.queue)
  /\ Elements(r.writes) = Elements(s.writes) \ Dropped(s)
  /\ Len(r.txn) = Len(s.txn)
  /\ \A t \in 1..Len(s.txn) :
       /\ t \in Marked(s) =>
            r.txn[t] = [s.txn[t] EXCEPT !.status = "sentNeedsAbort", !.why = "set"]
       /\ t \in Dropped(s) =>
            r.txn[t] = [s.txn[t] EXCEPT !.status = "completed", !.told = "set"]
       /\ t \notin Marked(s) \cup Dropped(s) => r.txn[t] = s.txn[t]

(* Abort does what Aborted says.                                           *)
LEMMA AbortFacts ==
  ASSUME NEW s \in Phone, NEW r, r = Abort(s)
  PROVE  r \in Phone /\ Aborted(s, r)
<1> DEFINE sent == {t \in Elements(s.queue) : s.txn[t].status = "sent"}
           told == {t \in Elements(s.queue) :
                      s.txn[t].status \notin {"sent", "sentNeedsAbort"}}
           after == Forget(s, told)
           x == [t \in DOMAIN s.txn |->
                   IF t \in sent
                   THEN [s.txn[t] EXCEPT !.status = "sentNeedsAbort", !.why = "set"]
                   ELSE IF t \in told
                   THEN [s.txn[t] EXCEPT !.status = "completed", !.told = "set"]
                   ELSE s.txn[t]]
<1>1. r = [after EXCEPT !.queue = Only(@, sent), !.txn = x]
  BY DEF Abort
<1>2. sent = Marked(s) /\ told = Dropped(s) /\ sent \cap told = {}
      /\ sent \subseteq Elements(s.queue)
  BY DEF Marked, Dropped
<1>3. /\ s.queue \in Seq(Nat) /\ s.txn \in Seq(Transactions)
      /\ Len(s.txn) \in Nat /\ DOMAIN s.txn = 1..Len(s.txn)
      /\ \A t \in 1..Len(s.txn) : s.txn[t] \in Transactions
  <2>1. s.queue \in Seq(Nat) /\ s.txn \in Seq(Transactions)
    BY DEF Phone
  <2> QED
    BY <2>1, LenProperties, ElementOfSeq
<1> HIDE DEF sent, told
<1>4. /\ after \in Phone /\ after.queue = s.queue /\ after.txn = s.txn
      /\ after.cache = s.cache /\ after.feed = s.feed
      /\ after.unanswered = s.unanswered /\ after.puts = s.puts
      /\ Elements(after.writes) = Elements(s.writes) \ told
  BY ForgetFacts
<1> HIDE DEF after
<1>5. /\ Only(s.queue, sent) \in Seq(Nat)
      /\ Elements(Only(s.queue, sent)) = sent
      /\ InOrder(Only(s.queue, sent), s.queue)
  <2>1. /\ Only(s.queue, sent) \in Seq(Nat)
        /\ Elements(Only(s.queue, sent)) = Elements(s.queue) \cap sent
    BY <1>3, ElementsOnly
  <2>2. InOrder(Only(s.queue, sent), s.queue)
    BY <1>3, OnlyOrder
  <2> QED
    BY <1>2, <2>1, <2>2
<1>6. ASSUME NEW t \in 1..Len(s.txn)
      PROVE  /\ x[t] \in Transactions
             /\ t \in sent =>
                  x[t] = [s.txn[t] EXCEPT !.status = "sentNeedsAbort", !.why = "set"]
             /\ t \in told =>
                  x[t] = [s.txn[t] EXCEPT !.status = "completed", !.told = "set"]
             /\ t \notin sent \cup told => x[t] = s.txn[t]
  <2>1. CASE t \in sent
    <3>1. x[t] = [s.txn[t] EXCEPT !.status = "sentNeedsAbort", !.why = "set"]
      BY <1>3, <2>1
    <3>2. x[t] \in Transactions
      BY <1>3, <3>1 DEF Transactions, Statuses, Outcomes
    <3> QED
      BY <1>2, <2>1, <3>1, <3>2
  <2>2. CASE t \notin sent /\ t \in told
    <3>1. x[t] = [s.txn[t] EXCEPT !.status = "completed", !.told = "set"]
      BY <1>3, <2>2
    <3>2. x[t] \in Transactions
      BY <1>3, <3>1 DEF Transactions, Statuses, Outcomes
    <3> QED
      BY <2>2, <3>1, <3>2
  <2>3. CASE t \notin sent /\ t \notin told
    BY <1>3, <2>3
  <2> QED
    BY <2>1, <2>2, <2>3
<1>7. x \in Seq(Transactions) /\ Len(x) = Len(s.txn)
  <2>1. x = [t \in 1..Len(s.txn) |-> x[t]]
    BY <1>3
  <2>2. \A t \in 1..Len(s.txn) : x[t] \in Transactions
    BY <1>6
  <2> HIDE DEF x
  <2> QED
    BY <1>3, <2>1, <2>2, SeqOf
<1> HIDE DEF x
<1>8. PICK q : q = Only(s.queue, sent)
  OBVIOUS
<1>9. r = [after EXCEPT !.queue = q, !.txn = x]
  BY <1>1, <1>4, <1>8
<1>10. r \in Phone
  BY <1>4, <1>5, <1>7, <1>8, <1>9 DEF Phone
<1>11. /\ r.writes = after.writes /\ r.queue = q /\ r.txn = x /\ r.cache = s.cache
       /\ r.feed = s.feed /\ r.unanswered = s.unanswered /\ r.puts = s.puts
  BY <1>4, <1>9 DEF Phone
<1>12. Aborted(s, r)
  BY <1>2, <1>4, <1>5, <1>6, <1>7, <1>8, <1>11 DEF Aborted
<1> QED
  BY <1>10, <1>12

-----------------------------------------------------------------------------
(* The parts of handlers keep what is known of a phone.                    *)

(* Nothing changes where a phone sends and notes nothing.                  *)
LEMMA SamePlaces ==
  ASSUME NEW s, NEW r, NEW l, r.puts = s.puts, r.unanswered = s.unanswered
  PROVE  /\ Asks(r, l) = Asks(s, l)
         /\ \A t : Somewhere(t, s, l) => Somewhere(t, r, l)
         /\ \A t : Nowhere(t, s, l) => Nowhere(t, r, l)
         /\ Noted(s, l) => Noted(r, l)
<1>1. Asks(r, l) = Asks(s, l)
  BY DEF Asks
<1> QED
  BY <1>1 DEF Somewhere, Nowhere, InAsks, InNotices, InHeld, InTodo, Noted

(* Messages stay right when nothing else becomes outstanding.              *)
LEMMA SameMessages ==
  ASSUME NEW d, NEW s, NEW r, NEW l, NEW ap, Carries(d, s, l, ap),
         r.puts = s.puts, r.unanswered = s.unanswered,
         Of(s.txn, d) \subseteq Of(r.txn, d), Outstanding(r) \subseteq Outstanding(s)
  PROVE  Carries(d, r, l, ap)
<1>1. Asks(r, l) = Asks(s, l)
  BY DEF Asks
<1>2. ASSUME NEW m, RightMessage(d, m, s, ap)
      PROVE  RightMessage(d, m, r, ap)
  BY <1>2 DEF RightMessage
<1>3. ASSUME NEW q, RightMessages(d, q, s, ap)
      PROVE  RightMessages(d, q, r, ap)
  BY <1>2, <1>3 DEF RightMessages
<1>4. /\ RightMessages(d, Asks(r, l), r, ap) /\ RightMessages(d, l.dn, r, ap)
      /\ RightMessages(d, l.hd, r, ap) /\ RightMessages(d, l.td, r, ap)
  BY <1>1, <1>3 DEF Carries
<1>5. ASSUME NEW b \in Elements(r.unanswered)
      PROVE  /\ b # << >> /\ Elements(b) \subseteq Of(r.txn, d)
             /\ Elements(b) \cap Outstanding(r) # {} => Outstanding(r) \subseteq Elements(b)
  BY DEF Carries
<1> QED
  BY <1>4, <1>5 DEF Carries

(* A queue that has lost some of its elements is in order.                 *)
LEMMA SameOrder ==
  ASSUME NEW s, NEW r, InOrder(r.queue, s.queue),
         \A t \in Elements(r.queue) :
           r.txn[t].status \in Pending <=> s.txn[t].status \in Pending,
         \A i, j \in 1..Len(s.queue) :
           i < j /\ s.txn[s.queue[j]].status \in Pending
           => s.txn[s.queue[i]].status \in Pending
  PROVE  \A i, j \in 1..Len(r.queue) :
           i < j /\ r.txn[r.queue[j]].status \in Pending
           => r.txn[r.queue[i]].status \in Pending
<1> SUFFICES ASSUME NEW k \in 1..Len(r.queue), NEW n \in 1..Len(r.queue), k < n,
                    r.txn[r.queue[n]].status \in Pending
             PROVE  r.txn[r.queue[k]].status \in Pending
  OBVIOUS
<1>1. PICK i \in 1..Len(s.queue), j \in 1..Len(s.queue) :
        i < j /\ r.queue[k] = s.queue[i] /\ r.queue[n] = s.queue[j]
  BY DEF InOrder
<1>2. r.queue[k] \in Elements(r.queue) /\ r.queue[n] \in Elements(r.queue)
  BY DEF Elements
<1> QED
  BY <1>1, <1>2

(* What is run again waits to be sent.                                     *)
Ready(s) ==
  \A t \in Elements(s.queue) :
    /\ s.txn[t].status # "needsAbort"
    /\ s.txn[t].status = "run" => s.txn[t].retries < MaxRetries

(* Running the queue again keeps what is known of the phone.               *)
LEMMA RerunSound ==
  ASSUME NEW d, NEW s \in Phone, NEW r \in Phone, NEW l, NEW ap, NEW w,
         Reran(s, r), Sound(d, s, l, ap, w)
  PROVE  Sound(d, r, l, ap, w) /\ Ready(r)
<1>1. /\ r.unanswered = s.unanswered /\ r.puts = s.puts /\ Len(r.txn) = Len(s.txn)
      /\ Elements(r.queue) = Elements(s.queue) \ Gone(s)
  BY DEF Reran
<1>2. \A t \in Elements(s.queue) : t \in Of(s.txn, d)
        /\ s.txn[t].status \in Pending \cup {"run", "needsAbort"}
  BY DEF Sound, Queued
<1>3. \A t \in 1..Len(s.txn) : s.txn[t] \in Transactions
  <2>1. s.txn \in Seq(Transactions)
    BY DEF Phone
  <2> QED
    BY <2>1, ElementOfSeq
<1>4. ASSUME NEW t \in 1..Len(s.txn), t \in Gone(s)
      PROVE  /\ r.txn[t].dev = s.txn[t].dev /\ r.txn[t].status = "completed"
             /\ r.txn[t].told = IF t \in Tired(s) THEN "maxretries" ELSE s.txn[t].why
             /\ s.txn[t].status \notin Pending
  <2>1. r.txn[t] = [s.txn[t] EXCEPT !.status = "completed",
          !.told = IF t \in Tired(s) THEN "maxretries" ELSE s.txn[t].why]
    BY <1>4 DEF Reran
  <2>2. s.txn[t].status \notin Pending
    BY <1>4 DEF Gone, Tired, Pending
  <2> QED
    BY <1>3, <2>1, <2>2 DEF Transactions
<1>5. ASSUME NEW t \in 1..Len(s.txn), t \notin Gone(s)
      PROVE  /\ r.txn[t].dev = s.txn[t].dev /\ r.txn[t].status = s.txn[t].status
             /\ r.txn[t].told = s.txn[t].told /\ r.txn[t].why = s.txn[t].why
             /\ r.txn[t].retries = s.txn[t].retries
  <2>1. CASE t \in Again(s)
    <3>1. PICK o \in Node : r.txn[t] = [s.txn[t] EXCEPT !.out = o]
      BY <2>1 DEF Reran
    <3> QED
      BY <1>3, <3>1 DEF Transactions
  <2>2. CASE t \notin Again(s)
    BY <1>5, <2>2 DEF Reran
  <2> QED
    BY <2>1, <2>2
<1>6. Of(r.txn, d) = Of(s.txn, d)
  BY <1>1, <1>4, <1>5 DEF Of
<1>7. Of(s.txn, d) \subseteq 1..Len(s.txn)
  BY DEF Of
<1>8. \A t \in Of(s.txn, d) : r.txn[t].status \in Pending <=> s.txn[t].status \in Pending
  BY <1>4, <1>5, <1>7 DEF Pending
<1>9. Outstanding(r) = Outstanding(s)
  <2>1. \A t \in Gone(s) : s.txn[t].status \notin Pending
    BY DEF Gone, Tired, Pending
  <2> QED
    BY <1>1, <1>2, <1>8, <2>1 DEF Outstanding
<1>10. Placed(d, r, l)
  <2>1. Placed(d, s, l)
    BY DEF Sound
  <2> QED
    BY <1>1, <1>6, <1>8, <2>1, SamePlaces DEF Placed
<1>11. Noted(r, l)
  BY <1>1, SamePlaces DEF Sound
<1>12. Carries(d, r, l, ap)
  BY <1>1, <1>6, <1>9, SameMessages DEF Sound
<1>13. Queued(d, r)
  <2>1. ASSUME NEW t \in Elements(r.queue)
        PROVE  t \in Of(r.txn, d) /\ r.txn[t].status \in Pending \cup {"run", "needsAbort"}
    <3>1. t \in Elements(s.queue) /\ t \notin Gone(s)
      BY <1>1, <2>1
    <3>2. t \in Of(s.txn, d) /\ s.txn[t].status \in Pending \cup {"run", "needsAbort"}
      BY <1>2, <3>1
    <3> QED
      BY <1>5, <1>6, <1>7, <3>1, <3>2
  <2>2. \A i, j \in 1..Len(r.queue) :
          i < j /\ r.txn[r.queue[j]].status \in Pending => r.txn[r.queue[i]].status \in Pending
    <3>1. \A t \in Elements(r.queue) :
            r.txn[t].status \in Pending <=> s.txn[t].status \in Pending
      BY <1>6, <1>8, <2>1
    <3>2. \A i, j \in 1..Len(s.queue) :
            i < j /\ s.txn[s.queue[j]].status \in Pending
            => s.txn[s.queue[i]].status \in Pending
      BY DEF Sound, Queued
    <3>3. InOrder(r.queue, s.queue)
      BY DEF Reran
    <3> QED
      BY <3>1, <3>2, <3>3, SameOrder
  <2>3. ASSUME NEW t \in Of(r.txn, d), r.txn[t].status \in {"run", "sent"}
        PROVE  t \in Elements(r.queue)
    <3>1. t \in 1..Len(s.txn) /\ t \in Of(s.txn, d) /\ t \notin Gone(s)
      BY <1>4, <1>6, <1>7, <2>3
    <3>2. s.txn[t].status \in {"run", "sent"}
      BY <1>5, <2>3, <3>1
    <3>3. t \in Elements(s.queue)
      BY <3>1, <3>2 DEF Sound, Queued
    <3> QED
      BY <1>1, <3>1, <3>3
  <2> QED
    BY <2>1, <2>2, <2>3 DEF Queued
<1>14. Fresh(d, r)
  <2> SUFFICES ASSUME Outstanding(r) # {}, NEW t \in Of(r.txn, d), r.txn[t].status = "run"
               PROVE  r.txn[t].retries = 0
    BY DEF Fresh
  <2>1. t \in 1..Len(s.txn) /\ t \in Of(s.txn, d) /\ t \notin Gone(s)
    BY <1>4, <1>6, <1>7
  <2>2. s.txn[t].status = "run" /\ r.txn[t].retries = s.txn[t].retries
    BY <1>5, <2>1
  <2> QED
    BY <1>9, <2>1, <2>2 DEF Sound, Fresh
<1>15. ASSUME NEW t \in Gone(s)
       PROVE  /\ t \in Of(s.txn, d) /\ t \in UnderWay(s.txn, d)
              /\ r.txn[t].told \in {"maxretries", "disconnect", "set"}
              /\ r.txn[t].told \in {"maxretries", "set"} => t \notin ap
  <2>1. t \in Elements(s.queue) /\ s.txn[t].status \in {"run", "needsAbort"}
    BY DEF Gone, Tired
  <2>2. t \in Of(s.txn, d) /\ t \in 1..Len(s.txn) /\ s.txn[t].dev = d
    BY <1>2, <2>1 DEF Of
  <2>3. Honest(t, s, ap)
    BY <2>2 DEF Sound, Upright
  <2>4. s.txn[t].told = "none"
    BY <2>1, <2>3 DEF Honest
  <2>5. t \in UnderWay(s.txn, d)
    BY <2>2, <2>4 DEF UnderWay
  <2>6. r.txn[t].told = IF t \in Tired(s) THEN "maxretries" ELSE s.txn[t].why
    BY <1>4, <2>2
  <2>7. CASE t \in Tired(s)
    <3>1. s.txn[t].status = "run"
      BY <2>7 DEF Tired
    <3> QED
      BY <2>2, <2>3, <2>5, <2>6, <2>7, <3>1 DEF Honest
  <2>8. CASE t \notin Tired(s)
    <3>1. s.txn[t].status = "needsAbort"
      BY <2>8 DEF Gone
    <3> QED
      BY <2>1, <2>2, <2>3, <2>5, <2>6, <2>8, <3>1 DEF Honest
  <2> QED
    BY <2>7, <2>8
<1>16. Listed(d, r, w)
  <2>1. UnderWay(r.txn, d) = UnderWay(s.txn, d) \ Gone(s)
    <3>1. ASSUME NEW t \in 1..Len(s.txn)
          PROVE  t \in UnderWay(r.txn, d) <=> t \in UnderWay(s.txn, d) /\ t \notin Gone(s)
      <4>1. CASE t \in Gone(s)
        BY <1>15, <4>1 DEF UnderWay
      <4>2. CASE t \notin Gone(s)
        BY <1>1, <1>5, <4>2 DEF UnderWay
      <4> QED
        BY <4>1, <4>2
    <3>2. /\ UnderWay(r.txn, d) \subseteq 1..Len(s.txn)
          /\ UnderWay(s.txn, d) \subseteq 1..Len(s.txn)
      BY <1>1 DEF UnderWay
    <3> QED
      BY <3>1, <3>2
  <2>2. Again(s) \subseteq UnderWay(s.txn, d) /\ Again(s) \cap Gone(s) = {}
    <3>1. ASSUME NEW t \in Again(s)
          PROVE  t \in UnderWay(s.txn, d)
      <4>1. t \in Elements(s.queue) /\ s.txn[t].status = "run"
        BY DEF Again
      <4>2. t \in Of(s.txn, d)
        BY <1>2, <4>1
      <4>3. s.txn[t].told = "none"
        BY <4>1, <4>2 DEF Sound, Upright, Honest
      <4> QED
        BY <4>2, <4>3 DEF UnderWay, Of
    <3> QED
      BY <3>1 DEF Again, Gone
  <2>3. Elements(r.writes) = (Elements(s.writes) \ (Gone(s) \cup Again(s))) \cup Again(s)
    BY DEF Reran
  <2>4. Elements(s.writes) \ Comments = UnderWay(s.txn, d)
        /\ Elements(s.writes) \cap Comments \subseteq w
    BY DEF Sound, Listed
  <2>5. Elements(r.writes) = Elements(s.writes) \ Gone(s)
    BY <2>2, <2>3, <2>4
  <2>6. Gone(s) \cap Comments = {}
    BY <1>15, <2>4
  <2> QED
    BY <2>1, <2>4, <2>5, <2>6 DEF Listed
<1>17. Upright(d, r, ap)
  <2> SUFFICES ASSUME NEW t \in Of(r.txn, d)
               PROVE  Honest(t, r, ap)
    BY DEF Upright
  <2>1. t \in Of(s.txn, d) /\ t \in 1..Len(s.txn) /\ Honest(t, s, ap)
    BY <1>6, <1>7 DEF Sound, Upright
  <2>2. CASE t \in Gone(s)
    BY <1>4, <1>15, <2>1, <2>2 DEF Honest
  <2>3. CASE t \notin Gone(s)
    BY <1>1, <1>5, <2>1, <2>3 DEF Honest
  <2> QED
    BY <2>2, <2>3
<1>18. Ready(r)
  <2> SUFFICES ASSUME NEW t \in Elements(r.queue)
               PROVE  /\ r.txn[t].status # "needsAbort"
                      /\ r.txn[t].status = "run" => r.txn[t].retries < MaxRetries
    BY DEF Ready
  <2>1. t \in Elements(s.queue) /\ t \notin Gone(s)
    BY <1>1
  <2>2. t \in 1..Len(s.txn)
    BY <1>2, <1>7, <2>1
  <2>3. s.txn[t].status # "needsAbort" /\ t \notin Tired(s)
    BY <2>1 DEF Gone
  <2>4. s.txn[t].status = "run" => ~(s.txn[t].retries >= MaxRetries)
    BY <2>1, <2>3 DEF Tired
  <2>5. s.txn[t].retries \in Nat /\ MaxRetries \in Nat
    BY <1>3, <2>2, RetriesAssumption DEF Transactions
  <2> QED
    BY <1>5, <2>1, <2>2, <2>3, <2>4, <2>5
<1> QED
  BY <1>10, <1>11, <1>12, <1>13, <1>14, <1>16, <1>17, <1>18 DEF Sound


(* Elements of a queue that are in Nat are not comments.                   *)
LEMMA NoComment == \A t \in Nat : t \notin Comments
BY CommentAssumption

(* The transactions of a phone are numbers, and no comments.               *)
LEMMA OfNat ==
  ASSUME NEW d, NEW s \in Phone
  PROVE  /\ Of(s.txn, d) \subseteq 1..Len(s.txn) /\ Len(s.txn) \in Nat
         /\ \A t \in Of(s.txn, d) : t \in Nat /\ t \notin Comments /\ s.txn[t] \in Transactions
<1>1. s.txn \in Seq(Transactions)
  BY DEF Phone
<1>2. Len(s.txn) \in Nat /\ \A t \in 1..Len(s.txn) : s.txn[t] \in Transactions
  BY <1>1, LenProperties, ElementOfSeq
<1> QED
  BY <1>2, NoComment DEF Of

(* An element is added to the second of two queues in a row.               *)
LEMMA ConcatAppend ==
  ASSUME NEW S, NEW q \in Seq(S), NEW u \in Seq(S), NEW x \in S
  PROVE  q \o u \in Seq(S) /\ q \o Append(u, x) = Append(q \o u, x)
<1>1. <<x>> \in Seq(S)
  <2>1. <<x>> = [i \in 1..1 |-> x]
    OBVIOUS
  <2>2. [i \in 1..1 |-> x] \in Seq(S)
    BY IsASeq
  <2> QED
    BY <2>1, <2>2
<1>2. q \o u \in Seq(S)
  BY ConcatProperties
<1>3. q \o (u \o <<x>>) = (q \o u) \o <<x>>
  BY <1>1, ConcatAssociative
<1>4. Append(u, x) = u \o <<x>>
  BY AppendIsConcat
<1>5. Append(q \o u, x) = (q \o u) \o <<x>>
  BY <1>2, AppendIsConcat
<1> QED
  BY <1>2, <1>3, <1>4, <1>5

(* A request that is added is where its transactions are, and no other is. *)
LEMMA PutPlaces ==
  ASSUME NEW s \in Phone, NEW r \in Phone, NEW l \in Line, NEW m \in Puts, NEW t \in Nat,
         r.puts = Append(s.puts, m), r.unanswered = Append(s.unanswered, m.batch)
  PROVE  /\ Asks(s, l) \in Seq(Requests) /\ Asks(r, l) = Append(Asks(s, l), m)
         /\ m \in Requests /\ Carried(m) = Elements(m.batch) /\ m.batch \in Seq(Nat)
         /\ t \in Elements(m.batch) /\ Nowhere(t, s, l) => Somewhere(t, r, l)
         /\ t \notin Elements(m.batch) /\ Somewhere(t, s, l) => Somewhere(t, r, l)
         /\ t \notin Elements(m.batch) /\ Nowhere(t, s, l) => Nowhere(t, r, l)
<1>1. /\ l.ob \in Seq(Requests) /\ s.puts \in Seq(Requests) /\ m \in Requests
      /\ s.unanswered \in Seq(Seq(Nat)) /\ m.batch \in Seq(Nat) /\ m.type = "put"
  BY DEF Line, Phone, Requests, Puts
<1>2. Asks(s, l) \in Seq(Requests) /\ Asks(r, l) = Append(Asks(s, l), m)
  <2>1. PICK o, p : o = l.ob /\ p = s.puts
    OBVIOUS
  <2>2. o \o p \in Seq(Requests) /\ o \o Append(p, m) = Append(o \o p, m)
    <3>1. o \in Seq(Requests) /\ p \in Seq(Requests) /\ m \in Requests
      BY <1>1, <2>1
    <3> QED
      BY <3>1, ConcatAppend
  <2> QED
    BY <2>1, <2>2 DEF Asks
<1>3. Carried(m) = Elements(m.batch)
  BY <1>1 DEF Carried
<1>4. PICK q, a : q = Asks(s, l) /\ a = Asks(r, l)
  OBVIOUS
<1>5. /\ t \notin Elements(m.batch) /\ Once(t, q) => Once(t, a)
      /\ t \in Elements(m.batch) /\ None(t, q) => Once(t, a)
      /\ None(t, a) <=> None(t, q) /\ t \notin Elements(m.batch)
  <2>1. q \in Seq(Requests) /\ a = Append(q, m) /\ m \in Requests
    BY <1>1, <1>2, <1>4
  <2>2. /\ t \notin Carried(m) /\ Once(t, q) => Once(t, a)
        /\ t \in Carried(m) /\ None(t, q) => Once(t, a)
    BY <2>1, OnceAppend
  <2>3. None(t, a) <=> None(t, q) /\ t \notin Carried(m)
    BY <2>1, NoneAppend
  <2> QED
    BY <1>3, <2>2, <2>3
<1>6. PICK u, b : u = s.unanswered /\ b = r.unanswered
  OBVIOUS
<1>7. /\ t \notin Elements(m.batch) /\ Asked(t, u) => Asked(t, b)
      /\ t \in Elements(m.batch) /\ Unasked(t, u) => Asked(t, b)
      /\ t \notin Elements(m.batch) /\ Unasked(t, u) => Unasked(t, b)
  BY <1>1, <1>6, AskedAppend
<1>8. t \in Elements(m.batch) /\ Nowhere(t, s, l) => InAsks(t, r, l)
  BY <1>4, <1>5, <1>6, <1>7 DEF Nowhere, InAsks
<1>9. t \notin Elements(m.batch) /\ Nowhere(t, s, l) => Nowhere(t, r, l)
  BY <1>4, <1>5, <1>6, <1>7 DEF Nowhere
<1>10. t \notin Elements(m.batch) /\ Somewhere(t, s, l) => Somewhere(t, r, l)
  BY <1>4, <1>5, <1>6, <1>7 DEF Somewhere, InAsks, InNotices, InHeld, InTodo
<1> QED
  BY <1>1, <1>2, <1>3, <1>8, <1>9, <1>10 DEF Somewhere

(* What is sent at the end of a handler is sent as it should be.           *)
LEMMA SendSound ==
  ASSUME NEW d, NEW s \in Phone, NEW r, NEW l \in Line, NEW ap, NEW w,
         r = SendReady(s), Sound(d, s, l, ap, w), Ready(s)
  PROVE  r \in Phone /\ Sound(d, r, l, ap, w) /\ Sent(r)
<1>1. /\ \A t \in Elements(s.queue) : t \in Of(s.txn, d)
           /\ s.txn[t].status \in Pending \cup {"run", "needsAbort"}
      /\ \A t \in Elements(s.queue) : s.txn[t].status # "needsAbort"
  BY DEF Sound, Queued, Ready
<1>2. /\ Of(s.txn, d) \subseteq 1..Len(s.txn) /\ Len(s.txn) \in Nat
      /\ \A t \in Of(s.txn, d) : t \in Nat /\ t \notin Comments /\ s.txn[t] \in Transactions
  BY OfNat
<1>3. Elements(s.writes) \ Comments \subseteq 1..Len(s.txn)
  BY DEF Sound, Listed, UnderWay
<1>4. r \in Phone /\ IF Waits(s) THEN Launched(s, r) ELSE r = s
  <2>1. Elements(s.queue) \subseteq 1..Len(s.txn)
    BY <1>1, <1>2
  <2>2. \A t \in Elements(s.queue) : s.txn[t].status = "run" => s.txn[t].retries < MaxRetries
    BY DEF Ready
  <2> QED
    BY <1>3, <2>1, <2>2, SendFacts
<1>5. s.queue \in Seq(Nat) /\ s.unanswered \in Seq(Seq(Nat))
  BY DEF Phone
<1>6. CASE ~Waits(s)
  <2>1. r = s
    BY <1>4, <1>6
  <2>2. ASSUME s.queue # << >>
        PROVE  s.txn[s.queue[1]].status # "run"
    <3>1. PICK t \in Elements(s.queue) : s.txn[t].status # "run"
      BY <1>6, <2>2 DEF Waits
    <3>2. PICK i \in 1..Len(s.queue) : t = s.queue[i]
      BY <3>1 DEF Elements
    <3>3. s.txn[s.queue[i]].status \in Pending
      BY <1>1, <3>1, <3>2
    <3>4. Len(s.queue) \in Nat /\ 1 \in 1..Len(s.queue) /\ (i = 1 \/ 1 < i)
      BY <1>5, LenProperties
    <3>5. s.txn[s.queue[1]].status \in Pending
      BY <3>3, <3>4 DEF Sound, Queued
    <3> QED
      BY <3>5 DEF Pending
  <2> QED
    BY <1>1, <1>4, <2>1, <2>2 DEF Sent
<1>7. CASE Waits(s)
  <2>1. PICK m \in Puts : m.batch = s.queue /\ r.puts = Append(s.puts, m)
    BY <1>4, <1>7 DEF Launched
  <2>2. /\ r.queue = s.queue /\ r.writes = s.writes /\ Len(r.txn) = Len(s.txn)
        /\ r.unanswered = Append(s.unanswered, m.batch)
    BY <1>4, <1>7, <2>1 DEF Launched
  <2>3. ASSUME NEW t \in 1..Len(s.txn)
        PROVE  /\ t \in Elements(s.queue) => r.txn[t] = Attempted(s.txn[t])
               /\ t \notin Elements(s.queue) => r.txn[t] = s.txn[t]
    BY <1>4, <1>7 DEF Launched
  <2>4. ASSUME NEW t \in Elements(s.queue)
        PROVE  /\ t \in Of(s.txn, d) /\ t \in 1..Len(s.txn)
               /\ s.txn[t].status = "run" /\ r.txn[t].status = "sent"
               /\ r.txn[t].dev = s.txn[t].dev /\ r.txn[t].told = s.txn[t].told
               /\ Nowhere(t, s, l) /\ t \notin ap
    <3>1. t \in Of(s.txn, d) /\ t \in 1..Len(s.txn) /\ s.txn[t].status = "run"
      BY <1>1, <1>2, <1>7 DEF Waits
    <3>2. r.txn[t] = Attempted(s.txn[t]) /\ s.txn[t] \in Transactions
      BY <1>2, <2>3, <3>1
    <3>3. Nowhere(t, s, l)
      BY <3>1 DEF Sound, Placed, Pending
    <3>4. t \notin ap
      BY <3>1 DEF Sound, Upright, Honest
    <3>5. /\ r.txn[t].status = "sent" /\ r.txn[t].dev = s.txn[t].dev
          /\ r.txn[t].told = s.txn[t].told
      BY <3>2 DEF Attempted, Transactions
    <3> QED
      BY <3>1, <3>3, <3>4, <3>5
  <2>5. Of(r.txn, d) = Of(s.txn, d)
    <3>1. \A t \in 1..Len(s.txn) : r.txn[t].dev = s.txn[t].dev
      BY <2>3, <2>4
    <3> QED
      BY <2>2, <3>1 DEF Of
  <2>6. Outstanding(s) = {} /\ Outstanding(r) = Elements(s.queue)
    BY <2>2, <2>4 DEF Outstanding, Pending
  <2>7. \A t \in Of(s.txn, d) :
          t \notin Elements(s.queue) =>
            r.txn[t] = s.txn[t] /\ s.txn[t].status \notin {"run", "sent"}
    BY <1>2, <2>3 DEF Sound, Queued
  <2>8. /\ Asks(s, l) \in Seq(Requests) /\ Asks(r, l) = Append(Asks(s, l), m)
        /\ m \in Requests /\ Carried(m) = Elements(s.queue) /\ m.type = "put"
    <3>1. 0 \in Nat /\ m.type = "put"
      BY DEF Puts
    <3> QED
      BY <1>4, <2>1, <2>2, <3>1, PutPlaces
  <2>9. Elements(Asks(r, l)) = Elements(Asks(s, l)) \cup {m}
    BY <2>8, ElementsAppend
  <2>10. Elements(r.unanswered) = Elements(s.unanswered) \cup {s.queue}
    BY <1>5, <2>1, <2>2, ElementsAppend
  <2>11. Placed(d, r, l)
    <3> SUFFICES ASSUME NEW t \in Of(s.txn, d)
                 PROVE  IF r.txn[t].status \in Pending THEN Somewhere(t, r, l)
                                                       ELSE Nowhere(t, r, l)
      BY <2>5 DEF Placed
    <3>1. t \in Nat
      BY <1>2
    <3>2. CASE t \in Elements(s.queue)
      <4>1. Somewhere(t, r, l)
        BY <1>4, <2>1, <2>2, <2>4, <3>1, <3>2, PutPlaces
      <4> QED
        BY <2>4, <3>2, <4>1 DEF Pending
    <3>3. CASE t \notin Elements(s.queue)
      <4>1. IF s.txn[t].status \in Pending THEN Somewhere(t, s, l) ELSE Nowhere(t, s, l)
        BY DEF Sound, Placed
      <4>2. r.txn[t] = s.txn[t]
        BY <2>7, <3>3
      <4>3. /\ Somewhere(t, s, l) => Somewhere(t, r, l)
            /\ Nowhere(t, s, l) => Nowhere(t, r, l)
        BY <1>4, <2>1, <2>2, <3>1, <3>3, PutPlaces
      <4> QED
        BY <4>1, <4>2, <4>3
    <3> QED
      BY <3>2, <3>3
  <2>12. /\ \A x \in Elements(Asks(s, l)) \cup Elements(l.dn) \cup Elements(l.hd)
                     \cup Elements(l.td) : Carried(x) \cap Elements(s.queue) = {}
         /\ \A b \in Elements(s.unanswered) : Elements(b) \cap Elements(s.queue) = {}
    BY <2>4 DEF Nowhere, None, Unasked
  <2>13. Noted(r, l)
    <3>1. Noted(s, l)
      BY DEF Sound
    <3>2. Content(m) = s.queue
      BY <2>1, <2>8 DEF Content
    <3> QED
      BY <2>8, <2>9, <2>10, <2>12, <3>1, <3>2 DEF Noted, Linked
  <2>14. ASSUME NEW x, RightMessage(d, x, s, ap), Carried(x) \cap Elements(s.queue) = {}
         PROVE  RightMessage(d, x, r, ap)
    BY <2>5, <2>6, <2>14 DEF RightMessage
  <2>15. RightMessage(d, m, r, ap)
    BY <1>7, <2>1, <2>4, <2>5, <2>6, <2>8 DEF RightMessage, Waits
  <2>16. Carries(d, r, l, ap)
    <3>0. Carries(d, s, l, ap)
      BY DEF Sound
    <3>1. RightMessages(d, Asks(r, l), r, ap)
      BY <2>9, <2>12, <2>14, <2>15, <3>0 DEF Carries, RightMessages
    <3>2. RightMessages(d, l.dn, r, ap)
      BY <2>12, <2>14, <3>0 DEF Carries, RightMessages
    <3>3. RightMessages(d, l.hd, r, ap)
      BY <2>12, <2>14, <3>0 DEF Carries, RightMessages
    <3>4. RightMessages(d, l.td, r, ap)
      BY <2>12, <2>14, <3>0 DEF Carries, RightMessages
    <3>5. \A b \in Elements(r.unanswered) :
            /\ b # << >> /\ Elements(b) \subseteq Of(r.txn, d)
            /\ Elements(b) \cap Outstanding(r) # {} => Outstanding(r) \subseteq Elements(b)
      BY <1>1, <1>7, <2>5, <2>6, <2>10, <2>12, <3>0 DEF Carries, Waits
    <3> QED
      BY <3>1, <3>2, <3>3, <3>4, <3>5 DEF Carries
  <2>17. Queued(d, r)
    <3>1. \A i \in 1..Len(s.queue) : s.queue[i] \in Elements(s.queue)
      BY DEF Elements
    <3> QED
      BY <2>2, <2>4, <2>5, <2>7, <3>1 DEF Queued, Pending
  <2>18. Fresh(d, r)
    BY <2>4, <2>5, <2>7 DEF Fresh
  <2>19. Listed(d, r, w)
    <3>1. \A t \in 1..Len(s.txn) : r.txn[t].dev = s.txn[t].dev /\ r.txn[t].told = s.txn[t].told
      BY <2>3, <2>4
    <3>2. UnderWay(r.txn, d) = UnderWay(s.txn, d)
      BY <2>2, <3>1 DEF UnderWay
    <3> QED
      BY <2>2, <3>2 DEF Sound, Listed
  <2>20. Upright(d, r, ap)
    <3> SUFFICES ASSUME NEW t \in Of(s.txn, d)
                 PROVE  Honest(t, r, ap)
      BY <2>5 DEF Upright
    <3>1. Honest(t, s, ap)
      BY DEF Sound, Upright
    <3>2. CASE t \in Elements(s.queue)
      BY <2>4, <3>1, <3>2 DEF Honest
    <3>3. CASE t \notin Elements(s.queue)
      BY <2>2, <2>7, <3>1, <3>3 DEF Honest
    <3> QED
      BY <3>2, <3>3
  <2>21. Sent(r)
    <3>1. s.queue # << >> => s.queue[1] \in Elements(s.queue)
      <4>1. s.queue # << >> => 1 \in 1..Len(s.queue)
        BY <1>5, TailFacts
      <4> QED
        BY <4>1 DEF Elements
    <3> QED
      BY <2>2, <2>4, <3>1 DEF Sent
  <2> QED
    BY <1>4, <2>11, <2>13, <2>16, <2>17, <2>18, <2>19, <2>20, <2>21 DEF Sound
<1> QED
  BY <1>6, <1>7

-----------------------------------------------------------------------------
(* What messages without a transaction do to a queue: nothing.             *)
Harmless(m) ==
  /\ Carried(m) = {} /\ m.type # "put"
  /\ m.type = "reply" => \E c \in Comments : m.what = <<c>> /\ m.status \in {"ok", "denied"}

Same(q, p) ==
  /\ \A t : (None(t, q) => None(t, p)) /\ (Once(t, q) => Once(t, p))
  /\ \A m \in Elements(p) : m \in Elements(q) \/ Harmless(m)

(* A queue that stays as it is.                                            *)
LEMMA SameRefl == \A q : Same(q, q)
BY DEF Same

(* A queue that changes twice.                                             *)
LEMMA SameTrans ==
  ASSUME NEW q, NEW p, NEW x, Same(q, p), Same(p, x)
  PROVE  Same(q, x)
BY DEF Same

(* A harmless message is added.                                            *)
LEMMA SameAppend ==
  ASSUME NEW S, NEW q \in Seq(S), NEW m \in S, Harmless(m), NEW a, a = Append(q, m)
  PROVE  a \in Seq(S) /\ Same(q, a)
<1>1. a \in Seq(S) /\ Elements(a) = Elements(q) \cup {m}
  BY ElementsAppend
<1>2. \A t : t \notin Carried(m)
  BY DEF Harmless
<1>3. ASSUME NEW t
      PROVE  (None(t, q) => None(t, a)) /\ (Once(t, q) => Once(t, a))
  BY <1>2, OnceAppend, NoneAppend
<1> QED
  BY <1>1, <1>3 DEF Same

(* A message without a transaction is taken.                               *)
LEMMA SameTail ==
  ASSUME NEW S, NEW q \in Seq(S), q # << >>, Carried(Head(q)) = {}, NEW a, a = Tail(q)
  PROVE  a \in Seq(S) /\ Same(q, a)
<1>1. a \in Seq(S) /\ Elements(a) \subseteq Elements(q)
  BY ElementsTail
<1>3. ASSUME NEW t
      PROVE  (None(t, q) => None(t, a)) /\ (Once(t, q) => Once(t, a))
  BY OnceTail, NoneTail
<1> QED
  BY <1>1, <1>3 DEF Same

(* Harmless messages before or behind a queue.                             *)
LEMMA SameConcat ==
  ASSUME NEW S, NEW q \in Seq(S), NEW u \in Seq(S), \A m \in Elements(u) : Harmless(m),
         NEW a, NEW b, a = q \o u, b = u \o q
  PROVE  a \in Seq(S) /\ b \in Seq(S) /\ Same(q, a) /\ Same(q, b)
<1>1. /\ a \in Seq(S) /\ Elements(a) = Elements(q) \cup Elements(u)
      /\ b \in Seq(S) /\ Elements(b) = Elements(q) \cup Elements(u)
  BY ElementsConcat
<1>2. \A t : None(t, u)
  BY DEF None, Harmless
<1>3. ASSUME NEW t
      PROVE  /\ None(t, q) => None(t, a) /\ None(t, b)
             /\ Once(t, q) => Once(t, a) /\ Once(t, b)
  <2>1. None(t, q) => None(t, a) /\ None(t, b)
    BY <1>2, NoneConcat
  <2>2. Once(t, q) => Once(t, a)
    BY <1>2, OnceConcat
  <2>3. Once(t, q) => Once(t, b)
    BY <1>2, OnceConcat
  <2> QED
    BY <2>1, <2>2, <2>3
<1> QED
  BY <1>1, <1>3 DEF Same

(* What is known of a transaction that does not depend on its output.      *)
Alike(x, y) ==
  /\ x.dev = y.dev /\ x.status = y.status /\ x.retries = y.retries
  /\ x.why = y.why /\ x.told = y.told

SameLine(s, l, r, k) ==
  /\ Same(Asks(s, l), Asks(r, k)) /\ Same(l.dn, k.dn) /\ Same(l.hd, k.hd)
  /\ Same(l.td, k.td)

(* A phone whose messages and transactions are the same stays as it is.    *)
LEMMA SameSound ==
  ASSUME NEW d, NEW s, NEW l, NEW ap, NEW w, Sound(d, s, l, ap, w),
         NEW r, NEW k, NEW bp, NEW x, SameLine(s, l, r, k),
         r.queue = s.queue, r.unanswered = s.unanswered,
         Of(r.txn, d) = Of(s.txn, d),
         \A t \in Of(s.txn, d) : Alike(r.txn[t], s.txn[t]) /\ (t \in bp <=> t \in ap),
         Listed(d, r, x)
  PROVE  Sound(d, r, k, bp, x)
<1>1. \A t \in Of(s.txn, d) : r.txn[t].status = s.txn[t].status
  BY DEF Alike
<1>2. \A t \in Elements(s.queue) : t \in Of(s.txn, d)
  BY DEF Sound, Queued
<1>3. Outstanding(r) = Outstanding(s)
  BY <1>1, <1>2 DEF Outstanding
<1>4. ASSUME NEW t
      PROVE  /\ Somewhere(t, s, l) => Somewhere(t, r, k)
             /\ Nowhere(t, s, l) => Nowhere(t, r, k)
  <2>1. /\ None(t, Asks(s, l)) => None(t, Asks(r, k))
        /\ Once(t, Asks(s, l)) => Once(t, Asks(r, k))
        /\ (None(t, l.dn) => None(t, k.dn)) /\ (Once(t, l.dn) => Once(t, k.dn))
        /\ (None(t, l.hd) => None(t, k.hd)) /\ (Once(t, l.hd) => Once(t, k.hd))
        /\ (None(t, l.td) => None(t, k.td)) /\ (Once(t, l.td) => Once(t, k.td))
    BY DEF SameLine, Same
  <2> QED
    BY <2>1 DEF Somewhere, Nowhere, InAsks, InNotices, InHeld, InTodo
<1>5. Placed(d, r, k)
  BY <1>1, <1>4 DEF Sound, Placed
<1>6. ASSUME NEW q, NEW p, Same(q, p), NEW u, Linked(q, u)
      PROVE  Linked(p, u)
  BY <1>6 DEF Same, Linked, Harmless
<1>7. Noted(r, k)
  BY <1>6 DEF Sound, Noted, SameLine
<1>8. ASSUME NEW m, RightMessage(d, m, s, ap) \/ Harmless(m)
      PROVE  RightMessage(d, m, r, bp)
  <2>1. CASE RightMessage(d, m, s, ap)
    <3>1. Carried(m) \subseteq Of(s.txn, d)
      BY <2>1 DEF RightMessage
    <3>2. Carried(m) \cap ap = {} => Carried(m) \cap bp = {}
      BY <3>1
    <3> QED
      BY <1>3, <2>1, <3>2 DEF RightMessage
  <2>2. CASE Harmless(m)
    BY <2>2 DEF Harmless, RightMessage
  <2> QED
    BY <1>8, <2>1, <2>2
<1>9. ASSUME NEW q, NEW p, Same(q, p), RightMessages(d, q, s, ap)
      PROVE  RightMessages(d, p, r, bp)
  BY <1>8, <1>9 DEF Same, RightMessages
<1>10. Carries(d, r, k, bp)
  <2>1. Carries(d, s, l, ap)
    BY DEF Sound
  <2>2. /\ RightMessages(d, Asks(r, k), r, bp) /\ RightMessages(d, k.dn, r, bp)
        /\ RightMessages(d, k.hd, r, bp) /\ RightMessages(d, k.td, r, bp)
    BY <1>9, <2>1 DEF Carries, SameLine
  <2> QED
    BY <1>3, <2>1, <2>2 DEF Carries
<1>11. Queued(d, r)
  <2>1. \A i \in 1..Len(s.queue) : s.queue[i] \in Of(s.txn, d)
    BY <1>2 DEF Elements
  <2> QED
    BY <1>1, <1>2, <2>1 DEF Sound, Queued
<1>12. Fresh(d, r)
  BY <1>3 DEF Sound, Fresh, Alike
<1>13. Upright(d, r, bp)
  <2> SUFFICES ASSUME NEW t \in Of(s.txn, d)
               PROVE  Honest(t, r, bp)
    BY DEF Upright
  <2>1. Honest(t, s, ap)
    BY DEF Sound, Upright
  <2> QED
    BY <2>1 DEF Honest, Alike
<1> QED
  BY <1>5, <1>7, <1>10, <1>11, <1>12, <1>13 DEF Sound

(* A set below the post keeps what is known.                               *)
LEMMA AbortSound ==
  ASSUME NEW d, NEW s \in Phone, NEW r \in Phone, NEW l, NEW ap, NEW w,
         Aborted(s, r), Sound(d, s, l, ap, w),
         \A t \in Elements(s.queue) : s.txn[t].status # "needsAbort"
  PROVE  Sound(d, r, l, ap, w)
<1>1. /\ r.unanswered = s.unanswered /\ r.puts = s.puts /\ Len(r.txn) = Len(s.txn)
      /\ Elements(r.queue) = Marked(s)
      /\ Elements(r.writes) = Elements(s.writes) \ Dropped(s)
  BY DEF Aborted
<1>2. /\ Of(s.txn, d) \subseteq 1..Len(s.txn)
      /\ \A t \in Of(s.txn, d) : t \in Nat /\ t \notin Comments /\ s.txn[t] \in Transactions
  BY OfNat
<1>3. \A t \in Elements(s.queue) : t \in Of(s.txn, d)
        /\ s.txn[t].status \in {"sent", "sentNeedsAbort", "run"}
  BY DEF Sound, Queued, Pending
<1>4. ASSUME NEW t \in Marked(s)
      PROVE  /\ t \in Of(s.txn, d) /\ s.txn[t].status = "sent"
             /\ r.txn[t].dev = d /\ r.txn[t].status = "sentNeedsAbort"
             /\ r.txn[t].why = "set" /\ r.txn[t].told = s.txn[t].told
  <2>1. t \in Of(s.txn, d) /\ s.txn[t].status = "sent" /\ t \in 1..Len(s.txn)
    BY <1>2, <1>3 DEF Marked
  <2>2. r.txn[t] = [s.txn[t] EXCEPT !.status = "sentNeedsAbort", !.why = "set"]
    BY <2>1 DEF Aborted
  <2> QED
    BY <1>2, <2>1, <2>2 DEF Transactions, Of
<1>5. ASSUME NEW t \in Dropped(s)
      PROVE  /\ t \in Of(s.txn, d) /\ s.txn[t].status = "run"
             /\ r.txn[t].dev = d /\ r.txn[t].status = "completed"
             /\ r.txn[t].told = "set"
  <2>1. t \in Of(s.txn, d) /\ s.txn[t].status = "run" /\ t \in 1..Len(s.txn)
    BY <1>2, <1>3 DEF Dropped
  <2>2. r.txn[t] = [s.txn[t] EXCEPT !.status = "completed", !.told = "set"]
    BY <2>1 DEF Aborted
  <2> QED
    BY <1>2, <2>1, <2>2 DEF Transactions, Of
<1>6. ASSUME NEW t \in 1..Len(s.txn), t \notin Marked(s), t \notin Dropped(s)
      PROVE  r.txn[t] = s.txn[t]
  BY <1>6 DEF Aborted
<1>7. Of(r.txn, d) = Of(s.txn, d)
  <2>1. ASSUME NEW t \in 1..Len(s.txn)
        PROVE  r.txn[t].dev = d <=> s.txn[t].dev = d
    <3>1. \A u \in Of(s.txn, d) : s.txn[u].dev = d
      BY DEF Of
    <3> QED
      BY <1>4, <1>5, <1>6, <3>1
  <2> QED
    BY <1>1, <2>1 DEF Of
<1>8. \A t \in Of(s.txn, d) : r.txn[t].status \in Pending <=> s.txn[t].status \in Pending
  BY <1>2, <1>4, <1>5, <1>6 DEF Pending
<1>9. Outstanding(r) \subseteq Outstanding(s)
  BY <1>1, <1>3, <1>8 DEF Outstanding, Marked
<1>10. Placed(d, r, l)
  <2>1. Placed(d, s, l)
    BY DEF Sound
  <2> QED
    BY <1>1, <1>7, <1>8, <2>1, SamePlaces DEF Placed
<1>11. Noted(r, l)
  BY <1>1, SamePlaces DEF Sound
<1>12. Carries(d, r, l, ap)
  BY <1>1, <1>7, <1>9, SameMessages DEF Sound
<1>13. ASSUME NEW t \in Of(s.txn, d)
       PROVE  r.txn[t].status \notin {"run", "sent"}
  <2>1. t \in 1..Len(s.txn)
    BY <1>2
  <2>2. CASE t \in Elements(s.queue)
    BY <1>3, <1>4, <1>5, <1>6, <2>1, <2>2 DEF Marked, Dropped
  <2>3. CASE t \notin Elements(s.queue)
    <3>1. t \notin Marked(s) /\ t \notin Dropped(s)
      BY <2>3 DEF Marked, Dropped
    <3>2. s.txn[t].status \notin {"run", "sent"}
      BY <2>3 DEF Sound, Queued
    <3> QED
      BY <1>6, <2>1, <3>1, <3>2
  <2> QED
    BY <2>2, <2>3
<1>14. Queued(d, r)
  <2>1. \A t \in Elements(r.queue) :
          t \in Of(r.txn, d) /\ r.txn[t].status \in Pending \cup {"run", "needsAbort"}
    BY <1>1, <1>4, <1>7 DEF Pending
  <2>2. \A i, j \in 1..Len(r.queue) :
          i < j /\ r.txn[r.queue[j]].status \in Pending => r.txn[r.queue[i]].status \in Pending
    <3>1. \A t \in Elements(r.queue) :
            r.txn[t].status \in Pending <=> s.txn[t].status \in Pending
      BY <1>7, <1>8, <2>1
    <3>2. \A i, j \in 1..Len(s.queue) :
            i < j /\ s.txn[s.queue[j]].status \in Pending
            => s.txn[s.queue[i]].status \in Pending
      BY DEF Sound, Queued
    <3>3. InOrder(r.queue, s.queue)
      BY DEF Aborted
    <3> QED
      BY <3>1, <3>2, <3>3, SameOrder
  <2> QED
    BY <1>7, <1>13, <2>1, <2>2 DEF Queued
<1>15. Fresh(d, r)
  BY <1>7, <1>13 DEF Fresh
<1>16. \A t \in Of(s.txn, d) : Honest(t, s, ap)
  BY DEF Sound, Upright
<1>17. Listed(d, r, w)
  <2>1. UnderWay(r.txn, d) = UnderWay(s.txn, d) \ Dropped(s)
    <3>1. UnderWay(r.txn, d) = {t \in Of(s.txn, d) : r.txn[t].told = "none"}
          /\ UnderWay(s.txn, d) = {t \in Of(s.txn, d) : s.txn[t].told = "none"}
      BY <1>7 DEF UnderWay, Of
    <3>2. ASSUME NEW t \in Of(s.txn, d)
          PROVE  r.txn[t].told = "none" <=> s.txn[t].told = "none" /\ t \notin Dropped(s)
      BY <1>2, <1>4, <1>5, <1>6 DEF Marked, Dropped
    <3> QED
      BY <3>1, <3>2
  <2>2. \A t \in Dropped(s) : t \notin Comments
    BY <1>2, <1>5
  <2> QED
    BY <1>1, <2>1, <2>2 DEF Sound, Listed
<1>18. Upright(d, r, ap)
  <2> SUFFICES ASSUME NEW t \in Of(s.txn, d)
               PROVE  Honest(t, r, ap)
    BY <1>7 DEF Upright
  <2>1. Honest(t, s, ap)
    BY <1>16
  <2>2. CASE t \in Marked(s)
    BY <1>4, <2>1, <2>2 DEF Honest
  <2>3. CASE t \in Dropped(s)
    BY <1>5, <2>1, <2>3 DEF Honest
  <2>4. CASE t \notin Marked(s) /\ t \notin Dropped(s)
    <3>1. r.txn[t] = s.txn[t]
      BY <1>2, <1>6, <2>4
    <3>2. t \in Elements(r.queue) => r.txn[t].status # "needsAbort"
      BY <1>1, <1>4
    <3> QED
      BY <2>1, <3>1, <3>2 DEF Honest
  <2> QED
    BY <2>2, <2>3, <2>4
<1> QED
  BY <1>10, <1>11, <1>12, <1>14, <1>15, <1>17, <1>18 DEF Sound

-----------------------------------------------------------------------------
(* A handler of a phone leaves the transactions of others alone.           *)
Apart(d, x, y) ==
  \A e : e # d => Of(y, e) = Of(x, e) /\ \A t \in Of(x, e) : y[t] = x[t]

(* Two handlers in a row.                                                  *)
LEMMA ApartTrans ==
  ASSUME NEW d, NEW x, NEW y, NEW z, Apart(d, x, y), Apart(d, y, z)
  PROVE  Apart(d, x, z)
BY DEF Apart

(* Who changes only transactions of its own leaves the others alone.       *)
LEMMA ApartOwn ==
  ASSUME NEW d, NEW x, NEW y, Len(y) = Len(x),
         \A t \in 1..Len(x) : IF x[t].dev = d THEN y[t].dev = d ELSE y[t] = x[t]
  PROVE  Apart(d, x, y)
<1> SUFFICES ASSUME NEW e, e # d
             PROVE  Of(y, e) = Of(x, e) /\ \A t \in Of(x, e) : y[t] = x[t]
  BY DEF Apart
<1> QED
  BY DEF Of

(* Sending does.                                                           *)
LEMMA SendApart ==
  ASSUME NEW d, NEW s \in Phone, NEW r, Launched(s, r), Queued(d, s)
  PROVE  Apart(d, s.txn, r.txn)
<1>1. Len(r.txn) = Len(s.txn)
  BY DEF Launched
<1>2. ASSUME NEW t \in 1..Len(s.txn)
      PROVE  IF s.txn[t].dev = d THEN r.txn[t].dev = d ELSE r.txn[t] = s.txn[t]
  <2>1. CASE t \in Elements(s.queue)
    <3>1. t \in Of(s.txn, d) /\ s.txn[t] \in Transactions
      BY <2>1, OfNat DEF Queued
    <3>2. r.txn[t] = Attempted(s.txn[t])
      BY <2>1 DEF Launched
    <3> QED
      BY <3>1, <3>2 DEF Attempted, Transactions, Of
  <2>2. CASE t \notin Elements(s.queue)
    BY <2>2 DEF Launched
  <2> QED
    BY <2>1, <2>2
<1> QED
  BY <1>1, <1>2, ApartOwn

(* Running the queue again does.                                           *)
LEMMA RerunApart ==
  ASSUME NEW d, NEW s \in Phone, NEW r, Reran(s, r), Queued(d, s)
  PROVE  Apart(d, s.txn, r.txn)
<1>1. Len(r.txn) = Len(s.txn)
  BY DEF Reran
<1>2. ASSUME NEW t \in 1..Len(s.txn)
      PROVE  IF s.txn[t].dev = d THEN r.txn[t].dev = d ELSE r.txn[t] = s.txn[t]
  <2>1. CASE t \in Elements(s.queue)
    <3>1. t \in Of(s.txn, d) /\ s.txn[t] \in Transactions
      BY <2>1, OfNat DEF Queued
    <3>2. CASE t \in Gone(s)
      <4>1. r.txn[t] = [s.txn[t] EXCEPT !.status = "completed",
              !.told = IF t \in Tired(s) THEN "maxretries" ELSE s.txn[t].why]
        BY <3>2 DEF Reran
      <4> QED
        BY <3>1, <4>1 DEF Transactions, Of
    <3>3. CASE t \in Again(s)
      <4>1. PICK o \in Node : r.txn[t] = [s.txn[t] EXCEPT !.out = o]
        BY <3>3 DEF Reran
      <4> QED
        BY <3>1, <4>1 DEF Transactions, Of
    <3>4. CASE t \notin Gone(s) \cup Again(s)
      <4>1. r.txn[t] = s.txn[t]
        BY <3>4 DEF Reran
      <4> QED
        BY <4>1
    <3> QED
      BY <3>2, <3>3, <3>4
  <2>2. CASE t \notin Elements(s.queue)
    <3>1. t \notin Gone(s) \cup Again(s)
      BY <2>2 DEF Gone, Tired, Again
    <3>2. r.txn[t] = s.txn[t]
      BY <3>1 DEF Reran
    <3> QED
      BY <3>2
  <2> QED
    BY <2>1, <2>2
<1> QED
  BY <1>1, <1>2, ApartOwn

(* Aborting the queue does.                                                *)
LEMMA AbortApart ==
  ASSUME NEW d, NEW s \in Phone, NEW r, Aborted(s, r), Queued(d, s)
  PROVE  Apart(d, s.txn, r.txn)
<1>1. Len(r.txn) = Len(s.txn)
  BY DEF Aborted
<1>2. ASSUME NEW t \in 1..Len(s.txn)
      PROVE  IF s.txn[t].dev = d THEN r.txn[t].dev = d ELSE r.txn[t] = s.txn[t]
  <2>1. CASE t \in Elements(s.queue)
    <3>1. t \in Of(s.txn, d) /\ s.txn[t] \in Transactions
      BY <2>1, OfNat DEF Queued
    <3>2. CASE t \in Marked(s)
      <4>1. r.txn[t] = [s.txn[t] EXCEPT !.status = "sentNeedsAbort", !.why = "set"]
        BY <3>2 DEF Aborted
      <4> QED
        BY <3>1, <4>1 DEF Transactions, Of
    <3>3. CASE t \in Dropped(s)
      <4>1. r.txn[t] = [s.txn[t] EXCEPT !.status = "completed", !.told = "set"]
        BY <3>3 DEF Aborted
      <4> QED
        BY <3>1, <4>1 DEF Transactions, Of
    <3>4. CASE t \notin Marked(s) \cup Dropped(s)
      <4>1. r.txn[t] = s.txn[t]
        BY <3>4 DEF Aborted
      <4> QED
        BY <4>1
    <3> QED
      BY <3>2, <3>3, <3>4
  <2>2. CASE t \notin Elements(s.queue)
    <3>1. t \notin Marked(s) \cup Dropped(s)
      BY <2>2 DEF Marked, Dropped
    <3>2. r.txn[t] = s.txn[t]
      BY <3>1 DEF Aborted
    <3> QED
      BY <3>2
  <2> QED
    BY <2>1, <2>2
<1> QED
  BY <1>1, <1>2, ApartOwn

(* Between handlers what waits in the queue may be sent.                   *)
LEMMA SentReady ==
  ASSUME NEW d, NEW s \in Phone, NEW l, NEW ap, NEW w, Sound(d, s, l, ap, w), Sent(s)
  PROVE  Ready(s)
<1> SUFFICES ASSUME NEW t \in Elements(s.queue), s.txn[t].status = "run"
             PROVE  s.txn[t].retries < MaxRetries
  BY DEF Ready, Sent
<1>1. s.queue # << >> /\ 1 \in 1..Len(s.queue)
  <2>1. s.queue \in Seq(Nat)
    BY DEF Phone
  <2>2. s.queue # << >>
    BY ElementsFacts
  <2> QED
    BY <2>1, <2>2, TailFacts
<1>2. s.queue[1] \in Elements(s.queue)
  BY <1>1 DEF Elements
<1>3. s.txn[s.queue[1]].status \in Pending
  BY <1>1, <1>2 DEF Sent, Sound, Queued
<1>4. Outstanding(s) # {}
  BY <1>2, <1>3 DEF Outstanding
<1>5. t \in Of(s.txn, d)
  BY DEF Sound, Queued
<1>6. s.txn[t].retries = 0
  BY <1>4, <1>5 DEF Sound, Fresh
<1> QED
  BY <1>6, RetriesAssumption

(* Handlers that end with SendReady, alone or after Rerun.                 *)
LEMMA SendKeeps ==
  ASSUME NEW d, NEW s \in Phone, NEW r, NEW l \in Line, NEW ap, NEW w,
         r = SendReady(s), Sound(d, s, l, ap, w), Ready(s)
  PROVE  /\ r \in Phone /\ Sound(d, r, l, ap, w) /\ Sent(r) /\ Apart(d, s.txn, r.txn)
         /\ Len(r.txn) = Len(s.txn) /\ r.cache = s.cache /\ r.feed = s.feed
<1>1. r \in Phone /\ Sound(d, r, l, ap, w) /\ Sent(r)
  BY SendSound
<1>2. \A t \in Elements(s.queue) : t \in Of(s.txn, d)
  BY DEF Sound, Queued
<1>3. Elements(s.queue) \subseteq 1..Len(s.txn)
  BY <1>2, OfNat
<1>4. Elements(s.writes) \ Comments \subseteq 1..Len(s.txn)
  BY DEF Sound, Listed, UnderWay
<1>5. IF Waits(s) THEN Launched(s, r) ELSE r = s
  BY <1>3, <1>4, SendFacts DEF Ready
<1>6. CASE Waits(s)
  <2>1. Apart(d, s.txn, r.txn)
    BY <1>5, <1>6, SendApart DEF Sound
  <2> QED
    BY <1>1, <1>5, <1>6, <2>1 DEF Launched
<1>7. CASE ~Waits(s)
  BY <1>1, <1>5, <1>7 DEF Apart
<1> QED
  BY <1>6, <1>7

(* The same after the queue has been run again.                            *)
LEMMA RerunKeeps ==
  ASSUME NEW d, NEW s \in Phone, NEW a, NEW r, NEW l \in Line, NEW ap, NEW w,
         a = Rerun(s), r = SendReady(a), Sound(d, s, l, ap, w)
  PROVE  /\ r \in Phone /\ Sound(d, r, l, ap, w) /\ Sent(r) /\ Apart(d, s.txn, r.txn)
         /\ Len(r.txn) = Len(s.txn) /\ r.cache = s.cache /\ r.feed = s.feed
<1>1. \A t \in Elements(s.queue) : t \in Of(s.txn, d)
  BY DEF Sound, Queued
<1>2. Elements(s.queue) \subseteq 1..Len(s.txn)
  BY <1>1, OfNat
<1>3. Elements(s.writes) \ Comments \subseteq 1..Len(s.txn)
  BY DEF Sound, Listed, UnderWay
<1>4. a \in Phone /\ Reran(s, a)
  BY <1>2, <1>3, RerunFacts
<1>5. Sound(d, a, l, ap, w) /\ Ready(a)
  BY <1>4, RerunSound
<1>6. Apart(d, s.txn, a.txn)
  BY <1>4, RerunApart DEF Sound
<1>7. /\ r \in Phone /\ Sound(d, r, l, ap, w) /\ Sent(r) /\ Apart(d, a.txn, r.txn)
      /\ Len(r.txn) = Len(a.txn) /\ r.cache = a.cache /\ r.feed = a.feed
  BY <1>4, <1>5, SendKeeps
<1>8. Apart(d, s.txn, r.txn)
  BY <1>6, <1>7, ApartTrans
<1>9. Len(a.txn) = Len(s.txn) /\ a.cache = s.cache /\ a.feed = s.feed
  BY <1>4 DEF Reran
<1> QED
  BY <1>7, <1>8, <1>9

(* A handler's last two steps.                                             *)
Resent(s, r) == \E a : a = Rerun(s) /\ r = SendReady(a)

(* A handler that ends with them keeps what is known of the phone.         *)
LEMMA ResentKeeps ==
  ASSUME NEW d, NEW s \in Phone, NEW r, NEW l \in Line, NEW ap, NEW w,
         Resent(s, r), Sound(d, s, l, ap, w)
  PROVE  /\ r \in Phone /\ Sound(d, r, l, ap, w) /\ Sent(r) /\ Apart(d, s.txn, r.txn)
         /\ Len(r.txn) = Len(s.txn) /\ r.cache = s.cache /\ r.feed = s.feed
<1>1. PICK a : a = Rerun(s) /\ r = SendReady(a)
  BY DEF Resent
<1> QED
  BY <1>1, RerunKeeps

-----------------------------------------------------------------------------
(* What the steps of the model do to a phone.                              *)

(* A message is about transactions that are outstanding, and a transaction *)
(* that a message is about is in no other one.                             *)
LEMMA CarriedPending ==
  ASSUME NEW d, NEW s, NEW l, NEW ap, NEW w, Sound(d, s, l, ap, w),
         NEW m, m \in Elements(Asks(s, l)) \cup Elements(l.dn) \cup Elements(l.hd)
                        \cup Elements(l.td),
         NEW t, t \in Carried(m)
  PROVE  /\ t \in Of(s.txn, d) /\ s.txn[t].status \in Pending /\ Somewhere(t, s, l)
         /\ m \in Elements(Asks(s, l)) => InAsks(t, s, l)
         /\ m \in Elements(l.dn) => InNotices(t, s, l)
         /\ m \in Elements(l.hd) => InHeld(t, s, l)
         /\ m \in Elements(l.td) => InTodo(t, s, l)
<1>1. Carries(d, s, l, ap) /\ Placed(d, s, l)
  BY DEF Sound
<1>2. t \in Of(s.txn, d)
  BY <1>1 DEF Carries, RightMessages, RightMessage
<1>3. ~Nowhere(t, s, l)
  BY DEF Nowhere, None
<1>4. s.txn[t].status \in Pending /\ Somewhere(t, s, l)
  BY <1>1, <1>2, <1>3 DEF Placed
<1>5. /\ m \in Elements(Asks(s, l)) => ~None(t, Asks(s, l))
      /\ m \in Elements(l.dn) => ~None(t, l.dn)
      /\ m \in Elements(l.hd) => ~None(t, l.hd)
      /\ m \in Elements(l.td) => ~None(t, l.td)
  BY DEF None
<1> QED
  BY <1>2, <1>4, <1>5 DEF Somewhere, InAsks, InNotices, InHeld, InTodo

(* A transaction begins.                                                   *)
Begun(d, s, r) ==
  /\ r.feed = s.feed /\ r.unanswered = s.unanswered /\ r.puts = s.puts
  /\ \E t \in Nat : \E x \in Transactions :
       /\ t = Len(s.txn) + 1
       /\ x.dev = d /\ x.status = "run" /\ x.retries = 0 /\ x.told = "none"
       /\ r.txn = Append(s.txn, x)
       /\ r.queue = Append(s.queue, t) /\ r.writes = Append(s.writes, t)

(* The phone that it is begun on keeps what is known of it.                *)
LEMMA BeginSound ==
  ASSUME NEW d, NEW s \in Phone, NEW r \in Phone, NEW l, NEW ap, NEW w,
         Sound(d, s, l, ap, w), ap \subseteq 1..Len(s.txn), Ready(s), Begun(d, s, r)
  PROVE  /\ Sound(d, r, l, ap, w) /\ Ready(r) /\ Apart(d, s.txn, r.txn)
         /\ Len(r.txn) = Len(s.txn) + 1
<1>1. PICK t \in Nat, x \in Transactions :
        /\ t = Len(s.txn) + 1
        /\ x.dev = d /\ x.status = "run" /\ x.retries = 0 /\ x.told = "none"
        /\ r.txn = Append(s.txn, x)
        /\ r.queue = Append(s.queue, t) /\ r.writes = Append(s.writes, t)
  BY DEF Begun
<1>2. /\ s.txn \in Seq(Transactions) /\ s.queue \in Seq(Nat)
      /\ s.writes \in Seq(Nat \cup Comments) /\ Len(s.txn) \in Nat
  BY LenProperties DEF Phone
<1>3. r.unanswered = s.unanswered /\ r.puts = s.puts
  BY DEF Begun
<1>4. /\ Len(r.txn) = t /\ r.txn[t] = x
      /\ \A u \in 1..Len(s.txn) : r.txn[u] = s.txn[u] /\ u \in 1..t /\ u # t
      /\ \A u \in 1..t : u \in 1..Len(s.txn) \/ u = t
      /\ t \in 1..t /\ t \notin 1..Len(s.txn)
  BY <1>1, <1>2, AppendFacts
<1>5. /\ Elements(r.queue) = Elements(s.queue) \cup {t}
      /\ Elements(r.writes) = Elements(s.writes) \cup {t}
  <2>1. t \in Nat \cup Comments
    OBVIOUS
  <2>2. Elements(Append(s.queue, t)) = Elements(s.queue) \cup {t}
    BY <1>2, ElementsAppend
  <2>3. Elements(Append(s.writes, t)) = Elements(s.writes) \cup {t}
    <3>1. PICK S, v : S = Nat \cup Comments /\ v = s.writes
      OBVIOUS
    <3>2. v \in Seq(S) /\ t \in S
      BY <1>2, <2>1, <3>1
    <3>3. Elements(Append(v, t)) = Elements(v) \cup {t}
      BY <3>2, ElementsAppend
    <3> QED
      BY <3>1, <3>3
  <2> QED
    BY <1>1, <2>2, <2>3
<1>6. Of(r.txn, d) = Of(s.txn, d) \cup {t}
  BY <1>1, <1>4 DEF Of
<1>7. \A u \in Of(s.txn, d) : u \in 1..Len(s.txn) /\ u # t /\ r.txn[u] = s.txn[u]
  BY <1>4 DEF Of
<1>8. \A u \in Elements(s.queue) : u \in Of(s.txn, d)
  BY DEF Sound, Queued
<1>9. Outstanding(r) = Outstanding(s)
  BY <1>1, <1>4, <1>5, <1>7, <1>8 DEF Outstanding, Pending
<1>10. Nowhere(t, s, l)
  <2>1. Carries(d, s, l, ap)
    BY DEF Sound
  <2>2. \A m \in Elements(Asks(s, l)) \cup Elements(l.dn) \cup Elements(l.hd)
                   \cup Elements(l.td) : Carried(m) \subseteq Of(s.txn, d)
    BY <2>1 DEF Carries, RightMessages, RightMessage
  <2>3. \A b \in Elements(s.unanswered) : Elements(b) \subseteq Of(s.txn, d)
    BY <2>1 DEF Carries
  <2> QED
    BY <1>7, <2>2, <2>3 DEF Nowhere, None, Unasked
<1>11. Placed(d, r, l)
  <2>1. Placed(d, s, l)
    BY DEF Sound
  <2>2. Nowhere(t, r, l)
    BY <1>3, <1>10, SamePlaces
  <2>3. \A u : /\ Somewhere(u, s, l) => Somewhere(u, r, l)
               /\ Nowhere(u, s, l) => Nowhere(u, r, l)
    BY <1>3, SamePlaces
  <2> QED
    BY <1>1, <1>4, <1>6, <1>7, <2>1, <2>2, <2>3 DEF Placed, Pending
<1>12. Noted(r, l)
  BY <1>3, SamePlaces DEF Sound
<1>13. Carries(d, r, l, ap)
  BY <1>3, <1>6, <1>9, SameMessages DEF Sound
<1>14. Queued(d, r)
  <2>1. \A u \in Elements(r.queue) :
          u \in Of(r.txn, d) /\ r.txn[u].status \in Pending \cup {"run", "needsAbort"}
    BY <1>1, <1>4, <1>5, <1>6, <1>7 DEF Sound, Queued
  <2>2. ASSUME NEW i \in 1..Len(r.queue), NEW j \in 1..Len(r.queue), i < j,
               r.txn[r.queue[j]].status \in Pending
        PROVE  r.txn[r.queue[i]].status \in Pending
    <3>1. /\ Len(s.queue) \in Nat /\ Len(r.queue) = Len(s.queue) + 1
          /\ \A n \in 1..Len(s.queue) : r.queue[n] = s.queue[n]
          /\ r.queue[Len(s.queue) + 1] = t
      BY <1>1, <1>2, AppendFacts
    <3>2. j # Len(s.queue) + 1
      BY <1>1, <1>4, <2>2, <3>1 DEF Pending
    <3>3. i \in 1..Len(s.queue) /\ j \in 1..Len(s.queue)
      BY <2>2, <3>1, <3>2
    <3>4. s.queue[i] \in Of(s.txn, d) /\ s.queue[j] \in Of(s.txn, d)
      BY <1>8, <3>3 DEF Elements
    <3>5. s.txn[s.queue[j]].status \in Pending
      BY <1>7, <2>2, <3>1, <3>3, <3>4
    <3>6. s.txn[s.queue[i]].status \in Pending
      BY <2>2, <3>3, <3>5 DEF Sound, Queued
    <3> QED
      BY <1>7, <3>1, <3>3, <3>4, <3>6
  <2>3. \A u \in Of(r.txn, d) : r.txn[u].status \in {"run", "sent"} => u \in Elements(r.queue)
    BY <1>5, <1>6, <1>7 DEF Sound, Queued
  <2> QED
    BY <2>1, <2>2, <2>3 DEF Queued
<1>15. Fresh(d, r)
  BY <1>1, <1>4, <1>6, <1>7, <1>9 DEF Sound, Fresh
<1>16. Listed(d, r, w)
  <2>1. UnderWay(r.txn, d) = UnderWay(s.txn, d) \cup {t}
    BY <1>1, <1>4 DEF UnderWay
  <2> QED
    BY <1>1, <1>5, <2>1, NoComment DEF Sound, Listed
<1>17. Upright(d, r, ap)
  <2> SUFFICES ASSUME NEW u \in Of(r.txn, d)
               PROVE  Honest(u, r, ap)
    BY DEF Upright
  <2>1. CASE u = t
    BY <1>1, <1>4, <2>1 DEF Honest
  <2>2. CASE u # t
    <3>1. u \in Of(s.txn, d) /\ Honest(u, s, ap)
      BY <1>6, <2>2 DEF Sound, Upright
    <3> QED
      BY <1>5, <1>7, <2>2, <3>1 DEF Honest
  <2> QED
    BY <2>1, <2>2
<1>18. Ready(r)
  BY <1>1, <1>4, <1>5, <1>7, <1>8, RetriesAssumption DEF Ready
<1>19. Apart(d, s.txn, r.txn)
  BY <1>1, <1>4 DEF Apart, Of
<1> QED
  BY <1>1, <1>4, <1>11, <1>12, <1>13, <1>14, <1>15, <1>16, <1>17, <1>18, <1>19 DEF Sound

(* A put is processed by the server, and answered.                         *)
LEMMA PutAnswered ==
  ASSUME NEW d, NEW s \in Phone, NEW l \in Line, NEW ap, NEW w, Sound(d, s, l, ap, w),
         NEW m \in Puts, l.ob # << >>, m = Head(l.ob), s.puts = << >>,
         NEW a \in Notices, a.type = "reply", a.what = m.batch,
         NEW bp, \/ a.status = "datastale" /\ bp = ap
                 \/ a.status = "ok" /\ bp = ap \cup Elements(m.batch),
         NEW k \in Line, k.ob = Tail(l.ob), k.dn = Append(l.dn, a), k.hd = l.hd,
         k.td = l.td
  PROVE  Sound(d, s, k, bp, w)
<1>1. /\ l.ob \in Seq(Requests) /\ l.dn \in Seq(Notices) /\ m.batch \in Seq(Nat)
      /\ m.type = "put" /\ k.ob \in Seq(Requests)
  BY DEF Line, Puts
<1>2. Asks(s, l) = l.ob /\ Asks(s, k) = k.ob
  BY <1>1, ConcatEmptySeq DEF Asks
<1>3. /\ Elements(l.ob) = Elements(k.ob) \cup {m}
      /\ Elements(k.dn) = Elements(l.dn) \cup {a}
  BY <1>1, ElementsTail, ElementsAppend
<1>4. Carried(m) = Elements(m.batch)
  BY <1>1 DEF Carried
<1>5. \A t \in Elements(m.batch) : t \notin Comments
  <2>1. Elements(m.batch) \subseteq Nat
    BY <1>1, ElementsFacts
  <2> QED
    BY <2>1, NoComment
<1>6. Carried(a) = Elements(m.batch)
  BY <1>5 DEF Carried
<1>19. ASSUME NEW t
      PROVE  /\ t \in Elements(m.batch) /\ None(t, l.dn) => Once(t, k.dn)
             /\ t \notin Elements(m.batch) /\ Once(t, l.dn) => Once(t, k.dn)
  <2>1. PICK q, p : q = l.dn /\ p = k.dn
    OBVIOUS
  <2>2. q \in Seq(Notices) /\ a \in Notices /\ p = Append(q, a)
    BY <1>1, <2>1
  <2>3. /\ t \notin Carried(a) /\ Once(t, q) => Once(t, p)
        /\ t \in Carried(a) /\ None(t, q) => Once(t, p)
    BY <2>2, OnceAppend
  <2> QED
    BY <1>6, <2>1, <2>3
<1>7. ASSUME NEW t \in Elements(m.batch)
      PROVE  t \in Of(s.txn, d) /\ s.txn[t].status \in Pending /\ InAsks(t, s, l)
  <2>1. t \in Carried(m) /\ m \in Elements(Asks(s, l))
    BY <1>2, <1>3, <1>4
  <2> QED
    BY <2>1, CarriedPending
<1>8. ASSUME NEW t \in Elements(m.batch)
      PROVE  InNotices(t, s, k)
  <2>1. InAsks(t, s, l)
    BY <1>7
  <2>2. Once(t, l.ob) /\ None(t, l.dn)
    BY <1>2, <2>1 DEF InAsks
  <2>3. None(t, k.ob)
    BY <1>1, <1>4, <2>2, OnceTail
  <2>4. Once(t, k.dn)
    BY <1>19, <2>2
  <2> QED
    BY <1>2, <2>1, <2>3, <2>4 DEF InAsks, InNotices
<1>9. ASSUME NEW t, t \notin Elements(m.batch)
      PROVE  /\ Somewhere(t, s, l) => Somewhere(t, s, k)
             /\ Nowhere(t, s, l) => Nowhere(t, s, k)
  <2>1. (None(t, l.ob) => None(t, k.ob)) /\ (Once(t, l.ob) => Once(t, k.ob))
    BY <1>1, <1>4, <1>9, OnceTail, NoneTail
  <2>2. None(t, l.dn) => None(t, k.dn)
    BY <1>3, <1>6, <1>9 DEF None
  <2>3. Once(t, l.dn) => Once(t, k.dn)
    BY <1>9, <1>19
  <2> QED
    BY <1>2, <2>1, <2>2, <2>3
    DEF Somewhere, Nowhere, InAsks, InNotices, InHeld, InTodo
<1>10. Placed(d, s, k)
  <2> SUFFICES ASSUME NEW t \in Of(s.txn, d)
               PROVE  IF s.txn[t].status \in Pending THEN Somewhere(t, s, k)
                                                     ELSE Nowhere(t, s, k)
    BY DEF Placed
  <2>1. IF s.txn[t].status \in Pending THEN Somewhere(t, s, l) ELSE Nowhere(t, s, l)
    BY DEF Sound, Placed
  <2>2. CASE t \in Elements(m.batch)
    BY <1>7, <1>8, <2>2 DEF Somewhere
  <2>3. CASE t \notin Elements(m.batch)
    BY <1>9, <2>1, <2>3
  <2> QED
    BY <2>2, <2>3
<1>11. Noted(s, k)
  <2>1. Noted(s, l)
    BY DEF Sound
  <2>2. Content(a) = Content(m)
    BY <1>1 DEF Content
  <2> QED
    BY <1>2, <1>3, <1>4, <1>6, <2>1, <2>2 DEF Noted, Linked
<1>12. Carries(d, s, l, ap)
  BY DEF Sound
<1>13. RightMessage(d, m, s, ap)
  BY <1>2, <1>3, <1>12 DEF Carries, RightMessages
<1>14. RightMessage(d, a, s, bp)
  <2>1. a.status \in {"ok", "datastale"} /\ (a.status = "datastale" => bp = ap)
    OBVIOUS
  <2>2. Fruitless(a) => Carried(a) \cap bp = {}
    BY <1>1, <1>4, <1>6, <1>13, <2>1 DEF Fruitless, RightMessage
  <2>3. a.what \in Seq(Nat) \ {<< >>}
    BY <1>1, <1>13 DEF RightMessage
  <2> QED
    BY <1>1, <1>4, <1>6, <1>13, <2>1, <2>2, <2>3 DEF RightMessage
<1>15. ASSUME NEW x, RightMessage(d, x, s, ap), Carried(x) \cap Elements(m.batch) = {}
       PROVE  RightMessage(d, x, s, bp)
  <2>1. Carried(x) \cap ap = {} => Carried(x) \cap bp = {}
    BY <1>15
  <2> QED
    BY <1>15, <2>1 DEF RightMessage
<1>16. \A x \in Elements(k.ob) \cup Elements(l.dn) \cup Elements(l.hd) \cup Elements(l.td) :
         Carried(x) \cap Elements(m.batch) = {}
  <2>1. \A t \in Elements(m.batch) :
          None(t, k.ob) /\ None(t, l.dn) /\ None(t, l.hd) /\ None(t, l.td)
    BY <1>2, <1>7, <1>8 DEF InAsks, InNotices
  <2> QED
    BY <2>1 DEF None
<1>17. Carries(d, s, k, bp)
  <2>1. RightMessages(d, Asks(s, k), s, bp)
    BY <1>2, <1>3, <1>12, <1>15, <1>16 DEF Carries, RightMessages
  <2>2. RightMessages(d, k.dn, s, bp)
    BY <1>3, <1>12, <1>14, <1>15, <1>16 DEF Carries, RightMessages
  <2>3. RightMessages(d, k.hd, s, bp)
    BY <1>12, <1>15, <1>16 DEF Carries, RightMessages
  <2>4. RightMessages(d, k.td, s, bp)
    BY <1>12, <1>15, <1>16 DEF Carries, RightMessages
  <2> QED
    BY <1>12, <2>1, <2>2, <2>3, <2>4 DEF Carries
<1>18. Upright(d, s, bp)
  <2> SUFFICES ASSUME NEW t \in Of(s.txn, d)
               PROVE  Honest(t, s, bp)
    BY DEF Upright
  <2>1. Honest(t, s, ap)
    BY DEF Sound, Upright
  <2>2. CASE t \in Elements(m.batch)
    BY <1>7, <2>1, <2>2 DEF Honest, Pending
  <2>3. CASE t \notin Elements(m.batch)
    <3>1. t \in bp <=> t \in ap
      BY <2>3
    <3> QED
      BY <2>1, <3>1 DEF Honest
  <2> QED
    BY <2>2, <2>3
<1> QED
  BY <1>10, <1>11, <1>17, <1>18 DEF Sound

(* An answer is kept back.                                                 *)
LEMMA HoldSound ==
  ASSUME NEW d, NEW s \in Phone, NEW l \in Line, NEW ap, NEW w, Sound(d, s, l, ap, w),
         NEW m \in Answers, l.dn # << >>, m = Head(l.dn),
         NEW r, r.queue = s.queue, r.writes = s.writes, r.txn = s.txn, r.puts = s.puts,
         r.unanswered = Without(s.unanswered, {m.what}),
         NEW k \in Line, k.ob = l.ob, k.dn = Tail(l.dn), k.hd = Append(l.hd, m), k.td = l.td
  PROVE  Sound(d, r, k, ap, w)
<1>1. PICK p, q, h, g, u, v : /\ p = l.dn /\ q = k.dn /\ h = l.hd /\ g = k.hd
                              /\ u = s.unanswered /\ v = r.unanswered
  OBVIOUS
<1>2. /\ p \in Seq(Notices) /\ p # << >> /\ m = Head(p) /\ q = Tail(p)
      /\ h \in Seq(Answers) /\ g = Append(h, m)
      /\ u \in Seq(Seq(Nat)) /\ v = Without(u, {m.what}) /\ m.type = "reply"
  BY <1>1 DEF Line, Phone, Answers
<1>3. /\ Elements(p) = Elements(q) \cup {m} /\ Elements(g) = Elements(h) \cup {m}
      /\ Elements(v) = Elements(u) \ {m.what}
  BY <1>2, ElementsTail, ElementsAppend, ElementsWithout
<1>4. Asks(r, k) = Asks(s, l)
  BY DEF Asks
<1>5. Carried(m) = Elements(m.what) \ Comments /\ Content(m) = m.what
  BY <1>2 DEF Carried, Content
<1>6. ASSUME NEW t, t \in Carried(m)
      PROVE  InHeld(t, r, k)
  <2>1. InNotices(t, s, l)
    BY <1>1, <1>3, <1>6, CarriedPending
  <2>2. Once(t, p) /\ None(t, h)
    BY <1>1, <2>1 DEF InNotices
  <2>3. None(t, q)
    BY <1>2, <1>6, <2>2, OnceTail
  <2>4. Once(t, g)
    BY <1>2, <1>6, <2>2, OnceAppend
  <2>5. Unasked(t, v)
    <3>1. Linked(p, u)
      BY <1>1 DEF Sound, Noted
    <3>2. ASSUME NEW b \in Elements(v), t \in Elements(b)
          PROVE  FALSE
      <4>1. b \in Elements(u) /\ b # m.what /\ Carried(m) \cap Elements(b) # {}
        BY <1>3, <1>6, <3>2
      <4> QED
        BY <1>3, <1>5, <3>1, <4>1 DEF Linked
    <3> QED
      BY <3>2 DEF Unasked
  <2> QED
    BY <1>1, <1>4, <2>1, <2>3, <2>4, <2>5 DEF InNotices, InHeld
<1>7. ASSUME NEW t, t \notin Comments, t \notin Carried(m)
      PROVE  /\ Somewhere(t, s, l) => Somewhere(t, r, k)
             /\ Nowhere(t, s, l) => Nowhere(t, r, k)
  <2>1. (None(t, p) => None(t, q)) /\ (Once(t, p) => Once(t, q))
    BY <1>2, <1>7, OnceTail, NoneTail
  <2>2. None(t, h) => None(t, g)
    BY <1>3, <1>7 DEF None
  <2>3. Once(t, h) => Once(t, g)
    BY <1>2, <1>7, OnceAppend
  <2>4. t \notin Elements(m.what)
    BY <1>5, <1>7
  <2>5. (Asked(t, u) => Asked(t, v)) /\ (Unasked(t, u) => Unasked(t, v))
    BY <1>2, <2>4, AskedWithout
  <2> QED
    BY <1>1, <1>4, <2>1, <2>2, <2>3, <2>5
    DEF Somewhere, Nowhere, InAsks, InNotices, InHeld, InTodo
<1>8. Placed(d, r, k)
  <2> SUFFICES ASSUME NEW t \in Of(s.txn, d)
               PROVE  IF s.txn[t].status \in Pending THEN Somewhere(t, r, k)
                                                     ELSE Nowhere(t, r, k)
    BY DEF Placed
  <2>1. IF s.txn[t].status \in Pending THEN Somewhere(t, s, l) ELSE Nowhere(t, s, l)
    BY DEF Sound, Placed
  <2>2. t \notin Comments
    BY OfNat
  <2>3. CASE t \in Carried(m)
    <3>1. s.txn[t].status \in Pending
      BY <1>1, <1>3, <2>3, CarriedPending
    <3> QED
      BY <1>6, <2>3, <3>1 DEF Somewhere
  <2>4. CASE t \notin Carried(m)
    BY <1>7, <2>1, <2>2, <2>4
  <2> QED
    BY <2>3, <2>4
<1>9. Noted(r, k)
  <2>1. Linked(Asks(s, l), u) /\ Linked(p, u)
    BY <1>1 DEF Sound, Noted
  <2>2. Linked(Asks(s, l), v) /\ Linked(q, v)
    BY <1>3, <2>1 DEF Linked
  <2> QED
    BY <1>1, <1>4, <2>2 DEF Noted
<1>10. Outstanding(r) = Outstanding(s)
  BY DEF Outstanding
<1>11. \A x : RightMessage(d, x, s, ap) => RightMessage(d, x, r, ap)
  BY <1>10 DEF RightMessage
<1>12. Carries(d, r, k, ap)
  <2>1. Carries(d, s, l, ap)
    BY DEF Sound
  <2>2. RightMessages(d, Asks(r, k), r, ap)
    BY <1>4, <1>11, <2>1 DEF Carries, RightMessages
  <2>3. RightMessages(d, k.dn, r, ap)
    BY <1>1, <1>3, <1>11, <2>1 DEF Carries, RightMessages
  <2>4. RightMessages(d, k.hd, r, ap)
    BY <1>1, <1>3, <1>11, <2>1 DEF Carries, RightMessages
  <2>5. RightMessages(d, k.td, r, ap)
    BY <1>11, <2>1 DEF Carries, RightMessages
  <2>6. \A b \in Elements(v) : b \in Elements(s.unanswered)
    BY <1>1, <1>3
  <2> QED
    BY <1>1, <1>10, <2>1, <2>2, <2>3, <2>4, <2>5, <2>6 DEF Carries
<1>13. Queued(d, r) /\ Fresh(d, r) /\ Listed(d, r, w) /\ Upright(d, r, ap)
  BY <1>10 DEF Sound, Queued, Fresh, Listed, Upright, Honest
<1> QED
  BY <1>8, <1>9, <1>12, <1>13 DEF Sound

(* The answers that were kept back are handled next.                       *)
LEMMA ReleaseSound ==
  ASSUME NEW d, NEW s, NEW l, NEW ap, NEW w, Sound(d, s, l, ap, w), l.td = << >>,
         NEW k, k.ob = l.ob, k.dn = l.dn, k.hd = << >>, k.td = l.hd
  PROVE  Sound(d, s, k, ap, w)
<1>1. Asks(s, k) = Asks(s, l)
  BY DEF Asks
<1>2. \A t : None(t, << >>) /\ ~Once(t, << >>)
  BY NoneEmpty, NoneOnce
<1>3. ASSUME NEW t
      PROVE  /\ Somewhere(t, s, l) => Somewhere(t, s, k)
             /\ Nowhere(t, s, l) => Nowhere(t, s, k)
  BY <1>1, <1>2 DEF Somewhere, Nowhere, InAsks, InNotices, InHeld, InTodo
<1>4. Placed(d, s, k)
  BY <1>3 DEF Sound, Placed
<1>5. Noted(s, k)
  BY <1>1 DEF Sound, Noted
<1>6. Carries(d, s, k, ap)
  <2>1. Carries(d, s, l, ap)
    BY DEF Sound
  <2>2. RightMessages(d, << >>, s, ap)
    BY ElementsFacts DEF RightMessages
  <2> QED
    BY <1>1, <2>1, <2>2 DEF Carries
<1> QED
  BY <1>4, <1>5, <1>6 DEF Sound

(* The connection is lost.                                                 *)
LEMMA CutSound ==
  ASSUME NEW d, NEW s \in Phone, NEW l \in Line, NEW ap, NEW w, Sound(d, s, l, ap, w),
         l.td = << >>, s.puts = << >>,
         NEW r, r.queue = s.queue, r.writes = s.writes, r.txn = s.txn, r.puts = << >>,
         r.unanswered = << >>,
         NEW k \in Line, \A m \in Elements(k.ob) : Harmless(m), k.dn = << >>,
         k.hd = l.hd, k.td = Lost(s.unanswered)
  PROVE  Sound(d, r, k, ap, w)
<1>1. Asks(r, k) = k.ob
  <2>1. k.ob \in Seq(Requests)
    BY DEF Line
  <2> QED
    BY <2>1, ConcatEmptySeq DEF Asks
<1>2. /\ Elements(<< >>) = {}
      /\ \A t : None(t, << >>) /\ ~Once(t, << >>) /\ Unasked(t, << >>) /\ None(t, k.ob)
  BY NoneEmpty, NoneOnce, ElementsFacts DEF Unasked, None, Harmless
<1>3. s.unanswered \in Seq(Seq(Nat))
  BY DEF Phone
<1>4. ASSUME NEW t, t \notin Comments
      PROVE  /\ Asked(t, s.unanswered) => Once(t, k.td)
             /\ Unasked(t, s.unanswered) => None(t, k.td)
  BY <1>3, <1>4, LostFacts
<1>5. Placed(d, r, k)
  <2> SUFFICES ASSUME NEW t \in Of(s.txn, d)
               PROVE  IF s.txn[t].status \in Pending THEN Somewhere(t, r, k)
                                                     ELSE Nowhere(t, r, k)
    BY DEF Placed
  <2>1. IF s.txn[t].status \in Pending THEN Somewhere(t, s, l) ELSE Nowhere(t, s, l)
    BY DEF Sound, Placed
  <2>2. t \notin Comments
    BY OfNat
  <2>3. InAsks(t, s, l) \/ InNotices(t, s, l) => InTodo(t, r, k)
    BY <1>1, <1>2, <1>4, <2>2 DEF InAsks, InNotices, InTodo
  <2>4. InHeld(t, s, l) => InHeld(t, r, k)
    BY <1>1, <1>2, <1>4, <2>2 DEF InHeld
  <2>5. ~InTodo(t, s, l)
    BY <1>2 DEF InTodo
  <2>6. Nowhere(t, s, l) => Nowhere(t, r, k)
    BY <1>1, <1>2, <1>4, <2>2 DEF Nowhere
  <2> QED
    BY <2>1, <2>3, <2>4, <2>5, <2>6 DEF Somewhere
<1>6. Noted(r, k)
  BY <1>2 DEF Noted, Linked
<1>7. Outstanding(r) = Outstanding(s)
  BY DEF Outstanding
<1>8. Carries(d, r, k, ap)
  <2>1. Carries(d, s, l, ap)
    BY DEF Sound
  <2>2. RightMessages(d, Asks(r, k), r, ap)
    BY <1>1 DEF RightMessages, RightMessage, Harmless
  <2>3. RightMessages(d, k.dn, r, ap)
    BY <1>2 DEF RightMessages
  <2>4. RightMessages(d, k.hd, r, ap)
    BY <1>7, <2>1 DEF Carries, RightMessages, RightMessage
  <2>5. RightMessages(d, k.td, r, ap)
    <3>1. 0 \notin Comments
      BY NoComment
    <3>2. Elements(k.td) = {Reply(b, "disconnect") : b \in Elements(s.unanswered)}
      BY <1>3, <3>1, LostFacts
    <3>3. ASSUME NEW b \in Elements(s.unanswered)
          PROVE  RightMessage(d, Reply(b, "disconnect"), r, ap)
      <4>1. b \in Seq(Nat) /\ Elements(b) \subseteq Nat
        BY <1>3, ElementsFacts
      <4>2. /\ b # << >> /\ Elements(b) \subseteq Of(s.txn, d)
            /\ Elements(b) \cap Outstanding(s) # {} => Outstanding(s) \subseteq Elements(b)
        BY <2>1 DEF Carries
      <4>3. PICK m : m = Reply(b, "disconnect")
        OBVIOUS
      <4>4. m.type = "reply" /\ m.what = b /\ m.status = "disconnect"
        BY <4>3 DEF Reply
      <4>5. Carried(m) = Elements(b)
        BY <4>1, <4>4, NoComment DEF Carried
      <4>6. RightMessage(d, m, r, ap)
        BY <1>7, <4>1, <4>2, <4>4, <4>5 DEF RightMessage, Fruitless
      <4> QED
        BY <4>3, <4>6
    <3> QED
      BY <3>2, <3>3 DEF RightMessages
  <2> QED
    BY <1>2, <2>2, <2>3, <2>4, <2>5 DEF Carries
<1>9. Queued(d, r) /\ Fresh(d, r) /\ Listed(d, r, w) /\ Upright(d, r, ap)
  BY <1>7 DEF Sound, Queued, Fresh, Listed, Upright, Honest
<1> QED
  BY <1>5, <1>6, <1>8, <1>9 DEF Sound

(* The answer that is handled next is taken, from those that wait to be    *)
(* handled or from what the server said.                                   *)
Took(m, l, k) ==
  /\ k.ob = l.ob /\ k.hd = l.hd
  /\ \/ l.td # << >> /\ m = Head(l.td) /\ k.td = Tail(l.td) /\ k.dn = l.dn
     \/ l.td = << >> /\ l.dn # << >> /\ m = Head(l.dn) /\ k.dn = Tail(l.dn) /\ k.td = l.td

Everywhere(s, l) ==
  Elements(Asks(s, l)) \cup Elements(l.dn) \cup Elements(l.hd) \cup Elements(l.td)

(* Whom it is about, and where they are afterwards: nowhere.               *)
LEMMA TookFacts ==
  ASSUME NEW d, NEW s \in Phone, NEW l \in Line, NEW ap, NEW w, Sound(d, s, l, ap, w),
         NEW m \in Answers, NEW k \in Line, Took(m, l, k)
  PROVE  /\ RightMessage(d, m, s, ap) /\ m \in Everywhere(s, l)
         /\ Asks(s, k) = Asks(s, l)
         /\ Elements(k.dn) \subseteq Elements(l.dn) /\ k.hd = l.hd
         /\ Elements(k.td) \subseteq Elements(l.td)
         /\ \A t \in Carried(m) :
              /\ t \in Of(s.txn, d) /\ s.txn[t].status \in Pending
              /\ None(t, Asks(s, l)) /\ None(t, k.dn) /\ None(t, k.hd) /\ None(t, k.td)
              /\ Unasked(t, Without(s.unanswered, {m.what}))
         /\ \A t : t \notin Carried(m) =>
              /\ (None(t, l.dn) => None(t, k.dn)) /\ (Once(t, l.dn) => Once(t, k.dn))
              /\ (None(t, l.td) => None(t, k.td)) /\ (Once(t, l.td) => Once(t, k.td))
<1>1. Asks(s, k) = Asks(s, l)
  BY DEF Asks, Took
<1>2. l.dn \in Seq(Notices) /\ l.td \in Seq(Answers) /\ s.unanswered \in Seq(Seq(Nat))
  BY DEF Line, Phone
<1>3. Carries(d, s, l, ap)
  BY DEF Sound
<1>4. Elements(Without(s.unanswered, {m.what})) = Elements(s.unanswered) \ {m.what}
  BY <1>2, ElementsWithout
<1>5. Carried(m) = Elements(m.what) \ Comments /\ Content(m) = m.what
  BY DEF Carried, Content, Answers
<1>6. CASE l.td # << >> /\ m = Head(l.td) /\ k.td = Tail(l.td) /\ k.dn = l.dn
  <2>1. Elements(l.td) = Elements(k.td) \cup {m}
    BY <1>2, <1>6, ElementsTail
  <2>2. RightMessage(d, m, s, ap)
    BY <1>3, <2>1 DEF Carries, RightMessages
  <2>3. \A t : t \notin Carried(m) =>
          (None(t, l.td) => None(t, k.td)) /\ (Once(t, l.td) => Once(t, k.td))
    BY <1>2, <1>6, OnceTail, NoneTail
  <2>4. ASSUME NEW t \in Carried(m)
        PROVE  /\ t \in Of(s.txn, d) /\ s.txn[t].status \in Pending
               /\ None(t, Asks(s, l)) /\ None(t, k.dn) /\ None(t, k.hd) /\ None(t, k.td)
               /\ Unasked(t, Without(s.unanswered, {m.what}))
    <3>1. t \in Of(s.txn, d) /\ s.txn[t].status \in Pending /\ InTodo(t, s, l)
      BY <2>1, CarriedPending
    <3>2. None(t, k.td)
      BY <1>2, <1>6, <3>1, OnceTail DEF InTodo
    <3>3. Unasked(t, Without(s.unanswered, {m.what}))
      BY <1>4, <3>1 DEF InTodo, Unasked
    <3> QED
      BY <1>6, <3>1, <3>2, <3>3 DEF InTodo, Took
  <2>5. k.hd = l.hd
    BY DEF Took
  <2> QED
    BY <1>1, <1>6, <2>1, <2>2, <2>3, <2>4, <2>5 DEF Everywhere
<1>7. CASE l.dn # << >> /\ m = Head(l.dn) /\ k.dn = Tail(l.dn) /\ k.td = l.td
  <2>1. Elements(l.dn) = Elements(k.dn) \cup {m}
    BY <1>2, <1>7, ElementsTail
  <2>2. RightMessage(d, m, s, ap)
    BY <1>3, <2>1 DEF Carries, RightMessages
  <2>3. \A t : t \notin Carried(m) =>
          (None(t, l.dn) => None(t, k.dn)) /\ (Once(t, l.dn) => Once(t, k.dn))
    BY <1>2, <1>7, OnceTail, NoneTail
  <2>4. ASSUME NEW t \in Carried(m)
        PROVE  /\ t \in Of(s.txn, d) /\ s.txn[t].status \in Pending
               /\ None(t, Asks(s, l)) /\ None(t, k.dn) /\ None(t, k.hd) /\ None(t, k.td)
               /\ Unasked(t, Without(s.unanswered, {m.what}))
    <3>1. t \in Of(s.txn, d) /\ s.txn[t].status \in Pending /\ InNotices(t, s, l)
      BY <2>1, CarriedPending
    <3>2. None(t, k.dn)
      BY <1>2, <1>7, <3>1, OnceTail DEF InNotices
    <3>3. Unasked(t, Without(s.unanswered, {m.what}))
      <4>1. Linked(l.dn, s.unanswered)
        BY DEF Sound, Noted
      <4>2. ASSUME NEW b \in Elements(Without(s.unanswered, {m.what})), t \in Elements(b)
            PROVE  FALSE
        <5>1. b \in Elements(s.unanswered) /\ b # m.what /\ Carried(m) \cap Elements(b) # {}
          BY <1>4, <2>4, <4>2
        <5> QED
          BY <1>5, <2>1, <4>1, <5>1 DEF Linked
      <4> QED
        BY <4>2 DEF Unasked
    <3> QED
      BY <1>7, <3>1, <3>2, <3>3 DEF InNotices, Took
  <2>5. k.hd = l.hd
    BY DEF Took
  <2> QED
    BY <1>1, <1>7, <2>1, <2>2, <2>3, <2>4, <2>5 DEF Everywhere
<1> QED
  BY <1>6, <1>7 DEF Took

TakenFrom(d, m, s, l, k, ap) ==
  /\ RightMessage(d, m, s, ap) /\ m \in Everywhere(s, l)
  /\ Asks(s, k) = Asks(s, l)
  /\ Elements(k.dn) \subseteq Elements(l.dn) /\ k.hd = l.hd
  /\ Elements(k.td) \subseteq Elements(l.td)
  /\ \A t \in Carried(m) :
       /\ t \in Of(s.txn, d) /\ s.txn[t].status \in Pending
       /\ None(t, Asks(s, l)) /\ None(t, k.dn) /\ None(t, k.hd) /\ None(t, k.td)
       /\ Unasked(t, Without(s.unanswered, {m.what}))
  /\ \A t : t \notin Carried(m) =>
       /\ (None(t, l.dn) => None(t, k.dn)) /\ (Once(t, l.dn) => Once(t, k.dn))
       /\ (None(t, l.td) => None(t, k.td)) /\ (Once(t, l.td) => Once(t, k.td))

(* The same, in one.                                                       *)
LEMMA TookRight ==
  ASSUME NEW d, NEW s \in Phone, NEW l \in Line, NEW ap, NEW w, Sound(d, s, l, ap, w),
         NEW m \in Answers, NEW k \in Line, Took(m, l, k)
  PROVE  TakenFrom(d, m, s, l, k, ap)
BY TookFacts DEF TakenFrom

(* What the answer to a put settles.                                       *)
Settles(m, s, r) ==
  /\ r.feed = s.feed /\ r.puts = s.puts /\ r.cache = s.cache
  /\ r.unanswered = Without(s.unanswered, {m.what})
  /\ Len(r.txn) = Len(s.txn)
  /\ \A t \in 1..Len(s.txn) :
       r.txn[t] = IF t \in Elements(m.what) THEN Settled(s.txn[t], m.status) ELSE s.txn[t]
  /\ IF m.status = "ok"
     THEN /\ r.queue = Without(s.queue, Elements(m.what))
          /\ Elements(r.writes) = Elements(s.writes) \ Elements(m.what)
     ELSE r.queue = s.queue /\ r.writes = s.writes

(* Settling what the answer is about keeps what is known of the phone.     *)
LEMMA SettleSound ==
  ASSUME NEW d, NEW s \in Phone, NEW r \in Phone, NEW l \in Line, NEW ap, NEW w,
         Sound(d, s, l, ap, w),
         NEW m \in Answers, NEW k \in Line, Took(m, l, k), Head(m.what) \notin Comments,
         Settles(m, s, r)
  PROVE  /\ Sound(d, r, k, ap, w) /\ Apart(d, s.txn, r.txn)
         /\ m.status = "ok" /\ Sent(s) => Ready(r)
<1>1. /\ RightMessage(d, m, s, ap) /\ m \in Everywhere(s, l)
      /\ Asks(s, k) = Asks(s, l)
      /\ Elements(k.dn) \subseteq Elements(l.dn) /\ k.hd = l.hd
      /\ Elements(k.td) \subseteq Elements(l.td)
      /\ \A t \in Carried(m) :
           /\ t \in Of(s.txn, d) /\ s.txn[t].status \in Pending
           /\ None(t, Asks(s, l)) /\ None(t, k.dn) /\ None(t, k.hd) /\ None(t, k.td)
           /\ Unasked(t, Without(s.unanswered, {m.what}))
      /\ \A t : t \notin Carried(m) =>
           /\ (None(t, l.dn) => None(t, k.dn)) /\ (Once(t, l.dn) => Once(t, k.dn))
           /\ (None(t, l.td) => None(t, k.td)) /\ (Once(t, l.td) => Once(t, k.td))
  <2>1. TakenFrom(d, m, s, l, k, ap)
    BY TookRight
  <2> QED
    BY <2>1 DEF TakenFrom
<1>2. Asks(r, k) = Asks(s, l)
  BY <1>1 DEF Asks, Settles
<1>3. m.type = "reply" /\ m.what \in Seq(Nat) \cup Seq(Comments)
  BY DEF Answers
<1>4. m.what \in Seq(Nat) /\ m.status \in {"ok", "datastale", "disconnect"}
  <2>1. ASSUME NEW c \in Comments, m.what = <<c>>
        PROVE  FALSE
    BY <2>1
  <2> QED
    BY <1>1, <1>3, <2>1 DEF RightMessage
<1>5. PICK B : B = Elements(m.what)
  OBVIOUS
<1>6. B \subseteq Nat /\ \A t \in B : t \notin Comments
  <2>1. B \subseteq Nat
    BY <1>4, <1>5, ElementsFacts
  <2> QED
    BY <2>1, NoComment
<1>7. Carried(m) = B
  BY <1>3, <1>5, <1>6 DEF Carried
<1>8. /\ Of(s.txn, d) \subseteq 1..Len(s.txn)
      /\ \A t \in Of(s.txn, d) : t \in Nat /\ t \notin Comments /\ s.txn[t] \in Transactions
  BY OfNat
<1>9. /\ r.unanswered = Without(s.unanswered, {m.what}) /\ Len(r.txn) = Len(s.txn)
      /\ \A t \in 1..Len(s.txn) : t \notin B => r.txn[t] = s.txn[t]
      /\ \A t \in 1..Len(s.txn) : t \in B => r.txn[t] = Settled(s.txn[t], m.status)
  BY <1>5 DEF Settles
<1>10. s.queue \in Seq(Nat) /\ s.unanswered \in Seq(Seq(Nat))
  BY DEF Phone
<1>11. /\ m.status = "ok" => Elements(r.queue) = Elements(s.queue) \ B
                             /\ Elements(r.writes) = Elements(s.writes) \ B
       /\ m.status # "ok" => r.queue = s.queue /\ r.writes = s.writes
       /\ InOrder(r.queue, s.queue)
  <2>1. CASE m.status = "ok"
    <3>1. r.queue = Without(s.queue, B) /\ Elements(r.writes) = Elements(s.writes) \ B
      BY <1>5, <2>1 DEF Settles
    <3>2. Elements(r.queue) = Elements(s.queue) \ B
      BY <1>10, <3>1, ElementsWithout
    <3>3. InOrder(r.queue, s.queue)
      BY <1>10, <3>1, OnlyOrder DEF Without
    <3> QED
      BY <2>1, <3>1, <3>2, <3>3
  <2>2. CASE m.status # "ok"
    BY <2>2 DEF Settles, InOrder
  <2> QED
    BY <2>1, <2>2
<1>12. \A t \in Of(s.txn, d) : Honest(t, s, ap) /\ s.txn[t].dev = d
  BY DEF Sound, Upright, Of
<1>13. ASSUME NEW t \in B
       PROVE  /\ t \in Of(s.txn, d) /\ t \in 1..Len(s.txn) /\ s.txn[t].status \in Pending
              /\ r.txn[t].dev = d
              /\ r.txn[t].status \in {"completed", "needsAbort", "run"}
              /\ m.status = "ok" <=> r.txn[t].status = "completed"
              /\ m.status = "ok" => r.txn[t].told = "ok"
              /\ m.status # "ok" => r.txn[t].told = "none"
              /\ r.txn[t].status = "run" => s.txn[t].status = "sent" /\ m.status = "datastale"
              /\ r.txn[t].status = "needsAbort" =>
                   r.txn[t].why = "disconnect"
                   \/ (r.txn[t].why = "set" /\ m.status = "datastale")
  <2>1. t \in Of(s.txn, d) /\ s.txn[t].status \in Pending
    BY <1>1, <1>7
  <2>2. t \in 1..Len(s.txn) /\ s.txn[t] \in Transactions /\ s.txn[t].dev = d
        /\ s.txn[t].told = "none"
        /\ (s.txn[t].status = "sentNeedsAbort" => s.txn[t].why = "set")
    BY <1>8, <1>12, <2>1 DEF Honest, Pending
  <2>3. r.txn[t] = Settled(s.txn[t], m.status)
    BY <1>9, <2>2
  <2>4. CASE m.status = "ok"
    <3>1. r.txn[t] = [s.txn[t] EXCEPT !.status = "completed", !.told = "ok"]
      BY <2>3, <2>4 DEF Settled
    <3> QED
      BY <2>1, <2>2, <2>4, <3>1 DEF Transactions
  <2>5. CASE m.status = "disconnect"
    <3>1. r.txn[t] = [s.txn[t] EXCEPT !.status = "needsAbort", !.why = "disconnect"]
      BY <2>3, <2>5 DEF Settled
    <3> QED
      BY <2>1, <2>2, <2>5, <3>1 DEF Transactions
  <2>6. CASE m.status = "datastale"
    <3>1. r.txn[t] = [s.txn[t] EXCEPT !.status =
                        IF s.txn[t].status = "sentNeedsAbort" THEN "needsAbort" ELSE "run"]
      BY <2>3, <2>6 DEF Settled
    <3> QED
      BY <2>1, <2>2, <2>6, <3>1 DEF Transactions, Pending
  <2> QED
    BY <1>4, <2>4, <2>5, <2>6
<1>14. Of(r.txn, d) = Of(s.txn, d)
  <2>1. ASSUME NEW t \in 1..Len(s.txn)
        PROVE  r.txn[t].dev = d <=> s.txn[t].dev = d
    BY <1>9, <1>12, <1>13
  <2> QED
    BY <1>9, <2>1 DEF Of
<1>15. \A t \in Of(s.txn, d) : t \notin B => r.txn[t] = s.txn[t]
  BY <1>8, <1>9
<1>16. \A t \in Elements(s.queue) : t \in Of(s.txn, d)
         /\ s.txn[t].status \in Pending \cup {"run", "needsAbort"}
  BY DEF Sound, Queued
<1>17. Elements(r.queue) \subseteq Elements(s.queue)
  BY <1>11
<1>18. IF Outstanding(s) \cap B = {} THEN Outstanding(r) = Outstanding(s)
       ELSE Outstanding(r) = {} /\ Outstanding(s) \subseteq B
  <2>1. Outstanding(s) \cap B # {} => Outstanding(s) \subseteq B
    BY <1>1, <1>7 DEF RightMessage
  <2>2. \A t \in Of(s.txn, d) :
          r.txn[t].status \in Pending <=> s.txn[t].status \in Pending /\ t \notin B
    BY <1>13, <1>15 DEF Pending
  <2>3. Outstanding(r) \subseteq Outstanding(s) \ B
    BY <1>16, <1>17, <2>2 DEF Outstanding
  <2>4. Outstanding(s) \ B \subseteq Outstanding(r)
    BY <1>11, <1>16, <2>2 DEF Outstanding
  <2> QED
    BY <2>1, <2>3, <2>4
<1>19. Elements(r.unanswered) = Elements(s.unanswered) \ {m.what}
  BY <1>9, <1>10, ElementsWithout
<1>20. Placed(d, r, k)
  <2> SUFFICES ASSUME NEW t \in Of(s.txn, d)
               PROVE  IF r.txn[t].status \in Pending THEN Somewhere(t, r, k)
                                                     ELSE Nowhere(t, r, k)
    BY <1>14 DEF Placed
  <2>1. CASE t \in B
    <3>1. Nowhere(t, r, k)
      BY <1>1, <1>2, <1>7, <1>9, <2>1 DEF Nowhere
    <3> QED
      BY <1>13, <2>1, <3>1 DEF Pending
  <2>2. CASE t \notin B
    <3>1. IF s.txn[t].status \in Pending THEN Somewhere(t, s, l) ELSE Nowhere(t, s, l)
      BY DEF Sound, Placed
    <3>2. /\ (None(t, l.dn) => None(t, k.dn)) /\ (Once(t, l.dn) => Once(t, k.dn))
          /\ (None(t, l.td) => None(t, k.td)) /\ (Once(t, l.td) => Once(t, k.td))
      BY <1>1, <1>7, <2>2
    <3>3. /\ Asked(t, s.unanswered) => Asked(t, r.unanswered)
          /\ Unasked(t, s.unanswered) => Unasked(t, r.unanswered)
      BY <1>5, <1>9, <1>10, <2>2, AskedWithout
    <3>4. /\ Somewhere(t, s, l) => Somewhere(t, r, k)
          /\ Nowhere(t, s, l) => Nowhere(t, r, k)
      BY <1>1, <1>2, <3>2, <3>3
      DEF Somewhere, Nowhere, InAsks, InNotices, InHeld, InTodo
    <3> QED
      BY <1>15, <2>2, <3>1, <3>4
  <2> QED
    BY <2>1, <2>2
<1>21. Noted(r, k)
  BY <1>1, <1>2, <1>19 DEF Sound, Noted, Linked
<1>22. Carries(d, s, l, ap)
  BY DEF Sound
<1>23. ASSUME NEW x, RightMessage(d, x, s, ap)
       PROVE  RightMessage(d, x, r, ap)
  BY <1>14, <1>18, <1>23 DEF RightMessage
<1>24. Carries(d, r, k, ap)
  <2>1. RightMessages(d, Asks(r, k), r, ap)
    BY <1>2, <1>22, <1>23 DEF Carries, RightMessages
  <2>2. RightMessages(d, k.dn, r, ap)
    BY <1>1, <1>22, <1>23 DEF Carries, RightMessages
  <2>3. RightMessages(d, k.hd, r, ap)
    BY <1>1, <1>22, <1>23 DEF Carries, RightMessages
  <2>4. RightMessages(d, k.td, r, ap)
    BY <1>1, <1>22, <1>23 DEF Carries, RightMessages
  <2>5. \A b \in Elements(r.unanswered) :
          /\ b # << >> /\ Elements(b) \subseteq Of(r.txn, d)
          /\ Elements(b) \cap Outstanding(r) # {} => Outstanding(r) \subseteq Elements(b)
    BY <1>14, <1>18, <1>19, <1>22 DEF Carries
  <2> QED
    BY <2>1, <2>2, <2>3, <2>4, <2>5 DEF Carries
<1>25. Queued(d, r)
  <2>1. \A t \in Elements(r.queue) :
          t \in Of(r.txn, d) /\ r.txn[t].status \in Pending \cup {"run", "needsAbort"}
    <3> SUFFICES ASSUME NEW t \in Elements(r.queue)
                 PROVE  t \in Of(s.txn, d)
                        /\ r.txn[t].status \in Pending \cup {"run", "needsAbort"}
      BY <1>14
    <3>1. t \in Of(s.txn, d) /\ s.txn[t].status \in Pending \cup {"run", "needsAbort"}
      BY <1>16, <1>17
    <3>2. CASE t \in B
      BY <1>11, <1>13, <3>1, <3>2
    <3>3. CASE t \notin B
      BY <1>15, <3>1, <3>3
    <3> QED
      BY <3>2, <3>3
  <2>2. \A i, j \in 1..Len(r.queue) :
          i < j /\ r.txn[r.queue[j]].status \in Pending => r.txn[r.queue[i]].status \in Pending
    <3>1. CASE Outstanding(s) \cap B = {}
      <4>1. \A t \in Elements(r.queue) :
              r.txn[t].status \in Pending <=> s.txn[t].status \in Pending
        BY <1>13, <1>15, <1>16, <1>17, <3>1 DEF Outstanding
      <4>2. \A i, j \in 1..Len(s.queue) :
              i < j /\ s.txn[s.queue[j]].status \in Pending
              => s.txn[s.queue[i]].status \in Pending
        BY DEF Sound, Queued
      <4> QED
        BY <1>11, <4>1, <4>2, SameOrder
    <3>2. CASE Outstanding(s) \cap B # {}
      <4>1. Outstanding(r) = {}
        BY <1>18, <3>2
      <4>2. \A j \in 1..Len(r.queue) : r.txn[r.queue[j]].status \notin Pending
        BY <4>1 DEF Outstanding, Elements
      <4> QED
        BY <4>2
    <3> QED
      BY <3>1, <3>2
  <2>3. ASSUME NEW t \in Of(r.txn, d), r.txn[t].status \in {"run", "sent"}
        PROVE  t \in Elements(r.queue)
    <3>1. t \in Of(s.txn, d)
      BY <1>14
    <3>2. s.txn[t].status \in {"run", "sent"} /\ (m.status # "ok" \/ t \notin B)
      BY <1>13, <1>15, <2>3, <3>1
    <3>3. t \in Elements(s.queue)
      BY <3>1, <3>2 DEF Sound, Queued
    <3> QED
      BY <1>11, <3>2, <3>3
  <2> QED
    BY <2>1, <2>2, <2>3 DEF Queued
<1>26. Fresh(d, r)
  <2> SUFFICES ASSUME Outstanding(r) # {}, NEW t \in Of(r.txn, d), r.txn[t].status = "run"
               PROVE  r.txn[t].retries = 0
    BY DEF Fresh
  <2>1. t \in Of(s.txn, d) /\ Outstanding(s) \cap B = {} /\ Outstanding(s) # {}
    BY <1>14, <1>18
  <2>2. t \notin B
    <3>1. SUFFICES ASSUME t \in B
                   PROVE  FALSE
      OBVIOUS
    <3>2. s.txn[t].status = "sent"
      BY <1>13, <3>1
    <3>3. t \in Outstanding(s)
      BY <2>1, <3>2 DEF Sound, Queued, Outstanding, Pending
    <3> QED
      BY <2>1, <3>1, <3>3
  <2>3. r.txn[t] = s.txn[t]
    BY <1>15, <2>1, <2>2
  <2> QED
    BY <2>1, <2>3 DEF Sound, Fresh
<1>27. Listed(d, r, w)
  <2>1. UnderWay(r.txn, d) = {t \in Of(s.txn, d) : r.txn[t].told = "none"}
        /\ UnderWay(s.txn, d) = {t \in Of(s.txn, d) : s.txn[t].told = "none"}
    BY <1>14 DEF UnderWay, Of
  <2>2. \A t \in B : s.txn[t].told = "none"
    BY <1>12, <1>13 DEF Honest, Pending
  <2>3. UnderWay(r.txn, d) = IF m.status = "ok" THEN UnderWay(s.txn, d) \ B
                             ELSE UnderWay(s.txn, d)
    <3>1. ASSUME NEW t \in Of(s.txn, d)
          PROVE  r.txn[t].told = "none" <=>
                   s.txn[t].told = "none" /\ (m.status # "ok" \/ t \notin B)
      BY <1>13, <1>15, <2>2
    <3> QED
      BY <2>1, <3>1
  <2>4. Listed(d, s, w)
    BY DEF Sound
  <2> QED
    BY <1>6, <1>11, <2>3, <2>4 DEF Listed
<1>28. Upright(d, r, ap)
  <2> SUFFICES ASSUME NEW t \in Of(s.txn, d)
               PROVE  Honest(t, r, ap)
    BY <1>14 DEF Upright
  <2>1. Honest(t, s, ap)
    BY <1>12
  <2>2. CASE t \in B
    <3>1. m.status = "datastale" => t \notin ap
      BY <1>1, <1>3, <1>7, <2>2 DEF RightMessage, Fruitless
    <3> QED
      BY <1>4, <1>13, <2>2, <3>1 DEF Honest
  <2>3. CASE t \notin B
    BY <1>15, <1>17, <2>1, <2>3 DEF Honest
  <2> QED
    BY <2>2, <2>3
<1>29. Apart(d, s.txn, r.txn)
  <2>1. ASSUME NEW t \in 1..Len(s.txn)
        PROVE  IF s.txn[t].dev = d THEN r.txn[t].dev = d ELSE r.txn[t] = s.txn[t]
    BY <1>9, <1>12, <1>13
  <2> QED
    BY <1>9, <2>1, ApartOwn
<1>30. ASSUME m.status = "ok", Sent(s)
       PROVE  Ready(r)
  <2>1. Ready(s)
    BY <1>30, SentReady
  <2>2. ASSUME NEW t \in Elements(r.queue)
        PROVE  r.txn[t] = s.txn[t] /\ t \in Elements(s.queue)
    BY <1>11, <1>15, <1>16, <1>30
  <2> QED
    BY <2>1, <2>2 DEF Ready
<1> QED
  BY <1>20, <1>21, <1>24, <1>25, <1>26, <1>27, <1>28, <1>29, <1>30 DEF Sound

-----------------------------------------------------------------------------
(* The actions keep the invariant.                                         *)

(* A phone and its messages have their types.                              *)
LEMMA ShapeFacts ==
  ASSUME Shape, NEW d \in Devices
  PROVE  /\ State(d) \in Phone /\ LineOf(d) \in Line
         /\ outbox[d] \in Seq(Requests) /\ down[d] \in Seq(Notices)
         /\ held[d] \in Seq(Answers) /\ todo[d] \in Seq(Answers)
         /\ Asks(State(d), LineOf(d)) = outbox[d]
<1>1. /\ outbox[d] \in Seq(Requests) /\ down[d] \in Seq(Notices)
      /\ held[d] \in Seq(Answers) /\ todo[d] \in Seq(Answers)
  BY DEF Shape
<1>2. LineOf(d) \in Line
  BY <1>1 DEF LineOf, Line
<1>3. << >> \in Seq(Requests)
  BY EmptySeq
<1>4. State(d) \in Phone
  BY <1>3 DEF Shape, State, Phone
<1>5. Asks(State(d), LineOf(d)) = outbox[d] \o << >>
  BY DEF Asks, State, LineOf
<1>6. outbox[d] \o << >> = outbox[d]
  BY <1>1, ConcatEmptySeq
<1> QED
  BY <1>1, <1>2, <1>4, <1>5, <1>6

(* A queue of one.                                                         *)
LEMMA One ==
  ASSUME NEW S, NEW x \in S
  PROVE  <<x>> \in Seq(S) /\ Elements(<<x>>) = {x}
<1>1. <<x>> = [i \in 1..1 |-> x]
  OBVIOUS
<1>2. [i \in 1..1 |-> x] \in Seq(S)
  BY IsASeq
<1> QED
  BY <1>1, <1>2, ElementsFacts

(* Requests without a transaction.                                         *)
LEMMA SayFacts ==
  ASSUME NEW d, NEW m \in Requests, Harmless(m)
  PROVE  /\ Say(d, m) \in Seq(Requests) /\ \A x \in Elements(Say(d, m)) : Harmless(x)
<1>1. <<m>> \in Seq(Requests) /\ Elements(<<m>>) = {m}
  BY One
<1>2. << >> \in Seq(Requests) /\ Elements(<< >>) = {}
  BY EmptySeq, ElementsFacts
<1> QED
  BY <1>1, <1>2 DEF Say

(* What the client asks for without a transaction is harmless.             *)
LEMMA RequestFacts ==
  /\ \A what \in Kinds : Listen(what) \in Requests /\ Harmless(Listen(what))
  /\ [type |-> "unlisten"] \in Requests /\ Harmless([type |-> "unlisten"])
  /\ \A c \in Comments : /\ [type |-> "set", comment |-> c] \in Requests
                         /\ Harmless([type |-> "set", comment |-> c])
BY DEF Listen, Requests, Harmless, Carried

(* What the server tells without being asked is harmless.                  *)
LEMMA NoticeFacts ==
  /\ \A what \in Kinds, n \in Node :
       /\ [type |-> "value", what |-> what, node |-> n] \in Notices
       /\ Harmless([type |-> "value", what |-> what, node |-> n])
  /\ \A n \in Node : /\ [type |-> "update", node |-> n] \in Notices
                     /\ Harmless([type |-> "update", node |-> n])
BY DEF Notices, Harmless, Carried

(* So is the answer to a comment.                                          *)
LEMMA CommentReply ==
  ASSUME NEW c \in Comments, NEW status \in {"ok", "denied"}, NEW a,
         a = Reply(<<c>>, status)
  PROVE  a \in Answers /\ a \in Notices /\ Harmless(a)
<1>1. <<c>> \in Seq(Comments) /\ Elements(<<c>>) = {c}
  BY One
<1>2. a.type = "reply" /\ a.what = <<c>> /\ a.status = status
  BY DEF Reply
<1>3. a \in Answers
  BY <1>1 DEF Reply, Answers
<1>4. Carried(a) = {}
  BY <1>1, <1>2 DEF Carried
<1> QED
  BY <1>2, <1>3, <1>4 DEF Harmless, Notices

(* The phone that a step is of, afterwards.                                *)
LEMMA OwnKeeps ==
  ASSUME NEW d, NEW s, NEW k, Sound(d, s, k, applied', written'), Sent(s),
         txn' = s.txn, queue'[d] = s.queue, writes'[d] = s.writes,
         unanswered'[d] = s.unanswered,
         outbox'[d] \in Seq(Requests), Same(Asks(s, k), outbox'[d]),
         Same(k.dn, down'[d]), Same(k.hd, held'[d]), Same(k.td, todo'[d])
  PROVE  PhoneOf(d)'
<1>1. PICK r, l : r = State(d)' /\ l = LineOf(d)'
  OBVIOUS
<1>2. /\ r.queue = s.queue /\ r.writes = s.writes /\ r.txn = s.txn
      /\ r.unanswered = s.unanswered /\ r.puts = << >>
  BY <1>1 DEF State
<1>3. l.ob = outbox'[d] /\ l.dn = down'[d] /\ l.hd = held'[d] /\ l.td = todo'[d]
  BY <1>1 DEF LineOf
<1>4. Asks(r, l) = outbox'[d]
  <2>1. Asks(r, l) = outbox'[d] \o << >>
    BY <1>2, <1>3 DEF Asks
  <2>2. PICK o : o = outbox'[d]
    OBVIOUS
  <2>3. o \o << >> = o
    BY <2>2, ConcatEmptySeq
  <2> QED
    BY <2>1, <2>2, <2>3
<1>5. SameLine(s, k, r, l)
  BY <1>3, <1>4 DEF SameLine
<1>6. PICK ap, w : ap = applied' /\ w = written'
  OBVIOUS
<1>7. Listed(d, r, w)
  BY <1>2, <1>6 DEF Sound, Listed
<1>8. Sound(d, r, l, ap, w)
  <2>1. Sound(d, s, k, ap, w)
    BY <1>6
  <2>2. \A t \in Of(s.txn, d) : Alike(r.txn[t], s.txn[t])
    BY <1>2 DEF Alike
  <2> QED
    BY <1>2, <1>5, <1>7, <2>1, <2>2, SameSound
<1>9. Sent(r)
  BY <1>2 DEF Sent
<1> QED
  BY <1>1, <1>6, <1>8, <1>9 DEF PhoneOf

(* The other phones.                                                       *)
LEMMA OtherKeeps ==
  ASSUME NEW d, NEW e, e # d, PhoneOf(e), Apart(d, txn, txn'),
         queue[e] \in Seq(Nat),
         queue'[e] = queue[e], writes'[e] = writes[e], unanswered'[e] = unanswered[e],
         outbox'[e] = outbox[e], Same(down[e], down'[e]),
         held'[e] = held[e], todo'[e] = todo[e], written \subseteq written',
         applied \subseteq applied', \A t \in applied' : t \in applied \/ t \in Of(txn, d)
  PROVE  PhoneOf(e)'
<1>1. PICK s, r, l, k, ap, bp, w, x :
        /\ s = State(e) /\ r = State(e)' /\ l = LineOf(e) /\ k = LineOf(e)'
        /\ ap = applied /\ bp = applied' /\ w = written /\ x = written'
  OBVIOUS
<1>2. /\ r.queue = s.queue /\ r.writes = s.writes
      /\ r.unanswered = s.unanswered /\ r.puts = s.puts
      /\ s.txn = txn /\ r.txn = txn'
  BY <1>1 DEF State
<1>3. /\ k.ob = l.ob /\ k.hd = l.hd /\ k.td = l.td /\ Same(l.dn, k.dn)
  BY <1>1 DEF LineOf
<1>4. Sound(e, s, l, ap, w) /\ Sent(s)
  BY <1>1 DEF PhoneOf
<1>5. Of(r.txn, e) = Of(s.txn, e) /\ \A t \in Of(s.txn, e) : r.txn[t] = s.txn[t]
  BY <1>2 DEF Apart
<1>6. SameLine(s, l, r, k)
  <2>1. Asks(r, k) = Asks(s, l)
    BY <1>2, <1>3 DEF Asks
  <2> QED
    BY <1>3, <2>1, SameRefl DEF SameLine
<1>7. Of(s.txn, e) \cap Of(s.txn, d) = {}
  BY DEF Of
<1>8. \A t \in Of(s.txn, e) : Alike(r.txn[t], s.txn[t]) /\ (t \in bp <=> t \in ap)
  BY <1>1, <1>2, <1>5, <1>7 DEF Alike
<1>9. Listed(e, r, x)
  <2>1. UnderWay(r.txn, e) = UnderWay(s.txn, e)
    <3>1. /\ UnderWay(r.txn, e) = {t \in Of(r.txn, e) : r.txn[t].told = "none"}
          /\ UnderWay(s.txn, e) = {t \in Of(s.txn, e) : s.txn[t].told = "none"}
      BY DEF UnderWay, Of
    <3> QED
      BY <1>5, <3>1
  <2>2. w \subseteq x
    BY <1>1
  <2> QED
    BY <1>2, <1>4, <2>1, <2>2 DEF Sound, Listed
<1>10. Sound(e, r, k, bp, x)
  BY <1>2, <1>4, <1>5, <1>6, <1>8, <1>9, SameSound
<1>11. Sent(r)
  <2>1. \A t \in Elements(s.queue) : t \in Of(s.txn, e)
    BY <1>4 DEF Sound, Queued
  <2>2. s.queue # << >> => s.queue[1] \in Elements(s.queue)
    <3>1. s.queue \in Seq(Nat)
      BY <1>1 DEF State
    <3>2. s.queue # << >> => 1 \in 1..Len(s.queue)
      BY <3>1, TailFacts
    <3> QED
      BY <3>2 DEF Elements
  <2> QED
    BY <1>2, <1>4, <1>5, <2>1, <2>2 DEF Sent
<1> QED
  BY <1>1, <1>10, <1>11 DEF PhoneOf

(* What handlers leave behind.                                             *)
LEMMA CommitFacts ==
  ASSUME Shape, NEW d \in Devices, NEW s \in Phone, Commit(d, s)
  PROVE  /\ txn' = s.txn /\ txn' \in Seq(Transactions)
         /\ feed' \in [Devices -> {"idle", "sent", "answered"}]
         /\ queue' \in [Devices -> Seq(Nat)] /\ queue'[d] = s.queue
         /\ writes' \in [Devices -> Seq(Nat \cup Comments)] /\ writes'[d] = s.writes
         /\ cache' \in [Devices -> Node]
         /\ outbox' \in [Devices -> Seq(Requests)]
         /\ unanswered' \in [Devices -> Seq(Seq(Nat))] /\ unanswered'[d] = s.unanswered
         /\ \A e \in Devices : e # d =>
              /\ queue'[e] = queue[e] /\ writes'[e] = writes[e]
              /\ unanswered'[e] = unanswered[e] /\ outbox'[e] = outbox[e]
         /\ Same(outbox[d] \o s.puts, outbox'[d])
<1>1. /\ s.queue \in Seq(Nat) /\ s.writes \in Seq(Nat \cup Comments)
      /\ s.txn \in Seq(Transactions) /\ s.feed \in {"idle", "sent", "answered"}
      /\ s.unanswered \in Seq(Seq(Nat)) /\ s.cache \in Node /\ s.puts \in Seq(Requests)
  BY DEF Phone
<1>2. Empty \in Node
  BY DEF Empty, Node
<1>3. PICK over \in BOOLEAN : over = (UnderWay(s.txn, d) = {})
  OBVIOUS
<1>4. PICK last : last = IF over /\ s.feed = "idle" /\ UnderWay(txn, d) # {}
                         THEN Say(d, [type |-> "unlisten"]) ELSE << >>
  OBVIOUS
<1>5. last \in Seq(Requests) /\ \A x \in Elements(last) : Harmless(x)
  <2>1. << >> \in Seq(Requests) /\ Elements(<< >>) = {}
    BY EmptySeq, ElementsFacts
  <2>2. Say(d, [type |-> "unlisten"]) \in Seq(Requests)
        /\ \A x \in Elements(Say(d, [type |-> "unlisten"])) : Harmless(x)
    BY RequestFacts, SayFacts
  <2> QED
    BY <1>4, <2>1, <2>2
<1>6. PICK q, o : q = outbox[d] \o s.puts /\ o = q \o last
  OBVIOUS
<1>7. q \in Seq(Requests)
  <2>1. outbox[d] \in Seq(Requests)
    BY DEF Shape
  <2> QED
    BY <1>1, <1>6, <2>1, ConcatProperties
<1>8. o \in Seq(Requests) /\ Same(q, o)
  BY <1>5, <1>6, <1>7, SameConcat
<1>9. outbox' = [outbox EXCEPT ![d] = o]
  BY <1>3, <1>4, <1>6 DEF Commit
<1>10. /\ txn' = s.txn /\ feed' = [feed EXCEPT ![d] = s.feed]
       /\ queue' = [queue EXCEPT ![d] = s.queue]
       /\ writes' = [writes EXCEPT ![d] = s.writes]
       /\ cache' = [cache EXCEPT ![d] = IF over /\ s.feed # "answered" THEN Empty ELSE s.cache]
       /\ unanswered' = [unanswered EXCEPT ![d] = s.unanswered]
  BY <1>3 DEF Commit
<1>11. outbox' \in [Devices -> Seq(Requests)] /\ outbox'[d] = o
       /\ \A e \in Devices : e # d => outbox'[e] = outbox[e]
  BY <1>8, <1>9 DEF Shape
<1>12. queue' \in [Devices -> Seq(Nat)] /\ queue'[d] = s.queue
       /\ \A e \in Devices : e # d => queue'[e] = queue[e]
  BY <1>1, <1>10 DEF Shape
<1>13. writes' \in [Devices -> Seq(Nat \cup Comments)] /\ writes'[d] = s.writes
       /\ \A e \in Devices : e # d => writes'[e] = writes[e]
  BY <1>1, <1>10 DEF Shape
<1>14. unanswered' \in [Devices -> Seq(Seq(Nat))] /\ unanswered'[d] = s.unanswered
       /\ \A e \in Devices : e # d => unanswered'[e] = unanswered[e]
  BY <1>1, <1>10 DEF Shape
<1>15. cache' \in [Devices -> Node]
  BY <1>1, <1>2, <1>10 DEF Shape
<1>16. feed' \in [Devices -> {"idle", "sent", "answered"}]
  BY <1>1, <1>10 DEF Shape
<1> QED
  BY <1>1, <1>6, <1>8, <1>10, <1>11, <1>12, <1>13, <1>14, <1>15, <1>16

(* A handler that ends with Commit, and takes what it handles.             *)
LEMMA HandlerKeeps ==
  ASSUME Shape, \A e \in Devices : PhoneOf(e),
         NEW d \in Devices, NEW s \in Phone, Commit(d, s), NEW k \in Line,
         Sound(d, s, k, applied', written'), Sent(s), Apart(d, txn, s.txn),
         Len(s.txn) = Len(txn), k.ob = outbox[d],
         down' \in [Devices -> Seq(Notices)], down'[d] = k.dn,
         held' \in [Devices -> Seq(Answers)], held'[d] = k.hd,
         todo' \in [Devices -> Seq(Answers)], todo'[d] = k.td,
         \A e \in Devices : e # d =>
           down'[e] = down[e] /\ held'[e] = held[e] /\ todo'[e] = todo[e],
         applied' = applied, written \subseteq written', written' \subseteq Comments,
         UNCHANGED <<post, watch, online>>
  PROVE  IInv'
<1>1. /\ txn' = s.txn /\ txn' \in Seq(Transactions)
      /\ feed' \in [Devices -> {"idle", "sent", "answered"}]
      /\ queue' \in [Devices -> Seq(Nat)] /\ queue'[d] = s.queue
      /\ writes' \in [Devices -> Seq(Nat \cup Comments)] /\ writes'[d] = s.writes
      /\ cache' \in [Devices -> Node]
      /\ outbox' \in [Devices -> Seq(Requests)]
      /\ unanswered' \in [Devices -> Seq(Seq(Nat))] /\ unanswered'[d] = s.unanswered
      /\ \A e \in Devices : e # d =>
           /\ queue'[e] = queue[e] /\ writes'[e] = writes[e]
           /\ unanswered'[e] = unanswered[e] /\ outbox'[e] = outbox[e]
      /\ Same(outbox[d] \o s.puts, outbox'[d])
  BY CommitFacts
<1>2. Shape'
  <2>1. post' \in Node /\ watch' \in [Devices -> BOOLEAN] /\ online' \in [Devices -> BOOLEAN]
    BY DEF Shape
  <2>2. written' \in SUBSET Comments
    OBVIOUS
  <2>3. applied' \in SUBSET Started'
    BY <1>1 DEF Shape, Started
  <2> QED
    BY <1>1, <2>1, <2>2, <2>3 DEF Shape
<1>3. PhoneOf(d)'
  <2>1. Asks(s, k) = outbox[d] \o s.puts
    BY DEF Asks
  <2> QED
    BY <1>1, <2>1, SameRefl, OwnKeeps
<1>4. ASSUME NEW e \in Devices, e # d
      PROVE  PhoneOf(e)'
  <2>1. queue[e] \in Seq(Nat) /\ Same(down[e], down'[e])
    BY <1>4, SameRefl DEF Shape
  <2> QED
    BY <1>1, <1>4, <2>1, OtherKeeps
<1> QED
  BY <1>2, <1>3, <1>4 DEF IInv

(* Steps that complete and begin no transaction.                           *)
LEMMA QuietKeeps ==
  ASSUME Shape, \A e \in Devices : PhoneOf(e), NEW d \in Devices, NEW s, NEW k,
         txn' = txn, queue' = queue, writes' = writes, written' = written,
         s.txn = txn, s.queue = queue[d], s.writes = writes[d],
         s.unanswered = unanswered'[d],
         Sound(d, s, k, applied', written), Sent(s),
         post' \in Node, watch' \in [Devices -> BOOLEAN], cache' \in [Devices -> Node],
         feed' \in [Devices -> {"idle", "sent", "answered"}],
         online' \in [Devices -> BOOLEAN],
         outbox' \in [Devices -> Seq(Requests)], Same(Asks(s, k), outbox'[d]),
         down' \in [Devices -> Seq(Notices)], Same(k.dn, down'[d]),
         held' \in [Devices -> Seq(Answers)], Same(k.hd, held'[d]),
         todo' \in [Devices -> Seq(Answers)], Same(k.td, todo'[d]),
         unanswered' \in [Devices -> Seq(Seq(Nat))],
         applied \subseteq applied', \A t \in applied' : t \in applied \/ t \in Of(txn, d),
         \A e \in Devices : e # d =>
           /\ unanswered'[e] = unanswered[e] /\ outbox'[e] = outbox[e]
           /\ held'[e] = held[e] /\ todo'[e] = todo[e] /\ Same(down[e], down'[e])
  PROVE  IInv'
<1>1. Shape'
  <2>1. txn' \in Seq(Transactions) /\ queue' \in [Devices -> Seq(Nat)]
        /\ writes' \in [Devices -> Seq(Nat \cup Comments)] /\ written' \in SUBSET Comments
    BY DEF Shape
  <2>2. applied' \in SUBSET Started'
    <3>1. applied \subseteq Started /\ Of(txn, d) \subseteq Started
      BY DEF Shape, Of, Started
    <3>2. Started' = Started
      BY DEF Started
    <3> QED
      BY <3>1, <3>2
  <2> QED
    BY <2>1, <2>2 DEF Shape
<1>2. PhoneOf(d)'
  BY OwnKeeps
<1>3. ASSUME NEW e \in Devices, e # d
      PROVE  PhoneOf(e)'
  <2>1. queue[e] \in Seq(Nat) /\ Apart(d, txn, txn')
    BY DEF Shape, Apart
  <2> QED
    BY <1>3, <2>1, OtherKeeps
<1> QED
  BY <1>1, <1>2, <1>3 DEF IInv

(* Those that only send, receive or lose what no transaction is about.     *)
LEMMA CalmKeeps ==
  ASSUME Shape, \A e \in Devices : PhoneOf(e), NEW d \in Devices,
         txn' = txn, queue' = queue, writes' = writes, written' = written,
         unanswered' = unanswered, held' = held, todo' = todo, applied' = applied,
         post' \in Node, watch' \in [Devices -> BOOLEAN], cache' \in [Devices -> Node],
         feed' \in [Devices -> {"idle", "sent", "answered"}],
         online' \in [Devices -> BOOLEAN],
         outbox' \in [Devices -> Seq(Requests)], Same(outbox[d], outbox'[d]),
         down' \in [Devices -> Seq(Notices)],
         \A e \in Devices : Same(down[e], down'[e]) /\ (e # d => outbox'[e] = outbox[e])
  PROVE  IInv'
<1>1. PICK s, k : s = State(d) /\ k = LineOf(d)
  OBVIOUS
<1>2. /\ s.txn = txn /\ s.queue = queue[d] /\ s.writes = writes[d]
      /\ s.unanswered = unanswered'[d]
  BY <1>1 DEF State
<1>3. Sound(d, s, k, applied', written) /\ Sent(s)
  BY <1>1 DEF PhoneOf
<1>4. /\ Asks(s, k) = outbox[d] /\ k.dn = down[d] /\ k.hd = held[d] /\ k.td = todo[d]
  BY <1>1, ShapeFacts DEF LineOf
<1>5. /\ held' \in [Devices -> Seq(Answers)] /\ todo' \in [Devices -> Seq(Answers)]
      /\ unanswered' \in [Devices -> Seq(Seq(Nat))]
  BY DEF Shape
<1> QED
  BY <1>2, <1>3, <1>4, <1>5, SameRefl, QuietKeeps

(* The feed is asked for.                                                  *)
LEMMA ReadFeedKeeps ==
  ASSUME IInv, NEW d \in Devices, ReadFeed(d)
  PROVE  IInv'
<1>1. Shape /\ \A e \in Devices : PhoneOf(e)
  BY DEF IInv
<1>2. /\ txn' = txn /\ queue' = queue /\ writes' = writes /\ written' = written
      /\ unanswered' = unanswered /\ held' = held /\ todo' = todo /\ applied' = applied
      /\ post' = post /\ watch' = watch /\ cache' = cache /\ online' = online /\ down' = down
  BY DEF ReadFeed, client
<1>3. PICK u : u = Say(d, Listen("feed"))
  OBVIOUS
<1>4. u \in Seq(Requests) /\ \A x \in Elements(u) : Harmless(x)
  BY <1>3, RequestFacts, SayFacts DEF Kinds
<1>5. PICK q, o : q = outbox[d] /\ o = q \o u
  OBVIOUS
<1>6. o \in Seq(Requests) /\ Same(q, o)
  BY <1>1, <1>4, <1>5, SameConcat, ShapeFacts
<1>7. outbox' = [outbox EXCEPT ![d] = o]
  BY <1>3, <1>5 DEF ReadFeed
<1>8. outbox' \in [Devices -> Seq(Requests)] /\ outbox'[d] = o
      /\ \A e \in Devices : e # d => outbox'[e] = outbox[e]
  BY <1>1, <1>6, <1>7 DEF Shape
<1>9. /\ post' \in Node /\ watch' \in [Devices -> BOOLEAN] /\ cache' \in [Devices -> Node]
      /\ feed' \in [Devices -> {"idle", "sent", "answered"}]
      /\ online' \in [Devices -> BOOLEAN] /\ down' \in [Devices -> Seq(Notices)]
  BY <1>1, <1>2 DEF Shape, ReadFeed
<1> QED
  BY <1>1, <1>2, <1>5, <1>6, <1>8, <1>9, SameRefl, CalmKeeps

(* The feed was read.                                                      *)
LEMMA EndReadKeeps ==
  ASSUME IInv, NEW d \in Devices, EndRead(d)
  PROVE  IInv'
<1>1. Shape /\ \A e \in Devices : PhoneOf(e)
  BY DEF IInv
<1>2. /\ txn' = txn /\ queue' = queue /\ writes' = writes /\ written' = written
      /\ unanswered' = unanswered /\ held' = held /\ todo' = todo /\ applied' = applied
      /\ post' = post /\ watch' = watch /\ online' = online /\ down' = down
  BY DEF EndRead, bounds, history
<1>3. PICK u : u = IF UnderWay(txn, d) = {} THEN Say(d, [type |-> "unlisten"])
                                            ELSE Say(d, Listen("again"))
  OBVIOUS
<1>4. u \in Seq(Requests) /\ \A x \in Elements(u) : Harmless(x)
  <2>1. /\ Say(d, [type |-> "unlisten"]) \in Seq(Requests)
        /\ \A x \in Elements(Say(d, [type |-> "unlisten"])) : Harmless(x)
    BY RequestFacts, SayFacts
  <2>2. /\ Say(d, Listen("again")) \in Seq(Requests)
        /\ \A x \in Elements(Say(d, Listen("again"))) : Harmless(x)
    BY RequestFacts, SayFacts DEF Kinds
  <2> QED
    BY <1>3, <2>1, <2>2
<1>5. PICK q, o : q = outbox[d] /\ o = q \o u
  OBVIOUS
<1>6. o \in Seq(Requests) /\ Same(q, o)
  BY <1>1, <1>4, <1>5, SameConcat, ShapeFacts
<1>7. outbox' = [outbox EXCEPT ![d] = o]
  BY <1>3, <1>5 DEF EndRead
<1>8. outbox' \in [Devices -> Seq(Requests)] /\ outbox'[d] = o
      /\ \A e \in Devices : e # d => outbox'[e] = outbox[e]
  BY <1>1, <1>6, <1>7 DEF Shape
<1>9. cache' \in [Devices -> Node]
  <2>1. Empty \in Node
    BY DEF Empty, Node
  <2>2. cache' = [cache EXCEPT ![d] = Empty] \/ cache' = cache
    BY DEF EndRead
  <2> QED
    BY <1>1, <2>1, <2>2 DEF Shape
<1>10. /\ post' \in Node /\ watch' \in [Devices -> BOOLEAN]
       /\ feed' \in [Devices -> {"idle", "sent", "answered"}]
       /\ online' \in [Devices -> BOOLEAN] /\ down' \in [Devices -> Seq(Notices)]
  BY <1>1, <1>2 DEF Shape, EndRead
<1> QED
  BY <1>1, <1>2, <1>5, <1>6, <1>8, <1>9, <1>10, SameRefl, CalmKeeps

(* Something else is listened to.                                          *)
LEMMA ListenElsewhereKeeps ==
  ASSUME IInv, NEW d \in Devices, ListenElsewhere(d)
  PROVE  IInv'
<1>1. Shape /\ \A e \in Devices : PhoneOf(e)
  BY DEF IInv
<1>2. /\ txn' = txn /\ queue' = queue /\ writes' = writes /\ written' = written
      /\ unanswered' = unanswered /\ held' = held /\ todo' = todo /\ applied' = applied
      /\ post' = post /\ watch' = watch /\ cache' = cache /\ online' = online /\ down' = down
      /\ feed' = feed
  BY DEF ListenElsewhere, client
<1>3. PICK q, m, o : q = outbox[d] /\ m = Listen("other") /\ o = Append(q, m)
  OBVIOUS
<1>4. q \in Seq(Requests) /\ m \in Requests /\ Harmless(m)
  BY <1>1, <1>3, ShapeFacts, RequestFacts DEF Kinds
<1>6. o \in Seq(Requests) /\ Same(q, o)
  BY <1>3, <1>4, SameAppend
<1>7. outbox' = [outbox EXCEPT ![d] = o]
  BY <1>3 DEF ListenElsewhere
<1>8. outbox' \in [Devices -> Seq(Requests)] /\ outbox'[d] = o
      /\ \A e \in Devices : e # d => outbox'[e] = outbox[e]
  BY <1>1, <1>6, <1>7 DEF Shape
<1>9. /\ post' \in Node /\ watch' \in [Devices -> BOOLEAN] /\ cache' \in [Devices -> Node]
      /\ feed' \in [Devices -> {"idle", "sent", "answered"}]
      /\ online' \in [Devices -> BOOLEAN] /\ down' \in [Devices -> Seq(Notices)]
  BY <1>1, <1>2 DEF Shape
<1> QED
  BY <1>1, <1>2, <1>3, <1>6, <1>8, <1>9, SameRefl, CalmKeeps

(* The connection is back.                                                 *)
LEMMA ConnectKeeps ==
  ASSUME IInv, NEW d \in Devices, Connect(d)
  PROVE  IInv'
<1>1. Shape /\ \A e \in Devices : PhoneOf(e)
  BY DEF IInv
<1>2. /\ txn' = txn /\ queue' = queue /\ writes' = writes /\ written' = written
      /\ unanswered' = unanswered /\ held' = held /\ todo' = todo /\ applied' = applied
      /\ post' = post /\ watch' = watch /\ cache' = cache /\ down' = down
      /\ feed' = feed /\ online' = [online EXCEPT ![d] = TRUE]
  BY DEF Connect, client, bounds, history
<1>3. PICK a, b, u :
        /\ a = <<Listen("restored")>>
        /\ b = IF feed[d] = "sent" THEN <<Listen("feed")>>
               ELSE IF feed[d] = "answered" THEN <<Listen("again")>>
               ELSE IF UnderWay(txn, d) # {} THEN <<Listen("post")>> ELSE << >>
        /\ u = a \o b
  OBVIOUS
<1>4. u \in Seq(Requests) /\ \A x \in Elements(u) : Harmless(x)
  <2>1. ASSUME NEW what \in Kinds
        PROVE  <<Listen(what)>> \in Seq(Requests)
               /\ \A x \in Elements(<<Listen(what)>>) : Harmless(x)
    <3>1. Listen(what) \in Requests /\ Harmless(Listen(what))
      BY RequestFacts
    <3>2. PICK m : m = Listen(what)
      OBVIOUS
    <3>3. <<m>> \in Seq(Requests) /\ Elements(<<m>>) = {m}
      BY <3>1, <3>2, One
    <3> QED
      BY <3>1, <3>2, <3>3
  <2>2. << >> \in Seq(Requests) /\ Elements(<< >>) = {}
    BY EmptySeq, ElementsFacts
  <2>3. a \in Seq(Requests) /\ \A x \in Elements(a) : Harmless(x)
    BY <1>3, <2>1 DEF Kinds
  <2>4. b \in Seq(Requests) /\ \A x \in Elements(b) : Harmless(x)
    <3>1. CASE feed[d] = "sent"
      BY <1>3, <2>1, <3>1 DEF Kinds
    <3>2. CASE feed[d] = "answered"
      BY <1>3, <2>1, <3>2 DEF Kinds
    <3>3. CASE feed[d] \notin {"sent", "answered"} /\ UnderWay(txn, d) # {}
      BY <1>3, <2>1, <3>3 DEF Kinds
    <3>4. CASE feed[d] \notin {"sent", "answered"} /\ UnderWay(txn, d) = {}
      BY <1>3, <2>2, <3>4
    <3> QED
      BY <3>1, <3>2, <3>3, <3>4
  <2>5. u \in Seq(Requests) /\ Elements(u) = Elements(a) \cup Elements(b)
    <3>1. u = a \o b
      BY <1>3
    <3> QED
      BY <2>3, <2>4, <3>1, ElementsConcat
  <2> QED
    BY <2>3, <2>4, <2>5
<1>5. PICK q, o : q = outbox[d] /\ o = u \o q
  OBVIOUS
<1>6. o \in Seq(Requests) /\ Same(q, o)
  BY <1>1, <1>4, <1>5, SameConcat, ShapeFacts
<1>7. outbox' = [outbox EXCEPT ![d] = o]
  BY <1>3, <1>5 DEF Connect
<1>8. outbox' \in [Devices -> Seq(Requests)] /\ outbox'[d] = o
      /\ \A e \in Devices : e # d => outbox'[e] = outbox[e]
  BY <1>1, <1>6, <1>7 DEF Shape
<1>9. /\ post' \in Node /\ watch' \in [Devices -> BOOLEAN] /\ cache' \in [Devices -> Node]
      /\ feed' \in [Devices -> {"idle", "sent", "answered"}]
      /\ online' \in [Devices -> BOOLEAN] /\ down' \in [Devices -> Seq(Notices)]
  BY <1>1, <1>2 DEF Shape
<1> QED
  BY ZenonT(30), <1>1, <1>2, <1>5, <1>6, <1>8, <1>9, SameRefl, CalmKeeps

(* The post has changed at the server.                                     *)
LEMMA DeliverUpdateKeeps ==
  ASSUME IInv, NEW d \in Devices, DeliverUpdate(d)
  PROVE  IInv'
<1>1. Shape /\ \A e \in Devices : PhoneOf(e)
  BY DEF IInv
<1>2. /\ txn' = txn /\ queue' = queue /\ writes' = writes /\ written' = written
      /\ unanswered' = unanswered /\ held' = held /\ todo' = todo /\ applied' = applied
      /\ post' = post /\ watch' = watch /\ online' = online /\ outbox' = outbox
      /\ feed' = feed
  BY DEF DeliverUpdate, bounds, history
<1>3. PICK q, o, m : q = down[d] /\ o = Tail(q) /\ m = Head(q)
  OBVIOUS
<1>4. q \in Seq(Notices) /\ q # << >> /\ m \in Notices /\ m.type = "update"
  <2>1. q \in Seq(Notices) /\ q # << >> /\ m.type = "update"
    BY <1>1, <1>3, ShapeFacts DEF DeliverUpdate, Received
  <2> QED
    BY <1>3, <2>1, ElementsTail
<1>5. o \in Seq(Notices) /\ Same(q, o)
  <2>1. Carried(m) = {}
    BY <1>4 DEF Carried
  <2> QED
    BY <1>3, <1>4, <2>1, SameTail
<1>6. down' = [down EXCEPT ![d] = o]
  BY <1>3 DEF DeliverUpdate, Take
<1>7. down' \in [Devices -> Seq(Notices)]
      /\ \A e \in Devices : Same(down[e], down'[e])
  BY <1>1, <1>3, <1>5, <1>6, SameRefl DEF Shape
<1>8. cache' \in [Devices -> Node]
  <2>1. m.node \in Node
    BY <1>4 DEF Notices, Answers
  <2>2. cache' = [cache EXCEPT ![d] = m.node] \/ cache' = cache
    <3>1. cache' = [cache EXCEPT ![d] = IF Watched(d) THEN m.node ELSE cache[d]]
      BY <1>3 DEF DeliverUpdate, Learn
    <3> QED
      BY <1>1, <3>1 DEF Shape
  <2> QED
    BY <1>1, <2>1, <2>2 DEF Shape
<1>9. /\ post' \in Node /\ watch' \in [Devices -> BOOLEAN]
      /\ feed' \in [Devices -> {"idle", "sent", "answered"}]
      /\ online' \in [Devices -> BOOLEAN] /\ outbox' \in [Devices -> Seq(Requests)]
  BY <1>1, <1>2 DEF Shape
<1> QED
  BY <1>1, <1>2, <1>7, <1>8, <1>9, SameRefl, CalmKeeps

(* The server answers a listen.                                            *)
LEMMA AnswerListenKeeps ==
  ASSUME IInv, NEW d \in Devices, AnswerListen(d)
  PROVE  IInv'
<1>1. Shape /\ \A e \in Devices : PhoneOf(e)
  BY DEF IInv
<1>2. /\ txn' = txn /\ queue' = queue /\ writes' = writes /\ written' = written
      /\ unanswered' = unanswered /\ held' = held /\ todo' = todo /\ applied' = applied
      /\ post' = post /\ cache' = cache /\ online' = online /\ feed' = feed
  BY DEF AnswerListen, client, bounds, history
<1>3. PICK q, o, h : q = outbox[d] /\ o = Tail(q) /\ h = Head(q)
  OBVIOUS
<1>4. q \in Seq(Requests) /\ q # << >> /\ h \in Requests /\ h.type = "listen"
  <2>1. q \in Seq(Requests) /\ q # << >> /\ h.type = "listen"
    BY <1>1, <1>3, ShapeFacts DEF AnswerListen, Next1
  <2> QED
    BY <1>3, <2>1, ElementsTail
<1>5. o \in Seq(Requests) /\ Same(q, o)
  <2>1. Carried(h) = {}
    BY <1>4 DEF Carried
  <2> QED
    BY <1>3, <1>4, <2>1, SameTail
<1>6. h.what \in Kinds
  BY <1>4 DEF Requests, Puts
<1>7. PICK p, m, g :
        /\ p = down[d] /\ m = [type |-> "value", what |-> h.what, node |-> post]
        /\ g = Append(p, m)
  OBVIOUS
<1>8. g \in Seq(Notices) /\ Same(p, g)
  <2>1. p \in Seq(Notices) /\ m \in Notices /\ Harmless(m)
    BY <1>1, <1>6, <1>7, NoticeFacts DEF Shape
  <2> QED
    BY <1>7, <2>1, SameAppend
<1>9. down' = [down EXCEPT ![d] = g] /\ outbox' = [outbox EXCEPT ![d] = o]
      /\ watch' = [watch EXCEPT ![d] = @ \/ h.what \notin {"other", "restored"}]
  BY <1>3, <1>7 DEF AnswerListen
<1>10. down' \in [Devices -> Seq(Notices)]
       /\ \A e \in Devices : Same(down[e], down'[e])
  BY <1>1, <1>7, <1>8, <1>9, SameRefl DEF Shape
<1>11. outbox' \in [Devices -> Seq(Requests)] /\ Same(outbox[d], outbox'[d])
       /\ \A e \in Devices : e # d => outbox'[e] = outbox[e]
  BY <1>1, <1>3, <1>5, <1>9 DEF Shape
<1>12. watch' \in [Devices -> BOOLEAN]
  <2>1. watch \in [Devices -> BOOLEAN]
    BY <1>1 DEF Shape
  <2>2. (watch[d] \/ h.what \notin {"other", "restored"}) \in BOOLEAN
    OBVIOUS
  <2> QED
    BY <1>9, <2>1, <2>2, Zenon
<1>13. /\ post' \in Node /\ cache' \in [Devices -> Node]
       /\ feed' \in [Devices -> {"idle", "sent", "answered"}]
       /\ online' \in [Devices -> BOOLEAN]
  BY <1>1, <1>2 DEF Shape
<1> QED
  BY <1>1, <1>2, <1>10, <1>11, <1>12, <1>13, CalmKeeps

(* The server takes note of an unlisten.                                   *)
LEMMA AnswerUnlistenKeeps ==
  ASSUME IInv, NEW d \in Devices, AnswerUnlisten(d)
  PROVE  IInv'
<1>1. Shape /\ \A e \in Devices : PhoneOf(e)
  BY DEF IInv
<1>2. /\ txn' = txn /\ queue' = queue /\ writes' = writes /\ written' = written
      /\ unanswered' = unanswered /\ held' = held /\ todo' = todo /\ applied' = applied
      /\ post' = post /\ cache' = cache /\ online' = online /\ feed' = feed /\ down' = down
  BY DEF AnswerUnlisten, client, bounds, history
<1>3. PICK q, o, h : q = outbox[d] /\ o = Tail(q) /\ h = Head(q)
  OBVIOUS
<1>4. q \in Seq(Requests) /\ q # << >> /\ h \in Requests /\ h.type = "unlisten"
  <2>1. q \in Seq(Requests) /\ q # << >> /\ h.type = "unlisten"
    BY <1>1, <1>3, ShapeFacts DEF AnswerUnlisten, Next1
  <2> QED
    BY <1>3, <2>1, ElementsTail
<1>5. o \in Seq(Requests) /\ Same(q, o)
  <2>1. Carried(h) = {}
    BY <1>4 DEF Carried
  <2> QED
    BY <1>3, <1>4, <2>1, SameTail
<1>6. outbox' = [outbox EXCEPT ![d] = o] /\ watch' = [watch EXCEPT ![d] = FALSE]
  BY <1>3 DEF AnswerUnlisten
<1>7. outbox' \in [Devices -> Seq(Requests)] /\ Same(outbox[d], outbox'[d])
      /\ \A e \in Devices : e # d => outbox'[e] = outbox[e]
  BY <1>1, <1>3, <1>5, <1>6 DEF Shape
<1>8. /\ post' \in Node /\ cache' \in [Devices -> Node]
      /\ feed' \in [Devices -> {"idle", "sent", "answered"}]
      /\ watch' \in [Devices -> BOOLEAN]
      /\ online' \in [Devices -> BOOLEAN] /\ down' \in [Devices -> Seq(Notices)]
  BY <1>1, <1>2, <1>6 DEF Shape
<1> QED
  BY <1>1, <1>2, <1>7, <1>8, SameRefl, CalmKeeps

(* A comment's request, at the server.                                     *)
LEMMA SetFacts ==
  ASSUME Shape, NEW d \in Devices, Next1(d, "set"), NEW q, q = outbox[d]
  PROVE  /\ q \in Seq(Requests) /\ q # << >> /\ Head(q).comment \in Comments
         /\ Tail(q) \in Seq(Requests) /\ Same(q, Tail(q))
<1>1. PICK o, h : o = Tail(q) /\ h = Head(q)
  OBVIOUS
<1>2. q \in Seq(Requests) /\ q # << >> /\ h \in Requests /\ h.type = "set"
  <2>1. q \in Seq(Requests) /\ q # << >> /\ h.type = "set"
    BY <1>1, ShapeFacts DEF Next1
  <2> QED
    BY <1>1, <2>1, ElementsTail
<1>3. o \in Seq(Requests) /\ Same(q, o)
  <2>1. Carried(h) = {}
    BY <1>2 DEF Carried
  <2> QED
    BY <1>1, <1>2, <2>1, SameTail
<1>4. h.comment \in Comments
  BY <1>2 DEF Requests, Puts
<1> QED
  BY <1>1, <1>2, <1>3, <1>4

(* The server refuses a comment.                                           *)
LEMMA RefuseCommentKeeps ==
  ASSUME IInv, NEW d \in Devices, RefuseComment(d)
  PROVE  IInv'
<1>1. Shape /\ \A e \in Devices : PhoneOf(e)
  BY DEF IInv
<1>2. /\ txn' = txn /\ queue' = queue /\ writes' = writes /\ written' = written
      /\ unanswered' = unanswered /\ held' = held /\ todo' = todo /\ applied' = applied
      /\ post' = post /\ cache' = cache /\ online' = online /\ feed' = feed /\ watch' = watch
  BY DEF RefuseComment, client, history
<1>3. PICK q, o, c : q = outbox[d] /\ o = Tail(q) /\ c = Head(q).comment
  OBVIOUS
<1>4. c \in Comments /\ o \in Seq(Requests) /\ Same(q, o)
  BY <1>1, <1>3, SetFacts DEF RefuseComment
<1>5. PICK p, m, g : p = down[d] /\ m = Reply(<<c>>, "denied") /\ g = Append(p, m)
  OBVIOUS
<1>6. g \in Seq(Notices) /\ Same(p, g)
  <2>1. p \in Seq(Notices) /\ m \in Notices /\ Harmless(m)
    BY <1>1, <1>4, <1>5, CommentReply DEF Shape
  <2> QED
    BY <1>5, <2>1, SameAppend
<1>7. down' = [down EXCEPT ![d] = g] /\ outbox' = [outbox EXCEPT ![d] = o]
  BY <1>3, <1>5 DEF RefuseComment
<1>8. down' \in [Devices -> Seq(Notices)]
      /\ \A e \in Devices : Same(down[e], down'[e])
  BY <1>1, <1>5, <1>6, <1>7, SameRefl DEF Shape
<1>9. outbox' \in [Devices -> Seq(Requests)] /\ Same(outbox[d], outbox'[d])
      /\ \A e \in Devices : e # d => outbox'[e] = outbox[e]
  BY <1>1, <1>3, <1>4, <1>7 DEF Shape
<1>10. /\ post' \in Node /\ cache' \in [Devices -> Node]
       /\ feed' \in [Devices -> {"idle", "sent", "answered"}]
       /\ watch' \in [Devices -> BOOLEAN] /\ online' \in [Devices -> BOOLEAN]
  BY <1>1, <1>2 DEF Shape
<1> QED
  BY <1>1, <1>2, <1>8, <1>9, <1>10, CalmKeeps

(* The server tells those who watch.                                       *)
Told1(e, n) == IF watch[e] THEN <<[type |-> "update", node |-> n]>> ELSE << >>

(* Those who watch have a harmless message more.                           *)
LEMMA UpdateFacts ==
  ASSUME Shape, NEW e \in Devices, NEW n \in Node, NEW g, g = down[e] \o Told1(e, n)
  PROVE  g \in Seq(Notices) /\ Same(down[e], g)
<1>1. PICK p, u, m : p = down[e] /\ u = Told1(e, n) /\ m = [type |-> "update", node |-> n]
  OBVIOUS
<1>2. p \in Seq(Notices) /\ m \in Notices /\ Harmless(m)
  BY <1>1, NoticeFacts DEF Shape
<1>3. u \in Seq(Notices) /\ \A x \in Elements(u) : Harmless(x)
  <2>1. <<m>> \in Seq(Notices) /\ Elements(<<m>>) = {m}
    BY <1>2, One
  <2>2. << >> \in Seq(Notices) /\ Elements(<< >>) = {}
    BY EmptySeq, ElementsFacts
  <2>3. u = <<m>> \/ u = << >>
    BY <1>1 DEF Told1
  <2> QED
    BY <1>2, <2>1, <2>2, <2>3
<1>4. g = p \o u
  BY <1>1
<1>5. g \in Seq(Notices) /\ Same(p, g)
  BY <1>2, <1>3, <1>4, SameConcat
<1> QED
  BY <1>1, <1>5

(* The post is written, and its writer has an answer.                      *)
LEMMA PublishFacts ==
  ASSUME Shape, NEW d \in Devices, NEW n \in Node, NEW a \in Notices, Publish(d, n, a)
  PROVE  /\ post' \in Node
         /\ down' \in [Devices -> Seq(Notices)]
         /\ \A e \in Devices : e # d => Same(down[e], down'[e])
         /\ \E g \in Seq(Notices) : Same(down[d], g) /\ down'[d] = Append(g, a)
         /\ outbox' = [outbox EXCEPT ![d] = Tail(@)]
<1>1. /\ post' = n
      /\ down' = [e \in Devices |->
           (down[e] \o Told1(e, n)) \o (IF e = d THEN <<a>> ELSE << >>)]
      /\ outbox' = [outbox EXCEPT ![d] = Tail(@)]
  BY DEF Publish, Told1
<1>2. ASSUME NEW e \in Devices
      PROVE  \E g \in Seq(Notices) :
               /\ Same(down[e], g)
               /\ down'[e] = IF e = d THEN Append(g, a) ELSE g
               /\ down'[e] \in Seq(Notices)
  <2>1. PICK g : g = down[e] \o Told1(e, n)
    OBVIOUS
  <2>2. g \in Seq(Notices) /\ Same(down[e], g)
    BY <2>1, UpdateFacts
  <2>3. down'[e] = g \o (IF e = d THEN <<a>> ELSE << >>)
    BY <1>1, <2>1
  <2>4. CASE e = d
    <3>1. down'[e] = g \o <<a>>
      BY <2>3, <2>4
    <3>2. Append(g, a) = g \o <<a>> /\ Append(g, a) \in Seq(Notices)
      BY <2>2, AppendIsConcat, AppendProperties
    <3>3. down'[e] = Append(g, a) /\ down'[e] \in Seq(Notices)
      BY <3>1, <3>2
    <3> QED
      BY <2>2, <2>4, <3>3
  <2>5. CASE e # d
    <3>1. down'[e] = g \o << >>
      BY <2>3, <2>5
    <3>2. g \o << >> = g
      BY <2>2, ConcatEmptySeq
    <3>3. down'[e] = g
      BY <3>1, <3>2
    <3> QED
      BY <2>2, <2>5, <3>3
  <2> QED
    BY <2>4, <2>5
<1>3. \A e \in Devices : down'[e] \in Seq(Notices)
  BY <1>2
<1>4. down' \in [Devices -> Seq(Notices)]
  <2>1. down' = [e \in Devices |-> down'[e]]
    BY <1>1
  <2> QED
    BY <1>3, <2>1
<1>5. \A e \in Devices : e # d => Same(down[e], down'[e])
  BY <1>2
<1>6. \E g \in Seq(Notices) : Same(down[d], g) /\ down'[d] = Append(g, a)
  BY <1>2
<1> QED
  BY <1>1, <1>4, <1>5, <1>6

(* The server stores a comment.                                            *)
LEMMA StoreCommentKeeps ==
  ASSUME IInv, NEW d \in Devices, StoreComment(d)
  PROVE  IInv'
<1>1. Shape /\ \A e \in Devices : PhoneOf(e)
  BY DEF IInv
<1>2. /\ txn' = txn /\ queue' = queue /\ writes' = writes /\ written' = written
      /\ unanswered' = unanswered /\ held' = held /\ todo' = todo /\ applied' = applied
      /\ cache' = cache /\ online' = online /\ feed' = feed /\ watch' = watch
  BY DEF StoreComment, client, bounds, history
<1>3. PICK q, o, c : q = outbox[d] /\ o = Tail(q) /\ c = Head(q).comment
  OBVIOUS
<1>4. c \in Comments /\ o \in Seq(Requests) /\ Same(q, o)
  BY <1>1, <1>3, SetFacts DEF StoreComment
<1>5. PICK n, m : n = [post EXCEPT !.comments = @ \cup {c}] /\ m = Reply(<<c>>, "ok")
  OBVIOUS
<1>6. n \in Node /\ m \in Notices /\ Harmless(m)
  <2>1. post \in Node
    BY <1>1 DEF Shape
  <2>2. n \in Node
    BY <1>4, <1>5, <2>1 DEF Node
  <2> QED
    BY <1>4, <1>5, <2>2, CommentReply
<1>7. Publish(d, n, m)
  BY <1>3, <1>5 DEF StoreComment
<1>8. /\ post' \in Node
      /\ down' \in [Devices -> Seq(Notices)]
      /\ \A e \in Devices : e # d => Same(down[e], down'[e])
      /\ \E g \in Seq(Notices) : Same(down[d], g) /\ down'[d] = Append(g, m)
      /\ outbox' = [outbox EXCEPT ![d] = Tail(@)]
  BY <1>1, <1>6, <1>7, PublishFacts
<1>9. Same(down[d], down'[d])
  <2>1. PICK g \in Seq(Notices) : Same(down[d], g) /\ down'[d] = Append(g, m)
    BY <1>8
  <2>2. Same(g, down'[d])
    BY <1>6, <2>1, SameAppend
  <2> QED
    BY <2>1, <2>2, SameTrans
<1>10. outbox' \in [Devices -> Seq(Requests)] /\ Same(outbox[d], outbox'[d])
       /\ \A e \in Devices : e # d => outbox'[e] = outbox[e]
  BY <1>1, <1>3, <1>4, <1>8 DEF Shape
<1>11. /\ cache' \in [Devices -> Node]
       /\ feed' \in [Devices -> {"idle", "sent", "answered"}]
       /\ watch' \in [Devices -> BOOLEAN] /\ online' \in [Devices -> BOOLEAN]
  BY <1>1, <1>2 DEF Shape
<1> QED
  BY <1>1, <1>2, <1>8, <1>9, <1>10, <1>11, CalmKeeps

(* The server answers a put, one way or the other.                         *)
LEMMA PutKeeps ==
  ASSUME IInv, NEW d \in Devices, Next1(d, "put"), NEW m, m = Head(outbox[d]),
         NEW status, NEW a, a = Reply(m.batch, status),
         \/ status = "datastale" /\ applied' = applied
         \/ status = "ok" /\ applied' = applied \cup Elements(m.batch),
         txn' = txn, queue' = queue, writes' = writes, written' = written,
         unanswered' = unanswered, held' = held, todo' = todo,
         watch' = watch, cache' = cache, feed' = feed, online' = online,
         m \in Puts /\ a \in Notices =>
           /\ post' \in Node /\ down' \in [Devices -> Seq(Notices)]
           /\ \A e \in Devices : e # d => Same(down[e], down'[e])
           /\ \E g \in Seq(Notices) : Same(down[d], g) /\ down'[d] = Append(g, a),
         outbox' = [outbox EXCEPT ![d] = Tail(@)]
  PROVE  IInv'
<1>1. Shape /\ \A e \in Devices : PhoneOf(e)
  BY DEF IInv
<1>2. PICK s, l, ap, bp, w :
        s = State(d) /\ l = LineOf(d) /\ ap = applied /\ bp = applied' /\ w = written
  OBVIOUS
<1>3. /\ s \in Phone /\ l \in Line /\ Sound(d, s, l, ap, w) /\ Sent(s) /\ s.puts = << >>
      /\ s.txn = txn /\ s.queue = queue[d] /\ s.writes = writes[d]
      /\ s.unanswered = unanswered[d]
      /\ l.ob = outbox[d] /\ l.dn = down[d] /\ l.hd = held[d] /\ l.td = todo[d]
  BY <1>1, <1>2, ShapeFacts DEF State, LineOf, PhoneOf
<1>4. /\ l.ob \in Seq(Requests) /\ l.ob # << >> /\ m = Head(l.ob) /\ m.type = "put"
      /\ l.hd \in Seq(Answers) /\ l.td \in Seq(Answers)
  BY <1>3 DEF Next1, Line
<1>5. Tail(l.ob) \in Seq(Requests) /\ m \in Requests /\ m \in Elements(l.ob)
  BY <1>4, ElementsTail
<1>6. m \in Puts
  BY <1>4, <1>5 DEF Requests
<1>7. /\ a \in Notices /\ a.type = "reply" /\ a.what = m.batch /\ a.status = status
  <2>1. m.batch \in Seq(Nat)
    BY <1>6 DEF Puts
  <2> QED
    BY <2>1 DEF Reply, Notices, Answers
<1>8. PICK g \in Seq(Notices) : Same(down[d], g) /\ down'[d] = Append(g, a)
  BY <1>6, <1>7
<1>9. PICK i : i = [ob |-> l.ob, dn |-> g, hd |-> l.hd, td |-> l.td]
  OBVIOUS
<1>10. i \in Line /\ i.ob = l.ob /\ i.dn = g /\ i.hd = l.hd /\ i.td = l.td
  BY <1>4, <1>9 DEF Line
<1>11. Sound(d, s, i, ap, w)
  <2>1. SameLine(s, l, s, i)
    <3>1. Asks(s, i) = Asks(s, l)
      BY <1>10 DEF Asks
    <3> QED
      BY <1>3, <1>8, <1>10, <3>1, SameRefl DEF SameLine
  <2>2. Listed(d, s, w)
    BY <1>3 DEF Sound
  <2>3. \A t \in Of(s.txn, d) : Alike(s.txn[t], s.txn[t]) /\ (t \in ap <=> t \in ap)
    BY DEF Alike
  <2> QED
    BY <1>3, <2>1, <2>2, <2>3, SameSound
<1>12. Append(g, a) \in Seq(Notices)
  BY <1>7, AppendProperties
<1>13. PICK k : k = [ob |-> Tail(l.ob), dn |-> Append(g, a), hd |-> l.hd, td |-> l.td]
  OBVIOUS
<1>14. /\ k \in Line /\ k.ob = Tail(i.ob) /\ k.dn = Append(i.dn, a) /\ k.hd = i.hd
       /\ k.td = i.td
  BY <1>4, <1>5, <1>10, <1>12, <1>13 DEF Line
<1>15. Sound(d, s, k, bp, w)
  <2>1. \/ a.status = "datastale" /\ bp = ap
        \/ a.status = "ok" /\ bp = ap \cup Elements(m.batch)
    BY <1>2, <1>7
  <2>2. i.ob # << >> /\ m = Head(i.ob)
    BY <1>4, <1>10
  <2> QED
    BY ZenonT(30), <1>3, <1>6, <1>7, <1>10, <1>11, <1>14, <2>1, <2>2, PutAnswered
<1>16. \A t \in Elements(m.batch) : t \in Of(txn, d)
  <2>1. Asks(s, l) = l.ob
    BY <1>2, <1>3, <1>1, ShapeFacts
  <2>2. RightMessage(d, m, s, ap)
    BY <1>3, <1>5, <2>1 DEF Sound, Carries, RightMessages
  <2>3. Elements(m.batch) = Carried(m)
    BY <1>4 DEF Carried
  <2> QED
    BY <1>3, <2>2, <2>3 DEF RightMessage
<1>17. applied \subseteq applied' /\ \A t \in applied' : t \in applied \/ t \in Of(txn, d)
  BY <1>16
<1>18. outbox' \in [Devices -> Seq(Requests)] /\ outbox'[d] = Tail(l.ob)
       /\ \A e \in Devices : e # d => outbox'[e] = outbox[e]
  BY <1>1, <1>3, <1>5 DEF Shape
<1>19. Asks(s, k) = Tail(l.ob)
  BY <1>3, <1>5, <1>13, ConcatEmptySeq DEF Asks
<1>20. /\ watch' \in [Devices -> BOOLEAN] /\ cache' \in [Devices -> Node]
       /\ feed' \in [Devices -> {"idle", "sent", "answered"}]
       /\ online' \in [Devices -> BOOLEAN]
       /\ held' \in [Devices -> Seq(Answers)] /\ todo' \in [Devices -> Seq(Answers)]
       /\ unanswered' \in [Devices -> Seq(Seq(Nat))]
  BY <1>1 DEF Shape
<1>21. /\ post' \in Node /\ down' \in [Devices -> Seq(Notices)]
       /\ \A e \in Devices : e # d => Same(down[e], down'[e])
  BY <1>6, <1>7
<1>22. /\ Same(Asks(s, k), outbox'[d]) /\ Same(k.dn, down'[d]) /\ Same(k.hd, held'[d])
       /\ Same(k.td, todo'[d])
  BY <1>3, <1>8, <1>10, <1>14, <1>18, <1>19, SameRefl
<1>23. Sound(d, s, k, applied', written)
  BY <1>2, <1>15
<1> QED
  BY <1>1, <1>3, <1>17, <1>18, <1>20, <1>21, <1>22, <1>23, QuietKeeps

(* The server accepts a put.                                               *)
LEMMA AcceptPutKeeps ==
  ASSUME IInv, NEW d \in Devices, AcceptPut(d)
  PROVE  IInv'
<1>1. Shape
  BY DEF IInv
<1>2. PICK m, a : m = Head(outbox[d]) /\ a = Reply(m.batch, "ok")
  OBVIOUS
<1>3. /\ Next1(d, "put") /\ Publish(d, m.data, a)
      /\ applied' = applied \cup Elements(m.batch)
  BY <1>2 DEF AcceptPut
<1>4. /\ txn' = txn /\ queue' = queue /\ writes' = writes /\ written' = written
      /\ unanswered' = unanswered /\ held' = held /\ todo' = todo
      /\ watch' = watch /\ cache' = cache /\ feed' = feed /\ online' = online
  BY DEF AcceptPut, client, bounds
<1>5. m \in Puts /\ a \in Notices =>
        /\ post' \in Node /\ down' \in [Devices -> Seq(Notices)]
        /\ \A e \in Devices : e # d => Same(down[e], down'[e])
        /\ \E g \in Seq(Notices) : Same(down[d], g) /\ down'[d] = Append(g, a)
  <2> SUFFICES ASSUME m \in Puts, a \in Notices
               PROVE  /\ post' \in Node /\ down' \in [Devices -> Seq(Notices)]
                      /\ \A e \in Devices : e # d => Same(down[e], down'[e])
                      /\ \E g \in Seq(Notices) : Same(down[d], g) /\ down'[d] = Append(g, a)
    OBVIOUS
  <2>1. PICK n : n = m.data
    OBVIOUS
  <2>2. n \in Node /\ Publish(d, n, a)
    BY <1>3, <2>1 DEF Puts
  <2> QED
    BY <1>1, <2>2, PublishFacts
<1>6. outbox' = [outbox EXCEPT ![d] = Tail(@)]
  BY <1>3 DEF Publish
<1> QED
  BY <1>2, <1>3, <1>4, <1>5, <1>6, PutKeeps

(* The server refuses a put.                                               *)
LEMMA RefusePutKeeps ==
  ASSUME IInv, NEW d \in Devices, RefusePut(d)
  PROVE  IInv'
<1>1. Shape
  BY DEF IInv
<1>2. PICK m, a : m = Head(outbox[d]) /\ a = Reply(m.batch, "datastale")
  OBVIOUS
<1>3. /\ Next1(d, "put") /\ applied' = applied /\ post' = post
      /\ down' = [down EXCEPT ![d] = Append(@, a)]
      /\ outbox' = [outbox EXCEPT ![d] = Tail(@)]
  BY <1>2 DEF RefusePut, history
<1>4. /\ txn' = txn /\ queue' = queue /\ writes' = writes /\ written' = written
      /\ unanswered' = unanswered /\ held' = held /\ todo' = todo
      /\ watch' = watch /\ cache' = cache /\ feed' = feed /\ online' = online
  BY DEF RefusePut, client, bounds
<1>5. m \in Puts /\ a \in Notices =>
        /\ post' \in Node /\ down' \in [Devices -> Seq(Notices)]
        /\ \A e \in Devices : e # d => Same(down[e], down'[e])
        /\ \E g \in Seq(Notices) : Same(down[d], g) /\ down'[d] = Append(g, a)
  <2> SUFFICES ASSUME m \in Puts, a \in Notices
               PROVE  /\ post' \in Node /\ down' \in [Devices -> Seq(Notices)]
                      /\ \A e \in Devices : e # d => Same(down[e], down'[e])
                      /\ \E g \in Seq(Notices) : Same(down[d], g) /\ down'[d] = Append(g, a)
    OBVIOUS
  <2>1. PICK g : g = down[d]
    OBVIOUS
  <2>2. g \in Seq(Notices) /\ Append(g, a) \in Seq(Notices)
    BY <1>1, <2>1, AppendProperties DEF Shape
  <2>3. down' = [down EXCEPT ![d] = Append(g, a)]
    BY <1>3, <2>1
  <2> QED
    BY <1>1, <1>3, <2>1, <2>2, <2>3, SameRefl DEF Shape
<1> QED
  BY <1>2, <1>3, <1>4, <1>5, PutKeeps

(* The next message of the server that is an answer.                       *)
LEMMA ReplyFacts ==
  ASSUME Shape, NEW d \in Devices, Received(d, "reply"), NEW q, q = down[d],
         NEW m, m = Head(q)
  PROVE  q \in Seq(Notices) /\ q # << >> /\ m \in Answers /\ Tail(q) \in Seq(Notices)
<1>1. q \in Seq(Notices) /\ q # << >> /\ m.type = "reply"
  BY ShapeFacts DEF Received
<1>2. m \in Notices /\ Tail(q) \in Seq(Notices)
  BY <1>1, ElementsTail
<1>3. m \in Answers
  BY <1>1, <1>2 DEF Notices
<1> QED
  BY <1>1, <1>2, <1>3

(* An answer is kept back until the listens are acknowledged.              *)
LEMMA HoldReplyKeeps ==
  ASSUME IInv, NEW d \in Devices, HoldReply(d)
  PROVE  IInv'
<1>1. Shape /\ \A e \in Devices : PhoneOf(e)
  BY DEF IInv
<1>2. /\ txn' = txn /\ queue' = queue /\ writes' = writes /\ written' = written
      /\ todo' = todo /\ applied' = applied /\ outbox' = outbox
      /\ post' = post /\ watch' = watch /\ cache' = cache /\ feed' = feed /\ online' = online
  BY DEF HoldReply, client, bounds, history
<1>3. PICK s, l, q, m, u, h :
        /\ s = State(d) /\ l = LineOf(d) /\ q = down[d] /\ m = Head(q)
        /\ u = Without(unanswered[d], {m.what}) /\ h = Append(held[d], m)
  OBVIOUS
<1>4. q \in Seq(Notices) /\ q # << >> /\ m \in Answers /\ Tail(q) \in Seq(Notices)
  BY <1>1, <1>3, ReplyFacts DEF HoldReply
<1>5. /\ s \in Phone /\ l \in Line /\ Sound(d, s, l, applied, written) /\ Sent(s)
      /\ s.txn = txn /\ s.queue = queue[d] /\ s.writes = writes[d]
      /\ s.unanswered = unanswered[d] /\ s.puts = << >>
      /\ l.ob = outbox[d] /\ l.dn = q /\ l.hd = held[d] /\ l.td = todo[d]
      /\ Asks(s, l) = outbox[d] /\ outbox[d] \in Seq(Requests)
      /\ held[d] \in Seq(Answers) /\ todo[d] \in Seq(Answers)
  BY <1>1, <1>3, ShapeFacts DEF State, LineOf, PhoneOf
<1>6. u \in Seq(Seq(Nat))
  <2>1. unanswered[d] \in Seq(Seq(Nat))
    BY <1>1 DEF Shape
  <2> QED
    BY <1>3, <2>1, ElementsWithout
<1>7. h \in Seq(Answers)
  BY <1>3, <1>4, <1>5, AppendProperties
<1>8. PICK r, k :
        /\ r = [queue |-> s.queue, writes |-> s.writes, txn |-> s.txn, puts |-> s.puts,
                unanswered |-> u]
        /\ k = [ob |-> l.ob, dn |-> Tail(q), hd |-> h, td |-> l.td]
  OBVIOUS
<1>9. /\ r.queue = s.queue /\ r.writes = s.writes /\ r.txn = s.txn /\ r.puts = s.puts
      /\ r.unanswered = u
      /\ k.ob = l.ob /\ k.dn = Tail(q) /\ k.hd = h /\ k.td = l.td
  BY <1>8
<1>10. k \in Line
  BY <1>4, <1>5, <1>7, <1>8 DEF Line
<1>11. Sound(d, r, k, applied, written)
  <2>1. r.unanswered = Without(s.unanswered, {m.what}) /\ k.hd = Append(l.hd, m)
    BY <1>3, <1>5, <1>9
  <2>2. l.dn # << >> /\ m = Head(l.dn) /\ k.dn = Tail(l.dn)
    BY <1>3, <1>4, <1>5, <1>9
  <2> QED
    BY <1>4, <1>5, <1>9, <1>10, <2>1, <2>2, HoldSound
<1>12. Sent(r)
  BY <1>5, <1>9 DEF Sent
<1>13. /\ down' = [down EXCEPT ![d] = Tail(q)] /\ held' = [held EXCEPT ![d] = h]
       /\ unanswered' = [unanswered EXCEPT ![d] = u]
  BY <1>3 DEF HoldReply, Take
<1>14. /\ down' \in [Devices -> Seq(Notices)] /\ down'[d] = Tail(q)
       /\ \A e \in Devices : e # d => down'[e] = down[e]
  BY <1>1, <1>4, <1>13 DEF Shape
<1>15. /\ held' \in [Devices -> Seq(Answers)] /\ held'[d] = h
       /\ \A e \in Devices : e # d => held'[e] = held[e]
  BY <1>1, <1>7, <1>13 DEF Shape
<1>16. /\ unanswered' \in [Devices -> Seq(Seq(Nat))] /\ unanswered'[d] = u
       /\ \A e \in Devices : e # d => unanswered'[e] = unanswered[e]
  BY <1>1, <1>6, <1>13 DEF Shape
<1>17. /\ post' \in Node /\ watch' \in [Devices -> BOOLEAN] /\ cache' \in [Devices -> Node]
       /\ feed' \in [Devices -> {"idle", "sent", "answered"}]
       /\ online' \in [Devices -> BOOLEAN] /\ outbox' \in [Devices -> Seq(Requests)]
       /\ todo' \in [Devices -> Seq(Answers)]
  BY <1>1, <1>2 DEF Shape
<1>18. Asks(r, k) = outbox[d]
  BY <1>5, <1>9 DEF Asks
<1>19. /\ Same(Asks(r, k), outbox'[d]) /\ Same(k.dn, down'[d]) /\ Same(k.hd, held'[d])
       /\ Same(k.td, todo'[d])
  BY <1>2, <1>5, <1>9, <1>14, <1>15, <1>18, SameRefl
<1>20. \A e \in Devices : e # d => /\ unanswered'[e] = unanswered[e] /\ outbox'[e] = outbox[e]
           /\ held'[e] = held[e] /\ todo'[e] = todo[e] /\ Same(down[e], down'[e])
  BY <1>2, <1>14, <1>15, <1>16, SameRefl
<1>21. Sound(d, r, k, applied', written)
  BY <1>2, <1>11
<1>22. /\ r.txn = txn /\ r.queue = queue[d] /\ r.writes = writes[d]
       /\ r.unanswered = unanswered'[d]
  BY <1>5, <1>9, <1>16
<1> QED
  BY <1>1, <1>2, <1>12, <1>14, <1>15, <1>16, <1>17, <1>19, <1>20, <1>21, <1>22, QuietKeeps

(* The last listen is acknowledged, or not yet.                            *)
LEMMA AcknowledgeFacts ==
  ASSUME Shape, NEW d \in Devices, Free(d), Acknowledge(d), NEW s, NEW ap, NEW w,
         NEW l \in Line, l.hd = held[d], l.td = todo[d], Sound(d, s, l, ap, w)
  PROVE  /\ held' \in [Devices -> Seq(Answers)] /\ todo' \in [Devices -> Seq(Answers)]
         /\ \A e \in Devices : e # d => held'[e] = held[e] /\ todo'[e] = todo[e]
         /\ \E k \in Line : /\ k.ob = l.ob /\ k.dn = l.dn /\ k.hd = held'[d] /\ k.td = todo'[d]
                            /\ Sound(d, s, k, ap, w)
<1>1. held \in [Devices -> Seq(Answers)] /\ todo \in [Devices -> Seq(Answers)]
      /\ todo[d] = << >> /\ << >> \in Seq(Answers)
  BY EmptySeq DEF Shape, Free
<1>2. CASE Unacked(outbox[d], Tail(down[d]))
  <2>1. held' = held /\ todo' = todo
    BY <1>2 DEF Acknowledge
  <2> QED
    BY <1>1, <2>1
<1>3. CASE ~Unacked(outbox[d], Tail(down[d]))
  <2>1. /\ todo' = [todo EXCEPT ![d] = held[d]]
        /\ held' = [held EXCEPT ![d] = << >>]
    BY <1>3 DEF Acknowledge
  <2>2. /\ held' \in [Devices -> Seq(Answers)] /\ held'[d] = << >>
        /\ todo' \in [Devices -> Seq(Answers)] /\ todo'[d] = held[d]
        /\ \A e \in Devices : e # d => held'[e] = held[e] /\ todo'[e] = todo[e]
    BY <1>1, <2>1
  <2>3. PICK k : k = [ob |-> l.ob, dn |-> l.dn, hd |-> << >>, td |-> l.hd]
    OBVIOUS
  <2>4. k.ob = l.ob /\ k.dn = l.dn /\ k.hd = << >> /\ k.td = l.hd /\ k \in Line
    BY <1>1, <2>3 DEF Line
  <2>5. Sound(d, s, k, ap, w)
    BY <1>1, <2>4, ReleaseSound
  <2> QED
    BY <2>2, <2>4, <2>5
<1> QED
  BY <1>2, <1>3

(* The next message of the server that is a value.                         *)
LEMMA ValueFacts ==
  ASSUME Shape, NEW d \in Devices, Received(d, "value"), NEW q, q = down[d],
         NEW m, m = Head(q)
  PROVE  /\ q \in Seq(Notices) /\ q # << >> /\ m.what \in Kinds /\ m.node \in Node
         /\ Tail(q) \in Seq(Notices) /\ Same(q, Tail(q))
<1>1. q \in Seq(Notices) /\ q # << >> /\ m.type = "value"
  BY ShapeFacts DEF Received
<1>2. m \in Notices
  BY <1>1, ElementsTail
<1>3. m.what \in Kinds /\ m.node \in Node
  BY <1>1, <1>2 DEF Notices, Answers
<1>4. Carried(m) = {}
  BY <1>1 DEF Carried
<1>5. PICK o : o = Tail(q)
  OBVIOUS
<1>6. o \in Seq(Notices) /\ Same(q, o)
  BY <1>1, <1>4, <1>5, SameTail
<1> QED
  BY <1>1, <1>3, <1>5, <1>6

(* A listen is answered.                                                   *)
LEMMA DeliverValueKeeps ==
  ASSUME IInv, NEW d \in Devices, DeliverValue(d)
  PROVE  IInv'
<1>1. Shape /\ \A e \in Devices : PhoneOf(e)
  BY DEF IInv
<1>2. /\ txn' = txn /\ queue' = queue /\ writes' = writes /\ written' = written
      /\ unanswered' = unanswered /\ applied' = applied /\ outbox' = outbox
      /\ post' = post /\ watch' = watch /\ feed' = feed /\ online' = online
  BY DEF DeliverValue, bounds, history
<1>3. PICK s, l, q, m :
        s = State(d) /\ l = LineOf(d) /\ q = down[d] /\ m = Head(q)
  OBVIOUS
<1>4. /\ m.what \in Kinds /\ m.node \in Node
      /\ Tail(q) \in Seq(Notices) /\ Same(q, Tail(q))
  BY <1>1, <1>3, ValueFacts DEF DeliverValue
<1>5. /\ l \in Line /\ Sound(d, s, l, applied, written) /\ Sent(s)
      /\ s.txn = txn /\ s.queue = queue[d] /\ s.writes = writes[d]
      /\ s.unanswered = unanswered[d] /\ s.puts = << >>
      /\ l.ob = outbox[d] /\ l.dn = q /\ l.hd = held[d] /\ l.td = todo[d]
      /\ Asks(s, l) = outbox[d]
  BY <1>1, <1>3, ShapeFacts DEF State, LineOf, PhoneOf
<1>6. Free(d) /\ Acknowledge(d)
  BY DEF DeliverValue, Received
<1>7. /\ held' \in [Devices -> Seq(Answers)] /\ todo' \in [Devices -> Seq(Answers)]
      /\ \A e \in Devices : e # d => held'[e] = held[e] /\ todo'[e] = todo[e]
      /\ \E k \in Line : /\ k.ob = l.ob /\ k.dn = l.dn /\ k.hd = held'[d] /\ k.td = todo'[d]
                         /\ Sound(d, s, k, applied, written)
  BY <1>1, <1>5, <1>6, AcknowledgeFacts
<1>8. PICK k \in Line : /\ k.ob = l.ob /\ k.dn = l.dn /\ k.hd = held'[d] /\ k.td = todo'[d]
                        /\ Sound(d, s, k, applied, written)
  BY <1>7
<1>9. down' = [down EXCEPT ![d] = Tail(q)]
  BY <1>3 DEF DeliverValue, Take
<1>10. /\ down' \in [Devices -> Seq(Notices)] /\ down'[d] = Tail(q)
       /\ \A e \in Devices : e # d => down'[e] = down[e]
  BY <1>1, <1>4, <1>9 DEF Shape
<1>11. cache' \in [Devices -> Node]
  <2>1. \/ cache' = cache
        \/ cache' = [cache EXCEPT ![d] = IF Watched(d) THEN m.node ELSE cache[d]]
    BY <1>3 DEF DeliverValue, Learn
  <2> QED
    BY <1>1, <1>4, <2>1 DEF Shape
<1>12. /\ post' \in Node /\ watch' \in [Devices -> BOOLEAN]
       /\ feed' \in [Devices -> {"idle", "sent", "answered"}]
       /\ online' \in [Devices -> BOOLEAN] /\ outbox' \in [Devices -> Seq(Requests)]
       /\ unanswered' \in [Devices -> Seq(Seq(Nat))]
  BY <1>1, <1>2 DEF Shape
<1>13. Asks(s, k) = outbox[d]
  BY <1>5, <1>8 DEF Asks
<1>14. /\ Same(Asks(s, k), outbox'[d]) /\ Same(k.dn, down'[d]) /\ Same(k.hd, held'[d])
       /\ Same(k.td, todo'[d])
  BY <1>2, <1>4, <1>5, <1>8, <1>10, <1>13, SameRefl
<1>15. \A e \in Devices : e # d => /\ unanswered'[e] = unanswered[e] /\ outbox'[e] = outbox[e]
           /\ held'[e] = held[e] /\ todo'[e] = todo[e] /\ Same(down[e], down'[e])
  BY <1>2, <1>7, <1>10, SameRefl
<1>16. Sound(d, s, k, applied', written) /\ s.unanswered = unanswered'[d]
  BY <1>2, <1>5, <1>8
<1> QED
  BY <1>1, <1>2, <1>5, <1>7, <1>10, <1>11, <1>12, <1>14, <1>15, <1>16, QuietKeeps

(* The connection is lost.                                                 *)
LEMMA DisconnectKeeps ==
  ASSUME IInv, NEW d \in Devices, Disconnect(d)
  PROVE  IInv'
<1>1. Shape /\ \A e \in Devices : PhoneOf(e)
  BY DEF IInv
<1>2. /\ txn' = txn /\ queue' = queue /\ writes' = writes /\ written' = written
      /\ applied' = applied /\ held' = held /\ cache' = cache
      /\ post' = post /\ feed' = feed
  BY DEF Disconnect, client, history
<1>3. PICK s, l, x, o, g :
        /\ s = State(d) /\ l = LineOf(d) /\ x = Kept(d)
        /\ o = [i \in 1..Len(x) |-> [type |-> "set", comment |-> x[i]]]
        /\ g = Lost(unanswered[d])
  OBVIOUS
<1>4. /\ s \in Phone /\ l \in Line /\ Sound(d, s, l, applied, written) /\ Sent(s)
      /\ s.txn = txn /\ s.queue = queue[d] /\ s.writes = writes[d]
      /\ s.unanswered = unanswered[d] /\ s.puts = << >>
      /\ l.ob = outbox[d] /\ l.dn = down[d] /\ l.hd = held[d] /\ l.td = todo[d]
  BY <1>1, <1>3, ShapeFacts DEF State, LineOf, PhoneOf
<1>5. x \in Seq(Nat \cup Comments) /\ Elements(x) \subseteq Comments
  <2>1. PICK S, v, keep : /\ S = Nat \cup Comments /\ v = writes[d]
          /\ keep = {c \in Comments : \A i \in 1..Len(held[d]) : held[d][i].what # <<c>>}
    OBVIOUS
  <2>2. v \in Seq(S) /\ x = Only(v, keep)
    BY <1>1, <1>3, <2>1 DEF Shape, Kept
  <2>3. x \in Seq(S) /\ Elements(x) = Elements(v) \cap keep
    BY <2>2, ElementsOnly
  <2> QED
    BY <2>1, <2>3
<1>6. o \in Seq(Requests) /\ \A m \in Elements(o) : Harmless(m)
  <2>1. Len(x) \in Nat /\ \A i \in 1..Len(x) : x[i] \in Comments
    BY <1>5, LenProperties DEF Elements
  <2>2. ASSUME NEW i \in 1..Len(x)
        PROVE  o[i] \in Requests /\ Harmless(o[i])
    <3>1. o[i] = [type |-> "set", comment |-> x[i]]
      BY <1>3
    <3>2. PICK c \in Comments : c = x[i]
      BY <2>1
    <3> QED
      BY <3>1, <3>2, RequestFacts
  <2>3. o = [i \in 1..Len(x) |-> o[i]]
    BY <1>3
  <2>4. o \in Seq(Requests) /\ Len(o) = Len(x)
    BY <2>1, <2>2, <2>3, SeqOf
  <2> QED
    BY <2>2, <2>4 DEF Elements
<1>7. g \in Seq(Answers)
  <2>1. 0 \notin Comments
    BY NoComment
  <2>2. unanswered[d] \in Seq(Seq(Nat))
    BY <1>1 DEF Shape
  <2> QED
    BY <1>3, <2>1, <2>2, LostFacts
<1>8. /\ outbox' = [outbox EXCEPT ![d] = o] /\ todo' = [todo EXCEPT ![d] = g]
      /\ down' = [down EXCEPT ![d] = << >>] /\ unanswered' = [unanswered EXCEPT ![d] = << >>]
      /\ watch' = [watch EXCEPT ![d] = FALSE] /\ online' = [online EXCEPT ![d] = FALSE]
      /\ todo[d] = << >>
  BY <1>3 DEF Disconnect, Free, Lost
<1>9. << >> \in Seq(Notices) /\ << >> \in Seq(Seq(Nat))
  BY EmptySeq
<1>10. /\ outbox' \in [Devices -> Seq(Requests)] /\ outbox'[d] = o
       /\ \A e \in Devices : e # d => outbox'[e] = outbox[e]
  BY <1>1, <1>6, <1>8 DEF Shape
<1>11. /\ todo' \in [Devices -> Seq(Answers)] /\ todo'[d] = g
       /\ \A e \in Devices : e # d => todo'[e] = todo[e]
  BY <1>1, <1>7, <1>8 DEF Shape
<1>12. /\ down' \in [Devices -> Seq(Notices)] /\ down'[d] = << >>
       /\ \A e \in Devices : e # d => down'[e] = down[e]
  BY <1>1, <1>8, <1>9 DEF Shape
<1>13. /\ unanswered' \in [Devices -> Seq(Seq(Nat))] /\ unanswered'[d] = << >>
       /\ \A e \in Devices : e # d => unanswered'[e] = unanswered[e]
  BY <1>1, <1>8, <1>9 DEF Shape
<1>14. PICK r, k :
         /\ r = [queue |-> s.queue, writes |-> s.writes, txn |-> s.txn, puts |-> << >>,
                 unanswered |-> << >>]
         /\ k = [ob |-> o, dn |-> << >>, hd |-> l.hd, td |-> g]
  OBVIOUS
<1>15. /\ r.queue = s.queue /\ r.writes = s.writes /\ r.txn = s.txn /\ r.puts = << >>
       /\ r.unanswered = << >>
       /\ k.ob = o /\ k.dn = << >> /\ k.hd = l.hd /\ k.td = g
  BY <1>14
<1>16. k \in Line
  BY <1>4, <1>6, <1>7, <1>9, <1>14 DEF Line
<1>17. Sound(d, r, k, applied, written)
  <2>1. l.td = << >> /\ k.td = Lost(s.unanswered)
    BY <1>3, <1>4, <1>8, <1>15
  <2>2. \A m \in Elements(k.ob) : Harmless(m)
    BY <1>6, <1>15
  <2> QED
    BY <1>4, <1>15, <1>16, <2>1, <2>2, CutSound
<1>18. Sent(r)
  BY <1>4, <1>15 DEF Sent
<1>19. /\ post' \in Node /\ watch' \in [Devices -> BOOLEAN] /\ cache' \in [Devices -> Node]
       /\ feed' \in [Devices -> {"idle", "sent", "answered"}]
       /\ online' \in [Devices -> BOOLEAN] /\ held' \in [Devices -> Seq(Answers)]
  BY <1>1, <1>2, <1>8 DEF Shape
<1>20. Asks(r, k) = o
  BY <1>6, <1>15, ConcatEmptySeq DEF Asks
<1>21. /\ Same(Asks(r, k), outbox'[d]) /\ Same(k.dn, down'[d]) /\ Same(k.hd, held'[d])
       /\ Same(k.td, todo'[d])
  BY <1>2, <1>4, <1>10, <1>11, <1>12, <1>15, <1>20, SameRefl
<1>22. \A e \in Devices : e # d => /\ unanswered'[e] = unanswered[e] /\ outbox'[e] = outbox[e]
           /\ held'[e] = held[e] /\ todo'[e] = todo[e] /\ Same(down[e], down'[e])
  BY <1>2, <1>10, <1>11, <1>12, <1>13, SameRefl
<1>23. Sound(d, r, k, applied', written)
  BY <1>2, <1>17
<1>24. /\ r.txn = txn /\ r.queue = queue[d] /\ r.writes = writes[d]
       /\ r.unanswered = unanswered'[d]
  BY <1>4, <1>13, <1>15
<1> QED
  BY <1>1, <1>2, <1>10, <1>11, <1>12, <1>13, <1>18, <1>19, <1>21, <1>22, <1>23, <1>24,
     QuietKeeps

(* The handlers that run transactions again.                               *)

(* The feed arrives: i is the phone that has taken note of it, k the line  *)
(* without it.                                                             *)
FeedHandled(d, m, i, k, r) ==
  /\ down[d] # << >> /\ m = Head(down[d]) /\ m.type = "value" /\ m.what = "feed"
  /\ m.node \in Node
  /\ i = [State(d) EXCEPT !.cache = m.node, !.feed = "answered"] /\ i \in Phone
  /\ k.ob = outbox[d] /\ k.dn = Tail(down[d]) /\ k.dn = down'[d]
  /\ k.hd = held'[d] /\ k.td = todo'[d] /\ Sound(d, i, k, applied, written)
  /\ Resent(i, r) /\ r \in Phone /\ Sound(d, r, k, applied, written) /\ Sent(r)
  /\ Commit(d, r) /\ Apart(d, txn, r.txn) /\ Len(r.txn) = Len(txn)

(* What that handler does.                                                 *)
LEMMA DeliverFeedDoes ==
  ASSUME IInv, NEW d \in Devices, DeliverFeed(d)
  PROVE  /\ \E k \in Line : \E m, i, r : FeedHandled(d, m, i, k, r)
         /\ held' \in [Devices -> Seq(Answers)] /\ todo' \in [Devices -> Seq(Answers)]
         /\ down' \in [Devices -> Seq(Notices)]
         /\ \A e \in Devices : e # d =>
              down'[e] = down[e] /\ held'[e] = held[e] /\ todo'[e] = todo[e]
<1>1. Shape /\ \A e \in Devices : PhoneOf(e)
  BY DEF IInv
<1>2. written' = written /\ applied' = applied /\ post' = post /\ watch' = watch
      /\ online' = online
  BY DEF DeliverFeed, bounds, history
<1>3. PICK s, l, q, m, i :
        /\ s = State(d) /\ l = LineOf(d) /\ q = down[d] /\ m = Head(q)
        /\ i = [s EXCEPT !.cache = m.node, !.feed = "answered"]
  OBVIOUS
<1>4. /\ m.what \in Kinds /\ m.node \in Node /\ q \in Seq(Notices)
      /\ Tail(q) \in Seq(Notices) /\ Same(q, Tail(q))
  BY <1>1, <1>3, ValueFacts DEF DeliverFeed
<1>5. /\ s \in Phone /\ l \in Line /\ Sound(d, s, l, applied, written) /\ s.txn = txn
      /\ l.ob = outbox[d] /\ l.dn = q /\ l.hd = held[d] /\ l.td = todo[d]
  BY <1>1, <1>3, ShapeFacts DEF State, LineOf, PhoneOf
<1>6. /\ i \in Phone /\ i.queue = s.queue /\ i.writes = s.writes /\ i.txn = s.txn
      /\ i.unanswered = s.unanswered /\ i.puts = s.puts
  BY <1>3, <1>4, <1>5 DEF Phone
<1>7. Free(d) /\ Acknowledge(d)
  BY DEF DeliverFeed, Received
<1>8. PICK n : n = [ob |-> l.ob, dn |-> Tail(q), hd |-> l.hd, td |-> l.td]
  OBVIOUS
<1>9. n \in Line /\ n.ob = l.ob /\ n.dn = Tail(q) /\ n.hd = l.hd /\ n.td = l.td
  BY <1>4, <1>5, <1>8 DEF Line
<1>10. Sound(d, i, n, applied, written)
  <2>1. SameLine(s, l, i, n)
    <3>1. Asks(i, n) = Asks(s, l)
      BY <1>6, <1>9 DEF Asks
    <3> QED
      BY <1>4, <1>5, <1>9, <3>1, SameRefl DEF SameLine
  <2>2. Listed(d, i, written)
    BY <1>5, <1>6 DEF Sound, Listed
  <2>3. PICK ap, w : ap = applied /\ w = written
    OBVIOUS
  <2>4. \A t \in Of(s.txn, d) : Alike(i.txn[t], s.txn[t]) /\ (t \in ap <=> t \in ap)
    BY <1>6 DEF Alike
  <2>5. Sound(d, i, n, ap, w)
    BY <1>5, <1>6, <2>1, <2>2, <2>3, <2>4, SameSound
  <2> QED
    BY <2>3, <2>5
<1>11. /\ held' \in [Devices -> Seq(Answers)] /\ todo' \in [Devices -> Seq(Answers)]
       /\ \A e \in Devices : e # d => held'[e] = held[e] /\ todo'[e] = todo[e]
       /\ \E k \in Line : /\ k.ob = n.ob /\ k.dn = n.dn /\ k.hd = held'[d] /\ k.td = todo'[d]
                          /\ Sound(d, i, k, applied, written)
  <2>1. n.hd = held[d] /\ n.td = todo[d]
    BY <1>5, <1>9
  <2> QED
    BY ZenonT(30), <1>1, <1>7, <1>9, <1>10, <2>1, AcknowledgeFacts
<1>12. PICK k \in Line : /\ k.ob = n.ob /\ k.dn = n.dn /\ k.hd = held'[d] /\ k.td = todo'[d]
                         /\ Sound(d, i, k, applied, written)
  BY <1>11
<1>13. PICK a, r : a = Rerun(i) /\ r = SendReady(a) /\ Commit(d, r)
  BY <1>3 DEF DeliverFeed, CommitRerun
<1>14. /\ r \in Phone /\ Sound(d, r, k, applied, written) /\ Sent(r)
       /\ Apart(d, i.txn, r.txn) /\ Len(r.txn) = Len(i.txn) /\ Resent(i, r)
  <2>1. PICK ap, w : ap = applied /\ w = written
    OBVIOUS
  <2>2. Sound(d, i, k, ap, w)
    BY <1>12, <2>1
  <2>3. i \in Phone /\ k \in Line
    BY <1>6
  <2>4. Resent(i, r)
    BY <1>13 DEF Resent
  <2>5. /\ r \in Phone /\ Sound(d, r, k, ap, w) /\ Sent(r)
        /\ Apart(d, i.txn, r.txn) /\ Len(r.txn) = Len(i.txn)
    BY <2>2, <2>3, <2>4, ResentKeeps
  <2> QED
    BY <2>1, <2>4, <2>5
<1>15. down' = [down EXCEPT ![d] = Tail(q)]
  BY <1>3 DEF DeliverFeed, Take
<1>16. /\ down' \in [Devices -> Seq(Notices)] /\ down'[d] = Tail(q)
       /\ \A e \in Devices : e # d => down'[e] = down[e]
  BY <1>1, <1>4, <1>15 DEF Shape
<1>17. down[d] # << >> /\ m.type = "value" /\ m.what = "feed"
  BY <1>3 DEF DeliverFeed, Received
<1>18. Apart(d, txn, r.txn) /\ Len(r.txn) = Len(txn)
  BY <1>5, <1>6, <1>14
<1>19. FeedHandled(d, m, i, k, r)
  BY <1>3, <1>4, <1>5, <1>6, <1>9, <1>12, <1>13, <1>14, <1>16, <1>17, <1>18 DEF FeedHandled
<1> QED
  BY <1>11, <1>12, <1>16, <1>19

(* It keeps the invariant.                                                 *)
LEMMA DeliverFeedKeeps ==
  ASSUME IInv, NEW d \in Devices, DeliverFeed(d)
  PROVE  IInv'
<1>1. Shape /\ \A e \in Devices : PhoneOf(e)
  BY DEF IInv
<1>2. written' = written /\ applied' = applied /\ post' = post /\ watch' = watch
      /\ online' = online
  BY DEF DeliverFeed, bounds, history
<1>3. /\ \E k \in Line : \E m, i, r : FeedHandled(d, m, i, k, r)
      /\ held' \in [Devices -> Seq(Answers)] /\ todo' \in [Devices -> Seq(Answers)]
      /\ down' \in [Devices -> Seq(Notices)]
      /\ \A e \in Devices : e # d =>
           down'[e] = down[e] /\ held'[e] = held[e] /\ todo'[e] = todo[e]
  BY DeliverFeedDoes
<1>4. PICK k \in Line : \E m, i, r : FeedHandled(d, m, i, k, r)
  BY <1>3
<1>5. PICK m, i, r : FeedHandled(d, m, i, k, r)
  BY <1>4
<1>6. /\ r \in Phone /\ Commit(d, r) /\ Sent(r) /\ Apart(d, txn, r.txn)
      /\ Len(r.txn) = Len(txn) /\ Sound(d, r, k, applied', written')
      /\ k.ob = outbox[d] /\ down'[d] = k.dn /\ held'[d] = k.hd /\ todo'[d] = k.td
  BY <1>2, <1>5 DEF FeedHandled
<1>7. written \subseteq written' /\ written' \subseteq Comments
  BY <1>1, <1>2 DEF Shape
<1> QED
  BY <1>1, <1>2, <1>3, <1>6, <1>7, HandlerKeeps

(* A transaction is started by the app: x is the t-th, b the phone that    *)
(* has it, k the line with the listen for it, if it needs one.             *)
StartDone(d, t, x, b, say, k, r) ==
  /\ t = Len(txn) + 1 /\ x \in Transactions
  /\ x.dev = d /\ x.status = "run" /\ x.retries = 0 /\ x.told = "none"
  /\ x.out = Plus(Latest(State(d), {}), 1)
  /\ say = IF UnderWay(txn, d) = {} /\ feed[d] = "idle"
           THEN Say(d, Listen("post")) ELSE << >>
  /\ b \in Phone /\ b.txn = Append(txn, x) /\ b.queue = Append(queue[d], t)
  /\ b.writes = Append(writes[d], t) /\ b.cache = cache[d] /\ b.feed = feed[d]
  /\ b.puts = << >>
  /\ k.ob = outbox[d] \o say /\ say \in Seq(Requests)
  /\ k.dn = down[d] /\ k.hd = held[d] /\ k.td = todo[d]
  /\ Sound(d, b, k, applied, written) /\ Ready(b)
  /\ r = SendReady(b) /\ r \in Phone /\ Sound(d, r, k, applied, written) /\ Sent(r)
  /\ Apart(d, txn, txn') /\ Len(txn') = Len(txn) + 1
  /\ txn' = r.txn
  /\ queue' = [queue EXCEPT ![d] = r.queue]
  /\ writes' = [writes EXCEPT ![d] = r.writes]
  /\ outbox' = [outbox EXCEPT ![d] = k.ob \o r.puts]
  /\ unanswered' = [unanswered EXCEPT ![d] = r.unanswered]

(* What the start of a transaction does.                                   *)
LEMMA StartDoes ==
  ASSUME IInv, NEW d \in Devices, Start(d)
  PROVE  \E k \in Line : \E t, x, b, say, r : StartDone(d, t, x, b, say, k, r)
<1>1. Shape /\ \A e \in Devices : PhoneOf(e)
  BY DEF IInv
<1>2. /\ written' = written /\ applied' = applied /\ post' = post /\ watch' = watch
      /\ online' = online /\ cache' = cache /\ feed' = feed
      /\ down' = down /\ held' = held /\ todo' = todo
  BY DEF Start, bounds
<1>3. PICK s, l, t, x, b, say, r :
        /\ s = State(d) /\ l = LineOf(d) /\ t = Len(txn) + 1
        /\ x = [dev |-> d, status |-> "run", retries |-> 0,
                out |-> Plus(Latest(s, {}), 1),
                why |-> "none", told |-> "none", sets |-> 0]
        /\ b = [s EXCEPT !.txn = Append(@, x), !.queue = Append(@, t),
                         !.writes = Append(@, t)]
        /\ say = IF UnderWay(txn, d) = {} /\ feed[d] = "idle"
                 THEN Say(d, Listen("post")) ELSE << >>
        /\ r = SendReady(b)
  OBVIOUS
<1>4. /\ txn' = r.txn
      /\ queue' = [queue EXCEPT ![d] = r.queue]
      /\ writes' = [writes EXCEPT ![d] = r.writes]
      /\ outbox' = [outbox EXCEPT ![d] = @ \o say \o r.puts]
      /\ unanswered' = [unanswered EXCEPT ![d] = r.unanswered]
  BY <1>3 DEF Start
<1>5. /\ s \in Phone /\ l \in Line /\ Sound(d, s, l, applied, written) /\ Sent(s)
      /\ s.txn = txn /\ s.queue = queue[d] /\ s.puts = << >>
      /\ s.writes = writes[d] /\ s.cache = cache[d] /\ s.feed = feed[d]
      /\ l.ob = outbox[d] /\ l.dn = down[d] /\ l.hd = held[d] /\ l.td = todo[d]
      /\ outbox[d] \in Seq(Requests) /\ Asks(s, l) = outbox[d]
  BY <1>1, <1>3, ShapeFacts DEF State, LineOf, PhoneOf
<1>6. say \in Seq(Requests) /\ \A m \in Elements(say) : Harmless(m)
  <2>1. PICK m : m = Listen("post")
    OBVIOUS
  <2>2. m \in Requests /\ Harmless(m)
    BY <2>1, RequestFacts DEF Kinds
  <2>3. Say(d, m) \in Seq(Requests) /\ \A y \in Elements(Say(d, m)) : Harmless(y)
    BY <2>2, SayFacts
  <2>4. << >> \in Seq(Requests) /\ Elements(<< >>) = {}
    BY EmptySeq, ElementsFacts
  <2> QED
    BY <1>3, <2>1, <2>3, <2>4
<1>7. PICK o : o = outbox[d] \o say
  OBVIOUS
<1>8. o \in Seq(Requests) /\ Same(outbox[d], o)
  <2>1. PICK q, p : q = outbox[d] /\ p = say \o q
    OBVIOUS
  <2>2. o \in Seq(Requests) /\ Same(q, o)
    BY <1>5, <1>6, <1>7, <2>1, SameConcat
  <2> QED
    BY <2>1, <2>2
<1>9. PICK k : k = [ob |-> o, dn |-> l.dn, hd |-> l.hd, td |-> l.td]
  OBVIOUS
<1>10. k \in Line /\ k.ob = o /\ k.dn = l.dn /\ k.hd = l.hd /\ k.td = l.td
  BY <1>5, <1>8, <1>9 DEF Line
<1>11. PICK ap, w : ap = applied /\ w = written
  OBVIOUS
<1>12. Sound(d, s, k, ap, w)
  <2>1. Asks(s, k) = o
    BY <1>5, <1>8, <1>10, ConcatEmptySeq DEF Asks
  <2>2. SameLine(s, l, s, k)
    BY <1>5, <1>8, <1>10, <2>1, SameRefl DEF SameLine
  <2>3. Listed(d, s, w) /\ Sound(d, s, l, ap, w)
    BY <1>5, <1>11 DEF Sound
  <2>4. \A y \in Of(s.txn, d) : Alike(s.txn[y], s.txn[y]) /\ (y \in ap <=> y \in ap)
    BY DEF Alike
  <2> QED
    BY <2>2, <2>3, <2>4, SameSound
<1>13. t \in Nat /\ t = Len(s.txn) + 1
  BY <1>3, <1>5 DEF Phone
<1>14. x \in Transactions
  <2>1. PICK n : n = Latest(s, {})
    OBVIOUS
  <2>2. Elements(s.writes) \ Comments \subseteq 1..Len(s.txn)
    BY <1>5 DEF Sound, Listed, UnderWay
  <2>3. n \in Node
    BY <1>5, <2>1, <2>2, LatestType
  <2>4. Plus(n, 1) \in Node
    BY <2>3, PlusType
  <2>5. 0 \in 0..MaxRetries
    BY RetriesAssumption
  <2> QED
    BY <1>3, <2>1, <2>4, <2>5 DEF Transactions, Statuses, Outcomes
<1>15. x.dev = d /\ x.status = "run" /\ x.retries = 0 /\ x.told = "none"
  BY <1>3
<1>16. /\ Append(s.txn, x) \in Seq(Transactions) /\ Append(s.queue, t) \in Seq(Nat)
       /\ Append(s.writes, t) \in Seq(Nat \cup Comments)
  <2>1. /\ s.txn \in Seq(Transactions) /\ s.queue \in Seq(Nat)
        /\ s.writes \in Seq(Nat \cup Comments)
    BY <1>5 DEF Phone
  <2> QED
    BY <1>13, <1>14, <2>1, AppendProperties
<1>17. /\ b \in Phone /\ b.feed = s.feed /\ b.unanswered = s.unanswered /\ b.puts = s.puts
       /\ b.txn = Append(s.txn, x) /\ b.queue = Append(s.queue, t)
       /\ b.writes = Append(s.writes, t) /\ b.cache = s.cache
  <2>1. PICK y, q, v : y = Append(s.txn, x) /\ q = Append(s.queue, t)
                       /\ v = Append(s.writes, t)
    OBVIOUS
  <2>2. b = [s EXCEPT !.txn = y, !.queue = q, !.writes = v]
    BY <1>3, <2>1
  <2>3. s \in Phone /\ y \in Seq(Transactions) /\ q \in Seq(Nat)
        /\ v \in Seq(Nat \cup Comments)
    BY <1>5, <1>16, <2>1
  <2>4. /\ b \in Phone /\ b.feed = s.feed /\ b.unanswered = s.unanswered
        /\ b.puts = s.puts /\ b.txn = y /\ b.queue = q /\ b.writes = v
        /\ b.cache = s.cache
    BY <2>2, <2>3 DEF Phone
  <2> QED
    BY <2>1, <2>4
<1>18. Begun(d, s, b)
  BY <1>13, <1>14, <1>15, <1>17 DEF Begun
<1>19. ap \subseteq 1..Len(s.txn)
  BY <1>1, <1>5, <1>11 DEF Shape, Started
<1>20. Ready(s)
  BY <1>5, <1>12, SentReady
<1>21. /\ Sound(d, b, k, ap, w) /\ Ready(b) /\ Apart(d, s.txn, b.txn)
       /\ Len(b.txn) = Len(s.txn) + 1
  BY <1>5, <1>12, <1>17, <1>18, <1>19, <1>20, BeginSound
<1>22. /\ r \in Phone /\ Sound(d, r, k, ap, w) /\ Sent(r) /\ Apart(d, b.txn, r.txn)
       /\ Len(r.txn) = Len(b.txn)
  <2>1. b \in Phone /\ k \in Line /\ r = SendReady(b)
    BY <1>3, <1>10, <1>17
  <2> QED
    BY <1>21, <2>1, SendKeeps
<1>23. Apart(d, txn, txn')
  <2>1. PICK x1, x2, x3 : x1 = s.txn /\ x2 = b.txn /\ x3 = r.txn
    OBVIOUS
  <2>2. Apart(d, x1, x3)
    BY <1>21, <1>22, <2>1, ApartTrans
  <2> QED
    BY <1>4, <1>5, <2>1, <2>2
<1>24. /\ Sound(d, b, k, applied, written) /\ Sound(d, r, k, applied, written)
       /\ Len(txn') = Len(txn) + 1
  BY <1>4, <1>5, <1>11, <1>21, <1>22
<1>25. outbox' = [outbox EXCEPT ![d] = k.ob \o r.puts]
  BY <1>4, <1>7, <1>10
<1>26. x.out = Plus(Latest(State(d), {}), 1)
  BY <1>3
<1>27. StartDone(d, t, x, b, say, k, r)
  BY SMTT(30), <1>3, <1>4, <1>5, <1>6, <1>7, <1>10, <1>14, <1>15, <1>17, <1>21, <1>22, <1>23, <1>24,
     <1>25, <1>26 DEF StartDone
<1> QED
  BY <1>10, <1>27

(* It keeps the invariant.                                                 *)
LEMMA StartKeeps ==
  ASSUME IInv, NEW d \in Devices, Start(d)
  PROVE  IInv'
<1>1. Shape /\ \A e \in Devices : PhoneOf(e)
  BY DEF IInv
<1>2. /\ written' = written /\ applied' = applied /\ post' = post /\ watch' = watch
      /\ online' = online /\ cache' = cache /\ feed' = feed
      /\ down' = down /\ held' = held /\ todo' = todo
  BY DEF Start, bounds
<1>3. PICK k \in Line : \E t, x, b, say, r : StartDone(d, t, x, b, say, k, r)
  BY StartDoes
<1>4. PICK t, x, b, say, r : StartDone(d, t, x, b, say, k, r)
  BY <1>3
<1>5. /\ txn' = r.txn
      /\ queue' = [queue EXCEPT ![d] = r.queue]
      /\ writes' = [writes EXCEPT ![d] = r.writes]
      /\ unanswered' = [unanswered EXCEPT ![d] = r.unanswered]
      /\ outbox' = [outbox EXCEPT ![d] = k.ob \o r.puts]
      /\ r \in Phone /\ Sound(d, r, k, applied, written) /\ Sent(r)
      /\ Apart(d, txn, txn') /\ Len(txn') = Len(txn) + 1
      /\ k.dn = down[d] /\ k.hd = held[d] /\ k.td = todo[d]
  BY <1>4 DEF StartDone
<1>6. k.ob \in Seq(Requests)
  BY DEF Line
<1>7. /\ r.txn \in Seq(Transactions) /\ r.queue \in Seq(Nat)
       /\ r.writes \in Seq(Nat \cup Comments) /\ r.unanswered \in Seq(Seq(Nat))
       /\ r.puts \in Seq(Requests)
  BY <1>5 DEF Phone
<1>8. Asks(r, k) = k.ob \o r.puts /\ k.ob \o r.puts \in Seq(Requests)
  BY <1>6, <1>7, ConcatProperties DEF Asks
<1>9. /\ queue' \in [Devices -> Seq(Nat)] /\ queue'[d] = r.queue
       /\ \A e \in Devices : e # d => queue'[e] = queue[e]
  BY <1>1, <1>5, <1>7 DEF Shape
<1>10. /\ writes' \in [Devices -> Seq(Nat \cup Comments)] /\ writes'[d] = r.writes
       /\ \A e \in Devices : e # d => writes'[e] = writes[e]
  BY <1>1, <1>5, <1>7 DEF Shape
<1>11. /\ unanswered' \in [Devices -> Seq(Seq(Nat))] /\ unanswered'[d] = r.unanswered
       /\ \A e \in Devices : e # d => unanswered'[e] = unanswered[e]
  BY <1>1, <1>5, <1>7 DEF Shape
<1>12. /\ outbox' \in [Devices -> Seq(Requests)] /\ outbox'[d] = k.ob \o r.puts
       /\ \A e \in Devices : e # d => outbox'[e] = outbox[e]
  <2>1. outbox' = [outbox EXCEPT ![d] = k.ob \o r.puts]
    BY <1>5, <1>6
  <2> QED
    BY <1>1, <1>8, <2>1 DEF Shape
<1>13. Shape'
  <2>1. applied' \in SUBSET Started'
    <3>1. Len(txn') = Len(txn) + 1 /\ Len(txn) \in Nat
      BY <1>1, <1>5 DEF Shape
    <3>2. 1..Len(txn) \subseteq 1..Len(txn')
      BY <3>1
    <3> QED
      BY <1>1, <1>2, <3>2 DEF Shape, Started
  <2>2. txn' \in Seq(Transactions)
    BY <1>5, <1>7
  <2>3. /\ post' \in Node /\ watch' \in [Devices -> BOOLEAN] /\ cache' \in [Devices -> Node]
        /\ feed' \in [Devices -> {"idle", "sent", "answered"}]
        /\ online' \in [Devices -> BOOLEAN]
        /\ down' \in [Devices -> Seq(Notices)] /\ held' \in [Devices -> Seq(Answers)]
        /\ todo' \in [Devices -> Seq(Answers)] /\ written' \in SUBSET Comments
    BY <1>1, <1>2 DEF Shape
  <2> QED
    BY <1>9, <1>10, <1>11, <1>12, <2>1, <2>2, <2>3 DEF Shape
<1>14. PhoneOf(d)'
  <2>1. Sound(d, r, k, applied', written')
    BY <1>2, <1>5
  <2>2. Same(Asks(r, k), outbox'[d]) /\ outbox'[d] \in Seq(Requests)
    BY <1>8, <1>12, SameRefl
  <2>3. Same(k.dn, down'[d]) /\ Same(k.hd, held'[d]) /\ Same(k.td, todo'[d])
    BY <1>2, <1>5, <1>6, SameRefl
  <2> QED
    BY <1>5, <1>9, <1>10, <1>11, <2>1, <2>2, <2>3, OwnKeeps
<1>15. ASSUME NEW e \in Devices, e # d
       PROVE  PhoneOf(e)'
  <2>1. queue[e] \in Seq(Nat) /\ Same(down[e], down'[e])
    BY <1>1, <1>2, SameRefl DEF Shape
  <2>2. /\ held'[e] = held[e] /\ todo'[e] = todo[e] /\ written \subseteq written'
        /\ applied \subseteq applied' /\ \A y \in applied' : y \in applied \/ y \in Of(txn, d)
    BY <1>2
  <2>3. /\ queue'[e] = queue[e] /\ writes'[e] = writes[e] /\ unanswered'[e] = unanswered[e]
        /\ outbox'[e] = outbox[e]
    BY <1>9, <1>10, <1>11, <1>12, <1>15
  <2> QED
    BY <1>1, <1>5, <1>15, <2>1, <2>2, <2>3, OtherKeeps
<1> QED
  BY <1>13, <1>14, <1>15 DEF IInv

(* A comment is set, and aborts the transactions of the post: b is the     *)
(* phone with the comment, a the one with its transactions aborted.        *)
CommentDone(d, c, m, b, a, z) ==
  /\ m = [type |-> "set", comment |-> c]
  /\ b \in Phone /\ b.queue = queue[d] /\ b.writes = Append(writes[d], c)
  /\ b.cache = cache[d] /\ b.feed = feed[d] /\ b.puts = <<m>>
  /\ Len(b.txn) = Len(txn)
  /\ \A t \in 1..Len(txn) : b.txn[t].out = txn[t].out /\ Alike(b.txn[t], txn[t])
  /\ \A t \in UnderWay(txn, d) : b.txn[t].sets = txn[t].sets + 1
  /\ Sound(d, b, LineOf(d), applied, written \cup {c})
  /\ a = Abort(b) /\ a \in Phone /\ Sound(d, a, LineOf(d), applied, written \cup {c})
  /\ Resent(a, z) /\ z \in Phone /\ Sound(d, z, LineOf(d), applied, written \cup {c})
  /\ Sent(z) /\ Commit(d, z) /\ Apart(d, txn, z.txn) /\ Len(z.txn) = Len(txn)

(* What setting a comment does.                                            *)
LEMMA SetCommentDoes ==
  ASSUME IInv, NEW d \in Devices, NEW c \in Comments, SetComment(d, c)
  PROVE  \E m, b, a, z : CommentDone(d, c, m, b, a, z)
<1>1. Shape /\ \A e \in Devices : PhoneOf(e)
  BY DEF IInv
<1>2. /\ written' = written \cup {c} /\ applied' = applied /\ post' = post
      /\ watch' = watch /\ online' = online /\ down' = down /\ held' = held /\ todo' = todo
  BY DEF SetComment, history
<1>3. PICK s, l, x, m, b, a :
        /\ s = State(d) /\ l = LineOf(d)
        /\ x = [t \in Started |->
                  IF t \in UnderWay(txn, d) THEN CountedSet(txn[t]) ELSE txn[t]]
        /\ m = [type |-> "set", comment |-> c]
        /\ b = [s EXCEPT !.txn = x, !.writes = Append(@, c), !.puts = <<m>>]
        /\ a = Abort(b)
  OBVIOUS
<1>4. PICK r, z : r = Rerun(a) /\ z = SendReady(r) /\ Commit(d, z)
  BY <1>3 DEF SetComment, CommitRerun
<1>5. /\ s \in Phone /\ l \in Line /\ Sound(d, s, l, applied, written) /\ Sent(s)
      /\ s.txn = txn /\ s.queue = queue[d] /\ s.puts = << >>
      /\ s.writes = writes[d] /\ s.cache = cache[d] /\ s.feed = feed[d]
      /\ l.ob = outbox[d] /\ l.dn = down[d] /\ l.hd = held[d] /\ l.td = todo[d]
      /\ outbox[d] \in Seq(Requests) /\ Asks(s, l) = outbox[d]
  BY <1>1, <1>3, ShapeFacts DEF State, LineOf, PhoneOf
<1>6. m \in Requests /\ Harmless(m)
  BY <1>3, RequestFacts
<1>7. \A t \in 1..Len(txn) :
        x[t] \in Transactions /\ Alike(x[t], txn[t]) /\ x[t].out = txn[t].out
  <2>1. ASSUME NEW t \in 1..Len(txn)
        PROVE  x[t] \in Transactions /\ Alike(x[t], txn[t]) /\ x[t].out = txn[t].out
    <3>1. txn[t] \in Transactions
      BY <1>1, ElementOfSeq DEF Shape
    <3>2. x[t] = CountedSet(txn[t]) \/ x[t] = txn[t]
      BY <1>3 DEF Started
    <3>3. /\ CountedSet(txn[t]) \in Transactions /\ Alike(CountedSet(txn[t]), txn[t])
          /\ CountedSet(txn[t]).out = txn[t].out
      BY <3>1 DEF CountedSet, Transactions, Alike
    <3>4. Alike(txn[t], txn[t])
      BY DEF Alike
    <3> QED
      BY <3>1, <3>2, <3>3, <3>4
  <2> QED
    BY <2>1
<1>8. x \in Seq(Transactions) /\ Len(x) = Len(txn)
  <2>1. Len(txn) \in Nat
    BY <1>1 DEF Shape
  <2>2. x = [t \in 1..Len(txn) |-> x[t]]
    BY <1>3 DEF Started
  <2>3. PICK n : n = Len(txn)
    OBVIOUS
  <2> QED
    BY <1>7, <2>1, <2>2, <2>3, SeqOf
<1>9. /\ Append(s.writes, c) \in Seq(Nat \cup Comments)
      /\ Elements(Append(s.writes, c)) = Elements(s.writes) \cup {c}
  <2>1. PICK S, q : S = Nat \cup Comments /\ q = s.writes
    OBVIOUS
  <2>2. q \in Seq(S) /\ c \in S
    BY <1>5, <2>1 DEF Phone
  <2>3. Append(q, c) \in Seq(S) /\ Elements(Append(q, c)) = Elements(q) \cup {c}
    BY <2>2, ElementsAppend
  <2> QED
    BY <2>1, <2>3
<1>10. <<m>> \in Seq(Requests) /\ Elements(<<m>>) = {m}
  BY <1>6, One
<1>11. /\ b \in Phone /\ b.queue = s.queue /\ b.unanswered = s.unanswered
       /\ b.txn = x /\ b.puts = <<m>> /\ Elements(b.writes) = Elements(s.writes) \cup {c}
       /\ b.writes = Append(s.writes, c) /\ b.cache = s.cache /\ b.feed = s.feed
  BY <1>3, <1>5, <1>8, <1>9, <1>10 DEF Phone
<1>12. Of(b.txn, d) = Of(s.txn, d) /\ UnderWay(b.txn, d) = UnderWay(s.txn, d)
  BY <1>5, <1>7, <1>8, <1>11 DEF Of, UnderWay, Alike
<1>13. PICK ap, w, v : ap = applied /\ w = written /\ v = written \cup {c}
  OBVIOUS
<1>14. Sound(d, b, l, ap, v)
  <2>1. Same(Asks(s, l), Asks(b, l))
    <3>1. PICK q, u, p, y : q = outbox[d] /\ u = <<m>> /\ p = q \o u /\ y = u \o q
      OBVIOUS
    <3>2. \A z1 \in Elements(u) : Harmless(z1)
      BY <1>6, <1>10, <3>1
    <3>3. Same(q, p)
      BY <1>5, <1>10, <3>1, <3>2, SameConcat
    <3>4. Asks(b, l) = p
      BY <1>5, <1>11, <3>1 DEF Asks
    <3> QED
      BY <1>5, <3>1, <3>3, <3>4
  <2>2. SameLine(s, l, b, l)
    BY <2>1, SameRefl DEF SameLine
  <2>3. Listed(d, s, w) /\ Sound(d, s, l, ap, w)
    BY <1>5, <1>13 DEF Sound
  <2>4. Listed(d, b, v)
    BY <1>11, <1>12, <1>13, <2>3 DEF Listed
  <2>5. \A t \in Of(s.txn, d) : Alike(b.txn[t], s.txn[t]) /\ (t \in ap <=> t \in ap)
    BY <1>5, <1>7, <1>11 DEF Of
  <2> QED
    BY <1>11, <1>12, <2>2, <2>3, <2>4, <2>5, SameSound
<1>15. \A t \in Elements(b.queue) : b.txn[t].status # "needsAbort"
  <2>1. \A t \in Elements(s.queue) : t \in Of(s.txn, d) /\ s.txn[t].status # "needsAbort"
    BY <1>5 DEF Sent, Sound, Queued
  <2> QED
    BY <1>5, <1>7, <1>11, <2>1 DEF Of, Alike
<1>16. a \in Phone /\ Aborted(b, a)
  BY <1>3, <1>11, AbortFacts
<1>17. Sound(d, a, l, ap, v)
  BY <1>11, <1>14, <1>15, <1>16, AbortSound
<1>18. Apart(d, b.txn, a.txn) /\ Len(a.txn) = Len(b.txn)
  BY <1>11, <1>14, <1>16, AbortApart DEF Sound, Aborted
<1>19. Apart(d, s.txn, b.txn)
  <2>1. PICK x1, x2 : x1 = s.txn /\ x2 = b.txn
    OBVIOUS
  <2>2. Len(x2) = Len(x1)
    BY <1>5, <1>8, <1>11, <2>1
  <2>3. \A t \in 1..Len(x1) : IF x1[t].dev = d THEN x2[t].dev = d ELSE x2[t] = x1[t]
    BY <1>3, <1>5, <1>7, <1>11, <2>1 DEF Alike, Started, UnderWay
  <2>4. Apart(d, x1, x2)
    BY <2>2, <2>3, ApartOwn
  <2> QED
    BY <2>1, <2>4
<1>20. /\ z \in Phone /\ Sound(d, z, l, ap, v) /\ Sent(z)
       /\ Apart(d, a.txn, z.txn) /\ Len(z.txn) = Len(a.txn) /\ Resent(a, z)
  <2>1. Resent(a, z)
    BY <1>4 DEF Resent
  <2>2. a \in Phone /\ l \in Line
    BY <1>5, <1>16
  <2> QED
    BY <1>17, <2>1, <2>2, ResentKeeps
<1>21. Apart(d, txn, z.txn)
  <2>1. PICK x1, x2, x3, x4 : x1 = s.txn /\ x2 = b.txn /\ x3 = a.txn /\ x4 = z.txn
    OBVIOUS
  <2>2. Apart(d, x1, x3)
    BY <1>18, <1>19, <2>1, ApartTrans
  <2>3. Apart(d, x1, x4)
    BY <1>20, <2>1, <2>2, ApartTrans
  <2> QED
    BY <1>5, <2>1, <2>3
<1>22. Len(z.txn) = Len(txn)
  BY <1>8, <1>11, <1>18, <1>20
<1>23. /\ Sound(d, b, LineOf(d), applied, written \cup {c})
       /\ Sound(d, a, LineOf(d), applied, written \cup {c})
       /\ Sound(d, z, LineOf(d), applied, written \cup {c})
  BY <1>3, <1>13, <1>14, <1>17, <1>20
<1>24. /\ Len(b.txn) = Len(txn)
       /\ \A t \in 1..Len(txn) : b.txn[t].out = txn[t].out /\ Alike(b.txn[t], txn[t])
  BY <1>7, <1>8, <1>11
<1>25. \A t \in UnderWay(txn, d) : b.txn[t].sets = txn[t].sets + 1
  <2> SUFFICES ASSUME NEW t \in UnderWay(txn, d)
               PROVE  b.txn[t].sets = txn[t].sets + 1
    OBVIOUS
  <2>1. t \in Started /\ txn[t] \in Transactions
    BY <1>1, ElementOfSeq DEF Shape, UnderWay, Started
  <2>2. b.txn[t] = CountedSet(txn[t])
    BY <1>3, <1>11, <2>1
  <2> QED
    BY <2>1, <2>2 DEF CountedSet, Transactions
<1>26. CommentDone(d, c, m, b, a, z)
  BY <1>3, <1>4, <1>5, <1>11, <1>16, <1>20, <1>21, <1>22, <1>23, <1>24, <1>25
     DEF CommentDone
<1> QED
  BY <1>26

(* It keeps the invariant.                                                 *)
LEMMA SetCommentKeeps ==
  ASSUME IInv, NEW d \in Devices, NEW c \in Comments, SetComment(d, c)
  PROVE  IInv'
<1>1. Shape /\ \A e \in Devices : PhoneOf(e)
  BY DEF IInv
<1>2. /\ written' = written \cup {c} /\ applied' = applied /\ post' = post
      /\ watch' = watch /\ online' = online /\ down' = down /\ held' = held /\ todo' = todo
  BY DEF SetComment, history
<1>3. PICK m, b, a, z : CommentDone(d, c, m, b, a, z)
  BY SetCommentDoes
<1>4. PICK l : l = LineOf(d)
  OBVIOUS
<1>5. /\ l \in Line /\ l.ob = outbox[d] /\ l.dn = down[d] /\ l.hd = held[d] /\ l.td = todo[d]
  BY <1>1, <1>4, ShapeFacts DEF LineOf
<1>6. /\ z \in Phone /\ Commit(d, z) /\ Sent(z) /\ Apart(d, txn, z.txn)
      /\ Len(z.txn) = Len(txn) /\ Sound(d, z, l, applied', written')
  BY <1>2, <1>3, <1>4 DEF CommentDone
<1>7. written \subseteq written' /\ written' \subseteq Comments
  BY <1>1, <1>2 DEF Shape
<1>8. /\ down' \in [Devices -> Seq(Notices)] /\ down'[d] = l.dn
      /\ held' \in [Devices -> Seq(Answers)] /\ held'[d] = l.hd
      /\ todo' \in [Devices -> Seq(Answers)] /\ todo'[d] = l.td
      /\ \A e \in Devices : e # d =>
           down'[e] = down[e] /\ held'[e] = held[e] /\ todo'[e] = todo[e]
  BY <1>1, <1>2, <1>5 DEF Shape
<1> QED
  BY <1>1, <1>2, <1>5, <1>6, <1>7, <1>8, HandlerKeeps

(* The answer that is handled next.                                        *)
LEMMA AnswerFacts ==
  ASSUME Shape, NEW d \in Devices, Answered(d), TakeAnswer(d), NEW m, m = Answer(d)
  PROVE  /\ m \in Answers
         /\ down' \in [Devices -> Seq(Notices)] /\ todo' \in [Devices -> Seq(Answers)]
         /\ \A e \in Devices : e # d => down'[e] = down[e] /\ todo'[e] = todo[e]
         /\ \E k \in Line : /\ Took(m, LineOf(d), k)
                            /\ k.dn = down'[d] /\ k.td = todo'[d]
<1>1. PICK l, q, g : l = LineOf(d) /\ q = down[d] /\ g = todo[d]
  OBVIOUS
<1>2. /\ l \in Line /\ q \in Seq(Notices) /\ g \in Seq(Answers)
      /\ l.ob = outbox[d] /\ l.dn = q /\ l.hd = held[d] /\ l.td = g
  BY <1>1, ShapeFacts DEF LineOf
<1>3. /\ down \in [Devices -> Seq(Notices)] /\ todo \in [Devices -> Seq(Answers)]
  BY DEF Shape
<1>4. CASE g # << >>
  <2>1. m = Head(g) /\ todo' = [todo EXCEPT ![d] = Tail(g)] /\ down' = down
    BY <1>1, <1>4 DEF Answer, TakeAnswer
  <2>2. m \in Answers /\ Tail(g) \in Seq(Answers)
    BY <1>2, <1>4, <2>1, ElementsTail
  <2>3. /\ todo' \in [Devices -> Seq(Answers)] /\ todo'[d] = Tail(g)
        /\ \A e \in Devices : e # d => todo'[e] = todo[e]
    BY <1>3, <2>1, <2>2
  <2>4. PICK k : k = [ob |-> l.ob, dn |-> q, hd |-> l.hd, td |-> Tail(g)]
    OBVIOUS
  <2>5. k \in Line /\ k.ob = l.ob /\ k.dn = q /\ k.hd = l.hd /\ k.td = Tail(g)
    BY <1>2, <2>2, <2>4 DEF Line
  <2>6. Took(m, l, k)
    BY <1>2, <1>4, <2>1, <2>5 DEF Took
  <2>7. k.dn = down'[d] /\ k.td = todo'[d]
    BY <1>1, <2>1, <2>3, <2>5
  <2> QED
    BY <1>1, <1>3, <2>1, <2>2, <2>3, <2>5, <2>6, <2>7
<1>5. CASE g = << >>
  <2>1. m = Head(q) /\ down' = [down EXCEPT ![d] = Tail(q)] /\ todo' = todo
    BY <1>1, <1>5 DEF Answer, TakeAnswer, Take
  <2>2. Received(d, "reply")
    BY <1>1, <1>5 DEF Answered
  <2>3. q # << >> /\ m \in Answers /\ Tail(q) \in Seq(Notices)
    BY <1>1, <2>1, <2>2, ReplyFacts
  <2>4. /\ down' \in [Devices -> Seq(Notices)] /\ down'[d] = Tail(q)
        /\ \A e \in Devices : e # d => down'[e] = down[e]
    BY <1>3, <2>1, <2>3
  <2>5. PICK k : k = [ob |-> l.ob, dn |-> Tail(q), hd |-> l.hd, td |-> g]
    OBVIOUS
  <2>6. k \in Line /\ k.ob = l.ob /\ k.dn = Tail(q) /\ k.hd = l.hd /\ k.td = g
    BY <1>2, <2>3, <2>5 DEF Line
  <2>7. Took(m, l, k)
    BY <1>2, <1>5, <2>1, <2>3, <2>6 DEF Took
  <2>8. k.dn = down'[d] /\ k.td = todo'[d]
    BY <1>1, <2>1, <2>4, <2>6
  <2> QED
    BY <1>1, <1>3, <2>1, <2>3, <2>4, <2>6, <2>7, <2>8
<1> QED
  BY <1>4, <1>5

(* It is taken from its place, and from no other phone's.                  *)
LEMMA AnswerShape ==
  ASSUME Shape, NEW d \in Devices, Answered(d), TakeAnswer(d)
  PROVE  /\ down' \in [Devices -> Seq(Notices)] /\ todo' \in [Devices -> Seq(Answers)]
         /\ \A e \in Devices : e # d => down'[e] = down[e] /\ todo'[e] = todo[e]
         /\ down[d] = << >> => down'[d] = << >>
<1>1. PICK m : m = Answer(d)
  OBVIOUS
<1>2. /\ m \in Answers
      /\ down' \in [Devices -> Seq(Notices)] /\ todo' \in [Devices -> Seq(Answers)]
      /\ \A e \in Devices : e # d => down'[e] = down[e] /\ todo'[e] = todo[e]
      /\ \E k \in Line : /\ Took(m, LineOf(d), k)
                         /\ k.dn = down'[d] /\ k.td = todo'[d]
  BY <1>1, AnswerFacts
<1>3. PICK k \in Line : Took(m, LineOf(d), k) /\ k.dn = down'[d]
  BY <1>2
<1>4. down[d] = << >> => down'[d] = << >>
  BY <1>3 DEF Took, LineOf
<1> QED
  BY <1>2, <1>4

(* An answer is about transactions, or about a comment.                    *)
LEMMA AnswerKind ==
  ASSUME NEW d, NEW m \in Answers, NEW s, NEW ap, RightMessage(d, m, s, ap)
  PROVE  IF Head(m.what) \in Comments
         THEN Elements(m.what) \subseteq Comments /\ Carried(m) = {}
         ELSE m.what \in Seq(Nat) /\ m.what # << >>
<1>1. m.type = "reply"
  BY DEF Answers
<1>2. CASE m.what \in Seq(Nat) \ {<< >>}
  <2>1. Head(m.what) \in Nat
    BY <1>2, HeadTailProperties
  <2> QED
    BY <1>2, <2>1, NoComment
<1>3. ASSUME NEW c \in Comments, m.what = <<c>>
      PROVE  /\ Head(m.what) \in Comments /\ Elements(m.what) \subseteq Comments
             /\ Carried(m) = {}
  <2>1. Elements(m.what) = {c}
    BY <1>3, ElementsFacts
  <2>2. Head(m.what) = c
    BY <1>3
  <2> QED
    BY <1>1, <2>1, <2>2 DEF Carried
<1> QED
  BY <1>1, <1>2, <1>3 DEF RightMessage

(* The answer of a comment is handled: its write is forgotten.             *)
SetHandled(d, m, k, r) ==
  /\ Took(m, LineOf(d), k) /\ k.dn = down'[d] /\ k.hd = held[d] /\ k.td = todo'[d]
  /\ Head(m.what) \in Comments /\ r = Forget(State(d), Elements(m.what)) /\ r \in Phone
  /\ Sound(d, r, k, applied, written) /\ Sent(r) /\ Commit(d, r)
  /\ Apart(d, txn, r.txn) /\ Len(r.txn) = Len(txn)
  /\ Elements(r.writes) \subseteq Elements(writes[d]) /\ r.puts = << >>
  /\ r.feed = feed[d]

(* What the handler of an answer to a set does.                            *)
LEMMA HandleSetDoes ==
  ASSUME IInv, NEW d \in Devices, HandleSet(d)
  PROVE  \E m \in Answers, k \in Line : \E r : SetHandled(d, m, k, r)
<1>1. Shape /\ \A e \in Devices : PhoneOf(e)
  BY DEF IInv
<1>2. /\ written' = written /\ applied' = applied /\ post' = post
      /\ watch' = watch /\ online' = online /\ held' = held
  BY DEF HandleSet, bounds, history
<1>3. PICK s, l, m, g, r :
        /\ s = State(d) /\ l = LineOf(d) /\ m = Answer(d) /\ g = Elements(m.what)
        /\ r = Forget(s, g)
  OBVIOUS
<1>4. Answered(d) /\ TakeAnswer(d) /\ Head(m.what) \in Comments /\ Commit(d, r)
  BY <1>3 DEF HandleSet
<1>5. /\ s \in Phone /\ l \in Line /\ Sound(d, s, l, applied, written) /\ Sent(s)
      /\ s.txn = txn /\ s.queue = queue[d] /\ s.puts = << >>
      /\ s.writes = writes[d] /\ s.feed = feed[d]
      /\ l.ob = outbox[d] /\ l.dn = down[d] /\ l.hd = held[d] /\ l.td = todo[d]
  BY <1>1, <1>3, ShapeFacts DEF State, LineOf, PhoneOf
<1>6. /\ m \in Answers
      /\ down' \in [Devices -> Seq(Notices)] /\ todo' \in [Devices -> Seq(Answers)]
      /\ \A e \in Devices : e # d => down'[e] = down[e] /\ todo'[e] = todo[e]
      /\ \E k \in Line : Took(m, l, k) /\ k.dn = down'[d] /\ k.td = todo'[d]
  BY <1>1, <1>3, <1>4, AnswerFacts
<1>7. PICK k \in Line : Took(m, l, k) /\ k.dn = down'[d] /\ k.td = todo'[d]
  BY <1>6
<1>8. PICK ap, w : ap = applied /\ w = written
  OBVIOUS
<1>9. Sound(d, s, l, ap, w)
  BY <1>5, <1>8
<1>10. /\ RightMessage(d, m, s, ap) /\ m \in Everywhere(s, l)
       /\ Asks(s, k) = Asks(s, l)
       /\ Elements(k.dn) \subseteq Elements(l.dn) /\ k.hd = l.hd
       /\ Elements(k.td) \subseteq Elements(l.td)
       /\ \A t : t \notin Carried(m) =>
            /\ (None(t, l.dn) => None(t, k.dn)) /\ (Once(t, l.dn) => Once(t, k.dn))
            /\ (None(t, l.td) => None(t, k.td)) /\ (Once(t, l.td) => Once(t, k.td))
  <2>1. s \in Phone /\ l \in Line /\ m \in Answers /\ k \in Line /\ Took(m, l, k)
    BY <1>5, <1>6, <1>7
  <2>2. TakenFrom(d, m, s, l, k, ap)
    BY <1>9, <2>1, TookRight
  <2> QED
    BY <2>2 DEF TakenFrom
<1>11. g \subseteq Comments /\ Carried(m) = {}
  BY <1>3, <1>4, <1>6, <1>10, AnswerKind
<1>12. /\ r \in Phone /\ r.queue = s.queue /\ r.txn = s.txn
       /\ r.unanswered = s.unanswered /\ r.puts = s.puts /\ r.feed = s.feed
       /\ Elements(r.writes) = Elements(s.writes) \ g
  <2>1. s \in Phone /\ r = Forget(s, g)
    BY <1>3, <1>5
  <2> QED
    BY <2>1, ForgetFacts
<1>13. Sound(d, r, k, ap, w)
  <2>1. Asks(r, k) = Asks(s, l)
    BY <1>10, <1>12 DEF Asks
  <2>2. Same(l.dn, k.dn) /\ Same(l.td, k.td)
    BY <1>10, <1>11 DEF Same
  <2>3. SameLine(s, l, r, k)
    BY <1>10, <2>1, <2>2, SameRefl DEF SameLine
  <2>4. Listed(d, r, w)
    BY <1>9, <1>11, <1>12 DEF Sound, Listed
  <2>5. Of(r.txn, d) = Of(s.txn, d)
    BY <1>12
  <2>6. \A t \in Of(s.txn, d) : Alike(r.txn[t], s.txn[t]) /\ (t \in ap <=> t \in ap)
    BY <1>12 DEF Alike
  <2> QED
    BY <1>9, <1>12, <2>3, <2>4, <2>5, <2>6, SameSound
<1>14. Sent(r)
  BY <1>5, <1>12 DEF Sent
<1>15. Apart(d, txn, r.txn) /\ Len(r.txn) = Len(txn)
  BY <1>5, <1>12 DEF Apart
<1>16. SetHandled(d, m, k, r)
  BY <1>3, <1>4, <1>5, <1>7, <1>8, <1>10, <1>12, <1>13, <1>14, <1>15 DEF SetHandled
<1> QED
  BY <1>6, <1>16

(* The answer of a comment is handled.                                     *)
LEMMA HandleSetKeeps ==
  ASSUME IInv, NEW d \in Devices, HandleSet(d)
  PROVE  IInv'
<1>1. Shape /\ \A e \in Devices : PhoneOf(e)
  BY DEF IInv
<1>2. /\ written' = written /\ applied' = applied /\ post' = post
      /\ watch' = watch /\ online' = online /\ held' = held
  BY DEF HandleSet, bounds, history
<1>3. PICK m \in Answers, k \in Line : \E r : SetHandled(d, m, k, r)
  BY HandleSetDoes
<1>4. PICK r : SetHandled(d, m, k, r)
  BY <1>3
<1>5. /\ r \in Phone /\ Commit(d, r) /\ Sent(r) /\ Apart(d, txn, r.txn)
      /\ Len(r.txn) = Len(txn) /\ Sound(d, r, k, applied', written')
      /\ down'[d] = k.dn /\ todo'[d] = k.td
  BY <1>2, <1>4 DEF SetHandled
<1>6. k.ob = outbox[d]
  BY <1>4 DEF SetHandled, Took, LineOf
<1>7. /\ down' \in [Devices -> Seq(Notices)] /\ todo' \in [Devices -> Seq(Answers)]
      /\ \A e \in Devices : e # d => down'[e] = down[e] /\ todo'[e] = todo[e]
  BY <1>1, AnswerShape DEF HandleSet
<1>8. held' \in [Devices -> Seq(Answers)] /\ held'[d] = k.hd
      /\ \A e \in Devices : e # d => held'[e] = held[e]
  BY <1>1, <1>2, <1>4 DEF Shape, SetHandled
<1>9. written \subseteq written' /\ written' \subseteq Comments
  BY <1>1, <1>2 DEF Shape
<1> QED
  BY <1>1, <1>2, <1>5, <1>6, <1>7, <1>8, <1>9, HandlerKeeps

(* What an answer makes of the phone, before what is left is run again.    *)
LEMMA SettledType ==
  ASSUME NEW x \in Transactions, NEW status \in {"ok", "datastale", "disconnect"}
  PROVE  Settled(x, status) \in Transactions
<1>1. CASE status = "ok"
  <2>1. Settled(x, status) = [x EXCEPT !.status = "completed", !.told = "ok"]
    BY <1>1 DEF Settled
  <2> QED
    BY <2>1 DEF Transactions, Statuses, Outcomes
<1>2. CASE status = "disconnect"
  <2>1. Settled(x, status) = [x EXCEPT !.status = "needsAbort", !.why = "disconnect"]
    BY <1>2 DEF Settled
  <2> QED
    BY <2>1 DEF Transactions, Statuses, Outcomes
<1>3. CASE status = "datastale"
  <2>1. PICK y : y = IF x.status = "sentNeedsAbort" THEN "needsAbort" ELSE "run"
    OBVIOUS
  <2>2. Settled(x, status) = [x EXCEPT !.status = y]
    BY <1>3, <2>1 DEF Settled
  <2>3. y \in Statuses
    BY <2>1 DEF Statuses
  <2> QED
    BY <2>2, <2>3 DEF Transactions
<1> QED
  BY <1>1, <1>2, <1>3

(* What an accepted put carried leaves the writes and the queue.           *)
Forgotten(b, g, h) == h = [Forget(b, g) EXCEPT !.queue = Without(@, g)]

(* It leaves them, and nothing else does.                                  *)
LEMMA ForgottenPhone ==
  ASSUME NEW b \in Phone, NEW g, NEW h, Forgotten(b, g, h)
  PROVE  /\ h \in Phone /\ h.cache = b.cache /\ h.queue = Without(b.queue, g)
         /\ h.txn = b.txn /\ h.feed = b.feed /\ h.unanswered = b.unanswered
         /\ h.puts = b.puts /\ Elements(h.writes) = Elements(b.writes) \ g
<1>1. PICK f : f = Forget(b, g)
  OBVIOUS
<1>2. /\ f \in Phone /\ f.cache = b.cache /\ f.queue = b.queue /\ f.txn = b.txn
      /\ f.feed = b.feed /\ f.unanswered = b.unanswered /\ f.puts = b.puts
      /\ Elements(f.writes) = Elements(b.writes) \ g
  BY <1>1, ForgetFacts
<1>3. PICK y : y = Without(f.queue, g)
  OBVIOUS
<1>4. y \in Seq(Nat)
  <2>1. f.queue \in Seq(Nat)
    BY <1>2 DEF Phone
  <2> QED
    BY <1>3, <2>1, ElementsWithout
<1>5. h = [f EXCEPT !.queue = y]
  BY <1>1, <1>3 DEF Forgotten
<1>6. /\ h \in Phone /\ h.cache = f.cache /\ h.queue = y /\ h.txn = f.txn
      /\ h.feed = f.feed /\ h.unanswered = f.unanswered /\ h.puts = f.puts
      /\ h.writes = f.writes
  BY <1>2, <1>4, <1>5 DEF Phone
<1> QED
  BY <1>2, <1>3, <1>6

(* The phone once the answer is noted on each transaction it carried.      *)
AnswerNoted(m, s, b) ==
  /\ b.queue = s.queue /\ b.writes = s.writes /\ b.puts = s.puts
  /\ b.feed = s.feed /\ b.cache = s.cache
  /\ b.unanswered = Without(s.unanswered, {m.what})
  /\ Len(b.txn) = Len(s.txn)
  /\ \A t \in 1..Len(s.txn) : b.txn[t] =
       IF t \in Elements(m.what) THEN Settled(s.txn[t], m.status) ELSE s.txn[t]

ResumedFrom(m, s, r) ==
  \E b \in Phone :
    /\ AnswerNoted(m, s, b) /\ r = AfterPut(b, m.status, Elements(m.what))
    /\ Head(m.what) \notin Comments

(* An answered put settles what it carried, and sends what waited.         *)
LEMMA AfterPutKeeps ==
  ASSUME NEW d, NEW s \in Phone, NEW l \in Line, NEW ap, NEW w, Sound(d, s, l, ap, w),
         Sent(s), NEW m \in Answers, NEW k \in Line, Took(m, l, k),
         NEW r, ResumedFrom(m, s, r)
  PROVE  /\ r \in Phone /\ Sound(d, r, k, ap, w) /\ Apart(d, s.txn, r.txn)
         /\ Len(r.txn) = Len(s.txn)
<1>1. PICK b \in Phone : /\ AnswerNoted(m, s, b) /\ r = AfterPut(b, m.status, Elements(m.what))
                          /\ Head(m.what) \notin Comments
  BY DEF ResumedFrom
<1>2. CASE m.status # "ok"
  <2>1. r = b
    BY <1>1, <1>2 DEF AfterPut
  <2>2. Settles(m, s, b)
    BY <1>1, <1>2 DEF Settles, AnswerNoted
  <2>3. Sound(d, b, k, ap, w) /\ Apart(d, s.txn, b.txn)
    BY <1>1, <2>2, SettleSound
  <2> QED
    BY <1>1, <2>1, <2>3 DEF AnswerNoted
<1>3. CASE m.status = "ok"
  <2>1. PICK g, h : g = Elements(m.what) /\ h = [Forget(b, g) EXCEPT !.queue = Without(@, g)]
    OBVIOUS
  <2>2. r = SendReady(h)
    BY <1>1, <1>3, <2>1 DEF AfterPut
  <2>3. /\ h \in Phone /\ h.cache = b.cache /\ h.queue = Without(b.queue, g)
        /\ h.txn = b.txn /\ h.feed = b.feed /\ h.unanswered = b.unanswered
        /\ h.puts = b.puts /\ Elements(h.writes) = Elements(b.writes) \ g
    <3>1. Forgotten(b, g, h)
      BY <2>1 DEF Forgotten
    <3> QED
      BY <3>1, ForgottenPhone
  <2>4. Settles(m, s, h)
    BY <1>1, <1>3, <2>1, <2>3 DEF Settles, AnswerNoted
  <2>5. Sound(d, h, k, ap, w) /\ Apart(d, s.txn, h.txn) /\ Ready(h)
    BY <1>1, <1>3, <2>3, <2>4, SettleSound
  <2>6. /\ r \in Phone /\ Sound(d, r, k, ap, w) /\ Apart(d, h.txn, r.txn)
        /\ Len(r.txn) = Len(h.txn)
    BY <2>2, <2>3, <2>5, SendKeeps
  <2>7. Apart(d, s.txn, r.txn)
    <3>1. PICK x1, x2, x3 : x1 = s.txn /\ x2 = h.txn /\ x3 = r.txn
      OBVIOUS
    <3> QED
      BY <2>5, <2>6, <3>1, ApartTrans
  <2>8. Len(h.txn) = Len(s.txn)
    BY <1>1, <2>3 DEF AnswerNoted
  <2> QED
    BY <2>6, <2>7, <2>8
<1> QED
  BY <1>2, <1>3

(* The answer of a put is handled: what it carried is settled, and what is *)
(* left is run again, and sent.                                            *)
PutHandled(d, m, k, r, z) ==
  /\ Took(m, LineOf(d), k) /\ k.dn = down'[d] /\ k.hd = held[d] /\ k.td = todo'[d]
  /\ ResumedFrom(m, State(d), r) /\ r \in Phone /\ Sound(d, r, k, applied, written)
  /\ Resent(r, z) /\ z \in Phone /\ Sound(d, z, k, applied, written) /\ Sent(z)
  /\ Commit(d, z) /\ Apart(d, txn, z.txn) /\ Len(z.txn) = Len(txn)

(* What the handler of an answer to a put does.                            *)
LEMMA HandlePutDoes ==
  ASSUME IInv, NEW d \in Devices, HandlePut(d)
  PROVE  \E m \in Answers, k \in Line : \E r, z : PutHandled(d, m, k, r, z)
<1>1. Shape /\ \A e \in Devices : PhoneOf(e)
  BY DEF IInv
<1>2. /\ written' = written /\ applied' = applied /\ post' = post
      /\ watch' = watch /\ online' = online /\ held' = held
  BY DEF HandlePut, bounds, history
<1>3. PICK s, l, m, g, u, x, b, r :
        /\ s = State(d) /\ l = LineOf(d) /\ m = Answer(d) /\ g = Elements(m.what)
        /\ u = Without(s.unanswered, {m.what})
        /\ x = [t \in Started |-> IF t \in g THEN Settled(txn[t], m.status) ELSE txn[t]]
        /\ b = [s EXCEPT !.unanswered = Without(@, {m.what}), !.txn = x]
        /\ r = AfterPut(b, m.status, g)
  OBVIOUS
<1>4. Answered(d) /\ TakeAnswer(d) /\ Head(m.what) \notin Comments /\ CommitRerun(d, r)
  BY <1>3 DEF HandlePut
<1>5. PICK a, z : a = Rerun(r) /\ z = SendReady(a) /\ Commit(d, z)
  BY <1>4 DEF CommitRerun
<1>6. /\ s \in Phone /\ l \in Line /\ Sound(d, s, l, applied, written) /\ Sent(s)
      /\ s.txn = txn /\ s.queue = queue[d] /\ s.puts = << >>
      /\ l.ob = outbox[d] /\ l.dn = down[d] /\ l.hd = held[d] /\ l.td = todo[d]
  BY <1>1, <1>3, ShapeFacts DEF State, LineOf, PhoneOf
<1>7. /\ m \in Answers
      /\ down' \in [Devices -> Seq(Notices)] /\ todo' \in [Devices -> Seq(Answers)]
      /\ \A e \in Devices : e # d => down'[e] = down[e] /\ todo'[e] = todo[e]
      /\ \E k \in Line : Took(m, l, k) /\ k.dn = down'[d] /\ k.td = todo'[d]
  BY <1>1, <1>3, <1>4, AnswerFacts
<1>8. PICK k \in Line : Took(m, l, k) /\ k.dn = down'[d] /\ k.td = todo'[d]
  BY <1>7
<1>9. PICK ap, w : ap = applied /\ w = written
  OBVIOUS
<1>10. Sound(d, s, l, ap, w)
  BY <1>6, <1>9
<1>11. RightMessage(d, m, s, ap) /\ k.hd = l.hd
  <2>1. s \in Phone /\ l \in Line /\ m \in Answers /\ k \in Line /\ Took(m, l, k)
    BY <1>6, <1>7, <1>8
  <2>2. TakenFrom(d, m, s, l, k, ap)
    BY <1>10, <2>1, TookRight
  <2> QED
    BY <2>2 DEF TakenFrom
<1>12. m.status \in {"ok", "datastale", "disconnect"}
  <2>1. ASSUME NEW c \in Comments, m.what = <<c>>
        PROVE  FALSE
    BY <1>4, <2>1
  <2>2. m.type = "reply"
    BY <1>7 DEF Answers
  <2> QED
    BY <1>11, <2>1, <2>2 DEF RightMessage
<1>13. \A t \in 1..Len(txn) :
         /\ x[t] = IF t \in g THEN Settled(txn[t], m.status) ELSE txn[t]
         /\ x[t] \in Transactions
  <2>1. ASSUME NEW t \in 1..Len(txn)
        PROVE  /\ x[t] = IF t \in g THEN Settled(txn[t], m.status) ELSE txn[t]
               /\ x[t] \in Transactions
    <3>1. txn[t] \in Transactions
      BY <1>1, ElementOfSeq DEF Shape
    <3>2. Settled(txn[t], m.status) \in Transactions
      BY <1>12, <3>1, SettledType
    <3>3. x[t] = IF t \in g THEN Settled(txn[t], m.status) ELSE txn[t]
      BY <1>3 DEF Started
    <3> QED
      BY <3>1, <3>2, <3>3
  <2> QED
    BY <2>1
<1>14. x \in Seq(Transactions) /\ Len(x) = Len(txn)
  <2>1. PICK n : n = Len(txn)
    OBVIOUS
  <2>2. n \in Nat
    BY <1>1, <2>1 DEF Shape
  <2>3. x = [t \in 1..n |-> x[t]]
    BY <1>3, <2>1 DEF Started
  <2> QED
    BY <1>13, <2>1, <2>2, <2>3, SeqOf
<1>15. u \in Seq(Seq(Nat))
  <2>1. s.unanswered \in Seq(Seq(Nat))
    BY <1>6 DEF Phone
  <2> QED
    BY <1>3, <2>1, ElementsWithout
<1>16. /\ b \in Phone /\ b.queue = s.queue /\ b.writes = s.writes /\ b.puts = s.puts
       /\ b.feed = s.feed /\ b.cache = s.cache /\ b.unanswered = u /\ b.txn = x
  <2>1. b = [s EXCEPT !.unanswered = u, !.txn = x]
    BY <1>3
  <2>2. s \in Phone
    BY <1>6
  <2> QED
    BY <1>14, <1>15, <2>1, <2>2 DEF Phone
<1>17. /\ r \in Phone /\ Sound(d, r, k, ap, w) /\ Apart(d, s.txn, r.txn)
       /\ Len(r.txn) = Len(s.txn) /\ ResumedFrom(m, s, r)
  <2>1. s \in Phone /\ l \in Line /\ m \in Answers /\ Took(m, l, k) /\ Sent(s)
    BY <1>6, <1>7, <1>8
  <2>2. AnswerNoted(m, s, b)
    BY ZenonT(30), <1>3, <1>6, <1>13, <1>14, <1>16 DEF AnswerNoted
  <2>3. ResumedFrom(m, s, r)
    BY <1>3, <1>4, <1>16, <2>2 DEF ResumedFrom
  <2> QED
    BY <1>10, <2>1, <2>3, AfterPutKeeps
<1>18. /\ z \in Phone /\ Sound(d, z, k, ap, w) /\ Sent(z)
       /\ Apart(d, r.txn, z.txn) /\ Len(z.txn) = Len(r.txn) /\ Resent(r, z)
  <2>1. Resent(r, z)
    BY <1>5 DEF Resent
  <2> QED
    BY <1>17, <2>1, ResentKeeps
<1>19. Apart(d, txn, z.txn) /\ Len(z.txn) = Len(txn)
  <2>1. PICK x1, x2, x3 : x1 = s.txn /\ x2 = r.txn /\ x3 = z.txn
    OBVIOUS
  <2>2. Apart(d, x1, x3)
    BY <1>17, <1>18, <2>1, ApartTrans
  <2> QED
    BY <1>6, <1>17, <1>18, <2>1, <2>2
<1>20. PutHandled(d, m, k, r, z)
  BY <1>3, <1>5, <1>6, <1>8, <1>9, <1>11, <1>17, <1>18, <1>19 DEF PutHandled
<1> QED
  BY <1>7, <1>20

(* The answer of a put is handled.                                         *)
LEMMA HandlePutKeeps ==
  ASSUME IInv, NEW d \in Devices, HandlePut(d)
  PROVE  IInv'
<1>1. Shape /\ \A e \in Devices : PhoneOf(e)
  BY DEF IInv
<1>2. /\ written' = written /\ applied' = applied /\ post' = post
      /\ watch' = watch /\ online' = online /\ held' = held
  BY DEF HandlePut, bounds, history
<1>3. PICK m \in Answers, k \in Line : \E r, z : PutHandled(d, m, k, r, z)
  BY HandlePutDoes
<1>4. PICK r, z : PutHandled(d, m, k, r, z)
  BY <1>3
<1>5. /\ z \in Phone /\ Commit(d, z) /\ Sent(z) /\ Apart(d, txn, z.txn)
      /\ Len(z.txn) = Len(txn) /\ Sound(d, z, k, applied', written')
      /\ down'[d] = k.dn /\ todo'[d] = k.td
  BY <1>2, <1>4 DEF PutHandled
<1>6. k.ob = outbox[d]
  BY <1>4 DEF PutHandled, Took, LineOf
<1>7. /\ down' \in [Devices -> Seq(Notices)] /\ todo' \in [Devices -> Seq(Answers)]
      /\ \A e \in Devices : e # d => down'[e] = down[e] /\ todo'[e] = todo[e]
  BY <1>1, AnswerShape DEF HandlePut
<1>8. held' \in [Devices -> Seq(Answers)] /\ held'[d] = k.hd
      /\ \A e \in Devices : e # d => held'[e] = held[e]
  BY <1>1, <1>2, <1>4 DEF Shape, PutHandled
<1>9. written \subseteq written' /\ written' \subseteq Comments
  BY <1>1, <1>2 DEF Shape
<1> QED
  BY <1>1, <1>2, <1>5, <1>6, <1>7, <1>8, <1>9, HandlerKeeps

(* A step that changes nothing.                                            *)
LEMMA StutterKeeps ==
  ASSUME IInv, UNCHANGED vars
  PROVE  IInv'
<1>1. Shape /\ \A d \in Devices : PhoneOf(d)
  BY DEF IInv
<1>2. /\ post' = post /\ watch' = watch /\ feed' = feed /\ online' = online
      /\ UNCHANGED client /\ UNCHANGED network /\ UNCHANGED bounds /\ UNCHANGED history
  BY DEF vars
<1>3. cache' = cache /\ queue' = queue /\ writes' = writes /\ txn' = txn
  BY <1>2 DEF client
<1>4. /\ outbox' = outbox /\ down' = down /\ unanswered' = unanswered /\ held' = held
      /\ todo' = todo
  BY <1>2 DEF network
<1>5. written' = written /\ applied' = applied
  BY <1>2 DEF bounds, history
<1>6. Shape'
  <2>1. /\ post' \in Node /\ watch' \in [Devices -> BOOLEAN] /\ cache' \in [Devices -> Node]
        /\ feed' \in [Devices -> {"idle", "sent", "answered"}]
        /\ online' \in [Devices -> BOOLEAN] /\ txn' \in Seq(Transactions)
    BY <1>1, <1>2, <1>3 DEF Shape
  <2>2. /\ queue' \in [Devices -> Seq(Nat)]
        /\ writes' \in [Devices -> Seq(Nat \cup Comments)]
        /\ unanswered' \in [Devices -> Seq(Seq(Nat))]
    BY <1>1, <1>3, <1>4 DEF Shape
  <2>3. /\ outbox' \in [Devices -> Seq(Requests)] /\ down' \in [Devices -> Seq(Notices)]
        /\ held' \in [Devices -> Seq(Answers)] /\ todo' \in [Devices -> Seq(Answers)]
    BY <1>1, <1>4 DEF Shape
  <2>4. written' \in SUBSET Comments /\ applied' \in SUBSET Started'
    BY <1>1, <1>3, <1>5 DEF Shape, Started
  <2> QED
    BY <2>1, <2>2, <2>3, <2>4 DEF Shape
<1>7. ASSUME NEW d \in Devices
      PROVE  PhoneOf(d)'
  <2>1. PICK s, l : s = State(d) /\ l = LineOf(d)
    OBVIOUS
  <2>2. Sound(d, s, l, applied, written) /\ Sent(s)
    BY <1>1, <2>1 DEF PhoneOf
  <2>3. State(d)' = s
    BY <1>2, <1>3, <1>4, <2>1 DEF State
  <2>4. LineOf(d)' = l
    BY <1>4, <2>1 DEF LineOf
  <2>5. Sound(d, s, l, applied', written')
    BY <1>5, <2>2
  <2> QED
    BY <2>2, <2>3, <2>4, <2>5 DEF PhoneOf
<1> QED
  BY <1>6, <1>7 DEF IInv

(* At the start there is no transaction.                                   *)
LEMMA InitIInv == Init => IInv
<1> SUFFICES ASSUME Init PROVE IInv
  OBVIOUS
<1>1. \A S : << >> \in Seq(S)
  BY EmptySeq
<1>2. Empty \in Node
  BY DEF Empty, Node
<1>3. Shape
  <2>1. post \in Node /\ cache \in [Devices -> Node]
    <3>1. /\ post = [whole |-> TRUE, ups |-> 0, comments |-> {}]
          /\ cache = [d \in Devices |-> Empty]
      BY DEF Init
    <3>2. post \in Node
      BY <3>1 DEF Node
    <3> QED
      BY <1>2, <3>1, <3>2
  <2>2. /\ watch \in [Devices -> BOOLEAN] /\ online \in [Devices -> BOOLEAN]
        /\ feed \in [Devices -> {"idle", "sent", "answered"}]
    BY DEF Init
  <2>3. /\ queue \in [Devices -> Seq(Nat)] /\ unanswered \in [Devices -> Seq(Seq(Nat))]
        /\ writes \in [Devices -> Seq(Nat \cup Comments)] /\ txn \in Seq(Transactions)
    BY <1>1 DEF Init
  <2>4. /\ outbox \in [Devices -> Seq(Requests)] /\ down \in [Devices -> Seq(Notices)]
        /\ held \in [Devices -> Seq(Answers)] /\ todo \in [Devices -> Seq(Answers)]
    BY <1>1 DEF Init
  <2>5. written \in SUBSET Comments /\ applied \in SUBSET Started
    BY DEF Init
  <2> QED
    BY <2>1, <2>2, <2>3, <2>4, <2>5 DEF Shape
<1>4. ASSUME NEW d \in Devices
      PROVE  PhoneOf(d)
  <2>1. PICK s, l, ap, w : s = State(d) /\ l = LineOf(d) /\ ap = applied /\ w = written
    OBVIOUS
  <2>2. /\ s.queue = << >> /\ s.writes = << >> /\ s.txn = << >> /\ s.unanswered = << >>
        /\ s.puts = << >>
        /\ l.ob = << >> /\ l.dn = << >> /\ l.hd = << >> /\ l.td = << >>
    BY <2>1 DEF Init, State, LineOf
  <2>3. Elements(<< >>) = {} /\ Len(<< >>) = 0 /\ << >> \o << >> = << >>
    BY ElementsFacts, <1>1, ConcatEmptySeq
  <2>4. Of(s.txn, d) = {} /\ UnderWay(s.txn, d) = {} /\ Asks(s, l) = << >>
    BY <2>2, <2>3 DEF Of, UnderWay, Asks
  <2>5. Placed(d, s, l) /\ Upright(d, s, ap) /\ Fresh(d, s)
    BY <2>4 DEF Placed, Upright, Fresh
  <2>6. Noted(s, l) /\ Carries(d, s, l, ap)
    BY <2>2, <2>3, <2>4 DEF Noted, Linked, Carries, RightMessages
  <2>7. Queued(d, s) /\ Listed(d, s, w)
    BY <2>2, <2>3, <2>4 DEF Queued, Listed
  <2>8. Sent(s)
    BY <2>2, <2>3 DEF Sent
  <2>9. Sound(d, s, l, ap, w)
    BY <2>5, <2>6, <2>7 DEF Sound
  <2> QED
    BY <2>1, <2>8, <2>9 DEF PhoneOf
<1> QED
  BY <1>3, <1>4 DEF IInv

(* Every step keeps the invariant.                                         *)
LEMMA NextIInv == IInv /\ [Next]_vars => IInv'
<1> SUFFICES ASSUME IInv, [Next]_vars PROVE IInv'
  OBVIOUS
<1>1. CASE UNCHANGED vars
  BY <1>1, StutterKeeps
<1>2. ASSUME NEW d \in Devices, App(d)
      PROVE  IInv'
  BY <1>2, StartKeeps, SetCommentKeeps, ReadFeedKeeps, ListenElsewhereKeeps DEF App
<1>3. ASSUME NEW d \in Devices, Server(d)
      PROVE  IInv'
  BY <1>3, AnswerListenKeeps, AnswerUnlistenKeeps, AcceptPutKeeps, RefusePutKeeps,
     StoreCommentKeeps DEF Server
<1>4. ASSUME NEW d \in Devices, Client(d)
      PROVE  IInv'
  <2>1. CASE DeliverUpdate(d) \/ DeliverValue(d) \/ DeliverFeed(d) \/ EndRead(d)
    BY <2>1, DeliverUpdateKeeps, DeliverValueKeeps, DeliverFeedKeeps, EndReadKeeps
  <2>2. CASE HoldReply(d) \/ HandleSet(d) \/ HandlePut(d)
    BY <2>2, HoldReplyKeeps, HandleSetKeeps, HandlePutKeeps
  <2> QED
    BY <1>4, <2>1, <2>2 DEF Client
<1>5. ASSUME NEW d \in Devices, Connect(d) \/ Disconnect(d) \/ RefuseComment(d)
      PROVE  IInv'
  BY <1>5, ConnectKeeps, DisconnectKeeps, RefuseCommentKeeps
<1> QED
  BY <1>1, <1>2, <1>3, <1>4, <1>5 DEF Next

(* The phones, their messages and their transactions agree in every        *)
(* reachable state.                                                        *)
THEOREM Agree == Spec => []IInv
<1>1. Init => IInv
  BY InitIInv
<1>2. IInv /\ [Next]_vars => IInv'
  BY NextIInv
<1> QED
  BY <1>1, <1>2, PTL DEF Spec

-----------------------------------------------------------------------------
(* What follows.                                                           *)

(* What the queue of a phone holds is under way.                           *)
LEMMA IInvTypeOK == IInv => TypeOK
<1> SUFFICES ASSUME IInv PROVE TypeOK
  OBVIOUS
<1>1. Shape /\ \A d \in Devices : PhoneOf(d)
  BY DEF IInv
<1>2. ASSUME NEW d \in Devices
      PROVE  /\ Elements(queue[d]) \subseteq UnderWay(txn, d)
             /\ Elements(writes[d]) \ Comments = UnderWay(txn, d)
             /\ Elements(writes[d]) \cap Comments \subseteq written
  <2>1. PICK s, l : s = State(d) /\ l = LineOf(d)
    OBVIOUS
  <2>2. s.txn = txn /\ s.queue = queue[d] /\ s.writes = writes[d]
    BY <2>1 DEF State
  <2>3. /\ Queued(d, s) /\ Listed(d, s, written) /\ Upright(d, s, applied)
    BY <1>1, <2>1 DEF PhoneOf, Sound
  <2>4. ASSUME NEW t \in Elements(s.queue)
        PROVE  t \in UnderWay(s.txn, d)
    <3>1. t \in Of(s.txn, d) /\ s.txn[t].status # "completed"
      BY <2>3 DEF Queued, Pending
    <3>2. s.txn[t].told = "none"
      BY <2>3, <3>1 DEF Upright, Honest
    <3> QED
      BY <3>1, <3>2 DEF Of, UnderWay
  <2> QED
    BY <2>2, <2>3, <2>4 DEF Listed
<1> QED
  BY <1>1, <1>2 DEF Shape, TypeOK

(* Every variable keeps its type, and what a phone's writes and queue hold *)
(* of transactions is what is under way.                                   *)
THEOREM TypeCorrect == Spec => []TypeOK
BY Agree, IInvTypeOK, PTL

(* A transaction that is told to have failed is not applied and in no put. *)
LEMMA IInvFailure == IInv => FailureIsTrue
<1> SUFFICES ASSUME IInv, NEW t \in Started, txn[t].told \in {"set", "maxretries"}
             PROVE  /\ t \notin applied
                    /\ \A i \in 1..Len(outbox[txn[t].dev]) :
                         outbox[txn[t].dev][i].type = "put"
                         => t \notin Elements(outbox[txn[t].dev][i].batch)
  BY DEF FailureIsTrue
<1>1. Shape /\ \A e \in Devices : PhoneOf(e)
  BY DEF IInv
<1>2. PICK d : d = txn[t].dev
  OBVIOUS
<1>3. d \in Devices
  <2>1. txn[t] \in Transactions
    BY <1>1, ElementOfSeq DEF Shape, Started
  <2> QED
    BY <1>2, <2>1 DEF Transactions
<1>4. PICK s, l : s = State(d) /\ l = LineOf(d)
  OBVIOUS
<1>5. s.txn = txn /\ Asks(s, l) = outbox[d]
  BY <1>1, <1>3, <1>4, ShapeFacts DEF State
<1>6. Placed(d, s, l) /\ Upright(d, s, applied)
  BY <1>1, <1>3, <1>4 DEF PhoneOf, Sound
<1>7. t \in Of(s.txn, d)
  BY <1>2, <1>5 DEF Started, Of
<1>8. t \notin applied /\ s.txn[t].status = "completed"
  BY <1>5, <1>6, <1>7 DEF Upright, Honest
<1>9. None(t, outbox[d])
  BY <1>5, <1>6, <1>7, <1>8 DEF Placed, Pending, Nowhere
<1>10. ASSUME NEW i \in 1..Len(outbox[d]), outbox[d][i].type = "put"
       PROVE  t \notin Elements(outbox[d][i].batch)
  <2>1. outbox[d][i] \in Elements(outbox[d])
    BY DEF Elements
  <2> QED
    BY <1>9, <1>10, <2>1 DEF None, Carried
<1> QED
  BY <1>2, <1>8, <1>10

(* A completion that is told the transaction was overridden by a set, or   *)
(* tried too often, is told the truth: the server has not applied it, and  *)
(* no put of it is on its way.                                             *)
THEOREM FailureHolds == Spec => []FailureIsTrue
BY Agree, IInvFailure, PTL

(* What a queue begins with is outstanding, and its answer is awaited.     *)
LEMMA IInvQueue == IInv => QueueIsSent
<1> SUFFICES ASSUME IInv, NEW d \in Devices, Free(d), queue[d] # << >>
             PROVE  /\ txn[queue[d][1]].status \in {"sent", "sentNeedsAbort"}
                    /\ \/ \E i \in 1..Len(unanswered[d]) :
                            queue[d][1] \in Elements(unanswered[d][i])
                       \/ \E i \in 1..Len(held[d]) : queue[d][1] \in Elements(held[d][i].what)
  BY DEF QueueIsSent
<1>1. Shape /\ PhoneOf(d)
  BY DEF IInv
<1>2. PICK s, l, t, q : s = State(d) /\ l = LineOf(d) /\ t = queue[d][1] /\ q = queue[d]
  OBVIOUS
<1>3. /\ s.txn = txn /\ s.queue = q /\ s.unanswered = unanswered[d]
      /\ l.hd = held[d] /\ l.td = << >>
  BY <1>2 DEF State, LineOf, Free
<1>4. /\ Sent(s) /\ Queued(d, s) /\ Placed(d, s, l)
  BY <1>1, <1>2 DEF PhoneOf, Sound
<1>5. t \in Elements(q) /\ t = q[1]
  <2>1. q \in Seq(Nat) /\ q # << >>
    BY <1>1, <1>2 DEF Shape
  <2>2. 1 \in 1..Len(q)
    BY <2>1, TailFacts
  <2> QED
    BY <1>2, <2>2 DEF Elements
<1>6. t \in Of(s.txn, d) /\ s.txn[t].status \in Pending
  BY <1>2, <1>3, <1>4, <1>5 DEF Sent, Queued, Pending
<1>7. Somewhere(t, s, l)
  BY <1>4, <1>6 DEF Placed
<1>8. ~InTodo(t, s, l)
  BY <1>3, NoneEmpty, NoneOnce DEF InTodo
<1>9. Asked(t, s.unanswered) \/ Once(t, l.hd)
  BY <1>7, <1>8 DEF Somewhere, InAsks, InNotices, InHeld
<1>10. ASSUME Asked(t, s.unanswered)
       PROVE  \E i \in 1..Len(unanswered[d]) : t \in Elements(unanswered[d][i])
  BY <1>3, <1>10 DEF Asked
<1>11. ASSUME Once(t, l.hd)
       PROVE  \E i \in 1..Len(held[d]) : t \in Elements(held[d][i].what)
  <2>1. PICK i \in 1..Len(held[d]) : t \in Carried(held[d][i])
    BY <1>3, <1>11 DEF Once
  <2>2. held[d][i] \in Answers
    <3>1. held[d] \in Seq(Answers)
      BY <1>1 DEF Shape
    <3> QED
      BY <3>1, ElementOfSeq
  <2>3. held[d][i].type = "reply"
    BY <2>2 DEF Answers
  <2> QED
    BY <2>1, <2>3 DEF Carried
<1> QED
  BY <1>2, <1>3, <1>6, <1>9, <1>10, <1>11 DEF Pending

(* A phone that has nothing to handle has sent what its queue begins with  *)
(* and waits for the answer: no transaction is left behind unsent.         *)
THEOREM QueueHolds == Spec => []QueueIsSent
BY Agree, IInvQueue, PTL

=============================================================================
