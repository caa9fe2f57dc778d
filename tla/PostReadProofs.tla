--------------------------- MODULE PostReadProofs ---------------------------
(***************************************************************************)
(* Proof that a read of the feed shows a post with its fields: when a      *)
(* transaction was run on a post without them, this was before the phone   *)
(* was told of the post, and the result is refused until it was.           *)
(***************************************************************************)
EXTENDS PostCountProofs

-----------------------------------------------------------------------------
(* What a read of the feed shows.                                          *)

(* The result of t is a whole post.                                        *)
Full(s, t) == s.txn[t].out.whole

(* What the queue is run on; the transactions a comment has dropped.       *)
Base(s) == Latest(s, Elements(s.queue))
Left(d, s) == UnderWay(s.txn, d) \ Elements(s.queue)

(* Nobody computes a whole post before having seen one.                    *)
Blind(d, s) == s.cache.whole \/ \A t \in UnderWay(s.txn, d) : ~Full(s, t)

(* What is computed behind a whole result is whole, as long as what it     *)
(* would be run on again is.                                               *)
Even(s) ==
  (\E t \in Outstanding(s) : Full(s, t)) /\ Base(s).whole =>
    \A t \in Elements(s.queue) : Full(s, t)

(* What is outstanding has been sent, and is aborted, together.            *)
Together(s) == \A t, u \in Outstanding(s) : s.txn[t].status = s.txn[u].status

(* One comment marks a transaction, a second one drops it.                 *)
Overridden(d, s) ==
  \A t \in UnderWay(s.txn, d) :
    /\ s.txn[t].status = "sentNeedsAbort" => s.txn[t].sets >= 1
    /\ t \notin Elements(s.queue) => s.txn[t].sets >= 2

(* A second attempt has a whole result, unless it was made on that of a    *)
(* transaction that was dropped.                                           *)
Mature(d, s) ==
  (\A t \in Left(d, s) : Full(s, t)) =>
    \A t \in Elements(s.queue) : s.txn[t].retries >= 2 => Full(s, t)

(* Whoever is refused has seen the post by then.                           *)
Tried(s) ==
  \A t \in Elements(s.queue) :
    s.txn[t].status = "run" /\ s.txn[t].retries >= 1 => s.cache.whole

(* Nothing is queued, or written, twice.                                   *)
Tidy(s) == Distinct(s.queue) /\ Distinct(s.writes)

Seen(d, s) ==
  /\ Tidy(s) /\ Blind(d, s) /\ Even(s) /\ Together(s)
  /\ Overridden(d, s) /\ Mature(d, s) /\ Tried(s)

(* A put that asks for a whole post leaves one, and so did one that was    *)
(* accepted.                                                               *)
Truthful(s, m) ==
  /\ m.type = "put" /\ m.hash.whole => m.data.whole /\ \A t \in Carried(m) : Full(s, t)
  /\ Accepts(m) => \A t \in Carried(m) : Full(s, t)
Truths(s, q) == \A m \in Elements(q) : Truthful(s, m)

(* Messages that tell what the post is, or will; one does before any on    *)
(* the road that is about a transaction.                                   *)
Informs(m) == m.type = "update" \/ (Asking(m) /\ m.what \notin {"other", "restored"})
Led(q) == \E i \in 1..Len(q) : Informs(q[i]) /\ \A j \in 1..i : Carried(q[j]) = {}

(* Answers that are handled, or kept back, come after what informs.        *)
Late(c, q) == \A m \in Elements(q) : Carried(m) # {} => m.status = "disconnect" \/ c.whole

(* The server tells whole posts only.                                      *)
Whole(q) == \A m \in Elements(q) : m.type \in {"value", "update"} => m.node.whole

(* What a phone expects of its road: to be told of the post before any     *)
(* answer about a transaction, and the feed if it has asked for it.        *)
Awaits(d, s, l, on) ==
  /\ on => /\ UnderWay(s.txn, d) # {} => s.cache.whole \/ Led(Road(s, l))
           /\ s.feed = "sent" => \E m \in Elements(Road(s, l)) : Fetches(m)
  /\ ~on => l.dn = << >>
  /\ s.feed = "answered" => s.cache.whole
  /\ Late(s.cache, l.hd) /\ Late(s.cache, l.td)
  /\ Whole(l.dn)

(* What a phone knows, what its messages say, and what it waits for.       *)
Reads(d, s, l, on) == Seen(d, s) /\ Truths(s, Path(s, l)) /\ Awaits(d, s, l, on)

Reading(d) ==
  Reads(d, State(d), LineOf(d), online[d]) /\ (~online[d] => ~watch[d])

(* The inductive invariant.                                                *)
RInv == IInv /\ post.whole /\ \A d \in Devices : Reading(d)
-----------------------------------------------------------------------------
(* When the state that a transaction is run on is whole.                   *)

(* It is what the last transaction among the writes wrote, or what the     *)
(* server said if there is none.                                           *)
LEMMA LatestWhole ==
  ASSUME NEW s \in Phone, Elements(s.writes) \ Comments \subseteq 1..Len(s.txn),
         Distinct(s.writes), NEW x, NEW ws, ws = Without(s.writes, x)
  PROVE  \/ Elements(ws) \subseteq Comments /\ Latest(s, x).whole = s.cache.whole
         \/ \E o \in Elements(ws) \ Comments :
              (\A y : After(ws, o, y) => y \in Comments) /\ Latest(s, x).whole = Full(s, o)
<1> DEFINE overwrites == {i \in 1..Len(ws) : ws[i] \notin Comments}
           top == IF overwrites = {} THEN 0
                  ELSE CHOOSE i \in overwrites : \A j \in overwrites : j <= i
           base == IF top = 0 THEN s.cache ELSE s.txn[ws[top]].out
           late == {ws[i] : i \in (top + 1)..Len(ws)}
<1>1. /\ s.writes \in Seq(Nat \cup Comments) /\ s.cache \in Node
      /\ s.txn \in Seq(Transactions)
  BY DEF Phone
<1>2. ws \in Seq(Nat \cup Comments) /\ Elements(ws) = Elements(s.writes) \ x
  BY <1>1, ElementsWithout
<1>3. Len(ws) \in Nat /\ \A i \in 1..Len(ws) : ws[i] \in Elements(ws)
  BY <1>2, LenProperties DEF Elements
<1>4. overwrites \in SUBSET (1..Len(ws))
  OBVIOUS
<1>5. \A t \in 1..Len(s.txn) : s.txn[t].out \in Node
  <2>1. \A t \in 1..Len(s.txn) : s.txn[t] \in Transactions
    BY <1>1, ElementOfSeq
  <2> QED
    BY <2>1 DEF Transactions
<1>6. Latest(s, x) = With(base, late)
  BY DEF Latest, With
<1>7. \A n \in Node : \A cs : With(n, cs).whole = n.whole
  BY NodeFields
<1>8. CASE overwrites = {}
  <2>1. top = 0 /\ base = s.cache
    BY <1>8
  <2>2. \A i \in 1..Len(ws) : ws[i] \in Comments
    BY <1>8
  <2>3. Elements(ws) \subseteq Comments
    BY <2>2 DEF Elements
  <2> HIDE DEF base, late, overwrites
  <2>4. Latest(s, x).whole = s.cache.whole
    BY <1>1, <1>6, <1>7, <2>1
  <2> QED
    BY <2>3, <2>4
<1>9. CASE overwrites # {}
  <2>1. \E i \in overwrites : \A j \in overwrites : j <= i
    BY <1>3, <1>4, <1>9, LastExists
  <2>2. top \in overwrites /\ \A j \in overwrites : j <= top
    BY <1>9, <2>1
  <2> HIDE DEF top, late
  <2>3. top \in 1..Len(ws) /\ ws[top] \in 1..Len(s.txn) /\ ws[top] \notin Comments /\ top # 0
    BY <1>2, <1>3, <2>2
  <2>4. base = s.txn[ws[top]].out /\ base \in Node
    BY <1>5, <2>3
  <2>5. \A j \in 1..Len(ws) : ws[j] \notin Comments => j <= top
    BY <2>2
  <2>6. PICK o : o = ws[top]
    OBVIOUS
  <2>7. o \in Elements(ws) \ Comments
    BY <1>3, <2>3, <2>6
  <2> HIDE DEF base, overwrites
  <2>8. Latest(s, x).whole = Full(s, o)
    BY <1>6, <1>7, <2>4, <2>6 DEF Full
  <2>9. Distinct(ws)
    BY <1>1, DistinctOnly DEF Without
  <2>10. \A y : After(ws, o, y) => y \in Comments
    <3> SUFFICES ASSUME NEW i \in 1..Len(ws), NEW j \in 1..Len(ws), i < j, ws[i] = o
                 PROVE  ws[j] \in Comments
      BY DEF After
    <3>1. i = top
      BY <2>3, <2>6, <2>9 DEF Distinct
    <3>2. ~(j <= top)
      BY <1>3, <3>1
    <3> QED
      BY <2>5, <3>2
  <2> QED
    BY <2>7, <2>8, <2>10
<1> QED
  BY <1>8, <1>9

(* There is only one last transaction.                                     *)
LEMMA LastOne ==
  ASSUME NEW S, NEW q \in Seq(S), NEW o \in Elements(q) \ Comments,
         \A y : After(q, o, y) => y \in Comments,
         NEW x \in Elements(q) \ Comments, \A y : After(q, x, y) => y \in Comments
  PROVE  o = x
<1>1. Len(q) \in Nat
  BY LenProperties
<1>2. PICK i \in 1..Len(q), j \in 1..Len(q) : q[i] = o /\ q[j] = x
  BY DEF Elements
<1>3. ~(i < j)
  BY <1>2 DEF After
<1>4. ~(j < i)
  BY <1>2 DEF After
<1> QED
  BY <1>1, <1>2, <1>3, <1>4

(* A state of which less is excluded, or forgotten, stays whole if what is *)
(* added is whole.                                                         *)
LEMMA WholeFrom ==
  ASSUME NEW s \in Phone, Elements(s.writes) \ Comments \subseteq 1..Len(s.txn),
         Distinct(s.writes), NEW x,
         NEW r \in Phone, Elements(r.writes) \ Comments \subseteq 1..Len(r.txn),
         Distinct(r.writes), NEW y, Latest(r, y).whole,
         r.cache.whole => s.cache.whole,
         \A t \in Elements(r.writes) \ Comments :
           t \notin y => t \in Elements(s.writes) /\ t \notin x /\ (Full(r, t) => Full(s, t)),
         \A a, b : After(r.writes, a, b) /\ a \notin y /\ b \notin y /\ a \notin Comments
                     /\ b \notin Comments => After(s.writes, a, b),
         \A t \in Elements(s.writes) \ Comments :
           t \notin x => (t \in Elements(r.writes) /\ t \notin y) \/ Full(s, t)
  PROVE  Latest(s, x).whole
<1>1. PICK ws \in Seq(Nat \cup Comments) : ws = Without(s.writes, x)
  BY ElementsWithout DEF Phone
<1>2. PICK vs \in Seq(Nat \cup Comments) : vs = Without(r.writes, y)
  BY ElementsWithout DEF Phone
<1>3. /\ Elements(ws) = Elements(s.writes) \ x /\ Elements(vs) = Elements(r.writes) \ y
      /\ \A a, b : After(ws, a, b) <=> After(s.writes, a, b) /\ a \notin x /\ b \notin x
      /\ \A a, b : After(vs, a, b) <=> After(r.writes, a, b) /\ a \notin y /\ b \notin y
  BY <1>1, <1>2, ElementsWithout, AfterWithout DEF Phone
<1>4. \/ Elements(ws) \subseteq Comments /\ Latest(s, x).whole = s.cache.whole
      \/ \E o \in Elements(ws) \ Comments :
           (\A z : After(ws, o, z) => z \in Comments) /\ Latest(s, x).whole = Full(s, o)
  BY <1>1, LatestWhole
<1>5. \/ Elements(vs) \subseteq Comments /\ Latest(r, y).whole = r.cache.whole
      \/ \E o \in Elements(vs) \ Comments :
           (\A z : After(vs, o, z) => z \in Comments) /\ Latest(r, y).whole = Full(r, o)
  BY <1>2, LatestWhole
<1>6. CASE Elements(ws) \subseteq Comments /\ Latest(s, x).whole = s.cache.whole
  <2>1. Elements(vs) \subseteq Comments
    BY <1>3, <1>6
  <2> QED
    BY <1>5, <1>6, <2>1
<1>7. CASE \E o \in Elements(ws) \ Comments :
           (\A z : After(ws, o, z) => z \in Comments) /\ Latest(s, x).whole = Full(s, o)
  <2>1. PICK o \in Elements(ws) \ Comments :
           (\A z : After(ws, o, z) => z \in Comments) /\ Latest(s, x).whole = Full(s, o)
    BY <1>7
  <2>2. o \in Elements(s.writes) \ Comments /\ o \notin x
    BY <1>3
  <2>3. CASE ~Full(s, o)
    <3>1. o \in Elements(vs) \ Comments
      BY <1>3, <2>2, <2>3
    <3>2. \A z : After(vs, o, z) => z \in Comments
      <4> SUFFICES ASSUME NEW z, After(vs, o, z), z \notin Comments
                   PROVE  FALSE
        OBVIOUS
      <4>1. After(r.writes, o, z) /\ o \notin y /\ z \notin y
        BY <1>3
      <4>2. z \in Elements(r.writes) \ Comments
        BY <4>1, AfterIn
      <4>3. After(s.writes, o, z) /\ z \notin x
        BY <2>2, <4>1, <4>2
      <4> QED
        BY <1>3, <2>1, <2>2, <4>3
    <3>3. PICK p \in Elements(vs) \ Comments :
            (\A z : After(vs, p, z) => z \in Comments) /\ Latest(r, y).whole = Full(r, p)
      BY <1>5, <3>1
    <3>4. p = o
      BY <3>1, <3>2, <3>3, LastOne
    <3> QED
      BY <1>3, <2>3, <3>1, <3>3, <3>4
  <2> QED
    BY <2>1, <2>3
<1> QED
  BY <1>4, <1>6, <1>7

(* It is not whole for nothing, and whole if all is.                       *)
LEMMA WholeSome ==
  ASSUME NEW s \in Phone, Elements(s.writes) \ Comments \subseteq 1..Len(s.txn),
         Distinct(s.writes), NEW x, Latest(s, x).whole
  PROVE  s.cache.whole \/ \E t \in Elements(s.writes) \ Comments : Full(s, t)
<1>1. Elements(Without(s.writes, x)) = Elements(s.writes) \ x
  BY ElementsWithout DEF Phone
<1> QED
  BY <1>1, LatestWhole

(* Behind a whole post and whole results all that is read is whole.        *)
LEMMA WholeAll ==
  ASSUME NEW s \in Phone, Elements(s.writes) \ Comments \subseteq 1..Len(s.txn),
         Distinct(s.writes), NEW x, s.cache.whole,
         \A t \in Elements(s.writes) \ Comments : t \notin x => Full(s, t)
  PROVE  Latest(s, x).whole
<1>1. Elements(Without(s.writes, x)) = Elements(s.writes) \ x
  BY ElementsWithout DEF Phone
<1> QED
  BY <1>1, LatestWhole

(* Two sequences that share nothing make one without repetition.           *)
LEMMA DistinctConcat ==
  ASSUME NEW S, NEW q \in Seq(S), NEW u \in Seq(S), Distinct(q), Distinct(u),
         Elements(q) \cap Elements(u) = {}
  PROVE  Distinct(q \o u)
<1>1. PICK a : a = q \o u
  OBVIOUS
<1>2. /\ Len(q) \in Nat /\ Len(u) \in Nat /\ Len(a) = Len(q) + Len(u)
      /\ \A i \in 1..Len(q) : a[i] = q[i]
      /\ \A i \in 1..Len(u) : a[Len(q) + i] = u[i]
      /\ \A i \in 1..Len(a) : i \in 1..Len(q) \/ i - Len(q) \in 1..Len(u)
  BY <1>1, ConcatPlaces
<1>3. \A i \in 1..Len(a) : i \in 1..Len(q) \/ \E k \in 1..Len(u) : i = Len(q) + k
  <2> SUFFICES ASSUME NEW i \in 1..Len(a), i - Len(q) \in 1..Len(u)
               PROVE  i = Len(q) + (i - Len(q))
    BY <1>2
  <2> QED
    BY <1>2
<1>4. \A i \in 1..Len(q), k \in 1..Len(u) : q[i] # u[k]
  BY DEF Elements
<1>5. ASSUME NEW i \in 1..Len(a), NEW j \in 1..Len(a), a[i] = a[j]
      PROVE  i = j
  <2>1. CASE i \in 1..Len(q) /\ j \in 1..Len(q)
    BY <1>2, <1>5, <2>1 DEF Distinct
  <2>2. CASE i \in 1..Len(q) /\ j \notin 1..Len(q)
    BY <1>2, <1>3, <1>4, <1>5, <2>2
  <2>3. CASE i \notin 1..Len(q) /\ j \in 1..Len(q)
    BY <1>2, <1>3, <1>4, <1>5, <2>3
  <2>4. CASE i \notin 1..Len(q) /\ j \notin 1..Len(q)
    <3>1. PICK k \in 1..Len(u), n \in 1..Len(u) : i = Len(q) + k /\ j = Len(q) + n
      BY <1>3, <2>4
    <3> QED
      BY <1>2, <1>5, <3>1 DEF Distinct
  <2> QED
    BY <2>1, <2>2, <2>3, <2>4
<1> QED
  BY <1>1, <1>5 DEF Distinct

-----------------------------------------------------------------------------
(* What a handler does to the queue.                                       *)

(* A phone with the same writes, queue and results runs it on the same.    *)
LEMMA BaseSame ==
  ASSUME NEW s \in Phone, Elements(s.writes) \ Comments \subseteq 1..Len(s.txn),
         NEW r, r.cache = s.cache, r.writes = s.writes, r.queue = s.queue,
         \A t \in 1..Len(s.txn) : r.txn[t].out = s.txn[t].out
  PROVE  Base(r) = Base(s)
<1>1. PICK ws \in Seq(Nat \cup Comments) : ws = Without(s.writes, Elements(s.queue))
  BY ElementsWithout DEF Phone
<1>2. Elements(ws) \subseteq Elements(s.writes)
  BY <1>1, ElementsWithout DEF Phone
<1>3. \A t \in Elements(ws) \ Comments : r.txn[t].out = s.txn[t].out
  BY <1>2
<1>4. ws = Without(r.writes, Elements(r.queue))
  BY <1>1
<1> QED
  BY <1>1, <1>3, <1>4, LatestSame DEF Base

(* Messages stay truthful as long as the results they carry stay what they *)
(* are.                                                                    *)
LEMMA TruthsSame ==
  ASSUME NEW d, NEW s \in Phone, NEW l \in Line, NEW ap, NEW w, Sound(d, s, l, ap, w),
         Truths(s, Path(s, l)), NEW r, NEW p,
         \A t \in Of(s.txn, d) : s.txn[t].status \in Pending => Full(r, t) = Full(s, t),
         \A m \in Elements(p) :
           m \in Elements(Path(s, l)) \/ (m.type # "put" /\ Carried(m) = {})
  PROVE  Truths(r, p)
<1> SUFFICES ASSUME NEW m \in Elements(p)
             PROVE  Truthful(r, m)
  BY DEF Truths
<1>1. CASE m \in Elements(Path(s, l))
  <2>1. \A t \in Carried(m) : Full(r, t) = Full(s, t)
    BY <1>1, SoundPath DEF RightPath
  <2> QED
    BY <1>1, <2>1 DEF Truths, Truthful
<1>2. CASE m.type # "put" /\ Carried(m) = {}
  BY <1>2 DEF Truthful
<1> QED
  BY <1>1, <1>2

(* What the phone has underway, by its writes.                             *)
LEMMA WritesAre ==
  ASSUME NEW d, NEW s \in Phone, NEW l \in Line, NEW ap, NEW w, Sound(d, s, l, ap, w)
  PROVE  /\ Elements(s.writes) \ Comments = UnderWay(s.txn, d)
         /\ Elements(s.writes) \ Comments \subseteq 1..Len(s.txn)
         /\ Elements(s.queue) \subseteq UnderWay(s.txn, d)
         /\ Elements(s.queue) \subseteq 1..Len(s.txn)
         /\ Elements(s.queue) \subseteq Of(s.txn, d)
         /\ Elements(s.queue) \cap Comments = {}
         /\ \A t \in Elements(s.queue) :
              \/ t \in Outstanding(s) \/ s.txn[t].status = "run"
              \/ s.txn[t].status = "needsAbort"
         /\ \A t \in 1..Len(s.txn) : s.txn[t].retries \in Nat /\ s.txn[t].sets \in Nat
<1>1. Elements(s.writes) \ Comments = UnderWay(s.txn, d)
  BY DEF Sound, Listed
<1>2. /\ Elements(s.queue) \subseteq UnderWay(s.txn, d)
      /\ Elements(s.queue) \subseteq Elements(s.writes) \ Comments
      /\ Elements(s.writes) \ Comments \subseteq 1..Len(s.txn)
  BY QueuePending
<1>3. \A t \in Elements(s.queue) :
        t \in Of(s.txn, d) /\ s.txn[t].status \in Pending \cup {"run", "needsAbort"}
  BY DEF Sound, Queued
<1>4. \A t \in 1..Len(s.txn) : s.txn[t] \in Transactions
  BY ElementOfSeq DEF Phone
<1>5. \A t \in 1..Len(s.txn) : s.txn[t].retries \in Nat /\ s.txn[t].sets \in Nat
  <2>1. 0..MaxRetries \subseteq Nat
    BY RetriesAssumption
  <2> QED
    BY <1>4, <2>1 DEF Transactions
<1> QED
  BY <1>1, <1>2, <1>3, <1>5 DEF Outstanding

(* With the post seen and whole results of what was dropped, the queue is  *)
(* run on something whole; otherwise on nothing whole.                     *)
LEMMA BaseWhole ==
  ASSUME NEW d, NEW s \in Phone, NEW l \in Line, NEW ap, NEW w, Sound(d, s, l, ap, w),
         Seen(d, s)
  PROVE  /\ s.cache.whole /\ (\A t \in Left(d, s) : Full(s, t)) => Base(s).whole
         /\ \A x : Latest(s, x).whole => s.cache.whole
<1>1. /\ Elements(s.writes) \ Comments = UnderWay(s.txn, d)
      /\ Elements(s.writes) \ Comments \subseteq 1..Len(s.txn)
  BY WritesAre
<1>2. Distinct(s.writes) /\ Blind(d, s)
  BY DEF Seen, Tidy
<1>3. ASSUME s.cache.whole, \A t \in Left(d, s) : Full(s, t)
      PROVE  Base(s).whole
  <2>1. \A t \in Elements(s.writes) \ Comments : t \notin Elements(s.queue) => Full(s, t)
    BY <1>1, <1>3 DEF Left
  <2> QED
    BY <1>1, <1>2, <1>3, <2>1, WholeAll DEF Base
<1>4. ASSUME NEW x, Latest(s, x).whole
      PROVE  s.cache.whole
  BY <1>1, <1>2, <1>4, WholeSome DEF Blind
<1> QED
  BY <1>3, <1>4

(* What can be said before a queue is sent for the first, or the next,     *)
(* time.                                                                   *)
Even0(s) == Base(s).whole => \A t \in Elements(s.queue) : Full(s, t)
Ripe(d, s) ==
  (\A t \in Left(d, s) : Full(s, t)) =>
    \A t \in Elements(s.queue) : s.txn[t].retries >= 1 => Full(s, t)

(* A queue that is sent.                                                   *)
LEMMA SendSeen ==
  ASSUME NEW d, NEW s \in Phone, NEW l \in Line, NEW ap, NEW w, Sound(d, s, l, ap, w),
         Ready(s), Seen(d, s), Truths(s, Path(s, l)), Waits(s), Even0(s), Ripe(d, s),
         NEW r, r = SendReady(s)
  PROVE  Seen(d, r) /\ Truths(r, Path(r, l))
<1>1. /\ Elements(s.writes) \ Comments = UnderWay(s.txn, d)
      /\ Elements(s.writes) \ Comments \subseteq 1..Len(s.txn)
      /\ Elements(s.queue) \subseteq UnderWay(s.txn, d)
      /\ Elements(s.queue) \subseteq 1..Len(s.txn)
      /\ \A t \in 1..Len(s.txn) : s.txn[t].retries \in Nat /\ s.txn[t].sets \in Nat
  BY WritesAre
<1>2. r \in Phone /\ Launched(s, r)
  <2>1. \A t \in Elements(s.queue) :
           s.txn[t].status = "run" => s.txn[t].retries < MaxRetries
    BY DEF Ready
  <2> QED
    BY <1>1, <2>1, SendFacts
<1>3. /\ r.cache = s.cache /\ r.queue = s.queue /\ r.writes = s.writes
      /\ Len(r.txn) = Len(s.txn)
      /\ \A t \in 1..Len(s.txn) :
           r.txn[t] = IF t \in Elements(s.queue) THEN Attempted(s.txn[t]) ELSE s.txn[t]
      /\ r.unanswered = Append(s.unanswered, s.queue)
  BY <1>2 DEF Launched
<1>4. \A t \in 1..Len(s.txn) : /\ r.txn[t].out = s.txn[t].out /\ r.txn[t].told = s.txn[t].told
                               /\ r.txn[t].dev = s.txn[t].dev /\ Full(r, t) = Full(s, t)
  BY <1>2, SendOuts DEF Full
<1>5. PICK m : SentAs(m, s) /\ r.puts = Append(s.puts, m)
  BY <1>2, SendPut
<1>6. Base(r) = Base(s)
  BY <1>1, <1>3, <1>4, BaseSame
<1>7. UnderWay(r.txn, d) = UnderWay(s.txn, d) /\ UnderWay(s.txn, d) \subseteq 1..Len(s.txn)
  BY <1>3, <1>4 DEF UnderWay
<1>8. Left(d, r) = Left(d, s) /\ Left(d, s) \subseteq 1..Len(s.txn)
  BY <1>3, <1>7 DEF Left
<1>9. \A t \in Elements(s.queue) :
        r.txn[t].status = "sent" /\ r.txn[t].retries = s.txn[t].retries + 1
  <2>1. \A t \in 1..Len(s.txn) : s.txn[t] \in Transactions
    BY ElementOfSeq DEF Phone
  <2> QED
    BY <1>1, <1>3, <2>1 DEF Attempted, Transactions
<1>10. Seen(d, r)
  <2>1. Tidy(r) /\ Blind(d, r)
    BY <1>3, <1>4, <1>7 DEF Seen, Tidy, Blind
  <2>2. Even(r)
    BY <1>1, <1>3, <1>4, <1>6 DEF Even, Even0
  <2>3. Together(r) /\ Tried(r)
    BY <1>3, <1>9 DEF Together, Tried, Outstanding
  <2>4. Overridden(d, r)
    <3> SUFFICES ASSUME NEW t \in UnderWay(s.txn, d)
                 PROVE  /\ r.txn[t].status = "sentNeedsAbort" => r.txn[t].sets >= 1
                        /\ t \notin Elements(s.queue) => r.txn[t].sets >= 2
      BY <1>3, <1>7 DEF Overridden
    <3>1. CASE t \in Elements(s.queue)
      BY <1>9, <3>1
    <3>2. CASE t \notin Elements(s.queue)
      BY <1>3, <1>7, <3>2 DEF Seen, Overridden
    <3> QED
      BY <3>1, <3>2
  <2>5. Mature(d, r)
    <3> SUFFICES ASSUME \A t \in Left(d, s) : Full(s, t),
                        NEW t \in Elements(s.queue), r.txn[t].retries >= 2
                 PROVE  Full(s, t)
      BY <1>1, <1>3, <1>4, <1>8 DEF Mature
    <3>1. s.txn[t].retries >= 1
      BY <1>1, <1>9
    <3> QED
      BY <3>1 DEF Ripe
  <2> QED
    BY <2>1, <2>2, <2>3, <2>4, <2>5 DEF Seen
<1>11. Truths(r, Path(r, l))
  <2>1. /\ m \in Puts /\ m.batch = s.queue /\ m.hash = Base(s)
        /\ m.data = s.txn[Final(s.queue)].out /\ m.type = "put"
    BY <1>5 DEF SentAs, Base, Puts
  <2>2. Asks(r, l) = Append(Asks(s, l), m) /\ Asks(s, l) \in Seq(Requests)
        /\ m \in Requests /\ Carried(m) = Elements(s.queue)
    <3>1. 0 \in Nat
      OBVIOUS
    <3> QED
      BY SMTT(30), <1>2, <1>3, <1>5, <2>1, <3>1, PutPlaces
  <2>3. Elements(Asks(r, l)) = Elements(Asks(s, l)) \cup {m}
    BY <2>2, ElementsAppend
  <2>4. Elements(Path(r, l)) \subseteq Elements(Path(s, l)) \cup {m}
    <3>1. /\ Elements(Path(r, l)) = Everywhere(r, l)
          /\ Elements(Path(s, l)) = Everywhere(s, l)
      BY <1>2, Places
    <3> QED
      BY <2>3, <3>1 DEF Everywhere
  <2>5. Truthful(r, m)
    <3>1. s.queue \in Seq(Nat) /\ s.queue # << >>
      BY DEF Waits, Phone
    <3>2. Final(s.queue) \in Elements(s.queue)
      BY <3>1, FinalIn
    <3>3. ASSUME m.hash.whole
          PROVE  m.data.whole /\ \A t \in Carried(m) : Full(r, t)
      <4>1. \A t \in Elements(s.queue) : Full(s, t)
        BY <2>1, <3>3 DEF Even0
      <4> QED
        BY <1>1, <1>4, <2>1, <2>2, <3>2, <4>1 DEF Full
    <3> QED
      BY <2>1, <3>3 DEF Truthful, Accepts
  <2>6. \A x \in Elements(Path(s, l)) : Truthful(r, x)
    <3>1. \A t \in Of(s.txn, d) : Full(r, t) = Full(s, t)
      BY <1>4 DEF Of
    <3>2. Truths(r, Path(s, l))
      BY <3>1, TruthsSame
    <3> QED
      BY <3>2 DEF Truths
  <2> QED
    BY <2>4, <2>5, <2>6 DEF Truths
<1> QED
  BY <1>10, <1>11

(* A queue that is run again.                                              *)
LEMMA RerunBase ==
  ASSUME NEW d, NEW s \in Phone, NEW l \in Line, NEW ap, NEW w, Sound(d, s, l, ap, w),
         Seen(d, s), NEW r, r = Rerun(s)
  PROVE  /\ r \in Phone /\ Reran(s, r) /\ Sound(d, r, l, ap, w) /\ Ready(r) /\ Tidy(r)
         /\ \A t \in Again(s) : Full(r, t) = Base(s).whole
         /\ \A t \in 1..Len(s.txn) : t \notin Again(s) => Full(r, t) = Full(s, t)
         /\ Base(r).whole => Base(s).whole
         /\ Left(d, r) = Left(d, s) /\ UnderWay(r.txn, d) \subseteq UnderWay(s.txn, d) \ Gone(s)
<1>1. /\ Elements(s.writes) \ Comments = UnderWay(s.txn, d)
      /\ Elements(s.writes) \ Comments \subseteq 1..Len(s.txn)
      /\ Elements(s.queue) \subseteq UnderWay(s.txn, d)
      /\ Elements(s.queue) \subseteq 1..Len(s.txn)
      /\ Elements(s.queue) \cap Comments = {}
  BY WritesAre
<1>2. r \in Phone /\ Reran(s, r)
  BY <1>1, RerunFacts
<1>3. Sound(d, r, l, ap, w) /\ Ready(r)
  BY <1>2, RerunSound
<1>4. RanAgain(s, r)
  BY <1>1, <1>2, RerunOuts
<1>5. PICK g, a : g = Gone(s) /\ a = Again(s)
  OBVIOUS
<1>6. PICK again \in Seq(Nat) : again = Only(s.queue, a)
  BY ElementsOnly DEF Phone
<1>7. /\ r.queue = Without(s.queue, g) /\ r.writes = Without(s.writes, g \cup a) \o again
      /\ a = Elements(again)
      /\ Elements(r.queue) = Elements(s.queue) \ g
      /\ r.cache = s.cache /\ Len(r.txn) = Len(s.txn)
      /\ Elements(r.writes) = (Elements(s.writes) \ (g \cup a)) \cup a
  BY <1>2, <1>4, <1>5, <1>6 DEF RanAgain, Reran
<1>8. a \subseteq Elements(s.queue) /\ g \subseteq Elements(s.queue) /\ a \cap g = {}
  BY <1>5 DEF Again, Gone, Tired
<1>9. /\ again \in Seq(Nat \cup Comments)
      /\ Without(s.writes, g \cup a) \in Seq(Nat \cup Comments)
      /\ Elements(Without(s.writes, g \cup a)) = Elements(s.writes) \ (g \cup a)
      /\ s.queue \in Seq(Nat) /\ s.writes \in Seq(Nat \cup Comments)
  <2>1. s.queue \in Seq(Nat) /\ s.writes \in Seq(Nat \cup Comments)
    BY DEF Phone
  <2>2. again \in Seq(Nat \cup Comments)
    OBVIOUS
  <2> QED
    BY <2>1, <2>2, ElementsWithout
<1>10. Tidy(r)
  <2>1. Distinct(s.queue) /\ Distinct(s.writes)
    BY DEF Seen, Tidy
  <2>2. Distinct(r.queue) /\ Distinct(again)
    BY <1>6, <1>7, <1>9, <2>1, DistinctOnly DEF Without
  <2>3. Distinct(Without(s.writes, g \cup a))
    BY <1>9, <2>1, DistinctOnly DEF Without
  <2>4. Elements(Without(s.writes, g \cup a)) \cap Elements(again) = {}
    BY <1>7, <1>9
  <2>5. Distinct(r.writes)
    <3>1. PICK u, v : u = Without(s.writes, g \cup a) /\ v = again
      OBVIOUS
    <3>2. u \in Seq(Nat \cup Comments) /\ v \in Seq(Nat \cup Comments) /\ Distinct(u)
          /\ Distinct(v) /\ Elements(u) \cap Elements(v) = {} /\ r.writes = u \o v
      BY <1>7, <1>9, <2>2, <2>3, <2>4, <3>1
    <3> QED
      BY <3>2, DistinctConcat
  <2> QED
    BY <2>2, <2>5 DEF Tidy
<1>11. \A t \in a : Full(r, t) = Base(s).whole
  <2>1. PICK n \in Node : n = Base(s)
    BY <1>1, LatestType DEF Base
  <2>2. \A k : Plus(n, k).whole = n.whole
    BY NodeFields
  <2>3. \A t \in a : \E k : r.txn[t].out = Plus(n, k)
    BY <1>4, <1>5, <2>1 DEF RanAgain, Base
  <2> QED
    BY <2>1, <2>2, <2>3 DEF Full
<1>12. \A t \in 1..Len(s.txn) : t \notin a => Full(r, t) = Full(s, t)
  BY <1>4, <1>5 DEF RanAgain, Full
<1>13. Base(r).whole => Base(s).whole
  <2> SUFFICES ASSUME Base(r).whole
               PROVE  Base(s).whole
    OBVIOUS
  <2>1. PICK x, y : x = Elements(s.queue) /\ y = Elements(r.queue)
    OBVIOUS
  <2>2. a \subseteq y /\ y = x \ g
    BY <1>7, <1>8, <2>1
  <2>3. \A t \in Elements(r.writes) \ Comments :
           t \notin y => t \in Elements(s.writes) /\ t \notin x /\ (Full(r, t) => Full(s, t))
    BY <1>1, <1>7, <1>12, <2>1, <2>2
  <2>4. \A p, q : After(r.writes, p, q) /\ p \notin y /\ q \notin y /\ p \notin Comments
                     /\ q \notin Comments => After(s.writes, p, q)
    <3> SUFFICES ASSUME NEW p, NEW q, After(r.writes, p, q), q \notin y
                 PROVE  After(s.writes, p, q)
      OBVIOUS
    <3>1. q \notin Elements(again)
      BY <1>7, <2>2
    <3>2. ~After(again, p, q)
      BY <3>1, AfterIn
    <3>3. PICK u, v : u = Without(s.writes, g \cup a) /\ v = again
      OBVIOUS
    <3>4. u \in Seq(Nat \cup Comments) /\ v \in Seq(Nat \cup Comments)
          /\ After(u \o v, p, q)
      BY <1>7, <1>9, <3>3
    <3>5. After(u, p, q)
      BY <3>1, <3>2, <3>3, <3>4, AfterConcat
    <3> QED
      BY <1>9, <3>3, <3>5, AfterWithout
  <2>5. \A t \in Elements(s.writes) \ Comments :
           t \notin x => (t \in Elements(r.writes) /\ t \notin y) \/ Full(s, t)
    BY <1>7, <1>8, <2>1, <2>2
  <2>6. Elements(r.writes) \ Comments \subseteq 1..Len(r.txn)
    BY <1>2, <1>3, WritesAre
  <2>7. Distinct(s.writes) /\ Distinct(r.writes)
    BY <1>10 DEF Seen, Tidy
  <2>8. Latest(r, y).whole
    BY <2>1 DEF Base
  <2>9. Latest(s, x).whole
    BY <1>1, <1>2, <1>7, <2>3, <2>4, <2>5, <2>6, <2>7, <2>8, WholeFrom
  <2> QED
    BY <2>1, <2>9 DEF Base
<1>14. UnderWay(r.txn, d) \subseteq UnderWay(s.txn, d) \ g
  <2> SUFFICES ASSUME NEW t \in UnderWay(r.txn, d)
               PROVE  t \in UnderWay(s.txn, d) /\ t \notin g
    OBVIOUS
  <2>1. t \in 1..Len(s.txn) /\ r.txn[t].dev = d /\ r.txn[t].told = "none" /\ t \in Of(r.txn, d)
    BY <1>7 DEF UnderWay, Of
  <2>2. r.txn[t].status # "completed"
    BY <1>3, <2>1 DEF Sound, Upright, Honest
  <2>3. s.txn[t] \in Transactions
    BY <2>1, ElementOfSeq DEF Phone
  <2>4. t \notin g
    BY <1>2, <1>5, <2>1, <2>2, <2>3 DEF Reran, Transactions
  <2>5. s.txn[t].dev = d /\ s.txn[t].told = "none"
    <3>1. CASE t \in a
      BY <1>2, <1>5, <2>1, <2>3, <3>1 DEF Reran, Transactions
    <3>2. CASE t \notin a
      BY <1>2, <1>5, <2>1, <2>4, <3>2 DEF Reran
    <3> QED
      BY <3>1, <3>2
  <2> QED
    BY <2>1, <2>4, <2>5 DEF UnderWay
<1>15. Left(d, r) = Left(d, s)
  <2>1. Left(d, r) \subseteq Left(d, s)
    BY <1>7, <1>14 DEF Left
  <2>2. ASSUME NEW t \in Left(d, s)
        PROVE  t \in Left(d, r)
    <3>1. t \in 1..Len(s.txn) /\ t \notin Elements(s.queue) /\ s.txn[t].dev = d
          /\ s.txn[t].told = "none"
      BY DEF Left, UnderWay
    <3>2. t \notin a /\ t \notin g
      BY <1>8, <3>1
    <3>3. r.txn[t] = s.txn[t]
      BY <1>2, <1>5, <3>1, <3>2 DEF Reran
    <3> QED
      BY <1>7, <3>1, <3>3 DEF Left, UnderWay
  <2> QED
    BY <2>1, <2>2
<1> QED
  BY <1>2, <1>3, <1>5, <1>10, <1>11, <1>12, <1>13, <1>14, <1>15

(* Running the queue again keeps what a phone knows; if nothing of it is   *)
(* on its way, it may be sent.                                             *)
LEMMA RerunSeen ==
  ASSUME NEW d, NEW s \in Phone, NEW l \in Line, NEW ap, NEW w, Sound(d, s, l, ap, w),
         Seen(d, s), Truths(s, Path(s, l)), NEW r, r = Rerun(s)
  PROVE  /\ Seen(d, r) /\ Truths(r, Path(r, l))
         /\ Outstanding(s) = {} => Even0(r) /\ Ripe(d, r)
<1>1. /\ r \in Phone /\ Reran(s, r) /\ Sound(d, r, l, ap, w) /\ Ready(r) /\ Tidy(r)
      /\ \A t \in Again(s) : Full(r, t) = Base(s).whole
      /\ \A t \in 1..Len(s.txn) : t \notin Again(s) => Full(r, t) = Full(s, t)
      /\ Base(r).whole => Base(s).whole
      /\ Left(d, r) = Left(d, s) /\ UnderWay(r.txn, d) \subseteq UnderWay(s.txn, d) \ Gone(s)
  BY RerunBase
<1>2. /\ Elements(s.writes) \ Comments = UnderWay(s.txn, d)
      /\ Elements(s.queue) \subseteq UnderWay(s.txn, d)
      /\ Elements(s.queue) \subseteq 1..Len(s.txn)
      /\ \A t \in Elements(s.queue) :
           \/ t \in Outstanding(s) \/ s.txn[t].status = "run"
           \/ s.txn[t].status = "needsAbort"
  BY WritesAre
<1>3. /\ Elements(r.queue) = Elements(s.queue) \ Gone(s)
      /\ r.cache = s.cache /\ r.puts = s.puts /\ Len(r.txn) = Len(s.txn)
      /\ UnderWay(s.txn, d) \subseteq 1..Len(s.txn)
  BY <1>1 DEF Reran, UnderWay
<1>4. /\ \A t \in Again(s) : s.txn[t].status = "run" /\ t \in Elements(s.queue)
      /\ \A t \in Elements(r.queue) : t \in Again(s) \/ (t \in Outstanding(s) /\ t \notin Again(s))
  <2>1. \A t \in Again(s) : s.txn[t].status = "run" /\ t \in Elements(s.queue)
    BY DEF Again
  <2>2. \A t \in Outstanding(s) : t \notin Again(s)
    BY <2>1 DEF Outstanding, Pending
  <2>3. \A t \in Elements(s.queue) : t \in Gone(s) \/ t \in Again(s) \/ t \in Outstanding(s)
    BY <1>2 DEF Gone, Again
  <2> QED
    BY <1>3, <2>1, <2>2, <2>3
<1>5. \A t \in 1..Len(s.txn) \ Gone(s) :
        /\ r.txn[t].status = s.txn[t].status /\ r.txn[t].retries = s.txn[t].retries
        /\ r.txn[t].sets = s.txn[t].sets
  <2> SUFFICES ASSUME NEW t \in 1..Len(s.txn) \ Gone(s)
               PROVE  /\ r.txn[t].status = s.txn[t].status /\ r.txn[t].retries = s.txn[t].retries
                      /\ r.txn[t].sets = s.txn[t].sets
    OBVIOUS
  <2>1. s.txn[t] \in Transactions
    BY ElementOfSeq DEF Phone
  <2>2. CASE t \in Again(s)
    BY <1>1, <2>1, <2>2 DEF Reran, Transactions
  <2>3. CASE t \notin Again(s)
    BY <1>1, <2>3 DEF Reran
  <2> QED
    BY <2>2, <2>3
<1>6. /\ s.cache.whole /\ (\A t \in Left(d, s) : Full(s, t)) => Base(s).whole
      /\ \A x : Latest(s, x).whole => s.cache.whole
  BY BaseWhole
<1>7. Outstanding(r) \subseteq Outstanding(s)
  <2>1. \A t \in Elements(r.queue) : t \in Elements(s.queue) /\ r.txn[t].status = s.txn[t].status
    BY <1>2, <1>3, <1>5
  <2> QED
    BY <2>1 DEF Outstanding
<1>8. Blind(d, r)
  <2> SUFFICES ASSUME ~s.cache.whole, NEW t \in UnderWay(r.txn, d)
               PROVE  ~Full(r, t)
    BY <1>3 DEF Blind
  <2>1. t \in UnderWay(s.txn, d) /\ t \in 1..Len(s.txn)
    BY <1>1, <1>3
  <2>2. CASE t \in Again(s)
    BY <1>1, <1>6, <2>2 DEF Base
  <2>3. CASE t \notin Again(s)
    BY <1>1, <2>1, <2>3 DEF Seen, Blind
  <2> QED
    BY <2>2, <2>3
<1>9. Even(r)
  <2> SUFFICES ASSUME NEW x \in Outstanding(r), Full(r, x), Base(r).whole,
                      NEW t \in Elements(r.queue)
               PROVE  Full(r, t)
    BY DEF Even
  <2>1. x \in Outstanding(s) /\ x \notin Again(s) /\ x \in 1..Len(s.txn)
    BY <1>2, <1>4, <1>7 DEF Outstanding, Pending
  <2>2. Full(s, x) /\ Base(s).whole
    BY <1>1, <2>1
  <2>3. \A y \in Elements(s.queue) : Full(s, y)
    BY <2>1, <2>2 DEF Seen, Even
  <2> QED
    BY <1>1, <1>2, <1>3, <2>2, <2>3
<1>10. Together(r)
  <2>1. \A t \in Outstanding(r) : r.txn[t].status = s.txn[t].status
    BY <1>2, <1>3, <1>5 DEF Outstanding
  <2> QED
    BY <1>7, <2>1 DEF Seen, Together
<1>11. Overridden(d, r)
  <2> SUFFICES ASSUME NEW t \in UnderWay(r.txn, d)
               PROVE  /\ r.txn[t].status = "sentNeedsAbort" => r.txn[t].sets >= 1
                      /\ t \notin Elements(r.queue) => r.txn[t].sets >= 2
    BY DEF Overridden
  <2>1. t \in UnderWay(s.txn, d) /\ t \in 1..Len(s.txn) \ Gone(s)
    BY <1>1, <1>3
  <2> QED
    BY <1>3, <1>5, <2>1 DEF Seen, Overridden
<1>12. ASSUME \A t \in Left(d, r) : Full(r, t), NEW t \in Elements(r.queue),
              r.txn[t].retries >= 1, t \in Again(s)
       PROVE  Full(r, t)
  <2>1. t \in Elements(s.queue) /\ s.txn[t].status = "run" /\ s.txn[t].retries >= 1
    BY <1>2, <1>3, <1>4, <1>5, <1>12
  <2>2. s.cache.whole
    BY <2>1 DEF Seen, Tried
  <2>3. \A x \in Left(d, s) : Full(s, x)
    <3>1. \A x \in Left(d, s) : x \notin Again(s) /\ x \in 1..Len(s.txn)
      BY <1>3, <1>4 DEF Left
    <3> QED
      BY <1>1, <1>12, <3>1
  <2> QED
    BY <1>1, <1>6, <1>12, <2>2, <2>3
<1>13. Mature(d, r)
  <2> SUFFICES ASSUME \A t \in Left(d, r) : Full(r, t), NEW t \in Elements(r.queue),
                      r.txn[t].retries >= 2
               PROVE  Full(r, t)
    BY DEF Mature
  <2>1. t \in Elements(s.queue) /\ r.txn[t].retries = s.txn[t].retries /\ s.txn[t].retries \in Nat
    BY <1>2, <1>3, <1>5, WritesAre
  <2>2. CASE t \in Again(s)
    BY <1>12, <2>1, <2>2
  <2>3. CASE t \notin Again(s)
    <3>1. \A x \in Left(d, s) : x \notin Again(s) /\ x \in 1..Len(s.txn)
      BY <1>3, <1>4 DEF Left
    <3>2. \A x \in Left(d, s) : Full(s, x)
      BY <1>1, <3>1
    <3>3. Full(s, t)
      BY <2>1, <3>2 DEF Seen, Mature
    <3> QED
      BY <1>1, <1>2, <2>1, <2>3, <3>3
  <2> QED
    BY <2>2, <2>3
<1>14. Tried(r)
  <2>1. \A t \in Elements(r.queue) : t \in Elements(s.queue) /\ r.txn[t].status = s.txn[t].status
          /\ r.txn[t].retries = s.txn[t].retries
    BY <1>2, <1>3, <1>5
  <2> QED
    BY <1>3, <2>1 DEF Seen, Tried
<1>15. Truths(r, Path(r, l))
  <2>1. Path(r, l) = Path(s, l)
    BY <1>3 DEF Path, Road, Asks
  <2>2. \A t \in Of(s.txn, d) : s.txn[t].status \in Pending => Full(r, t) = Full(s, t)
    <3>1. \A t \in Again(s) : s.txn[t].status \notin Pending
      BY <1>4 DEF Pending
    <3> QED
      BY <1>1, <3>1 DEF Of
  <2> QED
    BY <2>1, <2>2, TruthsSame
<1>16. ASSUME Outstanding(s) = {}
       PROVE  Even0(r) /\ Ripe(d, r)
  <2>1. \A t \in Elements(r.queue) : t \in Again(s)
    BY <1>4, <1>16
  <2> QED
    BY <1>1, <1>12, <2>1 DEF Even0, Ripe
<1> QED
  BY <1>1, <1>8, <1>9, <1>10, <1>11, <1>13, <1>14, <1>15, <1>16 DEF Seen

(* Run again and sent.                                                     *)
LEMMA ResentSeen ==
  ASSUME NEW d, NEW s \in Phone, NEW l \in Line, NEW ap, NEW w, Sound(d, s, l, ap, w),
         Seen(d, s), Truths(s, Path(s, l)), NEW r, Resent(s, r)
  PROVE  Seen(d, r) /\ Truths(r, Path(r, l))
<1>1. PICK a : a = Rerun(s) /\ r = SendReady(a)
  BY DEF Resent
<1>2. /\ a \in Phone /\ Reran(s, a) /\ Sound(d, a, l, ap, w) /\ Ready(a)
  BY <1>1, RerunBase
<1>3. /\ Seen(d, a) /\ Truths(a, Path(a, l))
      /\ Outstanding(s) = {} => Even0(a) /\ Ripe(d, a)
  BY <1>1, RerunSeen
<1>4. IF Waits(a) THEN Launched(a, r) ELSE r = a
  <2>1. /\ Elements(a.writes) \ Comments \subseteq 1..Len(a.txn)
        /\ Elements(a.queue) \subseteq 1..Len(a.txn)
    BY <1>2, WritesAre
  <2>2. \A t \in Elements(a.queue) :
           a.txn[t].status = "run" => a.txn[t].retries < MaxRetries
    BY <1>2 DEF Ready
  <2> QED
    BY <1>1, <1>2, <2>1, <2>2, SendFacts
<1>5. CASE Waits(a)
  <2>1. Outstanding(s) = {}
    <3> SUFFICES ASSUME NEW t \in Outstanding(s)
                 PROVE  FALSE
      OBVIOUS
    <3>1. t \in Elements(s.queue) /\ s.txn[t].status \in Pending /\ t \in 1..Len(s.txn)
      BY WritesAre DEF Outstanding
    <3>2. t \notin Gone(s) /\ t \notin Again(s)
      BY <3>1 DEF Gone, Again, Tired, Pending
    <3>3. t \in Elements(a.queue) /\ a.txn[t] = s.txn[t]
      BY <1>2, <3>1, <3>2 DEF Reran
    <3> QED
      BY <1>5, <3>1, <3>3 DEF Waits, Pending
  <2> QED
    BY <1>1, <1>2, <1>3, <1>5, <2>1, SendSeen
<1>6. CASE ~Waits(a)
  BY <1>3, <1>4, <1>6
<1> QED
  BY <1>5, <1>6


(* A phone on which only the post has become whole, or that has nothing    *)
(* under way.                                                              *)
LEMMA KeepSeen ==
  ASSUME NEW d, NEW s \in Phone, NEW l \in Line, NEW ap, NEW w, Sound(d, s, l, ap, w),
         Seen(d, s), NEW r \in Phone, Of(r.txn, d) = Of(s.txn, d),
         \A t \in Of(s.txn, d) : r.txn[t] = s.txn[t],
         r.queue = s.queue, r.writes = s.writes,
         Elements(s.writes) \ Comments \subseteq 1..Len(r.txn),
         r.cache.whole = s.cache.whole \/ r.cache.whole \/ UnderWay(s.txn, d) = {}
  PROVE  Seen(d, r)
<1>1. /\ Elements(s.writes) \ Comments = UnderWay(s.txn, d)
      /\ Elements(s.writes) \ Comments \subseteq 1..Len(s.txn)
      /\ Elements(s.queue) \subseteq UnderWay(s.txn, d)
      /\ Elements(s.queue) \subseteq Of(s.txn, d)
  BY WritesAre
<1>2. UnderWay(r.txn, d) = UnderWay(s.txn, d) /\ UnderWay(s.txn, d) \subseteq Of(s.txn, d)
  <2>1. /\ UnderWay(r.txn, d) = {t \in Of(r.txn, d) : r.txn[t].told = "none"}
        /\ UnderWay(s.txn, d) = {t \in Of(s.txn, d) : s.txn[t].told = "none"}
    BY DEF UnderWay, Of
  <2> QED
    BY <2>1
<1>3. \A t \in UnderWay(s.txn, d) : r.txn[t] = s.txn[t] /\ Full(r, t) = Full(s, t)
  BY <1>2 DEF Full
<1>4. /\ Outstanding(r) = Outstanding(s) /\ Left(d, r) = Left(d, s)
      /\ Outstanding(s) \subseteq UnderWay(s.txn, d) /\ Left(d, s) \subseteq UnderWay(s.txn, d)
  BY <1>1, <1>2, <1>3 DEF Outstanding, Left
<1>5. Tidy(r) /\ Together(r) /\ Overridden(d, r) /\ Mature(d, r)
  <2>1. Tidy(r)
    BY DEF Seen, Tidy
  <2>2. Together(r)
    BY <1>3, <1>4 DEF Seen, Together
  <2>3. Overridden(d, r)
    BY <1>2, <1>3 DEF Seen, Overridden
  <2>4. Mature(d, r)
    BY <1>1, <1>3, <1>4 DEF Seen, Mature
  <2> QED
    BY <2>1, <2>2, <2>3, <2>4
<1>6. CASE UnderWay(s.txn, d) = {}
  <2>1. Blind(d, r) /\ Even(r) /\ Tried(r)
    BY <1>1, <1>2, <1>4, <1>6 DEF Blind, Even, Tried
  <2> QED
    BY <1>5, <2>1 DEF Seen
<1>7. CASE UnderWay(s.txn, d) # {} /\ (r.cache.whole = s.cache.whole \/ r.cache.whole)
  <2>1. Blind(d, r) /\ Tried(r)
    BY <1>1, <1>2, <1>3, <1>7 DEF Seen, Blind, Tried
  <2>2. Even(r)
    <3> SUFFICES ASSUME NEW x \in Outstanding(r), Full(r, x), Base(r).whole
                 PROVE  \A t \in Elements(r.queue) : Full(r, t)
      BY DEF Even
    <3>1. x \in Outstanding(s) /\ Full(s, x) /\ x \in UnderWay(s.txn, d)
      BY <1>3, <1>4
    <3>2. s.cache.whole
      BY <3>1 DEF Seen, Blind
    <3>3. PICK y : y = Elements(s.queue)
      OBVIOUS
    <3>4. Latest(r, y).whole
      BY <3>3 DEF Base
    <3>5. Distinct(s.writes) /\ Distinct(r.writes)
      BY DEF Seen, Tidy
    <3>6. \A t \in Elements(r.writes) \ Comments :
            t \notin y => t \in Elements(s.writes) /\ t \notin y /\ (Full(r, t) => Full(s, t))
      BY <1>1, <1>3
    <3>7. Latest(s, y).whole
      BY <1>1, <3>2, <3>4, <3>5, <3>6, WholeFrom
    <3>8. \A t \in Elements(s.queue) : Full(s, t)
      BY <3>1, <3>3, <3>7 DEF Seen, Even, Base
    <3> QED
      BY <1>1, <1>3, <3>8
  <2> QED
    BY <1>5, <2>1, <2>2 DEF Seen
<1> QED
  BY <1>6, <1>7

(* What is on the way is sooner or later carried by someone.               *)
LEMMA PathTruths ==
  ASSUME NEW d, NEW s \in Phone, NEW l \in Line, NEW ap, NEW w, Sound(d, s, l, ap, w),
         Truths(s, Path(s, l)), NEW r,
         \A t \in Of(s.txn, d) : r.txn[t].out = s.txn[t].out,
         NEW p, Elements(p) \subseteq Elements(Path(s, l))
  PROVE  Truths(r, p)
<1>1. \A t \in Of(s.txn, d) : s.txn[t].status \in Pending => Full(r, t) = Full(s, t)
  BY DEF Full
<1> QED
  BY <1>1, TruthsSame

(* The answer to a comment is handled.                                     *)
LEMMA ForgetSeen ==
  ASSUME NEW d, NEW s \in Phone, NEW l \in Line, NEW ap, NEW w, Sound(d, s, l, ap, w),
         Seen(d, s), NEW g, g \subseteq Comments, NEW r, r = Forget(s, g)
  PROVE  Seen(d, r)
<1>1. /\ Elements(s.writes) \ Comments = UnderWay(s.txn, d)
      /\ Elements(s.writes) \ Comments \subseteq 1..Len(s.txn)
      /\ Elements(s.queue) \subseteq UnderWay(s.txn, d)
      /\ Elements(s.queue) \subseteq Of(s.txn, d)
  BY WritesAre
<1>2. /\ r \in Phone /\ r.cache = s.cache /\ r.queue = s.queue /\ r.txn = s.txn
      /\ Elements(r.writes) = Elements(s.writes) \ g
  BY ForgetFacts
<1>3. /\ r.writes = Without(s.writes, g)
      /\ \A x, y : After(r.writes, x, y) <=> After(s.writes, x, y) /\ x \notin g /\ y \notin g
  BY ForgetOrder
<1>4. \A t : Full(r, t) = Full(s, t)
  BY <1>2 DEF Full
<1>5. /\ Outstanding(r) = Outstanding(s) /\ Left(d, r) = Left(d, s)
      /\ UnderWay(r.txn, d) = UnderWay(s.txn, d)
  BY <1>2 DEF Outstanding, Left
<1>6. Tidy(r)
  <2>1. s.writes \in Seq(Nat \cup Comments) /\ Distinct(s.writes) /\ Distinct(s.queue)
    BY DEF Seen, Tidy, Phone
  <2>2. Distinct(r.writes)
    BY <1>3, <2>1, DistinctOnly DEF Without
  <2> QED
    BY <1>2, <2>1, <2>2 DEF Tidy
<1>7. Together(r) /\ Overridden(d, r) /\ Mature(d, r) /\ Blind(d, r) /\ Tried(r)
  <2>1. Together(r)
    BY <1>2, <1>5 DEF Seen, Together
  <2>2. Overridden(d, r)
    BY <1>2, <1>5 DEF Seen, Overridden
  <2>3. Mature(d, r)
    BY <1>2, <1>4, <1>5 DEF Seen, Mature
  <2>4. Blind(d, r)
    BY <1>2, <1>4, <1>5 DEF Seen, Blind
  <2>5. Tried(r)
    BY <1>2 DEF Seen, Tried
  <2> QED
    BY <2>1, <2>2, <2>3, <2>4, <2>5
<1>8. Even(r)
  <2> SUFFICES ASSUME NEW x \in Outstanding(r), Full(r, x), Base(r).whole
               PROVE  \A t \in Elements(r.queue) : Full(r, t)
    BY DEF Even
  <2>1. PICK y : y = Elements(s.queue)
    OBVIOUS
  <2>2. Latest(r, y).whole
    BY <1>2, <2>1 DEF Base
  <2>3. Distinct(s.writes) /\ Distinct(r.writes)
    BY <1>6 DEF Seen, Tidy
  <2>4. \A t \in Elements(r.writes) \ Comments :
          t \notin y => t \in Elements(s.writes) /\ t \notin y /\ (Full(r, t) => Full(s, t))
    BY <1>2, <1>4
  <2>5. \A a, b : After(r.writes, a, b) /\ a \notin y /\ b \notin y /\ a \notin Comments
                    /\ b \notin Comments => After(s.writes, a, b)
    BY <1>3
  <2>6. \A t \in Elements(s.writes) \ Comments :
          t \notin y => (t \in Elements(r.writes) /\ t \notin y) \/ Full(s, t)
    BY <1>2
  <2>7. Elements(r.writes) \ Comments \subseteq 1..Len(r.txn)
    BY <1>1, <1>2
  <2>8. Latest(s, y).whole
    BY <1>1, <1>2, <2>2, <2>3, <2>4, <2>5, <2>6, <2>7, WholeFrom
  <2>9. \A t \in Elements(s.queue) : Full(s, t)
    BY <1>4, <1>5, <2>1, <2>8 DEF Seen, Even, Base
  <2> QED
    BY <1>2, <1>4, <2>9
<1> QED
  BY <1>6, <1>7, <1>8 DEF Seen

(* A comment is set: what was not outstanding is dropped.                  *)
LEMMA CommentSeen ==
  ASSUME NEW d, NEW s \in Phone, NEW l \in Line, NEW ap, NEW w, Sound(d, s, l, ap, w),
         Seen(d, s), NEW c \in Comments, c \notin w,
         NEW b \in Phone, b.queue = s.queue, b.writes = Append(s.writes, c),
         b.cache = s.cache, Len(b.txn) = Len(s.txn),
         \A t \in 1..Len(s.txn) : b.txn[t].out = s.txn[t].out /\ Alike(b.txn[t], s.txn[t]),
         \A t \in UnderWay(s.txn, d) : b.txn[t].sets = s.txn[t].sets + 1
  PROVE  /\ Seen(d, b) /\ UnderWay(b.txn, d) = UnderWay(s.txn, d)
         /\ \A t \in UnderWay(b.txn, d) :
              /\ b.txn[t].sets >= 1
              /\ b.txn[t].status = "sentNeedsAbort" => b.txn[t].sets >= 2
<1>1. /\ Elements(s.writes) \ Comments = UnderWay(s.txn, d)
      /\ Elements(s.writes) \ Comments \subseteq 1..Len(s.txn)
      /\ Elements(s.queue) \subseteq UnderWay(s.txn, d)
      /\ \A t \in 1..Len(s.txn) : s.txn[t].retries \in Nat /\ s.txn[t].sets \in Nat
  BY WritesAre
<1>2. UnderWay(b.txn, d) = UnderWay(s.txn, d) /\ UnderWay(s.txn, d) \subseteq 1..Len(s.txn)
  BY DEF UnderWay, Alike
<1>3. \A t \in UnderWay(s.txn, d) :
        /\ Full(b, t) = Full(s, t) /\ b.txn[t].status = s.txn[t].status
        /\ b.txn[t].retries = s.txn[t].retries
        /\ b.txn[t].sets = s.txn[t].sets + 1 /\ s.txn[t].sets \in Nat
  BY <1>1, <1>2 DEF Full, Alike
<1>4. /\ Outstanding(b) = Outstanding(s) /\ Left(d, b) = Left(d, s)
      /\ Outstanding(s) \subseteq UnderWay(s.txn, d) /\ Left(d, s) \subseteq UnderWay(s.txn, d)
  BY <1>1, <1>2, <1>3 DEF Outstanding, Left
<1>5. /\ s.writes \in Seq(Nat \cup Comments) /\ c \in Nat \cup Comments
      /\ Distinct(s.writes) /\ Distinct(s.queue) /\ c \notin Elements(s.writes)
  BY DEF Seen, Tidy, Phone, Sound, Listed
<1>6. /\ \A x, y : After(b.writes, x, y) => After(s.writes, x, y) \/ y = c
      /\ Elements(b.writes) = Elements(s.writes) \cup {c} /\ Distinct(b.writes)
  BY <1>5, AfterAppend, ElementsAppend, DistinctAppend
<1>7. Tidy(b) /\ Together(b) /\ Overridden(d, b) /\ Mature(d, b) /\ Blind(d, b) /\ Tried(b)
  <2>1. Tidy(b)
    BY <1>5, <1>6 DEF Tidy
  <2>2. Together(b)
    BY <1>3, <1>4 DEF Seen, Together
  <2>3. Overridden(d, b)
    BY <1>2, <1>3 DEF Seen, Overridden
  <2>4. Mature(d, b)
    BY <1>1, <1>3, <1>4 DEF Seen, Mature
  <2>5. Blind(d, b)
    BY <1>2, <1>3 DEF Seen, Blind
  <2>6. Tried(b)
    BY <1>1, <1>3 DEF Seen, Tried
  <2> QED
    BY <2>1, <2>2, <2>3, <2>4, <2>5, <2>6
<1>8. Even(b)
  <2> SUFFICES ASSUME NEW x \in Outstanding(b), Full(b, x), Base(b).whole
               PROVE  \A t \in Elements(b.queue) : Full(b, t)
    BY DEF Even
  <2>1. PICK y : y = Elements(s.queue)
    OBVIOUS
  <2>2. Latest(b, y).whole
    BY <2>1 DEF Base
  <2>3. \A t \in Elements(b.writes) \ Comments :
          t \notin y => t \in Elements(s.writes) /\ t \notin y /\ (Full(b, t) => Full(s, t))
    BY <1>1, <1>3, <1>6
  <2>4. \A p, q : After(b.writes, p, q) /\ p \notin y /\ q \notin y /\ p \notin Comments
                    /\ q \notin Comments => After(s.writes, p, q)
    BY <1>6
  <2>5. \A t \in Elements(s.writes) \ Comments :
          t \notin y => (t \in Elements(b.writes) /\ t \notin y) \/ Full(s, t)
    BY <1>6
  <2>6. Elements(b.writes) \ Comments \subseteq 1..Len(b.txn)
    BY <1>1, <1>6
  <2>7. Latest(s, y).whole
    BY <1>1, <1>5, <1>6, <2>2, <2>3, <2>4, <2>5, <2>6, WholeFrom
  <2>8. x \in Outstanding(s) /\ Full(s, x)
    BY <1>3, <1>4
  <2>9. \A t \in Elements(s.queue) : Full(s, t)
    BY <2>1, <2>7, <2>8 DEF Seen, Even, Base
  <2> QED
    BY <1>1, <1>3, <2>9
<1>9. \A t \in UnderWay(b.txn, d) :
        /\ b.txn[t].sets >= 1
        /\ b.txn[t].status = "sentNeedsAbort" => b.txn[t].sets >= 2
  BY <1>2, <1>3 DEF Seen, Overridden
<1> QED
  BY <1>2, <1>7, <1>8, <1>9 DEF Seen

(* Then the queue is aborted.                                              *)
LEMMA AbortSeen ==
  ASSUME NEW d, NEW b \in Phone, NEW l \in Line, NEW ap, NEW w, Sound(d, b, l, ap, w),
         Seen(d, b), Truths(b, Path(b, l)),
         \A t \in Elements(b.queue) : b.txn[t].status # "needsAbort",
         \A t \in UnderWay(b.txn, d) :
           /\ b.txn[t].sets >= 1
           /\ b.txn[t].status = "sentNeedsAbort" => b.txn[t].sets >= 2,
         NEW a, a = Abort(b), NEW z, Resent(a, z)
  PROVE  z = a /\ Seen(d, z) /\ Truths(z, Path(z, l))
<1>1. /\ Elements(b.writes) \ Comments = UnderWay(b.txn, d)
      /\ Elements(b.writes) \ Comments \subseteq 1..Len(b.txn)
      /\ Elements(b.queue) \subseteq UnderWay(b.txn, d)
      /\ Elements(b.queue) \subseteq 1..Len(b.txn)
      /\ Elements(b.queue) \subseteq Of(b.txn, d)
      /\ Elements(b.queue) \cap Comments = {}
      /\ \A t \in Elements(b.queue) :
           \/ t \in Outstanding(b) \/ b.txn[t].status = "run"
           \/ b.txn[t].status = "needsAbort"
      /\ \A t \in 1..Len(b.txn) : b.txn[t].retries \in Nat /\ b.txn[t].sets \in Nat
  BY WritesAre
<1>2. a \in Phone /\ Aborted(b, a)
  BY AbortFacts
<1>3. a.writes = Without(b.writes, Dropped(b)) /\ a.queue = Only(b.queue, Marked(b))
  BY AbortWrites
<1>4. PICK M, D : M = Marked(b) /\ D = Dropped(b)
  OBVIOUS
<1>5. /\ a.cache = b.cache /\ a.puts = b.puts /\ Elements(a.queue) = M
      /\ Elements(a.writes) = Elements(b.writes) \ D /\ Len(a.txn) = Len(b.txn)
      /\ M \subseteq Elements(b.queue) /\ D \subseteq Elements(b.queue) /\ M \cap D = {}
      /\ \A t \in M : b.txn[t].status = "sent"
      /\ \A t \in D : b.txn[t].status = "run"
  <2>1. /\ a.cache = b.cache /\ a.puts = b.puts /\ Elements(a.queue) = M
        /\ Elements(a.writes) = Elements(b.writes) \ D /\ Len(a.txn) = Len(b.txn)
    BY <1>2, <1>4 DEF Aborted
  <2>2. /\ M \subseteq Elements(b.queue) /\ D \subseteq Elements(b.queue) /\ M \cap D = {}
        /\ \A t \in M : b.txn[t].status = "sent"
    BY <1>4 DEF Marked, Dropped
  <2>3. \A t \in D : b.txn[t].status = "run"
    BY <1>1, <1>4 DEF Dropped, Outstanding, Pending
  <2> QED
    BY <2>1, <2>2, <2>3
<1>6. \A t \in 1..Len(b.txn) :
        /\ a.txn[t].out = b.txn[t].out /\ a.txn[t].retries = b.txn[t].retries
        /\ a.txn[t].sets = b.txn[t].sets /\ a.txn[t].dev = b.txn[t].dev
        /\ a.txn[t].status = IF t \in M THEN "sentNeedsAbort"
                             ELSE IF t \in D THEN "completed" ELSE b.txn[t].status
        /\ a.txn[t].told = IF t \in D THEN "set" ELSE b.txn[t].told
  <2> SUFFICES ASSUME NEW t \in 1..Len(b.txn)
               PROVE  /\ a.txn[t].out = b.txn[t].out /\ a.txn[t].retries = b.txn[t].retries
                      /\ a.txn[t].sets = b.txn[t].sets /\ a.txn[t].dev = b.txn[t].dev
                      /\ a.txn[t].status = IF t \in M THEN "sentNeedsAbort"
                                           ELSE IF t \in D THEN "completed" ELSE b.txn[t].status
                      /\ a.txn[t].told = IF t \in D THEN "set" ELSE b.txn[t].told
    OBVIOUS
  <2>1. b.txn[t] \in Transactions
    BY ElementOfSeq DEF Phone
  <2>2. CASE t \in M
    <3>1. a.txn[t] = [b.txn[t] EXCEPT !.status = "sentNeedsAbort", !.why = "set"] /\ t \notin D
      BY <1>2, <1>4, <1>5, <2>2 DEF Aborted
    <3> QED
      BY <2>1, <2>2, <3>1 DEF Transactions
  <2>3. CASE t \in D
    <3>1. a.txn[t] = [b.txn[t] EXCEPT !.status = "completed", !.told = "set"] /\ t \notin M
      BY <1>2, <1>4, <1>5, <2>3 DEF Aborted
    <3> QED
      BY <2>1, <2>3, <3>1 DEF Transactions
  <2>4. CASE t \notin M \cup D
    BY <1>2, <1>4, <2>4 DEF Aborted
  <2> QED
    BY <2>2, <2>3, <2>4
<1>7. UnderWay(a.txn, d) = UnderWay(b.txn, d) \ D
  BY <1>5, <1>6 DEF UnderWay
<1>8. \A t \in Elements(a.queue) : a.txn[t].status = "sentNeedsAbort" /\ t \in 1..Len(b.txn)
  BY <1>1, <1>5, <1>6
<1>9. z = a
  BY <1>2, <1>8, RerunIdle
<1>10. \A t \in 1..Len(b.txn) : Full(a, t) = Full(b, t)
  BY <1>6 DEF Full
<1>11. Tidy(a)
  <2>1. /\ b.writes \in Seq(Nat \cup Comments) /\ Distinct(b.writes)
        /\ b.queue \in Seq(Nat) /\ Distinct(b.queue)
    BY DEF Seen, Tidy, Phone
  <2>2. Distinct(a.writes) /\ Distinct(a.queue)
    BY <1>3, <2>1, DistinctOnly DEF Without
  <2> QED
    BY <2>2 DEF Tidy
<1>12. Blind(d, a)
  BY <1>1, <1>5, <1>7, <1>10 DEF Seen, Blind
<1>13. Together(a) /\ Tried(a)
  BY <1>8 DEF Together, Tried, Outstanding
<1>14. Overridden(d, a)
  <2> SUFFICES ASSUME NEW t \in UnderWay(a.txn, d)
               PROVE  /\ a.txn[t].sets >= 1
                      /\ t \notin Elements(a.queue) => a.txn[t].sets >= 2
    BY DEF Overridden
  <2>1. t \in UnderWay(b.txn, d) /\ t \in 1..Len(b.txn) /\ t \notin D
    BY <1>1, <1>7
  <2>2. a.txn[t].sets >= 1 /\ a.txn[t].sets = b.txn[t].sets
    BY <1>6, <2>1
  <2>3. CASE t \notin Elements(b.queue)
    BY <1>5, <2>1, <2>2, <2>3 DEF Seen, Overridden
  <2>4. CASE t \in Elements(b.queue) /\ t \notin M
    <3>1. b.txn[t].status \in {"sent", "sentNeedsAbort"} /\ b.txn[t].status # "sent"
      BY <1>4, <2>1, <2>4 DEF Marked, Dropped
    <3> QED
      BY <2>1, <2>2, <3>1
  <2>5. CASE t \in M
    BY <1>5, <2>2, <2>5
  <2> QED
    BY <2>3, <2>4, <2>5
<1>15. ASSUME M # {}
       PROVE  Elements(b.queue) = M \cup D
  <2> SUFFICES ASSUME NEW t \in Elements(b.queue), t \notin D
               PROVE  t \in M
    BY <1>5
  <2>1. t \in Outstanding(b) /\ M \subseteq Outstanding(b)
    BY <1>4, <1>5 DEF Dropped, Outstanding, Pending
  <2>2. b.txn[t].status = "sent"
    BY <1>5, <1>15, <2>1 DEF Seen, Together
  <2> QED
    BY <1>4, <2>2 DEF Marked
<1>16. Mature(d, a)
  <2> SUFFICES ASSUME \A t \in Left(d, a) : Full(a, t), NEW t \in M, a.txn[t].retries >= 2
               PROVE  Full(a, t)
    BY <1>5 DEF Mature
  <2>1. Left(d, a) = Left(d, b) /\ Left(d, b) \subseteq 1..Len(b.txn)
    BY <1>1, <1>5, <1>7, <1>15 DEF Left
  <2>2. t \in Elements(b.queue) /\ t \in 1..Len(b.txn) /\ b.txn[t].retries >= 2
    BY <1>1, <1>5, <1>6
  <2> QED
    BY <1>10, <2>1, <2>2 DEF Seen, Mature
<1>17. Even(a)
  <2> SUFFICES ASSUME NEW x \in Outstanding(a), Full(a, x), Base(a).whole
               PROVE  \A t \in Elements(a.queue) : Full(a, t)
    BY DEF Even
  <2>1. x \in M /\ x \in Outstanding(b) /\ x \in 1..Len(b.txn) /\ Full(b, x)
    BY <1>1, <1>5, <1>10 DEF Outstanding, Pending
  <2>2. PICK y : y = Elements(b.queue)
    OBVIOUS
  <2>3. y = M \cup D
    BY <1>15, <2>1, <2>2
  <2>4. Latest(a, M).whole /\ Distinct(b.writes) /\ Distinct(a.writes)
    BY <1>5, <1>11 DEF Base, Seen, Tidy
  <2>5. \A t \in Elements(a.writes) \ Comments :
          t \notin M => t \in Elements(b.writes) /\ t \notin y /\ (Full(a, t) => Full(b, t))
    BY <1>1, <1>5, <1>10, <2>3
  <2>6. \A p, q : After(a.writes, p, q) /\ p \notin M /\ q \notin M /\ p \notin Comments
                    /\ q \notin Comments => After(b.writes, p, q)
    <3>1. b.writes \in Seq(Nat \cup Comments)
      BY DEF Phone
    <3> QED
      BY <1>3, <3>1, AfterWithout
  <2>7. \A t \in Elements(b.writes) \ Comments :
          t \notin y => (t \in Elements(a.writes) /\ t \notin M) \/ Full(b, t)
    BY <1>5, <2>3
  <2>8. Elements(a.writes) \ Comments \subseteq 1..Len(a.txn)
    BY <1>1, <1>5
  <2>9. Latest(b, y).whole
    BY <1>1, <1>2, <1>5, <2>4, <2>5, <2>6, <2>7, <2>8, WholeFrom
  <2>10. \A t \in Elements(b.queue) : Full(b, t)
    BY <2>1, <2>2, <2>9 DEF Seen, Even, Base
  <2> QED
    BY <1>1, <1>5, <1>10, <2>10
<1>18. Truths(a, Path(a, l))
  <2>1. Path(a, l) = Path(b, l)
    BY <1>5 DEF Path, Road, Asks
  <2>2. \A t \in Of(b.txn, d) : a.txn[t].out = b.txn[t].out
    BY <1>6 DEF Of
  <2> QED
    BY <2>1, <2>2, PathTruths
<1> QED
  BY <1>9, <1>11, <1>12, <1>13, <1>14, <1>16, <1>17, <1>18 DEF Seen

(* A transaction is started.                                               *)
LEMMA OpeningSeen ==
  ASSUME NEW d, NEW s \in Phone, NEW l \in Line, NEW ap, NEW w, Sound(d, s, l, ap, w),
         Seen(d, s), Truths(s, Path(s, l)),
         NEW x \in Transactions, x.retries = 0, NEW t, NEW b \in Phone, NEW k \in Line,
         Opening(d, s, l, b, k, t, x)
  PROVE  Seen(d, b) /\ Truths(b, Path(b, k))
<1>1. /\ Elements(s.writes) \ Comments = UnderWay(s.txn, d)
      /\ Elements(s.writes) \ Comments \subseteq 1..Len(s.txn)
      /\ Elements(s.queue) \subseteq UnderWay(s.txn, d)
      /\ Elements(s.queue) \subseteq 1..Len(s.txn)
  BY WritesAre
<1>2. /\ t \in Nat /\ t \notin Comments
      /\ t \notin Elements(s.queue) /\ t \notin Elements(s.writes)
      /\ \A y \in 1..Len(s.txn) : b.txn[y] = s.txn[y]
      /\ b.txn[t] = x
      /\ Elements(b.queue) = Elements(s.queue) \cup {t}
      /\ Elements(b.writes) = Elements(s.writes) \cup {t}
      /\ \A a, y : After(b.writes, a, y) <=>
           After(s.writes, a, y) \/ (a \in Elements(s.writes) /\ y = t)
  <2>1. Opened(s, b, t, x)
    BY OpeningFacts
  <2> QED
    BY <2>1 DEF Opened
<1>3. /\ t = Len(s.txn) + 1 /\ x.status = "run" /\ x.out = Plus(Latest(s, {}), 1)
      /\ x.dev = d /\ x.told = "none" /\ b.txn = Append(s.txn, x)
      /\ b.queue = Append(s.queue, t) /\ b.writes = Append(s.writes, t)
      /\ b.cache = s.cache /\ b.puts = << >> /\ s.puts = << >>
      /\ k.dn = l.dn /\ k.hd = l.hd /\ k.td = l.td
      /\ \/ k.ob = l.ob
         \/ k.ob = l.ob \o <<Listen("post")>> /\ UnderWay(s.txn, d) = {}
  BY DEF Opening
<1>4. s.txn \in Seq(Transactions) /\ Len(s.txn) \in Nat /\ Len(b.txn) = Len(s.txn) + 1
  BY <1>3, AppendFacts DEF Phone
<1>5. UnderWay(b.txn, d) = UnderWay(s.txn, d) \cup {t} /\ UnderWay(s.txn, d) \subseteq 1..Len(s.txn)
  <2>1. \A y \in 1..Len(b.txn) : y \in 1..Len(s.txn) \/ y = t
    BY <1>3, <1>4
  <2>2. t \in 1..Len(b.txn) /\ \A y \in 1..Len(s.txn) : y \in 1..Len(b.txn)
    BY <1>3, <1>4
  <2> QED
    BY <1>2, <1>3, <2>1, <2>2 DEF UnderWay
<1>6. /\ \A y \in UnderWay(s.txn, d) : b.txn[y] = s.txn[y] /\ Full(b, y) = Full(s, y) /\ y # t
      /\ Full(b, t) = Latest(s, {}).whole
  <2>1. Latest(s, {}) \in Node
    BY <1>1, LatestType
  <2>2. PICK n \in Node : n = Latest(s, {})
    BY <2>1
  <2>3. Plus(n, 1).whole = n.whole
    BY NodeFields
  <2> QED
    BY <1>1, <1>2, <1>3, <2>2, <2>3 DEF Full
<1>7. /\ Outstanding(b) = Outstanding(s) /\ Left(d, b) = Left(d, s)
      /\ Outstanding(s) \subseteq UnderWay(s.txn, d) /\ Left(d, s) \subseteq UnderWay(s.txn, d)
  <2>1. Outstanding(b) = Outstanding(s) /\ Outstanding(s) \subseteq UnderWay(s.txn, d)
    BY <1>1, <1>2, <1>3, <1>6 DEF Outstanding, Pending
  <2>2. Left(d, b) = Left(d, s) /\ Left(d, s) \subseteq UnderWay(s.txn, d)
    BY <1>1, <1>2, <1>5, <1>6 DEF Left
  <2> QED
    BY <2>1, <2>2
<1>8. /\ \A y : Latest(s, y).whole => s.cache.whole
  BY BaseWhole
<1>9. Tidy(b)
  <2>1. /\ s.writes \in Seq(Nat \cup Comments) /\ Distinct(s.writes) /\ t \in Nat \cup Comments
        /\ s.queue \in Seq(Nat) /\ Distinct(s.queue)
    BY <1>2 DEF Seen, Tidy, Phone
  <2>2. Distinct(b.writes) /\ Distinct(b.queue)
    BY <1>2, <1>3, <2>1, DistinctAppend
  <2> QED
    BY <2>2 DEF Tidy
<1>10. Blind(d, b)
  BY <1>3, <1>5, <1>6, <1>8 DEF Seen, Blind
<1>11. Together(b)
  BY <1>6, <1>7 DEF Seen, Together
<1>12. Overridden(d, b)
  BY <1>2, <1>3, <1>5, <1>6 DEF Seen, Overridden
<1>13. Mature(d, b)
  <2> SUFFICES ASSUME \A y \in Left(d, b) : Full(b, y), NEW y \in Elements(b.queue),
                      b.txn[y].retries >= 2
               PROVE  Full(b, y)
    BY DEF Mature
  <2>1. y \in Elements(s.queue)
    BY <1>2
  <2> QED
    BY <1>1, <1>6, <1>7, <2>1 DEF Seen, Mature
<1>14. Tried(b)
  <2> SUFFICES ASSUME NEW y \in Elements(b.queue), b.txn[y].status = "run",
                      b.txn[y].retries >= 1
               PROVE  b.cache.whole
    BY DEF Tried
  <2>1. y \in Elements(s.queue)
    BY <1>2
  <2> QED
    BY <1>1, <1>3, <1>6, <2>1 DEF Seen, Tried
<1>15. Even(b)
  <2> SUFFICES ASSUME NEW o \in Outstanding(b), Full(b, o), Base(b).whole
               PROVE  \A y \in Elements(b.queue) : Full(b, y)
    BY DEF Even
  <2>1. PICK u, v, n : u = Elements(s.queue) /\ v = Elements(b.queue) /\ n = {}
    OBVIOUS
  <2>2. Latest(b, v).whole /\ Distinct(s.writes) /\ Distinct(b.writes) /\ v = u \cup {t}
    BY <1>2, <1>9, <2>1 DEF Base, Seen, Tidy
  <2>3. \A y \in Elements(b.writes) \ Comments :
          y \notin v => y \in Elements(s.writes) /\ y \notin u /\ (Full(b, y) => Full(s, y))
    BY <1>1, <1>2, <1>6, <2>2
  <2>4. \A p, q : After(b.writes, p, q) /\ p \notin v /\ q \notin v /\ p \notin Comments
                    /\ q \notin Comments => After(s.writes, p, q)
    BY <1>2, <2>2
  <2>5. \A y \in Elements(s.writes) \ Comments :
          y \notin u => (y \in Elements(b.writes) /\ y \notin v) \/ Full(s, y)
    BY <1>2, <2>2
  <2>6. Elements(b.writes) \ Comments \subseteq 1..Len(b.txn)
    BY <1>1, <1>2, <1>3, <1>4
  <2>7. Latest(s, u).whole
    BY <1>1, <1>3, <2>2, <2>3, <2>4, <2>5, <2>6, WholeFrom
  <2>8. \A y \in u : Full(s, y)
    BY <1>6, <1>7, <2>1, <2>7 DEF Seen, Even, Base
  <2>9. Latest(s, n).whole
    <3>1. \A y \in Elements(s.writes) \ Comments :
            y \notin u => y \in Elements(s.writes) /\ y \notin n /\ (Full(s, y) => Full(s, y))
      BY <2>1
    <3>2. \A y \in Elements(s.writes) \ Comments :
            y \notin n => (y \in Elements(s.writes) /\ y \notin u) \/ Full(s, y)
      BY <2>8
    <3> QED
      BY <1>1, <2>2, <2>7, <3>1, <3>2, WholeFrom
  <2> QED
    BY <1>1, <1>2, <1>6, <2>1, <2>8, <2>9
<1>16. Truths(b, Path(b, k))
  <2>1. \A y \in Of(s.txn, d) : s.txn[y].status \in Pending => Full(b, y) = Full(s, y)
    BY <1>2 DEF Of, Full
  <2>2. \A m \in Elements(Path(b, k)) :
          m \in Elements(Path(s, l)) \/ (m.type # "put" /\ Carried(m) = {})
    <3>1. CASE k.ob = l.ob
      <4>1. Path(b, k) = Path(s, l)
        BY <1>3, <3>1 DEF Path, Road, Asks
      <4> QED
        BY <4>1
    <3>2. CASE k.ob = l.ob \o <<Listen("post")>>
      <4>1. PICK h : h = Listen("post")
        OBVIOUS
      <4>2. h \in Requests /\ h \in Messages /\ h.type = "listen" /\ Carried(h) = {}
        BY <4>1 DEF Listen, Requests, Messages, Kinds, Carried
      <4>3. PICK u \in Seq(Messages) : u = <<h>> /\ Elements(u) = {h}
        BY <4>2, One
      <4>4. l.ob \in Seq(Requests) /\ k.ob = l.ob \o u /\ <<h>> \in Seq(Requests)
        BY <3>2, <4>1, <4>2, <4>3, One DEF Line
      <4>5. Asks(b, k) = Asks(s, l) \o u
        <5>1. Asks(s, l) = l.ob /\ Asks(b, k) = k.ob
          BY <1>3, <4>4 DEF Asks, Line
        <5> QED
          BY <4>4, <5>1
      <4>6. Elements(Path(b, k)) = Elements(Path(s, l)) \cup Elements(u)
        <5>1. /\ Elements(Path(s, l)) = Everywhere(s, l) /\ Elements(Path(b, k)) = Everywhere(b, k)
              /\ Asks(s, l) \in Seq(Messages)
          BY Places
        <5>2. PICK q : q = Asks(s, l)
          OBVIOUS
        <5>3. Elements(Asks(b, k)) = Elements(q) \cup Elements(u)
          BY <4>5, <5>1, <5>2, ElementsConcat
        <5> QED
          BY <1>3, <5>1, <5>2, <5>3 DEF Everywhere
      <4> QED
        BY <4>2, <4>3, <4>6
    <3> QED
      BY <1>3, <3>1, <3>2
  <2> QED
    BY <2>1, <2>2, TruthsSame
<1> QED
  BY <1>9, <1>10, <1>11, <1>12, <1>13, <1>14, <1>15, <1>16 DEF Seen

(* And sent, if it has nothing to wait for.                                *)
LEMMA BeginSeen ==
  ASSUME NEW d, NEW s \in Phone, NEW l \in Line, NEW ap, NEW w, Sound(d, s, l, ap, w),
         Seen(d, s), Truths(s, Path(s, l)), Sent(s),
         NEW x \in Transactions, x.retries = 0, NEW t, NEW b \in Phone, NEW k \in Line,
         Opening(d, s, l, b, k, t, x), Sound(d, b, k, ap, w), Ready(b),
         NEW r, r = SendReady(b)
  PROVE  Seen(d, r) /\ Truths(r, Path(r, k))
<1>1. Seen(d, b) /\ Truths(b, Path(b, k))
  BY OpeningSeen
<1>2. IF Waits(b) THEN Launched(b, r) ELSE r = b
  <2>1. /\ Elements(b.writes) \ Comments \subseteq 1..Len(b.txn)
        /\ Elements(b.queue) \subseteq 1..Len(b.txn)
    BY WritesAre
  <2>2. \A y \in Elements(b.queue) :
           b.txn[y].status = "run" => b.txn[y].retries < MaxRetries
    BY DEF Ready
  <2> QED
    BY <2>1, <2>2, SendFacts
<1>3. CASE Waits(b)
  <2>1. Opened(s, b, t, x)
    BY OpeningFacts
  <2>2. Outstanding(s) = {}
    <3>1. Elements(s.queue) \subseteq 1..Len(s.txn)
      BY WritesAre
    <3> QED
      BY <1>3, <2>1, <3>1 DEF Waits, Opened, Outstanding, Pending
  <2>3. s.queue = << >>
    BY <2>2, SentOutstanding
  <2>4. Elements(b.queue) = {t} /\ b.txn[t] = x /\ x.out = Plus(Latest(s, {}), 1)
    BY <2>1, <2>3, ElementsFacts DEF Opened, Opening
  <2>5. Latest(b, {t}) = Latest(s, {})
    BY OpeningLatest
  <2>6. Even0(b)
    <3>1. Elements(s.writes) \ Comments \subseteq 1..Len(s.txn)
      BY WritesAre
    <3>2. PICK n \in Node : n = Latest(s, {})
      BY <3>1, LatestType
    <3>3. Plus(n, 1).whole = n.whole
      BY NodeFields
    <3>4. Base(b) = n /\ b.txn[t].out = Plus(n, 1)
      BY <2>4, <2>5, <3>2 DEF Base
    <3> QED
      BY <2>4, <3>3, <3>4 DEF Even0, Full
  <2>7. Ripe(d, b)
    BY <2>4 DEF Ripe
  <2> QED
    BY <1>1, <1>3, <2>6, <2>7, SendSeen
<1>4. CASE ~Waits(b)
  BY <1>1, <1>2, <1>4
<1> QED
  BY <1>3, <1>4

(* What an answer makes of the transactions it is about.                   *)
Makes(d, m, s, l, k, b, g) ==
  /\ g = Carried(m) /\ g \subseteq Of(s.txn, d) /\ g \cap Comments = {}
  /\ m.type = "reply" /\ m \in Elements(Path(s, l))
  /\ Elements(Path(s, k)) \subseteq Elements(Path(s, l))
  /\ \A t \in 1..Len(s.txn) :
       /\ b.txn[t].out = s.txn[t].out /\ b.txn[t].retries = s.txn[t].retries
       /\ b.txn[t].sets = s.txn[t].sets /\ b.txn[t].dev = s.txn[t].dev
       /\ t \notin g => b.txn[t] = s.txn[t]
       /\ t \in g => /\ b.txn[t].status \notin Pending
                     /\ b.txn[t].status = "run" => m.status = "datastale"
                     /\ m.status = "ok" => b.txn[t].told = "ok"
                     /\ m.status # "ok" => b.txn[t].told = s.txn[t].told

(* That is what noting an answer makes.                                    *)
LEMMA AnswerMakes ==
  ASSUME NEW d, NEW s \in Phone, NEW l \in Line, NEW ap, NEW w, Sound(d, s, l, ap, w),
         NEW m \in Answers, NEW k \in Line, Took(m, l, k), Head(m.what) \notin Comments,
         NEW b \in Phone, AnswerNoted(m, s, b), NEW g, g = Elements(m.what)
  PROVE  Makes(d, m, s, l, k, b, g)
<1>1. RightMessage(d, m, s, ap)
  <2>1. TakenFrom(d, m, s, l, k, ap)
    BY TookRight
  <2> QED
    BY <2>1 DEF TakenFrom
<1>2. m \in Elements(Path(s, l)) /\ Elements(Path(s, k)) \subseteq Elements(Path(s, l))
  BY TookPath
<1>3. m.type = "reply" /\ m.what \in Seq(Nat) /\ m.what # << >>
  BY <1>1, AnswerKind DEF Answers
<1>4. g \cap Comments = {} /\ Carried(m) = g
  <2>1. g \subseteq Nat
    BY <1>3, ElementsFacts
  <2> QED
    BY <1>3, <2>1, NoComment DEF Carried
<1>5. m.status \in {"ok", "datastale", "disconnect"}
  <2>1. ASSUME NEW c \in Comments, m.what = <<c>>
        PROVE  FALSE
    BY <2>1
  <2> QED
    BY <1>1, <1>3, <2>1 DEF RightMessage
<1>6. g \subseteq Of(s.txn, d)
  BY <1>1, <1>4 DEF RightMessage
<1>7. ASSUME NEW t \in 1..Len(s.txn)
      PROVE  /\ b.txn[t].out = s.txn[t].out /\ b.txn[t].retries = s.txn[t].retries
             /\ b.txn[t].sets = s.txn[t].sets /\ b.txn[t].dev = s.txn[t].dev
             /\ t \notin g => b.txn[t] = s.txn[t]
             /\ t \in g => /\ b.txn[t].status \notin Pending
                           /\ b.txn[t].status = "run" => m.status = "datastale"
                           /\ m.status = "ok" => b.txn[t].told = "ok"
                           /\ m.status # "ok" => b.txn[t].told = s.txn[t].told
  <2>1. s.txn[t] \in Transactions
    BY ElementOfSeq DEF Phone
  <2>2. b.txn[t] = IF t \in g THEN Settled(s.txn[t], m.status) ELSE s.txn[t]
    BY DEF AnswerNoted
  <2>3. CASE t \notin g
    BY <2>2, <2>3
  <2>4. CASE t \in g
    BY <1>5, <2>1, <2>2, <2>4 DEF Settled, Transactions, Pending
  <2> QED
    BY <2>3, <2>4
<1> QED
  BY <1>2, <1>3, <1>4, <1>6, <1>7 DEF Makes

(* The answer of a put that was not accepted.                              *)
LEMMA RefusedSeen ==
  ASSUME NEW d, NEW s \in Phone, NEW l \in Line, NEW ap, NEW w, Sound(d, s, l, ap, w),
         Seen(d, s), Truths(s, Path(s, l)),
         NEW m \in Answers, NEW k \in Line, Took(m, l, k), Head(m.what) \notin Comments,
         NEW b \in Phone, AnswerNoted(m, s, b), m.status # "ok",
         m.status = "datastale" => s.cache.whole
  PROVE  Seen(d, b) /\ Truths(b, Path(b, k))
<1>1. PICK g : g = Elements(m.what)
  OBVIOUS
<1>2. /\ g = Carried(m) /\ g \subseteq Of(s.txn, d) /\ g \cap Comments = {}
      /\ m.type = "reply" /\ m \in Elements(Path(s, l))
      /\ Elements(Path(s, k)) \subseteq Elements(Path(s, l))
      /\ \A t \in 1..Len(s.txn) :
           /\ b.txn[t].out = s.txn[t].out /\ b.txn[t].retries = s.txn[t].retries
           /\ b.txn[t].sets = s.txn[t].sets /\ b.txn[t].dev = s.txn[t].dev
           /\ t \notin g => b.txn[t] = s.txn[t]
           /\ t \in g => /\ b.txn[t].status \notin Pending
                         /\ b.txn[t].status = "run" => m.status = "datastale"
                         /\ m.status = "ok" => b.txn[t].told = "ok"
                         /\ m.status # "ok" => b.txn[t].told = s.txn[t].told
  <2>1. Makes(d, m, s, l, k, b, g)
    BY <1>1, AnswerMakes
  <2> QED
    BY <2>1 DEF Makes
<1>3. /\ Elements(s.writes) \ Comments = UnderWay(s.txn, d)
      /\ Elements(s.writes) \ Comments \subseteq 1..Len(s.txn)
      /\ Elements(s.queue) \subseteq UnderWay(s.txn, d)
      /\ Elements(s.queue) \subseteq 1..Len(s.txn)
  BY WritesAre
<1>4. /\ b.cache = s.cache /\ b.queue = s.queue /\ b.writes = s.writes /\ b.puts = s.puts
      /\ Len(b.txn) = Len(s.txn)
  BY DEF AnswerNoted
<1>5. UnderWay(b.txn, d) = UnderWay(s.txn, d) /\ UnderWay(s.txn, d) \subseteq 1..Len(s.txn)
  BY <1>2, <1>4 DEF UnderWay
<1>6. /\ \A t \in UnderWay(s.txn, d) : Full(b, t) = Full(s, t)
      /\ Left(d, b) = Left(d, s) /\ Left(d, s) \subseteq UnderWay(s.txn, d)
  BY <1>2, <1>4, <1>5 DEF Full, Left
<1>7. Outstanding(b) \subseteq Outstanding(s) /\ \A t \in Outstanding(b) : b.txn[t] = s.txn[t]
  BY <1>2, <1>3, <1>4 DEF Outstanding
<1>8. Tidy(b) /\ Blind(d, b) /\ Together(b)
  <2>1. Tidy(b)
    BY <1>4 DEF Seen, Tidy
  <2>2. Blind(d, b)
    BY <1>4, <1>5, <1>6 DEF Seen, Blind
  <2>3. Together(b)
    BY <1>7 DEF Seen, Together
  <2> QED
    BY <2>1, <2>2, <2>3
<1>9. Even(b)
  <2>1. Base(b) = Base(s)
    BY <1>2, <1>3, <1>4, BaseSame
  <2>2. \A t \in Outstanding(b) : t \in UnderWay(s.txn, d)
    BY <1>3, <1>7 DEF Outstanding
  <2> QED
    BY <1>3, <1>4, <1>6, <1>7, <2>1, <2>2 DEF Seen, Even
<1>10. Overridden(d, b)
  <2> SUFFICES ASSUME NEW t \in UnderWay(b.txn, d)
               PROVE  /\ b.txn[t].status = "sentNeedsAbort" => b.txn[t].sets >= 1
                      /\ t \notin Elements(b.queue) => b.txn[t].sets >= 2
    BY DEF Overridden
  <2>1. t \in UnderWay(s.txn, d) /\ t \in 1..Len(s.txn)
    BY <1>5
  <2>2. b.txn[t].status = "sentNeedsAbort" => s.txn[t].status = "sentNeedsAbort"
    BY <1>2, <2>1 DEF Pending
  <2> QED
    BY <1>2, <1>4, <2>1, <2>2 DEF Seen, Overridden
<1>11. Mature(d, b)
  <2>1. \A t \in Elements(s.queue) : b.txn[t].retries = s.txn[t].retries
    BY <1>2, <1>3
  <2> QED
    BY <1>3, <1>4, <1>6, <2>1 DEF Seen, Mature
<1>12. Tried(b)
  <2> SUFFICES ASSUME NEW t \in Elements(s.queue), b.txn[t].status = "run",
                      b.txn[t].retries >= 1
               PROVE  s.cache.whole
    BY <1>4 DEF Tried
  <2>1. CASE t \in g
    BY <1>2, <1>3, <2>1
  <2>2. CASE t \notin g
    BY <1>2, <1>3, <2>2 DEF Seen, Tried
  <2> QED
    BY <2>1, <2>2
<1>13. Truths(b, Path(b, k))
  <2>1. Path(b, k) = Path(s, k)
    BY <1>4 DEF Path, Road, Asks
  <2>2. \A t \in Of(s.txn, d) : b.txn[t].out = s.txn[t].out
    BY <1>2 DEF Of
  <2> QED
    BY <1>2, <2>1, <2>2, PathTruths
<1> QED
  BY <1>8, <1>9, <1>10, <1>11, <1>12, <1>13 DEF Seen

(* That of one that was accepted: what it carried is dropped, and it was   *)
(* whole.                                                                  *)
Freed(d, m, s, h, k) ==
  /\ h \in Phone /\ Seen(d, h) /\ Truths(h, Path(h, k))
  /\ Base(h).whole => Base(s).whole
  /\ Elements(h.queue) = Elements(s.queue) \ Carried(m)
  /\ \A t \in 1..Len(s.txn) : t \notin Carried(m) => h.txn[t] = s.txn[t]
  /\ \A t \in Carried(m) : Full(s, t)
  /\ \A t \in 1..Len(s.txn) : Full(h, t) = Full(s, t)

(* So it is with the queue and the writes that such an answer leaves.      *)
LEMMA AcceptedSeen ==
  ASSUME NEW d, NEW s \in Phone, NEW l \in Line, NEW ap, NEW w, Sound(d, s, l, ap, w),
         Seen(d, s), Truths(s, Path(s, l)),
         NEW m \in Answers, NEW k \in Line, Took(m, l, k), Head(m.what) \notin Comments,
         NEW b \in Phone, AnswerNoted(m, s, b), m.status = "ok",
         NEW h, Forgotten(b, Elements(m.what), h)
  PROVE  Freed(d, m, s, h, k)
<1>1. PICK g : g = Elements(m.what)
  OBVIOUS
<1>2. /\ g = Carried(m) /\ g \subseteq Of(s.txn, d) /\ g \cap Comments = {}
      /\ m.type = "reply" /\ m \in Elements(Path(s, l))
      /\ Elements(Path(s, k)) \subseteq Elements(Path(s, l))
      /\ \A t \in 1..Len(s.txn) :
           /\ b.txn[t].out = s.txn[t].out /\ b.txn[t].retries = s.txn[t].retries
           /\ b.txn[t].sets = s.txn[t].sets /\ b.txn[t].dev = s.txn[t].dev
           /\ t \notin g => b.txn[t] = s.txn[t]
           /\ t \in g => /\ b.txn[t].status \notin Pending
                         /\ b.txn[t].status = "run" => m.status = "datastale"
                         /\ m.status = "ok" => b.txn[t].told = "ok"
                         /\ m.status # "ok" => b.txn[t].told = s.txn[t].told
  <2>1. Makes(d, m, s, l, k, b, g)
    BY <1>1, AnswerMakes
  <2> QED
    BY <2>1 DEF Makes
<1>3. /\ Elements(s.writes) \ Comments = UnderWay(s.txn, d)
      /\ Elements(s.writes) \ Comments \subseteq 1..Len(s.txn)
      /\ Elements(s.queue) \subseteq UnderWay(s.txn, d)
      /\ Elements(s.queue) \subseteq 1..Len(s.txn)
  BY WritesAre
<1>4. /\ b.cache = s.cache /\ b.queue = s.queue /\ b.writes = s.writes /\ b.puts = s.puts
      /\ Len(b.txn) = Len(s.txn)
  BY DEF AnswerNoted
<1>5. PICK f : f = Forget(b, g) /\ h = [f EXCEPT !.queue = Without(@, g)]
  BY <1>1 DEF Forgotten
<1>6. /\ h \in Phone /\ h.cache = s.cache /\ h.queue = Without(s.queue, g)
      /\ h.txn = b.txn /\ h.puts = s.puts
      /\ Elements(h.writes) = Elements(s.writes) \ g
  BY <1>1, <1>4, ForgottenPhone
<1>7. /\ h.writes = Without(s.writes, g)
      /\ \A x, y : After(h.writes, x, y) <=> After(s.writes, x, y) /\ x \notin g /\ y \notin g
  <2>1. f \in Phone
    BY <1>5, ForgetFacts
  <2>2. h.writes = f.writes
    BY <1>5, <2>1 DEF Phone
  <2>3. /\ Forget(b, g).writes = Without(b.writes, g)
        /\ \A x, y : After(Forget(b, g).writes, x, y) <=>
             After(b.writes, x, y) /\ x \notin g /\ y \notin g
    BY ForgetOrder
  <2> QED
    BY <1>4, <1>5, <2>2, <2>3
<1>8. Elements(h.queue) = Elements(s.queue) \ g
  <2>1. s.queue \in Seq(Nat)
    BY DEF Phone
  <2> QED
    BY <1>6, <2>1, ElementsWithout
<1>9. \A t \in g : Full(s, t)
  <2>1. g # {} => Accepts(m)
    BY <1>2 DEF Accepts
  <2>2. Truthful(s, m)
    BY <1>2 DEF Truths
  <2> QED
    BY <1>2, <2>1, <2>2 DEF Truthful
<1>10. /\ \A t \in 1..Len(s.txn) : t \notin g => h.txn[t] = s.txn[t]
       /\ \A t \in 1..Len(s.txn) : Full(h, t) = Full(s, t)
       /\ Len(h.txn) = Len(s.txn)
  BY <1>2, <1>4, <1>6 DEF Full
<1>11. /\ UnderWay(h.txn, d) \subseteq UnderWay(s.txn, d) \ g
       /\ UnderWay(s.txn, d) \ g \subseteq UnderWay(h.txn, d)
       /\ UnderWay(s.txn, d) \subseteq 1..Len(s.txn)
  BY <1>2, <1>6, <1>10 DEF UnderWay
<1>12. Left(d, s) \subseteq Left(d, h) \cup g /\ Left(d, h) \subseteq UnderWay(s.txn, d)
  BY <1>8, <1>11 DEF Left
<1>13. Outstanding(h) \subseteq Outstanding(s) /\ \A t \in Outstanding(h) : h.txn[t] = s.txn[t]
  BY <1>3, <1>8, <1>10 DEF Outstanding
<1>14. Tidy(h)
  <2>1. /\ s.writes \in Seq(Nat \cup Comments) /\ Distinct(s.writes)
        /\ s.queue \in Seq(Nat) /\ Distinct(s.queue)
    BY DEF Seen, Tidy, Phone
  <2>2. Distinct(h.writes) /\ Distinct(h.queue)
    BY <1>6, <1>7, <2>1, DistinctOnly DEF Without
  <2> QED
    BY <2>2 DEF Tidy
<1>15. Base(h).whole => Base(s).whole
  <2> SUFFICES ASSUME Base(h).whole
               PROVE  Base(s).whole
    OBVIOUS
  <2>1. PICK x, y : x = Elements(s.queue) /\ y = Elements(h.queue)
    OBVIOUS
  <2>2. Latest(h, y).whole /\ Distinct(s.writes) /\ Distinct(h.writes)
    BY <1>14, <2>1 DEF Base, Seen, Tidy
  <2>3. \A t \in Elements(h.writes) \ Comments :
          t \notin y => t \in Elements(s.writes) /\ t \notin x /\ (Full(h, t) => Full(s, t))
    BY <1>3, <1>6, <1>8, <1>10, <2>1
  <2>4. \A p, q : After(h.writes, p, q) /\ p \notin y /\ q \notin y /\ p \notin Comments
                    /\ q \notin Comments => After(s.writes, p, q)
    BY <1>7
  <2>5. \A t \in Elements(s.writes) \ Comments :
          t \notin x => (t \in Elements(h.writes) /\ t \notin y) \/ Full(s, t)
    BY <1>6, <1>8, <1>9, <2>1
  <2>6. Elements(h.writes) \ Comments \subseteq 1..Len(h.txn)
    BY <1>3, <1>6, <1>10
  <2>7. Latest(s, x).whole
    BY <1>3, <1>6, <2>2, <2>3, <2>4, <2>5, <2>6, WholeFrom
  <2> QED
    BY <2>1, <2>7 DEF Base
<1>16. Blind(d, h) /\ Together(h) /\ Tried(h)
  <2>1. Blind(d, h)
    BY <1>6, <1>10, <1>11 DEF Seen, Blind
  <2>2. Together(h)
    BY <1>13 DEF Seen, Together
  <2>3. Tried(h)
    BY <1>3, <1>6, <1>8, <1>10 DEF Seen, Tried
  <2> QED
    BY <2>1, <2>2, <2>3
<1>17. Even(h)
  <2> SUFFICES ASSUME NEW x \in Outstanding(h), Full(h, x), Base(h).whole
               PROVE  \A t \in Elements(h.queue) : Full(h, t)
    BY DEF Even
  <2>1. x \in Outstanding(s) /\ x \in 1..Len(s.txn)
    BY <1>3, <1>13 DEF Outstanding
  <2>2. \A t \in Elements(s.queue) : Full(s, t)
    BY <1>10, <1>15, <2>1 DEF Seen, Even
  <2> QED
    BY <1>3, <1>8, <1>10, <2>2
<1>18. Overridden(d, h)
  BY <1>8, <1>10, <1>11 DEF Seen, Overridden
<1>19. Mature(d, h)
  <2> SUFFICES ASSUME \A t \in Left(d, h) : Full(h, t), NEW t \in Elements(h.queue),
                      h.txn[t].retries >= 2
               PROVE  Full(h, t)
    BY DEF Mature
  <2>1. \A y \in Left(d, s) : Full(s, y)
    BY <1>9, <1>10, <1>11, <1>12
  <2>2. t \in Elements(s.queue) /\ t \in 1..Len(s.txn) /\ s.txn[t].retries >= 2
    BY <1>3, <1>8, <1>10
  <2> QED
    BY <1>10, <2>1, <2>2 DEF Seen, Mature
<1>20. Truths(h, Path(h, k))
  <2>1. Path(h, k) = Path(s, k)
    BY <1>6 DEF Path, Road, Asks
  <2>2. \A t \in Of(s.txn, d) : h.txn[t].out = s.txn[t].out
    BY <1>2, <1>6 DEF Of
  <2> QED
    BY <1>2, <2>1, <2>2, PathTruths
<1> QED
  BY <1>2, <1>6, <1>8, <1>9, <1>10, <1>14, <1>15, <1>16, <1>17, <1>18, <1>19, <1>20 DEF Seen, Freed

(* The answer of a put is handled.                                         *)
LEMMA PutSeen ==
  ASSUME NEW d, NEW s \in Phone, NEW l \in Line, NEW ap, NEW w, Sound(d, s, l, ap, w),
         Sent(s), Seen(d, s), Truths(s, Path(s, l)),
         NEW m \in Answers, NEW k \in Line, Took(m, l, k),
         m.status = "datastale" => s.cache.whole,
         NEW r, ResumedFrom(m, s, r)
  PROVE  Seen(d, r) /\ Truths(r, Path(r, k))
<1>1. PICK b \in Phone : /\ AnswerNoted(m, s, b) /\ r = AfterPut(b, m.status, Elements(m.what))
                          /\ Head(m.what) \notin Comments
  BY DEF ResumedFrom
<1>3. CASE m.status # "ok"
  <2>1. r = b
    BY <1>1, <1>3 DEF AfterPut
  <2>2. Seen(d, b) /\ Truths(b, Path(b, k))
    BY <1>1, <1>3, RefusedSeen
  <2> QED
    BY <2>1, <2>2
<1>4. CASE m.status = "ok"
  <2>1. PICK g, h : g = Elements(m.what) /\ h = [Forget(b, g) EXCEPT !.queue = Without(@, g)]
    OBVIOUS
  <2>2. r = SendReady(h) /\ Forgotten(b, Elements(m.what), h)
    BY <1>1, <1>4, <2>1 DEF AfterPut, Forgotten
  <2>3. /\ h \in Phone /\ Seen(d, h) /\ Truths(h, Path(h, k))
        /\ Base(h).whole => Base(s).whole
        /\ Elements(h.queue) = Elements(s.queue) \ Carried(m)
        /\ \A t \in 1..Len(s.txn) : t \notin Carried(m) => h.txn[t] = s.txn[t]
        /\ \A t \in Carried(m) : Full(s, t)
        /\ \A t \in 1..Len(s.txn) : Full(h, t) = Full(s, t)
    <3>1. Freed(d, m, s, h, k)
      BY <1>1, <1>4, <2>2, AcceptedSeen
    <3> QED
      BY <3>1 DEF Freed
  <2>4. Sound(d, h, k, ap, w) /\ Ready(h)
    <3>1. /\ h.cache = b.cache /\ h.queue = Without(b.queue, g)
          /\ h.txn = b.txn /\ h.feed = b.feed /\ h.unanswered = b.unanswered
          /\ h.puts = b.puts /\ Elements(h.writes) = Elements(b.writes) \ g
      <4>1. Forgotten(b, g, h)
        BY <2>1, <2>2
      <4> QED
        BY <4>1, ForgottenPhone
    <3>2. Settles(m, s, h)
      BY <1>1, <1>4, <2>1, <3>1 DEF Settles, AnswerNoted
    <3> QED
      BY <1>1, <1>4, <2>3, <3>2, SettleSound
  <2>5. /\ Elements(s.queue) \subseteq 1..Len(s.txn)
        /\ Elements(s.queue) \subseteq Of(s.txn, d)
        /\ \A t \in 1..Len(s.txn) : s.txn[t].retries \in Nat /\ s.txn[t].sets \in Nat
    BY WritesAre
  <2>6. IF Waits(h) THEN Launched(h, r) ELSE r = h
    <3>1. /\ Elements(h.writes) \ Comments \subseteq 1..Len(h.txn)
          /\ Elements(h.queue) \subseteq 1..Len(h.txn)
      BY <2>3, <2>4, WritesAre
    <3>2. \A t \in Elements(h.queue) :
             h.txn[t].status = "run" => h.txn[t].retries < MaxRetries
      BY <2>4 DEF Ready
    <3> QED
      BY <2>2, <2>3, <3>1, <3>2, SendFacts
  <2>7. CASE Waits(h)
    <3>1. s.queue # << >>
      <4>1. h.queue # << >> /\ h.queue \in Seq(Nat) /\ s.queue \in Seq(Nat)
        BY <2>3, <2>7 DEF Waits, Phone
      <4>2. PICK p \in Seq(Nat), q \in Seq(Nat) : p = h.queue /\ q = s.queue
        BY <4>1
      <4>3. Elements(p) # {}
        BY SMTT(30), <4>1, <4>2, ElementsFacts
      <4>4. Elements(q) # {}
        BY <2>3, <4>2, <4>3
      <4> QED
        BY <4>2, <4>4, ElementsFacts
    <3>2. Outstanding(s) # {}
      BY <3>1, SentOutstanding
    <3>3. \A t \in Elements(h.queue) :
            /\ t \in Elements(s.queue) /\ t \in 1..Len(s.txn) /\ h.txn[t] = s.txn[t]
            /\ h.txn[t].status = "run" /\ t \in Of(s.txn, d)
      BY <2>3, <2>5, <2>7 DEF Waits
    <3>4. Outstanding(s) \subseteq Carried(m)
      BY <2>3, <3>3 DEF Outstanding, Pending
    <3>5. Even0(h)
      <4>1. PICK x \in Outstanding(s) : Full(s, x)
        BY <2>3, <3>2, <3>4
      <4>2. Base(s).whole => \A t \in Elements(s.queue) : Full(s, t)
        BY <4>1 DEF Seen, Even
      <4> QED
        BY <2>3, <3>3, <4>2 DEF Even0
    <3>6. Ripe(d, h)
      <4>1. \A t \in Elements(h.queue) : h.txn[t].retries = 0
        BY <3>2, <3>3 DEF Sound, Fresh
      <4> QED
        BY <4>1 DEF Ripe
    <3> QED
      BY <2>2, <2>3, <2>4, <2>7, <3>5, <3>6, SendSeen
  <2>8. CASE ~Waits(h)
    BY <2>3, <2>6, <2>8
  <2> QED
    BY <2>7, <2>8
<1> QED
  BY <1>3, <1>4

-----------------------------------------------------------------------------
(* What leads on the road.                                                 *)

(* Only messages that are not about a transaction tell of the post.        *)
LEMMA InformsCarried == \A m : Informs(m) => Carried(m) = {}
BY DEF Informs, Asking, Carried

(* Something that tells of the post leads if nothing is about a            *)
(* transaction.                                                            *)
LEMMA LedFree ==
  ASSUME NEW S, NEW q \in Seq(S), \A m \in Elements(q) : Carried(m) = {},
         NEW m \in Elements(q), Informs(m)
  PROVE  Led(q)
<1>1. PICK i \in 1..Len(q) : q[i] = m
  BY DEF Elements
<1>2. Len(q) \in Nat
  BY LenProperties
<1>3. \A j \in 1..i : q[j] \in Elements(q)
  BY <1>1, <1>2 DEF Elements
<1> QED
  BY <1>1, <1>3 DEF Led

(* What informs comes first in the first part, or in the second one        *)
(* behind a part without puts.                                             *)
LEMMA LedConcat ==
  ASSUME NEW S, NEW q \in Seq(S), NEW u \in Seq(S)
  PROVE  Led(q \o u) <=> Led(q) \/ ((\A m \in Elements(q) : Carried(m) = {}) /\ Led(u))
<1>1. PICK a : a = q \o u
  OBVIOUS
<1>2. /\ Len(q) \in Nat /\ Len(u) \in Nat /\ Len(a) = Len(q) + Len(u)
      /\ \A i \in 1..Len(q) : i \in 1..Len(a) /\ a[i] = q[i]
      /\ \A i \in 1..Len(u) : Len(q) + i \in 1..Len(a) /\ a[Len(q) + i] = u[i]
      /\ \A i \in 1..Len(a) : i \in 1..Len(q) \/ i - Len(q) \in 1..Len(u)
  BY <1>1, ConcatPlaces
<1>3. ASSUME Led(q)
      PROVE  Led(a)
  <2>1. PICK i \in 1..Len(q) : Informs(q[i]) /\ \A j \in 1..i : Carried(q[j]) = {}
    BY <1>3 DEF Led
  <2>2. i \in 1..Len(a) /\ a[i] = q[i] /\ \A j \in 1..i : a[j] = q[j]
    BY <1>2
  <2> QED
    BY <2>1, <2>2 DEF Led
<1>4. ASSUME \A m \in Elements(q) : Carried(m) = {}, Led(u)
      PROVE  Led(a)
  <2>1. PICK i \in 1..Len(u) : Informs(u[i]) /\ \A j \in 1..i : Carried(u[j]) = {}
    BY <1>4 DEF Led
  <2>2. Len(q) + i \in 1..Len(a) /\ a[Len(q) + i] = u[i]
    BY <1>2
  <2>3. ASSUME NEW j \in 1..(Len(q) + i)
        PROVE  Carried(a[j]) = {}
    <3>1. CASE j \in 1..Len(q)
      BY <1>2, <1>4, <3>1 DEF Elements
    <3>2. CASE j \notin 1..Len(q)
      <4>1. PICK n \in 1..i : j = Len(q) + n
        <5>1. j - Len(q) \in 1..i /\ j = Len(q) + (j - Len(q))
          BY <1>2, <3>2
        <5> QED
          BY <5>1
      <4>2. n \in 1..Len(u)
        BY <1>2
      <4> QED
        BY <1>2, <2>1, <4>1, <4>2
    <3> QED
      BY <3>1, <3>2
  <2> QED
    BY <2>1, <2>2, <2>3 DEF Led
<1>5. ASSUME Led(a)
      PROVE  Led(q) \/ ((\A m \in Elements(q) : Carried(m) = {}) /\ Led(u))
  <2>1. PICK i \in 1..Len(a) : Informs(a[i]) /\ \A j \in 1..i : Carried(a[j]) = {}
    BY <1>5 DEF Led
  <2>2. CASE i \in 1..Len(q)
    <3>1. \A j \in 1..i : a[j] = q[j]
      BY <1>2, <2>2
    <3> QED
      BY <1>2, <2>1, <2>2, <3>1 DEF Led
  <2>3. CASE i \notin 1..Len(q)
    <3>1. PICK n \in 1..Len(u) : i = Len(q) + n
      <4>1. i - Len(q) \in 1..Len(u) /\ i = Len(q) + (i - Len(q))
        BY <1>2, <2>3
      <4> QED
        BY <4>1
    <3>2. \A j \in 1..Len(q) : j \in 1..i /\ a[j] = q[j]
      BY <1>2, <3>1
    <3>3. \A m \in Elements(q) : Carried(m) = {}
      BY <2>1, <3>2 DEF Elements
    <3>4. \A j \in 1..n : Len(q) + j \in 1..i /\ a[Len(q) + j] = u[j]
      BY <1>2, <3>1
    <3>5. Informs(u[n]) /\ \A j \in 1..n : Carried(u[j]) = {}
      BY <1>2, <2>1, <3>1, <3>4
    <3>6. Led(u)
      BY <3>5 DEF Led
    <3> QED
      BY <3>3, <3>6
  <2> QED
    BY <2>2, <2>3
<1> QED
  BY <1>1, <1>3, <1>4, <1>5

(* One message leads if it informs.                                        *)
LEMMA LedOne ==
  /\ ~Led(<< >>)
  /\ \A m : Led(<<m>>) <=> Informs(m)
<1>1. ~Led(<< >>)
  BY DEF Led
<1>2. ASSUME NEW m
      PROVE  Led(<<m>>) <=> Informs(m)
  <2>1. Len(<<m>>) = 1 /\ <<m>>[1] = m
    OBVIOUS
  <2>2. Led(<<m>>) <=> Informs(m) /\ Carried(m) = {}
    BY <2>1 DEF Led
  <2> QED
    BY <2>2, InformsCarried
<1> QED
  BY <1>1, <1>2

(* Handling the first message, if it does not tell of the post.            *)
LEMMA LedTail ==
  ASSUME NEW S, NEW q \in Seq(S), q # << >>, Led(q), ~Informs(Head(q))
  PROVE  Carried(Head(q)) = {} /\ Led(Tail(q))
<1>1. PICK h \in S, b \in Seq(S) : h = Head(q) /\ b = Tail(q)
  BY ElementsTail
<1>2. q = <<h>> \o b /\ <<h>> \in Seq(S) /\ Elements(<<h>>) = {h}
  BY <1>1, ElementsFacts
<1>3. Led(<<h>> \o b)
  BY <1>2
<1>4. Led(<<h>>) \/ ((\A m \in Elements(<<h>>) : Carried(m) = {}) /\ Led(b))
  BY <1>2, <1>3, LedConcat
<1> QED
  BY <1>1, <1>2, <1>4, LedOne

(* The server makes e of the request h.                                    *)
LEMMA LedPush ==
  ASSUME NEW S, NEW q \in Seq(S), NEW h \in S, NEW b \in Seq(S), NEW e \in Seq(S),
         Informs(h) => Led(e), Carried(h) = {} => \A m \in Elements(e) : Carried(m) = {},
         Led(q \o (<<h>> \o b))
  PROVE  Led((q \o e) \o b)
<1>1. PICK p \in Seq(S), v \in Seq(S) : p = <<h>> \o b /\ v = q \o e
  <2>1. <<h>> \in Seq(S)
    OBVIOUS
  <2> QED
    BY <2>1, ElementsConcat
<1>2. Elements(v) = Elements(q) \cup Elements(e) /\ <<h>> \in Seq(S) /\ Elements(<<h>>) = {h}
  BY <1>1, ElementsConcat, ElementsFacts
<1>3. Led(q \o p) <=> Led(q) \/ ((\A m \in Elements(q) : Carried(m) = {}) /\ Led(p))
  BY LedConcat
<1>4. Led(p) <=> Led(<<h>>) \/ ((\A m \in Elements(<<h>>) : Carried(m) = {}) /\ Led(b))
  BY <1>1, <1>2, LedConcat
<1>5. Led(v) <=> Led(q) \/ ((\A m \in Elements(q) : Carried(m) = {}) /\ Led(e))
  BY <1>1, LedConcat
<1>6. Led(v \o b) <=> Led(v) \/ ((\A m \in Elements(v) : Carried(m) = {}) /\ Led(b))
  BY LedConcat
<1>7. Led(<<h>>) <=> Informs(h)
  BY LedOne
<1>8. Led(q) \/ ((\A m \in Elements(q) : Carried(m) = {}) /\ Led(p))
  BY <1>1, <1>3
<1>9. Led(v \o b)
  BY <1>2, <1>4, <1>5, <1>6, <1>7, <1>8
<1> QED
  BY <1>1, <1>9

(* News put in between leave the lead as it was.                           *)
LEMMA LedNews ==
  ASSUME NEW S, NEW q \in Seq(S), NEW b \in Seq(S), NEW e \in Seq(S),
         \A m \in Elements(e) : Carried(m) = {}, Led(q \o b)
  PROVE  Led((q \o e) \o b)
<1>1. PICK v \in Seq(S) : v = q \o e
  BY ElementsConcat
<1>2. Elements(v) = Elements(q) \cup Elements(e)
  BY <1>1, ElementsConcat
<1>3. Led(q \o b) <=> Led(q) \/ ((\A m \in Elements(q) : Carried(m) = {}) /\ Led(b))
  BY LedConcat
<1>4. Led(v) <=> Led(q) \/ ((\A m \in Elements(q) : Carried(m) = {}) /\ Led(e))
  BY <1>1, LedConcat
<1>5. Led(v \o b) <=> Led(v) \/ ((\A m \in Elements(v) : Carried(m) = {}) /\ Led(b))
  BY LedConcat
<1> QED
  BY <1>1, <1>2, <1>3, <1>4, <1>5

-----------------------------------------------------------------------------
(* What a handler leaves of what a phone expects.                          *)

(* More is asked, and what was known is known, or no longer needed.        *)
LEMMA AwaitsMore ==
  ASSUME NEW d, NEW s \in Phone, NEW l \in Line, NEW on, Awaits(d, s, l, on),
         NEW u \in Seq(Messages), NEW r, NEW k \in Line,
         \/ r.feed = s.feed \/ r.feed = "idle"
         \/ r.feed = "sent" /\ (on => \E m \in Elements(u) : Fetches(m)),
         UnderWay(r.txn, d) \subseteq UnderWay(s.txn, d),
         \/ s.cache.whole => r.cache.whole
         \/ /\ UnderWay(r.txn, d) = {} /\ r.feed # "answered"
            /\ \A m \in Elements(l.hd) \cup Elements(l.td) : Carried(m) = {},
         Asks(r, k) = Asks(s, l) \o u,
         k.dn = l.dn, k.hd = l.hd, k.td = l.td
  PROVE  Awaits(d, r, k, on)
<1>1. PICK q \in Seq(Messages) : q = Road(s, l)
  BY Places
<1>2. Road(r, k) = q \o u
  <2>1. PICK e \in Seq(Messages), c \in Seq(Messages) : e = Asks(s, l) /\ c = l.dn
    BY Places
  <2>2. c \o (e \o u) = (c \o e) \o u
    BY SMTT(30), ConcatThree
  <2>3. q = c \o e
    BY <1>1, <2>1 DEF Road
  <2>4. Road(r, k) = c \o (e \o u)
    BY <2>1 DEF Road
  <2> QED
    BY <2>2, <2>3, <2>4
<1>3. Elements(q \o u) = Elements(q) \cup Elements(u)
  BY ElementsConcat
<1>4. Led(q) => Led(q \o u)
  BY LedConcat
<1>5. on => /\ UnderWay(r.txn, d) # {} => r.cache.whole \/ Led(Road(r, k))
            /\ r.feed = "sent" => \E m \in Elements(Road(r, k)) : Fetches(m)
  BY <1>1, <1>2, <1>3, <1>4 DEF Awaits
<1>6. r.feed = "answered" => r.cache.whole
  BY DEF Awaits
<1>7. Late(r.cache, k.hd) /\ Late(r.cache, k.td)
  BY DEF Awaits, Late
<1> QED
  BY <1>5, <1>6, <1>7 DEF Awaits

(* A handler that leaves the road and does not forget the post keeps       *)
(* what is expected.                                                       *)
LEMMA AwaitsKept ==
  ASSUME NEW d, NEW s, NEW l, NEW on, Awaits(d, s, l, on),
         NEW r, r.feed = s.feed, s.cache.whole => r.cache.whole, r.puts = s.puts,
         UnderWay(r.txn, d) \subseteq UnderWay(s.txn, d)
  PROVE  Awaits(d, r, l, on)
<1>1. Road(r, l) = Road(s, l)
  BY DEF Road, Asks
<1> QED
  BY <1>1 DEF Awaits, Late

(* The queue is sent, perhaps.                                             *)
LEMMA SendAwaits ==
  ASSUME NEW d, NEW s \in Phone, NEW l \in Line, NEW ap, NEW w, Sound(d, s, l, ap, w),
         Ready(s), NEW on, Awaits(d, s, l, on), NEW r, r = SendReady(s)
  PROVE  Awaits(d, r, l, on)
<1>1. /\ Elements(s.writes) \ Comments \subseteq 1..Len(s.txn)
      /\ Elements(s.queue) \subseteq 1..Len(s.txn)
  BY WritesAre
<1>2. r \in Phone /\ IF Waits(s) THEN Launched(s, r) ELSE r = s
  <2>1. \A t \in Elements(s.queue) :
           s.txn[t].status = "run" => s.txn[t].retries < MaxRetries
    BY DEF Ready
  <2> QED
    BY <1>1, <2>1, SendFacts
<1>3. CASE ~Waits(s)
  BY <1>2, <1>3
<1>4. CASE Waits(s)
  <2>1. PICK m \in Puts : r.puts = Append(s.puts, m)
    BY <1>2, <1>4 DEF Launched
  <2>2. m \in Requests /\ m \in Messages
    BY DEF Requests, Messages
  <2>3. PICK o \in Seq(Requests), p \in Seq(Requests) : o = l.ob /\ p = s.puts
    BY DEF Line, Phone
  <2>4. o \o Append(p, m) = Append(o \o p, m) /\ o \o p \in Seq(Requests)
    BY <2>2, ConcatAppend
  <2>5. PICK q \in Seq(Requests) : q = o \o p
    BY <2>4
  <2>6. q \o <<m>> = Append(q, m)
    BY <2>2
  <2>7. Asks(r, l) = Asks(s, l) \o <<m>>
    BY <2>1, <2>3, <2>4, <2>5, <2>6 DEF Asks
  <2>8. <<m>> \in Seq(Messages)
    BY <2>2
  <2>9. UnderWay(r.txn, d) = UnderWay(s.txn, d)
    <3>1. Len(r.txn) = Len(s.txn)
      BY <1>2, <1>4 DEF Launched
    <3>2. \A t \in 1..Len(s.txn) :
            r.txn[t].told = s.txn[t].told /\ r.txn[t].dev = s.txn[t].dev
      BY <1>2, <1>4, SendOuts
    <3> QED
      BY <3>1, <3>2 DEF UnderWay
  <2>10. r.cache = s.cache /\ r.feed = s.feed
    BY <1>2, <1>4 DEF Launched
  <2> QED
    BY <2>7, <2>8, <2>9, <2>10, AwaitsMore
<1> QED
  BY <1>3, <1>4

(* So does one that runs the queue again.                                  *)
LEMMA ResentAwaits ==
  ASSUME NEW d, NEW s \in Phone, NEW l \in Line, NEW ap, NEW w, Sound(d, s, l, ap, w),
         Seen(d, s), NEW on, Awaits(d, s, l, on), NEW r, Resent(s, r)
  PROVE  Awaits(d, r, l, on)
<1>1. PICK a : a = Rerun(s) /\ r = SendReady(a)
  BY DEF Resent
<1>2. /\ a \in Phone /\ Reran(s, a) /\ Sound(d, a, l, ap, w) /\ Ready(a) /\ Tidy(a)
      /\ \A t \in Again(s) : Full(a, t) = Base(s).whole
      /\ \A t \in 1..Len(s.txn) : t \notin Again(s) => Full(a, t) = Full(s, t)
      /\ Base(a).whole => Base(s).whole
      /\ Left(d, a) = Left(d, s) /\ UnderWay(a.txn, d) \subseteq UnderWay(s.txn, d) \ Gone(s)
  BY <1>1, RerunBase
<1>3. a.feed = s.feed /\ a.cache = s.cache /\ a.puts = s.puts
  BY <1>2 DEF Reran
<1>4. Awaits(d, a, l, on)
  BY <1>2, <1>3, AwaitsKept
<1> QED
  BY <1>1, <1>2, <1>4, SendAwaits

(* An answer is taken.  If it is about a transaction, the post is known.   *)
LEMMA TookAwaits ==
  ASSUME NEW d, NEW s \in Phone, NEW l \in Line, NEW ap, NEW w, Sound(d, s, l, ap, w),
         NEW on, Awaits(d, s, l, on), NEW m \in Answers, NEW k \in Line, Took(m, l, k)
  PROVE  /\ Awaits(d, s, k, on)
         /\ Carried(m) # {} => m.status = "disconnect" \/ s.cache.whole
<1>1. CASE l.td # << >> /\ m = Head(l.td) /\ k.td = Tail(l.td) /\ k.dn = l.dn
  <2>1. PICK q \in Seq(Answers) : q = l.td
    BY DEF Line
  <2>2. Elements(q) = Elements(Tail(q)) \cup {Head(q)}
    BY <1>1, <2>1, ElementsTail
  <2>3. Road(s, k) = Road(s, l) /\ k.hd = l.hd
    BY <1>1 DEF Took, Road, Asks
  <2> QED
    BY <1>1, <2>1, <2>2, <2>3 DEF Awaits, Late
<1>2. CASE l.td = << >> /\ l.dn # << >> /\ m = Head(l.dn) /\ k.dn = Tail(l.dn) /\ k.td = l.td
  <2>1. on
    BY <1>2 DEF Awaits
  <2>2. Delivered(l, k)
    BY <1>2 DEF Took, Delivered
  <2>3. PICK q \in Seq(Messages) : q = Road(s, l)
    BY Places
  <2>4. q # << >> /\ Head(q) = m /\ Road(s, k) = Tail(q)
    BY <1>2, <2>2, <2>3, DeliveredPath
  <2>5. m.type = "reply" /\ ~Informs(m) /\ ~Fetches(m)
    BY DEF Answers, Informs, Fetches, Asking
  <2>6. Elements(q) = Elements(Tail(q)) \cup {m}
    BY <2>4, ElementsTail
  <2>7. Led(q) => Carried(m) = {} /\ Led(Tail(q))
    BY <2>4, <2>5, LedTail
  <2>8. Carried(m) # {} => UnderWay(s.txn, d) # {}
    <3>1. m \in Elements(Path(s, l))
      BY TookPath
    <3> QED
      BY <3>1, SoundPath DEF RightPath
  <2>9. Whole(k.dn)
    <3>1. PICK p \in Seq(Notices) : p = l.dn
      BY DEF Line
    <3>2. Elements(Tail(p)) \subseteq Elements(p)
      BY <1>2, <3>1, ElementsTail
    <3> QED
      BY <1>2, <3>1, <3>2 DEF Awaits, Whole
  <2>10. k.hd = l.hd /\ k.td = l.td
    BY <1>2 DEF Took
  <2> QED
    BY <2>1, <2>3, <2>4, <2>5, <2>6, <2>7, <2>8, <2>9, <2>10 DEF Awaits
<1> QED
  BY <1>1, <1>2 DEF Took

(* So does the handler of the answer of a put.                             *)
LEMMA ResumedAwaits ==
  ASSUME NEW d, NEW s \in Phone, NEW l \in Line, NEW ap, NEW w, Sound(d, s, l, ap, w),
         Sent(s), NEW m \in Answers, NEW k \in Line, Took(m, l, k),
         NEW on, Awaits(d, s, k, on), NEW r, ResumedFrom(m, s, r)
  PROVE  Awaits(d, r, k, on)
<1>1. PICK b \in Phone : /\ AnswerNoted(m, s, b) /\ r = AfterPut(b, m.status, Elements(m.what))
                          /\ Head(m.what) \notin Comments
  BY DEF ResumedFrom
<1>2. PICK g : g = Elements(m.what)
  OBVIOUS
<1>3. Makes(d, m, s, l, k, b, g)
  BY <1>1, <1>2, AnswerMakes
<1>4. /\ b.cache = s.cache /\ b.feed = s.feed /\ b.puts = s.puts
      /\ Len(b.txn) = Len(s.txn)
  BY <1>1 DEF AnswerNoted
<1>5. UnderWay(b.txn, d) \subseteq UnderWay(s.txn, d)
  BY <1>3, <1>4 DEF Makes, UnderWay
<1>6. Awaits(d, b, k, on)
  BY <1>4, <1>5, AwaitsKept
<1>7. CASE m.status # "ok"
  BY <1>1, <1>6, <1>7 DEF AfterPut
<1>8. CASE m.status = "ok"
  <2>1. PICK h : h = [Forget(b, g) EXCEPT !.queue = Without(@, g)]
    OBVIOUS
  <2>2. r = SendReady(h) /\ Forgotten(b, g, h)
    BY <1>1, <1>2, <1>8, <2>1 DEF AfterPut, Forgotten
  <2>3. /\ h \in Phone /\ h.cache = b.cache /\ h.queue = Without(b.queue, g)
        /\ h.txn = b.txn /\ h.feed = b.feed /\ h.unanswered = b.unanswered
        /\ h.puts = b.puts /\ Elements(h.writes) = Elements(b.writes) \ g
    BY <2>2, ForgottenPhone
  <2>4. Sound(d, h, k, ap, w) /\ Ready(h)
    <3>1. Settles(m, s, h)
      BY <1>1, <1>2, <1>8, <2>3 DEF Settles, AnswerNoted
    <3> QED
      BY <1>1, <1>8, <2>3, <3>1, SettleSound
  <2>5. Awaits(d, h, k, on)
    BY <1>6, <2>3, AwaitsKept
  <2> QED
    BY <2>2, <2>3, <2>4, <2>5, SendAwaits
<1> QED
  BY <1>7, <1>8

-----------------------------------------------------------------------------
(* Steps.                                                                  *)

(* What is asked is the last of all messages.                              *)
LEMMA PathMore ==
  ASSUME NEW s \in Phone, NEW l \in Line, NEW u \in Seq(Messages), NEW r, NEW k,
         Asks(r, k) = Asks(s, l) \o u, k.dn = l.dn, k.hd = l.hd, k.td = l.td
  PROVE  Elements(Path(r, k)) = Elements(Path(s, l)) \cup Elements(u)
<1>1. Path(r, k) = Path(s, l) \o u
  <2>1. Road(r, k) = Road(s, l) \o u
    <3>1. PICK e \in Seq(Messages), c \in Seq(Messages) : e = Asks(s, l) /\ c = l.dn
      BY Places
    <3>2. c \o (e \o u) = (c \o e) \o u
      BY SMTT(30), ConcatThree
    <3> QED
      BY <3>1, <3>2 DEF Road
  <2>2. l.hd \o Road(r, k) = (l.hd \o Road(s, l)) \o u
    <3>1. PICK e \in Seq(Messages), c \in Seq(Messages) : e = Road(s, l) /\ c = l.hd
      BY Places
    <3>2. c \o (e \o u) = (c \o e) \o u
      BY SMTT(30), ConcatThree
    <3> QED
      BY <2>1, <3>1, <3>2
  <2>3. PICK e \in Seq(Messages), c \in Seq(Messages) : e = l.hd \o Road(s, l) /\ c = l.td
    BY Places
  <2>4. c \o (e \o u) = (c \o e) \o u
    BY SMTT(30), ConcatThree
  <2> QED
    BY <2>2, <2>3, <2>4 DEF Path
<1>2. PICK q \in Seq(Messages) : q = Path(s, l)
  BY Places
<1> QED
  BY <1>1, <1>2, ElementsConcat

(* What a handler leaves behind is that of the phone.                      *)
LEMMA CommitReads ==
  ASSUME Shape, Shape', NEW d \in Devices, NEW s \in Phone, Commit(d, s), NEW k \in Line,
         NEW ap, NEW v, Sound(d, s, k, ap, v), Reads(d, s, k, online[d]),
         k.ob = outbox[d], k.dn = down'[d], k.hd = held'[d], k.td = todo'[d],
         online' = online, watch' = watch, ~online[d] => ~watch[d]
  PROVE  Reading(d)'
<1>1. PICK r, j : r = State(d)' /\ j = LineOf(d)'
  OBVIOUS
<1>2. /\ r \in Phone /\ j \in Line /\ Asks(r, j) = outbox'[d] /\ outbox[d] \in Seq(Requests)
      /\ outbox'[d] \in Seq(Requests)
  BY <1>1, ShapeFacts, ShapeNext
<1>3. /\ txn' = s.txn /\ queue'[d] = s.queue /\ writes'[d] = s.writes
      /\ feed'[d] = s.feed
      /\ cache'[d] = IF UnderWay(s.txn, d) = {} /\ s.feed # "answered" THEN Empty ELSE s.cache
  BY DEF Shape, Commit
<1>4. PICK u : u = IF UnderWay(s.txn, d) = {} /\ s.feed = "idle" /\ UnderWay(txn, d) # {}
                   THEN Say(d, [type |-> "unlisten"]) ELSE << >>
  OBVIOUS
<1>5. outbox'[d] = (outbox[d] \o s.puts) \o u
  <2>1. outbox \in [Devices -> Seq(Requests)] /\ d \in Devices
    BY DEF Shape
  <2>2. outbox' = [outbox EXCEPT ![d] = @ \o s.puts \o u]
    BY <1>4 DEF Commit
  <2> QED
    BY <2>1, <2>2
<1>6. u \in Seq(Messages) /\ \A m \in Elements(u) : m.type = "unlisten"
  <2>1. PICK m : m = [type |-> "unlisten"]
    OBVIOUS
  <2>2. m \in Messages /\ m.type = "unlisten"
    BY <2>1 DEF Messages, Requests
  <2>3. <<m>> \in Seq(Messages) /\ Elements(<<m>>) = {m}
    BY <2>2, One
  <2>4. << >> \in Seq(Messages) /\ Elements(<< >>) = {}
    BY EmptySeq, ElementsFacts
  <2>5. u = <<m>> \/ u = << >>
    BY <1>4, <2>1 DEF Say
  <2> QED
    BY <2>2, <2>3, <2>4, <2>5
<1>7. Asks(r, j) = Asks(s, k) \o u
  BY <1>2, <1>5 DEF Asks
<1>8. j.dn = k.dn /\ j.hd = k.hd /\ j.td = k.td
  BY <1>1 DEF LineOf
<1>9. Elements(Path(r, j)) = Elements(Path(s, k)) \cup Elements(u)
  BY <1>6, <1>7, <1>8, PathMore
<1>10. /\ r.queue = s.queue /\ r.writes = s.writes /\ r.txn = s.txn /\ r.feed = s.feed
       /\ r.cache = cache'[d]
  BY <1>1, <1>3 DEF State
<1>11. Seen(d, s) /\ Truths(s, Path(s, k)) /\ Awaits(d, s, k, online[d])
  BY DEF Reads
<1>12. r.cache = s.cache \/ (UnderWay(s.txn, d) = {} /\ s.feed # "answered")
  BY <1>3, <1>10
<1>13. Seen(d, r)
  <2>1. Elements(s.writes) \ Comments \subseteq 1..Len(r.txn)
    BY <1>10, WritesAre
  <2>2. /\ Of(r.txn, d) = Of(s.txn, d) /\ \A t \in Of(s.txn, d) : r.txn[t] = s.txn[t]
        /\ r.cache.whole = s.cache.whole \/ r.cache.whole \/ UnderWay(s.txn, d) = {}
    BY <1>10, <1>12
  <2> QED
    BY <1>2, <1>10, <1>11, <2>1, <2>2, KeepSeen
<1>14. Truths(r, Path(r, j))
  <2>1. \A m \in Elements(u) : m.type # "put" /\ Carried(m) = {}
    BY <1>6 DEF Carried
  <2>2. PICK p : p = Path(r, j)
    OBVIOUS
  <2>3. \A m \in Elements(p) :
          m \in Elements(Path(s, k)) \/ (m.type # "put" /\ Carried(m) = {})
    BY <1>9, <2>1, <2>2
  <2>4. \A t \in Of(s.txn, d) : s.txn[t].status \in Pending => Full(r, t) = Full(s, t)
    BY <1>10 DEF Full
  <2>5. Truths(r, p)
    BY <1>11, <2>3, <2>4, TruthsSame
  <2> QED
    BY <2>2, <2>5
<1>15. Awaits(d, r, j, online[d])
  <2>1. \/ s.cache.whole => r.cache.whole
        \/ /\ UnderWay(r.txn, d) = {} /\ r.feed # "answered"
           /\ \A m \in Elements(k.hd) \cup Elements(k.td) : Carried(m) = {}
    <3>1. CASE r.cache = s.cache
      BY <3>1
    <3>2. CASE UnderWay(s.txn, d) = {} /\ s.feed # "answered"
      <4>1. /\ \A m \in Elements(Path(s, k)) : Carried(m) = {}
            /\ \A y : Heard(y, k.dn)
        BY <3>2, HeardNothing
      <4>2. Elements(Path(s, k)) = Everywhere(s, k)
        BY Places
      <4>3. \A m \in Elements(k.hd) \cup Elements(k.td) : Carried(m) = {}
        BY <4>1, <4>2 DEF Everywhere
      <4> QED
        BY <1>10, <3>2, <4>3
    <3> QED
      BY <1>12, <3>1, <3>2
  <2> QED
    BY <1>2, <1>6, <1>7, <1>8, <1>10, <1>11, <2>1, AwaitsMore
<1>16. Reads(d, r, j, online'[d])
  BY <1>13, <1>14, <1>15 DEF Reads
<1> QED
  BY <1>1, <1>16 DEF Reading

(* What is told of the post is told whole.                                 *)
WholeNews(e) ==
  down'[e] = down[e]
    \/ \E n \in Node : n.whole /\ down'[e] = down[e] \o Told1(e, n)

(* A step of d spares the other phones, but for what they are told.        *)
Spares(d) ==
  /\ \A e \in Devices : e # d =>
       /\ queue'[e] = queue[e] /\ writes'[e] = writes[e] /\ cache'[e] = cache[e]
       /\ feed'[e] = feed[e] /\ online'[e] = online[e] /\ watch'[e] = watch[e]
       /\ outbox'[e] = outbox[e] /\ held'[e] = held[e] /\ todo'[e] = todo[e]
       /\ WholeNews(e)
  /\ Apart(d, txn, txn')

(* News are behind what is under way already.                              *)
LEMMA NewsAre ==
  ASSUME NEW e, down[e] \in Seq(Messages), WholeNews(e)
  PROVE  \E u \in Seq(Messages) :
           /\ down'[e] = down[e] \o u /\ (~watch[e] => down'[e] = down[e])
           /\ \A m \in Elements(u) : m.type = "update" /\ m.node.whole
<1>1. PICK q \in Seq(Messages) : q = down[e]
  OBVIOUS
<1>2. CASE down'[e] = down[e]
  <2>1. q \o << >> = q /\ << >> \in Seq(Messages) /\ Elements(<< >>) = {}
    BY ConcatEmptySeq, EmptySeq, ElementsFacts
  <2> QED
    BY <1>1, <1>2, <2>1
<1>3. ASSUME NEW n \in Node, n.whole, down'[e] = down[e] \o Told1(e, n)
      PROVE  \E u \in Seq(Messages) :
               /\ down'[e] = down[e] \o u /\ (~watch[e] => down'[e] = down[e])
               /\ \A m \in Elements(u) : m.type = "update" /\ m.node.whole
  <2>1. CASE watch[e]
    <3>1. PICK m : m = [type |-> "update", node |-> n]
      OBVIOUS
    <3>2. m \in Messages /\ m.type = "update" /\ m.node = n
      BY <3>1, NewsFacts
    <3>3. <<m>> \in Seq(Messages) /\ Elements(<<m>>) = {m}
      BY <3>2, One
    <3>4. down'[e] = down[e] \o <<m>>
      BY <1>3, <2>1, <3>1 DEF Told1
    <3> QED
      BY <1>3, <2>1, <3>2, <3>3, <3>4
  <2>2. CASE ~watch[e]
    <3>1. q \o << >> = q
      BY ConcatEmptySeq
    <3>2. down'[e] = down[e]
      BY <1>1, <1>3, <2>2, <3>1 DEF Told1
    <3> QED
      BY <1>2, <3>2
  <2> QED
    BY <2>1, <2>2
<1> QED
  BY <1>2, <1>3 DEF WholeNews

(* News leave what a phone expects.                                        *)
LEMMA NewsAwaits ==
  ASSUME NEW d, NEW s \in Phone, NEW l \in Line, NEW on, Awaits(d, s, l, on),
         NEW r, NEW k \in Line, r.feed = s.feed, r.cache = s.cache,
         UnderWay(r.txn, d) = UnderWay(s.txn, d), Asks(r, k) = Asks(s, l),
         NEW u \in Seq(Messages), k.dn = l.dn \o u, ~on => k.dn = l.dn,
         \A m \in Elements(u) : m.type = "update" /\ m.node.whole,
         k.hd = l.hd, k.td = l.td
  PROVE  Awaits(d, r, k, on)
<1>1. PICK q \in Seq(Messages), b \in Seq(Messages) : q = l.dn /\ b = Asks(s, l)
  BY Places
<1>2. \A m \in Elements(u) : Carried(m) = {}
  BY DEF Carried
<1>3. Led(q \o b) => Led((q \o u) \o b)
  BY <1>2, LedNews
<1>4. Road(s, l) = q \o b /\ Road(r, k) = (q \o u) \o b
  BY <1>1 DEF Road
<1>5. /\ Elements(q \o u) = Elements(q) \cup Elements(u)
      /\ Elements((q \o u) \o b) = Elements(q) \cup Elements(u) \cup Elements(b)
      /\ Elements(q \o b) = Elements(q) \cup Elements(b)
  <2>4. q \o u \in Seq(Messages) /\ Elements(q \o u) = Elements(q) \cup Elements(u)
    BY ElementsConcat
  <2>1. PICK p \in Seq(Messages) : p = q \o u /\ Elements(p) = Elements(q) \cup Elements(u)
    BY <2>4
  <2>2. Elements(p \o b) = Elements(p) \cup Elements(b)
    BY ElementsConcat
  <2>3. Elements(q \o b) = Elements(q) \cup Elements(b)
    BY ElementsConcat
  <2> QED
    BY <2>1, <2>2, <2>3
<1>6. on => /\ UnderWay(r.txn, d) # {} => r.cache.whole \/ Led(Road(r, k))
            /\ r.feed = "sent" => \E m \in Elements(Road(r, k)) : Fetches(m)
  BY <1>3, <1>4, <1>5 DEF Awaits
<1>7. ~on => k.dn = << >>
  BY DEF Awaits
<1>8. Whole(k.dn)
  BY <1>1, <1>5 DEF Awaits, Whole
<1> QED
  BY <1>6, <1>7, <1>8 DEF Awaits

(* A step of one phone leaves what another one knows, and waits for.       *)
LEMMA OtherReads ==
  ASSUME Shape, Shape', NEW d, NEW e \in Devices, e # d, PhoneOf(e), Reading(e),
         Apart(d, txn, txn'),
         queue'[e] = queue[e], writes'[e] = writes[e], cache'[e] = cache[e],
         feed'[e] = feed[e], online'[e] = online[e], watch'[e] = watch[e],
         outbox'[e] = outbox[e], held'[e] = held[e], todo'[e] = todo[e], WholeNews(e)
  PROVE  Reading(e)'
<1>1. PICK s, r, l, k, ap, w :
        /\ s = State(e) /\ r = State(e)' /\ l = LineOf(e) /\ k = LineOf(e)'
        /\ ap = applied /\ w = written
  OBVIOUS
<1>2. s \in Phone /\ l \in Line /\ r \in Phone /\ k \in Line
  BY <1>1, ShapeFacts, ShapeNext
<1>3. /\ Sound(e, s, l, ap, w) /\ Seen(e, s) /\ Truths(s, Path(s, l))
      /\ Awaits(e, s, l, online[e]) /\ (~online[e] => ~watch[e])
  BY <1>1 DEF PhoneOf, Reading, Reads
<1>4. Of(txn', e) = Of(txn, e) /\ \A t \in Of(txn, e) : txn'[t] = txn[t]
  BY DEF Apart
<1>5. UnderWay(txn', e) = UnderWay(txn, e)
  <2>1. /\ UnderWay(txn', e) = {t \in Of(txn', e) : txn'[t].told = "none"}
        /\ UnderWay(txn, e) = {t \in Of(txn, e) : txn[t].told = "none"}
    BY DEF UnderWay, Of
  <2> QED
    BY <1>4, <2>1
<1>6. /\ s.txn = txn /\ r.txn = txn' /\ r.queue = s.queue /\ r.writes = s.writes
      /\ r.cache = s.cache /\ r.feed = s.feed
  BY <1>1 DEF State
<1>7. l.dn = down[e] /\ k.dn = down'[e] /\ k.hd = l.hd /\ k.td = l.td
  BY <1>1 DEF LineOf
<1>8. Asks(r, k) = Asks(s, l)
  BY <1>1, ShapeFacts, ShapeNext
<1>9. PICK u \in Seq(Messages) :
        /\ k.dn = l.dn \o u /\ (~watch[e] => k.dn = l.dn)
        /\ \A m \in Elements(u) : m.type = "update" /\ m.node.whole
  <2>1. down[e] \in Seq(Messages)
    BY <1>2, <1>7, Places
  <2>2. \E u \in Seq(Messages) :
          /\ down'[e] = down[e] \o u /\ (~watch[e] => down'[e] = down[e])
          /\ \A m \in Elements(u) : m.type = "update" /\ m.node.whole
    BY <2>1, NewsAre
  <2> QED
    BY <1>7, <2>2
<1>10. Awaits(e, r, k, online[e])
  BY <1>2, <1>3, <1>5, <1>6, <1>7, <1>8, <1>9, NewsAwaits
<1>11. Seen(e, r)
  <2>1. Elements(s.writes) \ Comments \subseteq 1..Len(r.txn)
    <3>1. Elements(s.writes) \ Comments = UnderWay(s.txn, e)
      BY <1>3 DEF Sound, Listed
    <3> QED
      BY <1>5, <1>6, <3>1 DEF UnderWay
  <2>2. Of(r.txn, e) = Of(s.txn, e) /\ \A t \in Of(s.txn, e) : r.txn[t] = s.txn[t]
    BY <1>4, <1>6
  <2> QED
    BY <1>2, <1>3, <1>6, <2>1, <2>2, KeepSeen
<1>12. Truths(r, Path(r, k))
  <2>1. PICK p : p = Path(r, k)
    OBVIOUS
  <2>2. Elements(p) = Everywhere(r, k) /\ Elements(Path(s, l)) = Everywhere(s, l)
    BY <1>2, <2>1, Places
  <2>3. Elements(k.dn) = Elements(l.dn) \cup Elements(u)
    <3>1. PICK q \in Seq(Messages) : q = l.dn
      BY <1>2, Places
    <3> QED
      BY <1>9, <3>1, ElementsConcat
  <2>4. \A m \in Elements(p) :
          m \in Elements(Path(s, l)) \/ (m.type # "put" /\ Carried(m) = {})
    BY <1>7, <1>8, <1>9, <2>2, <2>3 DEF Everywhere, Carried
  <2>5. \A t \in Of(s.txn, e) : s.txn[t].status \in Pending => Full(r, t) = Full(s, t)
    BY <1>4, <1>6 DEF Full
  <2>6. Truths(r, p)
    BY <1>2, <1>3, <2>4, <2>5, TruthsSame
  <2> QED
    BY <2>1, <2>6
<1>13. Reads(e, r, k, online'[e])
  BY <1>10, <1>11, <1>12 DEF Reads
<1> QED
  BY <1>1, <1>3, <1>13 DEF Reading

(* A step that keeps the invariant for its own phone keeps it for all,     *)
(* if it spares the others.                                                *)
LEMMA OthersRead ==
  ASSUME RInv, IInv', NEW d \in Devices, Spares(d), Reading(d)', post'.whole
  PROVE  RInv'
<1>1. Shape /\ Shape'
  BY DEF RInv, IInv
<1>2. ASSUME NEW e \in Devices, e # d
      PROVE  Reading(e)'
  <2>1. /\ queue'[e] = queue[e] /\ writes'[e] = writes[e] /\ cache'[e] = cache[e]
        /\ feed'[e] = feed[e] /\ online'[e] = online[e] /\ watch'[e] = watch[e]
        /\ outbox'[e] = outbox[e] /\ held'[e] = held[e] /\ todo'[e] = todo[e]
        /\ WholeNews(e) /\ Apart(d, txn, txn')
    BY <1>2 DEF Spares
  <2>2. PhoneOf(e) /\ Reading(e)
    BY DEF RInv, IInv
  <2> QED
    BY <1>1, <1>2, <2>1, <2>2, OtherReads
<1>3. \A e \in Devices : Reading(e)'
  BY <1>2
<1> QED
  BY <1>3 DEF RInv

(* A handler's step.                                                       *)
LEMMA HandlerReads ==
  ASSUME RInv, IInv', NEW d \in Devices, NEW s \in Phone, Commit(d, s), NEW k \in Line,
         NEW ap, NEW v, Sound(d, s, k, ap, v), Reads(d, s, k, online[d]),
         Apart(d, txn, s.txn),
         k.ob = outbox[d], k.dn = down'[d], k.hd = held'[d], k.td = todo'[d],
         \A e \in Devices : e # d =>
           down'[e] = down[e] /\ held'[e] = held[e] /\ todo'[e] = todo[e],
         post' = post, watch' = watch, online' = online
  PROVE  RInv'
<1>1. Shape /\ Shape' /\ Reading(d) /\ post'.whole
  BY DEF RInv, IInv
<1>2. ~online[d] => ~watch[d]
  BY <1>1 DEF Reading
<1>3. Reading(d)'
  BY <1>1, <1>2, CommitReads
<1>4. Spares(d)
  <2>1. \A e \in Devices : e # d =>
          /\ queue'[e] = queue[e] /\ writes'[e] = writes[e] /\ cache'[e] = cache[e]
          /\ feed'[e] = feed[e] /\ outbox'[e] = outbox[e]
    BY <1>1 DEF Shape, Commit
  <2>2. txn' = s.txn
    BY DEF Commit
  <2> QED
    BY <2>1, <2>2 DEF Spares, WholeNews
<1> QED
  BY <1>1, <1>3, <1>4, OthersRead

-----------------------------------------------------------------------------
(* The handlers.                                                           *)

(* What is known of a phone.                                               *)
LEMMA ReadingFacts ==
  ASSUME RInv, NEW d \in Devices, NEW s, s = State(d), NEW l, l = LineOf(d)
  PROVE  /\ s \in Phone /\ l \in Line /\ Sound(d, s, l, applied, written) /\ Sent(s)
         /\ Seen(d, s) /\ Truths(s, Path(s, l)) /\ Awaits(d, s, l, online[d])
         /\ s.txn = txn /\ s.queue = queue[d] /\ s.writes = writes[d] /\ s.cache = cache[d]
         /\ s.feed = feed[d] /\ s.unanswered = unanswered[d] /\ s.puts = << >>
         /\ l.ob = outbox[d] /\ l.dn = down[d] /\ l.hd = held[d] /\ l.td = todo[d]
         /\ Asks(s, l) = outbox[d]
<1>1. Shape /\ PhoneOf(d) /\ Reading(d)
  BY DEF RInv, IInv
<1> QED
  BY <1>1, ShapeFacts DEF PhoneOf, Reading, Reads, State, LineOf

(* The answer of a put is handled.                                         *)
LEMMA HandlePutReads ==
  ASSUME RInv, IInv', NEW d \in Devices, HandlePut(d)
  PROVE  RInv'
<1>1. IInv /\ Shape
  BY DEF RInv, IInv
<1>2. post' = post /\ watch' = watch /\ online' = online /\ held' = held
  BY DEF HandlePut
<1>3. PICK m \in Answers, k \in Line : \E r, z : PutHandled(d, m, k, r, z)
  BY <1>1, HandlePutDoes
<1>4. PICK r, z : PutHandled(d, m, k, r, z)
  BY <1>3
<1>5. PICK s, l, ap, w, on : /\ s = State(d) /\ l = LineOf(d) /\ ap = applied
                             /\ w = written /\ on = online[d]
  OBVIOUS
<1>6. /\ s \in Phone /\ l \in Line /\ Sound(d, s, l, ap, w) /\ Sent(s)
      /\ Seen(d, s) /\ Truths(s, Path(s, l)) /\ Awaits(d, s, l, on)
      /\ l.ob = outbox[d]
  BY <1>5, ReadingFacts
<1>7. /\ Took(m, l, k) /\ ResumedFrom(m, s, r) /\ r \in Phone /\ Sound(d, r, k, ap, w)
      /\ Resent(r, z) /\ z \in Phone /\ Sound(d, z, k, ap, w) /\ Commit(d, z)
      /\ Apart(d, txn, z.txn) /\ k.dn = down'[d] /\ k.hd = held[d] /\ k.td = todo'[d]
  BY <1>4, <1>5 DEF PutHandled
<1>8. /\ Awaits(d, s, k, on)
      /\ Carried(m) # {} => m.status = "disconnect" \/ s.cache.whole
  BY <1>6, <1>7, TookAwaits
<1>9. Carried(m) # {}
  <2>1. RightMessage(d, m, s, ap)
    BY <1>6, <1>7, TookRight DEF TakenFrom
  <2>2. Head(m.what) \notin Comments
    BY <1>7 DEF ResumedFrom
  <2>3. m.what \in Seq(Nat) /\ m.what # << >>
    BY <2>1, <2>2, AnswerKind
  <2>4. PICK q \in Seq(Nat) : q = m.what
    BY <2>3
  <2>5. Head(q) \in Elements(q)
    BY <2>3, <2>4, ElementsTail
  <2>6. m.type = "reply"
    BY DEF Answers
  <2> QED
    BY <2>2, <2>4, <2>5, <2>6 DEF Carried
<1>10. m.status = "datastale" => s.cache.whole
  BY <1>8, <1>9
<1>11. Seen(d, r) /\ Truths(r, Path(r, k))
  BY <1>6, <1>7, <1>10, PutSeen
<1>12. Awaits(d, r, k, on)
  BY <1>6, <1>7, <1>8, ResumedAwaits
<1>13. Seen(d, z) /\ Truths(z, Path(z, k))
  BY <1>7, <1>11, ResentSeen
<1>14. Awaits(d, z, k, on)
  BY <1>7, <1>11, <1>12, ResentAwaits
<1>15. Reads(d, z, k, online[d])
  BY <1>5, <1>13, <1>14 DEF Reads
<1>16. \A e \in Devices : e # d =>
         down'[e] = down[e] /\ held'[e] = held[e] /\ todo'[e] = todo[e]
  BY <1>1, <1>2, AnswerShape DEF HandlePut
<1>17. k.ob = outbox[d] /\ k.hd = held'[d]
  BY <1>2, <1>6, <1>7 DEF Took
<1> QED
  BY <1>2, <1>7, <1>15, <1>16, <1>17, HandlerReads

(* The answer of a comment is handled.                                     *)
LEMMA HandleSetReads ==
  ASSUME RInv, IInv', NEW d \in Devices, HandleSet(d)
  PROVE  RInv'
<1>1. IInv /\ Shape
  BY DEF RInv, IInv
<1>2. post' = post /\ watch' = watch /\ online' = online /\ held' = held
  BY DEF HandleSet
<1>3. PICK m \in Answers, k \in Line : \E r : SetHandled(d, m, k, r)
  BY <1>1, HandleSetDoes
<1>4. PICK r : SetHandled(d, m, k, r)
  BY <1>3
<1>5. PICK s, l, ap, w, on : /\ s = State(d) /\ l = LineOf(d) /\ ap = applied
                             /\ w = written /\ on = online[d]
  OBVIOUS
<1>6. /\ s \in Phone /\ l \in Line /\ Sound(d, s, l, ap, w)
      /\ Seen(d, s) /\ Truths(s, Path(s, l)) /\ Awaits(d, s, l, on)
      /\ l.ob = outbox[d]
  BY <1>5, ReadingFacts
<1>7. /\ Took(m, l, k) /\ Head(m.what) \in Comments /\ r = Forget(s, Elements(m.what))
      /\ r \in Phone /\ Sound(d, r, k, ap, w) /\ Commit(d, r) /\ Apart(d, txn, r.txn)
      /\ k.dn = down'[d] /\ k.hd = held[d] /\ k.td = todo'[d]
  BY <1>4, <1>5 DEF SetHandled
<1>8. PICK g : g = Elements(m.what)
  OBVIOUS
<1>9. g \subseteq Comments
  <2>1. RightMessage(d, m, s, ap)
    BY <1>6, <1>7, TookRight DEF TakenFrom
  <2> QED
    BY <1>7, <1>8, <2>1, AnswerKind
<1>10. Seen(d, r)
  BY <1>6, <1>7, <1>8, <1>9, ForgetSeen
<1>11. /\ r.cache = s.cache /\ r.queue = s.queue /\ r.txn = s.txn /\ r.feed = s.feed
       /\ r.puts = s.puts
  BY <1>6, <1>7, ForgetFacts
<1>12. /\ Awaits(d, s, k, on)
       /\ Carried(m) # {} => m.status = "disconnect" \/ s.cache.whole
  BY <1>6, <1>7, TookAwaits
<1>13. Awaits(d, r, k, on)
  BY <1>11, <1>12, AwaitsKept
<1>14. Truths(r, Path(r, k))
  <2>1. PICK p : p = Path(r, k)
    OBVIOUS
  <2>2. Path(r, k) = Path(s, k)
    BY <1>11 DEF Path, Road, Asks
  <2>3. Elements(Path(s, k)) \subseteq Elements(Path(s, l))
    BY <1>6, <1>7, TookPath
  <2>4. Truths(r, p)
    BY <1>6, <1>11, <2>1, <2>2, <2>3, PathTruths
  <2> QED
    BY <2>1, <2>4
<1>15. Reads(d, r, k, online[d])
  BY <1>5, <1>10, <1>13, <1>14 DEF Reads
<1>16. \A e \in Devices : e # d =>
         down'[e] = down[e] /\ held'[e] = held[e] /\ todo'[e] = todo[e]
  BY <1>1, <1>2, AnswerShape DEF HandleSet
<1>17. k.ob = outbox[d] /\ k.hd = held'[d]
  BY <1>2, <1>6, <1>7 DEF Took
<1> QED
  BY <1>2, <1>7, <1>15, <1>16, <1>17, HandlerReads

(* A comment is set.                                                       *)
LEMMA SetCommentReads ==
  ASSUME RInv, IInv', NEW d \in Devices, NEW c \in Comments, SetComment(d, c)
  PROVE  RInv'
<1>1. IInv /\ Shape
  BY DEF RInv, IInv
<1>2. /\ post' = post /\ watch' = watch /\ online' = online
      /\ down' = down /\ held' = held /\ todo' = todo /\ c \notin written
  BY DEF SetComment, history
<1>3. PICK m, b, a, z : CommentDone(d, c, m, b, a, z)
  BY <1>1, SetCommentDoes
<1>4. PICK s, l, ap, w, v, on :
        /\ s = State(d) /\ l = LineOf(d) /\ ap = applied /\ w = written
        /\ v = written \cup {c} /\ on = online[d]
  OBVIOUS
<1>5. /\ s \in Phone /\ l \in Line /\ Sound(d, s, l, ap, w) /\ Sent(s)
      /\ Seen(d, s) /\ Truths(s, Path(s, l)) /\ Awaits(d, s, l, on)
      /\ s.txn = txn /\ s.queue = queue[d] /\ s.writes = writes[d] /\ s.cache = cache[d]
      /\ s.feed = feed[d] /\ s.puts = << >>
      /\ l.ob = outbox[d] /\ l.dn = down[d] /\ l.hd = held[d] /\ l.td = todo[d]
      /\ Asks(s, l) = outbox[d]
  BY <1>4, ReadingFacts
<1>6. /\ b \in Phone /\ b.queue = s.queue /\ b.writes = Append(s.writes, c)
      /\ b.cache = s.cache /\ b.feed = s.feed /\ b.puts = <<m>> /\ Len(b.txn) = Len(s.txn)
      /\ \A t \in 1..Len(s.txn) : b.txn[t].out = s.txn[t].out /\ Alike(b.txn[t], s.txn[t])
      /\ \A t \in UnderWay(s.txn, d) : b.txn[t].sets = s.txn[t].sets + 1
      /\ Sound(d, b, l, ap, v) /\ a = Abort(b) /\ a \in Phone /\ Sound(d, a, l, ap, v)
      /\ Resent(a, z) /\ z \in Phone /\ Sound(d, z, l, ap, v)
      /\ Commit(d, z) /\ Apart(d, txn, z.txn)
  BY <1>3, <1>4, <1>5 DEF CommentDone
<1>7. /\ Seen(d, b) /\ UnderWay(b.txn, d) = UnderWay(s.txn, d)
      /\ \A t \in UnderWay(b.txn, d) :
           /\ b.txn[t].sets >= 1
           /\ b.txn[t].status = "sentNeedsAbort" => b.txn[t].sets >= 2
  <2>1. c \notin w
    BY <1>2, <1>4
  <2> QED
    BY <1>5, <1>6, <2>1, CommentSeen
<1>8. /\ <<m>> \in Seq(Messages) /\ Elements(<<m>>) = {m}
      /\ m.type # "put" /\ Carried(m) = {}
  <2>1. m = [type |-> "set", comment |-> c]
    BY <1>3 DEF CommentDone
  <2>2. m \in Messages /\ m.type = "set"
    BY <2>1 DEF Messages, Requests
  <2> QED
    BY <2>2, One DEF Carried
<1>9. Asks(b, l) = Asks(s, l) \o <<m>>
  BY <1>5, <1>6 DEF Asks
<1>10. Truths(b, Path(b, l))
  <2>1. PICK p : p = Path(b, l)
    OBVIOUS
  <2>2. Elements(p) = Elements(Path(s, l)) \cup {m}
    <3>1. PICK u \in Seq(Messages) : u = <<m>> /\ Elements(u) = {m}
      BY <1>8
    <3>2. s \in Phone /\ l \in Line /\ Asks(b, l) = Asks(s, l) \o u
      BY <1>5, <1>9, <3>1
    <3>3. Elements(Path(b, l)) = Elements(Path(s, l)) \cup Elements(u)
      BY <3>2, PathMore
    <3> QED
      BY <2>1, <3>1, <3>3
  <2>3. \A t \in Of(s.txn, d) : s.txn[t].status \in Pending => Full(b, t) = Full(s, t)
    BY <1>6 DEF Of, Full
  <2>4. \A x \in Elements(p) :
          x \in Elements(Path(s, l)) \/ (x.type # "put" /\ Carried(x) = {})
    BY <1>8, <2>2
  <2>5. Truths(b, p)
    BY <1>5, <2>3, <2>4, TruthsSame
  <2> QED
    BY <2>1, <2>5
<1>11. Awaits(d, b, l, on)
  BY <1>5, <1>6, <1>7, <1>8, <1>9, AwaitsMore
<1>12. z = a /\ Seen(d, z) /\ Truths(z, Path(z, l))
  <2>1. \A t \in Elements(b.queue) : b.txn[t].status # "needsAbort"
    <3>1. \A t \in Elements(s.queue) :
            t \in 1..Len(s.txn) /\ s.txn[t].status # "needsAbort"
      BY <1>5 DEF Sent, Sound, Queued, Of
    <3> QED
      BY <1>6, <3>1 DEF Alike
  <2>2. b \in Phone /\ l \in Line /\ Sound(d, b, l, ap, v)
    BY <1>5, <1>6
  <2> QED
    BY <1>6, <1>7, <1>10, <2>1, <2>2, AbortSeen
<1>13. Awaits(d, a, l, on)
  <2>1. Aborted(b, a)
    BY <1>6, AbortFacts
  <2>2. a.cache = b.cache /\ a.feed = b.feed /\ a.puts = b.puts
        /\ Elements(a.writes) \subseteq Elements(b.writes)
    BY <2>1 DEF Aborted
  <2>3. /\ Elements(a.writes) \ Comments = UnderWay(a.txn, d)
        /\ Elements(b.writes) \ Comments = UnderWay(b.txn, d)
    BY <1>6 DEF Sound, Listed
  <2>4. UnderWay(a.txn, d) \subseteq UnderWay(b.txn, d)
    BY <2>2, <2>3
  <2> QED
    BY <1>11, <2>2, <2>4, AwaitsKept
<1>14. Reads(d, z, l, online[d])
  BY <1>4, <1>12, <1>13 DEF Reads
<1> QED
  BY <1>2, <1>5, <1>6, <1>14, HandlerReads

(* The feed arrives.                                                       *)
LEMMA DeliverFeedReads ==
  ASSUME RInv, IInv', NEW d \in Devices, DeliverFeed(d)
  PROVE  RInv'
<1>1. IInv /\ Shape
  BY DEF RInv, IInv
<1>2. post' = post /\ watch' = watch /\ online' = online /\ Free(d) /\ Acknowledge(d)
  BY DEF DeliverFeed, Received
<1>3. /\ \E k \in Line : \E m, i, r : FeedHandled(d, m, i, k, r)
      /\ held' \in [Devices -> Seq(Answers)] /\ todo' \in [Devices -> Seq(Answers)]
      /\ down' \in [Devices -> Seq(Notices)]
      /\ \A e \in Devices : e # d =>
           down'[e] = down[e] /\ held'[e] = held[e] /\ todo'[e] = todo[e]
  BY <1>1, DeliverFeedDoes
<1>4. PICK k \in Line : \E m, i, r : FeedHandled(d, m, i, k, r)
  BY <1>3
<1>5. PICK m, i, r : FeedHandled(d, m, i, k, r)
  BY <1>4
<1>6. PICK s, l, ap, w, on : /\ s = State(d) /\ l = LineOf(d) /\ ap = applied
                             /\ w = written /\ on = online[d]
  OBVIOUS
<1>7. /\ s \in Phone /\ l \in Line /\ Sound(d, s, l, ap, w)
      /\ Seen(d, s) /\ Truths(s, Path(s, l)) /\ Awaits(d, s, l, on) /\ s.puts = << >>
      /\ l.ob = outbox[d] /\ l.dn = down[d] /\ l.hd = held[d] /\ l.td = todo[d]
  BY <1>6, ReadingFacts
<1>8. /\ l.dn # << >> /\ m = Head(l.dn) /\ m.type = "value" /\ m.what = "feed"
      /\ m.node \in Node
      /\ i \in Phone /\ i = [s EXCEPT !.cache = m.node, !.feed = "answered"]
      /\ k.ob = l.ob /\ k.dn = Tail(l.dn) /\ k.dn = down'[d] /\ k.hd = held'[d]
      /\ k.td = todo'[d] /\ Sound(d, i, k, ap, w)
      /\ Resent(i, r) /\ r \in Phone /\ Sound(d, r, k, ap, w)
      /\ Commit(d, r) /\ Apart(d, txn, r.txn)
  BY <1>5, <1>6, <1>7 DEF FeedHandled
<1>9. /\ i.queue = s.queue /\ i.writes = s.writes /\ i.txn = s.txn /\ i.puts = s.puts
      /\ i.cache = m.node /\ i.feed = "answered"
  BY <1>7, <1>8 DEF Phone
<1>10. Delivered(l, k) /\ l.td = << >>
  BY <1>1, <1>2, <1>7, <1>8, Released DEF Delivered, Free
<1>11. m.node.whole /\ Whole(k.dn) /\ on
  <2>1. PICK q \in Seq(Notices) : q = l.dn
    BY <1>7 DEF Line
  <2>2. Elements(q) = Elements(Tail(q)) \cup {Head(q)}
    BY <1>8, <2>1, ElementsTail
  <2>3. Whole(q) /\ (~on => q = << >>)
    BY <1>7, <2>1 DEF Awaits
  <2> QED
    BY <1>8, <2>1, <2>2, <2>3 DEF Whole
<1>12. Seen(d, i)
  <2>1. Elements(s.writes) \ Comments \subseteq 1..Len(i.txn)
    BY <1>7, <1>9, WritesAre
  <2>2. Of(i.txn, d) = Of(s.txn, d) /\ \A t \in Of(s.txn, d) : i.txn[t] = s.txn[t]
    BY <1>9
  <2>3. /\ s \in Phone /\ l \in Line /\ Sound(d, s, l, ap, w) /\ Seen(d, s) /\ i \in Phone
        /\ i.queue = s.queue /\ i.writes = s.writes /\ i.cache.whole
    BY <1>7, <1>8, <1>9, <1>11
  <2> QED
    BY <2>1, <2>2, <2>3, KeepSeen
<1>13. Truths(i, Path(i, k))
  <2>1. PICK p : p = Path(i, k)
    OBVIOUS
  <2>2. /\ Road(s, l) # << >> /\ Head(Road(s, l)) = Head(l.dn)
        /\ Road(i, k) = Tail(Road(s, l)) /\ Asks(i, k) = Asks(s, l)
        /\ Follows(Path(i, k), Path(s, l))
        /\ Elements(Road(i, k)) \subseteq Elements(Road(s, l))
        /\ Elements(k.hd) \subseteq Elements(l.hd) /\ Elements(k.td) \subseteq Elements(l.hd)
    <3>1. /\ s \in Phone /\ l \in Line /\ l.td = << >> /\ l.dn # << >> /\ i \in Phone
          /\ i.puts = s.puts /\ k \in Line /\ Delivered(l, k)
      BY <1>7, <1>8, <1>9, <1>10
    <3> QED
      BY <3>1, DeliveredPath
  <2>3. /\ Elements(p) = Everywhere(i, k) /\ Elements(Path(s, l)) = Everywhere(s, l)
        /\ Elements(Road(i, k)) = Elements(k.dn) \cup Elements(Asks(i, k))
        /\ Elements(Road(s, l)) = Elements(l.dn) \cup Elements(Asks(s, l))
    BY <1>7, <1>8, <2>1, Places
  <2>4. Elements(p) \subseteq Elements(Path(s, l))
    BY <2>2, <2>3 DEF Everywhere
  <2>5. \A t \in Of(s.txn, d) : i.txn[t].out = s.txn[t].out
    BY <1>9
  <2>6. Truths(i, p)
    BY <1>7, <2>4, <2>5, PathTruths
  <2> QED
    BY <2>1, <2>6
<1>14. Awaits(d, i, k, on)
  BY <1>9, <1>11 DEF Awaits, Late
<1>15. Seen(d, r) /\ Truths(r, Path(r, k))
  BY <1>8, <1>12, <1>13, ResentSeen
<1>16. Awaits(d, r, k, on)
  BY <1>8, <1>12, <1>14, ResentAwaits
<1>17. Reads(d, r, k, online[d])
  BY <1>6, <1>15, <1>16 DEF Reads
<1>18. k.ob = outbox[d]
  BY <1>7, <1>8
<1> QED
  BY <1>2, <1>3, <1>8, <1>17, <1>18, HandlerReads

(* The first transaction has asked for the post, or the feed is coming.    *)
LEMMA OpeningAwaits ==
  ASSUME NEW d, NEW s \in Phone, NEW l \in Line, NEW ap, NEW w, Sound(d, s, l, ap, w),
         NEW on, Awaits(d, s, l, on), NEW b, NEW k \in Line,
         b.cache = s.cache, b.feed = s.feed,
         NEW u \in Seq(Messages), Asks(b, k) = Asks(s, l) \o u,
         k.dn = l.dn, k.hd = l.hd, k.td = l.td,
         \A m \in Elements(u) : Carried(m) = {},
         on /\ UnderWay(s.txn, d) = {} /\ s.feed = "idle" => \E m \in Elements(u) : Informs(m)
  PROVE  Awaits(d, b, k, on)
<1>1. PICK q \in Seq(Messages) : q = Road(s, l)
  BY Places
<1>2. Road(b, k) = q \o u
  <2>1. PICK e \in Seq(Messages), c \in Seq(Messages) : e = Asks(s, l) /\ c = l.dn
    BY Places
  <2>2. c \o (e \o u) = (c \o e) \o u
    BY SMTT(30), ConcatThree
  <2>3. q = c \o e
    BY <1>1, <2>1 DEF Road
  <2>4. Road(b, k) = c \o (e \o u)
    BY <2>1 DEF Road
  <2> QED
    BY <2>2, <2>3, <2>4
<1>3. q \o u \in Seq(Messages) /\ Elements(q \o u) = Elements(q) \cup Elements(u)
  BY ElementsConcat
<1>4. Led(q) => Led(q \o u)
  BY LedConcat
<1>5. ASSUME on
      PROVE  b.cache.whole \/ Led(q \o u)
  <2>1. CASE UnderWay(s.txn, d) # {}
    BY <1>1, <1>4, <1>5, <2>1 DEF Awaits
  <2>2. CASE UnderWay(s.txn, d) = {}
    <3>1. \A m \in Elements(q \o u) : Carried(m) = {}
      <4>1. /\ \A m \in Elements(Path(s, l)) : Carried(m) = {}
            /\ \A r : Heard(r, l.dn)
        BY <2>2, HeardNothing
      <4>2. Elements(Path(s, l)) = Everywhere(s, l)
            /\ Elements(Road(s, l)) = Elements(l.dn) \cup Elements(Asks(s, l))
        BY Places
      <4> QED
        BY <1>1, <1>3, <4>1, <4>2 DEF Everywhere
    <3>2. CASE s.feed = "answered"
      BY <3>2 DEF Awaits
    <3>3. CASE s.feed # "answered"
      <4>1. \E m \in Elements(q \o u) : Informs(m)
        <5>1. CASE s.feed = "idle"
          BY <1>3, <1>5, <2>2, <5>1
        <5>2. CASE s.feed = "sent"
          BY <1>1, <1>3, <1>5, <5>2 DEF Awaits, Fetches, Informs
        <5> QED
          BY <3>3, <5>1, <5>2 DEF Phone
      <4> QED
        BY <1>3, <3>1, <4>1, LedFree
    <3> QED
      BY <3>2, <3>3
  <2> QED
    BY <2>1, <2>2
<1>6. on /\ b.feed = "sent" => \E m \in Elements(Road(b, k)) : Fetches(m)
  BY <1>1, <1>2, <1>3 DEF Awaits
<1> QED
  BY <1>2, <1>5, <1>6 DEF Awaits, Late

(* A phone whose own writes, queue, and messages are these.                *)
LEMMA SameReads ==
  ASSUME NEW d, NEW r \in Phone, NEW k \in Line, NEW ap, NEW w, Sound(d, r, k, ap, w),
         NEW on, Reads(d, r, k, on), NEW i \in Phone, NEW j \in Line,
         i.queue = r.queue, i.writes = r.writes, i.txn = r.txn, i.feed = r.feed,
         i.cache = r.cache, Asks(i, j) = Asks(r, k),
         j.dn = k.dn, j.hd = k.hd, j.td = k.td
  PROVE  Reads(d, i, j, on)
<1>1. Seen(d, r) /\ Truths(r, Path(r, k)) /\ Awaits(d, r, k, on)
  BY DEF Reads
<1>2. Road(i, j) = Road(r, k) /\ Path(i, j) = Path(r, k)
  BY DEF Road, Path
<1>3. Seen(d, i)
  <2>1. Elements(r.writes) \ Comments \subseteq 1..Len(i.txn)
    BY WritesAre
  <2> QED
    BY <1>1, <2>1, KeepSeen
<1>4. Truths(i, Path(i, j))
  <2>1. PICK p : p = Path(i, j)
    OBVIOUS
  <2>2. Elements(p) \subseteq Elements(Path(r, k))
    BY <1>2, <2>1
  <2>3. Truths(i, p)
    BY <1>1, <2>2, PathTruths
  <2> QED
    BY <2>1, <2>3
<1>5. Awaits(d, i, j, on)
  BY <1>1, <1>2 DEF Awaits
<1> QED
  BY <1>3, <1>4, <1>5 DEF Reads

(* A transaction is started.                                               *)
LEMMA StartReads ==
  ASSUME RInv, IInv', NEW d \in Devices, Start(d)
  PROVE  RInv'
<1>1. IInv /\ Shape /\ Shape' /\ post.whole /\ Reading(d)
  BY DEF RInv, IInv
<1>2. /\ post' = post /\ watch' = watch
      /\ online' = online /\ cache' = cache /\ feed' = feed
      /\ down' = down /\ held' = held /\ todo' = todo
  BY DEF Start
<1>3. PICK k \in Line : \E t, x, b, say, r : StartDone(d, t, x, b, say, k, r)
  BY <1>1, StartDoes
<1>4. PICK t, x, b, say, r : StartDone(d, t, x, b, say, k, r)
  BY <1>3
<1>5. PICK s, l, ap, w, on : /\ s = State(d) /\ l = LineOf(d) /\ ap = applied
                             /\ w = written /\ on = online[d]
  OBVIOUS
<1>6. /\ s \in Phone /\ l \in Line /\ Sound(d, s, l, ap, w) /\ Sent(s)
      /\ Seen(d, s) /\ Truths(s, Path(s, l)) /\ Awaits(d, s, l, on)
      /\ s.txn = txn /\ s.queue = queue[d] /\ s.writes = writes[d] /\ s.cache = cache[d]
      /\ s.feed = feed[d] /\ s.puts = << >>
      /\ l.ob = outbox[d] /\ l.dn = down[d] /\ l.hd = held[d] /\ l.td = todo[d]
      /\ Asks(s, l) = outbox[d] /\ outbox[d] \in Seq(Requests)
  BY <1>1, <1>5, ReadingFacts, ShapeFacts
<1>7. /\ t = Len(s.txn) + 1 /\ x \in Transactions /\ x.dev = d /\ x.status = "run"
      /\ x.told = "none" /\ x.retries = 0 /\ x.out = Plus(Latest(s, {}), 1)
      /\ b \in Phone /\ b.txn = Append(s.txn, x) /\ b.queue = Append(s.queue, t)
      /\ b.writes = Append(s.writes, t) /\ b.cache = s.cache /\ b.feed = s.feed
      /\ b.puts = << >> /\ k.ob = outbox[d] \o say /\ k.dn = l.dn /\ k.hd = l.hd
      /\ k.td = l.td /\ Sound(d, b, k, ap, w) /\ Ready(b) /\ r = SendReady(b)
      /\ r \in Phone /\ Sound(d, r, k, ap, w) /\ Apart(d, txn, txn')
      /\ say \in Seq(Requests)
  BY <1>4, <1>5, <1>6 DEF StartDone
<1>8. /\ say = IF UnderWay(txn, d) = {} /\ feed[d] = "idle"
               THEN Say(d, Listen("post")) ELSE << >>
      /\ txn' = r.txn
      /\ queue' = [queue EXCEPT ![d] = r.queue]
      /\ writes' = [writes EXCEPT ![d] = r.writes]
      /\ outbox' = [outbox EXCEPT ![d] = k.ob \o r.puts]
      /\ unanswered' = [unanswered EXCEPT ![d] = r.unanswered]
  BY <1>4 DEF StartDone
<1>9. Opening(d, s, l, b, k, t, x)
  <2>1. \/ k.ob = l.ob
        \/ k.ob = l.ob \o <<Listen("post")>> /\ UnderWay(s.txn, d) = {}
    <3>1. l.ob \o << >> = l.ob
      BY <1>6, ConcatEmptySeq
    <3> QED
      BY <1>6, <1>7, <1>8, <3>1 DEF Say
  <2> QED
    BY <1>6, <1>7, <2>1 DEF Opening
<1>10. Seen(d, r) /\ Truths(r, Path(r, k))
  <2>1. /\ b \in Phone /\ x \in Transactions /\ x.retries = 0 /\ Sound(d, b, k, ap, w)
        /\ Ready(b) /\ r = SendReady(b)
    BY <1>7
  <2>2. /\ s \in Phone /\ l \in Line /\ Sound(d, s, l, ap, w) /\ Sent(s)
        /\ Seen(d, s) /\ Truths(s, Path(s, l))
    BY <1>6
  <2> QED
    BY <1>9, <2>1, <2>2, BeginSeen
<1>11. Awaits(d, b, k, on)
  <2>1. PICK m : m = Listen("post")
    OBVIOUS
  <2>2. m \in Messages /\ Informs(m) /\ Carried(m) = {}
    BY <2>1 DEF Messages, Requests, Kinds, Listen, Informs, Asking, Carried
  <2>3. say = IF UnderWay(s.txn, d) = {} /\ s.feed = "idle" /\ on THEN <<m>> ELSE << >>
    BY <1>5, <1>6, <1>8, <2>1 DEF Say
  <2>4. <<m>> \in Seq(Messages) /\ Elements(<<m>>) = {m}
    BY <2>2, One
  <2>5. PICK u \in Seq(Messages) : u = say
    BY <1>7, RequestsAre
  <2>6. /\ \A y \in Elements(u) : Carried(y) = {}
        /\ on /\ UnderWay(s.txn, d) = {} /\ s.feed = "idle"
             => \E y \in Elements(u) : Informs(y)
    BY <2>2, <2>3, <2>4, <2>5, ElementsFacts
  <2>7. Asks(b, k) = Asks(s, l) \o u
    <3>1. k.ob \o << >> = k.ob
      <4>1. k.ob \in Seq(Requests)
        BY DEF Line
      <4> QED
        BY <4>1, ConcatEmptySeq
    <3> QED
      BY <1>6, <1>7, <2>5, <3>1 DEF Asks
  <2>8. s \in Phone /\ l \in Line /\ Sound(d, s, l, ap, w) /\ Awaits(d, s, l, on)
        /\ b.cache = s.cache /\ b.feed = s.feed
        /\ k.dn = l.dn /\ k.hd = l.hd /\ k.td = l.td
    BY <1>6, <1>7
  <2> QED
    BY <2>6, <2>7, <2>8, OpeningAwaits
<1>12. Reads(d, r, k, on)
  <2>1. b \in Phone /\ Sound(d, b, k, ap, w) /\ Ready(b) /\ r = SendReady(b)
    BY <1>7
  <2>2. Awaits(d, r, k, on)
    BY <1>11, <2>1, SendAwaits
  <2> QED
    BY <1>10, <2>2 DEF Reads
<1>13. /\ r.writes = b.writes /\ r.feed = b.feed
       /\ \A m \in Elements(r.puts) : m \in Elements(b.puts) \/ m.type = "put"
  <2>1. b \in Phone /\ Sound(d, b, k, ap, w) /\ Ready(b) /\ r = SendReady(b)
    BY <1>7
  <2> QED
    BY <2>1, SendAsks
<1>14. r.cache = b.cache
  <2>1. b \in Phone /\ Sound(d, b, k, ap, w) /\ Ready(b) /\ r = SendReady(b)
    BY <1>7
  <2> QED
    BY <2>1, SendKeeps
<1>15. PICK i, j : i = State(d)' /\ j = LineOf(d)'
  OBVIOUS
<1>16. /\ outbox'[d] = k.ob \o r.puts /\ queue'[d] = r.queue /\ writes'[d] = r.writes
       /\ \A e \in Devices : e # d =>
            outbox'[e] = outbox[e] /\ queue'[e] = queue[e] /\ writes'[e] = writes[e]
  <2>1. /\ outbox \in [Devices -> Seq(Requests)] /\ queue \in [Devices -> Seq(Nat)]
        /\ writes \in [Devices -> Seq(Nat \cup Comments)] /\ d \in Devices
    BY <1>1 DEF Shape
  <2> QED
    BY <1>8, <2>1
<1>17. /\ i \in Phone /\ j \in Line /\ Asks(i, j) = outbox'[d]
       /\ i.queue = r.queue /\ i.writes = r.writes /\ i.txn = r.txn /\ i.feed = r.feed
       /\ i.cache = r.cache /\ j.dn = k.dn /\ j.hd = k.hd /\ j.td = k.td
  <2>1. i \in Phone /\ j \in Line /\ Asks(i, j) = outbox'[d]
    BY <1>1, <1>15, ShapeNext
  <2>2. /\ i.queue = queue'[d] /\ i.writes = writes'[d] /\ i.txn = txn' /\ i.feed = feed'[d]
        /\ i.cache = cache'[d] /\ j.dn = down'[d] /\ j.hd = held'[d] /\ j.td = todo'[d]
    BY <1>15 DEF State, LineOf
  <2>3. i.queue = r.queue /\ i.writes = r.writes /\ i.txn = r.txn
    BY <1>8, <1>16, <2>2
  <2>4. r.feed = b.feed /\ r.cache = b.cache
    BY <1>13, <1>14
  <2>5. b.feed = s.feed /\ b.cache = s.cache /\ k.dn = l.dn /\ k.hd = l.hd /\ k.td = l.td
    BY <1>7
  <2>6. /\ feed' = feed /\ cache' = cache /\ down' = down /\ held' = held /\ todo' = todo
        /\ s.feed = feed[d] /\ s.cache = cache[d]
        /\ l.dn = down[d] /\ l.hd = held[d] /\ l.td = todo[d]
    BY <1>2, <1>6
  <2>7. i.feed = r.feed /\ i.cache = r.cache /\ j.dn = k.dn /\ j.hd = k.hd /\ j.td = k.td
    BY <2>2, <2>4, <2>5, <2>6
  <2> QED
    BY <2>1, <2>3, <2>7
<1>18. Reads(d, i, j, on)
  <2>1. Asks(i, j) = Asks(r, k)
    BY <1>16, <1>17 DEF Asks
  <2>2. r \in Phone /\ Sound(d, r, k, ap, w)
    BY <1>7
  <2> QED
    BY <1>12, <1>17, <2>1, <2>2, SameReads
<1>19. Reading(d)'
  BY <1>1, <1>2, <1>5, <1>15, <1>18 DEF Reading
<1>20. Spares(d)
  BY <1>2, <1>7, <1>16 DEF Spares, WholeNews
<1> QED
  BY <1>1, <1>2, <1>19, <1>20, OthersRead

(* Nothing of the other phones changes, but for what they are told.        *)
Aside(d) ==
  \A e \in Devices : e # d =>
    /\ cache'[e] = cache[e] /\ feed'[e] = feed[e] /\ online'[e] = online[e]
    /\ watch'[e] = watch[e] /\ outbox'[e] = outbox[e] /\ held'[e] = held[e]
    /\ todo'[e] = todo[e] /\ WholeNews(e)

(* A step that leaves the transactions, the queues and the writes.         *)
LEMMA QuietReads ==
  ASSUME RInv, IInv', NEW d \in Devices, txn' = txn, queue' = queue, writes' = writes,
         NEW s, s = State(d), NEW l, l = LineOf(d),
         NEW r, r = State(d)', NEW k, k = LineOf(d)',
         cache'[d] = cache[d] \/ cache'[d].whole \/ UnderWay(txn, d) = {},
         \A m \in Elements(Path(r, k)) :
           m \in Elements(Path(s, l)) \/ (m.type # "put" /\ Carried(m) = {}) \/ Truthful(s, m),
         Awaits(d, r, k, online'[d]), ~online'[d] => ~watch'[d], Aside(d), post'.whole
  PROVE  RInv'
<1>1. PICK ap, w : ap = applied /\ w = written
  OBVIOUS
<1>2. /\ s \in Phone /\ l \in Line /\ Sound(d, s, l, ap, w) /\ Seen(d, s)
      /\ Truths(s, Path(s, l))
      /\ s.txn = txn /\ s.queue = queue[d] /\ s.writes = writes[d] /\ s.cache = cache[d]
  BY <1>1, ReadingFacts
<1>3. /\ r \in Phone /\ k \in Line /\ r.txn = txn' /\ r.queue = queue'[d]
      /\ r.writes = writes'[d] /\ r.cache = cache'[d]
  BY NextFacts
<1>4. Seen(d, r)
  <2>1. r.txn = s.txn /\ r.queue = s.queue /\ r.writes = s.writes
    BY <1>2, <1>3
  <2>2. Elements(s.writes) \ Comments \subseteq 1..Len(r.txn)
    BY <1>2, <2>1, WritesAre
  <2>3. Of(r.txn, d) = Of(s.txn, d) /\ \A t \in Of(s.txn, d) : r.txn[t] = s.txn[t]
    BY <2>1
  <2>4. r.cache.whole = s.cache.whole \/ r.cache.whole \/ UnderWay(s.txn, d) = {}
    BY <1>2, <1>3
  <2> QED
    BY <1>2, <1>3, <2>1, <2>2, <2>3, <2>4, KeepSeen
<1>5. Truths(r, Path(r, k))
  <2>1. \A m : Truthful(s, m) => Truthful(r, m)
    BY <1>2, <1>3 DEF Truthful, Full
  <2>2. \A m : m.type # "put" /\ Carried(m) = {} => Truthful(r, m)
    BY DEF Truthful, Accepts
  <2>3. \A m \in Elements(Path(s, l)) : Truthful(s, m)
    BY <1>2 DEF Truths
  <2> QED
    BY <2>1, <2>2, <2>3 DEF Truths
<1>6. Reads(d, r, k, online'[d])
  BY <1>4, <1>5 DEF Reads
<1>7. Reading(d)'
  BY <1>6 DEF Reading
<1>8. Spares(d)
  BY DEF Spares, Aside, Apart
<1> QED
  BY <1>7, <1>8, OthersRead

-----------------------------------------------------------------------------
(* Listens.                                                                *)

(* The app asks for more, or for no more.                                  *)
LEMMA AskReads ==
  ASSUME RInv, IInv', NEW d \in Devices, txn' = txn, queue' = queue, writes' = writes,
         online' = online, watch' = watch, post' = post,
         down' = down, held' = held, todo' = todo,
         \A e \in Devices : e # d =>
           outbox'[e] = outbox[e] /\ feed'[e] = feed[e] /\ cache'[e] = cache[e],
         NEW u \in Seq(Messages), outbox'[d] = outbox[d] \o u,
         \A m \in Elements(u) : Idle(m),
         \/ feed'[d] = feed[d] \/ feed'[d] = "idle"
         \/ feed'[d] = "sent" /\ (online[d] => \E m \in Elements(u) : Fetches(m)),
         cache'[d] = cache[d] \/ (UnderWay(txn, d) = {} /\ feed'[d] = "idle")
  PROVE  RInv'
<1>1. PICK s, l, r, k, ap, w, on :
        /\ s = State(d) /\ l = LineOf(d) /\ r = State(d)' /\ k = LineOf(d)'
        /\ ap = applied /\ w = written /\ on = online[d]
  OBVIOUS
<1>2. /\ s \in Phone /\ l \in Line /\ Sound(d, s, l, ap, w) /\ Awaits(d, s, l, on)
      /\ s.txn = txn /\ s.cache = cache[d] /\ s.feed = feed[d]
      /\ l.dn = down[d] /\ l.hd = held[d] /\ l.td = todo[d] /\ Asks(s, l) = outbox[d]
  BY <1>1, ReadingFacts
<1>3. /\ r \in Phone /\ k \in Line /\ r.txn = txn' /\ r.cache = cache'[d]
      /\ r.feed = feed'[d] /\ Asks(r, k) = outbox'[d]
      /\ k.dn = down'[d] /\ k.hd = held'[d] /\ k.td = todo'[d]
  BY <1>1, NextFacts
<1>4. Asks(r, k) = Asks(s, l) \o u /\ k.dn = l.dn /\ k.hd = l.hd /\ k.td = l.td
  BY <1>2, <1>3
<1>5. Awaits(d, r, k, on)
  <2>1. UnderWay(r.txn, d) \subseteq UnderWay(s.txn, d)
    BY <1>2, <1>3
  <2>2. \/ r.feed = s.feed \/ r.feed = "idle"
        \/ r.feed = "sent" /\ (on => \E m \in Elements(u) : Fetches(m))
    BY <1>1, <1>2, <1>3
  <2>3. \/ s.cache.whole => r.cache.whole
        \/ /\ UnderWay(r.txn, d) = {} /\ r.feed # "answered"
           /\ \A m \in Elements(l.hd) \cup Elements(l.td) : Carried(m) = {}
    <3>1. CASE cache'[d] = cache[d]
      BY <1>2, <1>3, <3>1
    <3>2. CASE UnderWay(txn, d) = {} /\ feed'[d] = "idle"
      <4>1. UnderWay(s.txn, d) = {}
        BY <1>2, <3>2
      <4>2. /\ \A m \in Elements(Path(s, l)) : Carried(m) = {}
            /\ \A z : Heard(z, l.dn)
        BY <1>2, <4>1, HeardNothing
      <4>3. Elements(Path(s, l)) = Everywhere(s, l)
        BY <1>2, Places
      <4>4. \A m \in Elements(l.hd) \cup Elements(l.td) : Carried(m) = {}
        BY <4>2, <4>3 DEF Everywhere
      <4> QED
        BY <1>2, <1>3, <3>2, <4>4
    <3> QED
      BY <3>1, <3>2
  <2>4. s \in Phone /\ l \in Line /\ Awaits(d, s, l, on) /\ k \in Line
    BY <1>2, <1>3
  <2> QED
    BY <1>4, <2>1, <2>2, <2>3, <2>4, AwaitsMore
<1>6. \A m \in Elements(Path(r, k)) :
        m \in Elements(Path(s, l)) \/ (m.type # "put" /\ Carried(m) = {}) \/ Truthful(s, m)
  <2>1. Elements(Path(r, k)) = Elements(Path(s, l)) \cup Elements(u)
    <3>1. s \in Phone /\ l \in Line /\ u \in Seq(Messages)
      BY <1>2
    <3> QED
      BY ONLY <1>4, <3>1, PathMore
  <2>2. \A m \in Elements(u) : m.type # "put" /\ Carried(m) = {}
    BY DEF Idle
  <2> QED
    BY <2>1, <2>2
<1>7. ~online'[d] => ~watch'[d]
  <2>1. Reading(d)
    BY DEF RInv
  <2> QED
    BY <2>1 DEF Reading
<1>8. Aside(d)
  BY DEF Aside, WholeNews
<1>9. cache'[d] = cache[d] \/ cache'[d].whole \/ UnderWay(txn, d) = {}
  OBVIOUS
<1>10. post'.whole
  BY DEF RInv
<1>11. Awaits(d, r, k, online'[d])
  BY <1>1, <1>5
<1> QED
  BY <1>1, <1>6, <1>7, <1>8, <1>9, <1>10, <1>11, QuietReads

(* A read of the feed begins.                                              *)
LEMMA ReadFeedReads ==
  ASSUME RInv, IInv', NEW d \in Devices, ReadFeed(d)
  PROVE  RInv'
<1>1. /\ txn' = txn /\ queue' = queue /\ writes' = writes /\ cache' = cache
      /\ online' = online /\ watch' = watch /\ post' = post
      /\ down' = down /\ held' = held /\ todo' = todo
  BY DEF ReadFeed, client
<1>2. PICK m, u : m = Listen("feed") /\ u = Say(d, m)
  OBVIOUS
<1>3. /\ outbox'[d] = outbox[d] \o u /\ feed'[d] = "sent"
      /\ \A e \in Devices : e # d => outbox'[e] = outbox[e] /\ feed'[e] = feed[e]
  <2>1. /\ outbox \in [Devices -> Seq(Requests)] /\ d \in Devices
        /\ feed \in [Devices -> {"idle", "sent", "answered"}]
    BY DEF RInv, IInv, Shape
  <2>2. /\ outbox' = [outbox EXCEPT ![d] = @ \o u]
        /\ feed' = [feed EXCEPT ![d] = "sent"]
    BY <1>2 DEF ReadFeed
  <2> QED
    BY <2>1, <2>2
<1>4. m \in Messages /\ Idle(m) /\ Fetches(m)
  BY <1>2 DEF Messages, Requests, Kinds, Listen, Idle, Carried, Mentioned, Fetches, Asking
<1>5. u = IF online[d] THEN <<m>> ELSE << >>
  BY <1>2 DEF Say
<1>6. /\ <<m>> \in Seq(Messages) /\ Elements(<<m>>) = {m}
      /\ << >> \in Seq(Messages) /\ Elements(<< >>) = {}
  BY <1>4, One, EmptySeq, ElementsFacts
<1>7. /\ u \in Seq(Messages) /\ \A x \in Elements(u) : Idle(x)
      /\ online[d] => \E x \in Elements(u) : Fetches(x)
  BY <1>4, <1>5, <1>6
<1> QED
  BY <1>1, <1>3, <1>7, AskReads

(* The app has read the feed.                                              *)
LEMMA EndReadReads ==
  ASSUME RInv, IInv', NEW d \in Devices, EndRead(d)
  PROVE  RInv'
<1>1. /\ txn' = txn /\ queue' = queue /\ writes' = writes
      /\ online' = online /\ watch' = watch /\ post' = post
      /\ down' = down /\ held' = held /\ todo' = todo
      /\ feed' = [feed EXCEPT ![d] = "idle"]
  BY DEF EndRead
<1>2. PICK m, u :
        /\ m = (IF UnderWay(txn, d) = {} THEN [type |-> "unlisten"] ELSE Listen("again"))
        /\ u = Say(d, m)
  OBVIOUS
<1>3. m \in Messages /\ Idle(m)
  <2>1. CASE UnderWay(txn, d) = {}
    <3>1. m = [type |-> "unlisten"]
      BY <1>2, <2>1
    <3>2. m.type = "unlisten" /\ m \in Messages
      BY <3>1 DEF Messages, Requests
    <3> QED
      BY <3>2 DEF Idle, Carried, Mentioned
  <2>2. CASE UnderWay(txn, d) # {}
    <3>1. m = Listen("again")
      BY <1>2, <2>2
    <3> QED
      BY <3>1 DEF Messages, Requests, Kinds, Listen, Idle, Carried, Mentioned
  <2> QED
    BY <2>1, <2>2
<1>4. u = IF online[d] THEN <<m>> ELSE << >>
  BY <1>2 DEF Say
<1>5. /\ <<m>> \in Seq(Messages) /\ Elements(<<m>>) = {m}
      /\ << >> \in Seq(Messages) /\ Elements(<< >>) = {}
  BY <1>3, One, EmptySeq, ElementsFacts
<1>6. u \in Seq(Messages) /\ \A x \in Elements(u) : Idle(x)
  BY <1>3, <1>4, <1>5
<1>7. /\ outbox'[d] = outbox[d] \o u /\ feed'[d] = "idle"
      /\ \A e \in Devices : e # d => /\ outbox'[e] = outbox[e] /\ feed'[e] = feed[e]
                                     /\ cache'[e] = cache[e]
      /\ cache'[d] = cache[d] \/ UnderWay(txn, d) = {}
  <2>1. /\ outbox \in [Devices -> Seq(Requests)] /\ d \in Devices
        /\ feed \in [Devices -> {"idle", "sent", "answered"}]
        /\ cache \in [Devices -> Node]
    BY DEF RInv, IInv, Shape
  <2>2. /\ outbox' = [outbox EXCEPT ![d] = @ \o u]
        /\ cache' = cache \/ (cache' = [cache EXCEPT ![d] = Empty] /\ UnderWay(txn, d) = {})
    BY <1>2 DEF EndRead
  <2> QED
    BY <1>1, <2>1, <2>2
<1> QED
  BY <1>1, <1>6, <1>7, AskReads

(* The app listens to something else.                                      *)
LEMMA ListenElsewhereReads ==
  ASSUME RInv, IInv', NEW d \in Devices, ListenElsewhere(d)
  PROVE  RInv'
<1>1. /\ txn' = txn /\ queue' = queue /\ writes' = writes /\ cache' = cache /\ feed' = feed
      /\ online' = online /\ watch' = watch /\ post' = post
      /\ down' = down /\ held' = held /\ todo' = todo
  BY DEF ListenElsewhere, client
<1>2. PICK m, u, o : m = Listen("other") /\ u = <<m>> /\ o = outbox[d]
  OBVIOUS
<1>3. m \in Messages /\ Idle(m)
  BY <1>2 DEF Messages, Requests, Kinds, Listen, Idle, Carried, Mentioned
<1>4. u \in Seq(Messages) /\ Elements(u) = {m}
  BY <1>2, <1>3, One
<1>5. o \in Seq(Messages)
  <2>1. Shape /\ outbox[d] \in Seq(Requests)
    BY DEF RInv, IInv, Shape
  <2> QED
    BY <1>2, <2>1, RequestsAre
<1>6. outbox'[d] = outbox[d] \o u /\ \A e \in Devices : e # d => outbox'[e] = outbox[e]
  <2>1. outbox \in [Devices -> Seq(Requests)] /\ d \in Devices
    BY DEF RInv, IInv, Shape
  <2>2. outbox' = [outbox EXCEPT ![d] = Append(@, m)]
    BY <1>2 DEF ListenElsewhere
  <2>3. Append(o, m) = o \o u
    BY <1>2, <1>3, <1>5, AppendIsConcat
  <2> QED
    BY <1>2, <2>1, <2>2, <2>3
<1>7. \A x \in Elements(u) : Idle(x)
  BY <1>3, <1>4
<1> QED
  BY <1>1, <1>4, <1>6, <1>7, AskReads

(* What is restored asks for the post if the phone listens to it, and for  *)
(* the feed if it is being read.                                           *)
Renewed(x, f, u) ==
  /\ u \in Seq(Messages) /\ \A m \in Elements(u) : Idle(m)
  /\ x # {} => \E m \in Elements(u) : Informs(m)
  /\ f = "sent" => \E m \in Elements(u) : Fetches(m)

(* What Connect restores does so.                                          *)
LEMMA RestoredAsks ==
  ASSUME NEW x, NEW f \in {"idle", "sent", "answered"},
         NEW u, u = <<Listen("restored")>>
                      \o (IF f = "sent" THEN <<Listen("feed")>>
                          ELSE IF f = "answered" THEN <<Listen("again")>>
                          ELSE IF x # {} THEN <<Listen("post")>> ELSE << >>)
  PROVE  Renewed(x, f, u)
<1>1. u \in Seq(Messages) /\ \A m \in Elements(u) : Idle(m)
  BY RestoredFacts DEF Restored
<1>2. ASSUME NEW what \in {"feed", "again", "post"}, NEW b, b = Listen(what),
             u = <<Listen("restored")>> \o <<b>>
      PROVE  b \in Elements(u) /\ Informs(b) /\ (what = "feed" => Fetches(b))
  <2>1. PICK a : a = Listen("restored")
    OBVIOUS
  <2>2. a \in Messages /\ b \in Messages
    BY <1>2, <2>1 DEF Messages, Requests, Kinds, Listen
  <2>3. PICK p, q : p = <<a>> /\ q = <<b>>
    OBVIOUS
  <2>4. p \in Seq(Messages) /\ q \in Seq(Messages) /\ Elements(q) = {b}
    BY <2>2, <2>3, One
  <2>5. p \o q \in Seq(Messages) /\ Elements(p \o q) = Elements(p) \cup Elements(q)
    BY <2>4, ElementsConcat
  <2>6. b \in Elements(u)
    BY <1>2, <2>1, <2>3, <2>4, <2>5
  <2> QED
    BY <1>2, <2>6 DEF Informs, Fetches, Asking, Listen
<1> SUFFICES /\ x # {} => \E m \in Elements(u) : Informs(m)
             /\ f = "sent" => \E m \in Elements(u) : Fetches(m)
  BY <1>1 DEF Renewed
<1>3. CASE f = "sent"
  <2>1. u = <<Listen("restored")>> \o <<Listen("feed")>>
    BY <1>3
  <2> QED
    BY SMTT(30), <1>1, <1>2, <2>1
<1>4. CASE f = "answered"
  <2>1. u = <<Listen("restored")>> \o <<Listen("again")>>
    BY <1>4
  <2> QED
    BY <1>1, <1>2, <1>4, <2>1
<1>5. CASE f = "idle" /\ x # {}
  <2>1. u = <<Listen("restored")>> \o <<Listen("post")>>
    BY <1>5
  <2> QED
    BY <1>1, <1>2, <1>5, <2>1
<1>6. CASE f = "idle" /\ x = {}
  BY <1>1, <1>6
<1> QED
  BY <1>3, <1>4, <1>5, <1>6

(* The connection is back.                                                 *)
LEMMA ConnectReads ==
  ASSUME RInv, IInv', NEW d \in Devices, Connect(d)
  PROVE  RInv'
<1>1. /\ txn' = txn /\ queue' = queue /\ writes' = writes /\ cache' = cache /\ feed' = feed
      /\ watch' = watch /\ post' = post /\ down' = down /\ held' = held /\ todo' = todo
      /\ online' = [online EXCEPT ![d] = TRUE] /\ ~online[d]
  BY DEF Connect, client
<1>2. PICK s, l, r, k, x, f, o, ap, w, on :
        /\ s = State(d) /\ l = LineOf(d) /\ r = State(d)' /\ k = LineOf(d)'
        /\ x = UnderWay(txn, d) /\ f = feed[d] /\ o = outbox[d] /\ ap = applied /\ w = written
        /\ on = online[d]
  OBVIOUS
<1>3. /\ s \in Phone /\ l \in Line /\ Sound(d, s, l, ap, w) /\ Awaits(d, s, l, on)
      /\ s.txn = txn /\ s.feed = f /\ s.cache = cache[d]
      /\ l.dn = down[d] /\ l.hd = held[d] /\ l.td = todo[d] /\ Asks(s, l) = o
  BY <1>2, ReadingFacts
<1>4. /\ r \in Phone /\ k \in Line /\ r.txn = txn' /\ r.cache = cache'[d]
      /\ r.feed = feed'[d] /\ Asks(r, k) = outbox'[d]
      /\ k.dn = down'[d] /\ k.hd = held'[d] /\ k.td = todo'[d]
  BY <1>2, NextFacts
<1>5. PICK u :
        u = <<Listen("restored")>>
              \o (IF f = "sent" THEN <<Listen("feed")>>
                  ELSE IF f = "answered" THEN <<Listen("again")>>
                  ELSE IF x # {} THEN <<Listen("post")>> ELSE << >>)
  OBVIOUS
<1>6. /\ u \in Seq(Messages) /\ \A m \in Elements(u) : Idle(m)
      /\ x # {} => \E m \in Elements(u) : Informs(m)
      /\ f = "sent" => \E m \in Elements(u) : Fetches(m)
  <2>1. f \in {"idle", "sent", "answered"}
    BY <1>2 DEF RInv, IInv, Shape
  <2>2. Renewed(x, f, u)
    BY <1>5, <2>1, RestoredAsks
  <2> QED
    BY <2>2 DEF Renewed
<1>7. o \in Seq(Messages)
  BY <1>3, Places
<1>8. /\ outbox'[d] = u \o o /\ online'[d] = TRUE
      /\ \A e \in Devices : e # d => outbox'[e] = outbox[e] /\ online'[e] = online[e]
  <2>1. /\ outbox \in [Devices -> Seq(Requests)] /\ d \in Devices
        /\ online \in [Devices -> BOOLEAN]
    BY DEF RInv, IInv, Shape
  <2>2. outbox' = [outbox EXCEPT ![d] =
                     <<Listen("restored")>>
                       \o (IF f = "sent" THEN <<Listen("feed")>>
                           ELSE IF f = "answered" THEN <<Listen("again")>>
                           ELSE IF x # {} THEN <<Listen("post")>> ELSE << >>)
                       \o @]
    BY <1>2 DEF Connect
  <2>3. outbox' = [outbox EXCEPT ![d] = u \o @]
    BY <1>5, <2>2
  <2> QED
    BY <1>1, <1>2, <2>1, <2>3
<1>9. down[d] = << >>
  <2>1. ~on
    BY <1>1, <1>2
  <2> QED
    BY <1>3, <2>1 DEF Awaits
<1>10. u \o o \in Seq(Messages) /\ Elements(u \o o) = Elements(u) \cup Elements(o)
  BY <1>6, <1>7, ElementsConcat
<1>11. Road(r, k) = u \o o
  <2>1. << >> \o (u \o o) = u \o o
    BY <1>10, ConcatEmptySeq
  <2> QED
    BY <1>1, <1>4, <1>8, <1>9, <2>1 DEF Road
<1>12. Awaits(d, r, k, TRUE)
  <2>1. UnderWay(r.txn, d) # {} => Led(Road(r, k))
    <3> SUFFICES ASSUME x # {}
                 PROVE  Led(u \o o)
      BY <1>1, <1>2, <1>4, <1>11
    <3>1. PICK m \in Elements(u) : Informs(m)
      BY <1>6
    <3>2. \A y \in Elements(u) : Carried(y) = {}
      BY <1>6 DEF Idle
    <3>3. Led(u)
      BY <1>6, <3>1, <3>2, LedFree
    <3> QED
      BY <1>6, <1>7, <3>3, LedConcat
  <2>2. r.feed = "sent" => \E m \in Elements(Road(r, k)) : Fetches(m)
    BY <1>1, <1>2, <1>4, <1>6, <1>10, <1>11
  <2>3. r.cache = s.cache /\ r.feed = s.feed /\ k.hd = l.hd /\ k.td = l.td /\ k.dn = l.dn
    BY <1>1, <1>2, <1>3, <1>4
  <2> QED
    BY <1>3, <2>1, <2>2, <2>3 DEF Awaits
<1>13. \A m \in Elements(Path(r, k)) :
         m \in Elements(Path(s, l)) \/ (m.type # "put" /\ Carried(m) = {}) \/ Truthful(s, m)
  <2>1. Elements(Path(r, k)) = Everywhere(r, k) /\ Elements(Path(s, l)) = Everywhere(s, l)
    BY <1>3, <1>4, Places
  <2>2. /\ Elements(Asks(r, k)) = Elements(u) \cup Elements(Asks(s, l))
        /\ k.hd = l.hd /\ k.td = l.td /\ k.dn = l.dn
    BY <1>1, <1>3, <1>4, <1>8, <1>10
  <2>3. \A m \in Elements(u) : m.type # "put" /\ Carried(m) = {}
    BY <1>6 DEF Idle
  <2> QED
    BY <2>1, <2>2, <2>3 DEF Everywhere
<1>14. Aside(d)
  BY <1>1, <1>8 DEF Aside, WholeNews
<1>15. post'.whole
  BY <1>1 DEF RInv
<1>16. Awaits(d, r, k, online'[d])
  BY <1>8, <1>12
<1> QED
  BY <1>1, <1>2, <1>8, <1>13, <1>14, <1>15, <1>16, QuietReads

(* The connection is lost.                                                 *)
LEMMA DisconnectReads ==
  ASSUME RInv, IInv', NEW d \in Devices, Disconnect(d)
  PROVE  RInv'
<1>1. /\ txn' = txn /\ queue' = queue /\ writes' = writes
      /\ held' = held /\ cache' = cache /\ post' = post /\ feed' = feed
  BY DEF Disconnect, client
<1>2. PICK s, l, r, k, x, o, g, ap, w, on :
        /\ s = State(d) /\ l = LineOf(d) /\ r = State(d)' /\ k = LineOf(d)' /\ x = Kept(d)
        /\ o = [i \in 1..Len(x) |-> [type |-> "set", comment |-> x[i]]]
        /\ g = Lost(unanswered[d]) /\ ap = applied /\ w = written /\ on = online[d]
  OBVIOUS
<1>3. /\ s \in Phone /\ l \in Line /\ Sound(d, s, l, ap, w) /\ Awaits(d, s, l, on)
      /\ s.cache = cache[d] /\ s.feed = feed[d]
      /\ s.unanswered = unanswered[d] /\ l.hd = held[d] /\ l.td = todo[d]
  BY <1>2, ReadingFacts
<1>4. /\ r \in Phone /\ k \in Line /\ r.cache = cache'[d]
      /\ r.feed = feed'[d] /\ Asks(r, k) = outbox'[d]
      /\ k.dn = down'[d] /\ k.hd = held'[d] /\ k.td = todo'[d]
  BY <1>2, NextFacts
<1>5. /\ outbox'[d] = o /\ todo'[d] = g /\ down'[d] = << >>
      /\ watch'[d] = FALSE /\ online'[d] = FALSE
      /\ \A e \in Devices : e # d =>
           /\ outbox'[e] = outbox[e] /\ todo'[e] = todo[e] /\ down'[e] = down[e]
           /\ watch'[e] = watch[e] /\ online'[e] = online[e]
  <2>1. /\ outbox \in [Devices -> Seq(Requests)] /\ todo \in [Devices -> Seq(Answers)]
        /\ down \in [Devices -> Seq(Notices)] /\ watch \in [Devices -> BOOLEAN]
        /\ online \in [Devices -> BOOLEAN] /\ d \in Devices
    BY DEF RInv, IInv, Shape
  <2>2. /\ outbox' = [outbox EXCEPT ![d] = o] /\ todo' = [todo EXCEPT ![d] = g]
        /\ down' = [down EXCEPT ![d] = << >>]
        /\ watch' = [watch EXCEPT ![d] = FALSE] /\ online' = [online EXCEPT ![d] = FALSE]
    BY <1>2 DEF Disconnect, Lost
  <2> QED
    BY <2>1, <2>2
<1>6. \A m \in Elements(o) : m.type = "set"
  <2>1. o \in Seq(Requests)
    BY <1>4, <1>5, Places
  <2>2. x \in Seq(Nat \cup Comments)
    <3>1. PICK S, v, keep : /\ S = Nat \cup Comments /\ v = writes[d]
            /\ keep = {c \in Comments : \A i \in 1..Len(held[d]) : held[d][i].what # <<c>>}
      OBVIOUS
    <3>2. v \in Seq(S) /\ x = Only(v, keep)
      BY <1>2, <3>1 DEF RInv, IInv, Shape, Kept
    <3>3. x \in Seq(S) /\ Elements(x) = Elements(v) \cap keep
      BY <3>2, ElementsOnly
    <3> QED
      BY <3>1, <3>3
  <2>3. Len(x) \in Nat /\ Len(o) \in Nat
    BY <2>1, <2>2
  <2>4. DOMAIN o = 1..Len(x) /\ DOMAIN o = 1..Len(o)
    BY <1>2, <2>1
  <2>5. Len(o) = Len(x)
    BY <2>3, <2>4
  <2> QED
    BY <1>2, <2>5 DEF Elements
<1>7. \A m \in Elements(g) : m.type = "reply" /\ m.status = "disconnect"
  <2>1. PICK v, t : v = unanswered[d] /\ t = 0
    OBVIOUS
  <2>2. v \in Seq(Seq(Nat)) /\ t \notin Comments
    BY <2>1, NoComment DEF RInv, IInv, Shape
  <2>3. /\ Lost(v) \in Seq(Answers)
        /\ Elements(Lost(v)) = {Reply(b, "disconnect") : b \in Elements(v)}
        /\ Asked(t, v) => Once(t, Lost(v))
        /\ Unasked(t, v) => None(t, Lost(v))
    BY <2>2, LostFacts
  <2>4. \A b : Reply(b, "disconnect").type = "reply"
               /\ Reply(b, "disconnect").status = "disconnect"
    BY DEF Reply
  <2> QED
    BY <1>2, <2>1, <2>3, <2>4
<1>8. Awaits(d, r, k, FALSE)
  <2>1. /\ r.cache = s.cache /\ r.feed = s.feed /\ k.dn = << >> /\ k.hd = l.hd /\ k.td = g
    BY <1>1, <1>3, <1>4, <1>5
  <2>2. Late(r.cache, k.td)
    BY <1>7, <2>1 DEF Late
  <2>3. Whole(<< >>)
    BY ElementsFacts DEF Whole
  <2> QED
    BY <1>3, <2>1, <2>2, <2>3 DEF Awaits
<1>9. \A m \in Elements(Path(r, k)) :
        m \in Elements(Path(s, l)) \/ (m.type # "put" /\ Carried(m) = {}) \/ Truthful(s, m)
  <2>1. Elements(Path(r, k)) = Everywhere(r, k) /\ Elements(Path(s, l)) = Everywhere(s, l)
    BY <1>3, <1>4, Places
  <2>2. Elements(k.dn) = {} /\ k.hd = l.hd /\ k.td = g /\ Asks(r, k) = o
    BY <1>1, <1>3, <1>4, <1>5, ElementsFacts
  <2>3. \A m \in Elements(o) : m.type # "put" /\ Carried(m) = {}
    BY <1>6 DEF Carried
  <2>4. \A m \in Elements(g) : Truthful(s, m)
    BY <1>7 DEF Truthful, Accepts
  <2> QED
    BY <2>1, <2>2, <2>3, <2>4 DEF Everywhere
<1>10. Aside(d)
  BY <1>1, <1>5 DEF Aside, WholeNews
<1>11. post'.whole
  BY <1>1 DEF RInv
<1>12. Awaits(d, r, k, online'[d])
  BY <1>5, <1>8
<1> QED
  BY <1>1, <1>2, <1>5, <1>9, <1>10, <1>11, <1>12, QuietReads

-----------------------------------------------------------------------------
(* The server.                                                             *)

(* A request is processed; e is what the phone is told for it.             *)
LEMMA PushReads ==
  ASSUME RInv, IInv', NEW d \in Devices, txn' = txn, queue' = queue, writes' = writes,
         cache' = cache, feed' = feed, held' = held, todo' = todo, online' = online,
         online[d], outbox[d] # << >>, outbox' = [outbox EXCEPT ![d] = Tail(@)],
         NEW h, h = Head(outbox[d]), NEW e \in Seq(Messages), down'[d] = down[d] \o e,
         Informs(h) => Led(e), Carried(h) = {} => \A m \in Elements(e) : Carried(m) = {},
         Fetches(h) => \E m \in Elements(e) : Fetches(m), Whole(e),
         \A m \in Elements(e) : m.type # "put" /\ (Carried(m) = {} \/ Truthful(State(d), m)),
         \A c \in Devices : c # d => watch'[c] = watch[c] /\ WholeNews(c), post'.whole
  PROVE  RInv'
<1>1. PICK s, l, r, k, ap, w, o, b, q, on :
        /\ s = State(d) /\ l = LineOf(d) /\ r = State(d)' /\ k = LineOf(d)'
        /\ ap = applied /\ w = written /\ o = outbox[d] /\ b = Tail(o) /\ q = down[d]
        /\ on = online[d]
  OBVIOUS
<1>2. /\ s \in Phone /\ l \in Line /\ Sound(d, s, l, ap, w) /\ Awaits(d, s, l, on)
      /\ s.txn = txn /\ s.cache = cache[d] /\ s.feed = feed[d]
      /\ l.dn = q /\ l.hd = held[d] /\ l.td = todo[d] /\ Asks(s, l) = o
  <2>1. RInv /\ d \in Devices /\ s = State(d) /\ l = LineOf(d)
    BY <1>1
  <2>2. /\ s \in Phone /\ l \in Line /\ Sound(d, s, l, applied, written) /\ Sent(s)
        /\ Seen(d, s) /\ Truths(s, Path(s, l)) /\ Awaits(d, s, l, online[d])
        /\ s.txn = txn /\ s.queue = queue[d] /\ s.writes = writes[d] /\ s.cache = cache[d]
        /\ s.feed = feed[d] /\ s.unanswered = unanswered[d] /\ s.puts = << >>
        /\ l.ob = outbox[d] /\ l.dn = down[d] /\ l.hd = held[d] /\ l.td = todo[d]
        /\ Asks(s, l) = outbox[d]
    BY ONLY <2>1, ReadingFacts
  <2> QED
    BY <1>1, <2>2
<1>3. /\ r \in Phone /\ k \in Line /\ Asks(r, k) = outbox'[d]
      /\ r.txn = txn' /\ r.cache = cache'[d] /\ r.feed = feed'[d]
      /\ k.dn = down'[d] /\ k.hd = held'[d] /\ k.td = todo'[d]
  BY <1>1, NextFacts
<1>4. outbox'[d] = b /\ \A c \in Devices : c # d => outbox'[c] = outbox[c]
  <2>1. outbox \in [Devices -> Seq(Requests)] /\ d \in Devices
    BY DEF RInv, IInv, Shape
  <2> QED
    BY <1>1, <2>1
<1>5. o \in Seq(Messages) /\ o # << >> /\ h = Head(o) /\ q \in Seq(Messages)
  BY <1>1, <1>2, Places
<1>6. h \in Messages /\ b \in Seq(Messages) /\ <<h>> \in Seq(Messages)
      /\ Elements(o) = Elements(b) \cup {h}
  <2>1. h \in Messages /\ b \in Seq(Messages) /\ Elements(o) = Elements(b) \cup {h}
    BY <1>1, <1>5, ElementsTail
  <2> QED
    BY <2>1, One
<1>7. o = <<h>> \o b
  BY <1>1, <1>5, <1>6
<1>8. Road(s, l) = q \o (<<h>> \o b) /\ Road(r, k) = (q \o e) \o b
  BY <1>1, <1>2, <1>3, <1>4, <1>7 DEF Road
<1>9. /\ Elements(k.dn) = Elements(q) \cup Elements(e)
      /\ Elements(Road(r, k)) = Elements(q) \cup Elements(e) \cup Elements(b)
      /\ Elements(Road(s, l)) = Elements(q) \cup Elements(b) \cup {h}
  <2>1. Elements(q \o e) = Elements(q) \cup Elements(e)
    BY <1>5, ElementsConcat
  <2>2. k.dn = q \o e /\ Asks(r, k) = b
    BY <1>1, <1>3, <1>4
  <2>3. /\ Elements(Road(r, k)) = Elements(k.dn) \cup Elements(Asks(r, k))
        /\ Elements(Road(s, l)) = Elements(l.dn) \cup Elements(Asks(s, l))
    BY <1>2, <1>3, Places
  <2> QED
    BY <1>2, <1>6, <2>1, <2>2, <2>3
<1>10. Awaits(d, r, k, on)
  <2>1. Led(Road(s, l)) => Led(Road(r, k))
    BY <1>5, <1>6, <1>8, LedPush
  <2>2. r.cache = s.cache /\ r.feed = s.feed /\ r.txn = s.txn /\ k.hd = l.hd /\ k.td = l.td
    BY <1>2, <1>3
  <2>3. r.feed = "sent" => \E m \in Elements(Road(r, k)) : Fetches(m)
    <3> SUFFICES ASSUME s.feed = "sent"
                 PROVE  \E m \in Elements(Road(r, k)) : Fetches(m)
      BY <2>2
    <3>1. PICK m \in Elements(Road(s, l)) : Fetches(m)
      BY <1>1, <1>2 DEF Awaits
    <3> QED
      BY <1>9, <3>1
  <2>4. Whole(k.dn)
    <3>1. Whole(q)
      BY <1>2 DEF Awaits
    <3> QED
      BY <1>9, <3>1 DEF Whole
  <2>5. on
    BY <1>1
  <2> QED
    BY <1>2, <2>1, <2>2, <2>3, <2>4, <2>5 DEF Awaits
<1>11. \A m \in Elements(Path(r, k)) :
         m \in Elements(Path(s, l)) \/ (m.type # "put" /\ Carried(m) = {}) \/ Truthful(s, m)
  <2>1. Elements(Path(r, k)) = Everywhere(r, k) /\ Elements(Path(s, l)) = Everywhere(s, l)
    BY <1>2, <1>3, Places
  <2>2. /\ Elements(Asks(r, k)) \subseteq Elements(Asks(s, l))
        /\ Elements(k.dn) = Elements(l.dn) \cup Elements(e)
        /\ k.hd = l.hd /\ k.td = l.td
    BY <1>2, <1>3, <1>4, <1>6, <1>9
  <2>3. \A m \in Elements(e) : (m.type # "put" /\ Carried(m) = {}) \/ Truthful(s, m)
    BY <1>1
  <2> QED
    BY <2>1, <2>2, <2>3 DEF Everywhere
<1>12. Aside(d)
  BY <1>4 DEF Aside
<1>13. Awaits(d, r, k, online'[d]) /\ (~online'[d] => ~watch'[d])
  BY <1>1, <1>10
<1> QED
  BY <1>1, <1>11, <1>12, <1>13, QuietReads

(* A listen is answered.                                                   *)
LEMMA AnswerListenReads ==
  ASSUME RInv, IInv', NEW d \in Devices, AnswerListen(d)
  PROVE  RInv'
<1>1. /\ txn' = txn /\ queue' = queue /\ writes' = writes
      /\ cache' = cache /\ feed' = feed /\ held' = held /\ todo' = todo
      /\ online' = online /\ post' = post
      /\ online[d] /\ outbox[d] # << >> /\ outbox' = [outbox EXCEPT ![d] = Tail(@)]
  BY DEF AnswerListen, Next1, client
<1>2. PICK h, what, m, e, q :
        /\ h = Head(outbox[d]) /\ what = h.what /\ e = <<m>> /\ q = down[d]
        /\ m = [type |-> "value", what |-> what, node |-> post]
  OBVIOUS
<1>3. /\ h.type = "listen"
      /\ watch' = [watch EXCEPT ![d] = @ \/ what \notin {"other", "restored"}]
      /\ down' = [down EXCEPT ![d] = Append(@, m)]
  BY <1>2 DEF AnswerListen, Next1
<1>4. /\ Shape /\ outbox[d] \in Seq(Requests) /\ q \in Seq(Notices) /\ post \in Node
      /\ watch \in [Devices -> BOOLEAN] /\ down \in [Devices -> Seq(Notices)] /\ post.whole
  BY <1>2 DEF RInv, IInv, Shape
<1>5. h \in Requests
  BY <1>1, <1>2, <1>4, ElementsTail
<1>6. what \in Kinds
  BY <1>2, <1>3, <1>5 DEF Requests, Puts
<1>7. /\ m \in Messages /\ m.type = "value" /\ m.what = what /\ Carried(m) = {}
      /\ m.node = post
  BY <1>2, <1>4, <1>6 DEF Messages, Notices, Carried
<1>8. q \in Seq(Messages) /\ e \in Seq(Messages) /\ Elements(e) = {m}
  <2>1. e \in Seq(Messages) /\ Elements(e) = {m}
    BY <1>2, <1>7, One
  <2>2. LineOf(d) \in Line /\ State(d) \in Phone
    BY <1>4, ShapeFacts
  <2> QED
    BY <1>2, <2>1, <2>2, Places DEF LineOf
<1>9. /\ down'[d] = down[d] \o e
      /\ \A c \in Devices : c # d => down'[c] = down[c] /\ watch'[c] = watch[c]
  <2>1. Append(q, m) = q \o e
    BY <1>2, <1>7, <1>8, AppendIsConcat
  <2> QED
    BY <1>2, <1>3, <1>4, <2>1
<1>10. (Informs(h) => Informs(m)) /\ (Fetches(h) => Fetches(m))
  BY <1>2, <1>3, <1>7 DEF Informs, Fetches, Asking
<1>11. Informs(h) => Led(e)
  BY <1>2, <1>10, LedOne
<1>12. Whole(e) /\ post'.whole
  BY <1>1, <1>4, <1>7, <1>8 DEF Whole
<1>13. \A x \in Elements(e) : x.type # "put" /\ Carried(x) = {}
  BY <1>7, <1>8
<1>14. Fetches(h) => \E x \in Elements(e) : Fetches(x)
  BY <1>8, <1>10
<1>15. \A c \in Devices : c # d => watch'[c] = watch[c] /\ WholeNews(c)
  BY <1>9 DEF WholeNews
<1> QED
  BY <1>1, <1>2, <1>8, <1>9, <1>11, <1>12, <1>13, <1>14, <1>15, PushReads

(* The listen is taken back.                                               *)
LEMMA AnswerUnlistenReads ==
  ASSUME RInv, IInv', NEW d \in Devices, AnswerUnlisten(d)
  PROVE  RInv'
<1>1. /\ txn' = txn /\ queue' = queue /\ writes' = writes
      /\ cache' = cache /\ feed' = feed /\ held' = held /\ todo' = todo
      /\ online' = online /\ post' = post /\ down' = down
      /\ watch' = [watch EXCEPT ![d] = FALSE]
      /\ online[d] /\ outbox[d] # << >> /\ outbox' = [outbox EXCEPT ![d] = Tail(@)]
  BY DEF AnswerUnlisten, Next1, client
<1>2. PICK h, e, q : h = Head(outbox[d]) /\ e = << >> /\ q = down[d]
  OBVIOUS
<1>3. h.type = "unlisten"
  BY <1>2 DEF AnswerUnlisten, Next1
<1>4. ~Informs(h) /\ ~Fetches(h)
  BY <1>3 DEF Informs, Fetches, Asking
<1>5. e \in Seq(Messages) /\ Elements(e) = {} /\ q \o e = q
  <2>1. Shape
    BY DEF RInv, IInv
  <2>2. LineOf(d) \in Line /\ State(d) \in Phone
    BY <2>1, ShapeFacts
  <2>3. q \in Seq(Messages)
    BY <1>2, <2>2, Places DEF LineOf
  <2>4. e \in Seq(Messages) /\ Elements(e) = {}
    BY <1>2, EmptySeq, ElementsFacts
  <2> QED
    BY <1>2, <2>3, <2>4, ConcatEmptySeq
<1>6. down'[d] = down[d] \o e
  BY <1>1, <1>2, <1>5
<1>7. \A c \in Devices : c # d => watch'[c] = watch[c] /\ WholeNews(c)
  <2>1. watch \in [Devices -> BOOLEAN]
    BY DEF RInv, IInv, Shape
  <2> QED
    BY <1>1, <2>1 DEF WholeNews
<1>8. Whole(e) /\ post'.whole
  BY <1>1, <1>5 DEF Whole, RInv
<1>9. \A m \in Elements(e) : m.type # "put" /\ Carried(m) = {}
  BY <1>5
<1> QED
  BY <1>1, <1>2, <1>4, <1>5, <1>6, <1>7, <1>8, <1>9, PushReads

(* x is q and then the answer a, maybe behind the news of the post n.      *)
Behind(x, q, a, n) ==
  \E e \in Seq(Messages) :
    x = q \o e /\ \A m \in Elements(e) : m = a \/ (m.type = "update" /\ m.node = n)

(* An answer that is sent, behind the news or not, comes that way.         *)
LEMMA NewsThen ==
  ASSUME NEW d, NEW q \in Seq(Messages), NEW a \in Messages, NEW n \in Node,
         NEW x, x = Append(q, a) \/ x = (q \o Told1(d, n)) \o <<a>>
  PROVE  Behind(x, q, a, n)
<1>1. PICK v : v = <<a>>
  OBVIOUS
<1>2. v \in Seq(Messages) /\ Elements(v) = {a}
  BY <1>1, One
<1>3. CASE x = Append(q, a)
  <2>1. x = q \o v
    BY <1>1, <1>3, AppendIsConcat
  <2> QED
    BY <1>2, <2>1 DEF Behind
<1>4. CASE x = (q \o Told1(d, n)) \o <<a>> /\ ~watch[d]
  <2>1. q \o << >> = q
    BY ConcatEmptySeq
  <2>2. x = q \o v
    BY <1>1, <1>4, <2>1 DEF Told1
  <2> QED
    BY <1>2, <2>2 DEF Behind
<1>5. CASE x = (q \o Told1(d, n)) \o <<a>> /\ watch[d]
  <2>1. PICK m, u : m = [type |-> "update", node |-> n] /\ u = <<m>>
    OBVIOUS
  <2>2. m \in Messages /\ m.type = "update" /\ m.node = n
    BY <2>1, NewsFacts
  <2>3. u \in Seq(Messages) /\ Elements(u) = {m}
    BY <2>1, <2>2, One
  <2>4. u \o v \in Seq(Messages) /\ Elements(u \o v) = Elements(u) \cup Elements(v)
    <3>1. u \in Seq(Messages) /\ v \in Seq(Messages)
      BY <1>2, <2>3
    <3> QED
      BY ONLY <3>1, ElementsConcat
  <2>5. q \o (u \o v) = (q \o u) \o v
    BY <1>2, <2>3, ConcatThree
  <2>6. x = q \o (u \o v)
    BY <1>1, <1>5, <2>1, <2>5 DEF Told1
  <2> QED
    BY <1>2, <2>2, <2>3, <2>4, <2>6 DEF Behind
<1> QED
  BY <1>3, <1>4, <1>5

(* A request is answered, and the others are told.                         *)
LEMMA ReplyReads ==
  ASSUME RInv, IInv', NEW d \in Devices, txn' = txn, queue' = queue, writes' = writes,
         cache' = cache, feed' = feed, held' = held, todo' = todo, online' = online,
         watch' = watch, online[d], outbox[d] # << >>, outbox' = [outbox EXCEPT ![d] = Tail(@)],
         NEW h, h = Head(outbox[d]), ~Speaks(h), NEW a \in Notices, Like(a, h), ~Asking(a),
         a.type = "reply", Truthful(State(d), a), NEW n \in Node, n.whole,
         down'[d] = Append(down[d], a) \/ down'[d] = (down[d] \o Told1(d, n)) \o <<a>>,
         \A c \in Devices : c # d => down'[c] = down[c] \/ down'[c] = down[c] \o Told1(c, n),
         post'.whole
  PROVE  RInv'
<1>1. PICK q, x : q = down[d] /\ x = down'[d]
  OBVIOUS
<1>2. q \in Seq(Messages) /\ a \in Messages
  <2>1. down[d] \in Seq(Notices)
    BY DEF RInv, IInv, Shape
  <2> QED
    BY <1>1, <2>1 DEF Messages
<1>3. Behind(x, q, a, n)
  <2>1. x = Append(q, a) \/ x = (q \o Told1(d, n)) \o <<a>>
    BY <1>1
  <2>2. d \in Devices /\ n \in Node
    OBVIOUS
  <2> QED
    BY ONLY <1>2, <2>1, <2>2, NewsThen
<1>4. PICK e \in Seq(Messages) :
        x = q \o e /\ \A m \in Elements(e) : m = a \/ (m.type = "update" /\ m.node = n)
  BY <1>3 DEF Behind
<1>5. ~Informs(h) /\ ~Fetches(h)
  BY DEF Informs, Fetches, Speaks, Asking
<1>6. Carried(h) = {} => \A m \in Elements(e) : Carried(m) = {}
  BY <1>4 DEF Like, Carried
<1>7. Whole(e)
  BY <1>4 DEF Whole
<1>8. \A m \in Elements(e) : m.type # "put" /\ (Carried(m) = {} \/ Truthful(State(d), m))
  <2>1. \A m : m.type = "update" => Carried(m) = {}
    BY DEF Carried
  <2> QED
    BY <1>4, <2>1
<1>9. \A c \in Devices : c # d => watch'[c] = watch[c] /\ WholeNews(c)
  BY DEF WholeNews
<1>10. down'[d] = down[d] \o e
  BY <1>1, <1>4
<1> QED
  BY <1>5, <1>6, <1>7, <1>8, <1>9, <1>10, PushReads

(* A put is refused.                                                       *)
LEMMA RefusePutReads ==
  ASSUME RInv, IInv', NEW d \in Devices, RefusePut(d)
  PROVE  RInv'
<1>1. /\ txn' = txn /\ queue' = queue /\ writes' = writes
      /\ cache' = cache /\ feed' = feed /\ held' = held /\ todo' = todo
      /\ online' = online /\ watch' = watch /\ post' = post
      /\ Next1(d, "put") /\ outbox' = [outbox EXCEPT ![d] = Tail(@)]
  BY DEF RefusePut, client
<1>2. PICK h, a : h = Head(outbox[d]) /\ a = Reply(h.batch, "datastale")
  OBVIOUS
<1>3. /\ online[d] /\ outbox[d] # << >> /\ outbox[d] \in Seq(Messages)
      /\ h \in Puts /\ h \in Messages /\ h.type = "put" /\ ~Speaks(h)
      /\ a \in Notices /\ Like(a, h) /\ ~Asking(a) /\ a.type = "reply"
      /\ a.status = "datastale" /\ a.what = h.batch /\ Result(a) = Result(h)
  BY <1>1, <1>2, PutAnswer DEF RInv
<1>4. down' = [down EXCEPT ![d] = Append(@, a)]
  BY <1>2 DEF RefusePut
<1>5. down \in [Devices -> Seq(Notices)] /\ post \in Node /\ post.whole
  BY DEF RInv, IInv, Shape
<1>6. down'[d] = Append(down[d], a) /\ \A c \in Devices : c # d => down'[c] = down[c]
  BY <1>4, <1>5
<1>7. Truthful(State(d), a)
  BY <1>3 DEF Truthful, Accepts
<1>8. post'.whole
  BY <1>1, <1>5
<1> QED
  BY <1>1, <1>2, <1>3, <1>5, <1>6, <1>7, <1>8, ReplyReads

(* A comment is stored.                                                    *)
LEMMA StoreCommentReads ==
  ASSUME RInv, IInv', NEW d \in Devices, StoreComment(d)
  PROVE  RInv'
<1>1. /\ txn' = txn /\ queue' = queue /\ writes' = writes
      /\ cache' = cache /\ feed' = feed /\ held' = held /\ todo' = todo
      /\ online' = online /\ watch' = watch /\ Next1(d, "set") /\ IInv
  BY DEF StoreComment, client, RInv
<1>2. PICK h, a, n :
        /\ h = Head(outbox[d]) /\ a = Reply(<<h.comment>>, "ok")
        /\ n = [post EXCEPT !.comments = @ \cup {h.comment}]
  OBVIOUS
<1>3. /\ online[d] /\ outbox[d] # << >> /\ ~Speaks(h) /\ h.comment \in Comments
      /\ a \in Notices /\ Like(a, h) /\ ~Asking(a) /\ ~Accepts(a)
  BY <1>1, <1>2, SetAnswer
<1>4. post \in Node /\ post.whole
  BY DEF RInv, IInv, Shape
<1>5. n \in Node /\ n.whole
  BY <1>2, <1>3, <1>4 DEF Node
<1>6. Publish(d, n, a)
  BY <1>2 DEF StoreComment
<1>7. /\ post' = n /\ outbox' = [outbox EXCEPT ![d] = Tail(@)]
      /\ down'[d] = (down[d] \o Told1(d, n)) \o <<a>>
      /\ \A c \in Devices : c # d => down'[c] = (down[c] \o Told1(c, n)) \o << >>
  BY <1>6 DEF Publish, Told1
<1>8. \A c \in Devices : c # d => down'[c] = down[c] \o Told1(c, n)
  BY <1>1, <1>5, <1>7, ToldEnd
<1>9. a.type = "reply"
  BY <1>2 DEF Reply
<1>10. Truthful(State(d), a)
  BY <1>3, <1>9 DEF Truthful
<1>11. post'.whole
  BY <1>5, <1>7
<1> QED
  BY <1>1, <1>2, <1>3, <1>5, <1>7, <1>8, <1>9, <1>10, <1>11, ReplyReads

(* A comment is refused.                                                   *)
LEMMA RefuseCommentReads ==
  ASSUME RInv, IInv', NEW d \in Devices, RefuseComment(d)
  PROVE  RInv'
<1>1. /\ txn' = txn /\ queue' = queue /\ writes' = writes
      /\ cache' = cache /\ feed' = feed /\ held' = held /\ todo' = todo
      /\ online' = online /\ watch' = watch /\ post' = post /\ Next1(d, "set") /\ IInv
      /\ outbox' = [outbox EXCEPT ![d] = Tail(@)]
  BY DEF RefuseComment, client, RInv
<1>2. PICK h, a : h = Head(outbox[d]) /\ a = Reply(<<h.comment>>, "denied")
  OBVIOUS
<1>3. /\ online[d] /\ outbox[d] # << >> /\ ~Speaks(h) /\ h.comment \in Comments
      /\ a \in Notices /\ Like(a, h) /\ ~Asking(a) /\ ~Accepts(a)
  BY <1>1, <1>2, SetAnswer
<1>4. down' = [down EXCEPT ![d] = Append(@, a)]
  BY <1>2 DEF RefuseComment
<1>5. down \in [Devices -> Seq(Notices)] /\ post \in Node /\ post.whole
  BY DEF RInv, IInv, Shape
<1>6. down'[d] = Append(down[d], a) /\ \A c \in Devices : c # d => down'[c] = down[c]
  BY <1>4, <1>5
<1>7. a.type = "reply"
  BY <1>2 DEF Reply
<1>8. Truthful(State(d), a)
  BY <1>3, <1>7 DEF Truthful
<1>9. post'.whole
  BY <1>1, <1>5
<1> QED
  BY <1>1, <1>2, <1>3, <1>5, <1>6, <1>7, <1>8, <1>9, ReplyReads

(* A put that is accepted asked for the post, which is whole, and so is    *)
(* what it leaves.                                                         *)
LEMMA AcceptPutReads ==
  ASSUME RInv, IInv', NEW d \in Devices, AcceptPut(d)
  PROVE  RInv'
<1>1. /\ txn' = txn /\ queue' = queue /\ writes' = writes
      /\ cache' = cache /\ feed' = feed /\ held' = held /\ todo' = todo
      /\ online' = online /\ watch' = watch /\ Next1(d, "put") /\ IInv
  BY DEF AcceptPut, client, RInv
<1>2. PICK h, a, n :
        h = Head(outbox[d]) /\ a = Reply(h.batch, "ok") /\ n = h.data
  OBVIOUS
<1>3. h.hash = post /\ Publish(d, n, a)
  BY <1>2 DEF AcceptPut
<1>4. /\ online[d] /\ outbox[d] # << >> /\ outbox[d] \in Seq(Messages)
      /\ h \in Puts /\ h \in Messages /\ h.type = "put" /\ ~Speaks(h)
      /\ a \in Notices /\ Like(a, h) /\ ~Asking(a) /\ a.type = "reply"
      /\ a.status = "ok" /\ a.what = h.batch /\ Result(a) = Result(h)
  BY <1>1, <1>2, PutAnswer
<1>5. Truthful(State(d), h)
  <2>1. PICK s, l, ap, w : s = State(d) /\ l = LineOf(d) /\ ap = applied /\ w = written
    OBVIOUS
  <2>2. /\ s \in Phone /\ l \in Line /\ Truths(s, Path(s, l)) /\ Asks(s, l) = outbox[d]
    BY <2>1, ReadingFacts
  <2>3. h \in Elements(outbox[d])
    BY <1>2, <1>4, ElementsTail
  <2>4. h \in Elements(Path(s, l))
    BY <2>2, <2>3, Places DEF Everywhere
  <2> QED
    BY <2>1, <2>2, <2>4 DEF Truths
<1>6. n \in Node /\ n.whole /\ \A t \in Carried(h) : Full(State(d), t)
  <2>1. n \in Node
    BY <1>2, <1>4 DEF Puts
  <2>2. h.hash.whole
    BY <1>3 DEF RInv
  <2> QED
    BY <1>2, <1>4, <1>5, <2>1, <2>2 DEF Truthful
<1>7. /\ post' = n /\ outbox' = [outbox EXCEPT ![d] = Tail(@)]
      /\ down'[d] = (down[d] \o Told1(d, n)) \o <<a>>
      /\ \A c \in Devices : c # d => down'[c] = (down[c] \o Told1(c, n)) \o << >>
  BY <1>3 DEF Publish, Told1
<1>8. \A c \in Devices : c # d => down'[c] = down[c] \o Told1(c, n)
  BY <1>1, <1>6, <1>7, ToldEnd
<1>9. Truthful(State(d), a)
  BY <1>4, <1>6 DEF Truthful, Like
<1>10. post'.whole
  BY <1>6, <1>7
<1> QED
  BY <1>1, <1>2, <1>4, <1>6, <1>7, <1>8, <1>9, <1>10, ReplyReads

-----------------------------------------------------------------------------
(* What the client is told.                                                *)

(* A message of the server but the feed is delivered: what it tells of the *)
(* post is whole, and what asks for the feed is still on its way.          *)
LEMMA DeliverReads ==
  ASSUME RInv, IInv', NEW d \in Devices, txn' = txn, queue' = queue, writes' = writes,
         feed' = feed, outbox' = outbox, online' = online, watch' = watch, post' = post,
         Free(d), down[d] # << >>, NEW m, m = Head(down[d]), m.type \in {"value", "update"},
         ~Fetches(m), down' = [down EXCEPT ![d] = Tail(@)],
         \/ held'[d] = held[d] /\ todo'[d] = << >>
         \/ held'[d] = << >> /\ todo'[d] = held[d],
         \A e \in Devices : e # d => held'[e] = held[e] /\ todo'[e] = todo[e],
         cache' = [cache EXCEPT ![d] = IF Informs(m) /\ Watched(d) THEN m.node ELSE @]
  PROVE  RInv'
<1>1. PICK s, l, r, k, ap, w, on :
        /\ s = State(d) /\ l = LineOf(d) /\ r = State(d)' /\ k = LineOf(d)'
        /\ ap = applied /\ w = written /\ on = online[d]
  OBVIOUS
<1>2. /\ s \in Phone /\ l \in Line /\ Awaits(d, s, l, on) /\ s.puts = << >>
      /\ s.txn = txn /\ s.cache = cache[d] /\ s.feed = feed[d]
      /\ l.ob = outbox[d] /\ l.dn = down[d] /\ l.hd = held[d] /\ l.td = todo[d]
  BY <1>1, ReadingFacts
<1>3. /\ r \in Phone /\ k \in Line /\ r.txn = txn' /\ r.cache = cache'[d]
      /\ r.feed = feed'[d] /\ k.ob = outbox'[d]
      /\ k.dn = down'[d] /\ k.hd = held'[d] /\ k.td = todo'[d]
  BY <1>1, NextFacts
<1>4. r.puts = s.puts
  BY <1>1 DEF State
<1>5. /\ down'[d] = Tail(down[d]) /\ \A e \in Devices : e # d => down'[e] = down[e]
      /\ cache'[d] = (IF Informs(m) /\ Watched(d) THEN m.node ELSE cache[d])
      /\ \A e \in Devices : e # d => cache'[e] = cache[e]
  <2>1. /\ down \in [Devices -> Seq(Notices)] /\ cache \in [Devices -> Node]
        /\ d \in Devices
    BY DEF RInv, IInv, Shape
  <2> QED
    BY <2>1
<1>6. l.td = << >> /\ l.dn # << >> /\ Delivered(l, k) /\ m = Head(l.dn) /\ k.dn = Tail(l.dn)
  BY <1>2, <1>3, <1>5 DEF Delivered, Free
<1>7. /\ Road(s, l) # << >> /\ Head(Road(s, l)) = Head(l.dn)
      /\ Road(r, k) = Tail(Road(s, l)) /\ Asks(r, k) = Asks(s, l)
      /\ Follows(Path(r, k), Path(s, l))
      /\ Elements(Road(r, k)) \subseteq Elements(Road(s, l))
      /\ Elements(k.hd) \subseteq Elements(l.hd) /\ Elements(k.td) \subseteq Elements(l.hd)
  BY <1>2, <1>3, <1>4, <1>6, DeliveredPath
<1>8. on /\ m.node.whole /\ Whole(k.dn)
  <2>1. PICK q \in Seq(Notices) : q = l.dn
    BY <1>2 DEF Line
  <2>2. Elements(q) = Elements(Tail(q)) \cup {Head(q)}
    BY <1>6, <2>1, ElementsTail
  <2>3. Whole(q) /\ (~on => q = << >>)
    BY <1>2, <2>1 DEF Awaits
  <2> QED
    BY <1>6, <2>1, <2>2, <2>3 DEF Whole
<1>9. r.cache = s.cache \/ r.cache.whole
  BY <1>2, <1>3, <1>5, <1>8
<1>10. UnderWay(r.txn, d) # {} => r.cache.whole \/ Led(Road(r, k))
  <2> SUFFICES ASSUME UnderWay(r.txn, d) # {}
               PROVE  r.cache.whole \/ Led(Road(r, k))
    OBVIOUS
  <2>1. UnderWay(txn, d) # {} /\ (s.cache.whole \/ Led(Road(s, l)))
    BY <1>2, <1>3, <1>8 DEF Awaits
  <2>2. CASE Informs(m)
    BY <1>3, <1>5, <1>8, <2>1, <2>2 DEF Watched
  <2>3. CASE s.cache.whole
    BY <1>9, <2>3
  <2>4. CASE ~Informs(m) /\ Led(Road(s, l))
    <3>1. PICK q : q = Road(s, l)
      OBVIOUS
    <3>2. q \in Seq(Messages) /\ q # << >> /\ Led(q) /\ ~Informs(Head(q))
      BY <1>2, <1>6, <1>7, <2>4, <3>1, Places
    <3>3. Led(Tail(q))
      BY ONLY <3>2, LedTail
    <3> QED
      BY <1>7, <3>1, <3>3
  <2> QED
    BY <2>1, <2>2, <2>3, <2>4
<1>11. r.feed = "sent" => \E x \in Elements(Road(r, k)) : Fetches(x)
  <2> SUFFICES ASSUME r.feed = "sent"
               PROVE  \E x \in Elements(Road(r, k)) : Fetches(x)
    OBVIOUS
  <2>1. PICK x \in Elements(Road(s, l)) : Fetches(x)
    BY <1>2, <1>3, <1>8 DEF Awaits
  <2>2. PICK q : q = Road(s, l)
    OBVIOUS
  <2>3. q \in Seq(Messages) /\ q # << >>
    BY <1>2, <1>7, <2>2, Places
  <2>4. Elements(q) = Elements(Tail(q)) \cup {Head(q)}
    BY ONLY <2>3, ElementsTail
  <2> QED
    BY <1>6, <1>7, <2>1, <2>2, <2>4
<1>12. Awaits(d, r, k, on)
  <2>1. r.feed = "answered" => r.cache.whole
    BY <1>2, <1>3, <1>9 DEF Awaits
  <2>2. Late(s.cache, l.hd)
    BY <1>2 DEF Awaits
  <2>3. Late(r.cache, k.hd) /\ Late(r.cache, k.td)
    BY <1>7, <1>9, <2>2 DEF Late
  <2> QED
    BY <1>8, <1>10, <1>11, <2>1, <2>3 DEF Awaits
<1>13. \A x \in Elements(Path(r, k)) : x \in Elements(Path(s, l))
  <2>1. /\ Elements(Path(r, k)) = Everywhere(r, k) /\ Elements(Path(s, l)) = Everywhere(s, l)
        /\ Elements(Road(r, k)) = Elements(k.dn) \cup Elements(Asks(r, k))
        /\ Elements(Road(s, l)) = Elements(l.dn) \cup Elements(Asks(s, l))
    BY <1>2, <1>3, Places
  <2> QED
    BY <1>7, <2>1 DEF Everywhere
<1>14. Awaits(d, r, k, online'[d]) /\ (~online'[d] => ~watch'[d]) /\ post'.whole
  <2>1. Reading(d) /\ post.whole
    BY DEF RInv
  <2> QED
    BY <1>1, <1>12, <2>1 DEF Reading
<1>15. Aside(d)
  BY <1>5 DEF Aside, WholeNews
<1>16. cache'[d] = cache[d] \/ cache'[d].whole
  BY <1>2, <1>3, <1>9
<1> QED
  BY <1>1, <1>13, <1>14, <1>15, <1>16, QuietReads

(* The post has changed at the server.                                     *)
LEMMA DeliverUpdateReads ==
  ASSUME RInv, IInv', NEW d \in Devices, DeliverUpdate(d)
  PROVE  RInv'
<1>1. /\ txn' = txn /\ queue' = queue /\ writes' = writes
      /\ feed' = feed /\ outbox' = outbox /\ online' = online /\ watch' = watch
      /\ post' = post /\ held' = held /\ todo' = todo
      /\ Free(d) /\ down[d] # << >> /\ down' = [down EXCEPT ![d] = Tail(@)]
  BY DEF DeliverUpdate, Received, Take
<1>2. PICK m : m = Head(down[d])
  OBVIOUS
<1>3. m.type = "update" /\ Learn(d, m.node)
  BY <1>2 DEF DeliverUpdate, Received
<1>4. Informs(m) /\ ~Fetches(m)
  BY <1>3 DEF Informs, Fetches, Asking
<1>5. cache' = [cache EXCEPT ![d] = IF Informs(m) /\ Watched(d) THEN m.node ELSE @]
  BY <1>3, <1>4 DEF Learn
<1>6. /\ held'[d] = held[d] /\ todo'[d] = << >>
      /\ \A e \in Devices : e # d => held'[e] = held[e] /\ todo'[e] = todo[e]
  BY <1>1 DEF Free
<1>7. m.type \in {"value", "update"}
  BY <1>3
<1> QED
  BY <1>1, <1>2, <1>4, <1>5, <1>6, <1>7, DeliverReads

(* A listen is answered.                                                   *)
LEMMA DeliverValueReads ==
  ASSUME RInv, IInv', NEW d \in Devices, DeliverValue(d)
  PROVE  RInv'
<1>1. /\ txn' = txn /\ queue' = queue /\ writes' = writes
      /\ feed' = feed /\ outbox' = outbox /\ online' = online /\ watch' = watch
      /\ post' = post /\ Acknowledge(d)
      /\ Free(d) /\ down[d] # << >> /\ down' = [down EXCEPT ![d] = Tail(@)]
  BY DEF DeliverValue, Received, Take
<1>2. PICK m : m = Head(down[d])
  OBVIOUS
<1>3. /\ m.type = "value" /\ m.what # "feed"
      /\ IF m.what \in {"other", "restored"} THEN cache' = cache ELSE Learn(d, m.node)
  BY <1>2 DEF DeliverValue, Received
<1>4. (Informs(m) <=> m.what \notin {"other", "restored"}) /\ ~Fetches(m)
  BY <1>3 DEF Informs, Fetches, Asking
<1>5. cache' = [cache EXCEPT ![d] = IF Informs(m) /\ Watched(d) THEN m.node ELSE @]
  <2>1. cache \in [Devices -> Node]
    BY DEF RInv, IInv, Shape
  <2>2. CASE m.what \in {"other", "restored"}
    BY <1>3, <1>4, <2>1, <2>2
  <2>3. CASE m.what \notin {"other", "restored"}
    BY <1>3, <1>4, <2>3 DEF Learn
  <2> QED
    BY <2>2, <2>3
<1>6. /\ \/ held'[d] = held[d] /\ todo'[d] = << >>
         \/ held'[d] = << >> /\ todo'[d] = held[d]
      /\ \A e \in Devices : e # d => held'[e] = held[e] /\ todo'[e] = todo[e]
  <2>1. Shape
    BY DEF RInv, IInv
  <2>2. \/ held'[d] = held[d] /\ todo'[d] = << >>
        \/ held'[d] = << >> /\ todo'[d] = held[d]
    BY <1>1, <2>1, Released
  <2>3. /\ held \in [Devices -> Seq(Answers)] /\ todo \in [Devices -> Seq(Answers)]
    BY <2>1 DEF Shape
  <2>4. \A e \in Devices : e # d => held'[e] = held[e] /\ todo'[e] = todo[e]
    BY <1>1, <2>3 DEF Acknowledge
  <2> QED
    BY <2>2, <2>4
<1>7. m.type \in {"value", "update"}
  BY <1>3
<1> QED
  BY <1>1, <1>2, <1>4, <1>5, <1>6, <1>7, DeliverReads

(* An answer is kept back: if it is about a transaction, the post is known *)
(* by now, or the connection was lost.                                     *)
LEMMA HoldReplyReads ==
  ASSUME RInv, IInv', NEW d \in Devices, HoldReply(d)
  PROVE  RInv'
<1>1. /\ txn' = txn /\ queue' = queue /\ writes' = writes /\ cache' = cache
      /\ feed' = feed /\ outbox' = outbox /\ online' = online
      /\ watch' = watch /\ post' = post /\ todo' = todo /\ Free(d)
      /\ down[d] # << >> /\ down' = [down EXCEPT ![d] = Tail(@)]
  BY DEF HoldReply, Received, Take, client
<1>2. PICK s, l, r, k, ap, w, on, m :
        /\ s = State(d) /\ l = LineOf(d) /\ r = State(d)' /\ k = LineOf(d)'
        /\ ap = applied /\ w = written /\ on = online[d] /\ m = Head(down[d])
  OBVIOUS
<1>3. /\ s \in Phone /\ l \in Line /\ Sound(d, s, l, ap, w) /\ Awaits(d, s, l, on)
      /\ s.txn = txn /\ s.cache = cache[d] /\ s.feed = feed[d] /\ s.puts = << >>
      /\ l.ob = outbox[d] /\ l.dn = down[d] /\ l.hd = held[d] /\ l.td = todo[d]
  BY <1>2, ReadingFacts
<1>4. /\ r \in Phone /\ k \in Line /\ r.txn = txn' /\ r.cache = cache'[d]
      /\ r.feed = feed'[d] /\ k.ob = outbox'[d]
      /\ k.dn = down'[d] /\ k.hd = held'[d] /\ k.td = todo'[d]
  BY <1>2, NextFacts
<1>5. m.type = "reply" /\ held' = [held EXCEPT ![d] = Append(@, m)] /\ r.puts = s.puts
  BY <1>2 DEF HoldReply, Received, State
<1>6. /\ down'[d] = Tail(down[d]) /\ held'[d] = Append(held[d], m)
      /\ \A e \in Devices : e # d => down'[e] = down[e] /\ held'[e] = held[e]
  <2>1. /\ down \in [Devices -> Seq(Notices)] /\ held \in [Devices -> Seq(Answers)]
        /\ d \in Devices
    BY DEF RInv, IInv, Shape
  <2> QED
    BY <1>1, <1>5, <2>1
<1>7. m \in Answers /\ m \in Messages
  <2>1. PICK q \in Seq(Notices) : q = l.dn
    BY <1>3 DEF Line
  <2>2. m \in Notices
    BY <1>1, <1>2, <1>3, <2>1, ElementsTail
  <2> QED
    BY <1>5, <2>2 DEF Notices, Messages
<1>8. PICK j : j = [l EXCEPT !.dn = Tail(@)]
  OBVIOUS
<1>9. j \in Line /\ Took(m, l, j) /\ j.ob = l.ob /\ j.dn = Tail(l.dn) /\ j.hd = l.hd
      /\ j.td = l.td
  <2>1. PICK q \in Seq(Notices) : q = l.dn
    BY <1>3 DEF Line
  <2>2. Tail(q) \in Seq(Notices)
    BY <1>1, <1>3, <2>1, ElementsTail
  <2>3. j \in Line /\ j.ob = l.ob /\ j.dn = Tail(l.dn) /\ j.hd = l.hd /\ j.td = l.td
    BY <1>3, <1>8, <2>1, <2>2 DEF Line
  <2> QED
    BY <1>1, <1>2, <1>3, <2>3 DEF Took, Free
<1>10. /\ Awaits(d, s, j, on)
       /\ Carried(m) # {} => m.status = "disconnect" \/ s.cache.whole
  BY <1>3, <1>7, <1>9, TookAwaits
<1>11. Asks(r, k) = Asks(s, l) /\ Asks(s, j) = Asks(s, l) /\ k.dn = j.dn /\ k.td = j.td
  BY <1>1, <1>3, <1>4, <1>5, <1>6, <1>9 DEF Asks
<1>12. Road(r, k) = Road(s, j)
  BY <1>11 DEF Road
<1>13. Elements(k.hd) = Elements(l.hd) \cup {m}
  <2>1. PICK h : h = l.hd
    OBVIOUS
  <2>2. h \in Seq(Messages)
    BY <1>3, <2>1, Places
  <2>3. Elements(Append(h, m)) = Elements(h) \cup {m}
    BY <1>7, <2>2, ElementsAppend
  <2> QED
    BY <1>3, <1>4, <1>6, <2>1, <2>3
<1>14. Awaits(d, r, k, on)
  <2>1. r.cache = s.cache /\ r.feed = s.feed /\ r.txn = s.txn
    BY <1>1, <1>3, <1>4
  <2>2. Late(s.cache, l.hd) /\ Late(s.cache, k.td)
    BY <1>9, <1>10, <1>11 DEF Awaits
  <2>3. Late(r.cache, k.hd) /\ Late(r.cache, k.td)
    BY <1>10, <1>13, <2>1, <2>2 DEF Late
  <2> QED
    BY <1>10, <1>11, <1>12, <2>1, <2>3 DEF Awaits
<1>15. \A x \in Elements(Path(r, k)) : x \in Elements(Path(s, l))
  <2>1. Elements(Path(r, k)) = Everywhere(r, k) /\ Elements(Path(s, l)) = Everywhere(s, l)
    BY <1>3, <1>4, Places
  <2>2. Elements(k.dn) \cup {m} = Elements(l.dn)
    <3>1. PICK q \in Seq(Notices) : q = l.dn
      BY <1>3 DEF Line
    <3>2. Elements(q) = Elements(Tail(q)) \cup {Head(q)}
      BY <1>1, <1>3, <3>1, ElementsTail
    <3> QED
      BY <1>2, <1>3, <1>9, <1>11, <3>1, <3>2
  <2>3. k.td = l.td
    BY <1>9, <1>11
  <2> QED
    BY <1>11, <1>13, <2>1, <2>2, <2>3 DEF Everywhere
<1>16. Awaits(d, r, k, online'[d]) /\ (~online'[d] => ~watch'[d]) /\ post'.whole
  <2>1. Reading(d) /\ post.whole
    BY DEF RInv
  <2> QED
    BY <1>1, <1>2, <1>14, <2>1 DEF Reading
<1>17. Aside(d)
  BY <1>1, <1>6 DEF Aside, WholeNews
<1> QED
  BY <1>1, <1>2, <1>15, <1>16, <1>17, QuietReads

-----------------------------------------------------------------------------
(* Every step.                                                             *)

(* The invariant holds in the beginning.                                   *)
LEMMA InitRInv == Init => RInv
<1> SUFFICES ASSUME Init PROVE RInv
  OBVIOUS
<1>1. IInv /\ post.whole
  BY InitIInv DEF Init
<1>2. ASSUME NEW d \in Devices
      PROVE  Reading(d)
  <2>1. PICK s, l, on : s = State(d) /\ l = LineOf(d) /\ on = online[d]
    OBVIOUS
  <2>2. /\ s.queue = << >> /\ s.writes = << >> /\ s.txn = << >> /\ s.puts = << >>
        /\ s.feed = "idle" /\ on = TRUE
        /\ l.ob = << >> /\ l.dn = << >> /\ l.hd = << >> /\ l.td = << >>
    BY <2>1 DEF Init, State, LineOf
  <2>3. Elements(<< >>) = {} /\ Len(<< >>) = 0 /\ << >> \o << >> = << >>
    BY ElementsFacts, EmptySeq, ConcatEmptySeq
  <2>4. Asks(s, l) = << >> /\ Road(s, l) = << >> /\ Path(s, l) = << >>
    BY <2>2, <2>3 DEF Asks, Road, Path
  <2>5. UnderWay(s.txn, d) = {} /\ Outstanding(s) = {}
    BY <2>2, <2>3 DEF UnderWay, Outstanding
  <2>6. \A x, y : ~After(<< >>, x, y)
    BY AfterEmpty
  <2>7. Seen(d, s)
    BY <2>2, <2>3, <2>5, <2>6
       DEF Seen, Tidy, Blind, Even, Together, Overridden, Mature, Tried, Distinct
  <2>8. Truths(s, Path(s, l))
    BY <2>3, <2>4 DEF Truths
  <2>9. Awaits(d, s, l, on)
    BY <2>2, <2>3, <2>5 DEF Awaits, Late, Whole
  <2> QED
    BY <2>1, <2>2, <2>7, <2>8, <2>9 DEF Reading, Reads
<1> QED
  BY <1>1, <1>2 DEF RInv

(* A step that changes nothing keeps the invariant.                        *)
LEMMA StutterReads ==
  ASSUME RInv, IInv', UNCHANGED vars
  PROVE  RInv'
<1>1. /\ post' = post /\ watch' = watch /\ cache' = cache /\ queue' = queue
      /\ writes' = writes /\ txn' = txn /\ feed' = feed /\ online' = online
      /\ outbox' = outbox /\ down' = down /\ unanswered' = unanswered /\ held' = held
      /\ todo' = todo
  BY DEF vars, client, network, bounds, history
<1>2. ASSUME NEW d \in Devices
      PROVE  Reading(d)'
  <2>1. State(d)' = State(d) /\ LineOf(d)' = LineOf(d)
    BY <1>1 DEF State, LineOf
  <2>2. Reading(d)
    BY DEF RInv
  <2> QED
    BY <1>1, <2>1, <2>2 DEF Reading
<1> QED
  BY <1>1, <1>2 DEF RInv

(* Every step keeps the invariant.                                         *)
LEMMA NextRInv == RInv /\ [Next]_vars => RInv'
<1> SUFFICES ASSUME RInv, [Next]_vars PROVE RInv'
  OBVIOUS
<1>1. IInv'
  BY NextIInv DEF RInv
<1>2. CASE UNCHANGED vars
  BY <1>1, <1>2, StutterReads
<1>3. ASSUME NEW d \in Devices, App(d)
      PROVE  RInv'
  BY <1>1, <1>3, StartReads, SetCommentReads, ReadFeedReads, ListenElsewhereReads DEF App
<1>4. ASSUME NEW d \in Devices, Server(d)
      PROVE  RInv'
  BY <1>1, <1>4, AnswerListenReads, AnswerUnlistenReads, AcceptPutReads, RefusePutReads,
     StoreCommentReads DEF Server
<1>5. ASSUME NEW d \in Devices, Client(d)
      PROVE  RInv'
  <2>1. CASE DeliverUpdate(d) \/ DeliverValue(d) \/ DeliverFeed(d) \/ EndRead(d)
    BY <1>1, <2>1, DeliverUpdateReads, DeliverValueReads, DeliverFeedReads, EndReadReads
  <2>2. CASE HoldReply(d) \/ HandleSet(d) \/ HandlePut(d)
    BY <1>1, <2>2, HoldReplyReads, HandleSetReads, HandlePutReads
  <2> QED
    BY <1>5, <2>1, <2>2 DEF Client
<1>6. ASSUME NEW d \in Devices, Connect(d) \/ Disconnect(d) \/ RefuseComment(d)
      PROVE  RInv'
  BY <1>1, <1>6, ConnectReads, DisconnectReads, RefuseCommentReads
<1> QED
  BY <1>2, <1>3, <1>4, <1>5, <1>6 DEF Next

(* What phones have seen, what they compute from it and what is on its way *)
(* agree on the post being whole, in every reachable state.                *)
THEOREM Knows == Spec => []RInv
<1>1. Init => RInv
  BY InitRInv
<1>2. RInv /\ [Next]_vars => RInv'
  BY NextRInv
<1> QED
  BY <1>1, <1>2, PTL DEF Spec

(* What a read of the feed shows is whole, if every transaction of the     *)
(* phone was refused twice and none was dropped.                           *)
LEMMA ShownWhole ==
  ASSUME RInv, NEW d \in Devices, Received(d, "value"), Head(down[d]).what = "feed",
         \A t \in UnderWay(txn, d) : ~(txn[t].retries < 2 \/ txn[t].sets > 1)
  PROVE  Shown(d).whole
<1>1. PICK s, l, ap, w, n :
        /\ s = State(d) /\ l = LineOf(d) /\ ap = applied /\ w = written
        /\ n = Head(down[d]).node
  OBVIOUS
<1>2. /\ s \in Phone /\ l \in Line /\ Sound(d, s, l, ap, w) /\ Seen(d, s)
      /\ Awaits(d, s, l, online[d]) /\ s.txn = txn /\ l.dn = down[d]
  BY <1>1, ReadingFacts
<1>3. n \in Node /\ n.whole
  <2>1. PICK q \in Seq(Notices) : q = l.dn
    BY <1>2 DEF Line
  <2>2. q # << >> /\ Head(q).type = "value" /\ n = Head(q).node
    BY <1>1, <1>2, <2>1 DEF Received
  <2>3. Head(q) \in Notices /\ Head(q) \in Elements(q)
    BY <2>1, <2>2, ElementsTail
  <2>4. Whole(q)
    BY <1>2, <2>1 DEF Awaits
  <2> QED
    BY <2>2, <2>3, <2>4 DEF Whole, Notices, Answers
<1>4. PICK r : r = [s EXCEPT !.cache = n]
  OBVIOUS
<1>5. /\ r \in Phone /\ r.cache = n /\ r.writes = s.writes /\ r.txn = s.txn
      /\ r.queue = s.queue
  BY <1>2, <1>3, <1>4 DEF Phone
<1>6. /\ Elements(s.writes) \ Comments = UnderWay(s.txn, d)
      /\ Elements(s.writes) \ Comments \subseteq 1..Len(s.txn)
      /\ \A t \in 1..Len(s.txn) : s.txn[t].retries \in Nat /\ s.txn[t].sets \in Nat
  BY <1>2, WritesAre
<1>7. \A t \in UnderWay(s.txn, d) : s.txn[t].retries >= 2 /\ ~(s.txn[t].sets >= 2)
  <2>1. ASSUME NEW t \in UnderWay(s.txn, d)
        PROVE  s.txn[t].retries >= 2 /\ ~(s.txn[t].sets >= 2)
    <3>1. s.txn[t].retries \in Nat /\ s.txn[t].sets \in Nat
      BY <1>6
    <3>2. ~(s.txn[t].retries < 2 \/ s.txn[t].sets > 1)
      BY <1>2
    <3> QED
      BY <3>1, <3>2
  <2> QED
    BY <2>1
<1>8. UnderWay(s.txn, d) \subseteq Elements(s.queue) /\ Left(d, s) = {}
  BY <1>2, <1>7 DEF Seen, Overridden, Left
<1>9. \A t \in UnderWay(s.txn, d) : Full(s, t)
  BY <1>2, <1>7, <1>8 DEF Seen, Mature
<1>10. \A t \in Elements(r.writes) \ Comments : Full(r, t)
  BY <1>5, <1>6, <1>9 DEF Full
<1>11. Distinct(r.writes)
  BY <1>2, <1>5 DEF Seen, Tidy
<1>12. Latest(r, {}).whole
  BY <1>3, <1>5, <1>6, <1>10, <1>11, WholeAll
<1> QED
  BY <1>1, <1>4, <1>12 DEF Shown

(* A read of the feed never shows a post without its fields, however       *)
(* attempts, comments, lost connections and restored listens interleave,   *)
(* unless a transaction of the phone has yet to be refused or was dropped. *)
THEOREM ReadHolds == Spec => []ReadIsWhole
<1>1. RInv => ReadIsWhole
  BY ShownWhole DEF ReadIsWhole
<1> QED
  BY <1>1, Knows, PTL
=============================================================================
