--------------------------- MODULE PostCountProofs ---------------------------
(***************************************************************************)
(* Proofs about what the transactions of the client make of the post in    *)
(* the database: the counter is the number of accepted transactions, and   *)
(* no transaction takes a comment away.                                    *)
(***************************************************************************)
EXTENDS PostSyncProofs

-----------------------------------------------------------------------------
(* Lemmas about order in sequences.                                        *)

(* y comes after x in q.                                                   *)
After(q, x, y) == \E i, j \in 1..Len(q) : i < j /\ q[i] = x /\ q[j] = y

Distinct(q) == \A i, j \in 1..Len(q) : q[i] = q[j] => i = j

Final(q) == q[Len(q)]

(* What comes after what is in the sequence.                               *)
LEMMA AfterIn ==
  ASSUME NEW q, NEW x, NEW y, After(q, x, y)
  PROVE  x \in Elements(q) /\ y \in Elements(q)
BY DEF After, Elements

(* Where the elements of a concatenation come from.                        *)
LEMMA ConcatPlaces ==
  ASSUME NEW S, NEW q \in Seq(S), NEW u \in Seq(S), NEW a, a = q \o u
  PROVE  /\ a \in Seq(S) /\ Len(q) \in Nat /\ Len(u) \in Nat /\ Len(a) = Len(q) + Len(u)
         /\ \A i \in 1..Len(q) : i \in 1..Len(a) /\ a[i] = q[i]
         /\ \A i \in 1..Len(u) : Len(q) + i \in 1..Len(a) /\ a[Len(q) + i] = u[i]
         /\ \A i \in 1..Len(a) : i \in 1..Len(q) \/ i - Len(q) \in 1..Len(u)
<1>1. Len(q) \in Nat /\ Len(u) \in Nat
  OBVIOUS
<1>2. a \in Seq(S) /\ Len(a) = Len(q) + Len(u)
  OBVIOUS
<1>3. \A i \in 1..(Len(q) + Len(u)) : a[i] = IF i <= Len(q) THEN q[i] ELSE u[i - Len(q)]
  OBVIOUS
<1>4. ASSUME NEW i \in 1..Len(q)
      PROVE  i \in 1..Len(a) /\ a[i] = q[i]
  BY <1>1, <1>2, <1>3
<1>5. ASSUME NEW i \in 1..Len(u)
      PROVE  Len(q) + i \in 1..Len(a) /\ a[Len(q) + i] = u[i]
  <2>1. Len(q) + i \in 1..(Len(q) + Len(u)) /\ ~(Len(q) + i <= Len(q)) /\ Len(q) + i - Len(q) = i
    BY <1>1
  <2> QED
    BY <1>2, <1>3, <2>1
<1>6. \A i \in 1..Len(a) : i \in 1..Len(q) \/ i - Len(q) \in 1..Len(u)
  BY <1>1, <1>2
<1> QED
  BY <1>1, <1>2, <1>4, <1>5, <1>6

(* The order in a concatenation, with one more element, without the first. *)
LEMMA AfterConcat ==
  ASSUME NEW S, NEW q \in Seq(S), NEW u \in Seq(S), NEW x, NEW y
  PROVE  After(q \o u, x, y) <=>
           After(q, x, y) \/ After(u, x, y) \/ (x \in Elements(q) /\ y \in Elements(u))
<1> DEFINE a == q \o u
<1>1. /\ a \in Seq(S) /\ Len(q) \in Nat /\ Len(u) \in Nat /\ Len(a) = Len(q) + Len(u)
      /\ \A i \in 1..Len(q) : i \in 1..Len(a) /\ a[i] = q[i]
      /\ \A i \in 1..Len(u) : Len(q) + i \in 1..Len(a) /\ a[Len(q) + i] = u[i]
      /\ \A i \in 1..Len(a) : i \in 1..Len(q) \/ i - Len(q) \in 1..Len(u)
  BY ConcatPlaces
<1> HIDE DEF a
<1>2. ASSUME After(q, x, y)
      PROVE  After(a, x, y)
  BY <1>1, <1>2 DEF After
<1>3. ASSUME After(u, x, y)
      PROVE  After(a, x, y)
  <2>1. PICK i, j \in 1..Len(u) : i < j /\ u[i] = x /\ u[j] = y
    BY <1>3 DEF After
  <2>2. Len(q) + i < Len(q) + j
    BY <1>1, <2>1
  <2> QED
    BY <1>1, <2>1, <2>2 DEF After
<1>4. ASSUME x \in Elements(q), y \in Elements(u)
      PROVE  After(a, x, y)
  <2>1. PICK i \in 1..Len(q), j \in 1..Len(u) : q[i] = x /\ u[j] = y
    BY <1>4 DEF Elements
  <2>2. i < Len(q) + j
    BY <1>1, <2>1
  <2> QED
    BY <1>1, <2>1, <2>2 DEF After
<1>5. ASSUME After(a, x, y)
      PROVE  After(q, x, y) \/ After(u, x, y) \/ (x \in Elements(q) /\ y \in Elements(u))
  <2>1. PICK i, j \in 1..Len(a) : i < j /\ a[i] = x /\ a[j] = y
    BY <1>5 DEF After
  <2>2. CASE i \in 1..Len(q) /\ j \in 1..Len(q)
    BY <1>1, <2>1, <2>2 DEF After
  <2>3. CASE i \in 1..Len(q) /\ j - Len(q) \in 1..Len(u)
    <3>1. PICK k \in 1..Len(u) : j = Len(q) + k
      BY <1>1, <2>3
    <3> QED
      BY <1>1, <2>1, <2>3, <3>1 DEF Elements
  <2>4. CASE i - Len(q) \in 1..Len(u) /\ j - Len(q) \in 1..Len(u)
    <3>1. PICK k \in 1..Len(u) : i = Len(q) + k
      BY <1>1, <2>4
    <3>2. PICK n \in 1..Len(u) : j = Len(q) + n
      BY <1>1, <2>4
    <3>3. k < n
      BY <1>1, <2>1, <3>1, <3>2
    <3> QED
      BY <1>1, <2>1, <3>1, <3>2, <3>3 DEF After
  <2>5. ~(i - Len(q) \in 1..Len(u) /\ j \in 1..Len(q))
    BY <1>1, <2>1
  <2> QED
    BY <1>1, <2>2, <2>3, <2>4, <2>5
<1> QED
  BY <1>2, <1>3, <1>4, <1>5 DEF a

(* The order with one more element.                                        *)
LEMMA AfterAppend ==
  ASSUME NEW S, NEW q \in Seq(S), NEW e \in S, NEW x, NEW y
  PROVE  After(Append(q, e), x, y) <=> After(q, x, y) \/ (x \in Elements(q) /\ y = e)
<1> DEFINE a == Append(q, e)
<1>1. /\ Len(q) \in Nat /\ Len(a) = Len(q) + 1
      /\ \A n \in 1..Len(q) : a[n] = q[n]
      /\ a[Len(q) + 1] = e
  BY AppendFacts
<1> HIDE DEF a
<1>2. ASSUME After(q, x, y)
      PROVE  After(a, x, y)
  <2>1. PICK i, j \in 1..Len(q) : i < j /\ q[i] = x /\ q[j] = y
    BY <1>2 DEF After
  <2>2. i \in 1..Len(a) /\ j \in 1..Len(a)
    BY <1>1
  <2> QED
    BY <1>1, <2>1, <2>2 DEF After
<1>3. ASSUME x \in Elements(q), y = e
      PROVE  After(a, x, y)
  <2>1. PICK i \in 1..Len(q) : q[i] = x
    BY <1>3 DEF Elements
  <2>2. i \in 1..Len(a) /\ Len(q) + 1 \in 1..Len(a) /\ i < Len(q) + 1
    BY <1>1
  <2> QED
    BY <1>1, <1>3, <2>1, <2>2 DEF After
<1>4. ASSUME After(a, x, y)
      PROVE  After(q, x, y) \/ (x \in Elements(q) /\ y = e)
  <2>1. PICK i, j \in 1..Len(a) : i < j /\ a[i] = x /\ a[j] = y
    BY <1>4 DEF After
  <2>2. i \in 1..Len(q) /\ (j \in 1..Len(q) \/ j = Len(q) + 1)
    BY <1>1, <2>1
  <2> QED
    BY <1>1, <2>1, <2>2 DEF After, Elements
<1> QED
  BY <1>2, <1>3, <1>4 DEF a

(* The order without the first element, which comes before all others.     *)
LEMMA AfterTail ==
  ASSUME NEW S, NEW q \in Seq(S), q # << >>
  PROVE  /\ \A x, y : After(Tail(q), x, y) => After(q, x, y)
         /\ \A y \in Elements(Tail(q)) : After(q, Head(q), y)
<1> DEFINE a == Tail(q)
<1>1. /\ Len(q) \in Nat \ {0} /\ Len(a) = Len(q) - 1
      /\ \A n \in 1..Len(a) : n + 1 \in 1..Len(q) /\ a[n] = q[n + 1]
      /\ Head(q) = q[1] /\ 1 \in 1..Len(q)
  BY TailFacts
<1> HIDE DEF a
<1>2. ASSUME NEW x, NEW y, After(a, x, y)
      PROVE  After(q, x, y)
  <2>1. PICK i, j \in 1..Len(a) : i < j /\ a[i] = x /\ a[j] = y
    BY <1>2 DEF After
  <2>2. i + 1 < j + 1
    BY <2>1
  <2> QED
    BY <1>1, <2>1, <2>2 DEF After
<1>3. ASSUME NEW y \in Elements(a)
      PROVE  After(q, Head(q), y)
  <2>1. PICK j \in 1..Len(a) : a[j] = y
    BY DEF Elements
  <2>2. 1 < j + 1
    BY <2>1
  <2> QED
    BY <1>1, <2>1, <2>2 DEF After
<1> QED
  BY <1>2, <1>3 DEF a

(* Nothing comes after anything among fewer than two.                      *)
LEMMA AfterEmpty ==
  /\ \A x, y : ~After(<< >>, x, y)
  /\ \A e, x, y : ~After(<<e>>, x, y)
BY DEF After

(* Only and Without keep the order.                                        *)
LEMMA AfterOnly ==
  ASSUME NEW S, NEW q \in Seq(S), NEW keep, NEW x, NEW y
  PROVE  After(Only(q, keep), x, y) <=> After(q, x, y) /\ x \in keep /\ y \in keep
<1> DEFINE r == Only(q, keep)
<1>1. PICK f : Selects(r, q, keep, f)
  BY OnlyFacts
<1>2. r \in Seq(S) /\ Len(r) \in Nat /\ Len(q) \in Nat
  BY OnlyFacts
<1> HIDE DEF r
<1>3. ASSUME After(r, x, y)
      PROVE  After(q, x, y) /\ x \in keep /\ y \in keep
  <2>1. PICK i, j \in 1..Len(r) : i < j /\ r[i] = x /\ r[j] = y
    BY <1>3 DEF After
  <2>2. f[i] \in 1..Len(q) /\ f[j] \in 1..Len(q) /\ f[i] < f[j]
    BY <1>1, <2>1 DEF Selects
  <2>3. q[f[i]] = x /\ q[f[j]] = y /\ x \in keep /\ y \in keep
    BY <1>1, <2>1 DEF Selects
  <2> QED
    BY <2>2, <2>3 DEF After
<1>4. ASSUME After(q, x, y), x \in keep, y \in keep
      PROVE  After(r, x, y)
  <2>1. PICK i, j \in 1..Len(q) : i < j /\ q[i] = x /\ q[j] = y
    BY <1>4 DEF After
  <2>2. PICK k, n \in 1..Len(r) : f[k] = i /\ f[n] = j
    BY <1>1, <1>4, <2>1 DEF Selects
  <2>3. r[k] = x /\ r[n] = y
    BY <1>1, <2>1, <2>2 DEF Selects
  <2>4. k \in Nat /\ n \in Nat
    OBVIOUS
  <2>5. ~(n < k) /\ n # k
    <3>1. n < k => f[n] < f[k]
      BY <1>1 DEF Selects
    <3>2. i \in Nat /\ j \in Nat
      OBVIOUS
    <3> QED
      BY <2>1, <2>2, <3>1, <3>2
  <2>6. k < n
    BY <2>4, <2>5
  <2> QED
    BY <2>3, <2>6 DEF After
<1> QED
  BY <1>3, <1>4 DEF r

(* The order among the elements that are not taken out.                    *)
LEMMA AfterWithout ==
  ASSUME NEW S, NEW q \in Seq(S), NEW gone, NEW x, NEW y
  PROVE  After(Without(q, gone), x, y) <=> After(q, x, y) /\ x \notin gone /\ y \notin gone
<1>1. After(Without(q, gone), x, y) <=>
        After(q, x, y) /\ x \in Elements(q) \ gone /\ y \in Elements(q) \ gone
  BY AfterOnly DEF Without
<1> QED
  BY <1>1, AfterIn

(* What a choice of elements is when it is all of them, and the same for   *)
(* choices that agree.                                                     *)
LEMMA OnlyAll ==
  ASSUME NEW S, NEW q \in Seq(S), NEW keep, Elements(q) \subseteq keep
  PROVE  Only(q, keep) = q
<1> DEFINE at == {i \in 1..Len(q) : q[i] \in keep}
           below(i) == {j \in at : j <= i}
           rank(i) == Cardinality(below(i))
<1>1. Len(q) \in Nat /\ at = 1..Len(q)
  BY DEF Elements
<1>0. Only(q, keep) = [k \in 1..Cardinality(at) |-> q[CHOOSE i \in at : rank(i) = k]]
  BY DEF Only
<1> HIDE DEF at
<1>2. \A i \in 1..Len(q) : rank(i) = i
  <2> TAKE i \in 1..Len(q)
  <2>1. below(i) = 1..i
    BY <1>1
  <2> HIDE DEF below
  <2>2. Cardinality(1..i) = i
    <3>1. Cardinality(1..i) = IF 1 > i THEN 0 ELSE i - 1 + 1
      BY FS_Interval
    <3>2. i - 1 + 1 = i /\ ~(1 > i)
      OBVIOUS
    <3> QED
      BY <3>1, <3>2
  <2> QED
    BY <2>1, <2>2
<1>3. Cardinality(at) = Len(q)
  <2>1. Cardinality(1..Len(q)) = IF 1 > Len(q) THEN 0 ELSE Len(q) - 1 + 1
    BY SMTT(30), <1>1, FS_Interval
  <2>2. Len(q) - 1 + 1 = Len(q) /\ (1 > Len(q) => Len(q) = 0)
    BY <1>1
  <2> QED
    BY <1>1, <2>1, <2>2
<1> HIDE DEF rank
<1>5. \A k \in 1..Len(q) : (CHOOSE i \in at : rank(i) = k) = k
  BY <1>1, <1>2
<1>6. Only(q, keep) = [k \in 1..Len(q) |-> q[k]]
  BY <1>0, <1>3, <1>5
<1> QED
  BY <1>6

(* Choices that agree on the elements choose the same.                     *)
LEMMA OnlySame ==
  ASSUME NEW S, NEW q \in Seq(S), NEW a, NEW b,
         \A x \in Elements(q) : x \in a <=> x \in b
  PROVE  Only(q, a) = Only(q, b)
<1> DEFINE at(x) == {i \in 1..Len(q) : q[i] \in x}
           pick(p) == [k \in 1..Cardinality(p) |->
                         q[CHOOSE i \in p : Cardinality({j \in p : j <= i}) = k]]
<1>1. at(a) = at(b)
  BY DEF Elements
<1>2. Only(q, a) = pick(at(a)) /\ Only(q, b) = pick(at(b))
  BY DEF Only
<1> HIDE DEF at, pick
<1> QED
  BY <1>1, <1>2

(* The elements of a sequence that are all different.                      *)
LEMMA DistinctOnly ==
  ASSUME NEW S, NEW q \in Seq(S), Distinct(q), NEW keep
  PROVE  Distinct(Only(q, keep))
<1> DEFINE r == Only(q, keep)
<1>1. PICK f : Selects(r, q, keep, f)
  BY OnlyFacts
<1>2. r \in Seq(S) /\ Len(r) \in Nat
  BY OnlyFacts
<1> HIDE DEF r
<1>3. ASSUME NEW i \in 1..Len(r), NEW j \in 1..Len(r), r[i] = r[j], i < j
      PROVE  FALSE
  <2>1. f[i] \in 1..Len(q) /\ f[j] \in 1..Len(q) /\ f[i] < f[j]
    BY <1>1, <1>3 DEF Selects
  <2>2. q[f[i]] = q[f[j]]
    BY <1>1, <1>3 DEF Selects
  <2>3. f[i] = f[j]
    BY <2>1, <2>2 DEF Distinct
  <2> QED
    BY <2>1, <2>3
<1>4. \A i, j \in 1..Len(r) : i < j \/ j < i \/ i = j
  OBVIOUS
<1>5. Distinct(r)
  BY <1>3, <1>4 DEF Distinct
<1> QED
  BY <1>5 DEF r

(* They stay different when a new one is added.                            *)
LEMMA DistinctAppend ==
  ASSUME NEW S, NEW q \in Seq(S), Distinct(q), NEW e \in S, e \notin Elements(q)
  PROVE  Distinct(Append(q, e))
<1> DEFINE a == Append(q, e)
<1>1. /\ Len(q) \in Nat /\ Len(a) = Len(q) + 1
      /\ \A n \in 1..Len(q) : a[n] = q[n]
      /\ a[Len(q) + 1] = e
  BY AppendFacts
<1> HIDE DEF a
<1>2. \A n \in 1..Len(a) : n \in 1..Len(q) \/ n = Len(q) + 1
  BY <1>1
<1>3. \A n \in 1..Len(q) : q[n] # e
  BY DEF Elements
<1>4. Distinct(a)
  BY <1>1, <1>2, <1>3 DEF Distinct
<1> QED
  BY <1>4 DEF a

(* There are as many of them as the sequence is long.                      *)
LEMMA DistinctSize ==
  ASSUME NEW S, NEW q \in Seq(S), Distinct(q)
  PROVE  IsFiniteSet(Elements(q)) /\ Cardinality(Elements(q)) = Len(q) /\ Len(q) \in Nat
<1> DEFINE f == [i \in 1..Len(q) |-> q[i]]
           at == 1..Len(q)
<1>1. Len(q) \in Nat
  OBVIOUS
<1>2. IsFiniteSet(at) /\ Cardinality(at) = Len(q)
  <2>1. IsFiniteSet(1..Len(q)) /\ Cardinality(1..Len(q)) = IF 1 > Len(q) THEN 0 ELSE Len(q) - 1 + 1
    BY SMTT(30), <1>1, FS_Interval
  <2> QED
    BY <1>1, <2>1
<1>3. f \in Surjection(at, Elements(q))
  <2>1. f \in [at -> Elements(q)]
    BY DEF Elements
  <2>2. \A e \in Elements(q) : \E i \in at : f[i] = e
    BY DEF Elements
  <2> QED
    BY <2>1, <2>2 DEF Surjection
<1>4. f \in Injection(at, Elements(q))
  <2>1. \A i, j \in at : f[i] = f[j] => i = j
    BY DEF Distinct
  <2> QED
    BY <1>3, <2>1 DEF Injection, IsInjective, Surjection
<1>5. f \in Bijection(at, Elements(q))
  BY <1>3, <1>4 DEF Bijection
<1> HIDE DEF f, at
<1>6. IsFiniteSet(Elements(q)) /\ Cardinality(Elements(q)) = Cardinality(at)
  BY <1>2, <1>5, FS_Bijection DEF ExistsBijection
<1> QED
  BY <1>1, <1>2, <1>6

(* The last element, if it is wanted, is the last one that is.             *)
LEMMA FinalOnly ==
  ASSUME NEW S, NEW q \in Seq(S), q # << >>, NEW keep, Final(q) \in keep
  PROVE  Only(q, keep) # << >> /\ Final(Only(q, keep)) = Final(q)
<1> DEFINE r == Only(q, keep)
<1>1. PICK f : Selects(r, q, keep, f)
  BY OnlyFacts
<1>2. r \in Seq(S) /\ Len(r) \in Nat /\ Len(q) \in Nat \ {0} /\ Len(q) \in 1..Len(q)
  BY OnlyFacts
<1> HIDE DEF r
<1>3. PICK k \in 1..Len(r) : f[k] = Len(q)
  BY <1>1, <1>2 DEF Selects, Final
<1>4. k = Len(r)
  <2> SUFFICES ASSUME k < Len(r)
               PROVE  FALSE
    BY <1>2
  <2>1. f[k] < f[Len(r)] /\ f[Len(r)] \in 1..Len(q)
    BY <1>1, <1>2 DEF Selects
  <2> QED
    BY <1>2, <1>3, <2>1
<1>5. r[k] = q[Len(q)] /\ Len(r) # 0
  BY <1>1, <1>3 DEF Selects
<1> QED
  BY <1>2, <1>4, <1>5 DEF r, Final

(* The last element is the one added last.                                 *)
LEMMA FinalAppend ==
  ASSUME NEW S, NEW q \in Seq(S), NEW e \in S
  PROVE  Final(Append(q, e)) = e
BY AppendFacts DEF Final

(* The last element is an element.                                         *)
LEMMA FinalIn ==
  ASSUME NEW S, NEW q \in Seq(S), q # << >>
  PROVE  Final(q) \in Elements(q) /\ Final(q) \in S
<1>1. Len(q) \in 1..Len(q)
  OBVIOUS
<1> QED
  BY <1>1, ElementOfSeq DEF Final, Elements

-----------------------------------------------------------------------------
(* The inductive invariant.                                                *)

Messages == Requests \cup Notices

(* The comments that a message is about; the transaction whose result is   *)
(* the new post, in a put or its answer.                                   *)
Mentioned(m) ==
  IF m.type = "set" THEN {m.comment}
  ELSE IF m.type = "reply" THEN Elements(m.what) \cap Comments
  ELSE {}

Result(m) == Final(Content(m))

(* The requests of a phone and the messages for it, and before them the    *)
(* answers kept back and those being handled: the order of handling.       *)
Road(s, l) == l.dn \o Asks(s, l)

Path(s, l) == l.td \o (l.hd \o Road(s, l))

(* What a phone has pending besides transactions, and what waits.          *)
Remarks(s) == Elements(s.writes) \cap Comments

Running(s) == {t \in Elements(s.queue) : s.txn[t].status = "run"}

Touches(m, s) == Carried(m) \cap Elements(s.queue) # {}

With(n, cs) == [n EXCEPT !.comments = @ \cup cs]

(* A transaction's result has the comments that were pending before it.    *)
Known(s) ==
  \A x, y : After(s.writes, x, y) /\ x \in Comments /\ y \notin Comments =>
    x \in s.txn[y].out.comments

(* Nothing but comments and waiting transactions was written on top of     *)
(* what is outstanding in the queue.                                       *)
OnTop(s, p) ==
  \A m \in Elements(p) : Touches(m, s) =>
    \A y : After(s.writes, Result(m), y) => y \in Comments \cup Running(s)

(* A comment that is answered before a put is in the put's post.           *)
Ahead(s, p) ==
  \A x, y : After(p, x, y) /\ Carried(y) # {} =>
    Mentioned(x) \cap Remarks(s) \subseteq s.txn[Result(y)].out.comments

Mentions(p, w) == \A m \in Elements(p) : Mentioned(m) \subseteq w

(* A put adds as many votes as it has transactions to what it replaces.    *)
Computed(s, p) ==
  \A m \in Elements(p) : m.type = "put" =>
    /\ m.data = Plus(m.hash, Len(m.batch)) /\ m.data = s.txn[Result(m)].out
    /\ Distinct(m.batch)

Ordered(s, p, w) == OnTop(s, p) /\ Ahead(s, p) /\ Mentions(p, w) /\ Computed(s, p)

(* The first listen for a transaction is answered before its put.          *)
Asking(m) == m.type \in {"listen", "value"}

Opens(m) == Asking(m) /\ m.what \in {"post", "restored"}

Early(p) == \A x, y : After(p, x, y) /\ Carried(x) # {} => ~Opens(y)

(* The feed is asked for once, by a phone that reads it.                   *)
Fetches(m) == Asking(m) /\ m.what = "feed"

Fetched(f, p) ==
  /\ \A m \in Elements(p) : Fetches(m) => f = "sent"
  /\ \A x, y : After(p, x, y) => ~(Fetches(x) /\ Fetches(y))

Straight(f, p) == Early(p) /\ Fetched(f, p)

(* What waits was computed from the result of what is outstanding, which   *)
(* is all that is under way; nothing will keep its answer back.            *)
Rests(d, s, l) ==
  /\ UnderWay(s.txn, d) \subseteq Elements(s.queue) /\ s.feed = "idle"
  /\ \A m \in Elements(Road(s, l)) : Asking(m) => Opens(m)
  /\ \A m \in Elements(l.hd) : Carried(m) = {}
  /\ \A m \in Elements(l.td) : Carried(m) # {} => m.status = "disconnect"
  /\ \A y : After(s.writes, Final(s.queue), y) => y \in Comments
  /\ \A m \in Elements(Path(s, l)) : Touches(m, s) =>
       s.txn[Final(s.queue)].out
         = Plus(With(s.txn[Result(m)].out, Remarks(s)), Cardinality(Running(s)))

Patient(d, s, l) == Running(s) # {} /\ Outstanding(s) # {} => Rests(d, s, l)

(* What a phone, or the server, makes of the post by the messages before   *)
(* the j-th: the last of them that tells, or what it was.                  *)
Speaks(m) ==
  m.type \in {"update", "unlisten"} \/ (Asking(m) /\ m.what \notin {"other", "restored"})

Word(m) ==
  IF m.type = "listen" THEN TRUE ELSE IF m.type = "unlisten" THEN FALSE ELSE m.node

Hears(q, j, a, v) ==
  \/ a = v /\ \A i \in 1..(j - 1) : ~Speaks(q[i])
  \/ \E i \in 1..(j - 1) :
       Speaks(q[i]) /\ Word(q[i]) = v /\ \A k \in (i + 1)..(j - 1) : ~Speaks(q[k])

(* Before the answer of an accepted put a phone learns its result.         *)
Accepts(m) == m.type = "reply" /\ m.status = "ok" /\ Carried(m) # {}

Heard(s, q) ==
  \A j \in 1..Len(q) : Accepts(q[j]) => Hears(q, j, s.cache, s.txn[Result(q[j])].out)

Steady(s, l, w) ==
  /\ Distinct(s.queue) /\ Known(s) /\ Ordered(s, Path(s, l), w)
  /\ Straight(s.feed, Road(s, l)) /\ Heard(s, l.dn)

Paced(d, s, l, w) == Steady(s, l, w) /\ Patient(d, s, l)

(* A phone watches the post when one of its puts is processed.             *)
Wired(x, f, on, w, q, dn) ==
  IF on
  THEN /\ \A j \in 1..Len(q) : q[j].type = "put" => Hears(q, j, w, TRUE)
       /\ x # {} \/ f # "idle" => Hears(q, Len(q) + 1, w, TRUE)
  ELSE dn = << >> /\ ~w /\ \A m \in Elements(q) : ~Speaks(m)

WiredOf(d) == Wired(UnderWay(txn, d), feed[d], online[d], watch[d], outbox[d], down[d])

PacedOf(d) == Paced(d, State(d), LineOf(d), written) /\ WiredOf(d)

Counted == post.ups = Cardinality(applied) /\ \A d \in Devices : PacedOf(d)

CInv == IInv /\ (crowded \/ Counted)

-----------------------------------------------------------------------------
(* Lemmas about messages.                                                  *)

(* A message that is about nothing, and one that is about the same.        *)
Idle(m) == Carried(m) = {} /\ Mentioned(m) = {} /\ m.type # "put"

Like(a, x) ==
  /\ Carried(a) = Carried(x) /\ (Carried(a) # {} => Content(a) = Content(x))
  /\ Mentioned(a) \subseteq Mentioned(x)
  /\ a.type = "put" => a = x

(* q is about no more than p, in the same order.                           *)
Follows(q, p) ==
  /\ \A a \in Elements(q) : Idle(a) \/ \E x \in Elements(p) : Like(a, x)
  /\ \A a, b : After(q, a, b) =>
       \/ Idle(a) \/ Idle(b)
       \/ \E x, y : After(p, x, y) /\ Like(a, x) /\ Like(b, y)

(* A sequence follows itself.                                              *)
LEMMA FollowsRefl == \A q : Follows(q, q)
<1>1. \A a : Like(a, a)
  BY DEF Like
<1> QED
  BY <1>1 DEF Follows

(* What follows a sequence that follows another, follows that one.         *)
LEMMA FollowsTrans ==
  ASSUME NEW q, NEW p, NEW r, Follows(q, p), Follows(p, r)
  PROVE  Follows(q, r)
<1>1. \A a, x : Like(a, x) /\ Idle(x) => Idle(a)
  BY DEF Like, Idle
<1>2. \A a, x, y : Like(a, x) /\ Like(x, y) => Like(a, y)
  BY DEF Like
<1>3. \A a \in Elements(q) : Idle(a) \/ \E x \in Elements(r) : Like(a, x)
  BY <1>1, <1>2 DEF Follows
<1>4. ASSUME NEW a, NEW b, After(q, a, b), ~Idle(a), ~Idle(b)
      PROVE  \E x, y : After(r, x, y) /\ Like(a, x) /\ Like(b, y)
  <2>1. PICK x, y : After(p, x, y) /\ Like(a, x) /\ Like(b, y)
    BY <1>4 DEF Follows
  <2>2. ~Idle(x) /\ ~Idle(y)
    BY <1>1, <1>4, <2>1
  <2>3. PICK v, w : After(r, v, w) /\ Like(x, v) /\ Like(y, w)
    BY <2>1, <2>2 DEF Follows
  <2> QED
    BY <1>2, <2>1, <2>3
<1> QED
  BY <1>3, <1>4 DEF Follows

(* Sequences that follow others follow them in a concatenation.            *)
LEMMA FollowsConcat ==
  ASSUME NEW S, NEW q \in Seq(S), NEW u \in Seq(S), NEW p \in Seq(S), NEW v \in Seq(S),
         Follows(q, p), Follows(u, v)
  PROVE  Follows(q \o u, p \o v)
<1>1. Elements(q \o u) = Elements(q) \cup Elements(u)
  BY ElementsConcat
<1>2. Elements(p \o v) = Elements(p) \cup Elements(v)
  BY ElementsConcat
<1>3. \A x, y : After(q \o u, x, y) <=>
        After(q, x, y) \/ After(u, x, y) \/ (x \in Elements(q) /\ y \in Elements(u))
  BY AfterConcat
<1>4. \A x, y : After(p \o v, x, y) <=>
        After(p, x, y) \/ After(v, x, y) \/ (x \in Elements(p) /\ y \in Elements(v))
  BY AfterConcat
<1>5. \A a \in Elements(q \o u) : Idle(a) \/ \E x \in Elements(p \o v) : Like(a, x)
  BY <1>1, <1>2 DEF Follows
<1>6. ASSUME NEW a, NEW b, After(q \o u, a, b), ~Idle(a), ~Idle(b)
      PROVE  \E x, y : After(p \o v, x, y) /\ Like(a, x) /\ Like(b, y)
  <2>1. CASE After(q, a, b)
    BY <1>4, <1>6, <2>1 DEF Follows
  <2>2. CASE After(u, a, b)
    BY <1>4, <1>6, <2>2 DEF Follows
  <2>3. CASE a \in Elements(q) /\ b \in Elements(u)
    BY <1>4, <1>6, <2>3 DEF Follows
  <2> QED
    BY <1>3, <1>6, <2>1, <2>2, <2>3
<1> QED
  BY <1>5, <1>6 DEF Follows

(* What is left without the first message follows the whole.               *)
LEMMA FollowsTail ==
  ASSUME NEW S, NEW q \in Seq(S), q # << >>
  PROVE  Follows(Tail(q), q)
<1>1. \A a : Like(a, a)
  BY DEF Like
<1>2. Elements(Tail(q)) \subseteq Elements(q)
  BY ElementsTail
<1>3. \A x, y : After(Tail(q), x, y) => After(q, x, y)
  BY AfterTail
<1> QED
  BY <1>1, <1>2, <1>3 DEF Follows

(* Messages without content follow anything.                               *)
LEMMA FollowsEmpty ==
  ASSUME NEW S, NEW q \in Seq(S), \A m \in Elements(q) : Idle(m)
  PROVE  \A p : Follows(q, p)
BY AfterIn DEF Follows

(* A message follows one that it is like.                                  *)
LEMMA FollowsOne ==
  ASSUME NEW a, NEW x, Like(a, x)
  PROVE  Follows(<<a>>, <<x>>)
<1>1. Elements(<<a>>) = {a} /\ Elements(<<x>>) = {x}
  BY ElementsFacts
<1>2. \A y, z : ~After(<<a>>, y, z)
  BY AfterEmpty
<1> QED
  BY <1>1, <1>2 DEF Follows

(* Messages about nothing may be added at either end.                      *)
LEMMA FollowsMore ==
  ASSUME NEW S, NEW q \in Seq(S), NEW u \in Seq(S), \A m \in Elements(u) : Idle(m)
  PROVE  Follows(q \o u, q) /\ Follows(u \o q, q)
<1>1. Follows(q, q) /\ Follows(u, << >>) /\ << >> \in Seq(S)
  BY FollowsRefl, FollowsEmpty
<1>2. Follows(q \o u, q \o << >>)
  BY <1>1, FollowsConcat
<1>3. Follows(u \o q, << >> \o q)
  BY <1>1, FollowsConcat
<1>4. q \o << >> = q /\ << >> \o q = q
  OBVIOUS
<1> QED
  BY <1>2, <1>3, <1>4

(* Concatenations of sequences of messages.                                *)
LEMMA Concats ==
  ASSUME NEW S, NEW q \in Seq(S), NEW u \in Seq(S), NEW v \in Seq(S), NEW e \in S
  PROVE  /\ (q \o u) \o v = q \o (u \o v) /\ q \o u \in Seq(S) /\ u \o v \in Seq(S)
         /\ q \o (u \o v) \in Seq(S)
         /\ q \o << >> = q /\ << >> \o q = q
         /\ q \o <<e>> = Append(q, e) /\ <<e>> \in Seq(S) /\ << >> \in Seq(S)
         /\ Append(q \o u, e) = q \o Append(u, e)
<1>1. q \o u \in Seq(S) /\ u \o v \in Seq(S) /\ q \o (u \o v) \in Seq(S)
  OBVIOUS
<1>2. (q \o u) \o v = q \o (u \o v)
  OBVIOUS
<1>3. q \o << >> = q /\ << >> \o q = q
  OBVIOUS
<1>4. q \o <<e>> = Append(q, e) /\ <<e>> \in Seq(S) /\ << >> \in Seq(S)
  OBVIOUS
<1>5. Append(q \o u, e) = q \o Append(u, e)
  <2>1. q \o Append(u, e) = Append(q \o u, e)
    BY ConcatAppend
  <2> QED
    BY <2>1
<1> QED
  BY <1>1, <1>2, <1>3, <1>4, <1>5

-----------------------------------------------------------------------------
(* Lemmas about the post that a phone computes with.                       *)

(* The fields of a post, with more comments or another counter.            *)
LEMMA NodeFields ==
  ASSUME NEW n \in Node
  PROVE  /\ n.whole \in BOOLEAN /\ n.ups \in Int /\ n.comments \in SUBSET Comments
         /\ \A bs : With(n, bs)
              = [whole |-> n.whole, ups |-> n.ups, comments |-> n.comments \cup bs]
         /\ \A k : Plus(n, k)
              = [whole |-> n.whole, ups |-> n.ups + k, comments |-> n.comments]
         /\ n = [whole |-> n.whole, ups |-> n.ups, comments |-> n.comments]
         /\ \A bs \in SUBSET Comments : With(n, bs) \in Node
         /\ \A k \in Int : Plus(n, k) \in Node
BY DEF Node, With, Plus

(* Comments and upvotes are added to a post in any order.                  *)
LEMMA WithPlus ==
  ASSUME NEW n \in Node, NEW cs \in SUBSET Comments
  PROVE  /\ With(n, cs) \in Node /\ With(n, cs).comments = n.comments \cup cs
         /\ \A k \in Int : Plus(n, k) \in Node /\ Plus(n, k).comments = n.comments
         /\ \A k \in Int : Plus(n, k).ups = n.ups + k
         /\ \A k, j \in Int : Plus(Plus(n, k), j) = Plus(n, k + j)
         /\ \A k \in Int : With(Plus(n, k), cs) = Plus(With(n, cs), k)
         /\ \A bs \in SUBSET Comments : With(With(n, bs), cs) = With(n, bs \cup cs)
         /\ cs \subseteq n.comments => With(n, cs) = n
<1>1. /\ n.whole \in BOOLEAN /\ n.ups \in Int /\ n.comments \in SUBSET Comments
      /\ n = [whole |-> n.whole, ups |-> n.ups, comments |-> n.comments]
      /\ With(n, cs) \in Node
  BY NodeFields
<1>2. /\ With(n, cs) = [whole |-> n.whole, ups |-> n.ups, comments |-> n.comments \cup cs]
      /\ With(n, cs).whole = n.whole /\ With(n, cs).ups = n.ups
      /\ With(n, cs).comments = n.comments \cup cs
  <2>1. With(n, cs) = [whole |-> n.whole, ups |-> n.ups, comments |-> n.comments \cup cs]
    BY NodeFields
  <2> QED
    BY <2>1
<1>3. ASSUME NEW k \in Int
      PROVE  /\ Plus(n, k) = [whole |-> n.whole, ups |-> n.ups + k, comments |-> n.comments]
             /\ Plus(n, k) \in Node /\ Plus(n, k).whole = n.whole
             /\ Plus(n, k).ups = n.ups + k /\ Plus(n, k).comments = n.comments
  <2>1. /\ Plus(n, k) = [whole |-> n.whole, ups |-> n.ups + k, comments |-> n.comments]
        /\ Plus(n, k) \in Node
    BY NodeFields
  <2> QED
    BY <2>1
<1>4. ASSUME NEW k \in Int, NEW j \in Int
      PROVE  Plus(Plus(n, k), j) = Plus(n, k + j)
  <2>1. PICK m \in Node : m = Plus(n, k)
    BY <1>3
  <2>2. Plus(m, j) = [whole |-> m.whole, ups |-> m.ups + j, comments |-> m.comments]
    BY NodeFields
  <2>3. m.whole = n.whole /\ m.ups = n.ups + k /\ m.comments = n.comments
    BY <1>3, <2>1
  <2>4. n.ups + k + j = n.ups + (k + j) /\ k + j \in Int
    BY <1>1
  <2>5. Plus(n, k + j) = [whole |-> n.whole, ups |-> n.ups + (k + j), comments |-> n.comments]
    BY <2>4, NodeFields
  <2> QED
    BY <2>1, <2>2, <2>3, <2>4, <2>5
<1>5. ASSUME NEW k \in Int
      PROVE  With(Plus(n, k), cs) = Plus(With(n, cs), k)
  <2>1. PICK m \in Node : m = Plus(n, k)
    BY <1>3
  <2>2. PICK w \in Node : w = With(n, cs)
    BY <1>1
  <2>3. With(m, cs) = [whole |-> m.whole, ups |-> m.ups, comments |-> m.comments \cup cs]
    BY NodeFields
  <2>4. Plus(w, k) = [whole |-> w.whole, ups |-> w.ups + k, comments |-> w.comments]
    BY NodeFields
  <2> QED
    BY <1>2, <1>3, <2>1, <2>2, <2>3, <2>4
<1>6. ASSUME NEW bs \in SUBSET Comments
      PROVE  With(With(n, bs), cs) = With(n, bs \cup cs)
  <2>1. PICK m \in Node : m = With(n, bs)
    BY NodeFields
  <2>2. With(m, cs) = [whole |-> m.whole, ups |-> m.ups, comments |-> m.comments \cup cs]
    BY NodeFields
  <2>3. m = [whole |-> n.whole, ups |-> n.ups, comments |-> n.comments \cup bs]
    BY <2>1, NodeFields
  <2>4. m.whole = n.whole /\ m.ups = n.ups /\ m.comments = n.comments \cup bs
    BY <2>3
  <2>5. (n.comments \cup bs) \cup cs = n.comments \cup (bs \cup cs)
    OBVIOUS
  <2>6. With(n, bs \cup cs)
          = [whole |-> n.whole, ups |-> n.ups, comments |-> n.comments \cup (bs \cup cs)]
    BY NodeFields
  <2> QED
    BY <2>1, <2>2, <2>4, <2>5, <2>6
<1>7. cs \subseteq n.comments => With(n, cs) = n
  <2>1. cs \subseteq n.comments => n.comments \cup cs = n.comments
    OBVIOUS
  <2> QED
    BY <1>1, <1>2, <2>1
<1>8. \A k \in Int : Plus(n, k) \in Node /\ Plus(n, k).comments = n.comments
  BY <1>3
<1>9. \A k \in Int : Plus(n, k).ups = n.ups + k
  BY <1>3
<1>10. \A k, j \in Int : Plus(Plus(n, k), j) = Plus(n, k + j)
  BY <1>4
<1>11. \A k \in Int : With(Plus(n, k), cs) = Plus(With(n, cs), k)
  BY <1>5
<1>12. \A bs \in SUBSET Comments : With(With(n, bs), cs) = With(n, bs \cup cs)
  BY <1>6
<1> QED
  BY <1>1, <1>2, <1>7, <1>8, <1>9, <1>10, <1>11, <1>12

(* What is added behind and not wanted makes no difference.                *)
LEMMA OnlyFront ==
  ASSUME NEW S, NEW q \in Seq(S), NEW u \in Seq(S), NEW keep,
         Elements(u) \cap keep = {}
  PROVE  Only(q \o u, keep) = Only(q, keep)
<1> DEFINE a == q \o u
           at(s) == {i \in 1..Len(s) : s[i] \in keep}
           rank(p, i) == Cardinality({j \in p : j <= i})
           place(p, k) == CHOOSE i \in p : rank(p, i) = k
<1>1. /\ a \in Seq(S) /\ Len(q) \in Nat /\ Len(u) \in Nat /\ Len(a) = Len(q) + Len(u)
      /\ \A i \in 1..Len(q) : i \in 1..Len(a) /\ a[i] = q[i]
      /\ \A i \in 1..Len(u) : Len(q) + i \in 1..Len(a) /\ a[Len(q) + i] = u[i]
      /\ \A i \in 1..Len(a) : i \in 1..Len(q) \/ i - Len(q) \in 1..Len(u)
  BY ConcatPlaces
<1>2. at(a) = at(q)
  <2>1. ASSUME NEW i \in at(a)
        PROVE  i \in at(q)
    <3>1. i \in 1..Len(a) /\ a[i] \in keep
      OBVIOUS
    <3>2. CASE i \in 1..Len(q)
      BY <1>1, <3>1, <3>2
    <3>3. CASE i - Len(q) \in 1..Len(u)
      <4>1. i = Len(q) + (i - Len(q))
        BY <1>1, <3>1
      <4>2. a[i] = u[i - Len(q)] /\ u[i - Len(q)] \in Elements(u)
        BY <1>1, <3>3, <4>1 DEF Elements
      <4> QED
        BY <3>1, <4>2
    <3> QED
      BY <1>1, <3>1, <3>2, <3>3
  <2>2. at(q) \subseteq at(a)
    BY <1>1
  <2> QED
    BY <2>1, <2>2
<1>3. /\ Only(a, keep) = [k \in 1..Cardinality(at(a)) |-> a[place(at(a), k)]]
      /\ Only(q, keep) = [k \in 1..Cardinality(at(q)) |-> q[place(at(q), k)]]
  BY DEF Only
<1>4. at(q) \in SUBSET (1..Len(q))
  OBVIOUS
<1>5. \A k \in 1..Cardinality(at(q)) : place(at(q), k) \in at(q)
  <2> DEFINE p == at(q)
  <2>1. \A k \in 1..Cardinality(p) : \E i \in p : rank(p, i) = k
    BY <1>1, <1>4, Ranks
  <2>2. ASSUME NEW k \in 1..Cardinality(p)
        PROVE  place(p, k) \in p
    <3>1. \E i \in p : rank(p, i) = k
      BY <2>1
    <3> HIDE DEF p, rank
    <3> QED
      BY <3>1
  <2> QED
    BY <2>2
<1> HIDE DEF place, a
<1>6. \A k \in 1..Cardinality(at(q)) : a[place(at(q), k)] = q[place(at(q), k)]
  BY <1>1, <1>4, <1>5
<1> HIDE DEF at
<1> QED
  BY <1>2, <1>3, <1>6 DEF a

(* A transaction's result, over what is known, with all pending comments.  *)
LEMMA LatestFacts ==
  ASSUME NEW s \in Phone, Elements(s.writes) \ Comments \subseteq 1..Len(s.txn),
         Known(s), NEW x, x \cap Comments = {}, NEW ws, ws = Without(s.writes, x)
  PROVE  /\ Remarks(s) \subseteq Latest(s, x).comments
         /\ Elements(ws) \subseteq Comments => Latest(s, x) = With(s.cache, Remarks(s))
         /\ \A o \in Elements(ws) : o \notin Comments /\ (\A y : After(ws, o, y) => y \in Comments)
              => Latest(s, x) = With(s.txn[o].out, Remarks(s))
<1> DEFINE overwrites == {i \in 1..Len(ws) : ws[i] \notin Comments}
           top == IF overwrites = {} THEN 0
                  ELSE CHOOSE i \in overwrites : \A j \in overwrites : j <= i
           base == IF top = 0 THEN s.cache ELSE s.txn[ws[top]].out
           late == {ws[i] : i \in (top + 1)..Len(ws)}
<1>1. /\ s.writes \in Seq(Nat \cup Comments) /\ s.cache \in Node
      /\ s.txn \in Seq(Transactions)
  BY DEF Phone
<1>2. ws \in Seq(Nat \cup Comments) /\ Elements(ws) = Elements(s.writes) \ x
  BY <1>1, ElementsWithout
<1>3. Len(ws) \in Nat /\ \A i \in 1..Len(ws) : ws[i] \in Elements(ws)
  BY <1>2, LenProperties DEF Elements
<1>4. overwrites \in SUBSET (1..Len(ws))
  OBVIOUS
<1>5. \A t \in 1..Len(s.txn) : s.txn[t].out \in Node
  <2>1. \A t \in 1..Len(s.txn) : s.txn[t] \in Transactions
    BY <1>1, ElementOfSeq
  <2> QED
    BY <2>1 DEF Transactions
<1>6. Remarks(s) = Elements(ws) \cap Comments
  BY <1>2 DEF Remarks
<1>7. Latest(s, x) = With(base, late)
  BY DEF Latest, With
<1>8. CASE overwrites = {}
  <2>1. top = 0 /\ base = s.cache
    BY <1>8
  <2> HIDE DEF top
  <2>2. Elements(ws) \subseteq Comments /\ late = Elements(ws)
    <3>1. late = {ws[i] : i \in 1..Len(ws)}
      BY <2>1
    <3>2. \A i \in 1..Len(ws) : ws[i] \in Comments
      BY <1>8
    <3> QED
      BY <3>1, <3>2 DEF Elements
  <2>3. Latest(s, x) = With(s.cache, Remarks(s))
    BY <1>6, <1>7, <2>1, <2>2
  <2>4. Latest(s, x).comments = s.cache.comments \cup Remarks(s)
    <3>1. Remarks(s) \in SUBSET Comments
      BY DEF Remarks
    <3> QED
      <4>1. PICK n \in Node : n = s.cache
        BY <1>1
      <4>2. PICK cs \in SUBSET Comments : cs = Remarks(s)
        BY <3>1
      <4>3. With(n, cs).comments = n.comments \cup cs
        BY WithPlus
      <4> QED
        BY <2>3, <4>1, <4>2, <4>3
  <2> QED
    BY <2>2, <2>3, <2>4
<1>9. CASE overwrites # {}
  <2>1. \E i \in overwrites : \A j \in overwrites : j <= i
    BY <1>3, <1>4, <1>9, LastExists
  <2>2. top \in overwrites /\ \A j \in overwrites : j <= top
    BY <1>9, <2>1
  <2> HIDE DEF top
  <2>3. top \in 1..Len(ws) /\ ws[top] \in 1..Len(s.txn) /\ ws[top] \notin Comments /\ top # 0
    BY <1>2, <1>3, <2>2
  <2>4. base = s.txn[ws[top]].out /\ base \in Node
    BY <1>5, <2>3
  <2>5. late \subseteq Remarks(s)
    <3>1. ASSUME NEW i \in (top + 1)..Len(ws)
          PROVE  ws[i] \in Remarks(s)
      <4>1. i \in 1..Len(ws) /\ ~(i <= top)
        BY <1>3, <2>3
      <4>2. ws[i] \in Comments
        BY <2>2, <4>1
      <4> QED
        BY <1>3, <1>6, <4>1, <4>2
    <3> QED
      BY <3>1
  <2>6. Remarks(s) \subseteq base.comments \cup late
    <3> SUFFICES ASSUME NEW c \in Remarks(s), c \notin late
                 PROVE  c \in base.comments
      OBVIOUS
    <3>1. PICK i \in 1..Len(ws) : ws[i] = c
      BY <1>6 DEF Elements
    <3>2. i # top /\ c \in Comments
      BY <1>6, <2>3, <3>1
    <3>3. ~(i \in (top + 1)..Len(ws))
      BY <3>1
    <3>4. i < top
      BY <1>3, <2>3, <3>2, <3>3
    <3>5. After(ws, c, ws[top])
      BY <2>3, <3>1, <3>4 DEF After
    <3>6. After(s.writes, c, ws[top])
      BY <1>1, <3>5, AfterWithout
    <3> QED
      BY <2>3, <2>4, <3>2, <3>6 DEF Known
  <2> HIDE DEF late, base
  <2>7. base.comments \cup late = base.comments \cup Remarks(s)
    BY <2>5, <2>6
  <2>8. With(base, late) = With(base, Remarks(s))
    BY <2>7 DEF With
  <2>9. Latest(s, x).comments = base.comments \cup Remarks(s)
    BY SMTT(30), <1>7, <2>4, <2>8, WithPlus DEF Remarks
  <2>10. ws[top] \in Elements(ws)
    BY <1>3, <2>3
  <2>11. ASSUME NEW o \in Elements(ws), o \notin Comments, \A y : After(ws, o, y) => y \in Comments
         PROVE  o = ws[top]
    <3>1. PICK i \in 1..Len(ws) : ws[i] = o
      BY DEF Elements
    <3>2. i <= top
      BY <2>2, <2>11, <3>1
    <3>3. ~(i < top)
      <4> SUFFICES ASSUME i < top
                   PROVE  FALSE
        OBVIOUS
      <4>1. After(ws, o, ws[top])
        BY <2>3, <3>1 DEF After
      <4> QED
        BY <2>3, <2>11, <4>1
    <3>4. i = top
      BY <2>3, <3>2, <3>3
    <3> QED
      BY <3>1, <3>4
  <2> QED
    BY <1>7, <2>3, <2>4, <2>8, <2>9, <2>10, <2>11
<1> QED
  BY <1>8, <1>9

(* What it depends on.                                                     *)
LEMMA LatestSame ==
  ASSUME NEW s, NEW r, NEW x, NEW y, NEW ws, ws = Without(s.writes, x),
         ws = Without(r.writes, y), r.cache = s.cache,
         NEW S, ws \in Seq(S),
         \A t \in Elements(ws) \ Comments : r.txn[t].out = s.txn[t].out
  PROVE  Latest(r, y) = Latest(s, x)
<1> DEFINE overwrites == {i \in 1..Len(ws) : ws[i] \notin Comments}
           top == IF overwrites = {} THEN 0
                  ELSE CHOOSE i \in overwrites : \A j \in overwrites : j <= i
           late == {ws[i] : i \in (top + 1)..Len(ws)}
           base(z) == IF top = 0 THEN z.cache ELSE z.txn[ws[top]].out
<1>1. Latest(s, x) = [base(s) EXCEPT !.comments = @ \cup late]
  BY DEF Latest
<1>2. Latest(r, y) = [base(r) EXCEPT !.comments = @ \cup late]
  BY DEF Latest
<1>3. base(r) = base(s)
  <2>1. CASE overwrites = {}
    <3>1. top = 0
      BY <2>1
    <3> HIDE DEF top
    <3> QED
      BY <3>1
  <2>2. CASE overwrites # {}
    <3>0. Len(ws) \in Nat /\ overwrites \in SUBSET (1..Len(ws))
      OBVIOUS
    <3>1. \E i \in overwrites : \A j \in overwrites : j <= i
      BY <2>2, <3>0, LastExists
    <3>2. top \in overwrites
      BY <2>2, <3>1
    <3> HIDE DEF top
    <3>3. ws[top] \in Elements(ws) \ Comments
      BY <3>2 DEF Elements
    <3> QED
      BY <3>3
  <2> QED
    BY <2>1, <2>2
<1> HIDE DEF base, late
<1> QED
  BY <1>1, <1>2, <1>3

-----------------------------------------------------------------------------
(* Lemmas about what handlers compute.                                     *)

(* Writes that are not forgotten keep their order.                         *)
LEMMA ForgetOrder ==
  ASSUME NEW s \in Phone, NEW gone
  PROVE  /\ Forget(s, gone).writes = Without(s.writes, gone)
         /\ \A x, y : After(Forget(s, gone).writes, x, y) <=>
              After(s.writes, x, y) /\ x \notin gone /\ y \notin gone
<1>1. s.writes \in Seq(Nat \cup Comments)
  BY DEF Phone
<1>2. Forget(s, gone).writes = Without(s.writes, gone)
  BY DEF Forget, Phone
<1> QED
  BY <1>1, <1>2, AfterWithout

(* The put that is sent.                                                   *)
SentAs(m, s) ==
  /\ m \in Puts /\ m.batch = s.queue /\ m.hash = Latest(s, Elements(s.queue))
  /\ m.data = s.txn[Final(s.queue)].out

(* What is sent for a queue is one put of it, of its last result.          *)
LEMMA SendPut ==
  ASSUME NEW s \in Phone, NEW r, r = SendReady(s), Waits(s), Launched(s, r)
  PROVE  \E m : SentAs(m, s) /\ r.puts = Append(s.puts, m)
<1> DEFINE members == Elements(s.queue)
           x == [t \in DOMAIN s.txn |->
                   IF t \in members THEN Attempted(s.txn[t]) ELSE s.txn[t]]
           m == [type |-> "put", batch |-> s.queue, hash |-> Latest(s, members),
                 data |-> s.txn[s.queue[Len(s.queue)]].out]
<1>1. r = [s EXCEPT !.txn = x, !.unanswered = Append(@, s.queue), !.puts = Append(@, m)]
  BY DEF Waits, SendReady
<1> HIDE DEF x
<1>2. r.puts = Append(s.puts, m)
  BY <1>1 DEF Phone
<1>3. PICK p \in Puts : r.puts = Append(s.puts, p)
  BY DEF Launched
<1>4. s.puts \in Seq(Requests) /\ p \in Requests
  BY DEF Phone, Requests
<1>5. p = m
  <2> HIDE DEF m
  <2>1. Append(s.puts, p)[Len(s.puts) + 1] = p
    BY <1>4, AppendFacts
  <2>2. Append(s.puts, m)[Len(s.puts) + 1] = m
    BY <1>4
  <2> QED
    BY <1>2, <1>3, <2>1, <2>2
<1>6. SentAs(m, s)
  BY <1>5 DEF SentAs, Final
<1> QED
  BY <1>2, <1>6

(* Sending changes no result.                                              *)
LEMMA SendOuts ==
  ASSUME NEW s \in Phone, NEW r, Launched(s, r)
  PROVE  \A t \in 1..Len(s.txn) : r.txn[t].out = s.txn[t].out /\ r.txn[t].told = s.txn[t].told
                                  /\ r.txn[t].dev = s.txn[t].dev
<1>1. s.txn \in Seq(Transactions) /\ \A t \in 1..Len(s.txn) : s.txn[t] \in Transactions
  BY ElementOfSeq DEF Phone
<1>2. \A x \in Transactions : Attempted(x).out = x.out /\ Attempted(x).told = x.told
                              /\ Attempted(x).dev = x.dev
  BY DEF Attempted, Transactions
<1> QED
  BY <1>1, <1>2 DEF Launched

(* What running the queue again does to the order of writes, and to the    *)
(* results.                                                                *)
RanAgain(s, r) ==
  /\ r.queue = Without(s.queue, Gone(s))
  /\ r.writes = Without(s.writes, Gone(s) \cup Again(s)) \o Only(s.queue, Again(s))
  /\ Again(s) = Elements(Only(s.queue, Again(s)))
  /\ \A t \in Again(s) : \E k \in 1..Len(Only(s.queue, Again(s))) :
       /\ Only(s.queue, Again(s))[k] = t
       /\ r.txn[t].out = Plus(Latest(s, Elements(s.queue)), k)
  /\ \A t \in 1..Len(s.txn) : t \notin Again(s) => r.txn[t].out = s.txn[t].out

(* What a rerun leaves in the queue, in the writes and as results.         *)
LEMMA RerunOuts ==
  ASSUME NEW s \in Phone, NEW r, r = Rerun(s),
         Elements(s.queue) \subseteq 1..Len(s.txn), Reran(s, r)
  PROVE  RanAgain(s, r)
<1> DEFINE members == Elements(s.queue)
           tired == {t \in members : s.txn[t].status = "run"
                                     /\ s.txn[t].retries >= MaxRetries}
           gone == tired \cup {t \in members : s.txn[t].status = "needsAbort"}
           again == Only(s.queue, {t \in members : s.txn[t].status = "run"} \ tired)
           base == Latest(s, members)
           place(t) == CHOOSE i \in 1..Len(again) : again[i] = t
           moved == Forget(s, gone \cup Elements(again))
           x == [t \in DOMAIN s.txn |->
                   IF t \in gone
                   THEN [s.txn[t] EXCEPT !.status = "completed",
                           !.told = IF t \in tired THEN "maxretries" ELSE s.txn[t].why]
                   ELSE IF t \in Elements(again)
                   THEN [s.txn[t] EXCEPT !.out = Plus(base, place(t))]
                   ELSE s.txn[t]]
<1>1. r = [moved EXCEPT !.writes = @ \o again, !.queue = Without(@, gone), !.txn = x]
  BY DEF Rerun
<1>2. tired = Tired(s) /\ gone = Gone(s)
  BY DEF Tired, Gone
<1>3. /\ s.queue \in Seq(Nat) /\ s.txn \in Seq(Transactions)
      /\ DOMAIN s.txn = 1..Len(s.txn)
      /\ \A t \in 1..Len(s.txn) : s.txn[t] \in Transactions
  <2>1. s.queue \in Seq(Nat) /\ s.txn \in Seq(Transactions)
    BY DEF Phone
  <2> QED
    BY <2>1, LenProperties, ElementOfSeq
<1>4. again = Only(s.queue, Again(s)) /\ Elements(again) = Again(s)
  <2>1. PICK keep : keep = {t \in members : s.txn[t].status = "run"} \ tired
    OBVIOUS
  <2>2. again = Only(s.queue, keep)
    BY <2>1
  <2>3. Elements(again) = members \cap keep
    BY ZenonT(30), <1>3, <2>2, ElementsOnly
  <2>4. keep = Again(s) /\ keep \subseteq members
    BY <2>1 DEF Again, Tired
  <2> QED
    BY <2>2, <2>3, <2>4
<1>5. ASSUME NEW t \in Elements(again)
      PROVE  place(t) \in 1..Len(again) /\ again[place(t)] = t
  <2>1. \E i \in 1..Len(again) : again[i] = t
    BY DEF Elements
  <2> QED
    BY <2>1
<1> HIDE DEF tired, gone, again, base, place
<1>6. moved = [s EXCEPT !.writes = Without(@, gone \cup Elements(again))]
  BY DEF Forget
<1>7. /\ r.writes = Without(s.writes, gone \cup Elements(again)) \o again
      /\ r.queue = Without(s.queue, gone) /\ r.txn = x
  <2>1. PICK w, y : w = Without(s.writes, gone \cup Elements(again)) /\ y = x
    OBVIOUS
  <2>2. moved = [s EXCEPT !.writes = w]
    BY <1>6, <2>1
  <2>3. r = [moved EXCEPT !.writes = @ \o again, !.queue = Without(@, gone), !.txn = y]
    BY <1>1, <2>1
  <2> QED
    BY <2>1, <2>2, <2>3 DEF Phone
<1>8. ASSUME NEW t \in Again(s)
      PROVE  \E k \in 1..Len(again) : again[k] = t /\ r.txn[t].out = Plus(base, k)
  <2>1. t \in DOMAIN s.txn /\ t \in 1..Len(s.txn) /\ s.txn[t] \in Transactions
    BY <1>3 DEF Again
  <2>2. t \notin gone
    BY <1>2 DEF Again, Gone, Tired
  <2>3. x[t] = [s.txn[t] EXCEPT !.out = Plus(base, place(t))]
    BY <1>4, <2>1, <2>2
  <2>4. x[t].out = Plus(base, place(t))
    BY <2>1, <2>3 DEF Transactions
  <2> QED
    BY <1>4, <1>5, <1>7, <2>4
<1>9. ASSUME NEW t \in 1..Len(s.txn), t \notin Again(s)
      PROVE  r.txn[t].out = s.txn[t].out
  <2>1. s.txn[t] \in Transactions
    BY <1>3
  <2>2. \/ r.txn[t] = s.txn[t]
        \/ r.txn[t] = [s.txn[t] EXCEPT !.status = "completed",
             !.told = IF t \in Tired(s) THEN "maxretries" ELSE s.txn[t].why]
    BY <1>9 DEF Reran
  <2> QED
    BY <2>1, <2>2 DEF Transactions
<1> QED
  BY <1>2, <1>4, <1>7, <1>8, <1>9 DEF base, RanAgain

(* With nothing waiting and nothing to abort it does nothing, and nothing  *)
(* is sent.                                                                *)
LEMMA RerunIdle ==
  ASSUME NEW s \in Phone, NEW r, Resent(s, r),
         \A t \in Elements(s.queue) : s.txn[t].status \notin {"run", "needsAbort"}
  PROVE  r = s
<1> DEFINE members == Elements(s.queue)
           tired == {t \in members : s.txn[t].status = "run"
                                     /\ s.txn[t].retries >= MaxRetries}
           gone == tired \cup {t \in members : s.txn[t].status = "needsAbort"}
           again == Only(s.queue, {t \in members : s.txn[t].status = "run"} \ tired)
           base == Latest(s, members)
           place(t) == CHOOSE i \in 1..Len(again) : again[i] = t
           moved == Forget(s, gone \cup Elements(again))
           x == [t \in DOMAIN s.txn |->
                   IF t \in gone
                   THEN [s.txn[t] EXCEPT !.status = "completed",
                           !.told = IF t \in tired THEN "maxretries" ELSE s.txn[t].why]
                   ELSE IF t \in Elements(again)
                   THEN [s.txn[t] EXCEPT !.out = Plus(base, place(t))]
                   ELSE s.txn[t]]
<1>1. PICK a : a = Rerun(s) /\ r = SendReady(a)
  BY DEF Resent
<1>2. a = [moved EXCEPT !.writes = @ \o again, !.queue = Without(@, gone), !.txn = x]
  BY <1>1 DEF Rerun
<1>3. /\ s.queue \in Seq(Nat) /\ s.txn \in Seq(Transactions)
      /\ s.writes \in Seq(Nat \cup Comments)
      /\ s.txn = [t \in DOMAIN s.txn |-> s.txn[t]]
  BY DEF Phone
<1>4. gone = {} /\ {t \in members : s.txn[t].status = "run"} \ tired = {}
  OBVIOUS
<1>5. again = << >> /\ Elements(again) = {}
  <2>1. again = Only(s.queue, {})
    BY <1>4
  <2>2. again \in Seq(Nat) /\ Elements(again) = Elements(s.queue) \cap {}
    BY <1>3, <2>1, ElementsOnly
  <2> QED
    BY <2>2, ElementsFacts
<1> HIDE DEF tired, gone, again, base, place
<1>6. x = s.txn
  BY <1>3, <1>4, <1>5
<1>7. Without(s.queue, {}) = s.queue /\ Without(s.writes, {}) = s.writes
  BY <1>3, OnlyAll DEF Without
<1>8. s.writes \o << >> = s.writes
  BY <1>3
<1>9. moved = s
  <2>1. moved = [s EXCEPT !.writes = Without(@, gone \cup Elements(again))]
    BY DEF Forget
  <2>2. gone \cup Elements(again) = {}
    BY <1>4, <1>5
  <2> HIDE DEF moved
  <2> QED
    BY <1>7, <2>1, <2>2 DEF Phone
<1>10. a = s
  BY <1>2, <1>4, <1>5, <1>6, <1>7, <1>8, <1>9 DEF Phone
<1>11. ~Waits(s)
  <2>1. s.queue # << >> => Elements(s.queue) # {}
    BY <1>3, ElementsFacts
  <2> QED
    BY <2>1 DEF Waits
<1> QED
  BY <1>1, <1>10, <1>11 DEF Waits, SendReady

-----------------------------------------------------------------------------
(* Keeping what is known of a phone.                                       *)

(* Where the messages of a phone are.                                      *)
LEMMA Places ==
  ASSUME NEW s \in Phone, NEW l \in Line
  PROVE  /\ l.td \in Seq(Messages) /\ l.hd \in Seq(Messages) /\ l.dn \in Seq(Messages)
         /\ Asks(s, l) \in Seq(Messages) /\ Asks(s, l) \in Seq(Requests)
         /\ Road(s, l) \in Seq(Messages) /\ Path(s, l) \in Seq(Messages)
         /\ l.hd \o Road(s, l) \in Seq(Messages)
         /\ Elements(Road(s, l)) = Elements(l.dn) \cup Elements(Asks(s, l))
         /\ Elements(Path(s, l)) = Everywhere(s, l)
<1>1. /\ l.td \in Seq(Answers) /\ l.hd \in Seq(Answers) /\ l.dn \in Seq(Notices)
      /\ l.ob \in Seq(Requests) /\ s.puts \in Seq(Requests)
  BY DEF Line, Phone
<1>2. Answers \subseteq Messages /\ Notices \subseteq Messages /\ Requests \subseteq Messages
  BY DEF Messages, Notices
<1>3. Asks(s, l) \in Seq(Requests)
  BY <1>1, Concats DEF Asks
<1>4. /\ l.td \in Seq(Messages) /\ l.hd \in Seq(Messages) /\ l.dn \in Seq(Messages)
      /\ Asks(s, l) \in Seq(Messages)
  BY <1>1, <1>2, <1>3, SeqMonotonic
<1>5. /\ Road(s, l) \in Seq(Messages)
      /\ Elements(Road(s, l)) = Elements(l.dn) \cup Elements(Asks(s, l))
  BY <1>4, ElementsConcat DEF Road
<1>6. /\ l.hd \o Road(s, l) \in Seq(Messages)
      /\ Elements(l.hd \o Road(s, l)) = Elements(l.hd) \cup Elements(Road(s, l))
  BY <1>4, <1>5, ElementsConcat
<1>7. /\ Path(s, l) \in Seq(Messages)
      /\ Elements(Path(s, l)) = Elements(l.td) \cup Elements(l.hd \o Road(s, l))
  <2>1. PICK u \in Seq(Messages) : u = l.hd \o Road(s, l)
    BY <1>6
  <2>2. PICK v \in Seq(Messages) : v = l.td
    BY <1>4
  <2>3. v \o u \in Seq(Messages) /\ Elements(v \o u) = Elements(v) \cup Elements(u)
    BY ElementsConcat
  <2> QED
    BY <2>1, <2>2, <2>3 DEF Path
<1> QED
  BY <1>3, <1>4, <1>5, <1>6, <1>7 DEF Everywhere

(* What the messages of a phone are about: transactions under way.         *)
RightPath(d, s, l) ==
  \A m \in Elements(Path(s, l)) :
    /\ Carried(m) # {} => Result(m) \in Carried(m)
    /\ \A t \in Carried(m) :
         /\ t \in Of(s.txn, d) /\ s.txn[t].status \in Pending
         /\ t \in UnderWay(s.txn, d) /\ t \in Elements(s.writes) /\ t \notin Comments
    /\ Touches(m, s) => Outstanding(s) # {} /\ Outstanding(s) \subseteq Carried(m)

(* A message that carries transactions carries the one whose result it     *)
(* has.                                                                    *)
LEMMA ResultIn ==
  ASSUME NEW d, NEW s, NEW ap, NEW m \in Messages, RightMessage(d, m, s, ap), Carried(m) # {}
  PROVE  Result(m) \in Carried(m) /\ Content(m) \in Seq(Nat) /\ Content(m) # << >>
         /\ Carried(m) = Elements(Content(m)) /\ m.type \in {"put", "reply"}
<1>1. m.type \in {"put", "reply"}
  BY DEF Carried
<1>2. CASE m.type = "put"
  <2>1. m \in Puts
    BY <1>2 DEF Messages, Requests, Notices, Answers, Puts
  <2>2. m.batch \in Seq(Nat) /\ m.batch # << >>
    BY <1>2, <2>1 DEF Puts, RightMessage
  <2>3. Final(m.batch) \in Elements(m.batch)
    BY <2>2, FinalIn
  <2> QED
    BY <1>1, <1>2, <2>2, <2>3 DEF Carried, Content, Result
<1>3. CASE m.type = "reply"
  <2>1. \/ m.what \in Seq(Nat) \ {<< >>}
        \/ \E c \in Comments : m.what = <<c>>
    BY <1>3 DEF RightMessage
  <2>2. CASE \E c \in Comments : m.what = <<c>>
    <3>1. Carried(m) = {}
      BY <1>3, <2>2, ElementsFacts DEF Carried
    <3> QED
      BY <3>1
  <2>3. CASE m.what \in Seq(Nat) \ {<< >>}
    <3>1. Final(m.what) \in Elements(m.what) /\ Elements(m.what) \subseteq Nat
      BY <2>3, FinalIn, ElementsFacts
    <3>2. Elements(m.what) \ Comments = Elements(m.what)
      BY <3>1, NoComment
    <3>3. Carried(m) = Elements(m.what) /\ Content(m) = m.what
      BY <1>3, <3>2 DEF Carried, Content
    <3> QED
      BY <1>1, <2>3, <3>1, <3>3 DEF Result
  <2> QED
    BY <2>1, <2>2, <2>3
<1> QED
  BY <1>1, <1>2, <1>3

(* What the agreement of a phone says of the messages on its path.         *)
LEMMA SoundPath ==
  ASSUME NEW d, NEW s \in Phone, NEW l \in Line, NEW ap, NEW w, Sound(d, s, l, ap, w)
  PROVE  RightPath(d, s, l)
<1>1. Path(s, l) \in Seq(Messages) /\ Elements(Path(s, l)) = Everywhere(s, l)
  BY Places
<1> SUFFICES ASSUME NEW m \in Elements(Path(s, l))
             PROVE  /\ Carried(m) # {} => Result(m) \in Carried(m)
                    /\ \A t \in Carried(m) :
                         /\ t \in Of(s.txn, d) /\ s.txn[t].status \in Pending
                         /\ t \in UnderWay(s.txn, d) /\ t \in Elements(s.writes)
                         /\ t \notin Comments
                    /\ Touches(m, s) => Outstanding(s) # {} /\ Outstanding(s) \subseteq Carried(m)
  BY DEF RightPath
<1>2. m \in Messages /\ m \in Everywhere(s, l)
  BY <1>1, ElementsFacts
<1>3. RightMessage(d, m, s, ap)
  BY <1>2 DEF Everywhere, Sound, Carries, RightMessages
<1>4. ASSUME NEW t \in Carried(m)
      PROVE  t \in Of(s.txn, d) /\ s.txn[t].status \in Pending
  BY <1>2, CarriedPending DEF Everywhere
<1>5. ASSUME NEW t \in Carried(m)
      PROVE  t \in UnderWay(s.txn, d) /\ t \in Elements(s.writes) /\ t \notin Comments
  <2>1. Honest(t, s, ap)
    BY <1>4 DEF Sound, Upright
  <2>2. s.txn[t].told = "none"
    BY <1>4, <2>1 DEF Honest, Pending
  <2>3. t \in UnderWay(s.txn, d)
    BY <1>4, <2>2 DEF UnderWay, Of
  <2> QED
    BY <2>3 DEF Sound, Listed
<1>6. ASSUME Touches(m, s)
      PROVE  Outstanding(s) # {} /\ Outstanding(s) \subseteq Carried(m)
  <2>1. PICK t \in Carried(m) : t \in Elements(s.queue)
    BY <1>6 DEF Touches
  <2>2. t \in Outstanding(s)
    BY <1>4, <2>1 DEF Outstanding
  <2> QED
    BY <1>3, <2>1, <2>2 DEF RightMessage
<1>7. Carried(m) # {} => Result(m) \in Carried(m)
  BY <1>2, <1>3, ResultIn
<1> QED
  BY <1>4, <1>5, <1>6, <1>7

(* A step that keeps the results of transactions and adds nothing to the   *)
(* writes, or to what messages are about; one that leaves the queue alone, *)
(* too, or leaves nothing of it outstanding.                               *)
Mild(d, s, l, r, k) ==
  /\ Elements(r.writes) \subseteq Elements(s.writes)
  /\ \A x, y : After(r.writes, x, y) => After(s.writes, x, y)
  /\ \A t \in Of(s.txn, d) : r.txn[t].out = s.txn[t].out
  /\ Follows(Path(r, k), Path(s, l))

Calm(d, s, l, r, k) ==
  /\ Mild(d, s, l, r, k)
  /\ r.queue = s.queue
  /\ \A t \in Elements(s.queue) : r.txn[t].status = s.txn[t].status

Clear(r, k) == \A m \in Elements(Path(r, k)) : ~Touches(m, r)

(* It does not disturb what waits.                                         *)
Undisturbed(d, s, l, r, k) ==
  Running(s) # {} /\ Outstanding(s) # {} /\ Rests(d, s, l) =>
    /\ UnderWay(r.txn, d) \subseteq UnderWay(s.txn, d) /\ r.feed = "idle"
    /\ \A m \in Elements(Road(r, k)) : Asking(m) => Opens(m)
    /\ \A m \in Elements(k.hd) : Carried(m) = {}
    /\ \A m \in Elements(k.td) : Carried(m) # {} => m.status = "disconnect"
    /\ \A m \in Elements(Path(r, k)) : Touches(m, s) =>
         Remarks(s) \subseteq Remarks(r) \cup s.txn[Result(m)].out.comments

(* A calm step keeps the messages in step with the writes.                 *)
LEMMA CalmOrdered ==
  ASSUME NEW d, NEW s \in Phone, NEW l \in Line, NEW ap, NEW v, Sound(d, s, l, ap, v),
         NEW w, Ordered(s, Path(s, l), w), NEW r, NEW k, Mild(d, s, l, r, k),
         Calm(d, s, l, r, k) \/ Clear(r, k), NEW x, w \subseteq x
  PROVE  Ordered(r, Path(r, k), x)
<1> DEFINE p == Path(s, l)
           q == Path(r, k)
<1>1. RightPath(d, s, l)
  BY SoundPath
<1>2. \A a, b : Like(a, b) /\ Carried(a) # {} =>
        Carried(b) = Carried(a) /\ Result(a) = Result(b) /\ ~Idle(a)
  BY DEF Like, Result, Idle
<1>3. \A m \in Elements(p) : Carried(m) # {} => Result(m) \in Of(s.txn, d)
  BY <1>1 DEF RightPath
<1>4. Calm(d, s, l, r, k) =>
        Running(r) = Running(s) /\ \A m : Touches(m, r) <=> Touches(m, s)
  BY DEF Running, Touches, Calm
<1>5. Remarks(r) \subseteq Remarks(s)
  BY DEF Remarks, Mild
<1>6. OnTop(r, q)
  <2> SUFFICES ASSUME Calm(d, s, l, r, k), NEW m \in Elements(q), Touches(m, s), NEW y,
                      After(r.writes, Result(m), y)
               PROVE  y \in Comments \cup Running(s)
    BY <1>4 DEF OnTop, Clear
  <2>1. Carried(m) # {} /\ ~Idle(m)
    BY DEF Touches, Idle
  <2>2. PICK a \in Elements(p) : Like(m, a)
    BY <2>1 DEF Mild, Follows
  <2>3. Touches(a, s) /\ Result(a) = Result(m)
    BY <1>2, <2>1, <2>2 DEF Touches
  <2>4. After(s.writes, Result(a), y)
    BY <2>3 DEF Mild
  <2> QED
    BY <2>3, <2>4 DEF Ordered, OnTop
<1>7. Ahead(r, q)
  <2> SUFFICES ASSUME NEW a, NEW b, After(q, a, b), Carried(b) # {},
                      NEW c \in Mentioned(a) \cap Remarks(r)
               PROVE  c \in r.txn[Result(b)].out.comments
    BY DEF Ahead
  <2>1. ~Idle(a) /\ ~Idle(b)
    BY DEF Idle
  <2>2. PICK e, f : After(p, e, f) /\ Like(a, e) /\ Like(b, f)
    BY <2>1 DEF Mild, Follows
  <2>3. Carried(f) # {} /\ Result(f) = Result(b) /\ c \in Mentioned(e) \cap Remarks(s)
    BY <1>2, <1>5, <2>2 DEF Like
  <2>4. c \in s.txn[Result(f)].out.comments
    BY <2>2, <2>3 DEF Ordered, Ahead
  <2>5. Result(f) \in Of(s.txn, d)
    BY <1>3, <2>2, <2>3, AfterIn
  <2> QED
    BY <2>3, <2>4, <2>5 DEF Mild
<1>8. Mentions(q, x)
  <2> SUFFICES ASSUME NEW m \in Elements(q), NEW c \in Mentioned(m)
               PROVE  c \in x
    BY DEF Mentions
  <2>1. ~Idle(m)
    BY DEF Idle
  <2>2. PICK a \in Elements(p) : Like(m, a)
    BY <2>1 DEF Mild, Follows
  <2> QED
    BY <2>2 DEF Like, Ordered, Mentions
<1>9. Computed(r, q)
  <2> SUFFICES ASSUME NEW m \in Elements(q), m.type = "put"
               PROVE  /\ m.data = Plus(m.hash, Len(m.batch)) /\ m.data = r.txn[Result(m)].out
                      /\ Distinct(m.batch)
    BY DEF Computed
  <2>1. ~Idle(m)
    BY DEF Idle
  <2>2. m \in Elements(p)
    BY <2>1 DEF Mild, Follows, Like
  <2>3. /\ m.data = Plus(m.hash, Len(m.batch)) /\ m.data = s.txn[Result(m)].out
        /\ Distinct(m.batch)
    BY <2>2 DEF Ordered, Computed
  <2>4. Carried(m) # {}
    <3>1. RightMessage(d, m, s, ap)
      BY <2>2, Places DEF Everywhere, Sound, Carries, RightMessages
    <3>2. m \in Messages
      BY <2>2, Places, ElementsFacts
    <3>3. m.batch \in Seq(Nat) /\ m.batch # << >>
      BY <3>1, <3>2 DEF RightMessage, Messages, Requests, Notices, Answers, Puts
    <3> QED
      BY <3>3, ElementsFacts DEF Carried
  <2>5. Result(m) \in Of(s.txn, d)
    BY <1>3, <2>2, <2>4
  <2> QED
    BY <2>3, <2>5 DEF Mild
<1> QED
  BY <1>6, <1>7, <1>8, <1>9 DEF Ordered

(* A calm step keeps what those that wait were computed from.              *)
LEMMA CalmPatient ==
  ASSUME NEW d, NEW s \in Phone, NEW l \in Line, NEW ap, NEW v, Sound(d, s, l, ap, v),
         Patient(d, s, l), NEW r, NEW k, Calm(d, s, l, r, k), Undisturbed(d, s, l, r, k)
  PROVE  Patient(d, r, k)
<1>1. /\ Running(r) = Running(s) /\ Outstanding(r) = Outstanding(s)
      /\ \A m : Touches(m, r) <=> Touches(m, s)
  BY DEF Running, Touches, Calm, Mild, Outstanding
<1> SUFFICES ASSUME Running(s) # {}, Outstanding(s) # {}
             PROVE  Rests(d, r, k)
  BY <1>1 DEF Patient
<1>2. Rests(d, s, l)
  BY DEF Patient
<1>3. /\ UnderWay(r.txn, d) \subseteq UnderWay(s.txn, d) /\ r.feed = "idle"
      /\ \A m \in Elements(Road(r, k)) : Asking(m) => Opens(m)
      /\ \A m \in Elements(k.hd) : Carried(m) = {}
      /\ \A m \in Elements(k.td) : Carried(m) # {} => m.status = "disconnect"
      /\ \A m \in Elements(Path(r, k)) : Touches(m, s) =>
           Remarks(s) \subseteq Remarks(r) \cup s.txn[Result(m)].out.comments
  BY <1>2 DEF Undisturbed
<1>4. UnderWay(r.txn, d) \subseteq Elements(r.queue)
  BY <1>2, <1>3 DEF Rests, Calm, Mild
<1>5. \A y : After(r.writes, Final(r.queue), y) => y \in Comments
  BY <1>2 DEF Rests, Calm, Mild
<1>6. ASSUME NEW m \in Elements(Path(r, k)), Touches(m, s)
      PROVE  r.txn[Final(r.queue)].out
               = Plus(With(r.txn[Result(m)].out, Remarks(r)), Cardinality(Running(r)))
  <2>1. Carried(m) # {} /\ ~Idle(m)
    BY <1>6 DEF Touches, Idle
  <2>2. PICK a \in Elements(Path(s, l)) : Like(m, a)
    BY <2>1 DEF Calm, Mild, Follows
  <2>3. Touches(a, s) /\ Result(a) = Result(m)
    BY <1>6, <2>1, <2>2 DEF Touches, Like, Result
  <2>4. s.txn[Final(s.queue)].out
          = Plus(With(s.txn[Result(a)].out, Remarks(s)), Cardinality(Running(s)))
    BY <1>2, <2>2, <2>3 DEF Rests
  <2>5. Result(a) \in Of(s.txn, d)
    BY <2>1, <2>2, SoundPath DEF RightPath, Like
  <2>6. Final(s.queue) \in Of(s.txn, d)
    <3>1. s.queue \in Seq(Nat) /\ Elements(s.queue) # {}
      BY DEF Phone, Outstanding
    <3>2. s.queue # << >>
      BY <3>1, ElementsFacts
    <3>3. Final(s.queue) \in Elements(s.queue)
      BY <3>1, <3>2, FinalIn
    <3> QED
      BY <3>3 DEF Sound, Queued
  <2>7. With(s.txn[Result(m)].out, Remarks(s)) = With(s.txn[Result(m)].out, Remarks(r))
    <3>1. Remarks(r) \subseteq Remarks(s)
      BY DEF Remarks, Calm, Mild
    <3>2. Remarks(s) \subseteq Remarks(r) \cup s.txn[Result(m)].out.comments
      BY <1>3, <1>6
    <3>3. s.txn[Result(m)].out.comments \cup Remarks(s)
            = s.txn[Result(m)].out.comments \cup Remarks(r)
      BY <3>1, <3>2
    <3> QED
      BY <3>3 DEF With
  <2> QED
    BY <1>1, <2>3, <2>4, <2>5, <2>6, <2>7 DEF Calm, Mild
<1> QED
  BY <1>1, <1>3, <1>4, <1>5, <1>6 DEF Rests

(* A calm step, or one after which no message is about the queue, keeps    *)
(* the phone steady.                                                       *)
LEMMA CalmSteady ==
  ASSUME NEW d, NEW s \in Phone, NEW l \in Line, NEW ap, NEW v, Sound(d, s, l, ap, v),
         NEW w, Steady(s, l, w), NEW r, NEW k, Mild(d, s, l, r, k),
         Calm(d, s, l, r, k) \/ (Clear(r, k) /\ Distinct(r.queue)),
         Straight(r.feed, Road(r, k)), Heard(r, k.dn),
         NEW x, w \subseteq x
  PROVE  Steady(r, k, x)
<1>1. Distinct(r.queue)
  BY DEF Steady, Calm
<1>2. Known(r)
  <2> SUFFICES ASSUME NEW e, NEW f, After(r.writes, e, f), e \in Comments, f \notin Comments
               PROVE  e \in r.txn[f].out.comments
    BY DEF Known
  <2>1. After(s.writes, e, f) /\ f \in Elements(s.writes)
    BY AfterIn DEF Mild
  <2>2. f \in Of(s.txn, d)
    BY <2>1 DEF Sound, Listed, UnderWay, Of
  <2> QED
    BY <2>1, <2>2 DEF Steady, Known, Mild
<1>3. Ordered(r, Path(r, k), x)
  BY CalmOrdered DEF Steady
<1> QED
  BY <1>1, <1>2, <1>3 DEF Steady

-----------------------------------------------------------------------------
(* Lemmas about the order of messages on a phone's line.                   *)

(* When a concatenation is straight.                                       *)
LEMMA StraightConcat ==
  ASSUME NEW S, NEW q \in Seq(S), NEW u \in Seq(S), NEW f
  PROVE  Straight(f, q \o u) <=>
           /\ Straight(f, q) /\ Straight(f, u)
           /\ \A x \in Elements(q), y \in Elements(u) :
                /\ Carried(x) # {} => ~Opens(y)
                /\ ~(Fetches(x) /\ Fetches(y))
<1>1. Elements(q \o u) = Elements(q) \cup Elements(u)
  BY ElementsConcat
<1>2. \A x, y : After(q \o u, x, y) <=>
        After(q, x, y) \/ After(u, x, y) \/ (x \in Elements(q) /\ y \in Elements(u))
  BY AfterConcat
<1> QED
  BY <1>1, <1>2 DEF Straight, Early, Fetched

(* Fewer than two messages are straight.                                   *)
LEMMA StraightOne ==
  /\ \A f : Straight(f, << >>)
  /\ \A f, m : ~Fetches(m) => Straight(f, <<m>>)
<1>1. Elements(<< >>) = {} /\ \A m : Elements(<<m>>) = {m}
  BY ElementsFacts
<1> QED
  BY <1>1, AfterEmpty DEF Straight, Early, Fetched

(* What is left without the first message is straight.                     *)
LEMMA StraightTail ==
  ASSUME NEW S, NEW q \in Seq(S), q # << >>, NEW f, Straight(f, q)
  PROVE  /\ Straight(f, Tail(q))
         /\ \A y \in Elements(Tail(q)) :
              /\ Carried(Head(q)) # {} => ~Opens(y)
              /\ Fetches(Head(q)) => ~Fetches(y)
         /\ Fetches(Head(q)) => f = "sent"
<1>1. Elements(q) = Elements(Tail(q)) \cup {Head(q)}
  BY ElementsTail
<1>2. /\ \A x, y : After(Tail(q), x, y) => After(q, x, y)
      /\ \A y \in Elements(Tail(q)) : After(q, Head(q), y)
  BY AfterTail
<1> QED
  BY <1>1, <1>2 DEF Straight, Early, Fetched

(* Messages that neither ask nor carry may be added at the end.            *)
LEMMA StraightMore ==
  ASSUME NEW S, NEW q \in Seq(S), NEW u \in Seq(S), NEW f, Straight(f, q),
         \A m \in Elements(u) : ~Opens(m) /\ ~Fetches(m)
  PROVE  Straight(f, q \o u)
<1>1. Straight(f, u)
  BY AfterIn DEF Straight, Early, Fetched
<1> QED
  BY <1>1, StraightConcat

-----------------------------------------------------------------------------
(* Lemmas about what is heard.                                             *)

(* Before the first message nothing was heard.                             *)
LEMMA HearsFirst == \A q, a, v : Hears(q, 1, a, v) <=> a = v
BY DEF Hears

(* What comes later is not heard earlier.                                  *)
LEMMA HearsFront ==
  ASSUME NEW S, NEW q \in Seq(S), NEW u \in Seq(S), NEW j \in 1..(Len(q) + 1), NEW a, NEW v
  PROVE  Hears(q \o u, j, a, v) <=> Hears(q, j, a, v)
<1> DEFINE r == q \o u
<1>1. /\ Len(q) \in Nat /\ \A i \in 1..Len(q) : r[i] = q[i]
  BY ConcatPlaces
<1>2. \A i \in 1..(j - 1) : r[i] = q[i]
  BY <1>1
<1> HIDE DEF r
<1>3. \A i \in 1..(j - 1) : \A k \in (i + 1)..(j - 1) : r[k] = q[k]
  BY <1>1, <1>2
<1>4. Hears(r, j, a, v) <=> Hears(q, j, a, v)
  BY <1>2, <1>3 DEF Hears
<1> QED
  BY <1>4 DEF r

(* What is heard after the first message, once that is taken.              *)
LEMMA HearsTail ==
  ASSUME NEW S, NEW q \in Seq(S), q # << >>, NEW j \in 1..Len(q), NEW a, NEW v,
         Hears(q, j + 1, a, v), NEW b, b = IF Speaks(Head(q)) THEN Word(Head(q)) ELSE a
  PROVE  Hears(Tail(q), j, b, v)
<1> DEFINE r == Tail(q)
<1>1. /\ Len(q) \in Nat \ {0} /\ Len(r) = Len(q) - 1
      /\ \A n \in 1..Len(r) : n + 1 \in 1..Len(q) /\ r[n] = q[n + 1]
      /\ Head(q) = q[1] /\ 1 \in 1..Len(q)
  BY TailFacts
<1> HIDE DEF r
<1>0. j + 1 - 1 = j
  OBVIOUS
<1>2. \A n \in 1..(j - 1) : n + 1 \in 1..j /\ r[n] = q[n + 1]
  BY <1>1
<1>3. CASE a = v /\ \A i \in 1..j : ~Speaks(q[i])
  <2>1. 1 \in 1..j
    OBVIOUS
  <2>2. b = v
    BY <1>1, <1>3, <2>1
  <2>3. \A i \in 1..(j - 1) : ~Speaks(r[i])
    BY <1>2, <1>3
  <2> QED
    BY <2>2, <2>3 DEF Hears, r
<1>4. ASSUME NEW i \in 1..j, Speaks(q[i]), Word(q[i]) = v,
             \A k \in (i + 1)..j : ~Speaks(q[k])
      PROVE  Hears(r, j, b, v)
  <2>1. CASE i = 1
    <3>1. b = v
      BY <1>1, <1>4, <2>1
    <3>2. ASSUME NEW n \in 1..(j - 1)
          PROVE  ~Speaks(r[n])
      <4>1. n + 1 \in 2..j
        BY <1>2
      <4> QED
        BY <1>2, <1>4, <2>1, <4>1
    <3> QED
      BY <3>1, <3>2 DEF Hears
  <2>2. CASE i # 1
    <3>1. PICK n \in 1..(j - 1) : i = n + 1
      <4>1. i - 1 \in 1..(j - 1) /\ i = i - 1 + 1
        BY <2>2
      <4> QED
        BY <4>1
    <3>2. Speaks(r[n]) /\ Word(r[n]) = v
      BY <1>2, <1>4, <3>1
    <3>3. ASSUME NEW k \in (n + 1)..(j - 1)
          PROVE  ~Speaks(r[k])
      <4>1. k \in 1..(j - 1) /\ k + 1 \in (i + 1)..j
        BY <3>1
      <4> QED
        BY <1>2, <1>4, <4>1
    <3> QED
      BY <3>2, <3>3 DEF Hears
  <2> QED
    BY <2>1, <2>2
<1> QED
  BY <1>0, <1>3, <1>4 DEF Hears, r

(* What is heard by the end of q, when m is added.                         *)
LEMMA HearsNext ==
  ASSUME NEW S, NEW q \in Seq(S), NEW m \in S, NEW a, NEW v, NEW n, n = Len(q) + 1
  PROVE  /\ Speaks(m) /\ Word(m) = v => Hears(Append(q, m), n + 1, a, v)
         /\ ~Speaks(m) /\ Hears(q, n, a, v) => Hears(Append(q, m), n + 1, a, v)
<1> DEFINE r == Append(q, m)
<1>1. /\ Len(q) \in Nat /\ Len(r) = Len(q) + 1
      /\ \A i \in 1..Len(q) : r[i] = q[i]
      /\ r[n] = m
  BY AppendFacts
<1> HIDE DEF r
<1>2. n + 1 - 1 = n /\ n - 1 = Len(q) /\ n \in 1..n /\ n \in Nat
  BY <1>1
<1>3. ASSUME Speaks(m), Word(m) = v
      PROVE  Hears(r, n + 1, a, v)
  <2>1. \A k \in (n + 1)..n : FALSE
    BY <1>2
  <2> QED
    BY <1>1, <1>2, <1>3, <2>1 DEF Hears
<1>4. ASSUME ~Speaks(m), Hears(q, n, a, v)
      PROVE  Hears(r, n + 1, a, v)
  <2>0. \A k \in 1..n : k \in 1..Len(q) \/ k = n
    BY <1>1
  <2>1. CASE a = v /\ \A i \in 1..Len(q) : ~Speaks(q[i])
    <3>1. \A i \in 1..n : ~Speaks(r[i])
      BY <1>1, <1>4, <2>0, <2>1
    <3> QED
      BY <1>2, <2>1, <3>1 DEF Hears
  <2>2. ASSUME NEW i \in 1..Len(q), Speaks(q[i]), Word(q[i]) = v,
               \A k \in (i + 1)..Len(q) : ~Speaks(q[k])
        PROVE  Hears(r, n + 1, a, v)
    <3>1. i \in 1..n /\ Speaks(r[i]) /\ Word(r[i]) = v
      BY <1>1, <2>2
    <3>2. \A k \in (i + 1)..n : k \in (i + 1)..Len(q) \/ k = n
      BY <1>1
    <3>3. \A k \in (i + 1)..Len(q) : k \in 1..Len(q)
      BY <1>1
    <3>4. \A k \in (i + 1)..n : ~Speaks(r[k])
      BY <1>1, <1>4, <2>2, <3>2, <3>3
    <3> QED
      BY <1>2, <3>1, <3>4 DEF Hears
  <2> QED
    BY <1>2, <1>4, <2>1, <2>2 DEF Hears
<1> QED
  BY <1>3, <1>4 DEF r

(* What was said before those who say nothing.                             *)
LEMMA HearsSilence ==
  ASSUME NEW S, NEW q \in Seq(S), NEW u \in Seq(S), NEW a, NEW v,
         \A m \in Elements(u) : ~Speaks(m), Hears(q, Len(q) + 1, a, v),
         NEW j \in 1..(Len(u) + 1)
  PROVE  Hears(q \o u, Len(q) + j, a, v)
<1> DEFINE r == q \o u
           n == Len(q)
<1>1. /\ n \in Nat /\ Len(u) \in Nat
      /\ \A i \in 1..n : r[i] = q[i]
      /\ \A i \in 1..Len(u) : r[n + i] = u[i]
  BY ConcatPlaces
<1>2. \A k \in 1..(n + j - 1) : k \in 1..n \/ (k - n \in 1..Len(u) /\ k = n + (k - n))
  BY <1>1
<1>3. \A i \in 1..Len(u) : ~Speaks(r[n + i])
  BY <1>1 DEF Elements
<1> HIDE DEF r
<1>4. \A k \in 1..(n + j - 1) : k \in 1..n \/ ~Speaks(r[k])
  BY <1>2, <1>3
<1>5. n + 1 - 1 = n
  BY <1>1
<1>6. CASE a = v /\ \A i \in 1..n : ~Speaks(q[i])
  <2>1. \A k \in 1..(n + j - 1) : ~Speaks(r[k])
    BY <1>1, <1>4, <1>6
  <2> QED
    BY <1>6, <2>1 DEF Hears, r
<1>7. ASSUME NEW i \in 1..n, Speaks(q[i]), Word(q[i]) = v,
             \A k \in (i + 1)..n : ~Speaks(q[k])
      PROVE  Hears(r, n + j, a, v)
  <2>1. i \in 1..(n + j - 1) /\ Speaks(r[i]) /\ Word(r[i]) = v
    BY <1>1, <1>7
  <2>2. ASSUME NEW k \in (i + 1)..(n + j - 1)
        PROVE  ~Speaks(r[k])
    <3>1. k \in 1..(n + j - 1)
      BY <1>1
    <3>2. k \in 1..n => k \in (i + 1)..n
      BY <1>1
    <3> QED
      BY <1>1, <1>4, <1>7, <3>1, <3>2
  <2> QED
    BY <2>1, <2>2 DEF Hears
<1>8. \/ a = v /\ \A i \in 1..n : ~Speaks(q[i])
      \/ \E i \in 1..n : /\ Speaks(q[i]) /\ Word(q[i]) = v
                         /\ \A k \in (i + 1)..n : ~Speaks(q[k])
  BY <1>5 DEF Hears
<1>9. Hears(r, n + j, a, v)
  BY <1>6, <1>7, <1>8 DEF r
<1> QED
  BY <1>9 DEF r

-----------------------------------------------------------------------------
(* Sending, and running again, what waits.                                 *)

(* A concatenation of three.                                               *)
LEMMA ConcatThree ==
  ASSUME NEW S, NEW q \in Seq(S), NEW u \in Seq(S), NEW v \in Seq(S)
  PROVE  q \o (u \o v) = (q \o u) \o v
OBVIOUS

(* What u at the end of the line makes of the paths.                       *)
Grows(s, l, r, k, u) ==
  /\ Road(r, k) = Road(s, l) \o u /\ Path(r, k) = Path(s, l) \o u
  /\ Elements(Road(r, k)) = Elements(Road(s, l)) \cup Elements(u)
  /\ Elements(Path(r, k)) = Elements(Path(s, l)) \cup Elements(u)
  /\ \A x, y : After(Path(r, k), x, y) <=>
       \/ After(Path(s, l), x, y) \/ After(u, x, y)
       \/ (x \in Elements(Path(s, l)) /\ y \in Elements(u))

(* A phone with more requests.                                             *)
LEMMA PathGrows ==
  ASSUME NEW s \in Phone, NEW l \in Line, NEW r, NEW k, NEW u \in Seq(Messages),
         Asks(r, k) = Asks(s, l) \o u, k.dn = l.dn, k.hd = l.hd, k.td = l.td
  PROVE  Grows(s, l, r, k, u)
<1>1. /\ l.td \in Seq(Messages) /\ l.hd \in Seq(Messages) /\ l.dn \in Seq(Messages)
      /\ Asks(s, l) \in Seq(Messages) /\ Road(s, l) \in Seq(Messages)
      /\ Path(s, l) \in Seq(Messages) /\ l.hd \o Road(s, l) \in Seq(Messages)
  BY Places
<1>2. Road(r, k) = Road(s, l) \o u
  <2>1. PICK e \in Seq(Messages), c \in Seq(Messages) : e = Asks(s, l) /\ c = l.dn
    BY <1>1
  <2>2. c \o (e \o u) = (c \o e) \o u
    BY SMTT(30), ConcatThree
  <2> QED
    BY <2>1, <2>2 DEF Road
<1>3. l.hd \o Road(r, k) = (l.hd \o Road(s, l)) \o u
  <2>1. PICK e \in Seq(Messages), c \in Seq(Messages) : e = Road(s, l) /\ c = l.hd
    BY <1>1
  <2>2. c \o (e \o u) = (c \o e) \o u
    BY SMTT(30), ConcatThree
  <2> QED
    BY <1>2, <2>1, <2>2
<1>4. Path(r, k) = Path(s, l) \o u
  <2>1. PICK e \in Seq(Messages), c \in Seq(Messages) : e = l.hd \o Road(s, l) /\ c = l.td
    BY <1>1
  <2>2. c \o (e \o u) = (c \o e) \o u
    BY SMTT(30), ConcatThree
  <2> QED
    BY <1>3, <2>1, <2>2 DEF Path
<1> QED
  BY <1>1, <1>2, <1>4, ElementsConcat, AfterConcat DEF Grows

(* A queue that is sent leaves the phone in step, if the last of it was    *)
(* computed from all that is known.                                        *)
LEMMA SendSteady ==
  ASSUME NEW d, NEW s \in Phone, NEW l \in Line, NEW ap, NEW w, Sound(d, s, l, ap, w),
         Ready(s), Steady(s, l, w), NEW r, r = SendReady(s), Waits(s),
         s.txn[Final(s.queue)].out = Plus(Latest(s, Elements(s.queue)), Len(s.queue)),
         \A y : After(s.writes, Final(s.queue), y) => y \in Comments
  PROVE  Paced(d, r, l, w)
<1>1. /\ s.queue \in Seq(Nat) /\ s.queue # << >>
      /\ Elements(s.writes) \ Comments \subseteq 1..Len(s.txn)
      /\ Elements(s.queue) \subseteq Of(s.txn, d) /\ Of(s.txn, d) \subseteq 1..Len(s.txn)
      /\ Elements(s.queue) \cap Comments = {}
  <2>1. s.queue \in Seq(Nat) /\ s.queue # << >>
    BY DEF Phone, Waits
  <2>2. Elements(s.writes) \ Comments \subseteq 1..Len(s.txn)
    BY DEF Sound, Listed, UnderWay
  <2>3. Elements(s.queue) \subseteq Of(s.txn, d)
    BY DEF Sound, Queued
  <2> QED
    BY <2>1, <2>2, <2>3, OfNat
<1>2. r \in Phone /\ Launched(s, r)
  BY <1>1, SendFacts DEF Ready
<1>3. PICK m : SentAs(m, s) /\ r.puts = Append(s.puts, m)
  BY <1>2, SendPut
<1>4. /\ m \in Puts /\ m \in Messages /\ Carried(m) = Elements(s.queue) /\ m.type = "put"
      /\ Mentioned(m) = {} /\ Result(m) = Final(s.queue) /\ Content(m) = s.queue
      /\ m.batch = s.queue /\ m.hash = Latest(s, Elements(s.queue))
      /\ m.data = s.txn[Final(s.queue)].out
  BY <1>3 DEF SentAs, Puts, Messages, Requests, Carried, Mentioned, Result, Content
<1>5. Final(s.queue) \in Elements(s.queue)
  BY <1>1, FinalIn
<1>6. /\ Path(s, l) \in Seq(Messages) /\ Road(s, l) \in Seq(Messages)
      /\ <<m>> \in Seq(Messages) /\ Elements(<<m>>) = {m}
  BY <1>4, Places, One
<1>7. Asks(r, l) = Asks(s, l) \o <<m>>
  <2>1. l.ob \in Seq(Requests) /\ s.puts \in Seq(Requests) /\ m \in Requests
    BY <1>3 DEF Line, Phone, SentAs, Requests
  <2>2. PICK q, u : q = l.ob /\ u = s.puts
    OBVIOUS
  <2>3. q \in Seq(Requests) /\ u \in Seq(Requests)
    BY <2>1, <2>2
  <2>4. q \o Append(u, m) = (q \o u) \o <<m>>
    BY <2>1, <2>3
  <2> QED
    BY <1>3, <2>2, <2>4 DEF Asks
<1>8. /\ Road(r, l) = Road(s, l) \o <<m>>
      /\ Elements(Path(r, l)) = Elements(Path(s, l)) \cup {m}
      /\ \A x, y : After(Path(r, l), x, y) <=>
           After(Path(s, l), x, y) \/ (x \in Elements(Path(s, l)) /\ y = m)
  <2>1. PICK u \in Seq(Messages) : u = <<m>>
    BY <1>6
  <2>2. Asks(r, l) = Asks(s, l) \o u
    BY <1>7, <2>1
  <2>3. /\ Road(r, l) = Road(s, l) \o u
        /\ Elements(Path(r, l)) = Elements(Path(s, l)) \cup Elements(u)
        /\ \A x, y : After(Path(r, l), x, y) <=>
             \/ After(Path(s, l), x, y) \/ After(u, x, y)
             \/ (x \in Elements(Path(s, l)) /\ y \in Elements(u))
    <3>1. /\ s \in Phone /\ l \in Line /\ u \in Seq(Messages)
          /\ l.dn = l.dn /\ l.hd = l.hd /\ l.td = l.td
      OBVIOUS
    <3>2. Grows(s, l, r, l, u)
      BY ONLY <2>2, <3>1, PathGrows
    <3> QED
      BY ONLY <3>2 DEF Grows
  <2>4. Elements(u) = {m} /\ \A x, y : ~After(u, x, y)
    BY <1>6, <2>1, AfterEmpty
  <2> QED
    BY <2>1, <2>3, <2>4
<1>10. \A t \in 1..Len(s.txn) : r.txn[t].out = s.txn[t].out
  BY <1>2, SendOuts
<1>11. \A x \in Elements(Path(s, l)) :
         /\ Carried(x) \subseteq Of(s.txn, d) /\ (Carried(x) # {} => Result(x) \in Of(s.txn, d))
         /\ ~Touches(x, s)
  BY SoundPath DEF RightPath, Touches, Waits, Pending
<1>12. r.queue = s.queue /\ r.writes = s.writes /\ r.cache = s.cache /\ r.feed = s.feed
  BY <1>2 DEF Launched
<1>13. Known(r)
  <2> SUFFICES ASSUME NEW x, NEW y, After(s.writes, x, y), x \in Comments, y \notin Comments
               PROVE  x \in r.txn[y].out.comments
    BY <1>12 DEF Known
  <2>1. y \in 1..Len(s.txn)
    BY <1>1, AfterIn
  <2> QED
    BY <1>10, <2>1 DEF Steady, Known
<1>14. OnTop(r, Path(r, l))
  <2> SUFFICES ASSUME NEW x \in Elements(Path(r, l)), Touches(x, r), NEW y,
                      After(r.writes, Result(x), y)
               PROVE  y \in Comments
    BY DEF OnTop
  <2>1. x = m
    BY <1>8, <1>11, <1>12 DEF Touches
  <2> QED
    BY <1>4, <1>12, <2>1
<1>15. Ahead(r, Path(r, l))
  <2> SUFFICES ASSUME NEW x, NEW y, After(Path(r, l), x, y), Carried(y) # {}
               PROVE  Mentioned(x) \cap Remarks(r) \subseteq r.txn[Result(y)].out.comments
    BY DEF Ahead
  <2>1. Remarks(r) = Remarks(s)
    BY <1>12 DEF Remarks
  <2>2. CASE After(Path(s, l), x, y)
    <3>1. Mentioned(x) \cap Remarks(s) \subseteq s.txn[Result(y)].out.comments
      BY <2>2 DEF Steady, Ordered, Ahead
    <3>2. Result(y) \in Of(s.txn, d)
      BY <1>11, <2>2, AfterIn
    <3> QED
      BY <1>1, <1>10, <2>1, <3>1, <3>2
  <2>3. CASE y = m
    <3>1. Remarks(s) \subseteq Latest(s, Elements(s.queue)).comments
      BY <1>1, LatestFacts DEF Steady
    <3>2. PICK n \in Node : n = Latest(s, Elements(s.queue))
      BY <1>1, LatestType
    <3>3. PICK k \in Int : k = Len(s.queue)
      BY <1>1, LenProperties
    <3>4. Plus(n, k).comments = n.comments
      BY WithPlus
    <3>5. s.txn[Result(y)].out.comments = n.comments
      BY <1>4, <2>3, <3>2, <3>3, <3>4
    <3>6. Result(y) \in 1..Len(s.txn)
      BY <1>1, <1>4, <1>5, <2>3
    <3> QED
      BY <1>10, <2>1, <3>1, <3>2, <3>5, <3>6
  <2> QED
    BY <1>8, <2>2, <2>3
<1>16. Mentions(Path(r, l), w)
  BY <1>4, <1>8 DEF Steady, Ordered, Mentions
<1>17. Computed(r, Path(r, l))
  <2> SUFFICES ASSUME NEW x \in Elements(Path(r, l)), x.type = "put"
               PROVE  /\ x.data = Plus(x.hash, Len(x.batch)) /\ x.data = r.txn[Result(x)].out
                      /\ Distinct(x.batch)
    BY DEF Computed
  <2>1. CASE x = m
    BY <1>1, <1>4, <1>5, <1>10, <2>1 DEF Steady
  <2>2. CASE x \in Elements(Path(s, l))
    <3>1. /\ x.data = Plus(x.hash, Len(x.batch)) /\ x.data = s.txn[Result(x)].out
          /\ Distinct(x.batch)
      BY <2>2 DEF Steady, Ordered, Computed
    <3>2. Result(x) \in 1..Len(s.txn)
      <4>1. RightMessage(d, x, s, ap) /\ x \in Messages
        BY <2>2, Places, ElementsFacts DEF Everywhere, Sound, Carries, RightMessages
      <4>2. x.batch \in Seq(Nat) /\ x.batch # << >>
        BY <4>1 DEF RightMessage, Messages, Requests, Notices, Answers, Puts
      <4>3. Carried(x) # {}
        BY <4>2, ElementsFacts DEF Carried
      <4> QED
        BY <1>1, <1>11, <2>2, <4>3
    <3> QED
      BY <1>10, <3>1, <3>2
  <2> QED
    BY <1>8, <2>1, <2>2
<1>18. Straight(r.feed, Road(r, l))
  <2>1. ~Opens(m) /\ ~Fetches(m)
    BY <1>4 DEF Opens, Fetches, Asking
  <2> QED
    BY <1>6, <1>8, <1>12, <2>1, StraightMore DEF Steady
<1>19. Heard(r, l.dn)
  <2> SUFFICES ASSUME NEW j \in 1..Len(l.dn), Accepts(l.dn[j])
               PROVE  Hears(l.dn, j, r.cache, r.txn[Result(l.dn[j])].out)
    BY DEF Heard
  <2>1. l.dn[j] \in Elements(Path(s, l))
    <3>1. l.dn[j] \in Elements(l.dn)
      BY DEF Elements
    <3> QED
      BY <3>1, Places DEF Everywhere
  <2>2. Result(l.dn[j]) \in 1..Len(s.txn)
    BY <1>1, <1>11, <2>1 DEF Accepts
  <2> QED
    BY <1>10, <1>12, <2>2 DEF Steady, Heard
<1>20. Running(r) = {}
  <2>1. ASSUME NEW t \in Elements(s.queue)
        PROVE  r.txn[t].status # "run"
    <3>1. t \in 1..Len(s.txn) /\ s.txn[t] \in Transactions
      BY <1>1, OfNat
    <3>2. r.txn[t] = Attempted(s.txn[t])
      BY <1>2, <3>1 DEF Launched
    <3> QED
      BY <3>1, <3>2 DEF Attempted, Transactions
  <2> QED
    BY <1>12, <2>1 DEF Running
<1> QED
  BY <1>12, <1>13, <1>14, <1>15, <1>16, <1>17, <1>18, <1>19, <1>20
  DEF Paced, Steady, Ordered, Patient

(* What is run again knows the comments, and nothing else is outstanding.  *)
LEMMA RerunSteady ==
  ASSUME NEW d, NEW s \in Phone, NEW l \in Line, NEW ap, NEW w, Sound(d, s, l, ap, w),
         Steady(s, l, w), Outstanding(s) = {}, NEW r, r = Rerun(s)
  PROVE  /\ r \in Phone /\ Sound(d, r, l, ap, w) /\ Ready(r) /\ Steady(r, l, w)
         /\ Running(r) = Elements(r.queue)
         /\ r.queue # << >> =>
              /\ r.txn[Final(r.queue)].out
                   = Plus(Latest(r, Elements(r.queue)), Len(r.queue))
              /\ \A y : After(r.writes, Final(r.queue), y) => y \in Comments
<1> DEFINE again == Only(s.queue, Again(s))
           front == Without(s.writes, Gone(s) \cup Again(s))
           base == Latest(s, Elements(s.queue))
<1>1. /\ s.queue \in Seq(Nat) /\ s.writes \in Seq(Nat \cup Comments)
      /\ Elements(s.writes) \ Comments \subseteq 1..Len(s.txn)
      /\ Elements(s.queue) \subseteq Of(s.txn, d) /\ Of(s.txn, d) \subseteq 1..Len(s.txn)
      /\ Elements(s.queue) \cap Comments = {}
  <2>1. s.queue \in Seq(Nat) /\ s.writes \in Seq(Nat \cup Comments)
    BY DEF Phone
  <2>2. Elements(s.writes) \ Comments \subseteq 1..Len(s.txn)
    BY DEF Sound, Listed, UnderWay
  <2>3. Elements(s.queue) \subseteq Of(s.txn, d)
    BY DEF Sound, Queued
  <2> QED
    BY <2>1, <2>2, <2>3, OfNat
<1>2. Elements(s.queue) \subseteq 1..Len(s.txn)
  BY <1>1
<1>3. r \in Phone /\ Reran(s, r)
  BY <1>1, <1>2, RerunFacts
<1>4. Sound(d, r, l, ap, w) /\ Ready(r)
  BY <1>3, RerunSound
<1>5. /\ r.queue = Without(s.queue, Gone(s)) /\ r.writes = front \o again
      /\ Again(s) = Elements(again)
      /\ \A t \in Again(s) : \E k \in 1..Len(again) :
           again[k] = t /\ r.txn[t].out = Plus(base, k)
      /\ \A t \in 1..Len(s.txn) : t \notin Again(s) => r.txn[t].out = s.txn[t].out
  <2>1. RanAgain(s, r)
    BY <1>2, <1>3, RerunOuts
  <2> QED
    BY <2>1, Zenon DEF RanAgain
<1>6. /\ again \in Seq(Nat) /\ front \in Seq(Nat \cup Comments)
      /\ Elements(front) = Elements(s.writes) \ (Gone(s) \cup Again(s))
      /\ again \in Seq(Nat \cup Comments)
  <2>1. again \in Seq(Nat)
    BY <1>1, ElementsOnly
  <2>2. again \in Seq(Nat \cup Comments)
    BY <2>1, SeqMonotonic
  <2> QED
    BY <1>1, <2>1, <2>2, ElementsWithout
<1>7. Elements(s.queue) = Gone(s) \cup Again(s) /\ Gone(s) \cap Again(s) = {}
  <2>1. \A t \in Elements(s.queue) : s.txn[t].status \in {"run", "needsAbort"}
    BY DEF Outstanding, Sound, Queued
  <2> QED
    BY <2>1 DEF Gone, Again, Tired
<1>8. r.queue = again
  <2>1. \A x \in Elements(s.queue) : x \in Elements(s.queue) \ Gone(s) <=> x \in Again(s)
    BY <1>7
  <2>2. Only(s.queue, Elements(s.queue) \ Gone(s)) = Only(s.queue, Again(s))
    BY <1>1, <2>1, OnlySame
  <2> QED
    BY <1>5, <2>2 DEF Without
<1>9. Distinct(again)
  BY <1>1, DistinctOnly DEF Steady
<1> HIDE DEF again, front
<1>10. r.cache = s.cache /\ r.feed = s.feed /\ r.puts = s.puts
  BY <1>3 DEF Reran
<1>11. Running(r) = Elements(r.queue)
  <2>1. ASSUME NEW t \in Again(s)
        PROVE  r.txn[t].status = "run"
    <3>1. t \in 1..Len(s.txn) /\ s.txn[t] \in Transactions /\ s.txn[t].status = "run"
      BY <1>1, OfNat DEF Again
    <3>2. PICK o : r.txn[t] = [s.txn[t] EXCEPT !.out = o]
      BY <1>3, <3>1 DEF Reran
    <3> QED
      BY <3>1, <3>2 DEF Transactions
  <2> QED
    BY <1>5, <1>8, <2>1 DEF Running
<1>12. Remarks(r) = Remarks(s)
  <2>1. Elements(r.writes) = Elements(front) \cup Elements(again)
    BY <1>5, <1>6, ElementsConcat
  <2>2. Elements(s.queue) \cap Comments = {}
    BY <1>1
  <2> QED
    BY <1>5, <1>6, <1>7, <2>1, <2>2 DEF Remarks
<1>13. \A x, y : After(r.writes, x, y) <=>
         After(front, x, y) \/ After(again, x, y) \/ (x \in Elements(front) /\ y \in Elements(again))
  BY <1>5, <1>6, AfterConcat
<1>14. \A x, y : After(front, x, y) => After(s.writes, x, y)
  BY <1>1, AfterWithout DEF front
<1>15. base \in Node /\ Remarks(s) \subseteq base.comments
  <2>1. base \in Node
    BY <1>1, LatestType
  <2> QED
    BY <1>1, <2>1, LatestFacts DEF Steady
<1> HIDE DEF base
<1>16. Known(r)
  <2> SUFFICES ASSUME NEW x, NEW y, After(r.writes, x, y), x \in Comments, y \notin Comments
               PROVE  x \in r.txn[y].out.comments
    BY DEF Known
  <2>1. x \in Remarks(s)
    BY <1>12, AfterIn DEF Remarks
  <2>2. CASE y \in Again(s)
    <3>1. PICK k \in 1..Len(again) : r.txn[y].out = Plus(base, k)
      BY <1>5, <2>2
    <3>2. k \in Int
      BY <3>1
    <3>3. Plus(base, k).comments = base.comments
      BY <1>15, <3>2, WithPlus
    <3> QED
      BY <1>15, <2>1, <3>1, <3>3
  <2>3. CASE y \notin Again(s)
    <3>1. After(s.writes, x, y)
      BY <1>5, <1>13, <1>14, <2>3, AfterIn
    <3>2. y \in 1..Len(s.txn)
      BY <1>1, <3>1, AfterIn
    <3> QED
      BY <1>5, <2>3, <3>1, <3>2 DEF Steady, Known
  <2> QED
    BY <2>2, <2>3
<1>17. Path(r, l) = Path(s, l) /\ Road(r, l) = Road(s, l)
  BY <1>10 DEF Path, Road, Asks
<1>18. \A x \in Elements(Path(s, l)) :
         /\ ~Touches(x, s)
         /\ Carried(x) # {} => r.txn[Result(x)].out = s.txn[Result(x)].out
  <2> TAKE x \in Elements(Path(s, l))
  <2>1. /\ Carried(x) # {} => Result(x) \in Carried(x)
        /\ \A t \in Carried(x) : t \in Of(s.txn, d) /\ s.txn[t].status \in Pending
        /\ Touches(x, s) => Outstanding(s) # {}
    BY SoundPath DEF RightPath
  <2>2. \A t \in Carried(x) : t \in 1..Len(s.txn) /\ t \notin Again(s)
    BY <1>1, <2>1 DEF Again, Pending
  <2> QED
    BY <1>5, <2>1, <2>2
<1>19. OnTop(r, Path(r, l))
  <2>1. \A x : Touches(x, r) => Touches(x, s)
    BY <1>5, <1>7, <1>8 DEF Touches
  <2> QED
    BY <1>17, <1>18, <2>1 DEF OnTop
<1>20. Ahead(r, Path(r, l))
  <2> SUFFICES ASSUME NEW x, NEW y, After(Path(s, l), x, y), Carried(y) # {}
               PROVE  Mentioned(x) \cap Remarks(r) \subseteq r.txn[Result(y)].out.comments
    BY <1>17 DEF Ahead
  <2>1. y \in Elements(Path(s, l))
    BY AfterIn
  <2> QED
    BY <1>12, <1>18, <2>1 DEF Steady, Ordered, Ahead
<1>21. Computed(r, Path(r, l))
  <2> SUFFICES ASSUME NEW x \in Elements(Path(s, l)), x.type = "put"
               PROVE  /\ x.data = Plus(x.hash, Len(x.batch)) /\ x.data = r.txn[Result(x)].out
                      /\ Distinct(x.batch)
    BY <1>17 DEF Computed
  <2>1. RightMessage(d, x, s, ap) /\ x \in Messages
    BY Places, ElementsFacts DEF Everywhere, Sound, Carries, RightMessages
  <2>2. x.batch \in Seq(Nat) /\ x.batch # << >>
    BY <2>1 DEF RightMessage, Messages, Requests, Notices, Answers, Puts
  <2>3. Carried(x) # {}
    BY <2>2, ElementsFacts DEF Carried
  <2> QED
    BY <1>18, <2>3 DEF Steady, Ordered, Computed
<1>22. Heard(r, l.dn)
  <2> SUFFICES ASSUME NEW j \in 1..Len(l.dn), Accepts(l.dn[j])
               PROVE  Hears(l.dn, j, r.cache, r.txn[Result(l.dn[j])].out)
    BY DEF Heard
  <2>1. l.dn[j] \in Elements(Path(s, l))
    <3>1. l.dn[j] \in Elements(l.dn)
      BY DEF Elements
    <3> QED
      BY <3>1, Places DEF Everywhere
  <2>2. r.txn[Result(l.dn[j])].out = s.txn[Result(l.dn[j])].out
    BY <1>18, <2>1 DEF Accepts
  <2> QED
    BY <1>10, <2>2 DEF Steady, Heard
<1>23. Steady(r, l, w)
  BY <1>8, <1>9, <1>10, <1>16, <1>17, <1>19, <1>20, <1>21, <1>22 DEF Steady, Ordered
<1>24. ASSUME r.queue # << >>
       PROVE  /\ r.txn[Final(r.queue)].out
                   = Plus(Latest(r, Elements(r.queue)), Len(r.queue))
              /\ \A y : After(r.writes, Final(r.queue), y) => y \in Comments
  <2> DEFINE o == Final(again)
  <2>1. o \in Elements(again) /\ Len(again) \in 1..Len(again) /\ again[Len(again)] = o
    <3>1. o \in Elements(again)
      BY <1>6, <1>8, <1>24, FinalIn
    <3>2. Len(again) \in 1..Len(again)
      BY <1>6, <1>8, <1>24
    <3> QED
      BY <3>1, <3>2 DEF Final
  <2> HIDE DEF o
  <2>2. r.txn[o].out = Plus(base, Len(again))
    <3>1. PICK k \in 1..Len(again) : again[k] = o /\ r.txn[o].out = Plus(base, k)
      BY <1>5, <2>1
    <3>2. k = Len(again)
      BY <1>9, <2>1, <3>1 DEF Distinct
    <3> QED
      BY <3>1, <3>2
  <2>3. ~\E y : After(r.writes, o, y)
    <3> SUFFICES ASSUME NEW y, After(r.writes, o, y)
                 PROVE  FALSE
      OBVIOUS
    <3>1. o \notin Elements(front)
      BY <1>5, <1>6, <2>1
    <3>2. After(again, o, y)
      BY <1>13, <3>1, AfterIn
    <3>3. PICK i, j \in 1..Len(again) : i < j /\ again[i] = o /\ again[j] = y
      BY <3>2 DEF After
    <3>4. i = Len(again)
      BY <1>9, <2>1, <3>3 DEF Distinct
    <3> QED
      BY <3>3, <3>4
  <2>4. Latest(r, Elements(r.queue)) = base
    <3>1. Without(s.writes, Elements(s.queue)) = front
      BY <1>7 DEF front
    <3>2. Without(r.writes, Elements(r.queue)) = front
      <4> DEFINE keep == Elements(r.writes) \ Elements(r.queue)
      <4>1. Elements(again) \cap keep = {} /\ Elements(front) \subseteq keep
        <5>1. Elements(r.writes) = Elements(front) \cup Elements(again)
          BY <1>5, <1>6, ElementsConcat
        <5>2. Elements(front) \cap Elements(again) = {}
          BY <1>5, <1>6
        <5> QED
          BY <1>8, <5>1, <5>2
      <4> HIDE DEF keep
      <4>2. Only(front \o again, keep) = Only(front, keep)
        BY <1>6, <4>1, OnlyFront
      <4>3. Only(front, keep) = front
        BY <1>6, <4>1, OnlyAll
      <4> QED
        BY <1>5, <4>2, <4>3 DEF keep, Without
    <3>3. \A t \in Elements(front) \ Comments : r.txn[t].out = s.txn[t].out
      BY <1>1, <1>5, <1>6
    <3>4. Latest(r, Elements(r.queue)) = Latest(s, Elements(s.queue))
      BY <1>6, <1>10, <3>1, <3>2, <3>3, LatestSame
    <3> QED
      BY <3>4 DEF base
  <2> QED
    BY <1>8, <2>2, <2>3, <2>4 DEF o
<1> QED
  BY <1>3, <1>4, <1>11, <1>23, <1>24

(* The end of a handler that leaves nothing outstanding in the queue.      *)
LEMMA ResentSteady ==
  ASSUME NEW d, NEW s \in Phone, NEW l \in Line, NEW ap, NEW w, Sound(d, s, l, ap, w),
         Steady(s, l, w), Outstanding(s) = {}, NEW r, Resent(s, r)
  PROVE  Paced(d, r, l, w)
<1>1. PICK a : a = Rerun(s) /\ r = SendReady(a)
  BY DEF Resent
<1>2. /\ a \in Phone /\ Sound(d, a, l, ap, w) /\ Ready(a) /\ Steady(a, l, w)
      /\ Running(a) = Elements(a.queue)
      /\ a.queue # << >> =>
           /\ a.txn[Final(a.queue)].out = Plus(Latest(a, Elements(a.queue)), Len(a.queue))
           /\ \A y : After(a.writes, Final(a.queue), y) => y \in Comments
  BY <1>1, RerunSteady
<1>3. CASE a.queue = << >>
  <2>1. r = a
    BY <1>1, <1>3 DEF SendReady
  <2>2. Running(a) = {}
    BY <1>2, <1>3, ElementsFacts
  <2> QED
    BY <1>2, <2>1, <2>2 DEF Paced, Patient
<1>4. CASE a.queue # << >>
  <2>1. Waits(a)
    BY <1>2, <1>4 DEF Waits, Running
  <2> QED
    BY <1>1, <1>2, <1>4, <2>1, SendSteady
<1> QED
  BY <1>3, <1>4

(* With nothing that waits there is nothing to be patient about.           *)
LEMMA SteadyPaced ==
  ASSUME NEW d, NEW s, NEW l, NEW w, Steady(s, l, w), Running(s) = {}
  PROVE  Paced(d, s, l, w)
BY DEF Paced, Patient

(* What aborting does to the order of writes.                              *)
LEMMA AbortWrites ==
  ASSUME NEW s \in Phone, NEW r, r = Abort(s)
  PROVE  r.writes = Without(s.writes, Dropped(s)) /\ r.queue = Only(s.queue, Marked(s))
<1> DEFINE sent == {t \in Elements(s.queue) : s.txn[t].status = "sent"}
           told == {t \in Elements(s.queue) :
                      s.txn[t].status \notin {"sent", "sentNeedsAbort"}}
           after == Forget(s, told)
           x == [t \in DOMAIN s.txn |->
                   IF t \in sent
                   THEN [s.txn[t] EXCEPT !.status = "sentNeedsAbort", !.why = "set"]
                   ELSE IF t \in told
                   THEN [s.txn[t] EXCEPT !.status = "completed", !.told = "set"]
                   ELSE s.txn[t]]
<1>1. r = [after EXCEPT !.queue = Only(@, sent), !.txn = x]
  BY DEF Abort
<1>2. sent = Marked(s) /\ told = Dropped(s)
  BY DEF Marked, Dropped
<1> HIDE DEF sent, told, x
<1>3. after \in Phone /\ after.queue = s.queue
  BY ForgetFacts
<1>4. after.writes = Without(s.writes, told)
  BY DEF Forget, Phone
<1> HIDE DEF after
<1> QED
  BY <1>1, <1>2, <1>3, <1>4 DEF Phone

(* After a comment nothing waits any more.                                 *)
LEMMA AbortSteady ==
  ASSUME NEW d, NEW s \in Phone, NEW l \in Line, NEW ap, NEW w, Sound(d, s, l, ap, w),
         Steady(s, l, w), NEW r, r = Abort(s),
         \A t \in Elements(s.queue) : s.txn[t].status # "needsAbort"
  PROVE  /\ Paced(d, r, l, w)
         /\ \A t \in Elements(r.queue) : r.txn[t].status = "sentNeedsAbort"
<1>1. /\ s.queue \in Seq(Nat) /\ s.writes \in Seq(Nat \cup Comments)
      /\ Elements(s.writes) \ Comments \subseteq Of(s.txn, d)
      /\ Elements(s.queue) \subseteq Of(s.txn, d) /\ Of(s.txn, d) \subseteq 1..Len(s.txn)
  <2>1. s.queue \in Seq(Nat) /\ s.writes \in Seq(Nat \cup Comments)
    BY DEF Phone
  <2>2. Elements(s.writes) \ Comments \subseteq Of(s.txn, d)
    BY DEF Sound, Listed, UnderWay, Of
  <2>3. Elements(s.queue) \subseteq Of(s.txn, d)
    BY DEF Sound, Queued
  <2> QED
    BY <2>1, <2>2, <2>3, OfNat
<1>2. r \in Phone /\ Aborted(s, r)
  BY AbortFacts
<1>3. r.writes = Without(s.writes, Dropped(s)) /\ r.queue = Only(s.queue, Marked(s))
  BY AbortWrites
<1>4. /\ r.cache = s.cache /\ r.feed = s.feed /\ r.puts = s.puts
      /\ Elements(r.queue) = Marked(s) /\ Elements(r.writes) = Elements(s.writes) \ Dropped(s)
  BY <1>2 DEF Aborted
<1>5. ASSUME NEW t \in 1..Len(s.txn)
      PROVE  r.txn[t].out = s.txn[t].out
  <2>1. s.txn[t] \in Transactions
    BY ElementOfSeq DEF Phone
  <2>2. \/ r.txn[t] = [s.txn[t] EXCEPT !.status = "sentNeedsAbort", !.why = "set"]
        \/ r.txn[t] = [s.txn[t] EXCEPT !.status = "completed", !.told = "set"]
        \/ r.txn[t] = s.txn[t]
    BY <1>2 DEF Aborted
  <2> QED
    BY <2>1, <2>2 DEF Transactions
<1>6. \A t \in Elements(r.queue) : r.txn[t].status = "sentNeedsAbort"
  <2> SUFFICES ASSUME NEW t \in Marked(s)
               PROVE  r.txn[t].status = "sentNeedsAbort"
    BY <1>4
  <2>1. t \in 1..Len(s.txn) /\ s.txn[t] \in Transactions
    BY <1>1, OfNat DEF Marked
  <2>2. r.txn[t] = [s.txn[t] EXCEPT !.status = "sentNeedsAbort", !.why = "set"]
    BY <1>2, <2>1 DEF Aborted
  <2> QED
    BY <2>1, <2>2 DEF Transactions
<1>7. \A x, y : After(r.writes, x, y) =>
        After(s.writes, x, y) /\ x \notin Dropped(s) /\ y \notin Dropped(s)
  BY <1>1, <1>3, AfterWithout
<1>8. Distinct(r.queue)
  BY <1>1, <1>3, DistinctOnly DEF Steady
<1>9. Known(r)
  <2> SUFFICES ASSUME NEW x, NEW y, After(r.writes, x, y), x \in Comments, y \notin Comments
               PROVE  x \in r.txn[y].out.comments
    BY DEF Known
  <2>1. After(s.writes, x, y) /\ y \in 1..Len(s.txn)
    BY <1>1, <1>7, AfterIn
  <2> QED
    BY <1>5, <2>1 DEF Steady, Known
<1>10. Path(r, l) = Path(s, l) /\ Road(r, l) = Road(s, l)
  BY <1>4 DEF Path, Road, Asks
<1>11. \A x \in Elements(Path(s, l)) :
         Carried(x) # {} => Result(x) \in 1..Len(s.txn)
  BY <1>1, SoundPath DEF RightPath
<1>12. OnTop(r, Path(r, l))
  <2> SUFFICES ASSUME NEW x \in Elements(Path(s, l)), Touches(x, r), NEW y,
                      After(r.writes, Result(x), y)
               PROVE  y \in Comments
    BY <1>10 DEF OnTop
  <2>1. Touches(x, s)
    BY <1>4 DEF Touches, Marked
  <2>2. After(s.writes, Result(x), y) /\ y \notin Dropped(s)
    BY <1>7
  <2>3. y \in Comments \cup Running(s)
    BY <2>1, <2>2 DEF Steady, Ordered, OnTop
  <2>4. Running(s) \subseteq Dropped(s)
    BY DEF Running, Dropped
  <2> QED
    BY <2>2, <2>3, <2>4
<1>13. Ahead(r, Path(r, l))
  <2> SUFFICES ASSUME NEW x, NEW y, After(Path(s, l), x, y), Carried(y) # {}
               PROVE  Mentioned(x) \cap Remarks(r) \subseteq r.txn[Result(y)].out.comments
    BY <1>10 DEF Ahead
  <2>1. Result(y) \in 1..Len(s.txn)
    BY <1>11, AfterIn
  <2>2. Remarks(r) \subseteq Remarks(s)
    BY <1>4 DEF Remarks
  <2> QED
    BY <1>5, <2>1, <2>2 DEF Steady, Ordered, Ahead
<1>14. Computed(r, Path(r, l))
  <2> SUFFICES ASSUME NEW x \in Elements(Path(s, l)), x.type = "put"
               PROVE  /\ x.data = Plus(x.hash, Len(x.batch)) /\ x.data = r.txn[Result(x)].out
                      /\ Distinct(x.batch)
    BY <1>10 DEF Computed
  <2>1. RightMessage(d, x, s, ap) /\ x \in Messages
    BY Places, ElementsFacts DEF Everywhere, Sound, Carries, RightMessages
  <2>2. x.batch \in Seq(Nat) /\ x.batch # << >>
    BY <2>1 DEF RightMessage, Messages, Requests, Notices, Answers, Puts
  <2>3. Carried(x) # {}
    BY <2>2, ElementsFacts DEF Carried
  <2> QED
    BY <1>5, <1>11, <2>3 DEF Steady, Ordered, Computed
<1>15. Heard(r, l.dn)
  <2> SUFFICES ASSUME NEW j \in 1..Len(l.dn), Accepts(l.dn[j])
               PROVE  Hears(l.dn, j, r.cache, r.txn[Result(l.dn[j])].out)
    BY DEF Heard
  <2>1. l.dn[j] \in Elements(Path(s, l))
    <3>1. l.dn[j] \in Elements(l.dn)
      BY DEF Elements
    <3> QED
      BY <3>1, Places DEF Everywhere
  <2>2. Result(l.dn[j]) \in 1..Len(s.txn)
    BY <1>11, <2>1 DEF Accepts
  <2> QED
    BY <1>4, <1>5, <2>2 DEF Steady, Heard
<1>16. Running(r) = {}
  BY <1>6 DEF Running
<1>17. Steady(r, l, w)
  BY <1>4, <1>8, <1>9, <1>10, <1>12, <1>13, <1>14, <1>15 DEF Steady, Ordered
<1> QED
  BY <1>6, <1>16, <1>17, SteadyPaced


-----------------------------------------------------------------------------
(* The answer that is handled.                                             *)

(* Taking it keeps the order of the rest, which comes after it.            *)
LEMMA TookPath ==
  ASSUME NEW s \in Phone, NEW l \in Line, NEW m \in Answers, NEW k \in Line, Took(m, l, k)
  PROVE  /\ m \in Elements(Path(s, l)) /\ Follows(Path(s, k), Path(s, l))
         /\ Elements(Path(s, k)) \subseteq Elements(Path(s, l))
         /\ \A y \in Elements(Path(s, k)) : After(Path(s, l), m, y) \/ y \in Elements(l.hd)
         /\ Elements(Road(s, k)) \subseteq Elements(Road(s, l))
         /\ \A f : Straight(f, Road(s, l)) => Straight(f, Road(s, k))
         /\ k.hd = l.hd /\ Elements(k.td) \subseteq Elements(l.td) /\ Asks(s, k) = Asks(s, l)
<1>1. Asks(s, k) = Asks(s, l) /\ k.hd = l.hd
  BY DEF Took, Asks
<1>2. PICK a, h, c, e : a = Asks(s, l) /\ h = l.hd /\ c = l.dn /\ e = l.td
  OBVIOUS
<1>3. /\ a \in Seq(Messages) /\ h \in Seq(Messages) /\ c \in Seq(Messages)
      /\ e \in Seq(Messages) /\ Path(s, l) = e \o (h \o (c \o a)) /\ Road(s, l) = c \o a
      /\ Path(s, l) \in Seq(Messages) /\ Road(s, l) \in Seq(Messages)
      /\ h \o (c \o a) \in Seq(Messages)
      /\ Elements(Path(s, l)) = Everywhere(s, l)
      /\ Elements(Road(s, l)) = Elements(c) \cup Elements(a)
  BY <1>2, Places DEF Path, Road
<1>4. CASE l.td # << >> /\ m = Head(l.td) /\ k.td = Tail(l.td) /\ k.dn = l.dn
  <2>1. PICK p : p = h \o (c \o a)
    OBVIOUS
  <2>2. /\ p \in Seq(Messages) /\ Path(s, l) = e \o p /\ Path(s, k) = Tail(e) \o p
        /\ e # << >> /\ m = Head(e) /\ Road(s, k) = Road(s, l)
    BY <1>1, <1>2, <1>3, <1>4, <2>1 DEF Path, Road
  <2>3. /\ Tail(e) \in Seq(Messages) /\ Elements(e) = Elements(Tail(e)) \cup {m}
        /\ \A y \in Elements(Tail(e)) : After(e, m, y)
    BY <1>3, <2>2, ElementsTail, AfterTail
  <2>4. /\ Elements(e \o p) = Elements(e) \cup Elements(p)
        /\ Elements(Tail(e) \o p) = Elements(Tail(e)) \cup Elements(p)
        /\ \A x, y : After(e \o p, x, y) <=>
             After(e, x, y) \/ After(p, x, y) \/ (x \in Elements(e) /\ y \in Elements(p))
    <3>1. PICK t : t = Tail(e)
      OBVIOUS
    <3>2. t \in Seq(Messages) /\ e \in Seq(Messages) /\ p \in Seq(Messages)
      BY <1>3, <2>2, <2>3, <3>1
    <3>3. Elements(e \o p) = Elements(e) \cup Elements(p)
      BY <3>2, ElementsConcat
    <3>4. Elements(t \o p) = Elements(t) \cup Elements(p)
      BY <3>2, ElementsConcat
    <3>5. \A x, y : After(e \o p, x, y) <=>
            After(e, x, y) \/ After(p, x, y) \/ (x \in Elements(e) /\ y \in Elements(p))
      BY <3>2, AfterConcat
    <3> QED
      BY <3>1, <3>3, <3>4, <3>5
  <2>5. Follows(Path(s, k), Path(s, l))
    <3>1. Follows(Tail(e), e) /\ Follows(p, p)
      BY <1>3, <2>2, FollowsTail, FollowsRefl
    <3>2. PICK t : t = Tail(e)
      OBVIOUS
    <3>3. t \in Seq(Messages) /\ e \in Seq(Messages) /\ p \in Seq(Messages)
      BY <1>3, <2>2, <2>3, <3>2
    <3>4. Follows(t, e) /\ Follows(p, p)
      BY <3>1, <3>2
    <3>5. Follows(t \o p, e \o p)
      BY <3>3, <3>4, FollowsConcat
    <3> QED
      BY <2>2, <3>2, <3>5
  <2> QED
    BY <1>1, <1>2, <1>4, <2>2, <2>3, <2>4, <2>5
<1>5. CASE l.td = << >> /\ l.dn # << >> /\ m = Head(l.dn) /\ k.dn = Tail(l.dn) /\ k.td = l.td
  <2>1. PICK p, q : p = c \o a /\ q = Tail(c) \o a
    OBVIOUS
  <2>2. Tail(c) \in Seq(Messages) /\ c # << >> /\ m = Head(c)
    BY <1>2, <1>3, <1>5, ElementsTail
  <2>3. p \in Seq(Messages) /\ q \in Seq(Messages) /\ p # << >> /\ q = Tail(p) /\ m = Head(p)
    <3>1. Tail(c \o a) = Tail(c) \o a /\ Head(c \o a) = Head(c) /\ c \o a # << >>
          /\ c \o a \in Seq(Messages) /\ Tail(c) \o a \in Seq(Messages)
      BY <1>3, <2>2
    <3> QED
      BY <2>1, <2>2, <3>1
  <2>4. e = << >> /\ Path(s, l) = h \o p /\ Path(s, k) = h \o q /\ Road(s, l) = p
        /\ Road(s, k) = q
    <3>1. e = << >> /\ Road(s, l) = p /\ Road(s, k) = q
      BY <1>1, <1>2, <1>3, <1>5, <2>1 DEF Road
    <3>2. << >> \o (h \o p) = h \o p /\ << >> \o (h \o q) = h \o q
      BY <1>3, <2>3
    <3> QED
      BY <1>1, <1>2, <1>5, <3>1, <3>2 DEF Path
  <2>5. /\ Elements(p) = Elements(q) \cup {m}
        /\ \A y \in Elements(q) : After(p, m, y)
        /\ \A f : Straight(f, p) => Straight(f, q)
    BY <2>3, ElementsTail, AfterTail, StraightTail
  <2>6. /\ Elements(h \o p) = Elements(h) \cup Elements(p)
        /\ Elements(h \o q) = Elements(h) \cup Elements(q)
        /\ \A x, y : After(h \o p, x, y) <=>
             After(h, x, y) \/ After(p, x, y) \/ (x \in Elements(h) /\ y \in Elements(p))
    <3>1. Elements(h \o p) = Elements(h) \cup Elements(p)
      BY <1>3, <2>3, ElementsConcat
    <3>2. Elements(h \o q) = Elements(h) \cup Elements(q)
      <4>1. h \in Seq(Messages) /\ q \in Seq(Messages)
        BY <1>3, <2>3
      <4> QED
        BY <4>1, ElementsConcat
    <3>3. \A x, y : After(h \o p, x, y) <=>
            After(h, x, y) \/ After(p, x, y) \/ (x \in Elements(h) /\ y \in Elements(p))
      BY <1>3, <2>3, AfterConcat
    <3> QED
      BY <3>1, <3>2, <3>3
  <2>7. Follows(Path(s, k), Path(s, l))
    <3>1. Follows(q, p) /\ Follows(h, h)
      BY <2>3, FollowsTail, FollowsRefl
    <3> QED
      BY ZenonT(30), <1>3, <2>3, <2>4, <3>1, FollowsConcat
  <2> QED
    BY <1>1, <1>2, <1>5, <2>4, <2>5, <2>6, <2>7
<1> QED
  BY <1>4, <1>5 DEF Took

(* What is heard, when the results are the same.                           *)
LEMMA HeardSame ==
  ASSUME NEW s, NEW r, NEW q, Heard(s, q), r.cache = s.cache,
         \A m \in Elements(q) : Accepts(m) => r.txn[Result(m)].out = s.txn[Result(m)].out
  PROVE  Heard(r, q)
<1>1. \A j \in 1..Len(q) : q[j] \in Elements(q)
  BY DEF Elements
<1> QED
  BY <1>1 DEF Heard

(* What was heard is still right when the first message has been taken.    *)
LEMMA HeardTail ==
  ASSUME NEW s, NEW r, NEW S, NEW q \in Seq(S), q # << >>, Heard(s, q),
         r.cache = IF Speaks(Head(q)) THEN Word(Head(q)) ELSE s.cache,
         \A m \in Elements(q) : Accepts(m) => r.txn[Result(m)].out = s.txn[Result(m)].out
  PROVE  Heard(r, Tail(q))
<1> DEFINE p == Tail(q)
<1>1. /\ p \in Seq(S) /\ Len(q) \in Nat \ {0} /\ Len(p) = Len(q) - 1
      /\ \A n \in 1..Len(p) : n + 1 \in 1..Len(q) /\ p[n] = q[n + 1]
  BY TailFacts
<1> SUFFICES ASSUME NEW j \in 1..Len(p), Accepts(p[j])
             PROVE  Hears(p, j, r.cache, r.txn[Result(p[j])].out)
  BY DEF Heard
<1>2. j + 1 \in 1..Len(q) /\ p[j] = q[j + 1] /\ j \in 1..Len(q)
  BY <1>1
<1>3. q[j + 1] \in Elements(q)
  BY <1>2 DEF Elements
<1>4. Hears(q, j + 1, s.cache, s.txn[Result(q[j + 1])].out)
  BY <1>2 DEF Heard
<1>5. r.txn[Result(p[j])].out = s.txn[Result(q[j + 1])].out
  BY <1>2, <1>3
<1>6. PICK v, a, b : v = s.txn[Result(q[j + 1])].out /\ a = s.cache /\ b = r.cache
  OBVIOUS
<1>7. Hears(p, j, b, v)
  BY <1>2, <1>4, <1>6, HearsTail
<1> QED
  BY <1>5, <1>6, <1>7

(* What is sent between handlers: if something waits, it waits for what is *)
(* outstanding.                                                            *)
LEMMA SentOutstanding ==
  ASSUME NEW d, NEW s \in Phone, NEW l, NEW ap, NEW w, Sound(d, s, l, ap, w), Sent(s),
         s.queue # << >>
  PROVE  Outstanding(s) # {}
<1>1. s.queue \in Seq(Nat) /\ Len(s.queue) \in Nat /\ Len(s.queue) # 0
  BY DEF Phone
<1>2. s.queue[1] \in Elements(s.queue)
  BY <1>1 DEF Elements
<1>3. s.txn[s.queue[1]].status \in Pending
  BY <1>2 DEF Sound, Queued, Sent
<1> QED
  BY <1>2, <1>3 DEF Outstanding

(* A transaction that is answered keeps its result.                        *)
LEMMA SettledOut ==
  ASSUME NEW x \in Transactions, NEW status \in {"ok", "datastale", "disconnect"}
  PROVE  /\ Settled(x, status).out = x.out /\ Settled(x, status).dev = x.dev
         /\ Settled(x, status).status \notin Pending
<1>1. CASE status = "ok"
  <2>1. Settled(x, status) = [x EXCEPT !.status = "completed", !.told = "ok"]
    BY <1>1 DEF Settled
  <2> QED
    BY <2>1 DEF Transactions, Pending
<1>2. CASE status = "disconnect"
  <2>1. Settled(x, status) = [x EXCEPT !.status = "needsAbort", !.why = "disconnect"]
    BY <1>2 DEF Settled
  <2> QED
    BY <2>1 DEF Transactions, Pending
<1>3. CASE status = "datastale"
  <2>1. PICK y : y = IF x.status = "sentNeedsAbort" THEN "needsAbort" ELSE "run"
    OBVIOUS
  <2>2. Settled(x, status) = [x EXCEPT !.status = y]
    BY <1>3, <2>1 DEF Settled
  <2> QED
    BY <2>1, <2>2 DEF Transactions, Pending
<1> QED
  BY <1>1, <1>2, <1>3

(* What the answer of a put leaves of the phone: results, and an order of  *)
(* messages in which it is not any more.                                   *)
Relieved(d, m, s, l, r, k) ==
  /\ Mild(d, s, l, r, k) /\ Straight(r.feed, Road(r, k)) /\ Heard(r, k.dn)
  /\ r.cache = s.cache /\ Remarks(r) = Remarks(s)
  /\ \A x \in Elements(Path(r, k)) : Carried(x) \cap Carried(m) = {}
  /\ \A t \in 1..Len(s.txn) : t \notin Carried(m) => r.txn[t] = s.txn[t]
  /\ \A t \in Carried(m) : t \in Of(s.txn, d) /\ r.txn[t].status \notin Pending

(* The answer of a put, taken, relieves the phone of the transactions it   *)
(* carries.                                                                *)
LEMMA PutRelieves ==
  ASSUME NEW d, NEW s \in Phone, NEW l \in Line, NEW ap, NEW w, Sound(d, s, l, ap, w),
         Steady(s, l, w), NEW m \in Answers, NEW k \in Line, Took(m, l, k),
         Head(m.what) \notin Comments, NEW b \in Phone, AnswerNoted(m, s, b)
  PROVE  /\ Relieved(d, m, s, l, b, k)
         /\ Elements(m.what) = Carried(m) /\ Carried(m) # {} /\ Carried(m) \cap Comments = {}
         /\ m \in Elements(Path(s, l)) /\ m.status \in {"ok", "datastale", "disconnect"}
         /\ \A h : Forgotten(b, Elements(m.what), h) =>
              /\ Relieved(d, m, s, l, h, k)
              /\ \A x, y : After(h.writes, x, y) =>
                   After(s.writes, x, y) /\ x \notin Carried(m) /\ y \notin Carried(m)
<1> DEFINE g == Elements(m.what)
<1>1. TakenFrom(d, m, s, l, k, ap) /\ RightMessage(d, m, s, ap)
  <2>1. TakenFrom(d, m, s, l, k, ap)
    BY TookRight
  <2> QED
    BY <2>1 DEF TakenFrom
<1>2. /\ m \in Elements(Path(s, l)) /\ Follows(Path(s, k), Path(s, l))
      /\ \A f : Straight(f, Road(s, l)) => Straight(f, Road(s, k))
      /\ Asks(s, k) = Asks(s, l)
  BY TookPath
<1>3. m.type = "reply" /\ m.what \in Seq(Nat) /\ m.what # << >>
  BY <1>1, AnswerKind DEF Answers
<1>4. g \subseteq Nat /\ g # {} /\ g \cap Comments = {} /\ Carried(m) = g
  <2>1. g \subseteq Nat /\ g # {}
    BY <1>3, ElementsFacts
  <2> QED
    BY <1>3, <2>1, NoComment DEF Carried
<1>5. m.status \in {"ok", "datastale", "disconnect"}
  <2>1. ASSUME NEW c \in Comments, m.what = <<c>>
        PROVE  FALSE
    BY <2>1
  <2> QED
    BY <1>1, <1>3, <2>1 DEF RightMessage
<1>6. /\ \A t \in Carried(m) : t \in Of(s.txn, d)
      /\ \A t \in Carried(m) : b.txn[t].status \notin Pending
      /\ \A t \in 1..Len(s.txn) : b.txn[t].out = s.txn[t].out
      /\ \A t \in 1..Len(s.txn) : t \notin Carried(m) => b.txn[t] = s.txn[t]
  <2>1. \A t \in Carried(m) : t \in Of(s.txn, d)
    BY <1>1 DEF RightMessage
  <2>2. ASSUME NEW t \in 1..Len(s.txn)
        PROVE  /\ b.txn[t].out = s.txn[t].out
               /\ t \in Carried(m) => b.txn[t].status \notin Pending
               /\ t \notin Carried(m) => b.txn[t] = s.txn[t]
    <3>1. s.txn[t] \in Transactions
      BY ElementOfSeq DEF Phone
    <3>2. b.txn[t] = IF t \in Carried(m) THEN Settled(s.txn[t], m.status) ELSE s.txn[t]
      BY <1>4 DEF AnswerNoted
    <3> QED
      BY <1>5, <3>1, <3>2, SettledOut
  <2> QED
    BY <2>1, <2>2 DEF Of
<1>7. \A x \in Elements(Path(s, k)) : Carried(x) \cap Carried(m) = {}
  <2>1. \A x \in Everywhere(s, k) : Carried(x) \cap Carried(m) = {}
    BY <1>1, <1>2 DEF TakenFrom, Everywhere, None
  <2> QED
    BY <2>1, Places
<1>8. Heard(s, k.dn)
  <2>1. CASE k.dn = l.dn
    BY <2>1 DEF Steady
  <2>2. CASE l.dn # << >> /\ m = Head(l.dn) /\ k.dn = Tail(l.dn)
    <3>1. ~Speaks(m)
      BY <1>3 DEF Speaks, Asking
    <3>2. PICK q \in Seq(Notices) : q = l.dn
      BY DEF Line
    <3>3. Heard(s, q) /\ q # << >> /\ ~Speaks(Head(q))
      BY <2>2, <3>1, <3>2 DEF Steady
    <3>4. Heard(s, Tail(q))
      BY <3>3, HeardTail
    <3> QED
      BY <2>2, <3>2, <3>4
  <2> QED
    BY <2>1, <2>2 DEF Took
<1>9. ASSUME NEW r, r.txn = b.txn, r.cache = b.cache, r.feed = b.feed, r.puts = b.puts,
             Elements(r.writes) \subseteq Elements(s.writes),
             Remarks(r) = Remarks(s),
             \A x, y : After(r.writes, x, y) => After(s.writes, x, y)
      PROVE  Relieved(d, m, s, l, r, k)
  <2>1. /\ r.txn = b.txn /\ r.cache = s.cache /\ r.feed = s.feed /\ r.puts = s.puts
    BY <1>9 DEF AnswerNoted
  <2>2. Path(r, k) = Path(s, k) /\ Road(r, k) = Road(s, k)
    BY <2>1 DEF Path, Road, Asks
  <2>3. \A t \in Of(s.txn, d) : r.txn[t].out = s.txn[t].out
    BY <1>6, <2>1 DEF Of
  <2>4. Mild(d, s, l, r, k)
    BY <1>2, <1>9, <2>2, <2>3 DEF Mild
  <2>5. Straight(r.feed, Road(r, k))
    BY <1>2, <2>1, <2>2 DEF Steady
  <2>6. Heard(r, k.dn)
    <3>1. ASSUME NEW x \in Elements(k.dn), Accepts(x)
          PROVE  r.txn[Result(x)].out = s.txn[Result(x)].out
      <4>1. x \in Elements(Path(s, l))
        <5>1. x \in Elements(l.dn)
          BY <1>1 DEF TakenFrom
        <5> QED
          BY <5>1, Places DEF Everywhere
      <4>2. Result(x) \in Of(s.txn, d)
        BY <3>1, <4>1, SoundPath DEF RightPath, Accepts
      <4> QED
        BY <2>3, <4>2
    <3> QED
      BY <1>8, <2>1, <3>1, HeardSame
  <2> QED
    BY <1>6, <1>7, <1>9, <2>1, <2>2, <2>4, <2>5, <2>6 DEF Relieved
<1>10. Relieved(d, m, s, l, b, k)
  BY <1>9 DEF AnswerNoted, Remarks
<1>11. ASSUME NEW h, Forgotten(b, g, h)
       PROVE  /\ Relieved(d, m, s, l, h, k)
              /\ \A x, y : After(h.writes, x, y) =>
                   After(s.writes, x, y) /\ x \notin Carried(m) /\ y \notin Carried(m)
  <2>1. PICK f : f = Forget(b, g)
    OBVIOUS
  <2>2. h = [f EXCEPT !.queue = Without(@, g)]
    BY <1>11, <2>1 DEF Forgotten
  <2>3. f \in Phone
    BY <2>1, ForgetFacts
  <2>4. h.writes = f.writes
    BY <2>2, <2>3 DEF Phone
  <2>5. \A x, y : After(f.writes, x, y) <=> After(b.writes, x, y) /\ x \notin g /\ y \notin g
    BY <2>1, ForgetOrder
  <2>6. /\ h.txn = b.txn /\ h.cache = b.cache /\ h.feed = b.feed /\ h.puts = b.puts
        /\ Elements(h.writes) = Elements(b.writes) \ g
    BY <1>11, ForgottenPhone
  <2>7. b.writes = s.writes
    BY DEF AnswerNoted
  <2>8. Remarks(h) = Remarks(s)
    BY <1>4, <2>6, <2>7 DEF Remarks
  <2>9. \A x, y : After(h.writes, x, y) =>
          After(s.writes, x, y) /\ x \notin Carried(m) /\ y \notin Carried(m)
    BY <1>4, <2>4, <2>5, <2>7
  <2>10. Elements(h.writes) \subseteq Elements(s.writes)
    BY <2>6, <2>7
  <2>11. \A x, y : After(h.writes, x, y) => After(s.writes, x, y)
    BY <2>9
  <2> QED
    BY <1>9, <2>6, <2>8, <2>9, <2>10, <2>11
<1> QED
  BY <1>2, <1>4, <1>5, <1>10, <1>11

(* A phone settles the answer of a put, and what waited is sent, or run    *)
(* again.                                                                  *)
LEMMA PutPaced ==
  ASSUME NEW d, NEW s \in Phone, NEW l \in Line, NEW ap, NEW w, Sound(d, s, l, ap, w),
         Sent(s), Paced(d, s, l, w), NEW m \in Answers, NEW k \in Line, Took(m, l, k),
         NEW r, ResumedFrom(m, s, r), NEW z, Resent(r, z)
  PROVE  Paced(d, z, k, w)
<1>1. PICK b \in Phone : /\ AnswerNoted(m, s, b) /\ r = AfterPut(b, m.status, Elements(m.what))
                         /\ Head(m.what) \notin Comments
  BY DEF ResumedFrom
<1>2. Steady(s, l, w) /\ Patient(d, s, l)
  BY DEF Paced
<1>3. PICK g : g = Elements(m.what)
  OBVIOUS
<1>4. /\ Relieved(d, m, s, l, b, k)
      /\ g = Carried(m) /\ g # {} /\ g \cap Comments = {}
      /\ m \in Elements(Path(s, l)) /\ m.status \in {"ok", "datastale", "disconnect"}
      /\ \A h : Forgotten(b, g, h) =>
           /\ Relieved(d, m, s, l, h, k)
           /\ \A x, y : After(h.writes, x, y) =>
                After(s.writes, x, y) /\ x \notin g /\ y \notin g
  <2>1. /\ Relieved(d, m, s, l, b, k)
        /\ Elements(m.what) = Carried(m) /\ Carried(m) # {} /\ Carried(m) \cap Comments = {}
        /\ m \in Elements(Path(s, l)) /\ m.status \in {"ok", "datastale", "disconnect"}
        /\ \A h : Forgotten(b, Elements(m.what), h) =>
             /\ Relieved(d, m, s, l, h, k)
             /\ \A x, y : After(h.writes, x, y) =>
                  After(s.writes, x, y) /\ x \notin Carried(m) /\ y \notin Carried(m)
    BY <1>1, <1>2, PutRelieves
  <2> QED
    BY <1>3, <2>1
<1>5. r \in Phone /\ Sound(d, r, k, ap, w)
  BY AfterPutKeeps
<1>6. PICK h : Forgotten(b, g, h)
  BY DEF Forgotten
<1>7. /\ h \in Phone /\ h.cache = b.cache /\ h.queue = Without(b.queue, g)
      /\ h.txn = b.txn /\ h.feed = b.feed /\ h.unanswered = b.unanswered
      /\ h.puts = b.puts /\ Elements(h.writes) = Elements(b.writes) \ g
  BY <1>6, ForgottenPhone
<1>8. r = IF m.status = "ok" THEN SendReady(h) ELSE b
  BY <1>1, <1>3, <1>6 DEF AfterPut, Forgotten
<1>9. b.queue = s.queue /\ b.writes = s.writes /\ Len(b.txn) = Len(s.txn)
  BY <1>1 DEF AnswerNoted
<1>10. /\ s.queue \in Seq(Nat) /\ Elements(s.queue) \subseteq Of(s.txn, d)
       /\ Of(s.txn, d) \subseteq 1..Len(s.txn)
       /\ \A t \in Elements(s.queue) : s.txn[t].status \in Pending \cup {"run"}
  <2>1. s.queue \in Seq(Nat)
    BY DEF Phone
  <2>2. \A t \in Elements(s.queue) :
          t \in Of(s.txn, d) /\ s.txn[t].status \in Pending \cup {"run"}
    BY DEF Sound, Queued, Sent
  <2> QED
    BY <2>1, <2>2 DEF Of
<1>11. /\ Elements(h.queue) = Elements(s.queue) \ g /\ h.queue = Without(s.queue, g)
       /\ h.queue \in Seq(Nat)
  BY <1>7, <1>9, <1>10, ElementsWithout
<1>12. \A t \in g : t \in UnderWay(s.txn, d) /\ s.txn[t].status \in Pending
  BY <1>4, SoundPath DEF RightPath
<1>13. Running(s) # {} => Outstanding(s) # {} /\ Rests(d, s, l)
  <2>1. Running(s) # {} => s.queue # << >>
    BY ElementsFacts DEF Running
  <2> QED
    BY <1>2, <2>1, SentOutstanding DEF Patient
<1>14. CASE g \cap Elements(s.queue) = {}
  <2>1. Running(s) = {}
    BY <1>4, <1>12, <1>13, <1>14 DEF Rests
  <2>2. h.queue = s.queue
    <3>1. Without(s.queue, g) = Only(s.queue, Elements(s.queue) \ g)
      BY DEF Without
    <3>2. Elements(s.queue) \subseteq Elements(s.queue) \ g
      BY <1>14
    <3> QED
      BY <1>10, <1>11, <3>1, <3>2, OnlyAll
  <2>3. PICK v \in Phone : v = IF m.status = "ok" THEN h ELSE b
    BY <1>7
  <2>4. /\ Relieved(d, m, s, l, v, k) /\ v.queue = s.queue
        /\ \A t \in Elements(s.queue) : v.txn[t].status \in Pending
        /\ \A t \in Elements(s.queue) : v.txn[t].status = s.txn[t].status
    <3>1. Relieved(d, m, s, l, v, k) /\ v.queue = s.queue
      BY <1>4, <1>6, <1>9, <2>2, <2>3
    <3>2. \A t \in Elements(s.queue) : v.txn[t] = s.txn[t]
      BY <1>4, <1>10, <1>14, <3>1 DEF Relieved
    <3>3. \A t \in Elements(s.queue) : s.txn[t].status \in Pending
      BY <1>10, <2>1 DEF Running
    <3> QED
      BY <3>1, <3>2, <3>3
  <2>5. Calm(d, s, l, v, k)
    BY <2>4 DEF Calm, Relieved
  <2>6. Steady(v, k, w)
    <3>1. Straight(v.feed, Road(v, k)) /\ Heard(v, k.dn) /\ Mild(d, s, l, v, k)
      BY <2>4 DEF Relieved
    <3> QED
      BY <1>2, <2>5, <3>1, CalmSteady
  <2>7. ~Waits(v)
    <3>1. s.queue # << >> => Elements(s.queue) # {}
      BY <1>10, ElementsFacts
    <3> QED
      BY <2>4, <3>1 DEF Waits, Pending
  <2>8. r = v
    BY <1>8, <2>3, <2>7 DEF Waits, SendReady
  <2>9. z = v
    <3>1. \A t \in Elements(v.queue) : v.txn[t].status \notin {"run", "needsAbort"}
      BY <2>4 DEF Pending
    <3> QED
      BY <2>8, <3>1, RerunIdle
  <2>10. Running(v) = {}
    BY <2>4 DEF Running, Pending
  <2> QED
    BY <2>6, <2>9, <2>10, SteadyPaced
<1>15. CASE g \cap Elements(s.queue) # {}
  <2>1. Outstanding(s) # {} /\ Outstanding(s) \subseteq g /\ Touches(m, s)
    BY <1>4, <1>15, SoundPath DEF RightPath, Touches
  <2>2. ASSUME NEW v, Relieved(d, m, s, l, v, k),
               Elements(v.queue) \subseteq Elements(s.queue)
        PROVE  Clear(v, k)
    <3> SUFFICES ASSUME NEW x \in Elements(Path(v, k)), Touches(x, v)
                 PROVE  FALSE
      BY DEF Clear
    <3>1. ~Idle(x)
      BY DEF Touches, Idle
    <3>2. PICK a \in Elements(Path(s, l)) : Like(x, a)
      BY <2>2, <3>1 DEF Relieved, Mild, Follows
    <3>3. Touches(a, s)
      BY <2>2, <3>2 DEF Like, Touches
    <3>4. Outstanding(s) \subseteq Carried(x)
      BY <3>2, <3>3, SoundPath DEF RightPath, Like
    <3> QED
      BY <1>4, <2>1, <2>2, <3>4 DEF Relieved
  <2>3. CASE m.status # "ok"
    <3>1. Clear(b, k)
      BY <1>4, <1>9, <2>2
    <3>2. Steady(b, k, w)
      <4>1. Distinct(b.queue)
        BY <1>2, <1>9 DEF Steady
      <4>2. Straight(b.feed, Road(b, k)) /\ Heard(b, k.dn) /\ Mild(d, s, l, b, k)
        BY <1>4 DEF Relieved
      <4> QED
        BY <1>2, <3>1, <4>1, <4>2, CalmSteady
    <3>3. Outstanding(b) = {}
      <4>1. ASSUME NEW t \in Elements(s.queue), b.txn[t].status \in Pending
            PROVE  FALSE
        <5>1. t \notin g
          BY <1>4, <4>1 DEF Relieved
        <5>2. b.txn[t] = s.txn[t]
          BY <1>4, <1>10, <5>1 DEF Relieved
        <5> QED
          BY <2>1, <4>1, <5>1, <5>2 DEF Outstanding
      <4> QED
        BY <1>9, <4>1 DEF Outstanding
    <3> QED
      BY <1>5, <1>8, <2>3, <3>2, <3>3, ResentSteady
  <2>4. CASE m.status = "ok"
    <3>1. Relieved(d, m, s, l, h, k)
      BY <1>4, <1>6
    <3>2. Steady(h, k, w)
      <4>1. Distinct(h.queue)
        BY <1>2, <1>10, <1>11, DistinctOnly DEF Steady, Without
      <4>2. Straight(h.feed, Road(h, k)) /\ Heard(h, k.dn) /\ Mild(d, s, l, h, k)
        BY <3>1 DEF Relieved
      <4>3. Clear(h, k)
        BY <1>11, <2>2, <3>1
      <4> QED
        BY <1>2, <1>7, <4>1, <4>2, <4>3, CalmSteady
    <3>3. \A t \in Elements(h.queue) : t \notin g /\ t \in Running(s) /\ h.txn[t] = s.txn[t]
      BY <1>4, <1>10, <1>11, <2>1, <3>1 DEF Outstanding, Running, Relieved
    <3>4. Running(s) = Elements(h.queue)
      <4>1. \A t \in Running(s) : t \in Elements(s.queue) /\ t \notin g
        BY <1>12 DEF Running, Pending
      <4> QED
        BY <1>11, <3>3, <4>1
    <3>5. Outstanding(h) = {}
      BY <3>3 DEF Outstanding, Running, Pending
    <3>6. CASE h.queue = << >>
      <4>1. r = h
        BY <1>8, <2>4, <3>6 DEF SendReady
      <4> QED
        BY <1>5, <3>2, <3>5, <4>1, ResentSteady
    <3>7. CASE h.queue # << >>
      <4>1. Running(s) # {} /\ Rests(d, s, l)
        BY <1>11, <1>13, <3>4, <3>7, ElementsFacts
      <4>2. s.cache = s.txn[Result(m)].out
        <5>1. m \notin Elements(l.td)
          BY <1>4, <2>4, <4>1 DEF Rests
        <5>2. l.dn # << >> /\ m = Head(l.dn) /\ l.dn \in Seq(Notices)
          <6>1. l.td \in Seq(Answers) /\ l.dn \in Seq(Notices)
            BY DEF Line
          <6>2. l.td # << >> => Head(l.td) \in Elements(l.td)
            BY <6>1, ElementsTail
          <6> QED
            BY <5>1, <6>1, <6>2 DEF Took
        <5>3. 1 \in 1..Len(l.dn) /\ l.dn[1] = m
          BY <5>2, TailFacts
        <5>4. Accepts(m)
          BY <1>4, <2>4 DEF Accepts, Answers
        <5>5. Hears(l.dn, 1, s.cache, s.txn[Result(m)].out)
          BY <1>2, <5>3, <5>4 DEF Steady, Heard
        <5> QED
          BY <5>5, HearsFirst
      <4>3. Final(s.queue) \in Elements(s.queue) \ g /\ s.queue # << >>
        <5>1. s.queue # << >> /\ Len(s.queue) \in Nat \ {0}
          <6>1. Elements(s.queue) # {}
            BY <4>1 DEF Running
          <6>2. s.queue # << >>
            BY <6>1, ElementsFacts
          <6> QED
            BY <1>10, <6>2
        <5>2. Final(s.queue) \in Elements(s.queue)
          BY <1>10, <5>1, FinalIn
        <5>3. PICK i \in 1..Len(s.queue) : s.txn[s.queue[i]].status = "run"
          BY <4>1 DEF Running, Elements
        <5>4. s.txn[Final(s.queue)].status \notin Pending
          <6>1. CASE i = Len(s.queue)
            BY <5>3, <6>1 DEF Final, Pending
          <6>2. CASE i # Len(s.queue)
            <7>1. i < Len(s.queue) /\ Len(s.queue) \in 1..Len(s.queue)
              BY <5>1, <6>2
            <7> QED
              BY <5>3, <7>1 DEF Sound, Queued, Final, Pending
          <6> QED
            BY <6>1, <6>2
        <5> QED
          BY <1>12, <5>1, <5>2, <5>4
      <4>4. Final(h.queue) = Final(s.queue)
        BY <1>10, <1>11, <4>3, FinalOnly DEF Without
      <4>5. Latest(h, Elements(h.queue)) = With(s.cache, Remarks(s))
        <5>1. PICK ws : ws = Without(h.writes, Elements(h.queue))
          OBVIOUS
        <5>2. h.writes \in Seq(Nat \cup Comments)
          BY <1>7 DEF Phone
        <5>3. Elements(ws) = (Elements(s.writes) \ g) \ Elements(h.queue)
          BY <1>7, <1>9, <5>1, <5>2, ElementsWithout
        <5>4. Elements(ws) \subseteq Comments
          BY <1>11, <4>1, <5>3 DEF Rests, Sound, Listed
        <5>5. /\ Elements(h.writes) \ Comments \subseteq 1..Len(h.txn)
          BY <1>7, <1>9 DEF Sound, Listed, UnderWay
        <5>6. Elements(h.queue) \cap Comments = {}
          BY <1>11, ElementsFacts, NoComment
        <5>7. Known(h)
          BY <3>2 DEF Steady
        <5>8. Latest(h, Elements(h.queue)) = With(h.cache, Remarks(h))
          BY <1>7, <5>1, <5>4, <5>5, <5>6, <5>7, LatestFacts
        <5> QED
          BY <3>1, <5>8 DEF Relieved
      <4>6. Cardinality(Running(s)) = Len(h.queue)
        BY <1>11, <3>2, <3>4, DistinctSize DEF Steady
      <4>7. h.txn[Final(h.queue)].out = Plus(Latest(h, Elements(h.queue)), Len(h.queue))
        <5>1. s.txn[Final(s.queue)].out
                = Plus(With(s.txn[Result(m)].out, Remarks(s)), Cardinality(Running(s)))
          BY <1>4, <2>1, <4>1 DEF Rests
        <5>2. h.txn[Final(s.queue)] = s.txn[Final(s.queue)]
          BY <1>11, <3>3, <4>3
        <5> QED
          BY <4>2, <4>4, <4>5, <4>6, <5>1, <5>2
      <4>8. \A y : After(h.writes, Final(h.queue), y) => y \in Comments
        BY <1>4, <1>6, <4>1, <4>4 DEF Rests
      <4>9. Waits(h) /\ Ready(h) /\ Sound(d, h, k, ap, w)
        <5>1. Waits(h)
          BY <3>3, <3>7 DEF Waits, Running
        <5>2. Settles(m, s, h)
          BY <1>1, <1>3, <1>7, <1>9, <2>4, <1>11 DEF Settles, AnswerNoted
        <5>3. Sound(d, h, k, ap, w) /\ Ready(h)
          BY <1>1, <1>7, <2>4, <5>2, SettleSound
        <5> QED
          BY <5>1, <5>3
      <4>10. r = SendReady(h)
        BY <1>8, <2>4
      <4>11. Paced(d, r, k, w)
        BY <1>7, <3>2, <4>7, <4>8, <4>9, <4>10, SendSteady
      <4>12. z = r
        <5>1. Launched(h, r)
          <6>1. Elements(h.writes) \ Comments \subseteq 1..Len(h.txn)
            BY <1>7, <1>9 DEF Sound, Listed, UnderWay
          <6>2. Elements(h.queue) \subseteq 1..Len(h.txn)
            BY <1>7, <1>9, <1>10, <1>11
          <6> QED
            BY <1>7, <4>9, <4>10, <6>1, <6>2, SendFacts DEF Ready
        <5>2. \A t \in Elements(r.queue) : r.txn[t].status \notin {"run", "needsAbort"}
          <6>1. ASSUME NEW t \in Elements(h.queue)
                PROVE  r.txn[t].status \notin {"run", "needsAbort"}
            <7>1. t \in 1..Len(h.txn) /\ h.txn[t] \in Transactions
              <8>1. h.txn \in Seq(Transactions) /\ t \in 1..Len(h.txn)
                BY <1>7, <1>9, <1>10, <1>11 DEF Phone
              <8> QED
                BY <8>1, ElementOfSeq
            <7>2. h.txn[t].status = "run"
              BY <4>9 DEF Waits
            <7>3. r.txn[t] = Attempted(h.txn[t])
              BY <5>1, <7>1 DEF Launched
            <7> QED
              BY <7>1, <7>3 DEF Attempted, Transactions
          <6> QED
            BY <5>1, <6>1 DEF Launched
        <5> QED
          BY <1>5, <5>2, RerunIdle
      <4> QED
        BY <4>11, <4>12
    <3> QED
      BY <3>6, <3>7
  <2> QED
    BY <2>3, <2>4
<1> QED
  BY <1>14, <1>15

(* The answer of a comment: what waits has been computed with it, and what *)
(* is outstanding has it, too.                                             *)
LEMMA SetPaced ==
  ASSUME NEW d, NEW s \in Phone, NEW l \in Line, NEW ap, NEW w, Sound(d, s, l, ap, w),
         Paced(d, s, l, w), NEW m \in Answers, NEW k \in Line, Took(m, l, k),
         Head(m.what) \in Comments, NEW r, r = Forget(s, Elements(m.what))
  PROVE  Paced(d, r, k, w)
<1> DEFINE g == Elements(m.what)
<1>1. TakenFrom(d, m, s, l, k, ap)
  BY TookRight
<1>2. g \subseteq Comments /\ Carried(m) = {} /\ Mentioned(m) = g /\ m.type = "reply"
  <2>1. RightMessage(d, m, s, ap)
    BY <1>1 DEF TakenFrom
  <2>2. g \subseteq Comments /\ Carried(m) = {}
    BY <2>1, AnswerKind
  <2> QED
    BY <2>2 DEF Mentioned, Answers
<1>3. /\ m \in Elements(Path(s, l)) /\ Follows(Path(s, k), Path(s, l))
      /\ \A y \in Elements(Path(s, k)) : After(Path(s, l), m, y) \/ y \in Elements(l.hd)
      /\ Elements(Road(s, k)) \subseteq Elements(Road(s, l))
      /\ \A f : Straight(f, Road(s, l)) => Straight(f, Road(s, k))
      /\ k.hd = l.hd /\ Elements(k.td) \subseteq Elements(l.td)
  BY TookPath
<1>4. /\ r \in Phone
      /\ r.cache = s.cache /\ r.queue = s.queue /\ r.txn = s.txn /\ r.feed = s.feed
      /\ r.unanswered = s.unanswered /\ r.puts = s.puts
      /\ Elements(r.writes) = Elements(s.writes) \ g
  <2>1. PICK f : f = g
    OBVIOUS
  <2>2. s \in Phone /\ r = Forget(s, f)
    BY <2>1
  <2> QED
    BY <2>1, <2>2, ForgetFacts
<1>5. Path(r, k) = Path(s, k) /\ Road(r, k) = Road(s, k)
  BY <1>4 DEF Path, Road, Asks
<1>6. \A x, y : After(r.writes, x, y) => After(s.writes, x, y)
  BY ForgetOrder
<1>7. Calm(d, s, l, r, k)
  BY <1>3, <1>4, <1>5, <1>6 DEF Calm, Mild
<1>8. Steady(s, l, w) /\ Patient(d, s, l)
  BY DEF Paced
<1>9. Heard(r, k.dn)
  <2>1. Heard(s, l.dn)
    BY <1>8 DEF Steady
  <2>2. CASE k.dn = l.dn
    BY <1>4, <2>1, <2>2, HeardSame
  <2>3. CASE l.dn # << >> /\ m = Head(l.dn) /\ k.dn = Tail(l.dn)
    <3>1. ~Speaks(m)
      BY <1>2 DEF Speaks, Asking
    <3>2. PICK q \in Seq(Notices) : q = l.dn
      BY DEF Line
    <3>3. Heard(s, q) /\ q # << >> /\ ~Speaks(Head(q))
      BY <2>1, <2>3, <3>1, <3>2
    <3>4. Heard(r, Tail(q))
      BY <1>4, <3>3, HeardTail
    <3> QED
      BY <2>3, <3>2, <3>4
  <2> QED
    BY <2>2, <2>3 DEF Took
<1>10. Steady(r, k, w)
  <2>1. Straight(r.feed, Road(r, k)) /\ Mild(d, s, l, r, k)
    BY <1>3, <1>4, <1>5, <1>7, <1>8 DEF Steady, Calm
  <2> QED
    BY <1>7, <1>8, <1>9, <2>1, CalmSteady
<1>11. Undisturbed(d, s, l, r, k)
  <2> SUFFICES ASSUME Rests(d, s, l)
               PROVE  /\ UnderWay(r.txn, d) \subseteq UnderWay(s.txn, d) /\ r.feed = "idle"
                      /\ \A x \in Elements(Road(r, k)) : Asking(x) => Opens(x)
                      /\ \A x \in Elements(k.hd) : Carried(x) = {}
                      /\ \A x \in Elements(k.td) : Carried(x) # {} => x.status = "disconnect"
                      /\ \A x \in Elements(Path(r, k)) : Touches(x, s) =>
                           Remarks(s) \subseteq Remarks(r) \cup s.txn[Result(x)].out.comments
    BY DEF Undisturbed
  <2>1. ASSUME NEW x \in Elements(Path(r, k)), Touches(x, s)
        PROVE  Remarks(s) \subseteq Remarks(r) \cup s.txn[Result(x)].out.comments
    <3>1. Carried(x) # {}
      BY <2>1 DEF Touches
    <3>2. After(Path(s, l), m, x)
      BY <1>3, <1>5, <2>1, <3>1 DEF Rests
    <3>3. Mentioned(m) \cap Remarks(s) \subseteq s.txn[Result(x)].out.comments
      BY <1>8, <3>1, <3>2 DEF Steady, Ordered, Ahead
    <3>4. Remarks(s) \ g \subseteq Remarks(r)
      BY <1>4 DEF Remarks
    <3> QED
      BY <1>2, <3>3, <3>4
  <2> QED
    BY <1>3, <1>4, <1>5, <2>1 DEF Rests
<1>12. Patient(d, r, k)
  BY <1>7, <1>8, <1>11, CalmPatient
<1> QED
  BY <1>10, <1>12 DEF Paced

(* A put carries something.                                                *)
LEMMA PutCarries ==
  ASSUME NEW d, NEW x \in Messages, NEW s, NEW ap, RightMessage(d, x, s, ap), x.type = "put"
  PROVE  Carried(x) # {}
<1>1. x.batch \in Seq(Nat) /\ x.batch # << >>
  BY DEF RightMessage, Messages, Requests, Notices, Answers, Puts
<1> QED
  BY <1>1, ElementsFacts DEF Carried

(* A comment is set: nobody has heard of it yet.                           *)
LEMMA CommentSteady ==
  ASSUME NEW d, NEW s \in Phone, NEW l \in Line, NEW ap, NEW w, Sound(d, s, l, ap, w),
         Steady(s, l, w), s.puts = << >>, NEW c \in Comments, c \notin w,
         NEW m \in Requests, m.type = "set", m.comment = c,
         NEW b \in Phone, b.queue = s.queue, b.writes = Append(s.writes, c),
         b.cache = s.cache, b.feed = s.feed, b.puts = <<m>>,
         \A t \in 1..Len(s.txn) :
           b.txn[t].out = s.txn[t].out /\ b.txn[t].status = s.txn[t].status
  PROVE  Steady(b, l, w \cup {c})
<1>1. /\ Of(s.txn, d) \subseteq 1..Len(s.txn)
      /\ \A x \in Elements(Path(s, l)) :
           Carried(x) # {} => Result(x) \in Of(s.txn, d)
      /\ Elements(s.writes) \ Comments \subseteq 1..Len(s.txn)
      /\ Elements(s.queue) \subseteq 1..Len(s.txn)
  <2>1. Elements(s.writes) \ Comments \subseteq 1..Len(s.txn)
    BY DEF Sound, Listed, UnderWay
  <2>2. Elements(s.queue) \subseteq Of(s.txn, d)
    BY DEF Sound, Queued
  <2>3. RightPath(d, s, l)
    BY SoundPath
  <2> QED
    BY <2>1, <2>2, <2>3 DEF RightPath, Of
<1>2. /\ Carried(m) = {} /\ Mentioned(m) = {c} /\ ~Opens(m) /\ ~Fetches(m)
      /\ m \in Messages /\ <<m>> \in Seq(Messages) /\ Elements(<<m>>) = {m}
  BY One DEF Carried, Mentioned, Opens, Fetches, Asking, Messages
<1>3. /\ s.writes \in Seq(Nat \cup Comments) /\ l.ob \in Seq(Requests)
  BY DEF Phone, Line
<1>4. /\ \A x, y : After(b.writes, x, y) =>
           After(s.writes, x, y) \/ (x \in Elements(s.writes) /\ y = c)
      /\ Elements(b.writes) = Elements(s.writes) \cup {c}
  BY <1>3, AfterAppend, ElementsAppend
<1>5. /\ Road(b, l) = Road(s, l) \o <<m>>
      /\ Elements(Path(b, l)) = Elements(Path(s, l)) \cup {m}
      /\ \A x, y : After(Path(b, l), x, y) <=>
           After(Path(s, l), x, y) \/ (x \in Elements(Path(s, l)) /\ y = m)
  <2>1. PICK u \in Seq(Messages) : u = <<m>>
    BY <1>2
  <2>2. Asks(b, l) = Asks(s, l) \o u
    BY <1>3, <2>1 DEF Asks
  <2>3. /\ Road(b, l) = Road(s, l) \o u /\ Path(b, l) = Path(s, l) \o u
        /\ Elements(Road(b, l)) = Elements(Road(s, l)) \cup Elements(u)
        /\ Elements(Path(b, l)) = Elements(Path(s, l)) \cup Elements(u)
        /\ \A x, y : After(Path(b, l), x, y) <=>
             \/ After(Path(s, l), x, y) \/ After(u, x, y)
             \/ (x \in Elements(Path(s, l)) /\ y \in Elements(u))
    <3>1. s \in Phone /\ l \in Line /\ u \in Seq(Messages) /\ Asks(b, l) = Asks(s, l) \o u
      BY <2>2
    <3>2. Grows(s, l, b, l, u)
      BY ONLY <3>1, PathGrows
    <3> QED
      BY ONLY <3>2 DEF Grows
  <2>4. Elements(u) = {m} /\ \A x, y : ~After(u, x, y)
    BY <1>2, <2>1, AfterEmpty
  <2> QED
    BY <2>1, <2>3, <2>4
<1>6. Known(b)
  <2> SUFFICES ASSUME NEW x, NEW y, After(b.writes, x, y), x \in Comments, y \notin Comments
               PROVE  x \in b.txn[y].out.comments
    BY DEF Known
  <2>1. After(s.writes, x, y) /\ y \in Elements(s.writes)
    BY <1>4, AfterIn
  <2>2. x \in s.txn[y].out.comments
    BY <2>1 DEF Steady, Known
  <2> QED
    BY <1>1, <2>1, <2>2
<1>7. Running(b) = Running(s) /\ \A x : Touches(x, b) <=> Touches(x, s)
  BY <1>1 DEF Running, Touches
<1>8. OnTop(b, Path(b, l))
  <2> SUFFICES ASSUME NEW x \in Elements(Path(b, l)), Touches(x, s), NEW y,
                      After(b.writes, Result(x), y)
               PROVE  y \in Comments \cup Running(s)
    BY <1>7 DEF OnTop
  <2>1. x \in Elements(Path(s, l))
    BY <1>2, <1>5 DEF Touches
  <2> QED
    BY <1>4, <2>1 DEF Steady, Ordered, OnTop
<1>9. Ahead(b, Path(b, l))
  <2> SUFFICES ASSUME NEW x, NEW y, After(Path(b, l), x, y), Carried(y) # {},
                      NEW e \in Mentioned(x) \cap Remarks(b)
               PROVE  e \in b.txn[Result(y)].out.comments
    BY DEF Ahead
  <2>1. After(Path(s, l), x, y) /\ x \in Elements(Path(s, l)) /\ y \in Elements(Path(s, l))
    BY <1>2, <1>5, AfterIn
  <2>2. e \in w
    BY <2>1 DEF Steady, Ordered, Mentions
  <2>3. e \in Remarks(s)
    BY <1>4, <2>2 DEF Remarks
  <2>4. e \in s.txn[Result(y)].out.comments
    BY <2>1, <2>3 DEF Steady, Ordered, Ahead
  <2> QED
    BY <1>1, <2>1, <2>4
<1>10. Mentions(Path(b, l), w \cup {c})
  BY <1>2, <1>5 DEF Steady, Ordered, Mentions
<1>11. Computed(b, Path(b, l))
  <2> SUFFICES ASSUME NEW x \in Elements(Path(b, l)), x.type = "put"
               PROVE  /\ x.data = Plus(x.hash, Len(x.batch)) /\ x.data = b.txn[Result(x)].out
                      /\ Distinct(x.batch)
    BY DEF Computed
  <2>1. x \in Elements(Path(s, l))
    BY <1>5
  <2>2. /\ x.data = Plus(x.hash, Len(x.batch)) /\ x.data = s.txn[Result(x)].out
        /\ Distinct(x.batch)
    BY <2>1 DEF Steady, Ordered, Computed
  <2>3. RightMessage(d, x, s, ap) /\ x \in Messages
    BY <2>1, Places, ElementsFacts DEF Everywhere, Sound, Carries, RightMessages
  <2>4. Carried(x) # {}
    BY <2>3, PutCarries
  <2> QED
    BY <1>1, <2>1, <2>2, <2>4
<1>12. Straight(b.feed, Road(b, l))
  <2>1. Road(s, l) \in Seq(Messages)
    BY Places
  <2> QED
    <3>1. PICK q, u, f : q = Road(s, l) /\ u = <<m>> /\ f = s.feed
      OBVIOUS
    <3>2. /\ q \in Seq(Messages) /\ u \in Seq(Messages) /\ Straight(f, q)
          /\ \A x \in Elements(u) : ~Opens(x) /\ ~Fetches(x)
      BY <1>2, <2>1, <3>1 DEF Steady
    <3>3. Straight(f, q \o u)
      BY ONLY <3>2, StraightMore
    <3> QED
      BY <1>5, <3>1, <3>3
<1>13. Heard(b, l.dn)
  <2>1. ASSUME NEW x \in Elements(l.dn), Accepts(x)
        PROVE  b.txn[Result(x)].out = s.txn[Result(x)].out
    <3>1. x \in Elements(Path(s, l))
      BY Places DEF Everywhere
    <3> QED
      BY <1>1, <2>1, <3>1 DEF Accepts
  <2> QED
    BY <2>1, HeardSame DEF Steady
<1>14. Distinct(b.queue)
  BY DEF Steady
<1> QED
  BY <1>6, <1>8, <1>9, <1>10, <1>11, <1>12, <1>13, <1>14 DEF Steady, Ordered

-----------------------------------------------------------------------------
(* A transaction that is started.                                          *)

Opening(d, s, l, b, k, t, x) ==
  /\ t = Len(s.txn) + 1 /\ x.status = "run" /\ x.out = Plus(Latest(s, {}), 1)
  /\ x.dev = d /\ x.told = "none"
  /\ b.txn = Append(s.txn, x) /\ b.queue = Append(s.queue, t)
  /\ b.writes = Append(s.writes, t)
  /\ b.cache = s.cache /\ b.feed = s.feed /\ b.puts = << >> /\ s.puts = << >>
  /\ k.dn = l.dn /\ k.hd = l.hd /\ k.td = l.td
  /\ \/ k.ob = l.ob
     \/ k.ob = l.ob \o <<Listen("post")>> /\ UnderWay(s.txn, d) = {}

(* What it adds to the phone.                                              *)
Opened(s, b, t, x) ==
  /\ t \in Nat /\ t \notin Comments
  /\ t \notin Elements(s.queue) /\ t \notin Elements(s.writes)
  /\ \A y \in 1..Len(s.txn) : b.txn[y] = s.txn[y]
  /\ b.txn[t] = x
  /\ Elements(b.queue) = Elements(s.queue) \cup {t} /\ Final(b.queue) = t
  /\ Elements(s.queue) \subseteq 1..Len(s.txn)
  /\ Elements(s.writes) \ Comments \subseteq 1..Len(s.txn)
  /\ Elements(b.writes) = Elements(s.writes) \cup {t} /\ Remarks(b) = Remarks(s)
  /\ \A a, y : After(b.writes, a, y) <=>
       After(s.writes, a, y) \/ (a \in Elements(s.writes) /\ y = t)
  /\ \A y : ~After(b.writes, t, y)

(* What a new transaction changes.                                         *)
LEMMA OpeningFacts ==
  ASSUME NEW d, NEW s \in Phone, NEW l \in Line, NEW ap, NEW w, Sound(d, s, l, ap, w),
         NEW x \in Transactions, NEW t, NEW b, NEW k, Opening(d, s, l, b, k, t, x)
  PROVE  Opened(s, b, t, x)
<1>1. /\ s.txn \in Seq(Transactions) /\ s.queue \in Seq(Nat)
      /\ s.writes \in Seq(Nat \cup Comments)
  BY DEF Phone
<1>2. /\ t = Len(s.txn) + 1 /\ b.txn = Append(s.txn, x) /\ b.queue = Append(s.queue, t)
      /\ b.writes = Append(s.writes, t)
  BY DEF Opening
<1>3. t \in Nat /\ t \notin 1..Len(s.txn) /\ t \notin Comments
  <2>1. t \in Nat /\ t \notin 1..Len(s.txn)
    BY <1>1, <1>2
  <2> QED
    BY <2>1, NoComment
<1>4. /\ \A y \in 1..Len(s.txn) : b.txn[y] = s.txn[y]
      /\ b.txn[t] = x
  BY <1>1, <1>2, AppendFacts
<1>5. Elements(s.queue) \subseteq 1..Len(s.txn)
  BY DEF Sound, Queued, Of
<1>6. Elements(s.writes) \ Comments \subseteq 1..Len(s.txn)
  BY DEF Sound, Listed, UnderWay
<1>7. Elements(b.queue) = Elements(s.queue) \cup {t} /\ Final(b.queue) = t
  BY <1>1, <1>2, <1>3, ElementsAppend, FinalAppend
<1>8. Elements(b.writes) = Elements(s.writes) \cup {t}
  <2>1. PICK S, q : S = Nat \cup Comments /\ q = s.writes
    OBVIOUS
  <2>2. q \in Seq(S) /\ t \in S
    BY <1>1, <1>3, <2>1
  <2>3. Elements(Append(q, t)) = Elements(q) \cup {t}
    BY <2>2, ElementsAppend
  <2> QED
    BY <1>2, <2>1, <2>3
<1>9. \A a, y : After(b.writes, a, y) <=>
        After(s.writes, a, y) \/ (a \in Elements(s.writes) /\ y = t)
  <2>1. PICK S, q : S = Nat \cup Comments /\ q = s.writes
    OBVIOUS
  <2>2. q \in Seq(S) /\ t \in S
    BY <1>1, <1>3, <2>1
  <2>3. \A a, y : After(Append(q, t), a, y) <=>
          After(q, a, y) \/ (a \in Elements(q) /\ y = t)
    BY <2>2, AfterAppend
  <2> QED
    BY <1>2, <2>1, <2>3
<1>10. t \notin Elements(s.queue) /\ t \notin Elements(s.writes)
  BY <1>3, <1>5, <1>6
<1>11. \A y : ~After(b.writes, t, y)
  BY <1>9, <1>10, AfterIn
<1>12. Remarks(b) = Remarks(s)
  BY <1>3, <1>8 DEF Remarks
<1> QED
  BY <1>3, <1>4, <1>5, <1>6, <1>7, <1>8, <1>9, <1>10, <1>11, <1>12 DEF Opened

(* A new transaction, not sent yet, leaves the phone steady.               *)
LEMMA OpeningSteady ==
  ASSUME NEW d, NEW s \in Phone, NEW l \in Line, NEW ap, NEW w, Sound(d, s, l, ap, w),
         Steady(s, l, w),
         NEW x \in Transactions, NEW t, NEW b \in Phone, NEW k \in Line,
         Opening(d, s, l, b, k, t, x)
  PROVE  /\ Steady(b, k, w) /\ Running(b) = Running(s) \cup {t}
         /\ \A m \in Elements(Path(b, k)) : m \in Elements(Path(s, l)) \/ Carried(m) = {}
         /\ \A m \in Elements(Road(b, k)) : m \in Elements(Road(s, l)) \/ Opens(m)
         /\ \A m \in Elements(Path(s, l)) : Touches(m, b) <=> Touches(m, s)
<1>1. /\ t \in Nat /\ t \notin Comments
      /\ t \notin Elements(s.queue) /\ t \notin Elements(s.writes)
      /\ \A y \in 1..Len(s.txn) : b.txn[y] = s.txn[y]
      /\ b.txn[t] = x
      /\ Elements(b.queue) = Elements(s.queue) \cup {t} /\ Final(b.queue) = t
      /\ Elements(s.queue) \subseteq 1..Len(s.txn)
      /\ Elements(s.writes) \ Comments \subseteq 1..Len(s.txn)
      /\ Elements(b.writes) = Elements(s.writes) \cup {t} /\ Remarks(b) = Remarks(s)
      /\ \A a, y : After(b.writes, a, y) <=>
           After(s.writes, a, y) \/ (a \in Elements(s.writes) /\ y = t)
      /\ \A y : ~After(b.writes, t, y)
  <2>1. Opened(s, b, t, x)
    BY OpeningFacts
  <2> QED
    BY <2>1 DEF Opened
<1>2. /\ \A m \in Elements(Path(s, l)) :
           /\ Carried(m) \subseteq 1..Len(s.txn)
           /\ Carried(m) # {} => Result(m) \in 1..Len(s.txn)
           /\ UnderWay(s.txn, d) = {} => Carried(m) = {}
  <2>1. RightPath(d, s, l)
    BY SoundPath
  <2> QED
    BY <2>1 DEF RightPath, Of
<1>3. PICK u \in Seq(Messages) :
        /\ Asks(b, k) = Asks(s, l) \o u
        /\ Elements(u) = {} \/ (Elements(u) = {Listen("post")} /\ UnderWay(s.txn, d) = {})
        /\ \A y, z : ~After(u, y, z)
        /\ \A f : Straight(f, u)
  <2>1. l.ob \in Seq(Requests) /\ k.ob \in Seq(Requests) /\ b.puts = << >> /\ s.puts = << >>
    BY DEF Line, Opening
  <2>2. Asks(b, k) = k.ob /\ Asks(s, l) = l.ob
    BY <2>1, ConcatEmptySeq DEF Asks
  <2>3. CASE k.ob = l.ob
    <3>1. l.ob \o << >> = l.ob /\ << >> \in Seq(Messages)
      BY <2>1, ConcatEmptySeq
    <3>2. Elements(<< >>) = {} /\ (\A y, z : ~After(<< >>, y, z)) /\ \A f : Straight(f, << >>)
      BY ElementsFacts, AfterEmpty, StraightOne
    <3> QED
      BY <2>2, <2>3, <3>1, <3>2
  <2>4. CASE k.ob = l.ob \o <<Listen("post")>> /\ UnderWay(s.txn, d) = {}
    <3>1. PICK m : m = Listen("post")
      OBVIOUS
    <3>2. m \in Messages /\ ~Fetches(m)
      BY <3>1 DEF Listen, Messages, Requests, Kinds, Fetches
    <3>3. <<m>> \in Seq(Messages) /\ Elements(<<m>>) = {m}
      BY <3>2, One
    <3>4. (\A y, z : ~After(<<m>>, y, z)) /\ \A f : Straight(f, <<m>>)
      BY <3>2, AfterEmpty, StraightOne
    <3> QED
      BY <2>2, <2>4, <3>1, <3>3, <3>4
  <2> QED
    BY <2>3, <2>4 DEF Opening
<1>4. k.dn = l.dn /\ k.hd = l.hd /\ k.td = l.td /\ b.cache = s.cache /\ b.feed = s.feed
  BY DEF Opening
<1>5. /\ Road(b, k) = Road(s, l) \o u /\ Path(b, k) = Path(s, l) \o u
      /\ Elements(Road(b, k)) = Elements(Road(s, l)) \cup Elements(u)
      /\ Elements(Path(b, k)) = Elements(Path(s, l)) \cup Elements(u)
      /\ \A a, y : After(Path(b, k), a, y) <=>
           \/ After(Path(s, l), a, y) \/ After(u, a, y)
           \/ (a \in Elements(Path(s, l)) /\ y \in Elements(u))
  <2>1. /\ s \in Phone /\ l \in Line /\ u \in Seq(Messages)
        /\ Asks(b, k) = Asks(s, l) \o u /\ k.dn = l.dn /\ k.hd = l.hd /\ k.td = l.td
    BY <1>3, <1>4
  <2>2. Grows(s, l, b, k, u)
    BY ONLY <2>1, PathGrows
  <2> QED
    BY ONLY <2>2 DEF Grows
<1>6. \A m \in Elements(u) : Carried(m) = {} /\ Mentioned(m) = {} /\ Opens(m)
                              /\ ~Fetches(m) /\ m.type # "put"
  BY <1>3 DEF Listen, Carried, Mentioned, Opens, Asking, Fetches
<1>7. Distinct(b.queue)
  <2>1. s.queue \in Seq(Nat) /\ b.queue = Append(s.queue, t)
    BY DEF Phone, Opening
  <2> QED
    BY <1>1, <2>1, DistinctAppend DEF Steady
<1>8. Known(b)
  <2> SUFFICES ASSUME NEW e, NEW y, After(b.writes, e, y), e \in Comments, y \notin Comments
               PROVE  e \in b.txn[y].out.comments
    BY DEF Known
  <2>1. CASE After(s.writes, e, y)
    <3>1. y \in Elements(s.writes)
      BY <2>1, AfterIn
    <3>2. e \in s.txn[y].out.comments
      BY <2>1 DEF Steady, Known
    <3> QED
      BY <1>1, <3>1, <3>2
  <2>2. CASE e \in Elements(s.writes) /\ y = t
    <3>1. e \in Remarks(s)
      BY <2>2 DEF Remarks
    <3>2. Remarks(s) \subseteq Latest(s, {}).comments
      BY <1>1, LatestFacts DEF Steady
    <3>3. Latest(s, {}) \in Node
      BY <1>1, LatestType
    <3>4. Plus(Latest(s, {}), 1).comments = Latest(s, {}).comments
      BY <3>3, NodeFields
    <3> QED
      BY <1>1, <2>2, <3>1, <3>2, <3>4 DEF Opening
  <2> QED
    BY <1>1, <2>1, <2>2
<1>9. Running(b) = Running(s) \cup {t}
  BY <1>1 DEF Running, Opening
<1>10. \A m \in Elements(Path(s, l)) : Touches(m, b) <=> Touches(m, s)
  <2>1. t \notin 1..Len(s.txn)
    BY <1>1 DEF Opening, Phone
  <2> QED
    BY <1>1, <1>2, <2>1 DEF Touches
<1>11. OnTop(b, Path(b, k))
  <2> SUFFICES ASSUME NEW m \in Elements(Path(b, k)), Touches(m, b), NEW y,
                      After(b.writes, Result(m), y)
               PROVE  y \in Comments \cup Running(b)
    BY DEF OnTop
  <2>1. m \in Elements(Path(s, l))
    BY <1>5, <1>6 DEF Touches
  <2> QED
    BY <1>1, <1>9, <1>10, <2>1 DEF Steady, Ordered, OnTop
<1>12. Ahead(b, Path(b, k))
  <2> SUFFICES ASSUME NEW a, NEW y, After(Path(b, k), a, y), Carried(y) # {},
                      NEW e \in Mentioned(a) \cap Remarks(s)
               PROVE  e \in b.txn[Result(y)].out.comments
    BY <1>1 DEF Ahead
  <2>1. After(Path(s, l), a, y) /\ y \in Elements(Path(s, l))
    BY <1>3, <1>5, <1>6, AfterIn
  <2>2. e \in s.txn[Result(y)].out.comments
    BY <2>1 DEF Steady, Ordered, Ahead
  <2> QED
    BY <1>1, <1>2, <2>1, <2>2
<1>13. Mentions(Path(b, k), w)
  BY <1>5, <1>6 DEF Steady, Ordered, Mentions
<1>14. Computed(b, Path(b, k))
  <2> SUFFICES ASSUME NEW m \in Elements(Path(b, k)), m.type = "put"
               PROVE  /\ m.data = Plus(m.hash, Len(m.batch)) /\ m.data = b.txn[Result(m)].out
                      /\ Distinct(m.batch)
    BY DEF Computed
  <2>1. m \in Elements(Path(s, l))
    BY <1>5, <1>6
  <2>2. /\ m.data = Plus(m.hash, Len(m.batch)) /\ m.data = s.txn[Result(m)].out
        /\ Distinct(m.batch)
    BY <2>1 DEF Steady, Ordered, Computed
  <2>3. RightMessage(d, m, s, ap) /\ m \in Messages
    BY <2>1, Places, ElementsFacts DEF Everywhere, Sound, Carries, RightMessages
  <2>4. Carried(m) # {}
    BY <2>3, PutCarries
  <2> QED
    BY <1>1, <1>2, <2>1, <2>2, <2>4
<1>15. Straight(b.feed, Road(b, k))
  <2>1. PICK q, f : q = Road(s, l) /\ f = s.feed
    OBVIOUS
  <2>2. q \in Seq(Messages) /\ u \in Seq(Messages) /\ Straight(f, q) /\ Straight(f, u)
    BY <1>3, <2>1, Places DEF Steady
  <2>3. \A a \in Elements(q), y \in Elements(u) :
          (Carried(a) # {} => ~Opens(y)) /\ ~(Fetches(a) /\ Fetches(y))
    <3>1. Elements(q) \subseteq Elements(Path(s, l))
      BY <2>1, Places DEF Everywhere
    <3> QED
      BY <1>2, <1>3, <1>6, <3>1
  <2>4. Straight(f, q \o u)
    BY <2>2, <2>3, StraightConcat
  <2> QED
    BY <1>4, <1>5, <2>1, <2>4
<1>16. Heard(b, k.dn)
  <2>1. ASSUME NEW m \in Elements(l.dn), Accepts(m)
        PROVE  b.txn[Result(m)].out = s.txn[Result(m)].out
    <3>1. m \in Elements(Path(s, l))
      BY Places DEF Everywhere
    <3> QED
      BY <1>1, <1>2, <2>1, <3>1 DEF Accepts
  <2> QED
    BY <1>4, <2>1, HeardSame DEF Steady
<1> QED
  BY <1>5, <1>6, <1>7, <1>8, <1>9, <1>10, <1>11, <1>12, <1>13, <1>14, <1>15, <1>16
  DEF Steady, Ordered

(* What is in the queue of a phone is pending.                             *)
LEMMA QueuePending ==
  ASSUME NEW d, NEW s \in Phone, NEW l \in Line, NEW ap, NEW w, Sound(d, s, l, ap, w)
  PROVE  /\ Elements(s.queue) \subseteq UnderWay(s.txn, d)
         /\ Elements(s.queue) \subseteq Elements(s.writes) \ Comments
         /\ Elements(s.writes) \ Comments \subseteq 1..Len(s.txn)
         /\ UnderWay(s.txn, d) \subseteq 1..Len(s.txn)
         /\ Remarks(s) \in SUBSET Comments
         /\ Elements(s.writes) \subseteq Nat \cup Comments
<1>1. /\ s.txn \in Seq(Transactions) /\ s.queue \in Seq(Nat)
      /\ s.writes \in Seq(Nat \cup Comments)
  BY DEF Phone
<1>2. Elements(s.writes) \ Comments = UnderWay(s.txn, d)
  BY DEF Sound, Listed
<1>3. ASSUME NEW t \in Elements(s.queue)
      PROVE  t \in UnderWay(s.txn, d)
  <2>1. t \in Of(s.txn, d) /\ s.txn[t].status \in Pending \cup {"run", "needsAbort"}
    BY DEF Sound, Queued
  <2>2. s.txn[t].status # "completed"
    BY <2>1 DEF Pending
  <2>3. s.txn[t].told = "none"
    BY <2>1, <2>2 DEF Sound, Upright, Honest
  <2> QED
    BY <2>1, <2>3 DEF UnderWay, Of
<1>4. Elements(s.writes) \subseteq Nat \cup Comments
  <2>1. PICK S, q : S = Nat \cup Comments /\ q = s.writes
    OBVIOUS
  <2>2. q \in Seq(S)
    BY <1>1, <2>1
  <2>3. Elements(q) \subseteq S
    BY <2>2, ElementsFacts
  <2> QED
    BY <2>1, <2>3
<1> QED
  BY <1>2, <1>3, <1>4 DEF UnderWay, Remarks

(* A transaction that finds the queue empty is computed from what is known *)
(* and pending.                                                            *)
LEMMA OpeningLatest ==
  ASSUME NEW d, NEW s \in Phone, NEW l \in Line, NEW ap, NEW w, Sound(d, s, l, ap, w),
         NEW x \in Transactions, NEW t, NEW b \in Phone, NEW k \in Line,
         Opening(d, s, l, b, k, t, x)
  PROVE  Latest(b, {t}) = Latest(s, {}) /\ Without(s.writes, {}) = s.writes
<1>1. Opened(s, b, t, x)
  BY OpeningFacts
<1>2. PICK S : S = Nat \cup Comments
  OBVIOUS
<1>3. PICK q, p : q = s.writes /\ p = b.writes
  OBVIOUS
<1>4. q \in Seq(S) /\ t \in S /\ p = Append(q, t) /\ t \notin Elements(q)
  BY <1>1, <1>2, <1>3 DEF Phone, Opening, Opened
<1>5. Without(q, {}) = q
  <2>1. Elements(q) \subseteq Elements(q) \ {}
    OBVIOUS
  <2> QED
    BY <1>4, <2>1, OnlyAll DEF Without
<1>6. Without(p, {t}) = q
  <2>1. Elements(p) \ {t} = Elements(q)
    BY <1>1, <1>3, <1>4 DEF Opened
  <2>2. PICK u, e : u = <<t>> /\ e = Elements(q)
    OBVIOUS
  <2>3. u \in Seq(S) /\ Elements(u) = {t}
    BY <1>4, <2>2, One
  <2>4. p = q \o u
    BY <1>4, <2>2, Concats
  <2>5. Elements(u) \cap e = {} /\ Elements(q) \subseteq e
    BY <1>4, <2>2, <2>3
  <2>6. Only(q \o u, e) = Only(q, e)
    BY <1>4, <2>3, <2>5, OnlyFront
  <2>7. Only(q, e) = q
    BY <1>4, <2>5, OnlyAll
  <2> QED
    BY <2>1, <2>2, <2>4, <2>6, <2>7 DEF Without
<1>7. \A y \in Elements(q) \ Comments : b.txn[y].out = s.txn[y].out
  BY <1>1, <1>3 DEF Opened
<1>8. q = Without(s.writes, {}) /\ q = Without(b.writes, {t}) /\ b.cache = s.cache
  BY <1>3, <1>5, <1>6 DEF Opening
<1>9. Latest(b, {t}) = Latest(s, {})
  BY <1>4, <1>7, <1>8, LatestSame
<1> QED
  BY <1>3, <1>5, <1>9

(* A new transaction, sent if it can be, leaves the phone in step.         *)
LEMMA BeginPaced ==
  ASSUME NEW d, NEW s \in Phone, NEW l \in Line, NEW ap, NEW w, Sound(d, s, l, ap, w),
         Sent(s), Paced(d, s, l, w),
         NEW x \in Transactions, NEW t, NEW b \in Phone, NEW k \in Line,
         Opening(d, s, l, b, k, t, x), Sound(d, b, k, ap, w), Ready(b),
         s.queue # << >> =>
           /\ UnderWay(s.txn, d) \subseteq Elements(s.queue) /\ s.feed = "idle"
           /\ \A m \in Elements(Road(s, l)) : Asking(m) => Opens(m)
           /\ l.hd = << >> /\ l.td = << >>,
         NEW r, r = SendReady(b)
  PROVE  Paced(d, r, k, w)
<1>1. Opened(s, b, t, x)
  BY OpeningFacts
<1>2. Steady(s, l, w) /\ Patient(d, s, l)
  BY DEF Paced
<1>3. /\ Steady(b, k, w) /\ Running(b) = Running(s) \cup {t}
      /\ \A m \in Elements(Path(b, k)) : m \in Elements(Path(s, l)) \/ Carried(m) = {}
      /\ \A m \in Elements(Road(b, k)) : m \in Elements(Road(s, l)) \/ Opens(m)
      /\ \A m \in Elements(Path(s, l)) : Touches(m, b) <=> Touches(m, s)
  BY <1>2, OpeningSteady
<1>4. Latest(b, {t}) = Latest(s, {}) /\ Without(s.writes, {}) = s.writes
  BY OpeningLatest
<1>5. CASE s.queue = << >>
  <2>1. Elements(s.queue) = {}
    BY <1>5, ElementsFacts
  <2>2. Elements(b.queue) = {t} /\ Final(b.queue) = t /\ b.txn[t] = x
    BY <1>1, <2>1 DEF Opened
  <2>3. b.queue = Append(s.queue, t) /\ x.status = "run" /\ x.out = Plus(Latest(s, {}), 1)
    BY DEF Opening
  <2>4. Len(b.queue) = 1 /\ b.queue # << >>
    BY <1>5, <2>3
  <2>5. Waits(b)
    BY <2>2, <2>3, <2>4 DEF Waits
  <2>6. b.txn[Final(b.queue)].out = Plus(Latest(b, Elements(b.queue)), Len(b.queue))
    BY <1>4, <2>2, <2>3, <2>4
  <2>7. \A y : After(b.writes, Final(b.queue), y) => y \in Comments
    BY <1>1, <2>2 DEF Opened
  <2> QED
    BY <1>3, <2>5, <2>6, <2>7, SendSteady
<1>6. CASE s.queue # << >>
  <2>1. s.queue[1] \in Elements(s.queue) /\ s.txn[s.queue[1]].status # "run"
    <3>1. s.queue \in Seq(Nat)
      BY DEF Phone
    <3>2. 1 \in 1..Len(s.queue)
      BY <1>6, <3>1
    <3> QED
      BY <1>6, <3>2 DEF Sent, Elements
  <2>2. s.queue[1] \in Elements(b.queue) /\ b.txn[s.queue[1]].status # "run"
    BY <1>1, <2>1 DEF Opened
  <2>3. r = b
    BY <2>2 DEF SendReady
  <2>4. /\ UnderWay(s.txn, d) \subseteq Elements(s.queue) /\ s.feed = "idle"
        /\ \A m \in Elements(Road(s, l)) : Asking(m) => Opens(m)
        /\ l.hd = << >> /\ l.td = << >>
    BY <1>6
  <2>5. UnderWay(b.txn, d) \subseteq Elements(b.queue) /\ b.feed = "idle"
    <3>1. b.feed = s.feed /\ b.txn = Append(s.txn, x) /\ t = Len(s.txn) + 1
      BY DEF Opening
    <3>2. s.txn \in Seq(Transactions)
      BY DEF Phone
    <3>3. Len(b.txn) = Len(s.txn) + 1 /\ Len(s.txn) \in Nat
      BY <3>1, <3>2, AppendFacts
    <3>4. ASSUME NEW y \in UnderWay(b.txn, d), y # t
          PROVE  y \in UnderWay(s.txn, d)
      <4>1. y \in 1..Len(s.txn)
        BY <3>1, <3>3, <3>4 DEF UnderWay
      <4> QED
        BY <1>1, <4>1 DEF UnderWay, Opened
    <3> QED
      BY <1>1, <2>4, <3>1, <3>4 DEF Opened
  <2>6. \A m \in Elements(Road(b, k)) : Asking(m) => Opens(m)
    BY <1>3, <2>4
  <2>7. k.hd = << >> /\ k.td = << >> /\ Elements(k.hd) = {} /\ Elements(k.td) = {}
    BY <2>4, ElementsFacts DEF Opening
  <2>8. Final(b.queue) = t /\ \A y : ~After(b.writes, t, y)
    BY <1>1 DEF Opened
  <2>9. ASSUME NEW m \in Elements(Path(b, k)), Touches(m, b)
        PROVE  b.txn[t].out
                 = Plus(With(b.txn[Result(m)].out, Remarks(b)), Cardinality(Running(b)))
    <3>1. m \in Elements(Path(s, l)) /\ Touches(m, s) /\ Carried(m) # {}
      BY <1>3, <2>9 DEF Touches
    <3>2. RightPath(d, s, l)
      BY SoundPath
    <3>3. /\ Result(m) \in Elements(s.writes) /\ Result(m) \notin Comments
          /\ Outstanding(s) # {} /\ Result(m) \in 1..Len(s.txn)
      BY <3>1, <3>2 DEF RightPath, Of
    <3>4. /\ Elements(s.queue) \subseteq UnderWay(s.txn, d)
          /\ Elements(s.queue) \subseteq Elements(s.writes) \ Comments
          /\ Elements(s.writes) \ Comments \subseteq 1..Len(s.txn)
          /\ UnderWay(s.txn, d) \subseteq 1..Len(s.txn)
          /\ Remarks(s) \in SUBSET Comments
          /\ Elements(s.writes) \subseteq Nat \cup Comments
      BY QueuePending
    <3>5. /\ b.txn[t].out = Plus(Latest(s, {}), 1) /\ Remarks(b) = Remarks(s)
          /\ b.txn[Result(m)].out = s.txn[Result(m)].out
      BY <1>1, <3>3 DEF Opened, Opening
    <3>6. \A o \in Elements(s.writes) :
            o \notin Comments /\ (\A y : After(s.writes, o, y) => y \in Comments)
            => Latest(s, {}) = With(s.txn[o].out, Remarks(s))
      <4>1. PICK e : e = {}
        OBVIOUS
      <4>2. PICK ws : ws = Without(s.writes, e)
        OBVIOUS
      <4>3. Known(s) /\ e \cap Comments = {}
        BY <1>2, <4>1 DEF Steady
      <4>4. /\ Remarks(s) \subseteq Latest(s, e).comments
            /\ Elements(ws) \subseteq Comments => Latest(s, e) = With(s.cache, Remarks(s))
            /\ \A o \in Elements(ws) :
                 o \notin Comments /\ (\A y : After(ws, o, y) => y \in Comments)
                 => Latest(s, e) = With(s.txn[o].out, Remarks(s))
        BY <3>4, <4>2, <4>3, LatestFacts
      <4> QED
        BY <1>4, <4>1, <4>2, <4>4
    <3>7. PICK n : n = s.txn[Result(m)].out
      OBVIOUS
    <3>8. n \in Node
      <4>1. PICK i : i = Result(m)
        OBVIOUS
      <4>2. s.txn \in Seq(Transactions) /\ i \in 1..Len(s.txn)
        BY <3>3, <4>1 DEF Phone
      <4>3. s.txn[i] \in Transactions
        BY <4>2
      <4>4. s.txn[i].out \in Node
        BY <4>3 DEF Transactions
      <4> QED
        BY <3>7, <4>1, <4>4
    <3>9. PICK cs : cs = Remarks(s)
      OBVIOUS
    <3>10. cs \in SUBSET Comments
      BY <3>4, <3>9
    <3>11. CASE Running(s) = {}
      <4>1. \A y : After(s.writes, Result(m), y) => y \in Comments
        BY <1>2, <3>1, <3>11 DEF Steady, Ordered, OnTop
      <4>2. Latest(s, {}) = With(n, cs)
        BY <3>3, <3>6, <3>7, <3>9, <4>1
      <4>3. Cardinality(Running(b)) = 1
        BY <1>3, <3>11, FS_Singleton
      <4> QED
        BY <3>5, <3>7, <3>9, <4>2, <4>3
    <3>12. CASE Running(s) # {}
      <4>1. Rests(d, s, l)
        BY <1>2, <3>3, <3>12 DEF Patient
      <4>2. PICK o : o = Final(s.queue)
        OBVIOUS
      <4>3. o \in Elements(s.queue)
        BY <1>6, <4>2, FinalIn DEF Phone
      <4>4. PICK c : c = Cardinality(Running(s))
        OBVIOUS
      <4>5. /\ \A y : After(s.writes, o, y) => y \in Comments
            /\ s.txn[o].out = Plus(With(n, cs), c)
        BY <3>1, <3>7, <3>9, <4>1, <4>2, <4>4 DEF Rests
      <4>6. Latest(s, {}) = With(Plus(With(n, cs), c), cs)
        BY <3>4, <3>6, <3>9, <4>3, <4>5
      <4>7. c \in Nat /\ Cardinality(Running(b)) = c + 1
        <5>1. IsFiniteSet(Elements(s.queue))
          BY <1>2, DistinctSize DEF Steady, Phone
        <5>2. IsFiniteSet(Running(s))
          BY <5>1, FS_Subset DEF Running
        <5>3. t \notin Running(s)
          BY <1>1 DEF Running, Opened
        <5> QED
          BY <1>3, <4>4, <5>2, <5>3, FS_AddElement, FS_CardinalityType
      <4>8. Plus(Latest(s, {}), 1) = Plus(With(n, cs), c + 1)
        <5>1. PICK g : g = With(n, cs)
          OBVIOUS
        <5>2. g \in Node /\ g.comments = n.comments \cup cs
          BY <3>8, <3>10, <5>1, WithPlus
        <5>3. With(g, cs) = g
          BY <3>10, <5>2, WithPlus
        <5>4. With(Plus(g, c), cs) = Plus(With(g, cs), c) /\ c \in Int /\ 1 \in Int
          BY <3>10, <4>7, <5>2, WithPlus
        <5>5. Plus(Plus(g, c), 1) = Plus(g, c + 1)
          BY <3>10, <5>2, <5>4, WithPlus
        <5> QED
          BY <4>6, <5>1, <5>3, <5>4, <5>5
      <4> QED
        BY <3>5, <3>7, <3>9, <4>7, <4>8
    <3> QED
      BY <3>11, <3>12
  <2>10. Rests(d, b, k)
    BY <2>5, <2>6, <2>7, <2>8, <2>9 DEF Rests
  <2> QED
    BY <1>3, <2>3, <2>10 DEF Paced, Patient
<1> QED
  BY <1>5, <1>6

-----------------------------------------------------------------------------
(* Steps that leave the transactions of a phone as they are.               *)

Quiet(d, s, l, r, k) ==
  /\ r.queue = s.queue /\ r.writes = s.writes
  /\ \A t \in Of(s.txn, d) : r.txn[t].out = s.txn[t].out /\ r.txn[t].status = s.txn[t].status
  /\ UnderWay(r.txn, d) \subseteq UnderWay(s.txn, d)
  /\ Follows(Path(r, k), Path(s, l))

(* What waits stays at rest.                                               *)
Resting(d, s, l, r, k) ==
  Running(s) # {} /\ Rests(d, s, l) =>
    /\ r.feed = "idle"
    /\ \A m \in Elements(Road(r, k)) : Asking(m) => Opens(m)
    /\ \A m \in Elements(k.hd) : Carried(m) = {}
    /\ \A m \in Elements(k.td) : Carried(m) # {} => m.status = "disconnect"

(* A quiet step keeps the phone in step.                                   *)
LEMMA QuietPaced ==
  ASSUME NEW d, NEW s \in Phone, NEW l \in Line, NEW ap, NEW v, Sound(d, s, l, ap, v),
         NEW w, Paced(d, s, l, w), NEW r, NEW k, Quiet(d, s, l, r, k),
         Resting(d, s, l, r, k),
         Straight(r.feed, Road(r, k)), Heard(r, k.dn), NEW x, w \subseteq x
  PROVE  Paced(d, r, k, x)
<1>1. Steady(s, l, w) /\ Patient(d, s, l)
  BY DEF Paced
<1>2. Elements(s.queue) \subseteq Of(s.txn, d)
  BY QueuePending DEF UnderWay, Of
<1>3. Mild(d, s, l, r, k) /\ Calm(d, s, l, r, k)
  BY <1>2 DEF Mild, Calm, Quiet
<1>4. Steady(r, k, x)
  BY <1>1, <1>3, CalmSteady
<1>5. Undisturbed(d, s, l, r, k)
  BY DEF Undisturbed, Resting, Quiet, Remarks
<1>6. Patient(d, r, k)
  BY <1>1, <1>3, <1>5, CalmPatient
<1> QED
  BY <1>4, <1>6 DEF Paced

(* Messages without transactions leave nothing to be heard.                *)
LEMMA HeardNothing ==
  ASSUME NEW d, NEW s \in Phone, NEW l \in Line, NEW ap, NEW v, Sound(d, s, l, ap, v),
         UnderWay(s.txn, d) = {}
  PROVE  /\ \A m \in Elements(Path(s, l)) : Carried(m) = {}
         /\ \A r : Heard(r, l.dn)
<1>1. RightPath(d, s, l)
  BY SoundPath
<1>2. \A m \in Elements(Path(s, l)) : Carried(m) = {}
  BY <1>1 DEF RightPath
<1>3. Elements(l.dn) \subseteq Elements(Path(s, l))
  BY Places DEF Everywhere
<1>4. \A j \in 1..Len(l.dn) : ~Accepts(l.dn[j])
  BY <1>2, <1>3 DEF Accepts, Elements
<1> QED
  BY <1>2, <1>4 DEF Heard

(* What is said behind the messages of a phone, and means nothing to a     *)
(* transaction.                                                            *)
LEMMA HeardMore ==
  ASSUME NEW s, NEW S, NEW q \in Seq(S), NEW u \in Seq(S), Heard(s, q),
         \A m \in Elements(u) : ~Accepts(m)
  PROVE  Heard(s, q \o u)
<1>1. PICK a : a = q \o u
  OBVIOUS
<1>2. /\ a \in Seq(S) /\ Len(q) \in Nat /\ Len(u) \in Nat /\ Len(a) = Len(q) + Len(u)
      /\ \A i \in 1..Len(q) : i \in 1..Len(a) /\ a[i] = q[i]
      /\ \A i \in 1..Len(u) : Len(q) + i \in 1..Len(a) /\ a[Len(q) + i] = u[i]
      /\ \A i \in 1..Len(a) : i \in 1..Len(q) \/ i - Len(q) \in 1..Len(u)
  BY <1>1, ConcatPlaces
<1>3. ASSUME NEW j \in 1..Len(a), Accepts(a[j])
      PROVE  Hears(a, j, s.cache, s.txn[Result(a[j])].out)
  <2>1. j \in 1..Len(q)
    <3>1. SUFFICES ASSUME j - Len(q) \in 1..Len(u)
                   PROVE  FALSE
      BY <1>2
    <3>2. a[j] = u[j - Len(q)]
      <4>1. j = Len(q) + (j - Len(q))
        BY <1>2
      <4> QED
        BY <1>2, <3>1, <4>1
    <3> QED
      BY <1>3, <3>1, <3>2 DEF Elements
  <2>2. a[j] = q[j]
    BY <1>2, <2>1
  <2>3. Hears(q, j, s.cache, s.txn[Result(q[j])].out)
    BY <1>3, <2>1, <2>2 DEF Heard
  <2>4. j \in 1..(Len(q) + 1)
    BY <1>2, <2>1
  <2>5. Hears(q \o u, j, s.cache, s.txn[Result(q[j])].out)
    BY <2>3, <2>4, HearsFront
  <2> QED
    BY <1>1, <2>2, <2>5
<1> QED
  BY <1>1, <1>3 DEF Heard

(* What is added for the phone stands for what is taken from its requests. *)
Pushes(e, g) ==
  /\ Follows(e, g)
  /\ \A m \in Elements(e) :
       /\ Carried(m) # {} => \E x \in Elements(g) : Carried(x) # {}
       /\ Opens(m) => \E x \in Elements(g) : Opens(x)
       /\ Fetches(m) => \E x \in Elements(g) : Fetches(x)
       /\ Asking(m) => \E x \in Elements(g) : Asking(x) /\ (Opens(x) => Opens(m))
  /\ \A x, y : After(e, x, y) => ~Opens(y) /\ ~Fetches(y)

(* A message that takes the place of one before it in line keeps the line  *)
(* straight.                                                               *)
LEMMA PushStraight ==
  ASSUME NEW S, NEW q \in Seq(S), NEW g \in Seq(S), NEW b \in Seq(S), NEW e \in Seq(S),
         Pushes(e, g)
  PROVE  /\ (q \o e) \o b \in Seq(S) /\ q \o (g \o b) \in Seq(S)
         /\ Follows((q \o e) \o b, q \o (g \o b))
         /\ \A f : Straight(f, q \o (g \o b)) => Straight(f, (q \o e) \o b)
         /\ (\A m \in Elements(q \o (g \o b)) : Asking(m) => Opens(m))
              => \A m \in Elements((q \o e) \o b) : Asking(m) => Opens(m)
<1>1. PICK x : x = g \o b
  OBVIOUS
<1>2. PICK y : y = q \o e
  OBVIOUS
<1>3. PICK z : z = e \o b
  OBVIOUS
<1>4. x \in Seq(S) /\ Elements(x) = Elements(g) \cup Elements(b)
  BY <1>1, ElementsConcat
<1>5. y \in Seq(S) /\ Elements(y) = Elements(q) \cup Elements(e)
  BY <1>2, ElementsConcat
<1>6. z \in Seq(S) /\ Elements(z) = Elements(e) \cup Elements(b)
  BY <1>3, ElementsConcat
<1>7. q \o x \in Seq(S) /\ Elements(q \o x) = Elements(q) \cup Elements(x)
  BY <1>4, ElementsConcat
<1>8. y \o b \in Seq(S) /\ Elements(y \o b) = Elements(y) \cup Elements(b)
  BY <1>5, ElementsConcat
<1>9. y \o b = q \o z
  BY SMTT(30), <1>2, <1>3, Concats
<1>10. Follows(y \o b, q \o x)
  <2>1. Follows(e, g) /\ Follows(b, b) /\ Follows(q, q)
    BY FollowsRefl DEF Pushes
  <2>2. Follows(z, x)
    BY <1>1, <1>3, <2>1, FollowsConcat
  <2>3. Follows(q \o z, q \o x)
    BY <1>4, <1>6, <2>1, <2>2, FollowsConcat
  <2> QED
    BY <1>9, <2>3
<1>11. ASSUME NEW f, Straight(f, q \o x)
       PROVE  Straight(f, y \o b)
  <2>1. /\ Straight(f, q) /\ Straight(f, x)
        /\ \A m \in Elements(q), n \in Elements(x) :
             /\ Carried(m) # {} => ~Opens(n)
             /\ ~(Fetches(m) /\ Fetches(n))
    BY <1>4, <1>11, StraightConcat
  <2>2. /\ Straight(f, g) /\ Straight(f, b)
        /\ \A m \in Elements(g), n \in Elements(b) :
             /\ Carried(m) # {} => ~Opens(n)
             /\ ~(Fetches(m) /\ Fetches(n))
    BY <1>1, <2>1, StraightConcat
  <2>3. Straight(f, e)
    BY <2>2 DEF Straight, Early, Fetched, Pushes
  <2>4. \A m \in Elements(q), n \in Elements(e) :
          /\ Carried(m) # {} => ~Opens(n)
          /\ ~(Fetches(m) /\ Fetches(n))
    BY <1>4, <2>1 DEF Pushes
  <2>5. Straight(f, y)
    BY <1>2, <2>1, <2>3, <2>4, StraightConcat
  <2>6. \A m \in Elements(y), n \in Elements(b) :
          /\ Carried(m) # {} => ~Opens(n)
          /\ ~(Fetches(m) /\ Fetches(n))
    BY <1>4, <1>5, <2>1, <2>2 DEF Pushes
  <2> QED
    BY <1>5, <2>2, <2>5, <2>6, StraightConcat
<1>12. ASSUME \A m \in Elements(q \o x) : Asking(m) => Opens(m),
              NEW m \in Elements(y \o b), Asking(m)
       PROVE  Opens(m)
  BY <1>4, <1>5, <1>7, <1>8, <1>12 DEF Pushes
<1> QED
  BY <1>1, <1>2, <1>7, <1>8, <1>10, <1>11, <1>12

(* A road that follows another leads along a path that does.               *)
LEMMA RoadPath ==
  ASSUME NEW s \in Phone, NEW l \in Line, NEW r \in Phone, NEW k \in Line,
         Follows(Road(r, k), Road(s, l)), k.hd = l.hd, k.td = l.td
  PROVE  Follows(Path(r, k), Path(s, l))
<1>1. PICK h, t, p, q : h = l.hd /\ t = l.td /\ p = Road(s, l) /\ q = Road(r, k)
  OBVIOUS
<1>2. /\ h \in Seq(Messages) /\ t \in Seq(Messages)
      /\ p \in Seq(Messages) /\ q \in Seq(Messages)
  BY <1>1, Places
<1>3. Follows(h, h) /\ Follows(t, t) /\ Follows(q, p)
  BY <1>1, FollowsRefl
<1>4. PICK x, y : x = h \o q /\ y = h \o p
  OBVIOUS
<1>5. x \in Seq(Messages) /\ y \in Seq(Messages)
  BY <1>2, <1>4, Concats
<1>6. Follows(x, y)
  BY <1>2, <1>3, <1>4, FollowsConcat
<1>7. Follows(t \o x, t \o y)
  BY <1>2, <1>3, <1>5, <1>6, FollowsConcat
<1> QED
  BY <1>1, <1>4, <1>7 DEF Path

(* The phone itself stays as it is.                                        *)
Still(d, s, r) ==
  /\ r.queue = s.queue /\ r.writes = s.writes /\ r.feed = s.feed /\ r.cache = s.cache
  /\ \A t \in Of(s.txn, d) : r.txn[t].out = s.txn[t].out /\ r.txn[t].status = s.txn[t].status
  /\ UnderWay(r.txn, d) \subseteq UnderWay(s.txn, d)

(* A message of the server that answers the request at the head of the     *)
(* line keeps the phone in step.                                           *)
LEMMA PushPaced ==
  ASSUME NEW d, NEW s \in Phone, NEW l \in Line, NEW ap, NEW v, Sound(d, s, l, ap, v),
         NEW w, Paced(d, s, l, w), NEW r \in Phone, NEW k \in Line, Still(d, s, r),
         NEW g \in Seq(Messages), NEW b \in Seq(Messages), NEW e \in Seq(Messages),
         Pushes(e, g), Asks(s, l) = g \o b, Asks(r, k) = b,
         k.dn = l.dn \o e, k.hd = l.hd, k.td = l.td,
         Heard(s, k.dn), NEW x, w \subseteq x
  PROVE  Paced(d, r, k, x)
<1>1. PICK q : q = l.dn
  OBVIOUS
<1>2. q \in Seq(Messages)
  BY <1>1, Places
<1>3. /\ (q \o e) \o b \in Seq(Messages) /\ q \o (g \o b) \in Seq(Messages)
      /\ Follows((q \o e) \o b, q \o (g \o b))
      /\ \A f : Straight(f, q \o (g \o b)) => Straight(f, (q \o e) \o b)
      /\ (\A m \in Elements(q \o (g \o b)) : Asking(m) => Opens(m))
           => \A m \in Elements((q \o e) \o b) : Asking(m) => Opens(m)
  BY <1>2, PushStraight
<1>4. Road(s, l) = q \o (g \o b) /\ Road(r, k) = (q \o e) \o b
  BY <1>1 DEF Road
<1>5. Follows(Path(r, k), Path(s, l))
  <2>1. Follows(Road(r, k), Road(s, l))
    BY <1>3, <1>4
  <2> QED
    BY <2>1, RoadPath
<1>6. Quiet(d, s, l, r, k)
  BY <1>5 DEF Quiet, Still
<1>7. Straight(r.feed, Road(r, k))
  <2>1. Straight(s.feed, Road(s, l))
    BY DEF Paced, Steady
  <2> QED
    BY <1>3, <1>4, <2>1 DEF Still
<1>8. Resting(d, s, l, r, k)
  <2>1. ASSUME Rests(d, s, l)
        PROVE  /\ r.feed = "idle"
               /\ \A m \in Elements(Road(r, k)) : Asking(m) => Opens(m)
               /\ \A m \in Elements(k.hd) : Carried(m) = {}
               /\ \A m \in Elements(k.td) : Carried(m) # {} => m.status = "disconnect"
    <3>1. /\ s.feed = "idle"
          /\ \A m \in Elements(Road(s, l)) : Asking(m) => Opens(m)
          /\ \A m \in Elements(l.hd) : Carried(m) = {}
          /\ \A m \in Elements(l.td) : Carried(m) # {} => m.status = "disconnect"
      BY <2>1 DEF Rests
    <3>2. \A m \in Elements(Road(r, k)) : Asking(m) => Opens(m)
      BY <1>3, <1>4, <3>1
    <3> QED
      BY <3>1, <3>2 DEF Still
  <2> QED
    BY <2>1 DEF Resting
<1>9. Heard(r, k.dn)
  <2>1. r.cache = s.cache
    BY DEF Still
  <2>2. ASSUME NEW m \in Elements(k.dn), Accepts(m)
        PROVE  r.txn[Result(m)].out = s.txn[Result(m)].out
    <3>1. Elements(k.dn) \subseteq Elements(Path(r, k))
      BY Places DEF Everywhere
    <3>2. Carried(m) # {} /\ m.type = "reply"
      BY <2>2 DEF Accepts
    <3>3. PICK y \in Elements(Path(s, l)) : Like(m, y)
      BY <1>5, <3>1, <3>2 DEF Follows, Idle
    <3>4. Carried(y) # {} /\ Result(m) = Result(y)
      BY <3>2, <3>3 DEF Like, Result
    <3>5. RightPath(d, s, l)
      BY SoundPath
    <3>6. Result(y) \in Of(s.txn, d)
      BY <3>3, <3>4, <3>5 DEF RightPath
    <3> QED
      BY <3>4, <3>6 DEF Still
  <2> QED
    BY <2>1, <2>2, HeardSame
<1> QED
  BY <1>6, <1>7, <1>8, <1>9, QuietPaced

(* Nothing is added, or news of the post.                                  *)
LEMMA PushesFacts ==
  /\ \A g : Pushes(<< >>, g)
  /\ \A m : Carried(m) = {} /\ Mentioned(m) = {} /\ m.type # "put" /\ ~Asking(m)
       => \A g : Pushes(<<m>>, g)
  /\ \A m, h : /\ Like(m, h) /\ (Asking(m) => Asking(h) /\ m.what = h.what)
               => Pushes(<<m>>, <<h>>)
<1>1. Elements(<< >>) = {} /\ \A m : Elements(<<m>>) = {m}
  BY ElementsFacts
<1>2. (\A x, y : ~After(<< >>, x, y)) /\ \A e, x, y : ~After(<<e>>, x, y)
  BY AfterEmpty
<1>3. \A g : Pushes(<< >>, g)
  BY <1>1, <1>2 DEF Pushes, Follows
<1>4. ASSUME NEW m, Carried(m) = {}, Mentioned(m) = {}, m.type # "put", ~Asking(m), NEW g
      PROVE  Pushes(<<m>>, g)
  BY <1>1, <1>2, <1>4 DEF Pushes, Follows, Idle, Opens, Fetches
<1>5. ASSUME NEW m, NEW h, Like(m, h), Asking(m) => Asking(h) /\ m.what = h.what
      PROVE  Pushes(<<m>>, <<h>>)
  <2>1. Follows(<<m>>, <<h>>)
    BY <1>5, FollowsOne
  <2> QED
    BY <1>1, <1>2, <1>5, <2>1 DEF Pushes, Opens, Fetches, Like
<1> QED
  BY <1>3, <1>4, <1>5

(* The phone and its messages after a step.                                *)
LEMMA ShapeNext ==
  ASSUME Shape', NEW d \in Devices
  PROVE  /\ State(d)' \in Phone /\ LineOf(d)' \in Line
         /\ outbox'[d] \in Seq(Requests) /\ down'[d] \in Seq(Notices)
         /\ held'[d] \in Seq(Answers) /\ todo'[d] \in Seq(Answers)
         /\ Asks(State(d)', LineOf(d)') = outbox'[d]
<1>1. /\ outbox'[d] \in Seq(Requests) /\ down'[d] \in Seq(Notices)
      /\ held'[d] \in Seq(Answers) /\ todo'[d] \in Seq(Answers)
  BY DEF Shape
<1>2. LineOf(d)' \in Line
  BY <1>1 DEF LineOf, Line
<1>3. << >> \in Seq(Requests)
  BY EmptySeq
<1>4. State(d)' \in Phone
  BY <1>3 DEF Shape, State, Phone
<1>5. Asks(State(d)', LineOf(d)') = outbox'[d] \o << >>
  BY DEF Asks, State, LineOf
<1>6. outbox'[d] \o << >> = outbox'[d]
  BY <1>1, ConcatEmptySeq
<1> QED
  BY <1>1, <1>2, <1>4, <1>5, <1>6

(* News of the post, as a message.                                         *)
LEMMA NewsFacts ==
  ASSUME NEW n \in Node, NEW m, m = [type |-> "update", node |-> n]
  PROVE  /\ m \in Messages /\ m \in Notices /\ m.type = "update" /\ m.node = n
         /\ Carried(m) = {} /\ Mentioned(m) = {} /\ ~Asking(m) /\ ~Accepts(m)
         /\ Speaks(m) /\ Word(m) = n
BY DEF Messages, Notices, Carried, Mentioned, Asking, Accepts, Speaks, Word

(* A phone that is told of a change at most stays in step.                 *)
LEMMA OtherPaced ==
  ASSUME Shape, Shape', NEW d, NEW e \in Devices, e # d, PhoneOf(e), PacedOf(e),
         Apart(d, txn, txn'),
         queue'[e] = queue[e], writes'[e] = writes[e], cache'[e] = cache[e],
         feed'[e] = feed[e], online'[e] = online[e], watch'[e] = watch[e],
         outbox'[e] = outbox[e], held'[e] = held[e], todo'[e] = todo[e],
         down'[e] = down[e] \/ \E n \in Node : down'[e] = down[e] \o Told1(e, n),
         written \subseteq written'
  PROVE  PacedOf(e)'
<1>1. PICK s, r, l, k, ap, w, x :
        /\ s = State(e) /\ r = State(e)' /\ l = LineOf(e) /\ k = LineOf(e)'
        /\ ap = applied /\ w = written /\ x = written'
  OBVIOUS
<1>2. s \in Phone /\ l \in Line /\ r \in Phone /\ k \in Line
  BY <1>1, ShapeFacts, ShapeNext
<1>3. Sound(e, s, l, ap, w) /\ Paced(e, s, l, w) /\ w \subseteq x
  BY <1>1 DEF PhoneOf, PacedOf
<1>4. Of(txn', e) = Of(txn, e) /\ \A t \in Of(txn, e) : txn'[t] = txn[t]
  BY DEF Apart
<1>5. UnderWay(txn', e) = UnderWay(txn, e)
  <2>1. /\ UnderWay(txn', e) = {t \in Of(txn', e) : txn'[t].told = "none"}
        /\ UnderWay(txn, e) = {t \in Of(txn, e) : txn[t].told = "none"}
    BY DEF UnderWay, Of
  <2> QED
    BY <1>4, <2>1
<1>6. Still(e, s, r)
  BY <1>1, <1>4, <1>5 DEF Still, State
<1>7. l.dn = down[e] /\ k.dn = down'[e] /\ k.hd = l.hd /\ k.td = l.td
  BY <1>1 DEF LineOf
<1>8. PICK b : b = outbox[e]
  OBVIOUS
<1>9. b \in Seq(Messages) /\ Asks(s, l) = b /\ Asks(r, k) = b
  <2>1. Asks(s, l) = outbox[e] /\ Asks(r, k) = outbox'[e]
    BY <1>1, ShapeFacts, ShapeNext
  <2> QED
    BY <1>2, <1>8, <2>1, Places
<1>10. down[e] \in Seq(Messages) /\ << >> \in Seq(Messages)
  BY <1>2, <1>7, Places, EmptySeq
<1>11. << >> \o b = b
  BY <1>9, ConcatEmptySeq
<1>12. PICK u \in Seq(Messages) :
         /\ k.dn = l.dn \o u /\ Pushes(u, << >>) /\ \A m \in Elements(u) : ~Accepts(m)
         /\ down[e] = << >> /\ ~watch[e] => k.dn = << >>
  <2>1. ASSUME down'[e] = down[e]
        PROVE  \E u \in Seq(Messages) :
                 /\ k.dn = l.dn \o u /\ Pushes(u, << >>) /\ \A m \in Elements(u) : ~Accepts(m)
                 /\ down[e] = << >> /\ ~watch[e] => k.dn = << >>
    <3>1. l.dn \o << >> = k.dn
      BY <1>7, <1>10, <2>1, ConcatEmptySeq
    <3>2. Pushes(<< >>, << >>) /\ Elements(<< >>) = {}
      BY PushesFacts, ElementsFacts
    <3> QED
      BY <1>7, <1>10, <2>1, <3>1, <3>2
  <2>2. ASSUME NEW n \in Node, down'[e] = down[e] \o Told1(e, n), watch[e]
        PROVE  \E u \in Seq(Messages) :
                 /\ k.dn = l.dn \o u /\ Pushes(u, << >>) /\ \A m \in Elements(u) : ~Accepts(m)
                 /\ down[e] = << >> /\ ~watch[e] => k.dn = << >>
    <3>1. PICK m : m = [type |-> "update", node |-> n]
      OBVIOUS
    <3>2. m \in Messages /\ Carried(m) = {} /\ Mentioned(m) = {} /\ m.type # "put"
          /\ ~Asking(m) /\ ~Accepts(m)
      BY <3>1, NewsFacts
    <3>3. <<m>> \in Seq(Messages) /\ Elements(<<m>>) = {m}
      BY <3>2, One
    <3>4. Pushes(<<m>>, << >>)
      BY <3>2, PushesFacts
    <3>5. k.dn = l.dn \o <<m>>
      BY <1>7, <2>2, <3>1 DEF Told1
    <3> QED
      BY <2>2, <3>2, <3>3, <3>4, <3>5
  <2>3. ASSUME NEW n \in Node, down'[e] = down[e] \o Told1(e, n), ~watch[e]
        PROVE  down'[e] = down[e]
    BY <1>10, <2>3, ConcatEmptySeq DEF Told1
  <2> QED
    BY <2>1, <2>2, <2>3
<1>13. Heard(s, k.dn)
  <2>1. Heard(s, l.dn)
    BY <1>3 DEF Paced, Steady
  <2> QED
    BY <1>7, <1>10, <1>12, <2>1, HeardMore
<1>14. Paced(e, r, k, x)
  BY <1>2, <1>3, <1>6, <1>7, <1>9, <1>10, <1>11, <1>12, <1>13, PushPaced
<1>15. WiredOf(e)'
  <2>1. WiredOf(e)
    BY DEF PacedOf
  <2>2. CASE online[e]
    BY <1>5, <2>1, <2>2 DEF WiredOf, Wired
  <2>3. CASE ~online[e]
    <3>1. down[e] = << >> /\ ~watch[e] /\ \A m \in Elements(outbox[e]) : ~Speaks(m)
      BY <2>1, <2>3 DEF WiredOf, Wired
    <3>2. down'[e] = << >>
      BY <1>7, <1>12, <3>1
    <3> QED
      BY <2>3, <3>1, <3>2 DEF WiredOf, Wired
  <2> QED
    BY <2>2, <2>3
<1> QED
  BY <1>1, <1>14, <1>15 DEF PacedOf
(* Requests are messages.                                                  *)
LEMMA RequestsAre == \A q \in Seq(Requests) : q \in Seq(Messages)
BY DEF Messages


(* A phone does what it does without the others.                           *)
Leaves(d) ==
  /\ \A e \in Devices : e # d =>
       /\ queue'[e] = queue[e] /\ writes'[e] = writes[e] /\ cache'[e] = cache[e]
       /\ feed'[e] = feed[e] /\ online'[e] = online[e] /\ watch'[e] = watch[e]
       /\ outbox'[e] = outbox[e] /\ held'[e] = held[e] /\ todo'[e] = todo[e]
       /\ down'[e] = down[e] \/ \E n \in Node : down'[e] = down[e] \o Told1(e, n)
  /\ Apart(d, txn, txn') /\ written \subseteq written'

(* When one phone has made a step, the others are in step if it is.        *)
LEMMA OthersPaced ==
  ASSUME IInv, IInv', Counted, NEW d \in Devices, Leaves(d), PacedOf(d)',
         post'.ups = Cardinality(applied')
  PROVE  Counted'
<1>1. Shape /\ Shape'
  BY DEF IInv
<1>2. ASSUME NEW e \in Devices, e # d
      PROVE  PacedOf(e)'
  <2>1. /\ queue'[e] = queue[e] /\ writes'[e] = writes[e] /\ cache'[e] = cache[e]
        /\ feed'[e] = feed[e] /\ online'[e] = online[e] /\ watch'[e] = watch[e]
        /\ outbox'[e] = outbox[e] /\ held'[e] = held[e] /\ todo'[e] = todo[e]
        /\ down'[e] = down[e] \/ \E n \in Node : down'[e] = down[e] \o Told1(e, n)
        /\ Apart(d, txn, txn') /\ written \subseteq written'
    BY <1>2 DEF Leaves
  <2>2. PhoneOf(e) /\ PacedOf(e)
    BY DEF IInv, Counted
  <2> QED
    BY <1>1, <1>2, <2>1, <2>2, OtherPaced
<1>3. \A e \in Devices : PacedOf(e)'
  BY <1>2
<1> QED
  BY <1>3 DEF Counted

(* What is asked for behind the requests of a phone.                       *)
LEMMA WiredMore ==
  ASSUME NEW x, NEW f, NEW on, NEW w, NEW q \in Seq(Messages), NEW dn,
         Wired(x, f, on, w, q, dn), NEW u \in Seq(Messages), NEW y, NEW g, NEW en,
         \A m \in Elements(u) : ~Speaks(m) /\ (m.type = "put" => x # {} \/ f # "idle"),
         y # {} \/ g # "idle" => x # {} \/ f # "idle",
         ~on /\ dn = << >> => en = << >>
  PROVE  Wired(y, g, on, w, q \o u, en)
<1>1. PICK a : a = q \o u
  OBVIOUS
<1>2. /\ a \in Seq(Messages) /\ Len(q) \in Nat /\ Len(u) \in Nat /\ Len(a) = Len(q) + Len(u)
      /\ \A i \in 1..Len(q) : i \in 1..Len(a) /\ a[i] = q[i]
      /\ \A i \in 1..Len(u) : Len(q) + i \in 1..Len(a) /\ a[Len(q) + i] = u[i]
      /\ \A i \in 1..Len(a) : i \in 1..Len(q) \/ i - Len(q) \in 1..Len(u)
  BY <1>1, ConcatPlaces
<1>3. Elements(a) = Elements(q) \cup Elements(u)
  BY <1>1, ElementsConcat
<1>4. CASE ~on
  BY <1>1, <1>3, <1>4 DEF Wired
<1>5. CASE on
  <2>1. /\ \A j \in 1..Len(q) : q[j].type = "put" => Hears(q, j, w, TRUE)
        /\ x # {} \/ f # "idle" => Hears(q, Len(q) + 1, w, TRUE)
    BY <1>5 DEF Wired
  <2>2. ASSUME x # {} \/ f # "idle", NEW j \in 1..(Len(u) + 1)
        PROVE  Hears(a, Len(q) + j, w, TRUE)
    BY <1>1, <2>1, <2>2, HearsSilence
  <2>3. ASSUME NEW j \in 1..Len(a), a[j].type = "put"
        PROVE  Hears(a, j, w, TRUE)
    <3>1. CASE j \in 1..Len(q)
      <4>1. Hears(q, j, w, TRUE)
        BY <1>2, <2>1, <2>3, <3>1
      <4>2. j \in 1..(Len(q) + 1)
        BY <1>2, <3>1
      <4> QED
        BY <1>1, <4>1, <4>2, HearsFront
    <3>2. CASE j - Len(q) \in 1..Len(u)
      <4>1. PICK i : i = j - Len(q)
        OBVIOUS
      <4>2. i \in 1..Len(u) /\ j = Len(q) + i /\ i \in 1..(Len(u) + 1)
        BY <1>2, <3>2, <4>1
      <4>3. a[j] = u[i]
        BY <1>2, <4>2
      <4>4. u[i] \in Elements(u)
        BY <4>2 DEF Elements
      <4>5. x # {} \/ f # "idle"
        BY <2>3, <4>3, <4>4
      <4> QED
        BY <2>2, <4>2, <4>5
    <3> QED
      BY <1>2, <3>1, <3>2
  <2>4. ASSUME y # {} \/ g # "idle"
        PROVE  Hears(a, Len(a) + 1, w, TRUE)
    <3>1. Len(u) + 1 \in 1..(Len(u) + 1) /\ Len(a) + 1 = Len(q) + (Len(u) + 1)
      BY <1>2
    <3> QED
      BY <2>2, <2>4, <3>1
  <2> QED
    BY <1>1, <1>5, <2>3, <2>4 DEF Wired
<1> QED
  BY <1>4, <1>5

(* What a phone asks the server to tell it.                                *)
LEMMA WiredSay ==
  ASSUME NEW x, NEW f, NEW on, NEW w, NEW q \in Seq(Messages), NEW dn,
         Wired(x, f, on, w, q, dn), NEW m \in Messages, Speaks(m), m.type # "put",
         NEW u, u = IF on THEN <<m>> ELSE << >>, NEW y, NEW g, NEW en,
         y # {} \/ g # "idle" => Word(m) = TRUE,
         ~on /\ dn = << >> => en = << >>
  PROVE  Wired(y, g, on, w, q \o u, en)
<1>1. CASE ~on
  <2>1. q \o u = q
    BY <1>1, ConcatEmptySeq
  <2> QED
    BY <1>1, <2>1 DEF Wired
<1>2. CASE on
  <2>1. PICK a : a = Append(q, m)
    OBVIOUS
  <2>2. q \o u = a
    BY <1>2, <2>1, Concats
  <2>3. /\ a \in Seq(Messages) /\ Len(q) \in Nat /\ Len(a) = Len(q) + 1
        /\ \A n \in 1..Len(q) : a[n] = q[n]
        /\ a[Len(q) + 1] = m
    BY <2>1, AppendFacts
  <2>4. ASSUME NEW j \in 1..Len(a), a[j].type = "put"
        PROVE  Hears(a, j, w, TRUE)
    <3>1. j \in 1..Len(q) /\ j \in 1..(Len(q) + 1)
      BY <2>3, <2>4
    <3>2. Hears(q, j, w, TRUE)
      BY <1>2, <2>3, <2>4, <3>1 DEF Wired
    <3>3. <<m>> \in Seq(Messages)
      BY One
    <3>4. Hears(q \o <<m>>, j, w, TRUE)
      BY <3>1, <3>2, <3>3, HearsFront
    <3> QED
      BY <1>2, <2>2, <3>4
  <2>5. ASSUME Word(m) = TRUE
        PROVE  Hears(a, Len(a) + 1, w, TRUE)
    <3>1. PICK n : n = Len(q) + 1
      OBVIOUS
    <3>2. Hears(Append(q, m), n + 1, w, TRUE)
      BY <2>5, <3>1, HearsNext
    <3> QED
      BY <2>1, <2>3, <3>1, <3>2
  <2> QED
    BY <1>2, <2>2, <2>4, <2>5 DEF Wired
<1> QED
  BY <1>1, <1>2

(* The server has processed a request.                                     *)
LEMMA WiredTail ==
  ASSUME NEW x, NEW f, NEW w, NEW q \in Seq(Messages), q # << >>, NEW dn,
         Wired(x, f, TRUE, w, q, dn), NEW en,
         NEW v, v = IF Speaks(Head(q)) THEN Word(Head(q)) ELSE w
  PROVE  Wired(x, f, TRUE, v, Tail(q), en)
<1>1. PICK a : a = Tail(q)
  OBVIOUS
<1>2. /\ a \in Seq(Messages)
      /\ Len(q) \in Nat \ {0} /\ Len(a) = Len(q) - 1
      /\ \A n \in 1..Len(a) : n + 1 \in 1..Len(q) /\ a[n] = q[n + 1]
  BY <1>1, TailFacts
<1>3. /\ \A j \in 1..Len(q) : q[j].type = "put" => Hears(q, j, w, TRUE)
      /\ x # {} \/ f # "idle" => Hears(q, Len(q) + 1, w, TRUE)
  BY DEF Wired
<1>4. ASSUME NEW j \in 1..Len(q), Hears(q, j + 1, w, TRUE)
      PROVE  Hears(a, j, v, TRUE)
  <2>1. PICK t : t = TRUE
    OBVIOUS
  <2>2. Hears(q, j + 1, w, t)
    BY <1>4, <2>1
  <2>3. Hears(Tail(q), j, v, t)
    BY <2>2, HearsTail
  <2> QED
    BY <1>1, <2>1, <2>3
<1>5. ASSUME NEW j \in 1..Len(a), a[j].type = "put"
      PROVE  Hears(a, j, v, TRUE)
  <2>1. j \in 1..Len(q) /\ j + 1 \in 1..Len(q) /\ q[j + 1].type = "put"
    BY <1>2, <1>5
  <2>2. Hears(q, j + 1, w, TRUE)
    BY <1>3, <2>1
  <2> QED
    BY <1>4, <2>1, <2>2
<1>6. ASSUME x # {} \/ f # "idle"
      PROVE  Hears(a, Len(a) + 1, v, TRUE)
  <2>1. PICK j : j = Len(q)
    OBVIOUS
  <2>2. j \in 1..Len(q) /\ Len(a) + 1 = j
    BY <1>2, <2>1
  <2>3. Hears(q, j + 1, w, TRUE)
    BY <1>3, <1>6, <2>1
  <2> QED
    BY <1>4, <2>2, <2>3
<1> QED
  BY <1>1, <1>5, <1>6 DEF Wired

-----------------------------------------------------------------------------
(* What a handler leaves behind.                                           *)

(* What a handler leaves is what its phone is in step with.                *)
LEMMA CommitPaced ==
  ASSUME Shape, Shape', NEW d \in Devices, NEW s \in Phone, Commit(d, s), NEW k \in Line,
         NEW ap, NEW v, Sound(d, s, k, ap, v), Paced(d, s, k, written'),
         k.ob = outbox[d], k.dn = down'[d], k.hd = held'[d], k.td = todo'[d]
  PROVE  Paced(d, State(d)', LineOf(d)', written')
<1>1. PICK r, j, w : r = State(d)' /\ j = LineOf(d)' /\ w = written'
  OBVIOUS
<1>2. /\ r \in Phone /\ j \in Line /\ Asks(r, j) = outbox'[d] /\ outbox[d] \in Seq(Requests)
      /\ outbox'[d] \in Seq(Requests)
  BY <1>1, ShapeFacts, ShapeNext
<1>3. /\ txn' = s.txn /\ queue'[d] = s.queue /\ writes'[d] = s.writes
      /\ feed'[d] = s.feed
      /\ cache'[d] = IF UnderWay(s.txn, d) = {} /\ s.feed # "answered" THEN Empty ELSE s.cache
  BY DEF Shape, Commit
<1>4. PICK u : u = IF UnderWay(s.txn, d) = {} /\ s.feed = "idle" /\ UnderWay(txn, d) # {}
                   THEN Say(d, [type |-> "unlisten"]) ELSE << >>
  OBVIOUS
<1>5. outbox'[d] = (outbox[d] \o s.puts) \o u
  <2>1. outbox \in [Devices -> Seq(Requests)] /\ d \in Devices
    BY DEF Shape
  <2>2. outbox' = [outbox EXCEPT ![d] = @ \o s.puts \o u]
    BY <1>4 DEF Commit
  <2> QED
    BY <2>1, <2>2
<1>6. u \in Seq(Messages) /\ \A m \in Elements(u) : m.type = "unlisten"
  <2>1. PICK m : m = [type |-> "unlisten"]
    OBVIOUS
  <2>2. m \in Messages /\ m.type = "unlisten"
    BY <2>1 DEF Messages, Requests
  <2>3. <<m>> \in Seq(Messages) /\ Elements(<<m>>) = {m}
    BY <2>2, One
  <2>4. << >> \in Seq(Messages) /\ Elements(<< >>) = {}
    BY EmptySeq, ElementsFacts
  <2>5. u = <<m>> \/ u = << >>
    BY <1>4, <2>1 DEF Say
  <2> QED
    BY <2>2, <2>3, <2>4, <2>5
<1>7. \A m \in Elements(u) : Idle(m) /\ ~Opens(m) /\ ~Fetches(m) /\ ~Asking(m)
  BY <1>6 DEF Idle, Carried, Mentioned, Opens, Fetches, Asking
<1>8. Asks(r, j) = Asks(s, k) \o u
  BY <1>2, <1>5 DEF Asks
<1>9. j.dn = k.dn /\ j.hd = k.hd /\ j.td = k.td
  BY <1>1 DEF LineOf
<1>10. /\ Road(r, j) = Road(s, k) \o u /\ Path(r, j) = Path(s, k) \o u
       /\ Elements(Road(r, j)) = Elements(Road(s, k)) \cup Elements(u)
       /\ Elements(Path(r, j)) = Elements(Path(s, k)) \cup Elements(u)
       /\ \A x, y : After(Path(r, j), x, y) <=>
            \/ After(Path(s, k), x, y) \/ After(u, x, y)
            \/ (x \in Elements(Path(s, k)) /\ y \in Elements(u))
  <2>1. s \in Phone /\ k \in Line /\ u \in Seq(Messages)
    BY <1>6
  <2>2. Grows(s, k, r, j, u)
    BY ONLY <1>8, <1>9, <2>1, PathGrows
  <2> QED
    BY ONLY <2>2 DEF Grows
<1>11. Follows(Path(r, j), Path(s, k))
  <2>1. PICK q : q = Path(s, k)
    OBVIOUS
  <2>2. q \in Seq(Messages)
    BY <2>1, Places
  <2>3. Follows(q \o u, q)
    BY <1>6, <1>7, <2>2, FollowsMore
  <2> QED
    BY <1>10, <2>1, <2>3
<1>12. /\ r.queue = s.queue /\ r.writes = s.writes /\ r.txn = s.txn /\ r.feed = s.feed
       /\ r.cache = cache'[d]
  BY <1>1, <1>3 DEF State
<1>13. Quiet(d, s, k, r, j)
  BY <1>11, <1>12 DEF Quiet
<1>14. Steady(s, k, w)
  BY <1>1 DEF Paced
<1>15. Straight(r.feed, Road(r, j))
  <2>1. PICK q, f : q = Road(s, k) /\ f = s.feed
    OBVIOUS
  <2>2. q \in Seq(Messages) /\ Straight(f, q)
    BY <1>14, <2>1, Places DEF Steady
  <2>3. Straight(f, q \o u)
    BY <1>6, <1>7, <2>2, StraightMore
  <2> QED
    BY <1>10, <1>12, <2>1, <2>3
<1>16. Heard(r, j.dn)
  <2>1. CASE UnderWay(s.txn, d) = {}
    <3>1. /\ \A m \in Elements(Path(s, k)) : Carried(m) = {}
          /\ \A y : Heard(y, k.dn)
      BY <2>1, HeardNothing
    <3> QED
      BY <1>9, <3>1
  <2>2. CASE UnderWay(s.txn, d) # {}
    <3>1. r.cache = s.cache
      BY <1>3, <1>12, <2>2
    <3> QED
      BY <1>9, <1>12, <1>14, <3>1, HeardSame DEF Steady
  <2> QED
    BY <2>1, <2>2
<1>17. Resting(d, s, k, r, j)
  BY <1>7, <1>9, <1>10, <1>12 DEF Resting, Rests
<1>18. Paced(d, r, j, w)
  BY <1>1, <1>13, <1>15, <1>16, <1>17, QuietPaced
<1> QED
  BY <1>1, <1>18

(* What a handler asks for keeps the server's knowledge of who listens.    *)
LEMMA CommitWired ==
  ASSUME Shape, Shape', NEW d \in Devices, NEW s \in Phone, Commit(d, s), WiredOf(d),
         online' = online, watch' = watch,
         \A m \in Elements(s.puts) :
           ~Speaks(m) /\ (m.type = "put" => UnderWay(txn, d) # {} \/ feed[d] # "idle"),
         s.feed # "idle" => feed[d] # "idle",
         UnderWay(s.txn, d) \subseteq UnderWay(txn, d),
         down[d] = << >> => down'[d] = << >>
  PROVE  WiredOf(d)'
<1>1. txn' = s.txn /\ feed'[d] = s.feed
  BY DEF Shape, Commit
<1>2. PICK u : u = IF UnderWay(s.txn, d) = {} /\ s.feed = "idle" /\ UnderWay(txn, d) # {}
                   THEN Say(d, [type |-> "unlisten"]) ELSE << >>
  OBVIOUS
<1>3. outbox'[d] = (outbox[d] \o s.puts) \o u
  BY <1>2 DEF Shape, Commit
<1>4. PICK q, p, x, f, on, w, dn, y, g, en :
        /\ q = outbox[d] /\ p = s.puts /\ x = UnderWay(txn, d) /\ f = feed[d]
        /\ on = online[d] /\ w = watch[d] /\ dn = down[d] /\ y = UnderWay(s.txn, d)
        /\ g = s.feed /\ en = down'[d]
  OBVIOUS
<1>5. q \in Seq(Messages) /\ p \in Seq(Messages)
  <2>1. outbox[d] \in Seq(Requests) /\ s.puts \in Seq(Requests)
    BY DEF Shape, Phone
  <2>2. Requests \subseteq Messages
    BY DEF Messages
  <2> QED
    BY <1>4, <2>1, <2>2, SeqMonotonic
<1>6. Wired(x, f, on, w, q, dn)
  BY <1>4 DEF WiredOf
<1>7. PICK a : a = q \o p
  OBVIOUS
<1>8. a \in Seq(Messages)
  BY <1>5, <1>7, Concats
<1>9. Wired(y, g, on, w, a, en)
  <2>1. /\ \A m \in Elements(p) : ~Speaks(m) /\ (m.type = "put" => x # {} \/ f # "idle")
        /\ y # {} \/ g # "idle" => x # {} \/ f # "idle"
        /\ ~on /\ dn = << >> => en = << >>
    BY <1>4
  <2> QED
    BY <1>5, <1>6, <1>7, <2>1, WiredMore
<1>10. Wired(y, g, on, w, a \o u, en)
  <2>1. CASE y = {} /\ g = "idle" /\ x # {}
    <3>1. PICK m : m = [type |-> "unlisten"]
      OBVIOUS
    <3>2. m \in Messages /\ m.type = "unlisten" /\ Speaks(m)
      BY <3>1 DEF Messages, Requests, Speaks
    <3>3. u = IF on THEN <<m>> ELSE << >>
      BY <1>2, <1>4, <2>1, <3>1 DEF Say
    <3>4. /\ y # {} \/ g # "idle" => Word(m) = TRUE
          /\ ~on /\ en = << >> => en = << >>
          /\ m.type # "put"
      BY <2>1, <3>2
    <3> QED
      BY <1>8, <1>9, <3>2, <3>3, <3>4, WiredSay
  <2>2. CASE ~(y = {} /\ g = "idle" /\ x # {})
    <3>1. u = << >>
      BY <1>2, <1>4, <2>2
    <3>2. a \o << >> = a
      BY <1>8, ConcatEmptySeq
    <3> QED
      BY <1>9, <3>1, <3>2
  <2> QED
    BY <2>1, <2>2
<1>11. /\ UnderWay(txn', d) = y /\ feed'[d] = g /\ online'[d] = on /\ watch'[d] = w
       /\ outbox'[d] = a \o u /\ down'[d] = en
  BY <1>1, <1>3, <1>4, <1>7
<1> QED
  BY <1>10, <1>11 DEF WiredOf

(* A handler keeps what is known of all phones.                            *)
LEMMA HandlerCounts ==
  ASSUME IInv, IInv', Counted, NEW d \in Devices, NEW s \in Phone, Commit(d, s),
         NEW k \in Line, NEW ap, NEW v, Sound(d, s, k, ap, v), Paced(d, s, k, written'),
         Apart(d, txn, s.txn),
         k.ob = outbox[d], k.dn = down'[d], k.hd = held'[d], k.td = todo'[d],
         \A e \in Devices : e # d =>
           down'[e] = down[e] /\ held'[e] = held[e] /\ todo'[e] = todo[e],
         post' = post, watch' = watch, online' = online, applied' = applied,
         written \subseteq written',
         \A m \in Elements(s.puts) : m.type \in {"put", "set"},
         s.feed # "idle" => feed[d] # "idle",
         Elements(s.writes) \ Comments \subseteq Elements(writes[d]),
         down[d] = << >> => down'[d] = << >>
  PROVE  Counted'
<1>1. Shape /\ Shape' /\ PhoneOf(d) /\ PacedOf(d)
  BY DEF IInv, Counted
<1>2. Paced(d, State(d)', LineOf(d)', written')
  BY <1>1, CommitPaced
<1>3. UnderWay(s.txn, d) \subseteq UnderWay(txn, d)
  <2>1. Elements(s.writes) \ Comments = UnderWay(s.txn, d)
    BY DEF Sound, Listed
  <2>2. Elements(writes[d]) \ Comments = UnderWay(txn, d)
    BY <1>1 DEF PhoneOf, Sound, Listed, State
  <2> QED
    BY <2>1, <2>2
<1>4. ASSUME NEW m \in Elements(s.puts)
      PROVE  ~Speaks(m) /\ (m.type = "put" => UnderWay(txn, d) # {} \/ feed[d] # "idle")
  <2>1. ~Speaks(m)
    BY DEF Speaks, Asking
  <2>2. ASSUME m.type = "put"
        PROVE  UnderWay(txn, d) # {}
    <3>1. m \in Elements(Asks(s, k))
      <4>1. k.ob \in Seq(Requests) /\ s.puts \in Seq(Requests)
        BY DEF Line, Phone
      <4> QED
        BY <4>1, ElementsConcat DEF Asks
    <3>2. m \in Elements(Path(s, k)) /\ m \in Messages
      BY <3>1, Places, ElementsFacts DEF Everywhere
    <3>3. RightMessage(d, m, s, ap)
      BY <3>1 DEF Sound, Carries, RightMessages
    <3>4. Carried(m) # {}
      BY <2>2, <3>2, <3>3, PutCarries
    <3>5. RightPath(d, s, k)
      BY SoundPath
    <3>6. UnderWay(s.txn, d) # {}
      BY <3>2, <3>4, <3>5 DEF RightPath
    <3> QED
      BY <1>3, <3>6
  <2> QED
    BY <2>1, <2>2
<1>5. WiredOf(d)'
  <2>1. WiredOf(d)
    BY <1>1 DEF PacedOf
  <2>2. \A m \in Elements(s.puts) :
          ~Speaks(m) /\ (m.type = "put" => UnderWay(txn, d) # {} \/ feed[d] # "idle")
    BY <1>4
  <2> QED
    BY <1>1, <1>3, <2>1, <2>2, CommitWired
<1>6. PacedOf(d)'
  BY <1>2, <1>5 DEF PacedOf
<1>7. Leaves(d)
  <2>1. \A e \in Devices : e # d =>
          /\ queue'[e] = queue[e] /\ writes'[e] = writes[e] /\ cache'[e] = cache[e]
          /\ feed'[e] = feed[e] /\ outbox'[e] = outbox[e]
    BY <1>1 DEF Shape, Commit
  <2>2. txn' = s.txn
    BY DEF Commit
  <2> QED
    BY <2>1, <2>2 DEF Leaves
<1>8. post'.ups = Cardinality(applied')
  BY DEF Counted
<1> QED
  BY <1>6, <1>7, <1>8, OthersPaced

(* Running a queue again, and sending it, writes only what was written,    *)
(* and asks for nothing but puts.                                          *)
LEMMA SendAsks ==
  ASSUME NEW d, NEW s \in Phone, NEW l \in Line, NEW ap, NEW w, Sound(d, s, l, ap, w),
         Ready(s), NEW r, r = SendReady(s)
  PROVE  /\ r.writes = s.writes /\ r.feed = s.feed
         /\ \A m \in Elements(r.puts) : m \in Elements(s.puts) \/ m.type = "put"
<1>1. Elements(s.writes) \ Comments \subseteq 1..Len(s.txn) /\ Elements(s.queue) \subseteq 1..Len(s.txn)
  BY QueuePending
<1>2. \A t \in Elements(s.queue) : s.txn[t].status = "run" => s.txn[t].retries < MaxRetries
  BY DEF Ready
<1>3. r \in Phone /\ IF Waits(s) THEN Launched(s, r) ELSE r = s
  BY <1>1, <1>2, SendFacts
<1>4. CASE Waits(s)
  <2>1. PICK m \in Puts : r.puts = Append(s.puts, m)
    BY <1>3, <1>4 DEF Launched
  <2>2. s.puts \in Seq(Requests) /\ m \in Requests
    BY DEF Phone, Requests
  <2>3. Elements(r.puts) = Elements(s.puts) \cup {m}
    BY <2>1, <2>2, ElementsAppend
  <2>4. m.type = "put"
    BY DEF Puts
  <2> QED
    BY <1>3, <1>4, <2>3, <2>4 DEF Launched
<1> QED
  BY <1>3, <1>4

(* What a rerun and its sending ask for are puts.                          *)
LEMMA ResentAsks ==
  ASSUME NEW d, NEW s \in Phone, NEW l \in Line, NEW ap, NEW w, Sound(d, s, l, ap, w),
         NEW r, Resent(s, r)
  PROVE  /\ Elements(r.writes) \subseteq Elements(s.writes) /\ r.feed = s.feed
         /\ \A m \in Elements(r.puts) : m \in Elements(s.puts) \/ m.type = "put"
<1>1. PICK a : a = Rerun(s) /\ r = SendReady(a)
  BY DEF Resent
<1>2. /\ Elements(s.writes) \ Comments \subseteq 1..Len(s.txn)
      /\ Elements(s.queue) \subseteq 1..Len(s.txn)
      /\ Elements(s.queue) \subseteq Elements(s.writes)
  BY QueuePending
<1>3. a \in Phone /\ Reran(s, a)
  BY <1>1, <1>2, RerunFacts
<1>4. Sound(d, a, l, ap, w) /\ Ready(a)
  BY <1>3, RerunSound
<1>5. /\ r.writes = a.writes /\ r.feed = a.feed
      /\ \A m \in Elements(r.puts) : m \in Elements(a.puts) \/ m.type = "put"
  BY <1>1, <1>3, <1>4, SendAsks
<1> QED
  BY <1>2, <1>3, <1>5 DEF Reran, Again
(* What an answered put makes of the requests of a phone.                  *)
LEMMA ResumedAsks ==
  ASSUME NEW d, NEW s \in Phone, NEW l \in Line, NEW ap, NEW w, Sound(d, s, l, ap, w),
         Sent(s), NEW m \in Answers, NEW k \in Line, Took(m, l, k),
         NEW r, ResumedFrom(m, s, r)
  PROVE  /\ Elements(r.writes) \subseteq Elements(s.writes) /\ r.feed = s.feed
         /\ \A x \in Elements(r.puts) : x \in Elements(s.puts) \/ x.type = "put"
<1>1. PICK b \in Phone : /\ AnswerNoted(m, s, b) /\ r = AfterPut(b, m.status, Elements(m.what))
                          /\ Head(m.what) \notin Comments
  BY DEF ResumedFrom
<1>2. CASE m.status # "ok"
  <2>1. r = b
    BY <1>1, <1>2 DEF AfterPut
  <2> QED
    BY <1>1, <2>1 DEF AnswerNoted
<1>3. CASE m.status = "ok"
  <2>1. PICK g, h : g = Elements(m.what) /\ h = [Forget(b, g) EXCEPT !.queue = Without(@, g)]
    OBVIOUS
  <2>2. r = SendReady(h)
    BY <1>1, <1>3, <2>1 DEF AfterPut
  <2>3. /\ h \in Phone /\ h.cache = b.cache /\ h.queue = Without(b.queue, g)
        /\ h.txn = b.txn /\ h.feed = b.feed /\ h.unanswered = b.unanswered
        /\ h.puts = b.puts /\ Elements(h.writes) = Elements(b.writes) \ g
    <3>1. Forgotten(b, g, h)
      BY <2>1 DEF Forgotten
    <3> QED
      BY <3>1, ForgottenPhone
  <2>4. Settles(m, s, h)
    BY <1>1, <1>3, <2>1, <2>3 DEF Settles, AnswerNoted
  <2>5. Sound(d, h, k, ap, w) /\ Apart(d, s.txn, h.txn) /\ Ready(h)
    BY <1>1, <1>3, <2>3, <2>4, SettleSound
  <2>6. /\ r.writes = h.writes /\ r.feed = h.feed
        /\ \A x \in Elements(r.puts) : x \in Elements(h.puts) \/ x.type = "put"
    BY <2>2, <2>3, <2>5, SendAsks
  <2> QED
    BY <1>1, <2>3, <2>6 DEF AnswerNoted
<1> QED
  BY <1>2, <1>3

(* The answer of a put is handled.                                         *)
LEMMA HandlePutCounts ==
  ASSUME IInv, IInv', Counted, NEW d \in Devices, HandlePut(d)
  PROVE  Counted'
<1>1. Shape /\ Shape' /\ PhoneOf(d) /\ PacedOf(d)
  BY DEF IInv, Counted
<1>2. /\ written' = written /\ applied' = applied /\ post' = post
      /\ watch' = watch /\ online' = online /\ held' = held
  BY DEF HandlePut, bounds, history
<1>3. PICK m \in Answers, k \in Line : \E r, z : PutHandled(d, m, k, r, z)
  BY HandlePutDoes
<1>4. PICK r, z : PutHandled(d, m, k, r, z)
  BY <1>3
<1>5. PICK s, l, ap, w : s = State(d) /\ l = LineOf(d) /\ ap = applied /\ w = written
  OBVIOUS
<1>6. /\ s \in Phone /\ l \in Line /\ Sound(d, s, l, ap, w) /\ Sent(s) /\ Paced(d, s, l, w)
      /\ s.puts = << >> /\ s.feed = feed[d] /\ s.writes = writes[d]
  BY <1>1, <1>5, ShapeFacts DEF PhoneOf, PacedOf, State
<1>7. /\ Took(m, l, k) /\ ResumedFrom(m, s, r) /\ r \in Phone /\ Sound(d, r, k, ap, w)
      /\ Resent(r, z) /\ z \in Phone /\ Sound(d, z, k, ap, w) /\ Commit(d, z)
      /\ Apart(d, txn, z.txn) /\ k.dn = down'[d] /\ k.hd = held[d] /\ k.td = todo'[d]
  BY <1>4, <1>5 DEF PutHandled
<1>8. Paced(d, z, k, w)
  BY <1>6, <1>7, PutPaced
<1>9. /\ Elements(r.writes) \subseteq Elements(s.writes) /\ r.feed = s.feed
      /\ \A x \in Elements(r.puts) : x \in Elements(s.puts) \/ x.type = "put"
  BY <1>6, <1>7, ResumedAsks
<1>10. /\ Elements(z.writes) \subseteq Elements(r.writes) /\ z.feed = r.feed
       /\ \A x \in Elements(z.puts) : x \in Elements(r.puts) \/ x.type = "put"
  BY <1>7, ResentAsks
<1>11. \A x \in Elements(z.puts) : x.type \in {"put", "set"}
  BY <1>6, <1>9, <1>10, ElementsFacts
<1>12. /\ z.feed # "idle" => feed[d] # "idle"
       /\ Elements(z.writes) \ Comments \subseteq Elements(writes[d])
  BY <1>6, <1>9, <1>10
<1>13. /\ \A e \in Devices : e # d =>
            down'[e] = down[e] /\ held'[e] = held[e] /\ todo'[e] = todo[e]
       /\ down[d] = << >> => down'[d] = << >>
  BY <1>1, <1>2, AnswerShape DEF HandlePut
<1>14. Paced(d, z, k, written') /\ k.ob = outbox[d] /\ k.hd = held'[d]
  BY <1>2, <1>5, <1>7, <1>8 DEF Took, LineOf
<1>15. written \subseteq written'
  BY <1>2
<1> QED
  BY <1>2, <1>7, <1>11, <1>12, <1>13, <1>14, <1>15, HandlerCounts

(* The answer of a comment is handled.                                     *)
LEMMA HandleSetCounts ==
  ASSUME IInv, IInv', Counted, NEW d \in Devices, HandleSet(d)
  PROVE  Counted'
<1>1. Shape /\ Shape' /\ PhoneOf(d) /\ PacedOf(d)
  BY DEF IInv, Counted
<1>2. /\ written' = written /\ applied' = applied /\ post' = post
      /\ watch' = watch /\ online' = online /\ held' = held
  BY DEF HandleSet, bounds, history
<1>3. PICK m \in Answers, k \in Line : \E r : SetHandled(d, m, k, r)
  BY HandleSetDoes
<1>4. PICK r : SetHandled(d, m, k, r)
  BY <1>3
<1>5. PICK s, l, ap, w : s = State(d) /\ l = LineOf(d) /\ ap = applied /\ w = written
  OBVIOUS
<1>6. s \in Phone /\ l \in Line /\ Sound(d, s, l, ap, w) /\ Paced(d, s, l, w)
  BY <1>1, <1>5, ShapeFacts DEF PhoneOf, PacedOf
<1>7. /\ Took(m, l, k) /\ Head(m.what) \in Comments /\ r = Forget(s, Elements(m.what))
      /\ r \in Phone /\ Sound(d, r, k, ap, w) /\ Commit(d, r) /\ Apart(d, txn, r.txn)
      /\ k.dn = down'[d] /\ k.hd = held[d] /\ k.td = todo'[d]
      /\ Elements(r.writes) \subseteq Elements(writes[d]) /\ r.puts = << >>
      /\ r.feed = feed[d]
  BY <1>4, <1>5 DEF SetHandled
<1>8. Paced(d, r, k, w)
  BY <1>6, <1>7, SetPaced
<1>9. \A x \in Elements(r.puts) : x.type \in {"put", "set"}
  BY <1>7, ElementsFacts
<1>10. /\ r.feed # "idle" => feed[d] # "idle"
       /\ Elements(r.writes) \ Comments \subseteq Elements(writes[d])
  BY <1>7
<1>11. /\ \A e \in Devices : e # d =>
            down'[e] = down[e] /\ held'[e] = held[e] /\ todo'[e] = todo[e]
       /\ down[d] = << >> => down'[d] = << >>
  BY <1>1, <1>2, AnswerShape DEF HandleSet
<1>12. Paced(d, r, k, written') /\ k.ob = outbox[d] /\ k.hd = held'[d]
  BY <1>2, <1>5, <1>7, <1>8 DEF Took, LineOf
<1>13. written \subseteq written'
  BY <1>2
<1> QED
  BY <1>2, <1>7, <1>9, <1>10, <1>11, <1>12, <1>13, HandlerCounts

(* A comment is set.                                                       *)
LEMMA SetCommentCounts ==
  ASSUME IInv, IInv', Counted, NEW d \in Devices, NEW c \in Comments, SetComment(d, c)
  PROVE  Counted'
<1>1. Shape /\ Shape' /\ PhoneOf(d) /\ PacedOf(d)
  BY DEF IInv, Counted
<1>2. /\ written' = written \cup {c} /\ applied' = applied /\ post' = post
      /\ watch' = watch /\ online' = online /\ down' = down /\ held' = held /\ todo' = todo
      /\ c \notin written
  BY DEF SetComment, history
<1>3. PICK m, b, a, z : CommentDone(d, c, m, b, a, z)
  BY SetCommentDoes
<1>4. PICK s, l, ap, w, v : /\ s = State(d) /\ l = LineOf(d) /\ ap = applied /\ w = written
                            /\ v = written \cup {c}
  OBVIOUS
<1>5. /\ s \in Phone /\ l \in Line /\ Sound(d, s, l, ap, w) /\ Paced(d, s, l, w) /\ Sent(s)
      /\ s.txn = txn /\ s.queue = queue[d] /\ s.writes = writes[d] /\ s.cache = cache[d]
      /\ s.feed = feed[d] /\ s.puts = << >>
      /\ l.ob = outbox[d] /\ l.dn = down[d] /\ l.hd = held[d] /\ l.td = todo[d]
  BY <1>1, <1>4, ShapeFacts DEF PhoneOf, PacedOf, State, LineOf
<1>6. /\ b \in Phone /\ b.queue = s.queue /\ b.writes = Append(s.writes, c)
      /\ b.cache = s.cache /\ b.feed = s.feed /\ b.puts = <<m>>
      /\ \A t \in 1..Len(s.txn) :
           b.txn[t].out = s.txn[t].out /\ b.txn[t].status = s.txn[t].status
      /\ Sound(d, b, l, ap, v) /\ a = Abort(b) /\ a \in Phone /\ Sound(d, a, l, ap, v)
      /\ Resent(a, z) /\ Commit(d, z) /\ Apart(d, txn, z.txn)
      /\ Sound(d, z, l, ap, v) /\ z \in Phone
  BY <1>3, <1>4, <1>5 DEF CommentDone, Alike
<1>7. m \in Requests /\ m.type = "set" /\ m.comment = c
  <2>1. m = [type |-> "set", comment |-> c]
    BY <1>3 DEF CommentDone
  <2> QED
    BY <2>1, RequestFacts
<1>8. Steady(b, l, v)
  <2>1. Steady(s, l, w) /\ c \notin w
    BY <1>2, <1>4, <1>5 DEF Paced
  <2>2. Steady(b, l, w \cup {c})
    BY <1>5, <1>6, <1>7, <2>1, CommentSteady
  <2> QED
    BY <1>4, <2>2
<1>9. \A t \in Elements(b.queue) : b.txn[t].status # "needsAbort"
  <2>1. \A t \in Elements(s.queue) :
          t \in 1..Len(s.txn) /\ s.txn[t].status # "needsAbort"
    BY <1>5 DEF Sent, Sound, Queued, Of
  <2> QED
    BY <1>6, <2>1
<1>10. /\ Paced(d, a, l, v)
       /\ \A t \in Elements(a.queue) : a.txn[t].status = "sentNeedsAbort"
  <2>1. b \in Phone /\ l \in Line /\ Sound(d, b, l, ap, v) /\ a = Abort(b)
    BY <1>5, <1>6
  <2> QED
    BY <1>8, <1>9, <2>1, AbortSteady
<1>11. z = a
  <2>1. \A t \in Elements(a.queue) : a.txn[t].status \notin {"run", "needsAbort"}
    BY <1>10
  <2> QED
    BY <1>6, <2>1, RerunIdle
<1>12. /\ a.puts = <<m>> /\ a.feed = feed[d]
       /\ Elements(a.writes) \subseteq Elements(writes[d]) \cup {c}
  <2>1. a \in Phone /\ Aborted(b, a)
    BY <1>6, AbortFacts
  <2>2. Elements(b.writes) = Elements(s.writes) \cup {c}
    <3>1. PICK S, q : S = Nat \cup Comments /\ q = s.writes
      OBVIOUS
    <3>2. q \in Seq(S) /\ c \in S
      BY <1>5, <3>1 DEF Phone
    <3>3. Append(q, c) \in Seq(S) /\ Elements(Append(q, c)) = Elements(q) \cup {c}
      BY <3>2, ElementsAppend
    <3> QED
      BY <1>6, <3>1, <3>3
  <2> QED
    BY <1>5, <1>6, <2>1, <2>2 DEF Aborted
<1>13. \A x \in Elements(z.puts) : x.type \in {"put", "set"}
  <2>1. Elements(<<m>>) = {m}
    BY ElementsFacts
  <2> QED
    BY <1>7, <1>11, <1>12, <2>1
<1>14. /\ z.feed # "idle" => feed[d] # "idle"
       /\ Elements(z.writes) \ Comments \subseteq Elements(writes[d])
  BY <1>11, <1>12
<1>15. /\ \A e \in Devices : e # d =>
            down'[e] = down[e] /\ held'[e] = held[e] /\ todo'[e] = todo[e]
       /\ down[d] = << >> => down'[d] = << >>
  BY <1>2
<1>16. /\ Paced(d, z, l, written') /\ l.ob = outbox[d] /\ l.dn = down'[d]
       /\ l.hd = held'[d] /\ l.td = todo'[d]
  BY <1>2, <1>4, <1>5, <1>10, <1>11
<1>17. written \subseteq written'
  BY <1>2
<1> QED
  BY <1>2, <1>5, <1>6, <1>13, <1>14, <1>15, <1>16, <1>17, HandlerCounts

-----------------------------------------------------------------------------
(* The next message of the server.                                         *)

(* It is taken, and the answers kept back stay or are handled now.         *)
Delivered(l, k) ==
  /\ k.ob = l.ob /\ k.dn = Tail(l.dn)
  /\ (k.hd = l.hd /\ k.td = << >>) \/ (k.hd = << >> /\ k.td = l.hd)

(* The path of a message that has been delivered.                          *)
LEMMA DeliveredPath ==
  ASSUME NEW s \in Phone, NEW l \in Line, l.td = << >>, l.dn # << >>,
         NEW r \in Phone, r.puts = s.puts, NEW k \in Line, Delivered(l, k)
  PROVE  /\ Road(s, l) # << >> /\ Head(Road(s, l)) = Head(l.dn)
         /\ Road(r, k) = Tail(Road(s, l)) /\ Asks(r, k) = Asks(s, l)
         /\ Follows(Path(r, k), Path(s, l))
         /\ Elements(Road(r, k)) \subseteq Elements(Road(s, l))
         /\ Elements(k.hd) \subseteq Elements(l.hd) /\ Elements(k.td) \subseteq Elements(l.hd)
<1>1. PICK n, b, h, q : n = l.dn /\ b = Asks(s, l) /\ h = l.hd /\ q = Road(s, l)
  OBVIOUS
<1>2. /\ n \in Seq(Messages) /\ b \in Seq(Messages) /\ h \in Seq(Messages)
      /\ q \in Seq(Messages) /\ q = n \o b
  BY <1>1, Places DEF Road
<1>3. q # << >> /\ Head(q) = Head(n) /\ Tail(q) = Tail(n) \o b /\ Tail(n) \in Seq(Messages)
  <2>1. Len(n) \in Nat \ {0} /\ Tail(n) \in Seq(Messages)
    BY <1>1, <1>2, TailFacts
  <2> QED
    BY <1>2, <2>1
<1>4. Asks(r, k) = b
  BY <1>1 DEF Asks, Delivered
<1>5. Road(r, k) = Tail(q)
  BY <1>1, <1>3, <1>4 DEF Road, Delivered
<1>6. Tail(q) \in Seq(Messages) /\ h \o Tail(q) \in Seq(Messages) /\ h \o q \in Seq(Messages)
      /\ << >> \in Seq(Messages)
  <2>1. Tail(q) \in Seq(Messages)
    BY <1>2, <1>3, TailFacts
  <2> QED
    BY <1>2, <2>1, EmptySeq, ConcatProperties
<1>7. Path(r, k) = h \o Tail(q)
  <2>1. CASE k.hd = l.hd /\ k.td = << >>
    <3>1. Path(r, k) = << >> \o (h \o Tail(q))
      BY <1>1, <1>5, <2>1 DEF Path
    <3> QED
      BY <1>6, <3>1, ConcatEmptySeq
  <2>2. CASE k.hd = << >> /\ k.td = l.hd
    <3>1. Path(r, k) = h \o (<< >> \o Tail(q))
      BY <1>1, <1>5, <2>2 DEF Path
    <3> QED
      BY <1>6, <3>1, ConcatEmptySeq
  <2> QED
    BY <2>1, <2>2 DEF Delivered
<1>8. Path(s, l) = h \o q
  <2>1. Path(s, l) = << >> \o (h \o q)
    BY <1>1 DEF Path
  <2> QED
    BY <1>6, <2>1, ConcatEmptySeq
<1>9. Follows(h \o Tail(q), h \o q)
  <2>1. Follows(h, h) /\ Follows(Tail(q), q)
    BY <1>2, <1>3, FollowsRefl, FollowsTail
  <2>2. PICK p : p = Tail(q)
    OBVIOUS
  <2>3. Follows(h \o p, h \o q)
    BY <1>2, <1>6, <2>1, <2>2, FollowsConcat
  <2> QED
    BY <2>2, <2>3
<1>10. Elements(Tail(q)) \subseteq Elements(q)
  BY <1>2, <1>3, ElementsTail
<1>11. Elements(k.hd) \subseteq Elements(l.hd) /\ Elements(k.td) \subseteq Elements(l.hd)
  BY ElementsFacts DEF Delivered
<1> QED
  BY <1>1, <1>3, <1>4, <1>5, <1>7, <1>8, <1>9, <1>10, <1>11

(* A phone that has just been told the post reads it.                      *)
LEMMA DeliveredStraight ==
  ASSUME NEW S, NEW q \in Seq(S), q # << >>, NEW f, Straight(f, q)
  PROVE  /\ Straight(f, Tail(q))
         /\ Fetches(Head(q)) => f = "sent" /\ Straight("answered", Tail(q))
<1>1. /\ Straight(f, Tail(q))
      /\ \A y \in Elements(Tail(q)) :
           /\ Carried(Head(q)) # {} => ~Opens(y)
           /\ Fetches(Head(q)) => ~Fetches(y)
      /\ Fetches(Head(q)) => f = "sent"
  BY SMTT(30), StraightTail
<1>2. ASSUME Fetches(Head(q))
      PROVE  Straight("answered", Tail(q))
  BY <1>1, <1>2 DEF Straight, Fetched
<1> QED
  BY <1>1, <1>2

(* What becomes of the answers kept back.                                  *)
LEMMA Released ==
  ASSUME Shape, NEW d \in Devices, Free(d), Acknowledge(d)
  PROVE  \/ held'[d] = held[d] /\ todo'[d] = << >>
         \/ held'[d] = << >> /\ todo'[d] = held[d]
<1>1. held \in [Devices -> Seq(Answers)] /\ todo \in [Devices -> Seq(Answers)]
      /\ todo[d] = << >>
  BY DEF Shape, Free
<1> QED
  BY <1>1 DEF Acknowledge

(* The feed arrives.                                                       *)
LEMMA DeliverFeedCounts ==
  ASSUME IInv, IInv', Counted, NEW d \in Devices, DeliverFeed(d)
  PROVE  Counted'
<1>1. Shape /\ Shape' /\ PhoneOf(d) /\ PacedOf(d)
  BY DEF IInv, Counted
<1>2. written' = written /\ applied' = applied /\ post' = post /\ watch' = watch
      /\ online' = online /\ Free(d) /\ Acknowledge(d)
  BY DEF DeliverFeed, bounds, history, Received
<1>3. /\ \E k \in Line : \E m, i, r : FeedHandled(d, m, i, k, r)
      /\ held' \in [Devices -> Seq(Answers)] /\ todo' \in [Devices -> Seq(Answers)]
      /\ down' \in [Devices -> Seq(Notices)]
      /\ \A e \in Devices : e # d =>
           down'[e] = down[e] /\ held'[e] = held[e] /\ todo'[e] = todo[e]
  BY DeliverFeedDoes
<1>4. PICK k \in Line : \E m, i, r : FeedHandled(d, m, i, k, r)
  BY <1>3
<1>5. PICK m, i, r : FeedHandled(d, m, i, k, r)
  BY <1>4
<1>6. PICK s, l, ap, w : s = State(d) /\ l = LineOf(d) /\ ap = applied /\ w = written
  OBVIOUS
<1>7. /\ s \in Phone /\ l \in Line /\ Sound(d, s, l, ap, w) /\ Paced(d, s, l, w) /\ Sent(s)
      /\ s.txn = txn /\ s.queue = queue[d] /\ s.writes = writes[d] /\ s.cache = cache[d]
      /\ s.feed = feed[d] /\ s.puts = << >>
      /\ l.ob = outbox[d] /\ l.dn = down[d] /\ l.hd = held[d] /\ l.td = todo[d]
  BY <1>1, <1>6, ShapeFacts DEF PhoneOf, PacedOf, State, LineOf
<1>8. /\ l.dn # << >> /\ m = Head(l.dn) /\ m.type = "value" /\ m.what = "feed"
      /\ m.node \in Node
      /\ i \in Phone /\ i = [s EXCEPT !.cache = m.node, !.feed = "answered"]
      /\ k.ob = l.ob /\ k.dn = Tail(l.dn) /\ k.dn = down'[d] /\ k.hd = held'[d]
      /\ k.td = todo'[d] /\ Sound(d, i, k, ap, w)
      /\ Resent(i, r) /\ r \in Phone /\ Sound(d, r, k, ap, w)
      /\ Commit(d, r) /\ Apart(d, txn, r.txn)
  BY <1>5, <1>6, <1>7 DEF FeedHandled
<1>9. /\ i.queue = s.queue /\ i.writes = s.writes /\ i.txn = s.txn /\ i.puts = s.puts
      /\ i.cache = m.node /\ i.feed = "answered"
  BY <1>7, <1>8 DEF Phone
<1>10. Delivered(l, k) /\ l.td = << >>
  BY <1>1, <1>2, <1>7, <1>8, Released DEF Delivered, Free
<1>11. PICK q : q = Road(s, l)
  OBVIOUS
<1>12. /\ q # << >> /\ Head(q) = m /\ q \in Seq(Messages)
       /\ Road(i, k) = Tail(q) /\ Follows(Path(i, k), Path(s, l))
  <2>1. /\ s \in Phone /\ l \in Line /\ l.td = << >> /\ l.dn # << >> /\ i \in Phone
        /\ i.puts = s.puts /\ k \in Line /\ Delivered(l, k)
    BY <1>7, <1>8, <1>9, <1>10
  <2>2. /\ Road(s, l) # << >> /\ Head(Road(s, l)) = Head(l.dn)
        /\ Road(i, k) = Tail(Road(s, l)) /\ Asks(i, k) = Asks(s, l)
        /\ Follows(Path(i, k), Path(s, l))
        /\ Elements(Road(i, k)) \subseteq Elements(Road(s, l))
        /\ Elements(k.hd) \subseteq Elements(l.hd) /\ Elements(k.td) \subseteq Elements(l.hd)
    BY <2>1, DeliveredPath
  <2> QED
    BY <1>7, <1>8, <1>11, <2>2, Places
<1>13. Speaks(m) /\ Word(m) = m.node /\ Fetches(m)
  BY <1>8 DEF Speaks, Word, Fetches, Asking
<1>14. s.feed = "sent" /\ Straight(i.feed, Road(i, k))
  <2>1. PICK f : f = s.feed
    OBVIOUS
  <2>2. Straight(f, q)
    BY <1>7, <1>11, <2>1 DEF Paced, Steady
  <2>3. f = "sent" /\ Straight("answered", Tail(q))
    BY <1>12, <1>13, <2>2, DeliveredStraight
  <2> QED
    BY <1>9, <1>12, <2>1, <2>3
<1>15. Heard(i, k.dn)
  <2>1. PICK n : n = l.dn
    OBVIOUS
  <2>2. n \in Seq(Messages) /\ n # << >> /\ Heard(s, n)
    BY <1>7, <1>8, <2>1, Places DEF Paced, Steady
  <2>3. i.cache = IF Speaks(Head(n)) THEN Word(Head(n)) ELSE s.cache
    BY <1>8, <1>9, <1>13, <2>1
  <2>4. \A x \in Elements(n) : Accepts(x) => i.txn[Result(x)].out = s.txn[Result(x)].out
    BY <1>9
  <2>5. Heard(i, Tail(n))
    BY <2>2, <2>3, <2>4, HeardTail
  <2> QED
    BY <1>8, <2>1, <2>5
<1>16. Steady(i, k, w)
  <2>1. Calm(d, s, l, i, k)
    BY <1>9, <1>12 DEF Calm, Mild
  <2>2. Mild(d, s, l, i, k)
    BY <2>1 DEF Calm
  <2>3. Steady(s, l, w) /\ w \subseteq w
    BY <1>7 DEF Paced
  <2> QED
    BY <1>7, <1>14, <1>15, <2>1, <2>2, <2>3, CalmSteady
<1>17. Paced(d, r, k, w)
  <2>1. CASE Outstanding(s) = {}
    <3>1. Outstanding(i) = {}
      BY <1>9, <2>1 DEF Outstanding
    <3> QED
      BY <1>8, <1>16, <3>1, ResentSteady
  <2>2. CASE Outstanding(s) # {}
    <3>1. Running(s) = {}
      BY <1>7, <1>14, <2>2 DEF Paced, Patient, Rests
    <3>2. \A t \in Elements(s.queue) : s.txn[t].status \notin {"run", "needsAbort"}
      BY <1>7, <3>1 DEF Running, Sent
    <3>3. \A t \in Elements(i.queue) : i.txn[t].status \notin {"run", "needsAbort"}
      BY <1>9, <3>2
    <3>4. r = i
      BY <1>8, <3>3, RerunIdle
    <3>5. Running(i) = {}
      BY <3>3 DEF Running
    <3> QED
      BY <1>16, <3>4, <3>5, SteadyPaced
  <2> QED
    BY <2>1, <2>2
<1>18. /\ Elements(r.writes) \subseteq Elements(i.writes) /\ r.feed = i.feed
       /\ \A x \in Elements(r.puts) : x \in Elements(i.puts) \/ x.type = "put"
  <2>1. i \in Phone /\ Sound(d, i, k, ap, w) /\ Resent(i, r)
    BY <1>8
  <2> QED
    BY <2>1, ResentAsks
<1>19. \A x \in Elements(r.puts) : x.type \in {"put", "set"}
  BY <1>7, <1>9, <1>18, ElementsFacts
<1>20. /\ r.feed # "idle" => feed[d] # "idle"
       /\ Elements(r.writes) \ Comments \subseteq Elements(writes[d])
  BY <1>7, <1>9, <1>14, <1>18
<1>21. down[d] = << >> => down'[d] = << >>
  BY <1>7, <1>8
<1>22. Paced(d, r, k, written') /\ k.ob = outbox[d] /\ written \subseteq written'
  BY <1>2, <1>6, <1>7, <1>8, <1>17
<1> QED
  BY <1>2, <1>3, <1>8, <1>19, <1>20, <1>21, <1>22, HandlerCounts

-----------------------------------------------------------------------------
(* The app.                                                                *)

(* What it means that nothing is going on elsewhere.                       *)
LEMMA NothingElsewhere ==
  ASSUME Shape, NEW d \in Devices, ~Elsewhere(d), NEW s, s = State(d), NEW l, l = LineOf(d)
  PROVE  /\ UnderWay(s.txn, d) \subseteq Elements(s.queue) /\ s.feed = "idle"
         /\ \A m \in Elements(Road(s, l)) : Asking(m) => Opens(m)
         /\ l.hd = << >>
<1>1. /\ s \in Phone /\ l \in Line /\ Asks(s, l) = outbox[d] /\ l.dn = down[d]
      /\ l.hd = held[d] /\ s.txn = txn /\ s.queue = queue[d] /\ s.feed = feed[d]
  BY ShapeFacts DEF State, LineOf
<1>2. Elements(Road(s, l)) = Elements(l.dn) \cup Elements(Asks(s, l))
  BY <1>1, Places
<1>3. \A m \in Elements(outbox[d]) \cup Elements(down[d]) :
        ~(m.type \in {"listen", "value"} /\ m.what \notin {"post", "restored"})
  BY DEF Elsewhere
<1>4. \A m \in Elements(Road(s, l)) : Asking(m) => Opens(m)
  BY <1>1, <1>2, <1>3 DEF Asking, Opens
<1>5. feed[d] = "idle" /\ held[d] = << >> /\ UnderWay(txn, d) \subseteq Elements(queue[d])
  BY DEF Elsewhere
<1> QED
  BY <1>1, <1>4, <1>5

(* A transaction is started.                                               *)
LEMMA StartCounts ==
  ASSUME IInv, IInv', Counted, NEW d \in Devices, Start(d), ~crowded'
  PROVE  Counted'
<1>1. Shape /\ Shape' /\ PhoneOf(d) /\ PacedOf(d) /\ post.ups = Cardinality(applied)
  BY DEF IInv, Counted
<1>2. /\ written' = written /\ applied' = applied /\ post' = post /\ watch' = watch
      /\ online' = online /\ cache' = cache /\ feed' = feed
      /\ down' = down /\ held' = held /\ todo' = todo /\ todo[d] = << >>
      /\ queue[d] # << >> => ~Elsewhere(d)
  BY DEF Start, bounds, Free
<1>3. PICK k \in Line : \E t, x, b, say, r : StartDone(d, t, x, b, say, k, r)
  BY StartDoes
<1>4. PICK t, x, b, say, r : StartDone(d, t, x, b, say, k, r)
  BY <1>3
<1>5. PICK s, l, ap, w : s = State(d) /\ l = LineOf(d) /\ ap = applied /\ w = written
  OBVIOUS
<1>6. /\ s \in Phone /\ l \in Line /\ Sound(d, s, l, ap, w) /\ Paced(d, s, l, w) /\ Sent(s)
      /\ s.txn = txn /\ s.queue = queue[d] /\ s.writes = writes[d] /\ s.cache = cache[d]
      /\ s.feed = feed[d] /\ s.puts = << >>
      /\ l.ob = outbox[d] /\ l.dn = down[d] /\ l.hd = held[d] /\ l.td = todo[d]
      /\ outbox[d] \in Seq(Requests)
  BY <1>1, <1>5, ShapeFacts DEF PhoneOf, PacedOf, State, LineOf
<1>7. /\ t = Len(s.txn) + 1 /\ x \in Transactions /\ x.dev = d /\ x.status = "run"
      /\ x.told = "none" /\ x.out = Plus(Latest(s, {}), 1)
      /\ b \in Phone /\ b.txn = Append(s.txn, x) /\ b.queue = Append(s.queue, t)
      /\ b.writes = Append(s.writes, t) /\ b.cache = s.cache /\ b.feed = s.feed
      /\ b.puts = << >> /\ k.ob = outbox[d] \o say /\ k.dn = l.dn /\ k.hd = l.hd
      /\ k.td = l.td /\ Sound(d, b, k, ap, w) /\ Ready(b) /\ r = SendReady(b)
      /\ r \in Phone /\ Sound(d, r, k, ap, w) /\ Apart(d, txn, txn')
      /\ say \in Seq(Requests)
  BY <1>4, <1>5, <1>6 DEF StartDone
<1>8. /\ say = IF UnderWay(txn, d) = {} /\ feed[d] = "idle"
               THEN Say(d, Listen("post")) ELSE << >>
      /\ txn' = r.txn
      /\ queue' = [queue EXCEPT ![d] = r.queue]
      /\ writes' = [writes EXCEPT ![d] = r.writes]
      /\ outbox' = [outbox EXCEPT ![d] = k.ob \o r.puts]
      /\ unanswered' = [unanswered EXCEPT ![d] = r.unanswered]
  BY <1>4 DEF StartDone
<1>9. Opening(d, s, l, b, k, t, x)
  <2>1. \/ k.ob = l.ob
        \/ k.ob = l.ob \o <<Listen("post")>> /\ UnderWay(s.txn, d) = {}
    <3>1. l.ob \o << >> = l.ob
      BY <1>6, ConcatEmptySeq
    <3> QED
      BY <1>6, <1>7, <1>8, <3>1 DEF Say
  <2> QED
    BY <1>6, <1>7, <2>1 DEF Opening
<1>10. s.queue # << >> =>
         /\ UnderWay(s.txn, d) \subseteq Elements(s.queue) /\ s.feed = "idle"
         /\ \A m \in Elements(Road(s, l)) : Asking(m) => Opens(m)
         /\ l.hd = << >> /\ l.td = << >>
  <2>1. ASSUME s.queue # << >>
        PROVE  /\ UnderWay(s.txn, d) \subseteq Elements(s.queue) /\ s.feed = "idle"
               /\ \A m \in Elements(Road(s, l)) : Asking(m) => Opens(m)
               /\ l.hd = << >>
    <3>1. ~Elsewhere(d)
      BY <1>2, <1>6, <2>1
    <3> QED
      BY <1>1, <1>5, <3>1, NothingElsewhere
  <2> QED
    BY <1>2, <1>6, <2>1
<1>11. Paced(d, r, k, w)
  <2>1. b \in Phone /\ x \in Transactions /\ Sound(d, b, k, ap, w) /\ Ready(b)
        /\ r = SendReady(b)
    BY <1>7
  <2> QED
    BY <1>6, <1>9, <1>10, <2>1, BeginPaced
<1>12. /\ r.writes = b.writes /\ r.feed = b.feed
       /\ \A m \in Elements(r.puts) : m \in Elements(b.puts) \/ m.type = "put"
  <2>1. b \in Phone /\ Sound(d, b, k, ap, w) /\ Ready(b) /\ r = SendReady(b)
    BY <1>7
  <2> QED
    BY <2>1, SendAsks
<1>13. r.cache = b.cache
  <2>1. b \in Phone /\ Sound(d, b, k, ap, w) /\ Ready(b) /\ r = SendReady(b)
    BY <1>7
  <2> QED
    BY <2>1, SendKeeps
<1>14. PICK i, j : i = State(d)' /\ j = LineOf(d)'
  OBVIOUS
<1>15. /\ outbox'[d] = k.ob \o r.puts /\ queue'[d] = r.queue /\ writes'[d] = r.writes
       /\ \A e \in Devices : e # d =>
            outbox'[e] = outbox[e] /\ queue'[e] = queue[e] /\ writes'[e] = writes[e]
  <2>1. /\ outbox \in [Devices -> Seq(Requests)] /\ queue \in [Devices -> Seq(Nat)]
        /\ writes \in [Devices -> Seq(Nat \cup Comments)] /\ d \in Devices
    BY <1>1 DEF Shape
  <2> QED
    BY <1>8, <2>1
<1>16. /\ i \in Phone /\ j \in Line /\ Asks(i, j) = outbox'[d]
       /\ i.queue = r.queue /\ i.writes = r.writes /\ i.txn = r.txn /\ i.feed = r.feed
       /\ i.cache = r.cache /\ j.dn = k.dn /\ j.hd = k.hd /\ j.td = k.td
  <2>1. i \in Phone /\ j \in Line /\ Asks(i, j) = outbox'[d]
    BY <1>1, <1>14, ShapeNext
  <2>2. /\ i.queue = queue'[d] /\ i.writes = writes'[d] /\ i.txn = txn' /\ i.feed = feed'[d]
        /\ i.cache = cache'[d] /\ j.dn = down'[d] /\ j.hd = held'[d] /\ j.td = todo'[d]
    BY <1>14 DEF State, LineOf
  <2>3. i.queue = r.queue /\ i.writes = r.writes /\ i.txn = r.txn
    BY <1>8, <1>15, <2>2
  <2>4. r.feed = b.feed /\ r.cache = b.cache
    BY <1>12, <1>13
  <2>5. b.feed = s.feed /\ b.cache = s.cache /\ k.dn = l.dn /\ k.hd = l.hd /\ k.td = l.td
    BY <1>7
  <2>6. /\ feed' = feed /\ cache' = cache /\ down' = down /\ held' = held /\ todo' = todo
        /\ s.feed = feed[d] /\ s.cache = cache[d]
        /\ l.dn = down[d] /\ l.hd = held[d] /\ l.td = todo[d]
    BY <1>2, <1>6
  <2>7. i.feed = r.feed /\ i.cache = r.cache /\ j.dn = k.dn /\ j.hd = k.hd /\ j.td = k.td
    BY <2>2, <2>4, <2>5, <2>6
  <2> QED
    BY <2>1, <2>3, <2>7
<1>17. Asks(i, j) = Asks(r, k) /\ Road(i, j) = Road(r, k) /\ Path(i, j) = Path(r, k)
  <2>1. Asks(i, j) = Asks(r, k)
    BY <1>15, <1>16 DEF Asks
  <2> QED
    BY <1>16, <2>1 DEF Road, Path
<1>18. Paced(d, i, j, w)
  <2>1. Quiet(d, r, k, i, j)
    BY <1>16, <1>17, FollowsRefl DEF Quiet
  <2>2. Resting(d, r, k, i, j)
    BY <1>16, <1>17 DEF Resting, Rests
  <2>3. Steady(r, k, w)
    BY <1>11 DEF Paced
  <2>4. Straight(i.feed, Road(i, j))
    BY <1>16, <1>17, <2>3 DEF Steady
  <2>5. Heard(i, j.dn)
    BY <1>16, <2>3 DEF Steady, Heard
  <2>6. r \in Phone /\ Sound(d, r, k, ap, w) /\ w \subseteq w
    BY <1>7
  <2> QED
    BY <1>11, <2>1, <2>2, <2>4, <2>5, <2>6, QuietPaced
<1>19. UnderWay(txn', d) # {}
  <2>1. Elements(r.writes) \ Comments = UnderWay(r.txn, d)
    BY <1>7 DEF Sound, Listed
  <2>2. t \in Elements(r.writes) /\ t \notin Comments
    <3>1. Opened(s, b, t, x)
      BY <1>6, <1>7, <1>9, OpeningFacts
    <3> QED
      BY <1>12, <3>1 DEF Opened
  <2> QED
    BY <1>8, <2>1, <2>2
<1>20. WiredOf(d)'
  <2>1. PICK y, f, on, wa, q, dn, z, v :
          /\ y = UnderWay(txn, d) /\ f = feed[d] /\ on = online[d] /\ wa = watch[d]
          /\ q = outbox[d] /\ dn = down[d] /\ z = UnderWay(txn', d) /\ v = r.puts
    OBVIOUS
  <2>2. Wired(y, f, on, wa, q, dn)
    BY <1>1, <2>1 DEF PacedOf, WiredOf
  <2>3. /\ q \in Seq(Messages) /\ say \in Seq(Messages) /\ v \in Seq(Messages)
        /\ q \o say \in Seq(Messages)
    <3>1. v \in Seq(Requests) /\ say \in Seq(Requests) /\ q \in Seq(Requests)
      BY <1>6, <1>7, <2>1 DEF Phone
    <3>2. v \in Seq(Messages) /\ say \in Seq(Messages) /\ q \in Seq(Messages)
      BY <3>1, RequestsAre
    <3> QED
      BY <3>2, ConcatProperties
  <2>4. Wired(z, f, on, wa, q \o say, dn)
    <3>1. CASE y = {} /\ f = "idle"
      <4>1. PICK m : m = Listen("post")
        OBVIOUS
      <4>2. m \in Messages /\ Speaks(m) /\ m.type # "put" /\ Word(m) = TRUE
        BY <4>1 DEF Messages, Requests, Kinds, Listen, Speaks, Asking, Word
      <4>3. say = IF on THEN <<m>> ELSE << >>
        BY <1>8, <2>1, <3>1, <4>1 DEF Say
      <4> QED
        BY <2>2, <2>3, <4>2, <4>3, WiredSay
    <3>2. CASE ~(y = {} /\ f = "idle")
      <4>1. say = << >>
        BY <1>8, <2>1, <3>2
      <4>2. \A m \in Elements(say) : ~Speaks(m) /\ (m.type = "put" => y # {} \/ f # "idle")
        BY <4>1, ElementsFacts
      <4> QED
        BY <2>2, <2>3, <3>2, <4>2, WiredMore
    <3> QED
      BY <3>1, <3>2
  <2>5. \A m \in Elements(v) : ~Speaks(m) /\ (m.type = "put" => z # {} \/ f # "idle")
    <3>1. \A m \in Elements(v) : m.type = "put"
      BY <1>7, <1>12, <2>1, ElementsFacts
    <3> QED
      BY <1>19, <2>1, <3>1 DEF Speaks, Asking
  <2>6. PICK p : p = q \o say
    OBVIOUS
  <2>7. Wired(z, f, on, wa, p \o v, dn)
    <3>1. p \in Seq(Messages) /\ Wired(z, f, on, wa, p, dn)
      BY <2>3, <2>4, <2>6
    <3>2. v \in Seq(Messages)
      BY <2>3
    <3>3. (z # {} \/ f # "idle" => z # {} \/ f # "idle") /\ (~on /\ dn = << >> => dn = << >>)
      OBVIOUS
    <3> HIDE DEF Wired, Speaks
    <3> QED
      BY <2>5, <3>1, <3>2, <3>3, WiredMore
  <2>8. outbox'[d] = p \o v
    BY <1>7, <1>15, <2>1, <2>6
  <2> QED
    BY <1>2, <2>1, <2>7, <2>8 DEF WiredOf
<1>21. PacedOf(d)'
  BY <1>2, <1>5, <1>14, <1>18, <1>20 DEF PacedOf
<1>22. Leaves(d)
  BY <1>2, <1>7, <1>15 DEF Leaves
<1>23. post'.ups = Cardinality(applied')
  BY <1>1, <1>2
<1> QED
  BY <1>21, <1>22, <1>23, OthersPaced

-----------------------------------------------------------------------------
(* Steps that leave the transactions of a phone as they are.               *)

(* A phone, and its messages, before a step and after it.                  *)
LEMMA PhoneFacts ==
  ASSUME IInv, Counted, NEW d \in Devices, NEW s, s = State(d), NEW l, l = LineOf(d)
  PROVE  /\ s \in Phone /\ l \in Line /\ Sound(d, s, l, applied, written)
         /\ Paced(d, s, l, written) /\ Sent(s) /\ WiredOf(d)
         /\ s.txn = txn /\ s.queue = queue[d] /\ s.writes = writes[d] /\ s.cache = cache[d]
         /\ s.feed = feed[d] /\ s.unanswered = unanswered[d] /\ s.puts = << >>
         /\ l.ob = outbox[d] /\ l.dn = down[d] /\ l.hd = held[d] /\ l.td = todo[d]
         /\ Asks(s, l) = outbox[d]
<1>1. Shape /\ PhoneOf(d) /\ PacedOf(d)
  BY DEF IInv, Counted
<1>2. s \in Phone /\ l \in Line /\ Asks(s, l) = outbox[d]
  BY <1>1, ShapeFacts
<1>3. Sound(d, s, l, applied, written) /\ Sent(s)
  BY <1>1 DEF PhoneOf
<1>4. Paced(d, s, l, written) /\ WiredOf(d)
  BY <1>1 DEF PacedOf
<1> QED
  BY <1>2, <1>3, <1>4 DEF State, LineOf

(* The same of a phone after a step.                                       *)
LEMMA NextFacts ==
  ASSUME IInv', NEW d \in Devices, NEW r, r = State(d)', NEW k, k = LineOf(d)'
  PROVE  /\ r \in Phone /\ k \in Line /\ Asks(r, k) = outbox'[d]
         /\ r.txn = txn' /\ r.queue = queue'[d] /\ r.writes = writes'[d]
         /\ r.cache = cache'[d] /\ r.feed = feed'[d]
         /\ k.ob = outbox'[d] /\ k.dn = down'[d] /\ k.hd = held'[d] /\ k.td = todo'[d]
<1>1. Shape'
  BY DEF IInv
<1>2. r \in Phone /\ k \in Line /\ Asks(r, k) = outbox'[d]
  BY <1>1, ShapeNext
<1> QED
  BY <1>2 DEF State, LineOf

(* A quiet step of a phone, with the counter as it should be, keeps the    *)
(* invariant.                                                              *)
LEMMA QuietCounts ==
  ASSUME IInv, IInv', Counted, NEW d \in Devices,
         txn' = txn, queue' = queue, writes' = writes, written' = written,
         NEW s, s = State(d), NEW l, l = LineOf(d),
         NEW r, r = State(d)', NEW k, k = LineOf(d)',
         Follows(Path(r, k), Path(s, l)), Resting(d, s, l, r, k),
         Straight(r.feed, Road(r, k)), Heard(r, k.dn), WiredOf(d)', Leaves(d),
         post'.ups = Cardinality(applied')
  PROVE  Counted'
<1>1. PICK ap, w : ap = applied /\ w = written
  OBVIOUS
<1>2. /\ s \in Phone /\ l \in Line /\ Sound(d, s, l, ap, w) /\ Paced(d, s, l, w)
      /\ s.txn = txn /\ s.queue = queue[d] /\ s.writes = writes[d]
  BY <1>1, PhoneFacts
<1>3. /\ r \in Phone /\ k \in Line /\ r.txn = txn' /\ r.queue = queue'[d]
      /\ r.writes = writes'[d]
  BY NextFacts
<1>4. Quiet(d, s, l, r, k)
  BY <1>2, <1>3 DEF Quiet
<1>5. Paced(d, r, k, w)
  <2>1. w \subseteq w
    OBVIOUS
  <2> QED
    BY <1>2, <1>4, <2>1, QuietPaced
<1>6. PacedOf(d)'
  BY <1>1, <1>5 DEF PacedOf
<1> QED
  BY <1>6, OthersPaced

(* The server answers the first request of a phone.                        *)
LEMMA PushCounts ==
  ASSUME IInv, IInv', Counted, NEW d \in Devices,
         txn' = txn, queue' = queue, writes' = writes, written' = written, cache' = cache,
         feed' = feed, held' = held, todo' = todo, online' = online, online[d],
         outbox[d] # << >>, outbox' = [outbox EXCEPT ![d] = Tail(@)],
         NEW h, h = Head(outbox[d]),
         watch' = [watch EXCEPT ![d] = IF Speaks(h) THEN Word(h) ELSE @],
         NEW e \in Seq(Messages), Pushes(e, <<h>>), down'[d] = down[d] \o e,
         \A c \in Devices : c # d =>
           down'[c] = down[c] \/ \E n \in Node : down'[c] = down[c] \o Told1(c, n),
         Heard(State(d), down'[d]), post'.ups = Cardinality(applied')
  PROVE  Counted'
<1>1. PICK s, l, r, k, ap, w, b, q, g :
        /\ s = State(d) /\ l = LineOf(d) /\ r = State(d)' /\ k = LineOf(d)'
        /\ ap = applied /\ w = written /\ q = outbox[d] /\ b = Tail(q) /\ g = <<h>>
  OBVIOUS
<1>2. /\ s \in Phone /\ l \in Line /\ Sound(d, s, l, ap, w) /\ Paced(d, s, l, w)
      /\ WiredOf(d) /\ s.txn = txn /\ s.queue = queue[d] /\ s.writes = writes[d]
      /\ s.cache = cache[d] /\ s.feed = feed[d]
      /\ l.dn = down[d] /\ l.hd = held[d] /\ l.td = todo[d] /\ Asks(s, l) = q
  BY <1>1, PhoneFacts
<1>3. /\ r \in Phone /\ k \in Line /\ Asks(r, k) = outbox'[d]
      /\ r.txn = txn' /\ r.queue = queue'[d] /\ r.writes = writes'[d]
      /\ r.cache = cache'[d] /\ r.feed = feed'[d]
      /\ k.dn = down'[d] /\ k.hd = held'[d] /\ k.td = todo'[d]
  BY <1>1, NextFacts
<1>4. /\ outbox'[d] = b /\ \A c \in Devices : c # d => outbox'[c] = outbox[c]
      /\ watch'[d] = (IF Speaks(h) THEN Word(h) ELSE watch[d])
      /\ \A c \in Devices : c # d => watch'[c] = watch[c]
  <2>1. /\ outbox \in [Devices -> Seq(Requests)] /\ watch \in [Devices -> BOOLEAN]
        /\ d \in Devices
    BY DEF IInv, Shape
  <2> QED
    BY <1>1, <2>1
<1>5. q \in Seq(Messages) /\ q # << >> /\ h = Head(q)
  BY <1>1, <1>2, Places
<1>6. h \in Messages /\ b \in Seq(Messages) /\ g \in Seq(Messages)
  <2>1. h \in Messages /\ b \in Seq(Messages)
    BY <1>1, <1>5, TailFacts
  <2> QED
    BY <1>1, <2>1, One
<1>7. q = g \o b
  BY <1>1, <1>5, <1>6
<1>8. Still(d, s, r)
  BY <1>2, <1>3 DEF Still
<1>9. Heard(s, k.dn) /\ k.dn = l.dn \o e /\ k.hd = l.hd /\ k.td = l.td
  BY <1>1, <1>2, <1>3
<1>10. Paced(d, r, k, w)
  <2>1. w \subseteq w /\ Pushes(e, g) /\ Asks(s, l) = g \o b /\ Asks(r, k) = b
    BY <1>1, <1>2, <1>3, <1>4, <1>7
  <2> QED
    BY <1>2, <1>3, <1>6, <1>8, <1>9, <2>1, PushPaced
<1>11. WiredOf(d)'
  <2>1. PICK x, f, wa, dn, en, v :
          /\ x = UnderWay(txn, d) /\ f = feed[d] /\ wa = watch[d] /\ dn = down[d]
          /\ en = down'[d] /\ v = IF Speaks(Head(q)) THEN Word(Head(q)) ELSE wa
    OBVIOUS
  <2>2. online[d] = TRUE
    BY DEF IInv, Shape
  <2>3. Wired(x, f, TRUE, wa, q, dn)
    BY <1>1, <1>2, <2>1, <2>2 DEF WiredOf
  <2>4. Wired(x, f, TRUE, v, Tail(q), en)
    BY <1>5, <2>1, <2>3, WiredTail
  <2>5. watch'[d] = v /\ outbox'[d] = Tail(q)
    BY <1>1, <1>4, <1>5, <2>1
  <2> QED
    BY <2>1, <2>2, <2>4, <2>5 DEF WiredOf
<1>12. PacedOf(d)'
  BY <1>1, <1>10, <1>11 DEF PacedOf
<1>13. Leaves(d)
  BY <1>4 DEF Leaves, Apart
<1> QED
  BY <1>12, <1>13, OthersPaced

-----------------------------------------------------------------------------
(* The server.                                                             *)

(* A listen is answered.                                                   *)
LEMMA AnswerListenCounts ==
  ASSUME IInv, IInv', Counted, NEW d \in Devices, AnswerListen(d)
  PROVE  Counted'
<1>1. /\ txn' = txn /\ queue' = queue /\ writes' = writes /\ written' = written
      /\ cache' = cache /\ feed' = feed /\ held' = held /\ todo' = todo
      /\ online' = online /\ applied' = applied /\ post' = post
      /\ online[d] /\ outbox[d] # << >> /\ outbox' = [outbox EXCEPT ![d] = Tail(@)]
  BY DEF AnswerListen, Next1, client, bounds, history
<1>2. PICK h, what, m, e, q :
        /\ h = Head(outbox[d]) /\ what = h.what /\ e = <<m>> /\ q = down[d]
        /\ m = [type |-> "value", what |-> what, node |-> post]
  OBVIOUS
<1>3. /\ h.type = "listen"
      /\ watch' = [watch EXCEPT ![d] = @ \/ what \notin {"other", "restored"}]
      /\ down' = [down EXCEPT ![d] = Append(@, m)]
  BY <1>2 DEF AnswerListen, Next1
<1>4. /\ Shape /\ outbox[d] \in Seq(Requests) /\ q \in Seq(Notices) /\ post \in Node
      /\ watch \in [Devices -> BOOLEAN] /\ down \in [Devices -> Seq(Notices)]
  BY <1>2 DEF IInv, Shape
<1>5. h \in Requests
  BY <1>1, <1>2, <1>4, ElementsTail
<1>6. what \in Kinds
  BY <1>2, <1>3, <1>5 DEF Requests, Puts
<1>7. m \in Messages /\ m.type = "value" /\ m.what = what
  BY <1>2, <1>4, <1>6 DEF Messages, Notices
<1>8. Pushes(e, <<h>>)
  <2>1. Like(m, h) /\ (Asking(m) => Asking(h) /\ m.what = h.what)
    BY <1>2, <1>3, <1>7 DEF Like, Carried, Mentioned, Asking
  <2> QED
    BY <1>2, <2>1, PushesFacts
<1>9. watch' = [watch EXCEPT ![d] = IF Speaks(h) THEN Word(h) ELSE @]
  <2>1. Speaks(h) <=> what \notin {"other", "restored"}
    BY <1>2, <1>3 DEF Speaks, Asking
  <2>2. Word(h) = TRUE
    BY <1>3 DEF Word
  <2>3. watch[d] \in BOOLEAN
    BY <1>4
  <2>4. CASE what \notin {"other", "restored"}
    <3>1. (watch[d] \/ what \notin {"other", "restored"}) = TRUE
      BY <2>3, <2>4
    <3> QED
      BY <1>3, <2>1, <2>2, <2>4, <3>1
  <2>5. CASE what \in {"other", "restored"}
    <3>1. (watch[d] \/ what \notin {"other", "restored"}) = watch[d]
      BY <2>3, <2>5
    <3> QED
      BY <1>3, <2>1, <2>5, <3>1
  <2> QED
    BY <2>4, <2>5
<1>10. q \in Seq(Messages) /\ e \in Seq(Messages) /\ Elements(e) = {m}
  <2>1. e \in Seq(Messages) /\ Elements(e) = {m}
    BY <1>2, <1>7, One
  <2>2. LineOf(d) \in Line /\ State(d) \in Phone
    BY <1>4, ShapeFacts
  <2> QED
    BY <1>2, <2>1, <2>2, Places DEF LineOf
<1>11. /\ down'[d] = down[d] \o e
       /\ \A c \in Devices : c # d => down'[c] = down[c]
  <2>1. Append(q, m) = q \o e
    BY SMTT(30), <1>2, <1>7, <1>10, AppendIsConcat
  <2> QED
    BY <1>2, <1>3, <1>4, <2>1
<1>12. Heard(State(d), down'[d])
  <2>1. PICK s, l : s = State(d) /\ l = LineOf(d)
    OBVIOUS
  <2>2. Heard(s, q)
    <3>1. Paced(d, s, l, written) /\ l.dn = q
      BY <1>2, <2>1, PhoneFacts
    <3> QED
      BY <3>1 DEF Paced, Steady
  <2>3. \A x \in Elements(e) : ~Accepts(x)
    BY <1>7, <1>10 DEF Accepts
  <2>4. Heard(s, q \o e)
    BY <1>10, <2>2, <2>3, HeardMore
  <2> QED
    BY <1>2, <1>11, <2>1, <2>4
<1>13. post'.ups = Cardinality(applied')
  BY <1>1 DEF Counted
<1> QED
  BY <1>1, <1>2, <1>8, <1>9, <1>10, <1>11, <1>12, <1>13, PushCounts

(* The server stops telling.                                               *)
LEMMA AnswerUnlistenCounts ==
  ASSUME IInv, IInv', Counted, NEW d \in Devices, AnswerUnlisten(d)
  PROVE  Counted'
<1>1. /\ txn' = txn /\ queue' = queue /\ writes' = writes /\ written' = written
      /\ cache' = cache /\ feed' = feed /\ held' = held /\ todo' = todo /\ down' = down
      /\ online' = online /\ applied' = applied /\ post' = post
      /\ online[d] /\ outbox[d] # << >> /\ outbox' = [outbox EXCEPT ![d] = Tail(@)]
  BY DEF AnswerUnlisten, Next1, client, bounds, history
<1>2. PICK h, e : h = Head(outbox[d]) /\ e = << >>
  OBVIOUS
<1>3. h.type = "unlisten" /\ watch' = [watch EXCEPT ![d] = FALSE]
  BY <1>2 DEF AnswerUnlisten, Next1
<1>4. watch' = [watch EXCEPT ![d] = IF Speaks(h) THEN Word(h) ELSE @]
  BY <1>3 DEF Speaks, Word
<1>5. e \in Seq(Messages) /\ Pushes(e, <<h>>)
  BY <1>2, EmptySeq, PushesFacts
<1>6. down'[d] = down[d] \o e
  <2>1. down[d] \in Seq(Notices)
    BY DEF IInv, Shape
  <2> QED
    BY <1>1, <1>2, <2>1, ConcatEmptySeq
<1>7. Heard(State(d), down'[d])
  <2>1. PICK s, l : s = State(d) /\ l = LineOf(d)
    OBVIOUS
  <2>2. Paced(d, s, l, written) /\ l.dn = down[d]
    BY <2>1, PhoneFacts
  <2> QED
    BY <1>1, <2>1, <2>2 DEF Paced, Steady
<1>8. post'.ups = Cardinality(applied')
  BY <1>1 DEF Counted
<1>9. \A c \in Devices : c # d => down'[c] = down[c]
  BY <1>1
<1> QED
  BY <1>1, <1>2, <1>4, <1>5, <1>6, <1>7, <1>8, <1>9, PushCounts

(* The answer of a request, and news before it.                            *)
LEMMA PushesNews ==
  ASSUME NEW m \in Messages, Carried(m) = {}, Mentioned(m) = {}, m.type = "update",
         ~Asking(m), NEW a \in Messages, ~Asking(a), NEW h, Pushes(<<a>>, <<h>>)
  PROVE  Pushes(<<m>> \o <<a>>, <<h>>)
<1>1. PICK u, v : u = <<m>> /\ v = <<a>>
  OBVIOUS
<1>2. /\ u \in Seq(Messages) /\ v \in Seq(Messages)
      /\ Elements(u) = {m} /\ Elements(v) = {a}
  BY <1>1, One
<1>3. Elements(u \o v) = {m} \cup {a}
  BY <1>2, ElementsConcat
<1>4. Follows(u \o v, v)
  <2>1. \A x \in Elements(u) : Idle(x)
    BY <1>2 DEF Idle
  <2> QED
    BY <1>2, <2>1, FollowsMore
<1>5. Follows(v, <<h>>)
  BY <1>1 DEF Pushes
<1>6. Follows(u \o v, <<h>>)
  BY <1>4, <1>5, FollowsTrans
<1>7. \A x, y : After(u \o v, x, y) => y = a
  <2> TAKE x, y
  <2>1. After(u \o v, x, y) <=>
          After(u, x, y) \/ After(v, x, y) \/ (x \in Elements(u) /\ y \in Elements(v))
    BY <1>2, AfterConcat
  <2>2. ~After(u, x, y) /\ ~After(v, x, y)
    BY <1>1, AfterEmpty
  <2> QED
    BY <1>2, <2>1, <2>2
<1>8. \A x \in {m} \cup {a} : ~Asking(x) /\ ~Opens(x) /\ ~Fetches(x)
  BY DEF Opens, Fetches
<1>9. Carried(a) # {} => \E x \in Elements(<<h>>) : Carried(x) # {}
  <2>1. a \in Elements(<<a>>)
    BY <1>1, <1>2
  <2> QED
    BY <2>1 DEF Pushes
<1>10. PICK e : e = u \o v
  OBVIOUS
<1>11. Pushes(e, <<h>>)
  BY <1>3, <1>6, <1>7, <1>8, <1>9, <1>10 DEF Pushes
<1> QED
  BY <1>1, <1>10, <1>11

(* A request is answered by what is about the same, and tells no result.   *)
LEMMA ReplyCounts ==
  ASSUME IInv, IInv', Counted, NEW d \in Devices,
         txn' = txn, queue' = queue, writes' = writes, written' = written, cache' = cache,
         feed' = feed, held' = held, todo' = todo, online' = online, watch' = watch,
         applied' = applied, post'.ups = post.ups,
         online[d], outbox[d] # << >>, outbox' = [outbox EXCEPT ![d] = Tail(@)],
         NEW h, h = Head(outbox[d]), ~Speaks(h),
         NEW a \in Notices, Like(a, h), ~Asking(a), ~Accepts(a),
         NEW n \in Node, down'[d] = Append(down[d], a) \/ down'[d] = (down[d] \o Told1(d, n)) \o <<a>>,
         \A c \in Devices : c # d => down'[c] = down[c] \/ down'[c] = down[c] \o Told1(c, n)
  PROVE  Counted'
<1>1. PICK q, u, s, l :
        q = down[d] /\ u = Told1(d, n) /\ s = State(d) /\ l = LineOf(d)
  OBVIOUS
<1>2. /\ q \in Seq(Messages) /\ a \in Messages /\ <<a>> \in Seq(Messages)
      /\ Elements(<<a>>) = {a} /\ Heard(s, q)
  <2>1. a \in Messages
    BY DEF Messages
  <2>2. <<a>> \in Seq(Messages) /\ Elements(<<a>>) = {a}
    BY <2>1, One
  <2>3. s \in Phone /\ l \in Line /\ l.dn = q /\ Paced(d, s, l, written)
    BY <1>1, PhoneFacts
  <2> QED
    BY <2>1, <2>2, <2>3, Places DEF Paced, Steady
<1>3. Pushes(<<a>>, <<h>>)
  BY PushesFacts
<1>4. PICK e \in Seq(Messages) :
        /\ down'[d] = q \o e /\ Pushes(e, <<h>>)
        /\ \A x \in Elements(e) : ~Accepts(x)
  <2>1. ASSUME down'[d] = q \o <<a>>
        PROVE  \E e \in Seq(Messages) :
                 /\ down'[d] = q \o e /\ Pushes(e, <<h>>)
                 /\ \A x \in Elements(e) : ~Accepts(x)
    BY <1>2, <1>3, <2>1
  <2>2. CASE down'[d] = Append(q, a)
    <3>1. Append(q, a) = q \o <<a>>
      BY <1>2, AppendIsConcat
    <3> QED
      BY <2>1, <2>2, <3>1
  <2>3. CASE down'[d] = (q \o u) \o <<a>> /\ ~watch[d]
    <3>1. q \o u = q
      BY <1>1, <1>2, <2>3, ConcatEmptySeq DEF Told1
    <3> QED
      BY <2>1, <2>3, <3>1
  <2>4. CASE down'[d] = (q \o u) \o <<a>> /\ watch[d]
    <3>1. PICK m : m = [type |-> "update", node |-> n]
      OBVIOUS
    <3>2. /\ m \in Messages /\ Carried(m) = {} /\ Mentioned(m) = {} /\ m.type = "update"
          /\ ~Asking(m) /\ ~Accepts(m)
      BY <3>1, NewsFacts
    <3>3. u = <<m>>
      BY <1>1, <2>4, <3>1 DEF Told1
    <3>4. /\ <<m>> \in Seq(Messages) /\ Elements(<<m>>) = {m}
      BY <3>2, One
    <3>5. PICK v, x : v = <<m>> /\ x = <<a>>
      OBVIOUS
    <3>6. /\ v \o x \in Seq(Messages) /\ Elements(v \o x) = {m} \cup {a}
          /\ (q \o v) \o x = q \o (v \o x)
      <4>1. v \in Seq(Messages) /\ x \in Seq(Messages) /\ Elements(v) = {m} /\ Elements(x) = {a}
        BY <1>2, <3>4, <3>5
      <4>2. v \o x \in Seq(Messages) /\ Elements(v \o x) = Elements(v) \cup Elements(x)
        BY <4>1, ElementsConcat
      <4>3. q \o (v \o x) = (q \o v) \o x
        BY <1>2, <4>1, ConcatThree
      <4> QED
        BY <4>1, <4>2, <4>3
    <3>7. Pushes(v \o x, <<h>>)
      <4>1. Pushes(<<m>> \o <<a>>, <<h>>)
        BY <1>2, <1>3, <3>2, PushesNews
      <4> QED
        BY <3>5, <4>1
    <3> QED
      <4>1. down'[d] = q \o (v \o x)
        BY <2>4, <3>3, <3>5, <3>6
      <4>2. \A z \in Elements(v \o x) : ~Accepts(z)
        BY <3>2, <3>6
      <4> QED
        BY <3>6, <3>7, <4>1, <4>2
  <2> QED
    BY <1>1, <2>2, <2>3, <2>4
<1>5. Heard(State(d), down'[d])
  <2>1. Heard(s, q \o e)
    BY <1>2, <1>4, HeardMore
  <2> QED
    BY <1>1, <1>4, <2>1
<1>6. watch' = [watch EXCEPT ![d] = IF Speaks(h) THEN Word(h) ELSE @]
  <2>1. watch \in [Devices -> BOOLEAN]
    BY DEF IInv, Shape
  <2> QED
    BY <2>1
<1>7. post'.ups = Cardinality(applied')
  BY DEF Counted
<1>8. down'[d] = down[d] \o e
  BY <1>1, <1>4
<1>9. \A c \in Devices : c # d =>
        down'[c] = down[c] \/ \E x \in Node : down'[c] = down[c] \o Told1(c, x)
  OBVIOUS
<1> QED
  BY <1>4, <1>5, <1>6, <1>7, <1>8, <1>9, PushCounts

(* A put, and its answer.                                                  *)
LEMMA PutAnswer ==
  ASSUME IInv, NEW d \in Devices, Next1(d, "put"), NEW h, h = Head(outbox[d]),
         NEW status \in {"ok", "datastale"}, NEW a, a = Reply(h.batch, status)
  PROVE  /\ online[d] /\ outbox[d] # << >> /\ outbox[d] \in Seq(Messages)
         /\ h \in Puts /\ h \in Messages /\ h.type = "put" /\ ~Speaks(h)
         /\ a \in Notices /\ Like(a, h) /\ ~Asking(a) /\ a.type = "reply"
         /\ a.status = status /\ a.what = h.batch /\ Result(a) = Result(h)
<1>1. outbox[d] \in Seq(Requests) /\ online[d] /\ outbox[d] # << >> /\ h.type = "put"
  BY DEF Next1, IInv, Shape
<1>2. h \in Requests /\ outbox[d] \in Seq(Messages)
  BY <1>1, ElementsTail, RequestsAre
<1>3. h \in Puts /\ h \in Messages
  BY <1>1, <1>2 DEF Requests, Messages
<1>4. h.batch \in Seq(Nat)
  BY <1>3 DEF Puts
<1>5. /\ a \in Notices /\ a.type = "reply" /\ a.status = status /\ a.what = h.batch
  BY <1>4 DEF Reply, Notices, Answers
<1>6. Elements(h.batch) \cap Comments = {}
  BY <1>4, ElementsFacts, NoComment
<1>7. Like(a, h)
  <2>1. Carried(a) = Carried(h)
    BY <1>1, <1>5, <1>6 DEF Carried
  <2>2. Content(a) = Content(h)
    BY <1>1, <1>5 DEF Content
  <2>3. Mentioned(a) = {}
    BY <1>5, <1>6 DEF Mentioned
  <2> QED
    BY <1>5, <2>1, <2>2, <2>3 DEF Like
<1>8. Result(a) = Result(h)
  BY <1>1, <1>5 DEF Result, Content
<1> QED
  BY <1>1, <1>2, <1>3, <1>5, <1>7, <1>8 DEF Speaks, Asking

(* A put is refused.                                                       *)
LEMMA RefusePutCounts ==
  ASSUME IInv, IInv', Counted, NEW d \in Devices, RefusePut(d)
  PROVE  Counted'
<1>1. /\ txn' = txn /\ queue' = queue /\ writes' = writes /\ written' = written
      /\ cache' = cache /\ feed' = feed /\ held' = held /\ todo' = todo
      /\ online' = online /\ watch' = watch /\ applied' = applied /\ post' = post
      /\ Next1(d, "put") /\ outbox' = [outbox EXCEPT ![d] = Tail(@)]
  BY DEF RefusePut, client, bounds, history
<1>2. PICK h, a : h = Head(outbox[d]) /\ a = Reply(h.batch, "datastale")
  OBVIOUS
<1>3. /\ online[d] /\ outbox[d] # << >> /\ outbox[d] \in Seq(Messages)
      /\ h \in Puts /\ h \in Messages /\ h.type = "put" /\ ~Speaks(h)
      /\ a \in Notices /\ Like(a, h) /\ ~Asking(a) /\ a.type = "reply"
      /\ a.status = "datastale" /\ a.what = h.batch /\ Result(a) = Result(h)
  BY <1>1, <1>2, PutAnswer
<1>4. down' = [down EXCEPT ![d] = Append(@, a)]
  BY <1>2 DEF RefusePut
<1>5. down \in [Devices -> Seq(Notices)] /\ post \in Node
  BY DEF IInv, Shape
<1>6. down'[d] = Append(down[d], a) /\ \A c \in Devices : c # d => down'[c] = down[c]
  BY <1>4, <1>5
<1>7. ~Accepts(a)
  BY <1>3 DEF Accepts
<1>8. post'.ups = post.ups
  BY <1>1
<1> QED
  BY <1>1, <1>2, <1>3, <1>5, <1>6, <1>7, <1>8, ReplyCounts

(* A set, and its answer.                                                  *)
LEMMA SetAnswer ==
  ASSUME IInv, NEW d \in Devices, Next1(d, "set"), NEW h, h = Head(outbox[d]),
         NEW status \in {"ok", "denied"}, NEW a, a = Reply(<<h.comment>>, status)
  PROVE  /\ online[d] /\ outbox[d] # << >> /\ ~Speaks(h) /\ h.comment \in Comments
         /\ a \in Notices /\ Like(a, h) /\ ~Asking(a) /\ ~Accepts(a)
<1>1. Shape
  BY DEF IInv
<1>2. PICK q, c : q = outbox[d] /\ c = h.comment
  OBVIOUS
<1>3. q # << >> /\ c \in Comments /\ online[d] /\ h.type = "set"
  <2>1. Head(q).comment \in Comments /\ q # << >>
    BY <1>1, <1>2, SetFacts
  <2> QED
    BY <1>2, <2>1 DEF Next1
<1>4. a \in Notices /\ a.type = "reply" /\ a.what = <<c>>
  <2>1. a = Reply(<<c>>, status)
    BY <1>2
  <2>2. a \in Notices
    BY <1>3, <2>1, CommentReply
  <2> QED
    BY <2>1, <2>2 DEF Reply
<1>5. Elements(<<c>>) = {c}
  BY ElementsFacts
<1>6. Carried(a) = {} /\ Carried(h) = {} /\ Mentioned(a) = Mentioned(h)
  BY <1>2, <1>3, <1>4, <1>5 DEF Carried, Mentioned
<1> QED
  BY <1>2, <1>3, <1>4, <1>6 DEF Like, Speaks, Asking, Accepts

(* What phones are told, with nothing after it.                            *)
LEMMA ToldEnd ==
  ASSUME IInv, NEW n \in Node
  PROVE  \A c \in Devices : (down[c] \o Told1(c, n)) \o << >> = down[c] \o Told1(c, n)
<1> TAKE c \in Devices
<1>1. PICK g : g = down[c] \o Told1(c, n)
  OBVIOUS
<1>2. g \in Seq(Notices)
  BY <1>1, UpdateFacts DEF IInv
<1>3. g \o << >> = g
  BY <1>2, ConcatEmptySeq
<1> QED
  BY <1>1, <1>3

(* A comment is stored.                                                    *)
LEMMA StoreCommentCounts ==
  ASSUME IInv, IInv', Counted, NEW d \in Devices, StoreComment(d)
  PROVE  Counted'
<1>1. /\ txn' = txn /\ queue' = queue /\ writes' = writes /\ written' = written
      /\ cache' = cache /\ feed' = feed /\ held' = held /\ todo' = todo
      /\ online' = online /\ watch' = watch /\ applied' = applied
      /\ Next1(d, "set")
  BY DEF StoreComment, client, bounds, history
<1>2. PICK h, a, n :
        /\ h = Head(outbox[d]) /\ a = Reply(<<h.comment>>, "ok")
        /\ n = [post EXCEPT !.comments = @ \cup {h.comment}]
  OBVIOUS
<1>3. /\ online[d] /\ outbox[d] # << >> /\ ~Speaks(h) /\ h.comment \in Comments
      /\ a \in Notices /\ Like(a, h) /\ ~Asking(a) /\ ~Accepts(a)
  BY <1>1, <1>2, SetAnswer
<1>4. post \in Node
  BY DEF IInv, Shape
<1>5. n \in Node /\ n.ups = post.ups
  BY <1>2, <1>3, <1>4 DEF Node
<1>6. Publish(d, n, a)
  BY <1>2 DEF StoreComment
<1>7. /\ post' = n /\ outbox' = [outbox EXCEPT ![d] = Tail(@)]
      /\ down'[d] = (down[d] \o Told1(d, n)) \o <<a>>
      /\ \A c \in Devices : c # d => down'[c] = (down[c] \o Told1(c, n)) \o << >>
  BY <1>6 DEF Publish, Told1
<1>8. \A c \in Devices : c # d => down'[c] = down[c] \o Told1(c, n)
  BY <1>5, <1>7, ToldEnd
<1>9. post'.ups = post.ups
  BY <1>5, <1>7
<1> QED
  BY <1>1, <1>2, <1>3, <1>5, <1>7, <1>8, <1>9, ReplyCounts

(* A comment is refused.                                                   *)
LEMMA RefuseCommentCounts ==
  ASSUME IInv, IInv', Counted, NEW d \in Devices, RefuseComment(d)
  PROVE  Counted'
<1>1. /\ txn' = txn /\ queue' = queue /\ writes' = writes /\ written' = written
      /\ cache' = cache /\ feed' = feed /\ held' = held /\ todo' = todo
      /\ online' = online /\ watch' = watch /\ applied' = applied /\ post' = post
      /\ Next1(d, "set") /\ outbox' = [outbox EXCEPT ![d] = Tail(@)]
  BY DEF RefuseComment, client, history
<1>2. PICK h, a : h = Head(outbox[d]) /\ a = Reply(<<h.comment>>, "denied")
  OBVIOUS
<1>3. /\ online[d] /\ outbox[d] # << >> /\ ~Speaks(h) /\ h.comment \in Comments
      /\ a \in Notices /\ Like(a, h) /\ ~Asking(a) /\ ~Accepts(a)
  BY <1>1, <1>2, SetAnswer
<1>4. down' = [down EXCEPT ![d] = Append(@, a)]
  BY <1>2 DEF RefuseComment
<1>5. down \in [Devices -> Seq(Notices)] /\ post \in Node
  BY DEF IInv, Shape
<1>6. down'[d] = Append(down[d], a) /\ \A c \in Devices : c # d => down'[c] = down[c]
  BY <1>4, <1>5
<1>7. post'.ups = post.ups
  BY <1>1
<1> QED
  BY <1>1, <1>2, <1>3, <1>5, <1>6, <1>7, ReplyCounts

(* A phone hears the result of its put, and then that it was accepted.     *)
LEMMA HeardNews ==
  ASSUME NEW s, NEW S, NEW q \in Seq(S), Heard(s, q), NEW m \in S, NEW a \in S,
         Speaks(m), ~Accepts(m), Word(m) = s.txn[Result(a)].out
  PROVE  Heard(s, Append(Append(q, m), a))
<1>1. PICK u, v, n, c, z :
        /\ u = Append(q, m) /\ v = Append(u, a) /\ n = Len(q) /\ c = s.cache
        /\ z = s.txn[Result(a)].out
  OBVIOUS
<1>2. /\ u \in Seq(S) /\ n \in Nat /\ Len(u) = n + 1
      /\ \A i \in 1..n : u[i] = q[i]
      /\ u[n + 1] = m
  BY <1>1, AppendFacts
<1>3. /\ v \in Seq(S) /\ Len(v) = n + 2
      /\ \A i \in 1..(n + 1) : v[i] = u[i]
      /\ v[n + 2] = a
  <2>1. /\ v \in Seq(S) /\ Len(v) = Len(u) + 1
        /\ \A i \in 1..Len(u) : v[i] = u[i]
        /\ v[Len(u) + 1] = a
    BY <1>1, <1>2, AppendFacts
  <2> QED
    BY <1>2, <2>1
<1>4. u = q \o <<m>> /\ v = u \o <<a>> /\ <<m>> \in Seq(S) /\ <<a>> \in Seq(S)
  BY <1>1, <1>2, AppendIsConcat, One
<1>5. Hears(u, n + 2, c, z)
  <2>1. PICK k : k = n + 1
    OBVIOUS
  <2>2. Hears(Append(q, m), k + 1, c, z)
    BY <1>1, <2>1, HearsNext
  <2>3. k + 1 = n + 2
    BY <1>2, <2>1
  <2> QED
    BY <1>1, <2>2, <2>3
<1>6. ASSUME NEW j \in 1..Len(v), Accepts(v[j])
      PROVE  Hears(v, j, s.cache, s.txn[Result(v[j])].out)
  <2>1. PICK x : x = s.txn[Result(v[j])].out
    OBVIOUS
  <2>2. j \in Nat /\ j # n + 1
    BY <1>2, <1>3, <1>6
  <2>3. CASE j \in 1..n
    <3>1. v[j] = q[j]
      BY <1>2, <1>3, <2>3
    <3>2. Hears(q, j, c, x)
      BY <1>1, <1>6, <2>1, <2>3, <3>1 DEF Heard
    <3>3. j \in 1..(Len(q) + 1) /\ j \in 1..(Len(u) + 1)
      BY <1>1, <1>2, <2>3
    <3>4. Hears(q \o <<m>>, j, c, x)
      BY <1>4, <3>2, <3>3, HearsFront
    <3>5. Hears(u \o <<a>>, j, c, x)
      <4>1. Hears(u, j, c, x)
        BY <1>4, <3>4
      <4> QED
        BY <1>2, <1>4, <3>3, <4>1, HearsFront
    <3> QED
      BY <1>1, <1>4, <2>1, <3>5
  <2>4. CASE j = n + 2
    <3>1. v[j] = a /\ x = z
      BY <1>1, <1>3, <2>1, <2>4
    <3>2. j \in 1..(Len(u) + 1)
      BY <1>2, <2>4
    <3>3. Hears(u, j, c, x)
      BY <1>5, <2>4, <3>1
    <3>4. Hears(u \o <<a>>, j, c, x)
      BY <1>2, <1>4, <3>2, <3>3, HearsFront
    <3> QED
      BY <1>1, <1>4, <2>1, <3>4
  <2>5. j \in 1..n \/ j = n + 2
    BY <1>2, <1>3, <2>2
  <2> QED
    BY <2>3, <2>4, <2>5
<1>7. Heard(s, v)
  BY <1>6 DEF Heard
<1> QED
  BY <1>1, <1>7

(* What an accepted put makes of the counter.                              *)
LEMMA PutFacts ==
  ASSUME IInv, Counted, NEW d \in Devices, Next1(d, "put"), NEW h, h = Head(outbox[d])
  PROVE  /\ h.data = Plus(h.hash, Len(h.batch)) /\ h.data = txn[Result(h)].out
         /\ Cardinality(applied \cup Elements(h.batch)) = Cardinality(applied) + Len(h.batch)
         /\ Cardinality(applied) \in Nat /\ Len(h.batch) \in Nat
         /\ watch[d] /\ Heard(State(d), down[d])
<1>1. PICK s, l, ap, w, q :
        s = State(d) /\ l = LineOf(d) /\ ap = applied /\ w = written /\ q = outbox[d]
  OBVIOUS
<1>2. /\ s \in Phone /\ l \in Line /\ Sound(d, s, l, ap, w) /\ Paced(d, s, l, w)
      /\ WiredOf(d) /\ s.txn = txn /\ l.dn = down[d] /\ Asks(s, l) = q
  BY <1>1, PhoneFacts
<1>3. PICK a : a = Reply(h.batch, "datastale")
  OBVIOUS
<1>4. /\ online[d] /\ q # << >> /\ q \in Seq(Messages)
      /\ h \in Puts /\ h.type = "put"
  <2>1. /\ online[d] /\ outbox[d] # << >> /\ outbox[d] \in Seq(Messages)
        /\ h \in Puts /\ h \in Messages /\ h.type = "put" /\ ~Speaks(h)
        /\ a \in Notices /\ Like(a, h) /\ ~Asking(a) /\ a.type = "reply"
        /\ a.status = "datastale" /\ a.what = h.batch /\ Result(a) = Result(h)
    BY <1>3, PutAnswer
  <2> QED
    BY <1>1, <2>1
<1>5. h \in Elements(Asks(s, l)) /\ h \in Elements(Path(s, l))
  <2>1. h \in Elements(q)
    BY <1>1, <1>4, ElementsTail
  <2>2. Elements(Path(s, l)) = Everywhere(s, l)
    BY <1>2, Places
  <2> QED
    BY <1>2, <2>1, <2>2 DEF Everywhere
<1>6. /\ h.data = Plus(h.hash, Len(h.batch)) /\ h.data = s.txn[Result(h)].out
      /\ Distinct(h.batch)
  BY <1>2, <1>4, <1>5 DEF Paced, Steady, Ordered, Computed
<1>7. Elements(h.batch) \cap ap = {}
  <2>1. RightMessage(d, h, s, ap)
    BY <1>2, <1>5 DEF Sound, Carries, RightMessages
  <2>2. Carried(h) = Elements(h.batch) /\ Fruitless(h)
    BY <1>4 DEF Carried, Fruitless
  <2> QED
    BY <2>1, <2>2 DEF RightMessage
<1>8. /\ IsFiniteSet(Elements(h.batch)) /\ Cardinality(Elements(h.batch)) = Len(h.batch)
      /\ Len(h.batch) \in Nat
  <2>1. h.batch \in Seq(Nat)
    BY <1>4 DEF Puts
  <2> QED
    BY <1>6, <2>1, DistinctSize
<1>9. IsFiniteSet(applied) /\ Cardinality(applied) \in Nat
  <2>1. applied \in SUBSET (1..Len(txn)) /\ Len(txn) \in Nat
    BY DEF IInv, Shape, Started
  <2>2. IsFiniteSet(1..Len(txn))
    BY <2>1, FS_Interval
  <2>3. IsFiniteSet(applied)
    BY <2>1, <2>2, FS_Subset
  <2> QED
    BY <2>3, FS_CardinalityType
<1>10. Cardinality(applied \cup Elements(h.batch)) = Cardinality(applied) + Len(h.batch)
  <2>1. PICK x : x = Elements(h.batch)
    OBVIOUS
  <2>2. applied \cap x = {} /\ Cardinality({}) = 0
    BY <1>1, <1>7, <2>1, FS_EmptySet
  <2>3. Cardinality(applied \cup x)
          = Cardinality(applied) + Cardinality(x) - Cardinality(applied \cap x)
    BY <1>8, <1>9, <2>1, FS_Union
  <2>4. PICK n, i, j, k :
          /\ n = Cardinality(applied) /\ i = Cardinality(x) /\ j = Cardinality(applied \cap x)
          /\ k = Cardinality(applied \cup x)
    OBVIOUS
  <2>5. n \in Nat /\ i \in Nat /\ j = 0 /\ i = Len(h.batch)
    BY <1>8, <1>9, <2>1, <2>2, <2>4
  <2>6. k = n + i - j
    BY <2>3, <2>4
  <2>7. k = n + i
    BY <2>5, <2>6
  <2> QED
    BY <2>1, <2>4, <2>5, <2>7
<1>11. watch[d]
  <2>1. PICK x, f, dn, wa :
          x = UnderWay(txn, d) /\ f = feed[d] /\ dn = down[d] /\ wa = watch[d]
    OBVIOUS
  <2>2. Wired(x, f, online[d], wa, q, dn)
    BY <1>1, <1>2, <2>1 DEF WiredOf
  <2>3. 1 \in 1..Len(q) /\ q[1] = h
    BY <1>1, <1>4, TailFacts
  <2>4. Hears(q, 1, wa, TRUE)
    BY <1>4, <2>2, <2>3 DEF Wired
  <2>5. wa = TRUE
    BY <2>4, HearsFirst
  <2>6. watch[d] = TRUE
    BY <2>1, <2>5
  <2> QED
    BY <2>6
<1>12. Heard(s, down[d])
  BY <1>2 DEF Paced, Steady
<1> QED
  BY <1>1, <1>2, <1>6, <1>8, <1>9, <1>10, <1>11, <1>12

(* A put is accepted.                                                      *)
LEMMA AcceptPutCounts ==
  ASSUME IInv, IInv', Counted, NEW d \in Devices, AcceptPut(d)
  PROVE  Counted'
<1>1. /\ txn' = txn /\ queue' = queue /\ writes' = writes /\ written' = written
      /\ cache' = cache /\ feed' = feed /\ held' = held /\ todo' = todo
      /\ online' = online /\ watch' = watch /\ Next1(d, "put")
  BY DEF AcceptPut, client, bounds
<1>2. PICK h, a, n, m :
        /\ h = Head(outbox[d]) /\ a = Reply(h.batch, "ok") /\ n = h.data
        /\ m = [type |-> "update", node |-> n]
  OBVIOUS
<1>3. /\ h.hash = post /\ Publish(d, n, a) /\ applied' = applied \cup Elements(h.batch)
  BY <1>2 DEF AcceptPut
<1>4. /\ online[d] /\ outbox[d] # << >> /\ outbox[d] \in Seq(Messages)
      /\ h \in Puts /\ h \in Messages /\ h.type = "put" /\ ~Speaks(h)
      /\ a \in Notices /\ Like(a, h) /\ ~Asking(a) /\ a.type = "reply"
      /\ a.status = "ok" /\ a.what = h.batch /\ Result(a) = Result(h)
  BY <1>1, <1>2, PutAnswer
<1>5. /\ h.data = Plus(h.hash, Len(h.batch)) /\ h.data = txn[Result(h)].out
      /\ Cardinality(applied \cup Elements(h.batch)) = Cardinality(applied) + Len(h.batch)
      /\ Cardinality(applied) \in Nat /\ Len(h.batch) \in Nat
      /\ watch[d] /\ Heard(State(d), down[d])
  BY <1>1, <1>2, PutFacts
<1>6. post \in Node /\ n \in Node /\ post.ups = Cardinality(applied)
  <2>1. n \in Node
    BY <1>2, <1>4 DEF Puts
  <2> QED
    BY <2>1 DEF IInv, Shape, Counted
<1>7. /\ post' = n /\ outbox' = [outbox EXCEPT ![d] = Tail(@)]
      /\ down'[d] = (down[d] \o Told1(d, n)) \o <<a>>
      /\ \A c \in Devices : c # d => down'[c] = (down[c] \o Told1(c, n)) \o << >>
  BY <1>3 DEF Publish, Told1
<1>8. \A c \in Devices : c # d => down'[c] = down[c] \o Told1(c, n)
  BY <1>6, <1>7, ToldEnd
<1>9. post'.ups = Cardinality(applied')
  <2>1. n = Plus(post, Len(h.batch))
    BY <1>2, <1>3, <1>5
  <2>2. n.ups = post.ups + Len(h.batch)
    BY <1>6, <2>1 DEF Plus, Node
  <2> QED
    BY <1>3, <1>5, <1>6, <1>7, <2>2
<1>10. PICK q, u, v, s : q = down[d] /\ u = <<m>> /\ v = <<a>> /\ s = State(d)
  OBVIOUS
<1>11. /\ m \in Messages /\ Carried(m) = {} /\ Mentioned(m) = {} /\ m.type = "update"
       /\ ~Asking(m) /\ ~Accepts(m) /\ Speaks(m) /\ Word(m) = n
  BY <1>2, <1>6, NewsFacts
<1>12. /\ a \in Messages /\ u \in Seq(Messages) /\ v \in Seq(Messages)
       /\ q \in Seq(Messages) /\ u \o v \in Seq(Messages)
  <2>1. a \in Messages
    BY <1>4 DEF Messages
  <2>2. u \in Seq(Messages) /\ v \in Seq(Messages)
    BY <1>10, <1>11, <2>1, One
  <2>3. q \in Seq(Messages)
    <3>1. down[d] \in Seq(Notices)
      BY DEF IInv, Shape
    <3> QED
      BY <1>10, <3>1 DEF Messages
  <2> QED
    BY <2>1, <2>2, <2>3, ConcatProperties
<1>13. Pushes(u \o v, <<h>>)
  <2>1. Pushes(v, <<h>>)
    BY <1>4, <1>10, PushesFacts
  <2>2. Pushes(<<m>> \o <<a>>, <<h>>)
    BY <1>4, <1>10, <1>11, <1>12, <2>1, PushesNews
  <2> QED
    BY <1>10, <2>2
<1>14. down'[d] = (q \o u) \o v /\ down'[d] = q \o (u \o v)
  <2>1. Told1(d, n) = u
    BY <1>2, <1>5, <1>10 DEF Told1
  <2>2. q \o (u \o v) = (q \o u) \o v
    BY <1>12, ConcatThree
  <2> QED
    BY <1>7, <1>10, <2>1, <2>2
<1>15. Heard(s, down'[d])
  <2>1. Heard(s, q) /\ s.txn = txn
    BY <1>5, <1>10 DEF State
  <2>2. Word(m) = s.txn[Result(a)].out
    BY <1>2, <1>4, <1>5, <1>11, <2>1
  <2>3. Heard(s, Append(Append(q, m), a))
    BY <1>11, <1>12, <2>1, <2>2, HeardNews
  <2>4. Append(q, m) = q \o u /\ q \o u \in Seq(Messages)
    BY <1>10, <1>11, <1>12, AppendIsConcat, ConcatProperties
  <2>5. PICK p : p = q \o u
    OBVIOUS
  <2>6. Append(p, a) = p \o v
    BY <1>10, <1>12, <2>4, <2>5, AppendIsConcat
  <2> QED
    BY <1>14, <2>3, <2>4, <2>5, <2>6
<1>16. watch' = [watch EXCEPT ![d] = IF Speaks(h) THEN Word(h) ELSE @]
  <2>1. watch \in [Devices -> BOOLEAN]
    BY DEF IInv, Shape
  <2> QED
    BY <1>1, <1>4, <2>1
<1>17. PICK e \in Seq(Messages) : e = u \o v
  BY <1>12
<1>18. Pushes(e, <<h>>) /\ down'[d] = down[d] \o e
  BY <1>10, <1>13, <1>14, <1>17
<1>19. /\ Heard(State(d), down'[d]) /\ online[d] /\ outbox[d] # << >>
       /\ outbox' = [outbox EXCEPT ![d] = Tail(@)]
       /\ \A c \in Devices : c # d =>
            down'[c] = down[c] \/ \E x \in Node : down'[c] = down[c] \o Told1(c, x)
  BY <1>4, <1>6, <1>7, <1>8, <1>10, <1>15
<1> QED
  BY <1>1, <1>2, <1>9, <1>16, <1>18, <1>19, PushCounts

-----------------------------------------------------------------------------
(* What the client is told.                                                *)

(* A message is delivered, and the client learns what it says if it        *)
(* watches the post.                                                       *)
LEMMA DeliverCounts ==
  ASSUME IInv, IInv', Counted, NEW d \in Devices,
         txn' = txn, queue' = queue, writes' = writes, written' = written, feed' = feed,
         outbox' = outbox, online' = online, watch' = watch, applied' = applied,
         post' = post, Free(d), down[d] # << >>, NEW m, m = Head(down[d]),
         down' = [down EXCEPT ![d] = Tail(@)],
         \/ held'[d] = held[d] /\ todo'[d] = << >>
         \/ held'[d] = << >> /\ todo'[d] = held[d],
         \A e \in Devices : e # d => held'[e] = held[e] /\ todo'[e] = todo[e],
         cache' = [cache EXCEPT ![d] = IF Speaks(m) /\ Watched(d) THEN Word(m) ELSE @]
  PROVE  Counted'
<1>1. PICK s, l, r, k, ap, w :
        /\ s = State(d) /\ l = LineOf(d) /\ r = State(d)' /\ k = LineOf(d)'
        /\ ap = applied /\ w = written
  OBVIOUS
<1>2. /\ s \in Phone /\ l \in Line /\ Sound(d, s, l, ap, w) /\ Paced(d, s, l, w)
      /\ WiredOf(d) /\ s.txn = txn /\ s.feed = feed[d] /\ s.cache = cache[d]
      /\ s.puts = << >> /\ l.ob = outbox[d] /\ l.dn = down[d] /\ l.hd = held[d]
      /\ l.td = todo[d]
  BY <1>1, PhoneFacts
<1>3. /\ r \in Phone /\ k \in Line /\ r.txn = txn' /\ r.cache = cache'[d]
      /\ r.feed = feed'[d] /\ k.ob = outbox'[d]
      /\ k.dn = down'[d] /\ k.hd = held'[d] /\ k.td = todo'[d]
  BY <1>1, NextFacts
<1>4. r.puts = s.puts
  BY <1>1 DEF State
<1>5. /\ down'[d] = Tail(down[d]) /\ \A e \in Devices : e # d => down'[e] = down[e]
      /\ cache'[d] = (IF Speaks(m) /\ Watched(d) THEN Word(m) ELSE cache[d])
      /\ \A e \in Devices : e # d => cache'[e] = cache[e]
  <2>1. /\ down \in [Devices -> Seq(Notices)] /\ cache \in [Devices -> Node]
        /\ d \in Devices
    BY DEF IInv, Shape
  <2> QED
    BY <2>1
<1>6. l.td = << >> /\ l.dn # << >> /\ Delivered(l, k) /\ m = Head(l.dn) /\ k.dn = Tail(l.dn)
  BY <1>2, <1>3, <1>5 DEF Delivered, Free
<1>7. /\ Road(s, l) # << >> /\ Head(Road(s, l)) = Head(l.dn)
      /\ Road(r, k) = Tail(Road(s, l)) /\ Asks(r, k) = Asks(s, l)
      /\ Follows(Path(r, k), Path(s, l))
      /\ Elements(Road(r, k)) \subseteq Elements(Road(s, l))
      /\ Elements(k.hd) \subseteq Elements(l.hd) /\ Elements(k.td) \subseteq Elements(l.hd)
  BY <1>2, <1>3, <1>4, <1>6, DeliveredPath
<1>8. Resting(d, s, l, r, k)
  <2>1. ASSUME Rests(d, s, l)
        PROVE  /\ r.feed = "idle"
               /\ \A x \in Elements(Road(r, k)) : Asking(x) => Opens(x)
               /\ \A x \in Elements(k.hd) : Carried(x) = {}
               /\ \A x \in Elements(k.td) : Carried(x) # {} => x.status = "disconnect"
    <3>1. /\ s.feed = "idle"
          /\ \A x \in Elements(Road(s, l)) : Asking(x) => Opens(x)
          /\ \A x \in Elements(l.hd) : Carried(x) = {}
      BY <2>1 DEF Rests
    <3> QED
      BY <1>2, <1>3, <1>7, <3>1
  <2> QED
    BY <2>1 DEF Resting
<1>9. Straight(r.feed, Road(r, k))
  <2>1. PICK q, f : q = Road(s, l) /\ f = s.feed
    OBVIOUS
  <2>2. q \in Seq(Messages) /\ q # << >> /\ Straight(f, q)
    BY <1>2, <1>7, <2>1, Places DEF Paced, Steady
  <2>3. Straight(f, Tail(q))
    BY <2>2, DeliveredStraight
  <2>4. r.feed = f
    BY <1>2, <1>3, <2>1
  <2> QED
    BY <1>7, <2>1, <2>3, <2>4
<1>10. Heard(r, k.dn)
  <2>1. CASE Watched(d)
    <3>1. PICK n : n = l.dn
      OBVIOUS
    <3>2. n \in Seq(Messages) /\ n # << >> /\ Heard(s, n)
      BY <1>2, <1>6, <3>1, Places DEF Paced, Steady
    <3>3. r.cache = IF Speaks(Head(n)) THEN Word(Head(n)) ELSE s.cache
      BY <1>2, <1>3, <1>5, <1>6, <2>1, <3>1
    <3>4. \A x \in Elements(n) : Accepts(x) => r.txn[Result(x)].out = s.txn[Result(x)].out
      BY <1>2, <1>3
    <3>5. Heard(r, Tail(n))
      BY <3>2, <3>3, <3>4, HeardTail
    <3> QED
      BY <1>6, <3>1, <3>5
  <2>2. CASE ~Watched(d)
    <3>1. UnderWay(s.txn, d) = {}
      BY <1>2, <2>2 DEF Watched
    <3>2. \A x \in Elements(Path(s, l)) : Carried(x) = {}
      BY <1>2, <3>1, HeardNothing
    <3>3. Elements(k.dn) \subseteq Elements(Path(s, l))
      <4>1. Elements(k.dn) \subseteq Elements(Road(r, k))
        BY <1>3, Places
      <4>2. Elements(Road(s, l)) \subseteq Elements(Path(s, l))
        <5>1. Elements(Road(s, l)) = Elements(l.dn) \cup Elements(Asks(s, l))
              /\ Elements(Path(s, l)) = Everywhere(s, l)
          BY <1>2, Places
        <5> QED
          BY <5>1 DEF Everywhere
      <4> QED
        BY <1>7, <4>1, <4>2
    <3>4. \A j \in 1..Len(k.dn) : ~Accepts(k.dn[j])
      BY <3>2, <3>3 DEF Accepts, Elements
    <3> QED
      BY <3>4 DEF Heard
  <2> QED
    BY <2>1, <2>2
<1>11. WiredOf(d)'
  BY <1>2 DEF WiredOf, Wired
<1>12. Leaves(d)
  BY <1>5 DEF Leaves, Apart
<1>13. post'.ups = Cardinality(applied')
  BY DEF Counted
<1> QED
  BY <1>1, <1>7, <1>8, <1>9, <1>10, <1>11, <1>12, <1>13, QuietCounts

(* The post has changed at the server.                                     *)
LEMMA DeliverUpdateCounts ==
  ASSUME IInv, IInv', Counted, NEW d \in Devices, DeliverUpdate(d)
  PROVE  Counted'
<1>1. /\ txn' = txn /\ queue' = queue /\ writes' = writes /\ written' = written
      /\ feed' = feed /\ outbox' = outbox /\ online' = online /\ watch' = watch
      /\ applied' = applied /\ post' = post /\ held' = held /\ todo' = todo
      /\ Free(d) /\ down[d] # << >> /\ down' = [down EXCEPT ![d] = Tail(@)]
  BY DEF DeliverUpdate, Received, Take, bounds, history
<1>2. PICK m : m = Head(down[d])
  OBVIOUS
<1>3. m.type = "update" /\ Learn(d, m.node)
  BY <1>2 DEF DeliverUpdate, Received
<1>4. Speaks(m) /\ Word(m) = m.node
  BY <1>3 DEF Speaks, Word
<1>5. cache' = [cache EXCEPT ![d] = IF Speaks(m) /\ Watched(d) THEN Word(m) ELSE @]
  BY <1>3, <1>4 DEF Learn
<1>6. /\ held'[d] = held[d] /\ todo'[d] = << >>
      /\ \A e \in Devices : e # d => held'[e] = held[e] /\ todo'[e] = todo[e]
  BY <1>1 DEF Free
<1> QED
  BY <1>1, <1>2, <1>5, <1>6, DeliverCounts

(* A listen is answered.                                                   *)
LEMMA DeliverValueCounts ==
  ASSUME IInv, IInv', Counted, NEW d \in Devices, DeliverValue(d)
  PROVE  Counted'
<1>1. /\ txn' = txn /\ queue' = queue /\ writes' = writes /\ written' = written
      /\ feed' = feed /\ outbox' = outbox /\ online' = online /\ watch' = watch
      /\ applied' = applied /\ post' = post /\ Acknowledge(d)
      /\ Free(d) /\ down[d] # << >> /\ down' = [down EXCEPT ![d] = Tail(@)]
  BY DEF DeliverValue, Received, Take, bounds, history
<1>2. PICK m : m = Head(down[d])
  OBVIOUS
<1>3. /\ m.type = "value" /\ m.what # "feed"
      /\ IF m.what \in {"other", "restored"} THEN cache' = cache ELSE Learn(d, m.node)
  BY <1>2 DEF DeliverValue, Received
<1>4. Word(m) = m.node /\ (Speaks(m) <=> m.what \notin {"other", "restored"})
  BY <1>3 DEF Speaks, Word, Asking
<1>5. cache' = [cache EXCEPT ![d] = IF Speaks(m) /\ Watched(d) THEN Word(m) ELSE @]
  <2>1. cache \in [Devices -> Node]
    BY DEF IInv, Shape
  <2>2. CASE m.what \in {"other", "restored"}
    BY <1>3, <1>4, <2>1, <2>2
  <2>3. CASE m.what \notin {"other", "restored"}
    BY <1>3, <1>4, <2>3 DEF Learn
  <2> QED
    BY <2>2, <2>3
<1>6. /\ \/ held'[d] = held[d] /\ todo'[d] = << >>
         \/ held'[d] = << >> /\ todo'[d] = held[d]
      /\ \A e \in Devices : e # d => held'[e] = held[e] /\ todo'[e] = todo[e]
  <2>1. Shape
    BY DEF IInv
  <2>2. \/ held'[d] = held[d] /\ todo'[d] = << >>
        \/ held'[d] = << >> /\ todo'[d] = held[d]
    BY <1>1, <2>1, Released
  <2>3. /\ held \in [Devices -> Seq(Answers)] /\ todo \in [Devices -> Seq(Answers)]
    BY <2>1 DEF Shape
  <2>4. \A e \in Devices : e # d => held'[e] = held[e] /\ todo'[e] = todo[e]
    BY <1>1, <2>3 DEF Acknowledge
  <2> QED
    BY <2>2, <2>4
<1> QED
  BY <1>1, <1>2, <1>5, <1>6, DeliverCounts

(* An answer is kept back: nothing is asked for behind a put whose answer  *)
(* a waiting transaction needs.                                            *)
LEMMA HoldReplyCounts ==
  ASSUME IInv, IInv', Counted, NEW d \in Devices, HoldReply(d)
  PROVE  Counted'
<1>1. /\ txn' = txn /\ queue' = queue /\ writes' = writes /\ written' = written
      /\ cache' = cache /\ feed' = feed /\ outbox' = outbox /\ online' = online
      /\ watch' = watch /\ applied' = applied /\ post' = post /\ todo' = todo
      /\ down[d] # << >> /\ down' = [down EXCEPT ![d] = Tail(@)]
      /\ Unacked(outbox[d], down[d])
  BY DEF HoldReply, Received, Take, client, bounds, history
<1>2. PICK s, l, r, k, ap, w, m :
        /\ s = State(d) /\ l = LineOf(d) /\ r = State(d)' /\ k = LineOf(d)'
        /\ ap = applied /\ w = written /\ m = Head(down[d])
  OBVIOUS
<1>3. /\ s \in Phone /\ l \in Line /\ Sound(d, s, l, ap, w) /\ Paced(d, s, l, w)
      /\ WiredOf(d) /\ s.txn = txn /\ s.feed = feed[d] /\ s.cache = cache[d]
      /\ l.dn = down[d] /\ l.hd = held[d] /\ l.td = todo[d] /\ Asks(s, l) = outbox[d]
  BY <1>2, PhoneFacts
<1>4. /\ r \in Phone /\ k \in Line /\ r.txn = txn' /\ r.cache = cache'[d]
      /\ r.feed = feed'[d] /\ Asks(r, k) = outbox'[d]
      /\ k.dn = down'[d] /\ k.hd = held'[d] /\ k.td = todo'[d]
  BY <1>2, NextFacts
<1>5. m.type = "reply" /\ held' = [held EXCEPT ![d] = Append(@, m)]
  BY <1>2 DEF HoldReply, Received
<1>6. /\ down'[d] = Tail(down[d]) /\ held'[d] = Append(held[d], m)
      /\ \A e \in Devices : e # d => down'[e] = down[e] /\ held'[e] = held[e]
  <2>1. /\ down \in [Devices -> Seq(Notices)] /\ held \in [Devices -> Seq(Answers)]
        /\ d \in Devices
    BY DEF IInv, Shape
  <2> QED
    BY <1>1, <1>5, <2>1
<1>7. PICK t, h, n, b, q :
        t = l.td /\ h = l.hd /\ n = l.dn /\ b = Asks(s, l) /\ q = Road(s, l)
  OBVIOUS
<1>8. /\ t \in Seq(Messages) /\ h \in Seq(Messages) /\ n \in Seq(Messages)
      /\ b \in Seq(Messages) /\ q \in Seq(Messages) /\ q = n \o b
      /\ n # << >> /\ m = Head(n) /\ m \in Messages /\ Tail(n) \in Seq(Messages)
  <2>1. /\ t \in Seq(Messages) /\ h \in Seq(Messages) /\ n \in Seq(Messages)
        /\ b \in Seq(Messages) /\ q \in Seq(Messages)
    BY <1>3, <1>7, Places
  <2>2. q = n \o b
    BY <1>7 DEF Road
  <2>3. n # << >> /\ m = Head(n)
    BY <1>1, <1>2, <1>3, <1>7
  <2>4. m \in Messages /\ Tail(n) \in Seq(Messages)
    BY <2>1, <2>3, TailFacts
  <2> QED
    BY <2>1, <2>2, <2>3, <2>4
<1>9. q # << >> /\ Head(q) = m /\ Tail(q) = Tail(n) \o b
  <2>1. Len(n) \in Nat \ {0}
    BY <1>8, TailFacts
  <2> QED
    BY <1>8, <2>1
<1>10. Road(r, k) = Tail(q)
  BY <1>1, <1>3, <1>4, <1>6, <1>7, <1>9 DEF Road
<1>11. Path(r, k) = Path(s, l)
  <2>1. PICK p, u : p = Tail(q) /\ u = <<m>>
    OBVIOUS
  <2>2. p \in Seq(Messages) /\ u \in Seq(Messages)
    BY <1>8, <1>9, <2>1, One, TailFacts
  <2>3. q = u \o p
    <3>1. q \in Seq(Messages) /\ q # << >> /\ m = Head(q)
      BY <1>8, <1>9
    <3>2. q = <<m>> \o Tail(q)
      BY <3>1
    <3> QED
      BY <2>1, <3>2
  <2>4. h \o (u \o p) = (h \o u) \o p
    <3>1. h \in Seq(Messages)
      BY <1>8
    <3> QED
      BY <2>2, <3>1, ConcatThree
  <2>5. Append(h, m) = h \o u
    BY <1>8, <2>1, AppendIsConcat
  <2>6. k.hd = Append(h, m) /\ k.td = t
    BY <1>1, <1>3, <1>4, <1>6, <1>7
  <2>7. Path(r, k) = t \o ((h \o u) \o p)
    BY <1>10, <2>1, <2>5, <2>6 DEF Path
  <2>8. Path(s, l) = t \o (h \o (u \o p))
    BY <1>7, <2>3 DEF Path
  <2> QED
    BY <2>4, <2>7, <2>8
<1>12. Follows(Path(r, k), Path(s, l))
  BY <1>11, FollowsRefl
<1>13. Straight(s.feed, q) /\ Heard(s, n)
  BY <1>3, <1>7 DEF Paced, Steady
<1>14. PICK f : f = s.feed
  OBVIOUS
<1>15. /\ Straight(f, Tail(q))
       /\ \A y \in Elements(Tail(q)) :
            /\ Carried(m) # {} => ~Opens(y)
            /\ Fetches(m) => ~Fetches(y)
  <2>1. /\ Straight(f, Tail(q))
        /\ \A y \in Elements(Tail(q)) :
             /\ Carried(Head(q)) # {} => ~Opens(y)
             /\ Fetches(Head(q)) => ~Fetches(y)
        /\ Fetches(Head(q)) => f = "sent"
    <3>1. q \in Seq(Messages) /\ q # << >> /\ Straight(f, q)
      BY <1>8, <1>9, <1>13, <1>14
    <3> QED
      BY <3>1, StraightTail
  <2> QED
    BY <1>9, <2>1
<1>16. Straight(r.feed, Road(r, k))
  <2>1. r.feed = f
    BY <1>1, <1>3, <1>4, <1>14
  <2> QED
    BY <1>10, <1>15, <2>1
<1>17. Heard(r, k.dn)
  <2>1. r.cache = IF Speaks(Head(n)) THEN Word(Head(n)) ELSE s.cache
    BY <1>1, <1>3, <1>4, <1>5, <1>8 DEF Speaks, Asking
  <2>2. \A x \in Elements(n) : Accepts(x) => r.txn[Result(x)].out = s.txn[Result(x)].out
    BY <1>1, <1>3, <1>4
  <2>3. Heard(r, Tail(n))
    BY <1>8, <1>13, <2>1, <2>2, HeardTail
  <2> QED
    BY <1>3, <1>4, <1>6, <1>7, <2>3
<1>18. Elements(q) = Elements(Tail(q)) \cup {m} /\ Elements(q) = Elements(n) \cup Elements(b)
  <2>1. q \in Seq(Messages) /\ q # << >> /\ Head(q) = m
    BY <1>8, <1>9
  <2>2. Elements(q) = Elements(Tail(q)) \cup {Head(q)}
    BY <2>1, ElementsTail
  <2>3. n \in Seq(Messages) /\ b \in Seq(Messages) /\ q = n \o b
    BY <1>8
  <2>4. Elements(n \o b) = Elements(n) \cup Elements(b)
    BY <2>3, ElementsConcat
  <2> QED
    BY <2>1, <2>2, <2>3, <2>4
<1>19. Elements(k.hd) = Elements(h) \cup {m}
  <2>1. Elements(Append(h, m)) = Elements(h) \cup {m}
    BY <1>8, ElementsAppend
  <2> QED
    BY <1>3, <1>4, <1>6, <1>7, <2>1
<1>20. Resting(d, s, l, r, k)
  <2>1. ASSUME Rests(d, s, l)
        PROVE  /\ r.feed = "idle"
               /\ \A x \in Elements(Road(r, k)) : Asking(x) => Opens(x)
               /\ \A x \in Elements(k.hd) : Carried(x) = {}
               /\ \A x \in Elements(k.td) : Carried(x) # {} => x.status = "disconnect"
    <3>1. /\ s.feed = "idle"
          /\ \A x \in Elements(q) : Asking(x) => Opens(x)
          /\ \A x \in Elements(h) : Carried(x) = {}
          /\ \A x \in Elements(t) : Carried(x) # {} => x.status = "disconnect"
      BY <1>7, <2>1 DEF Rests
    <3>2. PICK y \in Elements(q) : Asking(y) /\ y # m
      <4>1. PICK y \in Elements(outbox[d]) \cup Elements(down[d]) :
              y.type \in {"listen", "value"}
        BY <1>1 DEF Unacked
      <4>2. y \in Elements(q)
        BY <1>3, <1>7, <1>18, <4>1
      <4> QED
        BY <1>5, <4>1, <4>2 DEF Asking
    <3>3. Opens(y) /\ y \in Elements(Tail(q))
      BY <1>18, <3>1, <3>2
    <3>4. Carried(m) = {}
      BY <1>15, <3>3
    <3>5. k.td = t /\ r.feed = s.feed
      BY <1>1, <1>3, <1>4, <1>7
    <3>6. \A x \in Elements(Road(r, k)) : Asking(x) => Opens(x)
      BY <1>10, <1>18, <3>1
    <3> QED
      BY <1>19, <3>1, <3>4, <3>5, <3>6
  <2> QED
    BY <2>1 DEF Resting
<1>21. WiredOf(d)'
  BY <1>1, <1>3 DEF WiredOf, Wired
<1>22. Leaves(d)
  BY <1>1, <1>6 DEF Leaves, Apart
<1>23. post'.ups = Cardinality(applied')
  BY <1>1 DEF Counted
<1> QED
  BY <1>1, <1>2, <1>12, <1>16, <1>17, <1>20, <1>21, <1>22, <1>23, QuietCounts

-----------------------------------------------------------------------------
(* Listens of the app.                                                     *)

(* While nothing waits in the queue the app may ask for more.              *)
LEMMA AskCounts ==
  ASSUME IInv, IInv', Counted, NEW d \in Devices, ~Waiting(d),
         txn' = txn, queue' = queue, writes' = writes, written' = written, cache' = cache,
         online' = online, watch' = watch, applied' = applied, post' = post,
         down' = down, held' = held, todo' = todo,
         \A e \in Devices : e # d => outbox'[e] = outbox[e] /\ feed'[e] = feed[e],
         NEW u \in Seq(Messages), outbox'[d] = outbox[d] \o u,
         \A m \in Elements(u) : Idle(m),
         NEW q, q = Road(State(d), LineOf(d)),
         Straight(feed[d], q) => Straight(feed'[d], q \o u),
         WiredOf(d)'
  PROVE  Counted'
<1>1. PICK s, l, r, k, ap, w :
        /\ s = State(d) /\ l = LineOf(d) /\ r = State(d)' /\ k = LineOf(d)'
        /\ ap = applied /\ w = written
  OBVIOUS
<1>2. /\ s \in Phone /\ l \in Line /\ Sound(d, s, l, ap, w) /\ Paced(d, s, l, w)
      /\ s.txn = txn /\ s.queue = queue[d] /\ s.feed = feed[d] /\ s.cache = cache[d]
      /\ l.dn = down[d] /\ l.hd = held[d] /\ l.td = todo[d] /\ Asks(s, l) = outbox[d]
  BY <1>1, PhoneFacts
<1>3. /\ r \in Phone /\ k \in Line /\ r.txn = txn' /\ r.cache = cache'[d]
      /\ r.feed = feed'[d] /\ Asks(r, k) = outbox'[d]
      /\ k.dn = down'[d] /\ k.hd = held'[d] /\ k.td = todo'[d]
  BY <1>1, NextFacts
<1>4. /\ Road(r, k) = Road(s, l) \o u /\ Path(r, k) = Path(s, l) \o u
  <2>1. Asks(r, k) = Asks(s, l) \o u /\ k.dn = l.dn /\ k.hd = l.hd /\ k.td = l.td
    BY <1>2, <1>3
  <2>2. Grows(s, l, r, k, u)
    <3>1. s \in Phone /\ l \in Line /\ u \in Seq(Messages)
      BY <1>2
    <3> QED
      BY ONLY <2>1, <3>1, PathGrows
  <2> QED
    BY <2>2 DEF Grows
<1>5. Follows(Path(r, k), Path(s, l))
  <2>1. PICK p : p = Path(s, l)
    OBVIOUS
  <2>2. p \in Seq(Messages)
    BY <1>2, <2>1, Places
  <2>3. Follows(p \o u, p)
    BY <2>2, FollowsMore
  <2> QED
    BY <1>4, <2>1, <2>3
<1>6. Resting(d, s, l, r, k)
  <2>1. Running(s) = {}
    BY <1>2 DEF Running, Waiting
  <2> QED
    BY <2>1 DEF Resting
<1>7. Straight(r.feed, Road(r, k))
  <2>1. Straight(s.feed, Road(s, l))
    BY <1>2 DEF Paced, Steady
  <2>2. Straight(feed[d], q)
    BY <1>1, <1>2, <2>1
  <2> QED
    BY <1>1, <1>3, <1>4, <2>2
<1>8. Heard(r, k.dn)
  <2>1. Heard(s, l.dn)
    BY <1>2 DEF Paced, Steady
  <2> QED
    BY <1>2, <1>3, <2>1 DEF Heard
<1>9. Leaves(d)
  BY DEF Leaves, Apart
<1>10. post'.ups = Cardinality(applied')
  BY DEF Counted
<1> QED
  BY <1>1, <1>5, <1>6, <1>7, <1>8, <1>9, <1>10, QuietCounts

(* The app reads the feed, and nothing waits in the queue.                 *)
LEMMA ReadFeedCounts ==
  ASSUME IInv, IInv', Counted, NEW d \in Devices, ReadFeed(d), ~crowded'
  PROVE  Counted'
<1>1. /\ txn' = txn /\ queue' = queue /\ writes' = writes /\ written' = written
      /\ cache' = cache /\ online' = online /\ watch' = watch /\ applied' = applied
      /\ post' = post /\ down' = down /\ held' = held /\ todo' = todo
      /\ ~Waiting(d) /\ feed[d] = "idle"
  BY DEF ReadFeed, client
<1>2. PICK m, u, q :
        m = Listen("feed") /\ u = Say(d, m) /\ q = Road(State(d), LineOf(d))
  OBVIOUS
<1>3. /\ outbox'[d] = outbox[d] \o u /\ feed'[d] = "sent"
      /\ \A e \in Devices : e # d => outbox'[e] = outbox[e] /\ feed'[e] = feed[e]
  <2>1. /\ outbox \in [Devices -> Seq(Requests)] /\ d \in Devices
        /\ feed \in [Devices -> {"idle", "sent", "answered"}]
    BY DEF IInv, Shape
  <2>2. /\ outbox' = [outbox EXCEPT ![d] = @ \o u]
        /\ feed' = [feed EXCEPT ![d] = "sent"]
    BY <1>2 DEF ReadFeed
  <2> QED
    BY <2>1, <2>2
<1>4. /\ m \in Messages /\ Idle(m) /\ Fetches(m) /\ ~Opens(m) /\ Carried(m) = {}
      /\ Speaks(m) /\ m.type # "put" /\ Word(m) = TRUE
  BY <1>2 DEF Messages, Requests, Kinds, Listen, Idle, Carried, Mentioned, Fetches, Opens,
              Asking, Speaks, Word
<1>5. u = IF online[d] THEN <<m>> ELSE << >>
  BY <1>2 DEF Say
<1>6. /\ <<m>> \in Seq(Messages) /\ Elements(<<m>>) = {m}
      /\ << >> \in Seq(Messages) /\ Elements(<< >>) = {}
  BY <1>4, One, EmptySeq, ElementsFacts
<1>7. u \in Seq(Messages) /\ \A x \in Elements(u) : x = m
  BY <1>5, <1>6
<1>8. \A x \in Elements(u) : Idle(x)
  BY <1>4, <1>7
<1>9. q \in Seq(Messages)
  <2>1. Shape
    BY DEF IInv
  <2>2. State(d) \in Phone /\ LineOf(d) \in Line
    BY <2>1, ShapeFacts
  <2> QED
    BY <1>2, <2>2, Places
<1>10. Straight("idle", q) => Straight("sent", q \o u)
  <2> SUFFICES ASSUME Straight("idle", q)
               PROVE  Straight("sent", q \o u)
    OBVIOUS
  <2>1. \A x \in Elements(q) : ~Fetches(x)
    BY DEF Straight, Fetched
  <2>2. Straight("sent", q)
    BY DEF Straight, Fetched
  <2>3. Straight("sent", u)
    <3>1. \A x, y : ~After(u, x, y)
      BY <1>5, AfterEmpty
    <3> QED
      BY <3>1 DEF Straight, Fetched, Early
  <2>4. \A x \in Elements(q), y \in Elements(u) :
          /\ Carried(x) # {} => ~Opens(y)
          /\ ~(Fetches(x) /\ Fetches(y))
    BY <1>4, <1>7, <2>1
  <2> QED
    BY <1>7, <1>9, <2>2, <2>3, <2>4, StraightConcat
<1>11. WiredOf(d)'
  <2>1. PICK x, f, on, wa, o, dn, y :
          /\ x = UnderWay(txn, d) /\ f = feed[d] /\ on = online[d] /\ wa = watch[d]
          /\ o = outbox[d] /\ dn = down[d] /\ y = "sent"
    OBVIOUS
  <2>2. Wired(x, f, on, wa, o, dn)
    BY <2>1 DEF Counted, PacedOf, WiredOf
  <2>3. o \in Seq(Messages)
    <3>1. outbox[d] \in Seq(Requests)
      BY DEF IInv, Shape
    <3> QED
      BY <2>1, <3>1, RequestsAre
  <2>4. u = (IF on THEN <<m>> ELSE << >>) /\ (~on /\ dn = << >> => dn = << >>)
        /\ (x # {} \/ y # "idle" => Word(m) = TRUE)
    BY <1>4, <1>5, <2>1
  <2>5. Wired(x, y, on, wa, o \o u, dn)
    BY <1>4, <2>2, <2>3, <2>4, WiredSay
  <2> QED
    BY <1>1, <1>3, <2>1, <2>5 DEF WiredOf
<1>12. Straight(feed[d], q) => Straight(feed'[d], q \o u)
  BY <1>1, <1>3, <1>10
<1> QED
  BY <1>1, <1>2, <1>3, <1>7, <1>8, <1>11, <1>12, AskCounts

(* The app listens to something else, and nothing waits in the queue.      *)
LEMMA ListenElsewhereCounts ==
  ASSUME IInv, IInv', Counted, NEW d \in Devices, ListenElsewhere(d), ~crowded'
  PROVE  Counted'
<1>1. /\ txn' = txn /\ queue' = queue /\ writes' = writes /\ written' = written
      /\ cache' = cache /\ online' = online /\ watch' = watch /\ applied' = applied
      /\ post' = post /\ down' = down /\ held' = held /\ todo' = todo /\ feed' = feed
      /\ ~Waiting(d) /\ online[d]
  BY DEF ListenElsewhere, client
<1>2. PICK m, u, q, o :
        /\ m = Listen("other") /\ u = <<m>> /\ q = Road(State(d), LineOf(d))
        /\ o = outbox[d]
  OBVIOUS
<1>3. /\ m \in Messages /\ Idle(m) /\ ~Fetches(m) /\ ~Opens(m) /\ ~Speaks(m)
      /\ m.type # "put"
  BY <1>2 DEF Messages, Requests, Kinds, Listen, Idle, Carried, Mentioned, Fetches, Opens,
              Asking, Speaks
<1>4. u \in Seq(Messages) /\ Elements(u) = {m}
  BY <1>2, <1>3, One
<1>5. o \in Seq(Messages) /\ q \in Seq(Messages)
  <2>1. Shape /\ outbox[d] \in Seq(Requests)
    BY DEF IInv, Shape
  <2>2. State(d) \in Phone /\ LineOf(d) \in Line
    BY <2>1, ShapeFacts
  <2> QED
    BY <1>2, <2>1, <2>2, Places, RequestsAre
<1>6. /\ outbox'[d] = o \o u
      /\ \A e \in Devices : e # d => outbox'[e] = outbox[e] /\ feed'[e] = feed[e]
  <2>1. outbox \in [Devices -> Seq(Requests)] /\ d \in Devices
    BY DEF IInv, Shape
  <2>2. outbox' = [outbox EXCEPT ![d] = Append(@, m)]
    BY <1>2 DEF ListenElsewhere
  <2>3. Append(o, m) = o \o u
    BY <1>2, <1>3, <1>5, AppendIsConcat
  <2> QED
    BY <1>1, <1>2, <2>1, <2>2, <2>3
<1>7. \A x \in Elements(u) : Idle(x) /\ ~Opens(x) /\ ~Fetches(x)
  BY <1>3, <1>4
<1>8. Straight(feed[d], q) => Straight(feed'[d], q \o u)
  <2>1. PICK f : f = feed[d]
    OBVIOUS
  <2>2. Straight(f, q) => Straight(f, q \o u)
    BY <1>4, <1>5, <1>7, StraightMore
  <2> QED
    BY <1>1, <2>1, <2>2
<1>9. WiredOf(d)'
  <2>1. PICK x, f, on, wa, dn :
          /\ x = UnderWay(txn, d) /\ f = feed[d] /\ on = online[d] /\ wa = watch[d]
          /\ dn = down[d]
    OBVIOUS
  <2>2. Wired(x, f, on, wa, o, dn)
    BY <1>2, <2>1 DEF Counted, PacedOf, WiredOf
  <2>3. \A y \in Elements(u) : ~Speaks(y) /\ (y.type = "put" => x # {} \/ f # "idle")
    BY <1>3, <1>4
  <2>4. (x # {} \/ f # "idle" => x # {} \/ f # "idle") /\ (~on /\ dn = << >> => dn = << >>)
    OBVIOUS
  <2>5. Wired(x, f, on, wa, o \o u, dn)
    BY <1>4, <1>5, <2>2, <2>3, <2>4, WiredMore
  <2> QED
    BY <1>1, <1>6, <2>1, <2>5 DEF WiredOf
<1>10. outbox'[d] = outbox[d] \o u
  BY <1>2, <1>6
<1> QED
  BY <1>1, <1>2, <1>4, <1>6, <1>7, <1>8, <1>9, <1>10, AskCounts


(* The app has read the feed.                                              *)
LEMMA EndReadCounts ==
  ASSUME IInv, IInv', Counted, NEW d \in Devices, EndRead(d)
  PROVE  Counted'
<1>1. /\ txn' = txn /\ queue' = queue /\ writes' = writes /\ written' = written
      /\ online' = online /\ watch' = watch /\ applied' = applied
      /\ post' = post /\ down' = down /\ held' = held /\ todo' = todo
      /\ feed' = [feed EXCEPT ![d] = "idle"] /\ feed[d] = "answered"
  BY DEF EndRead, bounds, history
<1>2. PICK s, l, r, k, x, ap, w :
        /\ s = State(d) /\ l = LineOf(d) /\ r = State(d)' /\ k = LineOf(d)'
        /\ x = UnderWay(txn, d) /\ ap = applied /\ w = written
  OBVIOUS
<1>3. /\ s \in Phone /\ l \in Line /\ Sound(d, s, l, ap, w) /\ Paced(d, s, l, w)
      /\ s.txn = txn /\ s.feed = feed[d] /\ s.cache = cache[d]
      /\ l.dn = down[d] /\ l.hd = held[d] /\ l.td = todo[d] /\ Asks(s, l) = outbox[d]
  BY <1>2, PhoneFacts
<1>4. /\ r \in Phone /\ k \in Line /\ r.txn = txn' /\ r.cache = cache'[d]
      /\ r.feed = feed'[d] /\ Asks(r, k) = outbox'[d]
      /\ k.dn = down'[d] /\ k.hd = held'[d] /\ k.td = todo'[d]
  BY <1>2, NextFacts
<1>5. PICK m, u, q :
        /\ m = (IF x = {} THEN [type |-> "unlisten"] ELSE Listen("again"))
        /\ u = Say(d, m) /\ q = Road(s, l)
  OBVIOUS
<1>6. /\ m \in Messages /\ Idle(m) /\ ~Fetches(m) /\ ~Opens(m) /\ Speaks(m)
      /\ m.type # "put" /\ (x # {} => Word(m) = TRUE)
  <2>1. CASE x = {}
    <3>1. m = [type |-> "unlisten"]
      BY <1>5, <2>1
    <3>2. m.type = "unlisten"
      BY <3>1
    <3>3. m \in Messages
      BY <3>1 DEF Messages, Requests
    <3> QED
      BY <2>1, <3>2, <3>3 DEF Idle, Carried, Mentioned, Fetches, Opens, Asking, Speaks, Word
  <2>2. CASE x # {}
    <3>1. m = Listen("again")
      BY <1>5, <2>2
    <3> QED
      BY <2>2, <3>1 DEF Messages, Requests, Kinds, Listen, Idle, Carried, Mentioned, Fetches,
                        Opens, Asking, Speaks, Word
  <2> QED
    BY <2>1, <2>2
<1>7. u = IF online[d] THEN <<m>> ELSE << >>
  BY <1>5 DEF Say
<1>8. u \in Seq(Messages) /\ \A y \in Elements(u) : y = m
  <2>1. /\ <<m>> \in Seq(Messages) /\ Elements(<<m>>) = {m}
        /\ << >> \in Seq(Messages) /\ Elements(<< >>) = {}
    BY <1>6, One, EmptySeq, ElementsFacts
  <2> QED
    BY <1>7, <2>1
<1>9. \A y \in Elements(u) : Idle(y) /\ ~Opens(y) /\ ~Fetches(y)
  BY <1>6, <1>8
<1>10. /\ outbox'[d] = outbox[d] \o u /\ feed'[d] = "idle"
       /\ \A e \in Devices : e # d => /\ outbox'[e] = outbox[e] /\ feed'[e] = feed[e]
                                      /\ cache'[e] = cache[e]
       /\ cache'[d] = cache[d] \/ UnderWay(txn, d) = {}
  <2>1. /\ outbox \in [Devices -> Seq(Requests)] /\ d \in Devices
        /\ feed \in [Devices -> {"idle", "sent", "answered"}]
        /\ cache \in [Devices -> Node]
    BY DEF IInv, Shape
  <2>2. /\ outbox' = [outbox EXCEPT ![d] = @ \o u]
        /\ cache' = cache \/ (cache' = [cache EXCEPT ![d] = Empty] /\ UnderWay(txn, d) = {})
    BY <1>2, <1>5 DEF EndRead
  <2> QED
    BY <1>1, <2>1, <2>2
<1>11. /\ Road(r, k) = Road(s, l) \o u /\ Path(r, k) = Path(s, l) \o u
  <2>1. Asks(r, k) = Asks(s, l) \o u /\ k.dn = l.dn /\ k.hd = l.hd /\ k.td = l.td
    BY <1>1, <1>3, <1>4, <1>10
  <2>2. Grows(s, l, r, k, u)
    <3>1. s \in Phone /\ l \in Line /\ u \in Seq(Messages)
      BY <1>3, <1>8
    <3> QED
      BY ONLY <2>1, <3>1, PathGrows
  <2> QED
    BY <2>2 DEF Grows
<1>12. Follows(Path(r, k), Path(s, l))
  <2>1. PICK p : p = Path(s, l)
    OBVIOUS
  <2>2. p \in Seq(Messages)
    BY <1>3, <2>1, Places
  <2>3. Follows(p \o u, p)
    BY <1>8, <1>9, <2>2, FollowsMore
  <2> QED
    BY <1>11, <2>1, <2>3
<1>13. Resting(d, s, l, r, k)
  <2>1. s.feed # "idle"
    BY <1>1, <1>3
  <2> QED
    BY <2>1 DEF Resting, Rests
<1>14. Straight(r.feed, Road(r, k))
  <2>1. q \in Seq(Messages)
    BY <1>3, <1>5, Places
  <2>2. Straight("answered", q)
    BY <1>1, <1>3, <1>5 DEF Paced, Steady
  <2>3. Straight("idle", q)
    BY <2>2 DEF Straight, Fetched
  <2>4. Straight("idle", q \o u)
    BY <1>8, <1>9, <2>1, <2>3, StraightMore
  <2> QED
    BY <1>4, <1>5, <1>10, <1>11, <2>4
<1>15. Heard(r, k.dn)
  <2>1. CASE UnderWay(txn, d) = {}
    <3>1. \A z : Heard(z, l.dn)
      <4>1. UnderWay(s.txn, d) = {}
        BY <1>3, <2>1
      <4>2. /\ \A y \in Elements(Path(s, l)) : Carried(y) = {}
            /\ \A z : Heard(z, l.dn)
        BY <1>3, <4>1, HeardNothing
      <4> QED
        BY <4>2
    <3> QED
      BY <1>1, <1>3, <1>4, <3>1
  <2>2. CASE cache'[d] = cache[d]
    <3>1. Heard(s, l.dn)
      BY <1>3 DEF Paced, Steady
    <3> QED
      BY <1>1, <1>3, <1>4, <2>2, <3>1 DEF Heard
  <2> QED
    BY <1>10, <2>1, <2>2
<1>16. WiredOf(d)'
  <2>1. PICK f, on, wa, o, dn, g :
          /\ f = feed[d] /\ on = online[d] /\ wa = watch[d]
          /\ o = outbox[d] /\ dn = down[d] /\ g = "idle"
    OBVIOUS
  <2>2. Wired(x, f, on, wa, o, dn)
    BY <1>2, <2>1 DEF Counted, PacedOf, WiredOf
  <2>3. o \in Seq(Messages)
    <3>1. outbox[d] \in Seq(Requests)
      BY DEF IInv, Shape
    <3> QED
      BY <2>1, <3>1, RequestsAre
  <2>4. u = (IF on THEN <<m>> ELSE << >>) /\ (~on /\ dn = << >> => dn = << >>)
        /\ (x # {} \/ g # "idle" => Word(m) = TRUE)
    BY <1>6, <1>7, <2>1
  <2>5. Wired(x, g, on, wa, o \o u, dn)
    BY <1>6, <2>2, <2>3, <2>4, WiredSay
  <2> QED
    BY <1>1, <1>2, <1>10, <2>1, <2>5 DEF WiredOf
<1>17. Leaves(d)
  BY <1>1, <1>10 DEF Leaves, Apart
<1>18. post'.ups = Cardinality(applied')
  BY <1>1 DEF Counted
<1> QED
  BY <1>1, <1>2, <1>12, <1>13, <1>14, <1>15, <1>16, <1>17, <1>18, QuietCounts

(* Puts are restored after the listens: a server that has heard from the   *)
(* phone that it wants to be told of the post gets them.                   *)
LEMMA WiredBack ==
  ASSUME NEW u \in Seq(Messages), NEW o \in Seq(Messages), NEW y, NEW g, NEW w, NEW en,
         \A m \in Elements(o) : ~Speaks(m), \A m \in Elements(u) : m.type # "put",
         \/ Hears(u, Len(u) + 1, w, TRUE)
         \/ (\A m \in Elements(o) : m.type # "put") /\ y = {} /\ g = "idle"
  PROVE  Wired(y, g, TRUE, w, u \o o, en)
<1>1. PICK q : q = u \o o
  OBVIOUS
<1>2. /\ q \in Seq(Messages) /\ Len(u) \in Nat /\ Len(o) \in Nat /\ Len(q) = Len(u) + Len(o)
      /\ \A i \in 1..Len(u) : i \in 1..Len(q) /\ q[i] = u[i]
      /\ \A i \in 1..Len(o) : Len(u) + i \in 1..Len(q) /\ q[Len(u) + i] = o[i]
      /\ \A i \in 1..Len(q) : i \in 1..Len(u) \/ i - Len(u) \in 1..Len(o)
  BY <1>1, ConcatPlaces
<1>3. \A j \in 1..Len(u) : q[j].type # "put"
  BY <1>2 DEF Elements
<1>4. CASE (\A m \in Elements(o) : m.type # "put") /\ y = {} /\ g = "idle"
  <2>1. \A j \in 1..Len(o) : q[Len(u) + j].type # "put"
    BY <1>2, <1>4 DEF Elements
  <2>2. \A j \in 1..Len(q) : q[j].type # "put"
    <3> TAKE j \in 1..Len(q)
    <3>1. CASE j \in 1..Len(u)
      BY <1>3, <3>1
    <3>2. CASE j - Len(u) \in 1..Len(o)
      <4>0. j = Len(u) + (j - Len(u))
        BY <1>2
      <4>1. PICK i \in 1..Len(o) : j = Len(u) + i
        BY <3>2, <4>0
      <4> QED
        BY <2>1, <4>1
    <3> QED
      BY <1>2, <3>1, <3>2
  <2> QED
    BY <1>1, <1>4, <2>2 DEF Wired
<1>5. CASE Hears(u, Len(u) + 1, w, TRUE)
  <2>1. \A i \in 1..(Len(o) + 1) : Hears(q, Len(u) + i, w, TRUE)
    BY <1>1, <1>5, HearsSilence
  <2>2. ASSUME NEW j \in 1..Len(q), q[j].type = "put"
        PROVE  Hears(q, j, w, TRUE)
    <3>1. j - Len(u) \in 1..Len(o)
      BY <1>2, <1>3, <2>2
    <3>0. j = Len(u) + (j - Len(u))
      BY <1>2
    <3>2. PICK i \in 1..Len(o) : j = Len(u) + i
      BY <3>0, <3>1
    <3>3. i \in 1..(Len(o) + 1)
      BY <1>2
    <3> QED
      BY <2>1, <3>2, <3>3
  <2>3. Hears(q, Len(q) + 1, w, TRUE)
    <3>1. Len(o) + 1 \in 1..(Len(o) + 1) /\ Len(q) + 1 = Len(u) + (Len(o) + 1)
      BY <1>2
    <3>2. PICK i \in 1..(Len(o) + 1) : i = Len(o) + 1
      BY <3>1
    <3> QED
      BY <2>1, <3>1, <3>2
  <2> QED
    BY <1>1, <2>2, <2>3 DEF Wired
<1> QED
  BY <1>4, <1>5

(* The listens that are restored.                                          *)
Restored(x, f, u) ==
  /\ u \in Seq(Messages) /\ Straight(f, u)
  /\ \A m \in Elements(u) : Idle(m) /\ (f = "idle" => Asking(m) /\ Opens(m))
  /\ (x = {} /\ f = "idle") \/ \A w : Hears(u, Len(u) + 1, w, TRUE)

(* What they say, and that the server knows by them that the phone listens *)
(* if it does.                                                             *)
LEMMA RestoredFacts ==
  ASSUME NEW x, NEW f \in {"idle", "sent", "answered"},
         NEW u, u = <<Listen("restored")>>
                      \o (IF f = "sent" THEN <<Listen("feed")>>
                          ELSE IF f = "answered" THEN <<Listen("again")>>
                          ELSE IF x # {} THEN <<Listen("post")>> ELSE << >>)
  PROVE  Restored(x, f, u)
<1>1. ASSUME NEW what \in Kinds, NEW m, m = Listen(what)
      PROVE  /\ m \in Messages /\ Idle(m) /\ Asking(m) /\ Carried(m) = {}
             /\ Opens(m) <=> what \in {"post", "restored"}
             /\ Fetches(m) <=> what = "feed"
             /\ Speaks(m) <=> what \notin {"other", "restored"}
             /\ Word(m) = TRUE
             /\ <<m>> \in Seq(Messages) /\ Elements(<<m>>) = {m}
  <2>1. m \in Messages
    BY <1>1 DEF Listen, Messages, Requests
  <2>2. <<m>> \in Seq(Messages) /\ Elements(<<m>>) = {m}
    BY <2>1, One
  <2> QED
    BY <1>1, <2>1, <2>2 DEF Listen, Idle, Carried, Mentioned, Asking, Opens, Fetches, Speaks, Word
<1>2. PICK a : a = Listen("restored")
  OBVIOUS
<1>3. /\ a \in Messages /\ Idle(a) /\ Asking(a) /\ Carried(a) = {} /\ Opens(a) /\ ~Fetches(a)
      /\ <<a>> \in Seq(Messages) /\ Elements(<<a>>) = {a}
  <2>1. PICK what \in Kinds : what = "restored"
    BY DEF Kinds
  <2> QED
    BY <1>1, <1>2, <2>1
<1>4. CASE x = {} /\ f = "idle"
  <2>1. u = <<a>> \o << >>
    BY <1>2, <1>4
  <2>2. u = <<a>>
    <3>1. << >> \in Seq(Messages)
      BY EmptySeq
    <3>2. <<a>> \o << >> = <<a>>
      BY <1>3, <3>1, ConcatEmptySeq
    <3> QED
      BY <2>1, <3>2
  <2>3. Straight(f, <<a>>)
    BY <1>3, StraightOne
  <2> QED
    BY <1>3, <1>4, <2>2, <2>3 DEF Restored
<1>5. CASE ~(x = {} /\ f = "idle")
  <2>1. PICK what \in {"feed", "again", "post"} :
          /\ what = IF f = "sent" THEN "feed" ELSE IF f = "answered" THEN "again" ELSE "post"
    OBVIOUS
  <2>2. PICK b : b = Listen(what)
    OBVIOUS
  <2>3. u = <<a>> \o <<b>>
    BY <1>2, <1>5, <2>1, <2>2
  <2>4. /\ b \in Messages /\ Idle(b) /\ Asking(b) /\ Carried(b) = {} /\ Speaks(b)
        /\ (f = "idle" => Opens(b)) /\ (Fetches(b) => f = "sent") /\ Word(b) = TRUE
        /\ <<b>> \in Seq(Messages) /\ Elements(<<b>>) = {b}
    <3>1. what \in Kinds /\ what \notin {"other", "restored"}
      BY <2>1 DEF Kinds
    <3>2. (f = "idle" => what = "post") /\ (what = "feed" => f = "sent")
      BY <2>1
    <3> QED
      BY <1>1, <2>2, <3>1, <3>2
  <2>5. u \in Seq(Messages) /\ Elements(u) = {a, b}
    <3>1. PICK p, q : p = <<a>> /\ q = <<b>>
      OBVIOUS
    <3>2. p \in Seq(Messages) /\ q \in Seq(Messages)
      BY <1>3, <2>4, <3>1
    <3>3. p \o q \in Seq(Messages) /\ Elements(p \o q) = Elements(p) \cup Elements(q)
      BY <3>2, ElementsConcat
    <3> QED
      BY <1>3, <2>3, <2>4, <3>1, <3>3
  <2>6. Straight(f, u)
    <3>1. Straight(f, <<a>>)
      BY <1>3, StraightOne
    <3>2. Straight(f, <<b>>)
      BY <2>4, AfterEmpty DEF Straight, Early, Fetched
    <3>3. \A m \in Elements(<<a>>), n \in Elements(<<b>>) :
            /\ Carried(m) # {} => ~Opens(n)
            /\ ~(Fetches(m) /\ Fetches(n))
      BY <1>3
    <3>4. Straight(f, <<a>> \o <<b>>)
      BY <1>3, <2>4, <3>1, <3>2, <3>3, StraightConcat
    <3> QED
      BY <2>3, <3>4
  <2>7. \A w : Hears(u, Len(u) + 1, w, TRUE)
    <3> TAKE w
    <3>1. PICK n : n = Len(<<a>>) + 1
      OBVIOUS
    <3>2. Append(<<a>>, b) = u
      BY <1>3, <2>3, <2>4, AppendIsConcat
    <3>3. Len(u) = n
      BY <1>3, <2>4, <3>1, <3>2
    <3>4. PICK p : p = <<a>>
      OBVIOUS
    <3>5. Hears(Append(p, b), n + 1, w, TRUE)
      BY <1>3, <2>4, <3>1, <3>4, HearsNext
    <3> QED
      BY <3>2, <3>3, <3>4, <3>5
  <2> QED
    BY <1>3, <2>4, <2>5, <2>6, <2>7 DEF Restored
<1> QED
  BY <1>4, <1>5

(* The connection is back.                                                 *)
LEMMA ConnectCounts ==
  ASSUME IInv, IInv', Counted, NEW d \in Devices, Connect(d)
  PROVE  Counted'
<1>1. /\ txn' = txn /\ queue' = queue /\ writes' = writes /\ written' = written
      /\ cache' = cache /\ watch' = watch /\ applied' = applied /\ feed' = feed
      /\ post' = post /\ down' = down /\ held' = held /\ todo' = todo
      /\ online' = [online EXCEPT ![d] = TRUE] /\ ~online[d]
  BY DEF Connect, client, bounds, history
<1>2. PICK s, l, r, k, x, f, o, ap, w :
        /\ s = State(d) /\ l = LineOf(d) /\ r = State(d)' /\ k = LineOf(d)'
        /\ x = UnderWay(txn, d) /\ f = feed[d] /\ o = outbox[d] /\ ap = applied /\ w = written
  OBVIOUS
<1>3. /\ s \in Phone /\ l \in Line /\ Sound(d, s, l, ap, w) /\ Paced(d, s, l, w)
      /\ s.txn = txn /\ s.feed = f /\ s.cache = cache[d]
      /\ l.dn = down[d] /\ l.hd = held[d] /\ l.td = todo[d] /\ Asks(s, l) = o
  BY <1>2, PhoneFacts
<1>4. /\ r \in Phone /\ k \in Line /\ r.txn = txn' /\ r.cache = cache'[d]
      /\ r.feed = feed'[d] /\ Asks(r, k) = outbox'[d]
      /\ k.dn = down'[d] /\ k.hd = held'[d] /\ k.td = todo'[d]
  BY <1>2, NextFacts
<1>5. PICK u :
        u = <<Listen("restored")>>
              \o (IF f = "sent" THEN <<Listen("feed")>>
                  ELSE IF f = "answered" THEN <<Listen("again")>>
                  ELSE IF x # {} THEN <<Listen("post")>> ELSE << >>)
  OBVIOUS
<1>6. Restored(x, f, u)
  <2>1. f \in {"idle", "sent", "answered"}
    BY <1>2 DEF IInv, Shape
  <2> QED
    BY <1>5, <2>1, RestoredFacts
<1>7. o \in Seq(Messages) /\ \A m \in Elements(u) : Idle(m)
  BY <1>3, <1>6, Places DEF Restored
<1>8. /\ outbox'[d] = u \o o /\ online'[d] = TRUE
      /\ \A e \in Devices : e # d => outbox'[e] = outbox[e] /\ online'[e] = online[e]
  <2>1. /\ outbox \in [Devices -> Seq(Requests)] /\ d \in Devices
        /\ online \in [Devices -> BOOLEAN]
    BY DEF IInv, Shape
  <2>2. outbox' = [outbox EXCEPT ![d] =
                     <<Listen("restored")>>
                       \o (IF f = "sent" THEN <<Listen("feed")>>
                           ELSE IF f = "answered" THEN <<Listen("again")>>
                           ELSE IF x # {} THEN <<Listen("post")>> ELSE << >>)
                       \o @]
    BY <1>2 DEF Connect
  <2>3. outbox' = [outbox EXCEPT ![d] = u \o @]
    BY <1>5, <2>2
  <2> QED
    BY <1>1, <1>2, <2>1, <2>3
<1>9. down[d] = << >> /\ ~watch[d] /\ \A m \in Elements(o) : ~Speaks(m)
  <2>1. WiredOf(d)
    BY DEF Counted, PacedOf
  <2> QED
    BY <1>1, <1>2, <2>1 DEF WiredOf, Wired
<1>10. /\ Road(s, l) = o /\ Road(r, k) = u \o o
  <2>1. u \o o \in Seq(Messages)
    BY <1>6, <1>7, ElementsConcat DEF Restored
  <2>2. << >> \o o = o /\ << >> \o (u \o o) = u \o o
    BY <1>7, <2>1, ConcatEmptySeq
  <2> QED
    BY <1>1, <1>3, <1>4, <1>8, <1>9, <2>2 DEF Road
<1>11. Follows(Path(r, k), Path(s, l))
  <2>1. Follows(u \o o, o)
    <3>1. u \in Seq(Messages)
      BY <1>6 DEF Restored
    <3> QED
      BY <1>7, <3>1, FollowsMore
  <2>2. Follows(Road(r, k), Road(s, l)) /\ k.hd = l.hd /\ k.td = l.td
    BY <1>1, <1>3, <1>4, <1>10, <2>1
  <2> QED
    BY <1>3, <1>4, <2>2, RoadPath
<1>12. Resting(d, s, l, r, k)
  <2> SUFFICES ASSUME Rests(d, s, l), Running(s) # {}
               PROVE  /\ r.feed = "idle"
                      /\ \A m \in Elements(Road(r, k)) : Asking(m) => Opens(m)
                      /\ \A m \in Elements(k.hd) : Carried(m) = {}
                      /\ \A m \in Elements(k.td) : Carried(m) # {} => m.status = "disconnect"
    BY DEF Resting
  <2>1. r.feed = "idle" /\ k.hd = l.hd /\ k.td = l.td /\ f = "idle"
    BY <1>1, <1>2, <1>3, <1>4 DEF Rests
  <2>2. Elements(u \o o) = Elements(u) \cup Elements(o)
    BY <1>6, <1>7, ElementsConcat DEF Restored
  <2>3. \A m \in Elements(Road(r, k)) : Asking(m) => Opens(m)
    BY <1>6, <1>10, <2>1, <2>2 DEF Restored, Rests
  <2> QED
    BY <2>1, <2>3 DEF Rests
<1>13. Straight(r.feed, Road(r, k))
  <2>1. Straight(f, o) /\ Straight(f, u) /\ u \in Seq(Messages)
    BY <1>3, <1>6, <1>10 DEF Paced, Steady, Restored
  <2>2. \A m \in Elements(u), n \in Elements(o) :
          /\ Carried(m) # {} => ~Opens(n)
          /\ ~(Fetches(m) /\ Fetches(n))
    <3>1. \A n \in Elements(o) : ~Fetches(n)
      BY <1>9 DEF Fetches, Speaks
    <3> QED
      BY <1>7, <3>1 DEF Idle
  <2>3. Straight(f, u \o o)
    BY <1>7, <2>1, <2>2, StraightConcat
  <2> QED
    BY <1>1, <1>2, <1>4, <1>10, <2>3
<1>14. Heard(r, k.dn)
  <2>1. k.dn = << >>
    BY <1>1, <1>4, <1>9
  <2> QED
    BY <2>1 DEF Heard
<1>15. WiredOf(d)'
  <2>1. PICK wa, dn : wa = watch[d] /\ dn = down[d]
    OBVIOUS
  <2>2. \/ Hears(u, Len(u) + 1, wa, TRUE)
        \/ (\A m \in Elements(o) : m.type # "put") /\ x = {} /\ f = "idle"
    <3>1. CASE x = {} /\ f = "idle"
      <4>1. UnderWay(s.txn, d) = {}
        BY <1>2, <1>3, <3>1
      <4>2. /\ \A m \in Elements(Path(s, l)) : Carried(m) = {}
            /\ \A z : Heard(z, l.dn)
        BY <1>3, <4>1, HeardNothing
      <4>3. Elements(o) \subseteq Elements(Path(s, l))
        BY <1>3, Places DEF Everywhere
      <4>4. ASSUME NEW m \in Elements(o), m.type = "put"
            PROVE  FALSE
        <5>1. RightMessage(d, m, s, ap)
          BY <1>3 DEF Sound, Carries, RightMessages
        <5>2. m \in Messages
          BY <1>7, ElementsFacts
        <5>3. Carried(m) # {}
          BY <4>4, <5>1, <5>2, PutCarries
        <5> QED
          BY <4>2, <4>3, <5>3
      <4> QED
        BY <3>1, <4>4
    <3>2. CASE \A z : Hears(u, Len(u) + 1, z, TRUE)
      BY <3>2
    <3> QED
      BY <1>6, <3>1, <3>2 DEF Restored
  <2>3. \A m \in Elements(u) : m.type # "put"
    BY <1>7 DEF Idle
  <2>4. Wired(x, f, TRUE, wa, u \o o, dn)
    BY <1>6, <1>7, <1>9, <2>2, <2>3, WiredBack DEF Restored
  <2> QED
    BY <1>1, <1>2, <1>8, <2>1, <2>4 DEF WiredOf
<1>16. Leaves(d)
  BY <1>1, <1>8 DEF Leaves, Apart
<1>17. post'.ups = Cardinality(applied')
  BY <1>1 DEF Counted
<1> QED
  BY <1>1, <1>2, <1>11, <1>12, <1>13, <1>14, <1>15, <1>16, <1>17, QuietCounts

(* A put that has not been answered is under way, and the answer made up   *)
(* for it when the connection breaks is like it.                           *)
LEMMA LostLike ==
  ASSUME NEW d, NEW s \in Phone, NEW l \in Line, NEW ap, NEW w, Sound(d, s, l, ap, w),
         NEW b \in Elements(s.unanswered), NEW a, a = Reply(b, "disconnect")
  PROVE  /\ \E m \in Elements(Path(s, l)) : Like(a, m)
         /\ Mentioned(a) = {} /\ a.type = "reply" /\ a.status = "disconnect"
<1>1. /\ b \in Seq(Nat) /\ b # << >> /\ Elements(b) \subseteq Of(s.txn, d)
  <2>1. s.unanswered \in Seq(Seq(Nat))
    BY DEF Phone
  <2>2. b \in Seq(Nat)
    BY <2>1, ElementsFacts
  <2> QED
    BY <2>2 DEF Sound, Carries
<1>2. Elements(b) \subseteq Nat /\ Elements(b) # {} /\ Elements(b) \cap Comments = {}
  BY <1>1, ElementsFacts, NoComment
<1>3. /\ a.type = "reply" /\ a.status = "disconnect" /\ a.what = b
  BY <1>1 DEF Reply
<1>4. Carried(a) = Elements(b) /\ Mentioned(a) = {} /\ Content(a) = b
  BY <1>2, <1>3 DEF Carried, Mentioned, Content
<1>5. PICK t : t \in Elements(b) /\ t \in Of(s.txn, d)
  BY <1>1, <1>2
<1>6. ~Unasked(t, s.unanswered)
  BY <1>5 DEF Unasked
<1>7. Somewhere(t, s, l)
  BY <1>5, <1>6 DEF Sound, Placed, Nowhere
<1>8. \E q : /\ q = Asks(s, l) \/ q = l.dn
             /\ \E m \in Elements(q) : t \in Carried(m)
  <2>1. InAsks(t, s, l) \/ InNotices(t, s, l)
    BY <1>6, <1>7 DEF Somewhere, InHeld, InTodo
  <2> QED
    BY <2>1 DEF InAsks, InNotices, Once, Elements
<1>9. PICK q, m : /\ q = Asks(s, l) \/ q = l.dn
                  /\ m \in Elements(q) /\ t \in Carried(m)
  BY <1>8
<1>10. Linked(q, s.unanswered) /\ RightMessage(d, m, s, ap)
  BY <1>9 DEF Sound, Noted, Carries, RightMessages
<1>11. m \in Elements(Path(s, l)) /\ m \in Messages
  <2>1. /\ Elements(Path(s, l)) = Everywhere(s, l) /\ Path(s, l) \in Seq(Messages)
    BY Places
  <2>2. m \in Elements(Path(s, l))
    BY <1>9, <2>1 DEF Everywhere
  <2> QED
    BY <2>1, <2>2, ElementsFacts
<1>12. b = Content(m)
  BY <1>5, <1>9, <1>10 DEF Linked
<1>13. Carried(m) = Elements(Content(m))
  <2>1. Carried(m) # {}
    BY <1>9
  <2> QED
    BY <1>10, <1>11, <2>1, ResultIn
<1>14. Like(a, m)
  BY <1>3, <1>4, <1>12, <1>13 DEF Like
<1> QED
  BY <1>3, <1>4, <1>11, <1>14

(* What a broken connection leaves: the answers made up, those kept back,  *)
(* and the comments that will be sent again.                               *)
LEMMA CutPaced ==
  ASSUME NEW d, NEW s \in Phone, NEW l \in Line, NEW ap, NEW w, Sound(d, s, l, ap, w),
         Paced(d, s, l, w), l.td = << >>,
         NEW r \in Phone, r.queue = s.queue, r.writes = s.writes, r.txn = s.txn,
         r.feed = s.feed,
         NEW k \in Line, k.dn = << >>, k.hd = l.hd, k.td = Lost(s.unanswered),
         \A m \in Elements(Asks(r, k)) : m.type = "set" /\ m.comment \in Remarks(s)
  PROVE  Paced(d, r, k, w)
<1>1. PICK p, q, o, h, g :
        p = Path(s, l) /\ q = Path(r, k) /\ o = Asks(r, k) /\ h = l.hd /\ g = k.td
  OBVIOUS
<1>2. /\ o \in Seq(Messages) /\ h \in Seq(Messages) /\ g \in Seq(Messages)
      /\ p \in Seq(Messages)
  BY <1>1, Places
<1>3. Steady(s, l, w) /\ Ordered(s, p, w) /\ Listed(d, s, w)
  BY <1>1 DEF Paced, Steady, Sound
<1>4. Road(r, k) = o /\ q = g \o (h \o o) /\ h \o o \in Seq(Messages)
  <2>1. << >> \o o = o
    BY <1>2, ConcatEmptySeq
  <2>2. Road(r, k) = o
    BY <1>1, <2>1 DEF Road
  <2> QED
    BY <1>1, <1>2, <2>2, ElementsConcat DEF Path
<1>5. \A m \in Elements(o) :
        /\ Carried(m) = {} /\ m.type = "set" /\ Mentioned(m) \subseteq Remarks(s)
        /\ ~Asking(m)
  BY <1>1 DEF Carried, Mentioned, Asking
<1>6. \A m \in Elements(g) :
        /\ \E n \in Elements(p) : Like(m, n)
        /\ Mentioned(m) = {} /\ m.type = "reply" /\ m.status = "disconnect"
  <2>1. s.unanswered \in Seq(Seq(Nat)) /\ 0 \notin Comments
    BY NoComment DEF Phone
  <2>2. Elements(g) = {Reply(b, "disconnect") : b \in Elements(s.unanswered)}
    BY <1>1, <2>1, LostFacts
  <2> TAKE m \in Elements(g)
  <2>3. PICK b \in Elements(s.unanswered) : m = Reply(b, "disconnect")
    BY <2>2
  <2>4. /\ \E n \in Elements(Path(s, l)) : Like(m, n)
        /\ Mentioned(m) = {} /\ m.type = "reply" /\ m.status = "disconnect"
    BY ZenonT(30), <2>3, LostLike
  <2> QED
    BY <1>1, <2>4
<1>7. Elements(q) = Elements(g) \cup (Elements(h) \cup Elements(o))
  <2>1. PICK z : z = h \o o
    OBVIOUS
  <2>2. z \in Seq(Messages) /\ Elements(z) = Elements(h) \cup Elements(o)
    BY <1>2, <2>1, ElementsConcat
  <2>3. q = g \o z
    BY <1>4, <2>1
  <2>4. Elements(q) = Elements(g) \cup Elements(z)
    BY <1>2, <2>2, <2>3, ElementsConcat
  <2> QED
    BY <2>2, <2>4
<1>8. /\ Elements(h) \subseteq Elements(p)
      /\ \A x, y : After(h, x, y) => After(p, x, y)
  <2>1. PICK z : z = Road(s, l)
    OBVIOUS
  <2>2. z \in Seq(Messages)
    BY <2>1, Places
  <2>3. p = h \o z
    <3>1. h \o z \in Seq(Messages)
      BY <1>2, <2>2, ElementsConcat
    <3>2. << >> \o (h \o z) = h \o z
      BY <3>1, ConcatEmptySeq
    <3> QED
      BY <1>1, <2>1, <3>2 DEF Path
  <2>4. Elements(p) = Elements(h) \cup Elements(z)
    BY <1>2, <2>2, <2>3, ElementsConcat
  <2>5. \A x, y : After(h, x, y) => After(h \o z, x, y)
    BY <1>2, <2>2, AfterConcat
  <2> QED
    BY <2>3, <2>4, <2>5
<1>9. \A m \in Elements(q) : Carried(m) # {} =>
        \E n \in Elements(p) : Carried(n) = Carried(m) /\ Content(n) = Content(m)
  BY <1>5, <1>6, <1>7, <1>8 DEF Like
<1>10. \A m \in Elements(q) : Touches(m, r) =>
         \E n \in Elements(p) : Touches(n, s) /\ Result(n) = Result(m)
  <2>1. \A m : Touches(m, r) => Carried(m) # {}
    BY DEF Touches
  <2> QED
    BY <1>9, <2>1 DEF Touches, Result
<1>11. Running(r) = Running(s) /\ Remarks(r) = Remarks(s) /\ Outstanding(r) = Outstanding(s)
  BY DEF Running, Remarks, Outstanding
<1>12. OnTop(r, q)
  <2>1. OnTop(s, p)
    BY <1>3 DEF Ordered
  <2> QED
    BY <1>10, <1>11, <2>1 DEF OnTop
<1>13. \A x, y : After(q, x, y) /\ Carried(y) # {} /\ Mentioned(x) # {} => After(p, x, y)
  <2> SUFFICES ASSUME NEW x, NEW y, After(q, x, y), Carried(y) # {}, Mentioned(x) # {}
               PROVE  After(p, x, y)
    OBVIOUS
  <2>1. x \notin Elements(g)
    BY <1>6
  <2>2. y \notin Elements(o)
    BY <1>5
  <2>3. PICK z : z = h \o o
    OBVIOUS
  <2>4. After(g, x, y) \/ After(z, x, y)
    BY <1>2, <1>4, <2>1, <2>3, AfterConcat
  <2>5. After(z, x, y)
    BY <2>1, <2>4, AfterIn
  <2>6. After(h, x, y) \/ After(o, x, y)
    BY <1>2, <2>2, <2>3, <2>5, AfterConcat
  <2>7. After(h, x, y)
    BY <2>2, <2>6, AfterIn
  <2> QED
    BY <1>8, <2>7
<1>14. Ahead(r, q)
  <2>1. Ahead(s, p)
    BY <1>3 DEF Ordered
  <2> SUFFICES ASSUME NEW x, NEW y, After(q, x, y), Carried(y) # {}
               PROVE  Mentioned(x) \cap Remarks(r) \subseteq r.txn[Result(y)].out.comments
    BY DEF Ahead
  <2>2. CASE Mentioned(x) = {}
    BY <2>2
  <2>3. CASE Mentioned(x) # {}
    <3>1. After(p, x, y)
      BY <1>13, <2>3
    <3>2. Mentioned(x) \cap Remarks(s) \subseteq s.txn[Result(y)].out.comments
      BY <2>1, <3>1 DEF Ahead
    <3> QED
      BY <1>11, <3>2
  <2> QED
    BY <2>2, <2>3
<1>15. Mentions(q, w)
  <2>1. Mentions(p, w)
    BY <1>3 DEF Ordered
  <2>2. Remarks(s) \subseteq w
    BY <1>3 DEF Listed, Remarks
  <2> QED
    BY <1>5, <1>6, <1>7, <1>8, <2>1, <2>2 DEF Mentions
<1>16. Computed(r, q)
  <2>1. Computed(s, p)
    BY <1>3 DEF Ordered
  <2>2. \A m \in Elements(q) : m.type = "put" => m \in Elements(p)
    BY <1>5, <1>6, <1>7, <1>8
  <2> QED
    BY <2>1, <2>2 DEF Computed
<1>17. Ordered(r, q, w)
  BY <1>12, <1>14, <1>15, <1>16 DEF Ordered
<1>18. Straight(r.feed, Road(r, k))
  <2>1. \A m \in Elements(o) : ~Opens(m) /\ ~Fetches(m)
    BY <1>5 DEF Opens, Fetches
  <2>2. \A x, y : After(o, x, y) => ~Opens(y) /\ ~Fetches(y)
    BY <2>1, AfterIn
  <2> QED
    BY <1>4, <2>1, <2>2 DEF Straight, Early, Fetched
<1>19. Heard(r, k.dn)
  BY DEF Heard
<1>20. Steady(r, k, w)
  BY <1>1, <1>3, <1>17, <1>18, <1>19 DEF Steady, Known
<1>21. Patient(d, r, k)
  <2> SUFFICES ASSUME Rests(d, s, l)
               PROVE  Rests(d, r, k)
    BY <1>11 DEF Paced, Patient
  <2>1. \A m \in Elements(Road(r, k)) : Asking(m) => Opens(m)
    BY <1>4, <1>5
  <2>2. \A m \in Elements(k.hd) : Carried(m) = {}
    BY DEF Rests
  <2>3. \A m \in Elements(k.td) : Carried(m) # {} => m.status = "disconnect"
    BY <1>1, <1>6
  <2>4. \A m \in Elements(Path(r, k)) : Touches(m, r) =>
          r.txn[Final(r.queue)].out
            = Plus(With(r.txn[Result(m)].out, Remarks(r)), Cardinality(Running(r)))
    <3> SUFFICES ASSUME NEW m \in Elements(q), Touches(m, r)
                 PROVE  s.txn[Final(s.queue)].out
                          = Plus(With(s.txn[Result(m)].out, Remarks(s)), Cardinality(Running(s)))
      BY <1>1, <1>11
    <3>1. PICK n \in Elements(p) : Touches(n, s) /\ Result(n) = Result(m)
      BY <1>10
    <3>2. s.txn[Final(s.queue)].out
            = Plus(With(s.txn[Result(n)].out, Remarks(s)), Cardinality(Running(s)))
      BY <1>1, <3>1 DEF Rests
    <3> QED
      BY <3>1, <3>2
  <2> QED
    BY <2>1, <2>2, <2>3, <2>4 DEF Rests
<1> QED
  BY <1>20, <1>21 DEF Paced

(* The connection is lost.                                                 *)
LEMMA DisconnectCounts ==
  ASSUME IInv, IInv', Counted, NEW d \in Devices, Disconnect(d)
  PROVE  Counted'
<1>1. /\ txn' = txn /\ queue' = queue /\ writes' = writes /\ written' = written
      /\ applied' = applied /\ held' = held /\ cache' = cache
      /\ post' = post /\ feed' = feed /\ todo[d] = << >>
  BY DEF Disconnect, client, history, Free
<1>2. PICK s, l, r, k, x, o, g, ap, w :
        /\ s = State(d) /\ l = LineOf(d) /\ r = State(d)' /\ k = LineOf(d)' /\ x = Kept(d)
        /\ o = [i \in 1..Len(x) |-> [type |-> "set", comment |-> x[i]]]
        /\ g = Lost(unanswered[d]) /\ ap = applied /\ w = written
  OBVIOUS
<1>3. /\ s \in Phone /\ l \in Line /\ Sound(d, s, l, ap, w) /\ Paced(d, s, l, w)
      /\ s.txn = txn /\ s.queue = queue[d] /\ s.writes = writes[d] /\ s.feed = feed[d]
      /\ s.unanswered = unanswered[d] /\ l.hd = held[d] /\ l.td = todo[d]
  BY <1>2, PhoneFacts
<1>4. /\ r \in Phone /\ k \in Line /\ r.txn = txn' /\ r.queue = queue'[d]
      /\ r.writes = writes'[d] /\ r.feed = feed'[d] /\ Asks(r, k) = outbox'[d]
      /\ k.dn = down'[d] /\ k.hd = held'[d] /\ k.td = todo'[d]
  BY <1>2, NextFacts
<1>5. /\ outbox'[d] = o /\ todo'[d] = g /\ down'[d] = << >>
      /\ watch'[d] = FALSE /\ online'[d] = FALSE
      /\ \A e \in Devices : e # d =>
           /\ outbox'[e] = outbox[e] /\ todo'[e] = todo[e] /\ down'[e] = down[e]
           /\ watch'[e] = watch[e] /\ online'[e] = online[e]
  <2>1. /\ outbox \in [Devices -> Seq(Requests)] /\ todo \in [Devices -> Seq(Answers)]
        /\ down \in [Devices -> Seq(Notices)] /\ watch \in [Devices -> BOOLEAN]
        /\ online \in [Devices -> BOOLEAN] /\ d \in Devices
    BY DEF IInv, Shape
  <2>2. /\ outbox' = [outbox EXCEPT ![d] = o] /\ todo' = [todo EXCEPT ![d] = g]
        /\ down' = [down EXCEPT ![d] = << >>]
        /\ watch' = [watch EXCEPT ![d] = FALSE] /\ online' = [online EXCEPT ![d] = FALSE]
    BY <1>2 DEF Disconnect, Lost
  <2> QED
    BY <2>1, <2>2
<1>6. Elements(x) \subseteq Remarks(s)
  <2>1. PICK S, v, keep : /\ S = Nat \cup Comments /\ v = writes[d]
          /\ keep = {c \in Comments : \A i \in 1..Len(held[d]) : held[d][i].what # <<c>>}
    OBVIOUS
  <2>2. v \in Seq(S) /\ x = Only(v, keep)
    BY <1>2, <2>1 DEF IInv, Shape, Kept
  <2>3. x \in Seq(S) /\ Elements(x) = Elements(v) \cap keep
    BY <2>2, ElementsOnly
  <2> QED
    BY <1>3, <2>1, <2>3 DEF Remarks
<1>7. \A m \in Elements(o) : m.type = "set" /\ m.comment \in Remarks(s)
  <2>1. o \in Seq(Requests) /\ Asks(r, k) \in Seq(Requests)
    BY <1>4, <1>5, Places
  <2>2. x \in Seq(Nat \cup Comments)
    <3>1. PICK S, v, keep : /\ S = Nat \cup Comments /\ v = writes[d]
            /\ keep = {c \in Comments : \A i \in 1..Len(held[d]) : held[d][i].what # <<c>>}
      OBVIOUS
    <3>2. v \in Seq(S) /\ x = Only(v, keep)
      BY <1>2, <3>1 DEF IInv, Shape, Kept
    <3>3. x \in Seq(S) /\ Elements(x) = Elements(v) \cap keep
      BY <3>2, ElementsOnly
    <3> QED
      BY <3>1, <3>3
  <2>3. Len(x) \in Nat /\ Len(o) \in Nat
    BY <2>1, <2>2
  <2>4. DOMAIN o = 1..Len(x) /\ DOMAIN o = 1..Len(o)
    BY <1>2, <2>1
  <2>5. Len(o) = Len(x)
    BY <2>3, <2>4
  <2> QED
    BY <1>2, <1>6, <2>5 DEF Elements
<1>8. Paced(d, r, k, w)
  <2>1. /\ r.queue = s.queue /\ r.writes = s.writes /\ r.txn = s.txn /\ r.feed = s.feed
        /\ k.dn = << >> /\ k.hd = l.hd /\ k.td = Lost(s.unanswered) /\ l.td = << >>
    BY <1>1, <1>2, <1>3, <1>4, <1>5
  <2>2. \A m \in Elements(Asks(r, k)) : m.type = "set" /\ m.comment \in Remarks(s)
    BY <1>4, <1>5, <1>7
  <2> QED
    BY <1>3, <1>4, <2>1, <2>2, CutPaced
<1>9. WiredOf(d)'
  <2>1. \A m \in Elements(o) : ~Speaks(m)
    BY <1>7 DEF Speaks, Asking
  <2> QED
    BY <1>5, <2>1 DEF WiredOf, Wired
<1>10. PacedOf(d)'
  BY <1>1, <1>2, <1>8, <1>9 DEF PacedOf
<1>11. Leaves(d)
  BY <1>1, <1>5 DEF Leaves, Apart
<1>12. post'.ups = Cardinality(applied')
  BY <1>1 DEF Counted
<1> QED
  BY <1>10, <1>11, <1>12, OthersPaced

-----------------------------------------------------------------------------
(* The invariant, from the beginning on.                                   *)

(* In the beginning nothing is counted and nothing on its way.             *)
LEMMA InitCounted == Init => Counted
<1> SUFFICES ASSUME Init PROVE Counted
  OBVIOUS
<1>1. post.ups = Cardinality(applied)
  <2>1. post.ups = 0 /\ applied = {}
    BY DEF Init
  <2> QED
    BY <2>1, FS_EmptySet
<1>2. ASSUME NEW d \in Devices
      PROVE  PacedOf(d)
  <2>1. PICK s, l, w : s = State(d) /\ l = LineOf(d) /\ w = written
    OBVIOUS
  <2>2. /\ s.queue = << >> /\ s.writes = << >> /\ s.txn = << >> /\ s.puts = << >>
        /\ l.ob = << >> /\ l.dn = << >> /\ l.hd = << >> /\ l.td = << >>
    BY <2>1 DEF Init, State, LineOf
  <2>3. Elements(<< >>) = {} /\ Len(<< >>) = 0 /\ << >> \o << >> = << >>
    BY ElementsFacts, EmptySeq, ConcatEmptySeq
  <2>4. Asks(s, l) = << >> /\ Road(s, l) = << >> /\ Path(s, l) = << >>
    BY <2>2, <2>3 DEF Asks, Road, Path
  <2>5. \A x, y : ~After(<< >>, x, y)
    BY AfterEmpty
  <2>6. Distinct(s.queue) /\ Known(s) /\ Heard(s, l.dn)
    BY <2>2, <2>3, <2>5 DEF Distinct, Known, Heard
  <2>7. Ordered(s, Path(s, l), w)
    BY <2>3, <2>4, <2>5 DEF Ordered, OnTop, Ahead, Mentions, Computed
  <2>8. Straight(s.feed, Road(s, l))
    BY <2>4, StraightOne
  <2>9. Running(s) = {}
    BY <2>2, <2>3 DEF Running
  <2>10. Paced(d, s, l, w)
    BY <2>6, <2>7, <2>8, <2>9 DEF Paced, Steady, Patient
  <2>11. WiredOf(d)
    <3>1. /\ UnderWay(txn, d) = {} /\ feed[d] = "idle" /\ online[d] = TRUE
          /\ outbox[d] = << >>
      BY <2>3 DEF Init, UnderWay
    <3>2. Len(outbox[d]) = 0
      BY <2>3, <3>1
    <3> QED
      BY <3>1, <3>2 DEF WiredOf, Wired
  <2> QED
    BY <2>1, <2>10, <2>11 DEF PacedOf
<1> QED
  BY <1>1, <1>2 DEF Counted

(* A step that changes nothing keeps the invariant.                        *)
LEMMA StutterCounts ==
  ASSUME Counted, UNCHANGED vars
  PROVE  Counted'
<1>1. /\ post' = post /\ watch' = watch /\ cache' = cache /\ queue' = queue
      /\ writes' = writes /\ txn' = txn /\ feed' = feed /\ online' = online
      /\ outbox' = outbox /\ down' = down /\ unanswered' = unanswered /\ held' = held
      /\ todo' = todo /\ written' = written /\ applied' = applied
  BY DEF vars, client, network, bounds, history
<1>2. ASSUME NEW d \in Devices
      PROVE  PacedOf(d)'
  <2>1. State(d)' = State(d) /\ LineOf(d)' = LineOf(d) /\ WiredOf(d)' = WiredOf(d)
    BY <1>1 DEF State, LineOf, WiredOf
  <2> QED
    BY <1>1, <2>1 DEF Counted, PacedOf
<1> QED
  BY <1>1, <1>2 DEF Counted

(* Once crowded, always crowded.                                           *)
LEMMA CrowdedStays ==
  ASSUME [Next]_vars, crowded
  PROVE  crowded'
<1>1. CASE UNCHANGED vars
  BY <1>1 DEF vars, history
<1>2. ASSUME NEW d \in Devices, App(d)
      PROVE  crowded'
  BY <1>2 DEF App, Start, SetComment, ReadFeed, ListenElsewhere, history
<1>3. ASSUME NEW d \in Devices, Server(d)
      PROVE  crowded'
  BY <1>3 DEF Server, AnswerListen, AnswerUnlisten, AcceptPut, RefusePut, StoreComment, history
<1>4. ASSUME NEW d \in Devices, Client(d)
      PROVE  crowded'
  BY <1>4 DEF Client, DeliverUpdate, DeliverValue, DeliverFeed, EndRead, HoldReply, HandleSet,
              HandlePut, history
<1>5. ASSUME NEW d \in Devices, Connect(d) \/ Disconnect(d) \/ RefuseComment(d)
      PROVE  crowded'
  BY <1>5 DEF Connect, Disconnect, RefuseComment, history
<1> QED
  BY <1>1, <1>2, <1>3, <1>4, <1>5 DEF Next

(* The invariant holds in the beginning.                                   *)
LEMMA InitCInv == Init => CInv
BY InitIInv, InitCounted DEF CInv

(* Every step keeps the invariant.                                         *)
LEMMA NextCInv == CInv /\ [Next]_vars => CInv'
<1> SUFFICES ASSUME CInv, [Next]_vars PROVE CInv'
  OBVIOUS
<1>1. IInv /\ IInv'
  BY NextIInv DEF CInv
<1> SUFFICES ASSUME ~crowded' PROVE Counted'
  BY <1>1 DEF CInv
<1>2. Counted
  BY CrowdedStays DEF CInv
<1>3. CASE UNCHANGED vars
  BY <1>2, <1>3, StutterCounts
<1>4. ASSUME NEW d \in Devices, App(d)
      PROVE  Counted'
  BY <1>1, <1>2, <1>4, StartCounts, SetCommentCounts, ReadFeedCounts, ListenElsewhereCounts
     DEF App
<1>5. ASSUME NEW d \in Devices, Server(d)
      PROVE  Counted'
  BY <1>1, <1>2, <1>5, AnswerListenCounts, AnswerUnlistenCounts, AcceptPutCounts,
     RefusePutCounts, StoreCommentCounts DEF Server
<1>6. ASSUME NEW d \in Devices, Client(d)
      PROVE  Counted'
  <2>1. CASE DeliverUpdate(d) \/ DeliverValue(d) \/ DeliverFeed(d) \/ EndRead(d)
    BY <1>1, <1>2, <2>1, DeliverUpdateCounts, DeliverValueCounts, DeliverFeedCounts,
       EndReadCounts
  <2>2. CASE HoldReply(d) \/ HandleSet(d) \/ HandlePut(d)
    BY <1>1, <1>2, <2>2, HoldReplyCounts, HandleSetCounts, HandlePutCounts
  <2> QED
    BY <1>6, <2>1, <2>2 DEF Client
<1>7. ASSUME NEW d \in Devices, Connect(d) \/ Disconnect(d) \/ RefuseComment(d)
      PROVE  Counted'
  BY <1>1, <1>2, <1>7, ConnectCounts, DisconnectCounts, RefuseCommentCounts
<1> QED
  BY <1>3, <1>4, <1>5, <1>6, <1>7 DEF Next

(* Unless it is crowded, what phones have computed, what they are told and *)
(* what is on its way agree in every reachable state.                      *)
THEOREM Paces == Spec => []CInv
<1>1. Init => CInv
  BY InitCInv
<1>2. CInv /\ [Next]_vars => CInv'
  BY NextCInv
<1> QED
  BY <1>1, <1>2, PTL DEF Spec

(* The counter is the number of transactions that the server accepted,     *)
(* however attempts, lost answers, reads and comments interleave, unless   *)
(* it is crowded.                                                          *)
THEOREM CountHolds == Spec => []CountIsWhole
<1>1. CInv => CountIsWhole
  BY DEF CInv, Counted, CountIsWhole, EveryCommitCounts
<1> QED
  BY <1>1, Paces, PTL

(* A step of a phone that is not crowded takes no comment away.            *)
LEMMA StepKeepsComments ==
  ASSUME CInv, [Next]_vars
  PROVE  [post.comments \subseteq post'.comments \/ crowded]_vars
<1> SUFFICES ASSUME ~crowded PROVE post.comments \subseteq post'.comments
  OBVIOUS
<1>1. IInv /\ Counted /\ post \in Node
  BY DEF CInv, IInv, Shape
<1>2. CASE UNCHANGED vars
  BY <1>2 DEF vars
<1>3. ASSUME NEW d \in Devices, App(d)
      PROVE  post.comments \subseteq post'.comments
  BY <1>3 DEF App, Start, SetComment, ReadFeed, ListenElsewhere
<1>4. ASSUME NEW d \in Devices, Client(d)
      PROVE  post.comments \subseteq post'.comments
  BY <1>4 DEF Client, DeliverUpdate, DeliverValue, DeliverFeed, EndRead, HoldReply, HandleSet,
              HandlePut
<1>5. ASSUME NEW d \in Devices, Connect(d) \/ Disconnect(d) \/ RefuseComment(d)
      PROVE  post.comments \subseteq post'.comments
  BY <1>5 DEF Connect, Disconnect, RefuseComment
<1>6. ASSUME NEW d \in Devices, AcceptPut(d)
      PROVE  post.comments \subseteq post'.comments
  <2>1. PICK h : h = Head(outbox[d])
    OBVIOUS
  <2>2. Next1(d, "put") /\ h.hash = post /\ post' = h.data
    BY <1>6, <2>1 DEF AcceptPut, Publish
  <2>3. /\ h.data = Plus(h.hash, Len(h.batch)) /\ h.data = txn[Result(h)].out
        /\ Cardinality(applied \cup Elements(h.batch)) = Cardinality(applied) + Len(h.batch)
        /\ Cardinality(applied) \in Nat /\ Len(h.batch) \in Nat
        /\ watch[d] /\ Heard(State(d), down[d])
    BY <1>1, <2>1, <2>2, PutFacts
  <2>4. PICK n, x, y : n = Len(h.batch) /\ x = h.hash /\ y = h.data
    OBVIOUS
  <2>5. y = Plus(x, n) /\ x = post /\ y = post'
    BY <2>2, <2>3, <2>4
  <2>6. y.comments = x.comments
    BY <1>1, <2>5 DEF Plus, Node
  <2> QED
    BY <2>5, <2>6
<1>7. ASSUME NEW d \in Devices, StoreComment(d)
      PROVE  post.comments \subseteq post'.comments
  <2>1. PICK c : post' = [post EXCEPT !.comments = @ \cup {c}]
    BY <1>7 DEF StoreComment, Publish
  <2> QED
    BY <1>1, <2>1 DEF Node
<1>8. ASSUME NEW d \in Devices, Server(d)
      PROVE  post.comments \subseteq post'.comments
  BY <1>6, <1>7, <1>8 DEF Server, AnswerListen, AnswerUnlisten, RefusePut
<1> QED
  BY <1>2, <1>3, <1>4, <1>5, <1>8 DEF Next

(* No transaction takes away a comment that is stored, although each       *)
(* writes the whole post, unless it is crowded.                            *)
THEOREM CommentsHold == Spec => CommentsStay
<1>1. CInv /\ [Next]_vars => [post.comments \subseteq post'.comments \/ crowded]_vars
  BY StepKeepsComments
<1> QED
  BY <1>1, Paces, PTL DEF Spec, CommentsStay

=============================================================================
