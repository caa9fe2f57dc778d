--------------------------- MODULE PushKeysProofs ---------------------------
(***************************************************************************)
(* Proofs about PushKeys: its invariants hold for any number of phones,    *)
(* draws, entries and faults, however wrong the clocks are and however     *)
(* long a hello may take, as long as the times have eight digits.          *)
(*                                                                         *)
(* The inductive invariant bounds what a phone may reckon (Reckoned), says *)
(* what is in a key (Written), that the keys of a phone's run are no       *)
(* greater than the one it made last (Latest), and that those of one run   *)
(* have increased (Increasing); only the last speaks of two entries.       *)
(***************************************************************************)
EXTENDS PushKeysProperties, SequenceTheorems, TLAPS

Keys == [1..20 -> Digits]

Types ==
  /\ now \in Start..MaxTime
  /\ skew \in [Devices -> -MaxSkew..MaxSkew]
  /\ link \in [Devices -> {"down", "hello", "up"}]
  /\ hello \in [Devices -> 0..MaxTime]
  /\ offset \in [Devices -> Int]
  /\ lastPushTime \in [Devices -> {0} \cup ServerTimes]
  /\ lastRandChars \in [Devices -> Chars]
  /\ run \in [Devices -> Nat]
  /\ made \in 0..MaxEntries
  /\ entry \in Seq(Entries) /\ Len(entry) = made
  /\ stage \in Seq(Stages) /\ Len(stage) = made
  /\ faults \in 0..MaxFaults
  /\ synced \in [Devices -> BOOLEAN]

(* What phone d reckons of the time; a hello is no older than MaxLag.      *)
Reckoned(d) ==
  /\ link[d] = "hello" => now - MaxLag <= hello[d] /\ hello[d] <= now
  /\ -(MaxLag + MaxSkew) <= offset[d] /\ offset[d] <= MaxSkew
  /\ synced[d] => -MaxLag <= skew[d] + offset[d] /\ skew[d] + offset[d] <= 0

(* What is known of an entry.                                              *)
Written(e) ==
  /\ \A n \in 1..8 : e.id[n] = TimeStampChars(e.time)[n]
  /\ e.synced => e.at - MaxLag <= e.time /\ e.time <= e.at
  /\ e.run <= run[e.dev]

(* The key that its phone made last.                                       *)
LastId(d) == Id(lastPushTime[d], lastRandChars[d])

Latest(e) ==
  e.run = run[e.dev] =>
    /\ e.time <= lastPushTime[e.dev]
    /\ Less(e.id, LastId(e.dev)) \/ e.id = LastId(e.dev)

Increasing(e, f) == e.dev = f.dev /\ e.run = f.run => Less(e.id, f.id)

Entered ==
  /\ \A i \in Made : Written(entry[i]) /\ Latest(entry[i])
  /\ \A i, j \in Made : i < j => Increasing(entry[i], entry[j])

IInv == Types /\ (\A d \in Devices : Reckoned(d)) /\ Entered /\ OverwrittenByChance

-----------------------------------------------------------------------------
(* Digits.                                                                 *)

(* A quotient by 64 and its remainder.                                     *)
LEMMA Quotient ==
  ASSUME NEW t \in Nat
  PROVE  /\ t \div 64 \in Nat /\ t % 64 \in Digits
         /\ t = 64 * (t \div 64) + (t % 64)
BY DEF Digits

(* The quotient keeps the order, and where it does not tell two numbers    *)
(* apart the remainder does.                                               *)
LEMMA QuotientOrder ==
  ASSUME NEW t \in Nat, NEW u \in Nat, t <= u
  PROVE  /\ t \div 64 <= u \div 64
         /\ t \div 64 = u \div 64 /\ t # u => t % 64 < u % 64
BY Quotient DEF Digits

(* Each digit of a time is one.                                            *)
LEMMA TimeDigits ==
  ASSUME NEW t \in Nat
  PROVE  \A n \in 1..8 : TimeStampChars(t)[n] \in Digits
<1>7. PICK t7 \in Nat : t7 = t \div 64
  BY Quotient
<1>6. PICK t6 \in Nat : t6 = t7 \div 64
  BY Quotient
<1>5. PICK t5 \in Nat : t5 = t6 \div 64
  BY Quotient
<1>4. PICK t4 \in Nat : t4 = t5 \div 64
  BY Quotient
<1>3. PICK t3 \in Nat : t3 = t4 \div 64
  BY Quotient
<1>2. PICK t2 \in Nat : t2 = t3 \div 64
  BY Quotient
<1>1. PICK t1 \in Nat : t1 = t2 \div 64
  BY Quotient
<1>8. TimeStampChars(t) = << t1 % 64, t2 % 64, t3 % 64, t4 % 64, t5 % 64, t6 % 64,
                             t7 % 64, t % 64 >>
  BY <1>1, <1>2, <1>3, <1>4, <1>5, <1>6, <1>7 DEF TimeStampChars
<1>9. /\ t1 % 64 \in Digits /\ t2 % 64 \in Digits /\ t3 % 64 \in Digits
      /\ t4 % 64 \in Digits /\ t5 % 64 \in Digits /\ t6 % 64 \in Digits
      /\ t7 % 64 \in Digits /\ t % 64 \in Digits
  BY Quotient
<1>10. \A n \in 1..8 : n = 1 \/ n = 2 \/ n = 3 \/ n = 4 \/ n = 5 \/ n = 6 \/ n = 7 \/ n = 8
  OBVIOUS
<1> QED
  BY <1>8, <1>9, <1>10

(* A time that has eight digits is later than another if, and only if, the *)
(* first digit in which they differ is greater.                            *)
LEMMA TimeOrder ==
  ASSUME NEW t \in Nat, NEW u \in Nat, t < u, Fits(u)
  PROVE  \E n \in 1..8 : /\ TimeStampChars(t)[n] < TimeStampChars(u)[n]
                         /\ \A m \in 1..8 : m < n => TimeStampChars(t)[m] = TimeStampChars(u)[m]
<1>7. PICK t7 \in Nat, u7 \in Nat : t7 = t \div 64 /\ u7 = u \div 64
  BY Quotient
<1>6. PICK t6 \in Nat, u6 \in Nat : t6 = t7 \div 64 /\ u6 = u7 \div 64
  BY Quotient
<1>5. PICK t5 \in Nat, u5 \in Nat : t5 = t6 \div 64 /\ u5 = u6 \div 64
  BY Quotient
<1>4. PICK t4 \in Nat, u4 \in Nat : t4 = t5 \div 64 /\ u4 = u5 \div 64
  BY Quotient
<1>3. PICK t3 \in Nat, u3 \in Nat : t3 = t4 \div 64 /\ u3 = u4 \div 64
  BY Quotient
<1>2. PICK t2 \in Nat, u2 \in Nat : t2 = t3 \div 64 /\ u2 = u3 \div 64
  BY Quotient
<1>1. PICK t1 \in Nat, u1 \in Nat : t1 = t2 \div 64 /\ u1 = u2 \div 64
  BY Quotient
<1>0. PICK t0 \in Nat, u0 \in Nat : t0 = t1 \div 64 /\ u0 = u1 \div 64
  BY Quotient
<1>8. /\ TimeStampChars(t) = << t1 % 64, t2 % 64, t3 % 64, t4 % 64, t5 % 64, t6 % 64,
                                t7 % 64, t % 64 >>
      /\ TimeStampChars(u) = << u1 % 64, u2 % 64, u3 % 64, u4 % 64, u5 % 64, u6 % 64,
                                u7 % 64, u % 64 >>
  BY <1>1, <1>2, <1>3, <1>4, <1>5, <1>6, <1>7 DEF TimeStampChars
<1>9. /\ t7 <= u7 /\ t6 <= u6 /\ t5 <= u5 /\ t4 <= u4 /\ t3 <= u3 /\ t2 <= u2
      /\ t1 <= u1 /\ t0 <= u0
  <2>7. t7 <= u7
    BY <1>7, QuotientOrder
  <2>6. t6 <= u6
    BY <2>7, <1>6, QuotientOrder
  <2>5. t5 <= u5
    BY <2>6, <1>5, QuotientOrder
  <2>4. t4 <= u4
    BY <2>5, <1>4, QuotientOrder
  <2>3. t3 <= u3
    BY <2>4, <1>3, QuotientOrder
  <2>2. t2 <= u2
    BY <2>3, <1>2, QuotientOrder
  <2>1. t1 <= u1
    BY <2>2, <1>1, QuotientOrder
  <2>0. t0 <= u0
    BY <2>1, <1>0, QuotientOrder
  <2> QED
    BY <2>0, <2>1, <2>2, <2>3, <2>4, <2>5, <2>6, <2>7
<1>10. t0 = u0
  <2>1. u0 = 0
    BY <1>0, <1>1, <1>2, <1>3, <1>4, <1>5, <1>6, <1>7 DEF Fits
  <2> QED
    BY <1>9, <2>1
<1>11. /\ t1 # u1 => t1 % 64 < u1 % 64
       /\ t1 = u1 /\ t2 # u2 => t2 % 64 < u2 % 64
       /\ t2 = u2 /\ t3 # u3 => t3 % 64 < u3 % 64
       /\ t3 = u3 /\ t4 # u4 => t4 % 64 < u4 % 64
       /\ t4 = u4 /\ t5 # u5 => t5 % 64 < u5 % 64
       /\ t5 = u5 /\ t6 # u6 => t6 % 64 < u6 % 64
       /\ t6 = u6 /\ t7 # u7 => t7 % 64 < u7 % 64
       /\ t7 = u7 => t % 64 < u % 64
  <2>1. t1 # u1 => t1 % 64 < u1 % 64
    BY <1>0, <1>9, <1>10, QuotientOrder
  <2>2. t1 = u1 /\ t2 # u2 => t2 % 64 < u2 % 64
    BY <1>1, <1>9, QuotientOrder
  <2>3. t2 = u2 /\ t3 # u3 => t3 % 64 < u3 % 64
    BY <1>2, <1>9, QuotientOrder
  <2>4. t3 = u3 /\ t4 # u4 => t4 % 64 < u4 % 64
    BY <1>3, <1>9, QuotientOrder
  <2>5. t4 = u4 /\ t5 # u5 => t5 % 64 < u5 % 64
    BY <1>4, <1>9, QuotientOrder
  <2>6. t5 = u5 /\ t6 # u6 => t6 % 64 < u6 % 64
    BY <1>5, <1>9, QuotientOrder
  <2>7. t6 = u6 /\ t7 # u7 => t7 % 64 < u7 % 64
    BY <1>6, <1>9, QuotientOrder
  <2>8. t7 = u7 => t % 64 < u % 64
    BY <1>7, <1>9, QuotientOrder
  <2> QED
    BY <2>1, <2>2, <2>3, <2>4, <2>5, <2>6, <2>7, <2>8
<1> DEFINE Differ(n) == /\ TimeStampChars(t)[n] < TimeStampChars(u)[n]
                        /\ \A m \in 1..8 : m < n => TimeStampChars(t)[m] = TimeStampChars(u)[m]
<1>12. SUFFICES \E n \in 1..8 : Differ(n)
  OBVIOUS
<1>13. CASE t1 # u1
  <2>1. Differ(1)
    BY <1>8, <1>11, <1>13
  <2> QED
    BY <2>1
<1>14. CASE t1 = u1 /\ t2 # u2
  <2>1. Differ(2)
    BY <1>8, <1>11, <1>14
  <2> QED
    BY <2>1
<1>15. CASE t1 = u1 /\ t2 = u2 /\ t3 # u3
  <2>1. Differ(3)
    BY <1>8, <1>11, <1>15
  <2> QED
    BY <2>1
<1>16. CASE t1 = u1 /\ t2 = u2 /\ t3 = u3 /\ t4 # u4
  <2>1. Differ(4)
    BY <1>8, <1>11, <1>16
  <2> QED
    BY <2>1
<1>17. CASE t1 = u1 /\ t2 = u2 /\ t3 = u3 /\ t4 = u4 /\ t5 # u5
  <2>1. Differ(5)
    BY <1>8, <1>11, <1>17
  <2> QED
    BY <2>1
<1>18. CASE t1 = u1 /\ t2 = u2 /\ t3 = u3 /\ t4 = u4 /\ t5 = u5 /\ t6 # u6
  <2>1. Differ(6)
    BY <1>8, <1>11, <1>18
  <2> QED
    BY <2>1
<1>19. CASE t1 = u1 /\ t2 = u2 /\ t3 = u3 /\ t4 = u4 /\ t5 = u5 /\ t6 = u6 /\ t7 # u7
  <2>1. Differ(7)
    BY <1>8, <1>11, <1>19
  <2> QED
    BY <2>1
<1>20. CASE t1 = u1 /\ t2 = u2 /\ t3 = u3 /\ t4 = u4 /\ t5 = u5 /\ t6 = u6 /\ t7 = u7
  <2>1. Differ(8)
    BY <1>8, <1>11, <1>20
  <2> QED
    BY <2>1
<1> HIDE DEF Differ
<1> QED
  BY <1>13, <1>14, <1>15, <1>16, <1>17, <1>18, <1>19, <1>20

-----------------------------------------------------------------------------
(* Keys.                                                                   *)

(* No key is less than itself.                                             *)
LEMMA LessIrreflexive ==
  ASSUME NEW a \in Keys
  PROVE  ~Less(a, a)
BY DEF Keys, Less, Digits

(* The order of keys is transitive.                                        *)
LEMMA LessTransitive ==
  ASSUME NEW a \in Keys, NEW b \in Keys, NEW c \in Keys, Less(a, b), Less(b, c)
  PROVE  Less(a, c)
<1>1. PICK n \in 1..20 : a[n] < b[n] /\ \A m \in 1..20 : m < n => a[m] = b[m]
  BY DEF Less
<1>2. PICK k \in 1..20 : b[k] < c[k] /\ \A m \in 1..20 : m < k => b[m] = c[m]
  BY DEF Less
<1>3. \A m \in 1..20 : a[m] \in Int /\ b[m] \in Int /\ c[m] \in Int
  BY DEF Keys, Digits
<1>4. CASE n < k
  <2>1. a[n] < c[n]
    BY <1>1, <1>2, <1>4
  <2>2. \A m \in 1..20 : m < n => a[m] = c[m]
    BY <1>1, <1>2, <1>4
  <2> QED
    BY <2>1, <2>2 DEF Less
<1>5. CASE n = k
  <2>1. a[n] < c[n]
    BY <1>1, <1>2, <1>3, <1>5
  <2>2. \A m \in 1..20 : m < n => a[m] = c[m]
    BY <1>1, <1>2, <1>5
  <2> QED
    BY <2>1, <2>2 DEF Less
<1>6. CASE k < n
  <2>1. a[k] < c[k]
    BY <1>1, <1>2, <1>6
  <2>2. \A m \in 1..20 : m < k => a[m] = c[m]
    BY <1>1, <1>2, <1>6
  <2> QED
    BY <2>1, <2>2 DEF Less
<1> QED
  BY <1>4, <1>5, <1>6

(* get: returns a key, which begins with the time.                         *)
LEMMA IdFacts ==
  ASSUME NEW t \in Nat, NEW c \in Chars
  PROVE  /\ Id(t, c) \in Keys
         /\ \A n \in 1..8 : Id(t, c)[n] = TimeStampChars(t)[n]
         /\ \A n \in 1..12 : Id(t, c)[n + 8] = c[n]
<1>1. \A n \in 1..8 : TimeStampChars(t)[n] \in Digits
  BY TimeDigits
<1>2. \A n \in 1..8 : Id(t, c)[n] = TimeStampChars(t)[n]
  BY DEF Id
<1>3. \A n \in 1..12 : Id(t, c)[n + 8] = c[n]
  BY DEF Id
<1>4. \A n \in 1..20 : (n <= 8 => n \in 1..8) /\ (~(n <= 8) => n - 8 \in 1..12)
  OBVIOUS
<1>5. Id(t, c) \in Keys
  BY <1>1, <1>4 DEF Id, Keys, Chars
<1> QED
  BY <1>2, <1>3, <1>5

(* A key with a later time is greater, whatever its other characters are.  *)
LEMMA LaterIsGreater ==
  ASSUME NEW a \in Keys, NEW b \in Keys, NEW t \in Nat, NEW u \in Nat, t < u, Fits(u),
         \A n \in 1..8 : a[n] = TimeStampChars(t)[n],
         \A n \in 1..8 : b[n] = TimeStampChars(u)[n]
  PROVE  Less(a, b)
<1>1. PICK n \in 1..8 : /\ TimeStampChars(t)[n] < TimeStampChars(u)[n]
                        /\ \A m \in 1..8 : m < n => TimeStampChars(t)[m] = TimeStampChars(u)[m]
  BY TimeOrder
<1>2. n \in 1..20 /\ \A m \in 1..20 : m < n => m \in 1..8
  OBVIOUS
<1> QED
  BY <1>1, <1>2 DEF Less

(* Counted up, the characters of a key make a greater one.                 *)
LEMMA CountedIsGreater ==
  ASSUME NEW t \in Nat, NEW c \in Chars, NEW i \in 1..12, c[i] < 63
  PROVE  Counted(c, i) \in Chars /\ Less(Id(t, c), Id(t, Counted(c, i)))
<1>1. \A n \in 1..12 : c[n] \in Int /\ 0 <= c[n] /\ c[n] <= 63
  BY DEF Chars, Digits
<1>2. \A n \in 1..12 : Counted(c, i)[n] =
        IF n < i THEN c[n] ELSE IF n = i THEN c[n] + 1 ELSE 0
  BY DEF Counted
<1>3. Counted(c, i) \in Chars
  BY <1>1 DEF Counted, Chars, Digits
<1>4. c[i] < Counted(c, i)[i] /\ \A n \in 1..12 : n < i => c[n] = Counted(c, i)[n]
  BY <1>1, <1>2
<1>5. PICK k \in 1..20 : k = i + 8
  OBVIOUS
<1>6. Id(t, c)[k] < Id(t, Counted(c, i))[k]
  BY <1>3, <1>4, <1>5, IdFacts
<1>7. ASSUME NEW m \in 1..20, m < k
      PROVE  Id(t, c)[m] = Id(t, Counted(c, i))[m]
  <2>1. CASE m <= 8
    BY <1>3, <2>1, IdFacts
  <2>2. CASE ~(m <= 8)
    <3>1. PICK n \in 1..12 : m = n + 8 /\ n < i
      BY <2>2, <1>5, <1>7
    <3> QED
      BY <1>3, <1>4, <3>1, IdFacts
  <2> QED
    BY <2>1, <2>2
<1> QED
  BY <1>3, <1>6, <1>7 DEF Less
-----------------------------------------------------------------------------
(* The inductive invariant.                                                *)

(* What a phone reckons to be the time fits into eight digits.             *)
LEMMA TimeFits ==
  ASSUME NEW t \in Nat, t <= MaxTime + 2 * MaxSkew
  PROVE  Fits(t)
<1> DEFINE M == MaxTime + 2 * MaxSkew
<1>1. M \in Nat /\ Fits(M)
  BY TimeAssumption
<1> HIDE DEF M
<1>2. t <= M
  BY DEF M
<1>7. PICK t7 \in Nat, u7 \in Nat : t7 = t \div 64 /\ u7 = M \div 64 /\ t7 <= u7
  BY <1>1, <1>2, Quotient, QuotientOrder
<1>6. PICK t6 \in Nat, u6 \in Nat : t6 = t7 \div 64 /\ u6 = u7 \div 64 /\ t6 <= u6
  BY <1>7, Quotient, QuotientOrder
<1>5. PICK t5 \in Nat, u5 \in Nat : t5 = t6 \div 64 /\ u5 = u6 \div 64 /\ t5 <= u5
  BY <1>6, Quotient, QuotientOrder
<1>4. PICK t4 \in Nat, u4 \in Nat : t4 = t5 \div 64 /\ u4 = u5 \div 64 /\ t4 <= u4
  BY <1>5, Quotient, QuotientOrder
<1>3. PICK t3 \in Nat, u3 \in Nat : t3 = t4 \div 64 /\ u3 = u4 \div 64 /\ t3 <= u3
  BY <1>4, Quotient, QuotientOrder
<1>8. PICK t2 \in Nat, u2 \in Nat : t2 = t3 \div 64 /\ u2 = u3 \div 64 /\ t2 <= u2
  BY <1>3, Quotient, QuotientOrder
<1>9. PICK t1 \in Nat, u1 \in Nat : t1 = t2 \div 64 /\ u1 = u2 \div 64 /\ t1 <= u1
  BY <1>8, Quotient, QuotientOrder
<1>10. PICK t0 \in Nat, u0 \in Nat : t0 = t1 \div 64 /\ u0 = u1 \div 64 /\ t0 <= u0
  BY <1>9, Quotient, QuotientOrder
<1>11. u0 = 0
  BY <1>1, <1>3, <1>5, <1>6, <1>7, <1>4, <1>8, <1>9, <1>10 DEF Fits
<1>12. t0 = 0
  BY <1>10, <1>11
<1> QED
  BY <1>12, <1>3, <1>5, <1>6, <1>7, <1>4, <1>8, <1>9, <1>10 DEF Fits

(* What a phone reckons to be the time is one of ServerTimes, and at most  *)
(* MaxLag late if its clock was not set since the last hello.              *)
LEMMA ReckonedTime ==
  ASSUME Types, NEW d \in Devices, Reckoned(d)
  PROVE  /\ ServerTime(d) \in ServerTimes
         /\ synced[d] => now - MaxLag <= ServerTime(d) /\ ServerTime(d) <= now
<1>1. /\ now \in Int /\ Start <= now /\ now <= MaxTime
      /\ skew[d] \in Int /\ -MaxSkew <= skew[d] /\ skew[d] <= MaxSkew
      /\ offset[d] \in Int
  BY TimeAssumption DEF Types
<1>2. PICK n \in Int, s \in Int, o \in Int : n = now /\ s = skew[d] /\ o = offset[d]
  BY <1>1
<1>3. ServerTime(d) = n + s + o
  BY <1>2 DEF ServerTime, Clock
<1>4. -(MaxLag + MaxSkew) <= o /\ o <= MaxSkew
  BY <1>2 DEF Reckoned
<1>5. n + s + o \in 1..(MaxTime + 2 * MaxSkew)
  BY <1>1, <1>2, <1>4, TimeAssumption
<1>6. ASSUME synced[d]
      PROVE  n - MaxLag <= n + s + o /\ n + s + o <= n
  BY <1>2, <1>6, TimeAssumption DEF Reckoned
<1> QED
  BY <1>2, <1>3, <1>5, <1>6 DEF ServerTimes

(* Entries with equal keys have equal times.                               *)
LEMMA SameTime ==
  ASSUME NEW e \in Entries, NEW f \in Entries, Written(e), Written(f), e.id = f.id
  PROVE  e.time = f.time
<1>1. /\ e.time \in Nat /\ e.time <= MaxTime + 2 * MaxSkew
      /\ f.time \in Nat /\ f.time <= MaxTime + 2 * MaxSkew
      /\ e.id \in Keys /\ f.id \in Keys
  BY TimeAssumption DEF Entries, ServerTimes, Keys
<1>2. Fits(e.time) /\ Fits(f.time)
  BY <1>1, TimeFits
<1>3. ~(e.time < f.time)
  BY <1>1, <1>2, LaterIsGreater, LessIrreflexive DEF Written
<1>4. ~(f.time < e.time)
  BY <1>1, <1>2, LaterIsGreater, LessIrreflexive DEF Written
<1> QED
  BY <1>1, <1>3, <1>4

(* Initially nothing has been made, and no clock is off by too much.       *)
LEMMA InitIInv == Init => IInv
<1> SUFFICES ASSUME Init PROVE IInv
  OBVIOUS
<1>1. Types
  BY TimeAssumption, BoundAssumption DEF Init, Types, Zeros, Chars, Digits
<1>2. \A d \in Devices : Reckoned(d)
  <2> TAKE d \in Devices
  <2>1. link[d] # "hello" /\ offset[d] = 0 /\ ~synced[d]
    BY DEF Init
  <2>2. -(MaxLag + MaxSkew) <= 0 /\ 0 <= MaxSkew
    BY TimeAssumption
  <2> QED
    BY <2>1, <2>2 DEF Reckoned
<1>3. Made = {}
  BY DEF Init, Made
<1> QED
  BY <1>1, <1>2, <1>3 DEF IInv, Entered, OverwrittenByChance

(* Appending keeps the sequence and puts one element at its end.           *)
LEMMA AppendFacts ==
  ASSUME NEW S, NEW q \in Seq(S), NEW x \in S
  PROVE  /\ Append(q, x) \in Seq(S)
         /\ Len(q) \in Nat /\ Len(Append(q, x)) = Len(q) + 1
         /\ \A n \in 1..Len(q) : Append(q, x)[n] = q[n]
         /\ Append(q, x)[Len(q) + 1] = x
BY AppendProperties

(* A step that makes no entry and stores none.                             *)
LEMMA EntriesKept ==
  ASSUME Entered, OverwrittenByChance, UNCHANGED <<keys, made, entry, stage>>
  PROVE  Entered' /\ OverwrittenByChance'
<1>1. /\ Made' = Made /\ entry' = entry /\ stage' = stage /\ run' = run
      /\ lastPushTime' = lastPushTime /\ lastRandChars' = lastRandChars
  BY DEF Made, keys
<1>2. Entered'
  BY <1>1 DEF Entered, Written, Latest, Increasing, LastId
<1>3. OverwrittenByChance'
  BY <1>1 DEF OverwrittenByChance
<1> QED
  BY <1>2, <1>3

(* A hello grows old, but no older than MaxLag.                            *)
LEMMA TickKeeps == IInv /\ Tick => IInv'
<1> SUFFICES ASSUME IInv, Tick PROVE IInv'
  OBVIOUS
<1>1. Types'
  BY TimeAssumption DEF IInv, Types, Tick, keys
<1>2. ASSUME NEW d \in Devices
      PROVE  Reckoned(d)'
  <2>1. now \in Int /\ hello[d] \in Int /\ now' = now + 1
    BY TimeAssumption DEF IInv, Types, Tick
  <2>2. Reckoned(d) /\ (link[d] = "hello" => now - hello[d] < MaxLag)
    BY DEF IInv, Tick
  <2>3. link' = link /\ hello' = hello /\ offset' = offset /\ skew' = skew /\ synced' = synced
    BY DEF Tick
  <2>4. link[d] = "hello" => now' - MaxLag <= hello[d] /\ hello[d] <= now'
    BY <2>1, <2>2, TimeAssumption DEF Reckoned
  <2> QED
    BY <2>2, <2>3, <2>4 DEF Reckoned
<1>3. Entered' /\ OverwrittenByChance'
  BY EntriesKept DEF IInv, Tick
<1> QED
  BY <1>1, <1>2, <1>3 DEF IInv

(* A phone whose clock is set is not synced.                               *)
LEMMA SetClockKeeps ==
  ASSUME IInv, NEW d \in Devices, SetClock(d)
  PROVE  IInv'
<1>0. PICK s \in -MaxSkew..MaxSkew : skew' = [skew EXCEPT ![d] = s]
  BY DEF SetClock
<1>1. Types'
  <2>1. Types
    BY DEF IInv
  <2>2. UNCHANGED <<now, link, hello, offset, lastPushTime, lastRandChars, run, made, entry, stage>>
    BY DEF SetClock, keys
  <2>3. skew' \in [Devices -> -MaxSkew..MaxSkew]
    BY <1>0, <2>1 DEF Types
  <2>4. synced' \in [Devices -> BOOLEAN]
    BY <2>1 DEF SetClock, Types
  <2>5. faults' \in 0..MaxFaults
    BY <2>1, BoundAssumption DEF SetClock, Types
  <2> QED
    BY <2>1, <2>2, <2>3, <2>4, <2>5 DEF Types
<1>2. ASSUME NEW e \in Devices
      PROVE  Reckoned(e)'
  <2>1. UNCHANGED <<now, link, hello, offset>>
    BY DEF SetClock
  <2>2. ~synced'[d] /\ (e # d => synced'[e] = synced[e] /\ skew'[e] = skew[e])
    BY <1>0 DEF SetClock, IInv, Types
  <2> QED
    BY <2>1, <2>2 DEF IInv, Reckoned
<1>3. Entered' /\ OverwrittenByChance'
  BY EntriesKept DEF IInv, SetClock
<1> QED
  BY <1>1, <1>2, <1>3 DEF IInv

(* A hello that is sent holds the time.                                    *)
LEMMA SendHelloKeeps ==
  ASSUME IInv, NEW d \in Devices, SendHello(d)
  PROVE  IInv'
<1>1. Types'
  <2>1. Types
    BY DEF IInv
  <2>2. UNCHANGED <<now, skew, offset, lastPushTime, lastRandChars, run, made, entry, stage,
                    faults, synced>>
    BY DEF SendHello, clocks, keys
  <2>3. link' \in [Devices -> {"down", "hello", "up"}]
    BY <2>1 DEF SendHello, Types
  <2>4. hello' \in [Devices -> 0..MaxTime]
    BY <2>1, TimeAssumption DEF SendHello, Types
  <2> QED
    BY <2>1, <2>2, <2>3, <2>4 DEF Types
<1>2. ASSUME NEW e \in Devices
      PROVE  Reckoned(e)'
  <2>1. UNCHANGED <<now, skew, offset, synced>>
    BY DEF SendHello, clocks
  <2>2. hello'[d] = now /\ (e # d => link'[e] = link[e] /\ hello'[e] = hello[e])
    BY DEF SendHello, IInv, Types
  <2>3. now \in Int /\ now - MaxLag <= now
    BY TimeAssumption DEF IInv, Types
  <2> QED
    BY <2>1, <2>2, <2>3 DEF IInv, Reckoned
<1>3. Entered' /\ OverwrittenByChance'
  BY EntriesKept DEF IInv, SendHello
<1> QED
  BY <1>1, <1>2, <1>3 DEF IInv

(* The offset makes up for the clock, but for the way of the hello.        *)
LEMMA OnReadyKeeps ==
  ASSUME IInv, NEW d \in Devices, OnReady(d)
  PROVE  IInv'
<1>1. Types'
  <2>1. Types
    BY DEF IInv
  <2>2. UNCHANGED <<now, skew, lastPushTime, lastRandChars, run, made, entry, stage, faults>>
    BY DEF OnReady, clocks, keys
  <2>3. link' \in [Devices -> {"down", "hello", "up"}] /\ synced' \in [Devices -> BOOLEAN]
    BY <2>1 DEF OnReady, Types
  <2>4. hello' \in [Devices -> 0..MaxTime]
    BY <2>1, TimeAssumption DEF OnReady, Types
  <2>5. offset' \in [Devices -> Int]
    <3>1. hello[d] \in Int /\ now \in Int /\ skew[d] \in Int
      BY <2>1, TimeAssumption DEF Types
    <3>2. hello[d] - (now + skew[d]) \in Int
      BY <3>1
    <3> QED
      BY <2>1, <3>2 DEF OnReady, Types, Clock
  <2> QED
    BY <2>1, <2>2, <2>3, <2>4, <2>5 DEF Types
<1>2. ASSUME NEW e \in Devices
      PROVE  Reckoned(e)'
  <2>1. UNCHANGED <<now, skew>>
    BY DEF OnReady, clocks
  <2>2. CASE e # d
    <3>1. UNCHANGED <<link[e], hello[e], offset[e], synced[e]>>
      BY <2>2 DEF OnReady, IInv, Types
    <3> QED
      BY <2>1, <3>1 DEF IInv, Reckoned
  <2>3. CASE e = d
    <3>1. link'[d] # "hello" /\ offset'[d] = hello[d] - (now + skew[d])
      BY DEF OnReady, IInv, Types, Clock
    <3>2. now - MaxLag <= hello[d] /\ hello[d] <= now
      BY DEF IInv, Reckoned, OnReady
    <3>3. now \in Int /\ hello[d] \in Int /\ skew[d] \in Int /\ -MaxSkew <= skew[d] /\ skew[d] <= MaxSkew
      BY TimeAssumption DEF IInv, Types
    <3>4. PICK n \in Int, h \in Int, s \in Int : n = now /\ h = hello[d] /\ s = skew[d]
      BY <3>3
    <3>5. PICK o \in Int : o = h - (n + s)
      OBVIOUS
    <3>6. -(MaxLag + MaxSkew) <= o /\ o <= MaxSkew /\ -MaxLag <= s + o /\ s + o <= 0
      BY <3>2, <3>3, <3>4, <3>5, TimeAssumption
    <3>7. offset'[d] = o /\ skew'[d] = s
      BY <2>1, <3>1, <3>4, <3>5
    <3> QED
      BY <2>3, <3>1, <3>6, <3>7 DEF Reckoned
  <2> QED
    BY <2>2, <2>3
<1>3. Entered' /\ OverwrittenByChance'
  BY EntriesKept DEF IInv, OnReady
<1> QED
  BY <1>1, <1>2, <1>3 DEF IInv

(* A lost connection changes nothing that a phone reckons.                 *)
LEMMA OnDisconnectKeeps ==
  ASSUME IInv, NEW d \in Devices, OnDisconnect(d)
  PROVE  IInv'
<1>1. Types'
  <2>1. Types
    BY DEF IInv
  <2>2. UNCHANGED <<now, skew, offset, lastPushTime, lastRandChars, run, made, entry, stage, synced>>
    BY DEF OnDisconnect, clocks, keys
  <2>3. link' \in [Devices -> {"down", "hello", "up"}]
    BY <2>1 DEF OnDisconnect, Types
  <2>4. hello' \in [Devices -> 0..MaxTime]
    BY <2>1, TimeAssumption DEF OnDisconnect, Types
  <2>5. faults' \in 0..MaxFaults
    BY <2>1, BoundAssumption DEF OnDisconnect, Types
  <2> QED
    BY <2>1, <2>2, <2>3, <2>4, <2>5 DEF Types
<1>2. ASSUME NEW e \in Devices
      PROVE  Reckoned(e)'
  <2>1. UNCHANGED <<now, skew, offset, synced>>
    BY DEF OnDisconnect, clocks
  <2>2. link'[d] # "hello" /\ (e # d => link'[e] = link[e] /\ hello'[e] = hello[e])
    BY DEF OnDisconnect, IInv, Types
  <2> QED
    BY <2>1, <2>2 DEF IInv, Reckoned
<1>3. Entered' /\ OverwrittenByChance'
  BY EntriesKept DEF IInv, OnDisconnect
<1> QED
  BY <1>1, <1>2, <1>3 DEF IInv

-----------------------------------------------------------------------------
(* New entries.                                                            *)

(* A new entry keeps the invariant if its key is greater than those of the *)
(* run that it is made in.                                                 *)
LEMMA PushKeeps ==
  ASSUME IInv, NEW d \in Devices, NEW l \in Lists, NEW t \in ServerTimes, NEW c \in Chars,
         NEW r \in Nat, NEW r2 \in Nat, NEW last \in {0} \cup ServerTimes,
         Push(d, l, t, c, r),
         run' = [run EXCEPT ![d] = r2], lastPushTime' = [lastPushTime EXCEPT ![d] = last],
         run[d] <= r, r <= r2, r2 = r => last = t,
         synced[d] => now - MaxLag <= t /\ t <= now,
         r = run[d] => \A i \in Made : entry[i].dev = d /\ entry[i].run = run[d] =>
                         entry[i].time <= t /\ Less(entry[i].id, Id(t, c))
  PROVE  IInv'
<1> USE TimeAssumption
<1>1. PICK e : e = [list |-> l, dev |-> d, at |-> now, time |-> t,
                    id |-> Id(t, c), run |-> r, synced |-> synced[d]]
  OBVIOUS
<1>2. /\ t \in Nat /\ Id(t, c) \in Keys
      /\ \A n \in 1..8 : Id(t, c)[n] = TimeStampChars(t)[n]
  BY IdFacts DEF ServerTimes
<1>3. e \in Entries
  BY <1>1, <1>2 DEF Entries, IInv, Types, Keys
<1>4. /\ made' = made + 1 /\ entry' = Append(entry, e) /\ stage' = Append(stage, "pending")
      /\ lastRandChars' = [lastRandChars EXCEPT ![d] = c] /\ made < MaxEntries
      /\ UNCHANGED <<clocks, link, hello, offset, faults, synced>>
  BY <1>1 DEF Push
<1>5. Types
  BY DEF IInv
<1>6. /\ made \in Nat
      /\ entry' \in Seq(Entries) /\ Len(entry') = made'
      /\ stage' \in Seq(Stages) /\ Len(stage') = made'
      /\ \A i \in Made : entry'[i] = entry[i] /\ stage'[i] = stage[i]
      /\ entry'[made'] = e /\ stage'[made'] = "pending"
  <2>1. made \in Nat /\ "pending" \in Stages
    BY <1>5, BoundAssumption DEF Types, Stages
  <2>2. /\ entry' \in Seq(Entries) /\ Len(entry') = made'
        /\ \A i \in Made : entry'[i] = entry[i]
        /\ entry'[made'] = e
    <3>1. entry \in Seq(Entries) /\ made = Len(entry) /\ made' = Len(entry) + 1
          /\ entry' = Append(entry, e) /\ Made = 1..Len(entry)
      BY <1>4, <1>5 DEF Types, Made
    <3> QED
      BY <1>3, <3>1, AppendFacts
  <2>3. /\ stage' \in Seq(Stages) /\ Len(stage') = made'
        /\ \A i \in Made : stage'[i] = stage[i]
        /\ stage'[made'] = "pending"
    <3>1. stage \in Seq(Stages) /\ made = Len(stage) /\ made' = Len(stage) + 1
          /\ stage' = Append(stage, "pending") /\ Made = 1..Len(stage)
      BY <1>4, <1>5 DEF Types, Made
    <3> QED
      BY <2>1, <3>1, AppendFacts
  <2> QED
    BY <2>1, <2>2, <2>3
<1>7. Types'
  <2>1. /\ now' = now /\ skew' = skew /\ link' = link /\ hello' = hello
        /\ offset' = offset /\ faults' = faults /\ synced' = synced
    BY <1>4 DEF clocks
  <2>2. lastPushTime' \in [Devices -> {0} \cup ServerTimes]
    BY <1>5 DEF Types
  <2>3. lastRandChars' \in [Devices -> Chars]
    BY <1>4, <1>5 DEF Types
  <2>4. run' \in [Devices -> Nat]
    BY <1>5 DEF Types
  <2>5. made' \in 0..MaxEntries
    BY <1>4, <1>6, BoundAssumption
  <2> QED
    BY <1>5, <1>6, <2>1, <2>2, <2>3, <2>4, <2>5 DEF Types
<1>8. \A p \in Devices : Reckoned(p)'
  BY <1>4 DEF IInv, Reckoned, clocks
<1>9. /\ made' \in Made' /\ \A i \in Made' : i \in Made \/ i = made'
      /\ Made \subseteq Made' /\ \A i \in Made : i < made'
      /\ \A i \in Made' : ~(made' < i)
  <2>1. PICK n \in Nat : n = made
    BY <1>6
  <2>2. made' = n + 1 /\ Made = 1..n /\ Made' = 1..(n + 1)
    BY <1>4, <2>1 DEF Made
  <2>3. \A i \in 1..(n + 1) : (i \in 1..n \/ i = n + 1) /\ ~(n + 1 < i)
    OBVIOUS
  <2>4. n + 1 \in 1..(n + 1) /\ \A i \in 1..n : i \in 1..(n + 1) /\ i < n + 1
    OBVIOUS
  <2> QED
    BY <2>2, <2>3, <2>4
<1>10. /\ LastId(d)' = Id(last, c) /\ run'[d] = r2 /\ lastPushTime'[d] = last
       /\ \A p \in Devices \ {d} : /\ LastId(p)' = LastId(p) /\ run'[p] = run[p]
                                   /\ lastPushTime'[p] = lastPushTime[p]
  BY <1>4, <1>5 DEF LastId, Types
<1>11. e.list = l /\ e.dev = d /\ e.at = now /\ e.time = t /\ e.id = Id(t, c) /\ e.run = r
       /\ e.synced = synced[d]
  BY <1>1
<1>12. \A i \in Made : entry[i] \in Entries
  BY <1>5 DEF Types, Made
<1>13. Written(e)'
  BY <1>2, <1>10, <1>11 DEF Written
<1>14. Latest(e)'
  <2> SUFFICES ASSUME r = r2 PROVE e.time <= last /\ e.id = Id(last, c)
    BY <1>10, <1>11 DEF Latest
  <2> QED
    BY <1>2, <1>11
<1>15. ASSUME NEW i \in Made, NEW f \in Entries, f = entry[i]
       PROVE  Written(f)' /\ Latest(f)' /\ Increasing(f, e)
  <2>1. Written(f) /\ Latest(f) /\ f.dev \in Devices /\ f.run \in Nat
    BY <1>15 DEF IInv, Entered, Entries
  <2>2. run[f.dev] \in Nat /\ run'[f.dev] \in Nat /\ run[f.dev] <= run'[f.dev]
    <3>1. run[d] \in Nat /\ run[f.dev] \in Nat
      BY <1>5, <2>1 DEF Types
    <3>2. CASE f.dev = d
      BY <1>10, <3>1, <3>2
    <3>3. CASE f.dev # d
      BY <1>10, <2>1, <3>1, <3>3
    <3> QED
      BY <3>2, <3>3
  <2>3. Written(f)'
    <3>1. f.run <= run'[f.dev]
      BY <2>1, <2>2 DEF Written
    <3> QED
      BY <2>1, <3>1 DEF Written
  <2>4. ASSUME f.dev = d, r = run[d], f.run = r
        PROVE  f.time <= t /\ Less(f.id, Id(t, c))
    BY <1>15, <2>4
  <2>5. f.dev = d => f.run <= run[d]
    BY <2>1 DEF Written
  <2>6. Increasing(f, e)
    <3> SUFFICES ASSUME f.dev = d, f.run = r PROVE Less(f.id, Id(t, c))
      BY <1>11 DEF Increasing
    <3>1. r = run[d]
      BY <2>2, <2>5
    <3> QED
      BY <2>4, <3>1
  <2>7. Latest(f)'
    <3>1. CASE f.dev # d
      BY <1>10, <2>1, <3>1 DEF Latest
    <3>2. CASE f.dev = d
      <4> SUFFICES ASSUME f.run = r2
                   PROVE  f.time <= last /\ Less(f.id, Id(last, c))
        BY <1>10, <3>2 DEF Latest
      <4>1. r = run[d] /\ r2 = r
        BY <2>1, <2>2, <2>5, <3>2
      <4> QED
        BY <2>4, <3>2, <4>1
    <3> QED
      BY <3>1, <3>2
  <2> QED
    BY <2>3, <2>6, <2>7
<1>16. Entered'
  <2>1. ASSUME NEW i \in Made', NEW f, f = entry'[i]
        PROVE  Written(f)' /\ Latest(f)'
    <3>1. CASE i \in Made
      BY <1>6, <1>12, <1>15, <2>1, <3>1
    <3>2. CASE i = made'
      BY <1>6, <1>13, <1>14, <2>1, <3>2
    <3> QED
      BY <1>9, <3>1, <3>2
  <2>2. ASSUME NEW i \in Made', NEW j \in Made', i < j
        PROVE  Increasing(entry'[i], entry'[j])
    <3>1. i \in Made
      BY <1>9, <2>2
    <3>2. CASE j \in Made
      BY <1>6, <2>2, <3>1, <3>2 DEF IInv, Entered
    <3>3. CASE j = made'
      BY <1>6, <1>12, <1>15, <3>1, <3>3
    <3> QED
      BY <1>9, <3>2, <3>3
  <2> QED
    BY <2>1, <2>2 DEF Entered, Written, Latest, Increasing, LastId
<1>17. OverwrittenByChance'
  <2> SUFFICES ASSUME NEW i \in Made', stage'[i] = "overwritten"
               PROVE  \E j \in Made' :
                        /\ entry'[j].list = entry'[i].list
                        /\ entry'[j].id = entry'[i].id /\ entry'[j].time = entry'[i].time
                        /\ entry'[j].dev # entry'[i].dev \/ entry'[j].run # entry'[i].run
    BY DEF OverwrittenByChance
  <2>1. i \in Made /\ stage[i] = "overwritten"
    BY <1>6, <1>9
  <2>2. PICK j \in Made :
          /\ entry[j].list = entry[i].list
          /\ entry[j].id = entry[i].id /\ entry[j].time = entry[i].time
          /\ entry[j].dev # entry[i].dev \/ entry[j].run # entry[i].run
    BY <2>1 DEF IInv, OverwrittenByChance
  <2>3. j \in Made' /\ entry'[j] = entry[j] /\ entry'[i] = entry[i]
    BY <1>6, <1>9, <2>1
  <2> QED
    BY <2>2, <2>3
<1> QED
  BY <1>7, <1>8, <1>16, <1>17 DEF IInv

(* A drawn key has a later time than those of its run, or begins a run.    *)
LEMMA DrawKeyKeeps ==
  ASSUME IInv, NEW d \in Devices, NEW l \in Lists, DrawKey(d, l)
  PROVE  IInv'
<1>1. PICK t : t = ServerTime(d)
  OBVIOUS
<1>2. PICK r : r = IF lastPushTime[d] < t THEN run[d] ELSE run[d] + 1
  OBVIOUS
<1>3. /\ lastPushTime' = [lastPushTime EXCEPT ![d] = t]
      /\ run' = [run EXCEPT ![d] = r]
      /\ \E c \in Draws : Push(d, l, t, c, r)
  BY <1>1, <1>2 DEF DrawKey
<1>4. PICK c \in Chars : Push(d, l, t, c, r)
  BY <1>3, DrawsAssumption
<1>5. Types /\ t \in ServerTimes /\ (synced[d] => now - MaxLag <= t /\ t <= now)
  BY <1>1, ReckonedTime DEF IInv
<1>6. /\ run[d] \in Nat /\ r \in Nat /\ run[d] <= r
      /\ r = run[d] => lastPushTime[d] < t
  BY <1>2, <1>5 DEF Types
<1>7. ASSUME r = run[d], NEW i \in Made, entry[i].dev = d, entry[i].run = run[d]
      PROVE  entry[i].time <= t /\ Less(entry[i].id, Id(t, c))
  <2>1. PICK f \in Entries : f = entry[i]
    BY <1>5 DEF Types, Made
  <2>2. /\ f.time <= lastPushTime[d]
        /\ \A n \in 1..8 : f.id[n] = TimeStampChars(f.time)[n]
    BY <1>7, <2>1 DEF IInv, Entered, Latest, Written
  <2>3. /\ f.time \in Nat /\ t \in Nat /\ t <= MaxTime + 2 * MaxSkew
        /\ lastPushTime[d] \in Nat /\ f.id \in Keys
    <3>1. f.time \in ServerTimes /\ f.id \in Keys /\ lastPushTime[d] \in {0} \cup ServerTimes
      BY <1>5 DEF Entries, Types, Keys
    <3>2. ServerTimes \subseteq Nat /\ \A n \in ServerTimes : n <= MaxTime + 2 * MaxSkew
      BY TimeAssumption DEF ServerTimes
    <3>3. f.time \in Nat /\ t \in Nat
      BY <1>5, <3>1, <3>2
    <3>4. lastPushTime[d] \in Nat
      <4>1. ServerTimes \subseteq Nat /\ 0 \in Nat
        BY <3>2
      <4> QED
        BY <3>1, <4>1, Zenon
    <3>5. t <= MaxTime + 2 * MaxSkew
      BY <1>5, <3>2
    <3> QED
      BY <3>1, <3>3, <3>4, <3>5
  <2>4. f.time < t
    BY <1>6, <1>7, <2>2, <2>3
  <2>5. Fits(t)
    BY <2>3, TimeFits
  <2>6. Less(f.id, Id(t, c))
    BY <2>2, <2>3, <2>4, <2>5, IdFacts, LaterIsGreater
  <2> QED
    BY <2>1, <2>3, <2>4, <2>6
<1>8. r <= r /\ t \in {0} \cup ServerTimes
  BY <1>5, <1>6
<1>9. r = run[d] => \A i \in Made : entry[i].dev = d /\ entry[i].run = run[d] =>
                      entry[i].time <= t /\ Less(entry[i].id, Id(t, c))
  BY <1>7
<1> QED
  BY <1>3, <1>4, <1>5, <1>6, <1>8, <1>9, PushKeeps

(* A key that was counted on is greater than the last one.                 *)
LEMMA CountKeyKeeps ==
  ASSUME IInv, NEW d \in Devices, NEW l \in Lists, CountKey(d, l)
  PROVE  IInv'
<1>1. PICK t : t = lastPushTime[d] /\ t = ServerTime(d)
  BY DEF CountKey
<1>2. PICK k \in Chars : k = lastRandChars[d]
  BY DEF IInv, Types
<1>3. PICK i \in 1..12 : k[i] < 63 /\ Push(d, l, t, Counted(k, i), run[d])
  BY <1>1, <1>2 DEF CountKey
<1>4. Types /\ t \in ServerTimes /\ (synced[d] => now - MaxLag <= t /\ t <= now)
  BY <1>1, ReckonedTime DEF IInv
<1>5. t \in Nat
  BY <1>4, TimeAssumption DEF ServerTimes
<1>6. PICK c \in Chars : c = Counted(k, i) /\ Less(Id(t, k), Id(t, c))
  BY <1>3, <1>5, CountedIsGreater
<1>7. Id(t, k) \in Keys /\ Id(t, c) \in Keys /\ LastId(d) = Id(t, k)
  BY <1>1, <1>2, <1>5, IdFacts DEF LastId
<1>8. /\ run[d] \in Nat /\ run' = [run EXCEPT ![d] = run[d]]
      /\ lastPushTime' = [lastPushTime EXCEPT ![d] = t]
  BY <1>1, <1>4 DEF CountKey, Types
<1>9. ASSUME NEW j \in Made, entry[j].dev = d, entry[j].run = run[d]
      PROVE  entry[j].time <= t /\ Less(entry[j].id, Id(t, c))
  <2>3. PICK f \in Entries : f = entry[j]
    BY <1>4 DEF Types, Made
  <2>1. entry[j].id \in Keys
    BY <2>3 DEF Entries, Keys
  <2>2. entry[j].time <= t /\ (Less(entry[j].id, Id(t, k)) \/ entry[j].id = Id(t, k))
    BY <1>1, <1>7, <1>9 DEF IInv, Entered, Latest
  <2> QED
    BY <1>6, <1>7, <2>1, <2>2, LessTransitive
<1>10. Push(d, l, t, c, run[d])
  BY <1>3, <1>6
<1>11. run[d] <= run[d] /\ t \in {0} \cup ServerTimes
  BY <1>4, <1>8
<1>12. \A j \in Made : entry[j].dev = d /\ entry[j].run = run[d] =>
                       entry[j].time <= t /\ Less(entry[j].id, Id(t, c))
  BY <1>9
<1> QED
  BY <1>4, <1>8, <1>10, <1>11, <1>12, PushKeeps

(* A key that could not be counted on is alone in its run.                 *)
LEMMA OverflowKeyKeeps ==
  ASSUME IInv, NEW d \in Devices, NEW l \in Lists, OverflowKey(d, l)
  PROVE  IInv'
<1>1. PICK t : t = lastPushTime[d] /\ t = ServerTime(d)
  BY DEF OverflowKey
<1>2. Types /\ t \in ServerTimes /\ (synced[d] => now - MaxLag <= t /\ t <= now)
  BY <1>1, ReckonedTime DEF IInv
<1>3. Zeros \in Chars
  BY DEF Zeros, Chars, Digits
<1>4. run[d] \in Nat /\ run' = [run EXCEPT ![d] = run[d] + 2]
  BY <1>2 DEF Types, OverflowKey
<1>9. PICK last : /\ last \in {t, 0}
                   /\ lastPushTime' = [lastPushTime EXCEPT ![d] = last]
  BY <1>1 DEF OverflowKey
<1>5. last \in {0} \cup ServerTimes
  BY <1>2, <1>9
<1>6. PICK r \in Nat, r2 \in Nat : r = run[d] + 1 /\ r2 = run[d] + 2
  BY <1>4
<1>7. run[d] <= r /\ r <= r2 /\ r2 # r /\ r # run[d]
  BY <1>4, <1>6
<1>8. Push(d, l, t, Zeros, r)
  BY <1>1, <1>6 DEF OverflowKey
<1> QED
  BY <1>2, <1>3, <1>4, <1>5, <1>6, <1>7, <1>8, <1>9, PushKeeps

-----------------------------------------------------------------------------
(* The database, and the end of the app.                                   *)

(* What the server overwrites was not made in the same run.                *)
LEMMA StoreEntryKeeps ==
  ASSUME IInv, NEW d \in Devices, StoreEntry(d)
  PROVE  IInv'
<1>1. PICK i \in Made :
        /\ stage[i] = "pending"
        /\ stage' = [j \in Made |->
             IF j = i THEN "stored"
             ELSE IF /\ stage[j] = "stored" /\ entry[j].list = entry[i].list
                     /\ entry[j].id = entry[i].id
                  THEN "overwritten" ELSE stage[j]]
        /\ UNCHANGED <<clocks, link, hello, offset, keys, made, entry, faults, synced>>
  BY DEF StoreEntry
<1>2. Types
  BY DEF IInv
<1>3. \A j \in Made : stage[j] \in Stages /\ entry[j] \in Entries
  BY <1>2 DEF Types, Made
<1>4. Types'
  <2>1. Made = 1..made /\ made \in Nat
    BY <1>2, BoundAssumption DEF Types, Made
  <2>2. \A j \in Made : stage'[j] \in Stages
    BY <1>1, <1>3 DEF Stages
  <2>3. stage' \in [1..made -> Stages]
    BY <1>1, <2>1, <2>2
  <2>4. stage' \in Seq(Stages) /\ Len(stage') = made
    BY <2>1, <2>3
  <2> QED
    BY <1>1, <1>2, <2>4 DEF Types, clocks, keys
<1>5. \A p \in Devices : Reckoned(p)'
  BY <1>1 DEF IInv, Reckoned, clocks
<1>6. Entered'
  BY <1>1 DEF IInv, Entered, Written, Latest, Increasing, LastId, keys, Made
<1>7. OverwrittenByChance'
  <2> SUFFICES ASSUME NEW j \in Made, stage'[j] = "overwritten"
               PROVE  \E k \in Made :
                        /\ entry[k].list = entry[j].list
                        /\ entry[k].id = entry[j].id /\ entry[k].time = entry[j].time
                        /\ entry[k].dev # entry[j].dev \/ entry[k].run # entry[j].run
    BY <1>1 DEF OverwrittenByChance, Made
  <2>1. CASE stage[j] = "overwritten"
    BY <2>1 DEF IInv, OverwrittenByChance
  <2>2. CASE stage[j] # "overwritten"
    <3>1. j # i /\ entry[j].list = entry[i].list /\ entry[j].id = entry[i].id
      BY <1>1, <2>2
    <3>2. entry[i].time = entry[j].time
      BY <1>3, <3>1, SameTime DEF IInv, Entered
    <3>3. entry[i].dev # entry[j].dev \/ entry[i].run # entry[j].run
      <4>1. i < j \/ j < i
        BY <1>2, <3>1, BoundAssumption DEF Types, Made
      <4>2. ~Less(entry[i].id, entry[j].id) /\ ~Less(entry[j].id, entry[i].id)
        BY <1>3, <3>1, LessIrreflexive DEF Entries, Keys
      <4> QED
        BY <4>1, <4>2 DEF IInv, Entered, Increasing
    <3> QED
      BY <3>1, <3>2, <3>3
  <2> QED
    BY <2>1, <2>2
<1> QED
  BY <1>4, <1>5, <1>6, <1>7 DEF IInv

(* A new app begins a run.                                                 *)
LEMMA RestartKeeps ==
  ASSUME IInv, NEW d \in Devices, Restart(d)
  PROVE  IInv'
<1>1. /\ UNCHANGED <<clocks, made, entry>> /\ Made' = Made
      /\ stage' = [i \in Made |->
           IF entry[i].dev = d /\ stage[i] = "pending" THEN "lost" ELSE stage[i]]
  BY DEF Restart, Made
<1>2. Types
  BY DEF IInv
<1>3. \A j \in Made : stage[j] \in Stages /\ entry[j] \in Entries
  BY <1>2 DEF Types, Made
<1>4. Types'
  <2>1. Made = 1..made /\ made \in Nat
    BY <1>2, BoundAssumption DEF Types, Made
  <2>2. \A j \in Made : stage'[j] \in Stages
    BY <1>1, <1>3 DEF Stages
  <2>3. stage' \in [1..made -> Stages]
    BY <1>1, <2>1, <2>2
  <2>4. stage' \in Seq(Stages) /\ Len(stage') = made
    BY <2>1, <2>3
  <2>5. Zeros \in Chars
    BY DEF Zeros, Chars, Digits
  <2>6. /\ link' \in [Devices -> {"down", "hello", "up"}] /\ hello' \in [Devices -> 0..MaxTime]
        /\ offset' \in [Devices -> Int] /\ run' \in [Devices -> Nat]
        /\ synced' \in [Devices -> BOOLEAN] /\ faults' \in 0..MaxFaults
    BY <1>2, BoundAssumption, TimeAssumption DEF Types, Restart
  <2>7. /\ lastPushTime' \in [Devices -> {0} \cup ServerTimes]
        /\ lastRandChars' \in [Devices -> Chars]
    BY <1>2, <2>5 DEF Types, Restart
  <2> QED
    BY <1>1, <1>2, <2>4, <2>6, <2>7 DEF Types, clocks
<1>5. ASSUME NEW e \in Devices
      PROVE  Reckoned(e)'
  <2>1. UNCHANGED <<now, skew>>
    BY <1>1 DEF clocks
  <2>2. CASE e # d
    <3>1. UNCHANGED <<link[e], hello[e], offset[e], synced[e]>>
      BY <1>2, <2>2 DEF Restart, Types
    <3> QED
      BY <2>1, <3>1 DEF IInv, Reckoned
  <2>3. CASE e = d
    <3>1. link'[d] # "hello" /\ offset'[d] = 0 /\ ~synced'[d]
      BY <1>2 DEF Restart, Types
    <3>2. -(MaxLag + MaxSkew) <= 0 /\ 0 <= MaxSkew
      BY TimeAssumption
    <3> QED
      BY <2>3, <3>1, <3>2 DEF Reckoned
  <2> QED
    BY <2>2, <2>3
<1>6. Entered'
  <2>1. /\ run[d] \in Nat /\ run'[d] = run[d] + 1
        /\ \A p \in Devices \ {d} : /\ LastId(p)' = LastId(p) /\ run'[p] = run[p]
                                    /\ lastPushTime'[p] = lastPushTime[p]
    BY <1>2 DEF Restart, Types, LastId
  <2>2. ASSUME NEW i \in Made, NEW f \in Entries, f = entry[i]
        PROVE  Written(f)' /\ Latest(f)'
    <3>1. Written(f) /\ Latest(f) /\ f.dev \in Devices /\ f.run \in Nat
      BY <2>2 DEF IInv, Entered, Entries
    <3>2. CASE f.dev = d
      <4>1. f.run <= run'[d] /\ f.run # run'[d]
        BY <2>1, <3>1, <3>2 DEF Written
      <4> QED
        BY <3>1, <3>2, <4>1 DEF Written, Latest
    <3>3. CASE f.dev # d
      BY <2>1, <3>1, <3>3 DEF Written, Latest
    <3> QED
      BY <3>2, <3>3
  <2>3. \A i, j \in Made : i < j => Increasing(entry[i], entry[j])
    BY DEF IInv, Entered
  <2>4. Made' = Made /\ entry' = entry
    BY <1>1
  <2>5. ASSUME NEW i \in Made', NEW f, f = entry'[i]
        PROVE  Written(f)' /\ Latest(f)'
    BY <1>3, <2>2, <2>4, <2>5
  <2> QED
    BY <2>3, <2>4, <2>5 DEF Entered, Written, Latest, Increasing, LastId
<1>7. OverwrittenByChance'
  <2>1. \A i \in Made : stage'[i] = "overwritten" => stage[i] = "overwritten"
    BY <1>1
  <2> QED
    BY <1>1, <2>1 DEF IInv, OverwrittenByChance
<1> QED
  BY <1>4, <1>5, <1>6, <1>7 DEF IInv

-----------------------------------------------------------------------------
(* Every step keeps the invariant.                                         *)
LEMMA IInvNext == IInv /\ [Next]_vars => IInv'
<1> SUFFICES ASSUME IInv, [Next]_vars PROVE IInv'
  OBVIOUS
<1>1. CASE Tick
  BY <1>1, TickKeeps
<1>2. ASSUME NEW d \in Devices, SetClock(d)
      PROVE  IInv'
  BY <1>2, SetClockKeeps
<1>3. ASSUME NEW d \in Devices, SendHello(d) \/ OnReady(d) \/ OnDisconnect(d)
      PROVE  IInv'
  BY <1>3, SendHelloKeeps, OnReadyKeeps, OnDisconnectKeeps
<1>4. ASSUME NEW d \in Devices, NEW l \in Lists,
             DrawKey(d, l) \/ CountKey(d, l) \/ OverflowKey(d, l)
      PROVE  IInv'
  BY <1>4, DrawKeyKeeps, CountKeyKeeps, OverflowKeyKeeps
<1>5. ASSUME NEW d \in Devices, StoreEntry(d) \/ Restart(d)
      PROVE  IInv'
  BY <1>5, StoreEntryKeeps, RestartKeeps
<1>6. CASE UNCHANGED vars
  <2>1. UNCHANGED <<now, skew, link, hello, offset, faults, synced>> /\ UNCHANGED <<keys, made, entry, stage>>
    BY <1>6 DEF vars, clocks, keys
  <2>2. Types'
    BY <2>1 DEF IInv, Types, keys
  <2>3. \A d \in Devices : Reckoned(d)'
    BY <2>1 DEF IInv, Reckoned
  <2>4. Entered' /\ OverwrittenByChance'
    BY <2>1, EntriesKept DEF IInv
  <2> QED
    BY <2>2, <2>3, <2>4 DEF IInv
<1> QED
  BY <1>1, <1>2, <1>3, <1>4, <1>5, <1>6 DEF Next

(* The inductive invariant is one.                                         *)
THEOREM Invariance == Spec => []IInv
BY InitIInv, IInvNext, PTL DEF Spec

-----------------------------------------------------------------------------
(* The invariants that TLC checks.                                         *)

(* Every variable has its type, and every key is of the alphabet.          *)
THEOREM TypesHold == Spec => []TypeOK
<1>1. IInv => TypeOK
  BY DEF IInv, Types, TypeOK, Made
<1> QED
  BY <1>1, Invariance, PTL

(* What one phone makes in a run is displayed in the order in which it was *)
(* made.                                                                   *)
THEOREM OwnEntriesInOrderHolds == Spec => []OwnEntriesInOrder
<1>1. IInv => OwnEntriesInOrder
  BY DEF IInv, Entered, Increasing, OwnEntriesInOrder, InOrder, Above
<1> QED
  BY <1>1, Invariance, PTL

(* Entries that were made further apart than a hello may take are          *)
(* displayed in order, if the clocks were not set since the last hello.    *)
THEOREM SyncedEntriesInOrderHolds == Spec => []SyncedEntriesInOrder
<1>1. IInv => SyncedEntriesInOrder
  <2> SUFFICES ASSUME IInv, NEW i \in Made, NEW j \in Made,
                      entry[i].list = entry[j].list, entry[i].synced, entry[j].synced,
                      entry[i].at + MaxLag < entry[j].at
               PROVE  InOrder(i, j)
    BY DEF SyncedEntriesInOrder
  <2>1. PICK e \in Entries, f \in Entries : e = entry[i] /\ f = entry[j]
    BY DEF IInv, Types, Made
  <2>2. Written(e) /\ Written(f)
    BY <2>1 DEF IInv, Entered
  <2>3. /\ e.at \in Int /\ f.at \in Int /\ e.time \in Nat /\ f.time \in Nat
        /\ f.time <= MaxTime + 2 * MaxSkew /\ e.id \in Keys /\ f.id \in Keys
    BY TimeAssumption DEF Entries, ServerTimes, Keys
  <2>4. e.time <= e.at /\ f.at - MaxLag <= f.time
    BY <2>1, <2>2 DEF Written
  <2>5. e.time < f.time
    BY <2>1, <2>3, <2>4, TimeAssumption
  <2>6. Fits(f.time)
    BY <2>3, TimeFits
  <2>7. Less(e.id, f.id)
    BY <2>2, <2>3, <2>5, <2>6, LaterIsGreater DEF Written
  <2> QED
    BY <2>1, <2>7 DEF InOrder, Above
<1> QED
  BY <1>1, Invariance, PTL

(* A stored entry is overwritten only by another phone's, or another       *)
(* run's, of the same millisecond.                                         *)
THEOREM OverwrittenByChanceHolds == Spec => []OverwrittenByChance
<1>1. IInv => OverwrittenByChance
  BY DEF IInv
<1> QED
  BY <1>1, Invariance, PTL

=============================================================================
