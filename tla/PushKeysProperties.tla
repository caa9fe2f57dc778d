------------------------- MODULE PushKeysProperties -------------------------
(***************************************************************************)
(* What the keys of posts and comments guarantee.                          *)
(***************************************************************************)
EXTENDS PushKeys

ServerTimes == 1..(MaxTime + 2 * MaxSkew)

Entries ==
  [list : Lists, dev : Devices, at : Start..MaxTime, time : ServerTimes,
   id : [1..20 -> Digits], run : Nat, synced : BOOLEAN]

(* The type of every variable; in particular every key is of the alphabet, *)
(* and the time in it is a time that has eight digits.                     *)
TypeOK ==
  /\ now \in Start..MaxTime
  /\ skew \in [Devices -> -MaxSkew..MaxSkew]
  /\ link \in [Devices -> {"down", "hello", "up"}]
  /\ hello \in [Devices -> 0..MaxTime]
  /\ offset \in [Devices -> Int]
  /\ lastPushTime \in [Devices -> {0} \cup ServerTimes]
  /\ lastRandChars \in [Devices -> Chars]
  /\ run \in [Devices -> Nat]
  /\ made \in 0..MaxEntries
  /\ \A i \in Made : entry[i] \in Entries /\ stage[i] \in Stages
  /\ faults \in 0..MaxFaults
  /\ synced \in [Devices -> BOOLEAN]

(* Entry i, made before j, is displayed before it: a newer post stands     *)
(* above an older one, a newer comment below.                              *)
InOrder(i, j) == IF entry[i].list = "posts" THEN Above(j, i) ELSE Above(i, j)

(* What one phone makes in a row is displayed in the order in which it was *)
(* made, within a millisecond too, and whichever of posts and comments     *)
(* come in between, across reconnects: within a run.  A run ends where the *)
(* time the phone reckons falls, where the app is started again, and where *)
(* all twelve characters overflow, although the time then stays the same.  *)
OwnEntriesInOrder ==
  \A i, j \in Made :
    /\ i < j
    /\ entry[i].list = entry[j].list
    /\ entry[i].dev = entry[j].dev /\ entry[i].run = entry[j].run
    => InOrder(i, j)

(* Entries of any phones are displayed in the order in which they were     *)
(* made if they were made further apart than a hello may take, however     *)
(* wrong the clocks are, if each phone has had a hello since its clock was *)
(* set.                                                                    *)
SyncedEntriesInOrder ==
  \A i, j \in Made :
    /\ entry[i].list = entry[j].list
    /\ entry[i].synced /\ entry[j].synced
    /\ entry[i].at + MaxLag < entry[j].at
    => InOrder(i, j)

(* A stored entry is overwritten only by chance, by a key that was drawn   *)
(* in the same reckoned millisecond on another phone, or in another run:   *)
(* never by what the same phone makes next.                                *)
OverwrittenByChance ==
  \A i \in Made : stage[i] = "overwritten" =>
    \E j \in Made :
      /\ entry[j].list = entry[i].list
      /\ entry[j].id = entry[i].id /\ entry[j].time = entry[i].time
      /\ entry[j].dev # entry[i].dev \/ entry[j].run # entry[i].run

=============================================================================
