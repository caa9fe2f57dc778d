------------------------------ MODULE PushKeys ------------------------------
(***************************************************************************)
(* The keys of posts and comments, and the order that they give a list.    *)
(*                                                                         *)
(* childByAutoId makes a key of 20 characters: eight for the time, twelve  *)
(* by chance, or counted on from the last key if the time is the same.     *)
(* The time is the phone's clock plus an offset, which the server's hello  *)
(* sets each time a connection is made; until then it is 0.  The clock may *)
(* be wrong, and may be set; a hello is as old as its way has been long.   *)
(*                                                                         *)
(* A character stands for its place in PUSH_CHARS, where characters are in *)
(* the order in which the client compares keys.                            *)
(***************************************************************************)
EXTENDS Integers, Sequences

CONSTANTS
  Devices,      \* phones
  Lists,        \* "posts", and "comments" of one post
  Draws,        \* the twelve characters that chance may give
  Start,        \* when the run starts, in milliseconds
  MaxTime,      \* bound: when it ends
  MaxSkew,      \* how wrong a clock may be
  MaxLag,       \* the longest way of a hello
  MaxEntries,   \* bound: posts and comments, on all phones together
  MaxFaults     \* bound: restarts, lost connections, clocks that are set

Digits == 0..63
Chars  == [1..12 -> Digits]

(* timeStampChars: the last eight digits of a time in base 64.             *)
TimeStampChars(t) ==
  LET t7 == t \div 64   t6 == t7 \div 64   t5 == t6 \div 64   t4 == t5 \div 64
      t3 == t4 \div 64  t2 == t3 \div 64   t1 == t2 \div 64
  IN  << t1 % 64, t2 % 64, t3 % 64, t4 % 64, t5 % 64, t6 % 64, t7 % 64, t % 64 >>

(* Times that have no more than eight digits.                              *)
Fits(t) == ((((((((t \div 64) \div 64) \div 64) \div 64) \div 64) \div 64) \div 64) \div 64) = 0

ASSUME ListsAssumption == Lists \subseteq {"posts", "comments"}

ASSUME DrawsAssumption == Draws \subseteq Chars

ASSUME TimeAssumption ==
  /\ Start \in Nat /\ MaxTime \in Nat /\ Start <= MaxTime
  /\ MaxSkew \in Nat /\ MaxLag \in Nat
  /\ MaxLag + 2 * MaxSkew < Start
  /\ Fits(MaxTime + 2 * MaxSkew)

ASSUME BoundAssumption == MaxEntries \in Nat /\ MaxFaults \in Nat

VARIABLES
  now,            \* the time, which is the server's
  skew,           \* skew[d]: what d's clock is ahead
  link,           \* link[d]: "down", "hello" (a hello is on its way) or "up"
  hello,          \* hello[d]: the time in that hello
  offset,         \* offset[d]: the offset of serverClock
  lastPushTime, lastRandChars,  \* of each phone, for posts and comments alike
  made,           \* how many entries have been made: entry i is the i-th
  entry,          \* entry[i]: what it is and who made it when, with its key
  stage,          \* stage[i]: how far its write has come
  faults,         \* bound
  \* history
  run,            \* run[d]: the time d reckons has not fallen since this run began
  synced          \* d's clock has not been set since the last hello

clocks == <<now, skew>>
keys   == <<lastPushTime, lastRandChars, run>>
vars   == <<clocks, link, hello, offset, keys, made, entry, stage, faults, synced>>

(* "pending": not stored yet.  "stored": in the database.  "overwritten":  *)
(* an entry with the same key was stored later.  "lost": the app died.     *)
Stages == {"pending", "stored", "overwritten", "lost"}

Made == 1..made

(* The name that get: returns.                                             *)
Id(t, chars) ==
  [n \in 1..20 |-> IF n <= 8 THEN TimeStampChars(t)[n] ELSE chars[n - 8]]

(* compareKey: a key of 20 characters is no number, so that they are       *)
(* compared character by character.                                        *)
Less(a, b) ==
  \E n \in 1..20 : a[n] < b[n] /\ \A m \in 1..20 : m < n => a[m] = b[m]

(* Entry i stands above entry j when both are displayed: children come in  *)
(* the order of their keys; getAllPosts puts each at the top of the feed,  *)
(* getAllComments at the bottom of the list.                               *)
Above(i, j) ==
  IF entry[i].list = "posts" THEN Less(entry[j].id, entry[i].id)
                             ELSE Less(entry[i].id, entry[j].id)

Clock(d) == now + skew[d]

(* serverTime: the time that a phone reckons the server has.               *)
ServerTime(d) == Clock(d) + offset[d]

Zeros == [n \in 1..12 |-> 0]

CountedLast(c, i) == [c EXCEPT ![12] = @ + 1]               \* mutant

(* The characters after c: character i is the last that can be counted up. *)
Counted(c, i) ==
  [n \in 1..12 |-> IF n < i THEN c[n] ELSE IF n = i THEN c[n] + 1 ELSE 0]

Init ==
  /\ now = Start
  /\ skew \in [Devices -> -MaxSkew..MaxSkew]
  /\ link = [d \in Devices |-> "down"]
  /\ hello = [d \in Devices |-> 0]
  /\ offset = [d \in Devices |-> 0]
  /\ lastPushTime = [d \in Devices |-> 0]
  /\ lastRandChars = [d \in Devices |-> Zeros]
  /\ run = [d \in Devices |-> 0]
  /\ made = 0 /\ entry = << >> /\ stage = << >>
  /\ faults = 0
  /\ synced = [d \in Devices |-> FALSE]

-----------------------------------------------------------------------------
(* Time and connections.                                                   *)

(* A hello arrives after MaxLag at the latest.                             *)
Tick ==
  /\ now < MaxTime
  /\ \A d \in Devices : link[d] = "hello" => now - hello[d] < MaxLag
  /\ now' = now + 1
  /\ UNCHANGED <<skew, link, hello, offset, keys, made, entry, stage, faults, synced>>

(* The clock of a phone is set, by its user or over the network.           *)
SetClock(d) ==
  /\ faults < MaxFaults
  /\ faults' = faults + 1
  /\ \E s \in -MaxSkew..MaxSkew : skew' = [skew EXCEPT ![d] = s]
  /\ synced' = [synced EXCEPT ![d] = FALSE]
  /\ UNCHANGED <<now, link, hello, offset, keys, made, entry, stage>>

(* The server takes a connection.                                          *)
SendHello(d) ==
  /\ link[d] = "down"
  /\ link' = [link EXCEPT ![d] = "hello"]
  /\ hello' = [hello EXCEPT ![d] = now]
  /\ UNCHANGED <<clocks, offset, keys, made, entry, stage, faults, synced>>

OnReadyTurnedRound(d) ==                                    \* mutant
  /\ link[d] = "hello"
  /\ link' = [link EXCEPT ![d] = "up"]
  /\ hello' = [hello EXCEPT ![d] = 0]
  /\ offset' = [offset EXCEPT ![d] = Clock(d) - hello[d]]
  /\ synced' = [synced EXCEPT ![d] = TRUE]
  /\ UNCHANGED <<clocks, keys, made, entry, stage, faults>>

(* onReady, handleTimestamp, onServerInfoUpdate, updateInfo.               *)
OnReady(d) ==
  /\ link[d] = "hello"
  /\ link' = [link EXCEPT ![d] = "up"]
  /\ hello' = [hello EXCEPT ![d] = 0]
  /\ offset' = [offset EXCEPT ![d] = hello[d] - Clock(d)]
  /\ synced' = [synced EXCEPT ![d] = TRUE]
  /\ UNCHANGED <<clocks, keys, made, entry, stage, faults>>

(* onDisconnect: the offset stays.                                         *)
OnDisconnect(d) ==
  /\ link[d] # "down" /\ faults < MaxFaults
  /\ faults' = faults + 1
  /\ link' = [link EXCEPT ![d] = "down"]
  /\ hello' = [hello EXCEPT ![d] = 0]
  /\ UNCHANGED <<clocks, offset, keys, made, entry, stage, synced>>

-----------------------------------------------------------------------------
(* createPost and createComment: childByAutoId, then setValue.             *)

(* A key from time t and the characters c, in run r, for a new entry.      *)
Push(d, l, t, c, r) ==
  /\ made < MaxEntries
  /\ made' = made + 1
  /\ entry' = Append(entry, [list |-> l, dev |-> d, at |-> now, time |-> t,
                             id |-> Id(t, c), run |-> r, synced |-> synced[d]])
  /\ stage' = Append(stage, "pending")
  /\ lastRandChars' = [lastRandChars EXCEPT ![d] = c]
  /\ UNCHANGED <<clocks, link, hello, offset, faults, synced>>

(* The time is another one than the last: the characters are drawn.        *)
DrawKey(d, l) ==
  LET t == ServerTime(d)
      r == IF lastPushTime[d] < t THEN run[d] ELSE run[d] + 1
  IN  /\ t # lastPushTime[d]
      /\ lastPushTime' = [lastPushTime EXCEPT ![d] = t]
      /\ run' = [run EXCEPT ![d] = r]
      /\ \E c \in Draws : Push(d, l, t, c, r)

CountKeyDrawing(d, l) ==                                    \* mutant
  /\ ServerTime(d) = lastPushTime[d]
  /\ \E c \in Draws : Push(d, l, lastPushTime[d], c, run[d])
  /\ UNCHANGED <<lastPushTime, run>>

CountKeyStuck(d, l) ==                                      \* mutant
  /\ ServerTime(d) = lastPushTime[d]
  /\ Push(d, l, lastPushTime[d], lastRandChars[d], run[d])
  /\ UNCHANGED <<lastPushTime, run>>

(* The same time again: they are counted on.                               *)
CountKey(d, l) ==
  /\ ServerTime(d) = lastPushTime[d]
  /\ \E i \in 1..12 :
       /\ lastRandChars[d][i] < 63
       /\ \A n \in 1..12 : i < n => lastRandChars[d][n] = 63
       /\ Push(d, l, lastPushTime[d], Counted(lastRandChars[d], i), run[d])
  /\ UNCHANGED <<lastPushTime, run>>

(* All twelve are at their end: get: clears them and counts up what lies   *)
(* before the first one in memory, which may be part of lastPushTime (0    *)
(* stands for whatever time that becomes).  Such a key begins no run that  *)
(* the phone had, and ends the one it begins.                              *)
OverflowKey(d, l) ==
  /\ ServerTime(d) = lastPushTime[d]
  /\ \A n \in 1..12 : lastRandChars[d][n] = 63
  /\ Push(d, l, lastPushTime[d], Zeros, run[d] + 1)
  /\ \E t \in {lastPushTime[d], 0} : lastPushTime' = [lastPushTime EXCEPT ![d] = t]
  /\ run' = [run EXCEPT ![d] = @ + 2]

-----------------------------------------------------------------------------
(* The database, and the end of the app.                                   *)

(* The server stores an entry under its key; a phone's come in order.      *)
StoreEntry(d) ==
  \E i \in Made :
    /\ entry[i].dev = d /\ stage[i] = "pending" /\ link[d] = "up"
    /\ \A j \in Made : j < i /\ entry[j].dev = d => stage[j] # "pending"
    /\ stage' = [j \in Made |->
         IF j = i THEN "stored"
         ELSE IF /\ stage[j] = "stored" /\ entry[j].list = entry[i].list
                 /\ entry[j].id = entry[i].id
              THEN "overwritten" ELSE stage[j]]
    /\ UNCHANGED <<clocks, link, hello, offset, keys, made, entry, faults, synced>>

(* The app dies and is launched again: nothing of the client is persisted. *)
Restart(d) ==
  /\ faults < MaxFaults
  /\ faults' = faults + 1
  /\ link' = [link EXCEPT ![d] = "down"]
  /\ hello' = [hello EXCEPT ![d] = 0]
  /\ offset' = [offset EXCEPT ![d] = 0]
  /\ lastPushTime' = [lastPushTime EXCEPT ![d] = 0]
  /\ lastRandChars' = [lastRandChars EXCEPT ![d] = Zeros]
  /\ run' = [run EXCEPT ![d] = @ + 1]
  /\ synced' = [synced EXCEPT ![d] = FALSE]
  /\ stage' = [i \in Made |->
       IF entry[i].dev = d /\ stage[i] = "pending" THEN "lost" ELSE stage[i]]
  /\ UNCHANGED <<clocks, made, entry>>

Next ==
  \/ Tick
  \/ \E d \in Devices :
       \/ SetClock(d)
       \/ SendHello(d) \/ OnReady(d) \/ OnDisconnect(d)
       \/ \E l \in Lists : DrawKey(d, l) \/ CountKey(d, l) \/ OverflowKey(d, l)
       \/ StoreEntry(d)
       \/ Restart(d)

Spec == Init /\ [][Next]_vars

=============================================================================
