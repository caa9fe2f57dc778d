------------------------------ MODULE FeedProofs ------------------------------
(***************************************************************************)
(* Proofs about Feed: the three invariants that TLC checks on one phone    *)
(* hold for any number of phones, places, posts, reads, sheets, moves and  *)
(* faults, and for any radius.                                             *)
(*                                                                         *)
(* The inductive invariant looks at the two queues of each phone.  An      *)
(* answer to a read on its way holds existing posts only, and all those    *)
(* whose reply the phone has received before it (RightDown); a block that  *)
(* waits for the main thread holds existing posts, and all those whose     *)
(* completion runs before it (RightMain).  Once the completion of a post   *)
(* has run, the feed shows it, or a read or its block is still to come, or *)
(* a read has failed (Shows).                                              *)
(***************************************************************************)
EXTENDS FeedProperties, SequenceTheorems, TLAPS

Written == {Located(f) : f \in Coordinates}

Drafts == [dev : Devices, sheet : 1..MaxSheets, fix : Coordinates, at : Places,
           coords : Written]

Messages == [type : {"posts"}, told : SUBSET Nat] \cup [type : {"error"}]
              \cup [type : {"reply"}, post : Nat]

Blocks == [type : {"feed"}, read : Coordinates, told : SUBSET Nat]
            \cup [type : {"noFeed"}] \cup [type : {"reply"}, post : Nat]

Types ==
  /\ made \in 0..MaxPosts
  /\ posts \subseteq Made /\ denied \subseteq Made
  /\ post \in [Made -> Drafts] /\ stage \in [Made -> Stages]
  /\ here \in [Devices -> Places]
  /\ alive \in [Devices -> BOOLEAN]
  /\ fix \in [Devices -> Coordinates]
  /\ sheets \in [Devices -> 0..MaxSheets]
  /\ sheet \in [Devices -> Sheets]
  /\ \A d \in Devices : sheet[d].id <= sheets[d]
  /\ reads \in [Devices -> Seq(Coordinates)]
  /\ listen \in [Devices -> {"idle", "sent", "answered"}]
  /\ \A d \in Devices : listen[d] = "idle" <=> reads[d] = << >>
  /\ down \in [Devices -> Seq(Messages)]
  /\ mainq \in [Devices -> Seq(Blocks)]
  /\ table \in [Devices -> SUBSET Nat]
  /\ spinner \in [Devices -> BOOLEAN] /\ failed \in [Devices -> BOOLEAN]
  /\ shownAt \in [Devices -> Coordinates]
  /\ faults \in 0..MaxFaults /\ moves \in 0..MaxMoves

(* What the stage of a post says of the database.                          *)
Known ==
  \A i \in Made :
    /\ stage[i] \in {"stored", "acked", "done"} => i \in posts
    /\ stage[i] \in {"refused", "denied", "failed"} => i \in denied

Mine(d, i) == i \in Made /\ post[i].dev = d

(* What phone d may display.                                               *)
Exists(d) == posts \cup Pending(d) \cup denied

(* Messages of the server to phone d.                                      *)
RightDown(q, d) ==
  /\ \A n \in 1..Len(q) : q[n].type = "reply" =>
       Mine(d, q[n].post) /\ stage[q[n].post] \in {"stored", "refused"}
  /\ \A n, k \in 1..Len(q) :
       q[n].type = "reply" /\ q[k].type = "reply" /\ q[n].post = q[k].post => n = k
  /\ \A n \in 1..Len(q) : q[n].type = "posts" =>
       /\ q[n].told \subseteq posts
       /\ \A i \in Made : Mine(d, i) /\ stage[i] \in {"acked", "done"} => i \in q[n].told
  /\ \A n, k \in 1..Len(q) :
       n < k /\ q[n].type = "reply" /\ q[k].type = "posts" /\ stage[q[n].post] = "stored"
       => q[n].post \in q[k].told

(* Blocks for the main thread of phone d.                                  *)
RightMain(q, d) ==
  /\ \A n \in 1..Len(q) : q[n].type = "reply" =>
       Mine(d, q[n].post) /\ stage[q[n].post] \in {"acked", "denied"}
  /\ \A n, k \in 1..Len(q) :
       q[n].type = "reply" /\ q[k].type = "reply" /\ q[n].post = q[k].post => n = k
  /\ \A n \in 1..Len(q) : q[n].type = "feed" =>
       /\ q[n].told \subseteq Exists(d)
       /\ \A i \in Made : Mine(d, i) /\ stage[i] = "done" => i \in q[n].told
  /\ \A n, k \in 1..Len(q) :
       n < k /\ q[n].type = "reply" /\ q[k].type = "feed" /\ stage[q[n].post] = "acked"
       => q[n].post \in q[k].told

RightTable(d) == table[d] \subseteq Exists(d)

(* A list is on its way to the screen.                                     *)
Coming(d) ==
  reads[d] # << >> \/ \E n \in 1..Len(mainq[d]) : mainq[d][n].type \in {"feed", "noFeed"}

Shows(d) ==
  alive[d] /\ ~Coming(d) /\ ~failed[d] =>
    \A i \in Made : Mine(d, i) /\ stage[i] = "done" /\ Near(shownAt[d], post[i].coords)
                    => i \in table[d]

PhoneOf(d) ==
  RightDown(down[d], d) /\ RightMain(mainq[d], d) /\ RightTable(d) /\ Shows(d)

Phones == \A d \in Devices : PhoneOf(d)

IInv == Types /\ Known /\ Phones

-----------------------------------------------------------------------------
(* Sequences.                                                              *)

(* Appending keeps the sequence and puts one element at its end.           *)
LEMMA AppendFacts ==
  ASSUME NEW S, NEW q \in Seq(S), NEW x \in S
  PROVE  /\ Append(q, x) \in Seq(S)
         /\ Len(q) \in Nat /\ Len(Append(q, x)) = Len(q) + 1
         /\ \A n \in 1..Len(q) : Append(q, x)[n] = q[n]
         /\ Append(q, x)[Len(q) + 1] = x
         /\ Append(q, x) # << >>
BY AppendProperties

(* Taking the head moves the others one place up.                          *)
LEMMA TailFacts ==
  ASSUME NEW S, NEW q \in Seq(S), q # << >>
  PROVE  /\ Tail(q) \in Seq(S)
         /\ Len(q) \in Nat \ {0} /\ Len(Tail(q)) = Len(q) - 1
         /\ \A n \in 1..Len(Tail(q)) : n + 1 \in 1..Len(q) /\ Tail(q)[n] = q[n + 1]
         /\ Head(q) \in S /\ Head(q) = q[1] /\ 1 \in 1..Len(q)
BY HeadTailProperties

(* The second of two sequences comes after the first.                      *)
LEMMA ConcatFacts ==
  ASSUME NEW S, NEW q \in Seq(S), NEW r \in Seq(S)
  PROVE  /\ q \o r \in Seq(S)
         /\ Len(q) \in Nat /\ Len(r) \in Nat /\ Len(q \o r) = Len(q) + Len(r)
         /\ \A n \in 1..Len(q) : (q \o r)[n] = q[n]
         /\ \A n \in 1..Len(r) : (q \o r)[Len(q) + n] = r[n]
BY ConcatProperties

(* Nothing is at any place of the empty sequence.                          *)
LEMMA EmptyFacts == << >> \in Seq(Messages) /\ << >> \in Seq(Blocks) /\ << >> \in Seq(Coordinates)
                    /\ Len(<< >>) = 0 /\ 1..0 = {}
OBVIOUS

(* A function on 1..n grows by one argument.                               *)
LEMMA GrowFacts ==
  ASSUME NEW S, NEW n \in Nat, NEW f \in [1..n -> S], NEW x \in S
  PROVE  /\ Append(f, x) \in [1..(n + 1) -> S]
         /\ \A i \in 1..n : Append(f, x)[i] = f[i]
         /\ Append(f, x)[n + 1] = x
<1>1. f \in Seq(S) /\ Len(f) = n
  OBVIOUS
<1>2. /\ Append(f, x) \in Seq(S) /\ Len(Append(f, x)) = n + 1
      /\ \A i \in 1..n : Append(f, x)[i] = f[i]
      /\ Append(f, x)[n + 1] = x
  BY <1>1, AppendProperties
<1>3. Append(f, x) \in [1..(n + 1) -> S]
  BY <1>2, ElementOfSeq, LenProperties
<1> QED
  BY <1>2, <1>3

-----------------------------------------------------------------------------
(* Types.                                                                  *)

(* What a sheet may say is a place or the origin; a post is of some place. *)
LEMMA PlaceFacts ==
  /\ Origin \in Coordinates /\ Places \subseteq Coordinates
  /\ \A f \in Coordinates : Located(f) \in Written
  /\ NoSheet \in Sheets
BY BoundAssumption DEF Coordinates, Written, NoSheet, Sheets

(* A new sheet, and what happens to its fields.                            *)
LEMMA SheetFacts ==
  /\ \A id \in 0..MaxSheets : [id |-> id, fix |-> Origin, alert |-> FALSE] \in Sheets
  /\ \A s \in Sheets : \A p \in Coordinates :
       [s EXCEPT !.fix = p] \in Sheets /\ [s EXCEPT !.fix = p].id = s.id
  /\ \A s \in Sheets : \A b \in BOOLEAN :
       [s EXCEPT !.alert = b] \in Sheets /\ [s EXCEPT !.alert = b].id = s.id
BY PlaceFacts DEF Sheets

(* The blocks that one answer makes of the reads under way.                *)
Answers(d, m) ==
  [n \in 1..Len(reads[d]) |->
     IF m.type = "error" THEN [type |-> "noFeed"]
     ELSE [type |-> "feed", read |-> reads[d][n], told |-> Overlaid(d, m.told)]]

(* What is in flight and on screen.                                        *)
QueueTypes ==
  /\ reads \in [Devices -> Seq(Coordinates)]
  /\ listen \in [Devices -> {"idle", "sent", "answered"}]
  /\ \A d \in Devices : listen[d] = "idle" <=> reads[d] = << >>
  /\ down \in [Devices -> Seq(Messages)]
  /\ mainq \in [Devices -> Seq(Blocks)]

(* A read begins.                                                          *)
LEMMA GetTypes ==
  ASSUME QueueTypes, NEW d \in Devices, NEW f \in Coordinates, GetPosts(d, f)
  PROVE  /\ reads' \in [Devices -> Seq(Coordinates)]
         /\ listen' \in [Devices -> {"idle", "sent", "answered"}]
         /\ \A e \in Devices : listen'[e] = "idle" <=> reads'[e] = << >>
         /\ reads'[d] # << >> /\ \A e \in Devices : e # d => reads'[e] = reads[e]
<1>1. PICK r \in Seq(Coordinates) : r = Append(reads[d], f) /\ r # << >>
  BY AppendFacts DEF QueueTypes
<1>2. /\ reads' = [reads EXCEPT ![d] = r]
      /\ listen' = [listen EXCEPT ![d] = IF @ = "idle" THEN "sent" ELSE @]
  BY <1>1 DEF GetPosts
<1> QED
  BY <1>1, <1>2 DEF QueueTypes

(* The answer to the reads of a phone.                                     *)
LEMMA AnswersTypes ==
  ASSUME Types, NEW d \in Devices, NEW m \in Messages, m.type \in {"posts", "error"}
  PROVE  /\ Answers(d, m) \in Seq(Blocks) /\ Len(Answers(d, m)) = Len(reads[d])
         /\ Len(reads[d]) \in Nat
         /\ \A n \in 1..Len(reads[d]) :
              /\ Answers(d, m)[n].type \in {"feed", "noFeed"}
              /\ Answers(d, m)[n].type = "feed" =>
                   m.type = "posts" /\ Answers(d, m)[n].told = Overlaid(d, m.told)
<1>1. reads[d] \in Seq(Coordinates) /\ Len(reads[d]) \in Nat
  BY DEF Types
<1>2. PICK k \in Nat : k = Len(reads[d])
  BY <1>1
<1>3. Pending(d) \subseteq Nat
  BY DEF Pending, Made, Types
<1>4. m.type = "posts" => m.told \subseteq Nat
  BY DEF Messages
<1>5. ASSUME NEW n \in 1..k
      PROVE  /\ Answers(d, m)[n] \in Blocks
             /\ Answers(d, m)[n].type \in {"feed", "noFeed"}
             /\ Answers(d, m)[n].type = "feed" =>
                  m.type = "posts" /\ Answers(d, m)[n].told = Overlaid(d, m.told)
  <2>1. reads[d][n] \in Coordinates
    BY <1>1, <1>2
  <2>2. CASE m.type = "error"
    BY <1>2, <2>2 DEF Answers, Blocks
  <2>3. CASE m.type = "posts"
    <3>1. Answers(d, m)[n] = [type |-> "feed", read |-> reads[d][n], told |-> Overlaid(d, m.told)]
      BY <1>2, <2>3 DEF Answers
    <3>2. Overlaid(d, m.told) \subseteq Nat
      BY <1>3, <1>4, <2>3 DEF Overlaid
    <3> QED
      BY <2>1, <2>3, <3>1, <3>2 DEF Blocks
  <2> QED
    BY <2>2, <2>3
<1>6. Answers(d, m) \in [1..k -> Blocks]
  BY <1>2, <1>5 DEF Answers
<1>7. Answers(d, m) \in Seq(Blocks) /\ Len(Answers(d, m)) = k
  BY <1>2, <1>6
<1> QED
  BY <1>2, <1>5, <1>7

(* The user, and the location service, keep the types.                     *)
LEMMA UserTypes ==
  ASSUME Types, NEW d \in Devices,
         Launch(d) \/ Pull(d) \/ OpenSheet(d) \/ CloseSheet(d) \/ Locate(d) \/ Move(d)
  PROVE  Types'
<1> USE DEF writing, phone, bounds, history
<1>1. QueueTypes
  BY DEF Types, QueueTypes
<1>2. CASE Launch(d)
  <2>1. /\ reads' \in [Devices -> Seq(Coordinates)]
        /\ listen' \in [Devices -> {"idle", "sent", "answered"}]
        /\ \A e \in Devices : listen'[e] = "idle" <=> reads'[e] = << >>
    BY <1>1, <1>2, GetTypes, PlaceFacts DEF Launch
  <2>2. alive' \in [Devices -> BOOLEAN]
    BY <1>2 DEF Launch, Types
  <2>3. UNCHANGED <<shownAt, failed, made, posts, denied, post, stage, here, fix, sheets, sheet, down, mainq,
                    table, spinner, faults, moves>>
    BY <1>2 DEF Launch
  <2> QED
    BY <2>1, <2>2, <2>3 DEF Types, Made
<1>3. CASE Pull(d)
  <2>1. /\ reads' \in [Devices -> Seq(Coordinates)]
        /\ listen' \in [Devices -> {"idle", "sent", "answered"}]
        /\ \A e \in Devices : listen'[e] = "idle" <=> reads'[e] = << >>
    <3>1. fix[d] \in Coordinates
      BY DEF Types
    <3> QED
      BY <1>1, <1>3, <3>1, GetTypes DEF Pull
  <2>2. spinner' \in [Devices -> BOOLEAN]
    BY <1>3 DEF Pull, Types
  <2>3. UNCHANGED <<shownAt, failed, made, posts, denied, post, stage, here, alive, fix, sheets, sheet, down,
                    mainq, table, faults, moves>>
    BY <1>3 DEF Pull
  <2> QED
    BY <2>1, <2>2, <2>3 DEF Types, Made
<1>4. CASE OpenSheet(d)
  <2>1. PICK id \in 1..MaxSheets : id = sheets[d] + 1
    <3>1. sheets[d] \in 0..MaxSheets
      BY DEF Types
    <3>2. sheets[d] < MaxSheets
      BY <1>4 DEF OpenSheet
    <3> QED
      BY <3>1, <3>2, BoundAssumption
  <2>2. PICK new \in Sheets : new = [id |-> id, fix |-> Origin, alert |-> FALSE]
    <3>1. id \in 0..MaxSheets
      BY <2>1, BoundAssumption
    <3> QED
      BY <3>1, SheetFacts
  <2>3. sheet' = [sheet EXCEPT ![d] = new] /\ sheets' = [sheets EXCEPT ![d] = id] /\ new.id = id
    BY <1>4, <2>1, <2>2 DEF OpenSheet
  <2>4. sheet' \in [Devices -> Sheets] /\ sheets' \in [Devices -> 0..MaxSheets]
    BY <2>1, <2>2, <2>3, BoundAssumption DEF Types
  <2>5. \A e \in Devices : sheet'[e].id <= sheets'[e]
    BY <2>1, <2>2, <2>3, <2>4 DEF Types
  <2>6. UNCHANGED <<shownAt, failed, made, posts, denied, post, stage, here, alive, fix, reads, listen, down,
                    mainq, table, spinner, faults, moves>>
    BY <1>4 DEF OpenSheet
  <2> QED
    BY <2>4, <2>5, <2>6 DEF Types, Made
<1>5. CASE CloseSheet(d)
  <2>1. PICK new \in Sheets : /\ sheet' = [sheet EXCEPT ![d] = new]
                              /\ new.id = sheet[d].id \/ new.id = 0
    <3>1. sheet[d] \in Sheets /\ [sheet[d] EXCEPT !.alert = FALSE] \in Sheets
          /\ [sheet[d] EXCEPT !.alert = FALSE].id = sheet[d].id
      BY ZenonT(30) DEF Types, Sheets
    <3>2. NoSheet \in Sheets /\ NoSheet.id = 0
      BY PlaceFacts DEF NoSheet
    <3> QED
      BY <1>5, <3>1, <3>2 DEF CloseSheet
  <2>2. sheet' \in [Devices -> Sheets]
    BY <2>1 DEF Types
  <2>3. sheets[d] \in Nat /\ sheet[d].id <= sheets[d]
    BY BoundAssumption DEF Types
  <2>4. \A e \in Devices : sheet'[e].id <= sheets[e]
    BY <2>1, <2>3 DEF Types
  <2>5. UNCHANGED <<shownAt, failed, made, posts, denied, post, stage, here, alive, fix, sheets, reads, listen,
                    down, mainq, table, spinner, faults, moves>>
    BY <1>5 DEF CloseSheet
  <2> QED
    BY <2>2, <2>4, <2>5 DEF Types, Made
<1>6. CASE Locate(d)
  <2>1. here[d] \in Coordinates
    BY PlaceFacts DEF Types
  <2>2. sheet' \in [Devices -> Sheets] /\ \A e \in Devices : sheet'[e].id <= sheets[e]
    <3>1. CASE sheet' = sheet
      BY <3>1 DEF Types
    <3>2. CASE sheet' = [sheet EXCEPT ![d].fix = here[d]]
      <4>1. PICK new \in Sheets : new = [sheet[d] EXCEPT !.fix = here[d]] /\ new.id = sheet[d].id
        <5>1. sheet[d] \in Sheets
          BY DEF Types
        <5> QED
          BY <2>1, <5>1, SheetFacts
      <4>2. sheet' = [sheet EXCEPT ![d] = new]
        BY <3>2, <4>1
      <4> QED
        BY <4>1, <4>2 DEF Types
    <3> QED
      BY <1>6, <3>1, <3>2 DEF Locate
  <2>3. fix' \in [Devices -> Coordinates]
    BY <1>6, <2>1 DEF Locate, Types
  <2>4. UNCHANGED <<shownAt, failed, made, posts, denied, post, stage, here, alive, sheets, reads, listen, down,
                    mainq, table, spinner, faults, moves>>
    BY <1>6 DEF Locate
  <2> QED
    BY <2>2, <2>3, <2>4 DEF Types, Made
<1>7. CASE Move(d)
  <2>1. here' \in [Devices -> Places]
    BY <1>7 DEF Move, Types
  <2>2. moves' \in 0..MaxMoves
    BY <1>7, BoundAssumption DEF Move, Types
  <2>3. UNCHANGED <<shownAt, failed, made, posts, denied, post, stage, alive, fix, sheets, sheet, reads, listen,
                    down, mainq, table, spinner, faults>>
    BY <1>7 DEF Move
  <2> QED
    BY <2>1, <2>2, <2>3 DEF Types, Made
<1> QED
  BY <1>2, <1>3, <1>4, <1>5, <1>6, <1>7

(* So does a post.                                                         *)
LEMMA PostTypes ==
  ASSUME Types, NEW d \in Devices, Post(d)
  PROVE  /\ Types'
         /\ Made' = Made \cup {made + 1} /\ made + 1 \notin Made
         /\ stage'[made + 1] = "sent" /\ post'[made + 1].dev = d
         /\ \A i \in Made : post'[i] = post[i] /\ stage'[i] = stage[i]
<1> USE DEF phone, bounds, history
<1>1. made \in Nat /\ made' = made + 1 /\ made + 1 \in 0..MaxPosts
  BY BoundAssumption DEF Post, Types
<1>2. Made' = 1..(made + 1) /\ Made' = Made \cup {made + 1} /\ made + 1 \notin Made
  BY <1>1 DEF Made
<1>3. PICK x \in Drafts : /\ x = [dev |-> d, sheet |-> sheet[d].id, fix |-> sheet[d].fix,
                                  at |-> here[d], coords |-> Located(sheet[d].fix)]
                          /\ x.dev = d
  <2>1. sheet[d] \in Sheets /\ sheet[d].id # 0
    BY DEF Post, Types
  <2>2. sheet[d].id \in 1..MaxSheets /\ sheet[d].fix \in Coordinates
    BY <2>1, BoundAssumption DEF Sheets
  <2>3. Located(sheet[d].fix) \in Written /\ here[d] \in Places
    BY <2>2, PlaceFacts DEF Types
  <2>4. [dev |-> d, sheet |-> sheet[d].id, fix |-> sheet[d].fix, at |-> here[d],
         coords |-> Located(sheet[d].fix)] \in Drafts
    BY <2>2, <2>3 DEF Drafts
  <2> QED
    BY <2>4
<1>4. post' = Append(post, x) /\ stage' = Append(stage, "sent")
  BY <1>3 DEF Post
<1>5. /\ post' \in [Made' -> Drafts] /\ post'[made + 1] = x
      /\ \A i \in Made : post'[i] = post[i]
  <2>1. post \in [1..made -> Drafts]
    BY DEF Types, Made
  <2>2. PICK n \in Nat : n = made
    BY <1>1
  <2>3. PICK f \in [1..n -> Drafts] : f = post
    BY <2>1, <2>2
  <2>4. /\ Append(f, x) \in [1..(n + 1) -> Drafts]
        /\ \A i \in 1..n : Append(f, x)[i] = f[i]
        /\ Append(f, x)[n + 1] = x
    <3>1. \A i \in 1..n : Append(f, x)[i] = f[i]
      BY GrowFacts
    <3>2. Append(f, x)[n + 1] = x
      BY GrowFacts
    <3> QED
      BY <3>1, <3>2, GrowFacts
  <2>5. Made = 1..n /\ Made' = 1..(n + 1)
    BY <1>1, <2>2 DEF Made
  <2>6. post' = Append(f, x) /\ post = f
    BY <1>4, <2>3
  <2> QED
    BY <2>2, <2>4, <2>5, <2>6
<1>6. /\ stage' \in [Made' -> Stages] /\ stage'[made + 1] = "sent"
      /\ \A i \in Made : stage'[i] = stage[i]
  <2>1. stage \in [1..made -> Stages] /\ "sent" \in Stages
    BY DEF Types, Made, Stages
  <2>2. PICK n \in Nat : n = made
    BY <1>1
  <2>3. PICK f \in [1..n -> Stages] : f = stage
    BY <2>1, <2>2
  <2>4. PICK s \in Stages : s = "sent"
    BY <2>1
  <2>5. /\ Append(f, s) \in [1..(n + 1) -> Stages]
        /\ \A i \in 1..n : Append(f, s)[i] = f[i]
        /\ Append(f, s)[n + 1] = s
    <3>1. \A i \in 1..n : Append(f, s)[i] = f[i]
      BY GrowFacts
    <3>2. Append(f, s)[n + 1] = s
      BY GrowFacts
    <3> QED
      BY <3>1, <3>2, GrowFacts
  <2>6. Made = 1..n /\ Made' = 1..(n + 1)
    BY <1>1, <2>2 DEF Made
  <2>7. stage' = Append(f, s) /\ stage = f
    BY <1>4, <2>3, <2>4
  <2> QED
    BY <2>2, <2>4, <2>5, <2>6, <2>7
<1>7. UNCHANGED <<shownAt, failed, posts, denied, here, alive, fix, sheets, sheet, reads, listen, down, mainq,
                  table, spinner, faults, moves>>
  BY DEF Post
<1>8. posts \subseteq Made' /\ denied \subseteq Made' /\ made' \in 0..MaxPosts
  BY <1>1, <1>2 DEF Types
<1>9. Types'
  BY <1>5, <1>6, <1>7, <1>8 DEF Types
<1> QED
  BY <1>2, <1>3, <1>5, <1>6, <1>9

(* A message to a phone.                                                   *)
LEMMA SendTypes ==
  ASSUME Types, NEW d \in Devices, NEW m \in Messages,
         down' = [down EXCEPT ![d] = Append(@, m)]
  PROVE  down' \in [Devices -> Seq(Messages)]
<1>1. PICK r \in Seq(Messages) : r = Append(down[d], m)
  BY AppendFacts DEF Types
<1>2. down' = [down EXCEPT ![d] = r]
  BY <1>1
<1> QED
  BY <1>1, <1>2 DEF Types

(* So does the server.                                                     *)
LEMMA ServerTypes ==
  ASSUME Types, NEW d \in Devices,
         \/ AnswerRead(d) \/ RefuseRead(d) \/ Disconnect(d)
         \/ \E i \in Made : StorePost(d, i) \/ RefusePost(d, i)
  PROVE  Types'
<1> USE DEF writing, phone, bounds, history
<1>1. faults < MaxFaults => faults + 1 \in 0..MaxFaults
  BY BoundAssumption DEF Types
<1>2. CASE AnswerRead(d) \/ RefuseRead(d)
  <2>1. PICK m \in Messages : down' = [down EXCEPT ![d] = Append(@, m)]
    <3>1. [type |-> "posts", told |-> posts] \in Messages /\ [type |-> "error"] \in Messages
      BY DEF Messages, Types, Made
    <3> QED
      BY <1>2, <3>1 DEF AnswerRead, RefuseRead
  <2>2. down' \in [Devices -> Seq(Messages)]
    BY <2>1, SendTypes
  <2>3. listen[d] = "sent" /\ listen' = [listen EXCEPT ![d] = "answered"]
    BY <1>2 DEF AnswerRead, RefuseRead
  <2>4. /\ listen' \in [Devices -> {"idle", "sent", "answered"}]
        /\ \A e \in Devices : listen'[e] = "idle" <=> reads[e] = << >>
    BY <2>3 DEF Types
  <2>5. faults' \in 0..MaxFaults
    BY <1>1, <1>2 DEF AnswerRead, RefuseRead, Types
  <2>6. UNCHANGED <<shownAt, failed, made, posts, denied, post, stage, here, alive, fix, sheets, sheet, reads,
                    mainq, table, spinner, moves>>
    BY <1>2 DEF AnswerRead, RefuseRead
  <2> QED
    BY <2>2, <2>4, <2>5, <2>6 DEF Types, Made
<1>3. ASSUME NEW i \in Made, StorePost(d, i) \/ RefusePost(d, i)
      PROVE  Types'
  <2>1. PICK m \in Messages : down' = [down EXCEPT ![d] = Append(@, m)]
    <3>1. i \in Nat
      BY DEF Made, Types
    <3>2. [type |-> "reply", post |-> i] \in Messages
      BY <3>1 DEF Messages
    <3> QED
      BY <1>3, <3>2 DEF StorePost, RefusePost
  <2>2. down' \in [Devices -> Seq(Messages)]
    BY <2>1, SendTypes
  <2>3. stage' \in [Made -> Stages]
    BY ZenonT(30), <1>3 DEF StorePost, RefusePost, Types, Stages
  <2>4. posts' \subseteq Made /\ denied' \subseteq Made
    BY <1>3 DEF StorePost, RefusePost, Types
  <2>5. faults' \in 0..MaxFaults
    BY <1>1, <1>3 DEF StorePost, RefusePost, Types
  <2>6. UNCHANGED <<shownAt, failed, made, post, here, alive, fix, sheets, sheet, reads, listen, mainq, table,
                    spinner, moves>>
    BY <1>3 DEF StorePost, RefusePost
  <2>7. Made' = Made
    BY <2>6 DEF Made
  <2> QED
    BY <2>2, <2>3, <2>4, <2>5, <2>6, <2>7 DEF Types
<1>4. CASE Disconnect(d)
  <2>1. down' \in [Devices -> Seq(Messages)]
    BY <1>4, EmptyFacts DEF Disconnect, Types
  <2>2. /\ listen' \in [Devices -> {"idle", "sent", "answered"}]
        /\ \A e \in Devices : listen'[e] = "idle" <=> reads[e] = << >>
    BY <1>4 DEF Disconnect, Types
  <2>3. stage' \in [Made -> Stages]
    <3>1. \A i \in Made : stage[i] \in Stages
      BY DEF Types
    <3> QED
      BY <1>4, <3>1 DEF Disconnect, Stages
  <2>4. faults' \in 0..MaxFaults
    BY <1>1, <1>4 DEF Disconnect
  <2>5. UNCHANGED <<shownAt, failed, made, posts, denied, post, here, alive, fix, sheets, sheet, reads, mainq,
                    table, spinner, moves>>
    BY <1>4 DEF Disconnect
  <2>6. Made' = Made
    BY <2>5 DEF Made
  <2> QED
    BY <2>1, <2>2, <2>3, <2>4, <2>5, <2>6 DEF Types
<1> QED
  BY <1>2, <1>3, <1>4

(* So does the client.                                                     *)
LEMMA ClientTypes ==
  ASSUME Types, NEW d \in Devices, DeliverPosts(d) \/ DeliverReply(d)
  PROVE  Types'
<1> USE DEF writing, phone, bounds, history
<1>1. PICK m \in Messages : m = Head(down[d])
  BY TailFacts DEF DeliverPosts, DeliverReply, Types
<1>2. down' \in [Devices -> Seq(Messages)]
  <2>1. PICK r \in Seq(Messages) : r = Tail(down[d])
    BY TailFacts DEF DeliverPosts, DeliverReply, Types
  <2>2. down' = [down EXCEPT ![d] = r]
    BY <2>1 DEF DeliverPosts, DeliverReply
  <2> QED
    BY <2>1, <2>2 DEF Types
<1>3. CASE DeliverPosts(d)
  <2>1. mainq' \in [Devices -> Seq(Blocks)]
    <3>1. m.type \in {"posts", "error"}
      BY <1>1, <1>3 DEF DeliverPosts
    <3>2. PICK b \in Seq(Blocks) : b = Answers(d, m)
      BY <3>1, AnswersTypes
    <3>3. PICK r \in Seq(Blocks) : r = mainq[d] \o b
      BY ConcatFacts DEF Types
    <3>4. mainq' = [mainq EXCEPT ![d] = r]
      BY <1>1, <1>3, <3>2, <3>3 DEF DeliverPosts, Answers
    <3> QED
      BY <3>3, <3>4 DEF Types
  <2>2. /\ listen' \in [Devices -> {"idle", "sent", "answered"}]
        /\ reads' \in [Devices -> Seq(Coordinates)]
        /\ \A e \in Devices : listen'[e] = "idle" <=> reads'[e] = << >>
    BY <1>3, EmptyFacts DEF DeliverPosts, Types
  <2>3. UNCHANGED <<shownAt, failed, made, posts, denied, post, stage, here, alive, fix, sheets, sheet, table,
                    spinner, faults, moves>>
    BY <1>3 DEF DeliverPosts
  <2> QED
    BY <1>2, <2>1, <2>2, <2>3 DEF Types, Made
<1>4. CASE DeliverReply(d)
  <2>1. m.type = "reply" /\ m.post \in Nat
    BY <1>1, <1>4 DEF DeliverReply, Messages
  <2>2. mainq' \in [Devices -> Seq(Blocks)]
    <3>1. PICK b \in Blocks : b = [type |-> "reply", post |-> m.post]
      BY <2>1 DEF Blocks
    <3>2. PICK r \in Seq(Blocks) : r = Append(mainq[d], b)
      BY AppendFacts DEF Types
    <3>3. mainq' = [mainq EXCEPT ![d] = r]
      BY <1>1, <1>4, <3>1, <3>2 DEF DeliverReply
    <3> QED
      BY <3>2, <3>3 DEF Types
  <2>3. stage' \in [Made -> Stages]
    BY <1>4 DEF DeliverReply, Types, Stages
  <2>4. UNCHANGED <<shownAt, failed, made, posts, denied, post, here, alive, fix, sheets, sheet, reads, listen,
                    table, spinner, faults, moves>>
    BY <1>4 DEF DeliverReply
  <2>5. Made' = Made
    BY <2>4 DEF Made
  <2> QED
    BY <1>2, <2>2, <2>3, <2>4, <2>5 DEF Types
<1> QED
  BY <1>3, <1>4

(* So does the main thread.                                                *)
LEMMA MainTypes ==
  ASSUME Types, NEW d \in Devices, MainThread(d)
  PROVE  Types'
<1> USE DEF writing, phone, bounds, history
<1>1. PICK b \in Blocks : b = Head(mainq[d])
  BY TailFacts DEF MainThread, ShowFeed, NoFeed, Posted, NotPosted, Types
<1>2. mainq' \in [Devices -> Seq(Blocks)]
  <2>1. PICK r \in Seq(Blocks) : r = Tail(mainq[d])
    BY TailFacts DEF MainThread, ShowFeed, NoFeed, Posted, NotPosted, Types
  <2>2. mainq' = [mainq EXCEPT ![d] = r]
    BY <2>1 DEF MainThread, ShowFeed, NoFeed, Posted, NotPosted
  <2> QED
    BY <2>1, <2>2 DEF Types
<1>3. CASE ShowFeed(d)
  <2>1. b.told \in SUBSET Nat
    BY <1>1, <1>3 DEF ShowFeed, Blocks
  <2>2. table' \in [Devices -> SUBSET Nat]
    <3>1. PICK T : T = {i \in b.told : Near(b.read, post[i].coords)}
      OBVIOUS
    <3>2. T \in SUBSET Nat /\ table' = [table EXCEPT ![d] = T]
      BY <1>1, <1>3, <2>1, <3>1 DEF ShowFeed
    <3> QED
      BY <3>2 DEF Types
  <2>3. /\ spinner' \in [Devices -> BOOLEAN] /\ failed' \in [Devices -> BOOLEAN]
        /\ shownAt' \in [Devices -> Coordinates]
    <3>1. b.read \in Coordinates /\ shownAt' = [shownAt EXCEPT ![d] = b.read]
      BY <1>1, <1>3 DEF ShowFeed, Blocks
    <3> QED
      BY <1>3, <3>1 DEF ShowFeed, Types
  <2>4. UNCHANGED <<made, posts, denied, post, stage, here, alive, fix, sheets, sheet, reads,
                    listen, down, faults, moves>>
    BY <1>3 DEF ShowFeed
  <2> QED
    BY <1>2, <2>2, <2>3, <2>4 DEF Types, Made
<1>4. CASE NoFeed(d)
  <2>1. UNCHANGED <<made, posts, denied, post, stage, here, alive, fix, sheets, sheet, reads,
                    listen, down, table, spinner, faults, moves>>
    BY <1>4 DEF NoFeed
  <2>2. failed' \in [Devices -> BOOLEAN] /\ UNCHANGED shownAt
    BY <1>4 DEF NoFeed, Types
  <2> QED
    BY <1>2, <2>1, <2>2 DEF Types, Made
<1>5. CASE Posted(d) \/ NotPosted(d)
  <2>1. PICK new \in Sheets :
          /\ sheet' = sheet \/ sheet' = [sheet EXCEPT ![d] = new]
          /\ new.id = sheet[d].id \/ new.id = 0
    <3>1. PICK s \in Sheets : s = sheet[d]
      BY DEF Types
    <3>2. /\ [s EXCEPT !.alert = FALSE] \in Sheets /\ [s EXCEPT !.alert = FALSE].id = s.id
          /\ [s EXCEPT !.alert = TRUE] \in Sheets /\ [s EXCEPT !.alert = TRUE].id = s.id
      BY <3>1, SheetFacts
    <3>3. NoSheet \in Sheets /\ NoSheet.id = 0
      BY PlaceFacts DEF NoSheet
    <3>4. \/ sheet' = sheet
          \/ sheet' = [sheet EXCEPT ![d] = [s EXCEPT !.alert = FALSE]]
          \/ sheet' = [sheet EXCEPT ![d] = [s EXCEPT !.alert = TRUE]]
          \/ sheet' = [sheet EXCEPT ![d] = NoSheet]
      BY <1>5, <3>1 DEF Posted, NotPosted
    <3> QED
      BY <3>1, <3>2, <3>3, <3>4
  <2>2. sheet' \in [Devices -> Sheets]
    BY <2>1 DEF Types
  <2>3. sheets[d] \in Nat /\ sheet[d].id <= sheets[d]
    BY BoundAssumption DEF Types
  <2>4. \A e \in Devices : sheet'[e].id <= sheets[e]
    <3>1. new.id <= sheets[d] /\ \A e \in Devices : sheet[e].id <= sheets[e]
      BY <2>1, <2>3 DEF Types
    <3>2. CASE sheet' = sheet
      BY <3>1, <3>2
    <3>3. CASE sheet' = [sheet EXCEPT ![d] = new]
      BY <3>1, <3>3 DEF Types
    <3> QED
      BY <2>1, <3>2, <3>3
  <2>5. stage' \in [Made -> Stages]
    BY <1>5 DEF Posted, NotPosted, Types, Stages
  <2>6. /\ listen' \in [Devices -> {"idle", "sent", "answered"}]
        /\ reads' \in [Devices -> Seq(Coordinates)]
        /\ \A e \in Devices : listen'[e] = "idle" <=> reads'[e] = << >>
    <3>1. CASE Posted(d)
      <4>1. QueueTypes /\ fix[d] \in Coordinates
        BY DEF QueueTypes, Types
      <4> QED
        BY <3>1, <4>1, GetTypes DEF Posted
    <3>2. CASE NotPosted(d)
      BY <3>2 DEF NotPosted, Types
    <3> QED
      BY <1>5, <3>1, <3>2
  <2>7. UNCHANGED <<shownAt, failed, made, posts, denied, post, here, alive, fix, sheets, down, table, spinner,
                    faults, moves>>
    BY <1>5 DEF Posted, NotPosted
  <2>8. Made' = Made
    BY <2>7 DEF Made
  <2> QED
    BY <1>2, <2>2, <2>4, <2>5, <2>6, <2>7, <2>8 DEF Types
<1> QED
  BY <1>3, <1>4, <1>5 DEF MainThread

(* So does the end of the app.                                             *)
LEMMA KillTypes ==
  ASSUME Types, NEW d \in Devices, Kill(d)
  PROVE  Types'
<1> USE DEF writing, phone, bounds, history
<1>1. faults' \in 0..MaxFaults
  BY BoundAssumption DEF Kill, Types
<1>2. /\ alive' \in [Devices -> BOOLEAN] /\ spinner' \in [Devices -> BOOLEAN]
      /\ table' \in [Devices -> SUBSET Nat] /\ failed' \in [Devices -> BOOLEAN]
  BY DEF Kill, Types
<1>3. fix' \in [Devices -> Coordinates] /\ shownAt' \in [Devices -> Coordinates]
  BY PlaceFacts DEF Kill, Types
<1>4. sheet' \in [Devices -> Sheets] /\ \A e \in Devices : sheet'[e].id <= sheets[e]
  <2>1. PICK s \in Sheets : s = NoSheet /\ s.id = 0
    BY PlaceFacts DEF NoSheet
  <2>2. sheet' = [sheet EXCEPT ![d] = s] /\ sheets[d] \in Nat
    BY <2>1, BoundAssumption DEF Kill, Types
  <2> QED
    BY <2>1, <2>2 DEF Types
<1>5. /\ listen' \in [Devices -> {"idle", "sent", "answered"}]
      /\ reads' \in [Devices -> Seq(Coordinates)]
      /\ \A e \in Devices : listen'[e] = "idle" <=> reads'[e] = << >>
  BY EmptyFacts DEF Kill, Types
<1>6. down' \in [Devices -> Seq(Messages)] /\ mainq' \in [Devices -> Seq(Blocks)]
  BY EmptyFacts DEF Kill, Types
<1>7. stage' \in [Made -> Stages]
  <2>1. \A i \in Made : stage[i] \in Stages
    BY DEF Types
  <2> QED
    BY <2>1 DEF Kill, Stages
<1>8. UNCHANGED <<made, posts, denied, post, here, sheets, moves>> /\ Made' = Made
  BY DEF Kill, Made
<1> QED
  BY <1>1, <1>2, <1>3, <1>4, <1>5, <1>6, <1>7, <1>8 DEF Types

-----------------------------------------------------------------------------
(* What a step leaves alone.                                               *)

(* The posts there are stay, and keep what was written; new ones have just *)
(* been sent.                                                              *)
Grows ==
  /\ Made \subseteq Made' /\ posts \subseteq posts' /\ denied \subseteq denied'
  /\ \A i \in Made : post'[i] = post[i]
  /\ \A i \in Made' \ Made : stage'[i] = "sent"

(* The posts of phone e keep their stages.                                 *)
Calm(e) == Grows /\ \A i \in Made : post[i].dev = e => stage'[i] = stage[i]

(* So does what phone e has in flight and on screen.                       *)
Still(e) ==
  /\ alive'[e] = alive[e] /\ reads'[e] = reads[e] /\ down'[e] = down[e]
  /\ mainq'[e] = mainq[e] /\ table'[e] = table[e] /\ failed'[e] = failed[e]
  /\ shownAt'[e] = shownAt[e]

(* Messages stay right if the stages they tell of do.                      *)
LEMMA DownFrame ==
  ASSUME Types, NEW d \in Devices, NEW q, RightDown(q, d), Grows,
         \A i \in Made : post[i].dev = d =>
           /\ stage[i] \in {"stored", "refused"} => stage'[i] = stage[i]
           /\ stage'[i] \in {"acked", "done"} => stage[i] \in {"acked", "done"}
  PROVE  RightDown(q, d)'
<1>1. ASSUME NEW n \in 1..Len(q), q[n].type = "reply"
      PROVE  /\ Mine(d, q[n].post)'
             /\ stage'[q[n].post] = stage[q[n].post]
             /\ stage[q[n].post] \in {"stored", "refused"}
  BY <1>1 DEF RightDown, Mine, Grows
<1>2. ASSUME NEW i \in Made', Mine(d, i)', stage'[i] \in {"acked", "done"}
      PROVE  i \in Made /\ Mine(d, i) /\ stage[i] \in {"acked", "done"}
  BY <1>2 DEF Mine, Grows
<1>3. ASSUME NEW n \in 1..Len(q), q[n].type = "posts"
      PROVE  /\ q[n].told \subseteq posts'
             /\ \A i \in Made' : Mine(d, i)' /\ stage'[i] \in {"acked", "done"} => i \in q[n].told
  BY <1>2, <1>3 DEF RightDown, Grows
<1>4. \A n, k \in 1..Len(q) :
        q[n].type = "reply" /\ q[k].type = "reply" /\ q[n].post = q[k].post => n = k
  BY DEF RightDown
<1>5. \A n, k \in 1..Len(q) :
        n < k /\ q[n].type = "reply" /\ q[k].type = "posts" /\ stage'[q[n].post] = "stored"
        => q[n].post \in q[k].told
  BY <1>1 DEF RightDown
<1> QED
  BY <1>1, <1>3, <1>4, <1>5 DEF RightDown

(* So do blocks.                                                           *)
LEMMA MainFrame ==
  ASSUME Types, NEW d \in Devices, NEW q, RightMain(q, d), Grows, Exists(d) \subseteq Exists(d)',
         \A i \in Made : post[i].dev = d =>
           /\ stage[i] \in {"acked", "denied"} => stage'[i] = stage[i]
           /\ stage'[i] = "done" => stage[i] = "done"
  PROVE  RightMain(q, d)'
<1>1. ASSUME NEW n \in 1..Len(q), q[n].type = "reply"
      PROVE  /\ Mine(d, q[n].post)'
             /\ stage'[q[n].post] = stage[q[n].post]
             /\ stage[q[n].post] \in {"acked", "denied"}
  BY <1>1 DEF RightMain, Mine, Grows
<1>2. ASSUME NEW i \in Made', Mine(d, i)', stage'[i] = "done"
      PROVE  i \in Made /\ Mine(d, i) /\ stage[i] = "done"
  BY <1>2 DEF Mine, Grows
<1>3. ASSUME NEW n \in 1..Len(q), q[n].type = "feed"
      PROVE  /\ q[n].told \subseteq Exists(d)'
             /\ \A i \in Made' : Mine(d, i)' /\ stage'[i] = "done" => i \in q[n].told
  BY <1>2, <1>3 DEF RightMain
<1>4. \A n, k \in 1..Len(q) :
        q[n].type = "reply" /\ q[k].type = "reply" /\ q[n].post = q[k].post => n = k
  BY DEF RightMain
<1>5. \A n, k \in 1..Len(q) :
        n < k /\ q[n].type = "reply" /\ q[k].type = "feed" /\ stage'[q[n].post] = "acked"
        => q[n].post \in q[k].told
  BY <1>1 DEF RightMain
<1> QED
  BY <1>1, <1>3, <1>4, <1>5 DEF RightMain

(* What is shown stays right if nothing arrives on the screen.             *)
LEMMA ShowsFrame ==
  ASSUME Types, NEW d \in Devices, Shows(d), Grows,
         \A i \in Made : post[i].dev = d /\ stage'[i] = "done" => stage[i] = "done",
         table'[d] = table[d], shownAt'[d] = shownAt[d],
         alive'[d] /\ ~Coming(d)' /\ ~failed'[d] => alive[d] /\ ~Coming(d) /\ ~failed[d]
  PROVE  Shows(d)'
<1>1. ASSUME NEW i \in Made', Mine(d, i)', stage'[i] = "done"
      PROVE  i \in Made /\ Mine(d, i) /\ stage[i] = "done" /\ post'[i] = post[i]
  BY <1>1 DEF Mine, Grows
<1> QED
  BY <1>1 DEF Shows

(* What may be displayed may still be.                                     *)
LEMMA CalmExists ==
  ASSUME Types, NEW d \in Devices, Calm(d)
  PROVE  Exists(d) \subseteq Exists(d)'
BY DEF Exists, Pending, Calm, Grows

(* A step that is none of phone e's.                                       *)
LEMMA Elsewhere ==
  ASSUME Types, NEW e \in Devices, PhoneOf(e), Calm(e), Still(e)
  PROVE  PhoneOf(e)'
<1>1. Grows /\ Exists(e) \subseteq Exists(e)'
  BY CalmExists DEF Calm
<1>2. PICK q : q = down[e] /\ down'[e] = q
  BY DEF Still
<1>3. RightDown(q, e)'
  <2>1. RightDown(q, e)
    BY <1>2 DEF PhoneOf
  <2> QED
    BY <1>1, <2>1, DownFrame DEF Calm
<1>4. PICK r : r = mainq[e] /\ mainq'[e] = r
  BY DEF Still
<1>5. RightMain(r, e)'
  <2>1. RightMain(r, e)
    BY <1>4 DEF PhoneOf
  <2> QED
    BY <1>1, <2>1, MainFrame DEF Calm
<1>6. RightTable(e)'
  BY <1>1 DEF PhoneOf, RightTable, Still
<1>7. Shows(e)'
  <2>1. Coming(e)' <=> Coming(e)
    BY DEF Coming, Still
  <2>2. Shows(e) /\ \A i \in Made : post[i].dev = e /\ stage'[i] = "done" => stage[i] = "done"
    BY DEF PhoneOf, Calm
  <2> QED
    BY <1>1, <2>1, <2>2, ShowsFrame DEF Still
<1> QED
  BY <1>2, <1>3, <1>4, <1>5, <1>6, <1>7 DEF PhoneOf

(* A step that keeps the queues of phone d, with all of its posts.         *)
LEMMA QueuesKept ==
  ASSUME Types, NEW d \in Devices, PhoneOf(d), Calm(d), down'[d] = down[d], mainq'[d] = mainq[d]
  PROVE  RightDown(down[d], d)' /\ RightMain(mainq[d], d)' /\ Exists(d) \subseteq Exists(d)'
<1>1. Grows /\ Exists(d) \subseteq Exists(d)'
  BY CalmExists DEF Calm
<1>2. PICK q : q = down[d] /\ down'[d] = q
  OBVIOUS
<1>3. RightDown(q, d)'
  <2>1. RightDown(q, d)
    BY <1>2 DEF PhoneOf
  <2> QED
    BY <1>1, <2>1, DownFrame DEF Calm
<1>4. PICK r : r = mainq[d] /\ mainq'[d] = r
  OBVIOUS
<1>5. RightMain(r, d)'
  <2>1. RightMain(r, d)
    BY <1>4 DEF PhoneOf
  <2> QED
    BY <1>1, <2>1, MainFrame DEF Calm
<1> QED
  BY <1>1, <1>2, <1>3, <1>4, <1>5

(* The phone of a step, queue by queue.                                    *)
LEMMA PhoneIs ==
  ASSUME NEW d \in Devices, NEW q, NEW r, down'[d] = q, mainq'[d] = r,
         RightDown(q, d)', RightMain(r, d)', RightTable(d)', Shows(d)'
  PROVE  PhoneOf(d)'
BY DEF PhoneOf

-----------------------------------------------------------------------------
(* The ends of the queues.                                                 *)

(* A message at the end: a reply of a post that no other message tells of, *)
(* or posts among which are all that phone d was or will be told of.       *)
LEMMA DownAppend ==
  ASSUME NEW d \in Devices, NEW q \in Seq(Messages), NEW m \in Messages, NEW r,
         r = Append(q, m), RightDown(q, d)',
         m.type = "reply" =>
           /\ Mine(d, m.post)' /\ stage'[m.post] \in {"stored", "refused"}
           /\ \A n \in 1..Len(q) : q[n].type = "reply" => q[n].post # m.post,
         m.type = "posts" =>
           /\ m.told \subseteq posts'
           /\ \A i \in Made' : Mine(d, i)' /\ stage'[i] \in {"stored", "acked", "done"}
                               => i \in m.told
  PROVE  RightDown(r, d)'
<1>1. /\ Len(q) \in Nat /\ Len(r) = Len(q) + 1 /\ r[Len(q) + 1] = m
      /\ \A n \in 1..Len(q) : r[n] = q[n]
  BY AppendFacts
<1>2. \A n \in 1..Len(r) : (n \in 1..Len(q) /\ r[n] = q[n]) \/ (n = Len(q) + 1 /\ r[n] = m)
  <2>1. \A n \in 1..Len(r) : n \in 1..Len(q) \/ n = Len(q) + 1
    BY <1>1
  <2> QED
    BY <1>1, <2>1
<1>3. \A n \in 1..Len(r) : r[n].type = "reply" =>
        Mine(d, r[n].post)' /\ stage'[r[n].post] \in {"stored", "refused"}
  BY <1>2 DEF RightDown
<1>4. \A n, k \in 1..Len(r) :
        r[n].type = "reply" /\ r[k].type = "reply" /\ r[n].post = r[k].post => n = k
  BY <1>2 DEF RightDown
<1>5. \A n \in 1..Len(r) : r[n].type = "posts" =>
        /\ r[n].told \subseteq posts'
        /\ \A i \in Made' : Mine(d, i)' /\ stage'[i] \in {"acked", "done"} => i \in r[n].told
  BY <1>2 DEF RightDown
<1>6. ASSUME NEW n \in 1..Len(r), NEW k \in 1..Len(r), n < k,
             r[n].type = "reply", r[k].type = "posts", stage'[r[n].post] = "stored"
      PROVE  r[n].post \in r[k].told
  <2>1. n \in 1..Len(q) /\ r[n] = q[n]
    BY <1>1, <1>2, <1>6
  <2>2. CASE k \in 1..Len(q) /\ r[k] = q[k]
    BY <1>6, <2>1, <2>2 DEF RightDown
  <2>3. CASE r[k] = m
    <3>1. Mine(d, r[n].post)' /\ r[n].post \in Made'
      BY <1>3, <1>6 DEF Mine
    <3> QED
      BY <1>6, <2>3, <3>1
  <2> QED
    BY <1>2, <2>2, <2>3
<1> QED
  BY <1>3, <1>4, <1>5, <1>6 DEF RightDown

(* The first message goes: what it said of the others holds on.            *)
LEMMA DownTail ==
  ASSUME NEW d \in Devices, NEW q \in Seq(Messages), q # << >>, NEW t, t = Tail(q),
         RightDown(q, d)
  PROVE  /\ RightDown(t, d)
         /\ q[1].type = "reply" => Mine(d, q[1].post) /\ stage[q[1].post] \in {"stored", "refused"}
         /\ q[1].type = "posts" =>
              /\ q[1].told \subseteq posts
              /\ \A i \in Made : Mine(d, i) /\ stage[i] \in {"acked", "done"} => i \in q[1].told
<1>1. /\ Len(q) \in Nat \ {0} /\ Len(t) = Len(q) - 1 /\ 1 \in 1..Len(q)
      /\ \A n \in 1..Len(t) : n + 1 \in 1..Len(q) /\ t[n] = q[n + 1]
  BY TailFacts
<1>2. RightDown(t, d)
  <2>1. \A n \in 1..Len(t) : t[n].type = "reply" =>
          Mine(d, t[n].post) /\ stage[t[n].post] \in {"stored", "refused"}
    BY <1>1 DEF RightDown
  <2>2. \A n, k \in 1..Len(t) :
          t[n].type = "reply" /\ t[k].type = "reply" /\ t[n].post = t[k].post => n = k
    BY <1>1 DEF RightDown
  <2>3. \A n \in 1..Len(t) : t[n].type = "posts" =>
          /\ t[n].told \subseteq posts
          /\ \A i \in Made : Mine(d, i) /\ stage[i] \in {"acked", "done"} => i \in t[n].told
    BY <1>1 DEF RightDown
  <2>4. \A n, k \in 1..Len(t) :
          n < k /\ t[n].type = "reply" /\ t[k].type = "posts" /\ stage[t[n].post] = "stored"
          => t[n].post \in t[k].told
    BY <1>1 DEF RightDown
  <2> QED
    BY <2>1, <2>2, <2>3, <2>4 DEF RightDown
<1>3. q[1].type = "reply" => Mine(d, q[1].post) /\ stage[q[1].post] \in {"stored", "refused"}
  BY <1>1 DEF RightDown
<1>4. q[1].type = "posts" =>
        /\ q[1].told \subseteq posts
        /\ \A i \in Made : Mine(d, i) /\ stage[i] \in {"acked", "done"} => i \in q[1].told
  BY <1>1 DEF RightDown
<1> QED
  BY <1>2, <1>3, <1>4

(* Of the messages t none replies to post i, and all know it if it is      *)
(* stored.                                                                 *)
LastReply(t, i) ==
  \A n \in 1..Len(t) :
    /\ t[n].type = "reply" => t[n].post # i
    /\ t[n].type = "posts" /\ stage[i] = "stored" => i \in t[n].told

(* A reply that goes: no other message replies to its post, and if it was  *)
(* stored, the posts that follow hold it.                                  *)
LEMMA DownHead ==
  ASSUME NEW d \in Devices, NEW q \in Seq(Messages), q # << >>, NEW t, t = Tail(q),
         RightDown(q, d), NEW m, m = q[1], m.type = "reply"
  PROVE  LastReply(t, m.post)
<1>1. 1 \in 1..Len(q) /\ \A n \in 1..Len(t) : n + 1 \in 1..Len(q) /\ t[n] = q[n + 1]
  BY TailFacts
<1>2. ASSUME NEW n \in 1..Len(t)
      PROVE  /\ t[n].type = "reply" => t[n].post # m.post
             /\ t[n].type = "posts" /\ stage[m.post] = "stored" => m.post \in t[n].told
  <2>1. n + 1 \in 1..Len(q) /\ t[n] = q[n + 1] /\ 1 < n + 1 /\ n + 1 # 1
    BY <1>1
  <2> QED
    BY <1>1, <2>1 DEF RightDown
<1> QED
  BY <1>2 DEF LastReply

(* One post that no message replies to changes its stage.                  *)
LEMMA DownAfter ==
  ASSUME NEW d \in Devices, NEW t, RightDown(t, d), Grows, NEW i \in Made,
         \A n \in 1..Len(t) :
           /\ t[n].type = "reply" => t[n].post # i
           /\ t[n].type = "posts" /\ stage'[i] \in {"acked", "done"} => i \in t[n].told,
         \A j \in Made : j # i => stage'[j] = stage[j]
  PROVE  RightDown(t, d)'
<1>1. ASSUME NEW n \in 1..Len(t), t[n].type = "reply"
      PROVE  /\ Mine(d, t[n].post)'
             /\ stage'[t[n].post] = stage[t[n].post]
             /\ stage[t[n].post] \in {"stored", "refused"}
  BY <1>1 DEF RightDown, Mine, Grows
<1>2. ASSUME NEW n \in 1..Len(t), t[n].type = "posts",
             NEW j \in Made', Mine(d, j)', stage'[j] \in {"acked", "done"}
      PROVE  j \in t[n].told
  <2>1. j \in Made /\ Mine(d, j)
    BY <1>2 DEF Mine, Grows
  <2> QED
    BY <1>2, <2>1 DEF RightDown
<1>3. \A n \in 1..Len(t) : t[n].type = "posts" => t[n].told \subseteq posts'
  BY DEF RightDown, Grows
<1>4. \A n, k \in 1..Len(t) :
        t[n].type = "reply" /\ t[k].type = "reply" /\ t[n].post = t[k].post => n = k
  BY DEF RightDown
<1>5. \A n, k \in 1..Len(t) :
        n < k /\ t[n].type = "reply" /\ t[k].type = "posts" /\ stage'[t[n].post] = "stored"
        => t[n].post \in t[k].told
  BY <1>1 DEF RightDown
<1> QED
  BY <1>1, <1>2, <1>3, <1>4, <1>5 DEF RightDown

(* Blocks at the end: the reply of a post of which no other block is.      *)
LEMMA MainAppend ==
  ASSUME NEW d \in Devices, NEW q \in Seq(Blocks), NEW b \in Blocks, NEW r,
         r = Append(q, b), RightMain(q, d)', b.type = "reply",
         Mine(d, b.post)', stage'[b.post] \in {"acked", "denied"},
         \A n \in 1..Len(q) : q[n].type = "reply" => q[n].post # b.post
  PROVE  RightMain(r, d)'
<1>1. /\ Len(q) \in Nat /\ Len(r) = Len(q) + 1 /\ r[Len(q) + 1] = b
      /\ \A n \in 1..Len(q) : r[n] = q[n]
  BY AppendFacts
<1>2. \A n \in 1..Len(r) : (n \in 1..Len(q) /\ r[n] = q[n]) \/ (n = Len(q) + 1 /\ r[n] = b)
  <2>1. \A n \in 1..Len(r) : n \in 1..Len(q) \/ n = Len(q) + 1
    BY <1>1
  <2> QED
    BY <1>1, <2>1
<1>3. \A n \in 1..Len(r) : r[n].type = "reply" =>
        Mine(d, r[n].post)' /\ stage'[r[n].post] \in {"acked", "denied"}
  BY <1>2 DEF RightMain
<1>4. \A n, k \in 1..Len(r) :
        r[n].type = "reply" /\ r[k].type = "reply" /\ r[n].post = r[k].post => n = k
  BY <1>2 DEF RightMain
<1>5. \A n \in 1..Len(r) : r[n].type = "feed" =>
        /\ r[n].told \subseteq Exists(d)'
        /\ \A i \in Made' : Mine(d, i)' /\ stage'[i] = "done" => i \in r[n].told
  BY <1>2 DEF RightMain
<1>6. ASSUME NEW n \in 1..Len(r), NEW k \in 1..Len(r), n < k,
             r[n].type = "reply", r[k].type = "feed", stage'[r[n].post] = "acked"
      PROVE  r[n].post \in r[k].told
  <2>1. k \in 1..Len(q) /\ r[k] = q[k]
    BY <1>2, <1>6
  <2>2. n \in 1..Len(q) /\ r[n] = q[n]
    BY <1>1, <1>2, <1>6, <2>1
  <2> QED
    BY <1>6, <2>1, <2>2 DEF RightMain
<1> QED
  BY <1>3, <1>4, <1>5, <1>6 DEF RightMain

(* Or the completions of reads, which know all that is stored.             *)
LEMMA MainConcat ==
  ASSUME NEW d \in Devices, NEW q \in Seq(Blocks), NEW s \in Seq(Blocks), NEW r,
         r = q \o s, RightMain(q, d)',
         \A n \in 1..Len(s) :
           /\ s[n].type \in {"feed", "noFeed"}
           /\ s[n].type = "feed" =>
                /\ s[n].told \subseteq Exists(d)'
                /\ \A i \in Made' : Mine(d, i)' /\ stage'[i] \in {"acked", "done"}
                                    => i \in s[n].told
  PROVE  RightMain(r, d)'
<1>1. /\ Len(q) \in Nat /\ Len(s) \in Nat /\ Len(r) = Len(q) + Len(s)
      /\ \A n \in 1..Len(q) : r[n] = q[n]
      /\ \A n \in 1..Len(s) : r[Len(q) + n] = s[n]
  BY ConcatFacts
<1>2. ASSUME NEW n \in 1..Len(r)
      PROVE  \/ n \in 1..Len(q) /\ r[n] = q[n]
             \/ n > Len(q) /\ \E k \in 1..Len(s) : r[n] = s[k]
  <2>1. CASE n > Len(q)
    <3>1. PICK k \in 1..Len(s) : n = Len(q) + k
      <4>1. n - Len(q) \in 1..Len(s) /\ n = Len(q) + (n - Len(q))
        BY <1>1, <2>1
      <4> QED
        BY <4>1
    <3>2. r[n] = s[k]
      BY <1>1, <3>1
    <3> QED
      BY <2>1, <3>2
  <2>2. CASE ~(n > Len(q))
    BY <1>1, <2>2
  <2> QED
    BY <2>1, <2>2
<1>3. \A n \in 1..Len(r) : r[n].type = "reply" => n \in 1..Len(q) /\ r[n] = q[n]
  BY <1>2
<1>4. \A n \in 1..Len(r) : r[n].type = "reply" =>
        Mine(d, r[n].post)' /\ stage'[r[n].post] \in {"acked", "denied"}
  BY <1>3 DEF RightMain
<1>5. \A n, k \in 1..Len(r) :
        r[n].type = "reply" /\ r[k].type = "reply" /\ r[n].post = r[k].post => n = k
  BY <1>3 DEF RightMain
<1>6. \A n \in 1..Len(r) : r[n].type = "feed" =>
        /\ r[n].told \subseteq Exists(d)'
        /\ \A i \in Made' : Mine(d, i)' /\ stage'[i] = "done" => i \in r[n].told
  BY <1>2 DEF RightMain
<1>7. ASSUME NEW n \in 1..Len(r), NEW k \in 1..Len(r), n < k,
             r[n].type = "reply", r[k].type = "feed", stage'[r[n].post] = "acked"
      PROVE  r[n].post \in r[k].told
  <2>1. CASE k \in 1..Len(q) /\ r[k] = q[k]
    BY <1>3, <1>7, <2>1 DEF RightMain
  <2>2. CASE \E j \in 1..Len(s) : r[k] = s[j]
    <3>1. Mine(d, r[n].post)' /\ r[n].post \in Made'
      BY <1>4, <1>7 DEF Mine
    <3> QED
      BY <1>7, <2>2, <3>1
  <2> QED
    BY <1>2, <2>1, <2>2
<1> QED
  BY <1>4, <1>5, <1>6, <1>7 DEF RightMain

(* The first block goes.                                                   *)
LEMMA MainTail ==
  ASSUME NEW d \in Devices, NEW q \in Seq(Blocks), q # << >>, NEW t, t = Tail(q),
         RightMain(q, d)
  PROVE  /\ RightMain(t, d)
         /\ q[1].type = "reply" => Mine(d, q[1].post) /\ stage[q[1].post] \in {"acked", "denied"}
         /\ q[1].type = "feed" =>
              /\ q[1].told \subseteq Exists(d)
              /\ \A i \in Made : Mine(d, i) /\ stage[i] = "done" => i \in q[1].told
<1>1. /\ Len(q) \in Nat \ {0} /\ Len(t) = Len(q) - 1 /\ 1 \in 1..Len(q)
      /\ \A n \in 1..Len(t) : n + 1 \in 1..Len(q) /\ t[n] = q[n + 1]
  BY TailFacts
<1>2. RightMain(t, d)
  <2>1. \A n \in 1..Len(t) : t[n].type = "reply" =>
          Mine(d, t[n].post) /\ stage[t[n].post] \in {"acked", "denied"}
    BY <1>1 DEF RightMain
  <2>2. \A n, k \in 1..Len(t) :
          t[n].type = "reply" /\ t[k].type = "reply" /\ t[n].post = t[k].post => n = k
    BY <1>1 DEF RightMain
  <2>3. \A n \in 1..Len(t) : t[n].type = "feed" =>
          /\ t[n].told \subseteq Exists(d)
          /\ \A i \in Made : Mine(d, i) /\ stage[i] = "done" => i \in t[n].told
    BY <1>1 DEF RightMain
  <2>4. \A n, k \in 1..Len(t) :
          n < k /\ t[n].type = "reply" /\ t[k].type = "feed" /\ stage[t[n].post] = "acked"
          => t[n].post \in t[k].told
    BY <1>1 DEF RightMain
  <2> QED
    BY <2>1, <2>2, <2>3, <2>4 DEF RightMain
<1>3. q[1].type = "reply" => Mine(d, q[1].post) /\ stage[q[1].post] \in {"acked", "denied"}
  BY <1>1 DEF RightMain
<1>4. q[1].type = "feed" =>
        /\ q[1].told \subseteq Exists(d)
        /\ \A i \in Made : Mine(d, i) /\ stage[i] = "done" => i \in q[1].told
  BY <1>1 DEF RightMain
<1> QED
  BY <1>2, <1>3, <1>4

(* The same of blocks.                                                     *)
LastBlock(t, i) ==
  \A n \in 1..Len(t) :
    /\ t[n].type = "reply" => t[n].post # i
    /\ t[n].type = "feed" /\ stage[i] = "acked" => i \in t[n].told

(* The completion of a post that goes: no other block completes it, and if *)
(* it was stored, the lists that follow hold it.                           *)
LEMMA MainHead ==
  ASSUME NEW d \in Devices, NEW q \in Seq(Blocks), q # << >>, NEW t, t = Tail(q),
         RightMain(q, d), NEW b, b = q[1], b.type = "reply"
  PROVE  LastBlock(t, b.post)
<1>1. 1 \in 1..Len(q) /\ \A n \in 1..Len(t) : n + 1 \in 1..Len(q) /\ t[n] = q[n + 1]
  BY TailFacts
<1>2. ASSUME NEW n \in 1..Len(t)
      PROVE  /\ t[n].type = "reply" => t[n].post # b.post
             /\ t[n].type = "feed" /\ stage[b.post] = "acked" => b.post \in t[n].told
  <2>1. n + 1 \in 1..Len(q) /\ t[n] = q[n + 1] /\ 1 < n + 1 /\ n + 1 # 1
    BY <1>1
  <2> QED
    BY <1>1, <2>1 DEF RightMain
<1> QED
  BY <1>2 DEF LastBlock

(* One post whose completion has run changes its stage.                    *)
LEMMA MainAfter ==
  ASSUME NEW d \in Devices, NEW t, RightMain(t, d), Grows, Exists(d) \subseteq Exists(d)',
         NEW i \in Made,
         \A n \in 1..Len(t) :
           /\ t[n].type = "reply" => t[n].post # i
           /\ t[n].type = "feed" /\ stage'[i] = "done" => i \in t[n].told,
         \A j \in Made : j # i => stage'[j] = stage[j]
  PROVE  RightMain(t, d)'
<1>1. ASSUME NEW n \in 1..Len(t), t[n].type = "reply"
      PROVE  /\ Mine(d, t[n].post)'
             /\ stage'[t[n].post] = stage[t[n].post]
             /\ stage[t[n].post] \in {"acked", "denied"}
  BY <1>1 DEF RightMain, Mine, Grows
<1>2. ASSUME NEW n \in 1..Len(t), t[n].type = "feed",
             NEW j \in Made', Mine(d, j)', stage'[j] = "done"
      PROVE  j \in t[n].told
  <2>1. j \in Made /\ Mine(d, j)
    BY <1>2 DEF Mine, Grows
  <2> QED
    BY <1>2, <2>1 DEF RightMain
<1>3. \A n \in 1..Len(t) : t[n].type = "feed" => t[n].told \subseteq Exists(d)'
  BY DEF RightMain
<1>4. \A n, k \in 1..Len(t) :
        t[n].type = "reply" /\ t[k].type = "reply" /\ t[n].post = t[k].post => n = k
  BY DEF RightMain
<1>5. \A n, k \in 1..Len(t) :
        n < k /\ t[n].type = "reply" /\ t[k].type = "feed" /\ stage'[t[n].post] = "acked"
        => t[n].post \in t[k].told
  BY <1>1 DEF RightMain
<1> QED
  BY <1>1, <1>2, <1>3, <1>4, <1>5 DEF RightMain

-----------------------------------------------------------------------------
(* Steps.                                                                  *)

(* Phone d after its step, and the others, which it leaves alone.          *)
LEMMA Others ==
  ASSUME Types, Phones, NEW d \in Devices, PhoneOf(d)',
         \A e \in Devices : e # d => Calm(e) /\ Still(e)
  PROVE  Phones'
<1>1. ASSUME NEW e \in Devices, e # d
      PROVE  PhoneOf(e)'
  BY <1>1, Elsewhere DEF Phones
<1> QED
  BY <1>1 DEF Phones

(* Without a new post, posts grow if they are not taken away.              *)
LEMMA SameMade ==
  ASSUME UNCHANGED <<made, post>>, posts \subseteq posts', denied \subseteq denied'
  PROVE  Grows /\ Made' = Made
BY DEF Grows, Made

(* One post is at the head of the queue of its phone alone.                *)
LEMMA OneStage ==
  ASSUME Types, Grows, Made' = Made, NEW d \in Devices, NEW i \in Made, post[i].dev = d,
         \A j \in Made : j # i => stage'[j] = stage[j]
  PROVE  \A e \in Devices : e # d => Calm(e)
BY DEF Calm

(* The user and the location service, or an answer to a read, change       *)
(* neither posts nor what is shown.                                        *)
LEMMA QuietStep ==
  ASSUME Types, Known, Phones, NEW d \in Devices,
         Launch(d) \/ Pull(d) \/ OpenSheet(d) \/ CloseSheet(d) \/ Locate(d) \/ Move(d)
  PROVE  Known' /\ Phones'
<1> USE DEF writing, phone, bounds, history
<1>1. UNCHANGED <<made, post, stage, posts, denied, down, mainq, table, failed, shownAt>>
  BY DEF Launch, Pull, OpenSheet, CloseSheet, Locate, Move
<1>2. \A e \in Devices : Calm(e)
  BY <1>1, SameMade DEF Calm
<1>3. Known'
  BY <1>1 DEF Known, Made
<1>4. /\ reads'[d] # << >> \/ UNCHANGED <<alive, reads>>
      /\ \A e \in Devices : e # d => alive'[e] = alive[e] /\ reads'[e] = reads[e]
  <2>1. QueueTypes /\ Origin \in Coordinates /\ fix[d] \in Coordinates
    BY PlaceFacts DEF Types, QueueTypes
  <2>2. CASE Launch(d)
    <3>1. reads'[d] # << >> /\ \A e \in Devices : e # d => reads'[e] = reads[e]
      BY <2>1, <2>2, GetTypes DEF Launch
    <3>2. \A e \in Devices : e # d => alive'[e] = alive[e]
      BY <2>2 DEF Launch, Types
    <3> QED
      BY <3>1, <3>2
  <2>3. CASE Pull(d)
    <3>1. reads'[d] # << >> /\ \A e \in Devices : e # d => reads'[e] = reads[e]
      BY <2>1, <2>3, GetTypes DEF Pull
    <3> QED
      BY <2>3, <3>1 DEF Pull
  <2>4. CASE OpenSheet(d) \/ CloseSheet(d) \/ Locate(d) \/ Move(d)
    BY <2>4 DEF OpenSheet, CloseSheet, Locate, Move
  <2> QED
    BY <2>2, <2>3, <2>4
<1>5. PhoneOf(d)'
  <2>1. PhoneOf(d) /\ Calm(d) /\ down'[d] = down[d] /\ mainq'[d] = mainq[d]
    BY <1>1, <1>2 DEF Phones
  <2>2. RightDown(down[d], d)' /\ RightMain(mainq[d], d)' /\ Exists(d) \subseteq Exists(d)'
    BY <2>1, QueuesKept
  <2>3. RightTable(d)'
    BY <1>1, <2>1, <2>2 DEF PhoneOf, RightTable
  <2>4. Shows(d)'
    <3>1. CASE reads'[d] # << >>
      BY <3>1 DEF Shows, Coming
    <3>2. CASE UNCHANGED <<alive, reads>>
      <4>1. Coming(d)' <=> Coming(d)
        BY <1>1, <3>2 DEF Coming
      <4> QED
        BY <1>1, <2>1, <3>2, <4>1, ShowsFrame DEF PhoneOf, Calm
    <3> QED
      BY <1>4, <3>1, <3>2
  <2> QED
    BY <2>2, <2>3, <2>4 DEF PhoneOf
<1> QED
  BY <1>1, <1>2, <1>3, <1>4, <1>5, Others DEF Still

(* A post: it is on its way, and nothing of it is shown.                   *)
LEMMA PostStep ==
  ASSUME Types, Known, Phones, NEW d \in Devices, Post(d)
  PROVE  Known' /\ Phones'
<1> USE DEF phone, bounds, history
<1>1. UNCHANGED <<posts, denied, alive, reads, down, mainq, table, failed, shownAt>>
  BY DEF Post
<1>2. /\ Made' = Made \cup {made + 1} /\ stage'[made + 1] = "sent"
      /\ \A i \in Made : post'[i] = post[i] /\ stage'[i] = stage[i]
  BY PostTypes
<1>3. \A e \in Devices : Calm(e)
  BY <1>1, <1>2 DEF Calm, Grows
<1>4. Known'
  BY <1>1, <1>2 DEF Known
<1>5. \A e \in Devices : Still(e)
  BY <1>1 DEF Still
<1> QED
  BY <1>3, <1>4, <1>5, Elsewhere DEF Phones

(* The server answers a read: the answer holds what is stored.             *)
LEMMA AnswerStep ==
  ASSUME Types, Known, Phones, NEW d \in Devices, AnswerRead(d) \/ RefuseRead(d)
  PROVE  Known' /\ Phones'
<1> USE DEF writing, phone, bounds, history
<1>1. UNCHANGED <<made, post, stage, posts, denied, alive, reads, mainq, table, failed, shownAt>>
  BY DEF AnswerRead, RefuseRead
<1>2. \A e \in Devices : Calm(e)
  BY <1>1, SameMade DEF Calm
<1>3. Known'
  BY <1>1 DEF Known, Made
<1>4. PICK m \in Messages :
        /\ m.type \in {"posts", "error"}
        /\ m.type = "posts" => m.told = posts
        /\ down' = [down EXCEPT ![d] = Append(@, m)]
  <2>1. [type |-> "posts", told |-> posts] \in Messages /\ [type |-> "error"] \in Messages
    BY DEF Messages, Types, Made
  <2> QED
    BY <2>1 DEF AnswerRead, RefuseRead
<1>5. PICK q \in Seq(Messages) : q = down[d]
  BY DEF Types
<1>6. PICK r : r = Append(q, m)
  OBVIOUS
<1>7. down'[d] = r /\ \A e \in Devices : e # d => down'[e] = down[e]
  BY <1>4, <1>5, <1>6 DEF Types
<1>8. PhoneOf(d) /\ Calm(d)
  BY <1>2 DEF Phones
<1>9. Grows /\ Exists(d) \subseteq Exists(d)'
  BY <1>8, CalmExists DEF Calm
<1>10. RightDown(r, d)'
  <2>1. RightDown(q, d)'
    <3>1. RightDown(q, d)
      BY <1>5, <1>8 DEF PhoneOf
    <3> QED
      BY <1>8, <1>9, <3>1, DownFrame DEF Calm
  <2>2. \A i \in Made' : stage'[i] \in {"stored", "acked", "done"} => i \in posts
    BY <1>1, <1>3 DEF Known
  <2>3. m.type = "posts" => m.told = posts /\ posts' = posts
    BY <1>1, <1>4
  <2> QED
    BY <1>4, <1>6, <2>1, <2>2, <2>3, DownAppend
<1>11. PICK p : p = mainq[d] /\ mainq'[d] = p
  BY <1>1
<1>12. RightMain(p, d)'
  <2>1. RightMain(p, d)
    BY <1>8, <1>11 DEF PhoneOf
  <2> QED
    BY <1>8, <1>9, <2>1, MainFrame DEF Calm
<1>13. RightTable(d)'
  BY <1>1, <1>8, <1>9 DEF PhoneOf, RightTable
<1>14. Shows(d)'
  <2>1. Coming(d)' <=> Coming(d)
    BY <1>1 DEF Coming
  <2> QED
    BY <1>1, <1>8, <1>9, <2>1, ShowsFrame DEF PhoneOf, Calm
<1>15. PhoneOf(d)'
  BY <1>7, <1>10, <1>11, <1>12, <1>13, <1>14, PhoneIs
<1> QED
  BY <1>1, <1>2, <1>3, <1>7, <1>15, Others DEF Still

(* The server stores or refuses a post: the reply is the only one of it.   *)
LEMMA StoreStep ==
  ASSUME Types, Known, Phones, NEW d \in Devices, NEW i \in Made,
         StorePost(d, i) \/ RefusePost(d, i)
  PROVE  Known' /\ Phones'
<1> USE DEF writing, phone, bounds, history
<1>1. /\ UNCHANGED <<made, post, alive, reads, mainq, table, failed, shownAt>>
      /\ post[i].dev = d /\ stage[i] = "sent"
      /\ posts \subseteq posts' /\ denied \subseteq denied'
  BY DEF StorePost, RefusePost
<1>2. Grows /\ Made' = Made
  BY <1>1, SameMade
<1>3. /\ stage'[i] \in {"stored", "refused"}
      /\ \A j \in Made : j # i => stage'[j] = stage[j]
      /\ stage'[i] = "stored" => i \in posts'
      /\ stage'[i] = "refused" => i \in denied'
  BY DEF StorePost, RefusePost, Types
<1>4. \A e \in Devices : e # d => Calm(e)
  BY <1>1, <1>2, <1>3, OneStage
<1>5. Known'
  BY <1>1, <1>2, <1>3 DEF Known
<1>6. PICK m \in Messages : /\ m.type = "reply" /\ m.post = i
                            /\ down' = [down EXCEPT ![d] = Append(@, m)]
  <2>1. i \in Nat
    BY DEF Made, Types
  <2>2. [type |-> "reply", post |-> i] \in Messages
    BY <2>1 DEF Messages
  <2> QED
    BY <2>2 DEF StorePost, RefusePost
<1>7. PICK q \in Seq(Messages) : q = down[d]
  BY DEF Types
<1>8. PICK r : r = Append(q, m)
  OBVIOUS
<1>9. down'[d] = r /\ \A e \in Devices : e # d => down'[e] = down[e]
  BY <1>6, <1>7, <1>8 DEF Types
<1>10. PhoneOf(d)
  BY DEF Phones
<1>11. Exists(d) \subseteq Exists(d)'
  <2>1. Pending(d) \subseteq Pending(d)'
    BY <1>1, <1>2, <1>3 DEF Pending
  <2> QED
    BY <1>1, <2>1 DEF Exists
<1>12. RightDown(r, d)'
  <2>1. RightDown(q, d)
    BY <1>7, <1>10 DEF PhoneOf
  <2>2. RightDown(q, d)'
    BY <1>1, <1>2, <1>3, <2>1, DownFrame
  <2>3. \A n \in 1..Len(q) : q[n].type = "reply" => q[n].post # i
    BY <1>1, <2>1 DEF RightDown
  <2>4. Mine(d, i)'
    BY <1>1, <1>2 DEF Mine
  <2> QED
    BY <1>3, <1>6, <1>8, <2>2, <2>3, <2>4, DownAppend
<1>13. PICK p : p = mainq[d] /\ mainq'[d] = p
  BY <1>1
<1>14. RightMain(p, d)'
  <2>1. RightMain(p, d)
    BY <1>10, <1>13 DEF PhoneOf
  <2> QED
    BY <1>1, <1>2, <1>3, <1>11, <2>1, MainFrame
<1>15. RightTable(d)'
  BY <1>1, <1>10, <1>11 DEF PhoneOf, RightTable
<1>16. Shows(d)'
  <2>1. Coming(d)' <=> Coming(d)
    BY <1>1 DEF Coming
  <2>2. Shows(d)
    BY <1>10 DEF PhoneOf
  <2>3. \A j \in Made : post[j].dev = d /\ stage'[j] = "done" => stage[j] = "done"
    BY <1>3
  <2> QED
    BY <1>1, <1>2, <2>1, <2>2, <2>3, ShowsFrame
<1>17. PhoneOf(d)'
  BY <1>9, <1>12, <1>13, <1>14, <1>15, <1>16, PhoneIs
<1> QED
  BY <1>1, <1>4, <1>5, <1>9, <1>17, Others DEF Still

(* The connection is lost: no message is left, and what it had brought to  *)
(* the main thread stays.                                                  *)
LEMMA DisconnectStep ==
  ASSUME Types, Known, Phones, NEW d \in Devices, Disconnect(d)
  PROVE  Known' /\ Phones'
<1> USE DEF writing, phone, bounds, history
<1>1. UNCHANGED <<made, post, posts, denied, alive, reads, mainq, table, failed, shownAt>>
  BY DEF Disconnect
<1>2. Grows /\ Made' = Made
  BY <1>1, SameMade
<1>3. \A i \in Made :
        /\ post[i].dev = d /\ stage[i] \in {"stored", "refused"} => stage'[i] = "sent"
        /\ ~(post[i].dev = d /\ stage[i] \in {"stored", "refused"}) => stage'[i] = stage[i]
  BY DEF Disconnect
<1>4. \A e \in Devices : e # d => Calm(e)
  BY <1>2, <1>3 DEF Calm
<1>5. Known'
  BY <1>1, <1>2, <1>3 DEF Known
<1>6. down'[d] = << >> /\ \A e \in Devices : e # d => down'[e] = down[e]
  BY DEF Disconnect, Types
<1>7. PhoneOf(d)
  BY DEF Phones
<1>8. Exists(d) \subseteq Exists(d)'
  <2>1. Pending(d) \subseteq Pending(d)'
    BY <1>1, <1>2, <1>3 DEF Pending
  <2> QED
    BY <1>1, <2>1 DEF Exists
<1>9. PICK r : r = << >> /\ 1..Len(r) = {}
  BY EmptyFacts
<1>10. RightDown(r, d)'
  BY <1>9 DEF RightDown
<1>11. PICK p : p = mainq[d] /\ mainq'[d] = p
  BY <1>1
<1>12. RightMain(p, d)'
  <2>1. RightMain(p, d)
    BY <1>7, <1>11 DEF PhoneOf
  <2> QED
    BY <1>2, <1>3, <1>8, <2>1, MainFrame
<1>13. RightTable(d)'
  BY <1>1, <1>7, <1>8 DEF PhoneOf, RightTable
<1>14. Shows(d)'
  <2>1. Coming(d)' <=> Coming(d)
    BY <1>1 DEF Coming
  <2>2. Shows(d)
    BY <1>7 DEF PhoneOf
  <2>3. \A j \in Made : post[j].dev = d /\ stage'[j] = "done" => stage[j] = "done"
    BY <1>3
  <2> QED
    BY <1>1, <1>2, <2>1, <2>2, <2>3, ShowsFrame
<1>15. PhoneOf(d)'
  BY <1>6, <1>9, <1>10, <1>11, <1>12, <1>13, <1>14, PhoneIs
<1> QED
  BY <1>1, <1>4, <1>5, <1>6, <1>15, Others DEF Still

(* An answer to the reads under way becomes their completions.             *)
LEMMA PostsStep ==
  ASSUME Types, Known, Phones, NEW d \in Devices, DeliverPosts(d)
  PROVE  Known' /\ Phones'
<1> USE DEF writing, phone, bounds, history
<1>1. UNCHANGED <<made, post, stage, posts, denied, alive, table, failed, shownAt>>
  BY DEF DeliverPosts
<1>2. \A e \in Devices : Calm(e)
  BY <1>1, SameMade DEF Calm
<1>3. Known'
  BY <1>1 DEF Known, Made
<1>4. PICK q \in Seq(Messages) : q = down[d] /\ q # << >>
  BY DEF DeliverPosts, Types
<1>5. PICK t \in Seq(Messages) : t = Tail(q)
  BY <1>4, TailFacts
<1>6. PICK m \in Messages : m = q[1] /\ m = Head(q)
  BY <1>4, TailFacts
<1>7. m.type \in {"posts", "error"}
  BY <1>4, <1>6 DEF DeliverPosts
<1>8. PICK p \in Seq(Blocks) : p = mainq[d]
  BY DEF Types
<1>9. PICK s \in Seq(Blocks) : s = Answers(d, m)
  BY <1>7, AnswersTypes
<1>10. PICK r : r = p \o s
  OBVIOUS
<1>11. down'[d] = t /\ \A e \in Devices : e # d => down'[e] = down[e]
  BY <1>4, <1>5 DEF DeliverPosts, Types
<1>12. mainq'[d] = r /\ \A e \in Devices : e # d => mainq'[e] = mainq[e]
  <2>1. mainq' = [mainq EXCEPT ![d] = r]
    BY <1>4, <1>6, <1>8, <1>9, <1>10 DEF DeliverPosts, Answers
  <2> QED
    BY <2>1 DEF Types
<1>13. PhoneOf(d) /\ Calm(d)
  BY <1>2 DEF Phones
<1>14. Grows /\ Exists(d) \subseteq Exists(d)'
  BY <1>13, CalmExists DEF Calm
<1>15. RightDown(q, d)
  BY <1>4, <1>13 DEF PhoneOf
<1>16. RightDown(t, d)'
  <2>1. RightDown(t, d)
    BY <1>4, <1>5, <1>15, DownTail
  <2> QED
    BY <1>13, <1>14, <2>1, DownFrame DEF Calm
<1>17. m.type = "posts" =>
         /\ m.told \subseteq posts
         /\ \A i \in Made : Mine(d, i) /\ stage[i] \in {"acked", "done"} => i \in m.told
  BY <1>4, <1>5, <1>6, <1>15, DownTail
<1>18. \A n \in 1..Len(s) :
         /\ s[n].type \in {"feed", "noFeed"}
         /\ s[n].type = "feed" =>
              /\ s[n].told \subseteq Exists(d)'
              /\ \A i \in Made' : Mine(d, i)' /\ stage'[i] \in {"acked", "done"}
                                  => i \in s[n].told
  <2>1. /\ Len(s) = Len(reads[d])
        /\ \A n \in 1..Len(s) :
             /\ s[n].type \in {"feed", "noFeed"}
             /\ s[n].type = "feed" => m.type = "posts" /\ s[n].told = Overlaid(d, m.told)
    BY <1>7, <1>9, AnswersTypes
  <2>2. m.type = "posts" => Overlaid(d, m.told) \subseteq Exists(d)
    BY <1>17 DEF Overlaid, Exists
  <2>3. \A i \in Made' : Mine(d, i)' /\ stage'[i] \in {"acked", "done"}
                         => i \in Made /\ Mine(d, i) /\ stage[i] \in {"acked", "done"}
    BY <1>1 DEF Mine, Made
  <2>4. m.type = "posts" => m.told \subseteq Overlaid(d, m.told)
    BY DEF Overlaid
  <2> QED
    BY <1>14, <1>17, <2>1, <2>2, <2>3, <2>4
<1>19. RightMain(r, d)'
  <2>1. RightMain(p, d)
    BY <1>8, <1>13 DEF PhoneOf
  <2>2. RightMain(p, d)'
    BY <1>13, <1>14, <2>1, MainFrame DEF Calm
  <2> QED
    BY <1>10, <1>18, <2>2, MainConcat
<1>20. RightTable(d)'
  BY <1>1, <1>13, <1>14 DEF PhoneOf, RightTable
<1>21. Shows(d)'
  <2>1. /\ Len(p) \in Nat /\ Len(s) \in Nat /\ Len(r) = Len(p) + Len(s)
        /\ \A n \in 1..Len(p) : r[n] = p[n]
        /\ \A n \in 1..Len(s) : r[Len(p) + n] = s[n]
    BY <1>10, ConcatFacts
  <2>2. Len(s) = Len(reads[d]) /\ reads[d] \in Seq(Coordinates)
    BY <1>7, <1>9, AnswersTypes DEF Types
  <2>3. ASSUME Coming(d)
        PROVE  Coming(d)'
    <3>1. CASE reads[d] # << >>
      <4>1. Len(s) \in Nat \ {0}
        BY <2>1, <2>2, <3>1
      <4>2. 1 \in 1..Len(s) /\ Len(p) + 1 \in 1..Len(r)
        BY <2>1, <4>1
      <4>3. r[Len(p) + 1].type \in {"feed", "noFeed"}
        BY <1>18, <2>1, <4>2
      <4> QED
        BY <1>12, <4>2, <4>3 DEF Coming
    <3>2. CASE \E n \in 1..Len(p) : p[n].type \in {"feed", "noFeed"}
      <4>1. PICK n \in 1..Len(p) : p[n].type \in {"feed", "noFeed"}
        BY <3>2
      <4>2. n \in 1..Len(r) /\ r[n].type \in {"feed", "noFeed"}
        BY <2>1, <4>1
      <4> QED
        BY <1>12, <4>2 DEF Coming
    <3> QED
      BY <1>8, <2>3, <3>1, <3>2 DEF Coming
  <2> QED
    BY <1>1, <1>13, <1>14, <2>3, ShowsFrame DEF PhoneOf, Calm
<1>22. PhoneOf(d)'
  BY <1>11, <1>12, <1>16, <1>19, <1>20, <1>21, PhoneIs
<1>23. \A e \in Devices : e # d => reads'[e] = reads[e]
  BY DEF DeliverPosts, Types
<1> QED
  BY <1>1, <1>2, <1>3, <1>11, <1>12, <1>22, <1>23, Others DEF Still

(* The reply of a post becomes its completion: the answers after it, and   *)
(* the completions they become, hold the post if it was stored.            *)
LEMMA ReplyStep ==
  ASSUME Types, Known, Phones, NEW d \in Devices, DeliverReply(d)
  PROVE  Known' /\ Phones'
<1> USE DEF writing, phone, bounds, history
<1>1. UNCHANGED <<made, post, posts, denied, alive, reads, table, failed, shownAt>>
  BY DEF DeliverReply
<1>2. Grows /\ Made' = Made
  BY <1>1, SameMade
<1>3. PICK q \in Seq(Messages) : q = down[d] /\ q # << >>
  BY DEF DeliverReply, Types
<1>4. PICK t \in Seq(Messages) : t = Tail(q)
  BY <1>3, TailFacts
<1>5. PICK m \in Messages : m = q[1] /\ m = Head(q)
  BY <1>3, TailFacts
<1>6. m.type = "reply"
  BY <1>3, <1>5 DEF DeliverReply
<1>7. PhoneOf(d)
  BY DEF Phones
<1>8. RightDown(q, d)
  BY <1>3, <1>7 DEF PhoneOf
<1>9. /\ RightDown(t, d) /\ Mine(d, m.post) /\ stage[m.post] \in {"stored", "refused"}
      /\ \A n \in 1..Len(t) :
           /\ t[n].type = "reply" => t[n].post # m.post
           /\ t[n].type = "posts" /\ stage[m.post] = "stored" => m.post \in t[n].told
  <2>1. RightDown(t, d)
    BY <1>3, <1>4, <1>8, DownTail
  <2>2. Mine(d, m.post) /\ stage[m.post] \in {"stored", "refused"}
    BY <1>3, <1>4, <1>5, <1>6, <1>8, DownTail
  <2>3. LastReply(t, m.post)
    BY <1>3, <1>4, <1>5, <1>6, <1>8, DownHead
  <2> QED
    BY <2>1, <2>2, <2>3 DEF LastReply
<1>10. PICK i \in Made : i = m.post /\ post[i].dev = d
  BY <1>9 DEF Mine
<1>11. /\ stage[i] = "stored" => stage'[i] = "acked"
       /\ stage[i] = "refused" => stage'[i] = "denied"
       /\ stage[i] \in {"stored", "refused"}
       /\ \A j \in Made : j # i => stage'[j] = stage[j]
  <2>1. stage' = [stage EXCEPT ![i] = IF @ = "stored" THEN "acked" ELSE "denied"]
    BY <1>3, <1>5, <1>10 DEF DeliverReply
  <2> QED
    BY <1>9, <1>10, <2>1 DEF Types
<1>12. \A e \in Devices : e # d => Calm(e)
  BY <1>2, <1>10, <1>11, OneStage
<1>13. Known'
  BY <1>1, <1>2, <1>11 DEF Known
<1>14. PICK p \in Seq(Blocks) : p = mainq[d]
  BY DEF Types
<1>15. PICK b \in Blocks : b = [type |-> "reply", post |-> i]
  <2>1. i \in Nat
    BY DEF Made, Types
  <2> QED
    BY <2>1 DEF Blocks
<1>16. PICK r : r = Append(p, b)
  OBVIOUS
<1>17. down'[d] = t /\ \A e \in Devices : e # d => down'[e] = down[e]
  BY <1>3, <1>4 DEF DeliverReply, Types
<1>18. mainq'[d] = r /\ \A e \in Devices : e # d => mainq'[e] = mainq[e]
  <2>1. mainq' = [mainq EXCEPT ![d] = r]
    BY <1>3, <1>5, <1>10, <1>14, <1>15, <1>16 DEF DeliverReply
  <2> QED
    BY <2>1 DEF Types
<1>19. Exists(d) \subseteq Exists(d)'
  <2>1. \A j \in Pending(d) : j # i => j \in Pending(d)'
    BY <1>1, <1>2, <1>11 DEF Pending
  <2>2. i \in posts \/ i \in denied
    BY <1>11 DEF Known
  <2> QED
    BY <1>1, <2>1, <2>2 DEF Exists
<1>20. RightDown(t, d)'
  <2>1. \A n \in 1..Len(t) :
          /\ t[n].type = "reply" => t[n].post # i
          /\ t[n].type = "posts" /\ stage'[i] \in {"acked", "done"} => i \in t[n].told
    BY <1>9, <1>10, <1>11
  <2> QED
    BY <1>2, <1>9, <1>11, <2>1, DownAfter
<1>21. RightMain(r, d)'
  <2>1. RightMain(p, d)
    BY <1>7, <1>14 DEF PhoneOf
  <2>2. RightMain(p, d)'
    BY <1>2, <1>11, <1>19, <2>1, MainFrame
  <2>3. \A n \in 1..Len(p) : p[n].type = "reply" => p[n].post # i
    BY <1>11, <2>1 DEF RightMain
  <2>4. Mine(d, i)' /\ stage'[i] \in {"acked", "denied"}
    BY <1>1, <1>2, <1>10, <1>11 DEF Mine
  <2>5. b.type = "reply" /\ b.post = i
    BY <1>15
  <2> QED
    BY <1>16, <2>2, <2>3, <2>4, <2>5, MainAppend
<1>22. RightTable(d)'
  BY <1>1, <1>7, <1>19 DEF PhoneOf, RightTable
<1>23. Shows(d)'
  <2>1. /\ Len(p) \in Nat /\ Len(r) = Len(p) + 1
        /\ \A n \in 1..Len(p) : r[n] = p[n]
    BY <1>16, AppendFacts
  <2>2. ASSUME Coming(d)
        PROVE  Coming(d)'
    <3>1. CASE reads[d] # << >>
      BY <1>1, <3>1 DEF Coming
    <3>2. CASE \E n \in 1..Len(p) : p[n].type \in {"feed", "noFeed"}
      <4>1. PICK n \in 1..Len(p) : p[n].type \in {"feed", "noFeed"}
        BY <3>2
      <4>2. n \in 1..Len(r) /\ r[n].type \in {"feed", "noFeed"}
        BY <2>1, <4>1
      <4> QED
        BY <1>18, <4>2 DEF Coming
    <3> QED
      BY <1>14, <2>2, <3>1, <3>2 DEF Coming
  <2>3. Shows(d)
    BY <1>7 DEF PhoneOf
  <2>4. \A j \in Made : post[j].dev = d /\ stage'[j] = "done" => stage[j] = "done"
    BY <1>11
  <2> QED
    BY <1>1, <1>2, <2>2, <2>3, <2>4, ShowsFrame
<1>24. PhoneOf(d)'
  BY <1>17, <1>18, <1>20, <1>21, <1>22, <1>23, PhoneIs
<1> QED
  BY <1>1, <1>12, <1>13, <1>17, <1>18, <1>24, Others DEF Still

(* A completed read is shown, or fails.                                    *)
LEMMA FeedStep ==
  ASSUME Types, Known, Phones, NEW d \in Devices, ShowFeed(d) \/ NoFeed(d)
  PROVE  Known' /\ Phones'
<1> USE DEF writing, phone, bounds, history
<1>1. UNCHANGED <<made, post, stage, posts, denied, alive, reads, down>>
  BY DEF ShowFeed, NoFeed
<1>2. \A e \in Devices : Calm(e)
  BY <1>1, SameMade DEF Calm
<1>3. Known'
  BY <1>1 DEF Known, Made
<1>4. PICK p \in Seq(Blocks) : p = mainq[d] /\ p # << >>
  BY DEF ShowFeed, NoFeed, Types
<1>5. PICK t \in Seq(Blocks) : t = Tail(p)
  BY <1>4, TailFacts
<1>6. PICK b \in Blocks : b = p[1] /\ b = Head(p)
  BY <1>4, TailFacts
<1>7. mainq'[d] = t /\ \A e \in Devices : e # d => mainq'[e] = mainq[e]
  BY <1>4, <1>5 DEF ShowFeed, NoFeed, Types
<1>8. PhoneOf(d) /\ Calm(d)
  BY <1>2 DEF Phones
<1>9. Grows /\ Exists(d) \subseteq Exists(d)'
  BY <1>8, CalmExists DEF Calm
<1>10. PICK q : q = down[d] /\ down'[d] = q
  BY <1>1
<1>11. RightDown(q, d)'
  <2>1. RightDown(q, d)
    BY <1>8, <1>10 DEF PhoneOf
  <2> QED
    BY <1>8, <1>9, <2>1, DownFrame DEF Calm
<1>12. RightMain(p, d)
  BY <1>4, <1>8 DEF PhoneOf
<1>13. RightMain(t, d)'
  <2>1. RightMain(t, d)
    BY <1>4, <1>5, <1>12, MainTail
  <2> QED
    BY <1>8, <1>9, <2>1, MainFrame DEF Calm
<1>14. b.type = "feed" =>
         /\ b.told \subseteq Exists(d)
         /\ \A i \in Made : Mine(d, i) /\ stage[i] = "done" => i \in b.told
  BY <1>4, <1>5, <1>6, <1>12, MainTail
<1>15. RightTable(d)' /\ Shows(d)'
  <2>1. CASE ShowFeed(d)
    <3>1. b.type = "feed"
      BY <1>4, <1>6, <2>1 DEF ShowFeed
    <3>2. /\ table'[d] = {i \in b.told : Near(b.read, post[i].coords)}
          /\ shownAt'[d] = b.read
      BY <1>4, <1>6, <2>1 DEF ShowFeed, Types
    <3>3. RightTable(d)'
      BY <1>9, <1>14, <3>1, <3>2 DEF RightTable
    <3>4. Shows(d)'
      <4>1. ASSUME NEW i \in Made', Mine(d, i)', stage'[i] = "done",
                   Near(b.read, post'[i].coords)
            PROVE  i \in table'[d]
        <5>1. i \in Made /\ Mine(d, i) /\ stage[i] = "done" /\ post'[i] = post[i]
          BY <1>1, <4>1 DEF Mine, Made
        <5>2. i \in b.told /\ Near(b.read, post[i].coords)
          BY <1>14, <3>1, <4>1, <5>1
        <5> QED
          BY <3>2, <5>2
      <4>2. \A i \in Made' : Mine(d, i)' /\ stage'[i] = "done" /\ Near(shownAt'[d], post'[i].coords)
                             => i \in table'[d]
        BY <3>2, <4>1
      <4> QED
        BY <4>2 DEF Shows
    <3> QED
      BY <3>3, <3>4
  <2>2. CASE NoFeed(d)
    <3>1. table'[d] = table[d] /\ failed'[d]
      BY <2>2 DEF NoFeed, Types
    <3> QED
      BY <1>8, <1>9, <3>1 DEF PhoneOf, RightTable, Shows
  <2> QED
    BY <2>1, <2>2
<1>16. PhoneOf(d)'
  BY <1>7, <1>10, <1>11, <1>13, <1>15, PhoneIs
<1>17. \A e \in Devices : e # d =>
         table'[e] = table[e] /\ failed'[e] = failed[e] /\ shownAt'[e] = shownAt[e]
  BY DEF ShowFeed, NoFeed, Types
<1> QED
  BY <1>1, <1>2, <1>3, <1>7, <1>16, <1>17, Others DEF Still

(* The completion of a post runs: a stored post is read again, and is in   *)
(* every list that is shown from now on.                                   *)
LEMMA CompletionStep ==
  ASSUME Types, Known, Phones, NEW d \in Devices, Posted(d) \/ NotPosted(d)
  PROVE  Known' /\ Phones'
<1> USE DEF writing, phone, bounds, history
<1>1. UNCHANGED <<made, post, posts, denied, alive, down, table, failed, shownAt>>
  BY DEF Posted, NotPosted
<1>2. Grows /\ Made' = Made
  BY <1>1, SameMade
<1>3. PICK p \in Seq(Blocks) : p = mainq[d] /\ p # << >>
  BY DEF Posted, NotPosted, Types
<1>4. PICK t \in Seq(Blocks) : t = Tail(p)
  BY <1>3, TailFacts
<1>5. PICK b \in Blocks : b = p[1] /\ b = Head(p)
  BY <1>3, TailFacts
<1>6. b.type = "reply"
  BY <1>3, <1>5 DEF Posted, NotPosted
<1>7. mainq'[d] = t /\ \A e \in Devices : e # d => mainq'[e] = mainq[e]
  BY <1>3, <1>4 DEF Posted, NotPosted, Types
<1>8. PhoneOf(d)
  BY DEF Phones
<1>9. RightMain(p, d)
  BY <1>3, <1>8 DEF PhoneOf
<1>10. /\ RightMain(t, d) /\ Mine(d, b.post)
       /\ \A n \in 1..Len(t) :
            /\ t[n].type = "reply" => t[n].post # b.post
            /\ t[n].type = "feed" /\ stage[b.post] = "acked" => b.post \in t[n].told
  <2>1. RightMain(t, d)
    BY <1>3, <1>4, <1>9, MainTail
  <2>2. Mine(d, b.post)
    BY <1>3, <1>4, <1>5, <1>6, <1>9, MainTail
  <2>3. LastBlock(t, b.post)
    BY <1>3, <1>4, <1>5, <1>6, <1>9, MainHead
  <2> QED
    BY <2>1, <2>2, <2>3 DEF LastBlock
<1>11. PICK i \in Made : i = b.post /\ post[i].dev = d
  BY <1>10 DEF Mine
<1>12. /\ \/ Posted(d) /\ stage[i] = "acked" /\ stage'[i] = "done"
          \/ NotPosted(d) /\ stage[i] = "denied" /\ stage'[i] = "failed"
       /\ \A j \in Made : j # i => stage'[j] = stage[j]
  <2>1. CASE Posted(d)
    <3>1. stage[i] = "acked" /\ stage' = [stage EXCEPT ![i] = "done"]
      BY <1>3, <1>5, <1>11, <2>1 DEF Posted
    <3> QED
      BY <2>1, <3>1 DEF Types
  <2>2. CASE NotPosted(d)
    <3>1. stage[i] = "denied" /\ stage' = [stage EXCEPT ![i] = "failed"]
      BY <1>3, <1>5, <1>11, <2>2 DEF NotPosted
    <3> QED
      BY <2>2, <3>1 DEF Types
  <2> QED
    BY <2>1, <2>2
<1>13. \A e \in Devices : e # d => Calm(e)
  BY <1>2, <1>11, <1>12, OneStage
<1>14. Known'
  BY <1>1, <1>2, <1>12 DEF Known
<1>15. Exists(d) \subseteq Exists(d)'
  <2>1. Pending(d) \subseteq Pending(d)'
    BY <1>1, <1>2, <1>12 DEF Pending
  <2> QED
    BY <1>1, <2>1 DEF Exists
<1>16. PICK q : q = down[d] /\ down'[d] = q
  BY <1>1
<1>17. RightDown(q, d)'
  <2>1. RightDown(q, d)
    BY <1>8, <1>16 DEF PhoneOf
  <2>2. \A j \in Made : post[j].dev = d =>
          /\ stage[j] \in {"stored", "refused"} => stage'[j] = stage[j]
          /\ stage'[j] \in {"acked", "done"} => stage[j] \in {"acked", "done"}
    BY <1>12
  <2> QED
    BY <1>2, <2>1, <2>2, DownFrame
<1>18. RightMain(t, d)'
  <2>1. \A n \in 1..Len(t) :
          /\ t[n].type = "reply" => t[n].post # i
          /\ t[n].type = "feed" /\ stage'[i] = "done" => i \in t[n].told
    BY <1>10, <1>11, <1>12
  <2> QED
    BY <1>2, <1>10, <1>12, <1>15, <2>1, MainAfter
<1>19. RightTable(d)'
  BY <1>1, <1>8, <1>15 DEF PhoneOf, RightTable
<1>20. /\ Posted(d) => reads'[d] # << >>
       /\ NotPosted(d) => reads' = reads
       /\ \A e \in Devices : e # d => reads'[e] = reads[e]
  <2>1. CASE Posted(d)
    <3>1. QueueTypes /\ fix[d] \in Coordinates
      BY DEF Types, QueueTypes
    <3>2. reads'[d] # << >> /\ \A e \in Devices : e # d => reads'[e] = reads[e]
      BY <2>1, <3>1, GetTypes DEF Posted
    <3>3. ~NotPosted(d)
      BY <1>12, <2>1, <1>3, <1>5, <1>11 DEF Posted, NotPosted
    <3> QED
      BY <3>2, <3>3
  <2>2. CASE NotPosted(d)
    <3>1. ~Posted(d)
      BY <2>2, <1>3, <1>5, <1>11 DEF Posted, NotPosted
    <3> QED
      BY <2>2, <3>1 DEF NotPosted
  <2> QED
    BY <2>1, <2>2
<1>21. Shows(d)'
  <2>1. CASE Posted(d)
    BY <1>20, <2>1 DEF Shows, Coming
  <2>2. CASE NotPosted(d) /\ stage'[i] = "failed"
    <3>1. /\ Len(t) \in Nat /\ Len(p) = Len(t) + 1 /\ p[1] = b
          /\ \A n \in 1..Len(t) : t[n] = p[n + 1]
      BY <1>3, <1>4, <1>5, TailFacts
    <3>2. ASSUME Coming(d)
          PROVE  Coming(d)'
      <4>1. CASE reads[d] # << >>
        BY <1>20, <2>2, <4>1 DEF Coming
      <4>2. CASE \E n \in 1..Len(p) : p[n].type \in {"feed", "noFeed"}
        <5>1. PICK n \in 1..Len(p) : p[n].type \in {"feed", "noFeed"}
          BY <4>2
        <5>2. n # 1
          BY <1>6, <3>1, <5>1
        <5>3. n - 1 \in 1..Len(t) /\ t[n - 1] = p[n]
          <6>1. n - 1 \in 1..Len(t) /\ (n - 1) + 1 = n
            BY <3>1, <5>1, <5>2
          <6> QED
            BY <3>1, <6>1
        <5> QED
          BY <1>7, <5>1, <5>3 DEF Coming
      <4> QED
        BY <1>3, <3>2, <4>1, <4>2 DEF Coming
    <3>3. Shows(d)
      BY <1>8 DEF PhoneOf
    <3>4. \A j \in Made : post[j].dev = d /\ stage'[j] = "done" => stage[j] = "done"
      BY <1>12, <2>2
    <3> QED
      BY <1>1, <1>2, <3>2, <3>3, <3>4, ShowsFrame
  <2> QED
    BY <1>12, <2>1, <2>2
<1>22. PhoneOf(d)'
  BY <1>7, <1>16, <1>17, <1>18, <1>19, <1>21, PhoneIs
<1> QED
  BY <1>1, <1>7, <1>13, <1>14, <1>20, <1>22, Others DEF Still

(* The app ends: nothing is in flight and nothing is shown.                *)
LEMMA KillStep ==
  ASSUME Types, Known, Phones, NEW d \in Devices, Kill(d)
  PROVE  Known' /\ Phones'
<1> USE DEF writing, phone, bounds, history
<1>1. UNCHANGED <<made, post, posts, denied>>
  BY DEF Kill
<1>2. Grows /\ Made' = Made
  BY <1>1, SameMade
<1>3. \A i \in Made :
        /\ stage'[i] = stage[i] \/ stage'[i] = "lost"
        /\ post[i].dev # d => stage'[i] = stage[i]
  BY DEF Kill
<1>4. \A e \in Devices : e # d => Calm(e) /\ Still(e)
  <2>1. \A e \in Devices : e # d => Calm(e)
    BY <1>2, <1>3 DEF Calm
  <2>2. \A e \in Devices : e # d => Still(e)
    BY DEF Kill, Still, Types
  <2> QED
    BY <2>1, <2>2
<1>5. Known'
  BY <1>1, <1>2, <1>3 DEF Known
<1>6. /\ down'[d] = << >> /\ mainq'[d] = << >> /\ table'[d] = {} /\ ~alive'[d]
  BY DEF Kill, Types
<1>7. PICK r : r = << >> /\ 1..Len(r) = {}
  BY EmptyFacts
<1>8. RightDown(r, d)' /\ RightMain(r, d)'
  BY <1>7 DEF RightDown, RightMain
<1>9. RightTable(d)' /\ Shows(d)'
  BY <1>6 DEF RightTable, Shows
<1>10. PhoneOf(d)'
  BY <1>6, <1>7, <1>8, <1>9, PhoneIs
<1> QED
  BY <1>4, <1>5, <1>10, Others

-----------------------------------------------------------------------------

(* It holds at first.                                                      *)
LEMMA InitIInv == Init => IInv
<1> SUFFICES ASSUME Init PROVE IInv
  OBVIOUS
<1> USE DEF Init
<1>1. made = 0 /\ Made = {}
  BY EmptyFacts DEF Made
<1>2. QueueTypes
  BY EmptyFacts DEF QueueTypes
<1>3. /\ fix \in [Devices -> Coordinates] /\ shownAt \in [Devices -> Coordinates]
      /\ sheet \in [Devices -> Sheets]
  BY PlaceFacts
<1>4. post \in [Made -> Drafts] /\ stage \in [Made -> Stages]
  BY <1>1
<1>5. \A d \in Devices : sheet[d].id <= sheets[d]
  <2>1. sheet = [d \in Devices |-> NoSheet] /\ sheets = [d \in Devices |-> 0]
    OBVIOUS
  <2>2. NoSheet.id = 0
    BY DEF NoSheet
  <2>3. PICK n \in Nat : n = 0 /\ n <= n
    OBVIOUS
  <2>4. ASSUME NEW d \in Devices
        PROVE  sheet[d].id <= sheets[d]
    <3>1. sheet[d].id = n /\ sheets[d] = n
      BY <2>1, <2>2, <2>3, Zenon
    <3> QED
      BY ONLY <2>3, <3>1, Zenon
  <2> QED
    BY <2>4
<1>6. Types
  BY <1>1, <1>2, <1>3, <1>4, <1>5, BoundAssumption DEF Types, QueueTypes
<1>7. Known
  BY <1>1 DEF Known
<1>8. ASSUME NEW d \in Devices PROVE PhoneOf(d)
  <2>1. PICK r : r = << >> /\ 1..Len(r) = {}
    BY EmptyFacts
  <2>2. RightDown(r, d) /\ RightMain(r, d)
    BY <2>1 DEF RightDown, RightMain
  <2>3. down[d] = r /\ mainq[d] = r
    BY <2>1
  <2>4. RightTable(d) /\ Shows(d)
    BY DEF RightTable, Shows
  <2> QED
    BY <2>2, <2>3, <2>4 DEF PhoneOf
<1> QED
  BY <1>6, <1>7, <1>8 DEF IInv, Phones

(* Every step keeps it.                                                    *)
LEMMA IInvNext == IInv /\ [Next]_vars => IInv'
<1> SUFFICES ASSUME IInv, [Next]_vars PROVE IInv'
  OBVIOUS
<1>1. Types /\ Known /\ Phones
  BY DEF IInv
<1>2. ASSUME NEW d \in Devices,
             Launch(d) \/ Pull(d) \/ OpenSheet(d) \/ CloseSheet(d) \/ Locate(d) \/ Move(d)
      PROVE  IInv'
  BY <1>1, <1>2, UserTypes, QuietStep DEF IInv
<1>3. ASSUME NEW d \in Devices, Post(d) PROVE IInv'
  BY <1>1, <1>3, PostTypes, PostStep DEF IInv
<1>4. ASSUME NEW d \in Devices, AnswerRead(d) \/ RefuseRead(d) PROVE IInv'
  BY <1>1, <1>4, ServerTypes, AnswerStep DEF IInv
<1>5. ASSUME NEW d \in Devices, NEW i \in Made, StorePost(d, i) \/ RefusePost(d, i) PROVE IInv'
  BY <1>1, <1>5, ServerTypes, StoreStep DEF IInv
<1>6. ASSUME NEW d \in Devices, Disconnect(d) PROVE IInv'
  BY <1>1, <1>6, ServerTypes, DisconnectStep DEF IInv
<1>7. ASSUME NEW d \in Devices, Client(d) PROVE IInv'
  BY <1>1, <1>7, ClientTypes, PostsStep, ReplyStep DEF IInv, Client
<1>8. ASSUME NEW d \in Devices, MainThread(d) PROVE IInv'
  BY <1>1, <1>8, MainTypes, FeedStep, CompletionStep DEF IInv, MainThread
<1>9. ASSUME NEW d \in Devices, Kill(d) PROVE IInv'
  BY <1>1, <1>9, KillTypes, KillStep DEF IInv
<1>10. CASE UNCHANGED vars
  <2>1. UNCHANGED <<posts, made, post, stage, here, alive, fix, sheet, reads, listen, down, mainq,
                    table, spinner, sheets, moves, faults, shownAt, failed, denied>>
    BY <1>10 DEF vars, writing, phone, bounds, history
  <2>2. Types'
    BY <1>1, <2>1 DEF Types, Made
  <2>3. Known'
    BY <1>1, <2>1 DEF Known, Made
  <2>4. \A d \in Devices : Calm(d) /\ Still(d)
    BY <2>1, SameMade DEF Calm, Still
  <2>5. Phones'
    BY <1>1, <2>4, Elsewhere DEF Phones
  <2> QED
    BY <2>2, <2>3, <2>5 DEF IInv
<1>11. CASE Next
  <2>1. PICK d \in Devices :
          \/ Launch(d) \/ Pull(d) \/ OpenSheet(d) \/ CloseSheet(d) \/ Post(d)
          \/ Locate(d) \/ Move(d)
          \/ Server(d) \/ Client(d) \/ MainThread(d) \/ RefuseRead(d)
          \/ \E i \in Made : RefusePost(d, i)
          \/ Disconnect(d) \/ Kill(d)
    BY <1>11 DEF Next
  <2> QED
    BY <1>2, <1>3, <1>4, <1>5, <1>6, <1>7, <1>8, <1>9, <2>1 DEF Server
<1> QED
  BY <1>10, <1>11

(* The inductive invariant is one.                                         *)
THEOREM Invariance == Spec => []IInv
BY InitIInv, IInvNext, PTL DEF Spec

-----------------------------------------------------------------------------
(* The invariants that TLC checks.                                         *)

(* Every variable has its type, and a read is under way exactly when the   *)
(* client listens.                                                         *)
THEOREM TypesHold == Spec => []TypeOK
<1>1. IInv => TypeOK
  <2> SUFFICES ASSUME IInv PROVE TypeOK
    OBVIOUS
  <2>1. Types /\ Phones
    BY DEF IInv
  <2>2. \A d \in Devices : table[d] \subseteq Made
    BY <2>1 DEF Types, Phones, PhoneOf, RightTable, Exists, Pending
  <2>3. \A i \in Made : post[i].dev \in Devices /\ post[i].sheet \in 1..MaxSheets
    BY <2>1 DEF Types, Drafts
  <2> QED
    BY <2>1, <2>2, <2>3 DEF TypeOK, Types
<1> QED
  BY <1>1, Invariance, PTL

(* What the feed displays exists.                                          *)
THEOREM ShownExistsHolds == Spec => []ShownExists
<1>1. IInv => ShownExists
  BY DEF IInv, Phones, PhoneOf, RightTable, Exists, ShownExists
<1> QED
  BY <1>1, Invariance, PTL

(* A post that was reported as posted is displayed once nothing is under   *)
(* way.                                                                    *)
THEOREM PostedIsShownHolds == Spec => []PostedIsShown
<1>1. IInv => PostedIsShown
  <2> SUFFICES ASSUME IInv, NEW d \in Devices,
                      alive[d], ~failed[d], reads[d] = << >>, mainq[d] = << >>,
                      NEW i \in Made, post[i].dev = d, stage[i] = "done",
                      Near(shownAt[d], post[i].coords)
               PROVE  i \in table[d]
    BY DEF PostedIsShown
  <2>1. ~Coming(d)
    BY EmptyFacts DEF Coming
  <2>2. Shows(d)
    BY DEF IInv, Phones, PhoneOf
  <2> QED
    BY <2>1, <2>2 DEF Shows, Mine
<1> QED
  BY <1>1, Invariance, PTL

=============================================================================
