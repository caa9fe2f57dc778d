--------------------------- MODULE AccountsProofs ---------------------------
(***************************************************************************)
(* Proofs about Accounts: types, and the three invariants that TLC checks  *)
(* on two phones, for any number of phones, accounts, calls, screens and   *)
(* faults.                                                                 *)
(*                                                                         *)
(* Two parts of the inductive invariant are about all phones: a completion *)
(* is queued once (Queued), and an account is recorded, or somebody is     *)
(* about to (Recorded).  The rest is about one phone.  Nobody can be       *)
(* signed out and see the feed because a sign-in screen lies over it that  *)
(* is younger than every call which may still present something (CoverOf): *)
(* what those calls present, they present from a screen that is covered.   *)
(* For a user who waits, the one open call was asked from the screen that  *)
(* is on top, so that nothing else can change the current user or what is  *)
(* seen until it is answered (PatientOf).                                  *)
(***************************************************************************)
EXTENDS AccountsProperties, SequenceTheorems, TLAPS

Requests == [dev : Devices, kind : {"signIn", "signUp", "admin"},
             account : Emails, id : Nat]
Shots == [kind : Kinds, id : Nat, user : Emails \cup {NoUser}]

Types ==
  /\ accounts \subseteq Emails
  /\ profiles \subseteq Emails
  /\ calls \in 0..MaxCalls
  /\ call \in [Calls -> Requests]
  /\ progress \in [Calls -> Progress]
  /\ alive \in [Devices -> BOOLEAN]
  /\ session \in [Devices -> Emails \cup {NoUser}]
  /\ shown \in [Devices -> Nat]
  /\ screens \in [Devices -> Seq(Shots)]
  /\ mainq \in [Devices -> Seq(Nat)]
  /\ writes \in [Devices -> SUBSET Emails]
  /\ faults \in 0..MaxFaults

Ready == {"welcome", "admit", "sorry"}

(* Each queued completion is that of an answered call, and runs once.      *)
RightQueue(q, d) ==
  /\ \A n \in 1..Len(q) :
       /\ q[n] \in Calls
       /\ call[q[n]].dev = d
       /\ progress[q[n]] \in Ready
  /\ \A m, n \in 1..Len(q) : q[m] = q[n] => m = n

QueuedOn(d) == RightQueue(mainq[d], d)

Queued == \A d \in Devices : QueuedOn(d)

(* Auth knows whom it let in, and whoever is being written.                *)
Granted ==
  /\ \A i \in Calls : progress[i] \in {"granted", "welcome"} => call[i].account \in accounts
  /\ \A d \in Devices : writes[d] \subseteq accounts

(* The records.                                                            *)
Recorded ==
  /\ \A i \in Calls : progress[i] = "orphan" => call[i].account \in hurt
  /\ EveryAccountIsRecorded

(* The stack of a phone.                                                   *)
StackOf(d) ==
  /\ alive[d] <=> screens[d] # << >>
  /\ \A n \in 1..Len(screens[d]) : screens[d][n].id \in 1..shown[d]
  /\ \A m, n \in 1..Len(screens[d]) : m < n => screens[d][m].id < screens[d][n].id
  /\ \A n \in 1..Len(screens[d]) : screens[d][n].kind # "tabs" => n > 1
  /\ \A n \in 1..Len(screens[d]) :
       screens[d][n].kind \in {"signUp", "admin"} => screens[d][n - 1].kind = "signIn"

(* The screen with the button of a call.                                   *)
Button(kind) == IF kind = "admin" THEN "signIn" ELSE kind

CallsOf(d) ==
  \A i \in Calls : call[i].dev = d =>
    /\ call[i].id <= shown[d]
    /\ Open(i) => alive[d]
    /\ progress[i] \in {"allowed", "admit"} => call[i].kind = "admin"
    /\ \A n \in 1..Len(screens[d]) :
         screens[d][n].id = call[i].id => screens[d][n].kind = Button(call[i].kind)

(* A sign-in screen, younger than screen k, over whatever feed there is.   *)
Cover(d, k) ==
  \E n \in 1..Len(screens[d]) :
    /\ screens[d][n].kind = "signIn" /\ screens[d][n].id > k
    /\ \A m \in 1..Len(screens[d]) : m > n => screens[d][m].kind \notin {"tabs", "admin"}

Presenting(i) == progress[i] \in {"welcome", "allowed", "admit"}

Threat(d, k) == \E i \in Calls : call[i].dev = d /\ call[i].id = k /\ Presenting(i)

CoverOf(d) ==
  alive[d] /\ session[d] = NoUser =>
    \A k \in 0..shown[d] : k = 0 \/ Threat(d, k) => Cover(d, k)

(* Screen n is seen, or has alerts over it only.                           *)
Bare(d, n) == \A m \in 1..Len(screens[d]) : m > n => screens[d][m].kind = "alert"

PatientOf(d) ==
  d \notin hurried /\ alive[d] =>
    /\ \A i \in Calls : call[i].dev = d /\ Open(i) =>
         /\ screens[d][Len(screens[d])].id = call[i].id
         /\ progress[i] \in {"allowed", "admit"} => session[d] \in Admins
    /\ \A i, j \in Calls :
         call[i].dev = d /\ Open(i) /\ call[j].dev = d /\ Open(j) => i = j
    /\ \A n \in 1..Len(screens[d]) : Bare(d, n) =>
         /\ screens[d][n].kind = "tabs" => screens[d][n].user = session[d]
         /\ screens[d][n].kind = "admin" => session[d] \in Admins

PhoneOf(d) == StackOf(d) /\ CallsOf(d) /\ CoverOf(d) /\ PatientOf(d)

Phones == \A d \in Devices : PhoneOf(d)

IInv == Types /\ Queued /\ Granted /\ Recorded /\ Phones

-----------------------------------------------------------------------------
(* Sequences.                                                              *)

(* Appending keeps the sequence and puts one element at its end.           *)
LEMMA AppendFacts ==
  ASSUME NEW S, NEW q \in Seq(S), NEW x \in S
  PROVE  /\ Append(q, x) \in Seq(S)
         /\ Len(q) \in Nat /\ Len(Append(q, x)) = Len(q) + 1
         /\ \A n \in 1..Len(q) : Append(q, x)[n] = q[n]
         /\ Append(q, x)[Len(q) + 1] = x
         /\ Append(q, x) # << >>
BY AppendProperties

(* Taking the head moves the others one place up.                          *)
LEMMA TailFacts ==
  ASSUME NEW S, NEW q \in Seq(S), q # << >>
  PROVE  /\ Tail(q) \in Seq(S)
         /\ Len(q) \in Nat \ {0} /\ Len(Tail(q)) = Len(q) - 1
         /\ \A n \in 1..Len(Tail(q)) : n + 1 \in 1..Len(q) /\ Tail(q)[n] = q[n + 1]
         /\ Head(q) \in S /\ Head(q) = q[1] /\ 1 \in 1..Len(q)
BY HeadTailProperties

(* What is left without the last element.                                  *)
LEMMA FrontFacts ==
  ASSUME NEW S, NEW q \in Seq(S), q # << >>
  PROVE  /\ Front(q) \in Seq(S)
         /\ Len(q) \in Nat \ {0} /\ Len(Front(q)) = Len(q) - 1
         /\ \A n \in 1..(Len(q) - 1) : Front(q)[n] = q[n]
         /\ Front(q) # << >> <=> Len(q) > 1
<1>1. Len(q) \in Nat \ {0}
  OBVIOUS
<1>2. Front(q) = SubSeq(q, 1, Len(q) - 1)
  BY DEF Front
<1>3. /\ Front(q) \in Seq(S) /\ Len(Front(q)) = Len(q) - 1
      /\ \A n \in 1..(Len(q) - 1) : Front(q)[n] = q[n]
  <2>1. Len(q) - 1 \in Int /\ \A n \in 1..(Len(q) - 1) : q[n] \in S /\ 1 + n - 1 = n
    BY <1>1
  <2>2. /\ SubSeq(q, 1, Len(q) - 1) \in Seq(S)
        /\ Len(SubSeq(q, 1, Len(q) - 1)) = IF 1 <= Len(q) - 1 THEN Len(q) - 1 - 1 + 1 ELSE 0
        /\ \A n \in 1..(Len(q) - 1 - 1 + 1) : SubSeq(q, 1, Len(q) - 1)[n] = q[1 + n - 1]
    BY <2>1, SubSeqProperties
  <2>3. Len(SubSeq(q, 1, Len(q) - 1)) = Len(q) - 1
    <3>1. \A k \in Nat \ {0} : (IF 1 <= k - 1 THEN k - 1 - 1 + 1 ELSE 0) = k - 1
      OBVIOUS
    <3>2. (IF 1 <= Len(q) - 1 THEN Len(q) - 1 - 1 + 1 ELSE 0) = Len(q) - 1
      BY <1>1, <3>1
    <3> QED
      BY <2>2, <3>2
  <2>4. \A n \in 1..(Len(q) - 1) : n \in 1..(Len(q) - 1 - 1 + 1)
    BY <1>1
  <2> QED
    BY <1>2, <2>1, <2>2, <2>3, <2>4
<1> QED
  BY <1>1, <1>3, EmptySeq

(* A sequence has elements exactly at its positions.                       *)
LEMMA SequenceFacts ==
  ASSUME NEW S, NEW q \in Seq(S)
  PROVE  /\ Len(q) \in Nat /\ \A n \in 1..Len(q) : q[n] \in S
         /\ q = << >> <=> Len(q) = 0
OBVIOUS

(* A sequence is one over any set that has its elements.                   *)
LEMMA SequenceOf ==
  ASSUME NEW S, NEW T, NEW q \in Seq(S), \A n \in 1..Len(q) : q[n] \in T
  PROVE  q \in Seq(T)
<1>1. Len(q) \in Nat /\ q \in [1..Len(q) -> S]
  BY LenProperties
<1>2. q \in [1..Len(q) -> T]
  BY <1>1
<1> QED
  BY <1>1, <1>2, SeqDef

(* A function on an interval grows at its end.                             *)
LEMMA GrowFacts ==
  ASSUME NEW S, NEW k \in Nat, NEW f \in [1..k -> S], NEW x \in S
  PROVE  /\ Append(f, x) \in [1..(k + 1) -> S]
         /\ \A n \in 1..k : Append(f, x)[n] = f[n]
         /\ Append(f, x)[k + 1] = x
<1>1. f \in Seq(S) /\ Len(f) = k
  OBVIOUS
<1>2. /\ Append(f, x) \in Seq(S) /\ Len(Append(f, x)) = k + 1
      /\ \A n \in 1..k : Append(f, x)[n] = f[n]
      /\ Append(f, x)[k + 1] = x
  BY <1>1, AppendFacts
<1> QED
  BY <1>2, LenProperties

-----------------------------------------------------------------------------
(* Types.                                                                  *)

(* Emails and NoUser.                                                      *)
LEMMA Persons == NoUser \notin Emails /\ Known \subseteq Emails
BY AccountAssumption DEF NoUser

(* A screen is one that can be taken a picture of.                         *)
LEMMA ShotFacts ==
  ASSUME Types, NEW d \in Devices, NEW kind \in Kinds, NEW id \in Nat
  PROVE  Screen(d, kind, id) \in Shots
BY DEF Types, Screen, Shots

(* The parts of a call.                                                    *)
LEMMA CallFacts ==
  ASSUME Types, NEW i \in Calls
  PROVE  /\ call[i].dev \in Devices /\ call[i].account \in Emails /\ call[i].id \in Nat
         /\ call[i].kind \in {"signIn", "signUp", "admin"}
         /\ i \in Nat
BY DEF Types, Requests, Calls

(* Presenting keeps the types of stacks.                                   *)
LEMMA PushTypes ==
  ASSUME Types, NEW d \in Devices, NEW kind \in Kinds, Push(d, kind)
  PROVE  /\ screens' \in [Devices -> Seq(Shots)] /\ shown' \in [Devices -> Nat]
<1>1. shown[d] + 1 \in Nat
  BY DEF Types
<1>2. Append(screens[d], Screen(d, kind, shown[d] + 1)) \in Seq(Shots)
  BY <1>1, ShotFacts, AppendFacts DEF Types
<1> QED
  BY <1>1, <1>2 DEF Types, Push

(* The same, from any screen.                                              *)
LEMMA PresentTypes ==
  ASSUME Types, NEW d \in Devices, NEW kind \in Kinds, NEW id, Present(d, id, kind)
  PROVE  /\ screens' \in [Devices -> Seq(Shots)] /\ shown' \in [Devices -> Nat]
<1>1. CASE Push(d, kind)
  BY <1>1, PushTypes
<1>2. CASE UNCHANGED ui
  BY <1>2 DEF Types, ui
<1> QED
  BY <1>1, <1>2 DEF Present

(* A completion is run, and closed.                                        *)
LEMMA RunTypes ==
  ASSUME Types, NEW d \in Devices, NEW i \in Calls, NEW p \in Progress,
         mainq[d] # << >>, mainq' = [mainq EXCEPT ![d] = Tail(@)],
         progress' = [progress EXCEPT ![i] = p], calls' = calls
  PROVE  mainq' \in [Devices -> Seq(Nat)] /\ progress' \in [Calls' -> Progress]
<1>1. Tail(mainq[d]) \in Seq(Nat)
  BY TailFacts DEF Types
<1> QED
  BY <1>1 DEF Types, Calls

(* A completion is queued.                                                 *)
LEMMA ReadyTypes ==
  ASSUME Types, NEW i \in Calls, NEW p \in Progress,
         mainq' = [mainq EXCEPT ![call[i].dev] = Append(@, i)],
         progress' = [progress EXCEPT ![i] = p], calls' = calls
  PROVE  mainq' \in [Devices -> Seq(Nat)] /\ progress' \in [Calls' -> Progress]
<1>1. call[i].dev \in Devices /\ i \in Nat
  BY CallFacts
<1>2. Append(mainq[call[i].dev], i) \in Seq(Nat)
  BY <1>1, AppendFacts DEF Types
<1> QED
  BY <1>2 DEF Types, Calls

(* The screen that is seen.                                                *)
LEMMA TopFacts ==
  ASSUME Types, NEW d \in Devices, StackOf(d), alive[d]
  PROVE  /\ screens[d] \in Seq(Shots) /\ screens[d] # << >>
         /\ Len(screens[d]) \in Nat \ {0} /\ Len(screens[d]) \in 1..Len(screens[d])
         /\ Top(d) = screens[d][Len(screens[d])]
         /\ Top(d).id \in 1..shown[d] /\ shown[d] \in Nat
<1>1. screens[d] \in Seq(Shots) /\ screens[d] # << >> /\ shown[d] \in Nat
  BY DEF Types, StackOf
<1>2. Len(screens[d]) \in Nat \ {0}
  BY <1>1, SequenceFacts
<1> QED
  BY <1>1, <1>2 DEF StackOf, Top, Last

(* What the user does keeps the types.                                     *)
LEMMA TypesUser ==
  ASSUME Types, NEW d \in Devices, StackOf(d),
         \/ Launch(d)
         \/ \E kind \in {"signIn", "signUp", "admin"}, a \in Emails : Ask(d, kind, a)
         \/ OpenSignUp(d) \/ Dismiss(d) \/ SignOut(d) \/ SignOutFails(d) \/ Kill(d)
  PROVE  Types'
<1> USE DEF servers, asked, ui, history
<1>1. shown[d] \in Nat /\ shown[d] + 1 \in Nat /\ shown[d] + 2 \in Nat
  BY DEF Types
<1>2. \A k \in Kinds : Screen(d, k, shown[d] + 1) \in Shots /\ Screen(d, k, shown[d] + 2) \in Shots
  BY <1>1, ShotFacts
<1>3. MaxCalls \in Nat /\ MaxFaults \in Nat
  BY BoundAssumption
<1>4. CASE Launch(d)
  <2>1. <<Screen(d, "tabs", shown[d] + 1), Screen(d, "signIn", shown[d] + 2)>> \in Seq(Shots)
    BY <1>2 DEF Kinds
  <2>2. <<Screen(d, "tabs", shown[d] + 1)>> \in Seq(Shots)
    BY <1>2 DEF Kinds
  <2>3. screens' \in [Devices -> Seq(Shots)] /\ shown' \in [Devices -> Nat]
    BY <1>1, <1>4, <2>1, <2>2 DEF Launch, Types
  <2> QED
    BY <1>4, <2>3 DEF Launch, Types, Calls
<1>5. ASSUME NEW kind \in {"signIn", "signUp", "admin"}, NEW a \in Emails, Ask(d, kind, a)
      PROVE  Types'
  <2>1. calls \in Nat /\ calls' = calls + 1 /\ calls' \in 0..MaxCalls
    BY <1>3, <1>5 DEF Ask, Types
  <2>2. Top(d).id \in Nat
    BY <1>5, TopFacts DEF Ask, Sees
  <2>3. [dev |-> d, kind |-> kind, account |-> a, id |-> Top(d).id] \in Requests
    BY <2>2 DEF Requests
  <2>4. call' \in [Calls' -> Requests] /\ progress' \in [Calls' -> Progress]
    BY <1>5, <2>1, <2>3, GrowFacts DEF Ask, Types, Calls, Progress
  <2> QED
    BY <1>5, <2>1, <2>4 DEF Ask, Types
<1>6. CASE OpenSignUp(d)
  <2>1. screens' \in [Devices -> Seq(Shots)] /\ shown' \in [Devices -> Nat]
    BY <1>6, PushTypes DEF OpenSignUp, Kinds
  <2> QED
    BY <1>6, <2>1 DEF OpenSignUp, Types, Calls
<1>7. CASE Dismiss(d)
  <2>1. Front(screens[d]) \in Seq(Shots)
    BY <1>7, TopFacts, FrontFacts DEF Dismiss, Sees
  <2>2. screens' \in [Devices -> Seq(Shots)]
    BY <1>7, <2>1 DEF Dismiss, Types
  <2> QED
    BY <1>7, <2>2 DEF Dismiss, Types, Calls
<1>8. CASE SignOut(d)
  <2>1. [kind |-> "signIn", id |-> shown[d] + 1, user |-> NoUser] \in Shots
    BY <1>1 DEF Shots, Kinds
  <2>2. Append(screens[d], [kind |-> "signIn", id |-> shown[d] + 1, user |-> NoUser]) \in Seq(Shots)
    BY <2>1, AppendFacts DEF Types
  <2>3. screens' \in [Devices -> Seq(Shots)] /\ shown' \in [Devices -> Nat]
    BY <1>1, <1>8, <2>2 DEF SignOut, Types
  <2> QED
    BY <1>8, <2>3 DEF SignOut, Types, Calls
<1>9. CASE SignOutFails(d)
  <2>1. screens' \in [Devices -> Seq(Shots)] /\ shown' \in [Devices -> Nat]
    BY <1>9, PushTypes DEF SignOutFails, Kinds
  <2> QED
    BY <1>3, <1>9, <2>1 DEF SignOutFails, Types, Calls
<1>10. CASE Kill(d)
  <2>1. << >> \in Seq(Shots) /\ << >> \in Seq(Nat)
    OBVIOUS
  <2>2. /\ screens' \in [Devices -> Seq(Shots)] /\ mainq' \in [Devices -> Seq(Nat)]
        /\ alive' \in [Devices -> BOOLEAN] /\ writes' \in [Devices -> SUBSET Emails]
    BY <1>10, <2>1 DEF Kill, Types
  <2>3. progress' \in [Calls' -> Progress]
    BY <1>10 DEF Kill, Types, Calls, Progress
  <2> QED
    BY <1>3, <1>10, <2>2, <2>3 DEF Kill, Types, Calls
<1> QED
  BY <1>4, <1>5, <1>6, <1>7, <1>8, <1>9, <1>10

(* The servers, and the clients' queues.                                   *)
LEMMA TypesNetwork ==
  ASSUME Types, NEW i \in Calls, Answer(i) \/ NetworkError(i) \/ RefuseCompare(i)
  PROVE  Types'
<1> USE DEF servers, asked, ui, history
<1>1. /\ call[i].dev \in Devices /\ call[i].account \in Emails
      /\ MaxFaults \in Nat
  BY CallFacts, BoundAssumption
<1>2. CASE Grant(i) \/ Deny(i)
  <2>1. progress' \in [Calls' -> Progress]
    BY <1>2 DEF Grant, Deny, Types, Calls, Progress
  <2>2. accounts' \subseteq Emails
    BY <1>1, <1>2 DEF Grant, Deny, Types
  <2> QED
    BY <1>2, <2>1, <2>2 DEF Grant, Deny, Types, Calls
<1>3. CASE Receive(i)
  <2>1. /\ mainq' = [mainq EXCEPT ![call[i].dev] = Append(@, i)] /\ calls' = calls
        /\ \E p \in Progress : progress' = [progress EXCEPT ![i] = p]
    BY <1>3 DEF Receive, Progress, Types
  <2>2. mainq' \in [Devices -> Seq(Nat)] /\ progress' \in [Calls' -> Progress]
    BY <2>1, ReadyTypes
  <2>3. session' \in [Devices -> Emails \cup {NoUser}]
    BY <1>1, <1>3 DEF Receive, Types
  <2> QED
    BY <1>3, <2>2, <2>3 DEF Receive, Types, Calls
<1>4. CASE NetworkError(i)
  <2>1. mainq' \in [Devices -> Seq(Nat)] /\ progress' \in [Calls' -> Progress]
    BY <1>4, ReadyTypes DEF NetworkError, Progress
  <2> QED
    BY <1>1, <1>4, <2>1 DEF NetworkError, Types, Calls
<1>5. ASSUME NEW p \in {"admit", "sorry"}, Compared(i, p), faults' \in 0..MaxFaults
      PROVE  Types'
  <2>1. mainq' \in [Devices -> Seq(Nat)] /\ progress' \in [Calls' -> Progress]
    BY <1>5, ReadyTypes DEF Compared, Progress
  <2> QED
    BY <1>5, <2>1 DEF Compared, Types, Calls
<1>6. CASE AnswerCompare(i)
  BY <1>5, <1>6 DEF AnswerCompare, Types
<1>7. CASE RefuseCompare(i)
  BY <1>1, <1>5, <1>7 DEF RefuseCompare, Types
<1> QED
  BY <1>2, <1>3, <1>4, <1>6, <1>7 DEF Answer

(* The main thread, and the database.                                      *)
LEMMA TypesPhone ==
  ASSUME Types, Granted, NEW d \in Devices,
         MainThread(d) \/ \E a \in Emails : StoreProfile(d, a) \/ RefuseProfile(d, a)
  PROVE  Types'
<1> USE DEF servers, asked, ui, history
<1>1. MaxFaults \in Nat
  BY BoundAssumption
<1>2. ASSUME NEW i \in Calls, Welcome(d, i)
      PROVE  Types'
  <2>1. mainq' \in [Devices -> Seq(Nat)] /\ progress' \in [Calls' -> Progress]
    BY <1>2, RunTypes DEF Welcome, Run, Progress
  <2>2. screens' \in [Devices -> Seq(Shots)] /\ shown' \in [Devices -> Nat]
    BY <1>2, PresentTypes DEF Welcome, Kinds
  <2>3. writes' \in [Devices -> SUBSET Emails]
    <3>1. writes[d] \cup {call[i].account} \in SUBSET Emails
      BY CallFacts DEF Types
    <3>2. \/ writes' = writes
          \/ writes' = [writes EXCEPT ![d] = writes[d] \cup {call[i].account}]
      BY <1>2 DEF Welcome
    <3> QED
      BY <3>1, <3>2 DEF Types
  <2> QED
    BY <1>2, <2>1, <2>2, <2>3 DEF Welcome, Types, Calls
<1>3. ASSUME NEW i \in Calls, Compare(d, i)
      PROVE  Types'
  <2>1. /\ \E p \in Progress : progress' = [progress EXCEPT ![i] = p]
        /\ mainq[d] # << >> /\ mainq' = [mainq EXCEPT ![d] = Tail(@)] /\ calls' = calls
    BY <1>3 DEF Compare, Progress
  <2>2. mainq' \in [Devices -> Seq(Nat)] /\ progress' \in [Calls' -> Progress]
    BY <2>1, RunTypes
  <2> QED
    BY <1>3, <2>2 DEF Compare, Types, Calls
<1>4. ASSUME NEW i \in Calls, Admit(d, i) \/ Sorry(d, i)
      PROVE  Types'
  <2>1. mainq' \in [Devices -> Seq(Nat)] /\ progress' \in [Calls' -> Progress]
    BY <1>4, RunTypes DEF Admit, Sorry, Run, Progress
  <2>2. screens' \in [Devices -> Seq(Shots)] /\ shown' \in [Devices -> Nat]
    BY <1>4, PresentTypes DEF Admit, Sorry, Kinds
  <2> QED
    BY <1>4, <2>1, <2>2 DEF Admit, Sorry, Types, Calls
<1>5. ASSUME NEW a \in Emails, StoreProfile(d, a) \/ RefuseProfile(d, a)
      PROVE  Types'
  <2>1. writes' \in [Devices -> SUBSET Emails] /\ profiles' \subseteq Emails
    <3>1. writes' = [writes EXCEPT ![d] = @ \ {a}]
      BY <1>5 DEF StoreProfile, RefuseProfile
    <3>2. profiles' = profiles \/ profiles' = profiles \cup {a}
      BY <1>5 DEF StoreProfile, RefuseProfile, servers
    <3> QED
      BY <3>1, <3>2 DEF Types
  <2>2. faults' \in 0..MaxFaults
    BY <1>1, <1>5 DEF StoreProfile, RefuseProfile, Types
  <2>3. UNCHANGED <<accounts, calls, call, progress, alive, session, screens, shown, mainq>>
    BY <1>5 DEF StoreProfile, RefuseProfile, servers, asked, ui, history
  <2>4. Calls' = Calls
    BY <2>3 DEF Calls
  <2> QED
    BY <2>1, <2>2, <2>3, <2>4 DEF Types
<1> QED
  BY <1>2, <1>3, <1>4, <1>5 DEF MainThread

-----------------------------------------------------------------------------
(* Completions.                                                            *)

(* Nothing happens to what is queued.                                      *)
LEMMA QueuedSame ==
  ASSUME Queued, mainq' = mainq,
         \A j \in Calls : /\ j \in Calls' /\ call'[j] = call[j]
                          /\ progress[j] \in Ready => progress'[j] = progress[j]
  PROVE  Queued'
BY DEF Queued, QueuedOn, RightQueue

(* A phone's queue, as it is in the next state.                            *)
LEMMA QueueIs ==
  ASSUME NEW d \in Devices, NEW r, mainq'[d] = r, RightQueue(r, d)'
  PROVE  QueuedOn(d)'
BY DEF QueuedOn

(* The first in the queue is run.                                          *)
LEMMA QueuedRun ==
  ASSUME Types, Queued, NEW d \in Devices, NEW i \in Calls, NEW p \in Progress,
         mainq[d] # << >>, i = Head(mainq[d]), mainq' = [mainq EXCEPT ![d] = Tail(@)],
         progress' = [progress EXCEPT ![i] = p], UNCHANGED asked
  PROVE  Queued'
<1>1. Calls' = Calls /\ call' = call /\ \A j \in Calls : j # i => progress'[j] = progress[j]
  BY DEF Types, Calls, asked
<1>2. PICK q \in Seq(Nat) : q = mainq[d]
  BY DEF Types
<1>3. PICK r \in Seq(Nat) : r = Tail(q)
  BY <1>2, TailFacts
<1>4. /\ q # << >> /\ i = q[1] /\ 1 \in 1..Len(q) /\ mainq'[d] = r
      /\ \A n \in 1..Len(r) : n \in Nat \ {0} /\ n + 1 \in 1..Len(q) /\ r[n] = q[n + 1]
  <2>1. q # << >> /\ i = Head(q) /\ mainq'[d] = r
    BY <1>2, <1>3 DEF Types
  <2> QED
    BY <1>3, <2>1, TailFacts
<1>5. /\ \A n \in 1..Len(q) : q[n] \in Calls /\ call[q[n]].dev = d /\ progress[q[n]] \in Ready
      /\ \A m, n \in 1..Len(q) : q[m] = q[n] => m = n
  BY <1>2 DEF Queued, QueuedOn, RightQueue
<1>6. QueuedOn(d)'
  <2>1. ASSUME NEW n \in 1..Len(r)
        PROVE  r[n] \in Calls' /\ call'[r[n]].dev = d /\ progress'[r[n]] \in Ready
    <3>1. n \in Nat \ {0} /\ n + 1 \in 1..Len(q) /\ r[n] = q[n + 1]
      BY <1>4
    <3>2. q[n + 1] \in Calls /\ call[q[n + 1]].dev = d /\ progress[q[n + 1]] \in Ready
      BY <1>5, <3>1
    <3>3. q[n + 1] # q[1]
      BY <1>4, <1>5, <3>1
    <3> QED
      BY <1>1, <1>4, <3>1, <3>2, <3>3
  <2>2. ASSUME NEW m \in 1..Len(r), NEW n \in 1..Len(r), r[m] = r[n]
        PROVE  m = n
    <3>1. /\ n \in Nat \ {0} /\ n + 1 \in 1..Len(q) /\ r[n] = q[n + 1]
          /\ m \in Nat \ {0} /\ m + 1 \in 1..Len(q) /\ r[m] = q[m + 1]
      BY <1>4
    <3>2. m + 1 = n + 1
      BY <1>5, <2>2, <3>1
    <3> QED
      BY <3>1, <3>2
  <2>3. RightQueue(r, d)'
    BY <2>1, <2>2 DEF RightQueue
  <2> QED
    BY <1>4, <2>3, QueueIs
<1>7. ASSUME NEW e \in Devices, e # d
      PROVE  QueuedOn(e)'
  <2>1. PICK s : s = mainq[e]
    OBVIOUS
  <2>2. mainq'[e] = s /\ RightQueue(s, e)
    BY <1>7, <2>1 DEF Types, Queued, QueuedOn
  <2>3. call[i].dev = d
    BY <1>4, <1>5
  <2>4. \A n \in 1..Len(s) : s[n] # i
    BY <1>7, <2>2, <2>3 DEF RightQueue
  <2>5. RightQueue(s, e)'
    BY <1>1, <2>2, <2>4 DEF RightQueue
  <2> QED
    BY <2>2, <2>5, QueueIs
<1> QED
  BY <1>6, <1>7 DEF Queued

(* A call that was answered comes last.                                    *)
LEMMA QueuedReady ==
  ASSUME Types, Queued, NEW i \in Calls, NEW p \in Ready, progress[i] \notin Ready,
         mainq' = [mainq EXCEPT ![call[i].dev] = Append(@, i)],
         progress' = [progress EXCEPT ![i] = p], UNCHANGED asked
  PROVE  Queued'
<1>1. /\ Calls' = Calls /\ call' = call /\ progress'[i] = p
      /\ \A j \in Calls : j # i => progress'[j] = progress[j]
  BY DEF Types, Calls, asked
<1>2. PICK d \in Devices : d = call[i].dev
  BY CallFacts
<1>3. PICK q \in Seq(Nat) : q = mainq[d]
  BY DEF Types
<1>4. i \in Nat
  BY CallFacts
<1>5. PICK r \in Seq(Nat) : r = Append(q, i)
  BY <1>4, AppendFacts
<1>6. /\ Len(q) \in Nat /\ mainq'[d] = r /\ r[Len(q) + 1] = i
      /\ \A n \in 1..Len(q) : r[n] = q[n]
      /\ \A n \in 1..Len(r) : n \in 1..Len(q) \/ n = Len(q) + 1
  <2>1. Len(q) \in Nat /\ Len(r) = Len(q) + 1
    BY <1>4, <1>5, AppendFacts
  <2>2. mainq'[d] = r
    BY <1>2, <1>3, <1>5 DEF Types
  <2>3. /\ r[Len(q) + 1] = i /\ \A n \in 1..Len(q) : r[n] = q[n]
    BY <1>4, <1>5, AppendFacts
  <2> QED
    BY <2>1, <2>2, <2>3
<1>7. \A e \in Devices : \A n \in 1..Len(mainq[e]) : mainq[e][n] # i
  BY DEF Queued, QueuedOn, RightQueue
<1>8. QueuedOn(d)'
  <2>1. /\ \A n \in 1..Len(q) : /\ q[n] \in Calls /\ call[q[n]].dev = d
                                /\ progress[q[n]] \in Ready /\ q[n] # i
        /\ \A m, n \in 1..Len(q) : q[m] = q[n] => m = n
    BY <1>3, <1>7 DEF Queued, QueuedOn, RightQueue
  <2>2. mainq'[d] = r
    BY <1>6
  <2>3. ASSUME NEW n \in 1..Len(r)
        PROVE  /\ r[n] \in Calls'
               /\ call'[r[n]].dev = d
               /\ progress'[r[n]] \in Ready
    <3>1. n \in 1..Len(q) \/ n = Len(q) + 1
      BY <1>6
    <3>2. CASE n \in 1..Len(q)
      <4>1. r[n] = q[n]
        BY <1>6, <3>2
      <4>2. q[n] \in Calls /\ call[q[n]].dev = d /\ progress[q[n]] \in Ready /\ q[n] # i
        BY <2>1, <3>2
      <4> QED
        BY <1>1, <4>1, <4>2
    <3>3. CASE n = Len(q) + 1
      <4>1. r[n] = i
        BY <1>6, <3>3
      <4>2. i \in Calls' /\ call'[i].dev = d /\ progress'[i] \in Ready
        BY <1>1, <1>2
      <4> QED
        BY <4>1, <4>2
    <3> QED
      BY <3>1, <3>2, <3>3
  <2>4. ASSUME NEW m \in 1..Len(r), NEW n \in 1..Len(r),
               r[m] = r[n]
        PROVE  m = n
    <3>1. r[m] = r[n]
      BY <2>4
    <3>2. /\ n \in 1..Len(q) \/ n = Len(q) + 1
          /\ m \in 1..Len(q) \/ m = Len(q) + 1
      BY <1>6
    <3>3. CASE n \in 1..Len(q) /\ m \in 1..Len(q)
      <4>1. r[m] = q[m] /\ r[n] = q[n]
        BY <1>6, <3>3
      <4>2. q[m] = q[n]
        BY <3>1, <4>1
      <4> QED
        BY <2>1, <3>3, <4>2
    <3>4. CASE n = Len(q) + 1 /\ m \in 1..Len(q)
      <4>1. r[m] = q[m] /\ r[n] = i /\ q[m] # i
        BY <1>6, <2>1, <3>4
      <4> QED
        BY <3>1, <4>1
    <3>5. CASE n \in 1..Len(q) /\ m = Len(q) + 1
      <4>1. r[n] = q[n] /\ r[m] = i /\ q[n] # i
        BY <1>6, <2>1, <3>5
      <4> QED
        BY <3>1, <4>1
    <3>6. CASE n = Len(q) + 1 /\ m = Len(q) + 1
      BY <3>6
    <3> QED
      BY <3>2, <3>3, <3>4, <3>5, <3>6
  <2>5. RightQueue(r, d)'
    BY <2>3, <2>4 DEF RightQueue
  <2> QED
    BY <2>2, <2>5, QueueIs
<1>9. ASSUME NEW e \in Devices, e # d
      PROVE  QueuedOn(e)'
  <2>1. PICK s : s = mainq[e]
    OBVIOUS
  <2>2. mainq'[e] = s /\ RightQueue(s, e)
    BY <1>2, <1>9, <2>1 DEF Types, Queued, QueuedOn
  <2>3. \A n \in 1..Len(s) : s[n] # i
    BY <1>7, <2>1
  <2>4. RightQueue(s, e)'
    BY <1>1, <2>2, <2>3 DEF RightQueue
  <2> QED
    BY <2>2, <2>4, QueueIs
<1> QED
  BY <1>8, <1>9 DEF Queued

(* Every step keeps the queues right.                                      *)
LEMMA QueuedNext == Types /\ Queued /\ Next => Queued'
<1> SUFFICES ASSUME Types, Queued, Next PROVE Queued'
  OBVIOUS
<1> USE DEF servers, asked, ui, history
<1>1. ASSUME NEW d \in Devices, Kill(d)
      PROVE  Queued'
  <2>1. Calls' = Calls /\ call' = call /\ mainq'[d] = << >>
        /\ \A e \in Devices : e # d => mainq'[e] = mainq[e]
    BY <1>1 DEF Kill, Calls, Types
  <2>2. \A j \in Calls : call[j].dev # d => progress'[j] = progress[j]
    BY <1>1 DEF Kill
  <2>3. QueuedOn(d)'
    BY <2>1 DEF QueuedOn, RightQueue
  <2>4. \A e \in Devices : e # d => QueuedOn(e)'
    BY <2>1, <2>2 DEF Queued, QueuedOn, RightQueue
  <2> QED
    BY <2>3, <2>4 DEF Queued
<1>2. ASSUME NEW d \in Devices, NEW kind \in {"signIn", "signUp", "admin"}, NEW a \in Emails,
             Ask(d, kind, a)
      PROVE  Queued'
  <2>1. calls \in Nat /\ calls' = calls + 1 /\ Calls' = 1..(calls + 1) /\ mainq' = mainq
    BY <1>2 DEF Ask, Types, Calls
  <2>2. \A j \in Calls : call'[j] = call[j] /\ progress'[j] = progress[j] /\ j \in Calls'
    BY <1>2, <2>1, GrowFacts DEF Ask, Types, Calls
  <2> QED
    BY <2>1, <2>2, QueuedSame
<1>3. ASSUME NEW d \in Devices,
             \/ Launch(d) \/ OpenSignUp(d) \/ Dismiss(d) \/ SignOut(d) \/ SignOutFails(d)
             \/ \E a \in Emails : StoreProfile(d, a) \/ RefuseProfile(d, a)
      PROVE  Queued'
  <2>1. mainq' = mainq /\ progress' = progress /\ calls' = calls /\ call' = call
    BY <1>3 DEF Launch, OpenSignUp, Dismiss, SignOut, SignOutFails, StoreProfile, RefuseProfile
  <2> QED
    BY <2>1, QueuedSame DEF Calls
<1>4. ASSUME NEW i \in Calls, Grant(i) \/ Deny(i)
      PROVE  Queued'
  <2>1. /\ mainq' = mainq /\ calls' = calls /\ call' = call /\ progress[i] \notin Ready
        /\ \A j \in Calls : j # i => progress'[j] = progress[j]
    BY <1>4 DEF Grant, Deny, Ready, Types
  <2> QED
    BY <2>1, QueuedSame DEF Calls
<1>5. ASSUME NEW i \in Calls,
             Receive(i) \/ NetworkError(i) \/ AnswerCompare(i) \/ RefuseCompare(i)
      PROVE  Queued'
  <2>1. /\ UNCHANGED asked /\ progress[i] \notin Ready
        /\ mainq' = [mainq EXCEPT ![call[i].dev] = Append(@, i)]
        /\ \E p \in Ready : progress' = [progress EXCEPT ![i] = p]
    BY <1>5 DEF Receive, NetworkError, AnswerCompare, RefuseCompare, Compared, Ready, Types
  <2> QED
    BY <2>1, QueuedReady
<1>6. ASSUME NEW d \in Devices, MainThread(d)
      PROVE  Queued'
  <2>1. PICK i \in Calls : Welcome(d, i) \/ Compare(d, i) \/ Admit(d, i) \/ Sorry(d, i)
    BY <1>6 DEF MainThread
  <2>2. /\ UNCHANGED asked /\ mainq[d] # << >> /\ i = Head(mainq[d])
        /\ mainq' = [mainq EXCEPT ![d] = Tail(@)]
        /\ \E p \in Progress : progress' = [progress EXCEPT ![i] = p]
    BY <2>1 DEF Welcome, Compare, Admit, Sorry, Run, Progress
  <2> QED
    BY <2>2, QueuedRun
<1> QED
  BY <1>1, <1>2, <1>3, <1>4, <1>5, <1>6 DEF Next, Answer

-----------------------------------------------------------------------------
(* Records.                                                                *)

(* What Auth let in, and what is being written, stays known.               *)
LEMMA GrantedNext == Types /\ Granted /\ Next => Granted'
<1> SUFFICES ASSUME Types, Granted, Next PROVE Granted'
  OBVIOUS
<1> USE DEF servers, asked, ui, history
<1>1. ASSUME accounts \subseteq accounts', calls' = calls, call' = call,
             \A d \in Devices : writes'[d] \subseteq writes[d],
             \A j \in Calls : progress'[j] \in {"granted", "welcome"} =>
                                progress[j] \in {"granted", "welcome"}
      PROVE  Granted'
  BY <1>1 DEF Granted, Calls
<1>2. ASSUME NEW d \in Devices, NEW kind \in {"signIn", "signUp", "admin"}, NEW a \in Emails,
             Ask(d, kind, a)
      PROVE  Granted'
  <2>1. calls \in Nat /\ calls' = calls + 1 /\ Calls' = 1..(calls + 1) /\ writes' = writes /\ accounts' = accounts
    BY <1>2 DEF Ask, Types, Calls
  <2>2. \A j \in Calls : call'[j] = call[j] /\ progress'[j] = progress[j]
    BY <1>2, <2>1, GrowFacts DEF Ask, Types, Calls
  <2>3. progress'[calls + 1] = "asked"
    BY <1>2, <2>1, GrowFacts DEF Ask, Types, Calls, Progress
  <2>4. \A j \in Calls' : j \in Calls \/ j = calls + 1
    BY <2>1 DEF Calls
  <2> QED
    BY <2>1, <2>2, <2>3, <2>4 DEF Granted
<1>3. ASSUME NEW d \in Devices,
             \/ Launch(d) \/ OpenSignUp(d) \/ Dismiss(d) \/ SignOut(d) \/ SignOutFails(d)
             \/ \E a \in Emails : StoreProfile(d, a) \/ RefuseProfile(d, a)
             \/ Kill(d)
      PROVE  Granted'
  <2>1. accounts' = accounts /\ calls' = calls /\ call' = call
    BY <1>3 DEF Launch, OpenSignUp, Dismiss, SignOut, SignOutFails, StoreProfile,
                RefuseProfile, Kill
  <2>2. \A e \in Devices : writes'[e] \subseteq writes[e]
    BY <1>3 DEF Launch, OpenSignUp, Dismiss, SignOut, SignOutFails, StoreProfile,
                RefuseProfile, Kill, Types
  <2>3. \A j \in Calls : progress'[j] \in {"granted", "welcome"} =>
                           progress[j] \in {"granted", "welcome"}
    BY <1>3 DEF Launch, OpenSignUp, Dismiss, SignOut, SignOutFails, StoreProfile,
                RefuseProfile, Kill
  <2> QED
    BY <1>1, <2>1, <2>2, <2>3
<1>4. ASSUME NEW i \in Calls, Grant(i)
      PROVE  Granted'
  <2>1. /\ accounts' = accounts \cup {call[i].account}
        /\ writes' = writes /\ Calls' = Calls /\ call' = call
        /\ \A j \in Calls : j # i => progress'[j] = progress[j]
    BY <1>4 DEF Grant, Types, Calls
  <2> QED
    BY <2>1 DEF Granted
<1>5. ASSUME NEW i \in Calls,
             Deny(i) \/ Receive(i) \/ NetworkError(i) \/ AnswerCompare(i) \/ RefuseCompare(i)
      PROVE  Granted'
  <2>1. /\ accounts' = accounts /\ calls' = calls /\ call' = call /\ writes' = writes
        /\ \A j \in Calls : j # i => progress'[j] = progress[j]
        /\ progress'[i] \in {"granted", "welcome"} => progress[i] \in {"granted", "welcome"}
    BY <1>5 DEF Deny, Receive, NetworkError, AnswerCompare, RefuseCompare, Compared, Types
  <2> QED
    BY <1>1, <2>1
<1>6. ASSUME NEW d \in Devices, NEW i \in Calls, Welcome(d, i)
      PROVE  Granted'
  <2>1. /\ accounts' = accounts /\ Calls' = Calls /\ call' = call
        /\ progress'[i] = "closed" /\ progress[i] = "welcome"
        /\ \A j \in Calls : j # i => progress'[j] = progress[j]
    BY <1>6 DEF Welcome, Run, Types, Calls
  <2>2. \A e \in Devices : writes'[e] \subseteq writes[e] \cup {call[i].account}
    BY <1>6 DEF Welcome, Types
  <2> QED
    BY <2>1, <2>2 DEF Granted
<1>7. ASSUME NEW d \in Devices, NEW i \in Calls,
             Compare(d, i) \/ Admit(d, i) \/ Sorry(d, i)
      PROVE  Granted'
  <2>1. /\ accounts' = accounts /\ calls' = calls /\ call' = call /\ writes' = writes
        /\ \A j \in Calls : j # i => progress'[j] = progress[j]
        /\ progress'[i] \in {"closed", "allowed", "barred"}
    BY <1>7 DEF Compare, Admit, Sorry, Run, Types
  <2> QED
    BY <1>1, <2>1
<1> QED
  BY <1>2, <1>3, <1>4, <1>5, <1>6, <1>7 DEF Next, Answer, MainThread

(* Whoever writes the record of an account goes on, or has written it, or  *)
(* met a fault.                                                            *)
LEMMA RecordedKeep ==
  ASSUME Recorded, accounts' = accounts, profiles \subseteq profiles', hurt \subseteq hurt',
         \A d \in Devices : \A a \in writes[d] :
           a \in writes'[d] \/ a \in profiles' \/ a \in hurt',
         \A i \in Calls : i \in Calls' /\ call'[i] = call[i],
         \A i \in Calls : progress[i] \in {"granted", "welcome"} /\ call[i].kind = "signUp" =>
           \/ progress'[i] \in {"granted", "welcome"}
           \/ call[i].account \in hurt'
           \/ \E d \in Devices : call[i].account \in writes'[d],
         \A i \in Calls' : progress'[i] = "orphan" => call'[i].account \in hurt'
  PROVE  Recorded'
<1>1. ASSUME NEW a \in accounts' \ (profiles' \cup hurt')
      PROVE  \/ \E d \in Devices : a \in writes'[d]
             \/ \E i \in Calls' : /\ call'[i].kind = "signUp" /\ call'[i].account = a
                                  /\ progress'[i] \in {"granted", "welcome"}
  <2>1. a \in accounts \ (profiles \cup hurt) /\ a \notin profiles' /\ a \notin hurt'
    BY <1>1
  <2>2. CASE \E d \in Devices : a \in writes[d]
    BY <2>1, <2>2
  <2>3. ASSUME NEW i \in Calls, call[i].kind = "signUp", call[i].account = a,
               progress[i] \in {"granted", "welcome"}
        PROVE  \/ \E d \in Devices : a \in writes'[d]
               \/ i \in Calls' /\ call'[i] = call[i] /\ progress'[i] \in {"granted", "welcome"}
    BY <2>1, <2>3
  <2> QED
    BY <2>1, <2>2, <2>3 DEF Recorded, EveryAccountIsRecorded
<1> QED
  BY <1>1 DEF Recorded, EveryAccountIsRecorded

(* The same, when one call goes on.                                        *)
LEMMA RecordedCall ==
  ASSUME Types, Recorded, accounts' = accounts, profiles' = profiles, hurt \subseteq hurt',
         UNCHANGED asked, NEW i \in Calls, NEW p \in Progress \ {"orphan"},
         progress' = [progress EXCEPT ![i] = p],
         \A d \in Devices : writes[d] \subseteq writes'[d],
         progress[i] \in {"granted", "welcome"} /\ call[i].kind = "signUp" =>
           \/ p \in {"granted", "welcome"}
           \/ call[i].account \in hurt'
           \/ \E d \in Devices : call[i].account \in writes'[d]
  PROVE  Recorded'
<1>1. /\ Calls' = Calls /\ call' = call /\ progress'[i] = p
      /\ \A j \in Calls : j # i => progress'[j] = progress[j]
  BY DEF Types, Calls, asked
<1>2. \A j \in Calls' : progress'[j] = "orphan" => call'[j].account \in hurt'
  BY <1>1 DEF Recorded
<1>3. \A j \in Calls : progress[j] \in {"granted", "welcome"} /\ call[j].kind = "signUp" =>
           \/ progress'[j] \in {"granted", "welcome"}
           \/ call[j].account \in hurt'
           \/ \E d \in Devices : call[j].account \in writes'[d]
  BY <1>1
<1>4. \A d \in Devices : \A a \in writes[d] : a \in writes'[d] \/ a \in profiles' \/ a \in hurt'
  OBVIOUS
<1>5. \A j \in Calls : j \in Calls' /\ call'[j] = call[j]
  BY <1>1
<1> QED
  BY <1>2, <1>3, <1>4, <1>5, RecordedKeep

(* Every step keeps the records right.                                     *)
LEMMA RecordedNext == Types /\ Recorded /\ Next => Recorded'
<1> SUFFICES ASSUME Types, Recorded, Next PROVE Recorded'
  OBVIOUS
<1> USE DEF servers, asked, ui, history
<1>1. ASSUME NEW d \in Devices, NEW kind \in {"signIn", "signUp", "admin"}, NEW a \in Emails,
             Ask(d, kind, a)
      PROVE  Recorded'
  <2>1. /\ calls \in Nat /\ calls' = calls + 1 /\ Calls' = 1..(calls + 1)
        /\ writes' = writes /\ accounts' = accounts /\ profiles' = profiles /\ hurt' = hurt
    BY <1>1 DEF Ask, Types, Calls
  <2>2. \A j \in Calls : j \in Calls' /\ call'[j] = call[j] /\ progress'[j] = progress[j]
    BY <1>1, <2>1, GrowFacts DEF Ask, Types, Calls
  <2>3. progress'[calls + 1] = "asked"
    BY <1>1, <2>1, GrowFacts DEF Ask, Types, Calls, Progress
  <2>4. \A j \in Calls' : j \in Calls \/ j = calls + 1
    BY <2>1 DEF Calls
  <2>5. \A j \in Calls' : progress'[j] = "orphan" => call'[j].account \in hurt'
    BY <2>1, <2>2, <2>3, <2>4 DEF Recorded
  <2> QED
    BY <2>1, <2>2, <2>5, RecordedKeep
<1>2. ASSUME NEW d \in Devices,
             \/ Launch(d) \/ OpenSignUp(d) \/ Dismiss(d) \/ SignOut(d) \/ SignOutFails(d)
             \/ \E a \in Emails : StoreProfile(d, a) \/ RefuseProfile(d, a)
      PROVE  Recorded'
  <2>1. accounts' = accounts /\ calls' = calls /\ call' = call /\ progress' = progress
    BY <1>2 DEF Launch, OpenSignUp, Dismiss, SignOut, SignOutFails, StoreProfile, RefuseProfile
  <2>2. /\ profiles \subseteq profiles' /\ hurt \subseteq hurt'
        /\ \A e \in Devices : \A a \in writes[e] :
             a \in writes'[e] \/ a \in profiles' \/ a \in hurt'
    <3>1. ASSUME NEW a \in Emails, StoreProfile(d, a) \/ RefuseProfile(d, a)
          PROVE  /\ profiles \subseteq profiles' /\ hurt \subseteq hurt'
                 /\ writes' = [writes EXCEPT ![d] = @ \ {a}] /\ (a \in profiles' \/ a \in hurt')
      BY <3>1 DEF StoreProfile, RefuseProfile
    <3>2. CASE \E a \in Emails : StoreProfile(d, a) \/ RefuseProfile(d, a)
      BY <3>1, <3>2 DEF Types
    <3>3. CASE Launch(d) \/ OpenSignUp(d) \/ Dismiss(d) \/ SignOut(d) \/ SignOutFails(d)
      BY <3>3 DEF Launch, OpenSignUp, Dismiss, SignOut, SignOutFails
    <3> QED
      BY <1>2, <3>2, <3>3
  <2>3. \A j \in Calls' : progress'[j] = "orphan" => call'[j].account \in hurt'
    BY <2>1, <2>2 DEF Recorded, Calls
  <2> QED
    BY <2>1, <2>2, <2>3, RecordedKeep DEF Calls
<1>3. ASSUME NEW d \in Devices, Kill(d)
      PROVE  Recorded'
  <2>1. /\ accounts' = accounts /\ calls' = calls /\ call' = call /\ profiles' = profiles
        /\ Calls' = Calls /\ \A e \in Devices : e # d => writes'[e] = writes[e]
    BY <1>3 DEF Kill, Types, Calls
  <2>2. /\ hurt \subseteq hurt' /\ writes[d] \subseteq hurt'
        /\ \A j \in Calls : call[j].dev = d /\ Open(j) => call[j].account \in hurt'
    BY <1>3 DEF Kill
  <2>3. \A j \in Calls : progress'[j] = "orphan" /\ progress[j] # "orphan" =>
                           call[j].dev = d /\ Open(j)
    BY <1>3 DEF Kill, Open
  <2>4. \A j \in Calls : progress[j] \in {"granted", "welcome"} =>
          progress'[j] = progress[j] \/ (call[j].dev = d /\ Open(j))
    BY <1>3 DEF Kill, Open
  <2>5. \A j \in Calls' : progress'[j] = "orphan" => call'[j].account \in hurt'
    BY <2>1, <2>2, <2>3 DEF Recorded
  <2>6. \A e \in Devices : \A a \in writes[e] : a \in writes'[e] \/ a \in hurt'
    BY <2>1, <2>2
  <2>7. \A j \in Calls : progress[j] \in {"granted", "welcome"} =>
          progress'[j] \in {"granted", "welcome"} \/ call[j].account \in hurt'
    BY <2>2, <2>4
  <2>8. \A j \in Calls : j \in Calls' /\ call'[j] = call[j]
    BY <2>1
  <2> QED
    BY <2>1, <2>2, <2>5, <2>6, <2>7, <2>8, RecordedKeep
<1>4. ASSUME NEW i \in Calls, Grant(i)
      PROVE  Recorded'
  <2>1. /\ accounts' = accounts \cup {call[i].account}
        /\ writes' = writes /\ Calls' = Calls /\ call' = call
        /\ profiles' = profiles /\ hurt' = hurt
        /\ \A j \in Calls : j # i => progress'[j] = progress[j]
        /\ progress[i] \in {"asked", "orphan"}
        /\ progress'[i] = IF progress[i] = "asked" THEN "granted" ELSE "closed"
        /\ call[i].account \in accounts \/ call[i].kind = "signUp"
    BY <1>4 DEF Grant, Types, Calls
  <2>2. \A j \in Calls' : progress'[j] = "orphan" => call'[j].account \in hurt'
    BY <2>1 DEF Recorded
  <2>3. ASSUME NEW a \in accounts' \ (profiles' \cup hurt')
        PROVE  \/ \E d \in Devices : a \in writes'[d]
               \/ \E j \in Calls' : /\ call'[j].kind = "signUp" /\ call'[j].account = a
                                    /\ progress'[j] \in {"granted", "welcome"}
    <3>1. CASE a \in accounts
      <4>1. \/ \E d \in Devices : a \in writes[d]
            \/ \E j \in Calls : /\ call[j].kind = "signUp" /\ call[j].account = a
                                /\ progress[j] \in {"granted", "welcome"}
        BY <2>1, <2>3, <3>1 DEF Recorded, EveryAccountIsRecorded
      <4> QED
        BY <2>1, <4>1
    <3>2. CASE a \notin accounts
      <4>1. a = call[i].account /\ call[i].kind = "signUp" /\ a \notin hurt
        BY <2>1, <2>3, <3>2
      <4>2. progress[i] = "asked"
        BY <2>1, <4>1 DEF Recorded
      <4> QED
        BY <2>1, <4>1, <4>2
    <3> QED
      BY <3>1, <3>2
  <2> QED
    BY <2>2, <2>3 DEF Recorded, EveryAccountIsRecorded
<1>5. ASSUME NEW i \in Calls,
             Deny(i) \/ Receive(i) \/ NetworkError(i) \/ AnswerCompare(i) \/ RefuseCompare(i)
      PROVE  Recorded'
  <2>1. /\ accounts' = accounts /\ UNCHANGED asked /\ writes' = writes
        /\ profiles' = profiles /\ hurt \subseteq hurt'
    BY <1>5 DEF Deny, Receive, NetworkError, AnswerCompare, RefuseCompare, Compared
  <2>2. \E p \in Progress \ {"orphan"} :
          /\ progress' = [progress EXCEPT ![i] = p]
          /\ progress[i] \in {"granted", "welcome"} =>
               p \in {"granted", "welcome"} \/ call[i].account \in hurt'
    BY <1>5 DEF Deny, Receive, NetworkError, AnswerCompare, RefuseCompare, Compared,
                Progress, Types
  <2> QED
    BY <2>1, <2>2, RecordedCall
<1>6. ASSUME NEW d \in Devices, NEW i \in Calls,
             Welcome(d, i) \/ Compare(d, i) \/ Admit(d, i) \/ Sorry(d, i)
      PROVE  Recorded'
  <2>1. /\ accounts' = accounts /\ UNCHANGED asked
        /\ profiles' = profiles /\ hurt' = hurt
    BY <1>6 DEF Welcome, Compare, Admit, Sorry
  <2>2. /\ \A e \in Devices : writes[e] \subseteq writes'[e]
        /\ progress[i] \in {"granted", "welcome"} /\ call[i].kind = "signUp" =>
             call[i].account \in writes'[d]
    BY <1>6 DEF Welcome, Compare, Admit, Sorry, Types
  <2>3. \E p \in Progress \ {"orphan"} : progress' = [progress EXCEPT ![i] = p]
    BY <1>6 DEF Welcome, Compare, Admit, Sorry, Run, Progress
  <2> QED
    BY <2>1, <2>2, <2>3, RecordedCall
<1> QED
  BY <1>1, <1>2, <1>3, <1>4, <1>5, <1>6 DEF Next, Answer, MainThread

-----------------------------------------------------------------------------
(* One phone.  What a step makes of it: its calls go on, or are closed;    *)
(* its stack is left alone, or a screen comes on top, or goes.             *)

CallsGoOn(d) ==
  \A i \in Calls' : call'[i].dev = d =>
    /\ i \in Calls /\ call'[i] = call[i]
    /\ Open(i)' => Open(i)
    /\ Presenting(i)' => Presenting(i)
    /\ progress'[i] \in {"allowed", "admit"} =>
         \/ progress[i] \in {"allowed", "admit"}
         \/ call[i].kind = "admin" /\ session[d] \in Admins

SameScreens(d) == screens'[d] = screens[d] /\ shown'[d] = shown[d] /\ alive'[d] = alive[d]

Pushed(d, kind, user) ==
  /\ alive[d] /\ alive'[d]
  /\ screens'[d] = Append(screens[d], [kind |-> kind, id |-> shown[d] + 1, user |-> user])
  /\ shown'[d] = shown[d] + 1

(* No screen changes, and nobody else signs in.                            *)
LEMMA Quiet ==
  ASSUME NEW d \in Devices, PhoneOf(d), SameScreens(d), session'[d] = session[d],
         d \in hurried => d \in hurried', CallsGoOn(d)
  PROVE  PhoneOf(d)'
<1>1. StackOf(d)'
  BY DEF PhoneOf, StackOf, SameScreens
<1>2. CallsOf(d)'
  BY DEF PhoneOf, CallsOf, SameScreens, CallsGoOn
<1>3. CoverOf(d)'
  <2>1. \A k : Cover(d, k) => Cover(d, k)'
    BY DEF Cover, SameScreens
  <2>2. \A k : Threat(d, k)' => Threat(d, k)
    BY DEF Threat, CallsGoOn
  <2>3. CoverOf(d)
    BY DEF PhoneOf
  <2> QED
    BY <2>1, <2>2, <2>3 DEF CoverOf, SameScreens
<1>4. PatientOf(d)'
  <2> SUFFICES ASSUME d \notin hurried', alive'[d] PROVE PatientOf(d)'
    BY DEF PatientOf
  <2>1. d \notin hurried /\ alive[d] /\ PatientOf(d)
    BY DEF SameScreens, PhoneOf
  <2>2. \A n : Bare(d, n)' => Bare(d, n)
    BY DEF Bare, SameScreens
  <2> QED
    BY <2>1, <2>2 DEF PatientOf, SameScreens, CallsGoOn
<1> QED
  BY <1>1, <1>2, <1>3, <1>4 DEF PhoneOf

(* A new screen is the youngest.                                           *)
LEMMA PushFacts ==
  ASSUME Types, NEW d \in Devices, StackOf(d), NEW kind \in Kinds,
         NEW user \in Emails \cup {NoUser}, Pushed(d, kind, user)
  PROVE  /\ Len(screens[d]) \in Nat \ {0} /\ Len(screens'[d]) = Len(screens[d]) + 1
         /\ \A n \in 1..Len(screens[d]) : screens'[d][n] = screens[d][n]
         /\ screens'[d][Len(screens[d]) + 1].kind = kind
         /\ screens'[d][Len(screens[d]) + 1].id = shown[d] + 1
         /\ screens'[d][Len(screens[d]) + 1].user = user
         /\ \A n \in 1..Len(screens'[d]) : n \in 1..Len(screens[d]) \/ n = Len(screens[d]) + 1
         /\ shown[d] \in Nat /\ shown'[d] = shown[d] + 1
         /\ screens'[d] # << >>
<1>1. /\ screens[d] \in Seq(Shots) /\ Len(screens[d]) \in Nat \ {0} /\ shown[d] \in Nat
  BY TopFacts DEF Pushed
<1>2. [kind |-> kind, id |-> shown[d] + 1, user |-> user] \in Shots
  BY <1>1 DEF Shots
<1>3. PICK r \in Seq(Shots) :
        r = Append(screens[d], [kind |-> kind, id |-> shown[d] + 1, user |-> user])
  BY <1>1, <1>2, AppendFacts
<1>4. /\ Len(r) = Len(screens[d]) + 1 /\ screens'[d] = r
      /\ \A n \in 1..Len(screens[d]) : r[n] = screens[d][n]
      /\ r[Len(screens[d]) + 1] = [kind |-> kind, id |-> shown[d] + 1, user |-> user]
      /\ r # << >>
  BY <1>1, <1>2, <1>3, AppendFacts DEF Pushed
<1>5. \A n \in 1..Len(screens'[d]) : n \in 1..Len(screens[d]) \/ n = Len(screens[d]) + 1
  BY <1>1, <1>4
<1>6. shown'[d] = shown[d] + 1
  BY DEF Pushed
<1> QED
  BY <1>1, <1>4, <1>5, <1>6

(* The stack stays in order; a sheet lies on a sign-in screen.             *)
LEMMA PushStack ==
  ASSUME Types, NEW d \in Devices, StackOf(d), NEW kind \in Kinds,
         NEW user \in Emails \cup {NoUser}, Pushed(d, kind, user),
         kind \in {"signUp", "admin"} => screens[d][Len(screens[d])].kind = "signIn"
  PROVE  StackOf(d)'
<1> DEFINE L == Len(screens[d])
<1>1. /\ L \in Nat \ {0} /\ Len(screens'[d]) = L + 1
      /\ \A n \in 1..L : screens'[d][n] = screens[d][n]
      /\ screens'[d][L + 1].kind = kind /\ screens'[d][L + 1].id = shown[d] + 1
      /\ \A n \in 1..Len(screens'[d]) : n \in 1..L \/ n = L + 1
      /\ shown[d] \in Nat /\ shown'[d] = shown[d] + 1
  BY PushFacts
<1>2. /\ \A n \in 1..L : screens[d][n].id \in 1..shown[d]
      /\ \A m, n \in 1..L : m < n => screens[d][m].id < screens[d][n].id
      /\ \A n \in 1..L : screens[d][n].kind # "tabs" => n > 1
      /\ \A n \in 1..L : screens[d][n].kind \in {"signUp", "admin"} =>
           n > 1 /\ screens[d][n - 1].kind = "signIn"
  BY DEF StackOf
<1> HIDE DEF L
<1>3. alive'[d] /\ screens'[d] # << >>
  BY PushFacts DEF Pushed
<1>4. ASSUME NEW n \in 1..Len(screens'[d])
      PROVE  screens'[d][n].id \in 1..shown'[d]
  <2>1. CASE n \in 1..L
    <3>1. screens'[d][n].id \in 1..shown[d]
      BY <1>1, <1>2, <2>1
    <3> QED
      BY <1>1, <3>1
  <2>2. CASE n = L + 1
    BY <1>1, <2>2
  <2> QED
    BY <1>1, <2>1, <2>2
<1>5. ASSUME NEW m \in 1..Len(screens'[d]), NEW n \in 1..Len(screens'[d]), m < n
      PROVE  screens'[d][m].id < screens'[d][n].id
  <2>1. m \in 1..L
    BY <1>1, <1>5
  <2>2. CASE n \in 1..L
    BY <1>1, <1>2, <1>5, <2>1, <2>2
  <2>3. CASE n = L + 1
    BY SMTT(30), <1>1, <1>2, <2>1, <2>3
  <2> QED
    BY <1>1, <2>2, <2>3
<1>6. ASSUME NEW n \in 1..Len(screens'[d]), screens'[d][n].kind \in {"signUp", "admin"}
      PROVE  n > 1 /\ screens'[d][n - 1].kind = "signIn"
  <2>1. CASE n \in 1..L
    <3>1. n > 1 /\ screens[d][n - 1].kind = "signIn" /\ n - 1 \in 1..L
      BY <1>1, <1>2, <1>6, <2>1
    <3> QED
      BY <1>1, <3>1
  <2>2. CASE n = L + 1
    <3>1. kind \in {"signUp", "admin"}
      BY <1>1, <1>6, <2>2
    <3>2. screens[d][L].kind = "signIn" /\ n > 1 /\ n - 1 = L /\ L \in 1..L
      BY <1>1, <2>2, <3>1 DEF L
    <3> QED
      BY <1>1, <3>2
  <2> QED
    BY <1>1, <2>1, <2>2
<1>7. \A n \in 1..Len(screens'[d]) : screens'[d][n].kind # "tabs" => n > 1
  BY <1>1, <1>2
<1> QED
  BY <1>3, <1>4, <1>5, <1>6, <1>7 DEF StackOf

(* No call was asked from the new screen.                                  *)
LEMMA PushCalls ==
  ASSUME Types, NEW d \in Devices, StackOf(d), CallsOf(d), NEW kind \in Kinds,
         NEW user \in Emails \cup {NoUser}, Pushed(d, kind, user), CallsGoOn(d)
  PROVE  CallsOf(d)'
<1> SUFFICES ASSUME NEW i \in Calls', call'[i].dev = d
             PROVE  /\ call'[i].id <= shown'[d]
                    /\ Open(i)' => alive'[d]
                    /\ progress'[i] \in {"allowed", "admit"} => call'[i].kind = "admin"
                    /\ \A n \in 1..Len(screens'[d]) : screens'[d][n].id = call'[i].id =>
                         screens'[d][n].kind = Button(call'[i].kind)
  BY DEF CallsOf, Button
<1>1. i \in Calls /\ call'[i] = call[i]
  BY DEF CallsGoOn
<1>2. /\ call[i].id \in Nat /\ call[i].id <= shown[d]
      /\ \A n \in 1..Len(screens[d]) :
           screens[d][n].id = call[i].id => screens[d][n].kind = Button(call[i].kind)
  BY <1>1, CallFacts DEF CallsOf
<1>3. /\ \A n \in 1..Len(screens[d]) : screens'[d][n] = screens[d][n]
      /\ screens'[d][Len(screens[d]) + 1].id = shown[d] + 1
      /\ \A n \in 1..Len(screens'[d]) : n \in 1..Len(screens[d]) \/ n = Len(screens[d]) + 1
      /\ shown[d] \in Nat /\ shown'[d] = shown[d] + 1
  BY PushFacts
<1>4. /\ call'[i].id <= shown'[d] /\ alive'[d]
      /\ progress'[i] \in {"allowed", "admit"} => call'[i].kind = "admin"
  <2>1. progress'[i] \in {"allowed", "admit"} => call[i].kind = "admin"
    BY <1>1 DEF CallsGoOn, CallsOf
  <2> QED
    BY <1>1, <1>2, <1>3, <2>1 DEF Pushed
<1>5. ASSUME NEW n \in 1..Len(screens'[d]), screens'[d][n].id = call'[i].id
      PROVE  screens'[d][n].kind = Button(call'[i].kind)
  <2>1. n # Len(screens[d]) + 1
    BY <1>1, <1>2, <1>3, <1>5
  <2> QED
    BY <1>1, <1>2, <1>3, <1>5, <2>1
<1> QED
  BY <1>4, <1>5

(* What covers goes on to, under anything but a feed or a page.            *)
LEMMA PushCover ==
  ASSUME Types, NEW d \in Devices, StackOf(d), NEW kind \in Kinds \ {"tabs", "admin"},
         NEW user \in Emails \cup {NoUser}, Pushed(d, kind, user), NEW k, Cover(d, k)
  PROVE  Cover(d, k)'
<1>1. /\ Len(screens[d]) \in Nat \ {0} /\ Len(screens'[d]) = Len(screens[d]) + 1
      /\ \A n \in 1..Len(screens[d]) : screens'[d][n] = screens[d][n]
      /\ screens'[d][Len(screens[d]) + 1].kind = kind
      /\ \A n \in 1..Len(screens'[d]) : n \in 1..Len(screens[d]) \/ n = Len(screens[d]) + 1
  BY PushFacts
<1>2. PICK n \in 1..Len(screens[d]) :
        /\ screens[d][n].kind = "signIn" /\ screens[d][n].id > k
        /\ \A m \in 1..Len(screens[d]) : m > n => screens[d][m].kind \notin {"tabs", "admin"}
  BY DEF Cover
<1>3. \A m \in 1..Len(screens'[d]) : m > n => screens'[d][m].kind \notin {"tabs", "admin"}
  BY <1>1, <1>2
<1>4. n \in 1..Len(screens'[d]) /\ screens'[d][n] = screens[d][n]
  BY <1>1
<1> QED
  BY <1>2, <1>3, <1>4 DEF Cover

(* The calls that may still present something were asked before.           *)
LEMMA Threats ==
  ASSUME Types, NEW d \in Devices, CallsOf(d), CallsGoOn(d), NEW k, Threat(d, k)'
  PROVE  Threat(d, k) /\ k \in 0..shown[d]
<1>1. PICK i \in Calls' : call'[i].dev = d /\ call'[i].id = k /\ Presenting(i)'
  BY DEF Threat
<1>2. i \in Calls /\ call[i].dev = d /\ call[i].id = k /\ Presenting(i)
  BY <1>1 DEF CallsGoOn
<1>3. k \in Nat /\ k <= shown[d] /\ shown[d] \in Nat
  BY <1>2, CallFacts DEF CallsOf, Types
<1> QED
  BY <1>2, <1>3 DEF Threat

(* A sheet or an alert does not uncover anything.                          *)
LEMMA PushCoverOf ==
  ASSUME Types, NEW d \in Devices, StackOf(d), CallsOf(d), CoverOf(d),
         NEW kind \in Kinds \ {"tabs", "admin"}, NEW user \in Emails \cup {NoUser},
         Pushed(d, kind, user), CallsGoOn(d), session'[d] = session[d]
  PROVE  CoverOf(d)'
<1> SUFFICES ASSUME session[d] = NoUser, NEW k \in 0..shown'[d], k = 0 \/ Threat(d, k)'
             PROVE  Cover(d, k)'
  BY DEF CoverOf
<1>1. k \in 0..shown[d] /\ (k = 0 \/ Threat(d, k))
  BY Threats DEF Types
<1>2. Cover(d, k)
  BY <1>1 DEF CoverOf, Pushed
<1> QED
  BY <1>2, PushCover

(* What a patient user sees, when no call is open any more.                *)
LEMMA PushPatient ==
  ASSUME Types, NEW d \in Devices, StackOf(d), PatientOf(d),
         NEW kind \in Kinds, NEW user \in Emails \cup {NoUser}, Pushed(d, kind, user),
         d \notin hurried' => /\ d \notin hurried
                              /\ \A i \in Calls' : call'[i].dev = d => ~Open(i)',
         kind = "alert" => session'[d] = session[d],
         kind = "tabs" => user = session'[d],
         d \notin hurried' /\ kind = "admin" => session'[d] \in Admins
  PROVE  PatientOf(d)'
<1> SUFFICES ASSUME d \notin hurried'
             PROVE  /\ \A i \in Calls' : call'[i].dev = d => ~Open(i)'
                    /\ \A n \in 1..Len(screens'[d]) : Bare(d, n)' =>
                         /\ screens'[d][n].kind = "tabs" => screens'[d][n].user = session'[d]
                         /\ screens'[d][n].kind = "admin" => session'[d] \in Admins
  BY DEF PatientOf
<1>1. /\ Len(screens[d]) \in Nat \ {0} /\ Len(screens'[d]) = Len(screens[d]) + 1
      /\ \A n \in 1..Len(screens[d]) : screens'[d][n] = screens[d][n]
      /\ screens'[d][Len(screens[d]) + 1].kind = kind
      /\ screens'[d][Len(screens[d]) + 1].user = user
      /\ \A n \in 1..Len(screens'[d]) : n \in 1..Len(screens[d]) \/ n = Len(screens[d]) + 1
  BY PushFacts
<1>2. ASSUME NEW n \in 1..Len(screens[d]), Bare(d, n)'
      PROVE  kind = "alert" /\ Bare(d, n)
  <2>1. Len(screens[d]) + 1 \in 1..Len(screens'[d]) /\ Len(screens[d]) + 1 > n
    BY <1>1
  <2>2. kind = "alert"
    BY <1>1, <1>2, <2>1 DEF Bare
  <2>3. \A m \in 1..Len(screens[d]) : m \in 1..Len(screens'[d])
    BY <1>1
  <2> QED
    BY <1>1, <1>2, <2>2, <2>3 DEF Bare
<1>3. \A n \in 1..Len(screens[d]) : Bare(d, n) =>
        /\ screens[d][n].kind = "tabs" => screens[d][n].user = session[d]
        /\ screens[d][n].kind = "admin" => session[d] \in Admins
  BY DEF PatientOf, Pushed
<1>4. ASSUME NEW n \in 1..Len(screens'[d]), Bare(d, n)'
      PROVE  /\ screens'[d][n].kind = "tabs" => screens'[d][n].user = session'[d]
             /\ screens'[d][n].kind = "admin" => session'[d] \in Admins
  <2>1. CASE n \in 1..Len(screens[d])
    <3>1. /\ kind = "alert" /\ Bare(d, n) /\ session'[d] = session[d]
          /\ screens'[d][n] = screens[d][n]
      BY <1>1, <1>2, <1>4, <2>1
    <3> QED
      BY <1>3, <2>1, <3>1
  <2>2. CASE n = Len(screens[d]) + 1
    BY <1>1, <2>2
  <2> QED
    BY <1>1, <2>1, <2>2
<1> QED
  BY <1>4

-----------------------------------------------------------------------------
(* One phone, action by action.                                            *)

(* A user who does not wait for an answer is hurried from then on.         *)
LEMMA Hurries ==
  ASSUME NEW d \in Devices, Hurry(d)
  PROVE  /\ hurried \subseteq hurried'
         /\ d \notin hurried' =>
              d \notin hurried /\ \A i \in Calls : call[i].dev = d => ~Open(i)
BY DEF Hurry, Waiting

(* Calls that nothing happens to go on.                                    *)
LEMMA SameCalls ==
  ASSUME UNCHANGED <<asked, progress>>
  PROVE  \A d \in Devices : CallsGoOn(d)
BY DEF CallsGoOn, asked, Calls, Open, Presenting

(* The app starts: whoever is signed out sees the sign-in screen.          *)
LEMMA PhoneLaunch ==
  ASSUME Types, NEW d \in Devices, PhoneOf(d), Launch(d)
  PROVE  PhoneOf(d)'
<1> DEFINE s == shown[d]
           T == Screen(d, "tabs", s + 1)
           I == Screen(d, "signIn", s + 2)
<1>1. /\ ~alive[d] /\ alive'[d] /\ shown'[d] = s + 2 /\ session' = session
      /\ screens'[d] = IF session[d] = NoUser THEN <<T, I>> ELSE <<T>>
      /\ Calls' = Calls /\ call' = call /\ progress' = progress
  BY DEF Launch, Types, asked, Calls
<1>2. /\ T.kind = "tabs" /\ T.id = s + 1 /\ T.user = session[d]
      /\ I.kind = "signIn" /\ I.id = s + 2 /\ s \in Nat
  BY DEF Screen, Types
<1>3. /\ Len(screens'[d]) = (IF session[d] = NoUser THEN 2 ELSE 1) /\ screens'[d] # << >>
      /\ screens'[d][1] = T
      /\ session[d] = NoUser => screens'[d][2] = I
      /\ \A n \in 1..Len(screens'[d]) : n = 1 \/ (n = 2 /\ session[d] = NoUser)
  BY <1>1
<1> HIDE DEF s, T, I
<1>4. StackOf(d)'
  <2>1. \A n \in 1..Len(screens'[d]) : screens'[d][n].id \in 1..shown'[d]
    BY <1>1, <1>2, <1>3
  <2>2. \A m, n \in 1..Len(screens'[d]) : m < n => screens'[d][m].id < screens'[d][n].id
    BY <1>2, <1>3
  <2>3. \A n \in 1..Len(screens'[d]) : /\ screens'[d][n].kind \notin {"signUp", "admin"}
                                       /\ screens'[d][n].kind # "tabs" => n > 1
    BY <1>2, <1>3
  <2> QED
    BY <1>1, <1>3, <2>1, <2>2, <2>3 DEF StackOf
<1>5. \A i \in Calls : call[i].dev = d => call[i].id \in Nat /\ call[i].id <= s /\ ~Open(i)
  BY <1>1, CallFacts DEF PhoneOf, CallsOf, s
<1>6. CallsOf(d)'
  <2>1. ASSUME NEW i \in Calls, call[i].dev = d
        PROVE  /\ call[i].id <= shown'[d] /\ progress[i] \notin {"allowed", "admit"}
               /\ \A n \in 1..Len(screens'[d]) : screens'[d][n].id # call[i].id
    BY <1>1, <1>2, <1>3, <1>5, <2>1 DEF Open
  <2> QED
    BY <1>1, <2>1 DEF CallsOf
<1>7. CoverOf(d)'
  <2>1. \A i \in Calls' : call'[i].dev = d => ~Presenting(i)'
    BY <1>1, <1>5 DEF Presenting, Open
  <2>2. session[d] = NoUser => Cover(d, 0)'
    <3>1. session[d] = NoUser => /\ 2 \in 1..Len(screens'[d]) /\ screens'[d][2].kind = "signIn"
                                 /\ screens'[d][2].id > 0
      BY <1>2, <1>3
    <3>2. \A m \in 1..Len(screens'[d]) : ~(m > 2)
      BY <1>3
    <3> QED
      BY <3>1, <3>2 DEF Cover
  <2> QED
    BY <1>1, <2>1, <2>2 DEF CoverOf, Threat
<1>8. PatientOf(d)'
  <2>1. \A i \in Calls' : call'[i].dev = d => ~Open(i)'
    BY <1>1, <1>5 DEF Open
  <2>2. \A n \in 1..Len(screens'[d]) :
          /\ screens'[d][n].kind = "tabs" => screens'[d][n].user = session'[d]
          /\ screens'[d][n].kind # "admin"
    BY <1>1, <1>2, <1>3
  <2> QED
    BY <2>1, <2>2 DEF PatientOf
<1> QED
  BY <1>4, <1>6, <1>7, <1>8 DEF PhoneOf

(* The app dies: nothing is open any more.                                 *)
LEMMA PhoneKill ==
  ASSUME Types, NEW d \in Devices, PhoneOf(d), Kill(d)
  PROVE  PhoneOf(d)'
<1>1. /\ ~alive'[d] /\ screens'[d] = << >> /\ shown' = shown
      /\ Calls' = Calls /\ call' = call
      /\ \A i \in Calls : call[i].dev = d => progress'[i] \in {"orphan", "closed"}
  BY DEF Kill, Types, asked, ui, Calls
<1>2. StackOf(d)'
  BY <1>1 DEF StackOf
<1>3. CallsOf(d)'
  BY <1>1 DEF PhoneOf, CallsOf, Open
<1> QED
  BY <1>1, <1>2, <1>3 DEF PhoneOf, CoverOf, PatientOf

(* A call is asked from the screen on top.                                 *)
LEMMA PhoneAsk ==
  ASSUME Types, NEW d \in Devices, PhoneOf(d),
         NEW kind \in {"signIn", "signUp", "admin"}, NEW a \in Emails, Ask(d, kind, a)
  PROVE  PhoneOf(d)'
<1> DEFINE c == calls + 1
<1>1. /\ SameScreens(d) /\ session' = session /\ alive[d] /\ c \in Nat /\ calls' = c
      /\ Top(d).kind = Button(kind) /\ Calls' = 1..c
  BY DEF Ask, Types, SameScreens, Sees, ui, Button, Calls
<1>2. /\ \A i \in Calls : /\ i \in Calls' /\ i # c
                          /\ call'[i] = call[i] /\ progress'[i] = progress[i]
      /\ call'[c] = [dev |-> d, kind |-> kind, account |-> a, id |-> Top(d).id]
      /\ progress'[c] = "asked"
  <2>1. calls \in Nat /\ call \in [1..calls -> Requests] /\ progress \in [1..calls -> Progress]
    BY DEF Types, Calls
  <2>2. Top(d).id \in Nat
    BY <1>1, TopFacts DEF PhoneOf
  <2>3. [dev |-> d, kind |-> kind, account |-> a, id |-> Top(d).id] \in Requests
    BY <2>2 DEF Requests
  <2>4. "asked" \in Progress
    BY DEF Progress
  <2>5. /\ \A i \in 1..calls : call'[i] = call[i]
        /\ call'[c] = [dev |-> d, kind |-> kind, account |-> a, id |-> Top(d).id]
    BY <2>1, <2>3, GrowFacts DEF Ask
  <2>6. (\A i \in 1..calls : progress'[i] = progress[i]) /\ progress'[c] = "asked"
    BY <2>1, <2>4, GrowFacts DEF Ask
  <2> QED
    BY <1>1, <2>1, <2>5, <2>6 DEF Calls
<1>3. \A i \in Calls' : i \in Calls \/ i = c
  BY <1>1 DEF Calls, Types
<1>4. /\ call'[c].dev = d /\ call'[c].kind = kind /\ call'[c].id = Top(d).id
      /\ Top(d) = screens[d][Len(screens[d])]
      /\ Len(screens[d]) \in 1..Len(screens[d]) /\ Top(d).id \in 1..shown[d] /\ shown[d] \in Nat
  BY <1>1, <1>2, TopFacts DEF PhoneOf
<1> HIDE DEF c
<1>5. StackOf(d)'
  BY <1>1 DEF PhoneOf, StackOf, SameScreens
<1>6. CallsOf(d)'
  <2>1. ASSUME NEW i \in Calls', call'[i].dev = d
        PROVE  /\ call'[i].id <= shown'[d]
               /\ Open(i)' => alive'[d]
               /\ progress'[i] \in {"allowed", "admit"} => call'[i].kind = "admin"
               /\ \A n \in 1..Len(screens'[d]) : screens'[d][n].id = call'[i].id =>
                    screens'[d][n].kind = Button(call'[i].kind)
    <3>1. CASE i \in Calls
      BY <1>1, <1>2, <2>1, <3>1 DEF PhoneOf, CallsOf, SameScreens, Open
    <3>2. CASE i = c
      <4>1. ASSUME NEW n \in 1..Len(screens[d]), screens[d][n].id = Top(d).id
            PROVE  n = Len(screens[d])
        <5>1. \A m, k \in 1..Len(screens[d]) : m < k => screens[d][m].id < screens[d][k].id
          BY DEF PhoneOf, StackOf
        <5>2. screens[d][n].id \in Nat /\ n \in Nat /\ Len(screens[d]) \in Nat
          <6>1. screens[d] \in Seq(Shots)
            BY DEF Types
          <6>2. screens[d][n].id \in 1..shown[d]
            BY DEF PhoneOf, StackOf
          <6> QED
            BY <1>4, <6>1, <6>2, SequenceFacts
        <5>3. ~(n < Len(screens[d]))
          BY <1>4, <4>1, <5>1, <5>2
        <5> QED
          BY <4>1, <5>2, <5>3
      <4> QED
        BY <1>1, <1>2, <1>4, <3>2, <4>1 DEF SameScreens
    <3> QED
      BY <1>3, <3>1, <3>2
  <2> QED
    BY <2>1 DEF CallsOf, Button
<1>7. CoverOf(d)'
  <2>1. \A k : Threat(d, k)' => Threat(d, k)
    BY <1>2, <1>3 DEF Threat, Presenting
  <2>2. \A k : Cover(d, k) => Cover(d, k)'
    BY <1>1 DEF Cover, SameScreens
  <2> QED
    BY <1>1, <2>1, <2>2 DEF PhoneOf, CoverOf, SameScreens
<1>8. PatientOf(d)'
  <2> SUFFICES ASSUME d \notin hurried' PROVE PatientOf(d)'
    BY DEF PatientOf
  <2>1. d \notin hurried /\ \A i \in Calls : call[i].dev = d => ~Open(i)
    BY Hurries DEF Ask
  <2>2. \A i \in Calls' : call'[i].dev = d /\ Open(i)' => i = c
    BY <1>2, <1>3, <2>1 DEF Open
  <2>3. \A i \in Calls' : call'[i].dev = d /\ Open(i)' =>
          /\ screens'[d][Len(screens'[d])].id = call'[i].id
          /\ progress'[i] \notin {"allowed", "admit"}
    BY <1>1, <1>2, <1>4, <2>2 DEF SameScreens
  <2>4. \A n : Bare(d, n)' => Bare(d, n)
    BY <1>1 DEF Bare, SameScreens
  <2>5. \A n \in 1..Len(screens[d]) : Bare(d, n) =>
          /\ screens[d][n].kind = "tabs" => screens[d][n].user = session[d]
          /\ screens[d][n].kind = "admin" => session[d] \in Admins
    BY <1>1, <2>1 DEF PhoneOf, PatientOf
  <2> QED
    BY <1>1, <2>2, <2>3, <2>4, <2>5 DEF PatientOf, SameScreens
<1> QED
  BY <1>5, <1>6, <1>7, <1>8 DEF PhoneOf

(* The sign-up screen comes over the sign-in screen.                       *)
LEMMA PhoneOpenSignUp ==
  ASSUME Types, NEW d \in Devices, PhoneOf(d), OpenSignUp(d)
  PROVE  PhoneOf(d)'
<1>1. /\ Pushed(d, "signUp", session[d]) /\ session' = session
      /\ Top(d).kind = "signIn" /\ Hurry(d) /\ UNCHANGED <<asked, progress>>
  BY DEF OpenSignUp, Push, Screen, Pushed, Sees, Types
<1>2. CallsGoOn(d)
  BY <1>1, SameCalls
<1>3. screens[d][Len(screens[d])].kind = "signIn"
  BY <1>1, TopFacts DEF Pushed, PhoneOf
<1>4. session[d] \in Emails \cup {NoUser} /\ "signUp" \in Kinds \ {"tabs", "admin"}
  BY DEF Types, Kinds
<1>5. StackOf(d)'
  BY <1>1, <1>3, <1>4, PushStack DEF PhoneOf
<1>6. CallsOf(d)'
  BY <1>1, <1>2, <1>4, PushCalls DEF PhoneOf
<1>7. CoverOf(d)'
  BY <1>1, <1>2, <1>4, PushCoverOf DEF PhoneOf
<1>8. d \notin hurried' => /\ d \notin hurried
                           /\ \A i \in Calls' : call'[i].dev = d => ~Open(i)'
  BY <1>1, <1>2, Hurries DEF CallsGoOn
<1>9. PatientOf(d)'
  BY <1>1, <1>4, <1>8, PushPatient DEF PhoneOf
<1> QED
  BY <1>5, <1>6, <1>7, <1>9 DEF PhoneOf

(* Signing out covers the feed with a sign-in screen that is younger than  *)
(* every call.                                                             *)
LEMMA PhoneSignOut ==
  ASSUME Types, NEW d \in Devices, PhoneOf(d), SignOut(d)
  PROVE  PhoneOf(d)'
<1>1. /\ Pushed(d, "signIn", NoUser) /\ session'[d] = NoUser
      /\ Hurry(d) /\ UNCHANGED <<asked, progress>>
  BY DEF SignOut, Pushed, Sees, Types
<1>2. CallsGoOn(d)
  BY <1>1, SameCalls
<1>3. "signIn" \in Kinds \ {"tabs", "admin"} /\ NoUser \in Emails \cup {NoUser}
  BY DEF Kinds
<1>4. StackOf(d)'
  BY <1>1, <1>3, PushStack DEF PhoneOf
<1>5. CallsOf(d)'
  BY <1>1, <1>2, <1>3, PushCalls DEF PhoneOf
<1>6. CoverOf(d)'
  <2> SUFFICES ASSUME NEW k \in 0..shown'[d], k = 0 \/ Threat(d, k)'
               PROVE  Cover(d, k)'
    BY DEF CoverOf
  <2>1. k \in 0..shown[d]
    BY <1>2, Threats DEF PhoneOf, Types
  <2>2. /\ Len(screens[d]) \in Nat /\ Len(screens'[d]) = Len(screens[d]) + 1
        /\ screens'[d][Len(screens[d]) + 1].kind = "signIn"
        /\ screens'[d][Len(screens[d]) + 1].id = shown[d] + 1 /\ shown[d] \in Nat
    BY <1>1, <1>3, PushFacts DEF PhoneOf
  <2>3. /\ Len(screens[d]) + 1 \in 1..Len(screens'[d])
        /\ \A m \in 1..Len(screens'[d]) : ~(m > Len(screens[d]) + 1)
        /\ shown[d] + 1 > k
    BY <2>1, <2>2
  <2> QED
    BY <2>2, <2>3 DEF Cover
<1>7. d \notin hurried' => /\ d \notin hurried
                           /\ \A i \in Calls' : call'[i].dev = d => ~Open(i)'
  BY <1>1, <1>2, Hurries DEF CallsGoOn
<1>8. PatientOf(d)'
  BY <1>1, <1>3, <1>7, PushPatient DEF PhoneOf
<1> QED
  BY <1>4, <1>5, <1>6, <1>8 DEF PhoneOf

(* What the user closes was a sheet over the sign-in screen, or an alert.  *)
LEMMA PhoneDismiss ==
  ASSUME Types, NEW d \in Devices, PhoneOf(d), Dismiss(d)
  PROVE  PhoneOf(d)'
<1> DEFINE L == Len(screens[d])
<1>1. /\ alive[d] /\ alive' = alive /\ session' = session /\ shown' = shown
      /\ screens'[d] = Front(screens[d]) /\ Top(d).kind \in {"signUp", "admin", "alert"}
      /\ Hurry(d) /\ UNCHANGED <<asked, progress>>
  BY DEF Dismiss, Sees, Types
<1>2. CallsGoOn(d)
  BY <1>1, SameCalls
<1>3. /\ screens[d] \in Seq(Shots) /\ screens[d] # << >> /\ L \in Nat \ {0} /\ L \in 1..L
      /\ screens[d][L].kind \in {"signUp", "admin", "alert"}
  BY <1>1, TopFacts DEF PhoneOf
<1>4. /\ Len(screens'[d]) = L - 1
      /\ \A n \in 1..(L - 1) : screens'[d][n] = screens[d][n]
      /\ screens'[d] # << >> <=> L > 1
  BY <1>1, <1>3, FrontFacts
<1>5. /\ \A n \in 1..L : screens[d][n].id \in 1..shown[d]
      /\ \A m, n \in 1..L : m < n => screens[d][m].id < screens[d][n].id
      /\ \A n \in 1..L : screens[d][n].kind # "tabs" => n > 1
      /\ \A n \in 1..L : screens[d][n].kind \in {"signUp", "admin"} =>
           screens[d][n - 1].kind = "signIn"
  BY DEF PhoneOf, StackOf
<1> HIDE DEF L
<1>6. /\ \A n \in 1..(L - 1) : n \in 1..L /\ n < L
      /\ \A n \in 1..L : n = L \/ n \in 1..(L - 1)
  BY <1>3
<1>7. L > 1
  BY <1>3, <1>5
<1>8. StackOf(d)'
  <2>1. \A n \in 1..(L - 1) : screens[d][n].kind \in {"signUp", "admin"} =>
          screens'[d][n - 1].kind = "signIn"
    <3> SUFFICES ASSUME NEW n \in 1..(L - 1), screens[d][n].kind \in {"signUp", "admin"}
                 PROVE  screens'[d][n - 1].kind = "signIn"
      OBVIOUS
    <3>1. n > 1 /\ screens[d][n - 1].kind = "signIn"
      BY <1>5, <1>6
    <3>2. n - 1 \in 1..(L - 1)
      BY <1>3, <3>1
    <3> QED
      BY <1>4, <3>1, <3>2
  <2> QED
    BY <1>1, <1>4, <1>5, <1>6, <1>7, <2>1 DEF StackOf
<1>9. CallsOf(d)'
  <2>1. ASSUME NEW i \in Calls', call'[i].dev = d
        PROVE  /\ call'[i].id <= shown'[d]
               /\ Open(i)' => alive'[d]
               /\ progress'[i] \in {"allowed", "admit"} => call'[i].kind = "admin"
               /\ \A n \in 1..Len(screens'[d]) : screens'[d][n].id = call'[i].id =>
                    screens'[d][n].kind = Button(call'[i].kind)
    <3>1. i \in Calls /\ call'[i] = call[i]
      BY <1>2, <2>1 DEF CallsGoOn
    <3>2. /\ call[i].id <= shown[d]
          /\ progress'[i] \in {"allowed", "admit"} => call[i].kind = "admin"
          /\ \A n \in 1..L : screens[d][n].id = call[i].id =>
               screens[d][n].kind = Button(call[i].kind)
      BY <1>2, <2>1, <3>1 DEF PhoneOf, CallsOf, CallsGoOn, L
    <3>3. \A n \in 1..(L - 1) : screens'[d][n].id = call[i].id =>
            screens'[d][n].kind = Button(call[i].kind)
      BY <1>4, <1>6, <3>2
    <3> QED
      BY <1>1, <1>4, <3>1, <3>2, <3>3
  <2> QED
    BY <2>1 DEF CallsOf, Button
<1>10. CoverOf(d)'
  <2>1. ASSUME NEW k, Cover(d, k)
        PROVE  Cover(d, k)'
    <3>1. PICK n \in 1..L :
            /\ screens[d][n].kind = "signIn" /\ screens[d][n].id > k
            /\ \A m \in 1..L : m > n => screens[d][m].kind \notin {"tabs", "admin"}
      BY <2>1 DEF Cover, L
    <3>2. n \in 1..(L - 1)
      BY <1>3, <1>6, <3>1
    <3>3. n \in 1..Len(screens'[d]) /\ screens'[d][n] = screens[d][n]
      BY <1>4, <3>2
    <3>4. \A m \in 1..Len(screens'[d]) : m > n => screens'[d][m].kind \notin {"tabs", "admin"}
      BY <1>4, <1>6, <3>1
    <3> QED
      BY <3>1, <3>3, <3>4 DEF Cover
  <2>2. CoverOf(d) /\ \A k : Threat(d, k)' => Threat(d, k)
    BY <1>2 DEF PhoneOf, Threat, CallsGoOn
  <2> QED
    BY <1>1, <2>1, <2>2 DEF CoverOf
<1>11. PatientOf(d)'
  <2> SUFFICES ASSUME d \notin hurried' PROVE PatientOf(d)'
    BY DEF PatientOf
  <2>1. d \notin hurried /\ \A i \in Calls' : call'[i].dev = d => ~Open(i)'
    BY <1>1, <1>2, Hurries DEF CallsGoOn
  <2>2. \A n \in 1..L : Bare(d, n) =>
          /\ screens[d][n].kind = "tabs" => screens[d][n].user = session[d]
          /\ screens[d][n].kind = "admin" => session[d] \in Admins
    BY <1>1, <2>1 DEF PhoneOf, PatientOf, L
  <2>3. ASSUME NEW n \in 1..(L - 1), Bare(d, n)', screens[d][n].kind \in {"tabs", "admin"}
        PROVE  Bare(d, n)
    <3>1. screens[d][L].kind = "alert"
      <4> SUFFICES ASSUME screens[d][L].kind \in {"signUp", "admin"} PROVE FALSE
        BY <1>3
      <4>1. screens[d][L - 1].kind = "signIn" /\ L - 1 \in 1..(L - 1) /\ L \in Nat
        BY <1>3, <1>5, <1>7
      <4>2. n < L - 1
        BY <1>6, <2>3, <4>1
      <4>3. screens'[d][L - 1].kind = "alert"
        BY <1>4, <2>3, <4>1, <4>2 DEF Bare
      <4> QED
        BY <1>4, <4>1, <4>3
    <3>2. \A m \in 1..(L - 1) : m > n => screens[d][m].kind = "alert"
      BY <1>4, <2>3 DEF Bare
    <3> QED
      BY <1>6, <3>1, <3>2 DEF Bare, L
  <2>4. \A n \in 1..Len(screens'[d]) : Bare(d, n)' =>
          /\ screens'[d][n].kind = "tabs" => screens'[d][n].user = session'[d]
          /\ screens'[d][n].kind = "admin" => session'[d] \in Admins
    BY <1>1, <1>4, <1>6, <2>2, <2>3
  <2> QED
    BY <2>1, <2>4 DEF PatientOf
<1> QED
  BY <1>8, <1>9, <1>10, <1>11 DEF PhoneOf

(* An open call of a patient user was asked from the screen that is seen.  *)
LEMMA PatientTop ==
  ASSUME Types, NEW d \in Devices, PhoneOf(d), alive[d], d \notin hurried,
         NEW i \in Calls, call[i].dev = d, Open(i)
  PROVE  /\ Top(d).id = call[i].id /\ Top(d).kind \in {"signIn", "signUp"}
         /\ \A n \in 1..Len(screens[d]) : screens[d][n].kind \in {"tabs", "admin"} => ~Bare(d, n)
         /\ \A j \in Calls : call[j].dev = d /\ Open(j) => j = i
<1>1. /\ Top(d) = screens[d][Len(screens[d])] /\ Len(screens[d]) \in 1..Len(screens[d])
      /\ Len(screens[d]) \in Nat \ {0}
  BY TopFacts DEF PhoneOf
<1>2. Top(d).id = call[i].id /\ \A j \in Calls : call[j].dev = d /\ Open(j) => j = i
  BY <1>1 DEF PhoneOf, PatientOf
<1>3. Top(d).kind = Button(call[i].kind)
  BY <1>1, <1>2 DEF PhoneOf, CallsOf
<1>4. Top(d).kind \in {"signIn", "signUp"}
  BY <1>3, CallFacts DEF Button
<1>5. ASSUME NEW n \in 1..Len(screens[d]), screens[d][n].kind \in {"tabs", "admin"}, Bare(d, n)
      PROVE  FALSE
  <2>1. n < Len(screens[d])
    BY <1>1, <1>4, <1>5
  <2> QED
    BY <1>1, <1>4, <1>5, <2>1 DEF Bare
<1> QED
  BY <1>2, <1>4, <1>5

(* Signing out fails: an alert over the feed, whose user stays.            *)
LEMMA PhoneSignOutFails ==
  ASSUME Types, NEW d \in Devices, PhoneOf(d), SignOutFails(d)
  PROVE  PhoneOf(d)'
<1>1. /\ Pushed(d, "alert", session[d]) /\ session' = session /\ hurried' = hurried
      /\ Top(d).kind = "tabs" /\ UNCHANGED <<asked, progress>>
  BY DEF SignOutFails, Push, Screen, Pushed, Sees, Types, history
<1>2. CallsGoOn(d)
  BY <1>1, SameCalls
<1>3. session[d] \in Emails \cup {NoUser} /\ "alert" \in Kinds \ {"tabs", "admin"}
  BY DEF Types, Kinds
<1>4. StackOf(d)'
  BY <1>1, <1>3, PushStack DEF PhoneOf
<1>5. CallsOf(d)'
  BY <1>1, <1>2, <1>3, PushCalls DEF PhoneOf
<1>6. CoverOf(d)'
  BY <1>1, <1>2, <1>3, PushCoverOf DEF PhoneOf
<1>7. d \notin hurried' => \A i \in Calls' : call'[i].dev = d => ~Open(i)'
  <2>1. d \notin hurried => \A i \in Calls : call[i].dev = d => ~Open(i)
    BY <1>1, PatientTop DEF Pushed
  <2> QED
    BY <1>1, <1>2, <2>1 DEF CallsGoOn
<1>8. PatientOf(d)'
  BY <1>1, <1>3, <1>7, PushPatient DEF PhoneOf
<1> QED
  BY <1>4, <1>5, <1>6, <1>8 DEF PhoneOf

(* An answer arrives: if it lets the user in, nobody is signed out.        *)
LEMMA PhoneReceive ==
  ASSUME Types, NEW i \in Calls, NEW d \in Devices, d = call[i].dev, PhoneOf(d), Receive(i)
  PROVE  PhoneOf(d)'
<1>1. /\ progress[i] \in {"granted", "denied"} /\ Open(i) /\ SameScreens(d)
      /\ Calls' = Calls /\ call' = call /\ hurried' = hurried
      /\ \A j \in Calls : j # i => progress'[j] = progress[j]
      /\ progress'[i] = IF progress[i] = "granted" THEN "welcome" ELSE "sorry"
      /\ session'[d] = IF progress[i] = "granted" THEN call[i].account ELSE session[d]
  BY DEF Receive, Types, SameScreens, asked, ui, history, Calls, Open
<1>2. CASE progress[i] = "denied"
  <2>1. CallsGoOn(d)
    BY <1>1, <1>2 DEF CallsGoOn, Open, Presenting
  <2> QED
    BY <1>1, <1>2, <2>1, Quiet
<1>3. CASE progress[i] = "granted"
  <2>1. StackOf(d)'
    BY SMTT(30), <1>1 DEF PhoneOf, StackOf, SameScreens
  <2>2. CallsOf(d)'
    BY <1>1, <1>3 DEF PhoneOf, CallsOf, SameScreens, Open
  <2>3. CoverOf(d)'
    BY <1>1, <1>3, CallFacts, Persons DEF CoverOf
  <2>4. PatientOf(d)'
    <3> SUFFICES ASSUME d \notin hurried', alive'[d] PROVE PatientOf(d)'
      BY DEF PatientOf
    <3>1. d \notin hurried /\ alive[d]
      BY <1>1 DEF SameScreens
    <3>2. /\ Top(d).id = call[i].id
          /\ \A n \in 1..Len(screens[d]) :
               screens[d][n].kind \in {"tabs", "admin"} => ~Bare(d, n)
          /\ \A j \in Calls : call[j].dev = d /\ Open(j) => j = i
      BY <1>1, <3>1, PatientTop
    <3>3. \A j \in Calls : call[j].dev = d /\ Open(j)' => j = i
      BY <1>1, <3>2 DEF Open
    <3>4. Top(d) = screens[d][Len(screens[d])]
      BY <3>1, TopFacts DEF PhoneOf
    <3>5. \A n : Bare(d, n)' => Bare(d, n)
      BY <1>1 DEF Bare, SameScreens
    <3>6. \A n \in 1..Len(screens'[d]) : Bare(d, n)' => screens'[d][n].kind \notin {"tabs", "admin"}
      BY <1>1, <3>2, <3>5 DEF SameScreens
    <3>7. \A j \in Calls' : call'[j].dev = d /\ Open(j)' =>
            /\ screens'[d][Len(screens'[d])].id = call'[j].id
            /\ progress'[j] \notin {"allowed", "admit"}
      BY <1>1, <1>3, <3>2, <3>3, <3>4 DEF SameScreens
    <3> QED
      BY <1>1, <3>3, <3>6, <3>7 DEF PatientOf
  <2> QED
    BY <2>1, <2>2, <2>3, <2>4 DEF PhoneOf
<1> QED
  BY <1>1, <1>2, <1>3

(* A completion is run, and its call closed.                               *)
LEMMA RunCalls ==
  ASSUME Types, NEW d \in Devices, NEW i \in Calls, Run(d, i), UNCHANGED asked
  PROVE  /\ \A e \in Devices : CallsGoOn(e)
         /\ Calls' = Calls /\ call' = call /\ progress'[i] = "closed"
<1>1. /\ Calls' = Calls /\ call' = call /\ progress'[i] = "closed"
      /\ \A j \in Calls : j # i => progress'[j] = progress[j]
  BY DEF Run, Types, asked, Calls
<1> QED
  BY <1>1 DEF CallsGoOn, Open, Presenting

(* What a completion presents comes on top of the screen that asked, and   *)
(* that is not so for a feed or a page when nobody is signed in.           *)
LEMMA PhonePresent ==
  ASSUME Types, Queued, NEW d \in Devices, PhoneOf(d), NEW i \in Calls, Run(d, i),
         UNCHANGED <<asked, alive, session, hurried>>,
         NEW kind \in {"tabs", "admin", "alert"}, Present(d, call[i].id, kind),
         kind # "alert" => Presenting(i), kind = "admin" => progress[i] = "admit"
  PROVE  PhoneOf(d)'
<1>1. /\ CallsGoOn(d) /\ Calls' = Calls /\ call' = call /\ progress'[i] = "closed"
  BY RunCalls
<1>2. call[i].dev = d /\ Open(i) /\ alive[d] /\ alive'[d] /\ session'[d] = session[d]
  <2>1. mainq[d] \in Seq(Nat) /\ mainq[d] # << >> /\ i = Head(mainq[d]) /\ alive[d]
    BY DEF Run, Types
  <2>2. 1 \in 1..Len(mainq[d]) /\ i = mainq[d][1]
    BY <2>1, TailFacts
  <2>3. call[i].dev = d /\ progress[i] \in Ready
    BY <2>2 DEF Queued, QueuedOn, RightQueue
  <2> QED
    BY <2>1, <2>3 DEF Ready, Open
<1>3. CASE UNCHANGED ui
  <2>1. SameScreens(d)
    BY <1>3 DEF SameScreens, ui
  <2> QED
    BY <1>1, <1>2, <2>1, Quiet
<1>4. CASE Top(d).id = call[i].id /\ Push(d, kind)
  <2>1. Pushed(d, kind, session[d]) /\ kind \in Kinds /\ session[d] \in Emails \cup {NoUser}
    BY <1>2, <1>4 DEF Push, Screen, Pushed, Types, Kinds
  <2>2. /\ Top(d) = screens[d][Len(screens[d])] /\ Len(screens[d]) \in 1..Len(screens[d])
        /\ Len(screens[d]) \in Nat
    BY <1>2, TopFacts DEF PhoneOf
  <2>3. kind = "admin" => screens[d][Len(screens[d])].kind = "signIn"
    BY <1>2, <1>4, <2>2 DEF PhoneOf, CallsOf, Button
  <2>4. StackOf(d)'
    BY <2>1, <2>3, PushStack DEF PhoneOf
  <2>5. CallsOf(d)'
    BY <1>1, <2>1, PushCalls DEF PhoneOf
  <2>6. CoverOf(d)'
    <3>1. CASE kind = "alert"
      <4>1. kind \in Kinds \ {"tabs", "admin"}
        BY <2>1, <3>1
      <4> QED
        BY <1>1, <1>2, <2>1, <4>1, PushCoverOf DEF PhoneOf
    <3>2. CASE kind # "alert"
      <4> SUFFICES ASSUME session[d] = NoUser PROVE FALSE
        BY <1>2 DEF CoverOf
      <4>1. PICK k \in Nat : k = call[i].id
        BY CallFacts
      <4>2. Threat(d, k) /\ k \in 0..shown[d]
        BY <1>2, <3>2, <4>1 DEF Threat, PhoneOf, CallsOf, Types
      <4>3. Cover(d, k)
        BY <1>2, <4>2 DEF PhoneOf, CoverOf
      <4>4. PICK n \in 1..Len(screens[d]) : screens[d][n].id > k
        BY <4>3 DEF Cover
      <4>5. \A m, l \in 1..Len(screens[d]) : /\ screens[d][m].id \in Nat
                                             /\ m < l => screens[d][m].id < screens[d][l].id
        BY DEF PhoneOf, StackOf, Types
      <4>6. screens[d][Len(screens[d])].id > k
        BY <2>2, <4>4, <4>5
      <4> QED
        BY <1>4, <2>2, <4>1, <4>6
    <3> QED
      BY <3>1, <3>2
  <2>7. d \notin hurried' => /\ d \notin hurried
                             /\ \A j \in Calls' : call'[j].dev = d => ~Open(j)'
    <3> SUFFICES ASSUME d \notin hurried
                 PROVE  \A j \in Calls' : call'[j].dev = d => ~Open(j)'
      OBVIOUS
    <3>1. \A j \in Calls : call[j].dev = d /\ Open(j) => j = i
      BY <1>2, PatientTop
    <3> QED
      BY <1>1, <3>1 DEF CallsGoOn, Open
  <2>8. d \notin hurried' /\ kind = "admin" => session'[d] \in Admins
    BY <1>2 DEF PhoneOf, PatientOf
  <2>9. PatientOf(d)'
    BY <1>2, <2>1, <2>7, <2>8, PushPatient DEF PhoneOf
  <2> QED
    BY <2>4, <2>5, <2>6, <2>9 DEF PhoneOf
<1> QED
  BY <1>3, <1>4 DEF Present

-----------------------------------------------------------------------------
(* All phones.                                                             *)

(* One call goes on.                                                       *)
LEMMA OneCall ==
  ASSUME Types, NEW i \in Calls, NEW p \in Progress, UNCHANGED asked,
         progress' = [progress EXCEPT ![i] = p],
         p \notin {"orphan", "closed"} => Open(i),
         p \in {"welcome", "allowed", "admit"} => Presenting(i),
         p \in {"allowed", "admit"} =>
           \/ progress[i] \in {"allowed", "admit"}
           \/ call[i].kind = "admin" /\ session[call[i].dev] \in Admins
  PROVE  \A d \in Devices : CallsGoOn(d)
<1>1. /\ Calls' = Calls /\ call' = call /\ progress'[i] = p
      /\ \A j \in Calls : j # i => progress'[j] = progress[j]
  BY DEF Types, asked, Calls
<1>2. SUFFICES ASSUME NEW d \in Devices, NEW j \in Calls, call[j].dev = d
               PROVE  /\ Open(j)' => Open(j)
                      /\ Presenting(j)' => Presenting(j)
                      /\ progress'[j] \in {"allowed", "admit"} =>
                           \/ progress[j] \in {"allowed", "admit"}
                           \/ call[j].kind = "admin" /\ session[d] \in Admins
  BY <1>1 DEF CallsGoOn
<1>3. CASE j = i
  <2>1. Open(j)' => p \notin {"orphan", "closed"}
    BY <1>1, <1>3 DEF Open
  <2>2. Presenting(j)' => p \in {"welcome", "allowed", "admit"}
    BY <1>1, <1>3 DEF Presenting
  <2> QED
    BY <1>1, <1>2, <1>3, <2>1, <2>2
<1>4. CASE j # i
  BY <1>1, <1>4 DEF Open, Presenting
<1> QED
  BY <1>3, <1>4

(* The phones that a step is not about.                                    *)
LEMMA PhonesElse ==
  ASSUME Phones, NEW d \in Devices, PhoneOf(d)',
         \A e \in Devices : e # d =>
           /\ SameScreens(e) /\ session'[e] = session[e] /\ CallsGoOn(e)
           /\ e \in hurried => e \in hurried'
  PROVE  Phones'
BY Quiet DEF Phones

(* The user.                                                               *)
LEMMA PhonesUser ==
  ASSUME Types, Phones, NEW d \in Devices,
         \/ Launch(d)
         \/ \E kind \in {"signIn", "signUp", "admin"}, a \in Emails : Ask(d, kind, a)
         \/ OpenSignUp(d) \/ Dismiss(d) \/ SignOut(d) \/ SignOutFails(d) \/ Kill(d)
  PROVE  Phones'
<1> USE DEF ui, history
<1>1. PhoneOf(d)
  BY DEF Phones
<1>2. CASE Launch(d) \/ OpenSignUp(d) \/ Dismiss(d) \/ SignOut(d) \/ SignOutFails(d)
  <2>1. PhoneOf(d)'
    BY <1>1, <1>2, PhoneLaunch, PhoneOpenSignUp, PhoneDismiss, PhoneSignOut, PhoneSignOutFails
  <2>2. UNCHANGED <<asked, progress>>
    BY <1>2 DEF Launch, OpenSignUp, Dismiss, SignOut, SignOutFails
  <2>3. \A e \in Devices : e # d => SameScreens(e) /\ session'[e] = session[e]
    BY <1>2 DEF Launch, OpenSignUp, Dismiss, SignOut, SignOutFails, Push, SameScreens, Types
  <2>4. hurried \subseteq hurried'
    BY <1>2, Hurries DEF Launch, OpenSignUp, Dismiss, SignOut, SignOutFails
  <2> QED
    BY <2>1, <2>2, <2>3, <2>4, SameCalls, PhonesElse
<1>3. ASSUME NEW kind \in {"signIn", "signUp", "admin"}, NEW a \in Emails, Ask(d, kind, a)
      PROVE  Phones'
  <2>1. PhoneOf(d)'
    BY <1>1, <1>3, PhoneAsk
  <2>2. \A e \in Devices : SameScreens(e) /\ session'[e] = session[e]
    BY <1>3 DEF Ask, SameScreens
  <2>3. hurried \subseteq hurried'
    BY <1>3, Hurries DEF Ask
  <2>4. ASSUME NEW e \in Devices, e # d
        PROVE  CallsGoOn(e)
    <3>1. /\ calls \in Nat /\ call \in [1..calls -> Requests]
          /\ progress \in [1..calls -> Progress] /\ calls' = calls + 1
      BY <1>3 DEF Types, Calls, Ask
    <3>2. [dev |-> d, kind |-> kind, account |-> a, id |-> Top(d).id] \in Requests
      BY <1>1, <1>3, TopFacts DEF Ask, Sees, PhoneOf, Requests
    <3>3. "asked" \in Progress
      BY DEF Progress
    <3>4. /\ \A i \in 1..calls : call'[i] = call[i] /\ progress'[i] = progress[i]
          /\ call'[calls + 1].dev = d
      BY <1>3, <3>1, <3>2, <3>3, GrowFacts DEF Ask
    <3>5. \A i \in Calls' : i \in Calls \/ i = calls + 1
      BY <3>1 DEF Calls
    <3> QED
      BY <2>4, <3>4, <3>5 DEF CallsGoOn, Calls, Open, Presenting
  <2> QED
    BY <2>1, <2>2, <2>3, <2>4, PhonesElse
<1>4. CASE Kill(d)
  <2>1. PhoneOf(d)'
    BY <1>1, <1>4, PhoneKill
  <2>2. \A e \in Devices : e # d => SameScreens(e) /\ session'[e] = session[e]
    BY <1>4 DEF Kill, SameScreens, Types
  <2>3. hurried' = hurried
    BY <1>4 DEF Kill
  <2>4. \A e \in Devices : e # d => CallsGoOn(e)
    BY <1>4 DEF Kill, CallsGoOn, asked, Calls, Open, Presenting
  <2> QED
    BY <2>1, <2>2, <2>3, <2>4, PhonesElse
<1> QED
  BY <1>2, <1>3, <1>4

(* The servers.                                                            *)
LEMMA PhonesNetwork ==
  ASSUME Types, Phones, NEW i \in Calls, Answer(i) \/ NetworkError(i) \/ RefuseCompare(i)
  PROVE  Phones'
<1> USE DEF ui, history
<1>1. /\ UNCHANGED <<asked, alive, screens, shown, hurried>>
      /\ \E p \in Progress : progress' = [progress EXCEPT ![i] = p]
  BY DEF Answer, Grant, Deny, Receive, NetworkError, AnswerCompare, RefuseCompare, Compared,
         Progress, Types
<1>2. \A e \in Devices : SameScreens(e)
  BY <1>1 DEF SameScreens
<1>3. CASE Receive(i)
  <2>1. PICK d \in Devices : d = call[i].dev
    BY CallFacts
  <2>2. PhoneOf(d)'
    BY <1>3, <2>1, PhoneReceive DEF Phones
  <2>3. \A e \in Devices : e # d => session'[e] = session[e]
    BY <1>3, <2>1 DEF Receive, Types
  <2>4. Calls' = Calls /\ call' = call /\ \A j \in Calls : j # i => progress'[j] = progress[j]
    BY <1>1 DEF asked, Calls, Types
  <2>5. \A e \in Devices : e # d => CallsGoOn(e)
    BY <2>1, <2>4 DEF CallsGoOn, Open, Presenting
  <2> QED
    BY <1>1, <1>2, <2>2, <2>3, <2>5, PhonesElse
<1>4. CASE Grant(i) \/ Deny(i) \/ NetworkError(i) \/ AnswerCompare(i) \/ RefuseCompare(i)
  <2>1. session' = session
    BY <1>4 DEF Grant, Deny, NetworkError, AnswerCompare, RefuseCompare, Compared
  <2>2. PICK p \in Progress : progress' = [progress EXCEPT ![i] = p]
    BY <1>1
  <2>3. /\ p \notin {"orphan", "closed"} => Open(i)
        /\ p \notin {"welcome", "allowed"}
        /\ p = "admit" => progress[i] = "allowed"
    <3>1. progress'[i] = p
      BY <2>2 DEF Types
    <3>2. /\ progress'[i] \notin {"orphan", "closed"} => Open(i)
          /\ progress'[i] \notin {"welcome", "allowed"}
          /\ progress'[i] = "admit" => progress[i] = "allowed"
      BY <1>4 DEF Grant, Deny, NetworkError, AnswerCompare, RefuseCompare, Compared, Open, Types
    <3> QED
      BY <3>1, <3>2
  <2>4. \A d \in Devices : CallsGoOn(d)
    BY <1>1, <2>2, <2>3, OneCall DEF Presenting
  <2> QED
    BY <1>1, <1>2, <2>1, <2>4, Quiet DEF Phones
<1> QED
  BY <1>3, <1>4 DEF Answer

(* The main thread, and the database.                                      *)
LEMMA PhonesPhone ==
  ASSUME Types, Queued, Phones, NEW d \in Devices,
         MainThread(d) \/ \E a \in Emails : StoreProfile(d, a) \/ RefuseProfile(d, a)
  PROVE  Phones'
<1> USE DEF ui, history
<1>1. CASE \E a \in Emails : StoreProfile(d, a) \/ RefuseProfile(d, a)
  <2>1. UNCHANGED <<asked, progress, alive, session, screens, shown, hurried>>
    BY <1>1 DEF StoreProfile, RefuseProfile
  <2> QED
    BY <2>1, SameCalls, Quiet DEF Phones, SameScreens
<1>2. ASSUME NEW i \in Calls, NEW kind \in {"tabs", "admin", "alert"}, Run(d, i),
             UNCHANGED <<asked, alive, session, hurried>>, Present(d, call[i].id, kind),
             kind # "alert" => Presenting(i), kind = "admin" => progress[i] = "admit"
      PROVE  Phones'
  <2>1. PhoneOf(d)'
    BY <1>2, PhonePresent DEF Phones
  <2>2. \A e \in Devices : e # d => SameScreens(e)
    BY <1>2 DEF Present, Push, SameScreens, Types
  <2>3. \A e \in Devices : CallsGoOn(e)
    BY <1>2, RunCalls
  <2> QED
    BY <1>2, <2>1, <2>2, <2>3, PhonesElse
<1>3. ASSUME NEW i \in Calls, Welcome(d, i)
      PROVE  Phones'
  BY <1>2, <1>3 DEF Welcome, Presenting
<1>4. ASSUME NEW i \in Calls, Admit(d, i)
      PROVE  Phones'
  BY <1>2, <1>4 DEF Admit, Presenting
<1>5. ASSUME NEW i \in Calls, Sorry(d, i)
      PROVE  Phones'
  BY <1>2, <1>5 DEF Sorry
<1>6. ASSUME NEW i \in Calls, Compare(d, i)
      PROVE  Phones'
  <2>1. UNCHANGED <<asked, alive, session, screens, shown, hurried>>
    BY <1>6 DEF Compare
  <2>2. PICK p \in {"closed", "allowed", "barred"} :
          /\ progress' = [progress EXCEPT ![i] = p]
          /\ p = "allowed" => session[d] \in Admins
    BY <1>6 DEF Compare
  <2>3. call[i].dev = d
    <3>1. mainq[d] \in Seq(Nat) /\ mainq[d] # << >> /\ i = Head(mainq[d])
      BY <1>6 DEF Compare, Types
    <3>2. 1 \in 1..Len(mainq[d]) /\ i = mainq[d][1]
      BY <3>1, TailFacts
    <3> QED
      BY <3>2 DEF Queued, QueuedOn, RightQueue
  <2>4. call[i].kind = "admin" /\ Open(i) /\ Presenting(i) /\ p \in Progress
    BY <1>6 DEF Compare, Open, Presenting, Progress
  <2>5. \A e \in Devices : CallsGoOn(e)
    BY <2>1, <2>2, <2>3, <2>4, OneCall
  <2> QED
    BY <2>1, <2>5, Quiet DEF Phones, SameScreens
<1> QED
  BY <1>1, <1>3, <1>4, <1>5, <1>6 DEF MainThread

-----------------------------------------------------------------------------
(* The invariant.                                                          *)

(* At first no phone runs, and the known accounts are recorded.            *)
LEMMA InvInit == Init => IInv
<1> SUFFICES ASSUME Init PROVE IInv
  OBVIOUS
<1>1. Types
  <2>1. << >> \in Seq(Shots) /\ << >> \in Seq(Nat)
    OBVIOUS
  <2>2. Calls = {} /\ call \in [Calls -> Requests] /\ progress \in [Calls -> Progress]
    BY DEF Init, Calls
  <2> QED
    BY <2>1, <2>2, Persons, BoundAssumption DEF Init, Types
<1>2. Calls = {}
  BY DEF Init, Calls
<1>3. Queued
  BY DEF Init, Queued, QueuedOn, RightQueue
<1>4. Granted /\ Recorded
  BY <1>2 DEF Init, Granted, Recorded, EveryAccountIsRecorded
<1>5. Phones
  BY <1>2 DEF Init, Phones, PhoneOf, StackOf, CallsOf, CoverOf, PatientOf
<1> QED
  BY <1>1, <1>3, <1>4, <1>5 DEF IInv

(* Every step keeps it.                                                    *)
LEMMA InvNext == IInv /\ [Next]_vars => IInv'
<1> SUFFICES ASSUME IInv, [Next]_vars PROVE IInv'
  OBVIOUS
<1>1. Types /\ Queued /\ Granted /\ Recorded /\ Phones
  BY DEF IInv
<1>2. CASE Next
  <2>1. Queued' /\ Granted' /\ Recorded'
    BY <1>1, <1>2, QueuedNext, GrantedNext, RecordedNext
  <2>2. ASSUME NEW d \in Devices,
               \/ Launch(d)
               \/ \E kind \in {"signIn", "signUp", "admin"}, a \in Emails : Ask(d, kind, a)
               \/ OpenSignUp(d) \/ Dismiss(d) \/ SignOut(d) \/ SignOutFails(d) \/ Kill(d)
        PROVE  Types' /\ Phones'
    <3>1. StackOf(d)
      BY <1>1 DEF Phones, PhoneOf
    <3> QED
      BY <1>1, <2>2, <3>1, TypesUser, PhonesUser
  <2>3. ASSUME NEW i \in Calls, Answer(i) \/ NetworkError(i) \/ RefuseCompare(i)
        PROVE  Types' /\ Phones'
    BY <1>1, <2>3, TypesNetwork, PhonesNetwork
  <2>4. ASSUME NEW d \in Devices,
               MainThread(d) \/ \E a \in Emails : StoreProfile(d, a) \/ RefuseProfile(d, a)
        PROVE  Types' /\ Phones'
    BY <1>1, <2>4, TypesPhone, PhonesPhone
  <2>5. Types' /\ Phones'
    BY <1>2, <2>2, <2>3, <2>4 DEF Next
  <2> QED
    BY <2>1, <2>5 DEF IInv
<1>3. CASE UNCHANGED vars
  <2>1. /\ UNCHANGED <<accounts, profiles, calls, call, progress, alive, session>>
        /\ UNCHANGED <<screens, shown, mainq, writes, faults, hurt, hurried>>
    BY <1>3 DEF vars, servers, asked, ui, history
  <2>2. Types' /\ Calls' = Calls
    BY <1>1, <2>1 DEF Types, Calls
  <2>3. Queued' /\ Granted'
    BY <1>1, <2>1, <2>2 DEF Queued, QueuedOn, RightQueue, Granted
  <2>4. Recorded'
    BY <1>1, <2>1, <2>2 DEF Recorded, EveryAccountIsRecorded
  <2>5. Phones'
    BY <1>1, <2>1, SameCalls, Quiet DEF Phones, SameScreens, asked
  <2> QED
    BY <2>2, <2>3, <2>4, <2>5 DEF IInv
<1> QED
  BY <1>2, <1>3

(* The inductive invariant: what every account, call, queue and stack of   *)
(* screens is in every reachable state.                                    *)
THEOREM Invariance == Spec => []IInv
BY InvInit, InvNext, PTL DEF Spec

(* The types, on any number of phones and for any number of calls; in      *)
(* particular each queued completion is that of an answered call of its    *)
(* own phone, and what is being written is known to Auth.                  *)
THEOREM TypesHold == Spec => []TypeOK
<1>1. IInv => TypeOK
  <2> SUFFICES ASSUME IInv PROVE TypeOK
    OBVIOUS
  <2>1. Types /\ Queued /\ Granted /\ Phones
    BY DEF IInv
  <2>2. ASSUME NEW d \in Devices
        PROVE  /\ alive[d] <=> screens[d] # << >>
               /\ screens[d] \in Seq([kind : Kinds, id : 1..shown[d],
                                      user : Emails \cup {NoUser}])
               /\ mainq[d] \in Seq({i \in Calls : call[i].dev = d
                                                  /\ progress[i] \in {"welcome", "admit", "sorry"}})
               /\ writes[d] \subseteq accounts
    <3>1. StackOf(d) /\ QueuedOn(d) /\ writes[d] \subseteq accounts
      BY <2>1 DEF Phones, PhoneOf, Queued, Granted
    <3>2. screens[d] \in Seq(Shots) /\ mainq[d] \in Seq(Nat)
      BY <2>1 DEF Types
    <3>3. screens[d] \in Seq([kind : Kinds, id : 1..shown[d], user : Emails \cup {NoUser}])
      <4>1. \A n \in 1..Len(screens[d]) :
              screens[d][n] \in [kind : Kinds, id : 1..shown[d], user : Emails \cup {NoUser}]
        <5> SUFFICES ASSUME NEW n \in 1..Len(screens[d])
                     PROVE  screens[d][n] \in [kind : Kinds, id : 1..shown[d],
                                             user : Emails \cup {NoUser}]
          OBVIOUS
        <5>1. screens[d][n] \in Shots
          BY <3>2, SequenceFacts
        <5>2. screens[d][n].id \in 1..shown[d]
          BY <3>1 DEF StackOf
        <5> QED
          BY <5>1, <5>2 DEF Shots
      <4>2. PICK T : T = [kind : Kinds, id : 1..shown[d], user : Emails \cup {NoUser}]
        OBVIOUS
      <4>3. \A n \in 1..Len(screens[d]) : screens[d][n] \in T
        BY <4>1, <4>2
      <4>4. screens[d] \in Seq(T)
        BY <3>2, <4>3, SequenceOf
      <4> QED
        BY <4>2, <4>4
    <3>4. mainq[d] \in Seq({i \in Calls : call[i].dev = d
                                          /\ progress[i] \in {"welcome", "admit", "sorry"}})
      <4>1. \A n \in 1..Len(mainq[d]) :
              mainq[d][n] \in {i \in Calls : call[i].dev = d
                                             /\ progress[i] \in {"welcome", "admit", "sorry"}}
        BY <3>1 DEF QueuedOn, RightQueue, Ready
      <4> QED
        BY <3>2, <4>1, SequenceOf
    <3>5. alive[d] <=> screens[d] # << >>
      BY <3>1 DEF StackOf
    <3> QED
      BY <3>1, <3>3, <3>4, <3>5
  <2> QED
    BY <2>1, <2>2 DEF Types, TypeOK, Requests
<1> QED
  BY <1>1, Invariance, PTL

(* However many phones there are and however their users hurry, nobody     *)
(* sees a feed while signed out, and the feed of a user who waits is the   *)
(* current user's.                                                         *)
THEOREM FeedIsOfCurrentUserHolds == Spec => []FeedIsOfCurrentUser
<1>1. IInv => FeedIsOfCurrentUser
  <2> SUFFICES ASSUME IInv, NEW d \in Devices, Sees(d, "tabs")
               PROVE  /\ session[d] # NoUser
                      /\ d \in hurried \/ Top(d).user = session[d]
    BY DEF FeedIsOfCurrentUser
  <2>1. Types /\ PhoneOf(d) /\ alive[d]
    BY DEF IInv, Phones, Sees
  <2>2. /\ Top(d) = screens[d][Len(screens[d])] /\ Len(screens[d]) \in 1..Len(screens[d])
        /\ Len(screens[d]) \in Nat /\ shown[d] \in Nat /\ Top(d).kind = "tabs"
    BY <2>1, TopFacts DEF PhoneOf, Sees
  <2>3. session[d] # NoUser
    <3> SUFFICES ASSUME session[d] = NoUser PROVE FALSE
      OBVIOUS
    <3>1. Cover(d, 0)
      BY <2>1, <2>2 DEF PhoneOf, CoverOf
    <3> QED
      BY <2>2, <3>1 DEF Cover
  <2>4. Bare(d, Len(screens[d]))
    BY <2>2 DEF Bare
  <2> QED
    BY <2>1, <2>2, <2>3, <2>4 DEF PhoneOf, PatientOf
<1> QED
  BY <1>1, Invariance, PTL

(* Likewise for the administrator's page.                                  *)
THEOREM PageIsOfAdministratorHolds == Spec => []PageIsOfAdministrator
<1>1. IInv => PageIsOfAdministrator
  <2> SUFFICES ASSUME IInv, NEW d \in Devices, Sees(d, "admin")
               PROVE  /\ session[d] # NoUser
                      /\ d \in hurried \/ session[d] \in Admins
    BY DEF PageIsOfAdministrator
  <2>1. Types /\ PhoneOf(d) /\ alive[d]
    BY DEF IInv, Phones, Sees
  <2>2. /\ Top(d) = screens[d][Len(screens[d])] /\ Len(screens[d]) \in 1..Len(screens[d])
        /\ Len(screens[d]) \in Nat /\ shown[d] \in Nat /\ Top(d).kind = "admin"
    BY <2>1, TopFacts DEF PhoneOf, Sees
  <2>3. session[d] # NoUser
    <3> SUFFICES ASSUME session[d] = NoUser PROVE FALSE
      OBVIOUS
    <3>1. Cover(d, 0)
      BY <2>1, <2>2 DEF PhoneOf, CoverOf
    <3> QED
      BY <2>2, <3>1 DEF Cover
  <2>4. Bare(d, Len(screens[d]))
    BY <2>2 DEF Bare
  <2> QED
    BY <2>1, <2>2, <2>3, <2>4 DEF PhoneOf, PatientOf
<1> QED
  BY <1>1, Invariance, PTL

(* Every account that no fault has met is recorded, or is about to be, in  *)
(* spite of everything that phones and their users do meanwhile.           *)
THEOREM EveryAccountIsRecordedHolds == Spec => []EveryAccountIsRecorded
<1>1. IInv => EveryAccountIsRecorded
  BY DEF IInv, Recorded
<1> QED
  BY <1>1, Invariance, PTL

=============================================================================
