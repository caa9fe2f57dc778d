------------------------------ MODULE Accounts ------------------------------
(***************************************************************************)
(* Signing up, in and out.  Each phone has a main thread with a stack of   *)
(* presented screens, the work queue of Firebase Auth, which changes the   *)
(* current user, and the database client.  A call to Auth is answered in   *)
(* two steps: the work queue changes the current user, then the main       *)
(* thread runs the completion, which presents the tab bar or an alert.     *)
(* Between the two, and before, the user can go on tapping.  The record of *)
(* a new account is written by the completion and nobody waits for it.     *)
(* The completion of an administrator's sign-in compares privileges first, *)
(* which is a read of the database, and presents a page or an alert.       *)
(*                                                                         *)
(* An account stands for its email address, its password and its uid.      *)
(***************************************************************************)
EXTENDS Naturals, Sequences, SequencesExt

CONSTANTS
  Devices,      \* phones running the app
  Emails,       \* the accounts there can be
  Known,        \* those that exist at first
  Admins,       \* those with privileges of 100 or more
  MaxCalls,     \* bound: calls to Auth, on all phones together
  MaxShown,     \* bound: the user asks for no screen of a phone beyond this one
  MaxFaults     \* bound: lost requests and answers, refused writes, kills

ASSUME AccountAssumption ==
  /\ Known \subseteq Emails
  /\ "nobody" \notin Emails

ASSUME BoundAssumption ==
  MaxCalls \in Nat /\ MaxShown \in Nat /\ MaxFaults \in Nat

VARIABLES
  \* the servers
  accounts,     \* the accounts that Auth knows
  profiles,     \* the accounts a with the fields of createUser in users/a
  \* the calls to Auth
  calls,        \* how many there have been: call i is the i-th
  call,         \* call[i]: who asks for what, on which screen
  progress,     \* progress[i]: how far call i has come
  \* the phones
  alive,        \* the app is running
  session,      \* Auth's current user, kept on disk
  screens,      \* the presented screens, the one the user sees last
  shown,        \* how many screens have been presented: the last one's id
  mainq,        \* completions waiting for the main thread, in order
  writes,       \* accounts whose record write is pending in the client
  faults,       \* bound
  \* history
  welcomed,     \* accounts that a sign-up has let into the feed
  hurt,         \* accounts whose sign-up or record write met a fault
  hurried       \* phones whose user did not wait for an answer

servers == <<accounts, profiles>>
asked   == <<calls, call>>
ui      == <<screens, shown>>
history == <<welcomed, hurt, hurried>>

vars == <<servers, asked, progress, alive, session, ui, mainq, writes, faults,
          history>>

NoUser == "nobody"

Calls == 1..calls
Kinds == {"signIn", "signUp", "tabs", "alert", "admin"}

(* "asked": on its way to the server, "orphan" if the app that asked died. *)
(* "granted", "denied": the answer is on its way back.  "allowed",         *)
(* "barred": so are the privileges.  "welcome", "admit", "sorry": the      *)
(* completion waits for the main thread.  "closed": it ran, or never will. *)
Progress == {"asked", "orphan", "granted", "denied", "allowed", "barred",
             "welcome", "admit", "sorry", "closed"}

Open(i) == progress[i] \notin {"orphan", "closed"}
Waiting(d) == \E i \in Calls : call[i].dev = d /\ Open(i)

Top(d) == Last(screens[d])
Sees(d, kind) == alive[d] /\ Top(d).kind = kind

(* A screen as it is presented.  user: the current user by then, whose     *)
(* votes the cells of a home feed observe.                                 *)
Screen(d, kind, id) == [kind |-> kind, id |-> id, user |-> session[d]]

Init ==
  /\ accounts = Known
  /\ profiles = Known
  /\ calls = 0
  /\ call = << >>
  /\ progress = << >>
  /\ alive = [d \in Devices |-> FALSE]
  /\ session = [d \in Devices |-> NoUser]
  /\ screens = [d \in Devices |-> << >>]
  /\ shown = [d \in Devices |-> 0]
  /\ mainq = [d \in Devices |-> << >>]
  /\ writes = [d \in Devices |-> {}]
  /\ faults = 0
  /\ welcomed = {}
  /\ hurt = {}
  /\ hurried = {}

Push(d, kind) ==
  /\ screens' = [screens EXCEPT ![d] = Append(@, Screen(d, kind, shown[d] + 1))]
  /\ shown' = [shown EXCEPT ![d] = @ + 1]

(* Presenting from a screen that is covered by another, or gone, does      *)
(* nothing.                                                                *)
Present(d, id, kind) ==
  IF Top(d).id = id THEN Push(d, kind) ELSE UNCHANGED ui

Hurry(d) == hurried' = IF Waiting(d) THEN hurried \cup {d} ELSE hurried

(***************************************************************************)
(* The user.                                                               *)
(***************************************************************************)

(* The app starts with the tab bar; the home feed presents the sign-in     *)
(* screen if nobody is signed in.                                          *)
LaunchToSignIn(d) ==        \* mutant: the current user is not looked at
  /\ ~alive[d] /\ shown[d] < MaxShown
  /\ alive' = [alive EXCEPT ![d] = TRUE]
  /\ screens' = [screens EXCEPT ![d] =
       <<Screen(d, "tabs", shown[d] + 1), Screen(d, "signIn", shown[d] + 2)>>]
  /\ shown' = [shown EXCEPT ![d] = @ + 2]
  /\ UNCHANGED <<servers, asked, progress, session, mainq, writes, faults, history>>

LaunchToFeed(d) ==          \* mutant: the feed is not covered
  /\ ~alive[d] /\ shown[d] < MaxShown
  /\ alive' = [alive EXCEPT ![d] = TRUE]
  /\ screens' = [screens EXCEPT ![d] = <<Screen(d, "tabs", shown[d] + 1)>>]
  /\ shown' = [shown EXCEPT ![d] = @ + 2]
  /\ UNCHANGED <<servers, asked, progress, session, mainq, writes, faults, history>>

Launch(d) ==
  /\ ~alive[d] /\ shown[d] < MaxShown
  /\ alive' = [alive EXCEPT ![d] = TRUE]
  /\ screens' = [screens EXCEPT ![d] =
       IF session[d] = NoUser
       THEN <<Screen(d, "tabs", shown[d] + 1), Screen(d, "signIn", shown[d] + 2)>>
       ELSE <<Screen(d, "tabs", shown[d] + 1)>>]
  /\ shown' = [shown EXCEPT ![d] = @ + 2]
  /\ UNCHANGED <<servers, asked, progress, session, mainq, writes, faults, history>>

(* SignIn and signUpAction: the button of the screen that is seen.  On the *)
(* sign-in screen an address that ends in _ADMIN is an administrator's.    *)
Ask(d, kind, a) ==
  /\ Sees(d, IF kind = "admin" THEN "signIn" ELSE kind)
  /\ calls < MaxCalls
  /\ calls' = calls + 1
  /\ call' = Append(call, [dev |-> d, kind |-> kind, account |-> a, id |-> Top(d).id])
  /\ progress' = Append(progress, "asked")
  /\ Hurry(d)
  /\ UNCHANGED <<servers, alive, session, ui, mainq, writes, faults, welcomed, hurt>>

(* The sign-up screen and the administrator's page are sheets over the     *)
(* sign-in screen, and can be dragged away; an alert has one button.       *)
OpenSignUp(d) ==
  /\ Sees(d, "signIn") /\ shown[d] < MaxShown
  /\ Push(d, "signUp")
  /\ Hurry(d)
  /\ UNCHANGED <<servers, asked, progress, alive, session, mainq, writes, faults,
                 welcomed, hurt>>

Dismiss(d) ==
  /\ Sees(d, "signUp") \/ Sees(d, "admin") \/ Sees(d, "alert")
  /\ screens' = [screens EXCEPT ![d] = Front(@)]
  /\ Hurry(d)
  /\ UNCHANGED <<servers, asked, progress, alive, session, shown, mainq, writes,
                 faults, welcomed, hurt>>

(* signOut, on the settings screen of the tab bar.                         *)
SignOut(d) ==
  /\ Sees(d, "tabs") /\ shown[d] < MaxShown
  /\ session' = [session EXCEPT ![d] = NoUser]
  /\ screens' = [screens EXCEPT ![d] =
       Append(@, [kind |-> "signIn", id |-> shown[d] + 1, user |-> NoUser])]
  /\ shown' = [shown EXCEPT ![d] = @ + 1]
  /\ Hurry(d)
  /\ UNCHANGED <<servers, asked, progress, alive, mainq, writes, faults, welcomed, hurt>>

(* The keychain refuses: an alert, and the user stays signed in.           *)
SignOutFails(d) ==
  /\ Sees(d, "tabs") /\ shown[d] < MaxShown
  /\ faults < MaxFaults
  /\ faults' = faults + 1
  /\ Push(d, "alert")
  /\ UNCHANGED <<servers, asked, progress, alive, session, mainq, writes, history>>

(***************************************************************************)
(* Auth's server and its work queue on the phone.                          *)
(***************************************************************************)

(* An account is created once; a sign-in needs one, and its password.      *)
Grant(i) ==
  /\ progress[i] \in {"asked", "orphan"}
  /\ (call[i].kind = "signUp") <=> (call[i].account \notin accounts)
  /\ accounts' = accounts \cup {call[i].account}
  /\ progress' = [progress EXCEPT ![i] = IF @ = "asked" THEN "granted" ELSE "closed"]
  /\ UNCHANGED <<profiles, asked, alive, session, ui, mainq, writes, faults, history>>

Deny(i) ==
  /\ progress[i] = "asked"
  /\ call[i].kind = "signUp" => call[i].account \in accounts
  /\ progress' = [progress EXCEPT ![i] = "denied"]
  /\ UNCHANGED <<servers, asked, alive, session, ui, mainq, writes, faults, history>>

(* The answer arrives: the current user changes, and the completion is     *)
(* queued.                                                                 *)
Receive(i) ==
  /\ progress[i] \in {"granted", "denied"}
  /\ LET d == call[i].dev
     IN /\ session' = IF progress[i] = "granted"
                      THEN [session EXCEPT ![d] = call[i].account] ELSE session
        /\ mainq' = [mainq EXCEPT ![d] = Append(@, i)]
  /\ progress' = [progress EXCEPT ![i] = IF @ = "granted" THEN "welcome" ELSE "sorry"]
  /\ UNCHANGED <<servers, asked, alive, ui, writes, faults, history>>

(* The network fails before the server has the request, or after.          *)
NetworkError(i) ==
  /\ progress[i] \in {"asked", "granted", "denied"}
  /\ faults < MaxFaults
  /\ faults' = faults + 1
  /\ progress' = [progress EXCEPT ![i] = "sorry"]
  /\ mainq' = [mainq EXCEPT ![call[i].dev] = Append(@, i)]
  /\ hurt' = hurt \cup {call[i].account}
  /\ UNCHANGED <<servers, asked, alive, session, ui, writes, welcomed, hurried>>

(***************************************************************************)
(* The main thread.                                                        *)
(***************************************************************************)

RunAgain(d, i) ==           \* mutant: a completion stays in the queue
  /\ alive[d] /\ mainq[d] # << >> /\ i = Head(mainq[d])
  /\ mainq' = mainq
  /\ progress' = [progress EXCEPT ![i] = "closed"]

Run(d, i) ==
  /\ alive[d] /\ mainq[d] # << >> /\ i = Head(mainq[d])
  /\ mainq' = [mainq EXCEPT ![d] = Tail(@)]
  /\ progress' = [progress EXCEPT ![i] = "closed"]

(* No error: after a sign-up the record is written, and without waiting    *)
(* for it the tab bar is presented.                                        *)
WelcomeUnrecorded(d, i) ==  \* mutant: the record is written in the feed only
  /\ Run(d, i) /\ progress[i] = "welcome" /\ call[i].kind # "admin"
  /\ Present(d, call[i].id, "tabs")
  /\ welcomed' = IF call[i].kind = "signUp" /\ Top(d).id = call[i].id
                 THEN welcomed \cup {call[i].account} ELSE welcomed
  /\ writes' = IF call[i].kind = "signUp" /\ Top(d).id = call[i].id
               THEN [writes EXCEPT ![d] = @ \cup {call[i].account}] ELSE writes
  /\ UNCHANGED <<servers, asked, alive, session, faults, hurt, hurried>>

Welcome(d, i) ==
  /\ Run(d, i) /\ progress[i] = "welcome" /\ call[i].kind # "admin"
  /\ Present(d, call[i].id, "tabs")
  /\ IF call[i].kind = "signUp"
     THEN /\ writes' = [writes EXCEPT ![d] = @ \cup {call[i].account}]
          /\ welcomed' = IF Top(d).id = call[i].id
                         THEN welcomed \cup {call[i].account} ELSE welcomed
     ELSE UNCHANGED <<writes, welcomed>>
  /\ UNCHANGED <<servers, asked, alive, session, faults, hurt, hurried>>

(* comparePrivileges of whoever is the current user by now.                *)
CompareNothing(d, i) ==     \* mutant: the answer is not looked at
  /\ alive[d] /\ mainq[d] # << >> /\ i = Head(mainq[d])
  /\ progress[i] = "welcome" /\ call[i].kind = "admin"
  /\ mainq' = [mainq EXCEPT ![d] = Tail(@)]
  /\ progress' = [progress EXCEPT ![i] =
       IF session[d] = NoUser THEN "closed" ELSE "allowed"]
  /\ UNCHANGED <<servers, asked, alive, session, ui, writes, faults, history>>

Compare(d, i) ==
  /\ alive[d] /\ mainq[d] # << >> /\ i = Head(mainq[d])
  /\ progress[i] = "welcome" /\ call[i].kind = "admin"
  /\ mainq' = [mainq EXCEPT ![d] = Tail(@)]
  /\ progress' = [progress EXCEPT ![i] =
       IF session[d] = NoUser THEN "closed"
       ELSE IF session[d] \in Admins THEN "allowed" ELSE "barred"]
  /\ UNCHANGED <<servers, asked, alive, session, ui, writes, faults, history>>

Admit(d, i) ==
  /\ Run(d, i) /\ progress[i] = "admit"
  /\ Present(d, call[i].id, "admin")
  /\ UNCHANGED <<servers, asked, alive, session, writes, faults, history>>

Sorry(d, i) ==
  /\ Run(d, i) /\ progress[i] = "sorry"
  /\ Present(d, call[i].id, "alert")
  /\ UNCHANGED <<servers, asked, alive, session, writes, faults, history>>

(***************************************************************************)
(* The database, and the end of the app.                                   *)
(***************************************************************************)

(* The privileges arrive, or an error.                                     *)
Compared(i, verdict) ==
  /\ progress' = [progress EXCEPT ![i] = verdict]
  /\ mainq' = [mainq EXCEPT ![call[i].dev] = Append(@, i)]
  /\ UNCHANGED <<servers, asked, alive, session, ui, writes, history>>

AnswerCompare(i) ==
  /\ progress[i] \in {"allowed", "barred"}
  /\ Compared(i, IF progress[i] = "allowed" THEN "admit" ELSE "sorry")
  /\ UNCHANGED faults

RefuseCompare(i) ==
  /\ progress[i] = "allowed"
  /\ faults < MaxFaults
  /\ faults' = faults + 1
  /\ Compared(i, "sorry")

StoreProfile(d, a) ==
  /\ alive[d] /\ a \in writes[d]
  /\ profiles' = profiles \cup {a}
  /\ writes' = [writes EXCEPT ![d] = @ \ {a}]
  /\ UNCHANGED <<accounts, asked, progress, alive, session, ui, mainq, faults, history>>

(* The error is printed, and nothing else.                                 *)
RefuseProfile(d, a) ==
  /\ alive[d] /\ a \in writes[d]
  /\ faults < MaxFaults
  /\ faults' = faults + 1
  /\ writes' = [writes EXCEPT ![d] = @ \ {a}]
  /\ hurt' = hurt \cup {a}
  /\ UNCHANGED <<servers, asked, progress, alive, session, ui, mainq, welcomed, hurried>>

(* The app ends (the administrator's page without a token ends it, too).   *)
(* The current user is on disk; nothing else survives.  A request may be   *)
(* on its way to the server still.                                         *)
Kill(d) ==
  /\ alive[d]
  /\ faults < MaxFaults
  /\ faults' = faults + 1
  /\ alive' = [alive EXCEPT ![d] = FALSE]
  /\ screens' = [screens EXCEPT ![d] = << >>]
  /\ mainq' = [mainq EXCEPT ![d] = << >>]
  /\ writes' = [writes EXCEPT ![d] = {}]
  /\ progress' = [i \in Calls |->
       IF call[i].dev # d THEN progress[i]
       ELSE IF progress[i] \in {"asked", "orphan"} THEN "orphan" ELSE "closed"]
  /\ hurt' = hurt \cup writes[d]
       \cup {call[i].account : i \in {j \in Calls : call[j].dev = d /\ Open(j)}}
  /\ UNCHANGED <<servers, asked, session, shown, welcomed, hurried>>

-----------------------------------------------------------------------------

Answer(i) == Grant(i) \/ Deny(i) \/ Receive(i) \/ AnswerCompare(i)

MainThread(d) ==
  \E i \in Calls : Welcome(d, i) \/ Compare(d, i) \/ Admit(d, i) \/ Sorry(d, i)

Next ==
  \/ \E d \in Devices :
       \/ Launch(d)
       \/ \E kind \in {"signIn", "signUp", "admin"}, a \in Emails : Ask(d, kind, a)
       \/ OpenSignUp(d)
       \/ Dismiss(d)
       \/ SignOut(d)
       \/ SignOutFails(d)
       \/ MainThread(d)
       \/ \E a \in Emails : StoreProfile(d, a)
       \/ \E a \in Emails : RefuseProfile(d, a)
       \/ Kill(d)
  \/ \E i \in Calls : Answer(i)
  \/ \E i \in Calls : NetworkError(i)
  \/ \E i \in Calls : RefuseCompare(i)

Spec == Init /\ [][Next]_vars

(* Auth answers, the main thread runs what is queued, and the client keeps *)
(* trying to write: as long as any of it is left, some is done.  The user  *)
(* need not do anything.                                                   *)
Work ==
  \/ \E i \in Calls : Answer(i)
  \/ \E d \in Devices : MainThread(d) \/ \E a \in Emails : StoreProfile(d, a)

FairSpec == Spec /\ WF_vars(Work)

=============================================================================
