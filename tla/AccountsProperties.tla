------------------------- MODULE AccountsProperties -------------------------
(***************************************************************************)
(* What signing up, in and out guarantees.                                 *)
(***************************************************************************)
EXTENDS Accounts

(* The type of every variable; every queued completion names a call of its *)
(* own phone that was answered, once.                                      *)
TypeOK ==
  /\ accounts \subseteq Emails
  /\ profiles \subseteq Emails
  /\ calls \in 0..MaxCalls
  /\ call \in [Calls -> [dev : Devices, kind : {"signIn", "signUp", "admin"},
                         account : Emails, id : Nat]]
  /\ progress \in [Calls -> Progress]
  /\ alive \in [Devices -> BOOLEAN]
  /\ session \in [Devices -> Emails \cup {NoUser}]
  /\ shown \in [Devices -> Nat]
  /\ \A d \in Devices :
       /\ alive[d] <=> screens[d] # << >>
       /\ screens[d] \in Seq([kind : Kinds, id : 1..shown[d],
                              user : Emails \cup {NoUser}])
       /\ mainq[d] \in Seq({i \in Calls : call[i].dev = d
                                          /\ progress[i] \in {"welcome", "admit", "sorry"}})
       /\ writes[d] \subseteq accounts
  /\ faults \in 0..MaxFaults

(* Whatever the user taps while Auth is still answering, the feed is never *)
(* on screen with nobody signed in (where the first refresh would stop the *)
(* app: checkPostVoteState and the profile screen take the current user    *)
(* for granted); and if the user waited for every answer, its cells        *)
(* observe the votes of the very account that is signed in.                *)
FeedIsOfCurrentUser ==
  \A d \in Devices : Sees(d, "tabs") =>
    /\ session[d] # NoUser
    /\ d \in hurried \/ Top(d).user = session[d]

(* The administrator's page is never on screen with nobody signed in, and  *)
(* if the user waited for every answer it is an administrator who sees it: *)
(* privileges are compared for the current user as it is when the sign-in  *)
(* is answered, and the page opens one more answer later.                  *)
PageIsOfAdministrator ==
  \A d \in Devices : Sees(d, "admin") =>
    /\ session[d] # NoUser
    /\ d \in hurried \/ session[d] \in Admins

(* An account that no fault has met has its record in the database, or the *)
(* record is still being written, or its sign-up is still being answered,  *)
(* even if the user has closed the sign-up screen, signed out or signed in *)
(* elsewhere meanwhile.                                                    *)
EveryAccountIsRecorded ==
  \A a \in accounts \ (profiles \cup hurt) :
    \/ \E d \in Devices : a \in writes[d]
    \/ \E i \in Calls : /\ call[i].kind = "signUp" /\ call[i].account = a
                        /\ progress[i] \in {"granted", "welcome"}

(* "Successfully created the user and added them to the database": once    *)
(* its phone has nothing left to write, an account that a sign-up has let  *)
(* into the feed is in the database (the comment in signUpAction).         *)
WelcomedIsRecorded ==
  \A a \in welcomed : (\A d \in Devices : a \notin writes[d]) => a \in profiles

(* A user who signs in gets to see the feed, if nothing was tapped while   *)
(* Auth was answering, unless the app dies or the user signs out; behind   *)
(* an alert about signing out is still the feed (FairSpec).  Whoever tried *)
(* the administrator's sign-in is signed in, too, and sees the sign-in     *)
(* screen after the page or the alert, until the app is started again.     *)
SignedIn(d) ==
  /\ alive[d] /\ session[d] # NoUser /\ d \notin hurried
  /\ \A i \in Calls : call[i].dev = d => call[i].kind # "admin"

BehindAlerts(d) ==
  \E n \in 1..Len(screens[d]) :
    /\ screens[d][n].kind = "tabs"
    /\ \A m \in (n + 1)..Len(screens[d]) : screens[d][m].kind = "alert"

Lost == \E d \in Devices : SignedIn(d) /\ ~BehindAlerts(d)

SignedInSeesFeed == Lost ~> ~Lost

=============================================================================
