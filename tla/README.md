# Whoot: models, checks and proofs

Whoot (`src/whoot/whoot`, Swift) is an iOS app on Firebase: people sign up, post
short texts at their location, read the posts near them, vote on them with a thumb
up or down, and comment. There is no server code of its own: the app talks to
Firebase Auth and to the Firebase Realtime Database through the client libraries
vendored under `src/whoot/Pods`. What can go wrong is therefore almost all in the
asynchrony: calls that are answered later, or twice, or not at all; completion
blocks that run on a screen which has changed meanwhile; two writes that belong
together and are not made together.

## 1. Inventory

| Component | State | Operations | Talks to |
|---|---|---|---|
| Voting (`PostTableViewCell`, `DBHelper.setUpvotes/setDownvotes/checkPostVoteState`) | `users/<u>/voted_posts/<p>` (1, 0, -1 or absent), `posts/<p>/upvotes` and `downvotes`; per cell `isUpvoted`, `isDownvoted`, `upvoteCountInt`, `postUID` | tap a thumb, value observer, completion | database client, feed's cells |
| Home feed (`HomeViewController`, `getAllPosts`) | `posts` (the rows), refresh control | launch, pull, reload after a post, `cellForRowAt` | database client, location, cells |
| Posting (`NewPostViewController`, `createPost`) | the sheet, its own `locationHelper` | open, post, cancel, alert | database client, feed |
| Location (`LocationHelper`) | `lat`, `lon`, 0/0 at first | fixes | feed, posting |
| Comments (`PostDetailViewController`, `NewComment`, `getAllComments`, `createComment`) | `posts/<p>/comments`; the rows of the detail screen, its refresh control, the Reply sheet | open a post, pull, go back, open the sheet, reply, cancel | database client; a vote's transaction on the same post |
| Accounts (`SignUpView`, `SignInView`, `SettingsViewController`, `checkIfUserSignedIn`, `createUser`, `comparePrivileges`) | Auth's current user (on disk), the screens, `users/<u>` | sign up, sign in, an administrator's sign-in, sign out, launch | Auth, database client |
| Profile, settings, administration page | labels, a web view | one read each | Auth, database |
| Keys of posts and comments (`FNextPushId.m`, `FClock.m`) | the last time and characters, the offset to the server's clock | `childByAutoId`, the server's hello | posting, comments, the order of both lists |
| Database client (`FRepo.m`, `FPersistentConnection.m`) | pending writes, listens, transaction queues, answers kept back, the connection | set, transaction, listen, disconnect, restore | server, main thread |
| Auth client (`FIRAuth.m`) | current user, keychain | sign up, in, out | server, main thread |

Threads: the app's code runs on the main thread; each client library has a serial
queue; completion blocks and events are dispatched to the main thread in order.

What is hard, and what would make each part correct (the full list, line by line, is
under `hazards` in `PROJECT.json`):

- *Voting.* A vote is two writes joined by a completion block. The counter must follow
  the record, never without it, and at most once, across reconnects (a set is sent
  again, a transaction is cancelled although it may have been applied), kills, fast
  taps and other phones of the account. Cells are reused with their observers.
- *Database client.* A transaction is retried against a hash, waits behind the one
  before it, is aborted by sets below its path, and is rerun without its own pending
  writes. No accepted attempt may be lost, no comment overwritten, and every
  transaction must be told its end.
- *Feed and posting.* Reads share answers; a post is displayed before it is stored;
  coordinates come from helpers that may have none.
- *Comments.* Reads share answers here, too, and a vote under way on the same post
  answers them from its own idea of the post. What is listed must exist, and a comment
  that was stored must be listed.
- *Keys.* The order of the feed and of comments is that of keys made from each phone's
  clock, corrected by what the server said last. What a phone makes in a row must stay
  in order, within a millisecond too, and nothing stored may be overwritten.
- *Accounts.* The record of an account is written without anybody waiting for it;
  Auth changes the current user before the completion runs, and the user may do
  something else in between. An administrator's sign-in takes two answers.

## 2. Modules

| Module | What it is |
|---|---|
| `VoteLedger` | what voting promises, seen from the database alone |
| `VoteFlow` | voting on any number of phones and accounts, with the client, the connection, the main thread, cells and the feed's reloads |
| `VoteProperties`, `MCVoteFlow` | its properties, instances for TLC |
| `VoteProofs` | the TLAPS proofs: types, writes, the ledger and the counters; what observers see, the order of votes, what cells show and what they count |
| `PostSync` | the client's transaction loop on one post: attempts, hashes, reruns, aborts, kept answers, reconnects |
| `PostSyncProperties`, `MCPostSync` | its properties, instances for TLC |
| `PostSyncProofs`, `PostCountProofs`, `PostReadProofs` | the TLAPS proofs: places of puts and statuses; the counter and the comments; what a read of the feed shows |
| `Feed` | posting, reading the feed, location |
| `FeedProperties`, `FeedProofs`, `MCFeed` | its properties, the proofs, an instance |
| `Comments` | the detail screen and the Reply sheet, with a vote on the same post |
| `CommentsProperties`, `CommentsProofs`, `MCComments` | its properties, the proofs, an instance |
| `PushKeys` | the keys of posts and comments and the order they give: clocks, hellos, draws, counting |
| `PushKeysProperties`, `PushKeysProofs`, `MCPushKeys` | its properties, the proofs, instances |
| `Accounts` | signing up, in and out, and the administrator's sign-in |
| `AccountsProperties`, `AccountsProofs`, `MCAccounts` | its properties, the proofs, instances |

`VoteFlow` is the composition of the app's half of a vote with what its two client
calls promise; `PostSync` looks into the second of these calls, and `Comments` takes
from `PostSync` how attempts of a transaction follow each other.

Definitions that end in a `mutant` comment stand before the definition they vary;
they say what a plausible bug in that code would do, and `PROJECT.json` names the
property that finds each.

### VoteFlow and the code

| Model | Code |
|---|---|
| `Tap`, `NewVote`, `NewValue`, `Delta` | `upvotePost`/`downvotePost`: `prevVal` is read from the cell; the record is set to `prevVal == kind ? 0 : kind`; the counter of that thumb changes by 1 or -1 |
| `stage[t]` | where a vote is on its way: record outstanding, answered, transaction outstanding, committed, completion run |
| `view`, `synced`, `Pending`, `DeliverValue`, `DeliverAck` | what observers see: the server's value, hidden by pending writes until they are answered (`FRepo set`, `ackWrite`, `onDataUpdate`) |
| `Event`, `MainValue`, `observers` | `checkPostVoteState`: an observer captures the cell and is never removed |
| `MainStored`, `CommitCount`, `DeliverCommit`, `GiveUp` | the transaction, as its last accepted attempt; it may be given up after 25 stale attempts or because a comment was set below the post |
| `Forget`, `Hideable` | a second comment while the transaction is outstanding drops its queue (`FRepo.m:1432`): if the attempt is then refused, or its answer lost, the completion is never called, and the local write goes on hiding the post; the two comments are one fault |
| `Disconnect`, `AfterDrop`, `Cancel`, `Connect`, `Listen`, `FirstWrite` | `onDisconnect`, `cancelSentTransactions`, `restoreState`: sets are sent again in order, sent transactions fail, listens come first |
| `Complete`, `MainCounted`, `MainError` | the completion block, applied to the cell that was tapped, whatever it displays; every error completes with 0 |
| `ReloadFeed`, `Fill`, `Launch`, `Kill` | `cellForRowAt` on every row, with any assignment of cells; nothing is persisted |

Abstracted: the attempts of a transaction before the accepted one (they change nothing
at the server, and are `PostSync`, as are the comments that abort or drop one); the
moment between a tap and its local write, both on queues nobody else uses in between;
the way of a read to the server and back (`ReloadFeed` is one step, with any of the
phone's outstanding or forgotten transactions overlaid on it); a request that reaches
the server after its app has died (such a vote counts as made before the death, or as
lost). Each phone has one account; changing it is `Accounts`. That an accepted attempt
adds its vote to what is there is taken from the client's promise; `PostSync` shows when
that promise holds.

### PostSync and the code

A handler of the client's serial queue is one step. `Start` is
`startTransactionOnPath` (the block is run on `latestStateAtPath`, pending writes
included, and the result is a pending write itself); `SendReady` is
`sendAllReadyTransactions` (nothing is sent while a transaction of the queue is
outstanding; the last output goes out for all, with the hash of the state without the
queue's writes); `Rerun` is `rerunTransactionQueue`, with the limit on retries;
`Abort` and `SetComment` are `abortTransactionsOnPath` and the `set` of
`createComment`; `AcceptPut` and `RefusePut` are the server's comparison of hashes;
`HandlePut` is the callback of `sendTransactionQueue`, in its order: what was accepted
leaves, what waited is sent, and only then everything is run again. `HoldReply` and
`Acknowledge` are the answers that `FPersistentConnection` keeps back while a listen is
unacknowledged, `Disconnect` and `Connect` its `onDisconnect`, `cancelSentTransactions`
and `restoreState`. `ReadFeed`, `DeliverFeed` and `EndRead` are the feed's
`observeSingleEvent`, which takes over the listen of the transactions below it.
`crowded` is a history variable: a transaction waited behind another of its phone
(`Waiting`) while that phone was busy `Elsewhere`: another listen was unanswered, an
answer was kept back, or a transaction that a comment had dropped from the queue had no
answer yet. What the code takes out of
a queue, or of the pending writes, leaves the rest in its order: `Only` and `Without`,
which choose the k-th place that is kept, so that the prover can expand them (a filter of
the community modules is recursive).

The transaction block only adds one: which thumb, and undoing, are `VoteFlow`.

### Feed and the code

`GetPosts` takes the coordinates when a read starts (`getAllPosts(lat: loc.lat, ...)`);
reads under way share one listen and its answer (`observeSingleEvent`); a snapshot
contains the phone's own pending posts (`Overlaid`). `Post` writes what `createNewPost`
writes, the two coordinates exchanged (`Located`). `ShowFeed`, `NoFeed`, `Posted` and
`NotPosted` are the completion blocks, including the early return that leaves the
refresh control spinning, and the missing guard against a second tap on Post. The
geodesic distance is a box around the reader: the properties only use that a place is
near itself. A lost connection is one step, after which everything outstanding is sent
again; being offline for a while is the server not taking steps.

### Comments and the code

`OpenPost` is `viewDidLoad` of the detail screen, `Pull` its refresh control; both call
`GetComments` (`getAllComments`). While a transaction is under way on the post, the
client answers the read itself, from the transaction's output (`how = "vote"`);
otherwise reads under way share one listen. `Reply` is `createPost` of the sheet with
`createComment` and its missing guard against a second tap, `Replied` and `NotReplied`
its two completions, `Dismissed` the `getComments` that follows the dismissal.
`StartVote`, `AcceptVote`, `RefuseVote`, `VoteAgain` and `EndVote` are the attempts of
one transaction on the post; `marks` counts the comments set meanwhile, the first of
which marks it to be aborted and the second of which drops its queue (`Dropped`).
`OthersComment` is every other phone. A lost connection and its return are one step.
Thumbs on the detail screen have no actions in the storyboard, so its cells vote on
nothing.

### PushKeys and the code

`DrawKey`, `CountKey` and `OverflowKey` are the three ways through `get:`, each
followed by the `setValue` of `createPost` or `createComment` (`Push`). Keys have their
real 20 characters of 64 (`TimeStampChars`, `Counted`); a character is its place in
`PUSH_CHARS`, whose order is that of the characters, and `Less` is `compareKey` for keys
that are too long to be numbers. `ServerTime` is `FOffsetClock`; `OnReady` sets its
offset to the time in the hello minus the phone's clock, so that the hello's way makes
the phone reckon that much too little; `SetClock` makes the offset wrong. `Above` is the
way lists are built: `getAllPosts` inserts at the top, `getAllComments` at the end.
`OverflowKey` writes before the first of the twelve characters, as the code does: which
variable that is depends on the build, so `lastPushTime` may change or not. `run` is
history: a phone's run ends when the time it reckons falls behind its last key's, with a
restart, and around an overflow. Times are whole milliseconds; a clock has fractions,
for which the margin of `SyncedEntriesInOrder` grows by one. An entry that was sent
before its app died and stored after it counts as stored before, or as lost; refused
writes are `Feed` and `Comments`.

### Accounts and the code

A call to Auth goes `asked`, `granted` or `denied` at the server, then `Receive`
changes the current user and queues the completion (`FIRAuth.m` 1732-1757), then
`Welcome` or `Sorry` runs it (`createUser`, `signUpAction`, `SignIn`). `screens` is
the stack of presented screens: presenting from a screen that is covered or gone
does nothing, which is UIKit's rule. `Welcome` of a sign-up starts the write of the
record (`writes`) and presents the tab bar in the same block, as `createUser` does.
On the sign-in screen an address that ends in `_ADMIN` takes the other branch of
`SignIn`: `Compare` runs `comparePrivileges` for whoever is the current user when the
sign-in is answered, `AnswerCompare` or `RefuseCompare` is the answer of that read, and
`Admit` or `Sorry` presents the page or an alert. Whoever was refused stays signed in,
on the sign-in screen. `Kill` keeps only the current user, and leaves requests on their
way (`orphan`); a page without a token ends the app the same way. That the sign-in
screen presented by `viewDidLoad` at launch appears is taken for granted.

## 3. Runs

All runs but those that expect a violation end with the whole state space explored.
Deadlock is not checked: taps, reads, calls and faults are bounded, and a phone with
nothing left to do stops.

| Run | Bounds | Shows |
|---|---|---|
| `one_phone` | 1 phone, 1 post, 1 cell, 2 taps, 2 faults, 2 loads, any kills, fair | types, record before counter, truthful completions, what a settled screen shows, every tap is answered that is not forgotten |
| `one_account` | 2 phones, 1 account, 2 taps, 1 fault | events between phones; `VoteLedger` across reconnects |
| `reused_cells` | 2 posts, 2 cells, 2 taps, 3 loads | cells handed to another post, and back, with votes under way |
| `sync` | 2 phones, 2 transactions of 2 attempts, 1 comment, 2 events, fair | no accepted attempt is lost, comments stay, failures are true, what a read shows, the queue moves, every end is told |
| `lost_vote` | 2 phones, 3 transactions of 3 attempts, 1 event | violation, see below |
| `lost_answer` | 1 phone, 1 transaction, 2 comments, fair | violation, see below |
| `feed` | 1 phone, 2 places, 2 posts, 2 reads asked for, 1 move, 1 fault, fair | what is displayed exists; what was posted is displayed; the refresh control stops |
| `local_posts` | 1 phone, 1 place, 1 post | violation, see below |
| `comments` | 2 comments, 2 reads, 1 sheet, 2 attempts of a vote, 1 fault, fair | what is listed exists and is complete; own replies are listed; everything is answered |
| `push_keys` | 2 phones, symmetric, 2 posts, 3 ms around a carry of the time, 2 draws, clocks off by 1, hellos up to 1 late, 1 fault | the alphabet of keys; what one phone makes in a run is in order, and so are entries further apart than a hello's way; what may be overwritten |
| `accounts` | 2 phones, 2 accounts, one an administrator's and known, 2 calls, 4 screens per phone, 1 fault, fair | which screen is seen by whom; accounts have records; whoever signs in sees the feed |
| `comment_on_sign_up` | 1 phone, 1 call, 1 fault | violation, see below |

Why the bounds are enough: two taps are needed for an undo, a switch, or a pair with
the same `prevVal`; two faults for a failed reconnect; two loads for a reload with a vote under way or a relaunch; two cells and
two posts for a cell that changes hands, and a third load for one that gets its post back. In `sync` two transactions are needed for a
queue, two phones for a stale hash, two attempts for a retry and for giving up, two
events for a comment or a lost connection with a listen elsewhere. In `feed` and
`comments` two reads share an answer or overtake each other, two posts or comments come
from one sheet (a double tap) or from two phones. In `push_keys` two entries are compared,
of one phone or of two; of the characters drawn, one lot carries when it is counted on and
the other overflows, and the milliseconds 62 to 64 carry into the second digit; comments,
which have the same keys and are listed the other way round, are in the proofs only. Two
accounts that vote on one post share nothing but its counters: that is in the proofs of
`TidyVotesAreCounted` and `LedgerSpec`, which hold for any accounts. In `accounts` two calls are answered
out of order, on one phone or on two that use one account.

Fairness. `FairSpec` of `VoteFlow` asks it of each part: that the server answers what
it was sent, that the client and the main thread run what is queued, and that the
client reconnects, as `tryScheduleReconnect` does for as long as the app runs. In
`PostSync`, `Feed`, `Comments` and `Accounts` one weak fairness condition over all of
these is enough, and weaker: as long as any of that work is left, some of it is done.
What one user action, read or attempt causes is bounded, so that no part can keep
another waiting for ever. Users, faults, kills and launches are never forced.

### What the properties say, and what they had to be conditioned on

Each condition below is there because TLC refutes the property without it: these are
the limits of the code.

- `TidyVotesAreCounted`: counters are recorded votes *plus one per switch of thumbs*
  (a switch never takes the old counter back), for votes that were made on a cell that
  showed the truth and were not overtaken. Two taps before the first answer count
  twice for one record; an undo that outruns a refused vote makes a counter negative.
- `SettledCellShowsRecord`: not after an error (every error puts the thumb out, even
  when the record was stored), not in a reused cell (its observers are never removed),
  not with a second phone of the account (a completion may overwrite a newer event), and
  not if the post was voted on through another cell, too. The last is what a post does
  that a reload moves to another cell and the next one back: the vote that was tapped
  first may be completed last, on the cell that was tapped, and sets its thumb to what
  the record was before the second vote. It takes three loads.
- `SettledCountIsExpected`: the same, and not if the feed was reloaded while a vote was
  open: the vote is then in the loaded points and added once more by its completion.
- `SettledViewIsRecord` needs no condition: the client always ends with what the
  database has.
- `CountIsWhole`, `CommentsStay`: unless `crowded` (see `lost_vote`). The three ways to be
  busy elsewhere are all needed. With another listen, see `lost_vote`. An answer that is
  kept back over a reconnect is handled when the data has moved on, too. And a second
  comment drops the queue while its put is outstanding; what is started then, and waits
  behind a new put, is run again by the answer to the old one, on data without the
  writes of the new put, and is later sent so. An earlier form of this model took only
  listens into account; the second and third came out of the attempt to prove
  `CountIsWhole`: they take three transactions, and the third two comments, more than
  the bounds of `sync` allow, so that this run passed all the same.
- `FailureIsTrue`: of the errors a completion may get, "set" and "maxretries" mean that
  nothing was or will be written; "disconnect" means nothing.
- `ReadIsWhole`: a feed read may see a post that is made of a counter alone as long as
  the phone's own first attempt on it has had no answer (the block was run on nothing),
  or its queue was dropped. `Post.fromDictionary` stops the app at such a post.
- `UndisturbedIsTold`: unless two comments were set while the transaction was under way
  (see `lost_answer`). `OnlyForgottenTapsWait` is the same seen from the thumb: a vote
  whose transaction was dropped so is never completed, and stays open until the app
  dies; every other vote ends, those behind it included.
- `PostedIsShown`: relative to the coordinates that were written; `SpinnerStops`:
  unless a read has failed.
- `ListIsComplete`, `ReplyIsListed`: for lists that the server answered. A list read
  while a vote is under way may be empty although there are comments, because the
  vote's first output knows nothing of the post; a list that failed is empty.
- `OwnEntriesInOrder`: within a run, which ends where the reckoned time falls, at a
  restart, and where all twelve characters overflow (`get:` then clears them, in the same
  millisecond). The header of `childByAutoId` promises a
  chronologically sorted list (`FIRDatabaseReference.h:60-62`), which a phone with a fast
  clock breaks: its first key is made before the server's hello has corrected the clock,
  and the next one after it is smaller. `SyncedEntriesInOrder`: for phones whose clock was
  not set since their last hello, and entries more than `MaxLag` apart.
  `OverwrittenByChance`: two phones, or an app and the one before it, may draw the same
  characters in the same millisecond (2^-72 for a pair, 1 here).
- `FeedIsOfCurrentUser`: somebody is always signed in behind the feed; that it is the
  account whose votes the cells observe needs a user who waits for answers (`hurried`
  is the others). `PageIsOfAdministrator` likewise: a user who signs in twice may see
  the page with another account than the one that was compared.
- `EveryAccountIsRecorded`: unless a sign-up or the write met a fault; nothing in the
  app ever writes a missing record.
- `SignedInSeesFeed`: a user who opened the sign-up sheet, or tapped again, before the
  answer may be signed in and stay on the sign-in screen; so does everybody who tried
  the administrator's sign-in, until the app is started again.

### Disagreements found

- `comment_on_sign_up`: the comment at `SignUpView.swift:60` says the user was added to
  the database; `createUser` completes before the write is answered and only prints its
  error.
- `local_posts`: README promises posts shared with the local community, the feed's
  header "Within 9 miles"; `createNewPost` writes the coordinates exchanged
  (`NewPostViewController.swift:31-32`), and a phone does not see its own post where it
  posted it.
- `lost_vote`: the header of `runTransactionBlock` says that a block that ran on stale
  data is run again. The ok of a put is kept back while a listen is unacknowledged;
  meanwhile another phone's update is taken into the client's data, but the queue hides
  it, so no event is raised and nothing is run again (`FRepo.m:659-663`). Handling the
  ok sends the transaction that waited as it was computed before, with the hash of the
  new data (`FRepo.m:1063`, before the rerun at 1090), and the server takes it: the
  other phone's vote is gone. It takes two transactions of one phone on the post, a
  third of another, and a listen elsewhere.
- `lost_answer`: the header says that the completion is called whatever happens. A
  second comment drops the queue with the marked, outstanding transaction in it
  (`FRepo.m:1432`); if its put is then refused, nobody finds it to call its completion.

## 4. Proofs

The proofs are checked by TLAPS for every value of the constants: any number of phones,
accounts, posts, cells, comments, calls and screens, and every bound. The assumptions
are the named ones of the modules: `DeviceAssumption` (a phone has an account),
`UncastAssumption` (the content of an uncast vote is none of a cast one),
`PostAssumption` (the mark of a cell in the reuse pool is no post), `CommentAssumption`
(a comment is not the number of a transaction, so that a phone's writes tell them apart),
`RetriesAssumption` (a transaction has at least one attempt), `AccountAssumption`
(the known accounts are accounts, "nobody" is none), the `BoundAssumption`s (bounds are
naturals), and the two about keys named below.

### VoteProofs: the database

| Theorem | States |
|---|---|
| `TypeCorrect` | `Spec => []TypeOK` |
| `StagesAreRight` | `Spec => []WriteInv`, the inductive invariant |
| `CountsFollowRecords` | `Spec => []CountedVoteIsRecorded` |
| `SuccessIsStored` | `Spec => []SuccessMeansStored` |
| `LedgerImplemented` | `Spec => LedgerSpec`: every step of `VoteFlow` is a step of `VoteLedger` or changes nothing there |
| `CountersFollowVotes` | `Spec => []CountInv`, the inductive invariant about counters |
| `TidyVotesCount` | `Spec => []TidyVotesAreCounted` |

`TypeOK` is inductive by itself; it makes every queued answer name a tap that exists.
`CountedVoteIsRecorded` is not: that the counter changes only in stage `count` says
nothing until it is known that a vote in `count` has its record stored. The
strengthening is `WriteInv`: `StageTellsWrites` says for each stage which of the two
writes have been made, including the stages a lost connection leads back to
(`stored` to `sent`: the record is stored, the count not) or out of (`counted` and
`count` to `cancelled`: the record is stored, the count unknown). The refinement then
follows action by action: `Tap` casts, `StoreRecord` records (the vote is not counted,
by the invariant), `CommitCount` counts (recorded and not counted, by the invariant),
every other action stutters; the mapping of contents does not change as votes are only
appended.

`TidyVotesAreCounted` compares the counters with the records when every vote on a post
has been completed; between the two writes of a vote they differ. `CountInv` says by how
much, for posts whose votes were all tapped on cells that showed the truth and none of
which is going to fail (`Clean`): a user has at most one vote that is not counted
(`OneByOne`); the record holds it, or still what its cell showed (`RecordTells`); and the
counters agree with what the users held before those votes (`Held`, `CountsHeld`). The
step that does the work is `CommitCount`, which moves one user from one set `Held` to
another, or out of both. `Held` is finite at the start, when nobody has voted, and stays
so: the set of accounts need not be finite.

### VoteProofs: phones and cells

| Theorem | States |
|---|---|
| `ViewFollowsRecord` | `Spec => []ViewInv`, the inductive invariant |
| `SettledViewHolds` | `Spec => []SettledViewIsRecord` |
| `VotesStayInOrder` | `Spec => []OrderInv` |
| `ScreensFollowViews` | `Spec => []ScreenInv`, the inductive invariant about cells |
| `SettledCellHolds` | `Spec => []SettledCellShowsRecord` |
| `CountsFollowVotes` | `Spec => []ScoreInv`, the inductive invariant about counts |
| `SettledCountHolds` | `Spec => []SettledCountIsExpected` |

`SettledViewIsRecord` speaks only of a phone with nothing on its way. `ViewInv` says of
every phone at all times what it is going to believe. `Heard`: if the server has answered
the listen, the last of its messages that says anything about the record (`Speaks`: an
update, or the answer to a write that was stored) says what the record is now, or none
does and the client believes it already (`Hears`). `AnswersRight`: an answer on its way is
to a vote of this phone that waits for it, one to each, so that taking an answer cannot
change what another one says. `Unhidden`: unless a write is pending, observers see what
the client believes. A lost connection empties the queue and ends the listen, so that
nothing is claimed until the server is asked again; a write that is sent again comes with
its value again.

`OrderInv` is about the same queues. A vote's stages have a rank on its way forward, and a later vote of a phone on a post
never has a greater one than an earlier one that is still on that way (`InTurn`), nor is a
vote lost behind one that is not. That two votes of one rank are answered in their order
(`Ordered`) is what makes it inductive, in both queues; that every vote which waits for an
answer has exactly one on its way (`RightAnswers`, `Unanswered`) is part of it, since an
answer that is not there would be overtaken. The connection keeps the order because all
that it takes back goes back by whole stages (`Dropped`): outstanding writes are sent
again in the order of the taps.

A cell is never told the record: it is told events and completions, block by block, and
the thumb it ends with is what the last block that says anything sets. `ScreenInv`
rests on `ViewInv` and `OrderInv` and adds four things. `Watched`: what a cell displays,
and what was tapped on it, has its observer; an app that is not running shows nothing.
`Steadfast`: whoever knows that a record is there is never told that it is not
(`Grows`), so that no block empties a view that a cell has shown (an event without a
record sets no thumb); and a phone alone with its account is given the value once per
listen (`Once`). `LastVote`: the last vote of such a phone on a post is what its
observers see, from the tap on, and what its record is, from when the write is stored;
this is where the order of votes is needed. `CellRight`: once the votes on a post have
all been answered, the last block that tells a cell anything tells it what its observers
see (`Shows`, `Due`), provided that the conditions of `SettledCellShowsRecord` held so
far (`Faithful`). With nothing on its way there is no block left, the cell shows what is
seen, and `SettledViewIsRecord` says that this is the record. Steps of other phones
(`Apart`) can reach a phone only through its queue from the server.

The count of a cell is never told: the completion adds what it makes of the thumb at that
moment, and the tap, long before, has settled what the vote is worth. `ScoreInv`, which
rests on the three above, says why they agree on a post whose votes are `Undisturbed`:
informed, not failed, and none under way at a reload. `Single`: an informed vote has no
rival under way, so that there is never more than one amount missing. `Placed`: no post
has two cells, and the cell of a vote still displays its post. `Known`: between such
votes the observers see the record or nothing yet, so that no block contradicts the next
tap. `Tally`: the count is what is expected, less the vote that is counted and not yet
completed; and the thumb of its cell has what the vote casts, or a block before the
completion will say so and none after that block says else (`Becomes`). The completion
adds a second amount if it finds the thumb on the other side, as it would before the
event of its own tap; by `Becomes` it never does.

### PostSyncProofs

| Theorem | States |
|---|---|
| `Agree` | `Spec => []IInv` |
| `TypeCorrect` | `Spec => []TypeOK` |
| `FailureHolds` | `Spec => []FailureIsTrue` |
| `QueueHolds` | `Spec => []QueueIsSent` |

None of the three is inductive. That a failure is true depends on what the server may
still do, that is, on every put which holds the transaction, wherever it is; that the
queue is sent depends on every handler, whichever way an attempt ends. `IInv` is `Shape`,
the types, and two parts about each phone. `Sound` holds inside a handler, too:

- `Placed`: an outstanding transaction is in exactly one put, which is in exactly one
  place: on its way to the server (those the handler is adding included), its answer on
  its way back, kept back for a listen, or in the batch that is being handled; in the
  first two it is among `unanswered`, in the others not. Any other transaction is in no
  put at all. `Noted`: what is kept in `unanswered` is the put as it was sent.
- `Carries`: messages are about transactions of their phone; what is outstanding in the
  queue is all in one put; a put that is not answered, or was answered as stale, has not
  been applied.
- `Queued`: the queue begins with what is outstanding, and holds all that runs or is
  sent. Marked transactions may be missing, since a second set drops them. `Fresh`: what
  waits behind an outstanding put has not been sent yet, so that it cannot be tired when
  the put ends.
- `Listed`: the pending writes are the transactions under way, and comments.
- `Upright`: what each status says (`Honest`). A transaction that runs is not applied; one
  that is to be aborted because of a set is not applied, while after a lost connection it
  may be.

`Sent` holds between handlers only: nothing in the queue waits to be aborted, and its
first is not waiting to be sent. The handlers are compositions in the code, and are proved
as such: what `Forget`, `Abort` (`AbortSound`), `Rerun` (`RerunSound`), `SendReady`
(`SendSound`) and the status after a put's answer (`SettleSound`) each keep of `Sound`,
and that a `Rerun` followed by a `SendReady` gives `Sent`. `Disconnect` empties the
connection and cancels what was outstanding; the server's steps move messages. A step of
one phone changes nothing another phone's part speaks of (`Apart`): the transactions are
numbered over all phones, but each phone looks only at its own. The lemmas about filtered
sequences (`Ranks`, a count of places, and what `Only` keeps) come first.

### PostCountProofs

| Theorem | States |
|---|---|
| `Paces` | `Spec => []CInv`, the inductive invariant |
| `CountHolds` | `Spec => []CountIsWhole` |
| `CommentsHold` | `Spec => CommentsStay` |

`IInv` says where puts are and what statuses mean, and nothing of what is in a put. A put
is accepted if its hash is the post; then its data should be the post with as many
upvotes as the put has transactions. That is so of every put when it is made (`Computed`)
and stays so; what has to be proved is that it is made so, although the last transaction
of the queue was computed some time before. `CInv` is `IInv` and, unless `crowded`,
`Counted`: the counter is right, and each phone is `Paced` and `Wired`.

- `Steady`: the queue has no transaction twice; an output holds every comment that was
  written before it (`Known`); the writes after the result of an outstanding put are
  comments and what waits (`OnTop`); a comment that is ahead of a put is in its result
  (`Ahead`). `Straight`: a listen that opens the post is ahead of every put, and the feed
  is read once at a time.
- `Heard`: when the ok of a put is received, the client has just been told its result
  (`Hears`: the last message before it that speaks of the post says so, or none does and
  the cache is it). This is what the server's order, first the update to all who watch
  and then the answer, is for.
- `Patient`: while something of the queue is outstanding and something waits, the
  phone `Rests`: it is not busy elsewhere, and the last output of the queue is the result
  of what is outstanding, with the comments written since and one upvote for each that
  waits. So what is sent when the ok comes was computed from what it replaces.
- `Wired`: a put that the server will process finds its phone watched, the listens on
  their way included, so that the update is sent; an offline phone has nothing on its
  way and no listen left.

The messages of a phone are on one `Path`, from the answers being handled to the requests
it will send. Most steps move a message along it, drop one, or put one in another's place
that carries the same (`Follows`, `Like`), and that keeps `Steady`, whatever the message
is (`CalmSteady`, `QuietPaced`); so each action has to show only what it does to the path.
`SendSteady` and `RerunSteady` are about the two that compute. Only `Start`, `ReadFeed` and
`ListenElsewhere` can make a phone that waits busy, and these set `crowded`. A broken
connection is the exception, since answers made up for puts overtake what was kept back
(`CutPaced`): none of them mentions a comment.

`CountHolds` follows; for `CommentsHold` the one step that could take a comment away is
`AcceptPut`, whose data is its hash and some upvotes.

### PostReadProofs

| Theorem | States |
|---|---|
| `Knows` | `Spec => []RInv`, the inductive invariant |
| `ReadHolds` | `Spec => []ReadIsWhole` |

A read shows the data that came with it under the phone's own writes, so that it has the
post's fields if the results of the attempts have them. They have not while the block was
run on nothing, and that this ends with the first refusal cannot be told from the cache at
the time of the read alone: an attempt may be computed on the result of another, which was
computed on nothing, too. `RInv` does without `crowded`, and is about fields only. It is
`IInv`, `post.whole`, and three parts about each phone:

- `Seen`, what a handler leaves: without having seen the post nobody has a whole result
  (`Blind`); what is outstanding is marked together (`Together`); a marked transaction has
  been set over once, one that left the queue twice (`Overridden`); whoever was refused
  has seen the post (`Tried`). So a second attempt is made on a whole post, and
  its result is whole, unless the queue is run on the result of a transaction that was
  dropped (`Mature`); and behind a whole result all results are, as long as what the queue
  is run on is (`Even`), which is why a transaction that joins the queue late, behind
  others that have been refused before, does not spoil what is sent again with it.
- `Truths`, what its messages say: a put that asks for a whole post leaves one, and one
  that was accepted did. That is what keeps `post.whole` at the server.
- `Awaits`, what is on its way to it: until a phone with a transaction under way has seen
  the post, something that tells of it (`Informs`: an update, a listen on the post or its
  answer) is ahead of all puts and answers (`Led`). So an answer that is handled, or kept
  back, finds the post seen, or the connection lost (`Late`); a refusal by the server
  is one, and the queue is run again on what was seen. A read that waits for the feed has
  its listen or its answer on the way; `Connect` renews both (`Renewed`).

`LatestWhole` says what a phone reads: its cache if nothing is written over it, else the
result of the last transaction. `WholeFrom` compares that before and after a handler; the
lemmas that end in `Seen` do so for `SendReady`, `Rerun`, `Abort`, `Forget` and the
answers, those in `Awaits` follow the road, and each action has one that ends in `Reads`.
For `ReadHolds` there is nothing left to compute: transactions that were not set over twice
are in the queue, so that none was dropped, and those refused twice have whole results.

### CommentsProofs

| Theorem | States |
|---|---|
| `Invariance` | `Spec => []IInv` |
| `TypesHold` | `Spec => []TypeOK` |
| `ListedExistsHolds` | `Spec => []ListedExists` |
| `ListIsCompleteHolds` | `Spec => []ListIsComplete` |
| `ReplyIsListedHolds` | `Spec => []ReplyIsListed` |

None of the four is inductive: what is listed comes out of a block, which came out of
an answer, which the server gave long before. `IInv` follows it all the way:

- `Shape`: the types of queues, messages and blocks.
- `Known`: what the stage of a comment says of the database; each put, reply and
  completion on its way is of a comment in the right stage, and there is one of each.
- `Listable`: every list on its way (in an answer, a block, the transaction's output)
  consists of comments that exist. This is `ListedExists`, one step ahead.
- `Flight`: a read has exactly one listen or answer on its way, none while a
  transaction hides the post, and all of them are ahead of the transaction's attempt.
  Without this, an old answer could complete a read that began after it was given.
- `Covered`: an answer of the server holds all that was stored when its listen was
  sent (`ListIsComplete`, all the way).
- `Included`: an answer that the client receives after the reply to a comment, or that
  the main thread runs after its completion, holds that comment; and after the
  completion a read of the same page is coming until the list shows it
  (`ReplyIsListed`).

### AccountsProofs

| Theorem | States |
|---|---|
| `Invariance` | `Spec => []IInv` |
| `TypesHold` | `Spec => []TypeOK` |
| `FeedIsOfCurrentUserHolds` | `Spec => []FeedIsOfCurrentUser` |
| `PageIsOfAdministratorHolds` | `Spec => []PageIsOfAdministrator` |
| `EveryAccountIsRecordedHolds` | `Spec => []EveryAccountIsRecorded` |

`IInv` has two parts about all phones and four about each. `Queued`: the main thread
has each answered call of its phone once. `Granted` and `Recorded`: a granted call's
account exists; an account is recorded, or somebody is about to, or a fault met it (the
calls of an app that died are `orphan`, and their accounts hurt). Of a phone: `StackOf`,
the stack has increasing screens, with a sign-in screen under each sheet; `CallsOf`, a
call's screen is of its kind; `CoverOf`, the one that is hard to see: with nobody signed
in, a sign-in screen lies over the feed which is younger than the screen of every call
that may still present something, so that whatever those calls present, they present it
from a covered screen, that is, not at all; `PatientOf`, a user who waits has one open
call, asked from the screen on top, and nothing else can change the current user or
what is seen before it is answered.

### FeedProofs

| Theorem | States |
|---|---|
| `Invariance` | `Spec => []IInv` |
| `TypesHold` | `Spec => []TypeOK` |
| `ShownExistsHolds` | `Spec => []ShownExists` |
| `PostedIsShownHolds` | `Spec => []PostedIsShown` |

`IInv` is `Types` (the type invariant with the elements of both queues), `Known` (the
stage of a post says whether the server holds or denied it) and four parts about each
phone. `PostedIsShown` is not inductive: it speaks only of a phone with nothing under
way. So each place where a list can be on its way gets its own clause. `RightDown`, the
messages: a post has one reply; an answer to a read holds existing posts only, and all
of this phone's whose reply is before it or was received. `RightMain`, the same for
blocks of the main thread and completions that ran. `RightTable` is `ShownExists`.
`Shows`: once the completion of a post ran, the feed displays it, or a read or its block
is still coming, or a read failed. The proof uses of `Near` only that it is an operator.

### PushKeysProofs

| Theorem | States |
|---|---|
| `Invariance` | `Spec => []IInv` |
| `TypesHold` | `Spec => []TypeOK` |
| `OwnEntriesInOrderHolds` | `Spec => []OwnEntriesInOrder` |
| `SyncedEntriesInOrderHolds` | `Spec => []SyncedEntriesInOrder` |
| `OverwrittenByChanceHolds` | `Spec => []OverwrittenByChance` |

From `DrawsAssumption` (draws are twelve characters) and `TimeAssumption` (times have no
more than eight digits, which they have until the year 10889, and a clock is never so
wrong that a time is 0, which is what `lastPushTime` begins with). Lemmas about
operators come first: `TimeOrder`, a later time has the greater digits
(eight quotients, one after the other); `LessTransitive`, `LessIrreflexive`;
`LaterIsGreater` and `CountedIsGreater`, the two reasons why a key is greater than
another. `IInv` bounds what a phone reckons (`Reckoned`: a hello is at most `MaxLag` old,
so that a synced clock is at most that late and never early), says what is in an entry
(`Written`), that an entry of the phone's present run is no greater than its last key
(`Latest`), and that entries of one run increase (`Increasing`). `PushKeeps` does the
work for all three ways of making a key: each has only to show that its key is greater
than those of its run, if it has any.

Only model-checked: progress under fairness (`OnlyForgottenTapsWait`, `UndisturbedIsTold`,
`SpinnerStops`, `EverythingIsAnswered`, `SignedInSeesFeed`), which is beyond the prover.
Every invariant and every other action property that a run checks is a theorem.

## 5. Not modelled

The profile (one read, most labels constant), what the administrator's web view loads,
formatting of posts and times, layout, tests (empty templates). Of the database client everything the
app's paths do not use: queries, priorities, on-disconnect operations, and persistence:
LevelDB is opened only if `persistenceEnabled` is set, which the app never does, so that
nothing of the database client survives the app. The vendored C and C++ (LevelDB,
nanopb for telemetry) is therefore no part of what the app does; the code that the
modules translate is Swift and Objective-C. Rules of the database are not in the
repository: refusing a write or a read is a choice of the server, bounded as a fault.

## 6. Plan

1. `PostSync`: a refinement of an abstract specification of one attempt, which adds one.
2. `Profile` with its count of posts.
