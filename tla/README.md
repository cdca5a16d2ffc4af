# Specifications of the QueueFlow backend

TLA+ models of the queue of QueueFlow (Go, Fiber, PostgreSQL), their TLC runs,
and theorems proved with TLAPS. Paths are relative to the repository.

## 1. The system

| Part | Source | State | Operations |
|---|---|---|---|
| Queue repository | `repositories/queue_repository.go`, `init.sql` | table `queue_entries` (user, position, status), `queue_settings.is_paused`; per transaction a snapshot, row locks, uncommitted rows | `JoinQueue`, `LeaveQueue`, `ConfirmTurn`, `CallNextUser`, `RemoveUserFromQueue`, `TimeoutUser`, `UpdateQueuePauseStatus`; five methods that only read |
| Queue service, turns | `services/queue_service.go` | `timeoutCancels` (user -> cancel function), one goroutine per turn | the same requests, `startTimeoutTimer`, `handleTimeout`, `cancelTimeout`, `RecoverTimeouts` |
| Queue service, broadcasts | same file, 270-319 | none (goroutines that read and send) | position updates, admin state |
| WebSocket manager | `websocket/manager.go` | `clients` (user -> client), a channel of 256 per client | register, unregister, send, broadcast |
| Push notifications | `services/fcm_service.go` | none | Firebase calls |
| Accounts | `services/auth_service.go`, `repositories/user_repository.go` | table `users` | register, log in, set the FCM token |
| HTTP layer | `controllers/`, `middleware/`, `main.go` | none | one handler per route |
| Startup | `main.go`, `config/` | none (it writes `users`) | migrations, default users, recovery, listen |

How they interact: a handler calls the service, the service calls the repository
(one transaction per call), then sends messages and starts goroutines. Three
kinds of actor write the queue at the same time: request handlers, the
goroutines of the turns, and the goroutines `go s.CallNextUser()` that a
confirmation starts. They meet in the database and in `timeoutCancels`. All of
them send through the WebSocket manager, whose event loop alone opens and closes
connections.

What is hard:

* Transactions run at READ COMMITTED. `SELECT ... FOR UPDATE`, `UPDATE` and
  `DELETE` lock rows as they reach them, wait, and test their condition again;
  a plain `SELECT` does neither. What keeps the queue right is the order of the
  statements and nothing else.
* Each departure rewrites the rows behind it, so departures overlap on rows and
  can deadlock; PostgreSQL then fails one of them.
* The map `timeoutCancels` is keyed by user and the timers by entry; a user can
  leave and come back while an old goroutine is still about.
* A request cancels the timer before it knows whether it will succeed.
* `SendToUser` sends after it has released the lock, while the event loop may
  close the channel. A user may reconnect while older connections still close.
* The process may stop anywhere; timers live in memory, turns in the database.
* Each update starts two goroutines that read and send, in no order with those
  of other updates; the administrators' state takes two queries.
* Whether a called user is connected is asked after the message was sent, and
  not whether the message was taken.
* A result that breaks off passes for the whole in two of the three methods that
  read lists: nothing asks for `rows.Err()`.
* Registration tests and inserts in separate statements. Startup creates two
  users in two statements, and goes on if one fails.

What makes the parts correct:

* Repository: positions 1..n, one entry per user, first come first called, a
  turn given to one call only, an entry ended once, methods that return.
* Turns: nobody loses a turn early, every turn has something that will end it,
  every turn ends, a time-out is announced only if there was one.
* WebSocket manager: never a send on a closed channel, never a channel closed
  twice, a reconnection is not undone by the old connection's unregister, an
  ended connection leaves nothing behind.
* Broadcasts: every change reaches everybody it concerns; what is shown in the
  end is the state there is.
* Push notifications: a user is told of the turn by a message or a push, and a
  goroutine that sends a push does not end the server.
* Accounts: names and addresses are unique, nobody takes an account over, there
  is an administrator whenever the server listens.

`PROJECT.json` lists the hazards one by one, each with its line and properties.

## 2. Modules

| Module | What it is |
|---|---|
| `QueueTable` | the rows and the SQL conditions on them; no state |
| `QueueRepository` | the transactions, one action per statement or per row a statement locks |
| `EntryLifecycle` | abstract: what may happen to the status of one row; `QueueRepository` and `TurnTimers` both implement it |
| `AtomicQueue` | abstract: every repository method as one step on the table |
| `TurnTimers` | turns, timers, cancellation, restarts |
| `WebSocketManager` | the map of clients, the event loop, the goroutines of each connection, the senders |
| `Broadcasts` | the goroutines of `broadcastQueueUpdate` and what clients are shown |
| `Accounts` | the table `users`: default users, registration, FCM tokens |
| `PushNotifications` | how a user is told of the turn; extends `Accounts` |
| `MCQueueRepository`, `MCTurnTimers`, `MCWebSocketManager`, `MCPushNotifications` | the symmetry sets for TLC |
| `QueueRepositoryProofs`, `QueueOrderProofs`, `AtomicQueueProofs`, `SerialJoinsProofs`, `TurnTimersProofs`, `BroadcastsProofs`, `PushNotificationsProofs`, `WebSocketManagerProofs` | theorems |

Definitions commented "Mistake" are wrong versions of the definition that
follows them. No specification uses them; `PROJECT.json` says which property
each one breaks when it takes the place of the right one.

### QueueRepository

`table` holds the committed rows, `draft` one uncommitted version of each locked
row, `lock` the connection that holds it. `pc`, `job`, `row` and `position` are
the local variables of a method, `todo` and `key` the rows its statement has
still to visit, with their `ORDER BY` values. An id that was never inserted is
`"unused"` and a row that `DELETE` took is `"deleted"`.

| Code | Actions |
|---|---|
| `JoinQueue` | `BeginJoin` (EXISTS), `ReadMaxPosition`, `InsertEntry`, `Commit` |
| `LeaveQueue`, `ConfirmTurn`, `RemoveUserFromQueue`, `TimeoutUser` | `BeginDeparture` (the snapshot of the SELECT), `SelectRow`*, `OpenMark`, `MarkRow`* (DELETE or UPDATE of the status), `OpenShift`, `ShiftRow`* (`position - 1`), `Commit` |
| `CallNextUser` | `BeginCall` (pause test), `OpenSelect` (ORDER BY position), `SelectRow`* until a row is returned, `OpenMark`, `MarkRow`, `Commit` |
| early returns | `Refuse`; an error anywhere, the `timeout_at` test and the victim of a deadlock: `Fail` |
| `UpdateQueuePauseStatus` | `SetPaused` |

The behaviour of PostgreSQL (snapshots, row locks, re-test after a wait, locks
kept to the end) is external to the repository and taken from how it is used.
The order in which a statement without `ORDER BY` visits its rows is left open.
The clock is left out: `ConfirmTurn` may find its turn too old at any time.

Two histories serve the properties: `ahead[e]` are the entries still in the
queue that `e` found on joining, `seen[c]` the same for a join in progress.

### TurnTimers

The methods of the repository are single steps, justified by
`TransactionsAreAtomic` (section 4), except two. `JoinQueue` tests and inserts (`BeginJoin`,
`InsertEntry`), so that overlapping joins give a user two entries, two turns and
two goroutines that share one place in `timeoutCancels`. `ConfirmTurn` is
`HoldTurn` and `ConfirmTurn`, because what the clock does between its test of
`timeout_at` and its commit matters. Which waiting entry is called is left
open: `FirstComeFirstCalled` belongs to `QueueRepository`.

`timer[e]` is how far the goroutine of the turn of `e` is, `cancels[u]` the
entry whose goroutine the function in `timeoutCancels[u]` stops, `stopped` the
cancelled contexts nobody has looked at yet, `direct` the goroutines in which
`handleTimeout` does not come back to the select, `late` the entries whose
`timeout_at` has passed, `calls` the pending `go s.CallNextUser()`.

| Code | Actions |
|---|---|
| `JoinQueue` | `BeginJoin`, `InsertEntry` |
| `LeaveQueue`, `RemoveUser` | `BeginDeparture` (with `cancelTimeout`), `Depart` |
| `ConfirmTurn` | `BeginDeparture`, `HoldTurn`, `ConfirmTurn`, or `RefuseConfirm` |
| a database error in any of them | `FailRequest` |
| `CallNextUser` | `AdminCallsNext`, `GoCallNext`, `CallAfterTimeout` |
| a panic of `SendToUser` | `AdminCallPanics`, an outcome of `ConfirmTurn`, `Restart` |
| `startTimeoutTimer` | `StartTimer` (with `RegisterTimer`), `TimerStops`, `TimerFires`, `Cleanup` |
| `handleTimeout` | `CheckStatus`, `TimeoutUser`, `CallAfterTimeout` |
| `RecoverTimeouts`, `main` | `Restart` |

Why `SendToUser` may panic is the subject of `WebSocketManager`; what the panic
does to a turn is here. A handler survives it (`recover.New()`), any other
goroutine takes the process with it.

`Restart` recovers all turns, or, if the database fails, any part of them:
`GetActiveCalledUsers` does not notice a result that breaks off.

`orphaned` is a history: the entries whose turn lost its timer to an operation
that failed, was refused or was meant for the user's other entry. It keeps the
known gaps of section 5 apart, so that `EveryTurnIsTimed` and `EveryTurnEnds`
say that there are no others. `NextIsCalled` names its exceptions in the same
way.

### Broadcasts

A change is what one service method commits; changes are numbered in the order
of their commits. `method[n]` is the method that made change `n`, `sender[n]` and
`reporter[n]` its two goroutines. Of a message only the number of the last
change that its queries saw matters: `shown[c]` is the last message a client
received on its present connection, `newest[c]` the newest list and settings.

| Code | Actions |
|---|---|
| service methods | `Join`, `Depart`, `ChangeStatusOrSettings`, then `BroadcastQueueUpdate`, or `MethodPanics` |
| `BroadcastPositionUpdates` | `ReadPositions` or `PositionsBreakOff`, `SendPosition`*, `EndPositions`; or `FailPositions` |
| `BroadcastQueueStateToAdmins` | `ReadQueue` or `QueueBreaksOff`, `ReadSettings`, `SendState`; or `FailState` |
| WebSocket manager, `main` | `Connect`, `Disconnect`, `Restart` |

The order in which the rows of `GetQueueList` are sent is left open, a full
channel may drop any message, and a client may come and go between any two
steps. `GetQueueList` does not ask for `rows.Err()`: when the connection is lost
in the middle of the result, the rows read so far are sent as the queue, with no
error. Such a list is `NoList`; its users are any part of the queue but all.

Three histories serve the properties: `since` (since when a client has been
there), `missed` (who lost a message, or the whole list, to a fault) and
`overlap` (the clients to whom something already read was still to be sent when
the last change was committed). A read that comes after that commit is not in
`overlap`, of whichever change, nor is a commit between the two queries of the
administrators' state: `SettledIsCurrent` has to hold there.

### Accounts and PushNotifications

`users` is the table, `server` the statement of `CreateDefaultUsers` that is
next, `request` the registrations in progress. Each statement is a transaction
and an action: `CountUsers`, `CreateAdmin`, `CreateTestUser`; `CheckName`,
`CheckEmail`, `Create`; `UpdateFCMToken`. The two UNIQUE columns are `NameTaken`
and `EmailTaken`; `Taken` is why the INSERT fails.
`main.go` goes on when creating the users fails (`SeedingFails`) and the process
may stop anywhere (`AccountsRestart`). Tokens are empty, shorter than the 20
bytes that the log shows, or longer; the slice of a short one panics before
anything is written.

`PushNotifications` adds what `CallNextUser` does once a user is called:

| Code | Actions |
|---|---|
| `SendToUser` with `queue:your_turn` | `SendYourTurn` (sent, dropped by a full channel, or nobody there), or `SendPanics` |
| `fcmService != nil && !IsUserConnected` | `AskConnected` |
| `GetFCMToken`, `go func` | `StartPush` or `GetTokenFails` |
| `SendYourTurnNotification` | `SendPush` |
| the push to administrators of `JoinQueue` | `PushToAdmins` |

The user connects and disconnects in between. `news` is a history: the user was
"told", or one of the six `Reasons` why not. "Told" means that the channel took
the message or that a goroutine was started with the token; what the network or
Firebase then do with it is outside. `AskConnected` withdraws the reason of the
message when it finds the user offline, so that from there on only the push
counts. A reason is recorded by the step at which it occurs and nowhere else: an
announcement that ends without either breaks `TurnIsAnnounced`. A restart
forgets the announcements under way, as the process does.

### WebSocketManager

A client is one connection; `handler[c]` and `writer[c]` are its two goroutines,
`open[c]` and `buffered[c]` its channel `Send`. `loop` is what `Run` has received
and not yet handled: between the two, everybody else runs. `sender[s]` is the
client a `SendToUser` has found.

| Code | Actions |
|---|---|
| `UpgradeConnection`, `HandleClient` | `Connect`, `SendRegister`, `StartPumps` |
| `readPump` | `ReadFails`, `SendUnregister` |
| `writePump` | `Write`, `EndWriter` |
| `Run` | `Register`, `Unregister` |
| `SendToUser` | `LookUp`, then `Push`, or `Panic` if the channel is closed |
| `BroadcastToRole` | `BroadcastToAdmins` |
| the library and the peer | `Disconnect` |

`Panic` has both outcomes of the code: recovered by the middleware of `main.go`
in a request, or the end of the process in any other goroutine, which empties
the map and ends every connection. A section between Lock and Unlock is one
step, since nothing in it blocks. The contents of messages are left out.

## 3. Runs

| Run | Question | Result |
|---|---|---|
| `repo_safety` | what do row locks guarantee, whatever overlaps? | `TypeOK`; positions stay above 0; a call takes its own entry; an entry departs once; refinement of `EntryLifecycle` |
| `repo_serial_joins` | is the queue right when no join overlaps? | positions 1..n, one entry per user, nobody overtaken, first come first called; refinement of `AtomicQueue` |
| `repo_liveness` | does every method return? | yes, with deadlocks resolved |
| `repo_unique_positions` | are positions unique, and users in the queue once, without that assumption? | violated |
| `timers_safety` | can a turn end early, be left alone, or be the last while others wait? | no, with the exceptions named |
| `timers_liveness` | does every turn end, and once? | yes, unless a failed operation orphaned it; refinement of `EntryLifecycle` |
| `timers_stranded` | does every turn end without exception? | violated |
| `timers_spurious` | is a time-out announced only if it happened? | violated |
| `broadcasts` | does every change reach everybody, and is what is shown current? | yes; and yes, unless something older was under way to the client or the last list broke off |
| `accounts` | do accounts stay apart, is there an administrator, is a turn announced? | yes, yes, and yes or for a named reason not |
| `sockets` | does the map of clients stay right when users reconnect? | open channels only, no channel closed twice, the live connection is in it, ended ones leave, no goroutine stays behind |
| `sockets_closed` | is a message ever sent on a closed channel? | yes: violated |

### Bounds

* Connections: 2. Every conflict in the properties is between two transactions;
  the theorems of section 4 hold for any number.
* `repo_safety`: 2 users, 2 ids. Two rows are enough for two joins to collide,
  for one user to hold both rows, for two departures to compete for one, and
  for a departure to rewrite a row another one holds.
* `repo_serial_joins`: 3 users, 3 ids, so that a departure can move several
  rows and two departures can overlap on a third row. `NoOvertaking` needs a
  third entry to be broken, and is checked here for that reason; the theorem
  `NobodyOvertakes` does without the assumption on joins.
* `repo_unique_positions`: 1 user, 2 ids: the two rows with one position are two
  entries of one user, both disagreements at once.
* `repo_liveness`: 1 user, 2 ids. Overlapping joins give the user two rows,
  which two `SELECT ... FOR UPDATE` lock in opposite orders: a real deadlock
  (without the fairness of the detector TLC reports a violation).
* `timers_safety`: 2 users, 2 handlers, 2 ids, one restart, all failures. The
  same user can come back for a second turn, or have two at once, which is when
  an old timer does harm; two handlers let two requests race for one turn, or
  two joins overlap. `TurnTimersProofs` has its properties for any number.
* `timers_liveness`: 1 user, 1 handler, 2 ids, one restart, all failures. A
  confirmation can come between the status test of a timer and its
  `TimeoutUser`; `TurnsLiveOnce` has the refinement for any number.
* `broadcasts`: 1 user, 1 administrator, 2 changes, all failures. Users do not
  share anything, nor do administrators. Two changes have four goroutines, which
  interleave in every order. With one user the only list that breaks off sends
  users nothing; the safety properties were also checked once with two users
  (and no administrator), and once with three changes (and one administrator).
  `BroadcastsProofs` has them for any number of clients and changes.
* `accounts`: 3 names (the two default ones and one to register), 2 addresses,
  2 handlers, so that two registrations overlap on the name, the address, or
  both. Restarts and failures are not bounded. `Phones` is the set of users who
  connect, have tokens and are called: one, for the announcements of two users
  share nothing but the table.
* `sockets`: 1 user, 3 connections, 1 sender, buffers of 1. Users do not share
  anything but `Run`, which handles one request at a time; three connections
  let one register while an older one unregisters and another one waits. A
  buffer of 1 is empty, or full. `sockets_closed`: 2 connections are enough.
* `PauseValues` is `{}` where pausing would only multiply states: it can only
  forbid calls. `repo_safety` and `timers_liveness` have both values.
* `MaxEntries` bounds the SERIAL ids. A join that finds none left is refused.

Deadlock checking is on in every run. Symmetry is used in safety runs only.

### Fairness

* `QueueRepository`: `SF(Step(c))`. PostgreSQL executes what it is given and
  queues lock waiters, so a statement whose row becomes free again and again
  gets it in the end: strong fairness, weak would let it be passed over for
  ever. `WF(Deadlocked(c) /\ Fail(c))` is the deadlock detector. No request has
  to come and nothing else has to fail.
* `TurnTimers`: weak fairness of every handler, every timer goroutine, the
  clock and the automatic calls: Go runs every goroutine that can run. No
  request, administrator, fault or restart has to come.
* `Broadcasts`: weak fairness of every step of a change's method and goroutines:
  Go runs them and the database answers, be it with an error. Nobody has to
  connect or to change anything.
* `Accounts`, `PushNotifications`: none; they have safety properties only.
* `WebSocketManager`: weak fairness of both goroutines of each connection and of
  `Run`. Each connection sends to `Run` at most twice, and Go serves the senders
  on a channel in order, so weak fairness is enough. Nobody has to connect,
  disconnect or send.

## 4. Proofs

All are for any values of the constants, under the assumption that each module
states about its own (`NoUser` and the like are not members of the sets, bounds
are numbers, users and administrators are different clients).

`QueueRepositoryProofs` needs no assumption on joins. The properties are not
inductive: that two transactions never conclude one entry rests on the lock. The
inductive invariant `IInv` adds to `TypeOK`:

* `UnlockedIsCommitted`: the draft of an unlocked row is the committed row;
* `FreshIds`: ids from `nextId` on are unused and unlocked;
* `PositiveRows`: stored rows, committed or not, have positions from 1 on;
* for each connection, `TransactionInv`: it holds nothing before its first
  locking statement; a row it has locked differs from the committed row at most
  by its own statement (`OwnChange`); and the row its SELECT returned is locked,
  and in the committed table still as the SELECT wanted it (`HoldsItsRow`).

Each action is shown to keep the part of its own connection; `OthersKeepInv`
shows once that it leaves the parts of the others alone. From `IInv` follow

* `TypeCorrect`, `PositionsStayPositive`,
* `EachTurnGivenOnce`, `EachEntryDepartsOnce` (action properties, by what
  `IInv` says of a transaction about to commit),
* `EntriesLiveOnce`: `QueueRepository` implements `EntryLifecycle`. A commit
  maps to one step of it, every other step to a stutter.

`QueueOrderProofs` proves `NobodyOvertakes`, for `Spec`: overlapping joins give
out a position twice, but let nobody pass. An UPDATE that closes the gap at `p`
moves the rows of its snapshot that are behind `p`, so a row could pass one that
is behind `p` and not moved. `OrderInv` says why there is none: beside the order
of the committed rows,

* `DraftMoves`: a locked row has been moved up at most once, by this UPDATE;
* `SkipsOnlyInFront`: if a row may move, every row it saw on joining may move
  too or is no further than `p`. Rows inserted after the snapshot are not moved,
  but neither is anything that saw them;
* `JoinsBehind`: what a join has seen is not behind the position it will insert;
* `SeenRows`: what was seen had been committed.

Each action keeps the part of its own connection, and `StepsAlone` with
`OthersKeepOrder` keeps those of the others.

`AtomicQueueProofs` proves `PositionsContiguous`: when each method is one step,
active positions are 1..n and users unique. The two are proved together, since
`LeaveQueue` deletes all active rows of a user and closes one gap.

`SerialJoinsProofs` carries this to the interleaved statements, for
`SerialJoinsSpec`. What a departure or a call will make of the table is written
as a function of the rows committed so far: `AfterMark` and `AfterShift`.
`SerialInv` adds to `OrderInv`

* `DraftsAreDone`, `RestIsDone`: a locked row shows what the statements that
  visited it do to the committed row, and to any other row they have passed
  there is nothing to do. The commit of another transaction keeps this: it
  changes no row this one has locked, and takes other rows out of the queue or
  towards its front only (`Settles`);
* `PositionIsOfRow`: the position that the SELECT returned is still the one of
  its row (the hazard of `queue_repository.go:91`, which `FOR UPDATE` averts);
* `JoinIsLast`: the position of a join is still the next one, for everybody
  else is idle;
* `CallIsFirst`: the sorted snapshot of `CallNextUser` may be old, but its order
  is that of the rows as they are, since no commit lets one row pass another
  (`Settles` again).

A commit is then one step of `AtomicQueue` (`TransactionsAreAtomic`). The lemmas
of `AtomicQueueProofs` about that step, taken through `INSTANCE ... WITH queue <-
table`, give `PositionsStayContiguous` and `UsersStayUnique`;
`FirstComersAreCalledFirst` follows from `CallIsFirst` and `NoOvertaking`. The
assumption on joins is needed: `repo_unique_positions` shows what happens
without. TLC has checked `OrderInv` (2 users, 2 connections, 3 ids) and
`SerialInv` (3 users, 2 connections, 3 ids) as invariants before the proofs.

`TurnTimersProofs` proves all four properties of `timers_safety`, for any number
of users, handlers and entries: `TimersTypeCorrect`, `EveryTurnStaysTimed`,
`NobodyTimesOutEarly`, `TurnFollowsTurn`; and `TurnsLiveOnce`, that `TurnTimers`
implements `EntryLifecycle`. Its `IInv` adds to the types:

* `RowInv`: an entry has an owner from its insertion on;
* `RequestInv`: the row a confirmation holds is a turn of its user and of no
  other handler, so that nobody else ends it;
* `CancelInv`: the function in the map is that of an entry of the user. This is
  what makes the departure that stops a goroutine answer for its turn;
* `TimerInv`: only waiting goroutines are cancelled, those past the select have
  the deadline behind them, and one that has handled its time-out leaves no
  turn, except after a failure;
* `CallsInv`: pending calls are at most as many as the entries that have ended.

`EntryMoves` says once what one step may do to an entry; each part of `IInv` has
a lemma with one step per action.

`BroadcastsProofs` proves all its safety properties. First `EveryChangeReaches`:
`EveryChangeSeen` speaks of ended goroutines only; `ClientInv` says for all times
that a client has seen a change or is owed it by the method that made it or by
its goroutine (`Owed`), whose reading is not older than the change. Commits
leave the debts of older changes alone, deliveries only make what a client has
seen newer (`DeliverGrows`), and joining or reconnecting counts from now on.
`LastShownIsCurrent` (`SettledIsCurrent`) follows from `EveryChangeReaches` and a
second invariant, `CurrentInv`: nothing read or seen is newer than the last
change; to a client outside `overlap`, whatever is still to be sent was read
after the last change or is a list that broke off (`LastInv`); so a client that
has seen the last change is shown it, or such a list (`ShownInv`).

`PushNotificationsProofs` proves all six properties of `accounts`. That accounts
differ needs `Taken` at the INSERT only. `AdminIsThere` needs that an empty table
is followed by the administrator's INSERT before anything else
(`AInv`), and `PushesNeverPanic` that no short token is in the table.
`EveryTurnAnnounced` needs `TurnInv`: between the message and `IsUserConnected`
a user who is connected has been told or has a reason why not.

`WebSocketManagerProofs`, under `WebSocketManagerAssumption`, proves
`SocketsTypeCorrect`, `MapStaysOpen` and `LiveStaysReachable` for any users,
connections and buffer size. Its `IInv` adds that a connection that `Run` has
not registered is open and not in the map (`Unregistered`), that what `Run`
holds is a connection that has sent it (`LoopInv`), and the form of
`LiveIsReachable` that holds from the registration on (`LiveInv`). Without the
first, `Register` could put a closed channel in the map.

Every safety invariant, action property and refinement that a passing run checks
is so proved. Only model-checked are the liveness properties
(`EveryMethodReturns`, `EveryTurnEnds`, `EveryChangeArrives`, `EndedIsForgotten`,
`WritersEnd`): they rest on fairness, and so on ENABLED, which is out of the
prover's reach. No module has RECURSIVE operators.

## 5. Where the code and its documents disagree

1. `JoinQueue` is commented "race-condition safe" and its position "(atomic)";
   overlapping joins give out one position twice (`repo_unique_positions`).
2. The same for "user already in queue": two overlapping requests of one user
   both get in (`repo_unique_positions`, whose two entries are of one user).
3. `README.md` promises that a user who does not confirm is removed. A Confirm
   that arrives as the time runs out stops the timer and is then refused: the
   turn never ends by itself (`timers_stranded`).
4. `TimeoutUser` returns nil for an entry that ended otherwise, and
   `handleTimeout` takes that for a time-out: it announces one and calls one
   more user (`timers_spurious`).
5. `SendToUser` says that a user who is gone is "not an error"; if the user
   reconnects or goes between its look-up and its send, `Run` closes the channel
   it has found and the send panics (`sockets_closed`, by a reconnection).

Seen while reading, of no consequence for the models: `README.md` names the
routes `/admin/call-next` and `/admin/remove/:id` and the status `timed_out`;
`main.go` has `/admin/next` and `/admin/remove-user/:user_id`, and `init.sql`
`'timeout'`. `GetQueueList` says that it "retrieves all active queue entries"
(`queue_repository.go:171`), which it does not if the result breaks off. The comment `queue_service.go:58` says that a push about a new user goes "ONLY to admins
whose app is closed"; it goes to every administrator with a token, as line 76
admits. Nothing is sent to a client because it connects.

What the exceptions in the properties stand for, all real behaviour of the code:

* What was read for a client before the last change can be sent after it and
  stay on the screen (`overlap` in `SettledIsCurrent`).
* `GetQueueList` and `GetActiveCalledUsers` do not check `rows.Err()`
  (`queue_repository.go:187-213`, `417-440`); `GetAdminFCMTokens` does. A part of
  the queue is then shown as all of it (`missed`, and `NoList` in
  `SettledIsCurrent`), and some turns are not recovered (`orphaned`).
* If creating the administrator fails at the first start and somebody
  registers, no later start creates one (`unseeded` in `AdminExists`).
* A client that connects between the message and `IsUserConnected` is told
  nothing ("opened" in `TurnIsAnnounced`), nor is one whose channel is full: the
  message is dropped and the connection keeps back the push ("full"). A panic of
  the send ends the request before the push ("panic").
* A user with two entries can lose the timer of one turn by confirming or
  missing the other (`orphaned`).

## 6. Not modelled

* Firebase, and whether a push arrives. `SendToMultipleTokens` has no caller.
* Logins, passwords and JWTs: they read `users` and write nothing.
* In `WebSocketManager`: incoming messages, which are only logged; the channel
  `broadcast`, to which nobody sends; what the library does with a connection
  object after its handler has returned.
* Tokens, JSON, logging, migrations: no state the properties depend on.
* The lock on `users` that `CallNextUser` takes through its JOIN: it only delays
  an INSERT for that user, so the model allows more interleavings.
* The methods that only read, except where their answers are used:
  `GetUserQueueStatus` and `GetActiveCalledUsers` (`TurnTimers`), `GetQueueList`
  and `GetQueueSettings` (`Broadcasts`), `GetFCMToken` and `GetAdminFCMTokens`
  (`PushNotifications`). The reply of `GET /queue/status` puts two queries
  together; nothing depends on it.

## 7. Plan

Every component that changes state is modelled, and every safety property of a
passing run is proved. What may follow is the safety half of the liveness
properties, such as: a method that is not idle has a statement to execute, or
waits for a row that another connection holds.
