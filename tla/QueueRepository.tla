--------------------------- MODULE QueueRepository ---------------------------
(***************************************************************************)
(* The transactions of repositories/queue_repository.go as PostgreSQL runs *)
(* them: one action per SQL statement, or per row where a statement locks  *)
(* rows, at the isolation level sql.DB.Begin asks for (READ COMMITTED).    *)
(*                                                                         *)
(*  - A statement reads the rows committed when it starts and the rows its *)
(*    own transaction wrote.  `table' holds the committed rows.            *)
(*  - SELECT ... FOR UPDATE, UPDATE and DELETE take the rows of that       *)
(*    snapshot one by one: a statement waits for a row another transaction *)
(*    holds, and tests its WHERE clause again on the row as it is when the *)
(*    lock is granted.  A row once locked stays locked until the           *)
(*    transaction ends.  Only the holder of a row can write it, so `draft' *)
(*    keeps one uncommitted version per row.                               *)
(*  - SQL fixes no order in which UPDATE, DELETE or a SELECT without ORDER *)
(*    BY visit their rows, so the specification leaves it open; a statement *)
(*    with ORDER BY keeps the order of its snapshot.                       *)
(*                                                                         *)
(* The database is external to src/; its behaviour is taken from how the   *)
(* repository uses it.  The FOR UPDATE of CallNextUser also locks the row  *)
(* of `users' that it joins, which only delays an INSERT for that user: it *)
(* is left out, so that the specification allows more interleavings.  The  *)
(* clock is left out too: the test of timeout_at in ConfirmTurn may go     *)
(* either way (TurnTimers has the clock).                                *)
(***************************************************************************)
EXTENDS QueueTable

CONSTANTS
  Conns,      \* database connections; each serves one transaction at a time
  NoConn,     \* the holder of a row that is not locked
  PauseValues \* bound: the values administrators give to is_paused

ASSUME QueueRepositoryAssumption ==
  /\ NoConn \notin Conns
  /\ PauseValues \subseteq BOOLEAN

VARIABLES
  table,      \* the committed rows
  draft,      \* each row as its holder sees it: uncommitted if it is locked
  lock,       \* which connection holds the lock of each row
  nextId,     \* the SERIAL sequence; a rollback does not give an id back
  paused,     \* queue_settings.is_paused
  pc,         \* the statement each connection is at
  job,        \* the repository method each connection runs, with its argument
  row,        \* the entry its locking SELECT returned; 0 before that
  position,   \* the position it read: of that entry, or the MAX + 1 of a join
  todo,       \* the rows its current statement has still to visit
  key,        \* the ORDER BY value of those rows; 0 where there is no order
  \* History, for the properties only:
  ahead,      \* the entries still in the queue that each one found on joining
  seen        \* the same for a join still in progress

dbVars  == <<table, draft, lock, nextId, paused>>
txVars  == <<pc, job, row, position, todo, key>>
history == <<ahead, seen>>
vars    == <<dbVars, txVars, history>>

Departures == {"LeaveQueue", "ConfirmTurn", "RemoveUser", "TimeoutUser"}
Ops == Departures \cup {"JoinQueue", "CallNextUser"}

Job == [op : Ops \cup {"none"}, user : Users \cup {NoUser}, entry : EntryIds \cup {0}]
NoJob == [op |-> "none", user |-> NoUser, entry |-> 0]
UserJob(op, u) == [op |-> op, user |-> u, entry |-> 0]
TimeoutJob(e) == [op |-> "TimeoutUser", user |-> NoUser, entry |-> e]
CallJob == [op |-> "CallNextUser", user |-> NoUser, entry |-> 0]

Unordered == [e \in EntryIds |-> 0]

Statements == {"idle", "max", "insert", "first", "select", "mark", "shift", "commit"}

TypeOK ==
  /\ table \in Table
  /\ draft \in Table
  /\ lock \in [EntryIds -> Conns \cup {NoConn}]
  /\ nextId \in 1 .. MaxEntries + 1
  /\ paused \in BOOLEAN
  /\ pc \in [Conns -> Statements]
  /\ job \in [Conns -> Job]
  /\ row \in [Conns -> EntryIds \cup {0}]
  /\ position \in [Conns -> Int]
  /\ todo \in [Conns -> SUBSET EntryIds]
  /\ key \in [Conns -> [EntryIds -> Int]]
  /\ ahead \in [EntryIds -> SUBSET EntryIds]
  /\ seen \in [Conns -> SUBSET EntryIds]

Init ==
  /\ table = EmptyTable
  /\ draft = EmptyTable
  /\ lock = [e \in EntryIds |-> NoConn]
  /\ nextId = 1
  /\ paused = FALSE
  /\ pc = [c \in Conns |-> "idle"]
  /\ job = [c \in Conns |-> NoJob]
  /\ row = [c \in Conns |-> 0]
  /\ position = [c \in Conns |-> 0]
  /\ todo = [c \in Conns |-> {}]
  /\ key = [c \in Conns |-> Unordered]
  /\ ahead = [e \in EntryIds |-> {}]
  /\ seen = [c \in Conns |-> {}]

-----------------------------------------------------------------------------
(* Snapshots, and the WHERE clause and the effect of each statement.        *)

(* What a statement of c sees when it starts.                               *)
Snapshot(c) == [e \in EntryIds |-> IF lock[e] = c THEN draft[e] ELSE table[e]]

(* The WHERE clause of the SELECT ... FOR UPDATE of each method.            *)
Wanted(j, e, r) ==
  \/ /\ j.op \in {"LeaveQueue", "RemoveUser"}
     /\ r.user = j.user /\ IsActive(r)
  \/ /\ j.op = "ConfirmTurn"
     /\ r.user = j.user /\ r.status = "called"
  \/ /\ j.op = "TimeoutUser"
     /\ e = j.entry /\ IsStored(r)
  \/ /\ j.op = "CallNextUser"
     /\ r.status = "waiting"

(* Mistake: LeaveQueue deletes the user's past rows as well.                *)
MarkedWithPast(j, id, e, r) ==
  IF j.op \in {"LeaveQueue", "RemoveUser"} THEN r.user = j.user /\ IsStored(r) ELSE e = id

(* The WHERE clause of the DELETE or UPDATE that changes the status: by     *)
(* user in LeaveQueue and RemoveUserFromQueue, by the id read in the rest.  *)
Marked(j, id, e, r) ==
  \/ /\ j.op = "LeaveQueue"
     /\ r.user = j.user /\ IsActive(r)
  \/ /\ j.op = "RemoveUser"
     /\ r.user = j.user /\ IsStored(r)
  \/ /\ j.op \in {"ConfirmTurn", "TimeoutUser", "CallNextUser"}
     /\ e = id

(* Mistake: the status as the README spells it, which valid_status lacks.   *)
NewStatusTimedOut ==
  [ConfirmTurn  |-> "confirmed", TimeoutUser |-> "timed_out",
   CallNextUser |-> "called",    RemoveUser  |-> "removed"]

(* The status the UPDATE of each method sets.                               *)
NewStatus == [ConfirmTurn  |-> "confirmed", TimeoutUser |-> "timeout",
              CallNextUser |-> "called",    RemoveUser  |-> "removed"]

(* The row that DELETE or UPDATE leaves.                                    *)
MarkedRow(j, r) ==
  IF j.op = "LeaveQueue" THEN DeletedRow ELSE [r EXCEPT !.status = NewStatus[j.op]]

-----------------------------------------------------------------------------
(* Statements that lock rows.                                               *)

(* The row lock of e can be granted to c.                                   *)
Grantable(c, e) == lock[e] \in {c, NoConn}

(* The rows among which the statement of c takes its next one.              *)
NextRows(c) == {e \in todo[c] : \A f \in todo[c] : key[c][e] <= key[c][f]}

(* A row DELETE took away cannot be locked; every other visited row is.     *)
LockVisited(c, e) ==
  lock' = IF draft[e].status = "deleted" THEN lock ELSE [lock EXCEPT ![e] = c]

Visit(c, e) ==
  /\ e \in NextRows(c)
  /\ Grantable(c, e)
  /\ LockVisited(c, e)

(* Mistake: a SELECT without FOR UPDATE, which neither waits nor locks.     *)
SelectRowUnlocked(c, e) ==
  /\ pc[c] = "select"
  /\ e \in NextRows(c)
  /\ row' = [row EXCEPT ![c] = e]
  /\ position' = [position EXCEPT ![c] = table[e].position]
  /\ todo' = [todo EXCEPT ![c] = {}]
  /\ UNCHANGED <<dbVars, pc, job, key, history>>

(* SELECT ... FOR UPDATE reaches a row: it returns the row if its WHERE     *)
(* clause still holds.  The caller reads the first row only; LIMIT 1 ends   *)
(* the scan of CallNextUser there.                                          *)
SelectRow(c, e) ==
  /\ pc[c] = "select"
  /\ Visit(c, e)
  /\ \/ /\ Wanted(job[c], e, draft[e])
        /\ row' = [row EXCEPT ![c] = IF @ = 0 THEN e ELSE @]
        /\ position' = [position EXCEPT ![c] = IF row[c] = 0 THEN draft[e].position ELSE @]
        /\ todo' = [todo EXCEPT ![c] = IF job[c].op = "CallNextUser" THEN {} ELSE @ \ {e}]
     \/ /\ ~Wanted(job[c], e, draft[e])
        /\ todo' = [todo EXCEPT ![c] = @ \ {e}]
        /\ UNCHANGED <<row, position>>
  /\ UNCHANGED <<table, draft, nextId, paused, pc, job, key, history>>

(* The DELETE or UPDATE of the status reaches a row.                        *)
MarkRow(c, e) ==
  /\ pc[c] = "mark"
  /\ Visit(c, e)
  /\ \/ /\ Marked(job[c], row[c], e, draft[e])
        /\ draft' = [draft EXCEPT ![e] = MarkedRow(job[c], @)]
     \/ /\ ~Marked(job[c], row[c], e, draft[e])
        /\ UNCHANGED draft
  /\ todo' = [todo EXCEPT ![c] = @ \ {e}]
  /\ UNCHANGED <<table, nextId, paused, pc, job, row, position, key, history>>

(* UPDATE ... SET position = position - 1 reaches a row.                    *)
ShiftRow(c, e) ==
  /\ pc[c] = "shift"
  /\ Visit(c, e)
  /\ \/ /\ IsBehind(draft[e], position[c])
        /\ draft' = [draft EXCEPT ![e] = MovedUp(@)]
     \/ /\ ~IsBehind(draft[e], position[c])
        /\ UNCHANGED draft
  /\ todo' = [todo EXCEPT ![c] = @ \ {e}]
  /\ UNCHANGED <<table, nextId, paused, pc, job, row, position, key, history>>

-----------------------------------------------------------------------------
(* The order of the statements.                                             *)

(* The connection is handed back; a commit or a rollback came before.       *)
Release(c) ==
  /\ lock' = [e \in EntryIds |-> IF lock[e] = c THEN NoConn ELSE lock[e]]
  /\ pc' = [pc EXCEPT ![c] = "idle"]
  /\ job' = [job EXCEPT ![c] = NoJob]
  /\ row' = [row EXCEPT ![c] = 0]
  /\ position' = [position EXCEPT ![c] = 0]
  /\ todo' = [todo EXCEPT ![c] = {}]
  /\ key' = [key EXCEPT ![c] = Unordered]
  /\ seen' = [seen EXCEPT ![c] = {}]

(* tx.Rollback: every early return, and the deferred call.                  *)
Rollback(c) ==
  /\ draft' = [e \in EntryIds |-> IF lock[e] = c THEN table[e] ELSE draft[e]]
  /\ Release(c)
  /\ UNCHANGED <<table, nextId, paused, ahead>>

(* Mistake: only a waiting entry counts as being in the queue.              *)
BeginJoinWhileCalled(c, u) ==
  /\ pc[c] = "idle"
  /\ \A e \in EntryIds : table[e].status = "waiting" => table[e].user # u
  /\ pc' = [pc EXCEPT ![c] = "max"]
  /\ job' = [job EXCEPT ![c] = UserJob("JoinQueue", u)]
  /\ UNCHANGED <<dbVars, row, position, todo, key, history>>

(* JoinQueue, SELECT EXISTS: a user with an active entry is turned away     *)
(* before anything is written.                                              *)
BeginJoin(c, u) ==
  /\ pc[c] = "idle"
  /\ \A e \in ActiveEntries(table) : table[e].user # u
  /\ pc' = [pc EXCEPT ![c] = "max"]
  /\ job' = [job EXCEPT ![c] = UserJob("JoinQueue", u)]
  /\ UNCHANGED <<dbVars, row, position, todo, key, history>>

(* JoinQueue, SELECT COALESCE(MAX(position), 0) + 1.                        *)
ReadMaxPosition(c) ==
  /\ pc[c] = "max"
  /\ \E p \in 1 .. MaxEntries + 1 :
       /\ IsNextPosition(table, p)
       /\ position' = [position EXCEPT ![c] = p]
  /\ pc' = [pc EXCEPT ![c] = "insert"]
  /\ seen' = [seen EXCEPT ![c] = ActiveEntries(table)]
  /\ UNCHANGED <<dbVars, job, row, todo, key, ahead>>

(* JoinQueue, INSERT: the new row is invisible to others until the commit.  *)
InsertEntry(c) ==
  /\ pc[c] = "insert"
  /\ nextId <= MaxEntries
  /\ draft' = [draft EXCEPT ![nextId] = WaitingRow(job[c].user, position[c])]
  /\ lock' = [lock EXCEPT ![nextId] = c]
  /\ ahead' = [ahead EXCEPT ![nextId] = seen[c]]
  /\ nextId' = nextId + 1
  /\ row' = [row EXCEPT ![c] = nextId]
  /\ seen' = [seen EXCEPT ![c] = {}]
  /\ pc' = [pc EXCEPT ![c] = "commit"]
  /\ UNCHANGED <<table, paused, job, position, todo, key>>

(* LeaveQueue, ConfirmTurn, RemoveUserFromQueue and TimeoutUser start with  *)
(* their SELECT ... FOR UPDATE.                                             *)
BeginDeparture(c, j) ==
  /\ pc[c] = "idle"
  /\ pc' = [pc EXCEPT ![c] = "select"]
  /\ job' = [job EXCEPT ![c] = j]
  /\ todo' = [todo EXCEPT ![c] = {e \in EntryIds : Wanted(j, e, table[e])}]
  /\ UNCHANGED <<dbVars, row, position, key, history>>

(* CallNextUser, SELECT is_paused: a paused queue calls nobody.             *)
BeginCall(c) ==
  /\ pc[c] = "idle"
  /\ ~paused
  /\ pc' = [pc EXCEPT ![c] = "first"]
  /\ job' = [job EXCEPT ![c] = CallJob]
  /\ UNCHANGED <<dbVars, row, position, todo, key, history>>

(* Mistake: no ORDER BY.                                                    *)
OpenSelectUnordered(c) ==
  /\ pc[c] = "first"
  /\ pc' = [pc EXCEPT ![c] = "select"]
  /\ todo' = [todo EXCEPT ![c] = {e \in EntryIds : Wanted(job[c], e, table[e])}]
  /\ UNCHANGED <<dbVars, job, row, position, key, history>>

(* CallNextUser, SELECT ... ORDER BY position LIMIT 1 FOR UPDATE starts.    *)
OpenSelect(c) ==
  /\ pc[c] = "first"
  /\ pc' = [pc EXCEPT ![c] = "select"]
  /\ todo' = [todo EXCEPT ![c] = {e \in EntryIds : Wanted(job[c], e, table[e])}]
  /\ key' = [key EXCEPT ![c] = [e \in EntryIds |->
               IF Wanted(job[c], e, table[e]) THEN table[e].position ELSE 0]]
  /\ UNCHANGED <<dbVars, job, row, position, history>>

(* Mistake: TimeoutUser does not look at the status of its row.             *)
AcceptedAnyStatus(c) == pc[c] = "select" /\ todo[c] = {} /\ row[c] # 0

(* The SELECT has returned a row the method goes on with.                   *)
Accepted(c) ==
  /\ pc[c] = "select" /\ todo[c] = {}
  /\ row[c] # 0
  /\ job[c].op = "TimeoutUser" => draft[row[c]].status = "called"

(* The statement that changes the status starts.                            *)
OpenMark(c) ==
  /\ Accepted(c)
  /\ pc' = [pc EXCEPT ![c] = "mark"]
  /\ todo' = [todo EXCEPT ![c] = {e \in EntryIds : Marked(job[c], row[c], e, Snapshot(c)[e])}]
  /\ key' = [key EXCEPT ![c] = Unordered]
  /\ UNCHANGED <<dbVars, job, row, position, history>>

(* Mistake: TimeoutUser leaves the gap open.                                *)
OpenShiftUnlessTimeout(c) ==
  LET shifts == job[c].op \in Departures \ {"TimeoutUser"} IN
  /\ pc[c] = "mark" /\ todo[c] = {}
  /\ pc' = [pc EXCEPT ![c] = IF shifts THEN "shift" ELSE "commit"]
  /\ todo' = [todo EXCEPT ![c] =
       {e \in EntryIds : shifts /\ IsBehind(Snapshot(c)[e], position[c])}]
  /\ UNCHANGED <<dbVars, job, row, position, key, history>>

(* The statement that closes the gap starts; CallNextUser has none.         *)
OpenShift(c) ==
  /\ pc[c] = "mark" /\ todo[c] = {}
  /\ \/ /\ job[c].op \in Departures
        /\ pc' = [pc EXCEPT ![c] = "shift"]
        /\ todo' = [todo EXCEPT ![c] = {e \in EntryIds : IsBehind(Snapshot(c)[e], position[c])}]
     \/ /\ job[c].op = "CallNextUser"
        /\ pc' = [pc EXCEPT ![c] = "commit"]
        /\ UNCHANGED todo
  /\ UNCHANGED <<dbVars, job, row, position, key, history>>

(* An entry that is over; the history forgets it.                           *)
Gone(r) == r.status # "unused" /\ ~IsActive(r)

ReadyToCommit(c) == pc[c] = "commit" \/ (pc[c] = "shift" /\ todo[c] = {})

Commit(c) ==
  /\ ReadyToCommit(c)
  /\ table' = [e \in EntryIds |-> IF lock[e] = c THEN draft[e] ELSE table[e]]
  /\ ahead' = [e \in EntryIds |-> IF Gone(table'[e]) THEN {}
                                 ELSE {f \in ahead[e] : ~Gone(table'[f])}]
  /\ Release(c)
  /\ UNCHANGED <<draft, nextId, paused>>

(* Mistake: a return without tx.Rollback, which keeps the rows locked.      *)
RefuseWithoutRollback(c) ==
  /\ pc[c] = "select" /\ todo[c] = {} /\ ~Accepted(c)
  /\ pc' = [pc EXCEPT ![c] = "idle"]
  /\ job' = [job EXCEPT ![c] = NoJob]
  /\ row' = [row EXCEPT ![c] = 0]
  /\ UNCHANGED <<dbVars, position, todo, key, history>>

(* The returns without effect: no row found, TimeoutUser finds its entry no *)
(* longer called, or the sequence has no id left for the INSERT.            *)
Refuse(c) ==
  /\ \/ pc[c] = "select" /\ todo[c] = {} /\ ~Accepted(c)
     \/ pc[c] = "insert" /\ nextId > MaxEntries
  /\ Rollback(c)

(* Any statement or the commit may fail (connection lost, server stopped,   *)
(* chosen as the victim of a deadlock), and ConfirmTurn may find that       *)
(* timeout_at has passed: the method returns an error.                      *)
Fail(c) ==
  /\ pc[c] # "idle"
  /\ Rollback(c)

(* UpdateQueuePauseStatus, one statement that commits by itself.            *)
SetPaused(b) ==
  /\ paused # b
  /\ paused' = b
  /\ UNCHANGED <<table, draft, lock, nextId, txVars, history>>

-----------------------------------------------------------------------------
Begin(c) ==
  \/ \E u \in Users : BeginJoin(c, u)
  \/ \E op \in {"LeaveQueue", "ConfirmTurn", "RemoveUser"}, u \in Users :
       BeginDeparture(c, UserJob(op, u))
  \/ \E e \in {x \in EntryIds : table[x].status \notin {"unused", "waiting"}} :
       BeginDeparture(c, TimeoutJob(e))
  \/ BeginCall(c)

(* The next statement, or the next row of the statement, of connection c.   *)
Step(c) ==
  \/ ReadMaxPosition(c) \/ InsertEntry(c)
  \/ OpenSelect(c) \/ OpenMark(c) \/ OpenShift(c)
  \/ \E e \in EntryIds : SelectRow(c, e) \/ MarkRow(c, e) \/ ShiftRow(c, e)
  \/ Refuse(c) \/ Commit(c)

Next ==
  \/ \E c \in Conns : Begin(c) \/ Step(c) \/ Fail(c)
  \/ \E b \in PauseValues : SetPaused(b)

Spec == Init /\ [][Next]_vars

-----------------------------------------------------------------------------
(* Fairness.                                                                *)

(* Every row c could go on with is held by a connection of D.               *)
BlockedBy(c, D) ==
  /\ todo[c] # {}
  /\ \A e \in NextRows(c) : lock[e] \in D \ {c}

(* Connections that wait for each other.                                    *)
Deadlocked(c) == \E D \in SUBSET Conns : c \in D /\ \A d \in D : BlockedBy(d, D)

(* PostgreSQL executes the statements it was given, queues those that wait  *)
(* for a row so that none is passed over for ever, and fails a transaction  *)
(* of each deadlock.  Nobody has to send a request, and nothing has to fail *)
(* otherwise.                                                               *)
Fairness ==
  \A c \in Conns : SF_vars(Step(c)) /\ WF_vars(Deadlocked(c) /\ Fail(c))

FairSpec == Spec /\ Fairness

-----------------------------------------------------------------------------
(* Properties that hold whatever runs at the same time.                     *)

(* README, "Prevents duplicate slot assignment": the CallNextUser that      *)
(* succeeds is the one that takes its entry from waiting to called; no      *)
(* other call is answered with that entry.                                  *)
OneTurnPerCall == [][
  \A c \in Conns : Commit(c) /\ job[c].op = "CallNextUser" =>
    /\ table[row[c]].status = "waiting"
    /\ table'[row[c]].status = "called"]_vars

(* README, "Prevents double confirmation": of the departures that compete   *)
(* for an entry, one succeeds; the queue moves up once for it.              *)
OneDeparturePerEntry == [][
  \A c \in Conns : Commit(c) /\ job[c].op \in Departures =>
    /\ IsActive(table[row[c]])
    /\ ~IsActive(table'[row[c]])]_vars

(* Positions never fall below 1, however the gap-closing UPDATEs of         *)
(* concurrent departures interleave on the same rows.                       *)
PositionsPositive == \A e \in ActiveEntries(table) : table[e].position >= 1

(* Nobody is overtaken: an entry never stands behind one that joined after  *)
(* it had seen it (two that join at once may share a position).             *)
NoOvertaking ==
  \A g \in ActiveEntries(table) : \A e \in ahead[g] \cap ActiveEntries(table) :
    table[e].position <= table[g].position

(* Each row goes through the statuses in the order EntryLifecycle allows.   *)
entryStatus == [e \in EntryIds |-> table[e].status]
Lifecycle == INSTANCE EntryLifecycle WITH status <- entryStatus
LifecycleSpec == Lifecycle!Spec

(* A request is always answered: a method that has begun ends, although     *)
(* departures lock the rows behind them in any order and may deadlock.      *)
EveryMethodReturns == \A c \in Conns : pc[c] # "idle" ~> pc[c] = "idle"

-----------------------------------------------------------------------------
(* Properties of the queue as long as every JoinQueue runs alone.           *)

Joining(c) == job[c].op = "JoinQueue"
JoinsAlone == \A c, d \in Conns : Joining(c) /\ d # c => pc[d] = "idle"

SerialJoinsSpec == Init /\ [][Next /\ JoinsAlone']_vars

(* The committed rows change as if each method were one indivisible step.   *)
Atomic == INSTANCE AtomicQueue WITH queue <- table
AtomicSpec == Atomic!Spec

(* README, "inconsistent queue ordering": positions are 1 .. n.             *)
ContiguousPositions == Atomic!Contiguous(table)

(* A user holds one place in the queue at most.                             *)
OneEntryPerUser == Atomic!OneEntryPerUser(table)

(* First come, first called: when an entry is called, whoever was in the    *)
(* queue before it joined has been called or has left.                      *)
FirstComeFirstCalled ==
  \A e \in EntryIds : table[e].status = "called" =>
    \A f \in ahead[e] : table[f].status # "waiting"

=============================================================================
