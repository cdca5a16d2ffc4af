------------------------- MODULE SerialJoinsProofs -------------------------
(***************************************************************************)
(* Theorems about QueueRepository as long as every JoinQueue runs alone,   *)
(* for any number of users, entries and connections: its transactions      *)
(* implement AtomicQueue, so that the active positions are 1 .. n and no   *)
(* user is in the queue twice; and who came first is called first.         *)
(*                                                                         *)
(* Departures and calls may overlap in any way.  What a transaction will   *)
(* commit is a function of the rows committed so far (AfterMark and        *)
(* AfterShift): of the rows it has locked that is their draft, and of the  *)
(* others it is the row itself, whoever commits in the meantime.           *)
(***************************************************************************)
EXTENDS QueueOrderProofs

(* Row e once the UPDATE or DELETE of the status has reached it, and once   *)
(* the gap is closed as well.                                               *)
AfterMark(c, e) ==
  IF Marked(job[c], row[c], e, table[e]) THEN MarkedRow(job[c], table[e]) ELSE table[e]

AfterShift(c, e) ==
  IF IsBehind(AfterMark(c, e), position[c]) THEN MovedUp(AfterMark(c, e)) ELSE AfterMark(c, e)

(* A locked row shows what the statements that have visited it have done.   *)
DraftsAreDone(c) ==
  ~Joining(c) => \A e \in EntryIds : lock[e] = c =>
    draft[e] = CASE pc[c] = "select" \/ (pc[c] = "mark" /\ e \in todo[c]) -> table[e]
                 [] pc[c] = "shift" /\ e \notin todo[c] -> AfterShift(c, e)
                 [] OTHER -> AfterMark(c, e)

(* To a row that is not locked there is nothing to do.                      *)
RestIsDone(c) ==
  \A e \in EntryIds : lock[e] # c =>
    /\ (pc[c] = "mark" /\ e \notin todo[c]) \/ pc[c] \in {"shift", "commit"} =>
         ~Marked(job[c], row[c], e, table[e])
    /\ pc[c] = "shift" /\ e \notin todo[c] => ~IsBehind(table[e], position[c])

(* The gap is closed where the row was.                                     *)
PositionIsOfRow(c) ==
  row[c] # 0 /\ ~Joining(c) => position[c] = table[row[c]].position

JobKnown(c) ==
  /\ pc[c] = "idle" => job[c] = NoJob
  /\ job[c].op \in {"JoinQueue", "LeaveQueue", "ConfirmTurn", "RemoveUser"} =>
       job[c].user \in Users

(* A join that runs alone still has the right position when it commits.     *)
JoinIsLast(c) ==
  Joining(c) =>
    /\ \A e \in ActiveEntries(table) : table[e].user # job[c].user
    /\ pc[c] \in {"insert", "commit"} => IsNextPosition(table, position[c])
    /\ pc[c] = "insert" => position[c] <= nextId
    /\ pc[c] = "commit" => /\ position[c] <= row[c]
                           /\ draft[row[c]] = WaitingRow(job[c].user, position[c])

(* The rows CallNextUser has still to try are ordered, and the row it takes *)
(* is the first.                                                            *)
CallIsFirst(c) ==
  job[c].op = "CallNextUser" =>
    /\ pc[c] = "select" /\ row[c] = 0 =>
         /\ \A e \in EntryIds : table[e].status = "waiting" => e \in todo[c]
         /\ \A e, f \in todo[c] :
              IsActive(table[e]) /\ IsActive(table[f]) /\ key[c][e] <= key[c][f] =>
                table[e].position <= table[f].position
    /\ row[c] # 0 => \A f \in EntryIds : table[f].status = "waiting" =>
         table[row[c]].position <= table[f].position

SerialPart(c) ==
  /\ DraftsAreDone(c)
  /\ RestIsDone(c)
  /\ PositionIsOfRow(c)
  /\ JobKnown(c)
  /\ JoinIsLast(c)
  /\ CallIsFirst(c)

(* Ids are handed out faster than positions.                                *)
PositionsWithinIds == \A e \in ActiveEntries(table) : table[e].position <= e

(* Only rows that exist have an owner.                                      *)
OwnersStored == \A e \in EntryIds : table[e].user \in Users => IsStored(table[e])

NotAheadOfItself == \A e \in EntryIds : e \notin ahead[e]

SerialInv ==
  /\ OrderInv
  /\ JoinsAlone
  /\ ContiguousPositions
  /\ OneEntryPerUser
  /\ PositionsWithinIds
  /\ OwnersStored
  /\ NotAheadOfItself
  /\ FirstComeFirstCalled
  /\ \A c \in Conns : SerialPart(c)

-----------------------------------------------------------------------------
(* What a step of one connection means to the others.                       *)

USE QueueTableAssumption, QueueRepositoryAssumption

(* What the commits of departures and calls do to the table: nobody comes,  *)
(* comes back or changes owner, and nobody passes anybody.                  *)
Settles ==
  /\ \A e \in EntryIds :
       /\ IsActive(table'[e]) =>
            /\ IsActive(table[e]) /\ table'[e].user = table[e].user
            /\ table'[e].position <= table[e].position
       /\ IsStored(table'[e]) => IsStored(table[e]) /\ table'[e].user = table[e].user
       /\ table'[e].status = "waiting" => table[e].status = "waiting"
  /\ \A e, f \in EntryIds :
       IsActive(table'[e]) /\ IsActive(table'[f]) /\ table[e].position <= table[f].position =>
         table'[e].position <= table'[f].position

(* Nothing else runs while a join does.                                     *)
LEMMA JoinIsAlone ==
  ASSUME IInv, JoinsAlone, JoinsAlone', NEW c \in Conns, Begin(c) \/ Step(c) \/ Fail(c),
         NEW d \in Conns, d # c
  PROVE  ~Joining(d)
<1>1. CASE Step(c) \/ Fail(c)
  <2>1. pc[c] # "idle"
    BY <1>1 DEF Step, Fail, ReadMaxPosition, InsertEntry, OpenSelect, OpenMark, Accepted, OpenShift,
           SelectRow, MarkRow, ShiftRow, Refuse, Commit, ReadyToCommit
  <2> QED
    BY <2>1 DEF JoinsAlone
<1>2. CASE Begin(c)
  <2>1. pc'[c] # "idle"
    BY <1>2 DEF Begin, BeginJoin, BeginDeparture, BeginCall, IInv, TypeOK
  <2>2. job'[d] = job[d]
    BY OneStepsAlone DEF StepsAlone
  <2> QED
    BY <2>1, <2>2 DEF JoinsAlone, Joining
<1> QED
  BY <1>1, <1>2

(* A transaction that is not a join does not notice what others commit.     *)
LEMMA OthersKeepSerial ==
  ASSUME SerialInv, TypeOK', NEW c \in Conns, StepsAlone(c), Settles,
         NEW d \in Conns, d # c, ~Joining(d)
  PROVE  SerialPart(d)'
<1>1. /\ pc'[d] = pc[d] /\ job'[d] = job[d] /\ row'[d] = row[d]
      /\ position'[d] = position[d] /\ todo'[d] = todo[d] /\ key'[d] = key[d]
  BY DEF StepsAlone
<1>2. \A e \in EntryIds :
        /\ lock'[e] = d <=> lock[e] = d
        /\ lock[e] = d => table'[e] = table[e] /\ draft'[e] = draft[e]
  <2>1. d # NoConn
    OBVIOUS
  <2> QED
    BY <2>1 DEF StepsAlone
<1>3. /\ position[d] \in Int
      /\ \A e \in EntryIds : table[e].position \in Int /\ table'[e].position \in Int
  BY DEF SerialInv, OrderInv, IInv, TypeOK, Table, Row
<1>4. row[d] # 0 => row[d] \in EntryIds /\ lock[row[d]] = d
  BY DEF SerialInv, OrderInv, IInv, TypeOK, TransactionInv, HoldsItsRow
<1>5. DraftsAreDone(d)'
  <2>1. \A e \in EntryIds : lock[e] = d =>
          AfterMark(d, e)' = AfterMark(d, e) /\ AfterShift(d, e)' = AfterShift(d, e)
    BY <1>1, <1>2 DEF AfterMark, AfterShift
  <2>2. DraftsAreDone(d)
    BY DEF SerialInv, SerialPart
  <2> QED
    BY <1>1, <1>2, <2>1, <2>2 DEF DraftsAreDone, Joining
<1>6. RestIsDone(d)'
  <2> SUFFICES ASSUME NEW e \in EntryIds, lock[e] # d
               PROVE  /\ ~Marked(job[d], row[d], e, table[e]) =>
                           ~Marked(job[d], row[d], e, table'[e])
                      /\ ~IsBehind(table[e], position[d]) => ~IsBehind(table'[e], position[d])
    BY <1>1, <1>2 DEF RestIsDone, SerialInv, SerialPart
  <2> QED
    BY <1>3 DEF Settles, Marked, IsBehind
<1>7. PositionIsOfRow(d)'
  BY <1>1, <1>2, <1>4 DEF PositionIsOfRow, Joining, SerialInv, SerialPart
<1>8. JobKnown(d)'
  BY <1>1 DEF JobKnown, SerialInv, SerialPart
<1>9. JoinIsLast(d)'
  BY <1>1 DEF JoinIsLast, Joining
<1>10. CallIsFirst(d)'
  <2>1. todo[d] \subseteq EntryIds
    BY DEF SerialInv, OrderInv, IInv, TypeOK
  <2>2. ASSUME job[d].op = "CallNextUser", pc[d] = "select", row[d] = 0
        PROVE  /\ \A e \in EntryIds : table'[e].status = "waiting" => e \in todo[d]
               /\ \A e, f \in todo[d] :
                    IsActive(table'[e]) /\ IsActive(table'[f]) /\ key[d][e] <= key[d][f] =>
                      table'[e].position <= table'[f].position
    BY <2>1, <2>2 DEF Settles, SerialInv, SerialPart, CallIsFirst
  <2>3. ASSUME job[d].op = "CallNextUser", row[d] # 0,
               NEW f \in EntryIds, table'[f].status = "waiting"
        PROVE  table'[row[d]].position <= table'[f].position
    <3>1. table[row[d]].position <= table[f].position
      BY <2>3 DEF Settles, SerialInv, SerialPart, CallIsFirst
    <3>2. table[row[d]].status = "waiting"
      BY <2>3 DEF SerialInv, OrderInv, IInv, TransactionInv, HoldsItsRow, Wanted
    <3>3. IsActive(table'[row[d]]) /\ IsActive(table'[f])
      BY <1>2, <1>4, <2>3, <3>2 DEF IsActive, ActiveStatus
    <3> QED
      BY <1>4, <2>3, <3>1, <3>3 DEF Settles
  <2> QED
    BY <1>1, <2>2, <2>3 DEF CallIsFirst
<1> QED
  BY <1>5, <1>6, <1>7, <1>8, <1>9, <1>10 DEF SerialPart

(* What the histories learn.                                                *)
LEMMA HistoryStep ==
  ASSUME OrderInv, NEW c \in Conns, Begin(c) \/ Step(c) \/ Fail(c)
  PROVE  /\ HistoryKept
         /\ nextId \in EntryIds =>
              \/ ahead'[nextId] \subseteq ahead[nextId]
              \/ nextId \notin ahead'[nextId]
<1>1. CASE InsertEntry(c)
  <2>1. nextId \in EntryIds
    BY <1>1 DEF InsertEntry, OrderInv, IInv, TypeOK, EntryIds
  <2>2. table[nextId].status = "unused"
    BY <2>1 DEF OrderInv, IInv, FreshIds, EntryIds
  <2>3. nextId \notin seen[c]
    BY <2>2 DEF OrderInv, SeenRows
  <2> QED
    BY <1>1, <2>1, <2>3 DEF InsertEntry, HistoryKept, OrderInv, IInv, TypeOK
<1>2. CASE Commit(c)
  BY <1>2 DEF Commit, HistoryKept, OrderInv, IInv, TypeOK
<1>3. CASE ~InsertEntry(c) /\ ~Commit(c)
  <2>1. ahead' = ahead
    BY <1>3 DEF Begin, Step, Fail, BeginJoin, BeginDeparture, BeginCall, ReadMaxPosition, OpenSelect,
           OpenMark, OpenShift, SelectRow, MarkRow, ShiftRow, Refuse, Rollback, history
  <2> QED
    BY <2>1 DEF HistoryKept
<1> QED
  BY <1>1, <1>2, <1>3

(* A step that commits nothing: only the part of c is left to prove.        *)
LEMMA SerialFromOwn ==
  ASSUME SerialInv, OrderInv', JoinsAlone', NEW c \in Conns, Begin(c) \/ Step(c) \/ Fail(c),
         table' = table, SerialPart(c)'
  PROVE  SerialInv'
<1>1. IInv /\ TypeOK' /\ StepsAlone(c)
  BY OneStepsAlone DEF SerialInv, OrderInv, IInv
<1>2. Settles
  <2>1. \A e \in EntryIds : table[e].position \in Int
    BY <1>1 DEF IInv, TypeOK, Table, Row
  <2> QED
    BY <2>1 DEF Settles
<1>3. \A d \in Conns : d # c => SerialPart(d)'
  BY <1>1, <1>2, JoinIsAlone, OthersKeepSerial DEF SerialInv
<1>4. /\ HistoryKept
      /\ nextId \in EntryIds =>
           ahead'[nextId] \subseteq ahead[nextId] \/ nextId \notin ahead'[nextId]
  BY HistoryStep DEF SerialInv
<1>5. NotAheadOfItself'
  BY <1>4 DEF NotAheadOfItself, HistoryKept, SerialInv
<1>6. FirstComeFirstCalled'
  <2> SUFFICES ASSUME NEW e \in EntryIds, table[e].status = "called", NEW f \in ahead'[e]
               PROVE  table[f].status # "waiting"
    BY DEF FirstComeFirstCalled
  <2>1. e # nextId
    BY <1>1 DEF IInv, FreshIds, EntryIds
  <2> QED
    BY <1>4, <2>1 DEF HistoryKept, SerialInv, FirstComeFirstCalled
<1>7. PositionsWithinIds' /\ OwnersStored'
  BY DEF PositionsWithinIds, OwnersStored, ActiveEntries, SerialInv
<1>8. ContiguousPositions' /\ OneEntryPerUser'
  BY DEF ContiguousPositions, OneEntryPerUser, Atomic!Contiguous, Atomic!OneEntryPerUser,
         Atomic!ActiveEntries, SerialInv
<1> QED
  BY <1>3, <1>5, <1>6, <1>7, <1>8 DEF SerialInv

-----------------------------------------------------------------------------
(* What each statement means to its own transaction.                        *)

(* An idle connection, and one at the start of CallNextUser, has no row.    *)
LEMMA NoRowYet ==
  ASSUME IInv, NEW c \in Conns, pc[c] \in {"idle", "max", "insert", "first"}
  PROVE  row[c] = 0 /\ \A e \in EntryIds : lock[e] # c
BY DEF IInv, TypeOK, TransactionInv, HoldsItsRow, HoldsNothingYet

(* JoinQueue begins if the user is not in the queue.                        *)
LEMMA SerialBeginJoin ==
  ASSUME SerialInv, OrderInv', JoinsAlone', NEW c \in Conns, NEW u \in Users, BeginJoin(c, u)
  PROVE  SerialInv'
<1> USE DEF dbVars, history
<1>1. /\ UNCHANGED <<table, draft, lock, row, position, todo, key>>
      /\ pc[c] = "idle" /\ pc'[c] = "max" /\ job'[c] = UserJob("JoinQueue", u)
      /\ \A e \in ActiveEntries(table) : table[e].user # u
  BY DEF BeginJoin, SerialInv, OrderInv, IInv, TypeOK
<1>2. row[c] = 0 /\ \A e \in EntryIds : lock[e] # c
  BY <1>1, NoRowYet DEF SerialInv, OrderInv
<1>3. job'[c].op = "JoinQueue" /\ job'[c].user = u
  BY <1>1 DEF UserJob
<1>4. DraftsAreDone(c)' /\ RestIsDone(c)' /\ PositionIsOfRow(c)' /\ CallIsFirst(c)'
  BY <1>1, <1>2, <1>3 DEF DraftsAreDone, RestIsDone, PositionIsOfRow, CallIsFirst, Joining
<1>5. JobKnown(c)'
  BY <1>1, <1>3 DEF JobKnown
<1>6. JoinIsLast(c)'
  BY <1>1, <1>3 DEF JoinIsLast, ActiveEntries
<1> QED
  BY <1>1, <1>4, <1>5, <1>6, SerialFromOwn DEF SerialPart, Begin

(* A departure begins with the user of its request.                         *)
LEMMA SerialBeginDeparture ==
  ASSUME SerialInv, OrderInv', JoinsAlone', NEW c \in Conns, Begin(c), NEW j,
         BeginDeparture(c, j), j.op \in Departures, j.op # "TimeoutUser" => j.user \in Users
  PROVE  SerialInv'
<1> USE DEF dbVars, history
<1>1. /\ UNCHANGED <<table, draft, lock, row, position, key>>
      /\ pc[c] = "idle" /\ pc'[c] = "select" /\ job'[c] = j
  BY DEF BeginDeparture, SerialInv, OrderInv, IInv, TypeOK
<1>2. row[c] = 0 /\ \A e \in EntryIds : lock[e] # c
  BY <1>1, NoRowYet DEF SerialInv, OrderInv
<1>3. DraftsAreDone(c)' /\ RestIsDone(c)' /\ PositionIsOfRow(c)'
  BY <1>1, <1>2 DEF DraftsAreDone, RestIsDone, PositionIsOfRow
<1>4. JobKnown(c)' /\ JoinIsLast(c)' /\ CallIsFirst(c)'
  BY <1>1 DEF JobKnown, JoinIsLast, CallIsFirst, Joining, Departures
<1> QED
  BY <1>1, <1>3, <1>4, SerialFromOwn DEF SerialPart

(* CallNextUser begins.                                                     *)
LEMMA SerialBeginCall ==
  ASSUME SerialInv, OrderInv', JoinsAlone', NEW c \in Conns, BeginCall(c)
  PROVE  SerialInv'
<1> USE DEF dbVars, history
<1>1. /\ UNCHANGED <<table, draft, lock, row, position, todo, key>>
      /\ pc[c] = "idle" /\ pc'[c] = "first" /\ job'[c] = CallJob
  BY DEF BeginCall, SerialInv, OrderInv, IInv, TypeOK
<1>2. row[c] = 0 /\ \A e \in EntryIds : lock[e] # c
  BY <1>1, NoRowYet DEF SerialInv, OrderInv
<1>3. DraftsAreDone(c)' /\ RestIsDone(c)' /\ PositionIsOfRow(c)'
  BY <1>1, <1>2 DEF DraftsAreDone, RestIsDone, PositionIsOfRow
<1>4. JobKnown(c)' /\ JoinIsLast(c)' /\ CallIsFirst(c)'
  BY <1>1, <1>2 DEF JobKnown, JoinIsLast, CallIsFirst, Joining, CallJob
<1> QED
  BY <1>1, <1>3, <1>4, SerialFromOwn DEF SerialPart, Begin

(* Its SELECT finds every waiting row, in the order of the positions.       *)
LEMMA SerialOpenSelect ==
  ASSUME SerialInv, OrderInv', JoinsAlone', NEW c \in Conns, OpenSelect(c)
  PROVE  SerialInv'
<1> USE DEF dbVars, history
<1>1. /\ UNCHANGED <<table, draft, lock, job, row, position>>
      /\ pc[c] = "first" /\ pc'[c] = "select"
      /\ todo'[c] = {e \in EntryIds : Wanted(job[c], e, table[e])}
      /\ key'[c] = [e \in EntryIds |-> IF Wanted(job[c], e, table[e]) THEN table[e].position ELSE 0]
      /\ job[c].op = "CallNextUser"
  BY DEF OpenSelect, SerialInv, OrderInv, IInv, TypeOK, TransactionInv, JobFitsStatement
<1>2. row[c] = 0 /\ \A e \in EntryIds : lock[e] # c
  BY <1>1, NoRowYet DEF SerialInv, OrderInv
<1>3. DraftsAreDone(c)' /\ RestIsDone(c)' /\ PositionIsOfRow(c)'
  BY <1>1, <1>2 DEF DraftsAreDone, RestIsDone, PositionIsOfRow
<1>4. JobKnown(c)' /\ JoinIsLast(c)'
  BY <1>1 DEF JobKnown, JoinIsLast, Joining
<1>5. CallIsFirst(c)'
  <2>1. \A e \in EntryIds : table[e].status = "waiting" => e \in todo'[c]
    BY <1>1 DEF Wanted
  <2>2. \A e \in todo'[c] : key'[c][e] = table[e].position
    BY <1>1
  <2> QED
    BY <1>1, <1>2, <2>1, <2>2 DEF CallIsFirst
<1> QED
  BY <1>1, <1>3, <1>4, <1>5, SerialFromOwn DEF SerialPart, Step

(* MAX(position) + 1 of a queue that nobody changes.                        *)
LEMMA SerialReadMax ==
  ASSUME SerialInv, OrderInv', JoinsAlone', NEW c \in Conns, ReadMaxPosition(c)
  PROVE  SerialInv'
<1> USE DEF dbVars
<1>1. PICK p \in 1 .. MaxEntries + 1 :
        IsNextPosition(table, p) /\ position' = [position EXCEPT ![c] = p]
  BY DEF ReadMaxPosition
<1>2. /\ UNCHANGED <<table, draft, lock, nextId, job, row>>
      /\ pc[c] = "max" /\ pc'[c] = "insert" /\ position'[c] = p
      /\ job[c].op = "JoinQueue"
  BY <1>1 DEF ReadMaxPosition, SerialInv, OrderInv, IInv, TypeOK, TransactionInv, JobFitsStatement
<1>3. row[c] = 0 /\ \A e \in EntryIds : lock[e] # c
  BY <1>2, NoRowYet DEF SerialInv, OrderInv
<1>4. p <= nextId
  <2>1. \A e \in ActiveEntries(table) :
          e \in EntryIds /\ e < nextId /\ table[e].position <= e /\ table[e].position \in Int
    <3> SUFFICES ASSUME NEW e \in EntryIds, IsActive(table[e]) PROVE e < nextId
      BY DEF ActiveEntries, PositionsWithinIds, SerialInv, OrderInv, IInv, TypeOK, Table, Row
    <3>1. table[e].status # "unused"
      BY DEF IsActive, ActiveStatus
    <3> QED
      BY <3>1 DEF SerialInv, OrderInv, IInv, TypeOK, FreshIds, EntryIds
  <2>2. nextId \in Int /\ nextId >= 1
    BY DEF SerialInv, OrderInv, IInv, TypeOK
  <2>3. p = 1 \/ \E e \in ActiveEntries(table) : p = table[e].position + 1
    BY <1>1 DEF IsNextPosition
  <2> QED
    BY <2>1, <2>2, <2>3 DEF EntryIds
<1>5. DraftsAreDone(c)' /\ RestIsDone(c)' /\ PositionIsOfRow(c)' /\ CallIsFirst(c)'
  BY <1>2, <1>3 DEF DraftsAreDone, RestIsDone, PositionIsOfRow, CallIsFirst, Joining
<1>6. JobKnown(c)'
  BY <1>2 DEF JobKnown, SerialInv, SerialPart
<1>7. JoinIsLast(c)'
  BY <1>1, <1>2, <1>4 DEF JoinIsLast, Joining, ActiveEntries, IsNextPosition, SerialInv, SerialPart
<1> QED
  BY <1>2, <1>5, <1>6, <1>7, SerialFromOwn DEF SerialPart, Step

(* The inserted row.                                                        *)
LEMMA SerialInsert ==
  ASSUME SerialInv, OrderInv', JoinsAlone', NEW c \in Conns, InsertEntry(c)
  PROVE  SerialInv'
<1>1. nextId \in EntryIds
  BY DEF InsertEntry, SerialInv, OrderInv, IInv, TypeOK, EntryIds
<1>2. /\ UNCHANGED <<table, job, position>>
      /\ pc[c] = "insert" /\ pc'[c] = "commit" /\ row'[c] = nextId
      /\ draft'[nextId] = WaitingRow(job[c].user, position[c])
      /\ job[c].op = "JoinQueue"
  BY <1>1 DEF InsertEntry, SerialInv, OrderInv, IInv, TypeOK, Table, TransactionInv, JobFitsStatement
<1>3. DraftsAreDone(c)' /\ PositionIsOfRow(c)' /\ CallIsFirst(c)'
  BY <1>2 DEF DraftsAreDone, PositionIsOfRow, CallIsFirst, Joining
<1>4. RestIsDone(c)'
  BY <1>2 DEF RestIsDone, Marked
<1>5. JobKnown(c)'
  BY <1>2 DEF JobKnown, SerialInv, SerialPart
<1>6. JoinIsLast(c)'
  BY <1>2 DEF JoinIsLast, Joining, ActiveEntries, IsNextPosition, SerialInv, SerialPart
<1> QED
  BY <1>2, <1>3, <1>4, <1>5, <1>6, SerialFromOwn DEF SerialPart, Step

(* The row a statement reaches is as committed, but for what the statements *)
(* before it have done; if it is not locked now, it is deleted.             *)
LEMMA ReachedRow ==
  ASSUME SerialInv, NEW c \in Conns, NEW e \in EntryIds, Visit(c, e),
         pc[c] \in {"select", "mark", "shift"}
  PROVE  /\ e \in todo[c] /\ \A f \in todo[c] : key[c][e] <= key[c][f]
         /\ ~Joining(c)
         /\ draft[e] = IF pc[c] = "shift" THEN AfterMark(c, e) ELSE table[e]
         /\ \A f \in EntryIds : f # e => lock'[f] = lock[f]
         /\ lock'[e] # c => table[e].status = "deleted" /\ lock[e] # c
<1>1. /\ e \in todo[c] /\ lock[e] \in {c, NoConn}
      /\ \A f \in todo[c] : key[c][e] <= key[c][f]
  BY DEF Visit, NextRows, Grantable
<1>2. ~Joining(c)
  BY DEF Joining, SerialInv, OrderInv, IInv, TransactionInv, JobFitsStatement, Departures
<1>3. /\ draft[e].status # "deleted" => lock' = [lock EXCEPT ![e] = c]
      /\ draft[e].status = "deleted" => lock' = lock
  BY DEF Visit, LockVisited
<1>4. /\ \A f \in EntryIds : f # e => lock'[f] = lock[f]
      /\ lock'[e] # c => draft[e].status = "deleted" /\ lock[e] = NoConn
  BY <1>1, <1>3 DEF SerialInv, OrderInv, IInv, TypeOK
<1>5. lock[e] = NoConn => draft[e] = table[e]
  BY DEF SerialInv, OrderInv, IInv, UnlockedIsCommitted
<1>6. CASE lock[e] = c
  BY <1>1, <1>2, <1>4, <1>6 DEF SerialInv, SerialPart, DraftsAreDone
<1>7. CASE lock[e] = NoConn
  <2>1. lock[e] # c
    BY <1>7
  <2>2. pc[c] = "shift" => AfterMark(c, e) = table[e]
    BY <2>1 DEF SerialInv, SerialPart, RestIsDone, AfterMark
  <2> QED
    BY <1>1, <1>2, <1>4, <1>5, <1>7, <2>1, <2>2
<1> QED
  BY <1>1, <1>6, <1>7

(* SELECT ... FOR UPDATE returns the first row that is still as wanted.     *)
LEMMA SerialSelectRow ==
  ASSUME SerialInv, OrderInv', JoinsAlone', NEW c \in Conns, NEW e \in EntryIds, SelectRow(c, e)
  PROVE  SerialInv'
<1>1. /\ UNCHANGED <<table, draft, pc, job, key>>
      /\ pc[c] = "select" /\ Visit(c, e)
  BY DEF SelectRow
<1>2. /\ e \in todo[c] /\ \A f \in todo[c] : key[c][e] <= key[c][f]
      /\ ~Joining(c)
      /\ draft[e] = table[e]
      /\ \A f \in EntryIds : f # e => lock'[f] = lock[f]
  BY <1>1, ReachedRow
<1>3. \/ /\ Wanted(job[c], e, table[e])
         /\ row'[c] = IF row[c] = 0 THEN e ELSE row[c]
         /\ position'[c] = IF row[c] = 0 THEN table[e].position ELSE position[c]
         /\ todo'[c] = IF job[c].op = "CallNextUser" THEN {} ELSE todo[c] \ {e}
      \/ /\ ~Wanted(job[c], e, table[e])
         /\ row'[c] = row[c] /\ position'[c] = position[c] /\ todo'[c] = todo[c] \ {e}
  BY <1>2 DEF SelectRow, SerialInv, OrderInv, IInv, TypeOK
<1>4. DraftsAreDone(c)'
  BY <1>1, <1>2 DEF DraftsAreDone, Joining, SerialInv, SerialPart
<1>5. RestIsDone(c)' /\ JobKnown(c)' /\ JoinIsLast(c)'
  BY <1>1, <1>2 DEF RestIsDone, JobKnown, JoinIsLast, Joining, SerialInv, SerialPart
<1>6. PositionIsOfRow(c)'
  BY <1>1, <1>3 DEF PositionIsOfRow, Joining, SerialInv, SerialPart
<1>7. CallIsFirst(c)'
  <2>1. e # 0
    BY DEF EntryIds
  <2> SUFFICES ASSUME job[c].op = "CallNextUser" PROVE CallIsFirst(c)'
    BY <1>1 DEF CallIsFirst
  <2>2. CallIsFirst(c)
    BY DEF SerialInv, SerialPart
  <2>3. ASSUME row[c] # 0 PROVE CallIsFirst(c)'
    BY <1>1, <1>3, <2>2, <2>3 DEF CallIsFirst
  <2>4. ASSUME row[c] = 0, Wanted(job[c], e, table[e]) PROVE CallIsFirst(c)'
    <3>1. table[e].status = "waiting"
      BY <2>4 DEF Wanted
    <3>2. ASSUME NEW f \in EntryIds, table[f].status = "waiting"
          PROVE  table[e].position <= table[f].position
      BY <1>1, <1>2, <2>2, <2>4, <3>1, <3>2 DEF CallIsFirst, IsActive, ActiveStatus
    <3> QED
      BY <1>1, <1>3, <2>1, <2>4, <3>2 DEF CallIsFirst
  <2>5. ASSUME row[c] = 0, ~Wanted(job[c], e, table[e]) PROVE CallIsFirst(c)'
    <3>1. table[e].status # "waiting"
      BY <2>5 DEF Wanted
    <3> QED
      BY <1>1, <1>3, <2>2, <2>5, <3>1 DEF CallIsFirst
  <2> QED
    BY <2>3, <2>4, <2>5
<1> QED
  BY <1>1, <1>4, <1>5, <1>6, <1>7, SerialFromOwn DEF SerialPart, Step

(* The UPDATE or DELETE of the status will visit what it has to mark.       *)
LEMMA SerialOpenMark ==
  ASSUME SerialInv, OrderInv', JoinsAlone', NEW c \in Conns, OpenMark(c)
  PROVE  SerialInv'
<1> USE DEF dbVars, history
<1>1. /\ UNCHANGED <<table, draft, lock, job, row, position>>
      /\ pc[c] = "select" /\ pc'[c] = "mark" /\ row[c] # 0
      /\ todo'[c] = {e \in EntryIds : Marked(job[c], row[c], e, Snapshot(c)[e])}
  BY DEF OpenMark, Accepted, SerialInv, OrderInv, IInv, TypeOK
<1>2. ~Joining(c)
  BY <1>1 DEF Joining, SerialInv, OrderInv, IInv, TransactionInv, JobFitsStatement, Departures
<1>3. \A e \in EntryIds : lock[e] = c => draft[e] = table[e]
  BY <1>1, <1>2 DEF SerialInv, SerialPart, DraftsAreDone
<1>4. \A e \in EntryIds : Snapshot(c)[e] = table[e]
  BY <1>3 DEF Snapshot
<1>5. DraftsAreDone(c)'
  BY <1>1, <1>3, <1>4 DEF DraftsAreDone, AfterMark
<1>6. RestIsDone(c)'
  BY <1>1, <1>4 DEF RestIsDone
<1>7. PositionIsOfRow(c)' /\ JobKnown(c)' /\ JoinIsLast(c)' /\ CallIsFirst(c)'
  BY <1>1, <1>2 DEF PositionIsOfRow, JobKnown, JoinIsLast, CallIsFirst, Joining, SerialInv, SerialPart
<1> QED
  BY <1>1, <1>5, <1>6, <1>7, SerialFromOwn DEF SerialPart, Step

(* It marks one row after the other.                                        *)
LEMMA SerialMarkRow ==
  ASSUME SerialInv, OrderInv', JoinsAlone', NEW c \in Conns, NEW e \in EntryIds, MarkRow(c, e)
  PROVE  SerialInv'
<1> USE DEF history
<1>1. /\ UNCHANGED <<table, pc, job, row, position>>
      /\ pc[c] = "mark" /\ Visit(c, e)
      /\ todo'[c] = todo[c] \ {e}
      /\ \A f \in EntryIds : f # e => draft'[f] = draft[f]
      /\ draft'[e] = IF Marked(job[c], row[c], e, draft[e]) THEN MarkedRow(job[c], draft[e]) ELSE draft[e]
  BY DEF MarkRow, SerialInv, OrderInv, IInv, TypeOK, Table
<1>2. /\ e \in todo[c] /\ ~Joining(c) /\ draft[e] = table[e]
      /\ \A f \in EntryIds : f # e => lock'[f] = lock[f]
      /\ lock'[e] # c => table[e].status = "deleted" /\ lock[e] # c
  BY <1>1, ReachedRow
<1>3. draft'[e] = AfterMark(c, e)
  BY <1>1, <1>2 DEF AfterMark
<1>4. \A f \in EntryIds : AfterMark(c, f)' = AfterMark(c, f)
  BY <1>1 DEF AfterMark
<1>5. DraftsAreDone(c)'
  BY <1>1, <1>2, <1>3, <1>4 DEF DraftsAreDone, Joining, SerialInv, SerialPart
<1>6. RestIsDone(c)'
  <2> SUFFICES ASSUME NEW f \in EntryIds, lock'[f] # c, f \notin todo'[c]
               PROVE  ~Marked(job[c], row[c], f, table[f])
    BY <1>1 DEF RestIsDone
  <2>1. CASE f # e
    BY <1>1, <1>2, <2>1 DEF RestIsDone, SerialInv, SerialPart
  <2>2. CASE f = e
    <3>1. row[c] # 0 /\ lock[row[c]] = c
      BY <1>1 DEF SerialInv, OrderInv, IInv, TransactionInv, HoldsItsRow
    <3> QED
      BY <1>2, <2>2, <3>1 DEF Marked, IsActive, IsStored, StoredStatus, ActiveStatus
  <2> QED
    BY <2>1, <2>2
<1>7. PositionIsOfRow(c)' /\ JobKnown(c)' /\ JoinIsLast(c)' /\ CallIsFirst(c)'
  BY <1>1, <1>2 DEF PositionIsOfRow, JobKnown, JoinIsLast, CallIsFirst, Joining, SerialInv, SerialPart
<1> QED
  BY <1>1, <1>5, <1>6, <1>7, SerialFromOwn DEF SerialPart, Step

(* The gap-closing UPDATE will visit what is behind the gap.                *)
LEMMA SerialOpenShift ==
  ASSUME SerialInv, OrderInv', JoinsAlone', NEW c \in Conns, OpenShift(c)
  PROVE  SerialInv'
<1> USE DEF dbVars, history
<1>1. /\ UNCHANGED <<table, draft, lock, job, row, position>>
      /\ pc[c] = "mark" /\ todo[c] = {}
      /\ ~Joining(c)
      /\ \/ pc'[c] = "shift" /\ todo'[c] = {e \in EntryIds : IsBehind(Snapshot(c)[e], position[c])}
         \/ pc'[c] = "commit"
  BY DEF OpenShift, Joining, Departures, SerialInv, OrderInv, IInv, TypeOK
<1>2. \A e \in EntryIds :
        /\ lock[e] = c => draft[e] = AfterMark(c, e)
        /\ lock[e] # c => ~Marked(job[c], row[c], e, table[e])
        /\ AfterMark(c, e)' = AfterMark(c, e)
        /\ AfterShift(c, e)' = AfterShift(c, e)
  BY <1>1 DEF SerialInv, SerialPart, DraftsAreDone, RestIsDone, AfterMark, AfterShift
<1>3. \A e \in EntryIds : Snapshot(c)[e] = IF lock[e] = c THEN AfterMark(c, e) ELSE table[e]
  BY <1>2 DEF Snapshot
<1>4. DraftsAreDone(c)'
  BY <1>1, <1>2, <1>3 DEF DraftsAreDone, AfterShift
<1>5. RestIsDone(c)'
  BY <1>1, <1>2, <1>3 DEF RestIsDone
<1>6. PositionIsOfRow(c)' /\ JobKnown(c)' /\ JoinIsLast(c)' /\ CallIsFirst(c)'
  BY <1>1 DEF PositionIsOfRow, JobKnown, JoinIsLast, CallIsFirst, Joining, SerialInv, SerialPart
<1> QED
  BY <1>1, <1>4, <1>5, <1>6, SerialFromOwn DEF SerialPart, Step

(* It moves one row after the other.                                        *)
LEMMA SerialShiftRow ==
  ASSUME SerialInv, OrderInv', JoinsAlone', NEW c \in Conns, NEW e \in EntryIds, ShiftRow(c, e)
  PROVE  SerialInv'
<1> USE DEF history
<1>1. /\ UNCHANGED <<table, pc, job, row, position>>
      /\ pc[c] = "shift" /\ Visit(c, e)
      /\ todo'[c] = todo[c] \ {e}
      /\ \A f \in EntryIds : f # e => draft'[f] = draft[f]
      /\ draft'[e] = IF IsBehind(draft[e], position[c]) THEN MovedUp(draft[e]) ELSE draft[e]
  BY DEF ShiftRow, SerialInv, OrderInv, IInv, TypeOK, Table
<1>2. /\ e \in todo[c] /\ ~Joining(c) /\ draft[e] = AfterMark(c, e)
      /\ \A f \in EntryIds : f # e => lock'[f] = lock[f]
      /\ lock'[e] # c => table[e].status = "deleted" /\ lock[e] # c
  BY <1>1, ReachedRow
<1>3. draft'[e] = AfterShift(c, e)
  BY <1>1, <1>2 DEF AfterShift
<1>4. \A f \in EntryIds :
        AfterMark(c, f)' = AfterMark(c, f) /\ AfterShift(c, f)' = AfterShift(c, f)
  BY <1>1 DEF AfterMark, AfterShift
<1>5. DraftsAreDone(c)'
  BY <1>1, <1>2, <1>3, <1>4 DEF DraftsAreDone, Joining, SerialInv, SerialPart
<1>6. RestIsDone(c)'
  <2> SUFFICES ASSUME NEW f \in EntryIds, lock'[f] # c
               PROVE  /\ ~Marked(job[c], row[c], f, table[f])
                      /\ f \notin todo'[c] => ~IsBehind(table[f], position[c])
    BY <1>1 DEF RestIsDone
  <2>1. lock[f] # c
    BY <1>2
  <2>2. f = e => ~IsBehind(table[f], position[c])
    BY <1>2 DEF IsBehind, IsActive, ActiveStatus
  <2> QED
    BY <1>1, <2>1, <2>2 DEF RestIsDone, SerialInv, SerialPart
<1>7. PositionIsOfRow(c)' /\ JobKnown(c)' /\ JoinIsLast(c)' /\ CallIsFirst(c)'
  BY <1>1, <1>2 DEF PositionIsOfRow, JobKnown, JoinIsLast, CallIsFirst, Joining, SerialInv, SerialPart
<1> QED
  BY <1>1, <1>5, <1>6, <1>7, SerialFromOwn DEF SerialPart, Step

(* A connection that has ended its transaction.                             *)
LEMMA SerialRelease ==
  ASSUME IInv, NEW c \in Conns, Release(c)
  PROVE  SerialPart(c)'
<1>1. /\ pc'[c] = "idle" /\ job'[c] = NoJob /\ row'[c] = 0 /\ ~Joining(c)'
      /\ \A e \in EntryIds : lock'[e] # c
  BY DEF Release, Joining, NoJob, IInv, TypeOK
<1> QED
  BY <1>1 DEF SerialPart, DraftsAreDone, RestIsDone, PositionIsOfRow, JobKnown, JoinIsLast, CallIsFirst, NoJob

(* A rollback commits nothing.                                              *)
LEMMA SerialRollback ==
  ASSUME SerialInv, OrderInv', JoinsAlone', NEW c \in Conns, Step(c) \/ Fail(c), Rollback(c)
  PROVE  SerialInv'
BY SerialFromOwn, SerialRelease DEF Rollback, SerialInv, OrderInv

-----------------------------------------------------------------------------
(* Refinement: a commit is one step of AtomicQueue.                         *)

Promise == INSTANCE AtomicQueueProofs WITH queue <- table

(* AtomicQueue reads a table in the same way.                               *)
LEMMA SameReading ==
  /\ Atomic!EntryIds = EntryIds
  /\ Atomic!DeletedRow = DeletedRow
  /\ \A r : (Atomic!IsActive(r) <=> IsActive(r)) /\ Atomic!MovedUp(r) = MovedUp(r)
  /\ \A r, p : Atomic!IsBehind(r, p) <=> IsBehind(r, p)
  /\ \A u, p : Atomic!WaitingRow(u, p) = WaitingRow(u, p)
  /\ \A t : Atomic!ActiveEntries(t) = ActiveEntries(t)
  /\ \A t, p : Atomic!IsNextPosition(t, p) <=> IsNextPosition(t, p)
BY DEF Atomic!EntryIds, Atomic!ActiveStatus, Atomic!IsActive,
       Atomic!ActiveEntries, Atomic!IsNextPosition, Atomic!WaitingRow,
       Atomic!DeletedRow, Atomic!IsBehind, Atomic!MovedUp,
       EntryIds, ActiveStatus, IsActive, ActiveEntries, IsNextPosition,
       WaitingRow, DeletedRow, IsBehind, MovedUp

(* The empty table is the empty queue.                                      *)
LEMMA PromiseInit == Init => Promise!QueueInv
<1>1. Init => Promise!Init
  BY DEF Init, Promise!Init, EmptyTable, Promise!EmptyTable, EntryIds, Promise!EntryIds,
         UnusedRow, Promise!UnusedRow
<1> QED
  BY <1>1, Promise!QueueInit

(* Steps of AtomicQueue keep what AtomicQueueProofs says they keep.         *)
LEMMA PromiseStep ==
  ASSUME TypeOK, ContiguousPositions, OneEntryPerUser, Atomic!Next
  PROVE  ContiguousPositions' /\ OneEntryPerUser'
<1>1. Promise!Next
  BY DEF Atomic!Next, Promise!Next,
         Atomic!Join, Atomic!Call, Atomic!Leave, Atomic!Remove,
         Atomic!Conclude, Atomic!CloseGap, Atomic!EntryIds,
         Atomic!ActiveStatus, Atomic!IsActive, Atomic!ActiveEntries,
         Atomic!IsNextPosition, Atomic!WaitingRow, Atomic!DeletedRow,
         Atomic!IsBehind, Atomic!MovedUp,
         Promise!Join, Promise!Call, Promise!Leave, Promise!Remove,
         Promise!Conclude, Promise!CloseGap, Promise!EntryIds,
         Promise!ActiveStatus, Promise!IsActive, Promise!ActiveEntries,
         Promise!IsNextPosition, Promise!WaitingRow, Promise!DeletedRow,
         Promise!IsBehind, Promise!MovedUp
<1>2. Promise!QueueInv
  BY DEF Promise!QueueInv, ContiguousPositions, OneEntryPerUser,
         Promise!Contiguous, Promise!OneEntryPerUser, Atomic!Contiguous, Atomic!OneEntryPerUser,
         TypeOK, Table, Promise!Table, Row, Promise!Row, StoredStatus, Promise!StoredStatus,
         Atomic!EntryIds, Atomic!ActiveStatus, Atomic!IsActive,
         Atomic!ActiveEntries,
         Promise!EntryIds, Promise!ActiveStatus, Promise!IsActive,
         Promise!ActiveEntries, EntryIds, ActiveStatus
<1>3. Promise!QueueInv'
  BY <1>1, <1>2, Promise!QueueStep
<1> QED
  BY <1>3 DEF Promise!QueueInv, ContiguousPositions, OneEntryPerUser,
         Promise!Contiguous, Promise!OneEntryPerUser, Atomic!Contiguous, Atomic!OneEntryPerUser,
         Atomic!EntryIds, Atomic!ActiveStatus, Atomic!IsActive,
         Atomic!ActiveEntries,
         Promise!EntryIds, Promise!ActiveStatus, Promise!IsActive,
         Promise!ActiveEntries

(* The queue is in order: in the terms of QueueTable.                       *)
LEMMA OnePlaceEach ==
  ASSUME ContiguousPositions
  PROVE  \A e, f \in ActiveEntries(table) : table[e].position = table[f].position => e = f
BY SameReading DEF ContiguousPositions, Atomic!Contiguous

(* What a departure or a call commits, whatever has been committed since    *)
(* its statements read their rows.                                          *)
LEMMA CommittedRows ==
  ASSUME SerialInv, NEW c \in Conns, Commit(c), ~Joining(c)
  PROVE  /\ row[c] \in EntryIds
         /\ Wanted(job[c], row[c], table[row[c]])
         /\ position[c] = table[row[c]].position
         /\ \/ /\ job[c].op \in Departures
               /\ \A e \in EntryIds : table'[e] = AfterShift(c, e)
            \/ /\ job[c].op = "CallNextUser"
               /\ \A e \in EntryIds : table'[e] = AfterMark(c, e)
<1>1. /\ pc[c] \in {"shift", "commit"} /\ (pc[c] = "shift" => todo[c] = {})
      /\ pc[c] = "shift" => job[c].op \in Departures
      /\ pc[c] = "commit" => job[c].op = "CallNextUser"
  BY DEF Commit, ReadyToCommit, Joining, SerialInv, OrderInv, IInv, TransactionInv, JobFitsStatement
<1>2. row[c] \in EntryIds /\ row[c] # 0 /\ Wanted(job[c], row[c], table[row[c]])
  BY <1>1 DEF Joining, SerialInv, OrderInv, IInv, TypeOK, TransactionInv, HoldsItsRow
<1>3. position[c] = table[row[c]].position
  BY <1>2 DEF SerialInv, SerialPart, PositionIsOfRow
<1>4. ASSUME NEW e \in EntryIds
      PROVE  /\ pc[c] = "shift" => table'[e] = AfterShift(c, e)
             /\ pc[c] = "commit" => table'[e] = AfterMark(c, e)
  <2>1. table'[e] = IF lock[e] = c THEN draft[e] ELSE table[e]
    BY DEF Commit
  <2>2. CASE lock[e] = c
    BY <1>1, <2>1, <2>2 DEF SerialInv, SerialPart, DraftsAreDone
  <2>3. CASE lock[e] # c
    <3>1. ~Marked(job[c], row[c], e, table[e]) /\ (pc[c] = "shift" => ~IsBehind(table[e], position[c]))
      BY <1>1, <2>3 DEF SerialInv, SerialPart, RestIsDone
    <3> QED
      BY <2>1, <2>3, <3>1 DEF AfterMark, AfterShift
  <2> QED
    BY <2>2, <2>3
<1> QED
  BY <1>1, <1>2, <1>3, <1>4

(* How the status, user and position of a row change in AfterMark.          *)
LEMMA MarkEffect ==
  ASSUME SerialInv, NEW c \in Conns, NEW e \in EntryIds, Wanted(job[c], row[c], table[row[c]]),
         job[c].op \in Departures \cup {"CallNextUser"}
  PROVE  LET m == AfterMark(c, e)
         IN  /\ m \in Row
             /\ job[c].op \in Departures /\ IsActive(m) => m = table[e]
             /\ IsActive(m) => IsActive(table[e]) /\ m.user = table[e].user
                                /\ m.position = table[e].position
             /\ IsStored(m) => IsStored(table[e]) /\ m.user = table[e].user
             /\ m.status = "waiting" => table[e].status = "waiting"
             /\ m.user \in Users => IsStored(m)
<1> DEFINE m == AfterMark(c, e)
<1>1. table[e] \in Row /\ (table[e].user \in Users => IsStored(table[e])) /\ job[c] \in Job
  BY DEF SerialInv, OrderInv, IInv, TypeOK, Table, OwnersStored
<1>2. CASE ~Marked(job[c], row[c], e, table[e])
  BY <1>1, <1>2 DEF AfterMark
<1>3. CASE Marked(job[c], row[c], e, table[e]) /\ job[c].op = "LeaveQueue"
  <2>1. m = DeletedRow
    BY <1>3 DEF AfterMark, MarkedRow
  <2> QED
    BY <2>1 DEF DeletedRow, Row, IsActive, IsStored, StoredStatus, ActiveStatus
<1>4. CASE Marked(job[c], row[c], e, table[e]) /\ job[c].op # "LeaveQueue"
  <2>1. /\ m = [table[e] EXCEPT !.status = NewStatus[job[c].op]]
        /\ job[c].op \in {"ConfirmTurn", "TimeoutUser", "CallNextUser", "RemoveUser"}
    BY <1>4 DEF AfterMark, MarkedRow, Departures
  <2>2. /\ m \in Row /\ m.status = NewStatus[job[c].op]
        /\ m.user = table[e].user /\ m.position = table[e].position
    BY <1>1, <2>1 DEF Row, NewStatus, StoredStatus, ActiveStatus
  <2>3. /\ m.status \in {"confirmed", "timeout", "called", "removed"}
        /\ m.status = "called" <=> job[c].op = "CallNextUser"
    BY <2>1, <2>2 DEF NewStatus
  <2>4. IsStored(table[e]) /\ (job[c].op = "CallNextUser" => IsActive(table[e]))
    BY <1>4, <2>1 DEF Marked, Wanted, Departures, IsStored, IsActive, StoredStatus, ActiveStatus
  <2>5. job[c].op \in Departures => job[c].op # "CallNextUser"
    BY DEF Departures
  <2> QED
    BY <2>2, <2>3, <2>4, <2>5 DEF IsStored, IsActive, StoredStatus, ActiveStatus
<1> QED
  BY <1>2, <1>3, <1>4

(* Departures and calls settle the table.                                   *)
LEMMA CommitSettles ==
  ASSUME SerialInv, NEW c \in Conns, Commit(c), ~Joining(c)
  PROVE  /\ Settles
         /\ \A e \in EntryIds : table'[e].user \in Users => IsStored(table'[e])
<1> DEFINE p == position[c]
<1>1. /\ Wanted(job[c], row[c], table[row[c]])
      /\ \/ /\ job[c].op \in Departures
            /\ \A e \in EntryIds : table'[e] = AfterShift(c, e)
         \/ /\ job[c].op = "CallNextUser"
            /\ \A e \in EntryIds : table'[e] = AfterMark(c, e)
  BY CommittedRows
<1>2. p \in Int /\ \A e \in EntryIds : table[e] \in Row /\ table[e].position \in Int
  BY DEF SerialInv, OrderInv, IInv, TypeOK, Table, Row
<1>3. ASSUME NEW e \in EntryIds
      PROVE  /\ IsActive(AfterMark(c, e)) =>
                  /\ IsActive(table[e]) /\ AfterMark(c, e).user = table[e].user
                  /\ AfterMark(c, e).position = table[e].position
             /\ IsStored(AfterMark(c, e)) => IsStored(table[e]) /\ AfterMark(c, e).user = table[e].user
             /\ AfterMark(c, e).status = "waiting" => table[e].status = "waiting"
             /\ AfterMark(c, e).user \in Users => IsStored(AfterMark(c, e))
             /\ AfterMark(c, e) \in Row
  BY <1>1, MarkEffect
<1>4. ASSUME NEW e \in EntryIds
      PROVE  /\ table'[e].status = AfterMark(c, e).status
             /\ table'[e].user = AfterMark(c, e).user
             /\ IsActive(AfterMark(c, e)) => table'[e].position =
                  IF job[c].op = "CallNextUser" THEN table[e].position ELSE ClosedUp(table[e].position, p)
  <2>1. CASE table'[e] = AfterMark(c, e) /\ job[c].op = "CallNextUser"
    BY <1>3, <2>1
  <2>2. CASE table'[e] = AfterShift(c, e) /\ job[c].op \in Departures
    <3>1. /\ AfterShift(c, e).status = AfterMark(c, e).status
          /\ AfterShift(c, e).user = AfterMark(c, e).user
      BY <1>3 DEF AfterShift, MovedUp, Row
    <3>2. IsActive(AfterMark(c, e)) => AfterShift(c, e).position = ClosedUp(table[e].position, p)
      BY <1>2, <1>3 DEF AfterShift, MovedUp, Row, IsBehind, ClosedUp
    <3> QED
      BY <2>2, <3>1, <3>2 DEF Departures
  <2> QED
    BY <1>1, <2>1, <2>2
<1>5. ASSUME NEW e \in EntryIds
      PROVE  /\ IsActive(table'[e]) <=> IsActive(AfterMark(c, e))
             /\ IsStored(table'[e]) <=> IsStored(AfterMark(c, e))
  BY <1>4 DEF IsActive, IsStored
<1> HIDE DEF p
<1>6. ASSUME NEW e \in EntryIds
      PROVE  /\ IsActive(table'[e]) =>
                  /\ IsActive(table[e]) /\ table'[e].user = table[e].user
                  /\ table'[e].position <= table[e].position
             /\ IsStored(table'[e]) => IsStored(table[e]) /\ table'[e].user = table[e].user
             /\ table'[e].status = "waiting" => table[e].status = "waiting"
             /\ table'[e].user \in Users => IsStored(table'[e])
  BY <1>2, <1>3, <1>4, <1>5 DEF ClosedUp
<1>7. ASSUME NEW e \in EntryIds, NEW f \in EntryIds, IsActive(table'[e]), IsActive(table'[f]),
             table[e].position <= table[f].position
      PROVE  table'[e].position <= table'[f].position
  BY <1>2, <1>4, <1>5, <1>7 DEF ClosedUp
<1> QED
  BY <1>6, <1>7 DEF Settles

(* LeaveQueue, ConfirmTurn, RemoveUserFromQueue and TimeoutUser.            *)
LEMMA DepartureIsAtomic ==
  ASSUME SerialInv, NEW c \in Conns, Commit(c), job[c].op \in Departures
  PROVE  Atomic!Next
<1> DEFINE r == row[c]
           u == [e \in EntryIds |-> AfterMark(c, e)]
<1>1. ~Joining(c)
  BY DEF Joining, Departures
<1>2. /\ r \in EntryIds
      /\ Wanted(job[c], r, table[r])
      /\ position[c] = table[r].position
      /\ \A e \in EntryIds : table'[e] = AfterShift(c, e)
  BY <1>1, CommittedRows DEF Departures
<1>3. table' = Atomic!CloseGap(u, table[r].position)
  <2>1. table' = [e \in EntryIds |-> table'[e]]
    BY DEF Commit
  <2>2. Atomic!CloseGap(u, table[r].position) = [e \in EntryIds |-> AfterShift(c, e)]
    BY <1>2, SameReading DEF Atomic!CloseGap, AfterShift
  <2> QED
    BY <1>2, <2>1, <2>2
<1>4. \A e \in EntryIds : table[e] \in Row /\ (table[e].user \in Users => IsStored(table[e]))
  BY DEF SerialInv, OrderInv, IInv, TypeOK, Table, OwnersStored
<1>5. table = [e \in EntryIds |-> table[e]]
  BY DEF SerialInv, OrderInv, IInv, TypeOK, Table
<1>6. CASE job[c].op = "LeaveQueue"
  <2>1. IsActive(table[r]) /\ table[r].user = job[c].user
    BY <1>2, <1>6 DEF Wanted
  <2>2. u = [e \in EntryIds |-> IF table[e].user = table[r].user /\ IsActive(table[e])
                               THEN DeletedRow ELSE table[e]]
    BY <1>6, <2>1 DEF AfterMark, Marked, MarkedRow
  <2>3. u = [e \in Atomic!EntryIds |-> IF table[e].user = table[r].user /\ Atomic!IsActive(table[e])
                               THEN Atomic!DeletedRow ELSE table[e]]
    BY <2>2, SameReading
  <2>4. Atomic!Leave(r)
    BY <1>3, <2>1, <2>3, SameReading DEF Atomic!Leave
  <2> QED
    BY <1>2, <2>4, SameReading DEF Atomic!Next
<1>7. CASE job[c].op = "RemoveUser"
  <2>1. IsActive(table[r]) /\ table[r].user = job[c].user /\ job[c].user \in Users
    BY <1>2, <1>7 DEF Wanted, SerialInv, SerialPart, JobKnown
  <2>2. u = [e \in EntryIds |-> IF table[e].user = table[r].user
                               THEN [table[e] EXCEPT !.status = "removed"] ELSE table[e]]
    BY <1>4, <1>7, <2>1 DEF AfterMark, Marked, MarkedRow, NewStatus
  <2>3. Atomic!Remove(r)
    BY <1>3, <2>1, <2>2, SameReading DEF Atomic!Remove
  <2> QED
    BY <1>2, <2>3, SameReading DEF Atomic!Next
<1>8. ASSUME job[c].op \in {"ConfirmTurn", "TimeoutUser"},
             NEW s \in {"confirmed", "timeout"}, s = NewStatus[job[c].op]
      PROVE  Atomic!Next
  <2>1. table[r].status = "called"
    <3>1. Changed(c, r)
      BY CommitEffect DEF SerialInv, OrderInv
    <3> QED
      BY <1>8, <3>1 DEF Changed
  <2>2. u = [table EXCEPT ![r].status = s]
    BY <1>2, <1>5, <1>8 DEF AfterMark, Marked, MarkedRow
  <2>3. Atomic!Conclude(r, s)
    BY <1>3, <2>1, <2>2 DEF Atomic!Conclude
  <2> QED
    BY <1>2, <2>3, SameReading DEF Atomic!Next
<1>9. NewStatus["ConfirmTurn"] = "confirmed" /\ NewStatus["TimeoutUser"] = "timeout"
  BY DEF NewStatus
<1> QED
  BY <1>6, <1>7, <1>8, <1>9 DEF Departures

(* CallNextUser.                                                            *)
LEMMA CallIsAtomic ==
  ASSUME SerialInv, NEW c \in Conns, Commit(c), job[c].op = "CallNextUser"
  PROVE  Atomic!Next
<1> DEFINE r == row[c]
<1>1. /\ r \in EntryIds /\ r # 0
      /\ table[r].status = "waiting"
      /\ \A e \in EntryIds : table'[e] = AfterMark(c, e)
  BY CommittedRows DEF Joining, Departures, Wanted, EntryIds
<1>2. \A f \in EntryIds : table[f].status = "waiting" => table[r].position <= table[f].position
  BY <1>1 DEF SerialInv, SerialPart, CallIsFirst
<1>3. table = [e \in EntryIds |-> table[e]] /\ table' = [e \in EntryIds |-> table'[e]]
  BY DEF Commit, SerialInv, OrderInv, IInv, TypeOK, Table
<1>4. table' = [table EXCEPT ![r].status = "called"]
  <2>1. \A e \in EntryIds : AfterMark(c, e) = IF e = r THEN [table[e] EXCEPT !.status = "called"] ELSE table[e]
    BY DEF AfterMark, Marked, MarkedRow, NewStatus
  <2> QED
    BY <1>1, <1>3, <2>1
<1>5. Atomic!Call(r)
  BY <1>1, <1>2, <1>4, SameReading DEF Atomic!Call
<1> QED
  BY <1>1, <1>5, SameReading DEF Atomic!Next

(* What a join commits.                                                     *)
LEMMA JoinedRow ==
  ASSUME SerialInv, NEW c \in Conns, Commit(c), Joining(c)
  PROVE  /\ row[c] \in EntryIds /\ table[row[c]].status = "unused"
         /\ position[c] \in 1 .. row[c]
         /\ job[c].user \in Users
         /\ \A e \in ActiveEntries(table) : table[e].user # job[c].user
         /\ IsNextPosition(table, position[c])
         /\ table' = [table EXCEPT ![row[c]] = WaitingRow(job[c].user, position[c])]
<1> DEFINE r == row[c]
<1>1. pc[c] = "commit"
  BY DEF Commit, ReadyToCommit, Joining, SerialInv, OrderInv, IInv, TransactionInv,
         JobFitsStatement, Departures
<1>2. /\ r \in EntryIds /\ table[r].status = "unused"
      /\ table'[r] = draft[r]
      /\ \A e \in EntryIds : lock[e] # c => table'[e] = table[e]
  BY CommitEffect DEF Joining, Changed, SerialInv, OrderInv
<1>3. \A e \in EntryIds : e # r => table'[e] = table[e]
  BY <1>2 DEF SerialInv, OrderInv, OrderPart, JoinsBehind, Joining
<1>4. /\ draft[r] = WaitingRow(job[c].user, position[c]) /\ position[c] <= r
      /\ \A e \in ActiveEntries(table) : table[e].user # job[c].user
      /\ IsNextPosition(table, position[c])
      /\ job[c].user \in Users
  BY <1>1 DEF SerialInv, SerialPart, JoinIsLast, JobKnown, Joining
<1>5. position[c] >= 1 /\ position[c] \in Int
  BY <1>1 DEF SerialInv, OrderInv, IInv, TypeOK, TransactionInv, HoldsItsRow
<1>6. table = [e \in EntryIds |-> table[e]] /\ table' = [e \in EntryIds |-> table'[e]]
  BY DEF Commit, SerialInv, OrderInv, IInv, TypeOK, Table
<1>7. table' = [table EXCEPT ![r] = WaitingRow(job[c].user, position[c])]
  BY <1>2, <1>3, <1>4, <1>6
<1> QED
  BY <1>2, <1>4, <1>5, <1>7 DEF EntryIds

(* JoinQueue.                                                               *)
LEMMA JoinIsAtomic ==
  ASSUME SerialInv, NEW c \in Conns, Commit(c), Joining(c)
  PROVE  Atomic!Next
<1>1. /\ row[c] \in EntryIds /\ position[c] \in 1 .. MaxEntries /\ job[c].user \in Users
  BY JoinedRow DEF EntryIds
<1>2. Atomic!Join(job[c].user, row[c], position[c])
  BY JoinedRow, SameReading DEF Atomic!Join
<1> QED
  BY <1>1, <1>2, SameReading DEF Atomic!Next

(* Each commit is one step of AtomicQueue.                                  *)
LEMMA CommitIsAtomic ==
  ASSUME SerialInv, NEW c \in Conns, Commit(c)
  PROVE  Atomic!Next
<1>1. job[c].op \in Departures \/ job[c].op = "CallNextUser" \/ Joining(c)
  BY DEF Commit, ReadyToCommit, Joining, SerialInv, OrderInv, IInv, TransactionInv, JobFitsStatement
<1> QED
  BY <1>1, DepartureIsAtomic, CallIsAtomic, JoinIsAtomic

-----------------------------------------------------------------------------
(* The invariant.                                                           *)

(* Whoever is called joined before all who wait: nobody it found on joining *)
(* is still waiting.                                                        *)
LEMMA CalledInOrder ==
  ASSUME SerialInv, NEW c \in Conns, Commit(c), job[c].op = "CallNextUser"
  PROVE  \A f \in ahead[row[c]] : table'[f].status # "waiting"
<1> DEFINE r == row[c]
<1>1. ~Joining(c)
  BY DEF Joining
<1>2. r \in EntryIds /\ r # 0 /\ table[r].status = "waiting"
  BY <1>1, CommittedRows DEF Wanted, Departures, EntryIds
<1>3. r \notin ahead[r] /\ ahead[r] \subseteq EntryIds
  BY <1>2 DEF SerialInv, NotAheadOfItself, OrderInv, IInv, TypeOK
<1> SUFFICES ASSUME NEW f \in ahead[r], table'[f].status = "waiting" PROVE FALSE
  OBVIOUS
<1>4. f \in EntryIds /\ table[f].status = "waiting"
  BY <1>1, <1>3, CommitSettles DEF Settles
<1>5. r \in ActiveEntries(table) /\ f \in ActiveEntries(table)
  BY <1>2, <1>4 DEF ActiveEntries, IsActive, ActiveStatus
<1>6. table[r].position <= table[f].position
  BY <1>2, <1>4 DEF SerialInv, SerialPart, CallIsFirst
<1>7. table[f].position <= table[r].position
  BY <1>5 DEF SerialInv, OrderInv, NoOvertaking
<1>8. table[r].position \in Int /\ table[f].position \in Int
  BY <1>2, <1>4 DEF SerialInv, OrderInv, IInv, TypeOK, Table, Row
<1>9. table[r].position = table[f].position
  BY <1>6, <1>7, <1>8
<1>10. f = r
  BY <1>5, <1>9, OnePlaceEach DEF SerialInv
<1> QED
  BY <1>3, <1>10

(* A commit keeps the invariant.                                            *)
LEMMA SerialCommit ==
  ASSUME SerialInv, OrderInv', JoinsAlone', NEW c \in Conns, Commit(c)
  PROVE  SerialInv'
<1>1. IInv /\ TypeOK' /\ StepsAlone(c) /\ Step(c)
  BY OneStepsAlone DEF SerialInv, OrderInv, IInv, Step
<1>2. /\ Release(c)
      /\ \A e \in EntryIds : ahead'[e] \subseteq ahead[e]
  BY DEF Commit, SerialInv, OrderInv, IInv, TypeOK
<1>3. SerialPart(c)'
  BY <1>1, <1>2, SerialRelease
<1>4. ContiguousPositions' /\ OneEntryPerUser'
  BY CommitIsAtomic, PromiseStep DEF SerialInv, OrderInv, IInv
<1>5. NotAheadOfItself'
  BY <1>2 DEF NotAheadOfItself, SerialInv
<1>6. \A d \in Conns : d # c => ~Joining(d)
  BY <1>1, JoinIsAlone DEF SerialInv
<1>7. CASE ~Joining(c)
  <2>1. /\ Settles
        /\ \A e \in EntryIds : table'[e].user \in Users => IsStored(table'[e])
    BY <1>7, CommitSettles
  <2>2. \A d \in Conns : d # c => SerialPart(d)'
    BY <1>1, <1>6, <2>1, OthersKeepSerial
  <2>3. OwnersStored'
    BY <2>1 DEF OwnersStored
  <2>4. PositionsWithinIds'
    <3> SUFFICES ASSUME NEW e \in EntryIds, IsActive(table'[e]) PROVE table'[e].position <= e
      BY DEF PositionsWithinIds, ActiveEntries
    <3>1. table[e].position <= e /\ table'[e].position <= table[e].position
      BY <2>1 DEF Settles, SerialInv, PositionsWithinIds, ActiveEntries
    <3>2. e \in Int
      BY DEF EntryIds
    <3>3. table[e].position \in Int /\ table'[e].position \in Int
      BY <1>1 DEF IInv, TypeOK, Table, Row
    <3> QED
      BY <3>1, <3>2, <3>3
  <2>5. FirstComeFirstCalled'
    <3> SUFFICES ASSUME NEW e \in EntryIds, table'[e].status = "called", NEW f \in ahead'[e]
                 PROVE  table'[f].status # "waiting"
      BY DEF FirstComeFirstCalled
    <3>1. f \in ahead[e] /\ f \in EntryIds
      BY <1>1, <1>2 DEF IInv, TypeOK
    <3>2. CASE table[e].status = "called"
      BY <2>1, <3>1, <3>2 DEF Settles, SerialInv, FirstComeFirstCalled
    <3>3. CASE table[e].status # "called"
      <4>1. Changed(c, e)
        BY <1>1, <3>3, CommitEffect DEF Untouched
      <4>2. e = row[c] /\ job[c].op = "CallNextUser"
        <5>1. table'[e] = draft[e] \/ table'[e] = table[e]
          BY <1>1, CommitEffect
        <5> QED
          BY <3>3, <4>1, <5>1 DEF Changed
      <4> QED
        BY <3>1, <4>2, CalledInOrder
    <3> QED
      BY <3>2, <3>3
  <2> QED
    BY <1>3, <1>4, <1>5, <2>2, <2>3, <2>4, <2>5 DEF SerialInv
<1>8. CASE Joining(c)
  <2>1. /\ row[c] \in EntryIds /\ table[row[c]].status = "unused"
        /\ position[c] \in 1 .. row[c] /\ job[c].user \in Users
        /\ table' = [table EXCEPT ![row[c]] = WaitingRow(job[c].user, position[c])]
    BY <1>8, JoinedRow
  <2>2. /\ \A e \in EntryIds : e # row[c] => table'[e] = table[e]
        /\ table'[row[c]] = WaitingRow(job[c].user, position[c])
    BY <1>1, <2>1 DEF IInv, TypeOK, Table
  <2>3. ASSUME NEW d \in Conns, d # c PROVE SerialPart(d)'
    <3>1. pc[d] = "idle"
      BY <1>8, <2>3 DEF SerialInv, JoinsAlone
    <3>2. pc'[d] = "idle" /\ job'[d] = NoJob /\ row'[d] = 0
      BY <1>1, <2>3, <3>1, NoRowYet DEF StepsAlone, SerialInv, SerialPart, JobKnown
    <3>3. \A e \in EntryIds : lock'[e] # d
      BY <3>2 DEF OrderInv, IInv, TransactionInv, HoldsNothingYet
    <3> QED
      BY <3>2, <3>3 DEF SerialPart, DraftsAreDone, RestIsDone, PositionIsOfRow, JobKnown,
           JoinIsLast, CallIsFirst, NoJob, Joining
  <2>4. OwnersStored'
    BY <2>1, <2>2 DEF OwnersStored, SerialInv, WaitingRow, IsStored, StoredStatus, ActiveStatus
  <2>5. PositionsWithinIds'
    BY <2>1, <2>2 DEF PositionsWithinIds, SerialInv, ActiveEntries, WaitingRow
  <2>6. FirstComeFirstCalled'
    <3> SUFFICES ASSUME NEW e \in EntryIds, table'[e].status = "called", NEW f \in ahead'[e]
                 PROVE  table'[f].status # "waiting"
      BY DEF FirstComeFirstCalled
    <3>1. f \in ahead[e] /\ f \in EntryIds
      BY <1>1, <1>2 DEF IInv, TypeOK
    <3>2. e # row[c] /\ table[e].status = "called"
      BY <2>2 DEF WaitingRow
    <3>3. f # row[c]
      BY <2>1, <3>1 DEF SerialInv, OrderInv, SeenRows
    <3> QED
      BY <2>2, <3>1, <3>2, <3>3 DEF SerialInv, FirstComeFirstCalled
  <2> QED
    BY <1>3, <1>4, <1>5, <2>3, <2>4, <2>5, <2>6 DEF SerialInv
<1> QED
  BY <1>7, <1>8

(* The empty queue.                                                         *)
LEMMA SerialInit == Init => SerialInv
<1> SUFFICES ASSUME Init PROVE SerialInv
  OBVIOUS
<1>1. OrderInv
  BY OrderInit
<1>2. JoinsAlone /\ NotAheadOfItself
  BY DEF Init, JoinsAlone, NotAheadOfItself
<1>3. \A e \in EntryIds : table[e] = UnusedRow
  BY DEF Init, EmptyTable
<1>4. ActiveEntries(table) = {}
  BY <1>3 DEF ActiveEntries, IsActive, ActiveStatus, UnusedRow
<1>5. PositionsWithinIds /\ OwnersStored /\ FirstComeFirstCalled
  BY <1>3, <1>4 DEF PositionsWithinIds, OwnersStored, FirstComeFirstCalled, UnusedRow
<1>6. ContiguousPositions /\ OneEntryPerUser
  BY <1>4, SameReading DEF ContiguousPositions, OneEntryPerUser, Atomic!Contiguous, Atomic!OneEntryPerUser
<1>7. ASSUME NEW c \in Conns PROVE SerialPart(c)
  BY DEF Init, SerialPart, DraftsAreDone, RestIsDone, PositionIsOfRow, JobKnown, JoinIsLast,
         CallIsFirst, NoJob, Joining
<1> QED
  BY <1>1, <1>2, <1>5, <1>6, <1>7 DEF SerialInv

(* Every step keeps the invariant, if joins run alone.                      *)
LEMMA SerialStep == SerialInv /\ [Next /\ JoinsAlone']_vars => SerialInv'
<1> SUFFICES ASSUME SerialInv, [Next /\ JoinsAlone']_vars PROVE SerialInv'
  OBVIOUS
<1>1. OrderInv'
  BY OrderStep DEF SerialInv
<1>2. CASE UNCHANGED vars \/ ((\E b \in PauseValues : SetPaused(b)) /\ JoinsAlone')
  <2>1. UNCHANGED <<table, draft, lock, nextId, pc, job, row, position, todo, key, ahead>>
    BY <1>2 DEF vars, dbVars, txVars, history, SetPaused
  <2>2. ContiguousPositions' /\ OneEntryPerUser'
    BY <2>1 DEF ContiguousPositions, OneEntryPerUser, Atomic!Contiguous, Atomic!OneEntryPerUser,
         Atomic!ActiveEntries, SerialInv
  <2>3. JoinsAlone' /\ NotAheadOfItself' /\ FirstComeFirstCalled' /\ PositionsWithinIds' /\ OwnersStored'
    BY <2>1 DEF JoinsAlone, Joining, NotAheadOfItself, FirstComeFirstCalled, PositionsWithinIds,
         OwnersStored, ActiveEntries, SerialInv
  <2>4. ASSUME NEW c \in Conns PROVE SerialPart(c)'
    BY <2>1 DEF SerialInv, SerialPart, DraftsAreDone, RestIsDone, PositionIsOfRow, JobKnown,
         JoinIsLast, CallIsFirst, Joining, AfterMark, AfterShift, ActiveEntries, IsNextPosition
  <2> QED
    BY <1>1, <2>2, <2>3, <2>4 DEF SerialInv
<1>3. ASSUME NEW c \in Conns, Begin(c), JoinsAlone' PROVE SerialInv'
  <2>1. ASSUME NEW u \in Users, NEW op \in {"LeaveQueue", "ConfirmTurn", "RemoveUser"},
               BeginDeparture(c, UserJob(op, u))
        PROVE  SerialInv'
    <3>1. UserJob(op, u).op \in Departures /\ UserJob(op, u).user \in Users
      BY DEF UserJob, Departures
    <3> QED
      BY <1>1, <1>3, <2>1, <3>1, SerialBeginDeparture
  <2>2. ASSUME NEW e \in EntryIds, BeginDeparture(c, TimeoutJob(e))
        PROVE  SerialInv'
    <3>1. TimeoutJob(e).op = "TimeoutUser" /\ "TimeoutUser" \in Departures
      BY DEF TimeoutJob, Departures
    <3> QED
      BY <1>1, <1>3, <2>2, <3>1, SerialBeginDeparture
  <2> QED
    BY <1>1, <1>3, <2>1, <2>2, SerialBeginJoin, SerialBeginCall DEF Begin
<1>4. ASSUME NEW c \in Conns, Step(c), JoinsAlone' PROVE SerialInv'
  <2>1. CASE ReadMaxPosition(c) \/ InsertEntry(c) \/ OpenSelect(c) \/ OpenMark(c) \/ OpenShift(c)
    BY <1>1, <1>4, <2>1, SerialReadMax, SerialInsert, SerialOpenSelect, SerialOpenMark, SerialOpenShift
  <2>2. CASE \E e \in EntryIds : SelectRow(c, e) \/ MarkRow(c, e) \/ ShiftRow(c, e)
    BY <1>1, <1>4, <2>2, SerialSelectRow, SerialMarkRow, SerialShiftRow
  <2>3. CASE Refuse(c) \/ Commit(c)
    BY <1>1, <1>4, <2>3, SerialRollback, SerialCommit DEF Refuse
  <2> QED
    BY <1>4, <2>1, <2>2, <2>3 DEF Step
<1>5. ASSUME NEW c \in Conns, Fail(c), JoinsAlone' PROVE SerialInv'
  BY <1>1, <1>5, SerialRollback DEF Fail
<1> QED
  BY <1>2, <1>3, <1>4, <1>5 DEF Next

(* While joins run alone, the rows a transaction will commit are those the  *)
(* rows committed so far determine, however departures and calls overlap.   *)
THEOREM SerialInvariance == SerialJoinsSpec => []SerialInv
BY SerialInit, SerialStep, PTL DEF SerialJoinsSpec

-----------------------------------------------------------------------------
(* What follows from it.                                                    *)

(* README, "inconsistent queue ordering": the active positions are 1 .. n   *)
(* as long as no two joins overlap, whatever else does.                     *)
THEOREM PositionsStayContiguous == SerialJoinsSpec => []ContiguousPositions
<1>1. SerialInv => ContiguousPositions
  BY DEF SerialInv
<1> QED
  BY <1>1, SerialInvariance, PTL

(* The same for users: nobody is in the queue twice.                        *)
THEOREM UsersStayUnique == SerialJoinsSpec => []OneEntryPerUser
<1>1. SerialInv => OneEntryPerUser
  BY DEF SerialInv
<1> QED
  BY <1>1, SerialInvariance, PTL

(* First come, first called: of those an entry found in the queue on        *)
(* joining, none is still waiting when it is called.                        *)
THEOREM FirstComersAreCalledFirst == SerialJoinsSpec => []FirstComeFirstCalled
<1>1. SerialInv => FirstComeFirstCalled
  BY DEF SerialInv
<1> QED
  BY <1>1, SerialInvariance, PTL

(* The empty table maps to the empty queue.                                 *)
LEMMA AtomicInit == Init => Atomic!Init
BY DEF Init, Atomic!Init, EmptyTable, Atomic!EmptyTable, EntryIds, Atomic!EntryIds,
       UnusedRow, Atomic!UnusedRow

(* A commit maps to one step of AtomicQueue, every other step to a stutter. *)
LEMMA AtomicStep == SerialInv /\ [Next]_vars => [Atomic!Next]_table
<1> SUFFICES ASSUME SerialInv, [Next]_vars, table' # table PROVE Atomic!Next
  OBVIOUS
<1>1. \E c \in Conns : Commit(c)
  BY DEF Next, Begin, Step, BeginJoin, BeginDeparture, BeginCall, ReadMaxPosition, InsertEntry,
         OpenSelect, OpenMark, OpenShift, SelectRow, MarkRow, ShiftRow, Refuse, Fail, Rollback,
         SetPaused, vars, dbVars
<1> QED
  BY <1>1, CommitIsAtomic

(* README, "Race condition prevention using DB transactions": with joins    *)
(* alone, overlapping transactions change the table as if each method were  *)
(* one indivisible step.                                                    *)
THEOREM TransactionsAreAtomic == SerialJoinsSpec => AtomicSpec
<1>1. Init => Atomic!Init
  BY AtomicInit
<1>2. SerialInv /\ [Next /\ JoinsAlone']_vars => [Atomic!Next]_table
  BY AtomicStep
<1>3. SerialJoinsSpec => Atomic!Init /\ [][Atomic!Next]_table
  BY <1>1, <1>2, SerialInvariance, PTL DEF SerialJoinsSpec
<1> QED
  BY <1>3 DEF AtomicSpec, Atomic!Spec

=============================================================================
