----------------------- MODULE QueueRepositoryProofs -----------------------
(***************************************************************************)
(* Theorems about QueueRepository, for any number of users, entries and    *)
(* connections.  None of them needs JoinsAlone: they are what the row      *)
(* locks guarantee whatever runs at the same time.                         *)
(*                                                                         *)
(* The argument: a row that a transaction has not locked is as committed   *)
(* (UnlockedIsCommitted); the row it has locked differs from the committed *)
(* one at most by that transaction's own DELETE or UPDATE (OwnChange), and *)
(* the row its SELECT ... FOR UPDATE returned stays locked, still in the   *)
(* status the SELECT asked for, until the commit (HoldsItsRow).            *)
(***************************************************************************)
EXTENDS QueueRepository, TLAPS

(* The draft of a row nobody holds is the committed row.                    *)
UnlockedIsCommitted == \A e \in EntryIds : lock[e] = NoConn => draft[e] = table[e]

(* Ids not handed out yet.                                                  *)
FreshIds ==
  \A e \in EntryIds : e >= nextId => lock[e] = NoConn /\ table[e].status = "unused"

(* Stored rows have positions from 1 on.                                    *)
PositiveRows ==
  \A e \in EntryIds :
    /\ IsStored(table[e]) => table[e].position >= 1
    /\ IsStored(draft[e]) => draft[e].position >= 1

(* A connection that has not reached a locking statement holds no row.      *)
HoldsNothingYet(c) ==
  pc[c] \in {"idle", "max", "insert", "first"} => \A e \in EntryIds : lock[e] # c

JobFitsStatement(c) ==
  /\ pc[c] \in {"max", "insert"} => job[c].op = "JoinQueue"
  /\ pc[c] = "first" => job[c].op = "CallNextUser"
  /\ pc[c] \in {"select", "mark"} => job[c].op \in Departures \cup {"CallNextUser"}
  /\ pc[c] = "shift" => job[c].op \in Departures
  /\ pc[c] = "commit" => job[c].op \in {"JoinQueue", "CallNextUser"}

(* What the transaction of c has made of the status of e.                   *)
Changed(c, e) ==
  \/ /\ job[c].op = "JoinQueue"
     /\ e = row[c]
     /\ table[e].status = "unused" /\ draft[e].status = "waiting"
  \/ /\ job[c].op = "LeaveQueue"
     /\ IsActive(table[e]) /\ draft[e].status = "deleted"
  \/ /\ job[c].op = "RemoveUser"
     /\ IsStored(table[e]) /\ draft[e].status = "removed"
  \/ /\ job[c].op = "ConfirmTurn"
     /\ e = row[c]
     /\ table[e].status = "called" /\ draft[e].status = "confirmed"
  \/ /\ job[c].op = "TimeoutUser"
     /\ e = row[c]
     /\ table[e].status = "called" /\ draft[e].status = "timeout"
  \/ /\ job[c].op = "CallNextUser"
     /\ e = row[c]
     /\ table[e].status = "waiting" /\ draft[e].status = "called"

Untouched(e) == draft[e].status = table[e].status /\ draft[e].user = table[e].user

(* A locked row is as committed, or as the statements of its holder left it. *)
OwnChange(c) ==
  \A e \in EntryIds : lock[e] = c =>
    Untouched(e) \/ (pc[c] \in {"mark", "shift", "commit"} /\ Changed(c, e))

(* The row the first statement returned is locked and as it was wanted.     *)
HoldsItsRow(c) ==
  /\ row[c] # 0 =>
       /\ lock[row[c]] = c
       /\ position[c] >= 1
       /\ job[c].op # "JoinQueue" => Wanted(job[c], row[c], table[row[c]])
  /\ pc[c] \in {"mark", "shift", "commit"} => row[c] # 0
  /\ pc[c] \in {"mark", "shift", "commit"} /\ job[c].op = "TimeoutUser"
       => table[row[c]].status = "called"
  /\ pc[c] = "mark" => row[c] \in todo[c] \/ Changed(c, row[c])
  /\ pc[c] \in {"shift", "commit"} => Changed(c, row[c])

(* The position a join is about to use, and the rows a statement visits.    *)
ReadsRows(c) ==
  /\ pc[c] = "insert" => position[c] >= 1
  /\ \A e \in todo[c] : e < nextId

TransactionInv(c) ==
  /\ HoldsNothingYet(c)
  /\ JobFitsStatement(c)
  /\ OwnChange(c)
  /\ HoldsItsRow(c)
  /\ ReadsRows(c)

IInv ==
  /\ TypeOK
  /\ UnlockedIsCommitted
  /\ FreshIds
  /\ PositiveRows
  /\ \A c \in Conns : TransactionInv(c)

-----------------------------------------------------------------------------
(* Typing.                                                                  *)

USE QueueTableAssumption, QueueRepositoryAssumption

(* The rows of a table have their fields.                                   *)
LEMMA RowsTyped ==
  /\ UnusedRow \in Row /\ DeletedRow \in Row
  /\ \A u \in Users, p \in Int : WaitingRow(u, p) \in Row
  /\ \A r \in Row : MovedUp(r) \in Row
  /\ \A r \in Row, j \in Job : j.op \in Departures \cup {"CallNextUser"} => MarkedRow(j, r) \in Row
BY DEF Row, UnusedRow, DeletedRow, WaitingRow, MovedUp, MarkedRow, NewStatus, Job,
       StoredStatus, ActiveStatus, Departures

(* The job of each method has its fields.                                   *)
LEMMA JobsTyped ==
  /\ NoJob \in Job /\ CallJob \in Job
  /\ \A u \in Users : \A op \in Ops : UserJob(op, u) \in Job
  /\ \A e \in EntryIds : TimeoutJob(e) \in Job
BY DEF NoJob, CallJob, UserJob, TimeoutJob, Job, Ops, Departures

(* The initial state is well typed.                                         *)
LEMMA TypeInit == Init => TypeOK
<1> SUFFICES ASSUME Init PROVE TypeOK
  OBVIOUS
<1>1. table \in Table /\ draft \in Table
  BY RowsTyped DEF Init, EmptyTable, Table
<1>2. nextId \in 1 .. MaxEntries + 1
  BY DEF Init
<1>3. job \in [Conns -> Job] /\ key \in [Conns -> [EntryIds -> Int]]
  BY JobsTyped DEF Init, Unordered
<1>4. /\ lock \in [EntryIds -> Conns \cup {NoConn}]
      /\ paused \in BOOLEAN
      /\ pc \in [Conns -> Statements]
  BY DEF Init, Statements
<1>5. /\ row \in [Conns -> EntryIds \cup {0}]
      /\ position \in [Conns -> Int]
      /\ todo \in [Conns -> SUBSET EntryIds]
      /\ ahead \in [EntryIds -> SUBSET EntryIds]
      /\ seen \in [Conns -> SUBSET EntryIds]
  BY DEF Init
<1> QED
  BY <1>1, <1>2, <1>3, <1>4, <1>5 DEF TypeOK

(* The end of a transaction keeps the types.                                *)
LEMMA TypeRollback ==
  ASSUME TypeOK, NEW c \in Conns, Rollback(c)
  PROVE  TypeOK'
BY JobsTyped DEF TypeOK, Rollback, Release, Table, Statements, Unordered

(* Every step keeps the types.                                              *)
LEMMA TypeStep == TypeOK /\ [Next]_vars => TypeOK'
<1> SUFFICES ASSUME TypeOK, [Next]_vars PROVE TypeOK'
  OBVIOUS
<1>1. ASSUME NEW c \in Conns, NEW u \in Users, BeginJoin(c, u) PROVE TypeOK'
  BY <1>1, JobsTyped DEF BeginJoin, TypeOK, Ops, Statements, dbVars, history
<1>2. ASSUME NEW c \in Conns, NEW j \in Job, BeginDeparture(c, j) PROVE TypeOK'
  BY <1>2 DEF BeginDeparture, TypeOK, Statements, dbVars, history
<1>3. ASSUME NEW c \in Conns, BeginCall(c) PROVE TypeOK'
  BY <1>3, JobsTyped DEF BeginCall, TypeOK, Statements, dbVars, history
<1>4. ASSUME NEW c \in Conns, ReadMaxPosition(c) PROVE TypeOK'
  BY <1>4 DEF ReadMaxPosition, TypeOK, Statements, dbVars, ActiveEntries
<1>5. ASSUME NEW c \in Conns, InsertEntry(c) PROVE TypeOK'
  <2>1. nextId \in EntryIds /\ nextId' \in 1 .. MaxEntries + 1
    BY <1>5 DEF InsertEntry, TypeOK, EntryIds
  <2>2. CASE job[c].user \in Users
    BY <1>5, <2>1, <2>2, RowsTyped DEF InsertEntry, TypeOK, Table, Statements
  <2>3. CASE job[c].user = NoUser
    <3>1. WaitingRow(job[c].user, position[c]) \in Row
      BY <2>3 DEF TypeOK, WaitingRow, Row, StoredStatus, ActiveStatus
    <3> QED
      BY <1>5, <2>1, <3>1 DEF InsertEntry, TypeOK, Table, Statements
  <2> QED
    BY <2>2, <2>3 DEF TypeOK, Job
<1>6. ASSUME NEW c \in Conns, OpenSelect(c) PROVE TypeOK'
  BY <1>6 DEF OpenSelect, TypeOK, Statements, dbVars, history, Table, Row
<1>7. ASSUME NEW c \in Conns, OpenMark(c) PROVE TypeOK'
  <2>1. todo' \in [Conns -> SUBSET EntryIds] /\ key' \in [Conns -> [EntryIds -> Int]]
    BY <1>7 DEF OpenMark, TypeOK, Unordered
  <2>2. pc' \in [Conns -> Statements]
    BY <1>7 DEF OpenMark, TypeOK, Statements
  <2> QED
    BY <1>7, <2>1, <2>2 DEF OpenMark, TypeOK, dbVars, history
<1>8. ASSUME NEW c \in Conns, OpenShift(c) PROVE TypeOK'
  <2>1. todo' \in [Conns -> SUBSET EntryIds]
    BY <1>8 DEF OpenShift, TypeOK
  <2>2. pc' \in [Conns -> Statements]
    BY <1>8 DEF OpenShift, TypeOK, Statements
  <2> QED
    BY <1>8, <2>1, <2>2 DEF OpenShift, TypeOK, dbVars, history
<1>9. ASSUME NEW c \in Conns, NEW e \in EntryIds, SelectRow(c, e) PROVE TypeOK'
  <2>1. lock' \in [EntryIds -> Conns \cup {NoConn}]
    BY <1>9 DEF SelectRow, Visit, LockVisited, TypeOK
  <2>2. row' \in [Conns -> EntryIds \cup {0}]
    BY <1>9 DEF SelectRow, TypeOK
  <2>3. position' \in [Conns -> Int]
    BY <1>9 DEF SelectRow, TypeOK, Table, Row
  <2>4. todo' \in [Conns -> SUBSET EntryIds]
    BY <1>9 DEF SelectRow, TypeOK
  <2> QED
    BY <1>9, <2>1, <2>2, <2>3, <2>4 DEF SelectRow, TypeOK, history
<1>10. ASSUME NEW c \in Conns, NEW e \in EntryIds, MarkRow(c, e) PROVE TypeOK'
  <2>1. Marked(job[c], row[c], e, draft[e]) => MarkedRow(job[c], draft[e]) \in Row
    BY RowsTyped DEF Marked, TypeOK, Table, Departures
  <2>2. lock' \in [EntryIds -> Conns \cup {NoConn}]
    BY <1>10 DEF MarkRow, Visit, LockVisited, TypeOK
  <2>3. draft' \in Table
    BY <1>10, <2>1 DEF MarkRow, TypeOK, Table
  <2>4. todo' \in [Conns -> SUBSET EntryIds]
    BY <1>10 DEF MarkRow, TypeOK
  <2> QED
    BY <1>10, <2>1, <2>2, <2>3, <2>4 DEF MarkRow, TypeOK, history
<1>11. ASSUME NEW c \in Conns, NEW e \in EntryIds, ShiftRow(c, e) PROVE TypeOK'
  <2>1. MovedUp(draft[e]) \in Row
    BY RowsTyped DEF TypeOK, Table
  <2>2. lock' \in [EntryIds -> Conns \cup {NoConn}]
    BY <1>11 DEF ShiftRow, Visit, LockVisited, TypeOK
  <2>3. draft' \in Table
    BY <1>11, <2>1 DEF ShiftRow, TypeOK, Table
  <2>4. todo' \in [Conns -> SUBSET EntryIds]
    BY <1>11 DEF ShiftRow, TypeOK
  <2> QED
    BY <1>11, <2>2, <2>3, <2>4 DEF ShiftRow, TypeOK, history
<1>12. ASSUME NEW c \in Conns, Refuse(c) \/ Fail(c) PROVE TypeOK'
  BY <1>12, TypeRollback DEF Refuse, Fail
<1>13. ASSUME NEW c \in Conns, Commit(c) PROVE TypeOK'
  BY <1>13, JobsTyped DEF Commit, Release, TypeOK, Table, Statements, Unordered
<1>14. ASSUME NEW b \in PauseValues, SetPaused(b) PROVE TypeOK'
  BY <1>14 DEF SetPaused, TypeOK, txVars, history
<1>15. CASE UNCHANGED vars
  BY <1>15 DEF vars, dbVars, txVars, history, TypeOK
<1>16. ASSUME NEW c \in Conns, Begin(c) PROVE TypeOK'
  <2>1. \A op \in {"LeaveQueue", "ConfirmTurn", "RemoveUser"} : op \in Ops
    BY DEF Ops, Departures
  <2> QED
    BY <1>1, <1>2, <1>3, <1>16, <2>1, JobsTyped DEF Begin
<1>17. ASSUME NEW c \in Conns, Step(c) PROVE TypeOK'
  BY <1>4, <1>5, <1>6, <1>7, <1>8, <1>9, <1>10, <1>11, <1>12, <1>13, <1>17 DEF Step
<1> QED
  BY <1>12, <1>14, <1>15, <1>16, <1>17 DEF Next

(* Every variable keeps its type, whatever the constants.                   *)
THEOREM TypeCorrect == Spec => []TypeOK
BY TypeInit, TypeStep, PTL DEF Spec

-----------------------------------------------------------------------------
(* The invariant.                                                           *)

(* An empty table satisfies the invariant.                                  *)
LEMMA InvInit == Init => IInv
<1> SUFFICES ASSUME Init PROVE IInv
  OBVIOUS
<1>1. TypeOK
  BY TypeInit
<1>2. UnlockedIsCommitted /\ FreshIds
  BY DEF Init, UnlockedIsCommitted, FreshIds, EmptyTable, UnusedRow
<1>3. PositiveRows
  BY DEF Init, PositiveRows, EmptyTable, UnusedRow, IsStored, StoredStatus, ActiveStatus
<1>4. ASSUME NEW c \in Conns PROVE TransactionInv(c)
  BY DEF Init, TransactionInv, HoldsNothingYet, JobFitsStatement, OwnChange, HoldsItsRow, ReadsRows
<1> QED
  BY <1>1, <1>2, <1>3, <1>4 DEF IInv

(* What a step of c never does to the transaction of another connection.    *)
LeavesOthersAlone(c) ==
  /\ nextId' >= nextId
  /\ \A d \in Conns : d # c =>
       /\ pc'[d] = pc[d] /\ job'[d] = job[d] /\ row'[d] = row[d]
       /\ position'[d] = position[d] /\ todo'[d] = todo[d]
       /\ \A e \in EntryIds :
            /\ lock'[e] = d <=> lock[e] = d
            /\ lock[e] = d => table'[e] = table[e] /\ draft'[e] = draft[e]

(* A step that leaves the rows and the variables of other transactions      *)
(* alone keeps their part of the invariant.                                 *)
LEMMA OthersKeepInv ==
  ASSUME IInv, TypeOK', NEW c \in Conns, LeavesOthersAlone(c),
         NEW d \in Conns, d # c
  PROVE  TransactionInv(d)'
<1> USE DEF LeavesOthersAlone
<1>1. HoldsNothingYet(d)' /\ JobFitsStatement(d)'
  BY DEF IInv, TransactionInv, HoldsNothingYet, JobFitsStatement
<1>2. OwnChange(d)'
  <2> SUFFICES ASSUME NEW e \in EntryIds, lock'[e] = d
               PROVE  Untouched(e)' \/ (pc'[d] \in {"mark", "shift", "commit"} /\ Changed(d, e)')
    BY DEF OwnChange
  <2>1. Untouched(e) => Untouched(e)'
    BY DEF Untouched
  <2>2. Changed(d, e) => Changed(d, e)'
    BY DEF Changed
  <2> QED
    BY <2>1, <2>2 DEF IInv, TransactionInv, OwnChange
<1>3. HoldsItsRow(d)'
  <2>1. row[d] # 0 => row[d] \in EntryIds /\ lock[row[d]] = d
    BY DEF IInv, TypeOK, TransactionInv, HoldsItsRow
  <2>2. row[d] # 0 /\ Changed(d, row[d]) => Changed(d, row[d])'
    BY <2>1 DEF Changed
  <2> QED
    BY <2>1, <2>2 DEF IInv, TransactionInv, HoldsItsRow
<1>4. ReadsRows(d)'
  BY DEF IInv, TypeOK, TransactionInv, ReadsRows, EntryIds
<1> QED
  BY <1>1, <1>2, <1>3, <1>4 DEF TransactionInv

(* It is enough to look at the transaction that takes the step.             *)
LEMMA InvFromOwn ==
  ASSUME IInv, TypeOK', NEW c \in Conns, LeavesOthersAlone(c),
         UnlockedIsCommitted', FreshIds', PositiveRows', TransactionInv(c)'
  PROVE  IInv'
BY OthersKeepInv DEF IInv

(* Nothing is locked when a join begins.                                    *)
LEMMA InvBeginJoin ==
  ASSUME IInv, TypeOK', NEW c \in Conns, NEW u \in Users, BeginJoin(c, u)
  PROVE  IInv'
<1>1. LeavesOthersAlone(c)
  BY DEF LeavesOthersAlone, BeginJoin, dbVars, history, TypeOK, IInv, TransactionInv
<1>2. UnlockedIsCommitted' /\ FreshIds' /\ PositiveRows'
  BY DEF BeginJoin, dbVars, history, UnlockedIsCommitted, FreshIds, PositiveRows, IInv
<1>3. HoldsNothingYet(c)'
  BY DEF BeginJoin, dbVars, history, TypeOK, IInv, TransactionInv, HoldsNothingYet
<1>4. JobFitsStatement(c)'
  BY DEF BeginJoin, dbVars, history, TypeOK, IInv, TransactionInv, JobFitsStatement, UserJob
<1>5. OwnChange(c)'
  BY DEF BeginJoin, dbVars, history, TypeOK, IInv, TransactionInv, OwnChange, HoldsNothingYet
<1>6. HoldsItsRow(c)'
  BY DEF BeginJoin, dbVars, history, TypeOK, IInv, TransactionInv, HoldsItsRow, HoldsNothingYet
<1>7. ReadsRows(c)'
  BY DEF BeginJoin, dbVars, history, TypeOK, IInv, TransactionInv, ReadsRows
<1> QED
  BY <1>1, <1>2, <1>3, <1>4, <1>5, <1>6, <1>7, InvFromOwn DEF TransactionInv

(* Nothing is locked when a call begins.                                    *)
LEMMA InvBeginCall ==
  ASSUME IInv, TypeOK', NEW c \in Conns, BeginCall(c)
  PROVE  IInv'
<1>1. LeavesOthersAlone(c)
  BY DEF LeavesOthersAlone, BeginCall, dbVars, history, TypeOK, IInv, TransactionInv
<1>2. UnlockedIsCommitted' /\ FreshIds' /\ PositiveRows'
  BY DEF BeginCall, dbVars, history, UnlockedIsCommitted, FreshIds, PositiveRows, IInv
<1>3. HoldsNothingYet(c)'
  BY DEF BeginCall, dbVars, history, TypeOK, IInv, TransactionInv, HoldsNothingYet
<1>4. JobFitsStatement(c)'
  BY DEF BeginCall, dbVars, history, TypeOK, IInv, TransactionInv, JobFitsStatement, CallJob
<1>5. OwnChange(c)'
  BY DEF BeginCall, dbVars, history, TypeOK, IInv, TransactionInv, OwnChange, HoldsNothingYet
<1>6. HoldsItsRow(c)'
  BY DEF BeginCall, dbVars, history, TypeOK, IInv, TransactionInv, HoldsItsRow, HoldsNothingYet
<1>7. ReadsRows(c)'
  BY DEF BeginCall, dbVars, history, TypeOK, IInv, TransactionInv, ReadsRows
<1> QED
  BY <1>1, <1>2, <1>3, <1>4, <1>5, <1>6, <1>7, InvFromOwn DEF TransactionInv

(* A departure begins with a snapshot of stored rows.                       *)
LEMMA InvBeginDeparture ==
  ASSUME IInv, TypeOK', NEW c \in Conns, NEW j \in Job, j.op \in Departures, BeginDeparture(c, j)
  PROVE  IInv'
<1>1. LeavesOthersAlone(c)
  BY DEF LeavesOthersAlone, BeginDeparture, dbVars, history, TypeOK, IInv, TransactionInv
<1>2. UnlockedIsCommitted' /\ FreshIds' /\ PositiveRows'
  BY DEF BeginDeparture, dbVars, history, UnlockedIsCommitted, FreshIds, PositiveRows, IInv
<1>3. HoldsNothingYet(c)'
  BY DEF BeginDeparture, dbVars, history, TypeOK, IInv, TransactionInv, HoldsNothingYet
<1>4. JobFitsStatement(c)'
  BY DEF BeginDeparture, dbVars, history, TypeOK, IInv, TransactionInv, JobFitsStatement
<1>5. OwnChange(c)'
  BY DEF BeginDeparture, dbVars, history, TypeOK, IInv, TransactionInv, OwnChange, HoldsNothingYet
<1>6. HoldsItsRow(c)'
  BY DEF BeginDeparture, dbVars, history, TypeOK, IInv, TransactionInv, HoldsItsRow, HoldsNothingYet
<1>7. ReadsRows(c)'
  BY DEF BeginDeparture, dbVars, history, TypeOK, IInv, TransactionInv, ReadsRows, FreshIds, Departures, EntryIds, Wanted, IsActive, IsStored, ActiveStatus, StoredStatus
<1> QED
  BY <1>1, <1>2, <1>3, <1>4, <1>5, <1>6, <1>7, InvFromOwn DEF TransactionInv

(* The position a join reads is 1 at least.                                 *)
LEMMA InvReadMaxPosition ==
  ASSUME IInv, TypeOK', NEW c \in Conns, ReadMaxPosition(c)
  PROVE  IInv'
<1>1. LeavesOthersAlone(c)
  BY DEF LeavesOthersAlone, ReadMaxPosition, dbVars, TypeOK, IInv, TransactionInv
<1>2. UnlockedIsCommitted' /\ FreshIds' /\ PositiveRows'
  BY DEF ReadMaxPosition, dbVars, UnlockedIsCommitted, FreshIds, PositiveRows, IInv
<1>3. HoldsNothingYet(c)'
  BY DEF ReadMaxPosition, dbVars, TypeOK, IInv, TransactionInv, HoldsNothingYet
<1>4. JobFitsStatement(c)'
  BY DEF ReadMaxPosition, dbVars, TypeOK, IInv, TransactionInv, JobFitsStatement
<1>5. OwnChange(c)'
  BY DEF ReadMaxPosition, dbVars, TypeOK, IInv, TransactionInv, OwnChange, HoldsNothingYet
<1>6. HoldsItsRow(c)'
  BY DEF ReadMaxPosition, dbVars, TypeOK, IInv, TransactionInv, HoldsItsRow, HoldsNothingYet
<1>7. ReadsRows(c)'
  BY DEF ReadMaxPosition, dbVars, TypeOK, IInv, TransactionInv, ReadsRows
<1> QED
  BY <1>1, <1>2, <1>3, <1>4, <1>5, <1>6, <1>7, InvFromOwn DEF TransactionInv

(* The inserted row takes a fresh id and is its own change.                 *)
LEMMA InvInsertEntry ==
  ASSUME IInv, TypeOK', NEW c \in Conns, InsertEntry(c)
  PROVE  IInv'
<1> DEFINE w == WaitingRow(job[c].user, position[c])
<1>0. PICK n \in EntryIds : n = nextId
  BY DEF InsertEntry, IInv, TypeOK, EntryIds
<1>1. /\ job[c].op = "JoinQueue" /\ position[c] >= 1
      /\ lock[n] = NoConn /\ table[n].status = "unused"
      /\ \A e \in EntryIds : lock[e] # c
      /\ \A e \in todo[c] : e < n
  <2>1. TransactionInv(c) /\ pc[c] = "insert" /\ n = nextId
    BY <1>0 DEF InsertEntry, IInv
  <2>2. job[c].op = "JoinQueue" /\ position[c] >= 1 /\ \A e \in todo[c] : e < n
    BY <2>1 DEF TransactionInv, JobFitsStatement, ReadsRows
  <2>3. \A e \in EntryIds : lock[e] # c
    BY <2>1 DEF TransactionInv, HoldsNothingYet
  <2>4. lock[n] = NoConn /\ table[n].status = "unused"
    <3>1. FreshIds /\ n >= nextId
      BY <2>1 DEF IInv, EntryIds
    <3> QED
      BY <3>1 DEF FreshIds
  <2> QED
    BY <2>2, <2>3, <2>4
<1>2. /\ table' = table /\ nextId' = n + 1
      /\ lock' = [lock EXCEPT ![n] = c]
      /\ draft' = [draft EXCEPT ![n] = w]
      /\ pc' = [pc EXCEPT ![c] = "commit"] /\ row' = [row EXCEPT ![c] = n]
      /\ UNCHANGED <<job, position, todo>>
  BY <1>0 DEF InsertEntry
<1>3. LeavesOthersAlone(c)
  BY <1>0, <1>1, <1>2 DEF LeavesOthersAlone, IInv, TypeOK
<1>4. UnlockedIsCommitted'
  BY <1>1, <1>2 DEF UnlockedIsCommitted, IInv, TypeOK, Table
<1>5. FreshIds'
  BY <1>0, <1>1, <1>2 DEF FreshIds, IInv, TypeOK, EntryIds
<1>6. PositiveRows'
  BY <1>1, <1>2 DEF PositiveRows, IInv, TypeOK, Table, WaitingRow, IsStored
<1>7. /\ draft'[n].status = "waiting" /\ table'[n].status = "unused"
      /\ lock'[n] = c /\ row'[c] = n /\ pc'[c] = "commit" /\ job'[c].op = "JoinQueue"
  BY <1>1, <1>2 DEF IInv, TypeOK, Table, WaitingRow
<1>8. Changed(c, n)'
  BY <1>7 DEF Changed
<1>9. HoldsNothingYet(c)' /\ JobFitsStatement(c)'
  BY <1>7 DEF HoldsNothingYet, JobFitsStatement
<1>10. OwnChange(c)'
  <2>1. \A e \in EntryIds : lock'[e] = c => e = n
    BY <1>1, <1>2 DEF IInv, TypeOK
  <2> QED
    BY <1>7, <1>8, <2>1 DEF OwnChange
<1>11. HoldsItsRow(c)'
  BY <1>1, <1>2, <1>7, <1>8 DEF HoldsItsRow, EntryIds
<1>12. ReadsRows(c)'
  BY <1>0, <1>1, <1>2, <1>7 DEF ReadsRows, IInv, TypeOK, EntryIds
<1> QED
  BY <1>3, <1>4, <1>5, <1>6, <1>9, <1>10, <1>11, <1>12, InvFromOwn DEF TransactionInv

(* The ordered SELECT begins with a snapshot of stored rows.                *)
LEMMA InvOpenSelect ==
  ASSUME IInv, TypeOK', NEW c \in Conns, OpenSelect(c)
  PROVE  IInv'
<1>1. LeavesOthersAlone(c)
  BY DEF LeavesOthersAlone, OpenSelect, dbVars, history, TypeOK, IInv, TransactionInv
<1>2. UnlockedIsCommitted' /\ FreshIds' /\ PositiveRows'
  BY DEF OpenSelect, dbVars, history, UnlockedIsCommitted, FreshIds, PositiveRows, IInv
<1>3. HoldsNothingYet(c)'
  BY DEF OpenSelect, dbVars, history, TypeOK, IInv, TransactionInv, HoldsNothingYet
<1>4. JobFitsStatement(c)'
  BY DEF OpenSelect, dbVars, history, TypeOK, IInv, TransactionInv, JobFitsStatement, Departures
<1>5. OwnChange(c)'
  BY DEF OpenSelect, dbVars, history, TypeOK, IInv, TransactionInv, OwnChange, HoldsNothingYet
<1>6. HoldsItsRow(c)'
  BY DEF OpenSelect, dbVars, history, TypeOK, IInv, TransactionInv, HoldsItsRow, HoldsNothingYet
<1>7. ReadsRows(c)'
  BY DEF OpenSelect, dbVars, history, TypeOK, IInv, TransactionInv, ReadsRows, FreshIds, JobFitsStatement, EntryIds, Wanted, IsActive, IsStored, ActiveStatus, StoredStatus
<1> QED
  BY <1>1, <1>2, <1>3, <1>4, <1>5, <1>6, <1>7, InvFromOwn DEF TransactionInv

(* What visiting a row does to its lock, and what may be assumed of the row. *)
LEMMA VisitedRow ==
  ASSUME IInv, TypeOK', NEW c \in Conns, NEW e \in EntryIds, Visit(c, e),
         pc[c] \in {"select", "mark", "shift"}
  PROVE  /\ e < nextId
         /\ lock[e] \in {c, NoConn}
         /\ draft[e].status # "deleted" => lock' = [lock EXCEPT ![e] = c]
         /\ draft[e].status = "deleted" => lock' = lock
         /\ Untouched(e) \/ (lock[e] = c /\ pc[c] \in {"mark", "shift"} /\ Changed(c, e))
<1>1. e \in todo[c] /\ e < nextId
  BY DEF Visit, NextRows, IInv, TransactionInv, ReadsRows
<1>2. lock[e] = NoConn => Untouched(e)
  BY DEF IInv, UnlockedIsCommitted, Untouched
<1>3. lock[e] = c => Untouched(e) \/ (pc[c] \in {"mark", "shift"} /\ Changed(c, e))
  BY DEF IInv, TransactionInv, OwnChange
<1> QED
  BY <1>1, <1>2, <1>3 DEF Visit, LockVisited, Grantable

(* A SELECT that locks a row has written nothing to it.                     *)
LEMMA InvSelectRow ==
  ASSUME IInv, TypeOK', NEW c \in Conns, NEW e \in EntryIds, SelectRow(c, e)
  PROVE  IInv'
<1> USE DEF SelectRow, history
<1>1. /\ e < nextId /\ lock[e] \in {c, NoConn} /\ Untouched(e)
      /\ draft[e].status # "deleted" => lock' = [lock EXCEPT ![e] = c]
      /\ draft[e].status = "deleted" => lock' = lock
  BY VisitedRow
<1>2. /\ UNCHANGED <<table, draft, nextId, pc, job>>
      /\ todo' = [todo EXCEPT ![c] = todo'[c]] /\ todo'[c] \subseteq todo[c]
      /\ row' = [row EXCEPT ![c] = row'[c]]
      /\ position' = [position EXCEPT ![c] = position'[c]]
      /\ pc[c] = "select"
  BY DEF IInv, TypeOK
<1>3. \A f \in EntryIds : lock'[f] = lock[f] \/ (f = e /\ lock'[f] = c)
  BY <1>1 DEF IInv, TypeOK
<1>4. NoConn \notin Conns
  OBVIOUS
<1>5. LeavesOthersAlone(c)
  BY <1>1, <1>2, <1>3, <1>4 DEF LeavesOthersAlone, IInv, TypeOK
<1>6. UnlockedIsCommitted'
  BY <1>1, <1>2, <1>3, <1>4 DEF UnlockedIsCommitted, IInv
<1>7. FreshIds'
  BY <1>1, <1>2, <1>3 DEF FreshIds, IInv, TypeOK, EntryIds
<1>8. PositiveRows'
  BY <1>2 DEF PositiveRows, IInv
<1>9. HoldsNothingYet(c)' /\ JobFitsStatement(c)' /\ ReadsRows(c)'
  BY <1>2 DEF HoldsNothingYet, JobFitsStatement, ReadsRows, IInv, TransactionInv
<1>10. OwnChange(c)'
  BY <1>1, <1>2, <1>3 DEF OwnChange, Untouched, IInv, TransactionInv
<1>11. HoldsItsRow(c)'
  <2>1. CASE row'[c] = row[c] /\ position'[c] = position[c]
    BY <1>2, <1>3, <2>1 DEF HoldsItsRow, IInv, TransactionInv, TypeOK
  <2>2. CASE row[c] = 0 /\ row'[c] = e /\ position'[c] = draft[e].position
             /\ Wanted(job[c], e, draft[e])
    <3>1. IsStored(draft[e])
      BY <2>2 DEF Wanted, IsActive, IsStored, StoredStatus, ActiveStatus
    <3>2. lock'[e] = c
      BY <1>1, <3>1 DEF IsStored, StoredStatus, ActiveStatus, IInv, TypeOK
    <3>3. Wanted(job[c], e, table[e])
      BY <1>1, <2>2 DEF Wanted, Untouched, IsActive, IsStored
    <3>4. position'[c] >= 1
      BY <2>2, <3>1 DEF IInv, PositiveRows
    <3> QED
      BY <1>2, <2>2, <3>2, <3>3, <3>4 DEF HoldsItsRow
  <2> QED
    BY <2>1, <2>2 DEF IInv, TypeOK
<1>12. TransactionInv(c)'
  BY <1>9, <1>10, <1>11 DEF TransactionInv
<1> QED
  BY <1>5, <1>6, <1>7, <1>8, <1>12, InvFromOwn

(* What a transaction past its first statement knows of the row it took.    *)
LEMMA TakenRow ==
  ASSUME IInv, NEW c \in Conns, row[c] # 0, pc[c] \in {"select", "mark", "shift"}
  PROVE  /\ row[c] \in EntryIds
         /\ lock[row[c]] = c
         /\ Untouched(row[c]) \/ (pc[c] \in {"mark", "shift"} /\ Changed(c, row[c]))
         /\ Wanted(job[c], row[c], table[row[c]])
         /\ job[c].op \in Departures \cup {"CallNextUser"}
  BY DEF IInv, TypeOK, TransactionInv, HoldsItsRow, OwnChange, JobFitsStatement, Departures

(* The UPDATE of the status visits rows its transaction may change.         *)
LEMMA InvOpenMark ==
  ASSUME IInv, TypeOK', NEW c \in Conns, OpenMark(c)
  PROVE  IInv'
<1> DEFINE r == row[c]
<1>1. /\ pc[c] = "select" /\ r # 0
      /\ job[c].op = "TimeoutUser" => draft[r].status = "called"
      /\ UNCHANGED <<table, draft, lock, nextId, job, row, position>>
      /\ pc' = [pc EXCEPT ![c] = "mark"]
      /\ todo' = [todo EXCEPT ![c] = {e \in EntryIds : Marked(job[c], r, e, Snapshot(c)[e])}]
  BY DEF OpenMark, Accepted, dbVars
<1>2. pc'[c] = "mark" /\ todo'[c] = {e \in EntryIds : Marked(job[c], r, e, Snapshot(c)[e])}
  BY <1>1 DEF IInv, TypeOK
<1>3. /\ r \in EntryIds /\ lock[r] = c /\ Untouched(r)
      /\ Wanted(job[c], r, table[r])
      /\ job[c].op \in Departures \cup {"CallNextUser"}
  BY <1>1, TakenRow
<1>4. LeavesOthersAlone(c)
  BY <1>1 DEF LeavesOthersAlone, IInv, TypeOK
<1>5. UnlockedIsCommitted' /\ FreshIds' /\ PositiveRows'
  BY <1>1 DEF UnlockedIsCommitted, FreshIds, PositiveRows, IInv
<1>6. HoldsNothingYet(c)' /\ JobFitsStatement(c)' /\ OwnChange(c)'
  BY <1>1, <1>2, <1>3 DEF HoldsNothingYet, JobFitsStatement, OwnChange, Untouched, IInv, TransactionInv
<1>7. HoldsItsRow(c)'
  <2>1. Wanted(job[c], r, draft[r])
    BY <1>3 DEF Wanted, Untouched, IsActive, IsStored
  <2>2. Marked(job[c], r, r, draft[r])
    BY <1>3, <2>1 DEF Marked, Wanted, Departures, IsActive, IsStored, StoredStatus
  <2>3. Snapshot(c)[r] = draft[r]
    BY <1>3 DEF Snapshot
  <2>4. r \in todo'[c]
    BY <1>2, <1>3, <2>2, <2>3
  <2>5. job[c].op = "TimeoutUser" => table[r].status = "called"
    BY <1>1, <1>3 DEF Untouched
  <2> QED
    BY <1>1, <1>2, <1>3, <2>4, <2>5 DEF HoldsItsRow, IInv, TransactionInv
<1>8. ReadsRows(c)'
  <2> SUFFICES ASSUME NEW e \in EntryIds, Marked(job[c], r, e, Snapshot(c)[e])
               PROVE  e < nextId
    BY <1>1, <1>2 DEF ReadsRows
  <2>1. CASE lock[e] # NoConn
    BY <2>1 DEF IInv, TypeOK, FreshIds, EntryIds
  <2>2. CASE lock[e] = NoConn
    <3>1. e # r /\ Snapshot(c)[e] = table[e]
      BY <1>3, <2>2 DEF Snapshot
    <3>2. table[e].status # "unused"
      BY <3>1 DEF Marked, IsActive, IsStored, StoredStatus, ActiveStatus
    <3> QED
      BY <3>2 DEF IInv, TypeOK, FreshIds, EntryIds
  <2> QED
    BY <2>1, <2>2
<1> QED
  BY <1>4, <1>5, <1>6, <1>7, <1>8, InvFromOwn DEF TransactionInv

(* MarkRow and ShiftRow write one row, which they have locked, and nothing  *)
(* of it that other transactions or the shared parts of IInv could notice.  *)
LEMMA WriteRow ==
  ASSUME IInv, TypeOK', NEW c \in Conns, NEW e \in EntryIds, Visit(c, e),
         pc[c] \in {"mark", "shift"},
         UNCHANGED <<table, nextId, pc, job, row, position>>,
         todo' = [todo EXCEPT ![c] = @ \ {e}],
         NEW r \in Row, draft' = [draft EXCEPT ![e] = r],
         draft[e].status = "deleted" => r = draft[e],
         IsStored(r) => r.position >= 1,
         (r.status = draft[e].status /\ r.user = draft[e].user) \/ Changed(c, e)',
         pc[c] = "mark" /\ e = row[c] => Changed(c, e)'
  PROVE  IInv'
<1>1. /\ e < nextId /\ lock[e] \in {c, NoConn}
      /\ draft[e].status # "deleted" => lock' = [lock EXCEPT ![e] = c]
      /\ draft[e].status = "deleted" => lock' = lock
      /\ Untouched(e) \/ (lock[e] = c /\ Changed(c, e))
  BY VisitedRow
<1>2. /\ \A f \in EntryIds : f # e => lock'[f] = lock[f] /\ draft'[f] = draft[f]
      /\ draft'[e] = r /\ todo'[c] = todo[c] \ {e}
      /\ lock'[e] = c \/ (lock'[e] = lock[e] /\ r = draft[e])
  BY <1>1 DEF IInv, TypeOK, Table
<1>3. LeavesOthersAlone(c)
  BY <1>1, <1>2 DEF LeavesOthersAlone, IInv, TypeOK
<1>4. UnlockedIsCommitted'
  BY <1>1, <1>2 DEF UnlockedIsCommitted, IInv
<1>5. FreshIds'
  BY <1>1, <1>2 DEF FreshIds, IInv, TypeOK, EntryIds
<1>6. PositiveRows'
  BY <1>2 DEF PositiveRows, IInv
<1>7. HoldsNothingYet(c)' /\ JobFitsStatement(c)' /\ ReadsRows(c)'
  BY <1>2 DEF HoldsNothingYet, JobFitsStatement, ReadsRows, IInv, TransactionInv
<1>8. \A f \in EntryIds : f # e /\ Changed(c, f) => Changed(c, f)'
  BY <1>2 DEF Changed
<1>9. Changed(c, e) => Changed(c, e)'
  BY <1>2 DEF Changed
<1>10. OwnChange(c)'
  <2> SUFFICES ASSUME NEW f \in EntryIds, lock'[f] = c
               PROVE  Untouched(f)' \/ Changed(c, f)'
    BY DEF OwnChange
  <2>1. CASE f # e
    BY <1>2, <1>8, <2>1 DEF OwnChange, Untouched, IInv, TransactionInv
  <2>2. CASE f = e
    BY <1>1, <1>2, <1>9, <2>2 DEF Untouched
  <2> QED
    BY <2>1, <2>2
<1>11. HoldsItsRow(c)'
  <2>1. /\ row[c] # 0 /\ row[c] \in EntryIds /\ lock[row[c]] = c
        /\ Wanted(job[c], row[c], table[row[c]])
    BY TakenRow DEF IInv, TransactionInv, HoldsItsRow
  <2>2. lock'[row[c]] = c
    BY <1>1, <1>2, <2>1
  <2>3. Changed(c, row[c]) => Changed(c, row[c])'
    BY <1>8, <1>9, <2>1
  <2>4. pc[c] = "mark" => row[c] \in todo'[c] \/ Changed(c, row[c])'
    BY <1>2, <2>1, <2>3 DEF IInv, TransactionInv, HoldsItsRow
  <2> QED
    BY <1>2, <2>1, <2>2, <2>3, <2>4 DEF HoldsItsRow, IInv, TransactionInv
<1> QED
  BY <1>3, <1>4, <1>5, <1>6, <1>7, <1>10, <1>11, InvFromOwn DEF TransactionInv

(* The UPDATE or DELETE makes its own change and no other.                  *)
LEMMA InvMarkRow ==
  ASSUME IInv, TypeOK', NEW c \in Conns, NEW e \in EntryIds, MarkRow(c, e)
  PROVE  IInv'
<1> USE DEF MarkRow, history
<1>1. draft[e] \in Row /\ draft \in Table
  BY DEF IInv, TypeOK, Table
<1>2. IsStored(draft[e]) => draft[e].position >= 1
  BY DEF IInv, PositiveRows
<1>3. Untouched(e) \/ Changed(c, e)
  BY VisitedRow
<1>4. /\ row[c] \in EntryIds /\ Wanted(job[c], row[c], table[row[c]])
      /\ job[c].op \in Departures \cup {"CallNextUser"}
      /\ job[c].op = "TimeoutUser" => table[row[c]].status = "called"
  BY TakenRow DEF IInv, TransactionInv, HoldsItsRow
<1>5. CASE Marked(job[c], row[c], e, draft[e])
  <2> DEFINE r == MarkedRow(job[c], draft[e])
  <2>1. r \in Row
    BY <1>1, <1>4, RowsTyped DEF IInv, TypeOK
  <2>2. draft' = [draft EXCEPT ![e] = r] /\ draft'[e] = r
    BY <1>1, <1>5 DEF Marked, MarkedRow, Table
  <2>3. IsStored(draft[e])
    BY <1>3, <1>4, <1>5 DEF Marked, Changed, Untouched, Wanted, IsStored, IsActive,
                            StoredStatus, ActiveStatus, Departures
  <2>4. draft[e].status # "deleted"
    BY <2>3 DEF IsStored, StoredStatus, ActiveStatus
  <2>5. IsStored(r) => r.position >= 1
    <3>1. CASE job[c].op = "LeaveQueue"
      BY <3>1 DEF MarkedRow, DeletedRow, IsStored, StoredStatus, ActiveStatus
    <3>2. CASE job[c].op # "LeaveQueue"
      <4>1. r = [draft[e] EXCEPT !.status = NewStatus[job[c].op]]
        BY <3>2 DEF MarkedRow
      <4>2. r.position = draft[e].position
        BY <1>1, <4>1 DEF Row
      <4> QED
        BY <1>2, <2>3, <4>2
    <3> QED
      BY <3>1, <3>2
  <2>6. Changed(c, e)'
    <3>1. table'[e] = table[e] /\ job' = job /\ row' = row
      OBVIOUS
    <3>2. CASE job[c].op = "LeaveQueue"
      <4>1. IsActive(table[e])
        BY <1>3, <1>5, <3>2 DEF Marked, Changed, Untouched, IsActive, ActiveStatus
      <4>2. r.status = "deleted"
        BY <3>2 DEF MarkedRow, DeletedRow
      <4> QED
        BY <2>2, <3>1, <3>2, <4>1, <4>2 DEF Changed
    <3>3. CASE job[c].op # "LeaveQueue"
      <4>1. r.status = NewStatus[job[c].op]
        BY <1>1, <3>3 DEF MarkedRow, Row
      <4>2. CASE job[c].op = "RemoveUser"
        <5>1. IsStored(table[e])
          BY <1>3, <2>3, <4>2 DEF Changed, Untouched, IsStored
        <5> QED
          BY <2>2, <3>1, <4>1, <4>2, <5>1 DEF Changed, NewStatus
      <4>3. CASE job[c].op \in {"ConfirmTurn", "TimeoutUser", "CallNextUser"}
        <5>1. e = row[c]
          BY <1>5, <4>3 DEF Marked
        <5> QED
          BY <1>4, <2>2, <3>1, <4>1, <4>3, <5>1 DEF Changed, NewStatus, Wanted
      <4> QED
        BY <1>4, <3>3, <4>2, <4>3 DEF Departures
    <3> QED
      BY <3>2, <3>3
  <2> HIDE DEF r
  <2> QED
    BY <2>1, <2>2, <2>4, <2>5, <2>6, WriteRow
<1>6. CASE ~Marked(job[c], row[c], e, draft[e])
  <2>1. draft' = [draft EXCEPT ![e] = draft[e]]
    BY <1>1, <1>6 DEF Table
  <2>2. e = row[c] => Changed(c, e)
    <3>1. e = row[c] /\ Untouched(e) => Wanted(job[c], e, draft[e])
      BY <1>4 DEF Untouched, Wanted, IsActive, IsStored
    <3>2. Wanted(job[c], row[c], draft[e]) => Marked(job[c], row[c], row[c], draft[e])
      BY <1>4 DEF Marked, Wanted, Departures, IsActive, IsStored, StoredStatus
    <3> QED
      BY <1>3, <1>6, <3>1, <3>2
  <2>3. Changed(c, e) => Changed(c, e)'
    BY <1>6 DEF Changed
  <2> QED
    BY <1>1, <1>2, <2>1, <2>2, <2>3, WriteRow
<1> QED
  BY <1>5, <1>6

(* Moving up changes no status, and no position to 0.                       *)
LEMMA InvShiftRow ==
  ASSUME IInv, TypeOK', NEW c \in Conns, NEW e \in EntryIds, ShiftRow(c, e)
  PROVE  IInv'
<1> USE DEF ShiftRow, history
<1>1. draft[e] \in Row /\ draft \in Table /\ row[c] # 0
  BY DEF IInv, TypeOK, Table, TransactionInv, HoldsItsRow
<1>2. IsStored(draft[e]) => draft[e].position >= 1
  BY DEF IInv, PositiveRows
<1>3. CASE IsBehind(draft[e], position[c])
  <2> DEFINE r == MovedUp(draft[e])
  <2>1. draft' = [draft EXCEPT ![e] = r] /\ r \in Row
    BY <1>1, <1>3, RowsTyped DEF Table
  <2>2. /\ r.status = draft[e].status /\ r.user = draft[e].user
        /\ r.position = draft[e].position - 1
    BY <1>1 DEF MovedUp, Row
  <2>3. draft[e].status # "deleted"
    BY <1>3 DEF IsBehind, IsActive, ActiveStatus
  <2>4. position[c] >= 1
    BY <1>1 DEF IInv, TransactionInv, HoldsItsRow
  <2>5. r.position >= 1
    BY <1>1, <1>3, <2>2, <2>4 DEF IsBehind, Row, IInv, TypeOK
  <2> HIDE DEF r
  <2> QED
    BY <2>1, <2>2, <2>3, <2>5, WriteRow
<1>4. CASE ~IsBehind(draft[e], position[c])
  <2>1. draft' = [draft EXCEPT ![e] = draft[e]]
    BY <1>1, <1>4 DEF Table
  <2> QED
    BY <1>1, <1>2, <2>1, WriteRow
<1> QED
  BY <1>3, <1>4

(* The UPDATE of the positions visits stored rows.                          *)
LEMMA InvOpenShift ==
  ASSUME IInv, TypeOK', NEW c \in Conns, OpenShift(c)
  PROVE  IInv'
<1>1. /\ pc[c] = "mark" /\ todo[c] = {}
      /\ UNCHANGED <<table, draft, lock, nextId, job, row, position>>
      /\ todo' = [todo EXCEPT ![c] = todo'[c]]
      /\ pc' = [pc EXCEPT ![c] = pc'[c]]
      /\ \/ job[c].op \in Departures /\ pc'[c] = "shift"
         \/ job[c].op = "CallNextUser" /\ pc'[c] = "commit"
  BY DEF OpenShift, dbVars, IInv, TypeOK
<1>2. LeavesOthersAlone(c)
  BY <1>1 DEF LeavesOthersAlone, IInv, TypeOK
<1>3. UnlockedIsCommitted' /\ FreshIds' /\ PositiveRows'
  BY <1>1 DEF UnlockedIsCommitted, FreshIds, PositiveRows, IInv
<1>4. HoldsNothingYet(c)' /\ JobFitsStatement(c)'
  BY <1>1 DEF HoldsNothingYet, JobFitsStatement
<1>5. \A e \in EntryIds : Changed(c, e) => Changed(c, e)'
  BY <1>1 DEF Changed
<1>6. OwnChange(c)'
  BY <1>1, <1>5 DEF OwnChange, Untouched, IInv, TransactionInv
<1>7. HoldsItsRow(c)'
  <2>1. row[c] \in EntryIds /\ Changed(c, row[c])
    BY <1>1 DEF HoldsItsRow, IInv, TransactionInv, TypeOK
  <2> QED
    BY <1>1, <1>5, <2>1 DEF HoldsItsRow, IInv, TransactionInv
<1>8. ReadsRows(c)'
  <2> SUFFICES ASSUME NEW e \in todo'[c] PROVE e < nextId
    BY <1>1 DEF ReadsRows
  <2>1. e \in EntryIds /\ IsActive(Snapshot(c)[e])
    BY <1>1 DEF OpenShift, IInv, TypeOK, IsBehind
  <2>2. CASE lock[e] # NoConn
    BY <2>1, <2>2 DEF IInv, TypeOK, FreshIds, EntryIds
  <2>3. CASE lock[e] = NoConn
    <3>1. table[e].status # "unused"
      BY <2>1, <2>3 DEF Snapshot, IsActive, ActiveStatus
    <3> QED
      BY <2>1, <3>1 DEF IInv, TypeOK, FreshIds, EntryIds
  <2> QED
    BY <2>2, <2>3
<1> QED
  BY <1>2, <1>3, <1>4, <1>6, <1>7, <1>8, InvFromOwn DEF TransactionInv

(* The end of a transaction: c holds nothing any more, and its rows are as  *)
(* committed.                                                               *)
LEMMA InvEnd ==
  ASSUME IInv, TypeOK', NEW c \in Conns, Release(c), nextId' = nextId,
         \A e \in EntryIds : lock[e] # c => table'[e] = table[e] /\ draft'[e] = draft[e],
         \A e \in EntryIds : lock[e] = c =>
           /\ table'[e] = draft'[e]
           /\ draft'[e] = draft[e] \/ draft'[e] = table[e]
  PROVE  IInv'
<1>1. /\ \A e \in EntryIds : lock'[e] = IF lock[e] = c THEN NoConn ELSE lock[e]
      /\ pc'[c] = "idle" /\ row'[c] = 0 /\ todo'[c] = {}
  BY DEF Release, IInv, TypeOK
<1>2. \A d \in Conns : d # c =>
        /\ pc'[d] = pc[d] /\ job'[d] = job[d] /\ row'[d] = row[d]
        /\ position'[d] = position[d] /\ todo'[d] = todo[d]
  BY DEF Release, IInv, TypeOK
<1>3. LeavesOthersAlone(c)
  BY <1>1, <1>2 DEF LeavesOthersAlone, IInv, TypeOK
<1>4. UnlockedIsCommitted'
  BY <1>1 DEF UnlockedIsCommitted, IInv
<1>5. FreshIds'
  BY <1>1 DEF FreshIds, IInv, TypeOK
<1>6. PositiveRows'
  BY DEF PositiveRows, IInv
<1>7. HoldsNothingYet(c)' /\ JobFitsStatement(c)' /\ HoldsItsRow(c)' /\ ReadsRows(c)' /\ OwnChange(c)'
  BY <1>1 DEF HoldsNothingYet, JobFitsStatement, HoldsItsRow, ReadsRows, OwnChange, IInv, TypeOK
<1> QED
  BY <1>3, <1>4, <1>5, <1>6, <1>7, InvFromOwn DEF TransactionInv

(* A commit makes the rows as committed as their holder left them.          *)
LEMMA InvCommit ==
  ASSUME IInv, TypeOK', NEW c \in Conns, Commit(c)
  PROVE  IInv'
BY InvEnd DEF Commit, IInv, TypeOK, Table

(* A rollback makes them as committed as they were.                         *)
LEMMA InvRollback ==
  ASSUME IInv, TypeOK', NEW c \in Conns, Rollback(c)
  PROVE  IInv'
BY InvEnd DEF Rollback, IInv, TypeOK, Table

(* Every step keeps the invariant.                                          *)
LEMMA InvStep == IInv /\ [Next]_vars => IInv'
<1> SUFFICES ASSUME IInv, [Next]_vars PROVE IInv'
  OBVIOUS
<1>1. TypeOK'
  BY TypeStep DEF IInv
<1>2. ASSUME NEW c \in Conns, Begin(c) PROVE IInv'
  <2>1. \A op \in {"LeaveQueue", "ConfirmTurn", "RemoveUser"}, u \in Users :
          UserJob(op, u) \in Job /\ UserJob(op, u).op \in Departures
    BY JobsTyped DEF UserJob, Ops, Departures
  <2>2. \A e \in EntryIds : TimeoutJob(e) \in Job /\ TimeoutJob(e).op \in Departures
    BY JobsTyped DEF TimeoutJob, Departures
  <2> QED
    BY <1>1, <1>2, <2>1, <2>2, InvBeginJoin, InvBeginCall, InvBeginDeparture DEF Begin
<1>3. ASSUME NEW c \in Conns, Step(c) PROVE IInv'
  <2>1. CASE ReadMaxPosition(c) \/ InsertEntry(c) \/ OpenSelect(c) \/ OpenMark(c) \/ OpenShift(c)
    BY <1>1, <2>1, InvReadMaxPosition, InvInsertEntry, InvOpenSelect, InvOpenMark, InvOpenShift
  <2>2. CASE \E e \in EntryIds : SelectRow(c, e) \/ MarkRow(c, e) \/ ShiftRow(c, e)
    BY <1>1, <2>2, InvSelectRow, InvMarkRow, InvShiftRow
  <2>3. CASE Refuse(c) \/ Commit(c)
    BY <1>1, <2>3, InvRollback, InvCommit DEF Refuse
  <2> QED
    BY <1>3, <2>1, <2>2, <2>3 DEF Step
<1>4. ASSUME NEW c \in Conns, Fail(c) PROVE IInv'
  BY <1>1, <1>4, InvRollback DEF Fail
<1>5. CASE UNCHANGED vars \/ \E b \in PauseValues : SetPaused(b)
  <2>1. UNCHANGED <<table, draft, lock, nextId, pc, job, row, position, todo>>
    BY <1>5 DEF vars, dbVars, txVars, SetPaused
  <2> QED
    BY <1>1, <2>1 DEF IInv, UnlockedIsCommitted, FreshIds, PositiveRows, TransactionInv,
         HoldsNothingYet, JobFitsStatement, OwnChange, Untouched, Changed, HoldsItsRow, ReadsRows
<1> QED
  BY <1>2, <1>3, <1>4, <1>5 DEF Next

(* At every step of every transaction, of the joins that overlap as well:   *)
(* rows nobody has locked are as committed, and a locked row shows only     *)
(* what the statements of its holder do.                                    *)
THEOREM Invariance == Spec => []IInv
BY InvInit, InvStep, PTL DEF Spec

-----------------------------------------------------------------------------
(* What follows from it.                                                    *)

(* Positions never fall below 1, however gap-closing UPDATEs interleave.    *)
THEOREM PositionsStayPositive == Spec => []PositionsPositive
<1>1. IInv => PositionsPositive
  BY DEF IInv, PositiveRows, PositionsPositive, ActiveEntries, IsActive, IsStored, StoredStatus
<1> QED
  BY <1>1, Invariance, PTL

(* What a transaction about to commit has done.                             *)
LEMMA CommitEffect ==
  ASSUME IInv, NEW c \in Conns, Commit(c)
  PROVE  /\ row[c] \in EntryIds /\ lock[row[c]] = c
         /\ Changed(c, row[c])
         /\ job[c].op \in Departures => Wanted(job[c], row[c], table[row[c]])
         /\ \A e \in EntryIds : lock[e] = c =>
              table'[e] = draft[e] /\ (Untouched(e) \/ Changed(c, e))
         /\ \A e \in EntryIds : lock[e] # c => table'[e] = table[e]
<1>1. pc[c] \in {"shift", "commit"}
  BY DEF Commit, ReadyToCommit
<1>2. row[c] \in EntryIds /\ lock[row[c]] = c /\ Changed(c, row[c])
  BY <1>1 DEF IInv, TypeOK, TransactionInv, HoldsItsRow
<1>3. job[c].op \in Departures => Wanted(job[c], row[c], table[row[c]])
  BY <1>2 DEF IInv, TransactionInv, HoldsItsRow, Departures, EntryIds
<1> QED
  BY <1>2, <1>3 DEF Commit, IInv, TransactionInv, OwnChange

(* Two CallNextUser calls are never answered with the same entry.           *)
THEOREM EachTurnGivenOnce == Spec => OneTurnPerCall
<1>1. ASSUME IInv, NEW c \in Conns, Commit(c), job[c].op = "CallNextUser"
      PROVE  table[row[c]].status = "waiting" /\ table'[row[c]].status = "called"
  BY <1>1, CommitEffect DEF Changed
<1>2. IInv /\ [Next]_vars => [\A c \in Conns : Commit(c) /\ job[c].op = "CallNextUser" =>
                                 /\ table[row[c]].status = "waiting"
                                 /\ table'[row[c]].status = "called"]_vars
  BY <1>1
<1> QED
  BY <1>2, Invariance, PTL DEF Spec, OneTurnPerCall

(* Of the departures competing for an entry one succeeds, so the gap of an  *)
(* entry is closed once.                                                    *)
THEOREM EachEntryDepartsOnce == Spec => OneDeparturePerEntry
<1>1. ASSUME IInv, NEW c \in Conns, Commit(c), job[c].op \in Departures
      PROVE  IsActive(table[row[c]]) /\ ~IsActive(table'[row[c]])
  <2>1. Changed(c, row[c]) /\ Wanted(job[c], row[c], table[row[c]]) /\ table'[row[c]] = draft[row[c]]
    BY <1>1, CommitEffect
  <2> QED
    BY <1>1, <2>1 DEF Changed, Wanted, Departures, IsActive, ActiveStatus
<1>2. IInv /\ [Next]_vars => [\A c \in Conns : Commit(c) /\ job[c].op \in Departures =>
                                 /\ IsActive(table[row[c]])
                                 /\ ~IsActive(table'[row[c]])]_vars
  BY <1>1
<1> QED
  BY <1>2, Invariance, PTL DEF Spec, OneDeparturePerEntry

-----------------------------------------------------------------------------
(* Refinement: the committed rows live the life EntryLifecycle describes.   *)

(* The empty table maps to entries that are unused.                         *)
LEMMA LifecycleInit == Init => Lifecycle!Init
BY DEF Init, Lifecycle!Init, entryStatus, EmptyTable, UnusedRow

(* A commit is one step of EntryLifecycle: the only one that writes the     *)
(* table.                                                                   *)
LEMMA CommitIsLifecycleStep ==
  ASSUME IInv, NEW c \in Conns, Commit(c)
  PROVE  Lifecycle!Next
<1> DEFINE r == row[c]
<1>1. PICK S \in SUBSET EntryIds : S = {e \in EntryIds : lock[e] = c /\ ~Untouched(e)}
  OBVIOUS
<1>2. /\ r \in EntryIds /\ Changed(c, r)
      /\ \A e \in S : Changed(c, e) /\ table'[e].status = draft[e].status
      /\ \A e \in EntryIds : e \notin S => table'[e].status = table[e].status
      /\ r \in S
      /\ job[c].op \in Departures => Wanted(job[c], r, table[r])
  BY <1>1, CommitEffect DEF Changed, Untouched, IsActive, ActiveStatus, Wanted, Departures
<1>3. ASSUME NEW s, \A e \in S : draft[e].status = s
      PROVE  Lifecycle!Become(S, s)
  BY <1>1, <1>2, <1>3 DEF Lifecycle!Become, entryStatus
<1>4. ASSUME job[c].op \notin {"LeaveQueue", "RemoveUser"}
      PROVE  S = {r}
  BY <1>2, <1>4 DEF Changed
<1>5. CASE job[c].op = "JoinQueue"
  BY <1>2, <1>3, <1>4, <1>5 DEF Changed, Lifecycle!Join, entryStatus, Lifecycle!Next
<1>6. CASE job[c].op = "CallNextUser"
  BY <1>2, <1>3, <1>4, <1>6 DEF Changed, Lifecycle!Call, entryStatus, Lifecycle!Next
<1>7. CASE job[c].op = "ConfirmTurn"
  BY <1>2, <1>3, <1>4, <1>7 DEF Changed, Lifecycle!Confirm, entryStatus, Lifecycle!Next
<1>8. CASE job[c].op = "TimeoutUser"
  BY <1>2, <1>3, <1>4, <1>8 DEF Changed, Lifecycle!Expire, entryStatus, Lifecycle!Next
<1>9. CASE job[c].op = "LeaveQueue"
  <2>1. \A e \in S : draft[e].status = "deleted" /\ IsActive(table[e])
    BY <1>2, <1>9 DEF Changed
  <2>2. Lifecycle!Leave(S)
    BY <1>1, <1>2, <1>3, <2>1 DEF Lifecycle!Leave, entryStatus, Lifecycle!Active, IsActive, ActiveStatus
  <2> QED
    BY <2>2 DEF Lifecycle!Next
<1>10. CASE job[c].op = "RemoveUser"
  <2>1. \A e \in S : draft[e].status = "removed" /\ IsStored(table[e])
    BY <1>2, <1>10 DEF Changed
  <2>2. IsActive(table[r])
    BY <1>2, <1>10 DEF Wanted, Departures
  <2>3. Lifecycle!Remove(S)
    BY <1>1, <1>2, <1>3, <2>1, <2>2 DEF Lifecycle!Remove, entryStatus, Lifecycle!Active, Lifecycle!Closed,
         IsActive, IsStored, ActiveStatus, StoredStatus
  <2> QED
    BY <2>3 DEF Lifecycle!Next
<1> QED
  BY <1>2, <1>5, <1>6, <1>7, <1>8, <1>9, <1>10 DEF Changed

(* Every other step is a stutter of it.                                     *)
LEMMA LifecycleStep == IInv /\ [Next]_vars => [Lifecycle!Next]_entryStatus
<1> SUFFICES ASSUME IInv, [Next]_vars, table' # table PROVE Lifecycle!Next
  BY DEF entryStatus
<1>1. \E c \in Conns : Commit(c)
  BY DEF Next, Begin, Step, BeginJoin, BeginDeparture, BeginCall, ReadMaxPosition, InsertEntry,
         OpenSelect, OpenMark, OpenShift, SelectRow, MarkRow, ShiftRow, Refuse, Fail, Rollback,
         SetPaused, vars, dbVars
<1> QED
  BY <1>1, CommitIsLifecycleStep

(* Whatever the interleaving, each row goes through its statuses in order:  *)
(* called at most once, concluded at most once.                             *)
THEOREM EntriesLiveOnce == Spec => LifecycleSpec
<1>1. Init => Lifecycle!Init
  BY LifecycleInit
<1>2. IInv /\ [Next]_vars => [Lifecycle!Next]_entryStatus
  BY LifecycleStep
<1>3. Spec => Lifecycle!Init /\ [][Lifecycle!Next]_entryStatus
  BY <1>1, <1>2, Invariance, PTL DEF Spec
<1> QED
  BY <1>3 DEF LifecycleSpec, Lifecycle!Spec

=============================================================================
