-------------------------- MODULE QueueOrderProofs --------------------------
(***************************************************************************)
(* Theorem about QueueRepository, for any number of users, entries and     *)
(* connections, overlapping joins included: nobody is overtaken.           *)
(*                                                                         *)
(* The gap-closing UPDATE moves the rows of its snapshot that are behind   *)
(* position p when it reaches them.  Moving a row up and not another can   *)
(* only let it pass if the other is in front of it and behind p.  That     *)
(* never happens: a row of the snapshot is visited, and a row that was     *)
(* not in the snapshot is no further than p (SkipsOnlyInFront), unless it  *)
(* was inserted later; but then whoever stands behind it by having seen it *)
(* was inserted later still, and is not moved either.                      *)
(***************************************************************************)
EXTENDS QueueRepositoryProofs

(* The position of an active row once the gap at p is closed.               *)
ClosedUp(q, p) == IF q > p THEN q - 1 ELSE q

(* A row a departure or a call has locked keeps its position but for the    *)
(* UPDATE that closes the gap, which moves it at most once.                 *)
DraftMoves(c) ==
  job[c].op # "JoinQueue" =>
    \A e \in EntryIds : lock[e] = c /\ IsActive(draft[e]) =>
      draft[e].position = IF pc[c] = "shift" /\ e \notin todo[c]
                          THEN ClosedUp(table[e].position, position[c])
                          ELSE table[e].position

(* While the gap closes: if g may move, the rows it knows to be ahead of it *)
(* may move as well, or stand at the gap or in front of it.                 *)
SkipsOnlyInFront(c) ==
  pc[c] = "shift" =>
    \A g \in EntryIds : lock[g] = c \/ g \in todo[c] =>
      \A e \in ahead[g] : IsActive(table[e]) /\ lock[e] # c /\ e \notin todo[c] =>
        table[e].position <= position[c]

(* A join has written one row, and goes behind the rows it has seen.        *)
JoinsBehind(c) ==
  /\ job[c].op = "JoinQueue" => \A e \in EntryIds : lock[e] = c => e = row[c]
  /\ pc[c] = "insert" =>
       \A e \in seen[c] : IsActive(table[e]) => table[e].position <= position[c]
  /\ pc[c] = "commit" /\ job[c].op = "JoinQueue" =>
       \A e \in ahead[row[c]] :
         IsActive(table[e]) => table[e].position <= draft[row[c]].position

(* The histories name rows that have been committed.                        *)
SeenRows ==
  /\ \A g \in EntryIds : \A e \in ahead[g] : table[e].status # "unused"
  /\ \A c \in Conns : \A e \in seen[c] : table[e].status # "unused"

OrderPart(c) == DraftMoves(c) /\ SkipsOnlyInFront(c) /\ JoinsBehind(c)

OrderInv ==
  /\ IInv
  /\ SeenRows
  /\ NoOvertaking
  /\ \A c \in Conns : OrderPart(c)

-----------------------------------------------------------------------------
(* What a step of one connection leaves alone.                              *)

USE QueueTableAssumption, QueueRepositoryAssumption

(* A step of c changes the variables of c, locks free rows and lets go of   *)
(* its own, writes no row another connection holds, and commits only rows   *)
(* it has locked.                                                           *)
StepsAlone(c) ==
  /\ nextId' >= nextId
  /\ \A d \in Conns : d # c =>
       /\ pc'[d] = pc[d] /\ job'[d] = job[d] /\ row'[d] = row[d]
       /\ position'[d] = position[d] /\ todo'[d] = todo[d]
       /\ key'[d] = key[d] /\ seen'[d] = seen[d]
  /\ \A e \in EntryIds :
       /\ lock'[e] = lock[e] \/ (lock[e] \in {c, NoConn} /\ lock'[e] \in {c, NoConn})
       /\ lock[e] \notin {c, NoConn} => draft'[e] = draft[e]
       /\ lock[e] # c => table'[e] = table[e]

(* The statements that only read.                                           *)
LEMMA ReadsAlone ==
  ASSUME IInv, NEW c \in Conns, UNCHANGED <<table, draft, lock, nextId>>,
         pc' = [pc EXCEPT ![c] = pc'[c]], job' = [job EXCEPT ![c] = job'[c]],
         row' = [row EXCEPT ![c] = row'[c]], position' = [position EXCEPT ![c] = position'[c]],
         todo' = [todo EXCEPT ![c] = todo'[c]], key' = [key EXCEPT ![c] = key'[c]],
         seen' = [seen EXCEPT ![c] = seen'[c]]
  PROVE  StepsAlone(c)
BY DEF StepsAlone, IInv, TypeOK

(* The end of a transaction.                                                *)
LEMMA ReleasesAlone ==
  ASSUME IInv, NEW c \in Conns, Release(c), nextId' = nextId,
         \A e \in EntryIds : lock[e] # c => table'[e] = table[e] /\ draft'[e] = draft[e]
  PROVE  StepsAlone(c)
<1>1. \A d \in Conns : d # c =>
        /\ pc'[d] = pc[d] /\ job'[d] = job[d] /\ row'[d] = row[d]
        /\ position'[d] = position[d] /\ todo'[d] = todo[d]
        /\ key'[d] = key[d] /\ seen'[d] = seen[d]
  BY DEF Release, IInv, TypeOK
<1>2. \A e \in EntryIds : lock'[e] = IF lock[e] = c THEN NoConn ELSE lock[e]
  BY DEF Release
<1> QED
  BY <1>1, <1>2 DEF StepsAlone, IInv, TypeOK

(* The statements that visit a row.                                         *)
LEMMA VisitsAlone ==
  ASSUME IInv, NEW c \in Conns, NEW e \in EntryIds, Visit(c, e),
         UNCHANGED <<table, nextId, pc, job, key, seen>>,
         \A f \in EntryIds : f # e => draft'[f] = draft[f],
         row' = [row EXCEPT ![c] = row'[c]], position' = [position EXCEPT ![c] = position'[c]],
         todo' = [todo EXCEPT ![c] = todo'[c]]
  PROVE  StepsAlone(c)
<1>1. lock[e] \in {c, NoConn} /\ (lock' = lock \/ lock' = [lock EXCEPT ![e] = c])
  BY DEF Visit, Grantable, LockVisited
<1> QED
  BY <1>1 DEF StepsAlone, IInv, TypeOK

(* Every step of c is such a step.                                          *)
LEMMA OneStepsAlone ==
  ASSUME IInv, NEW c \in Conns, Begin(c) \/ Step(c) \/ Fail(c)
  PROVE  StepsAlone(c)
<1> USE DEF dbVars, history
<1>1. ASSUME NEW u \in Users, BeginJoin(c, u) PROVE StepsAlone(c)
  BY <1>1, ReadsAlone DEF BeginJoin, IInv, TypeOK
<1>2. ASSUME NEW j, BeginDeparture(c, j) PROVE StepsAlone(c)
  BY <1>2, ReadsAlone DEF BeginDeparture, IInv, TypeOK
<1>3. CASE BeginCall(c)
  BY <1>3, ReadsAlone DEF BeginCall, IInv, TypeOK
<1>4. CASE ReadMaxPosition(c)
  BY <1>4, ReadsAlone DEF ReadMaxPosition, IInv, TypeOK
<1>5. CASE InsertEntry(c)
  <2>1. nextId \in EntryIds /\ lock[nextId] = NoConn
    BY <1>5 DEF InsertEntry, IInv, TypeOK, FreshIds, EntryIds
  <2> QED
    BY <1>5, <2>1 DEF InsertEntry, StepsAlone, IInv, TypeOK
<1>6. CASE OpenSelect(c)
  BY <1>6, ReadsAlone DEF OpenSelect, IInv, TypeOK
<1>7. CASE OpenMark(c)
  BY <1>7, ReadsAlone DEF OpenMark, IInv, TypeOK
<1>8. CASE OpenShift(c)
  BY <1>8, ReadsAlone DEF OpenShift, IInv, TypeOK
<1>9. ASSUME NEW e \in EntryIds, SelectRow(c, e) PROVE StepsAlone(c)
  BY <1>9, VisitsAlone DEF SelectRow, IInv, TypeOK
<1>10. ASSUME NEW e \in EntryIds, MarkRow(c, e) PROVE StepsAlone(c)
  <2>1. \A f \in EntryIds : f # e => draft'[f] = draft[f]
    BY <1>10 DEF MarkRow, IInv, TypeOK, Table
  <2> QED
    BY <1>10, <2>1, VisitsAlone DEF MarkRow, IInv, TypeOK
<1>11. ASSUME NEW e \in EntryIds, ShiftRow(c, e) PROVE StepsAlone(c)
  <2>1. \A f \in EntryIds : f # e => draft'[f] = draft[f]
    BY <1>11 DEF ShiftRow, IInv, TypeOK, Table
  <2> QED
    BY <1>11, <2>1, VisitsAlone DEF ShiftRow, IInv, TypeOK
<1>12. CASE Rollback(c)
  BY <1>12, ReleasesAlone DEF Rollback
<1>13. CASE Commit(c)
  BY <1>13, ReleasesAlone DEF Commit
<1> QED
  BY <1>1, <1>2, <1>3, <1>4, <1>5, <1>6, <1>7, <1>8, <1>9, <1>10, <1>11, <1>12, <1>13
     DEF Begin, Step, Fail, Refuse

-----------------------------------------------------------------------------
(* What a step of one connection means to the order of the others.          *)

(* Committed rows come from nowhere only by a join; apart from that, rows   *)
(* do not become active again and do not move back.                         *)
RowsAdvance ==
  \A e \in EntryIds : table[e].status # "unused" =>
    /\ table'[e].status # "unused"
    /\ IsActive(table'[e]) => IsActive(table[e]) /\ table'[e].position <= table[e].position

(* Entries learn whom they have seen when they are inserted, and then only  *)
(* forget.                                                                  *)
HistoryKept == \A g \in EntryIds : g # nextId => ahead'[g] \subseteq ahead[g]

(* The order of another transaction survives the step.                      *)
LEMMA OthersKeepOrder ==
  ASSUME OrderInv, TypeOK', NEW c \in Conns, StepsAlone(c), RowsAdvance, HistoryKept,
         NEW d \in Conns, d # c
  PROVE  OrderPart(d)'
<1>1. /\ pc'[d] = pc[d] /\ job'[d] = job[d] /\ row'[d] = row[d]
      /\ position'[d] = position[d] /\ todo'[d] = todo[d] /\ seen'[d] = seen[d]
  BY DEF StepsAlone
<1>2. \A e \in EntryIds :
        /\ lock'[e] = d <=> lock[e] = d
        /\ lock[e] = d => table'[e] = table[e] /\ draft'[e] = draft[e] /\ e < nextId
  <2>1. d # NoConn
    OBVIOUS
  <2>2. \A e \in EntryIds : lock[e] = d => e < nextId
    BY <2>1 DEF OrderInv, IInv, TypeOK, FreshIds, EntryIds
  <2> QED
    BY <2>1, <2>2 DEF StepsAlone
<1>3. \A e \in todo[d] : e \in EntryIds /\ e < nextId
  BY DEF OrderInv, IInv, TypeOK, TransactionInv, ReadsRows
<1>4. \A g \in EntryIds : g < nextId => ahead'[g] \subseteq ahead[g]
  BY DEF HistoryKept, OrderInv, IInv, TypeOK, EntryIds
<1>5. \A g \in EntryIds : \A e \in ahead[g] :
        e \in EntryIds /\ (IsActive(table'[e]) =>
          IsActive(table[e]) /\ table'[e].position <= table[e].position)
  BY DEF OrderInv, IInv, TypeOK, SeenRows, RowsAdvance
<1>6. \A e \in seen[d] :
        e \in EntryIds /\ (IsActive(table'[e]) =>
          IsActive(table[e]) /\ table'[e].position <= table[e].position)
  BY DEF OrderInv, IInv, TypeOK, SeenRows, RowsAdvance
<1>7. /\ position[d] \in Int /\ d # c
      /\ \A e \in EntryIds : /\ table[e].position \in Int /\ table'[e].position \in Int
                           /\ draft[e].position \in Int
  BY DEF OrderInv, IInv, TypeOK, Table, Row
<1>8. DraftMoves(d)'
  BY <1>1, <1>2 DEF DraftMoves, OrderInv, OrderPart
<1>9. SkipsOnlyInFront(d)'
  <2> SUFFICES ASSUME pc[d] = "shift", NEW g \in EntryIds, lock[g] = d \/ g \in todo[d],
                      NEW e \in ahead'[g], IsActive(table'[e]), lock[e] # d, e \notin todo[d]
               PROVE  table'[e].position <= position[d]
    <3>1. \A g \in EntryIds : \A e \in ahead'[g] : e \in EntryIds
      BY DEF TypeOK
    <3> QED
      BY <1>1, <1>2, <3>1 DEF SkipsOnlyInFront
  <2>1. e \in ahead[g] /\ e \in EntryIds
    BY <1>2, <1>3, <1>4, <1>5
  <2>2. table[e].position <= position[d]
    BY <1>5, <2>1 DEF OrderInv, OrderPart, SkipsOnlyInFront
  <2> QED
    BY <1>5, <1>7, <2>1, <2>2
<1>10. JoinsBehind(d)'
  <2>1. pc[d] = "insert" => \A e \in seen[d] : IsActive(table'[e]) => table'[e].position <= position[d]
    BY <1>6, <1>7 DEF OrderInv, OrderPart, JoinsBehind
  <2>2. ASSUME pc[d] = "commit", job[d].op = "JoinQueue", NEW e \in ahead'[row[d]], IsActive(table'[e])
        PROVE  table'[e].position <= draft'[row[d]].position
    <3>1. row[d] \in EntryIds /\ lock[row[d]] = d
      BY <2>2 DEF OrderInv, IInv, TypeOK, TransactionInv, HoldsItsRow
    <3>2. e \in ahead[row[d]] /\ e \in EntryIds /\ draft'[row[d]] = draft[row[d]]
      BY <1>2, <1>4, <1>5, <2>2, <3>1
    <3>3. table[e].position <= draft[row[d]].position
      BY <1>5, <2>2, <3>1, <3>2 DEF OrderInv, OrderPart, JoinsBehind
    <3> QED
      BY <1>5, <1>7, <2>2, <3>1, <3>2, <3>3
  <2>3. job[d].op = "JoinQueue" => \A e \in EntryIds : lock'[e] = d => e = row[d]
    BY <1>2 DEF OrderInv, OrderPart, JoinsBehind
  <2> QED
    BY <1>1, <2>1, <2>2, <2>3 DEF JoinsBehind
<1> QED
  BY <1>8, <1>9, <1>10 DEF OrderPart

(* A step that commits nothing: only the part of c is left to prove.        *)
LEMMA OrderFromOwn ==
  ASSUME OrderInv, IInv', NEW c \in Conns, StepsAlone(c), table' = table, HistoryKept,
         \A e \in ahead'[nextId] : nextId \in EntryIds => table[e].status # "unused",
         \A e \in seen'[c] : table[e].status # "unused",
         OrderPart(c)'
  PROVE  OrderInv'
<1>1. RowsAdvance
  BY DEF RowsAdvance, OrderInv, IInv, TypeOK, Table, Row
<1>2. SeenRows'
  BY DEF SeenRows, OrderInv, HistoryKept, StepsAlone
<1>3. NoOvertaking'
  <2>1. \A g \in ActiveEntries(table) : g \in EntryIds /\ g # nextId
    <3> SUFFICES ASSUME NEW g \in EntryIds, IsActive(table[g]), g = nextId PROVE FALSE
      BY DEF ActiveEntries
    <3>1. g >= nextId
      BY DEF EntryIds
    <3>2. table[g].status = "unused"
      BY <3>1 DEF OrderInv, IInv, FreshIds
    <3> QED
      BY <3>2 DEF IsActive, ActiveStatus
  <2> QED
    BY <2>1 DEF NoOvertaking, OrderInv, HistoryKept
<1>4. \A d \in Conns : d # c => OrderPart(d)'
  BY <1>1, OthersKeepOrder DEF IInv
<1> QED
  BY <1>2, <1>3, <1>4 DEF OrderInv

-----------------------------------------------------------------------------
(* What each statement means to the order of its own transaction.           *)

(* Methods begin with nothing locked, and CallNextUser's SELECT too.        *)
LEMMA OrderBegin ==
  ASSUME OrderInv, IInv', NEW c \in Conns, Begin(c) \/ OpenSelect(c)
  PROVE  OrderInv'
<1> USE DEF dbVars, history
<1>1. /\ UNCHANGED <<table, draft, lock, ahead, seen>>
      /\ pc[c] \in {"idle", "first"}
      /\ pc'[c] \in {"max", "first", "select"}
  BY DEF Begin, BeginJoin, BeginCall, BeginDeparture, OpenSelect, OrderInv, IInv, TypeOK
<1>2. \A e \in EntryIds : lock'[e] # c
  BY <1>1 DEF OrderInv, IInv, TransactionInv, HoldsNothingYet
<1>3. OrderPart(c)'
  BY <1>1, <1>2 DEF OrderPart, DraftMoves, SkipsOnlyInFront, JoinsBehind
<1>4. StepsAlone(c)
  BY OneStepsAlone DEF OrderInv, Step
<1>5. HistoryKept
  BY <1>1 DEF HistoryKept
<1>6. \A e \in ahead'[nextId] : nextId \in EntryIds => table[e].status # "unused"
  BY <1>1 DEF OrderInv, SeenRows
<1>7. \A e \in seen'[c] : table[e].status # "unused"
  BY <1>1 DEF OrderInv, SeenRows
<1> QED
  BY <1>1, <1>3, <1>4, <1>5, <1>6, <1>7, OrderFromOwn

(* MAX(position) + 1 is behind every active row there is.                   *)
LEMMA OrderReadMax ==
  ASSUME OrderInv, IInv', NEW c \in Conns, ReadMaxPosition(c)
  PROVE  OrderInv'
<1> USE DEF dbVars
<1>1. PICK p \in 1 .. MaxEntries + 1 :
        IsNextPosition(table, p) /\ position' = [position EXCEPT ![c] = p]
  BY DEF ReadMaxPosition
<1>2. /\ UNCHANGED <<table, draft, lock, ahead, job>>
      /\ pc[c] = "max" /\ pc'[c] = "insert"
      /\ position'[c] = p /\ seen'[c] = ActiveEntries(table)
  BY <1>1 DEF ReadMaxPosition, OrderInv, IInv, TypeOK
<1>3. \A e \in EntryIds : lock'[e] # c
  BY <1>2 DEF OrderInv, IInv, TransactionInv, HoldsNothingYet
<1>4. \A e \in ActiveEntries(table) : table[e].position <= p
  BY <1>1 DEF IsNextPosition, ActiveEntries, OrderInv, IInv, TypeOK, Table, Row
<1>5. OrderPart(c)'
  BY <1>2, <1>3, <1>4 DEF OrderPart, DraftMoves, SkipsOnlyInFront, JoinsBehind
<1>6. StepsAlone(c)
  BY OneStepsAlone DEF OrderInv, Step
<1>7. HistoryKept
  BY <1>2 DEF HistoryKept
<1>8. \A e \in ahead'[nextId] : nextId \in EntryIds => table[e].status # "unused"
  BY <1>2 DEF OrderInv, SeenRows
<1>9. \A e \in seen'[c] : table[e].status # "unused"
  BY <1>2 DEF ActiveEntries, IsActive, ActiveStatus
<1> QED
  BY <1>2, <1>5, <1>6, <1>7, <1>8, <1>9, OrderFromOwn

(* The inserted row takes over what its join has seen and the position.     *)
LEMMA OrderInsert ==
  ASSUME OrderInv, IInv', NEW c \in Conns, InsertEntry(c)
  PROVE  OrderInv'
<1>1. nextId \in EntryIds
  BY DEF InsertEntry, OrderInv, IInv, TypeOK, EntryIds
<1>2. /\ UNCHANGED <<table, job, position>>
      /\ pc[c] = "insert" /\ pc'[c] = "commit" /\ row'[c] = nextId
      /\ draft'[nextId] = WaitingRow(job[c].user, position[c])
      /\ lock' = [lock EXCEPT ![nextId] = c]
      /\ ahead' = [ahead EXCEPT ![nextId] = seen[c]] /\ ahead'[nextId] = seen[c]
      /\ seen'[c] = {}
      /\ job[c].op = "JoinQueue"
  BY <1>1 DEF InsertEntry, OrderInv, IInv, TypeOK, Table, TransactionInv, JobFitsStatement
<1>3. \A e \in EntryIds : lock'[e] = c => e = nextId
  BY <1>2 DEF OrderInv, IInv, TypeOK, TransactionInv, HoldsNothingYet
<1>4. draft'[nextId].position = position[c]
  BY <1>2 DEF WaitingRow
<1>5. \A e \in seen[c] : IsActive(table[e]) => table[e].position <= position[c]
  BY <1>2 DEF OrderInv, OrderPart, JoinsBehind
<1>6. JoinsBehind(c)'
  BY <1>2, <1>3, <1>4, <1>5 DEF JoinsBehind
<1>7. DraftMoves(c)' /\ SkipsOnlyInFront(c)'
  BY <1>2 DEF DraftMoves, SkipsOnlyInFront
<1>8. StepsAlone(c)
  BY OneStepsAlone DEF OrderInv, Step
<1>9. HistoryKept
  BY <1>2 DEF HistoryKept, OrderInv, IInv, TypeOK
<1>10. \A e \in ahead'[nextId] : table[e].status # "unused"
  BY <1>2 DEF OrderInv, SeenRows
<1> QED
  BY <1>2, <1>6, <1>7, <1>8, <1>9, <1>10, OrderFromOwn DEF OrderPart

(* The lock and the draft of a row that a statement visits.                 *)
LEMMA VisitedDraft ==
  ASSUME OrderInv, NEW c \in Conns, NEW e \in EntryIds, Visit(c, e),
         job[c].op # "JoinQueue"
  PROVE  /\ e \in todo[c]
         /\ \A f \in EntryIds : f # e => lock'[f] = lock[f]
         /\ lock'[e] = c \/ (lock'[e] = lock[e] /\ ~IsActive(draft[e]))
         /\ IsActive(draft[e]) => draft[e].position = table[e].position
         /\ lock'[e] # c => ~IsActive(table[e])
<1>1. e \in todo[c] /\ lock[e] \in {c, NoConn}
  BY DEF Visit, NextRows, Grantable
<1>2. /\ draft[e].status # "deleted" => lock' = [lock EXCEPT ![e] = c]
      /\ draft[e].status = "deleted" => lock' = lock
  BY DEF Visit, LockVisited
<1>3. /\ \A f \in EntryIds : f # e => lock'[f] = lock[f]
      /\ lock'[e] = c \/ (lock'[e] = lock[e] /\ ~IsActive(draft[e]))
  BY <1>2 DEF OrderInv, IInv, TypeOK, IsActive, ActiveStatus
<1>4. lock[e] = NoConn => draft[e] = table[e]
  BY DEF OrderInv, IInv, UnlockedIsCommitted
<1>5. IsActive(draft[e]) => draft[e].position = table[e].position
  BY <1>1, <1>4 DEF OrderInv, OrderPart, DraftMoves
<1> QED
  BY <1>1, <1>3, <1>4, <1>5

(* SELECT ... FOR UPDATE locks rows it does not write.                      *)
LEMMA OrderSelectRow ==
  ASSUME OrderInv, IInv', NEW c \in Conns, NEW e \in EntryIds, SelectRow(c, e)
  PROVE  OrderInv'
<1>1. /\ UNCHANGED <<table, draft, pc, job, ahead, seen>>
      /\ pc[c] = "select" /\ Visit(c, e)
      /\ job[c].op \in Departures \cup {"CallNextUser"}
  BY DEF SelectRow, history, OrderInv, IInv, TransactionInv, JobFitsStatement
<1>2. job[c].op # "JoinQueue"
  BY <1>1 DEF Departures
<1>3. /\ \A f \in EntryIds : f # e => lock'[f] = lock[f]
      /\ IsActive(draft[e]) => draft[e].position = table[e].position
  BY <1>1, <1>2, VisitedDraft
<1>4. DraftMoves(c)'
  <2> SUFFICES ASSUME NEW f \in EntryIds, lock'[f] = c, IsActive(draft[f])
               PROVE  draft[f].position = table[f].position
    BY <1>1 DEF DraftMoves
  <2> QED
    BY <1>1, <1>2, <1>3 DEF OrderInv, OrderPart, DraftMoves
<1>5. SkipsOnlyInFront(c)' /\ JoinsBehind(c)'
  BY <1>1, <1>2 DEF SkipsOnlyInFront, JoinsBehind
<1>6. StepsAlone(c)
  BY OneStepsAlone DEF OrderInv, Step
<1>7. HistoryKept
  BY <1>1 DEF HistoryKept
<1>8. /\ \A g \in ahead'[nextId] : nextId \in EntryIds => table[g].status # "unused"
      /\ \A g \in seen'[c] : table[g].status # "unused"
  BY <1>1 DEF OrderInv, SeenRows
<1> QED
  BY <1>1, <1>4, <1>5, <1>6, <1>7, <1>8, OrderFromOwn DEF OrderPart

(* The UPDATE or DELETE of the status starts.                               *)
LEMMA OrderOpenMark ==
  ASSUME OrderInv, IInv', NEW c \in Conns, OpenMark(c)
  PROVE  OrderInv'
<1>1. /\ UNCHANGED <<table, draft, lock, job, row, ahead, seen>>
      /\ pc[c] = "select" /\ pc'[c] = "mark"
      /\ job[c].op \in Departures \cup {"CallNextUser"}
  BY DEF OpenMark, Accepted, dbVars, history, OrderInv, IInv, TypeOK, TransactionInv, JobFitsStatement
<1>2. job[c].op # "JoinQueue"
  BY <1>1 DEF Departures
<1>3. OrderPart(c)'
  BY <1>1, <1>2 DEF OrderInv, OrderPart, DraftMoves, SkipsOnlyInFront, JoinsBehind
<1>4. StepsAlone(c)
  BY OneStepsAlone DEF OrderInv, Step
<1>5. HistoryKept
  BY <1>1 DEF HistoryKept
<1>6. /\ \A g \in ahead'[nextId] : nextId \in EntryIds => table[g].status # "unused"
      /\ \A g \in seen'[c] : table[g].status # "unused"
  BY <1>1 DEF OrderInv, SeenRows
<1> QED
  BY <1>1, <1>3, <1>4, <1>5, <1>6, OrderFromOwn

(* Neither status changes the position of a row that stays in the queue.    *)
LEMMA OrderMarkRow ==
  ASSUME OrderInv, IInv', NEW c \in Conns, NEW e \in EntryIds, MarkRow(c, e)
  PROVE  OrderInv'
<1>1. /\ UNCHANGED <<table, pc, job, ahead, seen>>
      /\ pc[c] = "mark" /\ Visit(c, e)
      /\ \A f \in EntryIds : f # e => draft'[f] = draft[f]
      /\ draft'[e] = draft[e] \/ (Marked(job[c], row[c], e, draft[e])
                                /\ draft'[e] = MarkedRow(job[c], draft[e]))
      /\ job[c].op \in Departures \cup {"CallNextUser"}
      /\ draft[e] \in Row
  BY DEF MarkRow, history, OrderInv, IInv, TypeOK, Table, TransactionInv, JobFitsStatement
<1>2. job[c].op # "JoinQueue"
  BY <1>1 DEF Departures
<1>3. /\ \A f \in EntryIds : f # e => lock'[f] = lock[f]
      /\ IsActive(draft[e]) => draft[e].position = table[e].position
  BY <1>1, <1>2, VisitedDraft
<1>4. Marked(job[c], row[c], e, draft[e]) /\ job[c].op = "CallNextUser" => IsActive(draft[e])
  <2> SUFFICES ASSUME e = row[c], job[c].op = "CallNextUser" PROVE IsActive(draft[e])
    BY DEF Marked
  <2>1. Untouched(e) \/ Changed(c, e)
    BY <1>1, VisitedRow DEF OrderInv, IInv
  <2>2. row[c] # 0
    BY DEF EntryIds
  <2>3. Wanted(job[c], row[c], table[row[c]])
    BY <1>1, <2>2, TakenRow DEF OrderInv
  <2> QED
    BY <2>1, <2>3 DEF Wanted, Departures, Untouched, Changed, IsActive, ActiveStatus
<1>5. IsActive(draft'[e]) => draft'[e].position = table[e].position
  <2>1. CASE draft'[e] = draft[e]
    BY <1>3, <2>1
  <2>2. CASE draft'[e] = MarkedRow(job[c], draft[e]) /\ job[c].op = "CallNextUser"
             /\ Marked(job[c], row[c], e, draft[e])
    <3>1. draft'[e].position = draft[e].position
      BY <1>1, <2>2 DEF MarkedRow, Row
    <3> QED
      BY <1>3, <1>4, <2>2, <3>1
  <2>3. CASE draft'[e] = MarkedRow(job[c], draft[e]) /\ job[c].op \in Departures
    BY <1>1, <2>3 DEF MarkedRow, NewStatus, DeletedRow, Row, Departures, IsActive, ActiveStatus
  <2> QED
    BY <1>1, <2>1, <2>2, <2>3
<1>6. DraftMoves(c)'
  <2> SUFFICES ASSUME NEW f \in EntryIds, lock'[f] = c, IsActive(draft'[f])
               PROVE  draft'[f].position = table[f].position
    BY <1>1 DEF DraftMoves
  <2> QED
    BY <1>1, <1>2, <1>3, <1>5 DEF OrderInv, OrderPart, DraftMoves
<1>7. SkipsOnlyInFront(c)' /\ JoinsBehind(c)'
  BY <1>1, <1>2 DEF SkipsOnlyInFront, JoinsBehind
<1>8. StepsAlone(c)
  BY OneStepsAlone DEF OrderInv, Step
<1>9. HistoryKept
  BY <1>1 DEF HistoryKept
<1>10. /\ \A g \in ahead'[nextId] : nextId \in EntryIds => table[g].status # "unused"
       /\ \A g \in seen'[c] : table[g].status # "unused"
  BY <1>1 DEF OrderInv, SeenRows
<1> QED
  BY <1>1, <1>6, <1>7, <1>8, <1>9, <1>10, OrderFromOwn DEF OrderPart

(* The gap-closing UPDATE starts: what it will not visit is in front.       *)
LEMMA OrderOpenShift ==
  ASSUME OrderInv, IInv', NEW c \in Conns, OpenShift(c)
  PROVE  OrderInv'
<1>1. /\ UNCHANGED <<table, draft, lock, job, position, row, ahead, seen>>
      /\ pc[c] = "mark"
      /\ job[c].op # "JoinQueue"
      /\ \/ pc'[c] = "commit"
         \/ pc'[c] = "shift" /\ todo'[c] = {e \in EntryIds : IsBehind(Snapshot(c)[e], position[c])}
  BY DEF OpenShift, dbVars, history, Departures, OrderInv, IInv, TypeOK
<1>2. \A e \in EntryIds :
        /\ table[e].position \in Int /\ position[c] \in Int
        /\ lock[e] = c /\ IsActive(draft[e]) => draft[e].position = table[e].position
        /\ Snapshot(c)[e] = IF lock[e] = c THEN draft[e] ELSE table[e]
  BY <1>1 DEF OrderInv, IInv, TypeOK, Table, Row, OrderPart, DraftMoves, Snapshot
<1>3. ASSUME pc'[c] = "commit" PROVE OrderPart(c)'
  BY <1>1, <1>2, <1>3 DEF OrderPart, DraftMoves, SkipsOnlyInFront, JoinsBehind
<1>4. ASSUME pc'[c] = "shift", todo'[c] = {e \in EntryIds : IsBehind(Snapshot(c)[e], position[c])}
      PROVE  OrderPart(c)'
  <2>1. DraftMoves(c)'
    BY <1>1, <1>2, <1>4 DEF DraftMoves, ClosedUp, IsBehind
  <2>2. \A e \in EntryIds : IsActive(table[e]) /\ lock[e] # c /\ e \notin todo'[c] =>
          table[e].position <= position[c]
    BY <1>2, <1>4 DEF IsBehind
  <2>3. \A g \in EntryIds : ahead[g] \subseteq EntryIds
    BY DEF OrderInv, IInv, TypeOK
  <2>4. SkipsOnlyInFront(c)'
    BY <1>1, <2>2, <2>3 DEF SkipsOnlyInFront
  <2>5. JoinsBehind(c)'
    BY <1>1, <1>4 DEF JoinsBehind
  <2> QED
    BY <2>1, <2>4, <2>5 DEF OrderPart
<1>5. StepsAlone(c)
  BY OneStepsAlone DEF OrderInv, Step
<1>6. HistoryKept
  BY <1>1 DEF HistoryKept
<1>7. /\ \A g \in ahead'[nextId] : nextId \in EntryIds => table[g].status # "unused"
      /\ \A g \in seen'[c] : table[g].status # "unused"
  BY <1>1 DEF OrderInv, SeenRows
<1> QED
  BY <1>1, <1>3, <1>4, <1>5, <1>6, <1>7, OrderFromOwn

(* It moves a row once, by one, if the row is behind the gap by then.       *)
LEMMA OrderShiftRow ==
  ASSUME OrderInv, IInv', NEW c \in Conns, NEW e \in EntryIds, ShiftRow(c, e)
  PROVE  OrderInv'
<1>1. /\ UNCHANGED <<table, pc, job, row, position, ahead, seen>>
      /\ pc[c] = "shift" /\ Visit(c, e)
      /\ \A f \in EntryIds : f # e => draft'[f] = draft[f]
      /\ draft'[e] = IF IsBehind(draft[e], position[c]) THEN MovedUp(draft[e]) ELSE draft[e]
      /\ job[c].op # "JoinQueue"
      /\ todo'[c] = todo[c] \ {e}
      /\ draft[e] \in Row /\ position[c] \in Int
  BY DEF ShiftRow, history, OrderInv, IInv, TypeOK, Table, TransactionInv, JobFitsStatement, Departures
<1>2. /\ \A f \in EntryIds : f # e => lock'[f] = lock[f]
      /\ IsActive(draft[e]) => draft[e].position = table[e].position
      /\ e \in todo[c]
      /\ lock'[e] # c => ~IsActive(table[e])
  BY <1>1, VisitedDraft
<1>3. IsActive(draft'[e]) => draft'[e].position = ClosedUp(table[e].position, position[c])
  BY <1>1, <1>2 DEF IsBehind, MovedUp, ClosedUp, Row, IsActive
<1>4. DraftMoves(c)'
  <2> SUFFICES ASSUME NEW f \in EntryIds, lock'[f] = c, IsActive(draft'[f])
               PROVE  draft'[f].position = IF f \notin todo'[c]
                                           THEN ClosedUp(table[f].position, position[c])
                                           ELSE table[f].position
    BY <1>1 DEF DraftMoves
  <2>1. CASE f = e
    BY <1>1, <1>3, <2>1
  <2>2. CASE f # e
    BY <1>1, <1>2, <2>2 DEF OrderInv, OrderPart, DraftMoves
  <2> QED
    BY <2>1, <2>2
<1>5. SkipsOnlyInFront(c)'
  <2> SUFFICES ASSUME NEW g \in EntryIds, lock'[g] = c \/ g \in todo'[c],
                      NEW f \in ahead[g], IsActive(table[f]), lock'[f] # c, f \notin todo'[c]
               PROVE  table[f].position <= position[c]
    BY <1>1 DEF SkipsOnlyInFront
  <2>1. f \in EntryIds /\ f # e
    BY <1>2 DEF OrderInv, IInv, TypeOK
  <2>2. lock[g] = c \/ g \in todo[c]
    BY <1>1, <1>2
  <2>3. lock[f] # c /\ f \notin todo[c]
    BY <1>1, <1>2, <2>1
  <2> QED
    BY <1>1, <2>2, <2>3 DEF OrderInv, OrderPart, SkipsOnlyInFront
<1>6. JoinsBehind(c)'
  BY <1>1 DEF JoinsBehind
<1>7. StepsAlone(c)
  BY OneStepsAlone DEF OrderInv, Step
<1>8. HistoryKept
  BY <1>1 DEF HistoryKept
<1>9. /\ \A g \in ahead'[nextId] : nextId \in EntryIds => table[g].status # "unused"
      /\ \A g \in seen'[c] : table[g].status # "unused"
  BY <1>1 DEF OrderInv, SeenRows
<1> QED
  BY <1>1, <1>4, <1>5, <1>6, <1>7, <1>8, <1>9, OrderFromOwn DEF OrderPart

(* A rollback lets go of the rows as they were.                             *)
LEMMA OrderRollback ==
  ASSUME OrderInv, IInv', NEW c \in Conns, Rollback(c)
  PROVE  OrderInv'
<1>1. /\ UNCHANGED <<table, ahead>>
      /\ pc'[c] = "idle" /\ job'[c] = NoJob /\ seen'[c] = {}
      /\ \A e \in EntryIds : lock'[e] # c
  BY DEF Rollback, Release, OrderInv, IInv, TypeOK
<1>2. OrderPart(c)'
  BY <1>1 DEF OrderPart, DraftMoves, SkipsOnlyInFront, JoinsBehind
<1>3. StepsAlone(c)
  BY ReleasesAlone DEF OrderInv, Rollback
<1>4. HistoryKept
  BY <1>1 DEF HistoryKept
<1>5. \A g \in ahead'[nextId] : nextId \in EntryIds => table[g].status # "unused"
  BY <1>1 DEF OrderInv, SeenRows
<1> QED
  BY <1>1, <1>2, <1>3, <1>4, <1>5, OrderFromOwn

(* What a commit does to a row that was committed before.                   *)
LEMMA CommitAdvances ==
  ASSUME OrderInv, NEW c \in Conns, Commit(c)
  PROVE  RowsAdvance
<1> SUFFICES ASSUME NEW e \in EntryIds, table[e].status # "unused"
             PROVE  /\ table'[e].status # "unused"
                    /\ IsActive(table'[e]) =>
                         IsActive(table[e]) /\ table'[e].position <= table[e].position
  BY DEF RowsAdvance
<1>1. table[e].position \in Int
  BY DEF OrderInv, IInv, TypeOK, Table, Row
<1>2. CASE lock[e] # c
  BY <1>1, <1>2, CommitEffect DEF OrderInv
<1>3. CASE lock[e] = c
  <2>1. /\ table'[e] = draft[e]
        /\ Untouched(e) \/ Changed(c, e)
        /\ Changed(c, row[c])
    BY <1>3, CommitEffect DEF OrderInv
  <2>2. table'[e].status # "unused" /\ (IsActive(draft[e]) => IsActive(table[e]))
    BY <2>1 DEF Untouched, Changed, IsActive, ActiveStatus
  <2>3. job[c].op # "JoinQueue"
    BY <1>3, <2>1 DEF OrderInv, OrderPart, JoinsBehind, Changed
  <2>4. IsActive(draft[e]) =>
          \/ draft[e].position = table[e].position
          \/ draft[e].position = ClosedUp(table[e].position, position[c])
    BY <1>3, <2>3 DEF OrderInv, OrderPart, DraftMoves
  <2>5. position[c] \in Int
    BY DEF OrderInv, IInv, TypeOK
  <2> QED
    BY <1>1, <2>1, <2>2, <2>4, <2>5 DEF ClosedUp
<1> QED
  BY <1>2, <1>3

(* A departure that closes its gap, or a call, lets nobody pass.            *)
LEMMA DepartureOvertakesNobody ==
  ASSUME OrderInv, NEW c \in Conns, Commit(c), job[c].op # "JoinQueue",
         NEW g \in EntryIds, NEW e \in ahead[g], IsActive(table'[g]), IsActive(table'[e])
  PROVE  table'[e].position <= table'[g].position
<1> DEFINE p == position[c]
<1>1. e \in EntryIds /\ table[e].status # "unused"
  BY DEF OrderInv, IInv, TypeOK, SeenRows
<1>2. table[g].status # "unused"
  BY <1>1, CommitEffect DEF OrderInv, IInv, Untouched, Changed, IsActive, ActiveStatus
<1>3. IsActive(table[e]) /\ IsActive(table[g])
  BY <1>1, <1>2, CommitAdvances DEF RowsAdvance
<1>4. table[e].position <= table[g].position
  BY <1>1, <1>3 DEF OrderInv, NoOvertaking, ActiveEntries
<1>5. /\ table[e].position \in Int /\ table[g].position \in Int /\ p \in Int
  BY <1>1 DEF OrderInv, IInv, TypeOK, Table, Row
<1>6. ASSUME NEW f \in EntryIds, IsActive(table'[f])
      PROVE  /\ lock[f] # c => table'[f].position = table[f].position
             /\ lock[f] = c => table'[f].position = IF pc[c] = "shift" THEN ClosedUp(table[f].position, p)
                                                    ELSE table[f].position
  <2>1. pc[c] = "shift" => todo[c] = {}
    BY DEF Commit, ReadyToCommit
  <2>2. /\ lock[f] # c => table'[f] = table[f]
        /\ lock[f] = c => table'[f] = draft[f]
    BY CommitEffect DEF OrderInv
  <2>3. DraftMoves(c)
    BY DEF OrderInv, OrderPart
  <2> QED
    BY <1>6, <2>1, <2>2, <2>3 DEF DraftMoves
<1>7. pc[c] = "shift" /\ lock[g] = c /\ lock[e] # c => table[e].position <= p
  BY <1>1, <1>3 DEF OrderInv, OrderPart, SkipsOnlyInFront, Commit, ReadyToCommit
<1> HIDE DEF p
<1>8. CASE pc[c] = "shift"
  BY <1>1, <1>4, <1>5, <1>6, <1>7, <1>8 DEF ClosedUp
<1>9. CASE pc[c] # "shift"
  BY <1>1, <1>4, <1>6, <1>9
<1> QED
  BY <1>8, <1>9

(* Who joins goes behind everybody the join has seen.                       *)
LEMMA JoinOvertakesNobody ==
  ASSUME OrderInv, NEW c \in Conns, Commit(c), job[c].op = "JoinQueue",
         NEW g \in EntryIds, NEW e \in ahead[g], IsActive(table'[g]), IsActive(table'[e])
  PROVE  table'[e].position <= table'[g].position
<1>1. e \in EntryIds /\ table[e].status # "unused"
  BY DEF OrderInv, IInv, TypeOK, SeenRows
<1>2. /\ row[c] \in EntryIds /\ lock[row[c]] = c /\ table[row[c]].status = "unused"
      /\ \A f \in EntryIds : lock[f] # c => table'[f] = table[f]
      /\ table'[row[c]] = draft[row[c]]
  BY CommitEffect DEF OrderInv, Changed
<1>3. /\ \A f \in EntryIds : f # row[c] => table'[f] = table[f]
      /\ pc[c] = "commit"
  BY <1>2 DEF OrderInv, IInv, TransactionInv, JobFitsStatement, OrderPart, JoinsBehind,
         Commit, ReadyToCommit, Departures
<1>4. e # row[c] /\ IsActive(table[e])
  BY <1>1, <1>2, <1>3
<1>5. CASE g = row[c]
  BY <1>1, <1>2, <1>3, <1>4, <1>5 DEF OrderInv, OrderPart, JoinsBehind
<1>6. CASE g # row[c]
  BY <1>1, <1>3, <1>4, <1>6 DEF OrderInv, NoOvertaking, ActiveEntries
<1> QED
  BY <1>5, <1>6

(* So no commit lets anybody pass.                                          *)
LEMMA OrderCommit ==
  ASSUME OrderInv, IInv', NEW c \in Conns, Commit(c)
  PROVE  OrderInv'
<1>1. /\ pc'[c] = "idle" /\ job'[c] = NoJob /\ seen'[c] = {}
      /\ \A d \in Conns : d # c => seen'[d] = seen[d]
      /\ \A e \in EntryIds : lock'[e] # c
      /\ \A g \in EntryIds : ahead'[g] \subseteq ahead[g] /\ ahead[g] \subseteq EntryIds
  BY DEF Commit, Release, OrderInv, IInv, TypeOK
<1>2. OrderPart(c)'
  BY <1>1 DEF OrderPart, DraftMoves, SkipsOnlyInFront, JoinsBehind
<1>3. StepsAlone(c)
  BY ReleasesAlone DEF OrderInv, Commit
<1>4. RowsAdvance /\ HistoryKept
  BY <1>1, CommitAdvances DEF HistoryKept
<1>5. \A d \in Conns : d # c => OrderPart(d)'
  BY <1>3, <1>4, OthersKeepOrder DEF IInv
<1>6. SeenRows'
  BY <1>1, <1>4 DEF SeenRows, RowsAdvance, OrderInv, IInv, TypeOK
<1>7. NoOvertaking'
  <2> SUFFICES ASSUME NEW g \in EntryIds, NEW e \in ahead'[g],
                      IsActive(table'[g]), IsActive(table'[e])
               PROVE  table'[e].position <= table'[g].position
    BY DEF NoOvertaking, ActiveEntries
  <2>1. e \in ahead[g]
    BY <1>1
  <2> QED
    BY <2>1, DepartureOvertakesNobody, JoinOvertakesNobody
<1> QED
  BY <1>2, <1>5, <1>6, <1>7 DEF OrderInv

(* Nothing is locked, and nobody has been seen, in the empty queue.         *)
LEMMA OrderInit == Init => OrderInv
<1> SUFFICES ASSUME Init PROVE OrderInv
  OBVIOUS
<1>1. IInv
  BY InvInit
<1>2. SeenRows /\ NoOvertaking
  BY DEF Init, SeenRows, NoOvertaking, ActiveEntries
<1>3. ASSUME NEW c \in Conns PROVE OrderPart(c)
  BY DEF Init, OrderPart, DraftMoves, SkipsOnlyInFront, JoinsBehind
<1> QED
  BY <1>1, <1>2, <1>3 DEF OrderInv

(* Every step keeps the order.                                              *)
LEMMA OrderStep == OrderInv /\ [Next]_vars => OrderInv'
<1> SUFFICES ASSUME OrderInv, [Next]_vars PROVE OrderInv'
  OBVIOUS
<1>1. IInv'
  BY InvStep DEF OrderInv
<1>2. ASSUME NEW c \in Conns, Begin(c) PROVE OrderInv'
  BY <1>1, <1>2, OrderBegin
<1>3. ASSUME NEW c \in Conns, Step(c) PROVE OrderInv'
  <2>1. CASE ReadMaxPosition(c) \/ InsertEntry(c) \/ OpenSelect(c) \/ OpenMark(c) \/ OpenShift(c)
    BY <1>1, <2>1, OrderReadMax, OrderInsert, OrderBegin, OrderOpenMark, OrderOpenShift
  <2>2. CASE \E e \in EntryIds : SelectRow(c, e) \/ MarkRow(c, e) \/ ShiftRow(c, e)
    BY <1>1, <2>2, OrderSelectRow, OrderMarkRow, OrderShiftRow
  <2>3. CASE Refuse(c) \/ Commit(c)
    BY <1>1, <2>3, OrderRollback, OrderCommit DEF Refuse
  <2> QED
    BY <1>3, <2>1, <2>2, <2>3 DEF Step
<1>4. ASSUME NEW c \in Conns, Fail(c) PROVE OrderInv'
  BY <1>1, <1>4, OrderRollback DEF Fail
<1>5. CASE UNCHANGED vars \/ \E b \in PauseValues : SetPaused(b)
  <2>1. UNCHANGED <<table, draft, lock, nextId, pc, job, row, position, todo, ahead, seen>>
    BY <1>5 DEF vars, dbVars, txVars, history, SetPaused
  <2> QED
    BY <1>1, <2>1 DEF OrderInv, SeenRows, NoOvertaking, ActiveEntries, OrderPart, DraftMoves,
         SkipsOnlyInFront, JoinsBehind
<1> QED
  BY <1>2, <1>3, <1>4, <1>5 DEF Next

(* The rows each statement may still move are the right ones, whatever      *)
(* overlaps.                                                                *)
THEOREM OrderInvariance == Spec => []OrderInv
BY OrderInit, OrderStep, PTL DEF Spec

(* Nobody is overtaken, however joins and departures overlap: an entry is   *)
(* never behind one that had seen it in the queue before joining.           *)
THEOREM NobodyOvertakes == Spec => []NoOvertaking
<1>1. OrderInv => NoOvertaking
  BY DEF OrderInv
<1> QED
  BY <1>1, OrderInvariance, PTL

=============================================================================
