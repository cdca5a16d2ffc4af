------------------------- MODULE AtomicQueueProofs -------------------------
(***************************************************************************)
(* Theorems about AtomicQueue, for any number of users and entries: when   *)
(* each method of the repository is one step, the active positions are     *)
(* always 1 .. n and no user is in the queue twice.  The two need each     *)
(* other: LeaveQueue and RemoveUserFromQueue take all the active rows of a *)
(* user away and close one gap, which is right only if there is one row.   *)
(***************************************************************************)
EXTENDS AtomicQueue, TLAPS

USE QueueTableAssumption

QueueInv ==
  /\ queue \in Table
  /\ Contiguous(queue)
  /\ OneEntryPerUser(queue)

(* The active rows of u are those of t without g, which is gone.            *)
LosesEntry(t, u, g) ==
  /\ u \in Table
  /\ ActiveEntries(u) = ActiveEntries(t) \ {g}
  /\ \A e \in ActiveEntries(u) : u[e].position = t[e].position /\ u[e].user = t[e].user

(* Closing the gap at p touches no status and no user: it moves the active  *)
(* rows behind p, and those only.                                           *)
LEMMA GapRows ==
  ASSUME NEW u \in Table, NEW p \in Int
  PROVE  /\ CloseGap(u, p) \in Table
         /\ ActiveEntries(CloseGap(u, p)) = ActiveEntries(u)
         /\ \A e \in ActiveEntries(u) :
              /\ CloseGap(u, p)[e].user = u[e].user
              /\ CloseGap(u, p)[e].position =
                   IF u[e].position > p THEN u[e].position - 1 ELSE u[e].position
<1>1. ASSUME NEW e \in EntryIds
      PROVE  /\ CloseGap(u, p)[e] \in Row
             /\ CloseGap(u, p)[e].user = u[e].user
             /\ CloseGap(u, p)[e].status = u[e].status
             /\ CloseGap(u, p)[e].position =
                  IF IsBehind(u[e], p) THEN u[e].position - 1 ELSE u[e].position
  BY DEF CloseGap, MovedUp, Table, Row
<1>2. CloseGap(u, p) \in Table
  BY <1>1 DEF CloseGap, Table
<1> QED
  BY <1>1, <1>2 DEF ActiveEntries, IsActive, IsBehind

(* The UPDATE that moves the rows behind the departed one up restores 1..n. *)
LEMMA GapCloses ==
  ASSUME NEW t \in Table, Contiguous(t), OneEntryPerUser(t),
         NEW g \in ActiveEntries(t), NEW u, LosesEntry(t, u, g)
  PROVE  LET v == CloseGap(u, t[g].position)
         IN  v \in Table /\ Contiguous(v) /\ OneEntryPerUser(v)
<1> DEFINE A == ActiveEntries(t)
           p == t[g].position
           v == CloseGap(u, p)
<1>1. /\ A \subseteq EntryIds /\ g \in A
      /\ \A e \in A : t[e].position \in Int
  BY DEF ActiveEntries, Table, Row
<1>2. /\ v \in Table
      /\ ActiveEntries(v) = A \ {g}
      /\ \A e \in A \ {g} :
           /\ v[e].user = t[e].user
           /\ v[e].position = IF t[e].position > p THEN t[e].position - 1 ELSE t[e].position
  <2>1. /\ u \in Table /\ p \in Int
        /\ ActiveEntries(u) = A \ {g}
        /\ \A e \in A \ {g} : u[e].position = t[e].position /\ u[e].user = t[e].user
    BY <1>1 DEF LosesEntry
  <2>2. v \in Table /\ ActiveEntries(v) = ActiveEntries(u)
    BY <2>1, GapRows
  <2>3. \A e \in ActiveEntries(u) :
          /\ v[e].user = u[e].user
          /\ v[e].position = IF u[e].position > p THEN u[e].position - 1 ELSE u[e].position
    BY <2>1, GapRows
  <2> HIDE DEF v, p, A
  <2> QED
    BY <2>1, <2>2, <2>3
<1>3. /\ \A e, f \in A : t[e].position = t[f].position => e = f
      /\ \A e \in A : t[e].position = 1 \/ \E f \in A : t[e].position = t[f].position + 1
      /\ \A e \in A : t[e].position >= 1
      /\ \A e, f \in A : t[e].user = t[f].user => e = f
  BY DEF Contiguous, OneEntryPerUser
<1> HIDE DEF v, A, p
<1>4. p \in Int /\ p = t[g].position
  BY <1>1 DEF p
<1>5. \A e, f \in A \ {g} : v[e].position = v[f].position => e = f
  BY <1>1, <1>2, <1>3, <1>4
<1>6. ASSUME NEW e \in A \ {g}
      PROVE  v[e].position = 1 \/ \E f \in A \ {g} : v[e].position = v[f].position + 1
  <2>1. CASE t[e].position = 1
    BY <1>1, <1>2, <1>3, <1>4, <2>1
  <2>2. ASSUME NEW f \in A, t[e].position = t[f].position + 1
        PROVE  v[e].position = 1 \/ \E h \in A \ {g} : v[e].position = v[h].position + 1
    <3>1. CASE f # g
      BY <1>1, <1>2, <1>3, <1>4, <2>2, <3>1
    <3>2. CASE f = g
      <4>1. v[e].position = p
        BY <1>1, <1>2, <1>4, <2>2, <3>2
      <4>2. p = 1 \/ \E h \in A \ {g} : p = t[h].position + 1
        BY <1>1, <1>3, <1>4
      <4> QED
        BY <1>1, <1>2, <4>1, <4>2, <1>4
    <3> QED
      BY <3>1, <3>2
  <2> QED
    BY <1>3, <2>1, <2>2
<1>7. \A e \in A \ {g} : v[e].position >= 1
  BY <1>1, <1>2, <1>3, <1>4
<1>8. Contiguous(v)
  BY <1>2, <1>5, <1>6, <1>7 DEF Contiguous
<1>9. OneEntryPerUser(v)
  BY <1>2, <1>3 DEF OneEntryPerUser
<1> QED
  BY <1>2, <1>8, <1>9 DEF v, p

(* The empty queue is contiguous.                                           *)
LEMMA QueueInit == Init => QueueInv
BY DEF Init, QueueInv, EmptyTable, UnusedRow, Table, Row, Contiguous, OneEntryPerUser,
       ActiveEntries, IsActive, ActiveStatus

(* Every method keeps positions contiguous and users unique.                *)
LEMMA QueueStep == QueueInv /\ [Next]_queue => QueueInv'
<1> SUFFICES ASSUME QueueInv, [Next]_queue PROVE QueueInv'
  OBVIOUS
<1> USE DEF QueueInv
<1>1. ASSUME NEW u \in Users, NEW e \in EntryIds, NEW p \in 1 .. MaxEntries, Join(u, e, p)
      PROVE  QueueInv'
  <2>1. WaitingRow(u, p) \in Row /\ queue' \in Table
    BY <1>1 DEF Join, WaitingRow, Table, Row, StoredStatus, ActiveStatus
  <2>2. /\ e \notin ActiveEntries(queue)
        /\ ActiveEntries(queue') = ActiveEntries(queue) \cup {e}
        /\ queue'[e].position = p /\ queue'[e].user = u /\ p >= 1
        /\ \A f \in ActiveEntries(queue) : queue'[f] = queue[f]
    BY <1>1 DEF Join, WaitingRow, ActiveEntries, IsActive, ActiveStatus, Table
  <2>3. \A f \in ActiveEntries(queue) : queue[f].position < p /\ queue[f].user # u
    BY <1>1 DEF Join, IsNextPosition
  <2>4. p = 1 \/ \E f \in ActiveEntries(queue) : p = queue[f].position + 1
    BY <1>1 DEF Join, IsNextPosition
  <2>5. \A f \in ActiveEntries(queue) : queue[f].position \in Int
    BY DEF ActiveEntries, Table, Row
  <2>6. Contiguous(queue')
    BY <2>2, <2>3, <2>4, <2>5 DEF Contiguous
  <2>7. OneEntryPerUser(queue')
    BY <2>2, <2>3 DEF OneEntryPerUser
  <2> QED
    BY <2>1, <2>6, <2>7
<1>2. ASSUME NEW e \in EntryIds, Call(e) PROVE QueueInv'
  <2>1. /\ queue' \in Table
        /\ \A f \in EntryIds : /\ queue'[f].position = queue[f].position
                               /\ queue'[f].user = queue[f].user
                               /\ IsActive(queue'[f]) <=> IsActive(queue[f])
    BY <1>2 DEF Call, Table, Row, IsActive, ActiveStatus, StoredStatus
  <2>2. ActiveEntries(queue') = ActiveEntries(queue)
    BY <2>1 DEF ActiveEntries
  <2>3. ActiveEntries(queue) \subseteq EntryIds
    BY DEF ActiveEntries
  <2> QED
    BY <2>1, <2>2, <2>3 DEF Contiguous, OneEntryPerUser
<1>3. ASSUME NEW e \in EntryIds, NEW s \in {"confirmed", "timeout"}, Conclude(e, s)
      PROVE  QueueInv'
  <2> DEFINE u == [queue EXCEPT ![e].status = s]
  <2>1. e \in ActiveEntries(queue)
    BY <1>3 DEF Conclude, ActiveEntries, IsActive, ActiveStatus
  <2>2. LosesEntry(queue, u, e)
    BY <1>3 DEF LosesEntry, ActiveEntries, IsActive, ActiveStatus, StoredStatus, Table, Row
  <2>3. queue' = CloseGap(u, queue[e].position)
    BY <1>3 DEF Conclude
  <2> HIDE DEF u
  <2> QED
    BY <2>1, <2>2, <2>3, GapCloses
<1>4. ASSUME NEW e \in EntryIds, Leave(e) PROVE QueueInv'
  <2> DEFINE u == [f \in EntryIds |->
                     IF queue[f].user = queue[e].user /\ IsActive(queue[f])
                     THEN DeletedRow ELSE queue[f]]
  <2>1. e \in ActiveEntries(queue)
    BY <1>4 DEF Leave, ActiveEntries
  <2>2. LosesEntry(queue, u, e)
    <3>1. \A f \in EntryIds :
            u[f] = IF f = e THEN DeletedRow ELSE queue[f]
      BY <2>1 DEF OneEntryPerUser, ActiveEntries
    <3>2. DeletedRow \in Row /\ ~IsActive(DeletedRow)
      BY DEF DeletedRow, Row, IsActive, ActiveStatus
    <3> QED
      BY <3>1, <3>2 DEF LosesEntry, ActiveEntries, Table
  <2>3. queue' = CloseGap(u, queue[e].position)
    BY <1>4 DEF Leave
  <2> HIDE DEF u
  <2> QED
    BY <2>1, <2>2, <2>3, GapCloses
<1>5. ASSUME NEW e \in EntryIds, Remove(e) PROVE QueueInv'
  <2> DEFINE u == [f \in EntryIds |->
                     IF queue[f].user = queue[e].user
                     THEN [queue[f] EXCEPT !.status = "removed"] ELSE queue[f]]
  <2>1. e \in ActiveEntries(queue)
    BY <1>5 DEF Remove, ActiveEntries
  <2>2. LosesEntry(queue, u, e)
    <3>1. \A f \in EntryIds :
            /\ u[f] \in Row
            /\ u[f].position = queue[f].position /\ u[f].user = queue[f].user
            /\ u[f].status = IF queue[f].user = queue[e].user THEN "removed" ELSE queue[f].status
      BY DEF Table, Row, StoredStatus
    <3>2. \A f \in EntryIds : IsActive(u[f]) <=> IsActive(queue[f]) /\ f # e
      BY <2>1, <3>1 DEF OneEntryPerUser, ActiveEntries, IsActive, ActiveStatus
    <3> QED
      BY <3>1, <3>2 DEF LosesEntry, ActiveEntries, Table
  <2>3. queue' = CloseGap(u, queue[e].position)
    BY <1>5 DEF Remove
  <2> HIDE DEF u
  <2> QED
    BY <2>1, <2>2, <2>3, GapCloses
<1>6. CASE UNCHANGED queue
  BY <1>6
<1> QED
  BY <1>1, <1>2, <1>3, <1>4, <1>5, <1>6 DEF Next

(* README, "Queue Ordering": the active positions are always 1 .. n, and no *)
(* user is in the queue twice, when each method runs as one step.           *)
THEOREM PositionsContiguous == Spec => [](Contiguous(queue) /\ OneEntryPerUser(queue))
<1>1. QueueInv => Contiguous(queue) /\ OneEntryPerUser(queue)
  BY DEF QueueInv
<1> QED
  BY <1>1, QueueInit, QueueStep, PTL DEF Spec

=============================================================================
