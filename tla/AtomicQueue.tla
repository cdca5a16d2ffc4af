---------------------------- MODULE AtomicQueue ----------------------------
(***************************************************************************)
(* What the methods of repositories/queue_repository.go promise when each  *)
(* is taken as one indivisible step on the table.  QueueRepository, which  *)
(* has the statements and the row locks, implements this specification as  *)
(* long as no JoinQueue overlaps another transaction.                      *)
(*                                                                         *)
(* The pause flag only forbids calls, and the transaction that gives up    *)
(* leaves the table alone: neither appears here.                           *)
(***************************************************************************)
EXTENDS QueueTable

VARIABLE queue      \* the rows of queue_entries

Init == queue = EmptyTable

(* Every active row behind position p of table t moves up by one.           *)
CloseGap(t, p) == [e \in EntryIds |-> IF IsBehind(t[e], p) THEN MovedUp(t[e]) ELSE t[e]]

(* JoinQueue: to the end of the queue, unless the user is in it.            *)
Join(u, e, p) ==
  /\ \A f \in ActiveEntries(queue) : queue[f].user # u
  /\ queue[e].status = "unused"
  /\ IsNextPosition(queue, p)
  /\ queue' = [queue EXCEPT ![e] = WaitingRow(u, p)]

(* CallNextUser: the first of the waiting rows.                             *)
Call(e) ==
  /\ queue[e].status = "waiting"
  /\ \A f \in EntryIds :
       queue[f].status = "waiting" => queue[e].position <= queue[f].position
  /\ queue' = [queue EXCEPT ![e].status = "called"]

(* ConfirmTurn and TimeoutUser: a called row ends and its gap is closed.    *)
Conclude(e, status) ==
  /\ queue[e].status = "called"
  /\ queue' = CloseGap([queue EXCEPT ![e].status = status], queue[e].position)

(* LeaveQueue: the active rows of the owner of e go, and the gap of e.      *)
Leave(e) ==
  /\ IsActive(queue[e])
  /\ queue' = CloseGap([f \in EntryIds |->
                          IF queue[f].user = queue[e].user /\ IsActive(queue[f])
                          THEN DeletedRow ELSE queue[f]],
                       queue[e].position)

(* RemoveUserFromQueue: every row of the owner of e is marked, past ones too. *)
Remove(e) ==
  /\ IsActive(queue[e])
  /\ queue' = CloseGap([f \in EntryIds |->
                          IF queue[f].user = queue[e].user
                          THEN [queue[f] EXCEPT !.status = "removed"] ELSE queue[f]],
                       queue[e].position)

Next ==
  \/ \E u \in Users, e \in EntryIds, p \in 1 .. MaxEntries : Join(u, e, p)
  \/ \E e \in EntryIds : Call(e) \/ Leave(e) \/ Remove(e)
  \/ \E e \in EntryIds, s \in {"confirmed", "timeout"} : Conclude(e, s)

Spec == Init /\ [][Next]_queue

-----------------------------------------------------------------------------
(* README, "Queue Ordering": the active positions are 1 .. n, one entry     *)
(* each, and no user has two active entries.  Written without counting: no  *)
(* position twice, none below 1, and the one before each is taken as well.  *)
Contiguous(t) ==
  /\ \A e, f \in ActiveEntries(t) : t[e].position = t[f].position => e = f
  /\ \A e \in ActiveEntries(t) :
       \/ t[e].position = 1
       \/ \E f \in ActiveEntries(t) : t[e].position = t[f].position + 1
  /\ \A e \in ActiveEntries(t) : t[e].position >= 1

OneEntryPerUser(t) ==
  \A e, f \in ActiveEntries(t) : t[e].user = t[f].user => e = f

=============================================================================
