----------------------------- MODULE QueueTable -----------------------------
(***************************************************************************)
(* The table queue_entries of QueueFlow and the set-at-a-time conditions   *)
(* that the SQL of the repository places on its rows.  The module has no   *)
(* state of its own: the queue specifications keep a table in a variable   *)
(* and use these definitions to read and to rewrite it.                    *)
(*                                                                         *)
(* In this and the other modules a definition commented "Mistake" is a     *)
(* wrong version of the one that follows it.  No specification uses it:    *)
(* with the mistake in place of the right version the model checker must   *)
(* find a property violated, which shows that the property can fail.       *)
(***************************************************************************)
EXTENDS Integers, FiniteSets

CONSTANTS
  Users,        \* the accounts that may hold a place in the queue
  NoUser,       \* the user of a row that does not exist
  MaxEntries    \* bound: how many ids the SERIAL column hands out

ASSUME QueueTableAssumption ==
  /\ NoUser \notin Users
  /\ MaxEntries \in Nat \ {0}

(* The ids the SERIAL primary key hands out, in the order of insertion.     *)
EntryIds == 1 .. MaxEntries

(* CHECK valid_status, and the two of them that keep a user in the queue.   *)
ActiveStatus == {"waiting", "called"}
StoredStatus == ActiveStatus \cup {"confirmed", "timeout", "removed"}

(* A row; "unused" is an id not inserted yet, "deleted" a row DELETE took.  *)
Row == [user     : Users \cup {NoUser},
        position : Int,
        status   : StoredStatus \cup {"unused", "deleted"}]

Table == [EntryIds -> Row]

UnusedRow  == [user |-> NoUser, position |-> 0, status |-> "unused"]
DeletedRow == [user |-> NoUser, position |-> 0, status |-> "deleted"]

(* The row JoinQueue inserts.                                               *)
WaitingRow(u, p) == [user |-> u, position |-> p, status |-> "waiting"]

EmptyTable == [e \in EntryIds |-> UnusedRow]

(* status IN ('waiting', 'called')                                          *)
IsActive(r) == r.status \in ActiveStatus

(* The row exists, whatever its status.                                     *)
IsStored(r) == r.status \in StoredStatus

ActiveEntries(t) == {e \in EntryIds : IsActive(t[e])}

(* Mistake: MAX(position) over the waiting rows only.                       *)
NextToWaiting(t, p) ==
  LET rows == {e \in EntryIds : t[e].status = "waiting"} IN
  /\ \A e \in rows : t[e].position < p
  /\ IF rows = {} THEN p = 1 ELSE \E e \in rows : p = t[e].position + 1

(* SELECT COALESCE(MAX(position), 0) + 1 over the active rows: p is above   *)
(* every active position, and 1 or just above one of them.                  *)
IsNextPosition(t, p) ==
  /\ \A e \in ActiveEntries(t) : t[e].position < p
  /\ \/ ActiveEntries(t) = {} /\ p = 1
     \/ \E e \in ActiveEntries(t) : p = t[e].position + 1

(* Mistake: position >= p.                                                  *)
IsAtOrBehind(r, p) == IsActive(r) /\ r.position >= p

(* WHERE position > p AND status IN ('waiting', 'called'), the rows behind  *)
(* position p.                                                              *)
IsBehind(r, p) == IsActive(r) /\ r.position > p

(* SET position = position - 1                                              *)
MovedUp(r) == [r EXCEPT !.position = @ - 1]

=============================================================================
