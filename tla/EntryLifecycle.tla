--------------------------- MODULE EntryLifecycle ---------------------------
(***************************************************************************)
(* What the queue promises about the life of one row of queue_entries,     *)
(* whoever else is at work: an entry is called at most once, ends at most  *)
(* once, and only an administrator rewrites it after that.  The detailed   *)
(* queue specifications implement this one with                            *)
(*     status <- [e \in EntryIds |-> table[e].status].                     *)
(***************************************************************************)
CONSTANTS EntryIds

VARIABLE status

Active == {"waiting", "called"}
Closed == {"confirmed", "timeout", "removed"}

Init == status = [e \in EntryIds |-> "unused"]

(* The rows S get status s in one transaction.                              *)
Become(S, s) == status' = [e \in EntryIds |-> IF e \in S THEN s ELSE status[e]]

(* JoinQueue inserts a row.                                                 *)
Join(e) == status[e] = "unused" /\ Become({e}, "waiting")

(* CallNextUser gives a waiting entry its turn.                             *)
Call(e) == status[e] = "waiting" /\ Become({e}, "called")

(* ConfirmTurn takes the turn up; TimeoutUser lets it lapse.                *)
Confirm(e) == status[e] = "called" /\ Become({e}, "confirmed")
Expire(e)  == status[e] = "called" /\ Become({e}, "timeout")

(* LeaveQueue deletes the active rows of a user: one at least.              *)
Leave(S) ==
  /\ S # {}
  /\ \A e \in S : status[e] \in Active
  /\ Become(S, "deleted")

(* RemoveUserFromQueue takes a user out of the queue, and rewrites the rows *)
(* that user's past visits left: one row at least was active.               *)
Remove(S) ==
  /\ \E e \in S : status[e] \in Active
  /\ \A e \in S : status[e] \in Active \cup Closed
  /\ Become(S, "removed")

Next ==
  \/ \E e \in EntryIds : Join(e) \/ Call(e) \/ Confirm(e) \/ Expire(e)
  \/ \E S \in SUBSET EntryIds : Leave(S) \/ Remove(S)

Spec == Init /\ [][Next]_status

=============================================================================
