----------------------------- MODULE TurnTimers -----------------------------
(***************************************************************************)
(* The turns of services/queue_service.go: a called user has three minutes *)
(* to confirm, a goroutine per turn waits for that long, and the requests  *)
(* that end a turn cancel it through the map timeoutCancels.               *)
(*                                                                         *)
(* The methods of the repository are single steps here (QueueRepository    *)
(* has their statements), except two.  JoinQueue tests and inserts, so     *)
(* that overlapping joins give a user two places.  ConfirmTurn tests       *)
(* timeout_at and commits: in between it holds the row of the turn, and    *)
(* other methods that write that row wait.  Which waiting entry is first   *)
(* is left open.                                                           *)
(*                                                                         *)
(* Of the messages only queue:timeout matters here, and that SendToUser    *)
(* may panic (WebSocketManager shows when): in a request the panic ends    *)
(* the request, in any other goroutine the process, which is Restart.      *)
(***************************************************************************)
EXTENDS QueueTable

CONSTANTS
  Handlers,     \* goroutines that serve HTTP requests
  Faults,       \* which failures happen: "database", "restart", "panic"
  MaxRestarts,  \* bound: how often the server restarts
  PauseValues   \* bound: the values administrators give to is_paused

ASSUME TurnTimersAssumption ==
  /\ Faults \subseteq {"database", "restart", "panic"}
  /\ MaxRestarts \in Nat
  /\ PauseValues \subseteq BOOLEAN

VARIABLES
  \* In the database, and the clock:
  status,     \* of each entry of queue_entries
  owner,      \* the user of each entry
  paused,     \* queue_settings.is_paused
  late,       \* the entries whose timeout_at has passed
  \* In the memory of the server:
  cancels,    \* timeoutCancels: the entry whose timer each user's function stops
  timer,      \* how far the startTimeoutTimer goroutine of each entry is
  direct,     \* the entries whose handleTimeout runs outside the select
  stopped,    \* the entries whose context is cancelled
  request,    \* what each handler is doing
  calls,      \* goroutines started with `go s.CallNextUser()'
  \* Bound and history:
  restarts,   \* how often the server has restarted
  orphaned    \* entries whose turn lost its timer to an operation that failed,
              \* or to one meant for another entry of the same user

dbVars  == <<status, owner, paused, late>>
memVars == <<cancels, timer, direct, stopped, request, calls>>
vars    == <<dbVars, memVars, restarts, orphaned>>

(* The goroutine of a turn: started, waiting in the select with its cancel  *)
(* function registered; then the steps of handleTimeout, and the deletion   *)
(* from the map.                                                            *)
Stages == {"none", "started", "waiting", "check", "timeout", "call", "cleanup"}

Departures == {"LeaveQueue", "ConfirmTurn", "RemoveUser"}
Request == [op : Departures \cup {"JoinQueue", "none"}, user : Users \cup {NoUser}, entry : EntryIds \cup {0}]
NoRequest == [op |-> "none", user |-> NoUser, entry |-> 0]

TypeOK ==
  /\ status \in [EntryIds -> StoredStatus \cup {"unused", "deleted"}]
  /\ owner \in [EntryIds -> Users \cup {NoUser}]
  /\ paused \in BOOLEAN
  /\ late \in SUBSET EntryIds
  /\ cancels \in [Users -> EntryIds \cup {0}]
  /\ timer \in [EntryIds -> Stages]
  /\ direct \in SUBSET EntryIds
  /\ stopped \in SUBSET EntryIds
  /\ request \in [Handlers -> Request]
  /\ calls \in 0 .. MaxEntries
  /\ restarts \in 0 .. MaxRestarts
  /\ orphaned \in SUBSET EntryIds

Init ==
  /\ status = [e \in EntryIds |-> "unused"]
  /\ owner = [e \in EntryIds |-> NoUser]
  /\ paused = FALSE
  /\ late = {}
  /\ timer = [e \in EntryIds |-> "none"]
  /\ cancels = [u \in Users |-> 0]
  /\ direct = {}
  /\ stopped = {}
  /\ request = [h \in Handlers |-> NoRequest]
  /\ calls = 0
  /\ restarts = 0
  /\ orphaned = {}

-----------------------------------------------------------------------------
(* The repository, as the service sees it.                                  *)

EntriesOf(u) == {e \in EntryIds : owner[e] = u /\ status[e] \in ActiveStatus}
TurnsOf(u) == {e \in EntriesOf(u) : status[e] = "called"}

(* ConfirmTurn has passed its test of timeout_at and holds the row.         *)
Held(e) == \E h \in Handlers : request[h].entry = e

WaitingEntries == {e \in EntryIds : status[e] = "waiting"}

Answer(h) == request' = [request EXCEPT ![h] = NoRequest]

(* JoinQueue finds no entry of the user.                                    *)
BeginJoin(h, u) ==
  /\ request[h] = NoRequest
  /\ EntriesOf(u) = {}
  /\ \E e \in EntryIds : status[e] = "unused"
  /\ request' = [request EXCEPT ![h] = [op |-> "JoinQueue", user |-> u, entry |-> 0]]
  /\ UNCHANGED <<dbVars, cancels, timer, direct, stopped, calls, restarts, orphaned>>

(* It inserts one, with the next id; with none left it gives up.            *)
InsertEntry(h) ==
  LET unused == {e \in EntryIds : status[e] = "unused"} IN
  /\ request[h].op = "JoinQueue"
  /\ \/ \E e \in unused :
          /\ \A f \in unused : e <= f
          /\ status' = [status EXCEPT ![e] = "waiting"]
          /\ owner' = [owner EXCEPT ![e] = request[h].user]
     \/ unused = {} /\ UNCHANGED <<status, owner>>
  /\ Answer(h)
  /\ UNCHANGED <<paused, late, cancels, timer, direct, stopped, calls, restarts, orphaned>>

(* PauseQueue and ResumeQueue.                                              *)
SetPaused(b) ==
  /\ paused # b
  /\ paused' = b
  /\ UNCHANGED <<status, owner, late, memVars, restarts, orphaned>>

(* CallNextUser: a waiting entry gets its turn and a goroutine to time it.  *)
(* stages is what becomes of the other goroutines.                          *)
CallNextUser(stages) ==
  \/ /\ ~paused
     /\ \E e \in WaitingEntries :
          /\ status' = [status EXCEPT ![e] = "called"]
          /\ timer' = [stages EXCEPT ![e] = "started"]
  \/ /\ paused \/ WaitingEntries = {} \/ "database" \in Faults
     /\ timer' = stages
     /\ UNCHANGED status

(* An administrator's POST /admin/next.                                     *)
AdminCallsNext ==
  /\ CallNextUser(timer)
  /\ UNCHANGED <<owner, paused, late, cancels, direct, stopped, request, calls, restarts, orphaned>>

(* The same, but SendToUser panics once the repository has committed: no    *)
(* goroutine is started.                                                    *)
AdminCallPanics(e) ==
  /\ "panic" \in Faults
  /\ ~paused
  /\ e \in WaitingEntries
  /\ status' = [status EXCEPT ![e] = "called"]
  /\ orphaned' = orphaned \cup {e}
  /\ UNCHANGED <<owner, paused, late, memVars, restarts>>

(* The goroutine ConfirmTurn started.                                       *)
GoCallNext ==
  /\ calls > 0
  /\ calls' = calls - 1
  /\ CallNextUser(timer)
  /\ UNCHANGED <<owner, paused, late, cancels, direct, stopped, request, restarts, orphaned>>

-----------------------------------------------------------------------------
(* Requests that end a turn.                                                *)

(* cancelTimeout(u) cancels the context of one entry of the user.           *)
CancelTimeout(u) ==
  LET e == cancels[u] IN
  /\ cancels' = [cancels EXCEPT ![u] = 0]
  /\ stopped' = IF e # 0 /\ timer[e] = "waiting" THEN stopped \cup {e} ELSE stopped

(* LeaveQueue, ConfirmTurn and RemoveUser cancel before they do anything.   *)
BeginDeparture(h, op, u) ==
  /\ request[h] = NoRequest
  /\ request' = [request EXCEPT ![h] = [op |-> op, user |-> u, entry |-> 0]]
  /\ CancelTimeout(u)
  /\ UNCHANGED <<dbVars, timer, direct, calls, restarts, orphaned>>

(* Turns whose goroutine has ended or was told to.                          *)
Untimed(e) == timer[e] = "none" \/ e \in stopped

(* The turns that the request has left without a timer.                     *)
Lost(h) ==
  {e \in TurnsOf(request[h].user) : request[h].op \in Departures /\ Untimed(e)}

(* The repository methods LeaveQueue and RemoveUserFromQueue.               *)
Depart(h) ==
  LET u == request[h].user IN
  /\ request[h].op \in {"LeaveQueue", "RemoveUser"}
  /\ \A e \in EntriesOf(u) : ~Held(e)
  /\ \/ /\ EntriesOf(u) # {}
        /\ status' = [e \in EntryIds |->
             IF request[h].op = "LeaveQueue"
             THEN IF e \in EntriesOf(u) THEN "deleted" ELSE status[e]
             ELSE IF owner[e] = u /\ status[e] # "deleted" THEN "removed" ELSE status[e]]
     \/ /\ EntriesOf(u) = {}
        /\ UNCHANGED status
  /\ Answer(h)
  /\ UNCHANGED <<owner, paused, late, cancels, timer, direct, stopped, calls, restarts, orphaned>>

(* What SELECT ... FOR UPDATE may find: a turn of the user.  With two turns *)
(* it finds either.                                                         *)
Selectable(h) ==
  /\ request[h].op = "ConfirmTurn" /\ request[h].entry = 0
  /\ \A e \in TurnsOf(request[h].user) : ~Held(e)

(* ConfirmTurn locks the row of the turn and sees that there is time left.  *)
HoldTurn(h, e) ==
  /\ Selectable(h)
  /\ e \in TurnsOf(request[h].user) \ late
  /\ request' = [request EXCEPT ![h].entry = e]
  /\ UNCHANGED <<dbVars, cancels, timer, direct, stopped, calls, restarts, orphaned>>

(* It commits, and the service goes on to call the next user, unless the    *)
(* message queue:confirmed panics.                                          *)
ConfirmTurn(h) ==
  LET e == request[h].entry IN
  /\ e # 0
  /\ status' = [status EXCEPT ![e] = "confirmed"]
  /\ \/ calls' = calls + 1
     \/ "panic" \in Faults /\ UNCHANGED calls
  /\ orphaned' = orphaned \cup (Lost(h) \ {e})
  /\ Answer(h)
  /\ UNCHANGED <<owner, paused, late, cancels, timer, direct, stopped, restarts>>

(* Mistake: the next user is called before the error is looked at.          *)
RefuseConfirmAndCall(h) ==
  /\ Selectable(h)
  /\ TurnsOf(request[h].user) \subseteq late
  /\ calls' = calls + 1
  /\ Answer(h)
  /\ UNCHANGED <<dbVars, cancels, timer, direct, stopped, restarts, orphaned>>

(* ConfirmTurn finds no turn, or one whose time has passed.                 *)
RefuseConfirm(h) ==
  LET turns == TurnsOf(request[h].user) IN
  /\ Selectable(h)
  /\ turns = {} \/ turns \cap late # {}
  /\ orphaned' = orphaned \cup Lost(h)
  /\ Answer(h)
  /\ UNCHANGED <<dbVars, cancels, timer, direct, stopped, calls, restarts>>

(* The database fails any request.                                          *)
FailRequest(h) ==
  /\ "database" \in Faults
  /\ request[h] # NoRequest
  /\ orphaned' = orphaned \cup Lost(h)
  /\ Answer(h)
  /\ UNCHANGED <<dbVars, cancels, timer, direct, stopped, calls, restarts>>

-----------------------------------------------------------------------------
(* The goroutine of the turn of e: startTimeoutTimer and handleTimeout.     *)

Goto(e, stage) == timer' = [timer EXCEPT ![e] = stage]

(* timeoutCancels[userID] = cancel, and on to the select.                   *)
RegisterTimer(e) ==
  /\ e \notin late
  /\ cancels' = [cancels EXCEPT ![owner[e]] = e]
  /\ Goto(e, "waiting")
  /\ UNCHANGED direct

(* Mistake: duration <= 0 returns without handling the timeout.             *)
StartTimerInTime(e) ==
  /\ timer[e] = "started"
  /\ \/ e \in late /\ Goto(e, "none") /\ UNCHANGED <<cancels, direct>>
     \/ RegisterTimer(e)
  /\ UNCHANGED <<dbVars, stopped, request, calls, restarts, orphaned>>

(* duration <= 0 handles the timeout at once, and returns without cleaning  *)
(* up.                                                                      *)
StartTimer(e) ==
  /\ timer[e] = "started"
  /\ \/ /\ e \in late
        /\ Goto(e, "check")
        /\ direct' = direct \cup {e}
        /\ UNCHANGED cancels
     \/ RegisterTimer(e)
  /\ UNCHANGED <<dbVars, stopped, request, calls, restarts, orphaned>>

(* The select takes a branch that is ready, either if both are.             *)
TimerStops(e) ==
  /\ timer[e] = "waiting"
  /\ e \in stopped
  /\ stopped' = stopped \ {e}
  /\ Goto(e, "none")
  /\ UNCHANGED <<dbVars, cancels, direct, request, calls, restarts, orphaned>>

TimerFires(e) ==
  /\ timer[e] = "waiting"
  /\ e \in late
  /\ stopped' = stopped \ {e}
  /\ Goto(e, "check")
  /\ UNCHANGED <<dbVars, cancels, direct, request, calls, restarts, orphaned>>

(* handleTimeout returns: to the cleanup, if startTimeoutTimer goes on.     *)
Return(e, stages) ==
  /\ timer' = [stages EXCEPT ![e] = IF e \in direct THEN "none" ELSE "cleanup"]
  /\ direct' = direct \ {e}

(* GetUserQueueStatus finds an entry the user has now, either if there are  *)
(* two; it must be called.                                                  *)
CheckStatus(e) ==
  LET entries == EntriesOf(owner[e])
      turns == TurnsOf(owner[e]) IN
  /\ timer[e] = "check"
  /\ \/ /\ turns # {}
        /\ Goto(e, "timeout")
        /\ UNCHANGED <<direct, orphaned>>
     \/ /\ entries = {} \/ entries # turns \/ "database" \in Faults
        /\ Return(e, timer)
        /\ orphaned' = orphaned \cup (turns \cap {e})
  /\ UNCHANGED <<dbVars, cancels, stopped, request, calls, restarts>>

(* Mistake: the UPDATE of TimeoutUser goes by user instead of by id.        *)
TimedOutByUser(e) ==
  [f \in EntryIds |-> IF f \in TurnsOf(owner[e]) THEN "timeout" ELSE status[f]]

(* Mistake: without `AND status = 'called'' in the UPDATE of TimeoutUser.   *)
TimedOutRegardless(e) == [status EXCEPT ![e] = "timeout"]

(* What TimeoutUser makes of the rows.                                      *)
TimedOut(e) == IF status[e] = "called" THEN [status EXCEPT ![e] = "timeout"] ELSE status

(* Mistake: after a time-out nobody is called.                              *)
TimeoutUserOnly(e) ==
  /\ timer[e] = "timeout"
  /\ ~Held(e)
  /\ status' = TimedOut(e)
  /\ Return(e, timer)
  /\ UNCHANGED <<owner, paused, late, cancels, stopped, request, calls, restarts, orphaned>>

(* TimeoutUser(entryID): no row is an error, a row not called is none.      *)
TimeoutUser(e) ==
  /\ timer[e] = "timeout"
  /\ ~Held(e)
  /\ \/ /\ status[e] # "deleted"
        /\ status' = TimedOut(e)
        /\ Goto(e, "call")
        /\ UNCHANGED <<direct, orphaned>>
     \/ /\ status[e] = "deleted"
        /\ Return(e, timer)
        /\ UNCHANGED <<status, orphaned>>
     \/ /\ "database" \in Faults
        /\ Return(e, timer)
        /\ orphaned' = orphaned \cup (TurnsOf(owner[e]) \cap {e})
        /\ UNCHANGED status
  /\ UNCHANGED <<owner, paused, late, cancels, stopped, request, calls, restarts>>

(* SendToUser: queue:timeout, "Your confirmation time has expired"; then    *)
(* handleTimeout calls the next user itself.                                *)
CallAfterTimeout(e) ==
  /\ timer[e] = "call"
  /\ CallNextUser([timer EXCEPT ![e] = IF e \in direct THEN "none" ELSE "cleanup"])
  /\ direct' = direct \ {e}
  /\ UNCHANGED <<owner, paused, late, cancels, stopped, request, calls, restarts, orphaned>>

(* delete(s.timeoutCancels, userID)                                         *)
Cleanup(e) ==
  /\ timer[e] = "cleanup"
  /\ cancels' = [cancels EXCEPT ![owner[e]] = 0]
  /\ Goto(e, "none")
  /\ UNCHANGED <<dbVars, direct, stopped, request, calls, restarts, orphaned>>

TimerStep(e) ==
  \/ StartTimer(e) \/ TimerStops(e) \/ TimerFires(e)
  \/ CheckStatus(e) \/ TimeoutUser(e) \/ CallAfterTimeout(e) \/ Cleanup(e)

-----------------------------------------------------------------------------
(* The clock reaches the timeout_at of a turn.                              *)
DeadlinePasses(e) ==
  /\ status[e] = "called" \/ timer[e] \notin {"none", "cleanup"}
  /\ e \notin late
  /\ late' = late \cup {e}
  /\ UNCHANGED <<status, owner, paused, memVars, restarts, orphaned>>

(* Mistake: RecoverTimeouts passes over the turns already expired.          *)
RecoveredInTime(e) == IF status[e] = "called" /\ e \notin late THEN "started" ELSE "none"

(* The goroutine RecoverTimeouts starts for an entry, if any.               *)
Recovered(e) ==
  IF status[e] # "called" THEN "none" ELSE IF e \in late THEN "check" ELSE "started"

(* The process ends and starts again.  RecoverTimeouts runs before the      *)
(* server listens: it starts a goroutine for every called entry, or         *)
(* handles the timeout in one.  If its query fails, no turn is recovered;   *)
(* if the result breaks off, which GetActiveCalledUsers does not notice,    *)
(* only the turns read so far are.                                          *)
Restart ==
  LET turns == {e \in EntryIds : status[e] = "called"} IN
  /\ "restart" \in Faults
  /\ restarts < MaxRestarts
  /\ restarts' = restarts + 1
  /\ cancels' = [u \in Users |-> 0]
  /\ stopped' = {}
  /\ request' = [h \in Handlers |-> NoRequest]
  /\ calls' = 0
  /\ \E lost \in IF "database" \in Faults THEN SUBSET turns ELSE {{}} :
       /\ timer' = [e \in EntryIds |-> IF e \in lost THEN "none" ELSE Recovered(e)]
       /\ direct' = (turns \ lost) \cap late
       /\ orphaned' = lost
  /\ UNCHANGED dbVars

HandlerStep(h) ==
  \/ InsertEntry(h)
  \/ Depart(h) \/ ConfirmTurn(h) \/ RefuseConfirm(h) \/ FailRequest(h)
  \/ \E e \in EntryIds : HoldTurn(h, e)

Next ==
  \/ \E h \in Handlers, u \in Users : BeginJoin(h, u)
  \/ \E b \in PauseValues : SetPaused(b)
  \/ AdminCallsNext \/ GoCallNext
  \/ \E e \in EntryIds : AdminCallPanics(e)
  \/ \E h \in Handlers : HandlerStep(h)
  \/ \E h \in Handlers, op \in Departures, u \in Users : BeginDeparture(h, op, u)
  \/ \E e \in EntryIds : TimerStep(e) \/ DeadlinePasses(e)
  \/ Restart

Spec == Init /\ [][Next]_vars

(* Go runs every goroutine that can run, the database answers, and time     *)
(* passes.  No request, fault or restart has to come.                       *)
Fairness ==
  /\ \A h \in Handlers : WF_vars(HandlerStep(h))
  /\ \A e \in EntryIds : WF_vars(TimerStep(e)) /\ WF_vars(DeadlinePasses(e))
  /\ WF_vars(GoCallNext)

FairSpec == Spec /\ Fairness

-----------------------------------------------------------------------------
(* Properties.                                                              *)

(* README, "Server-side logic enforces timeout based on this value": nobody *)
(* loses a turn before its timeout_at, whichever timers of earlier turns    *)
(* are still about.                                                         *)
NoEarlyTimeout == [][
  \A e \in EntryIds : status[e] = "called" /\ status'[e] = "timeout" => e \in late]_vars

(* EntryLifecycle, which the transactions of QueueRepository implement too: *)
(* whatever old timers, pending calls, restarts and requests meet on a row, *)
(* it is called once, ends once and is not taken back afterwards, but for   *)
(* an administrator's removal.                                              *)
Lifecycle == INSTANCE EntryLifecycle
LifecycleSpec == Lifecycle!Spec

(* README, "Without recovery logic, called users could get stuck": every    *)
(* turn has a goroutine that will end it, or a request at work on it, or    *)
(* lost its goroutine to an operation that failed; restarts included.       *)
EveryTurnIsTimed ==
  \A e \in EntryIds : status[e] = "called" =>
    \/ ~Untimed(e) /\ timer[e] # "cleanup"
    \/ \E h \in Handlers : request[h].user = owner[e] /\ request[h].op \in Departures
    \/ e \in orphaned

(* A turn is in progress, or the call that follows one is about to be made. *)
InMotion ==
  calls > 0 \/ \E e \in EntryIds : status[e] = "called" \/ timer[e] = "call"

(* queue_service.go, "Call next user automatically": turn follows turn      *)
(* until nobody waits, except that the queue is paused, the turn was given  *)
(* up or taken away, the call itself failed, SendToUser panicked first, or  *)
(* the server restarted.                                                    *)
NextIsCalled == [][
  InMotion /\ ~InMotion' =>
    \/ WaitingEntries' = {} \/ paused
    \/ \E e \in EntryIds : status[e] = "called" /\ status'[e] \in {"deleted", "removed"}
    \/ /\ "database" \in Faults
       /\ calls' < calls \/ \E e \in EntryIds : timer[e] = "call" /\ timer'[e] # "call"
    \/ /\ "panic" \in Faults
       /\ \E e \in EntryIds : status[e] = "called" /\ status'[e] = "confirmed"
    \/ restarts' # restarts]_vars

(* A turn ends: by the user, an administrator or the clock, unless an       *)
(* operation that failed has left it without a timer.                       *)
EveryTurnEnds ==
  \A e \in EntryIds : status[e] = "called" ~> (status[e] # "called" \/ e \in orphaned)

(* README, "If user does not confirm: removed from queue, next user can be  *)
(* called": without any exception.                                          *)
NobodyKeepsTheTurn == \A e \in EntryIds : status[e] = "called" ~> status[e] # "called"

(* README, "queue:timeout: User timed out", and the comment of TimeoutUser, *)
(* "Already confirmed or removed, no action needed": the message goes out   *)
(* and the next user is called for entries that have timed out only.        *)
TimeoutMeansTimedOut == [][
  \A e \in EntryIds : timer[e] = "timeout" /\ timer'[e] = "call" =>
    status'[e] = "timeout"]_vars

=============================================================================
