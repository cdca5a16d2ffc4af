-------------------------- MODULE TurnTimersProofs --------------------------
(***************************************************************************)
(* Theorems about TurnTimers, for any users, handlers and entries, with    *)
(* requests that overlap, timers of earlier turns, failures and restarts.  *)
(***************************************************************************)
EXTENDS TurnTimers, FiniteSetTheorems, TLAPS

USE QueueTableAssumption, TurnTimersAssumption

(* TypeOK without the bound on the pending calls.                           *)
Types ==
  /\ status \in [EntryIds -> StoredStatus \cup {"unused", "deleted"}]
  /\ owner \in [EntryIds -> Users \cup {NoUser}]
  /\ paused \in BOOLEAN
  /\ late \in SUBSET EntryIds
  /\ cancels \in [Users -> EntryIds \cup {0}]
  /\ timer \in [EntryIds -> Stages]
  /\ direct \in SUBSET EntryIds
  /\ stopped \in SUBSET EntryIds
  /\ request \in [Handlers -> Request]
  /\ calls \in Nat
  /\ restarts \in 0 .. MaxRestarts
  /\ orphaned \in SUBSET EntryIds

EndedStatus == {"confirmed", "timeout", "removed", "deleted"}
Ended == {e \in EntryIds : status[e] \in EndedStatus}

(* An entry has an owner from its insertion on.                             *)
RowInv(e) == status[e] = "unused" <=> owner[e] = NoUser

(* What a handler works on.  The row it holds is a turn of its user that no *)
(* other handler holds.                                                     *)
RequestInv(h) ==
  /\ request[h].op # "none" => request[h].user \in Users
  /\ request[h].entry # 0 =>
       /\ request[h].op = "ConfirmTurn"
       /\ request[h].entry \in TurnsOf(request[h].user)
       /\ \A g \in Handlers \ {h} : request[g].entry # request[h].entry

(* The function in the map is that of an entry of the user.                 *)
CancelInv(u) ==
  cancels[u] # 0 => owner[cancels[u]] = u

(* A goroutine has a turn that began, it goes on after its deadline only,   *)
(* and it leaves no turn behind, except after a failure.                    *)
TimerInv(e) ==
  /\ e \in stopped => timer[e] = "waiting"
  /\ timer[e] # "none" => status[e] \notin {"unused", "waiting"}
  /\ timer[e] \in {"check", "timeout", "call", "cleanup"} => e \in late
  /\ timer[e] \in {"call", "cleanup"} => status[e] # "called" \/ e \in orphaned

(* Every pending call follows a turn that has ended.                        *)
CallsInv == calls <= Cardinality(Ended)

Timed(e) ==
  \/ ~Untimed(e) /\ timer[e] # "cleanup"
  \/ \E h \in Handlers : request[h].user = owner[e] /\ request[h].op \in Departures
  \/ e \in orphaned

IInv ==
  /\ Types
  /\ \A e \in EntryIds : RowInv(e) /\ TimerInv(e)
  /\ \A h \in Handlers : RequestInv(h)
  /\ \A u \in Users : CancelInv(u)
  /\ EveryTurnIsTimed
  /\ CallsInv

-----------------------------------------------------------------------------

(* 0 stands for no entry.                                                   *)
LEMMA EntryNumbers ==
  /\ \A e \in EntryIds : e \in Nat /\ e # 0
  /\ NoRequest \in Request
  /\ 0 \notin EntryIds
<1>1. \A e \in EntryIds : e \in Nat /\ e # 0
  BY DEF EntryIds
<1>2. NoRequest \in Request
  BY DEF NoRequest, Request
<1> QED
  BY <1>1, <1>2

(* There are no turns yet.                                                  *)
LEMMA TimersStart == Init => IInv
<1> SUFFICES ASSUME Init PROVE IInv
  OBVIOUS
<1>1. Types
  <2>1. restarts \in 0 .. MaxRestarts /\ calls \in Nat
    BY DEF Init
  <2>2. request \in [Handlers -> Request]
    BY EntryNumbers DEF Init
  <2>3. timer \in [EntryIds -> Stages] /\ cancels \in [Users -> EntryIds \cup {0}]
    BY DEF Init, Stages
  <2> QED
    BY <2>1, <2>2, <2>3 DEF Init, Types
<1>2. \A e \in EntryIds : RowInv(e) /\ TimerInv(e)
  BY DEF Init, RowInv, TimerInv
<1>3. \A h \in Handlers : RequestInv(h)
  BY DEF Init, RequestInv, NoRequest
<1>4. \A u \in Users : CancelInv(u)
  BY DEF Init, CancelInv
<1>5. EveryTurnIsTimed
  BY DEF Init, EveryTurnIsTimed
<1>6. Ended = {}
  BY DEF Init, Ended, EndedStatus
<1>7. CallsInv
  BY <1>6, FS_EmptySet DEF Init, CallsInv
<1> QED
  BY <1>1, <1>2, <1>3, <1>4, <1>5, <1>7 DEF IInv

(* The call of the next user, when `stages' are the goroutines.             *)
LEMMA NextCalled ==
  ASSUME Types, NEW stages \in [EntryIds -> Stages], CallNextUser(stages)
  PROVE  /\ status' \in [EntryIds -> StoredStatus \cup {"unused", "deleted"}]
         /\ timer' \in [EntryIds -> Stages]
         /\ \A e \in EntryIds :
              \/ status'[e] = status[e] /\ timer'[e] = stages[e]
              \/ status[e] = "waiting" /\ status'[e] = "called" /\ timer'[e] = "started"
<1>1. CASE /\ ~paused
           /\ \E e \in WaitingEntries :
                /\ status' = [status EXCEPT ![e] = "called"]
                /\ timer' = [stages EXCEPT ![e] = "started"]
  BY <1>1 DEF Types, WaitingEntries, StoredStatus, ActiveStatus, Stages
<1>2. CASE timer' = stages /\ UNCHANGED status
  BY <1>2 DEF Types
<1> QED
  BY <1>1, <1>2 DEF CallNextUser

(* Handler h answers, or goes on to something else.                         *)
LEMMA RequestUpdate ==
  ASSUME Types, NEW h \in Handlers, NEW r \in Request, request' = [request EXCEPT ![h] = r]
  PROVE  /\ request' \in [Handlers -> Request]
         /\ request'[h] = r
         /\ \A g \in Handlers \ {h} : request'[g] = request[g]
BY DEF Types

(* The goroutine of e goes to another stage, no other does.                 *)
LEMMA StageUpdate ==
  ASSUME Types, NEW e \in EntryIds, NEW stage \in Stages, timer' = [timer EXCEPT ![e] = stage]
  PROVE  /\ timer' \in [EntryIds -> Stages]
         /\ timer'[e] = stage
         /\ \A f \in EntryIds \ {e} : timer'[f] = timer[f]
BY DEF Types

(* What handleTimeout does when it returns.                                 *)
LEMMA ReturnStages ==
  ASSUME Types, NEW e \in EntryIds, Return(e, timer)
  PROVE  /\ timer' \in [EntryIds -> Stages]
         /\ direct' \in SUBSET EntryIds
         /\ timer'[e] \in {"none", "cleanup"}
         /\ \A f \in EntryIds \ {e} : timer'[f] = timer[f]
BY DEF Types, Return, Stages

-----------------------------------------------------------------------------
(* Types.                                                                   *)

(* Types, when a handler takes a step or begins.                            *)
LEMMA HandlerTypes ==
  ASSUME Types, NEW h \in Handlers,
         HandlerStep(h) \/ \E u \in Users : BeginJoin(h, u) \/ \E op \in Departures : BeginDeparture(h, op, u)
  PROVE  Types'
<1> USE EntryNumbers DEF Types
<1>1. ASSUME NEW u \in Users, BeginJoin(h, u) PROVE Types'
  <2>1. [op |-> "JoinQueue", user |-> u, entry |-> 0] \in Request
    BY DEF Request
  <2> QED
    BY <1>1, <2>1, RequestUpdate DEF BeginJoin, dbVars
<1>2. ASSUME NEW u \in Users, NEW op \in Departures, BeginDeparture(h, op, u) PROVE Types'
  <2>1. [op |-> op, user |-> u, entry |-> 0] \in Request
    BY DEF Request, Departures
  <2> QED
    BY <1>2, <2>1, RequestUpdate DEF BeginDeparture, CancelTimeout, dbVars
<1>3. CASE InsertEntry(h)
  <2>1. request[h].user \in Users \cup {NoUser}
    BY DEF Request
  <2>2. status' \in [EntryIds -> StoredStatus \cup {"unused", "deleted"}] /\ owner' \in [EntryIds -> Users \cup {NoUser}]
    BY <1>3, <2>1 DEF InsertEntry, StoredStatus, ActiveStatus
  <2> QED
    BY <1>3, <2>2, RequestUpdate DEF InsertEntry, Answer
<1>4. CASE Depart(h)
  BY <1>4, RequestUpdate DEF Depart, Answer, StoredStatus
<1>5. CASE ConfirmTurn(h)
  <2>1. request[h].entry \in EntryIds
    BY <1>5 DEF ConfirmTurn, Request
  <2> QED
    BY <1>5, <2>1, RequestUpdate DEF ConfirmTurn, Answer, StoredStatus, Lost, TurnsOf, EntriesOf
<1>6. CASE RefuseConfirm(h) \/ FailRequest(h)
  BY <1>6, RequestUpdate DEF RefuseConfirm, FailRequest, Answer, Lost, TurnsOf, EntriesOf, dbVars
<1>7. ASSUME NEW e \in EntryIds, HoldTurn(h, e) PROVE Types'
  <2>1. [request[h] EXCEPT !.entry = e] \in Request
    BY DEF Request
  <2>2. request' = [request EXCEPT ![h] = [request[h] EXCEPT !.entry = e]]
    BY <1>7 DEF HoldTurn
  <2>3. request' \in [Handlers -> Request]
    BY <2>1, <2>2, RequestUpdate
  <2> QED
    BY <1>7, <2>3 DEF HoldTurn, dbVars
<1>8. HandlerStep(h) => Types'
  BY <1>3, <1>4, <1>5, <1>6, <1>7 DEF HandlerStep
<1> QED
  BY <1>1, <1>2, <1>8

(* Types, when a goroutine of a turn takes a step.                          *)
LEMMA TimerTypes ==
  ASSUME Types, NEW e \in EntryIds, TimerStep(e), RowInv(e), TimerInv(e)
  PROVE  Types'
<1> USE EntryNumbers DEF Types
<1>0. timer[e] # "none" => owner[e] \in Users
  BY DEF RowInv, TimerInv
<1>1. CASE StartTimer(e)
  BY <1>0, <1>1, StageUpdate DEF StartTimer, RegisterTimer, Goto, dbVars, Stages
<1>2. CASE TimerStops(e) \/ TimerFires(e)
  BY <1>2, StageUpdate DEF TimerStops, TimerFires, Goto, dbVars, Stages
<1>3. CASE CheckStatus(e)
  BY <1>3, StageUpdate, ReturnStages DEF CheckStatus, Goto, dbVars, Stages
<1>4. CASE TimeoutUser(e)
  <2>1. timer' \in [EntryIds -> Stages] /\ direct' \in SUBSET EntryIds
    BY <1>4, StageUpdate, ReturnStages DEF TimeoutUser, Goto, Stages
  <2>2. status' \in [EntryIds -> StoredStatus \cup {"unused", "deleted"}]
    BY <1>4 DEF TimeoutUser, TimedOut, StoredStatus
  <2>3. orphaned' \in SUBSET EntryIds
    BY <1>4 DEF TimeoutUser
  <2> QED
    BY <1>4, <2>1, <2>2, <2>3 DEF TimeoutUser
<1>5. CASE CallAfterTimeout(e)
  <2>1. [timer EXCEPT ![e] = IF e \in direct THEN "none" ELSE "cleanup"] \in [EntryIds -> Stages]
    BY DEF Stages
  <2> QED
    BY <1>5, <2>1, NextCalled DEF CallAfterTimeout
<1>6. CASE Cleanup(e)
  BY <1>0, <1>6, StageUpdate DEF Cleanup, Goto, dbVars, Stages
<1> QED
  BY <1>1, <1>2, <1>3, <1>4, <1>5, <1>6 DEF TimerStep

(* Types, in any step.                                                      *)
LEMMA TypesStep == IInv /\ [Next]_vars => Types'
<1> SUFFICES ASSUME IInv, [Next]_vars PROVE Types'
  OBVIOUS
<1>0. Types
  BY DEF IInv
<1>1. ASSUME NEW h \in Handlers,
             HandlerStep(h) \/ \E u \in Users : BeginJoin(h, u) \/ \E op \in Departures : BeginDeparture(h, op, u)
      PROVE  Types'
  BY <1>0, <1>1, HandlerTypes
<1>2. ASSUME NEW e \in EntryIds, TimerStep(e) PROVE Types'
  BY <1>0, <1>2, TimerTypes DEF IInv
<1>3. ASSUME NEW b \in PauseValues, SetPaused(b) PROVE Types'
  BY <1>0, <1>3 DEF SetPaused, Types, memVars
<1>4. CASE AdminCallsNext
  <2>1. timer \in [EntryIds -> Stages]
    BY <1>0 DEF Types
  <2>2. status' \in [EntryIds -> StoredStatus \cup {"unused", "deleted"}] /\ timer' \in [EntryIds -> Stages]
    BY <1>0, <1>4, <2>1, NextCalled DEF AdminCallsNext
  <2> QED
    BY <1>0, <1>4, <2>2 DEF AdminCallsNext, Types
<1>5. CASE GoCallNext
  <2>1. timer \in [EntryIds -> Stages]
    BY <1>0 DEF Types
  <2>2. status' \in [EntryIds -> StoredStatus \cup {"unused", "deleted"}] /\ timer' \in [EntryIds -> Stages]
    BY <1>0, <1>5, <2>1, NextCalled DEF GoCallNext
  <2>3. calls' \in Nat
    BY <1>0, <1>5 DEF GoCallNext, Types
  <2> QED
    BY <1>0, <1>5, <2>2, <2>3 DEF GoCallNext, Types
<1>6. ASSUME NEW e \in EntryIds, AdminCallPanics(e) PROVE Types'
  BY <1>0, <1>6 DEF AdminCallPanics, Types, memVars, StoredStatus, ActiveStatus
<1>7. ASSUME NEW e \in EntryIds, DeadlinePasses(e) PROVE Types'
  BY <1>0, <1>7 DEF DeadlinePasses, Types, memVars
<1>8. CASE Restart
  <2>1. restarts' \in 0 .. MaxRestarts /\ calls' \in Nat
    BY <1>0, <1>8 DEF Restart, Types
  <2>2. request' \in [Handlers -> Request]
    BY <1>8, EntryNumbers DEF Restart
  <2>3. timer' \in [EntryIds -> Stages] /\ cancels' \in [Users -> EntryIds \cup {0}]
    BY <1>8 DEF Restart, Recovered, Stages
  <2> QED
    BY <1>0, <1>8, <2>1, <2>2, <2>3 DEF Restart, Types, dbVars
<1>9. CASE UNCHANGED vars
  BY <1>0, <1>9 DEF vars, dbVars, memVars, Types
<1> QED
  BY <1>1, <1>2, <1>3, <1>4, <1>5, <1>6, <1>7, <1>8, <1>9 DEF Next

-----------------------------------------------------------------------------
(* Statuses.                                                                *)

(* What one step may do to an entry.                                        *)
EntryMove(e) ==
  \/ status'[e] = status[e] /\ owner'[e] = owner[e]
  \/ status[e] = "unused" /\ status'[e] = "waiting" /\ owner'[e] \in Users
  \/ /\ owner'[e] = owner[e]
     /\ status[e] = "waiting" /\ status'[e] = "called"
     /\ timer'[e] = "started" \/ e \in orphaned'
  \/ /\ owner'[e] = owner[e]
     /\ status[e] # "unused" /\ status'[e] \in EndedStatus

(* No step does anything else to an entry.                                  *)
LEMMA EntryMoves ==
  ASSUME IInv, [Next]_vars
  PROVE  \A e \in EntryIds : EntryMove(e)
<1> USE DEF IInv, Types
<1> DEFINE Goal == \A e \in EntryIds : EntryMove(e)
<1>1. CASE UNCHANGED <<status, owner>>
  BY <1>1 DEF EntryMove
<1>2. ASSUME NEW h \in Handlers, InsertEntry(h) PROVE Goal
  <2>1. request[h].user \in Users
    BY <1>2 DEF InsertEntry, RequestInv
  <2> QED
    BY <1>2, <2>1 DEF InsertEntry, EntryMove
<1>3. ASSUME NEW h \in Handlers, Depart(h) PROVE Goal
  <2>1. request[h].user \in Users
    BY <1>3 DEF Depart, RequestInv
  <2>2. \A e \in EntryIds : owner[e] = request[h].user => status[e] # "unused"
    BY <2>1 DEF RowInv
  <2>3. \A e \in EntryIds : status'[e] = status[e] \/ (status[e] # "unused" /\ status'[e] \in {"deleted", "removed"})
    BY <1>3, <2>2 DEF Depart, EntriesOf, ActiveStatus
  <2> QED
    BY <1>3, <2>3 DEF Depart, EntryMove, EndedStatus
<1>4. ASSUME NEW h \in Handlers, ConfirmTurn(h) PROVE Goal
  BY <1>4 DEF ConfirmTurn, RequestInv, TurnsOf, EntryMove, EndedStatus
<1>5. ASSUME NEW e \in EntryIds, TimeoutUser(e) PROVE Goal
  BY <1>5 DEF TimeoutUser, TimedOut, EntryMove, EndedStatus
<1>6. ASSUME NEW stages \in [EntryIds -> Stages], CallNextUser(stages), UNCHANGED owner PROVE Goal
  BY <1>6, NextCalled DEF EntryMove
<1>7. ASSUME NEW e \in EntryIds, AdminCallPanics(e) PROVE Goal
  BY <1>7 DEF AdminCallPanics, WaitingEntries, EntryMove
<1>8. ASSUME NEW e \in EntryIds, CallAfterTimeout(e) PROVE Goal
  <2>1. [timer EXCEPT ![e] = IF e \in direct THEN "none" ELSE "cleanup"] \in [EntryIds -> Stages]
    BY DEF Stages
  <2> QED
    BY <1>6, <1>8, <2>1 DEF CallAfterTimeout
<1>9. ASSUME NEW e \in EntryIds, TimerStep(e) PROVE Goal
  BY <1>1, <1>5, <1>8, <1>9 DEF TimerStep, StartTimer, TimerStops, TimerFires, CheckStatus, Cleanup, dbVars
<1>10. ASSUME NEW h \in Handlers, HandlerStep(h) PROVE Goal
  BY <1>1, <1>2, <1>3, <1>4, <1>10 DEF HandlerStep, RefuseConfirm, FailRequest, HoldTurn, dbVars
<1>11. CASE AdminCallsNext \/ GoCallNext
  BY <1>6, <1>11 DEF AdminCallsNext, GoCallNext
<1> QED
  BY <1>1, <1>7, <1>9, <1>10, <1>11 DEF Next, vars, BeginJoin, BeginDeparture, SetPaused, DeadlinePasses, Restart, dbVars

(* An entry that is inserted gets its owner for good.                       *)
LEMMA RowsKept ==
  ASSUME IInv, [Next]_vars, NEW e \in EntryIds
  PROVE  RowInv(e)'
<1>1. RowInv(e) /\ owner[e] \in Users \cup {NoUser}
  BY DEF IInv, Types
<1> QED
  BY <1>1, EntryMoves DEF RowInv, EntryMove, EndedStatus

-----------------------------------------------------------------------------
(* Requests.                                                                *)

(* Nobody else writes a row that a confirmation holds.                      *)
LEMMA RequestsKept ==
  ASSUME IInv, [Next]_vars
  PROVE  \A h \in Handlers : RequestInv(h)'
<1> DEFINE Goal == \A h \in Handlers : RequestInv(h)'
<1>0. Types /\ \A h \in Handlers : RequestInv(h)
  BY DEF IInv
<1>1. CASE UNCHANGED request /\ \A h \in Handlers, e \in EntryIds :
             request[h].entry = e => status'[e] = status[e] /\ owner'[e] = owner[e]
  <2> SUFFICES ASSUME NEW h \in Handlers PROVE RequestInv(h)'
    OBVIOUS
  <2>1. RequestInv(h)
    BY <1>0
  <2> QED
    BY <1>1, <2>1 DEF RequestInv, TurnsOf, EntriesOf
<1>2. ASSUME NEW h \in Handlers, request' = [request EXCEPT ![h] = NoRequest],
             \A g \in Handlers \ {h}, e \in EntryIds :
               request[g].entry = e => status'[e] = status[e] /\ owner'[e] = owner[e]
      PROVE  Goal
  <2>1. request'[h] = NoRequest /\ \A g \in Handlers \ {h} : request'[g] = request[g]
    BY <1>0, <1>2, EntryNumbers, RequestUpdate
  <2>2. RequestInv(h)'
    BY <2>1 DEF RequestInv, NoRequest
  <2>3. ASSUME NEW g \in Handlers \ {h} PROVE RequestInv(g)'
    <3>1. RequestInv(g)
      BY <1>0
    <3>2. \A k \in Handlers \ {g} : request'[k].entry = request[k].entry \/ request'[k].entry = 0
      BY <2>1 DEF NoRequest
    <3> QED
      BY <1>2, <2>1, <3>1, <3>2 DEF RequestInv, TurnsOf, EntriesOf
  <2> QED
    BY <2>2, <2>3
<1>3. ASSUME NEW h \in Handlers, NEW op \in Departures \cup {"JoinQueue"}, NEW u \in Users,
             request' = [request EXCEPT ![h] = [op |-> op, user |-> u, entry |-> 0]],
             UNCHANGED <<status, owner>>
      PROVE  Goal
  <2>1. [op |-> op, user |-> u, entry |-> 0] \in Request
    BY DEF Request
  <2>2. request'[h] = [op |-> op, user |-> u, entry |-> 0] /\ \A g \in Handlers \ {h} : request'[g] = request[g]
    BY <1>0, <1>3, <2>1, RequestUpdate
  <2>3. RequestInv(h)'
    BY <2>2 DEF RequestInv
  <2>4. ASSUME NEW g \in Handlers \ {h} PROVE RequestInv(g)'
    <3>1. RequestInv(g)
      BY <1>0
    <3>2. \A k \in Handlers \ {g} : request'[k].entry = request[k].entry \/ request'[k].entry = 0
      BY <2>2
    <3> QED
      BY <1>3, <2>2, <3>1, <3>2 DEF RequestInv, TurnsOf, EntriesOf
  <2> QED
    BY <2>3, <2>4
<1>4. ASSUME NEW h \in Handlers, NEW e \in EntryIds, HoldTurn(h, e) PROVE Goal
  <2>1. [request[h] EXCEPT !.entry = e] \in Request /\ request[h] \in Request
    BY <1>0 DEF Types, Request
  <2>2. request' = [request EXCEPT ![h] = [request[h] EXCEPT !.entry = e]]
    BY <1>4 DEF HoldTurn
  <2>3. request'[h] = [request[h] EXCEPT !.entry = e] /\ \A g \in Handlers \ {h} : request'[g] = request[g]
    BY <1>0, <2>1, <2>2, RequestUpdate
  <2>4. request'[h].entry = e /\ request'[h].op = request[h].op /\ request'[h].user = request[h].user
    BY <2>1, <2>3 DEF Request
  <2>5. \A g \in Handlers : request[g].entry # e
    BY <1>4 DEF HoldTurn, Selectable, Held
  <2>6. UNCHANGED <<status, owner>>
    BY <1>4 DEF HoldTurn, dbVars
  <2>7. RequestInv(h)'
    <3>1. RequestInv(h)
      BY <1>0
    <3> QED
      BY <1>4, <2>3, <2>4, <2>5, <2>6, <3>1 DEF RequestInv, HoldTurn, Selectable, TurnsOf, EntriesOf
  <2>8. ASSUME NEW g \in Handlers \ {h} PROVE RequestInv(g)'
    <3>1. RequestInv(g)
      BY <1>0
    <3>2. \A k \in Handlers \ {g} : request'[k].entry = request[k].entry \/ request'[k].entry = e
      BY <2>3, <2>4
    <3>3. request'[g] = request[g]
      BY <2>3
    <3> QED
      BY <2>5, <2>6, <3>1, <3>2, <3>3 DEF RequestInv, TurnsOf, EntriesOf
  <2> QED
    BY <2>7, <2>8
<1>5. \A h \in Handlers, e \in EntryIds : request[h].entry = e => status[e] = "called" /\ owner[e] = request[h].user /\ Held(e)
  BY <1>0, EntryNumbers DEF RequestInv, TurnsOf, EntriesOf, Held
<1>6. ASSUME NEW h \in Handlers, HandlerStep(h) PROVE Goal
  <2>1. CASE InsertEntry(h)
    <3>1. \A e \in EntryIds : status[e] = "called" => status'[e] = status[e] /\ owner'[e] = owner[e]
      BY <1>0, <2>1 DEF InsertEntry, Types
    <3>2. request' = [request EXCEPT ![h] = NoRequest]
      BY <2>1 DEF InsertEntry, Answer
    <3>3. \A g \in Handlers \ {h}, e \in EntryIds :
            request[g].entry = e => status'[e] = status[e] /\ owner'[e] = owner[e]
      BY <1>5, <3>1
    <3> QED
      BY <1>2, <3>2, <3>3
  <2>2. CASE Depart(h)
    <3>1. \A g \in Handlers, e \in EntryIds : request[g].entry = e => status'[e] = status[e]
      BY <1>5, <2>2, <1>0 DEF Depart, EntriesOf, ActiveStatus, Types
    <3> QED
      BY <1>2, <2>2, <3>1 DEF Depart, Answer
  <2>3. CASE ConfirmTurn(h)
    <3>1. \A g \in Handlers \ {h} : request[g].entry # request[h].entry
      BY <1>0, <2>3 DEF RequestInv, ConfirmTurn
    <3> QED
      BY <1>0, <1>2, <2>3, <3>1 DEF ConfirmTurn, Answer, Types
  <2>4. CASE RefuseConfirm(h) \/ FailRequest(h)
    BY <1>2, <2>4 DEF RefuseConfirm, FailRequest, Answer, dbVars
  <2> QED
    BY <1>4, <1>6, <2>1, <2>2, <2>3, <2>4 DEF HandlerStep
<1>7. ASSUME NEW h \in Handlers, NEW u \in Users, BeginJoin(h, u) \/ \E op \in Departures : BeginDeparture(h, op, u)
      PROVE  Goal
  BY <1>3, <1>7 DEF BeginJoin, BeginDeparture, dbVars
<1>8. ASSUME NEW stages \in [EntryIds -> Stages], CallNextUser(stages), UNCHANGED <<owner, request>> PROVE Goal
  <2>1. \A e \in EntryIds : status'[e] = status[e] \/ status[e] = "waiting"
    BY <1>0, <1>8, NextCalled
  <2> QED
    BY <1>1, <1>5, <1>8, <2>1
<1>9. ASSUME NEW e \in EntryIds, TimerStep(e) PROVE Goal
  <2>1. CASE CallAfterTimeout(e)
    <3>1. [timer EXCEPT ![e] = IF e \in direct THEN "none" ELSE "cleanup"] \in [EntryIds -> Stages]
      BY <1>0 DEF Types, Stages
    <3> QED
      BY <1>8, <2>1, <3>1 DEF CallAfterTimeout
  <2>2. CASE TimeoutUser(e)
    BY <1>0, <1>1, <1>5, <2>2 DEF TimeoutUser, TimedOut, Types
  <2> QED
    BY <1>1, <1>9, <2>1, <2>2 DEF TimerStep, StartTimer, TimerStops, TimerFires, CheckStatus, Cleanup, dbVars
<1>10. CASE AdminCallsNext \/ GoCallNext
  BY <1>0, <1>8, <1>10 DEF AdminCallsNext, GoCallNext, Types
<1>11. ASSUME NEW e \in EntryIds, AdminCallPanics(e) PROVE Goal
  BY <1>0, <1>1, <1>5, <1>11 DEF AdminCallPanics, WaitingEntries, memVars, Types
<1>12. CASE Restart
  BY <1>12 DEF Restart, RequestInv, NoRequest
<1>13. CASE UNCHANGED <<dbVars, request>> \/ UNCHANGED <<status, owner, memVars>>
  BY <1>1, <1>13 DEF dbVars, memVars
<1> QED
  BY <1>6, <1>7, <1>9, <1>10, <1>11, <1>12, <1>13 DEF Next, vars, SetPaused, DeadlinePasses, dbVars, memVars

-----------------------------------------------------------------------------
(* The map and the goroutines.                                              *)

(* The map is written for the owner of a turn, or emptied.                  *)
LEMMA CancelsKept ==
  ASSUME IInv, [Next]_vars, NEW u \in Users
  PROVE  CancelInv(u)'
<1>0. Types /\ CancelInv(u) /\ \A e \in EntryIds : EntryMove(e) /\ RowInv(e) /\ TimerInv(e)
  BY EntryMoves DEF IInv
<1>1. ASSUME cancels'[u] \in {0, cancels[u]} PROVE CancelInv(u)'
  <2>1. cancels[u] \in EntryIds \cup {0}
    BY <1>0 DEF Types
  <2>2. ASSUME cancels[u] # 0 PROVE owner'[cancels[u]] = owner[cancels[u]]
    BY <1>0, <2>1, <2>2 DEF CancelInv, EntryMove, RowInv
  <2> QED
    BY <1>0, <1>1, <2>1, <2>2 DEF CancelInv
<1>2. ASSUME NEW e \in EntryIds, StartTimer(e) PROVE CancelInv(u)'
  <2>1. owner[e] \in Users
    BY <1>0, <1>2 DEF StartTimer, RowInv, TimerInv, Types
  <2>2. cancels'[u] = cancels[u] \/ (cancels'[u] = e /\ owner[e] = u)
    BY <1>0, <1>2, <2>1 DEF StartTimer, RegisterTimer, Types
  <2> QED
    BY <1>1, <1>2, <2>2 DEF StartTimer, dbVars, CancelInv
<1>3. ASSUME NEW e \in EntryIds, Cleanup(e) PROVE CancelInv(u)'
  BY <1>0, <1>1, <1>3 DEF Cleanup, Types
<1>4. ASSUME NEW h \in Handlers, NEW op \in Departures, NEW v \in Users, BeginDeparture(h, op, v)
      PROVE  CancelInv(u)'
  BY <1>0, <1>1, <1>4 DEF BeginDeparture, CancelTimeout, Types
<1>5. CASE Restart
  BY <1>1, <1>5 DEF Restart
<1>6. CASE UNCHANGED cancels
  BY <1>1, <1>6
<1>7. ASSUME NEW e \in EntryIds, TimerStep(e) PROVE CancelInv(u)'
  BY <1>2, <1>3, <1>6, <1>7 DEF TimerStep, TimerStops, TimerFires, CheckStatus, TimeoutUser, CallAfterTimeout
<1>8. ASSUME NEW h \in Handlers, HandlerStep(h) PROVE CancelInv(u)'
  BY <1>6, <1>8 DEF HandlerStep, InsertEntry, Depart, ConfirmTurn, RefuseConfirm, FailRequest, HoldTurn
<1> QED
  BY <1>4, <1>5, <1>6, <1>7, <1>8 DEF Next, vars, memVars, BeginJoin, SetPaused, AdminCallsNext, GoCallNext,
     AdminCallPanics, DeadlinePasses

(* A departure cancels the context of a waiting goroutine only.             *)
LEMMA CancelTimeoutStops ==
  ASSUME Types, NEW u \in Users, CancelTimeout(u), NEW e \in EntryIds, e \in stopped'
  PROVE  e \in stopped \/ (timer[e] = "waiting" /\ e = cancels[u])
BY DEF CancelTimeout, Types

(* Goroutines go through their stages with the deadline behind them.        *)
LEMMA TimersKept ==
  ASSUME IInv, [Next]_vars, NEW e \in EntryIds
  PROVE  TimerInv(e)'
<1>0. Types /\ TimerInv(e) /\ EntryMove(e)
  BY EntryMoves DEF IInv
<1>1. ASSUME timer'[e] = timer[e], late \subseteq late', orphaned \subseteq orphaned',
             e \in stopped' => e \in stopped \/ timer[e] = "waiting"
      PROVE  TimerInv(e)'
  BY <1>0, <1>1 DEF TimerInv, EntryMove, EndedStatus
<1>2. ASSUME NEW stages \in [EntryIds -> Stages], CallNextUser(stages), UNCHANGED <<late, stopped, orphaned>>,
             stages[e] = timer[e] \/ (timer[e] = "call" /\ stages[e] \in {"none", "cleanup"})
      PROVE  TimerInv(e)'
  <2>1. \/ status'[e] = status[e] /\ timer'[e] = stages[e]
        \/ status[e] = "waiting" /\ status'[e] = "called" /\ timer'[e] = "started"
    BY <1>0, <1>2, NextCalled
  <2> QED
    BY <1>0, <1>2, <2>1 DEF TimerInv
<1>3. ASSUME NEW f \in EntryIds, TimerStep(f) PROVE TimerInv(e)'
  <2>1. CASE StartTimer(f)
    BY <1>0, <1>1, <2>1, StageUpdate DEF StartTimer, RegisterTimer, Goto, dbVars, TimerInv, Types, Stages
  <2>2. CASE TimerStops(f) \/ TimerFires(f)
    BY <1>0, <1>1, <2>2, StageUpdate DEF TimerStops, TimerFires, Goto, dbVars, TimerInv, Types, Stages
  <2>3. CASE CheckStatus(f)
    <3>1. f # e => timer'[e] = timer[e]
      BY <1>0, <2>3, StageUpdate, ReturnStages DEF CheckStatus, Goto, Stages
    <3>2. CASE f # e
      BY <1>1, <2>3, <3>1, <3>2 DEF CheckStatus, dbVars
    <3>3. CASE f = e /\ Goto(f, "timeout")
      <4>1. timer'[e] = "timeout"
        BY <1>0, <3>3 DEF Goto, Types
      <4> QED
        BY <1>0, <2>3, <3>3, <4>1 DEF CheckStatus, dbVars, TimerInv
    <3>4. CASE f = e /\ Return(f, timer)
      <4>1. timer'[e] \in {"none", "cleanup"}
        BY <1>0, <3>4, ReturnStages
      <4>2. status[e] = "called" => e \in orphaned'
        BY <1>0, <2>3, <3>4, <4>1 DEF CheckStatus, TurnsOf, EntriesOf, ActiveStatus, Goto, Types
      <4> QED
        BY <1>0, <2>3, <3>4, <4>1, <4>2 DEF CheckStatus, dbVars, TimerInv
    <3> QED
      BY <2>3, <3>2, <3>3, <3>4 DEF CheckStatus
  <2>4. CASE TimeoutUser(f)
    <3>1. f # e => timer'[e] = timer[e]
      BY <1>0, <2>4, StageUpdate, ReturnStages DEF TimeoutUser, Goto, Stages
    <3>2. CASE f # e
      BY <1>1, <2>4, <3>1, <3>2 DEF TimeoutUser
    <3>3. CASE f = e
      <4>1. timer'[e] \in {"call", "none", "cleanup"}
        BY <1>0, <2>4, <3>3, StageUpdate, ReturnStages DEF TimeoutUser, Goto, Stages
      <4>2. status'[e] # "called" \/ e \in orphaned'
        BY <1>0, <2>4, <3>3 DEF TimeoutUser, TimedOut, TurnsOf, EntriesOf, ActiveStatus, Types
      <4>3. status'[e] \notin {"unused", "waiting"}
        BY <1>0, <2>4, <3>3 DEF TimeoutUser, TimedOut, TimerInv, Types
      <4> QED
        BY <1>0, <2>4, <3>3, <4>1, <4>2, <4>3 DEF TimeoutUser, TimerInv
    <3> QED
      BY <3>2, <3>3
  <2>5. CASE CallAfterTimeout(f)
    <3> DEFINE stages == [timer EXCEPT ![f] = IF f \in direct THEN "none" ELSE "cleanup"]
    <3>1. stages \in [EntryIds -> Stages]
      BY <1>0 DEF Types, Stages
    <3>2. stages[e] = timer[e] \/ (timer[e] = "call" /\ stages[e] \in {"none", "cleanup"})
      BY <1>0, <2>5 DEF CallAfterTimeout, Types
    <3>3. CallNextUser(stages)
      BY <2>5 DEF CallAfterTimeout
    <3> HIDE DEF stages
    <3> QED
      BY <1>2, <2>5, <3>1, <3>2, <3>3 DEF CallAfterTimeout
  <2>6. CASE Cleanup(f)
    BY <1>0, <1>1, <2>6, StageUpdate DEF Cleanup, Goto, dbVars, TimerInv, Types, Stages
  <2> QED
    BY <1>3, <2>1, <2>2, <2>3, <2>4, <2>5, <2>6 DEF TimerStep
<1>4. ASSUME NEW h \in Handlers, NEW op \in Departures, NEW u \in Users, BeginDeparture(h, op, u)
      PROVE  TimerInv(e)'
  BY <1>0, <1>1, <1>4, CancelTimeoutStops DEF BeginDeparture, dbVars
<1>5. CASE AdminCallsNext \/ GoCallNext
  BY <1>0, <1>2, <1>5 DEF AdminCallsNext, GoCallNext, Types
<1>6. CASE Restart
  <2>1. timer'[e] \in {"none", Recovered(e)} /\ stopped' = {} /\ UNCHANGED <<status, late>>
    BY <1>6 DEF Restart, dbVars
  <2> QED
    BY <2>1 DEF TimerInv, Recovered
<1>7. CASE UNCHANGED <<timer, stopped>> /\ late \subseteq late' /\ orphaned \subseteq orphaned'
  BY <1>1, <1>7
<1>8. ASSUME NEW h \in Handlers, HandlerStep(h) PROVE TimerInv(e)'
  BY <1>7, <1>8 DEF HandlerStep, InsertEntry, Depart, ConfirmTurn, RefuseConfirm, FailRequest, HoldTurn, dbVars
<1> QED
  BY <1>3, <1>4, <1>5, <1>6, <1>7, <1>8 DEF Next, vars, dbVars, memVars, BeginJoin, SetPaused,
     AdminCallPanics, DeadlinePasses

-----------------------------------------------------------------------------
(* The pending calls.                                                       *)

(* A confirmation ends a turn for the call that it adds.                    *)
LEMMA CallsKept ==
  ASSUME IInv, [Next]_vars
  PROVE  CallsInv'
<1>0. Types /\ CallsInv /\ \A e \in EntryIds : EntryMove(e)
  BY EntryMoves DEF IInv
<1>1. IsFiniteSet(EntryIds)
  BY FS_Interval DEF EntryIds
<1>2. /\ IsFiniteSet(Ended) /\ IsFiniteSet(Ended')
      /\ Cardinality(Ended) \in Nat /\ Cardinality(Ended') \in Nat
  BY <1>1, FS_Subset, FS_CardinalityType DEF Ended
<1>3. Ended \subseteq Ended'
  BY <1>0 DEF Ended, EntryMove, EndedStatus
<1>4. Cardinality(Ended) <= Cardinality(Ended')
  BY <1>2, <1>3, FS_Subset
<1>5. CASE calls' <= calls /\ calls' \in Nat
  BY <1>0, <1>2, <1>4, <1>5 DEF CallsInv, Types
<1>6. ASSUME NEW h \in Handlers, ConfirmTurn(h) PROVE CallsInv'
  <2> DEFINE f == request[h].entry
  <2>1. f \in EntryIds /\ status[f] = "called"
    BY <1>6 DEF ConfirmTurn, IInv, RequestInv, TurnsOf, EntriesOf
  <2>2. f \notin Ended /\ f \in Ended'
    BY <1>0, <1>6, <2>1 DEF ConfirmTurn, Ended, EndedStatus, Types
  <2>3. Cardinality(Ended \cup {f}) = Cardinality(Ended) + 1 /\ IsFiniteSet(Ended \cup {f})
    BY <1>2, <2>2, FS_AddElement
  <2>4. Cardinality(Ended \cup {f}) <= Cardinality(Ended')
    BY <1>2, <1>3, <2>2, FS_Subset
  <2>5. calls' = calls \/ calls' = calls + 1
    BY <1>6 DEF ConfirmTurn
  <2> QED
    BY <1>0, <1>2, <2>3, <2>4, <2>5 DEF CallsInv, Types
<1>7. CASE UNCHANGED calls
  BY <1>0, <1>5, <1>7 DEF Types
<1>8. CASE GoCallNext \/ Restart
  BY <1>0, <1>5, <1>8 DEF GoCallNext, Restart, Types
<1>9. ASSUME NEW h \in Handlers, HandlerStep(h) PROVE CallsInv'
  BY <1>6, <1>7, <1>9 DEF HandlerStep, InsertEntry, Depart, RefuseConfirm, FailRequest, HoldTurn
<1>10. ASSUME NEW e \in EntryIds, TimerStep(e) PROVE CallsInv'
  BY <1>7, <1>10 DEF TimerStep, StartTimer, TimerStops, TimerFires, CheckStatus, TimeoutUser, CallAfterTimeout, Cleanup
<1> QED
  BY <1>7, <1>8, <1>9, <1>10 DEF Next, vars, memVars, BeginJoin, BeginDeparture, SetPaused, AdminCallsNext,
     AdminCallPanics, DeadlinePasses

-----------------------------------------------------------------------------
(* Nobody's turn is left alone.                                             *)

(* Whatever takes the goroutine of a turn away answers for it.              *)
LEMMA TimedKept ==
  ASSUME IInv, [Next]_vars, NEW e \in EntryIds, status'[e] = "called"
  PROVE  Timed(e)'
<1>0. /\ Types /\ TimerInv(e) /\ TimerInv(e)' /\ EntryMove(e)
      /\ status[e] = "called" => Timed(e)
  BY EntryMoves, TimersKept DEF IInv, EveryTurnIsTimed, Timed
<1>1. CASE status[e] # "called"
  BY <1>0, <1>1 DEF EntryMove, EndedStatus, TimerInv, Timed, Untimed
<1>2. CASE status[e] = "called"
  <2>0. Timed(e) /\ owner'[e] = owner[e] /\ owner[e] \in Users \cup {NoUser}
    BY <1>0, <1>2 DEF EntryMove, Types
  <2>1. ASSUME ~Untimed(e) /\ timer[e] # "cleanup" => Timed(e)',
               UNCHANGED request, orphaned \subseteq orphaned'
        PROVE  Timed(e)'
    BY <2>0, <2>1 DEF Timed
  <2>2. CASE UNCHANGED <<timer, stopped, request>> /\ orphaned \subseteq orphaned'
    BY <2>0, <2>2 DEF Timed, Untimed
  <2>3. ASSUME NEW h \in Handlers, request' = [request EXCEPT ![h] = NoRequest],
               UNCHANGED <<timer, stopped>>, orphaned \subseteq orphaned',
               request[h].user = owner[e] /\ request[h].op \in Departures =>
                 ~Untimed(e) \/ e \in orphaned'
        PROVE  Timed(e)'
    <3>1. \A g \in Handlers \ {h} : request'[g] = request[g]
      BY <1>0, <2>3, EntryNumbers, RequestUpdate
    <3>2. timer[e] = "cleanup" => e \in orphaned'
      BY <1>0, <1>2, <2>3 DEF TimerInv
    <3> QED
      BY <2>0, <2>3, <3>1, <3>2 DEF Timed, Untimed
  <2>4. ASSUME NEW h \in Handlers, HandlerStep(h) PROVE Timed(e)'
    <3>1. CASE InsertEntry(h)
      BY <2>3, <3>1 DEF InsertEntry, Answer, Departures
    <3>2. CASE Depart(h)
      <4>1. request[h].user # owner[e]
        BY <1>0, <1>2, <3>2 DEF Depart, EntriesOf, ActiveStatus, Types
      <4> QED
        BY <2>3, <3>2, <4>1 DEF Depart, Answer
    <3>3. CASE ConfirmTurn(h)
      <4>1. request[h].entry # e
        BY <1>0, <3>3 DEF ConfirmTurn, Types
      <4> QED
        BY <1>2, <2>3, <3>3, <4>1 DEF ConfirmTurn, Answer, Lost, TurnsOf, EntriesOf, ActiveStatus
    <3>4. CASE RefuseConfirm(h) \/ FailRequest(h)
      BY <1>2, <2>3, <3>4 DEF RefuseConfirm, FailRequest, Answer, Lost, TurnsOf, EntriesOf, ActiveStatus
    <3>5. ASSUME NEW f \in EntryIds, HoldTurn(h, f) PROVE Timed(e)'
      <4>1. [request[h] EXCEPT !.entry = f] \in Request /\ request[h] \in Request
        BY <1>0 DEF Types, Request
      <4>2. request' = [request EXCEPT ![h] = [request[h] EXCEPT !.entry = f]]
        BY <3>5 DEF HoldTurn
      <4>3. request'[h] = [request[h] EXCEPT !.entry = f] /\ \A g \in Handlers \ {h} : request'[g] = request[g]
        BY <1>0, <4>1, <4>2, RequestUpdate
      <4>4. request'[h].op = request[h].op /\ request'[h].user = request[h].user
        BY <4>1, <4>3 DEF Request
      <4> QED
        BY <2>0, <3>5, <4>3, <4>4 DEF HoldTurn, Timed, Untimed
    <3> QED
      BY <2>4, <3>1, <3>2, <3>3, <3>4, <3>5 DEF HandlerStep
  <2>5. ASSUME NEW h \in Handlers, NEW u \in Users, BeginJoin(h, u) PROVE Timed(e)'
    <3>1. [op |-> "JoinQueue", user |-> u, entry |-> 0] \in Request
      BY DEF Request
    <3>2. \A g \in Handlers \ {h} : request'[g] = request[g]
      BY <1>0, <2>5, <3>1, RequestUpdate DEF BeginJoin
    <3> QED
      BY <2>0, <2>5, <3>2 DEF BeginJoin, Timed, Untimed, NoRequest, Departures
  <2>6. ASSUME NEW h \in Handlers, NEW op \in Departures, NEW u \in Users, BeginDeparture(h, op, u)
        PROVE  Timed(e)'
    <3>1. [op |-> op, user |-> u, entry |-> 0] \in Request
      BY DEF Request
    <3>2. request'[h] = [op |-> op, user |-> u, entry |-> 0] /\ \A g \in Handlers \ {h} : request'[g] = request[g]
      BY <1>0, <2>6, <3>1, RequestUpdate DEF BeginDeparture
    <3>3. CASE e \in stopped' /\ e \notin stopped
      <4>1. owner[e] = u
        <5>1. e = cancels[u] /\ CancelInv(u)
          BY <1>0, <2>6, <3>3, CancelTimeoutStops DEF BeginDeparture, IInv
        <5> QED
          BY <5>1, EntryNumbers DEF CancelInv
      <4>2. request'[h].user = u /\ request'[h].op = op
        BY <3>2
      <4> QED
        BY <2>0, <4>1, <4>2 DEF Timed
    <3>4. CASE ~(e \in stopped' /\ e \notin stopped)
      BY <2>0, <2>6, <3>2, <3>4 DEF BeginDeparture, Timed, Untimed, NoRequest, Departures
    <3> QED
      BY <3>3, <3>4
  <2>7. ASSUME NEW stages \in [EntryIds -> Stages], CallNextUser(stages),
               stages[e] = timer[e] \/ timer[e] = "call", UNCHANGED <<stopped, request, orphaned>>
        PROVE  Timed(e)'
    <3>1. timer'[e] = stages[e]
      BY <1>0, <1>2, <2>7, NextCalled
    <3>2. timer[e] = "call" => e \in orphaned
      BY <1>0, <1>2 DEF TimerInv
    <3> QED
      BY <2>0, <2>7, <3>1, <3>2 DEF Timed, Untimed
  <2>8. ASSUME NEW f \in EntryIds, TimerStep(f) PROVE Timed(e)'
    <3>1. CASE StartTimer(f)
      BY <1>0, <2>1, <3>1, StageUpdate DEF StartTimer, RegisterTimer, Goto, TimerInv, Timed, Untimed, Stages
    <3>2. CASE TimerStops(f)
      BY <1>0, <2>1, <3>2, StageUpdate DEF TimerStops, Goto, Timed, Untimed, Stages
    <3>3. CASE TimerFires(f)
      BY <1>0, <2>1, <3>3, StageUpdate DEF TimerFires, Goto, Timed, Untimed, Stages
    <3>4. CASE CheckStatus(f)
      <4>1. f # e => timer'[e] = timer[e]
        BY <1>0, <3>4, StageUpdate, ReturnStages DEF CheckStatus, Goto, Stages
      <4>2. CASE f # e
        BY <2>2, <3>4, <4>1, <4>2, <2>1 DEF CheckStatus, Timed, Untimed
      <4>3. CASE f = e
        BY <1>0, <1>2, <2>1, <3>4, <4>3, StageUpdate DEF CheckStatus, Goto, Stages, TurnsOf, EntriesOf, ActiveStatus,
           Timed, Untimed
      <4> QED
        BY <4>2, <4>3
    <3>5. CASE TimeoutUser(f)
      <4>1. f # e => timer'[e] = timer[e]
        BY <1>0, <3>5, StageUpdate, ReturnStages DEF TimeoutUser, Goto, Stages
      <4>2. CASE f # e
        BY <3>5, <4>1, <4>2, <2>1 DEF TimeoutUser, Timed, Untimed
      <4>3. CASE f = e
        <5>1. e \in orphaned'
          BY <1>0, <1>2, <3>5, <4>3 DEF TimeoutUser, TimedOut, TurnsOf, EntriesOf, ActiveStatus, Types
        <5> QED
          BY <5>1 DEF Timed
      <4> QED
        BY <4>2, <4>3
    <3>6. CASE CallAfterTimeout(f)
      <4> DEFINE stages == [timer EXCEPT ![f] = IF f \in direct THEN "none" ELSE "cleanup"]
      <4>1. stages \in [EntryIds -> Stages]
        BY <1>0 DEF Types, Stages
      <4>2. stages[e] = timer[e] \/ timer[e] = "call"
        BY <1>0, <3>6 DEF CallAfterTimeout, Types
      <4>3. CallNextUser(stages)
        BY <3>6 DEF CallAfterTimeout
      <4> HIDE DEF stages
      <4> QED
        BY <2>7, <3>6, <4>1, <4>2, <4>3 DEF CallAfterTimeout
    <3>7. CASE Cleanup(f)
      BY <1>0, <2>1, <3>7, StageUpdate DEF Cleanup, Goto, Timed, Untimed, Stages
    <3> QED
      BY <2>8, <3>1, <3>2, <3>3, <3>4, <3>5, <3>6, <3>7 DEF TimerStep
  <2>9. CASE AdminCallsNext \/ GoCallNext
    BY <1>0, <2>7, <2>9 DEF AdminCallsNext, GoCallNext, Types
  <2>10. CASE Restart
    BY <1>0, <1>2, <2>10 DEF Restart, Recovered, Timed, Untimed
  <2> QED
    BY <2>2, <2>4, <2>5, <2>6, <2>8, <2>9, <2>10 DEF Next, vars, memVars, SetPaused, AdminCallPanics, DeadlinePasses
<1> QED
  BY <1>1, <1>2

(* The invariant is inductive.                                              *)
LEMMA TimersKeepInv == IInv /\ [Next]_vars => IInv'
<1> SUFFICES ASSUME IInv, [Next]_vars PROVE IInv'
  OBVIOUS
<1>1. Types'
  BY TypesStep
<1>2. \A e \in EntryIds : RowInv(e)' /\ TimerInv(e)'
  BY RowsKept, TimersKept
<1>3. (\A h \in Handlers : RequestInv(h)') /\ (\A u \in Users : CancelInv(u)') /\ CallsInv'
  BY RequestsKept, CancelsKept, CallsKept
<1>4. \A e \in EntryIds : status'[e] = "called" => Timed(e)'
  BY TimedKept
<1>5. EveryTurnIsTimed'
  BY <1>4 DEF EveryTurnIsTimed, Timed
<1> QED
  BY <1>1, <1>2, <1>3, <1>5 DEF IInv

-----------------------------------------------------------------------------
(* The theorems.                                                            *)

(* The inductive invariant holds in every reachable state.                  *)
THEOREM TimersInvariance == Spec => []IInv
<1> QED
  BY TimersStart, TimersKeepInv, PTL DEF Spec

(* Every variable keeps its type, and there are never more calls pending    *)
(* than turns have ended.                                                   *)
THEOREM TimersTypeCorrect == Spec => []TypeOK
<1>1. IInv => TypeOK
  <2> SUFFICES ASSUME IInv PROVE TypeOK
    OBVIOUS
  <2>1. IsFiniteSet(EntryIds) /\ Cardinality(EntryIds) = MaxEntries
    BY FS_Interval DEF EntryIds
  <2>2. Cardinality(Ended) <= MaxEntries /\ Cardinality(Ended) \in Nat
    BY <2>1, FS_Subset, FS_CardinalityType DEF Ended
  <2>3. calls \in 0 .. MaxEntries
    BY <2>2 DEF IInv, Types, CallsInv
  <2> QED
    BY <2>3 DEF IInv, Types, TypeOK
<1> QED
  BY <1>1, TimersInvariance, PTL

(* A turn in progress has a goroutine that will end it, a request at work   *)
(* on it, or lost its goroutine to a failure.                               *)
THEOREM EveryTurnStaysTimed == Spec => []EveryTurnIsTimed
<1>1. IInv => EveryTurnIsTimed
  BY DEF IInv
<1> QED
  BY <1>1, TimersInvariance, PTL

(* No timer takes a turn away before its deadline.                          *)
THEOREM NobodyTimesOutEarly == Spec => NoEarlyTimeout
<1>1. IInv /\ [Next]_vars =>
        [\A e \in EntryIds : status[e] = "called" /\ status'[e] = "timeout" => e \in late]_vars
  <2> SUFFICES ASSUME IInv, Next, NEW e \in EntryIds, status[e] = "called", status'[e] = "timeout"
               PROVE  e \in late
    OBVIOUS
  <2>0. Types /\ TimerInv(e)
    BY DEF IInv
  <2>1. ASSUME NEW stages \in [EntryIds -> Stages], CallNextUser(stages) PROVE FALSE
    BY <2>0, <2>1, NextCalled
  <2>2. ASSUME NEW f \in EntryIds, TimerStep(f) PROVE e \in late
    <3>1. CASE TimeoutUser(f)
      BY <2>0, <3>1 DEF TimeoutUser, TimedOut, Types, TimerInv
    <3>2. CASE CallAfterTimeout(f)
      <4>1. [timer EXCEPT ![f] = IF f \in direct THEN "none" ELSE "cleanup"] \in [EntryIds -> Stages]
        BY <2>0 DEF Types, Stages
      <4> QED
        BY <2>1, <3>2, <4>1 DEF CallAfterTimeout
    <3> QED
      BY <2>2, <3>1, <3>2 DEF TimerStep, StartTimer, TimerStops, TimerFires, CheckStatus, Cleanup, dbVars
  <2>3. ASSUME NEW h \in Handlers, HandlerStep(h) PROVE FALSE
    BY <2>0, <2>3 DEF HandlerStep, InsertEntry, Depart, ConfirmTurn, RefuseConfirm, FailRequest, HoldTurn, dbVars, Types
  <2>4. ASSUME NEW f \in EntryIds, AdminCallPanics(f) PROVE FALSE
    BY <2>0, <2>4 DEF AdminCallPanics, Types
  <2>5. CASE AdminCallsNext \/ GoCallNext
    BY <2>0, <2>1, <2>5 DEF AdminCallsNext, GoCallNext, Types
  <2> QED
    BY <2>2, <2>3, <2>4, <2>5 DEF Next, BeginJoin, BeginDeparture, SetPaused, DeadlinePasses, Restart, dbVars
<1> QED
  BY <1>1, TimersInvariance, PTL DEF Spec, NoEarlyTimeout

(* Turn follows turn until nobody waits, with the exceptions that           *)
(* NextIsCalled names and no other.                                         *)
THEOREM TurnFollowsTurn == Spec => NextIsCalled
<1> DEFINE Excused ==
      \/ WaitingEntries' = {} \/ paused
      \/ \E e \in EntryIds : status[e] = "called" /\ status'[e] \in {"deleted", "removed"}
      \/ /\ "database" \in Faults
         /\ calls' < calls \/ \E e \in EntryIds : timer[e] = "call" /\ timer'[e] # "call"
      \/ /\ "panic" \in Faults
         /\ \E e \in EntryIds : status[e] = "called" /\ status'[e] = "confirmed"
      \/ restarts' # restarts
<1>1. IInv /\ [Next]_vars => [InMotion /\ ~InMotion' => Excused]_vars
  <2> SUFFICES ASSUME IInv, Next, InMotion, ~InMotion' PROVE Excused
    OBVIOUS
  <2>0. Types /\ Types'
    BY TypesStep DEF IInv
  <2>1. ASSUME calls' = calls,
               \A e \in EntryIds : (status[e] = "called" => status'[e] = "called")
                                   /\ (timer[e] = "call" => timer'[e] = "call")
        PROVE  FALSE
    BY <2>1 DEF InMotion
  <2>2. ASSUME NEW stages \in [EntryIds -> Stages], CallNextUser(stages)
        PROVE  WaitingEntries' = {} \/ paused \/ "database" \in Faults
    <3>1. \A e \in EntryIds : status'[e] # "called"
      BY DEF InMotion
    <3> QED
      BY <2>0, <2>2, <3>1 DEF CallNextUser, WaitingEntries, Types
  <2>3. CASE AdminCallsNext
    <3>1. timer \in [EntryIds -> Stages]
      BY <2>0 DEF Types
    <3>2. \A e \in EntryIds : status'[e] # "called"
      BY DEF InMotion
    <3>3. \A e \in EntryIds : status'[e] = status[e] /\ timer'[e] = timer[e]
      BY <2>0, <2>3, <3>1, <3>2, NextCalled DEF AdminCallsNext
    <3> QED
      BY <2>1, <2>3, <3>3 DEF AdminCallsNext
  <2>4. CASE GoCallNext
    BY <2>0, <2>2, <2>4 DEF GoCallNext, Types
  <2>5. ASSUME NEW f \in EntryIds, TimerStep(f) PROVE Excused
    <3>1. CASE CallAfterTimeout(f)
      <4> DEFINE stages == [timer EXCEPT ![f] = IF f \in direct THEN "none" ELSE "cleanup"]
      <4>1. stages \in [EntryIds -> Stages] /\ stages[f] # "call"
        BY <2>0 DEF Types, Stages
      <4>2. CallNextUser(stages) /\ timer[f] = "call"
        BY <3>1 DEF CallAfterTimeout
      <4> HIDE DEF stages
      <4>3. timer'[f] # "call"
        BY <2>0, <4>1, <4>2, NextCalled
      <4> QED
        BY <2>2, <4>1, <4>2, <4>3
    <3>2. CASE TimeoutUser(f)
      <4>1. timer' # [timer EXCEPT ![f] = "call"]
        BY <2>0 DEF InMotion, Types
      <4>2. UNCHANGED <<status, calls>>
        BY <3>2, <4>1 DEF TimeoutUser, Goto
      <4>3. timer[f] # "call" /\ \A e \in EntryIds \ {f} : timer'[e] = timer[e]
        BY <2>0, <3>2, StageUpdate, ReturnStages DEF TimeoutUser, Goto, Stages
      <4> QED
        BY <2>1, <4>2, <4>3
    <3>3. CASE CheckStatus(f)
      <4>1. timer[f] # "call" /\ \A e \in EntryIds \ {f} : timer'[e] = timer[e]
        BY <2>0, <3>3, StageUpdate, ReturnStages DEF CheckStatus, Goto, Stages
      <4> QED
        BY <2>1, <3>3, <4>1 DEF CheckStatus, dbVars
    <3>4. CASE StartTimer(f) \/ TimerStops(f) \/ TimerFires(f) \/ Cleanup(f)
      <4>1. timer[f] # "call" /\ \A e \in EntryIds \ {f} : timer'[e] = timer[e]
        BY <2>0, <3>4, StageUpdate DEF StartTimer, RegisterTimer, TimerStops, TimerFires, Cleanup, Goto, Stages
      <4>2. UNCHANGED <<status, calls>>
        BY <3>4 DEF StartTimer, TimerStops, TimerFires, Cleanup, dbVars
      <4> QED
        BY <2>1, <4>1, <4>2
    <3> QED
      BY <2>5, <3>1, <3>2, <3>3, <3>4 DEF TimerStep
  <2>6. ASSUME NEW h \in Handlers, HandlerStep(h) PROVE Excused
    <3>1. CASE InsertEntry(h)
      BY <2>0, <2>1, <3>1 DEF InsertEntry, Types
    <3>2. CASE Depart(h)
      <4>1. \A e \in EntryIds : status'[e] = status[e] \/ status'[e] \in {"deleted", "removed"}
        BY <2>0, <3>2 DEF Depart, Types
      <4> QED
        BY <2>1, <3>2, <4>1 DEF Depart
    <3>3. CASE ConfirmTurn(h)
      <4>1. calls' # calls + 1
        BY <2>0 DEF InMotion, Types
      <4>2. request[h].entry \in EntryIds /\ status[request[h].entry] = "called"
        BY <3>3 DEF ConfirmTurn, IInv, RequestInv, TurnsOf, EntriesOf
      <4>3. status'[request[h].entry] = "confirmed"
        BY <2>0, <3>3, <4>2 DEF ConfirmTurn, Types
      <4> QED
        BY <3>3, <4>1, <4>2, <4>3 DEF ConfirmTurn
    <3>4. ASSUME NEW e \in EntryIds, HoldTurn(h, e) PROVE Excused
      BY <2>1, <3>4 DEF HoldTurn, dbVars
    <3>5. CASE RefuseConfirm(h) \/ FailRequest(h)
      BY <2>1, <3>5 DEF RefuseConfirm, FailRequest, dbVars
    <3> QED
      BY <2>6, <3>1, <3>2, <3>3, <3>4, <3>5 DEF HandlerStep
  <2>7. ASSUME NEW f \in EntryIds, AdminCallPanics(f) PROVE Excused
    BY <2>0, <2>1, <2>7 DEF AdminCallPanics, memVars, Types
  <2>8. CASE Restart
    BY <2>0, <2>8 DEF Restart, Types
  <2> QED
    BY <2>1, <2>3, <2>4, <2>5, <2>6, <2>7, <2>8 DEF Next, BeginJoin, BeginDeparture, SetPaused, DeadlinePasses,
       dbVars, memVars
<1> QED
  BY <1>1, TimersInvariance, PTL DEF Spec, NextIsCalled

-----------------------------------------------------------------------------
(* Refinement: the entries live the life EntryLifecycle describes.          *)

(* One entry gets a new status.                                             *)
LEMMA OneBecomes ==
  ASSUME IInv, NEW e \in EntryIds, NEW s, status' = [status EXCEPT ![e] = s]
  PROVE  Lifecycle!Become({e}, s)
BY DEF IInv, Types, Lifecycle!Become

(* Whoever calls the next user, one waiting entry is called, or none.       *)
LEMMA CallIsLifecycleStep ==
  ASSUME IInv, NEW stages, CallNextUser(stages), status' # status
  PROVE  Lifecycle!Next
<1>1. PICK e \in EntryIds : status[e] = "waiting" /\ status' = [status EXCEPT ![e] = "called"]
  BY DEF CallNextUser, WaitingEntries
<1> QED
  BY <1>1, OneBecomes DEF Lifecycle!Call, Lifecycle!Next

(* A departure takes active entries of the user, and an administrator's     *)
(* removal the ended ones as well.                                          *)
LEMMA DepartIsLifecycleStep ==
  ASSUME IInv, NEW h \in Handlers, Depart(h), status' # status
  PROVE  Lifecycle!Next
<1> DEFINE u == request[h].user
<1>1. /\ status \in [EntryIds -> StoredStatus \cup {"unused", "deleted"}] /\ u \in Users
      /\ EntriesOf(u) # {} /\ request[h].op \in {"LeaveQueue", "RemoveUser"}
      /\ status' = [e \in EntryIds |->
           IF request[h].op = "LeaveQueue"
           THEN IF e \in EntriesOf(u) THEN "deleted" ELSE status[e]
           ELSE IF owner[e] = u /\ status[e] # "deleted" THEN "removed" ELSE status[e]]
  BY DEF Depart, IInv, Types, RequestInv
<1>2. CASE request[h].op = "LeaveQueue"
  <2>1. EntriesOf(u) \in SUBSET EntryIds /\ \A e \in EntriesOf(u) : status[e] \in Lifecycle!Active
    BY DEF EntriesOf, ActiveStatus, Lifecycle!Active
  <2>2. Lifecycle!Become(EntriesOf(u), "deleted")
    BY <1>1, <1>2 DEF Lifecycle!Become
  <2> QED
    BY <1>1, <2>1, <2>2 DEF Lifecycle!Leave, Lifecycle!Next
<1>3. CASE request[h].op = "RemoveUser"
  <2> DEFINE S == {e \in EntryIds : owner[e] = u /\ status[e] # "deleted"}
  <2>1. \A e \in S : status[e] \in Lifecycle!Active \cup Lifecycle!Closed
    <3>1. \A e \in S : status[e] # "unused"
      BY <1>1, QueueTableAssumption DEF IInv, RowInv
    <3> QED
      BY <1>1, <3>1 DEF StoredStatus, ActiveStatus, Lifecycle!Active, Lifecycle!Closed
  <2>2. \E e \in S : status[e] \in Lifecycle!Active
    BY <1>1 DEF EntriesOf, ActiveStatus, Lifecycle!Active
  <2>3. Lifecycle!Become(S, "removed")
    BY <1>1, <1>3 DEF Lifecycle!Become
  <2> QED
    BY <2>1, <2>2, <2>3 DEF Lifecycle!Remove, Lifecycle!Next
<1> QED
  BY <1>1, <1>2, <1>3

(* A step that writes a status is one step of EntryLifecycle.               *)
LEMMA LifecycleStep == IInv /\ [Next]_vars => [Lifecycle!Next]_status
<1> SUFFICES ASSUME IInv, [Next]_vars, status' # status PROVE Lifecycle!Next
  OBVIOUS
<1>1. ASSUME NEW h \in Handlers, HandlerStep(h) PROVE Lifecycle!Next
  <2>1. CASE InsertEntry(h)
    <3>1. PICK e \in EntryIds : status[e] = "unused" /\ status' = [status EXCEPT ![e] = "waiting"]
      BY <2>1 DEF InsertEntry
    <3> QED
      BY <3>1, OneBecomes DEF Lifecycle!Join, Lifecycle!Next
  <2>2. CASE Depart(h)
    BY <2>2, DepartIsLifecycleStep
  <2>3. CASE ConfirmTurn(h)
    <3>1. request[h].entry \in EntryIds /\ status[request[h].entry] = "called"
      BY <2>3 DEF ConfirmTurn, IInv, RequestInv, TurnsOf, EntriesOf
    <3>2. status' = [status EXCEPT ![request[h].entry] = "confirmed"]
      BY <2>3 DEF ConfirmTurn
    <3> QED
      BY <3>1, <3>2, OneBecomes DEF Lifecycle!Confirm, Lifecycle!Next
  <2> QED
    BY <1>1, <2>1, <2>2, <2>3 DEF HandlerStep, HoldTurn, RefuseConfirm, FailRequest, dbVars
<1>2. ASSUME NEW e \in EntryIds, TimerStep(e) PROVE Lifecycle!Next
  <2>1. CASE TimeoutUser(e)
    <3>1. status[e] = "called" /\ status' = [status EXCEPT ![e] = "timeout"]
      BY <2>1 DEF TimeoutUser, TimedOut
    <3> QED
      BY <3>1, OneBecomes DEF Lifecycle!Expire, Lifecycle!Next
  <2>2. CASE CallAfterTimeout(e)
    BY <2>2, CallIsLifecycleStep DEF CallAfterTimeout
  <2> QED
    BY <1>2, <2>1, <2>2 DEF TimerStep, StartTimer, TimerStops, TimerFires, CheckStatus, Cleanup, dbVars
<1>3. CASE AdminCallsNext \/ GoCallNext
  BY <1>3, CallIsLifecycleStep DEF AdminCallsNext, GoCallNext
<1>4. ASSUME NEW e \in EntryIds, AdminCallPanics(e) PROVE Lifecycle!Next
  BY <1>4, OneBecomes DEF AdminCallPanics, WaitingEntries, Lifecycle!Call, Lifecycle!Next
<1> QED
  BY <1>1, <1>2, <1>3, <1>4 DEF Next, vars, BeginJoin, BeginDeparture, SetPaused, DeadlinePasses, Restart, dbVars

(* Whatever timers, requests, pending calls and restarts meet on an entry,  *)
(* it is called at most once and ends at most once, as EntryLifecycle says. *)
THEOREM TurnsLiveOnce == Spec => LifecycleSpec
<1>1. Init => Lifecycle!Init
  BY DEF Init, Lifecycle!Init
<1>2. IInv /\ [Next]_vars => [Lifecycle!Next]_status
  BY LifecycleStep
<1>3. Spec => Lifecycle!Init /\ [][Lifecycle!Next]_status
  BY <1>1, <1>2, TimersInvariance, PTL DEF Spec
<1> QED
  BY <1>3 DEF LifecycleSpec, Lifecycle!Spec

=============================================================================
