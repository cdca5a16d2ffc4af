----------------------------- MODULE Broadcasts -----------------------------
(***************************************************************************)
(* broadcastQueueUpdate of services/queue_service.go.  Every service method *)
(* that has changed the queue or its settings starts two goroutines: one    *)
(* reads the queue and sends each user in it a position, the other reads    *)
(* the queue, then the settings, and sends both to the administrators.      *)
(* Nothing orders the goroutines of one change before those of another.     *)
(*                                                                         *)
(* Changes are numbered in the order in which they commit.  What a message  *)
(* says is the number of the last change its queries saw, so a message is   *)
(* up to date when it carries the number of the last change.  GetQueueList  *)
(* does not ask for the error of a result that breaks off: the rows read so *)
(* far then pass for the queue.  Such a list is NoList.  Send is a          *)
(* first-in first-out channel (WebSocketManager): the order of sending is   *)
(* the order in which a client is shown the messages.                       *)
(***************************************************************************)
EXTENDS Naturals

CONSTANTS
  Users,       \* users who may be in the queue
  Admins,      \* the administrators
  MaxChanges,  \* bound: how many changes are made
  Faults       \* which failures happen: "database", "full", "panic", "restart"

(* An administrator who joins the queue is two clients here, one of each kind. *)
ASSUME BroadcastsAssumption ==
  /\ Users \cap Admins = {}
  /\ MaxChanges \in Nat
  /\ Faults \subseteq {"database", "full", "panic", "restart"}

Changes == 1 .. MaxChanges
Versions == 0 .. MaxChanges
Clients == Users \cup Admins

VARIABLES
  version,   \* the last change committed
  queue,     \* the users in the queue
  online,    \* who is connected
  method,    \* the method that made each change: has it started the goroutines?
  sender,    \* BroadcastPositionUpdates of each change
  reporter,  \* BroadcastQueueStateToAdmins of each change
  \* What each client has received on its present connection:
  shown,     \* the last message
  newest,    \* the newest list and settings
  \* History:
  since,     \* the last version at which the client was offline or not in the queue
  missed,    \* who was not sent a message about a change because of a fault
  overlap    \* to whom something older was under way when the last change came

vars == <<version, queue, online, method, sender, reporter, shown, newest, since, missed, overlap>>

Content == [list : Versions, settings : Versions]

(* No whole list: none received yet, or one that breaks off.                *)
NoList == 0
Nothing == [list |-> NoList, settings |-> 0]

Sender == [stage : {"none", "started", "sending", "done"}, list : Versions, to : SUBSET Users]
NoSender == [stage |-> "none", list |-> NoList, to |-> {}]

Reporter == [stage : {"none", "started", "listed", "sending", "done"}, content : Content]
NoReporter == [stage |-> "none", content |-> Nothing]

(* The method that made change n, or one of its goroutines, has work to do. *)
Working(n) ==
  \/ method[n] = "committed"
  \/ sender[n].stage \in {"started", "sending"}
  \/ reporter[n].stage \in {"started", "listed", "sending"}

Quiet == \A n \in Changes : ~Working(n)

(* A goroutine of change n has read what it will still send to client c.    *)
UnderWay(c, n) ==
  \/ sender[n].stage = "sending" /\ c \in sender[n].to
  \/ reporter[n].stage \in {"listed", "sending"} /\ c \in Admins

TypeOK ==
  /\ version \in Versions
  /\ queue \in SUBSET Users
  /\ online \in SUBSET Clients
  /\ method \in [Changes -> {"none", "committed", "done"}]
  /\ sender \in [Changes -> Sender]
  /\ reporter \in [Changes -> Reporter]
  /\ shown \in [Clients -> Content]
  /\ newest \in [Clients -> Content]
  /\ since \in [Clients -> Versions]
  /\ missed \in [Changes -> SUBSET Clients]
  /\ overlap \in SUBSET Clients
  /\ \A n \in Changes : n > version => ~Working(n)

Init ==
  /\ version = 0
  /\ queue = {}
  /\ online = {}
  /\ method = [n \in Changes |-> "none"]
  /\ sender = [n \in Changes |-> NoSender]
  /\ reporter = [n \in Changes |-> NoReporter]
  /\ shown = [c \in Clients |-> Nothing]
  /\ newest = [c \in Clients |-> Nothing]
  /\ since = [c \in Clients |-> 0]
  /\ missed = [n \in Changes |-> {}]
  /\ overlap = {}

-----------------------------------------------------------------------------
(* The service methods.                                                     *)

(* The repository commits change n, after which `members' are in the queue. *)
Commit(members) ==
  LET n == version + 1 IN
  /\ n \in Changes
  /\ version' = n
  /\ queue' = members
  /\ since' = [c \in Clients |-> IF c \in members \ queue THEN version ELSE since[c]]
  /\ method' = [method EXCEPT ![n] = "committed"]
  /\ overlap' = {c \in Clients : \E m \in Changes : UnderWay(c, m)}
  /\ UNCHANGED <<online, sender, reporter, shown, newest, missed>>

(* JoinQueue; LeaveQueue, ConfirmTurn, RemoveUser and TimeoutUser.          *)
Join(u) == u \notin queue /\ Commit(queue \cup {u})
Depart(u) == u \in queue /\ Commit(queue \ {u})

(* CallNextUser, PauseQueue and ResumeQueue.                                *)
ChangeStatusOrSettings == Commit(queue)

(* Mistake: the goroutines start before the repository commits.             *)
BroadcastFirst(n) ==
  /\ sender[n].stage = "none"
  /\ n = version + 1
  /\ sender' = [sender EXCEPT ![n].stage = "started"]
  /\ reporter' = [reporter EXCEPT ![n].stage = "started"]
  /\ UNCHANGED <<version, queue, online, method, shown, newest, since, missed, overlap>>

(* Mistake: an update is not broadcast while another broadcast is under way. *)
BroadcastUnlessBusy(n) ==
  LET busy == \E m \in Changes \ {n} : Working(m) IN
  /\ method[n] = "committed"
  /\ method' = [method EXCEPT ![n] = "done"]
  /\ sender' = IF busy THEN sender ELSE [sender EXCEPT ![n].stage = "started"]
  /\ reporter' = IF busy THEN reporter ELSE [reporter EXCEPT ![n].stage = "started"]
  /\ UNCHANGED <<version, queue, online, shown, newest, since, missed, overlap>>

(* broadcastQueueUpdate.                                                    *)
BroadcastQueueUpdate(n) ==
  /\ method[n] = "committed"
  /\ method' = [method EXCEPT ![n] = "done"]
  /\ sender' = [sender EXCEPT ![n].stage = "started"]
  /\ reporter' = [reporter EXCEPT ![n].stage = "started"]
  /\ UNCHANGED <<version, queue, online, shown, newest, since, missed, overlap>>

(* ConfirmTurn, CallNextUser and RemoveUser send a message to the user      *)
(* first.  If that panics, recover.New() ends the request without a         *)
(* broadcast.                                                               *)
MethodPanics(n) ==
  /\ "panic" \in Faults
  /\ method[n] = "committed"
  /\ method' = [method EXCEPT ![n] = "done"]
  /\ missed' = [missed EXCEPT ![n] = Clients]
  /\ UNCHANGED <<version, queue, online, sender, reporter, shown, newest, since, overlap>>

-----------------------------------------------------------------------------
(* The channel of a client, if it has one, takes a message or is full.      *)

Later(a, b) == IF a < b THEN b ELSE a

Deliver(receivers, content) ==
  /\ shown' = [c \in Clients |-> IF c \in receivers THEN content ELSE shown[c]]
  /\ newest' = [c \in Clients |->
       IF c \in receivers
       THEN [list |-> Later(newest[c].list, content.list),
             settings |-> Later(newest[c].settings, content.settings)]
       ELSE newest[c]]

(* Of the clients meant, these receive the message.                         *)
Receivers(meant) ==
  LET connected == meant \cap online IN
  IF "full" \in Faults THEN SUBSET connected ELSE {connected}

-----------------------------------------------------------------------------
(* BroadcastPositionUpdates.                                                *)

ReadPositions(n) ==
  /\ sender[n].stage = "started"
  /\ sender' = [sender EXCEPT ![n] = [stage |-> "sending", list |-> version, to |-> queue]]
  /\ UNCHANGED <<version, queue, online, method, reporter, shown, newest, since, missed, overlap>>

(* The connection is lost while GetQueueList goes through the rows: those    *)
(* read so far are sent their position, with a total that is wrong.         *)
PositionsBreakOff(n) ==
  /\ "database" \in Faults
  /\ sender[n].stage = "started"
  /\ \E part \in (SUBSET queue) \ {queue} :
       sender' = [sender EXCEPT ![n] = [stage |-> "sending", list |-> NoList, to |-> part]]
  /\ missed' = [missed EXCEPT ![n] = @ \cup Users]
  /\ UNCHANGED <<version, queue, online, method, reporter, shown, newest, since, overlap>>

(* for _, entry := range queue: SendToUser.                                 *)
SendPosition(n, u) ==
  /\ sender[n].stage = "sending"
  /\ u \in sender[n].to
  /\ sender' = [sender EXCEPT ![n].to = @ \ {u}]
  /\ \E receivers \in Receivers({u}) :
       /\ Deliver(receivers, [list |-> sender[n].list, settings |-> sender[n].list])
       /\ missed' = [missed EXCEPT ![n] = @ \cup (({u} \cap online) \ receivers)]
  /\ UNCHANGED <<version, queue, online, method, reporter, since, overlap>>

EndPositions(n) ==
  /\ sender[n].stage = "sending"
  /\ sender[n].to = {}
  /\ sender' = [sender EXCEPT ![n] = [NoSender EXCEPT !.stage = "done"]]
  /\ UNCHANGED <<version, queue, online, method, reporter, shown, newest, since, missed, overlap>>

FailPositions(n) ==
  /\ "database" \in Faults
  /\ sender[n].stage = "started"
  /\ sender' = [sender EXCEPT ![n].stage = "done"]
  /\ missed' = [missed EXCEPT ![n] = @ \cup Users]
  /\ UNCHANGED <<version, queue, online, method, reporter, shown, newest, since, overlap>>

-----------------------------------------------------------------------------
(* BroadcastQueueStateToAdmins.                                             *)

(* Mistake: an empty queue is not worth a message.                          *)
ReadQueueUnlessEmpty(n) ==
  /\ reporter[n].stage = "started"
  /\ reporter' = [reporter EXCEPT ![n] =
       IF queue = {} THEN [@ EXCEPT !.stage = "done"]
       ELSE [stage |-> "listed", content |-> [Nothing EXCEPT !.list = version]]]
  /\ UNCHANGED <<version, queue, online, method, sender, shown, newest, since, missed, overlap>>

ReadQueue(n) ==
  /\ reporter[n].stage = "started"
  /\ reporter' = [reporter EXCEPT ![n] =
       [stage |-> "listed", content |-> [Nothing EXCEPT !.list = version]]]
  /\ UNCHANGED <<version, queue, online, method, sender, shown, newest, since, missed, overlap>>

(* The same for the administrators: a part of the queue is shown as all.    *)
QueueBreaksOff(n) ==
  /\ "database" \in Faults
  /\ reporter[n].stage = "started"
  /\ queue # {}
  /\ reporter' = [reporter EXCEPT ![n] = [stage |-> "listed", content |-> Nothing]]
  /\ missed' = [missed EXCEPT ![n] = @ \cup Admins]
  /\ UNCHANGED <<version, queue, online, method, sender, shown, newest, since, overlap>>

ReadSettings(n) ==
  /\ reporter[n].stage = "listed"
  /\ reporter' = [reporter EXCEPT ![n].stage = "sending", ![n].content.settings = version]
  /\ UNCHANGED <<version, queue, online, method, sender, shown, newest, since, missed, overlap>>

(* BroadcastToRole("admin", ...).                                           *)
SendState(n) ==
  /\ reporter[n].stage = "sending"
  /\ reporter' = [reporter EXCEPT ![n] = [NoReporter EXCEPT !.stage = "done"]]
  /\ \E receivers \in Receivers(Admins) :
       /\ Deliver(receivers, reporter[n].content)
       /\ missed' = [missed EXCEPT ![n] = @ \cup ((Admins \cap online) \ receivers)]
  /\ UNCHANGED <<version, queue, online, method, sender, since, overlap>>

FailState(n) ==
  /\ "database" \in Faults
  /\ reporter[n].stage \in {"started", "listed"}
  /\ reporter' = [reporter EXCEPT ![n] = [NoReporter EXCEPT !.stage = "done"]]
  /\ missed' = [missed EXCEPT ![n] = @ \cup Admins]
  /\ UNCHANGED <<version, queue, online, method, sender, shown, newest, since, overlap>>

-----------------------------------------------------------------------------
(* Nothing is sent to a client because it connects.  A client that connects *)
(* again takes the place of its old connection.                             *)
Connect(c) ==
  /\ online' = online \cup {c}
  /\ shown' = [shown EXCEPT ![c] = Nothing]
  /\ newest' = [newest EXCEPT ![c] = Nothing]
  /\ since' = [since EXCEPT ![c] = version]
  /\ UNCHANGED <<version, queue, method, sender, reporter, missed, overlap>>

Disconnect(c) ==
  /\ c \in online
  /\ online' = online \ {c}
  /\ shown' = [shown EXCEPT ![c] = Nothing]
  /\ newest' = [newest EXCEPT ![c] = Nothing]
  /\ since' = [since EXCEPT ![c] = 0]
  /\ UNCHANGED <<version, queue, method, sender, reporter, missed, overlap>>

(* The process ends while broadcasts are under way, also because SendToUser panics in a goroutine that     *)
(* nothing recovers, and starts again.                                      *)
Restart ==
  /\ "restart" \in Faults
  /\ \E n \in Changes : Working(n)
  /\ online' = {}
  /\ shown' = [c \in Clients |-> Nothing]
  /\ newest' = [c \in Clients |-> Nothing]
  /\ since' = [c \in Clients |-> 0]
  /\ method' = [n \in Changes |-> IF method[n] = "none" THEN "none" ELSE "done"]
  /\ sender' = [n \in Changes |-> IF method[n] = "none" THEN NoSender ELSE [NoSender EXCEPT !.stage = "done"]]
  /\ reporter' = [n \in Changes |-> IF method[n] = "none" THEN NoReporter ELSE [NoReporter EXCEPT !.stage = "done"]]
  /\ UNCHANGED <<version, queue, missed, overlap>>

Step(n) ==
  \/ BroadcastQueueUpdate(n) \/ MethodPanics(n)
  \/ ReadPositions(n) \/ PositionsBreakOff(n) \/ EndPositions(n) \/ FailPositions(n)
  \/ ReadQueue(n) \/ QueueBreaksOff(n) \/ ReadSettings(n) \/ SendState(n) \/ FailState(n)
  \/ \E u \in Users : SendPosition(n, u)

Next ==
  \/ \E u \in Users : Join(u) \/ Depart(u)
  \/ ChangeStatusOrSettings
  \/ \E n \in Changes : Step(n)
  \/ \E c \in Clients : Connect(c) \/ Disconnect(c)
  \/ Restart

Spec == Init /\ [][Next]_vars

(* Go runs every goroutine that can run, and the database answers.          *)
Fairness == \A n \in Changes : WF_vars(Step(n))

FairSpec == Spec /\ Fairness

-----------------------------------------------------------------------------
(* Properties.                                                              *)

(* The client has been connected, and in the queue if it is a user's, since *)
(* before change n.                                                         *)
Follows(c, n) == c \in online /\ c \in queue \cup Admins /\ since[c] < n /\ n <= version

(* It has received the queue and the settings as of change n, or later.     *)
Seen(c, n) == newest[c].list >= n /\ newest[c].settings >= n

(* README, "Server broadcasts queue updates to all connected clients": once *)
(* the goroutines of a change have ended, everyone it concerns has seen     *)
(* that change, however those of other changes overlapped with them.        *)
EveryChangeSeen ==
  \A n \in Changes, c \in Clients :
    Follows(c, n) /\ ~Working(n) /\ c \notin missed[n] => Seen(c, n)

(* README, "clients rely on latest broadcast": when all is quiet, the last  *)
(* message of everyone concerned shows the queue and the settings as they   *)
(* are, the two queries of the administrators' state included.  This fails  *)
(* in two ways only: what a goroutine had read for this client before the   *)
(* last change was sent after it, or the last list was one that breaks off. *)
SettledIsCurrent ==
  Quiet => \A c \in Clients :
    Follows(c, version) /\ c \notin missed[version] /\ c \notin overlap =>
      shown[c] = [list |-> version, settings |-> version] \/ shown[c].list = NoList

(* README, "WebSocket handles real-time state propagation": every change    *)
(* reaches everyone it concerns, unless they go away or a fault takes their *)
(* message.                                                                 *)
EveryChangeArrives ==
  \A n \in Changes, c \in Clients :
    Follows(c, n) ~> (Seen(c, n) \/ ~Follows(c, n) \/ c \in missed[n])

=============================================================================
