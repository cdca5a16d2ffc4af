------------------------- MODULE BroadcastsProofs --------------------------
(***************************************************************************)
(* Theorems about Broadcasts, for any users, administrators and number of  *)
(* changes: every change reaches everyone it concerns, in whatever order   *)
(* the goroutines of different changes read and send.                      *)
(*                                                                         *)
(* The argument: a message about change n that a client has not received   *)
(* yet is still owed, by the method that made the change or by one of its  *)
(* two goroutines, and what that goroutine has read is not older than n.   *)
(***************************************************************************)
EXTENDS Broadcasts, TLAPS

USE BroadcastsAssumption DEF NoList

(* Change n will still be brought to client c, or something newer.          *)
OwedToUser(c, n) ==
  \/ method[n] = "committed"
  \/ sender[n].stage = "started"
  \/ sender[n].stage = "sending" /\ c \in sender[n].to /\ sender[n].list >= n

OwedToAdmin(n) ==
  \/ method[n] = "committed"
  \/ reporter[n].stage = "started"
  \/ reporter[n].stage = "listed" /\ reporter[n].content.list >= n
  \/ /\ reporter[n].stage = "sending"
     /\ reporter[n].content.list >= n /\ reporter[n].content.settings >= n

Owed(c, n) == IF c \in Admins THEN OwedToAdmin(n) ELSE OwedToUser(c, n)

ClientInv(c, n) == Follows(c, n) /\ c \notin missed[n] => Seen(c, n) \/ Owed(c, n)

IInv == TypeOK /\ \A n \in Changes, c \in Clients : ClientInv(c, n)

-----------------------------------------------------------------------------

(* Changes and versions are numbers, changes from 1 on.                     *)
LEMMA VersionTypes ==
  /\ MaxChanges \in Nat
  /\ \A n \in Changes : n \in Nat /\ n > 0 /\ n \in Versions
  /\ \A v \in Versions : v \in Nat
BY DEF Changes, Versions

(* The records that the actions build are records of their types.           *)
LEMMA RecordTypes ==
  /\ Nothing \in Content
  /\ \A v \in Versions : [Nothing EXCEPT !.list = v] \in Content
  /\ \A r \in Sender :
       /\ r.list \in Versions /\ r.to \in SUBSET Users
       /\ \A u \in Users : [r EXCEPT !.to = @ \ {u}] \in Sender
       /\ \A stage \in {"started", "done"} : [r EXCEPT !.stage = stage] \in Sender
  /\ \A v \in Versions, to \in SUBSET Users : [stage |-> "sending", list |-> v, to |-> to] \in Sender
  /\ \A stage \in {"none", "done"} : [NoSender EXCEPT !.stage = stage] \in Sender
  /\ NoSender \in Sender
  /\ \A r \in Reporter :
       /\ r.content \in Content
       /\ [r EXCEPT !.stage = "started"] \in Reporter
       /\ \A v \in Versions : [r EXCEPT !.stage = "sending", !.content.settings = v] \in Reporter
  /\ \A content \in Content : [stage |-> "listed", content |-> content] \in Reporter
  /\ [NoReporter EXCEPT !.stage = "done"] \in Reporter
  /\ NoReporter \in Reporter
<1>1. 0 \in Versions
  BY VersionTypes DEF Versions
<1>2. Nothing \in Content /\ \A v \in Versions : [Nothing EXCEPT !.list = v] \in Content
  BY <1>1 DEF Nothing, Content
<1>3. /\ NoSender \in Sender /\ \A stage \in {"none", "done"} : [NoSender EXCEPT !.stage = stage] \in Sender
      /\ \A v \in Versions, to \in SUBSET Users : [stage |-> "sending", list |-> v, to |-> to] \in Sender
  BY <1>1 DEF NoSender, Sender
<1>4. \A r \in Sender :
        /\ r.list \in Versions /\ r.to \in SUBSET Users
        /\ \A u \in Users : [r EXCEPT !.to = @ \ {u}] \in Sender
        /\ \A stage \in {"started", "done"} : [r EXCEPT !.stage = stage] \in Sender
  BY DEF Sender
<1>5. /\ NoReporter \in Reporter /\ [NoReporter EXCEPT !.stage = "done"] \in Reporter
      /\ \A content \in Content : [stage |-> "listed", content |-> content] \in Reporter
  BY <1>2 DEF NoReporter, Reporter
<1>6. \A r \in Reporter :
        /\ r.content \in Content
        /\ [r EXCEPT !.stage = "started"] \in Reporter
        /\ \A v \in Versions : [r EXCEPT !.stage = "sending", !.content.settings = v] \in Reporter
  BY DEF Reporter, Content
<1> QED
  BY <1>2, <1>3, <1>4, <1>5, <1>6

(* Nothing was changed yet, so nothing is owed.                             *)
LEMMA BroadcastsStart == Init => IInv
<1> SUFFICES ASSUME Init PROVE IInv
  OBVIOUS
<1>1. TypeOK
  <2>1. 0 \in Versions /\ {} \in SUBSET Clients
    BY DEF Versions
  <2> QED
    BY <2>1 DEF Init, TypeOK, Working, Sender, Reporter, NoSender, NoReporter, Content, Nothing
<1>2. \A n \in Changes, c \in Clients : ClientInv(c, n)
  BY DEF Init, ClientInv, Follows
<1> QED
  BY <1>1, <1>2 DEF IInv

(* Messages only make what a client has seen newer.                         *)
LEMMA DeliverGrows ==
  ASSUME TypeOK, NEW receivers \in SUBSET Clients, NEW content \in Content,
         Deliver(receivers, content)
  PROVE  /\ shown' \in [Clients -> Content]
         /\ newest' \in [Clients -> Content]
         /\ \A c \in Clients, n \in Changes : Seen(c, n) => Seen(c, n)'
         /\ \A c \in receivers, n \in Changes :
              content.list >= n /\ content.settings >= n => Seen(c, n)'
<1> USE VersionTypes DEF TypeOK
<1>1. \A a, b \in Versions : Later(a, b) \in Versions /\ Later(a, b) >= a /\ Later(a, b) >= b
  BY DEF Later
<1>2. \A c \in Clients : newest[c].list \in Versions /\ newest[c].settings \in Versions
  BY DEF Content
<1>3. content.list \in Versions /\ content.settings \in Versions
  BY DEF Content
<1>4. shown' \in [Clients -> Content]
  BY DEF Deliver
<1>5. newest' \in [Clients -> Content]
  BY <1>1, <1>2, <1>3 DEF Deliver, Content
<1>6. \A c \in Clients :
        /\ newest'[c].list >= newest[c].list /\ newest'[c].settings >= newest[c].settings
        /\ newest'[c].list \in Versions /\ newest'[c].settings \in Versions
        /\ c \in receivers => newest'[c].list >= content.list /\ newest'[c].settings >= content.settings
  <2> TAKE c \in Clients
  <2>1. CASE c \in receivers
    <3>1. newest'[c] = [list |-> Later(newest[c].list, content.list),
                        settings |-> Later(newest[c].settings, content.settings)]
      BY <2>1 DEF Deliver
    <3>2. /\ newest'[c].list = Later(newest[c].list, content.list)
          /\ newest'[c].settings = Later(newest[c].settings, content.settings)
      BY <3>1
    <3> QED
      BY <3>2, <1>1, <1>2, <1>3
  <2>2. CASE c \notin receivers
    <3>1. newest'[c] = newest[c]
      BY <2>2 DEF Deliver
    <3> QED
      BY <2>2, <3>1, <1>2
  <2> QED
    BY <2>1, <2>2
<1>7. ASSUME NEW c \in Clients, NEW n \in Changes, Seen(c, n) PROVE Seen(c, n)'
  BY <1>2, <1>6, <1>7 DEF Seen
<1>8. ASSUME NEW c \in receivers, NEW n \in Changes, content.list >= n /\ content.settings >= n
      PROVE  Seen(c, n)'
  BY <1>3, <1>6, <1>8 DEF Seen
<1> QED
  BY <1>4, <1>5, <1>7, <1>8

(* Whoever receives a message was meant and is connected.                   *)
LEMMA ReceiversAreConnected ==
  ASSUME NEW meant \in SUBSET Clients, NEW receivers \in Receivers(meant)
  PROVE  receivers \in SUBSET Clients /\ receivers \subseteq meant \cap online
BY DEF Receivers

(* A goroutine works only on a change that was made.                        *)
LEMMA WorkIsOnChanges ==
  ASSUME TypeOK, NEW n \in Changes, Working(n) PROVE n <= version
BY VersionTypes DEF TypeOK

-----------------------------------------------------------------------------
(* Types.                                                                   *)

(* The new change is the only one that becomes work.                        *)
LEMMA CommitKeepsTypes ==
  ASSUME TypeOK, NEW members \in SUBSET Users, Commit(members)
  PROVE  TypeOK'
<1> USE VersionTypes DEF TypeOK
<1>1. version + 1 \in Changes /\ version' = version + 1 /\ version' \in Versions
  BY DEF Commit
<1>2. since' \in [Clients -> Versions]
  BY DEF Commit
<1>3. method' \in [Changes -> {"none", "committed", "done"}]
  BY <1>1 DEF Commit
<1>4. overlap' \in SUBSET Clients /\ queue' \in SUBSET Users
  BY DEF Commit
<1>5. \A n \in Changes : n > version' => ~Working(n)'
  <2> TAKE n \in Changes
  <2>1. n # version + 1 => (Working(n)' <=> Working(n))
    BY <1>1 DEF Commit, Working
  <2>2. n > version' => n > version /\ n # version + 1
    BY <1>1
  <2> QED
    BY <2>1, <2>2
<1> QED
  BY <1>1, <1>2, <1>3, <1>4, <1>5 DEF Commit

(* A step of change n is work on it, and no work on any other.              *)
LEMMA StepIsWork ==
  ASSUME TypeOK, NEW n \in Changes, Step(n)
  PROVE  /\ Working(n) /\ n <= version
         /\ \A m \in Changes \ {n} :
              /\ method'[m] = method[m] /\ sender'[m] = sender[m] /\ reporter'[m] = reporter[m]
              /\ missed'[m] = missed[m]
         /\ missed[n] \subseteq missed'[n]
         /\ UNCHANGED <<version, queue, online, since, overlap>>
<1>1. Working(n)
  BY DEF Step, Working, BroadcastQueueUpdate, MethodPanics, ReadPositions, PositionsBreakOff, SendPosition, EndPositions,
         FailPositions, ReadQueue, QueueBreaksOff, ReadSettings, SendState, FailState
<1>2. n <= version
  BY <1>1, WorkIsOnChanges
<1>3. \A m \in Changes \ {n} :
        method'[m] = method[m] /\ sender'[m] = sender[m] /\ reporter'[m] = reporter[m]
  BY DEF TypeOK, Step, BroadcastQueueUpdate, MethodPanics, ReadPositions, PositionsBreakOff, SendPosition, EndPositions,
         FailPositions, ReadQueue, QueueBreaksOff, ReadSettings, SendState, FailState
<1>4. /\ \A m \in Changes \ {n} : missed'[m] = missed[m]
      /\ missed[n] \subseteq missed'[n]
  <2>1. missed \in [Changes -> SUBSET Clients]
    BY DEF TypeOK
  <2>2. ASSUME NEW more, missed' = [missed EXCEPT ![n] = more], missed[n] \subseteq more
        PROVE  (\A m \in Changes \ {n} : missed'[m] = missed[m]) /\ missed[n] \subseteq missed'[n]
    BY <2>1, <2>2
  <2>3. CASE MethodPanics(n)
    BY <2>1, <2>2, <2>3 DEF MethodPanics
  <2>4. CASE FailPositions(n) \/ FailState(n) \/ PositionsBreakOff(n) \/ QueueBreaksOff(n)
    <3>1. missed' = [missed EXCEPT ![n] = missed[n] \cup Users]
          \/ missed' = [missed EXCEPT ![n] = missed[n] \cup Admins]
      BY <2>4 DEF FailPositions, FailState, PositionsBreakOff, QueueBreaksOff
    <3> QED
      BY <2>2, <3>1
  <2>5. ASSUME NEW u \in Users, SendPosition(n, u)
        PROVE  (\A m \in Changes \ {n} : missed'[m] = missed[m]) /\ missed[n] \subseteq missed'[n]
    <3>1. PICK receivers : missed' = [missed EXCEPT ![n] = missed[n] \cup (({u} \cap online) \ receivers)]
      BY <2>5 DEF SendPosition
    <3> QED
      BY <2>2, <3>1
  <2>6. CASE SendState(n)
    <3>1. PICK receivers : missed' = [missed EXCEPT ![n] = missed[n] \cup ((Admins \cap online) \ receivers)]
      BY <2>6 DEF SendState
    <3> QED
      BY <2>2, <3>1
  <2>7. UNCHANGED missed \/ MethodPanics(n) \/ FailPositions(n) \/ FailState(n)
        \/ PositionsBreakOff(n) \/ QueueBreaksOff(n)
        \/ (\E u \in Users : SendPosition(n, u)) \/ SendState(n)
    BY DEF Step, BroadcastQueueUpdate, ReadPositions, EndPositions, ReadQueue, ReadSettings
  <2> QED
    BY <2>3, <2>4, <2>5, <2>6, <2>7
<1>5. UNCHANGED <<version, queue, online, since, overlap>>
  BY DEF Step, BroadcastQueueUpdate, MethodPanics, ReadPositions, PositionsBreakOff, SendPosition, EndPositions,
         FailPositions, ReadQueue, QueueBreaksOff, ReadSettings, SendState, FailState
<1> QED
  BY <1>1, <1>2, <1>3, <1>4, <1>5

(* Types, when a method or a goroutine of change n takes a step.            *)
LEMMA StepKeepsTypes ==
  ASSUME TypeOK, NEW n \in Changes, Step(n)
  PROVE  TypeOK'
<1> USE VersionTypes DEF TypeOK
<1>1. \A m \in Changes : m > version' => ~Working(m)'
  <2> TAKE m \in Changes
  <2>1. n <= version /\ version' = version
    BY StepIsWork
  <2>2. m # n => (Working(m)' <=> Working(m))
    BY StepIsWork DEF Working
  <2> QED
    BY <2>1, <2>2
<1>2. UNCHANGED <<version, queue, online, since, overlap>>
  BY StepIsWork
<1>3. CASE BroadcastQueueUpdate(n)
  <2>1. [sender[n] EXCEPT !.stage = "started"] \in Sender /\ [reporter[n] EXCEPT !.stage = "started"] \in Reporter
    BY RecordTypes
  <2>2. sender' \in [Changes -> Sender] /\ reporter' \in [Changes -> Reporter]
    BY <1>3, <2>1 DEF BroadcastQueueUpdate
  <2> QED
    BY <1>1, <1>2, <1>3, <2>2 DEF BroadcastQueueUpdate
<1>4. CASE MethodPanics(n)
  BY <1>1, <1>2, <1>4 DEF MethodPanics
<1>5. CASE ReadPositions(n) \/ PositionsBreakOff(n) \/ EndPositions(n) \/ FailPositions(n)
  <2>1. PICK new \in Sender : sender' = [sender EXCEPT ![n] = new]
    <3>1. CASE ReadPositions(n)
      <4>1. [stage |-> "sending", list |-> version, to |-> queue] \in Sender
        BY RecordTypes
      <4> QED
        BY <1>5, <3>1, <4>1 DEF ReadPositions
    <3>2. CASE EndPositions(n)
      <4>1. [NoSender EXCEPT !.stage = "done"] \in Sender
        BY RecordTypes
      <4> QED
        BY <3>2, <4>1 DEF EndPositions
    <3>3. CASE FailPositions(n)
      <4>1. [sender[n] EXCEPT !.stage = "done"] \in Sender
        BY RecordTypes
      <4> QED
        BY <3>3, <4>1 DEF FailPositions
    <3>4. CASE PositionsBreakOff(n)
      <4>1. PICK part \in SUBSET queue :
              sender' = [sender EXCEPT ![n] = [stage |-> "sending", list |-> NoList, to |-> part]]
        BY <3>4 DEF PositionsBreakOff
      <4>2. 0 \in Versions /\ part \in SUBSET Users
        BY DEF Versions
      <4>3. [stage |-> "sending", list |-> NoList, to |-> part] \in Sender
        BY <4>2, RecordTypes
      <4> QED
        BY <4>1, <4>3
    <3> QED
      BY <1>5, <3>1, <3>2, <3>3, <3>4
  <2>2. sender' \in [Changes -> Sender]
    BY <2>1
  <2>3. missed' \in [Changes -> SUBSET Clients]
    BY <1>5 DEF ReadPositions, PositionsBreakOff, EndPositions, FailPositions, Clients
  <2> QED
    BY <1>1, <1>2, <1>5, <2>2, <2>3 DEF ReadPositions, PositionsBreakOff, EndPositions, FailPositions
<1>6. ASSUME NEW u \in Users, SendPosition(n, u) PROVE TypeOK'
  <2>1. PICK receivers \in Receivers({u}) :
          /\ Deliver(receivers, [list |-> sender[n].list, settings |-> sender[n].list])
          /\ missed' = [missed EXCEPT ![n] = @ \cup (({u} \cap online) \ receivers)]
    BY <1>6 DEF SendPosition
  <2>2. {u} \in SUBSET Clients
    BY DEF Clients
  <2>3. receivers \in SUBSET Clients
    BY <2>2, ReceiversAreConnected
  <2>4. sender[n].list \in Versions /\ [sender[n] EXCEPT !.to = @ \ {u}] \in Sender
    BY RecordTypes
  <2>5. [list |-> sender[n].list, settings |-> sender[n].list] \in Content
    BY <2>4 DEF Content
  <2>6. shown' \in [Clients -> Content] /\ newest' \in [Clients -> Content]
    BY <2>1, <2>3, <2>5, DeliverGrows
  <2>7. missed' \in [Changes -> SUBSET Clients]
    BY <2>1, <2>2
  <2>8. sender' = [sender EXCEPT ![n] = [sender[n] EXCEPT !.to = @ \ {u}]]
    BY <1>6 DEF SendPosition
  <2>9. sender' \in [Changes -> Sender]
    BY <2>4, <2>8
  <2> QED
    BY <1>1, <1>2, <1>6, <2>6, <2>7, <2>9 DEF SendPosition
<1>7. CASE ReadQueue(n) \/ QueueBreaksOff(n) \/ ReadSettings(n) \/ FailState(n)
  <2>1. PICK new \in Reporter : reporter' = [reporter EXCEPT ![n] = new]
    <3>1. CASE ReadQueue(n)
      <4>1. [stage |-> "listed", content |-> [Nothing EXCEPT !.list = version]] \in Reporter
        BY RecordTypes
      <4> QED
        BY <3>1, <4>1 DEF ReadQueue
    <3>2. CASE ReadSettings(n)
      <4>1. [reporter[n] EXCEPT !.stage = "sending", !.content.settings = version] \in Reporter
        BY RecordTypes
      <4>2. reporter' = [reporter EXCEPT ![n] = [reporter[n] EXCEPT !.stage = "sending", !.content.settings = version]]
        BY <3>2 DEF ReadSettings
      <4> QED
        BY <4>1, <4>2
    <3>3. CASE FailState(n)
      <4>1. [NoReporter EXCEPT !.stage = "done"] \in Reporter
        BY RecordTypes
      <4> QED
        BY <3>3, <4>1 DEF FailState
    <3>4. CASE QueueBreaksOff(n)
      <4>1. [stage |-> "listed", content |-> Nothing] \in Reporter
        BY RecordTypes
      <4> QED
        BY <3>4, <4>1 DEF QueueBreaksOff
    <3> QED
      BY <1>7, <3>1, <3>2, <3>3, <3>4
  <2>2. reporter' \in [Changes -> Reporter]
    BY <2>1
  <2>3. missed' \in [Changes -> SUBSET Clients]
    BY <1>7 DEF ReadQueue, QueueBreaksOff, ReadSettings, FailState, Clients
  <2> QED
    BY <1>1, <1>2, <1>7, <2>2, <2>3 DEF ReadQueue, QueueBreaksOff, ReadSettings, FailState
<1>8. CASE SendState(n)
  <2>1. PICK receivers \in Receivers(Admins) :
          /\ Deliver(receivers, reporter[n].content)
          /\ missed' = [missed EXCEPT ![n] = @ \cup ((Admins \cap online) \ receivers)]
    BY <1>8 DEF SendState
  <2>2. Admins \in SUBSET Clients
    BY DEF Clients
  <2>3. receivers \in SUBSET Clients
    BY <2>2, ReceiversAreConnected
  <2>4. shown' \in [Clients -> Content] /\ newest' \in [Clients -> Content]
    BY <2>1, <2>3, DeliverGrows, RecordTypes
  <2>5. missed' \in [Changes -> SUBSET Clients]
    BY <2>1, <2>2
  <2>6. [NoReporter EXCEPT !.stage = "done"] \in Reporter
    BY RecordTypes
  <2>7. reporter' \in [Changes -> Reporter]
    BY <1>8, <2>6 DEF SendState
  <2> QED
    BY <1>1, <1>2, <1>8, <2>4, <2>5, <2>7 DEF SendState
<1> QED
  BY <1>3, <1>4, <1>5, <1>6, <1>7, <1>8 DEF Step

(* Types, in any step.                                                      *)
LEMMA BroadcastsTypeStep == TypeOK /\ [Next]_vars => TypeOK'
<1> SUFFICES ASSUME TypeOK, [Next]_vars PROVE TypeOK'
  OBVIOUS
<1>1. CASE UNCHANGED vars
  BY <1>1 DEF vars, TypeOK, Working
<1>2. ASSUME NEW u \in Users, Join(u) \/ Depart(u) PROVE TypeOK'
  BY <1>2, CommitKeepsTypes DEF Join, Depart, TypeOK
<1>3. CASE ChangeStatusOrSettings
  BY <1>3, CommitKeepsTypes DEF ChangeStatusOrSettings, TypeOK
<1>4. ASSUME NEW n \in Changes, Step(n) PROVE TypeOK'
  BY <1>4, StepKeepsTypes
<1>5. ASSUME NEW c \in Clients, Connect(c) \/ Disconnect(c) PROVE TypeOK'
  <2>1. Nothing \in Content
    BY RecordTypes
  <2>0. 0 \in Versions
    BY VersionTypes DEF Versions
  <2>2. shown' \in [Clients -> Content] /\ newest' \in [Clients -> Content] /\ since' \in [Clients -> Versions]
    BY <1>5, <2>0, <2>1 DEF Connect, Disconnect, TypeOK
  <2>3. \A n \in Changes : Working(n)' <=> Working(n)
    BY <1>5 DEF Connect, Disconnect, Working
  <2> QED
    BY <1>5, <2>2, <2>3 DEF Connect, Disconnect, TypeOK
<1>6. CASE Restart
  <2>1. Nothing \in Content
    BY RecordTypes
  <2>0. 0 \in Versions
    BY VersionTypes DEF Versions
  <2>2. shown' \in [Clients -> Content] /\ newest' \in [Clients -> Content] /\ since' \in [Clients -> Versions]
    BY <1>6, <2>0, <2>1 DEF Restart
  <2>3. sender' \in [Changes -> Sender] /\ reporter' \in [Changes -> Reporter]
    BY <1>6, RecordTypes DEF Restart
  <2>4. \A n \in Changes : ~Working(n)'
    BY <1>6 DEF Restart, Working, NoSender, NoReporter
  <2> QED
    BY <1>6, <2>2, <2>3, <2>4 DEF Restart, TypeOK
<1> QED
  BY <1>1, <1>2, <1>3, <1>4, <1>5, <1>6 DEF Next

-----------------------------------------------------------------------------
(* What is owed.                                                            *)

(* A new change concerns more clients, but of the older changes only those  *)
(* that the client followed already: joining the queue counts from now.     *)
LEMMA CommitKeepsInv ==
  ASSUME IInv, NEW members \in SUBSET Users, Commit(members)
  PROVE  IInv'
<1> USE VersionTypes
<1>1. TypeOK /\ TypeOK'
  BY CommitKeepsTypes DEF IInv
<1>2. version + 1 \in Changes /\ version' = version + 1 /\ version \in Nat
  BY <1>1 DEF Commit, TypeOK
<1>3. ASSUME NEW n \in Changes, NEW c \in Clients PROVE ClientInv(c, n)'
  <2>1. CASE n = version + 1
    <3>1. method'[n] = "committed"
      BY <1>1, <1>2, <2>1 DEF Commit, TypeOK
    <3> QED
      BY <3>1 DEF ClientInv, Owed, OwedToUser, OwedToAdmin
  <2>2. CASE n # version + 1
    <3> SUFFICES ASSUME Follows(c, n)', c \notin missed'[n]
                 PROVE  Seen(c, n)' \/ Owed(c, n)'
      BY DEF ClientInv
    <3>1. n <= version
      BY <1>2, <2>2 DEF Follows
    <3>2. Follows(c, n)
      <4>1. c \in queue \cup Admins /\ since[c] < n
        <5>1. since'[c] = IF c \in members \ queue THEN version ELSE since[c]
          BY DEF Commit
        <5>2. since'[c] < n
          BY DEF Follows
        <5>3. c \notin members \ queue
          BY <1>2, <3>1, <5>1, <5>2
        <5>4. c \in members \cup Admins
          BY DEF Follows, Commit
        <5> QED
          BY <5>1, <5>2, <5>3, <5>4
      <4> QED
        BY <3>1, <4>1 DEF Follows, Commit
    <3>3. Seen(c, n) \/ Owed(c, n)
      BY <3>2 DEF IInv, ClientInv, Commit
    <3>4. Seen(c, n) => Seen(c, n)'
      BY DEF Seen, Commit
    <3>5. method'[n] = method[n]
      BY <1>1, <2>2 DEF Commit, TypeOK
    <3>6. Owed(c, n) => Owed(c, n)'
      BY <3>5 DEF Owed, OwedToUser, OwedToAdmin, Commit
    <3> QED
      BY <3>3, <3>4, <3>6
  <2> QED
    BY <2>1, <2>2
<1> QED
  BY <1>1, <1>3 DEF IInv

(* What a client has seen, it has seen, whatever comes later.               *)
LEMMA StepKeepsSeen ==
  ASSUME TypeOK, NEW n \in Changes, Step(n), NEW c \in Clients, NEW m \in Changes, Seen(c, m)
  PROVE  Seen(c, m)'
<1>1. CASE UNCHANGED newest
  BY <1>1 DEF Seen
<1>2. ASSUME NEW u \in Users, SendPosition(n, u) PROVE Seen(c, m)'
  <2>1. PICK receivers \in Receivers({u}) :
          Deliver(receivers, [list |-> sender[n].list, settings |-> sender[n].list])
    BY <1>2 DEF SendPosition
  <2>2. {u} \in SUBSET Clients
    BY DEF Clients
  <2>3. receivers \in SUBSET Clients
    BY <2>2, ReceiversAreConnected
  <2>4. sender[n].list \in Versions
    BY RecordTypes DEF TypeOK
  <2>5. [list |-> sender[n].list, settings |-> sender[n].list] \in Content
    BY <2>4 DEF Content
  <2> QED
    BY <2>1, <2>3, <2>5, DeliverGrows
<1>3. CASE SendState(n)
  <2>1. PICK receivers \in Receivers(Admins) : Deliver(receivers, reporter[n].content)
    BY <1>3 DEF SendState
  <2>2. Admins \in SUBSET Clients
    BY DEF Clients
  <2>3. receivers \in SUBSET Clients
    BY <2>2, ReceiversAreConnected
  <2>4. reporter[n].content \in Content
    BY RecordTypes DEF TypeOK
  <2> QED
    BY <2>1, <2>3, <2>4, DeliverGrows
<1> QED
  BY <1>1, <1>2, <1>3 DEF Step, BroadcastQueueUpdate, MethodPanics, ReadPositions, PositionsBreakOff, EndPositions,
     FailPositions, ReadQueue, QueueBreaksOff, ReadSettings, FailState

(* The steps of the method and of BroadcastPositionUpdates.                 *)
LEMMA UsersAreServed ==
  ASSUME TypeOK, NEW n \in Changes, Step(n), NEW c \in Users,
         Follows(c, n), OwedToUser(c, n), c \notin missed'[n]
  PROVE  Seen(c, n)' \/ OwedToUser(c, n)'
<1> USE VersionTypes DEF TypeOK
<1>1. n <= version /\ c \in queue /\ c \in online /\ c \in Clients /\ version \in Versions
  BY BroadcastsAssumption DEF Follows, Clients
<1>2. CASE BroadcastQueueUpdate(n)
  <2>1. sender'[n] = [sender[n] EXCEPT !.stage = "started"]
    BY <1>2 DEF BroadcastQueueUpdate
  <2>2. sender[n] \in Sender
    OBVIOUS
  <2>3. sender'[n].stage = "started"
    BY <2>1, <2>2 DEF Sender
  <2> QED
    BY <2>3 DEF OwedToUser
<1>3. CASE MethodPanics(n)
  BY <1>1, <1>3 DEF MethodPanics
<1>4. CASE ReadPositions(n)
  <2>1. sender'[n] = [stage |-> "sending", list |-> version, to |-> queue]
    BY <1>4 DEF ReadPositions
  <2>2. sender'[n].stage = "sending" /\ sender'[n].list = version /\ sender'[n].to = queue
    BY <2>1
  <2> QED
    BY <1>1, <2>2 DEF OwedToUser
<1>5. ASSUME NEW u \in Users, SendPosition(n, u) PROVE Seen(c, n)' \/ OwedToUser(c, n)'
  <2>0. sender[n] \in Sender /\ sender[n].list \in Versions
    BY RecordTypes
  <2>1. sender'[n] = [sender[n] EXCEPT !.to = @ \ {u}]
    BY <1>5 DEF SendPosition
  <2>2. sender'[n].stage = sender[n].stage /\ sender'[n].list = sender[n].list /\ sender'[n].to = sender[n].to \ {u}
    BY <2>0, <2>1 DEF Sender
  <2>3. PICK receivers \in Receivers({u}) :
          /\ Deliver(receivers, [list |-> sender[n].list, settings |-> sender[n].list])
          /\ missed' = [missed EXCEPT ![n] = @ \cup (({u} \cap online) \ receivers)]
    BY <1>5 DEF SendPosition
  <2>4. CASE c # u
    BY <1>5, <2>2, <2>4 DEF OwedToUser, SendPosition
  <2>5. CASE c = u /\ method[n] = "committed"
    BY <1>5, <2>5 DEF OwedToUser, SendPosition
  <2>6. CASE c = u /\ method[n] # "committed"
    <3>1. sender[n].list >= n
      BY <1>5, <2>6 DEF OwedToUser, SendPosition
    <3>2. c \in receivers
      BY <1>1, <2>3, <2>6
    <3>3. {u} \in SUBSET Clients
      BY DEF Clients
    <3>4. receivers \in SUBSET Clients
      BY <3>3, ReceiversAreConnected
    <3> DEFINE content == [list |-> sender[n].list, settings |-> sender[n].list]
    <3>5. content \in Content /\ content.list >= n /\ content.settings >= n
      BY <2>0, <3>1 DEF Content
    <3>6. Deliver(receivers, content)
      BY <2>3
    <3> HIDE DEF content
    <3>7. Seen(c, n)'
      BY <3>2, <3>4, <3>5, <3>6, DeliverGrows
    <3> QED
      BY <3>7
  <2> QED
    BY <2>4, <2>5, <2>6
<1>6. CASE EndPositions(n)
  <2>1. method[n] = "committed"
    BY <1>6 DEF EndPositions, OwedToUser
  <2> QED
    BY <1>6, <2>1 DEF EndPositions, OwedToUser
<1>7. CASE FailPositions(n) \/ PositionsBreakOff(n)
  BY <1>7 DEF FailPositions, PositionsBreakOff
<1>8. CASE ReadQueue(n) \/ QueueBreaksOff(n) \/ ReadSettings(n) \/ SendState(n) \/ FailState(n)
  BY <1>8 DEF ReadQueue, QueueBreaksOff, ReadSettings, SendState, FailState, OwedToUser
<1> QED
  BY <1>2, <1>3, <1>4, <1>5, <1>6, <1>7, <1>8 DEF Step

(* The steps of the method and of BroadcastQueueStateToAdmins.              *)
LEMMA AdminsAreServed ==
  ASSUME TypeOK, NEW n \in Changes, Step(n), NEW c \in Admins,
         Follows(c, n), OwedToAdmin(n), c \notin missed'[n]
  PROVE  Seen(c, n)' \/ OwedToAdmin(n)'
<1> USE VersionTypes DEF TypeOK
<1>1. n <= version /\ c \in online /\ c \in Clients /\ version \in Versions
  BY DEF Follows, Clients
<1>2. reporter[n] \in Reporter /\ reporter[n].content \in Content
  BY RecordTypes
<1>3. CASE BroadcastQueueUpdate(n)
  <2>1. reporter'[n] = [reporter[n] EXCEPT !.stage = "started"]
    BY <1>3 DEF BroadcastQueueUpdate
  <2>2. reporter'[n].stage = "started"
    BY <1>2, <2>1 DEF Reporter
  <2> QED
    BY <2>2 DEF OwedToAdmin
<1>4. CASE MethodPanics(n)
  BY <1>1, <1>4 DEF MethodPanics
<1>5. CASE ReadQueue(n)
  <2>1. reporter'[n] = [stage |-> "listed", content |-> [Nothing EXCEPT !.list = version]]
    BY <1>5 DEF ReadQueue
  <2>2. reporter'[n].stage = "listed" /\ reporter'[n].content.list = version
    BY <2>1 DEF Nothing
  <2> QED
    BY <1>1, <2>2 DEF OwedToAdmin
<1>6. CASE ReadSettings(n)
  <2>1. reporter'[n] = [reporter[n] EXCEPT !.stage = "sending", !.content.settings = version]
    BY <1>6 DEF ReadSettings
  <2>2. /\ reporter'[n].stage = "sending" /\ reporter'[n].content.list = reporter[n].content.list
        /\ reporter'[n].content.settings = version
    BY <1>2, <2>1 DEF Reporter, Content
  <2> QED
    BY <1>1, <1>6, <2>2 DEF OwedToAdmin, ReadSettings
<1>7. CASE SendState(n)
  <2>1. CASE method[n] = "committed"
    BY <1>7, <2>1 DEF SendState, OwedToAdmin
  <2>2. CASE method[n] # "committed"
    <3>1. reporter[n].content.list >= n /\ reporter[n].content.settings >= n
      BY <1>7, <2>2 DEF SendState, OwedToAdmin
    <3>2. PICK receivers \in Receivers(Admins) :
            /\ Deliver(receivers, reporter[n].content)
            /\ missed' = [missed EXCEPT ![n] = @ \cup ((Admins \cap online) \ receivers)]
      BY <1>7 DEF SendState
    <3>3. c \in receivers
      BY <1>1, <3>2
    <3>4. Admins \in SUBSET Clients
      BY DEF Clients
    <3>5. receivers \in SUBSET Clients
      BY <3>4, ReceiversAreConnected
    <3>6. Seen(c, n)'
      BY <1>2, <3>1, <3>2, <3>3, <3>5, DeliverGrows
    <3> QED
      BY <3>6
  <2> QED
    BY <2>1, <2>2
<1>8. CASE FailState(n) \/ QueueBreaksOff(n)
  BY <1>8 DEF FailState, QueueBreaksOff
<1>9. CASE ReadPositions(n) \/ PositionsBreakOff(n) \/ EndPositions(n) \/ FailPositions(n) \/ \E u \in Users : SendPosition(n, u)
  BY <1>9 DEF ReadPositions, PositionsBreakOff, EndPositions, FailPositions, SendPosition, OwedToAdmin
<1> QED
  BY <1>3, <1>4, <1>5, <1>6, <1>7, <1>8, <1>9 DEF Step

(* A step of change n serves its own clients and takes nothing from others. *)
LEMMA StepKeepsInv ==
  ASSUME IInv, NEW n \in Changes, Step(n)
  PROVE  IInv'
<1>1. TypeOK /\ TypeOK'
  BY StepKeepsTypes DEF IInv
<1>2. ASSUME NEW m \in Changes, NEW c \in Clients PROVE ClientInv(c, m)'
  <2> SUFFICES ASSUME Follows(c, m)', c \notin missed'[m]
               PROVE  Seen(c, m)' \/ Owed(c, m)'
    BY DEF ClientInv
  <2>1. Follows(c, m)
    BY <1>1, StepIsWork DEF Follows
  <2>2. c \notin missed[m]
    BY <1>1, StepIsWork
  <2>3. Seen(c, m) \/ Owed(c, m)
    BY <2>1, <2>2 DEF IInv, ClientInv
  <2>4. CASE Seen(c, m)
    BY <1>1, <2>4, StepKeepsSeen
  <2>5. CASE Owed(c, m) /\ m # n
    BY <1>1, <2>5, StepIsWork DEF Owed, OwedToUser, OwedToAdmin
  <2>6. CASE Owed(c, m) /\ m = n /\ c \in Admins
    BY <1>1, <2>1, <2>6, AdminsAreServed DEF Owed
  <2>7. CASE Owed(c, m) /\ m = n /\ c \notin Admins
    <3>1. c \in Users
      BY <2>7 DEF Clients
    <3> QED
      BY <1>1, <2>1, <2>7, <3>1, UsersAreServed DEF Owed
  <2> QED
    BY <2>3, <2>4, <2>5, <2>6, <2>7
<1> QED
  BY <1>1, <1>2 DEF IInv

(* A client that connects again, or goes, follows no change made before.    *)
LEMMA ConnectionsKeepInv ==
  ASSUME IInv, TypeOK', NEW c \in Clients, Connect(c) \/ Disconnect(c)
  PROVE  IInv'
<1>1. TypeOK
  BY DEF IInv
<1>2. ASSUME NEW n \in Changes, NEW d \in Clients PROVE ClientInv(d, n)'
  <2>1. CASE d = c
    <3>1. CASE Connect(c)
      <4>1. since'[d] = version /\ version' = version
        BY <1>1, <2>1, <3>1 DEF Connect, TypeOK
      <4>2. ~Follows(d, n)'
        BY <1>1, <4>1, VersionTypes DEF Follows, TypeOK
      <4> QED
        BY <4>2 DEF ClientInv
    <3>2. CASE Disconnect(c)
      BY <2>1, <3>2 DEF Disconnect, ClientInv, Follows
    <3> QED
      BY <3>1, <3>2
  <2>2. CASE d # c
    <3>1. /\ newest'[d] = newest[d] /\ since'[d] = since[d] /\ (d \in online' <=> d \in online)
          /\ UNCHANGED <<version, queue, method, sender, reporter, missed>>
      BY <1>1, <2>2 DEF Connect, Disconnect, TypeOK
    <3>2. ClientInv(d, n)
      BY DEF IInv
    <3> QED
      BY <3>1, <3>2 DEF ClientInv, Follows, Seen, Owed, OwedToUser, OwedToAdmin
  <2> QED
    BY <2>1, <2>2
<1> QED
  BY <1>2 DEF IInv

(* The invariant is inductive.                                              *)
LEMMA BroadcastsKeepInv == IInv /\ [Next]_vars => IInv'
<1> SUFFICES ASSUME IInv, [Next]_vars PROVE IInv'
  OBVIOUS
<1>1. TypeOK /\ TypeOK'
  BY BroadcastsTypeStep DEF IInv
<1>2. CASE UNCHANGED vars
  BY <1>1, <1>2 DEF vars, IInv, ClientInv, Follows, Seen, Owed, OwedToUser, OwedToAdmin
<1>3. ASSUME NEW u \in Users, Join(u) \/ Depart(u) PROVE IInv'
  BY <1>1, <1>3, CommitKeepsInv DEF Join, Depart, TypeOK
<1>4. CASE ChangeStatusOrSettings
  BY <1>1, <1>4, CommitKeepsInv DEF ChangeStatusOrSettings, TypeOK
<1>5. ASSUME NEW n \in Changes, Step(n) PROVE IInv'
  BY <1>5, StepKeepsInv
<1>6. ASSUME NEW c \in Clients, Connect(c) \/ Disconnect(c) PROVE IInv'
  BY <1>1, <1>6, ConnectionsKeepInv
<1>7. CASE Restart
  BY <1>1, <1>7 DEF Restart, IInv, ClientInv, Follows
<1> QED
  BY <1>2, <1>3, <1>4, <1>5, <1>6, <1>7 DEF Next

-----------------------------------------------------------------------------
(* What is shown last.                                                      *)

(* Nothing read or seen is newer than the last change.                      *)
ReadInv ==
  \A n \in Changes :
    sender[n].list <= version /\ reporter[n].content.list <= version /\ reporter[n].content.settings <= version

BoundInv == \A c \in Clients : newest[c].list <= version /\ newest[c].settings <= version

(* For a client to whom nothing older was under way when the last change    *)
(* came, only what was read since is: it is as of this change, or breaks    *)
(* off.                                                                     *)
LastInv ==
  \A n \in Changes, c \in Clients \ overlap :
    /\ sender[n].stage = "sending" /\ c \in sender[n].to => sender[n].list \in {version, NoList}
    /\ c \in Admins =>
         /\ reporter[n].stage \in {"listed", "sending"} => reporter[n].content.list \in {version, NoList}
         /\ reporter[n].stage = "sending" => reporter[n].content.settings = version

(* Of such a message, and of no message.                                    *)
ShowsLast(content) ==
  content = [list |-> version, settings |-> version] \/ content.list = NoList

(* Then a client that has seen the last change is shown it.                 *)
ShownInv == \A c \in Clients \ overlap : newest[c].list = version => ShowsLast(shown[c])

CurrentInv == TypeOK /\ ReadInv /\ BoundInv /\ LastInv /\ ShownInv

(* A message that is as of the last change where that counts.               *)
LEMMA DeliverShows ==
  ASSUME CurrentInv, UNCHANGED <<version, overlap>>,
         NEW receivers \in SUBSET Clients, NEW content \in Content, Deliver(receivers, content),
         content.list <= version, content.settings <= version,
         receivers \ overlap # {} => ShowsLast(content)
  PROVE  BoundInv' /\ ShownInv'
<1> USE VersionTypes
<1>1. /\ version \in Nat /\ content.list \in Nat /\ content.settings \in Nat
      /\ \A c \in Clients : newest[c].list \in Nat /\ newest[c].settings \in Nat
  BY DEF CurrentInv, TypeOK, Content
<1>2. ASSUME NEW c \in receivers
      PROVE  /\ newest'[c].list <= version /\ newest'[c].settings <= version
             /\ shown'[c] = content
  <2>1. newest'[c] = [list |-> Later(newest[c].list, content.list),
                      settings |-> Later(newest[c].settings, content.settings)]
    BY <1>2 DEF Deliver
  <2>2. newest[c].list <= version /\ newest[c].settings <= version
    BY DEF CurrentInv, BoundInv
  <2>3. shown'[c] = content
    BY DEF Deliver
  <2> QED
    BY <2>1, <2>2, <2>3 DEF Later
<1>3. ASSUME NEW c \in Clients \ receivers
      PROVE  newest'[c] = newest[c] /\ shown'[c] = shown[c]
  BY DEF Deliver
<1>4. BoundInv'
  BY <1>2, <1>3 DEF CurrentInv, BoundInv
<1>5. ShownInv'
  BY <1>2, <1>3 DEF CurrentInv, ShownInv, ShowsLast
<1> QED
  BY <1>4, <1>5

(* What the goroutines of change n read is as of now.                       *)
LEMMA StepReadsNow ==
  ASSUME CurrentInv, NEW n \in Changes, Step(n)
  PROVE  ReadInv' /\ LastInv'
<1> USE VersionTypes
<1>1. TypeOK /\ version \in Nat
  BY DEF CurrentInv, TypeOK
<1>2. /\ Working(n) /\ UNCHANGED <<version, overlap>>
      /\ \A m \in Changes \ {n} :
           method'[m] = method[m] /\ sender'[m] = sender[m] /\ reporter'[m] = reporter[m]
  BY <1>1, StepIsWork
<1>3. /\ sender[n].list <= version
      /\ reporter[n].content.list <= version /\ reporter[n].content.settings <= version
  BY DEF CurrentInv, ReadInv
<1>4. /\ sender'[n].list <= version
      /\ sender'[n].stage = "sending" =>
           \/ sender'[n].list \in {version, NoList}
           \/ /\ sender[n].stage = "sending"
              /\ sender'[n].list = sender[n].list /\ sender'[n].to \subseteq sender[n].to
  <2>1. \/ sender'[n] = sender[n]
        \/ sender'[n] = [sender[n] EXCEPT !.stage = "started"]
        \/ sender'[n] = [stage |-> "sending", list |-> version, to |-> queue]
        \/ \E part \in SUBSET queue : sender'[n] = [stage |-> "sending", list |-> NoList, to |-> part]
        \/ sender[n].stage = "sending" /\ \E u \in Users : sender'[n] = [sender[n] EXCEPT !.to = @ \ {u}]
        \/ sender'[n] = [NoSender EXCEPT !.stage = "done"]
        \/ sender'[n] = [sender[n] EXCEPT !.stage = "done"]
    BY <1>1 DEF TypeOK, Step, BroadcastQueueUpdate, MethodPanics, ReadPositions, PositionsBreakOff,
       SendPosition, EndPositions, FailPositions, ReadQueue, QueueBreaksOff, ReadSettings, SendState, FailState
  <2>2. sender[n] \in Sender
    BY <1>1 DEF TypeOK
  <2>3. \/ /\ sender'[n].stage = sender[n].stage /\ sender'[n].list = sender[n].list
           /\ sender'[n].to \subseteq sender[n].to
        \/ sender'[n].stage # "sending" /\ sender'[n].list \in {0, sender[n].list}
        \/ sender'[n].stage = "sending" /\ sender'[n].list \in {version, NoList}
    <3>1. CASE sender'[n] = sender[n]
      BY <3>1
    <3>2. ASSUME NEW stage \in {"started", "done"}, sender'[n] = [sender[n] EXCEPT !.stage = stage]
          PROVE  sender'[n].stage # "sending" /\ sender'[n].list = sender[n].list
      BY <2>2, <3>2 DEF Sender
    <3>3. CASE sender'[n] = [stage |-> "sending", list |-> version, to |-> queue]
      BY <3>3
    <3>4. ASSUME NEW u \in Users, sender'[n] = [sender[n] EXCEPT !.to = @ \ {u}]
          PROVE  /\ sender'[n].stage = sender[n].stage /\ sender'[n].list = sender[n].list
                 /\ sender'[n].to \subseteq sender[n].to
      BY <2>2, <3>4 DEF Sender
    <3>5. ASSUME sender'[n] = [NoSender EXCEPT !.stage = "done"]
          PROVE  sender'[n].stage # "sending" /\ sender'[n].list = 0
      BY <3>5 DEF NoSender
    <3>6. ASSUME NEW part \in SUBSET queue, sender'[n] = [stage |-> "sending", list |-> NoList, to |-> part]
          PROVE  sender'[n].stage = "sending" /\ sender'[n].list = NoList
      BY <3>6
    <3> QED
      BY <2>1, <3>1, <3>2, <3>3, <3>4, <3>5, <3>6
  <2> QED
    BY <1>1, <1>3, <2>3
<1>5. /\ reporter'[n].content.list <= version /\ reporter'[n].content.settings <= version
      /\ reporter'[n].stage \in {"listed", "sending"} =>
           \/ reporter'[n].content.list \in {version, NoList}
           \/ /\ reporter[n].stage \in {"listed", "sending"}
              /\ reporter'[n].content.list = reporter[n].content.list
      /\ reporter'[n].stage = "sending" =>
           \/ reporter'[n].content.settings = version
           \/ reporter[n].stage = "sending" /\ reporter'[n].content.settings = reporter[n].content.settings
  <2>1. \/ reporter'[n] = reporter[n]
        \/ reporter'[n] = [reporter[n] EXCEPT !.stage = "started"]
        \/ reporter'[n] = [stage |-> "listed", content |-> [Nothing EXCEPT !.list = version]]
        \/ reporter'[n] = [stage |-> "listed", content |-> Nothing]
        \/ /\ reporter[n].stage = "listed"
           /\ reporter'[n] = [reporter[n] EXCEPT !.stage = "sending", !.content.settings = version]
        \/ reporter'[n] = [NoReporter EXCEPT !.stage = "done"]
    <3>1. reporter \in [Changes -> Reporter]
      BY <1>1 DEF TypeOK
    <3>2. ASSUME ReadSettings(n)
          PROVE  /\ reporter[n].stage = "listed"
                 /\ reporter'[n] = [reporter[n] EXCEPT !.stage = "sending", !.content.settings = version]
      <4>1. reporter' = [reporter EXCEPT ![n] = [reporter[n] EXCEPT !.stage = "sending", !.content.settings = version]]
        BY <3>2 DEF ReadSettings
      <4> QED
        BY <3>1, <3>2, <4>1 DEF ReadSettings
    <3>3. ASSUME ~ReadSettings(n)
          PROVE  \/ reporter'[n] = reporter[n]
                 \/ reporter'[n] = [reporter[n] EXCEPT !.stage = "started"]
                 \/ reporter'[n] = [stage |-> "listed", content |-> [Nothing EXCEPT !.list = version]]
                 \/ reporter'[n] = [stage |-> "listed", content |-> Nothing]
                 \/ reporter'[n] = [NoReporter EXCEPT !.stage = "done"]
      BY <3>1, <3>3 DEF Step, BroadcastQueueUpdate, MethodPanics, ReadPositions, PositionsBreakOff,
         SendPosition, EndPositions, FailPositions, ReadQueue, QueueBreaksOff, SendState, FailState
    <3> QED
      BY <3>2, <3>3
  <2>2. reporter[n] \in Reporter /\ version \in Versions
    BY <1>1 DEF TypeOK
  <2>3. \/ reporter'[n].stage = reporter[n].stage /\ reporter'[n].content = reporter[n].content
        \/ reporter'[n].stage = "started" /\ reporter'[n].content = reporter[n].content
        \/ /\ reporter'[n].stage = "listed"
           /\ reporter'[n].content.list \in {version, NoList} /\ reporter'[n].content.settings = 0
        \/ /\ reporter[n].stage = "listed" /\ reporter'[n].stage = "sending"
           /\ reporter'[n].content.list = reporter[n].content.list /\ reporter'[n].content.settings = version
        \/ /\ reporter'[n].stage = "done"
           /\ reporter'[n].content.list = 0 /\ reporter'[n].content.settings = 0
    <3>1. CASE reporter'[n] = reporter[n]
      BY <3>1
    <3>2. ASSUME reporter'[n] = [reporter[n] EXCEPT !.stage = "started"]
          PROVE  reporter'[n].stage = "started" /\ reporter'[n].content = reporter[n].content
      BY <2>2, <3>2 DEF Reporter
    <3>3. ASSUME reporter'[n] = [stage |-> "listed", content |-> [Nothing EXCEPT !.list = version]]
          PROVE  /\ reporter'[n].stage = "listed"
                 /\ reporter'[n].content.list = version /\ reporter'[n].content.settings = 0
      BY <3>3 DEF Nothing
    <3>4. ASSUME reporter[n].stage = "listed",
                 reporter'[n] = [reporter[n] EXCEPT !.stage = "sending", !.content.settings = version]
          PROVE  /\ reporter[n].stage = "listed" /\ reporter'[n].stage = "sending"
                 /\ reporter'[n].content.list = reporter[n].content.list
                 /\ reporter'[n].content.settings = version
      BY <2>2, <3>4 DEF Reporter, Content
    <3>5. ASSUME reporter'[n] = [NoReporter EXCEPT !.stage = "done"]
          PROVE  /\ reporter'[n].stage = "done"
                 /\ reporter'[n].content.list = 0 /\ reporter'[n].content.settings = 0
      BY <3>5 DEF NoReporter, Nothing
    <3>6. ASSUME reporter'[n] = [stage |-> "listed", content |-> Nothing]
          PROVE  /\ reporter'[n].stage = "listed"
                 /\ reporter'[n].content.list = NoList /\ reporter'[n].content.settings = 0
      BY <3>6 DEF Nothing
    <3> QED
      BY <2>1, <3>1, <3>2, <3>3, <3>4, <3>5, <3>6
  <2> QED
    BY <1>1, <1>3, <2>3
<1>6. ReadInv'
  BY <1>2, <1>4, <1>5 DEF CurrentInv, ReadInv
<1>7. LastInv'
  <2>1. LastInv
    BY DEF CurrentInv
  <2> QED
    BY <1>2, <1>4, <1>5, <2>1 DEF LastInv
<1> QED
  BY <1>2, <1>6, <1>7

(* So what they send is not older than what a client is shown.              *)
LEMMA StepKeepsCurrent ==
  ASSUME CurrentInv, NEW n \in Changes, Step(n)
  PROVE  CurrentInv'
<1>1. TypeOK /\ TypeOK'
  BY StepKeepsTypes DEF CurrentInv
<1>2. UNCHANGED <<version, overlap>>
  BY <1>1, StepIsWork
<1>3. ReadInv' /\ LastInv'
  BY StepReadsNow
<1>4. BoundInv' /\ ShownInv'
  <2>1. CASE UNCHANGED <<newest, shown>>
    BY <1>2, <2>1 DEF CurrentInv, BoundInv, ShownInv, ShowsLast
  <2>2. ASSUME NEW u \in Users, SendPosition(n, u) PROVE BoundInv' /\ ShownInv'
    <3> DEFINE content == [list |-> sender[n].list, settings |-> sender[n].list]
    <3>1. PICK receivers \in Receivers({u}) : Deliver(receivers, content)
      BY <2>2 DEF SendPosition
    <3>2. {u} \in SUBSET Clients
      BY DEF Clients
    <3>3. receivers \in SUBSET Clients
      BY <3>2, ReceiversAreConnected
    <3>4. sender[n].list \in Versions
      BY <1>1, RecordTypes DEF TypeOK
    <3>5. content \in Content /\ content.list = sender[n].list /\ content.settings = sender[n].list
      BY <3>4 DEF Content
    <3>6. /\ sender[n].list <= version
          /\ u \notin overlap => sender[n].list \in {version, NoList}
      BY <2>2 DEF SendPosition, CurrentInv, ReadInv, LastInv, Clients
    <3>8. receivers \subseteq {u}
      BY <3>2, ReceiversAreConnected
    <3>7. receivers \ overlap # {} => ShowsLast(content)
      BY <3>6, <3>8 DEF ShowsLast
    <3> HIDE DEF content
    <3> QED
      BY <1>2, <3>1, <3>3, <3>5, <3>6, <3>7, DeliverShows
  <2>3. CASE SendState(n)
    <3> DEFINE content == reporter[n].content
    <3>1. PICK receivers \in Receivers(Admins) : Deliver(receivers, content)
      BY <2>3 DEF SendState
    <3>2. Admins \in SUBSET Clients
      BY DEF Clients
    <3>3. receivers \in SUBSET Clients
      BY <3>2, ReceiversAreConnected
    <3>4. content \in Content
      BY <1>1, RecordTypes DEF TypeOK
    <3>5. /\ content.list <= version /\ content.settings <= version
          /\ Admins \ overlap # {} => content.list \in {version, NoList} /\ content.settings = version
      BY <2>3 DEF SendState, CurrentInv, ReadInv, LastInv, Clients
    <3>7. receivers \subseteq Admins
      BY <3>2, ReceiversAreConnected
    <3>6. receivers \ overlap # {} => ShowsLast(content)
      BY <3>4, <3>5, <3>7 DEF Content, ShowsLast
    <3> HIDE DEF content
    <3> QED
      BY <1>2, <3>1, <3>3, <3>4, <3>5, <3>6, DeliverShows
  <2> QED
    BY <2>1, <2>2, <2>3 DEF Step, BroadcastQueueUpdate, MethodPanics, ReadPositions, PositionsBreakOff, EndPositions,
       FailPositions, ReadQueue, QueueBreaksOff, ReadSettings, FailState
<1> QED
  BY <1>1, <1>3, <1>4 DEF CurrentInv

(* A new change is one that nobody has read or seen, and whoever has older  *)
(* messages to come is in overlap.                                          *)
LEMMA CommitKeepsCurrent ==
  ASSUME CurrentInv, NEW members \in SUBSET Users, Commit(members)
  PROVE  CurrentInv'
<1> USE VersionTypes
<1>1. TypeOK /\ TypeOK'
  BY CommitKeepsTypes DEF CurrentInv
<1>2. /\ version' = version + 1 /\ version \in Nat
      /\ UNCHANGED <<sender, reporter, shown, newest>>
  BY <1>1 DEF Commit, TypeOK
<1>3. /\ \A c \in Clients : newest[c].list \in Nat /\ newest[c].settings \in Nat
      /\ \A n \in Changes : /\ sender[n].list \in Nat
                            /\ reporter[n].content.list \in Nat /\ reporter[n].content.settings \in Nat
  BY <1>1 DEF TypeOK, Content, Sender, Reporter
<1>4. ReadInv' /\ BoundInv' /\ ShownInv'
  BY <1>2, <1>3 DEF CurrentInv, ReadInv, BoundInv, ShownInv
<1>5. LastInv'
  <2>1. \A n \in Changes, c \in Clients \ overlap' : ~UnderWay(c, n)
    BY DEF Commit
  <2> QED
    BY <1>2, <2>1 DEF LastInv, UnderWay
<1> QED
  BY <1>1, <1>4, <1>5 DEF CurrentInv

(* A new connection is shown nothing.                                       *)
LEMMA ConnectionsKeepCurrent ==
  ASSUME CurrentInv, TypeOK', NEW c \in Clients, Connect(c) \/ Disconnect(c)
  PROVE  CurrentInv'
<1> USE VersionTypes
<1>1. /\ UNCHANGED <<version, overlap, method, sender, reporter>> /\ version \in Nat
      /\ newest'[c] = Nothing /\ shown'[c] = Nothing
      /\ \A d \in Clients \ {c} : newest'[d] = newest[d] /\ shown'[d] = shown[d]
  BY DEF Connect, Disconnect, CurrentInv, TypeOK
<1>2. ReadInv' /\ LastInv'
  BY <1>1 DEF CurrentInv, ReadInv, LastInv
<1>3. BoundInv' /\ ShownInv'
  BY <1>1 DEF CurrentInv, BoundInv, ShownInv, ShowsLast, Nothing
<1> QED
  BY <1>2, <1>3 DEF CurrentInv

(* The invariant is inductive.                                              *)
LEMMA BroadcastsKeepCurrent == CurrentInv /\ [Next]_vars => CurrentInv'
<1> SUFFICES ASSUME CurrentInv, [Next]_vars PROVE CurrentInv'
  OBVIOUS
<1>1. TypeOK /\ TypeOK'
  BY BroadcastsTypeStep DEF CurrentInv
<1>2. CASE UNCHANGED vars
  BY <1>1, <1>2 DEF vars, CurrentInv, ReadInv, BoundInv, LastInv, ShownInv, ShowsLast
<1>3. ASSUME NEW u \in Users, Join(u) \/ Depart(u) PROVE CurrentInv'
  BY <1>1, <1>3, CommitKeepsCurrent DEF Join, Depart, TypeOK
<1>4. CASE ChangeStatusOrSettings
  BY <1>1, <1>4, CommitKeepsCurrent DEF ChangeStatusOrSettings, TypeOK
<1>5. ASSUME NEW n \in Changes, Step(n) PROVE CurrentInv'
  BY <1>5, StepKeepsCurrent
<1>6. ASSUME NEW c \in Clients, Connect(c) \/ Disconnect(c) PROVE CurrentInv'
  BY <1>1, <1>6, ConnectionsKeepCurrent
<1>7. CASE Restart
  <2>1. version' = version /\ version \in Nat
    BY <1>1, <1>7, VersionTypes DEF Restart, TypeOK
  <2>2. /\ \A n \in Changes : sender'[n] \in {NoSender, [NoSender EXCEPT !.stage = "done"]}
        /\ \A n \in Changes : reporter'[n] \in {NoReporter, [NoReporter EXCEPT !.stage = "done"]}
        /\ \A n \in Changes : method'[n] \in {"none", "done"}
        /\ \A c \in Clients : newest'[c] = Nothing /\ shown'[c] = Nothing
    BY <1>7 DEF Restart
  <2> QED
    BY <1>1, <2>1, <2>2 DEF CurrentInv, ReadInv, BoundInv, LastInv, ShownInv, ShowsLast, NoSender, NoReporter, Nothing
<1> QED
  BY <1>2, <1>3, <1>4, <1>5, <1>6, <1>7 DEF Next

-----------------------------------------------------------------------------
(* The theorems.                                                            *)

(* What is owed to a client is still owed, or it has seen it.               *)
THEOREM BroadcastsInvariance == Spec => []IInv
<1> QED
  BY BroadcastsStart, BroadcastsKeepInv, PTL DEF Spec

(* Every variable keeps its type, and no goroutine works on a change that   *)
(* was not made.                                                            *)
THEOREM BroadcastsTypeCorrect == Spec => []TypeOK
<1>1. IInv => TypeOK
  BY DEF IInv
<1> QED
  BY <1>1, BroadcastsInvariance, PTL

(* Once the goroutines of a change have ended, every client that it         *)
(* concerns has received the queue and the settings as of that change or    *)
(* later, unless a fault took the message.                                  *)
THEOREM EveryChangeReaches == Spec => []EveryChangeSeen
<1>1. IInv => EveryChangeSeen
  BY DEF IInv, EveryChangeSeen, ClientInv, Owed, OwedToUser, OwedToAdmin, Working
<1> QED
  BY <1>1, BroadcastsInvariance, PTL

(* When all is quiet, everyone the last change concerns is shown the queue  *)
(* and the settings as they are, unless something older was under way to    *)
(* them when it came, or the last list broke off.                           *)
THEOREM LastShownIsCurrent == Spec => []SettledIsCurrent
<1>1. Init => CurrentInv
  BY BroadcastsStart, VersionTypes DEF Init, IInv, CurrentInv, ReadInv, BoundInv, LastInv, ShownInv, ShowsLast,
     NoSender, NoReporter, Nothing
<1>2. TypeOK /\ EveryChangeSeen /\ CurrentInv => SettledIsCurrent
  <2> SUFFICES ASSUME TypeOK, EveryChangeSeen, CurrentInv, Quiet, NEW c \in Clients \ overlap,
                      Follows(c, version), c \notin missed[version]
               PROVE  ShowsLast(shown[c])
    BY DEF SettledIsCurrent, ShowsLast
  <2>1. version \in Changes
    BY VersionTypes DEF TypeOK, Follows, Changes, Versions
  <2>2. Seen(c, version)
    BY <2>1 DEF EveryChangeSeen, Quiet
  <2>3. newest[c].list = version
    <3>1. newest[c].list \in Versions /\ newest[c].list >= version /\ newest[c].list <= version
      BY <2>2 DEF Seen, CurrentInv, BoundInv, TypeOK, Content
    <3> QED
      BY <3>1, VersionTypes DEF TypeOK
  <2> QED
    BY <2>3 DEF CurrentInv, ShownInv
<1> QED
  BY <1>1, <1>2, BroadcastsKeepCurrent, BroadcastsTypeCorrect, EveryChangeReaches, PTL DEF Spec

=============================================================================
