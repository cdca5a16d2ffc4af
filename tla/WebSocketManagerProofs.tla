----------------------- MODULE WebSocketManagerProofs -----------------------
(***************************************************************************)
(* Theorems about WebSocketManager, for any connections, users and buffer  *)
(* size: the map holds open channels only, and whoever is connected is in  *)
(* it.                                                                     *)
(*                                                                         *)
(* The argument: a connection enters the map once, with a channel that     *)
(* nobody has closed yet, and its channel is closed in the step that takes *)
(* it out.                                                                 *)
(***************************************************************************)
EXTENDS WebSocketManager, TLAPS

USE WebSocketManagerAssumption

(* A connection that Run has not registered: its channel is open, and it is *)
(* not in the map.                                                          *)
Unregistered(c) == open[c] /\ \A u \in Users : clients[u] # c

(* What Run holds is a connection that has sent it.                         *)
LoopInv ==
  /\ loop.op = "register" =>
       Unregistered(loop.client) /\ handler[loop.client] \in {"starting", "reading", "leaving"}
  /\ loop.op = "unregister" => handler[loop.client] = "done"

HandlerInv(c) ==
  /\ handler[c] # "none" => owner[c] \in Users
  /\ handler[c] = "none" => \A u \in Users : clients[u] # c
  /\ handler[c] = "registering" => Unregistered(c)

(* As LiveIsReachable, from the moment Run has registered the connection.   *)
LiveInv ==
  \A c \in Clients :
    handler[c] \in {"starting", "reading"} /\ conn[c] /\ loop.client # c => clients[owner[c]] = c

IInv ==
  /\ TypeOK
  /\ MapHasOpenChannels
  /\ LoopInv
  /\ \A c \in Clients : HandlerInv(c)
  /\ LiveInv

-----------------------------------------------------------------------------

(* Nothing is connected at first.                                           *)
LEMMA SocketsInit == Init => IInv
<1> SUFFICES ASSUME Init PROVE IInv
  OBVIOUS
<1>1. TypeOK
  BY DEF Init, TypeOK, Idle, HandlerStages, WriterStages
<1>2. MapHasOpenChannels /\ LoopInv /\ LiveInv
  BY DEF Init, MapHasOpenChannels, LoopInv, LiveInv, Idle
<1>3. \A c \in Clients : HandlerInv(c)
  BY DEF Init, HandlerInv
<1> QED
  BY <1>1, <1>2, <1>3 DEF IInv

(* Every step keeps the types.                                              *)
LEMMA SocketsTypeStep == TypeOK /\ [Next]_vars => TypeOK'
<1> SUFFICES ASSUME TypeOK, [Next]_vars PROVE TypeOK'
  OBVIOUS
<1> USE DEF TypeOK, HandlerStages, WriterStages
<1>1. ASSUME NEW c \in Clients, NEW u \in Users, Connect(c, u) PROVE TypeOK'
  BY <1>1 DEF Connect
<1>2. ASSUME NEW c \in Clients, Pumps(c) PROVE TypeOK'
  BY <1>2 DEF Pumps, SendRegister, StartPumps, ReadFails, SendUnregister
<1>3. ASSUME NEW c \in Clients, Write(c) PROVE TypeOK'
  <2>1. buffered[c] - 1 \in 0 .. BufferSize
    BY <1>3 DEF Write
  <2> QED
    BY <1>3, <2>1 DEF Write
<1>4. ASSUME NEW c \in Clients, EndWriter(c) \/ Disconnect(c) PROVE TypeOK'
  BY <1>4 DEF EndWriter, Disconnect
<1>5. CASE Register
  <2>1. loop.client \in Clients
    BY <1>5 DEF Register, Idle
  <2>2. open' \in [Clients -> BOOLEAN] /\ conn' \in [Clients -> BOOLEAN]
    BY <1>5 DEF Register
  <2>3. clients' \in [Users -> Clients \cup {NoClient}]
    BY <1>5, <2>1 DEF Register
  <2> QED
    BY <1>5, <2>2, <2>3 DEF Register
<1>6. CASE Unregister
  BY <1>6 DEF Unregister, Idle
<1>7. ASSUME NEW s \in Senders, NEW u \in Users, LookUp(s, u) PROVE TypeOK'
  BY <1>7 DEF LookUp, clientVars
<1>8. \A n \in 0 .. BufferSize : Pushed(n) \in 0 .. BufferSize
  BY DEF Pushed
<1>9. ASSUME NEW s \in Senders, Push(s) PROVE TypeOK'
  BY <1>8, <1>9 DEF Push
<1>10. ASSUME NEW s \in Senders, Panic(s) PROVE TypeOK'
  <2>1. CASE UNCHANGED <<clients, loop, clientVars>>
    <3>1. sender' \in [Senders -> Clients \cup {NoClient}]
      BY <1>10 DEF Panic
    <3> QED
      BY <2>1, <3>1 DEF clientVars
  <2>2. CASE ~UNCHANGED <<clients, loop, clientVars>>
    <3>1. /\ clients' \in [Users -> Clients \cup {NoClient}]
          /\ loop' = Idle /\ UNCHANGED owner
          /\ sender' \in [Senders -> Clients \cup {NoClient}]
      BY <1>10, <2>2 DEF Panic
    <3>2. /\ open' = [c \in Clients |-> FALSE]
          /\ conn' = [c \in Clients |-> FALSE]
      BY <1>10, <2>2, Zenon DEF Panic
    <3>3. /\ buffered' \in [Clients -> 0 .. BufferSize]
          /\ handler' \in [Clients -> HandlerStages]
          /\ writer' \in [Clients -> WriterStages]
      BY <1>10, <2>2 DEF Panic
    <3> QED
      BY <3>1, <3>2, <3>3
  <2> QED
    BY <2>1, <2>2
<1>11. CASE BroadcastToAdmins
  BY <1>8, <1>11 DEF BroadcastToAdmins
<1>12. CASE UNCHANGED vars
  BY <1>12 DEF vars, clientVars
<1> QED
  BY <1>1, <1>2, <1>3, <1>4, <1>5, <1>6, <1>7, <1>9, <1>10, <1>11, <1>12
     DEF Next, Writer, Run

(* Steps that leave the map, the loop, the channels and the owners alone,   *)
(* and start no handler and revive no connection.                           *)
LEMMA QuietStep ==
  ASSUME IInv, TypeOK', UNCHANGED <<clients, loop, owner, open>>,
         \A c \in Clients :
           \/ handler'[c] = handler[c]
           \/ handler[c] = "starting" /\ handler'[c] = "reading"
           \/ handler[c] = "reading" /\ handler'[c] = "leaving",
         \A c \in Clients : conn'[c] => conn[c]
  PROVE  IInv'
<1>1. MapHasOpenChannels'
  BY DEF IInv, MapHasOpenChannels
<1>2. LoopInv'
  BY DEF IInv, LoopInv, Unregistered, TypeOK, Idle
<1>3. \A c \in Clients : HandlerInv(c)'
  BY DEF IInv, HandlerInv, Unregistered
<1>4. LiveInv'
  BY DEF IInv, LiveInv
<1> QED
  BY <1>1, <1>2, <1>3, <1>4 DEF IInv

(* A new connection is nobody's yet.                                        *)
LEMMA SocketsConnect ==
  ASSUME IInv, TypeOK', NEW c \in Clients, NEW u \in Users, Connect(c, u)
  PROVE  IInv'
<1>1. /\ handler[c] = "none" /\ \A v \in Users : clients[v] # c
      /\ UNCHANGED <<clients, loop>>
      /\ handler'[c] = "registering" /\ owner'[c] = u /\ open'[c]
      /\ \A d \in Clients \ {c} : /\ handler'[d] = handler[d] /\ owner'[d] = owner[d]
                                  /\ open'[d] = open[d] /\ conn'[d] = conn[d]
  BY DEF Connect, IInv, TypeOK, HandlerInv
<1>2. MapHasOpenChannels'
  BY <1>1 DEF IInv, TypeOK, MapHasOpenChannels
<1>3. loop.op = "none" \/ loop.client \in Clients \ {c}
  BY <1>1 DEF IInv, TypeOK, LoopInv, Idle
<1>4. LoopInv'
  BY <1>1, <1>3 DEF IInv, LoopInv, Unregistered
<1>5. \A d \in Clients : HandlerInv(d)'
  BY <1>1 DEF IInv, HandlerInv, Unregistered
<1>6. LiveInv'
  BY <1>1 DEF IInv, LiveInv
<1> QED
  BY <1>2, <1>4, <1>5, <1>6 DEF IInv

(* Run receives a connection to register.                                   *)
LEMMA SocketsSendRegister ==
  ASSUME IInv, TypeOK', NEW c \in Clients, SendRegister(c)
  PROVE  IInv'
<1>1. /\ handler[c] = "registering" /\ Unregistered(c) /\ loop = Idle
      /\ UNCHANGED <<clients, owner, open, conn>>
      /\ loop'.op = "register" /\ loop'.client = c
      /\ handler'[c] = "starting"
      /\ \A d \in Clients \ {c} : handler'[d] = handler[d]
  BY DEF SendRegister, IInv, TypeOK, HandlerInv
<1>2. MapHasOpenChannels'
  BY <1>1 DEF IInv, MapHasOpenChannels
<1>3. LoopInv'
  BY <1>1 DEF LoopInv, Unregistered
<1>4. \A d \in Clients : HandlerInv(d)'
  BY <1>1 DEF IInv, HandlerInv, Unregistered
<1>5. LiveInv'
  BY <1>1 DEF IInv, LiveInv, Idle
<1> QED
  BY <1>2, <1>3, <1>4, <1>5 DEF IInv

(* Run receives a connection to unregister.                                 *)
LEMMA SocketsSendUnregister ==
  ASSUME IInv, TypeOK', NEW c \in Clients, SendUnregister(c)
  PROVE  IInv'
<1>1. /\ handler[c] = "leaving" /\ loop = Idle
      /\ UNCHANGED <<clients, owner, open, conn>>
      /\ loop'.op = "unregister" /\ loop'.client = c
      /\ handler'[c] = "done"
      /\ \A d \in Clients \ {c} : handler'[d] = handler[d]
  BY DEF SendUnregister, IInv, TypeOK
<1>2. MapHasOpenChannels'
  BY <1>1 DEF IInv, MapHasOpenChannels
<1>3. LoopInv'
  BY <1>1 DEF LoopInv
<1>4. \A d \in Clients : HandlerInv(d)'
  BY <1>1 DEF IInv, HandlerInv, Unregistered
<1>5. LiveInv'
  BY <1>1 DEF IInv, LiveInv, Idle
<1> QED
  BY <1>2, <1>3, <1>4, <1>5 DEF IInv

(* The registered connection takes the place of the one that is closed.     *)
LEMMA SocketsRegister ==
  ASSUME IInv, TypeOK', Register
  PROVE  IInv'
<1> DEFINE c == loop.client
           v == owner[c]
<1>1. c \in Clients /\ v \in Users /\ Unregistered(c)
  BY DEF Register, IInv, TypeOK, LoopInv, HandlerInv, Idle
<1>2. /\ clients'[v] = c /\ \A u \in Users \ {v} : clients'[u] = clients[u]
      /\ \A d \in Clients : /\ open'[d] <=> d # clients[v] /\ open[d]
                            /\ conn'[d] <=> d # clients[v] /\ conn[d]
      /\ loop' = Idle
      /\ UNCHANGED <<owner, handler>>
  BY <1>1 DEF Register, IInv, TypeOK
<1> HIDE DEF c, v
<1>3. clients[v] # c
  BY <1>1 DEF Unregistered
<1>4. MapHasOpenChannels'
  <2> SUFFICES ASSUME NEW u \in Users, clients'[u] # NoClient
               PROVE  open'[clients'[u]] /\ owner'[clients'[u]] = u
    BY DEF MapHasOpenChannels
  <2>1. CASE u = v
    BY <1>1, <1>2, <1>3, <2>1 DEF Unregistered, v
  <2>2. CASE u # v
    <3>1. clients'[u] = clients[u] /\ clients[u] \in Clients
      BY <1>2, <2>2 DEF IInv, TypeOK
    <3>2. open[clients[u]] /\ owner[clients[u]] = u
      BY <3>1 DEF IInv, MapHasOpenChannels
    <3>3. clients[u] # clients[v]
      BY <1>1, <2>2, <3>1, <3>2 DEF IInv, MapHasOpenChannels
    <3> QED
      BY <1>2, <3>1, <3>2, <3>3
  <2> QED
    BY <2>1, <2>2
<1>5. LoopInv'
  BY <1>2 DEF LoopInv, Idle
<1>6. \A d \in Clients : HandlerInv(d)'
  <2> SUFFICES ASSUME NEW d \in Clients PROVE HandlerInv(d)'
    OBVIOUS
  <2>1. handler[c] \in {"starting", "reading", "leaving"}
    BY DEF Register, IInv, LoopInv, c
  <2>2. HandlerInv(d)
    BY DEF IInv
  <2> QED
    BY <1>1, <1>2, <2>1, <2>2 DEF HandlerInv, Unregistered
<1>7. LiveInv'
  <2> SUFFICES ASSUME NEW d \in Clients, handler[d] \in {"starting", "reading"}, conn'[d]
               PROVE  clients'[owner[d]] = d
    BY <1>2 DEF LiveInv
  <2>1. CASE d = c
    BY <1>2, <2>1 DEF v
  <2>2. CASE d # c
    <3>1. clients[owner[d]] = d
      BY <1>2, <2>2 DEF IInv, LiveInv, c
    <3>2. owner[d] # v /\ owner[d] \in Users
      BY <1>2, <3>1 DEF IInv, HandlerInv
    <3> QED
      BY <1>2, <3>1, <3>2
  <2> QED
    BY <2>1, <2>2
<1> QED
  BY <1>4, <1>5, <1>6, <1>7 DEF IInv

(* The unregistered connection leaves the map if it is in it.               *)
LEMMA SocketsUnregister ==
  ASSUME IInv, TypeOK', Unregister
  PROVE  IInv'
<1> DEFINE c == loop.client
           v == owner[c]
<1>1. c \in Clients /\ v \in Users /\ handler[c] = "done"
  BY DEF Unregister, IInv, TypeOK, LoopInv, HandlerInv, Idle
<1>2. loop' = Idle /\ UNCHANGED <<owner, handler, conn>>
  BY DEF Unregister
<1>3. CASE clients[v] # c
  <2>1. UNCHANGED <<clients, open>>
    BY <1>3 DEF Unregister
  <2>2. MapHasOpenChannels' /\ LoopInv'
    BY <1>2, <2>1 DEF IInv, MapHasOpenChannels, LoopInv, Idle
  <2>3. \A d \in Clients : HandlerInv(d)'
    BY <1>2, <2>1 DEF IInv, HandlerInv, Unregistered
  <2>4. LiveInv'
    BY <1>1, <1>2, <2>1 DEF IInv, LiveInv
  <2> QED
    BY <2>2, <2>3, <2>4 DEF IInv
<1>4. CASE clients[v] = c
  <2>1. /\ clients'[v] = NoClient /\ \A u \in Users \ {v} : clients'[u] = clients[u]
        /\ \A d \in Clients \ {c} : open'[d] = open[d]
    BY <1>1, <1>4 DEF Unregister, IInv, TypeOK
  <2> HIDE DEF c, v
  <2>2. \A u \in Users \ {v} : clients[u] # c
    BY <1>1, <1>4 DEF IInv, MapHasOpenChannels
  <2>3. MapHasOpenChannels'
    BY <1>2, <2>1, <2>2 DEF IInv, TypeOK, MapHasOpenChannels
  <2>4. LoopInv'
    BY <1>2 DEF LoopInv, Idle
  <2>5. \A d \in Clients : HandlerInv(d)'
    <3> SUFFICES ASSUME NEW d \in Clients PROVE HandlerInv(d)'
      OBVIOUS
    <3>1. HandlerInv(d)
      BY DEF IInv
    <3>2. \A u \in Users : clients'[u] = d => clients[u] = d
      BY <2>1
    <3> QED
      BY <1>1, <1>2, <2>1, <3>1, <3>2 DEF HandlerInv, Unregistered
  <2>6. LiveInv'
    <3> SUFFICES ASSUME NEW d \in Clients, handler[d] \in {"starting", "reading"}, conn[d]
                 PROVE  clients'[owner[d]] = d
      BY <1>2 DEF LiveInv
    <3>1. d # c
      BY <1>1
    <3>2. clients[owner[d]] = d
      BY <3>1 DEF IInv, LiveInv, c
    <3>3. owner[d] # v /\ owner[d] \in Users
      BY <1>4, <3>1, <3>2 DEF IInv, HandlerInv
    <3> QED
      BY <2>1, <3>2, <3>3
  <2> QED
    BY <2>3, <2>4, <2>5, <2>6 DEF IInv
<1> QED
  BY <1>3, <1>4

(* A panic changes nothing of this, or ends everything.                     *)
LEMMA SocketsPanic ==
  ASSUME IInv, TypeOK', NEW s \in Senders, Panic(s)
  PROVE  IInv'
<1>1. CASE UNCHANGED <<clients, loop, clientVars>>
  <2>1. UNCHANGED <<clients, loop, owner, open, handler, conn>>
    BY <1>1 DEF clientVars
  <2> QED
    BY <2>1, QuietStep
<1>2. CASE ~UNCHANGED <<clients, loop, clientVars>>
  <2>1. /\ \A u \in Users : clients'[u] = NoClient
        /\ loop' = Idle /\ UNCHANGED owner
        /\ \A c \in Clients : handler'[c] = IF handler[c] # "none" THEN "done" ELSE "none"
    BY <1>2 DEF Panic
  <2>2. MapHasOpenChannels' /\ LoopInv' /\ LiveInv'
    BY <2>1 DEF MapHasOpenChannels, LoopInv, LiveInv, Idle
  <2>3. \A c \in Clients : HandlerInv(c)'
    BY <2>1 DEF IInv, HandlerInv
  <2> QED
    BY <2>2, <2>3 DEF IInv
<1> QED
  BY <1>1, <1>2

(* Every step keeps the invariant.                                          *)
LEMMA SocketsStep == IInv /\ [Next]_vars => IInv'
<1> SUFFICES ASSUME IInv, [Next]_vars PROVE IInv'
  OBVIOUS
<1>0. TypeOK'
  BY SocketsTypeStep DEF IInv
<1>1. ASSUME NEW c \in Clients, NEW u \in Users, Connect(c, u) PROVE IInv'
  BY <1>0, <1>1, SocketsConnect
<1>2. ASSUME NEW c \in Clients, SendRegister(c) PROVE IInv'
  BY <1>0, <1>2, SocketsSendRegister
<1>3. ASSUME NEW c \in Clients, SendUnregister(c) PROVE IInv'
  BY <1>0, <1>3, SocketsSendUnregister
<1>4. ASSUME NEW c \in Clients, StartPumps(c) \/ ReadFails(c) PROVE IInv'
  <2>1. UNCHANGED <<clients, loop, owner, open, conn>>
    BY <1>4 DEF StartPumps, ReadFails
  <2>2. \A d \in Clients :
          \/ handler'[d] = handler[d]
          \/ handler[d] = "starting" /\ handler'[d] = "reading"
          \/ handler[d] = "reading" /\ handler'[d] = "leaving"
    BY <1>4 DEF StartPumps, ReadFails, IInv, TypeOK
  <2> QED
    BY <1>0, <2>1, <2>2, QuietStep
<1>5. ASSUME NEW c \in Clients, Writer(c) \/ Disconnect(c) PROVE IInv'
  <2>1. UNCHANGED <<clients, loop, owner, open, handler>>
    BY <1>5 DEF Writer, Write, EndWriter, Disconnect
  <2>2. \A d \in Clients : conn'[d] => conn[d]
    BY <1>5 DEF Writer, Write, EndWriter, Disconnect, IInv, TypeOK
  <2> QED
    BY <1>0, <2>1, <2>2, QuietStep
<1>6. CASE Run
  BY <1>0, <1>6, SocketsRegister, SocketsUnregister DEF Run
<1>7. ASSUME NEW s \in Senders, NEW u \in Users, LookUp(s, u) PROVE IInv'
  <2>1. UNCHANGED <<clients, loop, owner, open, handler, conn>>
    BY <1>7 DEF LookUp, clientVars
  <2> QED
    BY <1>0, <2>1, QuietStep
<1>8. ASSUME NEW s \in Senders, Push(s) PROVE IInv'
  <2>1. UNCHANGED <<clients, loop, owner, open, handler, conn>>
    BY <1>8 DEF Push
  <2> QED
    BY <1>0, <2>1, QuietStep
<1>9. ASSUME NEW s \in Senders, Panic(s) PROVE IInv'
  BY <1>0, <1>9, SocketsPanic
<1>10. CASE BroadcastToAdmins \/ UNCHANGED vars
  <2>1. UNCHANGED <<clients, loop, owner, open, handler, conn>>
    BY <1>10 DEF BroadcastToAdmins, vars, clientVars
  <2> QED
    BY <1>0, <2>1, QuietStep
<1> QED
  BY <1>1, <1>2, <1>3, <1>4, <1>5, <1>6, <1>7, <1>8, <1>9, <1>10 DEF Next, Pumps

-----------------------------------------------------------------------------
(* Theorems.                                                                *)

(* Every variable of the manager keeps its type; no buffer holds more than  *)
(* its capacity.                                                            *)
THEOREM SocketsTypeCorrect == Spec => []TypeOK
<1>1. Init => TypeOK
  BY SocketsInit DEF IInv
<1> QED
  BY <1>1, SocketsTypeStep, PTL DEF Spec

(* Run never closes a channel twice, and BroadcastToRole never sends on a   *)
(* closed one, whatever connects, reconnects and unregisters late.          *)
THEOREM MapStaysOpen == Spec => []MapHasOpenChannels
<1>1. IInv => MapHasOpenChannels
  BY DEF IInv
<1> QED
  BY <1>1, SocketsInit, SocketsStep, PTL DEF Spec

(* A live connection that Run has registered is the one its user is reached *)
(* by: a late unregister of an older one does not take it away.             *)
THEOREM LiveStaysReachable == Spec => []LiveIsReachable
<1>1. IInv => LiveIsReachable
  BY DEF IInv, LiveInv, LiveIsReachable
<1> QED
  BY <1>1, SocketsInit, SocketsStep, PTL DEF Spec

=============================================================================
