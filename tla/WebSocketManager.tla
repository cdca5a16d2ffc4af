-------------------------- MODULE WebSocketManager --------------------------
(***************************************************************************)
(* websocket/manager.go: the map of connected clients, the event loop that *)
(* writes it, the goroutines of each connection, and the goroutines that   *)
(* send.  A client is one connection; a user may open several in turn.     *)
(*                                                                         *)
(* Nothing blocks between Lock and Unlock (every send there has a default  *)
(* branch), so each such section is one step.  SendToUser unlocks between  *)
(* the look-up and the send: two steps.  The channels register and         *)
(* unregister are unbuffered: a send is one step with its receipt by Run,  *)
(* and what Run does with it comes later.                                  *)
(*                                                                         *)
(* What the messages say is left out, and so is the channel broadcast,     *)
(* which nobody sends to.  The WebSocket library is external: a connection *)
(* may end at any time, reads and writes fail after that.                  *)
(***************************************************************************)
EXTENDS Integers, FiniteSets

CONSTANTS
  Clients,      \* the connections ever made
  NoClient,     \* what the map returns for a user who is not connected
  Users,        \* the accounts
  NoUser,       \* the user of a connection not made yet
  Admins,       \* the users whose role is admin
  Senders,      \* goroutines that call SendToUser
  BufferSize    \* the capacity of Send; 256 in the code

ASSUME WebSocketManagerAssumption ==
  /\ NoClient \notin Clients
  /\ NoUser \notin Users
  /\ Admins \subseteq Users
  /\ BufferSize \in Nat \ {0}

VARIABLES
  clients,    \* Manager.clients, by user
  loop,       \* what Run has received and not handled yet
  owner,      \* Client.UserID
  open,       \* Client.Send is not closed
  buffered,   \* the messages in Client.Send
  conn,       \* Client.Conn is alive
  handler,    \* the goroutine that runs HandleClient and readPump
  writer,     \* the goroutine that runs writePump
  sender      \* the client each SendToUser has looked up

clientVars == <<owner, open, buffered, conn, handler, writer>>
vars == <<clients, loop, clientVars, sender>>

HandlerStages == {"none", "registering", "starting", "reading", "leaving", "done"}
WriterStages  == {"none", "ranging", "done"}
Idle == [op |-> "none", client |-> NoClient]

TypeOK ==
  /\ clients \in [Users -> Clients \cup {NoClient}]
  /\ loop \in [op : {"register", "unregister"}, client : Clients] \cup {Idle}
  /\ owner \in [Clients -> Users \cup {NoUser}]
  /\ open \in [Clients -> BOOLEAN]
  /\ buffered \in [Clients -> 0 .. BufferSize]
  /\ conn \in [Clients -> BOOLEAN]
  /\ handler \in [Clients -> HandlerStages]
  /\ writer \in [Clients -> WriterStages]
  /\ sender \in [Senders -> Clients \cup {NoClient}]

Init ==
  /\ clients = [u \in Users |-> NoClient]
  /\ loop = Idle
  /\ owner = [c \in Clients |-> NoUser]
  /\ open = [c \in Clients |-> FALSE]
  /\ buffered = [c \in Clients |-> 0]
  /\ conn = [c \in Clients |-> FALSE]
  /\ handler = [c \in Clients |-> "none"]
  /\ writer = [c \in Clients |-> "none"]
  /\ sender = [s \in Senders |-> NoClient]

-----------------------------------------------------------------------------
(* The goroutines of a connection.                                          *)

(* UpgradeConnection, up to `m.register <- client'.                         *)
Connect(c, u) ==
  /\ handler[c] = "none"
  /\ handler' = [handler EXCEPT ![c] = "registering"]
  /\ owner' = [owner EXCEPT ![c] = u]
  /\ open' = [open EXCEPT ![c] = TRUE]
  /\ conn' = [conn EXCEPT ![c] = TRUE]
  /\ UNCHANGED <<clients, loop, buffered, writer, sender>>

(* Run receives it.                                                         *)
SendRegister(c) ==
  /\ handler[c] = "registering"
  /\ loop = Idle
  /\ loop' = [op |-> "register", client |-> c]
  /\ handler' = [handler EXCEPT ![c] = "starting"]
  /\ UNCHANGED <<clients, owner, open, buffered, conn, writer, sender>>

(* HandleClient starts writePump and becomes readPump.                      *)
StartPumps(c) ==
  /\ handler[c] = "starting"
  /\ handler' = [handler EXCEPT ![c] = "reading"]
  /\ writer' = [writer EXCEPT ![c] = "ranging"]
  /\ UNCHANGED <<clients, loop, owner, open, buffered, conn, sender>>

(* The peer or the network ends the connection.                             *)
Disconnect(c) ==
  /\ conn[c]
  /\ conn' = [conn EXCEPT ![c] = FALSE]
  /\ UNCHANGED <<clients, loop, owner, open, buffered, handler, writer, sender>>

(* ReadMessage returns an error; the deferred function wants to unregister. *)
ReadFails(c) ==
  /\ handler[c] = "reading"
  /\ ~conn[c]
  /\ handler' = [handler EXCEPT ![c] = "leaving"]
  /\ UNCHANGED <<clients, loop, owner, open, buffered, conn, writer, sender>>

(* Run receives it; the goroutine closes the connection and is done.        *)
SendUnregister(c) ==
  /\ handler[c] = "leaving"
  /\ loop = Idle
  /\ loop' = [op |-> "unregister", client |-> c]
  /\ handler' = [handler EXCEPT ![c] = "done"]
  /\ UNCHANGED <<clients, owner, open, buffered, conn, writer, sender>>

(* writePump takes a message and writes it.  An error ends it, and its      *)
(* deferred function closes the connection.                                 *)
Write(c) ==
  /\ writer[c] = "ranging"
  /\ buffered[c] > 0
  /\ buffered' = [buffered EXCEPT ![c] = @ - 1]
  /\ \/ /\ conn[c]
        /\ UNCHANGED <<conn, writer>>
     \/ /\ conn' = [conn EXCEPT ![c] = FALSE]
        /\ writer' = [writer EXCEPT ![c] = "done"]
  /\ UNCHANGED <<clients, loop, owner, open, handler, sender>>

(* The range over Send ends: closed, and nothing left in it.                *)
EndWriter(c) ==
  /\ writer[c] = "ranging"
  /\ ~open[c] /\ buffered[c] = 0
  /\ writer' = [writer EXCEPT ![c] = "done"]
  /\ conn' = [conn EXCEPT ![c] = FALSE]
  /\ UNCHANGED <<clients, loop, owner, open, buffered, handler, sender>>

-----------------------------------------------------------------------------
(* The event loop.                                                          *)

(* Run registers: the connection the user had before is closed.             *)
Register ==
  LET c == loop.client
      old == clients[owner[c]] IN
  /\ loop.op = "register"
  /\ open' = [d \in Clients |-> d # old /\ open[d]]
  /\ conn' = [d \in Clients |-> d # old /\ conn[d]]
  /\ clients' = [clients EXCEPT ![owner[c]] = c]
  /\ loop' = Idle
  /\ UNCHANGED <<owner, buffered, handler, writer, sender>>

(* Mistake: whoever unregisters is taken for the client in the map.         *)
UnregisterUser ==
  LET c == loop.client IN
  /\ loop.op = "unregister"
  /\ clients' = [clients EXCEPT ![owner[c]] = NoClient]
  /\ open' = [open EXCEPT ![c] = FALSE]
  /\ loop' = Idle
  /\ UNCHANGED <<owner, buffered, conn, handler, writer, sender>>

(* Mistake: the channel is closed, but the client stays in the map.         *)
UnregisterChannel ==
  /\ loop.op = "unregister"
  /\ open' = [open EXCEPT ![loop.client] = FALSE]
  /\ loop' = Idle
  /\ UNCHANGED <<clients, owner, buffered, conn, handler, writer, sender>>

(* Mistake: the client leaves the map, but its channel stays open.          *)
UnregisterEntry ==
  LET c == loop.client IN
  /\ loop.op = "unregister"
  /\ clients' = [u \in Users |-> IF clients[u] = c THEN NoClient ELSE clients[u]]
  /\ loop' = Idle
  /\ UNCHANGED <<clientVars, sender>>

(* Run unregisters, unless the user has another connection by now.          *)
Unregister ==
  LET c == loop.client IN
  /\ loop.op = "unregister"
  /\ \/ /\ clients[owner[c]] = c
        /\ clients' = [clients EXCEPT ![owner[c]] = NoClient]
        /\ open' = [open EXCEPT ![c] = FALSE]
     \/ /\ clients[owner[c]] # c
        /\ UNCHANGED <<clients, open>>
  /\ loop' = Idle
  /\ UNCHANGED <<owner, buffered, conn, handler, writer, sender>>

-----------------------------------------------------------------------------
(* Sending.                                                                 *)

(* Mistake: a send to a full buffer is not dropped.                         *)
PushedAlways(n) == n + 1

(* A send with a default branch: a full buffer drops the message.           *)
Pushed(n) == IF n < BufferSize THEN n + 1 ELSE n

(* SendToUser finds the client of u; without one it returns.                *)
LookUp(s, u) ==
  /\ sender[s] = NoClient
  /\ clients[u] # NoClient
  /\ sender' = [sender EXCEPT ![s] = clients[u]]
  /\ UNCHANGED <<clients, loop, clientVars>>

(* It sends.                                                                *)
Push(s) ==
  LET c == sender[s] IN
  /\ c # NoClient /\ open[c]
  /\ buffered' = [buffered EXCEPT ![c] = Pushed(@)]
  /\ sender' = [sender EXCEPT ![s] = NoClient]
  /\ UNCHANGED <<clients, loop, owner, open, conn, handler, writer>>

(* A send on a closed channel panics.  If the goroutine serves a request    *)
(* the middleware of main.go recovers; otherwise the process ends, and all  *)
(* its connections with it, and starts again with an empty map.             *)
Panic(s) ==
  LET ends(c) == handler[c] # "none" IN
  /\ sender[s] # NoClient /\ ~open[sender[s]]
  /\ \/ /\ sender' = [sender EXCEPT ![s] = NoClient]
        /\ UNCHANGED <<clients, loop, clientVars>>
     \/ /\ clients' = [u \in Users |-> NoClient]
        /\ loop' = Idle
        /\ open' = [c \in Clients |-> FALSE]
        /\ conn' = [c \in Clients |-> FALSE]
        /\ buffered' = [c \in Clients |-> 0]
        /\ handler' = [c \in Clients |-> IF ends(c) THEN "done" ELSE "none"]
        /\ writer' = [c \in Clients |-> IF ends(c) THEN "done" ELSE "none"]
        /\ sender' = [t \in Senders |-> NoClient]
        /\ UNCHANGED owner

(* BroadcastToRole("admin", ...) sends to each of them under the read lock. *)
BroadcastToAdmins ==
  LET reached == {clients[u] : u \in Admins} \ {NoClient} IN
  /\ buffered' = [c \in Clients |->
       IF c \in reached THEN Pushed(buffered[c]) ELSE buffered[c]]
  /\ UNCHANGED <<clients, loop, owner, open, conn, handler, writer, sender>>

-----------------------------------------------------------------------------
Pumps(c) ==
  \/ SendRegister(c) \/ StartPumps(c) \/ ReadFails(c) \/ SendUnregister(c)

Writer(c) == Write(c) \/ EndWriter(c)

Run == Register \/ Unregister

Next ==
  \/ \E c \in Clients, u \in Users : Connect(c, u)
  \/ \E c \in Clients : Pumps(c) \/ Writer(c) \/ Disconnect(c)
  \/ Run
  \/ \E s \in Senders, u \in Users : LookUp(s, u)
  \/ \E s \in Senders : Push(s) \/ Panic(s)
  \/ BroadcastToAdmins

Spec == Init /\ [][Next]_vars

(* Go runs every goroutine that can run.  Nobody has to connect, to leave   *)
(* or to send.                                                              *)
Fairness ==
  /\ \A c \in Clients : WF_vars(Pumps(c)) /\ WF_vars(Writer(c))
  /\ WF_vars(Run)

FairSpec == Spec /\ Fairness

-----------------------------------------------------------------------------
(* Properties.                                                              *)

(* The channel of a client in the map is open: Run never closes a channel   *)
(* twice, which would end the server, and whoever sends under the lock, as  *)
(* BroadcastToRole does, never sends on a closed one.                       *)
MapHasOpenChannels ==
  \A u \in Users : clients[u] # NoClient => open[clients[u]] /\ owner[clients[u]] = u

(* manager.go, "already replaced by new connection": a live connection that *)
(* has registered is the one its user is reached by, however late the       *)
(* connections it replaced unregister.                                      *)
LiveIsReachable ==
  \A c \in Clients :
    handler[c] = "reading" /\ conn[c] /\ loop.client # c => clients[owner[c]] = c

(* A connection that has ended leaves the map: a user without connection    *)
(* does not count as connected for ever.                                    *)
EndedIsForgotten ==
  \A c \in Clients, u \in Users :
    clients[u] = c /\ ~conn[c] ~> clients[u] # c

(* No goroutine is left behind by a connection that has ended.              *)
WritersEnd == \A c \in Clients : handler[c] = "done" ~> writer[c] # "ranging"

(* manager.go, "Not an error if user is not connected": SendToUser may find *)
(* the client gone, but never sends on the channel of one that is.          *)
NoSendOnClosed ==
  [][\A s \in Senders : sender[s] # NoClient /\ sender'[s] # sender[s] => open[sender[s]]]_vars

=============================================================================
