------------------------- MODULE PushNotifications -------------------------
(***************************************************************************)
(* How CallNextUser of services/queue_service.go tells a user of the turn:  *)
(* a message on the WebSocket, then, if IsUserConnected says that there is  *)
(* none, a push to the token in the table users (Accounts), sent by a       *)
(* goroutine through services/fcm_service.go.  Meanwhile the user connects, *)
(* disconnects and changes the token.                                       *)
(*                                                                         *)
(* Also the push to administrators when somebody joins the queue.           *)
(* Firebase itself is left out.                                             *)
(***************************************************************************)
EXTENDS Accounts

VARIABLES
  fcm,      \* fcmService is not nil
  online,   \* the users connected
  turn,     \* how far the announcement of each user's turn is
  pushes,   \* the goroutines about to send a push
  news      \* history: was the user "told" of the turn, or why not?

pushVars == <<fcm, online, turn, pushes, news>>
vars == <<accountVars, pushVars>>

(* Why a user may not be told of the turn: the app was opened between the    *)
(* message and IsUserConnected; the channel was full; sending the message   *)
(* panicked; FCM is not set up; the user has no token; it could not be read. *)
Reasons == {"opened", "full", "panic", "unset", "tokenless", "unread"}

Push == [kind : {"turn", "joined"}, name : Names, token : Tokens \ {""}]

TypeOK ==
  /\ AccountsTypeOK
  /\ fcm \in BOOLEAN
  /\ online \in SUBSET Names
  /\ turn \in [Names -> {"none", "called", "sent", "offline", "done"}]
  /\ pushes \in SUBSET Push
  /\ news \in [Names -> {"none", "told"} \cup Reasons]

Init ==
  /\ AccountsInit
  /\ fcm \in BOOLEAN
  /\ online = {}
  /\ pushes = {}
  /\ turn = [n \in Names |-> "none"]
  /\ news = [n \in Names |-> "none"]

-----------------------------------------------------------------------------
Registered == {row.name : row \in users}

(* The channel of the connection has taken the message, or a goroutine the  *)
(* push.                                                                    *)
Tell(n) == news' = [news EXCEPT ![n] = "told"]

Record(n, reason) == news' = [news EXCEPT ![n] = IF @ = "told" THEN @ ELSE reason]

(* A connection that comes while the turn is announced may come after the   *)
(* message and before IsUserConnected.                                      *)
Connect(n) ==
  /\ server = "serving"
  /\ n \in (Registered \cap Phones) \ online
  /\ online' = online \cup {n}
  /\ IF turn[n] = "sent" THEN Record(n, "opened") ELSE UNCHANGED news
  /\ UNCHANGED <<accountVars, fcm, turn, pushes>>

Disconnect(n) ==
  /\ n \in online
  /\ online' = online \ {n}
  /\ UNCHANGED <<accountVars, fcm, turn, pushes, news>>

(* The repository has called the user.                                      *)
Call(n) ==
  /\ server = "serving"
  /\ n \in Registered
  /\ n \in Phones
  /\ turn[n] \in {"none", "done"}
  /\ turn' = [turn EXCEPT ![n] = "called"]
  /\ news' = [news EXCEPT ![n] = "none"]
  /\ UNCHANGED <<accountVars, fcm, online, pushes>>

(* Mistake: IsUserConnected is asked before the message is sent.            *)
AskThenSend(n) ==
  \/ /\ turn[n] = "called"
     /\ turn' = [turn EXCEPT ![n] = IF n \in online THEN "open" ELSE "offline"]
     /\ UNCHANGED <<accountVars, fcm, online, pushes, news>>
  \/ /\ turn[n] = "open"
     /\ turn' = [turn EXCEPT ![n] = "done"]
     /\ IF n \in online THEN Tell(n) ELSE UNCHANGED news
     /\ UNCHANGED <<accountVars, fcm, online, pushes>>

(* SendToUser: queue:your_turn, which a full channel drops.                 *)
SendYourTurn(n) ==
  /\ turn[n] = "called"
  /\ turn' = [turn EXCEPT ![n] = "sent"]
  /\ \/ n \in online /\ Tell(n)
     \/ n \in online /\ "full" \in Faults /\ Record(n, "full")
     \/ n \notin online /\ UNCHANGED news
  /\ UNCHANGED <<accountVars, fcm, online, pushes>>

(* SendToUser panics on the channel of a client that it found and Run has   *)
(* closed since.  In a request recover.New() goes on, without a push; in a  *)
(* goroutine the process ends (Restart).                                    *)
SendPanics(n) ==
  /\ "panic" \in Faults
  /\ turn[n] = "called"
  /\ n \in online
  /\ turn' = [turn EXCEPT ![n] = "done"]
  /\ Record(n, "panic")
  /\ UNCHANGED <<accountVars, fcm, online, pushes>>

(* fcmService != nil && !IsUserConnected.  Whoever is not connected now will *)
(* be sent a push: what became of the message is no reason any more.        *)
AskConnected(n) ==
  /\ turn[n] = "sent"
  /\ \/ /\ fcm /\ n \notin online
        /\ turn' = [turn EXCEPT ![n] = "offline"]
        /\ Record(n, "none")
     \/ /\ fcm /\ n \in online
        /\ turn' = [turn EXCEPT ![n] = "done"]
        /\ UNCHANGED news
     \/ /\ ~fcm
        /\ turn' = [turn EXCEPT ![n] = "done"]
        /\ Record(n, "unset")
  /\ UNCHANGED <<accountVars, fcm, online, pushes>>

(* Mistake: no test for an empty token.                                     *)
StartPushAnyhow(n) ==
  /\ turn[n] = "offline"
  /\ turn' = [turn EXCEPT ![n] = "done"]
  /\ \E row \in users :
       /\ row.name = n
       /\ pushes' = pushes \cup {[kind |-> "turn", name |-> n, token |-> row.token]}
  /\ Tell(n)
  /\ UNCHANGED <<accountVars, fcm, online>>

(* GetFCMToken, and `go func' if there is a token.                          *)
StartPush(n) ==
  /\ turn[n] = "offline"
  /\ turn' = [turn EXCEPT ![n] = "done"]
  /\ \E row \in users :
       /\ row.name = n
       /\ \/ /\ row.token = ""
             /\ Record(n, "tokenless")
             /\ UNCHANGED pushes
          \/ /\ row.token # ""
             /\ Tell(n)
             /\ pushes' = pushes \cup {[kind |-> "turn", name |-> n, token |-> row.token]}
  /\ UNCHANGED <<accountVars, fcm, online>>

GetTokenFails(n) ==
  /\ "database" \in Faults
  /\ turn[n] = "offline"
  /\ turn' = [turn EXCEPT ![n] = "done"]
  /\ Record(n, "unread")
  /\ UNCHANGED <<accountVars, fcm, online, pushes>>

(* Somebody has joined: GetAdminFCMTokens, in a goroutine.                  *)
PushToAdmins ==
  /\ server = "serving"
  /\ fcm
  /\ pushes' = pushes \cup
       {[kind |-> "joined", name |-> row.name, token |-> row.token] :
          row \in {r \in users : r.role = "admin" /\ r.token # ""}}
  /\ UNCHANGED <<accountVars, fcm, online, turn, news>>

(* SendYourTurnNotification, which logs fcmToken[:20] too, and              *)
(* SendAdminUserJoinedNotification, which does not.                         *)
Sendable(p) == p.kind = "joined" \/ p.token # "short"

SendPush(p) ==
  /\ p \in pushes
  /\ Sendable(p)
  /\ pushes' = pushes \ {p}
  /\ UNCHANGED <<accountVars, fcm, online, turn, news>>

(* The process ends: announcements under way are lost with it.              *)
Restart ==
  /\ AccountsRestart
  /\ fcm' \in BOOLEAN
  /\ online' = {}
  /\ pushes' = {}
  /\ turn' = [n \in Names |-> "none"]
  /\ news' = [n \in Names |-> "none"]

Announce(n) ==
  SendYourTurn(n) \/ SendPanics(n) \/ AskConnected(n) \/ StartPush(n) \/ GetTokenFails(n)

Next ==
  \/ AccountsStep /\ UNCHANGED pushVars
  \/ \E n \in Names : Connect(n) \/ Disconnect(n) \/ Call(n) \/ Announce(n)
  \/ PushToAdmins
  \/ \E p \in pushes : SendPush(p)
  \/ Restart

Spec == Init /\ [][Next]_vars

-----------------------------------------------------------------------------
(* Properties.                                                              *)

(* README, "queue:your_turn" and "FCM push notifications": once CallNextUser *)
(* has run, the user was told of the turn by a message or a push, whenever  *)
(* the app was opened or closed in the meantime, or there is a reason: the  *)
(* user was connected when IsUserConnected asked, but had connected after   *)
(* the message or had no room for it; the message ended the request; or the *)
(* push could not be addressed.                                             *)
TurnIsAnnounced ==
  \A n \in Names : turn[n] = "done" => news[n] = "told" \/ news[n] \in Reasons

(* Nothing recovers a panic of a goroutine that sends a push: whatever      *)
(* tokens clients have stored, the one it holds can be shortened for the    *)
(* log.                                                                     *)
NoPushPanics == \A p \in pushes : Sendable(p)

=============================================================================
