---------------------- MODULE PushNotificationsProofs ----------------------
(***************************************************************************)
(* Theorems about Accounts and PushNotifications, for any names, addresses *)
(* and handlers.                                                           *)
(*                                                                         *)
(* The argument: the accounts do not depend on the announcements, so their *)
(* invariant AInv is shown for the steps on the table users alone.  Rows   *)
(* enter it without a token, in an order that starts with the              *)
(* administrator, and only through an INSERT that finds name and address   *)
(* free.                                                                   *)
(***************************************************************************)
EXTENDS PushNotifications, TLAPS

USE AccountsAssumption

(* While the server starts nobody registers, and it is known what            *)
(* CreateDefaultUsers has written.                                           *)
Seeding ==
  /\ server # "serving" => \A h \in Handlers : request[h].stage = "idle"
  /\ server = "admin" => users = {}
  /\ server = "test" => users = {NewRow(AdminName, NoEmail, "admin")}

(* The table has an administrator before anybody else.                      *)
AdminFirst ==
  users # {} \/ server = "serving" => unseeded \/ \E row \in users : row.role = "admin"

(* No row has a token that is too short.                                    *)
TokensLongEnough == \A row \in users : row.token # "short"

AInv == AccountsTypeOK /\ Seeding /\ AccountsDiffer /\ AdminFirst /\ TokensLongEnough

AccountsNext == AccountsStep \/ AccountsRestart

-----------------------------------------------------------------------------

(* Whatever happens, the accounts take a step of their own or none.          *)
LEMMA AccountsOfNext == [Next]_vars => [AccountsNext]_accountVars
<1> SUFFICES ASSUME [Next]_vars PROVE AccountsNext \/ UNCHANGED accountVars
  OBVIOUS
<1>1. CASE UNCHANGED vars
  BY <1>1 DEF vars
<1>2. CASE AccountsStep
  BY <1>2 DEF AccountsNext
<1>3. ASSUME NEW n \in Names, Connect(n) \/ Disconnect(n) \/ Call(n) \/ Announce(n)
      PROVE UNCHANGED accountVars
  BY <1>3 DEF Connect, Disconnect, Call, Announce, SendYourTurn, SendPanics, AskConnected, StartPush, GetTokenFails
<1>4. CASE PushToAdmins \/ \E p \in pushes : SendPush(p)
  BY <1>4 DEF PushToAdmins, SendPush
<1>5. CASE Restart
  BY <1>5 DEF Restart, AccountsNext
<1> QED
  BY <1>1, <1>2, <1>3, <1>4, <1>5 DEF Next

(* The table as init.sql leaves it, and no request.                         *)
LEMMA AccountsStart == AccountsInit => AInv
<1> SUFFICES ASSUME AccountsInit PROVE AInv
  OBVIOUS
<1>1. users = {} \/ \E email \in Emails : users = {NewRow(AdminName, email, "admin")}
  BY DEF AccountsInit
<1>2. \A row \in users : row \in Row /\ row.role = "admin" /\ row.token = ""
  <2>1. ASSUME NEW email \in Emails, users = {NewRow(AdminName, email, "admin")}
        PROVE  \A row \in users : row \in Row /\ row.role = "admin" /\ row.token = ""
    <3> DEFINE new == NewRow(AdminName, email, "admin")
    <3>1. new \in Row /\ new.role = "admin" /\ new.token = ""
      BY DEF NewRow, Row, Tokens
    <3> HIDE DEF new
    <3>2. users = {new}
      BY <2>1 DEF new
    <3> QED
      BY <3>1, <3>2
  <2> QED
    BY <1>1, <2>1
<1>3. AccountsTypeOK
  BY <1>2 DEF AccountsInit, AccountsTypeOK, Request, Idle
<1>4. Seeding
  BY DEF AccountsInit, Seeding, Idle
<1>5. AccountsDiffer
  BY <1>1 DEF AccountsDiffer
<1> QED
  BY <1>2, <1>3, <1>4, <1>5 DEF AInv, AdminFirst, TokensLongEnough, AccountsInit

(* An INSERT of a free name and address keeps the accounts apart.            *)
LEMMA InsertKeepsApart ==
  ASSUME AccountsDiffer, TokensLongEnough, users \in SUBSET Row,
         NEW name \in Names, NEW email \in Emails \cup {NoEmail}, NEW role \in {"admin", "user"},
         ~Taken(name, email), users' = users \cup {NewRow(name, email, role)}
  PROVE  AccountsDiffer' /\ TokensLongEnough' /\ users' \in SUBSET Row
<1> DEFINE new == NewRow(name, email, role)
<1>1. new \in Row /\ new.name = name /\ new.email = email /\ new.token = ""
  BY DEF NewRow, Row, Tokens
<1>2. \A row \in users : row.name # name /\ ~(row.email = email /\ row.email # NoEmail)
  BY DEF Taken, NameTaken, EmailTaken
<1> HIDE DEF new
<1>3. users' = users \cup {new}
  BY DEF new
<1>4. AccountsDiffer'
  BY <1>1, <1>2, <1>3 DEF AccountsDiffer
<1> QED
  BY <1>1, <1>3, <1>4 DEF TokensLongEnough

(* Every step of the accounts keeps their invariant.                        *)
LEMMA AccountsKeepInv == AInv /\ [AccountsNext]_accountVars => AInv'
<1> SUFFICES ASSUME AInv, [AccountsNext]_accountVars PROVE AInv'
  OBVIOUS
<1> USE DEF AInv, AccountsTypeOK
<1>1. CASE UNCHANGED accountVars
  BY <1>1 DEF accountVars, Seeding, AccountsDiffer, AdminFirst, TokensLongEnough
<1>2. CASE CountUsers
  BY <1>2 DEF CountUsers, Seeding, AccountsDiffer, AdminFirst, TokensLongEnough
<1>3. CASE CreateAdmin
  <2> DEFINE new == NewRow(AdminName, NoEmail, "admin")
  <2>1. users = {} /\ users' = {new} /\ server' = "test" /\ UNCHANGED <<request, unseeded>>
    BY <1>3 DEF CreateAdmin, Seeding
  <2>2. new \in Row /\ new.role = "admin" /\ new.token = ""
    BY DEF NewRow, Row, Tokens
  <2>3. Seeding'
    BY <1>3, <2>1 DEF CreateAdmin, Seeding
  <2> HIDE DEF new
  <2> QED
    BY <2>1, <2>2, <2>3 DEF AccountsDiffer, AdminFirst, TokensLongEnough
<1>4. CASE CreateTestUser
  <2>1. users = {NewRow(AdminName, NoEmail, "admin")}
    BY <1>4 DEF CreateTestUser, Seeding
  <2>2. ~Taken(TestName, NoEmail)
    <3>1. \A row \in users : row.name = AdminName
      <4> DEFINE new == NewRow(AdminName, NoEmail, "admin")
      <4>1. new.name = AdminName
        BY DEF NewRow
      <4> HIDE DEF new
      <4>2. users = {new}
        BY <2>1 DEF new
      <4> QED
        BY <4>1, <4>2
    <3> QED
      BY <3>1 DEF Taken, NameTaken, EmailTaken
  <2>3. users' = users \cup {NewRow(TestName, NoEmail, "user")} /\ server' = "serving" /\ UNCHANGED <<request, unseeded>>
    BY <1>4 DEF CreateTestUser
  <2>4. AccountsDiffer' /\ TokensLongEnough' /\ users' \in SUBSET Row
    BY <2>2, <2>3, InsertKeepsApart
  <2>5. \E row \in users : row.role = "admin"
    BY <2>1 DEF NewRow
  <2> QED
    BY <2>3, <2>4, <2>5 DEF Seeding, AdminFirst
<1>5. CASE SeedingFails
  BY <1>5 DEF SeedingFails, Seeding, AccountsDiffer, AdminFirst, TokensLongEnough
<1>6. ASSUME NEW h \in Handlers, NEW name \in Names, NEW email \in Emails, CheckName(h, name, email)
      PROVE AInv'
  BY <1>6 DEF CheckName, Request, Seeding, AccountsDiffer, AdminFirst, TokensLongEnough
<1>7. ASSUME NEW h \in Handlers, CheckEmail(h) \/ FailRegister(h) PROVE AInv'
  BY <1>7 DEF CheckEmail, FailRegister, Answer, Idle, Request, Seeding, AccountsDiffer, AdminFirst, TokensLongEnough
<1>8. ASSUME NEW h \in Handlers, Create(h) PROVE AInv'
  <2> DEFINE name == request[h].name
             email == request[h].email
  <2>1. name \in Names /\ email \in Emails \cup {NoEmail}
    BY DEF Request
  <2>2. server = "serving" /\ UNCHANGED <<server, unseeded>>
    BY <1>8 DEF Create, Seeding
  <2>3. request' \in [Handlers -> Request]
    BY <1>8 DEF Create, Answer, Idle, Request
  <2>4. CASE users' = users
    BY <2>2, <2>3, <2>4 DEF Seeding, AccountsDiffer, AdminFirst, TokensLongEnough
  <2>5. CASE ~Taken(name, email) /\ users' = users \cup {NewRow(name, email, "user")}
    <3>1. AccountsDiffer' /\ TokensLongEnough' /\ users' \in SUBSET Row
      BY <2>1, <2>5, InsertKeepsApart
    <3> QED
      BY <2>2, <2>3, <2>5, <3>1 DEF Seeding, AdminFirst
  <2> QED
    BY <1>8, <2>4, <2>5 DEF Create
<1>9. ASSUME NEW row \in users, NEW token \in Tokens, UpdateFCMToken(row, token) PROVE AInv'
  <2> DEFINE new == [row EXCEPT !.token = token]
  <2>1. /\ new \in Row /\ new.name = row.name /\ new.email = row.email
        /\ new.role = row.role /\ new.token # "short"
    BY <1>9 DEF UpdateFCMToken, Row
  <2>2. /\ users' = (users \ {row}) \cup {new}
        /\ server = "serving" /\ UNCHANGED <<server, request, unseeded>>
    BY <1>9 DEF UpdateFCMToken
  <2> HIDE DEF new
  <2>3. AccountsDiffer'
    BY <2>1, <2>2 DEF AccountsDiffer
  <2>4. AdminFirst' /\ TokensLongEnough'
    BY <2>1, <2>2 DEF AdminFirst, TokensLongEnough
  <2> QED
    BY <2>1, <2>2, <2>3, <2>4 DEF Seeding
<1>10. CASE AccountsRestart
  BY <1>10 DEF AccountsRestart, Idle, Request, Seeding, AccountsDiffer, AdminFirst, TokensLongEnough
<1> QED
  BY <1>1, <1>2, <1>3, <1>4, <1>5, <1>6, <1>7, <1>8, <1>9, <1>10 DEF AccountsNext, AccountsStep

(* What holds of the table users always.                                    *)
THEOREM AccountsInvariance == Spec => []AInv
<1>1. Init => AInv
  BY AccountsStart DEF Init
<1>2. AInv /\ [Next]_vars => AInv'
  BY AccountsOfNext, AccountsKeepInv
<1> QED
  BY <1>1, <1>2, PTL DEF Spec

(* Registrations that overlap never make two accounts of one name or        *)
(* address.                                                                 *)
THEOREM AccountsStayDifferent == Spec => []AccountsDiffer
<1>1. AInv => AccountsDiffer
  BY DEF AInv
<1> QED
  BY <1>1, AccountsInvariance, PTL

(* Whenever the server was stopped before, it serves with an administrator. *)
THEOREM AdminIsThere == Spec => []AdminExists
<1>1. AInv => AdminExists
  BY DEF AInv, AdminFirst, AdminExists
<1> QED
  BY <1>1, AccountsInvariance, PTL

(* Nobody's account is taken over or changed by somebody else's request.    *)
THEOREM AccountsStay == Spec => AccountsAreKept
<1> DEFINE Kept == \A r \in users : \E s \in users' :
                     s.name = r.name /\ s.email = r.email /\ s.role = r.role
<1>1. AInv /\ [Next]_vars => [Kept]_accountVars
  <2> SUFFICES ASSUME AInv, AccountsNext PROVE Kept
    BY AccountsOfNext
  <2>1. CASE users \subseteq users'
    BY <2>1
  <2>2. ASSUME NEW row \in users, NEW token \in Tokens, UpdateFCMToken(row, token) PROVE Kept
    <3>1. /\ [row EXCEPT !.token = token].name = row.name
          /\ [row EXCEPT !.token = token].email = row.email
          /\ [row EXCEPT !.token = token].role = row.role
      BY DEF AInv, AccountsTypeOK, Row
    <3> QED
      BY <2>2, <3>1 DEF UpdateFCMToken
  <2> QED
    BY <2>1, <2>2 DEF AccountsNext, AccountsStep, AccountsRestart, CountUsers, CreateAdmin, CreateTestUser,
                      SeedingFails, CheckName, CheckEmail, Create, FailRegister
<1> QED
  BY <1>1, AccountsInvariance, PTL DEF Spec, AccountsAreKept

-----------------------------------------------------------------------------
(* The announcements.  Between the message and IsUserConnected, a user who   *)
(* is connected got the message, had no room for it or has connected since. *)
TurnInv(n) ==
  /\ turn[n] = "sent" /\ n \in online => news[n] # "none"
  /\ turn[n] = "done" => news[n] # "none"

PushTypeOK ==
  /\ fcm \in BOOLEAN
  /\ online \in SUBSET Names
  /\ turn \in [Names -> {"none", "called", "sent", "offline", "done"}]
  /\ pushes \in SUBSET Push
  /\ news \in [Names -> {"none", "told"} \cup Reasons]

PInv == PushTypeOK /\ NoPushPanics /\ \A n \in Names : TurnInv(n)

(* No turn is announced and no push is under way.                           *)
LEMMA PushesStart == Init => PInv
BY DEF Init, PInv, PushTypeOK, NoPushPanics, TurnInv

(* A step of the announcement of one user keeps the types, and the parts of *)
(* the other users.                                                         *)
LEMMA AnnounceKeepsInv ==
  ASSUME AInv, PInv, NEW n \in Names, Connect(n) \/ Disconnect(n) \/ Call(n) \/ Announce(n)
  PROVE  PInv'
<1> USE DEF PInv, PushTypeOK
<1>1. Tell(n) => /\ news' \in [Names -> {"none", "told"} \cup Reasons] /\ news'[n] = "told"
                 /\ \A m \in Names \ {n} : news'[m] = news[m]
  BY DEF Tell
<1>10. ASSUME NEW reason \in Reasons \cup {"none"}, Record(n, reason)
       PROVE  /\ news' \in [Names -> {"none", "told"} \cup Reasons] /\ news'[n] \in {"told", reason}
              /\ \A m \in Names \ {n} : news'[m] = news[m]
  BY <1>10 DEF Record
<1>11. /\ "opened" \in Reasons /\ "full" \in Reasons /\ "panic" \in Reasons
       /\ "unset" \in Reasons /\ "tokenless" \in Reasons /\ "unread" \in Reasons
  BY DEF Reasons
<1>2. CASE Connect(n)
  <2>1. PushTypeOK' /\ UNCHANGED <<turn, pushes>>
    BY <1>1, <1>10, <1>11, <1>2 DEF Connect
  <2>2. \A m \in Names : TurnInv(m)'
    BY <1>1, <1>10, <1>11, <1>2 DEF Connect, TurnInv
  <2> QED
    BY <2>1, <2>2 DEF NoPushPanics
<1>3. CASE Disconnect(n)
  BY <1>3 DEF Disconnect, NoPushPanics, TurnInv
<1>4. CASE Call(n)
  BY <1>4 DEF Call, NoPushPanics, TurnInv
<1>5. CASE SendYourTurn(n)
  <2>1. PushTypeOK' /\ UNCHANGED pushes
    BY <1>1, <1>10, <1>11, <1>5 DEF SendYourTurn
  <2>2. /\ turn'[n] = "sent" /\ n \in online' => news'[n] # "none"
        /\ turn'[n] = "done" => news'[n] # "none"
    BY <1>1, <1>10, <1>11, <1>5 DEF SendYourTurn
  <2>3. \A m \in Names \ {n} : news'[m] = news[m]
    BY <1>1, <1>10, <1>11, <1>5 DEF SendYourTurn
  <2>4. \A m \in Names \ {n} : TurnInv(m)'
    BY <1>5, <2>3 DEF SendYourTurn, TurnInv
  <2> QED
    BY <2>1, <2>2, <2>4 DEF NoPushPanics, TurnInv
<1>9. CASE SendPanics(n)
  <2>1. PushTypeOK' /\ UNCHANGED pushes
    BY <1>1, <1>10, <1>11, <1>9 DEF SendPanics
  <2>2. \A m \in Names : TurnInv(m)'
    BY <1>1, <1>10, <1>11, <1>9 DEF SendPanics, TurnInv
  <2> QED
    BY <2>1, <2>2 DEF NoPushPanics
<1>6. CASE AskConnected(n)
  <2>1. PushTypeOK' /\ UNCHANGED pushes
    BY <1>1, <1>10, <1>11, <1>6 DEF AskConnected
  <2>2. /\ turn'[n] = "sent" /\ n \in online' => news'[n] # "none"
        /\ turn'[n] = "done" => news'[n] # "none"
    BY <1>1, <1>10, <1>11, <1>6 DEF AskConnected, TurnInv
  <2>3. \A m \in Names \ {n} : news'[m] = news[m]
    BY <1>1, <1>10, <1>11, <1>6 DEF AskConnected
  <2>4. \A m \in Names \ {n} : TurnInv(m)'
    BY <1>6, <2>3 DEF AskConnected, TurnInv
  <2> QED
    BY <2>1, <2>2, <2>4 DEF NoPushPanics, TurnInv
<1>7. CASE StartPush(n)
  <2>1. PICK row \in users : row.name = n /\
          \/ row.token = "" /\ Record(n, "tokenless") /\ UNCHANGED pushes
          \/ row.token # "" /\ Tell(n) /\
             pushes' = pushes \cup {[kind |-> "turn", name |-> n, token |-> row.token]}
    BY <1>7 DEF StartPush
  <2>2. row.token \in Tokens /\ row.token # "short"
    BY DEF AInv, AccountsTypeOK, Row, TokensLongEnough
  <2>3. pushes' \in SUBSET Push /\ NoPushPanics'
    <3> DEFINE new == [kind |-> "turn", name |-> n, token |-> row.token]
    <3>1. row.token # "" => new \in Push /\ Sendable(new)
      <4>1. new.kind = "turn" /\ new.token = row.token
        OBVIOUS
      <4>2. row.token # "" => new \in Push
        BY <2>2 DEF Push
      <4> QED
        BY <2>2, <4>1, <4>2 DEF Sendable
    <3>2. pushes' = pushes \/ (row.token # "" /\ pushes' = pushes \cup {new})
      BY <2>1
    <3> HIDE DEF new
    <3> QED
      BY <3>1, <3>2 DEF NoPushPanics
  <2>4. /\ news' \in [Names -> {"none", "told"} \cup Reasons] /\ news'[n] # "none"
        /\ \A m \in Names \ {n} : news'[m] = news[m]
    BY <1>1, <1>10, <1>11, <2>1
  <2>5. PushTypeOK'
    BY <1>7, <2>3, <2>4 DEF StartPush
  <2>6. \A m \in Names : TurnInv(m)'
    BY <1>7, <2>4 DEF StartPush, TurnInv
  <2> QED
    BY <2>3, <2>5, <2>6
<1>8. CASE GetTokenFails(n)
  <2>1. PushTypeOK' /\ UNCHANGED pushes
    BY <1>1, <1>10, <1>11, <1>8 DEF GetTokenFails
  <2>2. /\ turn'[n] = "sent" /\ n \in online' => news'[n] # "none"
        /\ turn'[n] = "done" => news'[n] # "none"
    BY <1>1, <1>10, <1>11, <1>8 DEF GetTokenFails
  <2>3. \A m \in Names \ {n} : news'[m] = news[m]
    BY <1>1, <1>10, <1>11, <1>8 DEF GetTokenFails
  <2>4. \A m \in Names \ {n} : TurnInv(m)'
    BY <1>8, <2>3 DEF GetTokenFails, TurnInv
  <2> QED
    BY <2>1, <2>2, <2>4 DEF NoPushPanics, TurnInv
<1> QED
  BY <1>2, <1>3, <1>4, <1>5, <1>6, <1>7, <1>8, <1>9 DEF Announce

(* The part of the invariant about pushes is inductive.                     *)
LEMMA PushesKeepInv == AInv /\ PInv /\ [Next]_vars => PInv'
<1> SUFFICES ASSUME AInv, PInv, [Next]_vars PROVE PInv'
  OBVIOUS
<1> USE DEF PInv, PushTypeOK
<1>1. CASE UNCHANGED pushVars
  BY <1>1 DEF pushVars, NoPushPanics, TurnInv
<1>2. ASSUME NEW n \in Names, Connect(n) \/ Disconnect(n) \/ Call(n) \/ Announce(n) PROVE PInv'
  BY <1>2, AnnounceKeepsInv
<1>3. CASE PushToAdmins
  <2>1. \A row \in users : row \in Row /\ row.token # "short"
    BY DEF AInv, AccountsTypeOK, TokensLongEnough
  <2>2. \A row \in users : row.token # "" =>
          /\ [kind |-> "joined", name |-> row.name, token |-> row.token] \in Push
          /\ Sendable([kind |-> "joined", name |-> row.name, token |-> row.token])
    BY <2>1 DEF Row, Push, Sendable
  <2>3. pushes' \in SUBSET Push /\ NoPushPanics'
    <3> DEFINE new(row) == [kind |-> "joined", name |-> row.name, token |-> row.token]
    <3>1. \A row \in users : row.token # "" => new(row) \in Push /\ Sendable(new(row))
      BY <2>2
    <3>2. pushes' = pushes \cup {new(row) : row \in {r \in users : r.role = "admin" /\ r.token # ""}}
      BY <1>3 DEF PushToAdmins
    <3> HIDE DEF new
    <3> QED
      BY <3>1, <3>2 DEF NoPushPanics
  <2> QED
    BY <1>3, <2>3 DEF PushToAdmins, TurnInv
<1>4. ASSUME NEW p \in pushes, SendPush(p) PROVE PInv'
  BY <1>4 DEF SendPush, NoPushPanics, TurnInv
<1>5. CASE Restart
  BY <1>5 DEF Restart, NoPushPanics, TurnInv
<1> QED
  BY <1>1, <1>2, <1>3, <1>4, <1>5 DEF Next, vars

(* The invariant of accounts and pushes holds in every reachable state.     *)
THEOREM PushInvariance == Spec => [](AInv /\ PInv)
<1>1. Init => PInv
  BY PushesStart
<1>2. AInv /\ PInv /\ [Next]_vars => PInv'
  BY PushesKeepInv
<1> QED
  BY <1>1, <1>2, AccountsInvariance, PTL DEF Spec

(* Every variable keeps its type.                                           *)
THEOREM PushTypeCorrect == Spec => []TypeOK
<1>1. AInv /\ PInv => TypeOK
  BY DEF AInv, PInv, PushTypeOK, TypeOK
<1> QED
  BY <1>1, PushInvariance, PTL

(* No goroutine that sends a push panics on its token.                      *)
THEOREM PushesNeverPanic == Spec => []NoPushPanics
<1>1. AInv /\ PInv => NoPushPanics
  BY DEF PInv
<1> QED
  BY <1>1, PushInvariance, PTL

(* Every turn is announced, whenever the user connects and disconnects.     *)
THEOREM EveryTurnAnnounced == Spec => []TurnIsAnnounced
<1>1. AInv /\ PInv => TurnIsAnnounced
  BY DEF PInv, PushTypeOK, TurnInv, TurnIsAnnounced
<1> QED
  BY <1>1, PushInvariance, PTL

=============================================================================
