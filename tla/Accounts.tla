------------------------------ MODULE Accounts ------------------------------
(***************************************************************************)
(* The table users: what the server makes sure of when it starts            *)
(* (config/database.go, main.go), registration (services/auth_service.go)   *)
(* and the FCM tokens (repositories/user_repository.go).                    *)
(*                                                                         *)
(* Every statement is a transaction of its own and one action here, so that *)
(* registrations overlap and the server may stop between any two of them.   *)
(* The only thing the database adds is the two UNIQUE columns.  A login     *)
(* changes nothing and is left out, with the passwords; requests that are   *)
(* refused at once are left out too.                                        *)
(***************************************************************************)
EXTENDS Naturals

CONSTANTS
  Names,       \* user names
  AdminName,   \* "admin"
  TestName,    \* "user1"
  Emails,      \* addresses
  NoEmail,     \* NULL
  Handlers,    \* goroutines that serve HTTP requests
  Phones,      \* bound: the users who connect, have FCM tokens and are called
  Faults       \* which failures happen: "database", "full", "panic", "restart"

ASSUME AccountsAssumption ==
  /\ AdminName \in Names /\ TestName \in Names /\ AdminName # TestName
  /\ NoEmail \notin Emails
  /\ Phones \subseteq Names
  /\ Faults \subseteq {"database", "full", "panic", "restart"}

VARIABLES
  users,      \* the rows
  server,     \* the statement of CreateDefaultUsers that is next, or "serving"
  request,    \* what each handler is doing
  unseeded    \* history: creating the administrator failed, and the server went on

accountVars == <<users, server, request, unseeded>>

(* "" is NULL as well, and "short" has less than the 20 characters that the *)
(* log shows of a token.                                                    *)
Tokens == {"", "short", "long"}

Row == [name : Names, email : Emails \cup {NoEmail}, role : {"admin", "user"}, token : Tokens]

Request == [stage : {"idle", "email", "insert"}, name : Names, email : Emails \cup {NoEmail}]
Idle == [stage |-> "idle", name |-> AdminName, email |-> NoEmail]

AccountsTypeOK ==
  /\ users \in SUBSET Row
  /\ server \in {"count", "admin", "test", "serving"}
  /\ request \in [Handlers -> Request]
  /\ unseeded \in BOOLEAN

NewRow(name, email, role) == [name |-> name, email |-> email, role |-> role, token |-> ""]

(* init.sql, if it was run, has created the administrator.                  *)
AccountsInit ==
  /\ \/ users = {}
     \/ \E email \in Emails : users = {NewRow(AdminName, email, "admin")}
  /\ server = "count"
  /\ request = [h \in Handlers |-> Idle]
  /\ unseeded = FALSE

(* The columns that are UNIQUE.  NULL is no address.                         *)
NameTaken(name) == \E row \in users : row.name = name
EmailTaken(email) == email # NoEmail /\ \E row \in users : row.email = email

(* Mistake: UNIQUE (username) only.                                         *)
TakenByName(name, email) == NameTaken(name)

(* INSERT fails if the name or the address is there already.                *)
Taken(name, email) == NameTaken(name) \/ EmailTaken(email)

-----------------------------------------------------------------------------
(* CreateDefaultUsers, before the server listens.  main.go logs an error    *)
(* and goes on.                                                             *)

CountUsers ==
  /\ server = "count"
  /\ server' = IF users = {} THEN "admin" ELSE "serving"
  /\ UNCHANGED <<users, request, unseeded>>

(* Mistake: the test user first.                                            *)
CreateTestUserFirst ==
  \/ /\ server = "admin"
     /\ users' = users \cup {NewRow(TestName, NoEmail, "user")}
     /\ server' = "admin2"
     /\ UNCHANGED <<request, unseeded>>
  \/ /\ server = "admin2"
     /\ users' = users \cup {NewRow(AdminName, NoEmail, "admin")}
     /\ server' = "serving"
     /\ UNCHANGED <<request, unseeded>>

CreateAdmin ==
  /\ server = "admin"
  /\ users' = users \cup {NewRow(AdminName, NoEmail, "admin")}
  /\ server' = "test"
  /\ UNCHANGED <<request, unseeded>>

CreateTestUser ==
  /\ server = "test"
  /\ users' = users \cup {NewRow(TestName, NoEmail, "user")}
  /\ server' = "serving"
  /\ UNCHANGED <<request, unseeded>>

SeedingFails ==
  /\ "database" \in Faults
  /\ server # "serving"
  /\ server' = "serving"
  /\ unseeded' = (unseeded \/ server \in {"count", "admin"})
  /\ UNCHANGED <<users, request>>

(* The process ends, and starts again.                                      *)
AccountsRestart ==
  /\ "restart" \in Faults
  /\ server' = "count"
  /\ request' = [h \in Handlers |-> Idle]
  /\ UNCHANGED <<users, unseeded>>

-----------------------------------------------------------------------------
(* Register.                                                                *)

Answer(h) == request' = [request EXCEPT ![h] = Idle]

(* GetByUsername finds nobody.                                              *)
CheckName(h, name, email) ==
  /\ server = "serving"
  /\ request[h].stage = "idle"
  /\ ~\E row \in users : row.name = name
  /\ request' = [request EXCEPT ![h] = [stage |-> "email", name |-> name, email |-> email]]
  /\ UNCHANGED <<users, server, unseeded>>

(* GetByEmail.                                                              *)
CheckEmail(h) ==
  /\ request[h].stage = "email"
  /\ \/ /\ ~\E row \in users : row.email = request[h].email
        /\ request' = [request EXCEPT ![h].stage = "insert"]
     \/ /\ \E row \in users : row.email = request[h].email
        /\ Answer(h)
  /\ UNCHANGED <<users, server, unseeded>>

(* Mistake: INSERT ... ON CONFLICT (username) DO UPDATE SET email, role.    *)
CreateOrReplace(h) ==
  LET name == request[h].name
      email == request[h].email IN
  /\ request[h].stage = "insert"
  /\ users' = {row \in users : row.name # name} \cup {NewRow(name, email, "user")}
  /\ Answer(h)
  /\ UNCHANGED <<server, unseeded>>

(* Create, after the password was hashed.                                   *)
Create(h) ==
  LET name == request[h].name
      email == request[h].email IN
  /\ request[h].stage = "insert"
  /\ \/ /\ ~Taken(name, email)
        /\ users' = users \cup {NewRow(name, email, "user")}
     \/ /\ Taken(name, email)
        /\ UNCHANGED users
  /\ Answer(h)
  /\ UNCHANGED <<server, unseeded>>

FailRegister(h) ==
  /\ "database" \in Faults
  /\ request[h].stage # "idle"
  /\ Answer(h)
  /\ UNCHANGED <<users, server, unseeded>>

-----------------------------------------------------------------------------
(* Mistake: the log does not shorten the token.                             *)
UpdateAnyToken(row, token) ==
  /\ server = "serving"
  /\ row \in users
  /\ row.name \in Phones
  /\ users' = (users \ {row}) \cup {[row EXCEPT !.token = token]}
  /\ UNCHANGED <<server, request, unseeded>>

(* UpdateFCMToken, of the user whose row it is.  For a short token the slice *)
(* fcmToken[:20] panics before the statement, and recover.New() answers.    *)
UpdateFCMToken(row, token) ==
  /\ server = "serving"
  /\ row \in users
  /\ row.name \in Phones
  /\ token # "short"
  /\ users' = (users \ {row}) \cup {[row EXCEPT !.token = token]}
  /\ UNCHANGED <<server, request, unseeded>>

AccountsStep ==
  \/ CountUsers \/ CreateAdmin \/ CreateTestUser \/ SeedingFails
  \/ \E h \in Handlers :
       \/ \E name \in Names, email \in Emails : CheckName(h, name, email)
       \/ CheckEmail(h) \/ Create(h) \/ FailRegister(h)
  \/ \E row \in users, token \in Tokens : UpdateFCMToken(row, token)

-----------------------------------------------------------------------------
(* Properties.                                                              *)

(* auth_service.go, "username already exists" and "email already            *)
(* registered": no two accounts share a name or an address, although the    *)
(* tests of overlapping registrations all pass.                             *)
AccountsDiffer ==
  \A r, s \in users :
    r.name = s.name \/ (r.email = s.email /\ r.email # NoEmail) => r = s

(* A registration takes no account over: whoever has an account keeps it,   *)
(* with its address and its role.                                           *)
AccountsAreKept == [][
  \A r \in users : \E s \in users' :
    s.name = r.name /\ s.email = r.email /\ s.role = r.role]_accountVars

(* main.go, "Create default users": the server is not open to requests      *)
(* without an administrator, whenever it was stopped before, unless the     *)
(* database failed when it should have created one.                         *)
AdminExists ==
  server = "serving" => unseeded \/ \E row \in users : row.role = "admin"

=============================================================================
