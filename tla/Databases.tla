------------------------------- MODULE Databases ------------------------------
(***************************************************************************)
(* MySQL databases, users and grants of one account: the requests of       *)
(* databases/service.go, their transactions, and the six kinds of jobs     *)
(* that change the MySQL server (agent/database/mysql).                    *)
(*                                                                         *)
(* A job names rows by ID and MySQL objects by system_name, which is made  *)
(* of the account and the name and is free again once the row is gone.     *)
(***************************************************************************)
EXTENDS PanelWorker

CONSTANTS
  Db,         \* databases IDs, never reused
  DbUser,     \* database_users IDs, never reused
  DbName,     \* names of databases
  UserName,   \* names of users
  DbLimit,    \* the package's limit of databases
  UserLimit   \* the package's limit of users

ASSUME DatabaseAssumption ==
  /\ None \notin Db \cup DbUser \cup DbName \cup UserName
  /\ DbLimit \in Nat /\ UserLimit \in Nat

VARIABLES
  db,      \* the databases table
  user,    \* the database_users table
  grant,   \* the database_grants table: the status of a pair
  mysql    \* the MySQL server

dbVars == <<db, user, grant, mysql>>

Status    == {"none", "pending", "active", "error", "deleted"}
DbRow     == [status : Status, name : DbName \cup {None}]
UserRow   == [status : Status, name : UserName \cup {None}]
GrantRow  == {"none", "pending", "active", "error"}
DbRequest == [kind : {"db.create", "db.delete", "user.create", "user.delete",
                      "grant.create", "grant.delete"},
              db : Db \cup {None}, user : DbUser \cup {None},
              name : DbName \cup UserName \cup {None}]
DbCall == [op : {"db.create", "db.delete", "user.create", "user.delete",
                 "grant.create", "grant.delete"},
           db : DbName \cup {None}, user : UserName \cup {None}]
Server == [dbs : SUBSET DbName, users : SUBSET UserName,
           rights : SUBSET (DbName \X UserName)]

DbTypeOK ==
  /\ WorkerTypeOK(DbRequest, DbCall)
  /\ db \in [Db -> DbRow] /\ user \in [DbUser -> UserRow]
  /\ grant \in [Db \X DbUser -> GrantRow]
  /\ mysql \in Server

NoDb == [status |-> "none", name |-> None]

DbNone ==
  /\ db = [d \in Db |-> NoDb] /\ user = [u \in DbUser |-> NoDb]
  /\ grant = [g \in Db \X DbUser |-> "none"]
  /\ mysql = [dbs |-> {}, users |-> {}, rights |-> {}]
(* Nothing, or a database and a user that are in use. *)
DbInit ==
  \/ DbNone
  \/ /\ grant = [g \in Db \X DbUser |-> "none"]
     /\ \E d \in Db, u \in DbUser, n \in DbName, m \in UserName :
          /\ db = [e \in Db |-> IF e = d THEN [status |-> "active", name |-> n] ELSE NoDb]
          /\ user = [v \in DbUser |-> IF v = u THEN [status |-> "active", name |-> m]
                                                ELSE NoDb]
          /\ mysql = [dbs |-> {n}, users |-> {m}, rights |-> {}]

-------------------------------------------------------------------------------
(* databases, database_users and database_grants, one operator a           *)
(* statement.                                                              *)

DbRows    == {d \in Db : db[d].status \notin {"none", "deleted"}}
UserRows  == {u \in DbUser : user[u].status \notin {"none", "deleted"}}
GrantRows == {g \in Db \X DbUser : grant[g] # "none"}

DatabaseNameExists(name)     == \E d \in DbRows : db[d].name = name
DatabaseUserNameExists(name) == \E u \in UserRows : user[u].name = name

CreateDatabase(r) ==
  db' = [db EXCEPT ![r.db] = [status |-> "pending", name |-> r.name]]
CreateDatabaseUser(r) ==
  user' = [user EXCEPT ![r.user] = [status |-> "pending", name |-> r.name]]

(* A row that is not there refuses the request; its status does not.       *)
QueueDatabaseDelete(r) ==
  r.db \in DbRows /\ db' = [db EXCEPT ![r.db].status = "pending"]
QueueDatabaseUserDelete(r) ==
  r.user \in UserRows /\ user' = [user EXCEPT ![r.user].status = "pending"]
UpsertDatabaseGrant(r) ==
  /\ r.db \in DbRows /\ r.user \in UserRows
  /\ grant' = [grant EXCEPT ![<<r.db, r.user>>] = "pending"]
QueueDatabaseGrantDelete(r) ==
  /\ <<r.db, r.user>> \in GrantRows
  /\ grant' = [grant EXCEPT ![<<r.db, r.user>>] = "pending"]

(* No row, no change, and no error. *)
UpdateDatabaseStatus(d, status) ==
  db' = IF d \in DbRows THEN [db EXCEPT ![d].status = status] ELSE db
UpdateDatabaseUserStatus(u, status) ==
  user' = IF u \in UserRows THEN [user EXCEPT ![u].status = status] ELSE user
UpdateDatabaseGrantStatus(g, status) ==
  grant' = IF g \in GrantRows THEN [grant EXCEPT ![g] = status] ELSE grant

(* With the cascades to the grants. *)
DeleteDatabaseRow(d) ==
  /\ db' = [db EXCEPT ![d] = [NoDb EXCEPT !.status = "deleted"]]
  /\ grant' = [g \in Db \X DbUser |-> IF g[1] = d THEN "none" ELSE grant[g]]
DeleteDatabaseUser(u) ==
  /\ user' = [user EXCEPT ![u] = [NoDb EXCEPT !.status = "deleted"]]
  /\ grant' = [g \in Db \X DbUser |-> IF g[2] = u THEN "none" ELSE grant[g]]
DeleteDatabaseGrant(g) == grant' = [grant EXCEPT ![g] = "none"]

-------------------------------------------------------------------------------
(* Requests, first half: what the service reads and refuses by. *)

AskDb(kind, d, u, name) == Ask([kind |-> kind, db |-> d, user |-> u, name |-> name])

(* CreateDatabase and CreateUser. *)
AskCreateDatabase(d, name) ==
  usable /\ db[d].status = "none" /\ AskDb("db.create", d, None, name)
AskCreateUser(u, name) ==
  usable /\ user[u].status = "none" /\ AskDb("user.create", None, u, name)

(* DeleteDatabase and DeleteUser: only here is a pending row refused.      *)
AskDeleteDatabase(d) ==
  d \in DbRows /\ db[d].status # "pending" /\ AskDb("db.delete", d, None, None)
AskDeleteUser(u) ==
  u \in UserRows /\ user[u].status # "pending" /\ AskDb("user.delete", None, u, None)

(* SetGrant, which refuses nothing because of the grant itself.            *)
AskGrant(d, u, kind) ==
  /\ db[d].status = "active" /\ user[u].status = "active"
  /\ AskDb(kind, d, u, None)

(* Requests, second half: the transactions. *)
CommitCreateDatabase(r) ==
  /\ r.kind = "db.create" /\ db[r.db].status = "none"
  /\ Cardinality(DbRows) < DbLimit /\ ~DatabaseNameExists(r.name)
  /\ CreateDatabase(r) /\ UNCHANGED <<user, grant>>
CommitDeleteDatabase(r) ==
  r.kind = "db.delete" /\ QueueDatabaseDelete(r) /\ UNCHANGED <<user, grant>>
CommitCreateUser(r) ==
  /\ r.kind = "user.create" /\ user[r.user].status = "none"
  /\ Cardinality(UserRows) < UserLimit /\ ~DatabaseUserNameExists(r.name)
  /\ CreateDatabaseUser(r) /\ UNCHANGED <<db, grant>>
CommitDeleteUser(r) ==
  r.kind = "user.delete" /\ QueueDatabaseUserDelete(r) /\ UNCHANGED <<db, grant>>
CommitGrant(r) ==
  /\ \/ r.kind = "grant.create" /\ UpsertDatabaseGrant(r)
     \/ r.kind = "grant.delete" /\ QueueDatabaseGrantDelete(r)
  /\ UNCHANGED <<db, user>>
CommitDb(r) == \/ CommitCreateDatabase(r) \/ CommitDeleteDatabase(r)
               \/ CommitCreateUser(r) \/ CommitDeleteUser(r) \/ CommitGrant(r)

-------------------------------------------------------------------------------
(* Provision. *)

DbRowGone == \/ held.db # None /\ held.db \notin DbRows
             \/ held.user # None /\ held.user \notin UserRows

(* The row of the job is gone: nothing is called, and the job fails, also  *)
(* when it is a second deletion.                                           *)
DbNothing ==
  /\ pc = "claimed" /\ DbRowGone /\ NoFault /\ Returns(FALSE)
  /\ UNCHANGED dbVars

(* One of the reads fails. *)
DbReadFails ==
  /\ pc = "claimed" /\ Unsaved /\ Returns(FALSE)
  /\ UNCHANGED dbVars

CallDb ==
  /\ Goes("claimed", "calling") /\ ~DbRowGone
  /\ call' = [op |-> held.kind,
              db |-> IF held.db = None THEN None ELSE db[held.db].name,
              user |-> IF held.user = None THEN None ELSE user[held.user].name]
  /\ UNCHANGED dbVars

(* The statements of the Agent's MySQL driver.  DROP DATABASE leaves the   *)
(* privileges on the name; DROP USER takes the user's with it; a privilege *)
(* cannot be granted to a user who is not there.                           *)
Works == call.op = "grant.create" => call.user \in mysql.users
Run(c) ==
  mysql' =
    CASE c.op = "db.create"    -> [mysql EXCEPT !.dbs = @ \cup {c.db}]
      [] c.op = "db.delete"    -> [mysql EXCEPT !.dbs = @ \ {c.db}]
      [] c.op = "user.create"  -> [mysql EXCEPT !.users = @ \cup {c.user}]
      [] c.op = "user.delete"  -> [mysql EXCEPT !.users = @ \ {c.user},
                                                !.rights = {r \in @ : r[2] # c.user}]
      [] c.op = "grant.create" -> [mysql EXCEPT !.rights = @ \cup {<<c.db, c.user>>}]
      [] c.op = "grant.delete" -> [mysql EXCEPT !.rights = @ \ {<<c.db, c.user>>}]
Executed == Works /\ Run(call)

Stored(status) ==
  \/ /\ held.kind \in {"db.create", "db.delete"}
     /\ UpdateDatabaseStatus(held.db, status) /\ UNCHANGED <<user, grant>>
  \/ /\ held.kind \in {"user.create", "user.delete"}
     /\ UpdateDatabaseUserStatus(held.user, status) /\ UNCHANGED <<db, grant>>
  \/ /\ held.kind \in {"grant.create", "grant.delete"}
     /\ UpdateDatabaseGrantStatus(<<held.db, held.user>>, status) /\ UNCHANGED <<db, user>>
DbSucceed ==
  CASE held.kind = "db.delete"    -> DeleteDatabaseRow(held.db) /\ UNCHANGED user
    [] held.kind = "user.delete"  -> DeleteDatabaseUser(held.user) /\ UNCHANGED db
    [] held.kind = "grant.delete" -> DeleteDatabaseGrant(<<held.db, held.user>>)
                                     /\ UNCHANGED <<db, user>>
    [] OTHER                      -> Stored("active")

(* Wrong on purpose: the return after an error of the Agent is missing.    *)
DbFallThrough == DbSucceed
DbFail == Stored("error")

HandleDb ==
  /\ pc = "calling"
  /\ \/ Executed /\ DbSucceed /\ NoFault /\ Returns(TRUE)
     \/ ~Works /\ UNCHANGED mysql /\ DbFail /\ NoFault /\ Returns(FALSE)
     \/ (Executed \/ UNCHANGED mysql) /\ DbFail /\ Fault /\ Returns(FALSE)

HandleDbUnsaved ==
  /\ pc = "calling" /\ Unsaved /\ Returns(FALSE)
  /\ Executed \/ UNCHANGED mysql
  /\ UNCHANGED <<db, user, grant>>

DieWithDb ==
  /\ Die
  /\ \/ pc = "calling" /\ Executed
     \/ UNCHANGED mysql
  /\ UNCHANGED <<db, user, grant>>

DbRequests ==
  \/ /\ \/ \E d \in Db, name \in DbName : AskCreateDatabase(d, name)
        \/ \E u \in DbUser, name \in UserName : AskCreateUser(u, name)
        \/ \E d \in Db : AskDeleteDatabase(d)
        \/ \E u \in DbUser : AskDeleteUser(u)
        \/ \E d \in Db, u \in DbUser, kind \in {"grant.create", "grant.delete"} :
             AskGrant(d, u, kind)
        \/ \E i \in DOMAIN queue : Withdraw(i)
        \/ Suspend \/ Resume
     /\ UNCHANGED dbVars
  \/ \E i \in DOMAIN queue : Accept(i) /\ CommitDb(queue[i].req) /\ UNCHANGED mysql
DbWorker ==
  \/ (Claim \/ Settle) /\ UNCHANGED dbVars
  \/ DbNothing \/ CallDb \/ HandleDb
DbNext == DbRequests \/ DbWorker \/ DbReadFails \/ HandleDbUnsaved \/ DieWithDb

-------------------------------------------------------------------------------
(* Properties. *)

(* Once no job is under way and no statement of a handler has failed, what *)
(* the panel shows as active is there: the database, the user, and the     *)
(* privilege of a grant between two that are active; whatever was deleted  *)
(* twice, created again under an old name, or left by an answer that was   *)
(* lost.  At any time a database or user of the account in MySQL has its   *)
(* row: the row is stored before the object is made and deleted after it.  *)
DatabasesAsShown ==
  /\ Quiet /\ ~unsaved =>
     /\ \A d \in DbRows : db[d].status = "active" => db[d].name \in mysql.dbs
     /\ \A u \in UserRows : user[u].status = "active" => user[u].name \in mysql.users
     /\ \A g \in GrantRows :
          grant[g] = "active"
          /\ db[g[1]].status = "active" /\ user[g[2]].status = "active"
            => <<db[g[1]].name, user[g[2]].name>> \in mysql.rights
  /\ \A n \in mysql.dbs : DatabaseNameExists(n)
  /\ \A m \in mysql.users : DatabaseUserNameExists(m)

DbSettled ==
  /\ \A d \in Db : db[d].status # "pending"
  /\ \A u \in DbUser : user[u].status # "pending"
  /\ \A g \in Db \X DbUser : grant[g] # "pending"
===============================================================================
