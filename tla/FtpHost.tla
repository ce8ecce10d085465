-------------------------------- MODULE FtpHost -------------------------------
(***************************************************************************)
(* What the privileged Agent does on the node for the FTP logins of        *)
(* hosting accounts: the account files and the PureDB database of          *)
(* agent/ftp/pureftpd, and the account operations of agent/account that    *)
(* suspend, resume and remove them together with the account's home.       *)
(*                                                                         *)
(* One operation runs at a time: the panel has one worker, and the driver  *)
(* holds a mutex.  It runs step by step, each step either does its work or *)
(* fails, and the Agent may die, or its answer be lost, between any two.   *)
(***************************************************************************)
EXTENDS Naturals

CONSTANTS
  Account,
  Login,      \* login IDs, never reused
  Name,       \* user names
  None,       \* no account
  Password,   \* password hashes
  MaxFaults   \* bound on failing steps, Agent deaths and lost answers

ASSUME FtpHostAssumption == MaxFaults \in Nat /\ None \notin Account

VARIABLES
  home,      \* the account's Unix user and home directory
  file,      \* accounts/<accountId>.json
  pdb,       \* the compiled authentication database
  sessions,  \* the sessions of pure-ftpd, each with the line it logged in by
  op,        \* the operation the Agent is executing
  faults

hostVars == <<home, file, pdb, sessions, op, faults>>

Entry == [login : Login, name : Name, pw : Password, enabled : BOOLEAN]
Line  == [acct : Account, login : Login, name : Name, pw : Password]
File  == [there : BOOLEAN, suspended : BOOLEAN, entries : SUBSET Entry]
NoFile == [there |-> FALSE, suspended |-> FALSE, entries |-> {}]

(* open: mode 0710; closed: mode 0; orphan: the user is deleted, the home  *)
(* not yet moved; quarantined: it is in /home/.webycp-trash.               *)
Homes  == {"open", "closed", "orphan", "quarantined"}
HasUser(a) == home[a] \in {"open", "closed"}

Kinds  == {"sync", "disable", "enable", "delete"}
Points == {"off", "begin", "ftp", "written", "rebuilt", "after", "linux", "end"}
Op     == [doing : Kinds \cup {"undo"}, acct : Account \cup {None},
           entries : SUBSET Entry, at : Points, failed : BOOLEAN, prev : File]
NoOp   == [doing |-> "sync", acct |-> None, entries |-> {},
           at |-> "off", failed |-> FALSE, prev |-> NoFile]

HostTypeOK ==
  /\ home \in [Account -> Homes]
  /\ file \in [Account -> File]
  /\ pdb \subseteq Line
  /\ sessions \subseteq Line
  /\ op \in Op
  /\ faults \in 0..MaxFaults

HostInit ==
  /\ home = [a \in Account |-> "open"]
  /\ file = [a \in Account |-> NoFile]
  /\ pdb = {} /\ sessions = {} /\ faults = 0
  /\ op = NoOp

-------------------------------------------------------------------------------
a0 == op.acct
Running == op.at \notin {"off", "end"}

(* Where the operation goes next, having failed or not so far. *)
Goto(p)   == op' = [op EXCEPT !.at = p]
FailTo(p) == op' = [op EXCEPT !.at = p, !.failed = TRUE]
Fault     == faults < MaxFaults /\ faults' = faults + 1

(* The panel's request reaches the Agent. *)
Begin(kind, a, entries) ==
  op' = [doing |-> kind, acct |-> a, entries |-> entries, at |-> "begin",
         failed |-> FALSE, prev |-> NoFile]

(* Driver.Sync: refused for an account closed before it had any FTP state. *)
SyncRefused == /\ op.doing = "sync" /\ op.at = "begin"
               /\ \/ ~HasUser(a0)
                  \/ home[a0] = "closed" /\ ~file[a0].suspended
               /\ FailTo("end")
               /\ UNCHANGED <<home, file, pdb, sessions, faults>>

(* save, first half: the new account file replaces the old one. *)
Write(f) == /\ file' = [file EXCEPT ![a0] = f]
            /\ op' = [op EXCEPT !.at = "written", !.prev = file[a0]]
            /\ UNCHANGED <<home, pdb, sessions, faults>>

SyncWrites == /\ op.doing = "sync" /\ op.at = "begin"
              /\ HasUser(a0)
              /\ home[a0] = "open" \/ file[a0].suspended
              /\ Write([there |-> TRUE, suspended |-> file[a0].suspended,
                        entries |-> op.entries])

(* Manager.Disable: the home, and then the logins whatever became of it. *)
DisableHome == /\ op.doing = "disable" /\ op.at = "begin"
               /\ IF HasUser(a0)
                  THEN home' = [home EXCEPT ![a0] = "closed"] /\ Goto("ftp")
                  ELSE UNCHANGED home /\ FailTo("ftp")
               /\ UNCHANGED <<file, pdb, sessions, faults>>

DisableHomeFails == /\ op.doing = "disable" /\ op.at = "begin" /\ HasUser(a0)
                    /\ Fault
                    /\ FailTo("ftp")
                    /\ UNCHANGED <<home, file, pdb, sessions>>

(* Manager.Enable: the home, and only then the logins. *)
EnableHome == /\ op.doing = "enable" /\ op.at = "begin"
              /\ IF HasUser(a0)
                 THEN home' = [home EXCEPT ![a0] = "open"] /\ Goto("ftp")
                 ELSE UNCHANGED home /\ FailTo("end")
              /\ UNCHANGED <<file, pdb, sessions, faults>>

(* Its chmod succeeds and ensureLayout fails: nothing is undone. *)
EnableHomeFails == /\ op.doing = "enable" /\ op.at = "begin" /\ HasUser(a0)
                   /\ Fault
                   /\ home' = [home EXCEPT ![a0] = "open"]
                   /\ FailTo("end")
                   /\ UNCHANGED <<file, pdb, sessions>>

(* Manager.Delete begins with the logins. *)
DeleteBegins == /\ op.doing = "delete" /\ op.at = "begin"
                /\ Goto("ftp")
                /\ UNCHANGED <<home, file, pdb, sessions, faults>>

(* setEnabled and Delete of the driver: nothing to do without a file. *)
NoFtpState == /\ op.at = "ftp" /\ ~file[a0].there
              /\ Goto("after")
              /\ UNCHANGED <<home, file, pdb, sessions, faults>>
SetSuspended == /\ op.at = "ftp" /\ file[a0].there
                /\ Write([file[a0] EXCEPT !.suspended = (op.doing # "enable")])

WriteFails == /\ op.at = "ftp" /\ file[a0].there
              /\ Fault
              /\ FailTo("after")
              /\ UNCHANGED <<home, file, pdb, sessions>>

(* rebuild: the names of all accounts, suspended or disabled logins        *)
(* included, must differ; the enabled logins of the others are compiled.   *)
(* Wrong on purpose: rebuild compiles without comparing names. *)
NamesUnchecked == TRUE

NamesDiffer ==
  \A a, b \in Account : \A e \in file[a].entries, f \in file[b].entries :
     e.name = f.name => e.login = f.login
Lines(a) == {[acct |-> a, login |-> e.login, name |-> e.name, pw |-> e.pw] :
               e \in {x \in file[a].entries : x.enabled}}

(* Wrong on purpose: suspended accounts are compiled too. *)
CompiledWithSuspended == UNION {Lines(a) : a \in Account}

Compiled == UNION {Lines(a) : a \in {b \in Account : ~file[b].suspended}}

Rebuild == /\ op.at = "written" /\ NamesDiffer
           /\ pdb' = Compiled
           /\ Goto("rebuilt")
           /\ UNCHANGED <<home, file, sessions, faults>>

(* The previous account file comes back; the database is untouched. *)
RebuildFails == /\ op.at = "written"
                /\ IF NamesDiffer THEN Fault ELSE UNCHANGED faults
                /\ file' = [file EXCEPT ![a0] = op.prev]
                /\ FailTo("after")
                /\ UNCHANGED <<home, pdb, sessions>>

(* Wrong on purpose: the sessions stay. *)
DisconnectsNobody == /\ op.at = "rebuilt" /\ HasUser(a0)
                     /\ Goto("after")
                     /\ UNCHANGED <<home, file, pdb, sessions, faults>>

(* save, last step: every session of the account's UID is killed... *)
Disconnect == /\ op.at = "rebuilt" /\ HasUser(a0)
              /\ sessions' = {s \in sessions : s.acct # a0}
              /\ Goto("after")
              /\ UNCHANGED <<home, file, pdb, faults>>

(* ...or some of them: the new database stays in place. *)
DisconnectFails == /\ op.at = "rebuilt"
                   /\ Fault
                   /\ \E kept \in SUBSET {s \in sessions : s.acct = a0} :
                        sessions' = {s \in sessions : s.acct # a0} \cup kept
                   /\ FailTo("after")
                   /\ UNCHANGED <<home, file, pdb>>

(* What follows the driver's part. *)
Done == /\ op.at = "after"
        /\ \/ op.doing \in {"sync", "disable"}
           \/ op.doing = "enable" /\ ~op.failed
        /\ Goto("end")
        /\ UNCHANGED <<home, file, pdb, sessions, faults>>

(* Manager.Enable undoes a failed resumption: the logins, then the home. *)
UndoEnable == /\ op.at = "after" /\ op.doing = "enable" /\ op.failed
              /\ op' = [op EXCEPT !.doing = "undo", !.at = "ftp"]
              /\ UNCHANGED <<home, file, pdb, sessions, faults>>
UndoHome == /\ op.at = "after" /\ op.doing = "undo"
            /\ home' = [home EXCEPT ![a0] = IF HasUser(a0) THEN "closed" ELSE @]
            /\ Goto("end")
            /\ UNCHANGED <<file, pdb, sessions, faults>>

(* Driver.Delete removes the file once the sessions are gone;              *)
(* Manager.Delete goes on to the Unix user only then.                      *)
RemoveFile == /\ op.at = "after" /\ op.doing = "delete"
              /\ IF op.failed THEN UNCHANGED file /\ Goto("end")
                 ELSE file' = [file EXCEPT ![a0] = NoFile] /\ Goto("linux")
              /\ UNCHANGED <<home, pdb, sessions, faults>>
DeleteUser == /\ op.at = "linux" /\ HasUser(a0)
              /\ home' = [home EXCEPT ![a0] = "orphan"]
              /\ UNCHANGED <<file, pdb, sessions, op, faults>>
Quarantine == /\ op.at = "linux" /\ ~HasUser(a0)
              /\ home' = [home EXCEPT ![a0] = "quarantined"]
              /\ Goto("end")
              /\ UNCHANGED <<file, pdb, sessions, faults>>

(* A step fails with nothing done, the Agent dies, or the panel gives up   *)
(* on the call and cancels it.                                             *)
Abort == /\ Running \/ (op.at = "end" /\ ~op.failed)
         /\ Fault
         /\ FailTo("end")
         /\ UNCHANGED <<home, file, pdb, sessions>>

(* A client logs in. *)
OpenSession == /\ \E line \in pdb \ sessions : sessions' = sessions \cup {line}
               /\ UNCHANGED <<home, file, pdb, op, faults>>

AgentStep ==
  \/ SyncRefused \/ SyncWrites
  \/ DisableHome \/ EnableHome \/ DeleteBegins
  \/ NoFtpState \/ SetSuspended
  \/ Rebuild \/ Disconnect \/ Done
  \/ UndoEnable \/ UndoHome \/ RemoveFile \/ DeleteUser \/ Quarantine
  \/ RebuildFails
AgentFault == DisableHomeFails \/ EnableHomeFails \/ WriteFails \/ DisconnectFails \/ Abort
HostNext == AgentStep \/ AgentFault \/ OpenSession
===============================================================================
