-------------------------------- MODULE WebHost -------------------------------
(***************************************************************************)
(* What the privileged Agent does on the node for websites: the nginx      *)
(* driver (agent/webserver/nginx), the document roots of the website       *)
(* manager (agent/website), and the installation of certificates           *)
(* (agent/certificate/certbot), which goes through the same driver.        *)
(*                                                                         *)
(* A site is a file in sites-available, a link to it in sites-enabled, and *)
(* what nginx loaded when it was last reloaded.  An operation changes the  *)
(* files, tests them, reloads nginx, and rolls the files back if either    *)
(* fails.  The panel has one worker, so operations do not overlap; one     *)
(* that the panel no longer waits for has lost its context, and every      *)
(* command it starts from then on fails (execx.Run).                       *)
(***************************************************************************)
EXTENDS Naturals

CONSTANTS
  Site,       \* website IDs, never reused
  Hostname,
  None,       \* no hostname
  Resolves,   \* the hostnames whose DNS points at this node
  MaxFaults,  \* bound on failing commands
  MaxLost,    \* bound on operations whose context is cancelled
  MaxDeaths   \* bound on deaths of the Agent

ASSUME WebHostAssumption ==
  /\ None \notin Hostname /\ Resolves \subseteq Hostname
  /\ MaxFaults \in Nat /\ MaxLost \in Nat /\ MaxDeaths \in Nat

VARIABLES
  conf,     \* sites-available/<websiteId>.conf
  link,     \* sites-enabled/<websiteId>.conf is there
  running,  \* the configuration nginx serves
  web,      \* the sites with a directory under the account's web/
  trash,    \* the sites with a directory under .webycp-trash/
  pem,      \* the names of the certificate on disk, by website
  op,       \* the operation the Agent is executing
  faults, cancelled, deaths

files    == <<conf, link>>
harm     == <<faults, cancelled, deaths>>
hostVars == <<conf, link, running, web, trash, pem, op, harm>>

Conf   == [names : SUBSET Hostname, tls : BOOLEAN]
NoConf == [names |-> {}, tls |-> FALSE]
Loaded == [s \in Site |-> IF link[s] THEN conf[s] ELSE NoConf]

Operations == {"ensure", "tls", "disable", "delete"}
Op == [doing : Operations, site : Site \cup {None}, name : Hostname \cup {None},
       names : SUBSET Hostname,
       at : {"off", "begin", "install", "config", "test", "reload", "recover",
             "trash", "end"},
       failed : BOOLEAN, lost : BOOLEAN, prev : Conf, changed : BOOLEAN]
NoOp == [doing |-> "ensure", site |-> None, name |-> None, names |-> {}, at |-> "off",
         failed |-> FALSE, lost |-> FALSE, prev |-> NoConf, changed |-> FALSE]

HostTypeOK ==
  /\ conf \in [Site -> Conf] /\ running \in [Site -> Conf]
  /\ link \in [Site -> BOOLEAN]
  /\ web \subseteq Site /\ trash \subseteq Site
  /\ pem \in [Site -> SUBSET Hostname]
  /\ op \in Op
  /\ faults \in 0..MaxFaults /\ cancelled \in 0..MaxLost /\ deaths \in 0..MaxDeaths

HostInit ==
  /\ conf = [s \in Site |-> NoConf] /\ running = conf
  /\ link = [s \in Site |-> FALSE]
  /\ web = {} /\ trash = {}
  /\ pem = [s \in Site |-> {}]
  /\ op = NoOp
  /\ faults = 0 /\ cancelled = 0 /\ deaths = 0

-------------------------------------------------------------------------------
s0 == op.site
Executing == op.at \notin {"off", "end"}
Applies == op.doing \in {"ensure", "tls"}

Goto(p)   == op' = [op EXCEPT !.at = p]
FailTo(p) == op' = [op EXCEPT !.at = p, !.failed = TRUE]

(* A command fails by itself, or because its context is gone. *)
Fails == \/ ~op.lost /\ faults < MaxFaults /\ faults' = faults + 1
         \/ op.lost /\ UNCHANGED faults

(* The panel's request reaches the Agent. *)
Begin(doing, s, name, names) ==
  op' = [NoOp EXCEPT !.doing = doing, !.site = s, !.name = name, !.names = names,
                     !.at = "begin"]

(* Manager.Ensure: the document root, then the account's PHP-FPM pool,     *)
(* whose command is the last that can fail before nginx.                   *)
EnsureRoot == /\ op.doing = "ensure" /\ op.at = "begin"
              /\ \/ ~op.lost /\ Goto("install") /\ web' = web \cup {s0} /\ UNCHANGED faults
                 \/ Fails /\ FailTo("end") /\ web' \in {web, web \cup {s0}}
              /\ UNCHANGED <<files, running, trash, pem, cancelled, deaths>>

(* Driver.Issue: the primary name must resolve here, the others are left   *)
(* out if they do not; then certbot.                                       *)
Eligible == {op.name} \cup (op.names \cap Resolves)
Certify == /\ op.doing = "tls" /\ op.at = "begin"
           /\ ~op.lost /\ op.name \in Resolves
           /\ pem' = [pem EXCEPT ![s0] = Eligible]
           /\ op' = [op EXCEPT !.at = "install", !.names = Eligible]
           /\ UNCHANGED <<files, running, web, trash, harm>>
CertifyFails == /\ op.doing = "tls" /\ op.at = "begin"
                /\ \/ op.name \notin Resolves /\ UNCHANGED faults
                   \/ Fails
                /\ FailTo("end")
                /\ UNCHANGED <<files, running, web, trash, pem, cancelled, deaths>>

(* install: the file and then the link.  A file without a link is loaded   *)
(* by nobody, so a death between the two is none after them.               *)
Install == /\ op.at = "install"
           /\ conf' = [conf EXCEPT ![s0] = [names |-> op.names, tls |-> op.doing = "tls"]]
           /\ link' = [link EXCEPT ![s0] = TRUE]
           /\ op' = [op EXCEPT !.at = "test", !.prev = conf[s0], !.changed = ~link[s0]]
           /\ UNCHANGED <<running, web, trash, pem, harm>>

(* Wrong on purpose: the directory of a deleted website stays where it is. *)
RemovedAtOnce == Goto("end")

(* Where a removal that has nothing more to do for nginx goes. *)
Removed == Goto(IF op.doing = "delete" THEN "trash" ELSE "end")

(* remove: nothing is linked, and there is no file to delete. *)
RemoveNothing == /\ op.doing \in {"disable", "delete"} /\ op.at = "begin"
                 /\ ~link[s0] /\ (op.doing = "disable" \/ conf[s0] = NoConf)
                 /\ Removed
                 /\ UNCHANGED <<files, running, web, trash, pem, harm>>
AfterLink == IF op.doing = "delete" THEN "config" ELSE "test"
RemoveLink == /\ op.doing \in {"disable", "delete"} /\ op.at = "begin"
              /\ link[s0] \/ (op.doing = "delete" /\ conf[s0] # NoConf)
              /\ link' = [link EXCEPT ![s0] = FALSE]
              /\ op' = [op EXCEPT !.at = AfterLink, !.prev = conf[s0], !.changed = link[s0]]
              /\ UNCHANGED <<conf, running, web, trash, pem, harm>>
RemoveConfig == /\ op.at = "config"
                /\ conf' = [conf EXCEPT ![s0] = NoConf]
                /\ IF op.changed THEN Goto("test") ELSE Removed
                /\ UNCHANGED <<link, running, web, trash, pem, harm>>

(* Wrong on purpose: the files stay as they are when nginx refuses them. *)
RollbackNothing == UNCHANGED files

(* rollback: the previous file, and the link only if it was there. *)
Rollback == /\ conf' = [conf EXCEPT ![s0] = op.prev]
            /\ link' = [link EXCEPT ![s0] = (Applies /\ ~op.changed)
                                            \/ (~Applies /\ op.changed)]

(* nginx -t. *)
Test == /\ op.at = "test" /\ ~op.lost
        /\ Goto("reload")
        /\ UNCHANGED <<files, running, web, trash, pem, harm>>
TestFails == /\ op.at = "test"
             /\ Fails /\ FailTo("end")
             /\ Rollback
             /\ UNCHANGED <<running, web, trash, pem, cancelled, deaths>>

(* systemctl reload nginx.  One that is refused has no effect; one that is *)
(* no longer waited for may have had it.                                   *)
Reload == /\ op.at = "reload" /\ ~op.lost
          /\ running' = Loaded
          /\ IF Applies THEN Goto("end") ELSE Removed
          /\ UNCHANGED <<files, web, trash, pem, harm>>
ReloadFails == /\ op.at = "reload"
               /\ Fails /\ FailTo("recover")
               /\ running' \in (IF op.lost THEN {running, Loaded} ELSE {running})
               /\ Rollback
               /\ UNCHANGED <<web, trash, pem, cancelled, deaths>>

(* The restored configuration is tested and loaded. *)
Recover == /\ op.at = "recover" /\ ~op.lost
           /\ running' = Loaded
           /\ Goto("end")
           /\ UNCHANGED <<files, web, trash, pem, harm>>
RecoverFails == /\ op.at = "recover"
                /\ Fails /\ Goto("end")
                /\ running' \in (IF op.lost THEN {running, Loaded} ELSE {running})
                /\ UNCHANGED <<files, web, trash, pem, cancelled, deaths>>

(* Manager.Delete: the website's directory goes to the trash, where it may *)
(* already be, but not on top of one that is there.                        *)
Quarantine == /\ op.at = "trash"
              /\ s0 \in web \cup trash /\ s0 \notin web \cap trash
              /\ web' = web \ {s0} /\ trash' = trash \cup {s0}
              /\ Goto("end")
              /\ UNCHANGED <<files, running, pem, harm>>
QuarantineFails == /\ op.at = "trash"
                   /\ \/ s0 \notin web \cup trash /\ UNCHANGED faults
                      \/ s0 \in web \cap trash /\ UNCHANGED faults
                      \/ Fails
                   /\ FailTo("end")
                   /\ UNCHANGED <<files, running, web, trash, pem, cancelled, deaths>>

(* The Agent dies: nothing is undone. *)
AgentDies == /\ Executing
             /\ deaths < MaxDeaths /\ deaths' = deaths + 1
             /\ FailTo("end")
             /\ UNCHANGED <<files, running, web, trash, pem, faults, cancelled>>

(* The client's timeout: the operation's context is cancelled, or its      *)
(* answer comes too late.                                                  *)
Lose == op' = [op EXCEPT !.lost = TRUE, !.failed = TRUE]
Cancel == /\ op.at # "off" /\ ~op.lost
          /\ cancelled < MaxLost /\ cancelled' = cancelled + 1
          /\ Lose
          /\ UNCHANGED <<files, running, web, trash, pem, faults, deaths>>

AgentStep == EnsureRoot \/ Certify \/ CertifyFails \/ Install \/ RemoveNothing
             \/ RemoveLink \/ RemoveConfig \/ Test \/ TestFails \/ Reload
             \/ ReloadFails \/ Recover \/ RecoverFails \/ Quarantine \/ QuarantineFails
HostNext == AgentStep \/ AgentDies \/ Cancel
===============================================================================
