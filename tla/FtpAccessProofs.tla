---------------------------- MODULE FtpAccessProofs ---------------------------
(***************************************************************************)
(* Proofs about FtpAccess for any accounts, logins, names and passwords,   *)
(* any number of attempts, requests, faults and mishaps.                   *)
(***************************************************************************)
EXTENDS FtpAccess, SequenceTheorems, TLAPS

USE DEF Kinds, Points, Homes

(* The worker handles the head of the queue, which stays the head: nothing *)
(* is inserted before a running job, and no other job is running.          *)
HeadIsRunning ==
  /\ pc \in {"claimed", "calling", "handled"} => queue # <<>> /\ queue[1].state = "running"
  /\ \A k \in DOMAIN queue : queue[k].state = "running" => k = 1 /\ pc # "idle"

(* A running job has used an attempt, any other has one left. *)
AttemptsLeft ==
  \A k \in DOMAIN queue : IF queue[k].state = "running" THEN queue[k].tries >= 1
                                                        ELSE queue[k].tries < MaxAttempts

(* A login that was created has an account, a name and a password. *)
LoginsAreFilled ==
  \A l \in Login : login[l].status # "none" =>
    login[l].acct \in Account /\ login[l].name \in Name /\ login[l].pw \in Password

(* An operation is one of an account. *)
OpHasAccount == op.at # "off" => op.acct \in Account

IInv ==
  /\ TypeOK
  /\ HeadIsRunning
  /\ AttemptsLeft
  /\ LoginsAreFilled
  /\ OpHasAccount
  /\ SnapshotIsCurrent

-------------------------------------------------------------------------------
(* What InsertAt returns. *)
LEMMA Inserted ==
  ASSUME NEW S, NEW s \in Seq(S), NEW e \in S, NEW i \in 1 .. Len(s) + 1
  PROVE  /\ InsertAt(s, i, e) \in Seq(S)
         /\ Len(InsertAt(s, i, e)) = Len(s) + 1
         /\ \A k \in 1 .. i - 1 : InsertAt(s, i, e)[k] = s[k]
         /\ InsertAt(s, i, e)[i] = e
         /\ \A k \in i + 1 .. Len(s) + 1 : InsertAt(s, i, e)[k] = s[k - 1]
<1> DEFINE a == SubSeq(s, 1, i - 1)
           b == SubSeq(s, i, Len(s))
<1>1. /\ a \in Seq(S) /\ Len(a) = i - 1
      /\ \A k \in 1 .. i - 1 : a[k] = s[k]
  <2>1. Len(s) \in Nat /\ \A k \in 1 .. Len(s) : s[k] \in S
    BY LenProperties, ElementOfSeq
  <2> QED BY <2>1, SubSeqProperties
<1>2. /\ b \in Seq(S) /\ Len(b) = Len(s) - i + 1
      /\ \A k \in 1 .. Len(b) : b[k] = s[i + k - 1]
  <2>1. Len(s) \in Nat /\ \A k \in 1 .. Len(s) : s[k] \in S
    BY LenProperties, ElementOfSeq
  <2> QED BY <2>1, SubSeqProperties
<1>3. <<e>> \in Seq(S) /\ Len(<<e>>) = 1 /\ <<e>>[1] = e
  OBVIOUS
<1>4. /\ a \o <<e>> \in Seq(S) /\ Len(a \o <<e>>) = i
      /\ \A k \in 1 .. i : (a \o <<e>>)[k] = IF k < i THEN s[k] ELSE e
  BY <1>1, <1>3, ConcatProperties
<1>5. /\ InsertAt(s, i, e) \in Seq(S) /\ Len(InsertAt(s, i, e)) = Len(s) + 1
      /\ \A k \in 1 .. Len(s) + 1 :
           InsertAt(s, i, e)[k] = IF k < i THEN s[k] ELSE IF k = i THEN e ELSE s[k - 1]
  <2> DEFINE c == a \o <<e>>
  <2>1. InsertAt(s, i, e) = c \o b
    BY DEF InsertAt
  <2>2. Len(s) \in Nat
    BY LenProperties
  <2> HIDE DEF a, b, c
  <2>3. /\ c \in Seq(S) /\ Len(c) = i
        /\ \A k \in 1 .. i : c[k] = IF k < i THEN s[k] ELSE e
    BY <1>4 DEF c
  <2>4. /\ c \o b \in Seq(S) /\ Len(c \o b) = Len(s) + 1
        /\ \A k \in 1 .. Len(s) + 1 : (c \o b)[k] = IF k <= i THEN c[k] ELSE b[k - i]
    <3>1. Len(c) = i /\ Len(c) + Len(b) = Len(s) + 1
      BY <1>2, <2>2, <2>3
    <3>2. /\ c \o b \in Seq(S) /\ Len(c \o b) = Len(c) + Len(b)
          /\ \A k \in 1 .. Len(c) + Len(b) :
               (c \o b)[k] = IF k <= Len(c) THEN c[k] ELSE b[k - Len(c)]
      BY <1>2, <2>3, ConcatProperties
    <3> QED BY <3>1, <3>2
  <2>5. ASSUME NEW k \in 1 .. Len(s) + 1
        PROVE  (c \o b)[k] = IF k < i THEN s[k] ELSE IF k = i THEN e ELSE s[k - 1]
    <3>1. CASE k <= i
      BY <2>2, <2>3, <2>4, <3>1
    <3>2. CASE k > i
      <4> DEFINE m == k - i
      <4>1. m \in 1 .. Len(b) /\ i + m - 1 = k - 1
        BY <1>2, <2>2, <3>2
      <4> HIDE DEF m
      <4>2. b[m] = s[k - 1]
        <5>1. b[m] = s[i + m - 1]
          BY <1>2, <4>1
        <5> QED BY <4>1, <5>1
      <4>3. (c \o b)[k] = b[m]
        BY <2>2, <2>4, <3>2 DEF m
      <4>4. ~(k < i) /\ k # i
        BY <2>2, <3>2
      <4> HIDE DEF c
      <4> QED BY <4>2, <4>3, <4>4
    <3>3. k <= i \/ k > i
      BY <2>2
    <3> QED BY <3>1, <3>2, <3>3
  <2> QED BY <2>1, <2>4, <2>5
<1> HIDE DEF a, b
<1>6. Len(s) \in Nat
  BY LenProperties
<1>7. \A k \in 1 .. i - 1 : InsertAt(s, i, e)[k] = s[k]
  BY <1>5, <1>6
<1>8. InsertAt(s, i, e)[i] = e
  BY <1>5, <1>6
<1>9. \A k \in i + 1 .. Len(s) + 1 : InsertAt(s, i, e)[k] = s[k - 1]
  BY <1>5, <1>6
<1> QED BY <1>5, <1>7, <1>8, <1>9

-------------------------------------------------------------------------------
(* The host's steps, with the panel standing still. *)

LEMMA OpMoves ==
  ASSUME op \in Op, NEW p \in Points, Goto(p) \/ FailTo(p)
  PROVE  op' \in Op /\ op'.acct = op.acct /\ op'.entries = op.entries
BY DEF Op, Goto, FailTo

LEMMA LinesAreLines ==
  ASSUME HostTypeOK PROVE Compiled \subseteq Line
BY DEF HostTypeOK, Compiled, Lines, File, Entry, Line

LEMMA WriteTypes ==
  ASSUME HostTypeOK, op.acct \in Account, NEW f \in File, Write(f)
  PROVE  HostTypeOK' /\ op'.acct = op.acct /\ op'.entries = op.entries
<1>1. file[a0] \in File
  BY DEF HostTypeOK, a0
<1>2. file' \in [Account -> File]
  BY DEF HostTypeOK, Write
<1>3. op' \in Op /\ op'.acct = op.acct /\ op'.entries = op.entries
  BY <1>1 DEF HostTypeOK, Write, Op
<1> QED BY <1>2, <1>3 DEF HostTypeOK, Write

LEMMA HostStepTypes ==
  ASSUME HostTypeOK, OpHasAccount, HostNext
  PROVE  HostTypeOK' /\ OpHasAccount' /\ op'.entries = op.entries
<1> USE FtpHostAssumption
<1> DEFINE Kept == op'.acct = op.acct /\ op'.entries = op.entries
<1>0. /\ home \in [Account -> Homes] /\ file \in [Account -> File]
      /\ pdb \subseteq Line /\ sessions \subseteq Line
      /\ op \in Op /\ faults \in 0 .. MaxFaults
  BY DEF HostTypeOK
<1>f. Fault => faults' \in 0 .. MaxFaults
  BY <1>0 DEF Fault
<1>1. ASSUME SyncRefused \/ DeleteBegins \/ NoFtpState \/ Done
      PROVE  HostTypeOK' /\ Kept /\ op.at # "off"
  BY <1>0, <1>1, OpMoves DEF SyncRefused, DeleteBegins, NoFtpState, Done, HostTypeOK
<1>2. ASSUME SyncWrites \/ SetSuspended PROVE HostTypeOK' /\ Kept /\ op.at # "off"
  <2>1. op.at # "off" /\ op.acct \in Account
    BY <1>2 DEF SyncWrites, SetSuspended, OpHasAccount
  <2>2. file[a0] \in File /\ op.entries \subseteq Entry
    BY <1>0, <2>1 DEF a0, Op
  <2>3. CASE SyncWrites
    <3> DEFINE f == [there |-> TRUE, suspended |-> file[a0].suspended, entries |-> op.entries]
    <3>1. f \in File /\ Write(f)
      BY <2>2, <2>3 DEF SyncWrites, File
    <3> QED BY <2>1, <3>1, WriteTypes
  <2>4. CASE SetSuspended
    <3> DEFINE f == [file[a0] EXCEPT !.suspended = (op.doing # "enable")]
    <3>1. f \in File /\ Write(f)
      BY <2>2, <2>4 DEF SetSuspended, File
    <3> QED BY <2>1, <3>1, WriteTypes
  <2> QED BY <1>2, <2>3, <2>4
<1>3. ASSUME DisableHome \/ EnableHome PROVE HostTypeOK' /\ Kept /\ op.at # "off"
  <2>1. home' \in [Account -> Homes]
    BY <1>0, <1>3 DEF DisableHome, EnableHome
  <2>2. op' \in Op /\ Kept /\ op.at # "off"
    BY <1>0, <1>3, OpMoves DEF DisableHome, EnableHome
  <2> QED BY <1>0, <1>3, <2>1, <2>2 DEF DisableHome, EnableHome, HostTypeOK
<1>4. ASSUME DisableHomeFails \/ EnableHomeFails \/ WriteFails
      PROVE  HostTypeOK' /\ Kept /\ op.at # "off"
  <2>1. home' \in [Account -> Homes]
    BY <1>0, <1>4 DEF DisableHomeFails, EnableHomeFails, WriteFails
  <2>2. op' \in Op /\ Kept /\ op.at # "off"
    BY <1>0, <1>4, OpMoves DEF DisableHomeFails, EnableHomeFails, WriteFails
  <2> QED BY <1>0, <1>f, <1>4, <2>1, <2>2
          DEF DisableHomeFails, EnableHomeFails, WriteFails, HostTypeOK
<1>5. ASSUME Rebuild PROVE HostTypeOK' /\ Kept /\ op.at # "off"
  BY <1>0, <1>5, OpMoves, LinesAreLines DEF Rebuild, HostTypeOK
<1>6. ASSUME RebuildFails PROVE HostTypeOK' /\ Kept /\ op.at # "off"
  <2>1. op.prev \in File /\ file' \in [Account -> File]
    BY <1>0, <1>6 DEF RebuildFails, Op
  <2>2. op' \in Op /\ Kept /\ op.at # "off"
    BY <1>0, <1>6, OpMoves DEF RebuildFails
  <2> QED BY <1>0, <1>f, <1>6, <2>1, <2>2 DEF RebuildFails, HostTypeOK
<1>7. ASSUME Disconnect \/ DisconnectFails PROVE HostTypeOK' /\ Kept /\ op.at # "off"
  <2>1. sessions' \subseteq Line
    BY <1>0, <1>7 DEF Disconnect, DisconnectFails
  <2>2. op' \in Op /\ Kept /\ op.at # "off"
    BY <1>0, <1>7, OpMoves DEF Disconnect, DisconnectFails
  <2> QED BY <1>0, <1>f, <1>7, <2>1, <2>2 DEF Disconnect, DisconnectFails, HostTypeOK
<1>8. ASSUME UndoEnable PROVE HostTypeOK' /\ Kept /\ op.at # "off"
  <2>1. op' \in Op /\ Kept /\ op.at # "off"
    BY <1>0, <1>8 DEF UndoEnable, Op
  <2> QED BY <1>0, <1>8, <2>1 DEF UndoEnable, HostTypeOK
<1>9. ASSUME UndoHome \/ DeleteUser \/ Quarantine PROVE HostTypeOK' /\ Kept /\ op.at # "off"
  <2>1. home' \in [Account -> Homes]
    BY <1>0, <1>9 DEF UndoHome, DeleteUser, Quarantine, HasUser
  <2>2. op' \in Op /\ Kept /\ op.at # "off"
    BY <1>0, <1>9, OpMoves DEF UndoHome, DeleteUser, Quarantine
  <2> QED BY <1>0, <1>9, <2>1, <2>2 DEF UndoHome, DeleteUser, Quarantine, HostTypeOK
<1>10. ASSUME RemoveFile PROVE HostTypeOK' /\ Kept /\ op.at # "off"
  <2>a. NoFile \in File
    BY DEF NoFile, File
  <2>1. file' \in [Account -> File]
    BY <1>0, <1>10, <2>a DEF RemoveFile, Goto
  <2>2. op' \in Op /\ Kept /\ op.at # "off"
    BY <1>0, <1>10, OpMoves DEF RemoveFile
  <2> QED BY <1>0, <1>10, <2>1, <2>2 DEF RemoveFile, HostTypeOK
<1>11. ASSUME Abort PROVE HostTypeOK' /\ Kept /\ op.at # "off"
  <2>1. op' \in Op /\ Kept /\ op.at # "off"
    BY <1>0, <1>11, OpMoves DEF Abort, Running
  <2> QED BY <1>0, <1>f, <1>11, <2>1 DEF Abort, HostTypeOK
<1>12. ASSUME OpenSession PROVE HostTypeOK' /\ op' = op
  BY <1>0, <1>12 DEF OpenSession, HostTypeOK
<1>13. HostNext => (HostTypeOK' /\ Kept /\ op.at # "off") \/ (HostTypeOK' /\ op' = op)
  BY <1>1, <1>2, <1>3, <1>4, <1>5, <1>6, <1>7, <1>8, <1>9, <1>10, <1>11, <1>12
     DEF HostNext, AgentStep, AgentFault
<1> QED BY <1>13 DEF OpHasAccount

-------------------------------------------------------------------------------
(* Requests. *)

LEMMA HeldIsJob ==
  ASSUME TypeOK, queue # <<>>
  PROVE  held \in Job /\ 1 \in DOMAIN queue /\ held.acct \in Account /\ held.kind \in Kinds
<1>1. queue \in Seq(Job) /\ Len(queue) \in Nat /\ Len(queue) # 0 /\ DOMAIN queue = 1 .. Len(queue)
  BY EmptySeq, LenProperties DEF TypeOK
<1>2. held \in Job
  BY <1>1, ElementOfSeq DEF held
<1> QED BY <1>1, <1>2 DEF Job

(* A job is inserted somewhere behind a running one. *)
LEMMA Enqueued ==
  ASSUME IInv, NEW kind \in Kinds, NEW a \in Account, Enqueue(kind, a)
  PROVE  /\ queue' \in Seq(Job) /\ AttemptsLeft'
         /\ requests' \in 0 .. MaxRequests
         /\ queue # <<>> /\ queue[1].state = "running" => queue' # <<>> /\ queue'[1] = queue[1]
         /\ \A k \in DOMAIN queue' : queue'[k].state = "running" => k = 1 /\ pc # "idle"
<1> USE FtpAccessAssumption
<1> DEFINE e == [kind |-> kind, acct |-> a, tries |-> 0, state |-> "new"]
<1>1. queue \in Seq(Job) /\ Len(queue) \in Nat /\ DOMAIN queue = 1 .. Len(queue)
  BY LenProperties DEF IInv, TypeOK
<1>2. e \in Job
  BY DEF Job
<1>3. PICK i \in 1 .. Len(queue) + 1 :
        /\ \A k \in i .. Len(queue) : queue[k].state = "new"
        /\ queue' = InsertAt(queue, i, e)
  BY DEF Enqueue
<1> HIDE DEF e
<1>4. /\ queue' \in Seq(Job) /\ Len(queue') = Len(queue) + 1
      /\ \A k \in 1 .. i - 1 : queue'[k] = queue[k]
      /\ queue'[i] = e
      /\ \A k \in i + 1 .. Len(queue) + 1 : queue'[k] = queue[k - 1]
  <2> DEFINE t == InsertAt(queue, i, e)
  <2>1. /\ t \in Seq(Job) /\ Len(t) = Len(queue) + 1
        /\ \A k \in 1 .. i - 1 : t[k] = queue[k]
        /\ t[i] = e
        /\ \A k \in i + 1 .. Len(queue) + 1 : t[k] = queue[k - 1]
    <3>1. i \in 1 .. Len(queue) + 1
      OBVIOUS
    <3>2. queue \in Seq(Job)
      BY <1>1
    <3>3. t \in Seq(Job) /\ Len(t) = Len(queue) + 1
      BY <1>2, <3>1, <3>2, Inserted
    <3>4. \A k \in 1 .. i - 1 : t[k] = queue[k]
      BY <1>2, <3>1, <3>2, Inserted
    <3>5. t[i] = e
      BY <1>2, <3>1, <3>2, Inserted
    <3>6. \A k \in i + 1 .. Len(queue) + 1 : t[k] = queue[k - 1]
      BY <1>2, <3>1, <3>2, Inserted
    <3> QED BY <3>3, <3>4, <3>5, <3>6
  <2>2. queue' = t
    BY <1>3
  <2> HIDE DEF t
  <2> QED BY <2>1, <2>2
<1>5. DOMAIN queue' = 1 .. Len(queue) + 1
  BY <1>4, LenProperties
<1>6. ASSUME NEW k \in DOMAIN queue'
      PROVE  /\ IF queue'[k].state = "running" THEN queue'[k].tries >= 1
                                                ELSE queue'[k].tries < MaxAttempts
             /\ queue'[k].state = "running" => k = 1 /\ pc # "idle"
  <2>1. CASE k < i
    <3>1. k \in 1 .. i - 1 /\ k \in DOMAIN queue
      BY <1>1, <1>5, <2>1
    <3>2. queue'[k] = queue[k]
      BY <1>4, <3>1
    <3> QED BY <3>1, <3>2 DEF IInv, AttemptsLeft, HeadIsRunning
  <2>2. CASE k = i
    <3>1. queue'[k] = e
      BY <1>4, <2>2
    <3> QED BY <3>1 DEF e
  <2>3. CASE k > i
    <3>1. k \in i + 1 .. Len(queue) + 1 /\ k - 1 \in DOMAIN queue /\ k - 1 \in i .. Len(queue)
      BY <1>1, <1>5, <2>3
    <3>2. queue'[k] = queue[k - 1] /\ queue[k - 1].state = "new"
      BY <1>3, <1>4, <3>1
    <3> QED BY <3>1, <3>2 DEF IInv, AttemptsLeft
  <2>4. k < i \/ k = i \/ k > i
    BY <1>1, <1>5
  <2> QED BY <2>1, <2>2, <2>3, <2>4
<1>7. requests' \in 0 .. MaxRequests
  BY DEF IInv, TypeOK, Enqueue
<1>8. ASSUME queue # <<>>, queue[1].state = "running"
      PROVE  queue' # <<>> /\ queue'[1] = queue[1]
  <2>1. Len(queue) >= 1
    BY <1>1, <1>8, EmptySeq
  <2>2. i # 1
    BY <1>1, <1>3, <1>8, <2>1
  <2>3. queue'[1] = queue[1]
    BY <1>1, <1>4, <2>2
  <2>4. queue' # <<>>
    BY <1>1, <1>4
  <2> QED BY <2>3, <2>4
<1>9. AttemptsLeft'
  BY <1>6 DEF AttemptsLeft
<1> QED BY <1>4, <1>6, <1>7, <1>8, <1>9

(* The snapshot of an account depends on its existing logins alone. *)
LEMMA SnapshotKept ==
  ASSUME NEW a,
         \A l \in Login : \/ login'[l] = login[l]
                          \/ /\ ~(Exists(l) /\ login[l].acct = a)
                             /\ ~(Exists(l) /\ login[l].acct = a)'
  PROVE  Snapshot(a)' = Snapshot(a)
<1>1. LoginsOf(a)' = LoginsOf(a)
  BY DEF LoginsOf, Exists
<1>2. \A l \in LoginsOf(a) : login'[l] = login[l]
  BY DEF LoginsOf, Exists
<1> QED BY <1>1, <1>2 DEF Snapshot

(* While a synchronization is under way its account is busy. *)
Syncing(a) == pc = "calling" /\ held.kind = "sync" /\ held.acct = a

LEMMA HeldIsBusy ==
  ASSUME IInv, NEW a \in Account, Syncing(a)
  PROVE  FTPBusy(a)
<1>1. TypeOK /\ queue # <<>>
  BY DEF IInv, HeadIsRunning, Syncing
<1>2. 1 \in DOMAIN queue
  BY <1>1, HeldIsJob
<1> QED BY <1>2 DEF FTPBusy, JobsOf, Syncing, held

LEMMA RequestStep == ASSUME IInv, Request PROVE IInv'
<1> USE FtpAccessAssumption
<1>0. /\ TypeOK /\ HeadIsRunning /\ LoginsAreFilled /\ OpHasAccount /\ SnapshotIsCurrent
      /\ login \in [Login -> LoginRow] /\ acct \in [Account -> AccountRow]
  BY DEF IInv, TypeOK
(* What every request has in common. *)
<1>1. ASSUME NEW kind \in Kinds, NEW a \in Account, Enqueue(kind, a),
             UNCHANGED <<hostVars, pc, ok, mishaps>>,
             login' \in [Login -> LoginRow], acct' \in [Account -> AccountRow],
             LoginsAreFilled',
             \A b \in Account : Syncing(b) => Snapshot(b)' = Snapshot(b)
      PROVE  IInv'
  <2>1. /\ queue' \in Seq(Job) /\ AttemptsLeft' /\ requests' \in 0 .. MaxRequests
        /\ queue # <<>> /\ queue[1].state = "running" => queue' # <<>> /\ queue'[1] = queue[1]
        /\ \A k \in DOMAIN queue' : queue'[k].state = "running" => k = 1 /\ pc # "idle"
    BY <1>1, Enqueued
  <2>2. TypeOK'
    BY <1>0, <1>1, <2>1 DEF TypeOK, HostTypeOK, hostVars
  <2>3. HeadIsRunning' /\ OpHasAccount'
    BY <1>0, <1>1, <2>1 DEF HeadIsRunning, OpHasAccount, hostVars
  <2>4. SnapshotIsCurrent'
    <3>1. SUFFICES ASSUME pc' = "calling", held'.kind = "sync"
                   PROVE  op'.entries = Snapshot(held.acct)'
      BY DEF SnapshotIsCurrent
    <3>2. pc = "calling" /\ held' = held /\ op' = op
      BY <1>0, <1>1, <2>1, <3>1 DEF HeadIsRunning, held, hostVars
    <3>3. held.acct \in Account
      BY <1>0, <3>2, HeldIsJob DEF HeadIsRunning
    <3>4. PICK b \in Account : b = held.acct
      BY <3>3
    <3>5. Snapshot(b)' = Snapshot(b)
      BY <1>1, <3>1, <3>2, <3>4 DEF Syncing
    <3>6. Snapshot(held.acct)' = Snapshot(b)'
      BY <3>2, <3>4
    <3> QED BY <1>0, <3>1, <3>2, <3>4, <3>5, <3>6 DEF SnapshotIsCurrent
  <2> QED BY <1>1, <2>1, <2>2, <2>3, <2>4 DEF IInv
<1>2. ASSUME NEW l \in Login, NEW a \in Account, CreateFTP(l, a) PROVE IInv'
  <2>1. PICK n \in Name, p \in Password, e \in BOOLEAN :
          /\ RequireFTP(l, a, n)
          /\ login' = [login EXCEPT ![l] =
                         [status |-> "pending", acct |-> a, name |-> n, pw |-> p,
                          enabled |-> e, deleting |-> FALSE]]
    BY <1>2 DEF CreateFTP
  <2>2. login' \in [Login -> LoginRow]
    BY <1>0, <2>1 DEF LoginRow
  <2>3. LoginsAreFilled'
    BY <1>0, <2>1 DEF LoginsAreFilled
  <2>4. ASSUME NEW b \in Account, Syncing(b) PROVE Snapshot(b)' = Snapshot(b)
    <3>1. a # b
      BY <2>1, <2>4, HeldIsBusy DEF RequireFTP
    <3>2. ~Exists(l) /\ login'[l].acct = a /\ \A k \in Login \ {l} : login'[k] = login[k]
      BY <1>0, <1>2, <2>1 DEF CreateFTP, Exists
    <3> QED BY <3>1, <3>2, SnapshotKept
  <2> QED BY <1>0, <1>1, <1>2, <2>2, <2>3, <2>4 DEF CreateFTP
<1>3. ASSUME NEW l \in Login, UpdateFTP(l) PROVE IInv'
  <2>1. PICK n \in Name, p \in Password, e \in BOOLEAN :
          /\ RequireFTP(l, login[l].acct, n)
          /\ login' = [login EXCEPT ![l] = [login[l] EXCEPT !.status = "pending", !.name = n,
                                                            !.pw = p, !.enabled = e]]
    BY <1>3 DEF UpdateFTP
  <2>2. login[l] \in LoginRow /\ login[l].acct \in Account
    BY <1>0, <1>3 DEF UpdateFTP, Exists, LoginsAreFilled
  <2>3. login' \in [Login -> LoginRow] /\ login'[l].acct = login[l].acct
    BY <1>0, <2>1, <2>2 DEF LoginRow
  <2>4. LoginsAreFilled'
    BY <1>0, <2>1, <2>2 DEF LoginsAreFilled, LoginRow
  <2>5. ASSUME NEW b \in Account, Syncing(b) PROVE Snapshot(b)' = Snapshot(b)
    <3>1. login[l].acct # b
      BY <2>1, <2>5, HeldIsBusy DEF RequireFTP
    <3>2. \A k \in Login \ {l} : login'[k] = login[k]
      BY <1>0, <2>1
    <3> QED BY <2>3, <3>1, <3>2, SnapshotKept
  <2> QED BY <1>0, <1>1, <1>3, <2>2, <2>3, <2>4, <2>5 DEF UpdateFTP
<1>4. ASSUME NEW l \in Login, DeleteFTP(l) PROVE IInv'
  <2>1. /\ ~FTPBusy(login[l].acct)
        /\ login' = [login EXCEPT ![l] = [login[l] EXCEPT !.status = "pending",
                                                          !.deleting = TRUE]]
    BY <1>4 DEF DeleteFTP, RequireFTP
  <2>2. login[l] \in LoginRow /\ login[l].acct \in Account
    BY <1>0, <1>4 DEF DeleteFTP, Exists, LoginsAreFilled
  <2>3. login' \in [Login -> LoginRow] /\ login'[l].acct = login[l].acct
    BY <1>0, <2>1, <2>2 DEF LoginRow
  <2>4. LoginsAreFilled'
    BY <1>0, <1>4, <2>1, <2>2 DEF LoginsAreFilled, LoginRow, DeleteFTP, Exists
  <2>5. ASSUME NEW b \in Account, Syncing(b) PROVE Snapshot(b)' = Snapshot(b)
    <3>1. login[l].acct # b
      BY <2>1, <2>5, HeldIsBusy
    <3>2. \A k \in Login \ {l} : login'[k] = login[k]
      BY <1>0, <2>1
    <3> QED BY <2>3, <3>1, <3>2, SnapshotKept
  <2> QED BY <1>0, <1>1, <1>4, <2>2, <2>3, <2>4, <2>5 DEF DeleteFTP
<1>5. ASSUME NEW a \in Account, NEW kind \in {"enable", "disable", "delete"},
             AccountAction(a, kind)
      PROVE  IInv'
  <2>1. acct' \in [Account -> AccountRow]
    BY <1>0, <1>5 DEF AccountAction, AccountRow
  <2>2. login' = login /\ LoginsAreFilled'
    BY <1>0, <1>5 DEF AccountAction, LoginsAreFilled
  <2>3. \A b \in Account : Snapshot(b)' = Snapshot(b)
    BY <2>2, SnapshotKept
  <2> QED BY <1>0, <1>1, <1>5, <2>1, <2>2, <2>3 DEF AccountAction
<1> QED BY <1>2, <1>3, <1>4, <1>5 DEF Request

-------------------------------------------------------------------------------
(* The worker. *)

LEMMA Rewritten ==
  ASSUME NEW S, NEW s \in Seq(S), NEW t \in [DOMAIN s -> S]
  PROVE  t \in Seq(S) /\ DOMAIN t = DOMAIN s /\ Len(t) = Len(s)
<1>1. Len(s) \in Nat /\ DOMAIN s = 1 .. Len(s)
  BY LenProperties
<1>2. t \in Seq(S)
  BY <1>1, SeqDef
<1>3. Len(t) \in Nat /\ DOMAIN t = 1 .. Len(t)
  BY <1>2, LenProperties
<1> QED BY <1>1, <1>2, <1>3

(* The queue after an age or a recovery: the same jobs, in another state. *)
LEMMA Aged ==
  ASSUME TypeOK, AttemptsLeft, Age
  PROVE  /\ queue' \in Seq(Job) /\ AttemptsLeft' /\ (queue # <<>> => queue' # <<>>)
         /\ queue # <<>> /\ queue[1].state = "running" => queue'[1] = queue[1]
         /\ \A k \in DOMAIN queue' : queue'[k].state = "running" =>
                                       k \in DOMAIN queue /\ queue[k].state = "running"
<1> DEFINE t == [i \in DOMAIN queue |->
                   IF queue[i].state = "new" THEN [queue[i] EXCEPT !.state = "queued"]
                                             ELSE queue[i]]
<1>1. queue \in Seq(Job) /\ \A i \in DOMAIN queue : queue[i] \in Job
  BY ElementOfSeq, LenProperties DEF TypeOK
<1>2. \A i \in DOMAIN queue :
        /\ t[i] \in Job /\ t[i].tries = queue[i].tries
        /\ t[i].state = IF queue[i].state = "new" THEN "queued" ELSE queue[i].state
        /\ queue[i].state = "running" => t[i] = queue[i]
  BY <1>1 DEF Job
<1>3. queue' = t /\ t \in [DOMAIN queue -> Job]
  BY <1>2 DEF Age
<1> HIDE DEF t
<1>4. t \in Seq(Job) /\ DOMAIN t = DOMAIN queue /\ Len(t) = Len(queue)
  BY <1>1, <1>3, Rewritten
<1>5. AttemptsLeft'
  BY <1>2, <1>3, <1>4 DEF AttemptsLeft
<1>6. queue # <<>> => queue' # <<>> /\ 1 \in DOMAIN queue
  BY <1>1, <1>3, <1>4, EmptySeq, HeldIsJob
<1> QED BY <1>2, <1>3, <1>4, <1>5, <1>6

LEMMA ClaimStep == ASSUME IInv, Claim PROVE IInv'
<1> USE FtpAccessAssumption
<1> DEFINE t == [queue EXCEPT ![1].state = "running", ![1].tries = @ + 1]
<1>1. /\ queue \in Seq(Job) /\ queue # <<>> /\ 1 \in DOMAIN queue
      /\ \A i \in DOMAIN queue : queue[i] \in Job
  BY ElementOfSeq, LenProperties, HeldIsJob DEF IInv, TypeOK, Claim
<1>2. /\ \A i \in DOMAIN queue \ {1} : t[i] = queue[i]
      /\ t[1].state = "running" /\ t[1].tries = queue[1].tries + 1
      /\ DOMAIN t = DOMAIN queue
  BY <1>1 DEF Job
<1>3. t[1] \in Job /\ t[1].tries >= 1
  <2>1. queue[1].tries + 1 \in 0 .. MaxAttempts /\ queue[1].tries + 1 >= 1
    BY <1>1 DEF IInv, AttemptsLeft, HeadIsRunning, Job, Claim
  <2> QED BY <1>1, <2>1 DEF Job
<1>4. queue' = t /\ t \in [DOMAIN queue -> Job]
  BY <1>1, <1>2, <1>3 DEF Claim
<1> HIDE DEF t
<1>5. t \in Seq(Job)
  BY <1>1, <1>4, Rewritten
<1>6. TypeOK'
  BY <1>4, <1>5 DEF IInv, TypeOK, HostTypeOK, Claim, hostVars
<1>7. HeadIsRunning' /\ AttemptsLeft'
  BY <1>1, <1>2, <1>3, <1>4 DEF IInv, HeadIsRunning, AttemptsLeft, Claim
<1>8. LoginsAreFilled' /\ OpHasAccount' /\ SnapshotIsCurrent'
  BY DEF IInv, LoginsAreFilled, OpHasAccount, SnapshotIsCurrent, Claim, hostVars
<1> QED BY <1>6, <1>7, <1>8 DEF IInv

(* What the call sends is what the rows say. *)
LEMMA CallStep == ASSUME IInv, Call PROVE IInv'
<1>1. queue # <<>> /\ held.acct \in Account /\ held.kind \in Kinds /\ held' = held
  BY HeldIsJob DEF IInv, HeadIsRunning, Call, held
<1> DEFINE sent == IF held.kind = "sync" THEN Snapshot(held.acct) ELSE {}
<1>2. sent \subseteq Entry
  <2>1. \A l \in LoginsOf(held.acct) :
          l \in Login /\ login[l].name \in Name /\ login[l].pw \in Password
          /\ login[l].enabled \in BOOLEAN
    BY DEF IInv, TypeOK, LoginsAreFilled, LoginsOf, Exists, LoginRow
  <2> QED BY <2>1 DEF Snapshot, Entry
<1>3. op' = [doing |-> held.kind, acct |-> held.acct, entries |-> sent,
             at |-> "begin", failed |-> FALSE, prev |-> NoFile]
  BY DEF Call, Begin
<1>4. Snapshot(held.acct)' = Snapshot(held.acct)
  BY <1>1 DEF Call, Snapshot, LoginsOf, Exists
<1> HIDE DEF sent
<1>5. NoFile \in File
  BY DEF NoFile, File
<1>6. op' \in Op /\ op'.acct \in Account /\ op'.entries = sent
  BY <1>1, <1>2, <1>3, <1>5 DEF Op
<1>7. TypeOK'
  BY <1>6 DEF IInv, TypeOK, HostTypeOK, Call
<1>8. HeadIsRunning' /\ AttemptsLeft' /\ LoginsAreFilled' /\ OpHasAccount'
  BY <1>6 DEF IInv, HeadIsRunning, AttemptsLeft, LoginsAreFilled, OpHasAccount, Call
<1>9. SnapshotIsCurrent'
  BY <1>1, <1>4, <1>6 DEF SnapshotIsCurrent, sent
<1> QED BY <1>7, <1>8, <1>9 DEF IInv

LEMMA CallNothingStep == ASSUME IInv, CallNothing PROVE IInv'
<1>1. /\ queue' \in Seq(Job) /\ AttemptsLeft'
      /\ queue' # <<>> /\ queue'[1].state = "running"
      /\ \A k \in DOMAIN queue' : queue'[k].state = "running" => k = 1
  BY Aged DEF IInv, HeadIsRunning, CallNothing
<1>2. TypeOK'
  BY <1>1 DEF IInv, TypeOK, HostTypeOK, CallNothing, hostVars
<1>3. HeadIsRunning' /\ LoginsAreFilled' /\ OpHasAccount' /\ SnapshotIsCurrent'
  BY <1>1 DEF IInv, HeadIsRunning, LoginsAreFilled, OpHasAccount, SnapshotIsCurrent,
              CallNothing, hostVars
<1> QED BY <1>1, <1>2, <1>3 DEF IInv

(* The handlers end: only a synchronization writes logins, only an action  *)
(* its account.                                                            *)
LEMMA FinishTypes ==
  ASSUME TypeOK, LoginsAreFilled, NEW a, NEW failed \in BOOLEAN, FinishFTP(a, failed)
  PROVE  login' \in [Login -> LoginRow] /\ LoginsAreFilled'
<1>1. ASSUME NEW l \in Login
      PROVE  /\ Finished(l, failed) \in LoginRow
             /\ login[l].status = "none" \/ Finished(l, failed).status # "none"
             /\ Finished(l, failed).acct = login[l].acct
             /\ Finished(l, failed).name = login[l].name
             /\ Finished(l, failed).pw = login[l].pw
  BY DEF TypeOK, Finished, LoginRow
<1>2. \A l \in LoginsOf(a) : l \in Login /\ login[l].status # "none"
  BY DEF LoginsOf, Exists
<1>3. \A l \in Login : login'[l] = IF l \in LoginsOf(a) THEN Finished(l, failed) ELSE login[l]
  BY DEF FinishFTP
<1>4. login' \in [Login -> LoginRow]
  BY <1>1 DEF FinishFTP, TypeOK
<1> QED BY <1>1, <1>2, <1>3, <1>4 DEF LoginsAreFilled

LEMMA HandleStep == ASSUME IInv, Handle PROVE IInv'
<1>0. TypeOK /\ LoginsAreFilled /\ queue # <<>> /\ held.acct \in Account /\ op.failed \in BOOLEAN
  BY HeldIsJob DEF IInv, HeadIsRunning, Handle, TypeOK, HostTypeOK, Op
<1>1. /\ queue' \in Seq(Job) /\ AttemptsLeft'
      /\ queue' # <<>> /\ queue'[1].state = "running"
      /\ \A k \in DOMAIN queue' : queue'[k].state = "running" => k = 1
  BY Aged DEF IInv, HeadIsRunning, Handle
<1>2. /\ login' \in [Login -> LoginRow] /\ LoginsAreFilled'
      /\ acct' \in [Account -> AccountRow] /\ ok' \in BOOLEAN
  <2>1. CASE HandleSync
    BY <1>0, <2>1, FinishTypes DEF HandleSync, TypeOK
  <2>2. CASE HandleAction
    <3>1. login' = login /\ ok' \in BOOLEAN
      BY <2>2 DEF HandleAction
    <3>2. acct' \in [Account -> AccountRow]
      BY <1>0, <2>2 DEF HandleAction, TypeOK, AccountRow
    <3> QED BY <1>0, <3>1, <3>2 DEF TypeOK, LoginsAreFilled
  <2> QED BY <2>1, <2>2 DEF Handle
<1>3. op' \in Op /\ op'.at = "off"
  BY DEF Handle, NoOp, Op, NoFile, File
<1>4. TypeOK'
  BY <1>0, <1>1, <1>2, <1>3 DEF TypeOK, HostTypeOK, Handle
<1>5. HeadIsRunning' /\ OpHasAccount' /\ SnapshotIsCurrent'
  BY <1>1, <1>3 DEF HeadIsRunning, OpHasAccount, SnapshotIsCurrent, Handle
<1> QED BY <1>1, <1>2, <1>4, <1>5 DEF IInv

LEMMA HandleUnsavedStep == ASSUME IInv, HandleUnsaved PROVE IInv'
<1>1. /\ queue' \in Seq(Job) /\ AttemptsLeft'
      /\ queue' # <<>> /\ queue'[1].state = "running"
      /\ \A k \in DOMAIN queue' : queue'[k].state = "running" => k = 1
  BY Aged DEF IInv, HeadIsRunning, HandleUnsaved
<1>2. op' \in Op /\ op'.at = "off"
  BY DEF HandleUnsaved, NoOp, Op, NoFile, File
<1>3. mishaps' \in 0 .. MaxMishaps
  BY FtpAccessAssumption DEF IInv, TypeOK, HandleUnsaved
<1>4. TypeOK'
  BY <1>1, <1>2, <1>3 DEF IInv, TypeOK, HostTypeOK, HandleUnsaved
<1>5. HeadIsRunning' /\ LoginsAreFilled' /\ OpHasAccount' /\ SnapshotIsCurrent'
  BY <1>1, <1>2 DEF IInv, HeadIsRunning, LoginsAreFilled, OpHasAccount,
                    SnapshotIsCurrent, HandleUnsaved
<1> QED BY <1>1, <1>4, <1>5 DEF IInv

(* The settled job leaves the queue, or waits at its head for its retry. *)
LEMMA SettleStep == ASSUME IInv, Settle PROVE IInv'
<1>1. /\ queue \in Seq(Job) /\ queue # <<>> /\ 1 \in DOMAIN queue /\ held \in Job
      /\ Len(queue) \in Nat /\ DOMAIN queue = 1 .. Len(queue)
      /\ \A i \in DOMAIN queue : queue[i] \in Job
  BY ElementOfSeq, LenProperties, HeldIsJob DEF IInv, TypeOK, HeadIsRunning, Settle
<1>2. /\ queue' \in Seq(Job) /\ AttemptsLeft'
      /\ \A k \in DOMAIN queue' : queue'[k].state # "running"
  <2>1. CASE ~ok /\ held.tries < MaxAttempts
    <3> DEFINE t == [queue EXCEPT ![1].state = "queued"]
    <3>1. /\ \A i \in DOMAIN queue \ {1} : t[i] = queue[i]
          /\ t[1].state = "queued" /\ t[1].tries = held.tries /\ t[1] \in Job
          /\ DOMAIN t = DOMAIN queue
      BY <1>1 DEF held, Job
    <3>2. queue' = t /\ t \in [DOMAIN queue -> Job]
      BY <1>1, <2>1, <3>1 DEF Settle
    <3> HIDE DEF t
    <3>3. t \in Seq(Job)
      BY <1>1, <3>2, Rewritten
    <3> QED BY <2>1, <3>1, <3>2, <3>3 DEF IInv, AttemptsLeft, HeadIsRunning
  <2>2. CASE ~(~ok /\ held.tries < MaxAttempts)
    <3>1. queue' = Tail(queue)
      BY <2>2 DEF Settle
    <3>2. /\ Tail(queue) \in Seq(Job) /\ Len(Tail(queue)) = Len(queue) - 1
          /\ \A k \in 1 .. Len(Tail(queue)) : Tail(queue)[k] = queue[k + 1]
      BY <1>1, HeadTailProperties
    <3>3. DOMAIN queue' = 1 .. Len(queue) - 1
      BY <3>1, <3>2, LenProperties
    <3>4. \A k \in DOMAIN queue' : queue'[k] = queue[k + 1] /\ k + 1 \in DOMAIN queue /\ k + 1 # 1
      BY <1>1, <3>1, <3>2, <3>3
    <3> QED BY <3>1, <3>2, <3>4 DEF IInv, AttemptsLeft, HeadIsRunning
  <2> QED BY <2>1, <2>2
<1>3. TypeOK'
  BY <1>2 DEF IInv, TypeOK, HostTypeOK, Settle, hostVars
<1>4. HeadIsRunning' /\ LoginsAreFilled' /\ OpHasAccount' /\ SnapshotIsCurrent'
  BY <1>2 DEF IInv, HeadIsRunning, LoginsAreFilled, OpHasAccount, SnapshotIsCurrent,
              Settle, hostVars
<1> QED BY <1>2, <1>3, <1>4 DEF IInv

LEMMA CrashStep == ASSUME IInv, Crash PROVE IInv'
<1>1. mishaps' \in 0 .. MaxMishaps
  BY FtpAccessAssumption DEF IInv, TypeOK, Crash
<1>2. TypeOK'
  BY <1>1 DEF IInv, TypeOK, HostTypeOK, Crash, hostVars
<1>3. HeadIsRunning' /\ AttemptsLeft' /\ LoginsAreFilled' /\ OpHasAccount' /\ SnapshotIsCurrent'
  BY DEF IInv, HeadIsRunning, AttemptsLeft, LoginsAreFilled, OpHasAccount,
         SnapshotIsCurrent, Crash, hostVars
<1> QED BY <1>2, <1>3 DEF IInv

(* Recovery requeues the running job with its attempt refunded. *)
LEMMA RestartStep == ASSUME IInv, Restart PROVE IInv'
<1> USE FtpAccessAssumption
<1> DEFINE t == [i \in DOMAIN queue |->
                   IF queue[i].state = "running"
                   THEN [queue[i] EXCEPT !.state = "queued", !.tries = @ - 1]
                   ELSE [queue[i] EXCEPT !.state = "queued"]]
<1>1. queue \in Seq(Job) /\ \A i \in DOMAIN queue : queue[i] \in Job
  BY ElementOfSeq, LenProperties DEF IInv, TypeOK
<1>2. \A i \in DOMAIN queue :
        t[i] \in Job /\ t[i].tries < MaxAttempts /\ t[i].state = "queued"
  <2> SUFFICES ASSUME NEW i \in DOMAIN queue
               PROVE  t[i] \in Job /\ t[i].tries < MaxAttempts /\ t[i].state = "queued"
    OBVIOUS
  <2>1. queue[i] \in Job /\ IF queue[i].state = "running" THEN queue[i].tries >= 1
                                                         ELSE queue[i].tries < MaxAttempts
    BY <1>1 DEF IInv, AttemptsLeft
  <2>2. CASE queue[i].state = "running"
    <3>1. /\ queue[i].tries - 1 \in 0 .. MaxAttempts /\ queue[i].tries - 1 < MaxAttempts
          /\ t[i] = [queue[i] EXCEPT !.state = "queued", !.tries = @ - 1]
      BY <2>1, <2>2 DEF Job
    <3> QED BY <2>1, <3>1 DEF Job
  <2>3. CASE queue[i].state # "running"
    <3>1. t[i] = [queue[i] EXCEPT !.state = "queued"]
      BY <2>3
    <3> QED BY <2>1, <2>3, <3>1 DEF Job
  <2> QED BY <2>2, <2>3
<1>3. queue' = t /\ t \in [DOMAIN queue -> Job]
  BY <1>2 DEF Restart
<1> HIDE DEF t
<1>4. t \in Seq(Job) /\ DOMAIN t = DOMAIN queue
  BY <1>1, <1>3, Rewritten
<1>5. TypeOK'
  BY <1>3, <1>4 DEF IInv, TypeOK, HostTypeOK, Restart, hostVars
<1>6. HeadIsRunning' /\ AttemptsLeft' /\ LoginsAreFilled' /\ OpHasAccount' /\ SnapshotIsCurrent'
  BY <1>2, <1>3, <1>4 DEF IInv, HeadIsRunning, AttemptsLeft, LoginsAreFilled, OpHasAccount,
         SnapshotIsCurrent, Restart, hostVars
<1> QED BY <1>5, <1>6 DEF IInv

LEMMA OrphanedStep == ASSUME IInv, Orphaned PROVE IInv'
<1>1. op' \in Op /\ op'.at = "off"
  BY DEF Orphaned, NoOp, Op, NoFile, File
<1>2. TypeOK'
  BY <1>1 DEF IInv, TypeOK, HostTypeOK, Orphaned, panel
<1>3. HeadIsRunning' /\ AttemptsLeft' /\ LoginsAreFilled' /\ OpHasAccount' /\ SnapshotIsCurrent'
  BY <1>1 DEF IInv, HeadIsRunning, AttemptsLeft, LoginsAreFilled, OpHasAccount,
         SnapshotIsCurrent, Orphaned, panel
<1> QED BY <1>2, <1>3 DEF IInv

LEMMA HostStep == ASSUME IInv, HostNext, UNCHANGED panel PROVE IInv'
<1>1. HostTypeOK' /\ OpHasAccount' /\ op'.entries = op.entries
  BY HostStepTypes DEF IInv, TypeOK
<1>2. TypeOK'
  BY <1>1 DEF IInv, TypeOK, panel
<1>3. HeadIsRunning' /\ AttemptsLeft' /\ LoginsAreFilled'
  BY DEF IInv, HeadIsRunning, AttemptsLeft, LoginsAreFilled, panel
<1>4. Snapshot(held.acct)' = Snapshot(held.acct) /\ held' = held /\ pc' = pc
  BY DEF panel, held, Snapshot, LoginsOf, Exists
<1>5. SnapshotIsCurrent'
  BY <1>1, <1>4 DEF IInv, SnapshotIsCurrent
<1> QED BY <1>1, <1>2, <1>3, <1>5 DEF IInv

-------------------------------------------------------------------------------
LEMMA InitIInv == Init => IInv
<1> SUFFICES ASSUME Init PROVE IInv
  OBVIOUS
<1> USE FtpAccessAssumption, FtpHostAssumption
<1>1. HostTypeOK
  BY DEF Init, HostInit, HostTypeOK, NoFile, File, NoOp, Op
<1>2. queue \in Seq(Job) /\ DOMAIN queue = {}
  BY EmptySeq DEF Init
<1>3. /\ acct \in [Account -> AccountRow] /\ login \in [Login -> LoginRow]
      /\ \A l \in Login : login[l].status = "none"
  BY DEF Init, AccountRow, LoginRow
<1>4. TypeOK
  <2>1. /\ pc \in {"idle", "claimed", "calling", "handled", "down"} /\ ok \in BOOLEAN
        /\ requests \in 0 .. MaxRequests /\ mishaps \in 0 .. MaxMishaps
    BY DEF Init
  <2> QED BY <1>1, <1>2, <1>3, <2>1 DEF TypeOK
<1> QED BY <1>2, <1>3, <1>4 DEF Init, HostInit, NoOp, IInv, HeadIsRunning, AttemptsLeft,
             LoginsAreFilled, OpHasAccount, SnapshotIsCurrent

LEMMA StutterStep == ASSUME IInv, UNCHANGED vars PROVE IInv'
<1>1. TypeOK' /\ HeadIsRunning' /\ AttemptsLeft' /\ LoginsAreFilled' /\ OpHasAccount'
  BY DEF IInv, TypeOK, HostTypeOK, HeadIsRunning, AttemptsLeft, LoginsAreFilled,
         OpHasAccount, vars, hostVars, panel
<1>2. Snapshot(held.acct)' = Snapshot(held.acct) /\ held' = held /\ pc' = pc /\ op' = op
  BY DEF vars, hostVars, panel, held, Snapshot, LoginsOf, Exists
<1> QED BY <1>1, <1>2 DEF IInv, SnapshotIsCurrent

LEMMA NextIInv == IInv /\ [Next]_vars => IInv'
<1> SUFFICES ASSUME IInv, [Next]_vars PROVE IInv'
  OBVIOUS
<1>1. CASE Request
  BY <1>1, RequestStep
<1>2. CASE WorkerStep
  BY <1>2, ClaimStep, CallStep, CallNothingStep, HandleStep, SettleStep, OrphanedStep
     DEF WorkerStep
<1>3. CASE HostNext /\ UNCHANGED panel
  BY <1>3, HostStep
<1>4. CASE HandleUnsaved \/ Crash \/ Restart
  BY <1>4, HandleUnsavedStep, CrashStep, RestartStep
<1>5. CASE UNCHANGED vars
  BY <1>5, StutterStep
<1> QED BY <1>1, <1>2, <1>3, <1>4, <1>5 DEF Next

(* The invariant: the queue, the worker, the operation and the rows of the *)
(* logins fit together after every step of the panel and of the host.      *)
THEOREM Invariance == Spec => []IInv
BY InitIInv, NextIInv, PTL DEF Spec

(* Every variable keeps its type: no job exceeds its attempts, and nothing *)
(* is sent to the Agent that is not a well-formed list of logins.          *)
THEOREM TypeCorrect == Spec => []TypeOK
<1>1. IInv => TypeOK
  BY DEF IInv
<1> QED BY <1>1, Invariance, PTL

(* requireFTP's busy check and the single worker suffice: no request       *)
(* changes the logins of an account between the read of its ftp.sync       *)
(* handler and FinishFTP, which therefore settles what was synchronized.   *)
THEOREM SyncSettlesWhatItSent == Spec => []SnapshotIsCurrent
<1>1. IInv => SnapshotIsCurrent
  BY DEF IInv
<1> QED BY <1>1, Invariance, PTL

(* Driver.rebuild is the one place the database changes, and it compares   *)
(* the names of all account files first: the database never holds one      *)
(* name for two logins, whatever the panel's rows say meanwhile.           *)
THEOREM NamesNeverCollide == Spec => []OneLoginPerName
<1>1. Init => OneLoginPerName
  BY DEF Init, HostInit, OneLoginPerName
<1>2. OneLoginPerName /\ [Next]_vars => OneLoginPerName'
  <2>1. [Next]_vars => Rebuild \/ pdb' = pdb
    <3>1. HostNext => Rebuild \/ pdb' = pdb
      BY DEF HostNext, AgentStep, AgentFault, SyncRefused, SyncWrites, Write, DisableHome,
             EnableHome, DeleteBegins, NoFtpState, SetSuspended, Disconnect, Done, UndoEnable,
             UndoHome, RemoveFile, DeleteUser, Quarantine, RebuildFails, DisableHomeFails,
             EnableHomeFails, WriteFails, DisconnectFails, Abort, OpenSession
    <3>2. Request => pdb' = pdb
      BY DEF Request, CreateFTP, UpdateFTP, DeleteFTP, AccountAction, hostVars
    <3>3. WorkerStep \/ HandleUnsaved \/ Crash \/ Restart => pdb' = pdb
      BY DEF WorkerStep, Claim, Call, CallNothing, Handle, Settle, Orphaned, HandleUnsaved,
             Crash, Restart, hostVars
    <3> QED BY <3>1, <3>2, <3>3 DEF Next, vars, hostVars
  <2>2. Rebuild => OneLoginPerName'
    <3> SUFFICES ASSUME Rebuild, NEW x \in Compiled, NEW y \in Compiled, x.name = y.name
                 PROVE  x.login = y.login
      BY DEF Rebuild, OneLoginPerName
    <3>1. \A z \in Compiled : \E a \in Account : \E e \in file[a].entries :
                            z.name = e.name /\ z.login = e.login
      BY DEF Compiled, Lines
    <3>2. PICK a \in Account : \E e \in file[a].entries : x.name = e.name /\ x.login = e.login
      BY <3>1
    <3>3. PICK b \in Account : \E f \in file[b].entries : y.name = f.name /\ y.login = f.login
      BY <3>1
    <3>4. PICK e \in file[a].entries : x.name = e.name /\ x.login = e.login
      BY <3>2
    <3>5. PICK f \in file[b].entries : y.name = f.name /\ y.login = f.login
      BY <3>3
    <3>6. e.name = f.name => e.login = f.login
      BY DEF Rebuild, NamesDiffer
    <3> QED BY <3>4, <3>5, <3>6
  <2> QED BY <2>1, <2>2 DEF OneLoginPerName
<1> QED BY <1>1, <1>2, PTL DEF Spec

-------------------------------------------------------------------------------
(* Whatever the host holds of a login - in an account file, in the         *)
(* database, in a session or in the operation under way - is a login that  *)
(* still exists, under its own account.                                    *)
Belongs(l, a) == Exists(l) /\ login[l].acct = a
Owned ==
  /\ \A a \in Account : \A e \in file[a].entries : Belongs(e.login, a)
  /\ \A x \in pdb \cup sessions : Belongs(x.login, x.acct)
  /\ op.at # "off" => \A e \in op.entries \cup op.prev.entries : Belongs(e.login, op.acct)

(* The call the worker waits for is the operation under way.               *)
OpIsHeld ==
  pc = "calling" => /\ op.at # "off" /\ op.acct = held.acct
                    /\ held.kind \in {"sync", "delete"} => op.doing = held.kind

(* How far a synchronization that has not failed has come: the file, then  *)
(* the database, then the sessions have no login but those it was sent,    *)
(* under the name and password it was sent.                                *)
Sent(x) ==
  x.acct = op.acct =>
    \E e \in op.entries : e.enabled /\ e.login = x.login /\ e.name = x.name /\ e.pw = x.pw
SyncProgress ==
  op.doing = "sync" =>
    /\ op.at \notin {"ftp", "linux"}
    /\ ~op.failed =>
         /\ op.at \in {"written", "rebuilt", "after", "end"} => file[op.acct].entries = op.entries
         /\ op.at \in {"rebuilt", "after", "end"} => \A x \in pdb : Sent(x)
         /\ op.at \in {"after", "end"} => \A x \in sessions : Sent(x)

TraceInv == Owned /\ OpIsHeld /\ SyncProgress

(* A step of the panel that keeps every login under its account. *)
LEMMA BelongsKept ==
  ASSUME Owned, SyncProgress, UNCHANGED hostVars,
         \A l \in Login, a \in Account : Belongs(l, a) => Belongs(l, a)',
         TypeOK, OpHasAccount
  PROVE  Owned' /\ SyncProgress'
<1>1. /\ \A a \in Account : \A e \in file[a].entries : e.login \in Login
      /\ \A x \in pdb \cup sessions : x.login \in Login /\ x.acct \in Account
      /\ \A e \in op.entries \cup op.prev.entries : e.login \in Login
  BY DEF TypeOK, HostTypeOK, File, Entry, Line, Op
<1>2. Owned'
  BY <1>1 DEF Owned, OpHasAccount, hostVars
<1>3. SyncProgress'
  BY DEF SyncProgress, Sent, hostVars
<1> QED BY <1>2, <1>3

LEMMA WriteOwned ==
  ASSUME Owned, TypeOK, op.acct \in Account, op.at # "off", NEW f \in File, Write(f),
         \A e \in f.entries : Belongs(e.login, op.acct)
  PROVE  /\ \A a \in Account : \A e \in file'[a].entries : Belongs(e.login, a)
         /\ op'.entries = op.entries /\ op'.prev = file[op.acct] /\ op'.acct = op.acct
         /\ op'.doing = op.doing /\ op'.at = "written" /\ op'.failed = op.failed
         /\ file'[op.acct] = f /\ pdb' = pdb /\ sessions' = sessions
BY DEF Owned, Write, TypeOK, HostTypeOK, Op, a0

(* The operators of a step that only moves the operation on. *)
LEMMA OpFields ==
  ASSUME op \in Op, NEW p \in Points
  PROVE  /\ Goto(p) => /\ op'.entries = op.entries /\ op'.prev = op.prev /\ op'.acct = op.acct
                       /\ op'.doing = op.doing /\ op'.at = p /\ op'.failed = op.failed
         /\ FailTo(p) => /\ op'.entries = op.entries /\ op'.prev = op.prev /\ op'.acct = op.acct
                         /\ op'.doing = op.doing /\ op'.at = p /\ op'.failed = TRUE
BY DEF Op, Goto, FailTo

LEMMA HostKeepsTrace ==
  ASSUME IInv, TraceInv, HostNext, UNCHANGED panel
  PROVE  TraceInv'
<1>0. /\ TypeOK /\ OpHasAccount /\ op \in Op /\ Owned /\ SyncProgress
      /\ \A l, a : Belongs(l, a)' <=> Belongs(l, a)
  BY DEF IInv, TypeOK, HostTypeOK, TraceInv, panel, Belongs, Exists
<1>1. op.at # "off" => op.acct \in Account /\ file[op.acct] \in File
  BY <1>0 DEF OpHasAccount, TypeOK, HostTypeOK
(* Steps that leave file, database and sessions alone. *)
<1>2. ASSUME UNCHANGED <<file, pdb, sessions>>, op.at # "off",
             NEW p \in Points \ {"off", "written", "rebuilt"}, Goto(p) \/ FailTo(p),
             op.doing = "sync" => p \notin {"ftp", "linux"} /\ (FailTo(p) \/ op.at = "after")
      PROVE  Owned' /\ SyncProgress'
  <2>1. /\ op'.entries = op.entries /\ op'.prev = op.prev /\ op'.acct = op.acct
        /\ op'.doing = op.doing /\ op'.at = p
        /\ FailTo(p) => op'.failed = TRUE
        /\ Goto(p) => op'.failed = op.failed
    BY <1>0, <1>2, OpFields
  <2>2. Owned'
    BY <1>0, <1>2, <2>1 DEF Owned
  <2>3. SyncProgress'
    BY <1>0, <1>2, <2>1 DEF SyncProgress, Sent
  <2> QED BY <2>2, <2>3
<1>3. ASSUME SyncRefused \/ DisableHome \/ DisableHomeFails \/ EnableHome \/ EnableHomeFails
             \/ DeleteBegins \/ NoFtpState \/ WriteFails \/ Done \/ UndoHome \/ Quarantine
             \/ Abort
      PROVE  Owned' /\ SyncProgress'
  <2>1. CASE SyncRefused
    BY <1>2, <2>1 DEF SyncRefused
  <2>2. CASE DisableHome \/ DisableHomeFails \/ EnableHome \/ EnableHomeFails \/ DeleteBegins
    BY <1>2, <2>2 DEF DisableHome, DisableHomeFails, EnableHome, EnableHomeFails, DeleteBegins
  <2>3. CASE NoFtpState \/ WriteFails
    BY <1>0, <1>2, <2>3 DEF NoFtpState, WriteFails, SyncProgress
  <2>4. CASE Done \/ UndoHome \/ Quarantine
    BY <1>0, <1>2, <2>4 DEF Done, UndoHome, Quarantine, SyncProgress
  <2>5. CASE Abort
    BY <1>2, <2>5 DEF Abort, Running
  <2> QED BY <1>3, <2>1, <2>2, <2>3, <2>4, <2>5
<1>4. ASSUME SyncWrites PROVE Owned' /\ SyncProgress'
  <2> DEFINE f == [there |-> TRUE, suspended |-> file[a0].suspended, entries |-> op.entries]
  <2>1. op.at # "off" /\ Write(f) /\ f.entries = op.entries
    BY <1>4 DEF SyncWrites
  <2>2. f \in File
    BY <1>0, <1>1, <2>1 DEF File, Op, a0
  <2> HIDE DEF f
  <2>3. /\ \A a \in Account : \A e \in file'[a].entries : Belongs(e.login, a)
        /\ op'.entries = op.entries /\ op'.prev = file[op.acct] /\ op'.acct = op.acct
        /\ op'.at = "written"
        /\ file'[op.acct] = f /\ pdb' = pdb /\ sessions' = sessions
    BY <1>0, <1>1, <2>1, <2>2, WriteOwned DEF Owned
  <2> QED BY <1>0, <1>1, <2>1, <2>3 DEF Owned, SyncProgress
<1>5. ASSUME SetSuspended PROVE Owned' /\ SyncProgress'
  <2> DEFINE f == [file[a0] EXCEPT !.suspended = (op.doing # "enable")]
  <2>1. op.at = "ftp" /\ Write(f) /\ f \in File /\ f.entries = file[op.acct].entries
    BY <1>1, <1>5 DEF SetSuspended, File, a0
  <2> HIDE DEF f
  <2>2. /\ \A a \in Account : \A e \in file'[a].entries : Belongs(e.login, a)
        /\ op'.entries = op.entries /\ op'.prev = file[op.acct] /\ op'.acct = op.acct
        /\ op'.doing = op.doing /\ op'.at = "written"
        /\ pdb' = pdb /\ sessions' = sessions
    BY <1>0, <1>1, <2>1, WriteOwned DEF Owned
  <2> QED BY <1>0, <1>1, <2>1, <2>2 DEF Owned, SyncProgress
<1>6. ASSUME Rebuild PROVE Owned' /\ SyncProgress'
  <2>1. /\ op'.entries = op.entries /\ op'.prev = op.prev /\ op'.acct = op.acct
        /\ op'.doing = op.doing /\ op'.at = "rebuilt" /\ op'.failed = op.failed
        /\ op.at = "written" /\ file' = file /\ sessions' = sessions
    BY <1>0, <1>6, OpFields DEF Rebuild
  <2>2. \A x \in pdb' :
          /\ x.acct \in Account
          /\ \E e \in file[x.acct].entries :
               e.enabled /\ e.login = x.login /\ e.name = x.name /\ e.pw = x.pw
    BY <1>6 DEF Rebuild, Compiled, Lines
  <2>3. Owned'
    BY <1>0, <2>1, <2>2 DEF Owned
  <2>4. SyncProgress'
    BY <1>0, <2>1, <2>2 DEF SyncProgress, Sent
  <2> QED BY <2>3, <2>4
<1>7. ASSUME RebuildFails PROVE Owned' /\ SyncProgress'
  <2>1. /\ op'.entries = op.entries /\ op'.prev = op.prev /\ op'.acct = op.acct
        /\ op'.doing = op.doing /\ op'.at = "after" /\ op'.failed = TRUE
        /\ op.at = "written" /\ pdb' = pdb /\ sessions' = sessions
        /\ file' = [file EXCEPT ![op.acct] = op.prev]
    BY <1>0, <1>7, OpFields DEF RebuildFails, a0
  <2>2. \A a \in Account : \A e \in file'[a].entries : Belongs(e.login, a)
    BY <1>0, <1>1, <2>1 DEF Owned, TypeOK, HostTypeOK
  <2> QED BY <1>0, <2>1, <2>2 DEF Owned, SyncProgress
<1>8. ASSUME Disconnect \/ DisconnectFails PROVE Owned' /\ SyncProgress'
  <2>1. /\ op'.entries = op.entries /\ op'.prev = op.prev /\ op'.acct = op.acct
        /\ op'.doing = op.doing /\ op'.at = "after" /\ op.at = "rebuilt"
        /\ pdb' = pdb /\ file' = file /\ sessions' \subseteq sessions
        /\ Disconnect => op'.failed = op.failed /\ \A x \in sessions' : x.acct # op.acct
        /\ DisconnectFails => op'.failed = TRUE
    BY <1>0, <1>8, OpFields DEF Disconnect, DisconnectFails, a0
  <2>2. Owned'
    BY <1>0, <2>1 DEF Owned
  <2>3. SyncProgress'
    BY <1>0, <1>8, <2>1 DEF SyncProgress, Sent
  <2> QED BY <2>2, <2>3
<1>9. ASSUME UndoEnable PROVE Owned' /\ SyncProgress'
  <2>1. /\ op'.entries = op.entries /\ op'.prev = op.prev /\ op'.acct = op.acct
        /\ op'.doing = "undo" /\ op.at # "off"
        /\ UNCHANGED <<file, pdb, sessions>>
    BY <1>0, <1>9 DEF UndoEnable, Op
  <2> QED BY <1>0, <2>1 DEF Owned, SyncProgress
<1>10. ASSUME RemoveFile PROVE Owned' /\ SyncProgress'
  <2>1. PICK p \in {"end", "linux"} : Goto(p)
    BY <1>10 DEF RemoveFile
  <2>2. /\ op'.entries = op.entries /\ op'.prev = op.prev /\ op'.acct = op.acct
        /\ op'.doing = "delete" /\ op.at # "off" /\ pdb' = pdb /\ sessions' = sessions
    BY <1>0, <1>10, <2>1, OpFields DEF RemoveFile
  <2>3. \A a \in Account : file'[a] = file[a] \/ file'[a].entries = {}
    BY <1>0, <1>10 DEF RemoveFile, NoFile, TypeOK, HostTypeOK
  <2> QED BY <1>0, <2>2, <2>3 DEF Owned, SyncProgress
<1>11. ASSUME DeleteUser PROVE Owned' /\ SyncProgress'
  BY <1>0, <1>11 DEF DeleteUser, Owned, SyncProgress, Sent
<1>12. ASSUME OpenSession PROVE Owned' /\ SyncProgress'
  <2>1. PICK line \in pdb : sessions' = sessions \cup {line}
    BY <1>12 DEF OpenSession
  <2>2. UNCHANGED <<file, pdb, op>>
    BY <1>12 DEF OpenSession
  <2> QED BY <1>0, <2>1, <2>2 DEF Owned, SyncProgress, Sent
<1>13. Owned' /\ SyncProgress'
  BY <1>3, <1>4, <1>5, <1>6, <1>7, <1>8, <1>9, <1>10, <1>11, <1>12
     DEF HostNext, AgentStep, AgentFault
<1>14. OpIsHeld'
  <2> DEFINE Same == /\ op'.acct = op.acct
                     /\ op.at # "off" => op'.at # "off"
                     /\ op.doing \in {"sync", "delete"} => op'.doing = op.doing
  <2>1. ASSUME NEW p \in Points \ {"off"}, Goto(p) \/ FailTo(p) PROVE Same
    BY <1>0, <2>1, OpFields
  <2>2. ASSUME NEW f, Write(f) PROVE Same
    BY <1>0, <2>2 DEF Write, Op
  <2>3. OpenSession \/ DeleteUser => Same
    BY DEF OpenSession, DeleteUser
  <2>4. UndoEnable => Same
    BY <1>0 DEF UndoEnable, Op
  <2>5. SyncWrites \/ SetSuspended => Same
    BY <2>2 DEF SyncWrites, SetSuspended
  <2>6. SyncRefused \/ DisableHome \/ DisableHomeFails \/ EnableHome \/ EnableHomeFails
        \/ DeleteBegins \/ NoFtpState \/ WriteFails => Same
    BY <2>1 DEF SyncRefused, DisableHome, DisableHomeFails, EnableHome, EnableHomeFails,
                DeleteBegins, NoFtpState, WriteFails
  <2>7. Rebuild \/ RebuildFails \/ Disconnect \/ DisconnectFails \/ Done \/ UndoHome
        \/ RemoveFile \/ Quarantine \/ Abort => Same
    BY <2>1 DEF Rebuild, RebuildFails, Disconnect, DisconnectFails, Done, UndoHome,
                RemoveFile, Quarantine, Abort
  <2>8. Same
    BY <2>3, <2>4, <2>5, <2>6, <2>7 DEF HostNext, AgentStep, AgentFault
  <2> QED BY <2>8 DEF TraceInv, OpIsHeld, panel, held
<1> QED BY <1>13, <1>14 DEF TraceInv

LEMMA RequestKeepsTrace ==
  ASSUME IInv, TraceInv, Request PROVE TraceInv'
<1>0. /\ TypeOK /\ OpHasAccount /\ Owned /\ SyncProgress /\ HeadIsRunning
      /\ login \in [Login -> LoginRow]
  BY DEF IInv, TypeOK, TraceInv
<1>1. UNCHANGED hostVars /\ pc' = pc
  BY DEF Request, CreateFTP, UpdateFTP, DeleteFTP, AccountAction
<1>2. ASSUME NEW k \in Login, NEW b \in Account, Belongs(k, b) PROVE Belongs(k, b)'
  <2>1. ASSUME NEW l \in Login, NEW a \in Account, CreateFTP(l, a) PROVE login'[k] = login[k]
    BY <1>0, <1>2, <2>1 DEF CreateFTP, Belongs, Exists
  <2>2. ASSUME NEW l \in Login, UpdateFTP(l) \/ DeleteFTP(l)
        PROVE  login'[k] = login[k] \/ (login'[k].acct = login[k].acct /\ login'[k].status = "pending")
    <3>1. CASE UpdateFTP(l)
      <4>1. PICK n \in Name, p \in Password, e \in BOOLEAN :
              login' = [login EXCEPT ![l] = [login[l] EXCEPT !.status = "pending", !.name = n,
                                                             !.pw = p, !.enabled = e]]
        BY <3>1 DEF UpdateFTP
      <4> QED BY <1>0, <4>1 DEF LoginRow
    <3>2. CASE DeleteFTP(l)
      <4>1. login' = [login EXCEPT ![l] = [login[l] EXCEPT !.status = "pending",
                                                           !.deleting = TRUE]]
        BY <3>2 DEF DeleteFTP
      <4> QED BY <1>0, <4>1 DEF LoginRow
    <3> QED BY <2>2, <3>1, <3>2
  <2>3. ASSUME NEW a, NEW kind, AccountAction(a, kind) PROVE login'[k] = login[k]
    BY <2>3 DEF AccountAction
  <2>4. login'[k] = login[k] \/ (login'[k].acct = login[k].acct /\ login'[k].status = "pending")
    BY <2>1, <2>2, <2>3 DEF Request
  <2> QED BY <1>2, <2>4 DEF Belongs, Exists
<1>3. Owned' /\ SyncProgress'
  BY <1>0, <1>1, <1>2, BelongsKept
<1>4. pc = "calling" => held' = held
  <2>1. ASSUME NEW kind \in Kinds, NEW a \in Account, Enqueue(kind, a), pc = "calling"
        PROVE  held' = held
    BY <1>0, <2>1, Enqueued DEF HeadIsRunning, held
  <2>2. ASSUME NEW l \in Login, Exists(l) PROVE login[l].acct \in Account
    BY <2>2 DEF IInv, LoginsAreFilled, Exists
  <2> QED BY <2>1, <2>2 DEF Request, CreateFTP, UpdateFTP, DeleteFTP, AccountAction
<1>5. OpIsHeld'
  BY <1>1, <1>4 DEF TraceInv, OpIsHeld, hostVars
<1> QED BY <1>3, <1>5 DEF TraceInv

LEMMA CallKeepsTrace ==
  ASSUME IInv, TraceInv, Call PROVE TraceInv'
<1>1. queue # <<>> /\ held.acct \in Account /\ held.kind \in Kinds /\ held' = held
  BY HeldIsJob DEF IInv, HeadIsRunning, Call, held
<1> DEFINE sent == IF held.kind = "sync" THEN Snapshot(held.acct) ELSE {}
<1>2. \A e \in sent : Belongs(e.login, held.acct)
  BY DEF Snapshot, LoginsOf, Belongs
<1> HIDE DEF sent
<1>3. /\ op'.doing = held.kind /\ op'.acct = held.acct /\ op'.entries = sent
      /\ op'.at = "begin" /\ op'.prev.entries = {}
  BY DEF Call, Begin, NoFile, sent
<1>4. UNCHANGED <<file, pdb, sessions, login>>
  BY DEF Call
<1>5. Owned'
  BY <1>2, <1>3, <1>4 DEF TraceInv, Owned, Belongs, Exists
<1>6. OpIsHeld' /\ SyncProgress'
  BY <1>1, <1>3 DEF OpIsHeld, SyncProgress
<1> QED BY <1>5, <1>6 DEF TraceInv

(* A login's row goes when the host has nothing of it left. *)
LEMMA HandleKeepsTrace ==
  ASSUME IInv, TraceInv, Handle PROVE TraceInv'
<1>0. /\ TypeOK /\ Owned /\ SyncProgress /\ OpIsHeld /\ login \in [Login -> LoginRow]
      /\ pc = "calling" /\ op.at = "end" /\ op.acct = held.acct
      /\ UNCHANGED <<file, pdb, sessions>>
  BY DEF IInv, TypeOK, TraceInv, Handle, OpIsHeld
<1>1. op'.at = "off" /\ op'.doing = "sync" /\ pc' = "handled"
  BY DEF Handle, NoOp
<1>2. ASSUME NEW l \in Login, NEW b \in Account, Belongs(l, b),
             HandleSync /\ ~op.failed /\ b = op.acct => \E e \in op.entries : e.login = l
      PROVE  Belongs(l, b)'
  <2>1. CASE HandleAction
    BY <1>2, <2>1 DEF HandleAction, Belongs, Exists
  <2>2. CASE HandleSync
    <3>1. login' = [k \in Login |-> IF k \in LoginsOf(held.acct) THEN Finished(k, op.failed)
                                                                  ELSE login[k]]
      BY <2>2 DEF HandleSync, FinishFTP
    <3>2. CASE l \notin LoginsOf(held.acct)
      BY <1>2, <3>1, <3>2 DEF Belongs, Exists
    <3>3. CASE l \in LoginsOf(held.acct)
      <4>1. login'[l] = Finished(l, op.failed) /\ b = op.acct
        BY <1>0, <1>2, <3>1, <3>3 DEF LoginsOf, Belongs
      <4>2. op.failed \/ ~login[l].deleting
        <5>1. op.failed \/ \E e \in Snapshot(held.acct) : e.login = l
          BY <1>0, <1>2, <2>2, <4>1 DEF IInv, SnapshotIsCurrent, HandleSync
        <5> QED BY <5>1 DEF Snapshot
      <4>3. Finished(l, op.failed).acct = login[l].acct
            /\ Finished(l, op.failed).status \in {"error", "active", "disabled"}
        BY <1>0, <4>2 DEF Finished, LoginRow
      <4> QED BY <1>2, <4>1, <4>3 DEF Belongs, Exists
    <3> QED BY <3>2, <3>3
  <2> QED BY <2>1, <2>2 DEF Handle
(* What a successful synchronization leaves on the host is what it sent. *)
<1>3. ASSUME HandleSync, ~op.failed
      PROVE  /\ file[op.acct].entries = op.entries
             /\ \A x \in pdb \cup sessions : Sent(x)
  BY <1>0, <1>3 DEF SyncProgress, OpIsHeld, HandleSync
<1>4. \A a \in Account : \A e \in file[a].entries : Belongs(e.login, a)'
  <2> SUFFICES ASSUME NEW a \in Account, NEW e \in file[a].entries PROVE Belongs(e.login, a)'
    OBVIOUS
  <2>1. e.login \in Login /\ Belongs(e.login, a)
    BY <1>0 DEF Owned, TypeOK, HostTypeOK, File, Entry
  <2>2. HandleSync /\ ~op.failed /\ a = op.acct => \E d \in op.entries : d.login = e.login
    BY <1>3
  <2> QED BY <1>2, <2>1, <2>2
<1>5. \A x \in pdb \cup sessions : Belongs(x.login, x.acct)'
  <2> SUFFICES ASSUME NEW x \in pdb \cup sessions PROVE Belongs(x.login, x.acct)'
    OBVIOUS
  <2>1. x.login \in Login /\ x.acct \in Account /\ Belongs(x.login, x.acct)
    BY <1>0 DEF Owned, TypeOK, HostTypeOK, Line
  <2>2. HandleSync /\ ~op.failed /\ x.acct = op.acct => \E d \in op.entries : d.login = x.login
    BY <1>3 DEF Sent
  <2> QED BY <1>2, <2>1, <2>2
<1>6. Owned'
  BY <1>0, <1>1, <1>4, <1>5 DEF Owned
<1>7. OpIsHeld' /\ SyncProgress'
  BY <1>1 DEF OpIsHeld, SyncProgress
<1> QED BY <1>6, <1>7 DEF TraceInv

LEMMA OthersKeepTrace ==
  ASSUME IInv, TraceInv,
         \/ Claim \/ CallNothing \/ Settle \/ Crash \/ Restart \/ Orphaned \/ HandleUnsaved
         \/ UNCHANGED vars
  PROVE  TraceInv'
<1>0. /\ TypeOK /\ OpHasAccount /\ Owned /\ OpIsHeld /\ SyncProgress
      /\ UNCHANGED <<file, pdb, sessions, login>>
  BY DEF IInv, TraceInv, Claim, CallNothing, Settle, Crash, Restart, Orphaned, HandleUnsaved,
         vars, hostVars, panel
<1>1. CASE op'.at = "off" /\ op'.doing = "sync"
  <2>1. Owned' /\ SyncProgress'
    BY <1>0, <1>1 DEF Owned, Belongs, Exists, SyncProgress
  <2>2. pc' # "calling" \/ UNCHANGED <<pc, op, queue>>
    BY DEF Claim, CallNothing, Settle, Crash, Restart, Orphaned, HandleUnsaved, vars,
           hostVars, panel
  <2> QED BY <1>0, <1>1, <2>1, <2>2 DEF TraceInv, OpIsHeld, held
<1>2. CASE UNCHANGED op
  <2>1. Owned' /\ SyncProgress'
    BY <1>0, <1>2 DEF Owned, Belongs, Exists, SyncProgress, Sent
  <2>2. pc' # "calling" \/ UNCHANGED <<pc, queue>>
    BY DEF Claim, CallNothing, Settle, Crash, Restart, Orphaned, HandleUnsaved, vars,
           hostVars, panel
  <2> QED BY <1>0, <1>2, <2>1, <2>2 DEF TraceInv, OpIsHeld, held
<1>3. (op'.at = "off" /\ op'.doing = "sync") \/ UNCHANGED op
  <2>1. Claim \/ CallNothing \/ Settle \/ Crash \/ Restart \/ UNCHANGED vars => op' = op
    BY DEF Claim, CallNothing, Settle, Crash, Restart, vars, hostVars
  <2>2. Orphaned \/ HandleUnsaved => op'.at = "off" /\ op'.doing = "sync"
    BY DEF Orphaned, HandleUnsaved, NoOp
  <2> QED BY <2>1, <2>2
<1> QED BY <1>1, <1>2, <1>3

(* The invariant behind what follows. *)
THEOREM TraceInvariance == Spec => []TraceInv
<1>1. Init => TraceInv
  BY DEF Init, HostInit, NoFile, NoOp, TraceInv, Owned, OpIsHeld, SyncProgress
<1>2. IInv /\ TraceInv /\ [Next]_vars => TraceInv'
  <2> SUFFICES ASSUME IInv, TraceInv, [Next]_vars PROVE TraceInv'
    OBVIOUS
  <2> QED BY HostKeepsTrace, RequestKeepsTrace, CallKeepsTrace, HandleKeepsTrace,
             OthersKeepTrace DEF Next, WorkerStep
<1> QED BY <1>1, <1>2, Invariance, PTL DEF Spec

-------------------------------------------------------------------------------
(* A login that is settled - its row shown as active or disabled - is held *)
(* by the host as its row says: every entry of it, in an account file or   *)
(* in the operation under way, is the row's, and every line and session of *)
(* it is one the row grants.                                               *)
Settled(l) == login[l].status \in {"active", "disabled"}
FitsRow(e) ==
  Settled(e.login) => /\ e.name = login[e.login].name /\ e.pw = login[e.login].pw
                      /\ e.enabled => login[e.login].status = "active"
GrantedByRow(x) ==
  Settled(x.login) => /\ login[x.login].status = "active"
                      /\ x.name = login[x.login].name /\ x.pw = login[x.login].pw
RowsFit ==
  /\ \A a \in Account : \A e \in file[a].entries : FitsRow(e)
  /\ op.at # "off" => \A e \in op.entries \cup op.prev.entries : FitsRow(e)
  /\ \A x \in pdb \cup sessions : GrantedByRow(x)

(* Nothing on the host comes from nowhere: entries from the operation,     *)
(* lines from enabled entries, sessions from lines.                        *)
LEMMA Provenance ==
  ASSUME IInv, HostNext
  PROVE  /\ \A a \in Account : \A e \in file'[a].entries :
              e \in file[a].entries \/ (op.at # "off" /\ e \in op.entries \cup op.prev.entries)
         /\ \A x \in pdb' : x \in pdb \/ \E a \in Account : \E e \in file[a].entries :
              e.enabled /\ x.login = e.login /\ x.name = e.name /\ x.pw = e.pw
         /\ sessions' \subseteq sessions \cup pdb
         /\ op'.at # "off" =>
              /\ op.at # "off" /\ op'.entries = op.entries /\ op.acct \in Account
              /\ op'.prev.entries \subseteq op.prev.entries \cup file[op.acct].entries
            \/ UNCHANGED op
<1> DEFINE P1 == \A a \in Account : \A e \in file'[a].entries :
                   e \in file[a].entries
                   \/ (op.at # "off" /\ e \in op.entries \cup op.prev.entries)
           P2 == \A x \in pdb' : x \in pdb \/ \E a \in Account : \E e \in file[a].entries :
                   e.enabled /\ x.login = e.login /\ x.name = e.name /\ x.pw = e.pw
           P3 == sessions' \subseteq sessions \cup pdb
           P4 == op'.at # "off" =>
                   /\ op.at # "off" /\ op'.entries = op.entries /\ op.acct \in Account
                   /\ op'.prev.entries \subseteq op.prev.entries \cup file[op.acct].entries
                 \/ UNCHANGED op
<1>0. /\ op \in Op /\ file \in [Account -> File]
      /\ op.at # "off" => op.acct \in Account
  BY DEF IInv, TypeOK, HostTypeOK, OpHasAccount
<1>1. ASSUME NEW p \in Points, Goto(p) \/ FailTo(p), op.at # "off" PROVE P4
  BY <1>0, <1>1, OpFields
<1>2. ASSUME NEW f, Write(f), op.at # "off",
             f.entries = op.entries \/ f.entries = file[op.acct].entries
      PROVE  P1 /\ P2 /\ P3 /\ P4
  <2>1. /\ file' = [file EXCEPT ![op.acct] = f] /\ UNCHANGED <<pdb, sessions>>
        /\ op'.entries = op.entries /\ op'.prev = file[op.acct]
    BY <1>0, <1>2 DEF Write, Op, a0
  <2> QED BY <1>0, <1>2, <2>1
<1>3. CASE \/ SyncRefused \/ DisableHome \/ DisableHomeFails \/ EnableHome \/ EnableHomeFails
           \/ DeleteBegins \/ NoFtpState \/ WriteFails \/ Done \/ UndoHome \/ Quarantine \/ Abort
  <2>1. UNCHANGED <<file, pdb, sessions>>
    BY <1>3 DEF SyncRefused, DisableHome, DisableHomeFails, EnableHome, EnableHomeFails,
                DeleteBegins, NoFtpState, WriteFails, Done, UndoHome, Quarantine, Abort
  <2>2. P4
    BY <1>1, <1>3 DEF SyncRefused, DisableHome, DisableHomeFails, EnableHome, EnableHomeFails,
                DeleteBegins, NoFtpState, WriteFails, Done, UndoHome, Quarantine, Abort, Running
  <2> HIDE DEF P4
  <2> QED BY <2>1, <2>2 DEF P4
<1>4. CASE SyncWrites \/ SetSuspended
  <2>1. CASE SyncWrites
    BY <1>2, <2>1 DEF SyncWrites
  <2>2. CASE SetSuspended
    <3>1. [file[a0] EXCEPT !.suspended = (op.doing # "enable")].entries = file[op.acct].entries
      BY <1>0, <2>2 DEF SetSuspended, File, a0
    <3> QED BY <1>2, <2>2, <3>1 DEF SetSuspended
  <2> QED BY <1>4, <2>1, <2>2
<1>5. CASE Rebuild
  <2>1. P2
    BY <1>5 DEF Rebuild, Compiled, Lines
  <2>2. P4 /\ UNCHANGED <<file, sessions>>
    BY <1>1, <1>5 DEF Rebuild
  <2> HIDE DEF P2, P4
  <2> QED BY <2>1, <2>2 DEF P2, P4
<1>6. CASE RebuildFails \/ RemoveFile
  <2>1. op.at # "off" /\ UNCHANGED <<pdb, sessions>>
    BY <1>6 DEF RebuildFails, RemoveFile
  <2>2. P1
    BY <1>0, <1>6, <2>1 DEF RebuildFails, RemoveFile, NoFile, a0
  <2>3. P4
    BY <1>1, <1>6, <2>1 DEF RebuildFails, RemoveFile
  <2> HIDE DEF P1, P4
  <2> QED BY <2>1, <2>2, <2>3 DEF P1, P4
<1>7. CASE Disconnect \/ DisconnectFails
  <2>1. sessions' \subseteq sessions /\ UNCHANGED <<file, pdb>>
    BY <1>7 DEF Disconnect, DisconnectFails
  <2>2. P4
    BY <1>1, <1>7 DEF Disconnect, DisconnectFails
  <2> HIDE DEF P4
  <2> QED BY <2>1, <2>2 DEF P4
<1>8. CASE UndoEnable
  BY <1>0, <1>8 DEF UndoEnable, Op
<1>9. CASE DeleteUser \/ OpenSession
  BY <1>9 DEF DeleteUser, OpenSession
<1> QED BY <1>3, <1>4, <1>5, <1>6, <1>7, <1>8, <1>9 DEF HostNext, AgentStep, AgentFault

LEMMA HostKeepsRows ==
  ASSUME IInv, RowsFit, HostNext, UNCHANGED panel PROVE RowsFit'
<1>1. UNCHANGED login
  BY DEF panel
<1>2. \A e, x : (FitsRow(e)' <=> FitsRow(e)) /\ (GrantedByRow(x)' <=> GrantedByRow(x))
  BY <1>1 DEF FitsRow, GrantedByRow, Settled
<1>3. \A a \in Account : \A e \in file'[a].entries : FitsRow(e)
  BY Provenance DEF RowsFit
<1>4. op'.at # "off" => \A e \in op'.entries \cup op'.prev.entries : FitsRow(e)
  BY Provenance DEF RowsFit
<1>5. \A x \in pdb' \cup sessions' : GrantedByRow(x)
  <2>1. ASSUME NEW x, NEW e, FitsRow(e), e.enabled, x.login = e.login, x.name = e.name,
               x.pw = e.pw
        PROVE  GrantedByRow(x)
    BY <2>1 DEF FitsRow, GrantedByRow
  <2> QED BY <2>1, Provenance DEF RowsFit
<1> QED BY <1>2, <1>3, <1>4, <1>5 DEF RowsFit

(* A step that settles no login and brings the host nothing. *)
LEMMA RowsFitKept ==
  ASSUME IInv, RowsFit, UNCHANGED <<file, pdb, sessions>>,
         op'.at = "off" \/ UNCHANGED op,
         \A l \in Login : Settled(l)' => login'[l] = login[l]
  PROVE  RowsFit'
<1>1. /\ \A a \in Account : \A e \in file[a].entries : e.login \in Login
      /\ \A x \in pdb \cup sessions : x.login \in Login
      /\ \A e \in op.entries \cup op.prev.entries : e.login \in Login
  BY DEF IInv, TypeOK, HostTypeOK, File, Entry, Line, Op
<1>2. ASSUME NEW e, e.login \in Login, FitsRow(e) PROVE FitsRow(e)'
  BY <1>2 DEF FitsRow, Settled
<1>3. ASSUME NEW x, x.login \in Login, GrantedByRow(x) PROVE GrantedByRow(x)'
  BY <1>3 DEF GrantedByRow, Settled
<1> QED BY <1>1, <1>2, <1>3 DEF RowsFit

LEMMA RequestKeepsRows ==
  ASSUME IInv, RowsFit, Request PROVE RowsFit'
<1>0. login \in [Login -> LoginRow] /\ UNCHANGED hostVars
  BY DEF IInv, TypeOK, Request, CreateFTP, UpdateFTP, DeleteFTP, AccountAction
<1>1. ASSUME NEW k \in Login PROVE login'[k] = login[k] \/ login'[k].status = "pending"
  <2>1. ASSUME NEW l \in Login, NEW a \in Account, CreateFTP(l, a)
        PROVE  login'[k] = login[k] \/ login'[k].status = "pending"
    BY <1>0, <2>1 DEF CreateFTP
  <2>2. ASSUME NEW l \in Login, UpdateFTP(l)
        PROVE  login'[k] = login[k] \/ login'[k].status = "pending"
    <3>1. PICK n \in Name, p \in Password, e \in BOOLEAN :
            login' = [login EXCEPT ![l] = [login[l] EXCEPT !.status = "pending", !.name = n,
                                                           !.pw = p, !.enabled = e]]
      BY <2>2 DEF UpdateFTP
    <3> QED BY <1>0, <3>1 DEF LoginRow
  <2>3. ASSUME NEW l \in Login, DeleteFTP(l)
        PROVE  login'[k] = login[k] \/ login'[k].status = "pending"
    BY <1>0, <2>3 DEF DeleteFTP, LoginRow
  <2>4. ASSUME NEW a, NEW kind, AccountAction(a, kind) PROVE login'[k] = login[k]
    BY <2>4 DEF AccountAction
  <2> QED BY <2>1, <2>2, <2>3, <2>4 DEF Request
<1> QED BY <1>0, <1>1, RowsFitKept DEF hostVars, Settled

LEMMA CallKeepsRows ==
  ASSUME IInv, RowsFit, Call, \A l \in Login : login[l].status = "disabled" => ~login[l].enabled
  PROVE  RowsFit'
<1>1. /\ op'.entries \subseteq Snapshot(held.acct) /\ op'.prev.entries = {}
      /\ UNCHANGED <<file, pdb, sessions, login>>
  BY DEF Call, Begin, NoFile
<1>2. ASSUME NEW e \in Snapshot(held.acct) PROVE FitsRow(e)
  BY DEF Snapshot, LoginsOf, FitsRow, Settled
<1>3. \A e, x : (FitsRow(e)' <=> FitsRow(e)) /\ (GrantedByRow(x)' <=> GrantedByRow(x))
  BY <1>1 DEF FitsRow, GrantedByRow, Settled
<1> QED BY <1>1, <1>2, <1>3 DEF RowsFit

(* A successful synchronization settles the rows it sent, and nothing of   *)
(* their logins is left but what it sent.                                  *)
LEMMA HandleKeepsRows ==
  ASSUME IInv, TraceInv, RowsFit, Handle PROVE RowsFit'
<1>0. /\ TypeOK /\ Owned /\ login \in [Login -> LoginRow]
      /\ pc = "calling" /\ op.at = "end" /\ op.acct = held.acct
      /\ UNCHANGED <<file, pdb, sessions>> /\ op'.at = "off"
  BY DEF IInv, TypeOK, TraceInv, Handle, OpIsHeld, NoOp
<1>1. CASE HandleAction
  BY <1>0, <1>1, RowsFitKept DEF HandleAction
<1>2. CASE HandleSync
  <2>0. login' = [k \in Login |-> IF k \in LoginsOf(held.acct) THEN Finished(k, op.failed)
                                                                ELSE login[k]]
    BY <1>2 DEF HandleSync, FinishFTP
  <2>1. CASE op.failed
    <3>1. \A l \in Login : login'[l] = login[l] \/ login'[l].status = "error"
      BY <1>0, <2>0, <2>1 DEF Finished, LoginRow
    <3> QED BY <1>0, <3>1, RowsFitKept DEF Settled
  <2>2. CASE ~op.failed
    <3>1. /\ file[op.acct].entries = op.entries /\ op.entries = Snapshot(held.acct)
          /\ \A x \in pdb \cup sessions : Sent(x)
      BY <1>0, <1>2, <2>2 DEF TraceInv, SyncProgress, OpIsHeld, HandleSync, IInv,
                              SnapshotIsCurrent
    <3>2. ASSUME NEW l \in Login
          PROVE  /\ l \notin LoginsOf(held.acct) => login'[l] = login[l]
                 /\ login'[l].name = login[l].name /\ login'[l].pw = login[l].pw
                 /\ l \in LoginsOf(held.acct) /\ login[l].enabled /\ Settled(l)' =>
                      login'[l].status = "active"
      BY <1>0, <2>0, <2>2 DEF Finished, LoginRow, Settled
    <3>3. \A e \in Snapshot(held.acct) :
            /\ e.name = login[e.login].name /\ e.pw = login[e.login].pw
            /\ e.enabled = login[e.login].enabled
            /\ e.login \in LoginsOf(held.acct)
      BY DEF Snapshot
    <3>4. ASSUME NEW a \in Account, NEW e \in file[a].entries PROVE FitsRow(e)'
      <4>1. e.login \in Login /\ Belongs(e.login, a) /\ FitsRow(e)
        BY <1>0 DEF Owned, TypeOK, HostTypeOK, File, Entry, RowsFit
      <4>2. CASE e.login \notin LoginsOf(held.acct)
        BY <3>2, <4>1, <4>2 DEF FitsRow, Settled
      <4>3. CASE e.login \in LoginsOf(held.acct)
        <5>1. a = op.acct
          BY <1>0, <4>1, <4>3 DEF LoginsOf, Belongs
        <5>2. e \in Snapshot(held.acct)
          BY <3>1, <5>1
        <5> QED BY <3>2, <3>3, <4>1, <4>3, <5>2 DEF FitsRow
      <4> QED BY <4>2, <4>3
    <3>5. ASSUME NEW x \in pdb \cup sessions PROVE GrantedByRow(x)'
      <4>1. x.login \in Login /\ Belongs(x.login, x.acct) /\ GrantedByRow(x)
        BY <1>0 DEF Owned, TypeOK, HostTypeOK, Line, RowsFit
      <4>2. CASE x.login \notin LoginsOf(held.acct)
        BY <3>2, <4>1, <4>2 DEF GrantedByRow, Settled
      <4>3. CASE x.login \in LoginsOf(held.acct)
        <5>1. PICK e \in Snapshot(held.acct) :
                e.enabled /\ e.login = x.login /\ e.name = x.name /\ e.pw = x.pw
          BY <1>0, <3>1, <4>1, <4>3 DEF LoginsOf, Belongs, Sent
        <5> QED BY <3>2, <3>3, <4>1, <4>3, <5>1 DEF GrantedByRow
      <4> QED BY <4>2, <4>3
    <3> QED BY <1>0, <3>4, <3>5 DEF RowsFit
  <2> QED BY <2>1, <2>2
<1> QED BY <1>1, <1>2 DEF Handle

(* The status of a settled login is the one its row asks for. *)
StatusFits ==
  \A l \in Login : /\ login[l].status = "active" => login[l].enabled
                   /\ login[l].status = "disabled" => ~login[l].enabled

LEMMA StatusKept ==
  ASSUME IInv, StatusFits, [Next]_vars PROVE StatusFits'
<1>0. login \in [Login -> LoginRow]
  BY DEF IInv, TypeOK
<1>1. CASE Request
  <2>1. ASSUME NEW l \in Login, NEW a \in Account, CreateFTP(l, a) PROVE StatusFits'
    BY <1>0, <2>1 DEF CreateFTP, StatusFits
  <2>2. ASSUME NEW l \in Login, UpdateFTP(l) PROVE StatusFits'
    <3>1. PICK n \in Name, p \in Password, e \in BOOLEAN :
            login' = [login EXCEPT ![l] = [login[l] EXCEPT !.status = "pending", !.name = n,
                                                           !.pw = p, !.enabled = e]]
      BY <2>2 DEF UpdateFTP
    <3> QED BY <1>0, <3>1 DEF LoginRow, StatusFits
  <2>3. ASSUME NEW l \in Login, DeleteFTP(l) PROVE StatusFits'
    BY <1>0, <2>3 DEF DeleteFTP, LoginRow, StatusFits
  <2>4. ASSUME NEW a, NEW kind, AccountAction(a, kind) PROVE StatusFits'
    BY <2>4 DEF AccountAction, StatusFits
  <2> QED BY <1>1, <2>1, <2>2, <2>3, <2>4 DEF Request
<1>2. CASE Handle
  <2>1. CASE HandleAction
    BY <2>1 DEF HandleAction, StatusFits
  <2>2. CASE HandleSync
    <3>1. \A l \in Login : login'[l] = login[l] \/ login'[l] = Finished(l, op.failed)
      BY <2>2 DEF HandleSync, FinishFTP
    <3>2. ASSUME NEW l \in Login
          PROVE  LET r == Finished(l, op.failed)
                 IN (r.status = "active" => r.enabled) /\ (r.status = "disabled" => ~r.enabled)
      BY <1>0 DEF Finished, LoginRow
    <3> QED BY <3>1, <3>2 DEF StatusFits
  <2> QED BY <1>2, <2>1, <2>2 DEF Handle
<1>3. CASE ~Request /\ ~Handle
  <2>1. UNCHANGED login
    BY <1>3 DEF Next, WorkerStep, Claim, Call, CallNothing, Settle, Orphaned, HandleUnsaved,
                Crash, Restart, panel, vars
  <2> QED BY <2>1 DEF StatusFits
<1> QED BY <1>1, <1>2, <1>3

LEMMA OthersKeepRows ==
  ASSUME IInv, RowsFit,
         \/ Claim \/ CallNothing \/ Settle \/ Crash \/ Restart \/ Orphaned \/ HandleUnsaved
         \/ UNCHANGED vars
  PROVE  RowsFit'
<1>1. UNCHANGED <<file, pdb, sessions>> /\ login' = login
  BY DEF Claim, CallNothing, Settle, Crash, Restart, Orphaned, HandleUnsaved, vars, hostVars,
         panel
<1>2. op'.at = "off" \/ UNCHANGED op
  <2>1. Claim \/ CallNothing \/ Settle \/ Crash \/ Restart \/ UNCHANGED vars => op' = op
    BY DEF Claim, CallNothing, Settle, Crash, Restart, vars, hostVars
  <2>2. Orphaned \/ HandleUnsaved => op'.at = "off"
    BY DEF Orphaned, HandleUnsaved, NoOp
  <2> QED BY <2>1, <2>2
<1>3. \A l \in Login : login'[l] = login[l]
  BY <1>1
<1> QED BY <1>1, <1>2, <1>3, RowsFitKept

(* The invariant behind it. *)
LEMMA LoginsFitRows == Spec => [](RowsFit /\ StatusFits)
<1>1. Init => RowsFit /\ StatusFits
  BY DEF Init, HostInit, NoFile, NoOp, RowsFit, StatusFits
<1>2. IInv /\ TraceInv /\ RowsFit /\ StatusFits /\ [Next]_vars => RowsFit' /\ StatusFits'
  <2> SUFFICES ASSUME IInv, TraceInv, RowsFit, StatusFits, [Next]_vars
               PROVE  RowsFit' /\ StatusFits'
    OBVIOUS
  <2>1. Call => RowsFit'
    BY CallKeepsRows DEF StatusFits
  <2>2. RowsFit'
    BY <2>1, HostKeepsRows, RequestKeepsRows, HandleKeepsRows, OthersKeepRows
       DEF Next, WorkerStep
  <2> QED BY <2>2, StatusKept
<1> QED BY <1>1, <1>2, Invariance, TraceInvariance, PTL DEF Spec

(* A login shown as active works with the name and the password of its row *)
(* alone, and one shown as disabled does not work, after any failing step, *)
(* lost answer, death or retry: no line of the database and no session     *)
(* still open has an older name or password.                               *)
THEOREM LoginsGrantWhatIsShown == Spec => []GrantsAsShown
<1>1. IInv /\ TraceInv /\ RowsFit => GrantsAsShown
  <2> SUFFICES ASSUME IInv, TraceInv, RowsFit, NEW l \in Login, NEW x \in Of(l), Settled(l)
               PROVE  login[l].status = "active" /\ x = RowLine(l)
    BY DEF GrantsAsShown, Settled
  <2>1. x \in Line /\ x.login = l /\ x.acct = login[l].acct
    BY DEF Of, IInv, TypeOK, HostTypeOK, TraceInv, Owned, Belongs
  <2>2. login[l].status = "active" /\ x.name = login[l].name /\ x.pw = login[l].pw
    BY <2>1 DEF Of, RowsFit, GrantedByRow
  <2> QED BY <2>1, <2>2 DEF Line, RowLine
<1> QED BY <1>1, Invariance, TraceInvariance, LoginsFitRows, PTL

-------------------------------------------------------------------------------
(* An account without an account file has no line and no session, and an   *)
(* operation may bring back a missing file only while there is none.       *)
NoTrace(a) == \A x \in pdb \cup sessions : x.acct # a
NoFileNoTrace ==
  /\ \A a \in Account : ~file[a].there => file[a].entries = {} /\ NoTrace(a)
  /\ op.at = "written" /\ ~op.prev.there => op.prev.entries = {} /\ NoTrace(op.acct)

(* How far a deletion that has not failed has come: the logins are         *)
(* suspended, then out of the database, then disconnected; then the file   *)
(* is removed, and at the end the home is in quarantine.                   *)
DeleteProgress ==
  op.doing = "delete" =>
    /\ op.at = "linux" => ~file[op.acct].there
    /\ ~op.failed =>
         /\ op.at \in {"written", "rebuilt"} => file[op.acct].suspended
         /\ op.at \in {"rebuilt", "after"} => \A x \in pdb : x.acct # op.acct
         /\ op.at = "after" => \A x \in sessions : x.acct # op.acct
         /\ op.at = "end" => home[op.acct] = "quarantined" /\ ~file[op.acct].there

(* No operation is one of an account whose row is gone. *)
GoneIsOver ==
  /\ \A a \in Account : acct[a].status = "gone" => home[a] = "quarantined" /\ ~file[a].there
  /\ op.at # "off" => acct[op.acct].status # "gone"

GoneInv == NoFileNoTrace /\ DeleteProgress /\ GoneIsOver

(* An operation changes the home and the file of its own account alone. *)
LEMMA OthersUntouched ==
  ASSUME IInv, HostNext, NEW a \in Account, op.at # "off" => a # op.acct
  PROVE  home'[a] = home[a] /\ file'[a] = file[a]
<1>0. home \in [Account -> Homes] /\ file \in [Account -> File]
  BY DEF IInv, TypeOK, HostTypeOK
<1>1. CASE OpenSession
  BY <1>1 DEF OpenSession
<1>2. CASE op.at # "off"
  <2>1. a # a0
    BY <1>2 DEF a0
  <2>2. (\E h : home' = [home EXCEPT ![a0] = h]) \/ home' = home
    BY DEF HostNext, AgentStep, AgentFault, SyncRefused, SyncWrites, Write, DisableHome,
           EnableHome, DeleteBegins, NoFtpState, SetSuspended, Rebuild, Disconnect, Done,
           UndoEnable, UndoHome, RemoveFile, DeleteUser, Quarantine, RebuildFails,
           DisableHomeFails, EnableHomeFails, WriteFails, DisconnectFails, Abort, OpenSession
  <2>3. (\E f : file' = [file EXCEPT ![a0] = f]) \/ file' = file
    BY DEF HostNext, AgentStep, AgentFault, SyncRefused, SyncWrites, Write, DisableHome,
           EnableHome, DeleteBegins, NoFtpState, SetSuspended, Rebuild, Disconnect, Done,
           UndoEnable, UndoHome, RemoveFile, DeleteUser, Quarantine, RebuildFails,
           DisableHomeFails, EnableHomeFails, WriteFails, DisconnectFails, Abort, OpenSession
  <2> QED BY <1>0, <2>1, <2>2, <2>3
<1>3. op.at = "off" => OpenSession
  BY DEF HostNext, AgentStep, AgentFault, SyncRefused, SyncWrites, DisableHome, EnableHome,
         DeleteBegins, NoFtpState, SetSuspended, Rebuild, Disconnect, Done, UndoEnable,
         UndoHome, RemoveFile, DeleteUser, Quarantine, RebuildFails, DisableHomeFails,
         EnableHomeFails, WriteFails, DisconnectFails, Abort, Running
<1> QED BY <1>1, <1>2, <1>3

LEMMA HostKeepsGone ==
  ASSUME IInv, TraceInv, GoneInv, HostNext, UNCHANGED panel PROVE GoneInv'
<1>0. /\ op \in Op /\ file \in [Account -> File] /\ NoFileNoTrace /\ DeleteProgress
      /\ home \in [Account -> Homes]
      /\ op.at # "off" => op.acct \in Account /\ file[op.acct] \in File
  BY DEF IInv, TypeOK, HostTypeOK, OpHasAccount, GoneInv
<1> DEFINE Kept == NoFileNoTrace' /\ DeleteProgress'
(* Steps that only move the operation on. *)
<1>1. ASSUME UNCHANGED <<file, pdb, sessions>>, op.at # "off",
             NEW p \in Points \ {"written"}, Goto(p) \/ FailTo(p),
             op.doing = "delete" =>
               \/ p = "ftp"
               \/ p = "after" /\ (FailTo(p) \/ ~file[op.acct].there)
               \/ p = "end" /\ (FailTo(p) \/ op.failed
                                 \/ (home'[op.acct] = "quarantined" /\ ~file[op.acct].there))
      PROVE  Kept
  <2>1. /\ op'.acct = op.acct /\ op'.doing = op.doing /\ op'.at = p
        /\ FailTo(p) => op'.failed = TRUE
        /\ Goto(p) => op'.failed = op.failed
    BY <1>0, <1>1, OpFields
  <2>2. NoFileNoTrace'
    BY <1>0, <1>1, <2>1 DEF NoFileNoTrace, NoTrace
  <2>3. ~file[op.acct].there => NoTrace(op.acct)
    BY <1>0, <1>1 DEF NoFileNoTrace
  <2>4. DeleteProgress'
    BY <1>0, <1>1, <2>1, <2>3 DEF DeleteProgress, NoTrace
  <2> QED BY <2>2, <2>4
<1>2. ASSUME \/ SyncRefused \/ DisableHome \/ DisableHomeFails \/ EnableHome \/ EnableHomeFails
             \/ DeleteBegins \/ NoFtpState \/ WriteFails \/ Done \/ UndoHome \/ Quarantine
             \/ Abort
      PROVE  Kept
  <2> HIDE DEF Kept
  <2>1. CASE SyncRefused
    BY <1>1, <2>1 DEF SyncRefused
  <2>2. CASE DisableHome \/ DisableHomeFails \/ EnableHome \/ EnableHomeFails \/ DeleteBegins
    BY <1>1, <2>2 DEF DisableHome, DisableHomeFails, EnableHome, EnableHomeFails, DeleteBegins
  <2>3. CASE NoFtpState \/ WriteFails
    BY <1>1, <2>3 DEF NoFtpState, WriteFails, a0
  <2>4. CASE Done \/ UndoHome
    BY <1>1, <2>4 DEF Done, UndoHome
  <2>5. CASE Quarantine
    <3>1. op.doing = "delete" => home'[op.acct] = "quarantined" /\ ~file[op.acct].there
      BY <1>0, <2>5 DEF Quarantine, DeleteProgress, a0
    <3> QED BY <1>1, <2>5, <3>1 DEF Quarantine
  <2>6. CASE Abort
    BY <1>1, <2>6 DEF Abort, Running
  <2> QED BY <1>2, <2>1, <2>2, <2>3, <2>4, <2>5, <2>6
<1>3. ASSUME NEW f \in File, Write(f), op.at # "off", f.there,
             op.doing = "delete" => f.suspended
      PROVE  Kept
  <2>1. /\ file' = [file EXCEPT ![op.acct] = f] /\ UNCHANGED <<pdb, sessions>>
        /\ op'.doing = op.doing /\ op'.prev = file[op.acct] /\ op'.acct = op.acct
        /\ op'.at = "written"
    BY <1>0, <1>3 DEF Write, Op, a0
  <2>2. NoFileNoTrace'
    BY <1>0, <1>3, <2>1 DEF NoFileNoTrace, NoTrace
  <2>3. DeleteProgress'
    BY <1>0, <1>3, <2>1 DEF DeleteProgress
  <2> QED BY <2>2, <2>3
<1>4. ASSUME SyncWrites PROVE Kept
  <2> HIDE DEF Kept
  <2> DEFINE f == [there |-> TRUE, suspended |-> file[a0].suspended, entries |-> op.entries]
  <2>1. f \in File /\ f.there /\ Write(f) /\ op.at # "off" /\ op.doing = "sync"
    BY <1>0, <1>4 DEF SyncWrites, File, Op, a0
  <2> HIDE DEF f
  <2> QED BY <1>3, <2>1
<1>5. ASSUME SetSuspended PROVE Kept
  <2> HIDE DEF Kept
  <2> DEFINE f == [file[a0] EXCEPT !.suspended = (op.doing # "enable")]
  <2>1. /\ f \in File /\ f.there /\ Write(f) /\ op.at # "off"
        /\ op.doing = "delete" => f.suspended
    BY <1>0, <1>5 DEF SetSuspended, File, a0
  <2> HIDE DEF f
  <2> QED BY <1>3, <2>1
<1>6. ASSUME Rebuild PROVE Kept
  <2>1. /\ op'.acct = op.acct /\ op'.doing = op.doing /\ op'.at = "rebuilt"
        /\ op'.failed = op.failed /\ op.at = "written" /\ file' = file /\ sessions' = sessions
    BY <1>0, <1>6, OpFields DEF Rebuild
  <2>2. \A x \in pdb' : x.acct \in Account /\ ~file[x.acct].suspended /\ file[x.acct].entries # {}
    BY <1>6 DEF Rebuild, Compiled, Lines
  <2>3. NoFileNoTrace'
    BY <1>0, <2>1, <2>2 DEF NoFileNoTrace, NoTrace
  <2>4. DeleteProgress'
    BY <1>0, <2>1, <2>2 DEF DeleteProgress
  <2> QED BY <2>3, <2>4
<1>7. ASSUME RebuildFails PROVE Kept
  <2>1. /\ op'.acct = op.acct /\ op'.at = "after" /\ op'.failed = TRUE
        /\ op.at = "written" /\ pdb' = pdb /\ sessions' = sessions
        /\ file' = [file EXCEPT ![op.acct] = op.prev]
    BY <1>0, <1>7, OpFields DEF RebuildFails, a0
  <2>2. NoFileNoTrace'
    BY <1>0, <2>1 DEF NoFileNoTrace, NoTrace
  <2> QED BY <2>1, <2>2 DEF DeleteProgress
<1>8. ASSUME Disconnect \/ DisconnectFails PROVE Kept
  <2>1. /\ op'.acct = op.acct /\ op'.doing = op.doing
        /\ op'.at = "after" /\ op.at = "rebuilt"
        /\ pdb' = pdb /\ file' = file /\ sessions' \subseteq sessions
        /\ Disconnect => op'.failed = op.failed /\ \A x \in sessions' : x.acct # op.acct
        /\ DisconnectFails => op'.failed = TRUE
    BY <1>0, <1>8, OpFields DEF Disconnect, DisconnectFails, a0
  <2>2. NoFileNoTrace'
    BY <1>0, <2>1 DEF NoFileNoTrace, NoTrace
  <2>3. DeleteProgress'
    BY <1>0, <1>8, <2>1 DEF DeleteProgress
  <2> QED BY <2>2, <2>3
<1>9. ASSUME UndoEnable PROVE Kept
  <2>1. op'.doing = "undo" /\ op'.at = "ftp" /\ UNCHANGED <<file, pdb, sessions>>
    BY <1>0, <1>9 DEF UndoEnable, Op
  <2> QED BY <1>0, <2>1 DEF NoFileNoTrace, NoTrace, DeleteProgress
<1>10. ASSUME RemoveFile PROVE Kept
  <2>1. op.at = "after" /\ op.doing = "delete" /\ UNCHANGED <<home, pdb, sessions>>
    BY <1>10 DEF RemoveFile
  <2>2. CASE op.failed
    <3>1. UNCHANGED file /\ Goto("end")
      BY <1>10, <2>2 DEF RemoveFile
    <3>2. Kept
      BY <1>1, <2>1, <2>2, <3>1
    <3> QED BY <3>2
  <2>3. CASE ~op.failed
    <3>1. /\ file' = [file EXCEPT ![op.acct] = NoFile]
          /\ op'.acct = op.acct /\ op'.doing = op.doing /\ op'.at = "linux"
      BY <1>0, <1>10, <2>3, OpFields DEF RemoveFile, a0
    <3>2. NoTrace(op.acct)
      BY <1>0, <2>1, <2>3 DEF DeleteProgress, NoTrace
    <3>3. NoFileNoTrace'
      BY <1>0, <2>1, <3>1, <3>2 DEF NoFileNoTrace, NoTrace, NoFile
    <3>4. DeleteProgress'
      BY <1>0, <2>1, <3>1 DEF DeleteProgress, NoFile
    <3> QED BY <3>3, <3>4
  <2> QED BY <2>2, <2>3
<1>11. ASSUME DeleteUser PROVE Kept
  BY <1>0, <1>11 DEF DeleteUser, NoFileNoTrace, NoTrace, DeleteProgress
<1>12. ASSUME OpenSession PROVE Kept
  <2>1. PICK line \in pdb : sessions' = sessions \cup {line}
    BY <1>12 DEF OpenSession
  <2>2. UNCHANGED <<home, file, pdb, op>>
    BY <1>12 DEF OpenSession
  <2> QED BY <1>0, <2>1, <2>2 DEF NoFileNoTrace, NoTrace, DeleteProgress
<1>13. Kept
  <2> HIDE DEF Kept
  <2> QED BY <1>2, <1>4, <1>5, <1>6, <1>7, <1>8, <1>9, <1>10, <1>11, <1>12
             DEF HostNext, AgentStep, AgentFault
<1>14. GoneIsOver'
  <2>1. acct' = acct
    BY DEF panel
  <2>2. op'.at # "off" => op.at # "off" /\ op'.acct = op.acct
    <3>1. ASSUME NEW p \in Points, Goto(p) \/ FailTo(p) PROVE op'.acct = op.acct
      BY <1>0, <3>1, OpFields
    <3>2. ASSUME NEW f, Write(f) PROVE op'.acct = op.acct
      BY <1>0, <3>2 DEF Write, Op
    <3>3. UndoEnable \/ DeleteUser \/ OpenSession => op'.acct = op.acct
      BY <1>0 DEF UndoEnable, DeleteUser, OpenSession, Op
    <3>4. op'.acct = op.acct
      BY <3>1, <3>2, <3>3 DEF HostNext, AgentStep, AgentFault, SyncRefused, SyncWrites,
         DisableHome, EnableHome, DeleteBegins, NoFtpState, SetSuspended, Rebuild, Disconnect,
         Done, UndoHome, RemoveFile, Quarantine, RebuildFails, DisableHomeFails,
         EnableHomeFails, WriteFails, DisconnectFails, Abort
    <3> QED BY <3>4, Provenance
  <2> QED BY <2>1, <2>2, OthersUntouched DEF GoneInv, GoneIsOver
<1> QED BY <1>13, <1>14 DEF GoneInv

LEMMA PanelKeepsGone ==
  ASSUME IInv, TraceInv, GoneInv, Next, ~(HostNext /\ UNCHANGED panel) PROVE GoneInv'
<1>0. /\ UNCHANGED <<home, file, pdb, sessions>> /\ acct \in [Account -> AccountRow]
      /\ NoFileNoTrace /\ DeleteProgress /\ GoneIsOver
  BY DEF IInv, TypeOK, GoneInv, Next, Request, WorkerStep, CreateFTP, UpdateFTP, DeleteFTP,
         AccountAction, Claim, Call, CallNothing, Handle, Settle, Orphaned, HandleUnsaved,
         Crash, Restart, hostVars
<1>1. ASSUME op' = op \/ op' = NoOp,
             \A a \in Account : acct'[a].status = "gone" =>
               acct[a].status = "gone" \/ (home[a] = "quarantined" /\ ~file[a].there
                                            /\ op' = NoOp)
      PROVE  GoneInv'
  <2>1. NoFileNoTrace' /\ DeleteProgress'
    <3>1. CASE op' = op
      BY <1>0, <3>1 DEF NoFileNoTrace, NoTrace, DeleteProgress
    <3>2. CASE op' = NoOp
      BY <1>0, <3>2 DEF NoFileNoTrace, NoTrace, DeleteProgress, NoOp
    <3> QED BY <1>1, <3>1, <3>2
  <2>2. GoneIsOver'
    BY <1>0, <1>1 DEF GoneIsOver, IInv, OpHasAccount, NoOp
  <2> QED BY <2>1, <2>2 DEF GoneInv
<1>2. CASE Request
  <2>1. op' = op
    BY <1>2 DEF Request, CreateFTP, UpdateFTP, DeleteFTP, AccountAction, hostVars
  <2>2. \A a \in Account : acct'[a].status = "gone" => acct[a].status = "gone"
    <3>1. ASSUME NEW b \in Account, NEW kind, AccountAction(b, kind), NEW a \in Account
          PROVE  acct'[a] = acct[a] \/ acct'[a].status = "pending"
      BY <1>0, <3>1 DEF AccountAction
    <3>2. acct' = acct \/ \E b \in Account : \E kind : AccountAction(b, kind)
      BY <1>2 DEF Request, CreateFTP, UpdateFTP, DeleteFTP
    <3> QED BY <3>1, <3>2
  <2> QED BY <1>1, <2>1, <2>2
<1>3. CASE Call
  <2>1. queue # <<>> /\ held.acct \in Account
    BY <1>3, HeldIsJob DEF IInv, HeadIsRunning, Call, held
  <2>2. /\ op'.acct = held.acct /\ op'.at = "begin" /\ acct' = acct
        /\ acct[held.acct].status # "gone"
    BY <1>3 DEF Call, Begin
  <2>3. NoFileNoTrace' /\ DeleteProgress' /\ GoneIsOver'
    BY <1>0, <2>1, <2>2 DEF NoFileNoTrace, NoTrace, DeleteProgress, GoneIsOver
  <2> QED BY <2>3 DEF GoneInv
<1>4. CASE Handle
  <2>1. op' = NoOp /\ pc = "calling" /\ op.at = "end"
    BY <1>4 DEF Handle
  <2>2. CASE HandleSync
    BY <1>1, <2>1, <2>2 DEF HandleSync
  <2>3. CASE HandleAction
    <3>1. held.acct = op.acct /\ op.acct \in Account
          /\ (held.kind = "delete" => op.doing = "delete")
      BY <2>1 DEF TraceInv, OpIsHeld, IInv, OpHasAccount
    <3>2. acct' = acct \/ \E s \in {"error", "gone", "active", "disabled"} :
             /\ acct' = [acct EXCEPT ![op.acct].status = s]
             /\ s = "gone" => ~op.failed /\ held.kind = "delete"
      <4> DEFINE Becomes(s) == acct' = [acct EXCEPT ![held.acct].status = s]
      <4>1. \/ Becomes("error") \/ Becomes("active") \/ Becomes("disabled") \/ acct' = acct
            \/ Becomes("gone") /\ ~op.failed /\ held.kind = "delete"
        BY <2>3 DEF HandleAction
      <4>2. \A s : Becomes(s) <=> acct' = [acct EXCEPT ![op.acct].status = s]
        BY <3>1
      <4> HIDE DEF Becomes
      <4> QED BY <4>1, <4>2
    <3>3. ~op.failed /\ held.kind = "delete" =>
            home[op.acct] = "quarantined" /\ ~file[op.acct].there
      BY <1>0, <2>1, <3>1 DEF DeleteProgress
    <3>4. \A a \in Account : acct'[a].status = "gone" =>
            acct[a].status = "gone" \/ (home[a] = "quarantined" /\ ~file[a].there)
      BY <1>0, <3>1, <3>2, <3>3 DEF AccountRow
    <3> QED BY <1>1, <2>1, <3>4
  <2> QED BY <1>4, <2>2, <2>3 DEF Handle
<1>5. CASE Claim \/ CallNothing \/ Settle \/ Crash \/ Restart \/ Orphaned \/ HandleUnsaved
  <2>1. acct' = acct
    <3>1. Claim \/ CallNothing \/ Settle \/ Crash \/ Restart => acct' = acct
      BY DEF Claim, CallNothing, Settle, Crash, Restart
    <3>2. Orphaned \/ HandleUnsaved => acct' = acct
      BY DEF Orphaned, HandleUnsaved, panel
    <3> QED BY <1>5, <3>1, <3>2
  <2>2. op' = op \/ op' = NoOp
    <3>1. Claim \/ CallNothing \/ Settle \/ Crash \/ Restart => op' = op
      BY DEF Claim, CallNothing, Settle, Crash, Restart, hostVars
    <3>2. Orphaned \/ HandleUnsaved => op' = NoOp
      BY DEF Orphaned, HandleUnsaved
    <3> QED BY <1>5, <3>1, <3>2
  <2> QED BY <1>1, <2>1, <2>2
<1> QED BY <1>2, <1>3, <1>4, <1>5 DEF Next, WorkerStep

(* The invariant behind what follows. *)
LEMMA GoneInvariance == Spec => []GoneInv
<1>1. Init => GoneInv
  BY DEF Init, HostInit, NoFile, NoOp, GoneInv, NoFileNoTrace, NoTrace, DeleteProgress,
         GoneIsOver
<1>2. IInv /\ TraceInv /\ GoneInv /\ [Next]_vars => GoneInv'
  <2>1. ASSUME GoneInv, UNCHANGED vars PROVE GoneInv'
    BY <2>1 DEF vars, hostVars, panel, GoneInv, NoFileNoTrace, NoTrace, DeleteProgress,
                GoneIsOver
  <2> QED BY <2>1, HostKeepsGone, PanelKeepsGone
<1> QED BY <1>1, <1>2, Invariance, TraceInvariance, PTL DEF Spec

(* A row is the last thing to go.  A login's row, and with it its name, is *)
(* given up only after the host has given up the login: no account file    *)
(* has an entry of it, no line of the database and no session is its.  An  *)
(* account whose row is deleted has left nothing on the host but the       *)
(* quarantined home.  Whatever failed, was lost, was retried or was        *)
(* interrupted on the way.                                                 *)
THEOREM RevocationIsComplete == Spec => []RevokedLeavesNoTrace
<1>1. TraceInv /\ GoneInv => RevokedLeavesNoTrace
  <2>1. TraceInv => \A l \in Login : login[l].status = "deleted" => Of(l) = {} /\ ~InFiles(l)
    BY DEF TraceInv, Owned, Belongs, Exists, Of, InFiles
  <2>2. GoneInv => \A a \in Account : acct[a].status = "gone" =>
                     home[a] = "quarantined" /\ ~file[a].there /\ OfAcct(a) = {}
    BY DEF GoneInv, NoFileNoTrace, NoTrace, GoneIsOver, OfAcct
  <2> QED BY <2>1, <2>2 DEF RevokedLeavesNoTrace
<1> QED BY <1>1, TraceInvariance, GoneInvariance, PTL

-------------------------------------------------------------------------------
(* What the panel shows of an account is what its host does, in executions *)
(* in which no handler's write has failed and the panel has not died; the  *)
(* host's steps may fail at will.  Then an operation is always one the     *)
(* worker waits for.                                                       *)
OpIsAwaited ==
  /\ pc # "down"
  /\ op.at # "off" =>
       /\ pc = "calling"
       /\ op.doing = held.kind \/ (held.kind = "enable" /\ op.doing = "undo")
AccountOp(a) == op.at # "off" /\ op.acct = a /\ op.doing # "sync"

(* The account of a job that no handler has outlived waits for it. *)
IsJob(i, kind, a) == queue[i].kind = kind /\ queue[i].acct = a
NewIsPending ==
  \A i \in DOMAIN queue : queue[i].state = "new" /\ queue[i].kind # "sync" =>
                            acct[queue[i].acct].status = "pending"

(* A deletion is accepted for an account without logins.  One that has     *)
(* been given a login since has been enabled again by a later job, and the *)
(* login has not been synchronized.                                        *)
DeletesComeFirst ==
  \A i \in DOMAIN queue, a \in Account : IsJob(i, "delete", a) =>
    /\ acct[a].enabled \/ LoginsOf(a) # {} =>
         \E j \in DOMAIN queue : j > i /\ IsJob(j, "enable", a)
    /\ \A l \in LoginsOf(a) :
         /\ login[l].status # "active"
         /\ \A j \in DOMAIN queue : IsJob(j, "sync", a) => j > i

(* An account whose user is deleted is shown as active or disabled only as *)
(* long as a job that will find it out is yet to run.                      *)
FindsOut(j, a) == IsJob(j, "enable", a) /\ (pc = "handled" => j > 1)
HomelessIsError ==
  \A a \in Account :
    ~HasUser(a) /\ acct[a].status \in {"active", "disabled"} /\ ~AccountOp(a) =>
      \E j \in DOMAIN queue : FindsOut(j, a)

(* The account file has the row of every login shown as active. *)
RowEntry(l) == [login |-> l, name |-> login[l].name, pw |-> login[l].pw, enabled |-> TRUE]
ActiveIsFiled ==
  \A l \in Login : login[l].status = "active" =>
    /\ ~login[l].deleting
    /\ RowEntry(l) \in file[login[l].acct].entries
    /\ op.at = "written" /\ op.acct = login[l].acct => RowEntry(l) \in op.prev.entries

FilesAreWhole ==
  /\ \A a \in Account : ~file[a].there => ~file[a].suspended
  /\ op.at = "written" /\ ~op.prev.there => ~op.prev.suspended

(* How far an operation that has not failed has brought its account. *)
Suspends ==
  op.doing = "disable" /\ ~op.failed =>
    /\ op.at # "begin" => home[op.acct] = "closed"
    /\ op.at \in {"written", "rebuilt", "after", "end"} =>
         (file[op.acct].there => file[op.acct].suspended)
    /\ op.at \in {"rebuilt", "after", "end"} => \A x \in pdb : x.acct # op.acct
    /\ op.at \in {"after", "end"} => \A x \in sessions : x.acct # op.acct
Resumes ==
  op.doing = "enable" /\ ~op.failed =>
    /\ op.at # "begin" => home[op.acct] = "open"
    /\ op.at \in {"written", "rebuilt", "after", "end"} => ~file[op.acct].suspended
Compiles ==
  /\ op.doing \in {"enable", "sync"} /\ ~op.failed /\ op.at \in {"rebuilt", "after", "end"}
  => file[op.acct].suspended \/ Lines(op.acct) \subseteq pdb
ChangeProgress ==
  /\ op.at = "linux" => op.doing = "delete"
  /\ op.doing = "undo" => op.failed
  /\ Suspends /\ Resumes /\ Compiles

(* What an account shown as disabled, and one shown as active, is on the   *)
(* host while no operation of its own is under way.                        *)
Closed(a) ==
  /\ home[a] = "closed" /\ NoTrace(a)
  /\ file[a].there => file[a].suspended
  /\ op.at = "written" /\ op.acct = a /\ op.prev.there => op.prev.suspended
Served(a) ==
  /\ home[a] = "open" /\ ~file[a].suspended
  /\ op.at = "written" /\ op.acct = a => ~op.prev.suspended
  /\ \A l \in LoginsOf(a) : login[l].status = "active" => RowLine(l) \in pdb
ShownIsServed ==
  \A a \in Account : HasUser(a) /\ ~AccountOp(a) =>
    /\ acct[a].status = "disabled" => Closed(a)
    /\ acct[a].status = "active" => Served(a)

JobsInOrder == NewIsPending /\ DeletesComeFirst
HostInStep  == ActiveIsFiled /\ FilesAreWhole /\ ChangeProgress /\ ShownIsServed
CalmInv     == OpIsAwaited /\ JobsInOrder /\ HomelessIsError /\ HostInStep
CalmSoFar   == mishaps = 0 => CalmInv

(* An operation goes on with its account; only a failed resumption turns   *)
(* into its undoing.                                                       *)
LEMMA OpContinues ==
  ASSUME IInv, HostNext
  PROVE  /\ op'.acct = op.acct
         /\ op'.at # "off" <=> op.at # "off"
         /\ op'.doing = op.doing \/ (op.doing = "enable" /\ op'.doing = "undo")
<1>0. op \in Op
  BY DEF IInv, TypeOK, HostTypeOK
<1> DEFINE Same == /\ op'.acct = op.acct /\ op'.doing = op.doing
                   /\ op.at # "off" => op'.at # "off"
<1>1. ASSUME NEW p \in Points \ {"off"}, Goto(p) \/ FailTo(p) PROVE Same
  BY <1>0, <1>1, OpFields
<1>2. ASSUME NEW f, Write(f) PROVE Same
  BY <1>0, <1>2 DEF Write, Op
<1>3. DeleteUser \/ OpenSession => Same
  BY DEF DeleteUser, OpenSession
<1>4. UndoEnable => /\ op'.acct = op.acct /\ op.doing = "enable" /\ op'.doing = "undo"
                    /\ op'.at # "off"
  BY <1>0 DEF UndoEnable, Op
<1>5. UndoEnable \/ Same
  <2> HIDE DEF Same
  <2> QED
    BY <1>1, <1>2, <1>3
       DEF HostNext, AgentStep, AgentFault, SyncRefused, SyncWrites, DisableHome, EnableHome,
           DeleteBegins, NoFtpState, SetSuspended, Rebuild, Disconnect, Done, UndoHome,
           RemoveFile, Quarantine, RebuildFails, DisableHomeFails, EnableHomeFails, WriteFails,
           DisconnectFails, Abort
<1> QED BY <1>4, <1>5, Provenance

(* A deletion under way is one of an account none of whose logins is shown *)
(* as active.                                                              *)
LEMMA DeletesNoActive ==
  ASSUME IInv, TraceInv, CalmInv, op.at # "off", op.doing = "delete", NEW l \in Login,
         login[l].status = "active"
  PROVE  login[l].acct # op.acct
<1>1. queue # <<>> /\ pc = "calling" /\ held.kind = "delete" /\ held.acct = op.acct
  BY DEF CalmInv, OpIsAwaited, TraceInv, OpIsHeld, IInv, HeadIsRunning
<1>2. 1 \in DOMAIN queue /\ op.acct \in Account /\ IsJob(1, "delete", op.acct)
  BY <1>1, HeldIsJob DEF IInv, OpHasAccount, IsJob, held
<1>3. \A k \in LoginsOf(op.acct) : login[k].status # "active"
  BY <1>2 DEF CalmInv, JobsInOrder, DeletesComeFirst
<1> QED BY <1>3 DEF LoginsOf, Exists

LEMMA HostKeepsStep ==
  ASSUME IInv, TraceInv, StatusFits, GoneInv, CalmInv, HostNext, UNCHANGED panel
  PROVE  HostInStep'
<1>0. /\ op \in Op /\ file \in [Account -> File] /\ home \in [Account -> Homes]
      /\ op.at # "off" => op.acct \in Account /\ file[op.acct] \in File
      /\ ActiveIsFiled /\ FilesAreWhole /\ ChangeProgress /\ ShownIsServed
      /\ SyncProgress /\ NoFileNoTrace /\ DeleteProgress
      /\ login' = login /\ acct' = acct
      /\ \A l \in Login : login[l].status = "active" => login[l].acct \in Account
  BY DEF IInv, TypeOK, HostTypeOK, OpHasAccount, LoginsAreFilled, TraceInv, GoneInv,
         CalmInv, HostInStep, panel
<1>00. /\ \A l : RowEntry(l)' = RowEntry(l) /\ RowLine(l)' = RowLine(l)
       /\ \A a : LoginsOf(a)' = LoginsOf(a)
  BY <1>0 DEF RowEntry, RowLine, LoginsOf, Exists
<1>o. \A b \in Account : (op.at # "off" => b # op.acct) =>
                           home'[b] = home[b] /\ file'[b] = file[b]
  BY OthersUntouched
(* Steps that move the operation on and leave files, database and sessions alone. *)
<1>1. ASSUME UNCHANGED <<file, pdb, sessions>>, op.at # "off",
             NEW p \in Points \ {"off", "written", "linux", "rebuilt"}, Goto(p) \/ FailTo(p),
             op.doing = "sync" => home' = home,
             op.failed \/ FailTo(p) \/
               /\ op.doing = "disable" =>
                    /\ home'[op.acct] = "closed" /\ (p = "end" => op.at = "after")
                    /\ p = "after" => ~file[op.acct].there
               /\ op.doing = "enable" =>
                    /\ home'[op.acct] = "open" /\ (p = "end" => op.at = "after")
                    /\ p = "after" => ~file[op.acct].there
               /\ op.doing = "sync" => p = "end" /\ op.at = "after"
      PROVE  HostInStep'
  <2>1. /\ op'.acct = op.acct /\ op'.doing = op.doing /\ op'.at = p
        /\ FailTo(p) => op'.failed = TRUE
        /\ Goto(p) => op'.failed = op.failed
    BY <1>0, <1>1, OpFields
  <2>2. ActiveIsFiled' /\ FilesAreWhole'
    BY <1>0, <1>00, <1>1, <2>1 DEF ActiveIsFiled, FilesAreWhole
  <2>3. ASSUME ~file[op.acct].there
        PROVE  /\ NoTrace(op.acct) /\ Lines(op.acct) = {} /\ ~file[op.acct].suspended
    BY <1>0, <1>1, <2>3 DEF NoFileNoTrace, Lines, FilesAreWhole
  <2>4. Suspends'
    BY <1>0, <1>1, <2>1, <2>3 DEF ChangeProgress, Suspends, NoTrace
  <2>5. Resumes'
    BY <1>0, <1>1, <2>1, <2>3 DEF ChangeProgress, Resumes
  <2>6. Compiles'
    <3>1. Lines(op.acct)' = Lines(op'.acct) /\ Lines(op'.acct) = Lines(op.acct)
      BY <1>1, <2>1 DEF Lines
    <3> QED BY <1>0, <1>1, <2>1, <2>3, <3>1 DEF ChangeProgress, Compiles, Lines
  <2>7. ChangeProgress'
    BY <1>0, <1>1, <2>1, <2>4, <2>5, <2>6 DEF ChangeProgress
  <2>8. ShownIsServed'
    <3> SUFFICES ASSUME NEW a \in Account, HasUser(a)', ~AccountOp(a)'
                 PROVE  /\ acct[a].status = "disabled" => Closed(a)'
                        /\ acct[a].status = "active" => Served(a)'
      BY <1>0 DEF ShownIsServed
    <3>1. home'[a] = home[a]
      BY <1>0, <1>1, <1>o, <2>1 DEF AccountOp
    <3>2. HasUser(a) /\ ~AccountOp(a)
      BY <1>1, <2>1, <3>1 DEF HasUser, AccountOp
    <3> QED BY <1>0, <1>00, <1>1, <2>1, <3>1, <3>2 DEF ShownIsServed, Closed, Served, NoTrace
  <2> QED BY <2>2, <2>7, <2>8 DEF HostInStep
<1>2. CASE SyncRefused
  BY <1>1, <1>2 DEF SyncRefused
<1>3. CASE DisableHome
  BY <1>0, <1>1, <1>3 DEF DisableHome, a0
<1>4. CASE EnableHome
  BY <1>0, <1>1, <1>4 DEF EnableHome, a0
<1>5. CASE DisableHomeFails \/ EnableHomeFails
  BY <1>1, <1>5 DEF DisableHomeFails, EnableHomeFails
<1>6. CASE DeleteBegins
  BY <1>1, <1>6 DEF DeleteBegins
<1>7. CASE NoFtpState
  BY <1>0, <1>1, <1>7 DEF NoFtpState, a0, SyncProgress, ChangeProgress, Suspends, Resumes
<1>8. CASE WriteFails
  BY <1>1, <1>8 DEF WriteFails
<1>9. CASE Done
  BY <1>0, <1>1, <1>9 DEF Done, ChangeProgress, Suspends, Resumes
<1>10. CASE UndoHome
  BY <1>0, <1>1, <1>10 DEF UndoHome, ChangeProgress
<1>11. CASE Quarantine
  BY <1>0, <1>1, <1>11 DEF Quarantine, ChangeProgress
<1>12. CASE Abort
  BY <1>1, <1>12 DEF Abort, Running
(* The new account file. *)
<1>13. ASSUME NEW f \in File, Write(f), op.at # "off", f.there,
              op.doing = "disable" => f.suspended /\ (~op.failed => home[op.acct] = "closed"),
              op.doing = "enable" => ~f.suspended /\ (~op.failed => home[op.acct] = "open"),
              op.doing = "sync" => f.suspended = file[op.acct].suspended,
              op.doing = "sync" => (home[op.acct] = "closed" => file[op.acct].suspended),
              \A l \in Login : login[l].status = "active" /\ login[l].acct = op.acct =>
                                 RowEntry(l) \in f.entries
       PROVE  HostInStep'
  <2>1. /\ file' = [file EXCEPT ![op.acct] = f] /\ UNCHANGED <<home, pdb, sessions>>
        /\ op'.doing = op.doing /\ op'.prev = file[op.acct] /\ op'.acct = op.acct
        /\ op'.at = "written" /\ op'.failed = op.failed
    BY <1>0, <1>13 DEF Write, Op, a0
  <2>2. ActiveIsFiled' /\ FilesAreWhole'
    BY <1>0, <1>00, <1>13, <2>1 DEF ActiveIsFiled, FilesAreWhole
  <2>3. ChangeProgress'
    BY <1>0, <1>13, <2>1 DEF ChangeProgress, Suspends, Resumes, Compiles
  <2>4. ShownIsServed'
    <3> SUFFICES ASSUME NEW a \in Account, HasUser(a)', ~AccountOp(a)'
                 PROVE  /\ acct[a].status = "disabled" => Closed(a)'
                        /\ acct[a].status = "active" => Served(a)'
      BY <1>0 DEF ShownIsServed
    <3>1. HasUser(a) /\ ~AccountOp(a) /\ home'[a] = home[a]
      BY <1>13, <2>1 DEF HasUser, AccountOp
    <3>2. a = op.acct => op.doing = "sync"
      BY <1>13, <3>1 DEF AccountOp
    <3>3. /\ acct[a].status = "disabled" => Closed(a)
          /\ acct[a].status = "active" => Served(a)
      BY <1>0, <3>1 DEF ShownIsServed
    <3>4. file'[a].suspended = file[a].suspended
      BY <1>0, <1>13, <2>1, <3>2
    <3>5. ASSUME Closed(a) PROVE Closed(a)'
      BY <1>0, <1>13, <2>1, <3>2, <3>4, <3>5 DEF Closed, NoTrace
    <3>6. ASSUME Served(a) PROVE Served(a)'
      BY <1>0, <1>00, <1>13, <2>1, <3>4, <3>6 DEF Served
    <3> QED BY <3>3, <3>5, <3>6
  <2> QED BY <2>2, <2>3, <2>4 DEF HostInStep
<1>14. CASE SyncWrites
  <2> DEFINE f == [there |-> TRUE, suspended |-> file[a0].suspended, entries |-> op.entries]
  <2>1. /\ f \in File /\ f.there /\ Write(f) /\ op.at = "begin" /\ op.doing = "sync"
        /\ f.suspended = file[op.acct].suspended /\ f.entries = op.entries
        /\ home[op.acct] = "closed" => file[op.acct].suspended
    BY <1>0, <1>14 DEF SyncWrites, File, Op, a0
  <2> HIDE DEF f
  <2>2. op.entries = Snapshot(op.acct)
    BY <2>1 DEF IInv, SnapshotIsCurrent, TraceInv, OpIsHeld, CalmInv, OpIsAwaited
  <2>3. ASSUME NEW l \in Login, login[l].status = "active", login[l].acct = op.acct
        PROVE  RowEntry(l) \in f.entries
    <3>1. l \in LoginsOf(op.acct) /\ ~login[l].deleting /\ login[l].enabled = TRUE
      BY <1>0, <2>3 DEF LoginsOf, Exists, ActiveIsFiled, StatusFits, IInv, TypeOK, LoginRow
    <3> QED BY <2>1, <2>2, <3>1 DEF Snapshot, RowEntry
  <2> QED BY <1>13, <2>1, <2>3
<1>15. CASE SetSuspended
  <2> DEFINE f == [file[a0] EXCEPT !.suspended = (op.doing # "enable")]
  <2>1. /\ f \in File /\ f.there /\ Write(f) /\ op.at = "ftp"
        /\ f.suspended = (op.doing # "enable") /\ f.entries = file[op.acct].entries
    BY <1>0, <1>15 DEF SetSuspended, File, a0
  <2> HIDE DEF f
  <2>2. op.doing # "sync"
    BY <1>0, <2>1 DEF SyncProgress
  <2>3. /\ op.doing = "disable" /\ ~op.failed => home[op.acct] = "closed"
        /\ op.doing = "enable" /\ ~op.failed => home[op.acct] = "open"
    BY <1>0, <2>1 DEF ChangeProgress, Suspends, Resumes
  <2>4. \A l \in Login : login[l].status = "active" /\ login[l].acct = op.acct =>
                           RowEntry(l) \in f.entries
    BY <1>0, <2>1 DEF ActiveIsFiled
  <2> QED BY <1>13, <2>1, <2>2, <2>3, <2>4
<1>16. CASE Rebuild
  <2>1. /\ op'.acct = op.acct /\ op'.doing = op.doing /\ op'.at = "rebuilt"
        /\ op'.failed = op.failed /\ op.at = "written" /\ UNCHANGED <<home, file, sessions>>
        /\ pdb' = Compiled
    BY <1>0, <1>16, OpFields DEF Rebuild
  <2>2. \A x \in pdb' : x.acct \in Account /\ ~file[x.acct].suspended /\ file[x.acct].there
    BY <1>0, <2>1 DEF Compiled, Lines, NoFileNoTrace
  <2>3. \A a \in Account : ~file[a].suspended => Lines(a) \subseteq pdb'
    BY <2>1 DEF Compiled
  <2>4. ActiveIsFiled' /\ FilesAreWhole'
    BY <1>0, <1>00, <2>1 DEF ActiveIsFiled, FilesAreWhole
  <2>5. Suspends' /\ Resumes'
    BY <1>0, <2>1, <2>2 DEF ChangeProgress, Suspends, Resumes
  <2>6. Compiles'
    <3>1. Lines(op.acct)' = Lines(op'.acct) /\ Lines(op'.acct) = Lines(op.acct)
      BY <2>1 DEF Lines
    <3> QED BY <1>0, <2>1, <2>3, <3>1 DEF Compiles, Lines
  <2>7. ChangeProgress'
    BY <1>0, <2>1, <2>5, <2>6 DEF ChangeProgress
  <2>8. ShownIsServed'
    <3> SUFFICES ASSUME NEW a \in Account, HasUser(a)', ~AccountOp(a)'
                 PROVE  /\ acct[a].status = "disabled" => Closed(a)'
                        /\ acct[a].status = "active" => Served(a)'
      BY <1>0 DEF ShownIsServed
    <3>1. HasUser(a) /\ ~AccountOp(a)
      BY <2>1 DEF HasUser, AccountOp
    <3>2. /\ acct[a].status = "disabled" => Closed(a)
          /\ acct[a].status = "active" => Served(a)
      BY <1>0, <3>1 DEF ShownIsServed
    <3>3. ASSUME Closed(a) PROVE Closed(a)'
      BY <2>1, <2>2, <3>3 DEF Closed, NoTrace
    <3>4. ASSUME Served(a), NEW l \in LoginsOf(a), login[l].status = "active"
          PROVE  RowLine(l) \in pdb'
      <4>1. l \in Login /\ login[l].acct = a /\ RowEntry(l) \in file[a].entries
        BY <1>0, <3>4 DEF LoginsOf, ActiveIsFiled
      <4>2. RowLine(l) \in Lines(a)
        BY <4>1 DEF RowLine, RowEntry, Lines
      <4> QED BY <2>3, <3>4, <4>2 DEF Served
    <3>5. ASSUME Served(a) PROVE Served(a)'
      BY <1>0, <1>00, <2>1, <3>4, <3>5 DEF Served
    <3> QED BY <3>2, <3>3, <3>5
  <2> QED BY <2>4, <2>7, <2>8 DEF HostInStep
(* The steps after which the operation has failed or is no change of an    *)
(* account, and the account it is one of is not shown.                     *)
<1>17. CASE RebuildFails
  <2>1. /\ op'.acct = op.acct /\ op'.at = "after" /\ op'.failed = TRUE /\ op'.doing = op.doing
        /\ op.at = "written" /\ UNCHANGED <<home, pdb, sessions>>
        /\ file' = [file EXCEPT ![op.acct] = op.prev]
    BY <1>0, <1>17, OpFields DEF RebuildFails, a0
  <2>2. ActiveIsFiled' /\ FilesAreWhole'
    BY <1>0, <1>00, <2>1 DEF ActiveIsFiled, FilesAreWhole
  <2>3. ChangeProgress'
    BY <2>1 DEF ChangeProgress, Suspends, Resumes, Compiles
  <2>4. ShownIsServed'
    <3> SUFFICES ASSUME NEW a \in Account, HasUser(a)', ~AccountOp(a)'
                 PROVE  /\ acct[a].status = "disabled" => Closed(a)'
                        /\ acct[a].status = "active" => Served(a)'
      BY <1>0 DEF ShownIsServed
    <3>1. HasUser(a) /\ ~AccountOp(a)
      BY <2>1 DEF HasUser, AccountOp
    <3>2. /\ acct[a].status = "disabled" => Closed(a)
          /\ acct[a].status = "active" => Served(a)
      BY <1>0, <3>1 DEF ShownIsServed
    <3>3. ASSUME Closed(a) PROVE Closed(a)'
      BY <1>0, <2>1, <3>3 DEF Closed, NoTrace
    <3>4. ASSUME Served(a) PROVE Served(a)'
      BY <1>0, <1>00, <2>1, <3>4 DEF Served
    <3> QED BY <3>2, <3>3, <3>4
  <2> QED BY <2>2, <2>3, <2>4 DEF HostInStep
<1>18. CASE Disconnect \/ DisconnectFails
  <2>1. /\ op'.acct = op.acct /\ op'.doing = op.doing
        /\ op'.at = "after" /\ op.at = "rebuilt"
        /\ pdb' = pdb /\ file' = file /\ home' = home /\ sessions' \subseteq sessions
        /\ Disconnect => op'.failed = op.failed /\ \A x \in sessions' : x.acct # op.acct
        /\ DisconnectFails => op'.failed = TRUE
    BY <1>0, <1>18, OpFields DEF Disconnect, DisconnectFails, a0
  <2>2. ActiveIsFiled' /\ FilesAreWhole'
    BY <1>0, <1>00, <2>1 DEF ActiveIsFiled, FilesAreWhole
  <2>3. Suspends' /\ Resumes'
    BY <1>0, <1>18, <2>1 DEF ChangeProgress, Suspends, Resumes
  <2>4. Compiles'
    <3>1. Lines(op.acct)' = Lines(op'.acct) /\ Lines(op'.acct) = Lines(op.acct)
      BY <2>1 DEF Lines
    <3> QED BY <1>0, <1>18, <2>1, <3>1 DEF ChangeProgress, Compiles, Lines
  <2>5. ChangeProgress'
    BY <1>0, <1>18, <2>1, <2>3, <2>4 DEF ChangeProgress
  <2>6. ShownIsServed'
    BY <1>0, <1>00, <2>1 DEF ShownIsServed, HasUser, AccountOp, Closed, Served, NoTrace
  <2> QED BY <2>2, <2>5, <2>6 DEF HostInStep
<1>19. CASE UndoEnable
  <2>1. /\ op'.acct = op.acct /\ op'.doing = "undo" /\ op'.at = "ftp" /\ op'.failed
        /\ op.doing = "enable" /\ op.at # "off" /\ UNCHANGED <<home, file, pdb, sessions>>
    BY <1>0, <1>19 DEF UndoEnable, Op
  <2>2. ActiveIsFiled' /\ FilesAreWhole'
    BY <1>0, <1>00, <2>1 DEF ActiveIsFiled, FilesAreWhole
  <2>3. ChangeProgress'
    BY <2>1 DEF ChangeProgress, Suspends, Resumes, Compiles
  <2>4. ShownIsServed'
    BY <1>0, <1>00, <2>1 DEF ShownIsServed, HasUser, AccountOp, Closed, Served, NoTrace
  <2> QED BY <2>2, <2>3, <2>4 DEF HostInStep
<1>20. CASE RemoveFile
  <2>1. /\ op.at = "after" /\ op.doing = "delete" /\ UNCHANGED <<home, pdb, sessions>>
        /\ op'.acct = op.acct /\ op'.doing = "delete" /\ op'.at \in {"end", "linux"}
        /\ file' = file \/ file' = [file EXCEPT ![op.acct] = NoFile]
    BY <1>0, <1>20, OpFields DEF RemoveFile, a0
  <2>2. \A b \in Account : file'[b] = file[b] \/ (b = op.acct /\ file'[b] = NoFile)
    BY <1>0, <2>1
  <2>3. \A l \in Login : login[l].status = "active" => login[l].acct # op.acct
    BY <2>1, DeletesNoActive
  <2>4. ActiveIsFiled' /\ FilesAreWhole'
    BY <1>0, <1>00, <2>1, <2>2, <2>3 DEF ActiveIsFiled, FilesAreWhole, NoFile
  <2>5. ChangeProgress'
    BY <2>1 DEF ChangeProgress, Suspends, Resumes, Compiles
  <2>6. ShownIsServed'
    <3> SUFFICES ASSUME NEW a \in Account, HasUser(a)', ~AccountOp(a)'
                 PROVE  /\ acct[a].status = "disabled" => Closed(a)'
                        /\ acct[a].status = "active" => Served(a)'
      BY <1>0 DEF ShownIsServed
    <3>1. HasUser(a) /\ ~AccountOp(a) /\ a # op.acct /\ file'[a] = file[a] /\ home'[a] = home[a]
      BY <2>1, <2>2 DEF HasUser, AccountOp
    <3> QED BY <1>0, <1>00, <2>1, <3>1 DEF ShownIsServed, Closed, Served, NoTrace
  <2> QED BY <2>4, <2>5, <2>6 DEF HostInStep
<1>21. CASE DeleteUser
  <2>1. UNCHANGED <<file, pdb, sessions, op>> /\ op.at = "linux" /\ op.doing = "delete"
    BY <1>0, <1>21 DEF DeleteUser, ChangeProgress
  <2>2. ActiveIsFiled' /\ FilesAreWhole'
    BY <1>0, <1>00, <2>1 DEF ActiveIsFiled, FilesAreWhole
  <2>3. ChangeProgress'
    BY <2>1 DEF ChangeProgress, Suspends, Resumes, Compiles
  <2>4. ShownIsServed'
    <3> SUFFICES ASSUME NEW a \in Account, HasUser(a)', ~AccountOp(a)'
                 PROVE  /\ acct[a].status = "disabled" => Closed(a)'
                        /\ acct[a].status = "active" => Served(a)'
      BY <1>0 DEF ShownIsServed
    <3>1. HasUser(a) /\ ~AccountOp(a) /\ a # op.acct /\ home'[a] = home[a]
      BY <1>o, <2>1 DEF HasUser, AccountOp
    <3> QED BY <1>0, <1>00, <2>1, <3>1 DEF ShownIsServed, Closed, Served, NoTrace
  <2> QED BY <2>2, <2>3, <2>4 DEF HostInStep
<1>22. CASE OpenSession
  <2>1. PICK line \in pdb : sessions' = sessions \cup {line}
    BY <1>22 DEF OpenSession
  <2>2. UNCHANGED <<home, file, pdb, op>>
    BY <1>22 DEF OpenSession
  <2>3. ActiveIsFiled' /\ FilesAreWhole'
    BY <1>0, <1>00, <2>2 DEF ActiveIsFiled, FilesAreWhole
  <2>4. Suspends' /\ Resumes'
    BY <1>0, <2>1, <2>2 DEF ChangeProgress, Suspends, Resumes
  <2>5. ChangeProgress'
    BY <1>0, <2>2, <2>4 DEF ChangeProgress, Compiles, Lines
  <2>6. ShownIsServed'
    BY <1>0, <1>00, <2>1, <2>2 DEF ShownIsServed, HasUser, AccountOp, Closed, Served, NoTrace
  <2> QED BY <2>3, <2>5, <2>6 DEF HostInStep
<1> QED BY <1>2, <1>3, <1>4, <1>5, <1>6, <1>7, <1>8, <1>9, <1>10, <1>11, <1>12, <1>14, <1>15,
           <1>16, <1>17, <1>18, <1>19, <1>20, <1>21, <1>22
           DEF HostNext, AgentStep, AgentFault

LEMMA HostKeepsCalm ==
  ASSUME IInv, TraceInv, StatusFits, GoneInv, CalmInv, HostNext, UNCHANGED panel
  PROVE  CalmInv'
<1>1. HostInStep'
  BY HostKeepsStep
<1>2. OpIsAwaited'
  BY OpContinues DEF CalmInv, OpIsAwaited, panel, held
<1>3. \A l : Exists(l)' = Exists(l)
  BY DEF Exists, panel
<1>4. \A a : LoginsOf(a)' = LoginsOf(a)
  BY <1>3 DEF LoginsOf, panel
<1>5. JobsInOrder'
  BY <1>4 DEF CalmInv, JobsInOrder, NewIsPending, DeletesComeFirst, IsJob, panel
<1>6. op.at # "off" /\ op.doing = "sync" => home' = home
  <2> SUFFICES ASSUME op.at # "off", op.doing = "sync" PROVE home' = home
    OBVIOUS
  <2>1. op.at # "linux"
    BY DEF TraceInv, SyncProgress
  <2> QED BY <2>1 DEF HostNext, AgentStep, AgentFault, SyncRefused, SyncWrites, Write, DisableHome,
           EnableHome, DeleteBegins, NoFtpState, SetSuspended, Rebuild, Disconnect, Done,
           UndoEnable, UndoHome, RemoveFile, DeleteUser, Quarantine, RebuildFails,
           DisableHomeFails, EnableHomeFails, WriteFails, DisconnectFails, Abort, OpenSession
<1>7. HomelessIsError'
  <2> SUFFICES ASSUME NEW a \in Account, ~HasUser(a)', ~AccountOp(a)',
                      acct[a].status \in {"active", "disabled"}
               PROVE  \E j \in DOMAIN queue : FindsOut(j, a)
    BY DEF HomelessIsError, FindsOut, IsJob, panel
  <2>1. ~AccountOp(a)
    BY OpContinues DEF AccountOp
  <2>2. home'[a] = home[a]
    BY <1>6, <2>1, OthersUntouched DEF AccountOp
  <2> QED BY <2>1, <2>2 DEF CalmInv, HomelessIsError, HasUser
<1> QED BY <1>1, <1>2, <1>5, <1>7 DEF CalmInv

-------------------------------------------------------------------------------
(* A request's job goes in behind every job that a handler has outlived;   *)
(* the others keep their order.                                            *)
LEMMA Placed ==
  ASSUME IInv, NEW kind \in Kinds, NEW a \in Account, Enqueue(kind, a)
  PROVE  \E i \in DOMAIN queue', m \in [DOMAIN queue -> DOMAIN queue'] :
           /\ queue'[i] = [kind |-> kind, acct |-> a, tries |-> 0, state |-> "new"]
           /\ \A k \in DOMAIN queue : /\ queue'[m[k]] = queue[k] /\ m[k] >= k
                                      /\ queue[k].state # "new" => m[k] < i
           /\ \A k, j \in DOMAIN queue : k < j => m[k] < m[j]
           /\ \A n \in DOMAIN queue' : n = i \/ \E k \in DOMAIN queue : n = m[k]
<1> DEFINE e == [kind |-> kind, acct |-> a, tries |-> 0, state |-> "new"]
<1>1. queue \in Seq(Job) /\ Len(queue) \in Nat /\ DOMAIN queue = 1 .. Len(queue)
  BY LenProperties DEF IInv, TypeOK
<1>2. e \in Job
  BY FtpAccessAssumption DEF Job
<1>3. PICK i \in 1 .. Len(queue) + 1 :
        /\ \A k \in i .. Len(queue) : queue[k].state = "new"
        /\ queue' = InsertAt(queue, i, e)
  BY DEF Enqueue
<1> HIDE DEF e
<1>4. /\ queue' \in Seq(Job) /\ Len(queue') = Len(queue) + 1
      /\ \A k \in 1 .. i - 1 : queue'[k] = queue[k]
      /\ queue'[i] = e
      /\ \A k \in i + 1 .. Len(queue) + 1 : queue'[k] = queue[k - 1]
  <2> DEFINE t == InsertAt(queue, i, e)
  <2>1. t \in Seq(Job) /\ Len(t) = Len(queue) + 1
    BY <1>1, <1>2, Inserted
  <2>2. \A k \in 1 .. i - 1 : t[k] = queue[k]
    BY <1>1, <1>2, Inserted
  <2>3. t[i] = e
    BY <1>1, <1>2, Inserted
  <2>4. \A k \in i + 1 .. Len(queue) + 1 : t[k] = queue[k - 1]
    BY <1>1, <1>2, Inserted
  <2>5. queue' = t
    BY <1>3
  <2> HIDE DEF t
  <2> QED BY <2>1, <2>2, <2>3, <2>4, <2>5
<1>5. DOMAIN queue' = 1 .. Len(queue) + 1
  BY <1>4, LenProperties
<1> DEFINE m == [k \in DOMAIN queue |-> IF k < i THEN k ELSE k + 1]
<1>6. m \in [DOMAIN queue -> DOMAIN queue'] /\ i \in DOMAIN queue'
  BY <1>1, <1>5
<1>7. ASSUME NEW k \in DOMAIN queue
      PROVE  /\ queue'[m[k]] = queue[k] /\ m[k] >= k
             /\ queue[k].state # "new" => m[k] < i
  <2>1. CASE k < i
    <3>1. k \in 1 .. i - 1 /\ m[k] = k
      BY <1>1, <2>1
    <3> QED BY <1>1, <1>4, <3>1, <2>1
  <2>2. CASE ~(k < i)
    <3>1. k + 1 \in i + 1 .. Len(queue) + 1 /\ m[k] = k + 1 /\ k \in i .. Len(queue)
      BY <1>1, <2>2
    <3>2. queue'[k + 1] = queue[(k + 1) - 1] /\ (k + 1) - 1 = k
      BY <1>1, <1>4, <3>1
    <3> QED BY <1>1, <1>3, <3>1, <3>2
  <2> QED BY <2>1, <2>2
<1>8. \A k, j \in DOMAIN queue : k < j => m[k] < m[j]
  BY <1>1
<1>9. ASSUME NEW n \in DOMAIN queue', n # i PROVE \E k \in DOMAIN queue : n = m[k]
  <2>1. CASE n < i
    <3>1. n \in DOMAIN queue /\ m[n] = n
      BY <1>1, <1>5, <2>1
    <3> QED BY <3>1
  <2>2. CASE n > i
    <3>1. n - 1 \in DOMAIN queue /\ m[n - 1] = n
      BY <1>1, <1>5, <2>2
    <3> QED BY <3>1
  <2> QED BY <1>1, <1>5, <1>9, <2>1, <2>2
<1> HIDE DEF m
<1> QED BY <1>4, <1>6, <1>7, <1>8, <1>9 DEF e

(* What a request keeps of the order of the jobs. *)
LEMMA PlacedKeepsOrder ==
  ASSUME IInv, JobsInOrder, NEW kind \in Kinds, NEW a \in Account, Enqueue(kind, a),
         acct[a].status # "pending",
         \A b \in Account : b # a => acct'[b] = acct[b] /\ LoginsOf(b)' = LoginsOf(b),
         kind # "sync" => /\ login' = login /\ acct'[a].status = "pending"
                          /\ acct'[a].enabled = (kind = "enable")
                          /\ kind = "delete" => LoginsOf(a) = {},
         kind = "sync" => /\ acct' = acct /\ ~FTPBusy(a)
                          /\ acct[a].enabled \/ LoginsOf(a)' \subseteq LoginsOf(a),
         \A l \in Login : login'[l] = login[l] \/ login'[l].status = "pending"
  PROVE  JobsInOrder'
<1>1. PICK i \in DOMAIN queue', m \in [DOMAIN queue -> DOMAIN queue'] :
        /\ queue'[i] = [kind |-> kind, acct |-> a, tries |-> 0, state |-> "new"]
        /\ \A k \in DOMAIN queue : /\ queue'[m[k]] = queue[k] /\ m[k] >= k
                                   /\ queue[k].state # "new" => m[k] < i
        /\ \A k, j \in DOMAIN queue : k < j => m[k] < m[j]
        /\ \A n \in DOMAIN queue' : n = i \/ \E k \in DOMAIN queue : n = m[k]
  BY Placed
<1>2. queue'[i].kind = kind /\ queue'[i].acct = a
  BY <1>1
<1>3. \A k \in DOMAIN queue : queue[k].acct = a /\ queue[k].kind # "sync" => m[k] < i
  BY <1>1 DEF JobsInOrder, NewIsPending
<1>4. NewIsPending'
  <2> SUFFICES ASSUME NEW n \in DOMAIN queue', queue'[n].state = "new", queue'[n].kind # "sync"
               PROVE  acct'[queue'[n].acct].status = "pending"
    BY DEF NewIsPending
  <2>1. CASE n = i
    BY <1>2, <2>1
  <2>2. CASE n # i
    <3>1. PICK k \in DOMAIN queue : n = m[k]
      BY <1>1, <2>2
    <3>2. queue[k] = queue'[n] /\ acct[queue[k].acct].status = "pending"
      BY <1>1, <3>1 DEF JobsInOrder, NewIsPending
    <3>3. queue[k].acct \in Account
      <4>1. queue \in Seq(Job)
        BY DEF IInv, TypeOK
      <4>2. queue[k] \in Job
        BY <4>1, ElementOfSeq, LenProperties
      <4> QED BY <4>2 DEF Job
    <3> QED BY <3>2, <3>3
  <2> QED BY <2>1, <2>2
<1>5. DeletesComeFirst'
  <2> SUFFICES ASSUME NEW n \in DOMAIN queue', NEW b \in Account, IsJob(n, "delete", b)'
               PROVE  /\ acct'[b].enabled \/ LoginsOf(b)' # {} =>
                           \E j \in DOMAIN queue' : j > n /\ IsJob(j, "enable", b)'
                      /\ \A l \in LoginsOf(b)' :
                           /\ login'[l].status # "active"
                           /\ \A j \in DOMAIN queue' : IsJob(j, "sync", b)' => j > n
    BY DEF DeletesComeFirst
  <2>1. CASE n = i
    <3>1. kind = "delete" /\ b = a
      BY <1>2, <2>1 DEF IsJob
    <3>2. ~acct'[a].enabled /\ LoginsOf(a)' = {}
      BY <3>1 DEF LoginsOf, Exists
    <3> QED BY <3>1, <3>2
  <2>2. CASE n # i
    <3>1. PICK k \in DOMAIN queue : n = m[k]
      BY <1>1, <2>2
    <3>2. IsJob(k, "delete", b)
      BY <1>1, <3>1 DEF IsJob
    <3>3. /\ acct[b].enabled \/ LoginsOf(b) # {} =>
               \E j \in DOMAIN queue : j > k /\ IsJob(j, "enable", b)
          /\ \A l \in LoginsOf(b) :
               /\ login[l].status # "active"
               /\ \A j \in DOMAIN queue : IsJob(j, "sync", b) => j > k
      BY <3>2 DEF JobsInOrder, DeletesComeFirst
    <3>4. ASSUME NEW j \in DOMAIN queue, j > k, IsJob(j, "enable", b)
          PROVE  \E o \in DOMAIN queue' : o > n /\ IsJob(o, "enable", b)'
      <4>1. k \in Int /\ j \in Int /\ m[j] \in Int /\ m[k] \in Int
        BY LenProperties, Enqueued DEF IInv, TypeOK
      <4>2. m[j] > n /\ IsJob(m[j], "enable", b)'
        BY <1>1, <3>1, <3>4, <4>1 DEF IsJob
      <4> QED BY <4>2
    <3>5. ASSUME acct'[b].enabled \/ LoginsOf(b)' # {}
          PROVE  \E j \in DOMAIN queue' : j > n /\ IsJob(j, "enable", b)'
      <4>1. CASE b = a /\ kind = "enable"
        <5>1. m[k] < i
          BY <1>3, <3>2, <4>1 DEF IsJob
        <5>2. IsJob(i, "enable", b)' /\ i > n
          <6>1. i \in Int /\ n \in Int
            BY LenProperties, Enqueued
          <6> QED BY <1>2, <3>1, <4>1, <5>1, <6>1 DEF IsJob
        <5> QED BY <5>2
      <4>2. CASE b # a \/ kind # "enable"
        <5>1. acct[b].enabled \/ LoginsOf(b) # {}
          <6>1. CASE b # a
            BY <3>5, <6>1
          <6>2. CASE b = a /\ kind = "sync"
            BY <3>5, <6>2
          <6>3. CASE b = a /\ kind \in {"disable", "delete"}
            <7>1. LoginsOf(a)' = LoginsOf(a)
              BY <6>3 DEF LoginsOf, Exists
            <7> QED BY <3>5, <6>3, <7>1
          <6> QED BY <4>2, <6>1, <6>2, <6>3
        <5> QED BY <3>3, <3>4, <5>1
      <4> QED BY <4>1, <4>2
    <3>6. ASSUME NEW l \in LoginsOf(b)' PROVE login'[l].status # "active"
      <4>1. l \in Login /\ Exists(l)' /\ login'[l].acct = b
        BY DEF LoginsOf
      <4>2. login'[l] = login[l] => l \in LoginsOf(b)
        BY <4>1 DEF LoginsOf, Exists
      <4> QED BY <3>3, <4>1, <4>2
    <3>7. ASSUME NEW l \in LoginsOf(b)', NEW j \in DOMAIN queue', IsJob(j, "sync", b)'
          PROVE  j > n
      <4>1. CASE j = i
        <5>1. kind = "sync" /\ b = a
          BY <1>2, <3>7, <4>1 DEF IsJob
        <5>2. m[k] < i /\ i \in Int /\ n \in Int
          BY <1>3, <3>2, <5>1, LenProperties, Enqueued DEF IsJob
        <5> QED BY <3>1, <4>1, <5>2
      <4>2. CASE j # i
        <5>1. PICK o \in DOMAIN queue : j = m[o]
          BY <1>1, <4>2
        <5>2. IsJob(o, "sync", b)
          BY <1>1, <3>7, <5>1 DEF IsJob
        <5>3. ~(kind = "sync" /\ b = a)
          BY <5>2 DEF FTPBusy, JobsOf, IsJob
        <5>4. LoginsOf(b)' = LoginsOf(b)
          BY <5>3 DEF LoginsOf, Exists
        <5>5. o > k
          BY <3>3, <3>7, <5>2, <5>4
        <5>6. k \in Int /\ o \in Int /\ m[o] \in Int /\ m[k] \in Int
          BY LenProperties, Enqueued DEF IInv, TypeOK
        <5> QED BY <1>1, <3>1, <5>1, <5>5, <5>6
      <4> QED BY <4>1, <4>2
    <3> QED BY <3>5, <3>6, <3>7
  <2> QED BY <2>1, <2>2
<1> QED BY <1>4, <1>5 DEF JobsInOrder

(* The host and the order of the jobs do not care about what a request     *)
(* writes: it leaves every login shown as active alone or takes that from  *)
(* it.                                                                     *)
LEMMA RequestKeepsStep ==
  ASSUME IInv, HostInStep, UNCHANGED hostVars,
         \A a \in Account : acct'[a] = acct[a] \/ acct'[a].status = "pending",
         \A l \in Login : login'[l] = login[l] \/ login'[l].status = "pending"
  PROVE  HostInStep'
<1>1. \A l \in Login : login'[l].status = "active" =>
        login'[l] = login[l] /\ RowEntry(l)' = RowEntry(l) /\ RowLine(l)' = RowLine(l)
  BY DEF RowEntry, RowLine
<1>2. ActiveIsFiled'
  BY <1>1 DEF HostInStep, ActiveIsFiled, hostVars
<1>3. FilesAreWhole' /\ ChangeProgress'
  BY DEF HostInStep, FilesAreWhole, ChangeProgress, Suspends, Resumes, Compiles, Lines, hostVars
<1>4. ShownIsServed'
  <2> SUFFICES ASSUME NEW a \in Account, HasUser(a)', ~AccountOp(a)', acct'[a].status # "pending"
               PROVE  /\ acct'[a].status = "disabled" => Closed(a)'
                      /\ acct'[a].status = "active" => Served(a)'
    BY DEF ShownIsServed
  <2>1. HasUser(a) /\ ~AccountOp(a) /\ acct'[a] = acct[a]
    BY DEF hostVars, HasUser, AccountOp
  <2>2. \A l \in LoginsOf(a)' : login'[l].status = "active" => l \in LoginsOf(a)
    BY <1>1 DEF LoginsOf, Exists
  <2>3. Closed(a) => Closed(a)'
    BY DEF Closed, NoTrace, hostVars
  <2>4. ASSUME Served(a) PROVE Served(a)'
    <3>1. \A l \in LoginsOf(a)' : l \in Login
      BY DEF LoginsOf
    <3> QED BY <1>1, <2>2, <2>4, <3>1 DEF Served, hostVars
  <2> QED BY <2>1, <2>3, <2>4 DEF HostInStep, ShownIsServed
<1> QED BY <1>2, <1>3, <1>4 DEF HostInStep

LEMMA PlacedKeepsCalm ==
  ASSUME IInv, CalmInv, UNCHANGED <<hostVars, pc>>,
         NEW kind \in Kinds, NEW a \in Account, Enqueue(kind, a),
         JobsInOrder', HostInStep',
         \A b \in Account : acct'[b] = acct[b] \/ acct'[b].status = "pending"
  PROVE  CalmInv'
<1>1. PICK i \in DOMAIN queue', m \in [DOMAIN queue -> DOMAIN queue'] :
        \A k \in DOMAIN queue : /\ queue'[m[k]] = queue[k] /\ m[k] >= k
  BY Placed
<1>2. HomelessIsError'
  <2> SUFFICES ASSUME NEW b \in Account, ~HasUser(b)', ~AccountOp(b)',
                      acct'[b].status \in {"active", "disabled"}
               PROVE  \E j \in DOMAIN queue' : FindsOut(j, b)'
    BY DEF HomelessIsError
  <2>1. ~HasUser(b) /\ ~AccountOp(b) /\ acct'[b] = acct[b]
    BY DEF hostVars, HasUser, AccountOp
  <2>2. PICK j \in DOMAIN queue : FindsOut(j, b)
    BY <2>1 DEF CalmInv, HomelessIsError
  <2>3. j \in Int /\ m[j] \in Int
    BY LenProperties, Enqueued DEF IInv, TypeOK
  <2>4. FindsOut(m[j], b)'
    BY <1>1, <2>2, <2>3 DEF FindsOut, IsJob
  <2> QED BY <2>4
<1>3. OpIsAwaited'
  <2>1. pc = "calling" => held' = held
    BY Enqueued DEF IInv, HeadIsRunning, held
  <2> QED BY <2>1 DEF CalmInv, OpIsAwaited, hostVars
<1> QED BY <1>2, <1>3 DEF CalmInv

LEMMA RequestKeepsCalm ==
  ASSUME IInv, CalmInv, Request PROVE CalmInv'
<1>0. login \in [Login -> LoginRow] /\ acct \in [Account -> AccountRow]
      /\ JobsInOrder /\ HostInStep
  BY DEF IInv, TypeOK, CalmInv
(* A change of one login of an account that is not waiting for a job. *)
<1>1. ASSUME NEW l \in Login, NEW a \in Account, Enqueue("sync", a),
             UNCHANGED <<hostVars, pc, acct>>,
             acct[a].status # "pending", ~FTPBusy(a), acct[a].enabled \/ l \in LoginsOf(a),
             l \in LoginsOf(a) \/ ~Exists(l), NEW r,
             login' = [login EXCEPT ![l] = r], r.status = "pending", r.acct = a
      PROVE  CalmInv'
  <2>1. \A k \in Login : IF k = l THEN login'[k] = r ELSE login'[k] = login[k]
    BY <1>0, <1>1
  <2>2. \A b \in Account : LoginsOf(b)' = IF b = a THEN LoginsOf(b) \cup {l} ELSE LoginsOf(b)
    BY <1>1, <2>1 DEF LoginsOf, Exists
  <2>3. JobsInOrder'
    BY <1>0, <1>1, <2>1, <2>2, PlacedKeepsOrder
  <2>4. HostInStep'
    BY <1>0, <1>1, <2>1, RequestKeepsStep
  <2> QED BY <1>1, <2>3, <2>4, PlacedKeepsCalm
<1>2. ASSUME NEW l \in Login, NEW a \in Account, CreateFTP(l, a) PROVE CalmInv'
  <2>1. PICK n \in Name, p \in Password, e \in BOOLEAN :
          /\ RequireFTP(l, a, n)
          /\ login' = [login EXCEPT ![l] =
                      [status |-> "pending", acct |-> a, name |-> n, pw |-> p,
                       enabled |-> e, deleting |-> FALSE]]
    BY <1>2 DEF CreateFTP
  <2> DEFINE r == [status |-> "pending", acct |-> a, name |-> n, pw |-> p,
                   enabled |-> e, deleting |-> FALSE]
  <2>2. r.status = "pending" /\ r.acct = a /\ login' = [login EXCEPT ![l] = r]
    BY <2>1
  <2> HIDE DEF r
  <2>3. /\ Enqueue("sync", a) /\ UNCHANGED <<hostVars, pc, acct>> /\ ~Exists(l)
        /\ acct[a].status # "pending" /\ ~FTPBusy(a) /\ acct[a].enabled
    BY <1>2, <2>1 DEF CreateFTP, RequireFTP, Exists
  <2> QED BY <1>1, <2>2, <2>3
<1>3. ASSUME NEW l \in Login, Exists(l)
      PROVE  login[l].acct \in Account /\ l \in LoginsOf(login[l].acct)
  BY <1>3 DEF IInv, LoginsAreFilled, LoginsOf, Exists
<1>4. ASSUME NEW l \in Login, UpdateFTP(l) PROVE CalmInv'
  <2>1. PICK n \in Name, p \in Password, e \in BOOLEAN :
          /\ RequireFTP(l, login[l].acct, n)
          /\ login' = [login EXCEPT ![l] = [login[l] EXCEPT !.status = "pending", !.name = n,
                                                            !.pw = p, !.enabled = e]]
    BY <1>4 DEF UpdateFTP
  <2> DEFINE r == [login[l] EXCEPT !.status = "pending", !.name = n, !.pw = p, !.enabled = e]
  <2>2. r.status = "pending" /\ r.acct = login[l].acct /\ login' = [login EXCEPT ![l] = r]
    BY <1>0, <2>1 DEF LoginRow
  <2> HIDE DEF r
  <2>3. /\ Enqueue("sync", login[l].acct) /\ UNCHANGED <<hostVars, pc, acct>> /\ Exists(l)
        /\ acct[login[l].acct].status # "pending" /\ ~FTPBusy(login[l].acct)
    BY <1>4, <2>1 DEF UpdateFTP, RequireFTP
  <2> QED BY <1>1, <1>3, <2>2, <2>3
<1>5. ASSUME NEW l \in Login, DeleteFTP(l) PROVE CalmInv'
  <2> DEFINE r == [login[l] EXCEPT !.status = "pending", !.deleting = TRUE]
  <2>2. r.status = "pending" /\ r.acct = login[l].acct /\ login' = [login EXCEPT ![l] = r]
    BY <1>0, <1>5 DEF LoginRow, DeleteFTP
  <2> HIDE DEF r
  <2>3. /\ Enqueue("sync", login[l].acct) /\ UNCHANGED <<hostVars, pc, acct>> /\ Exists(l)
        /\ acct[login[l].acct].status # "pending" /\ ~FTPBusy(login[l].acct)
    BY <1>5 DEF DeleteFTP, RequireFTP
  <2> QED BY <1>1, <1>3, <2>2, <2>3
<1>6. ASSUME NEW a \in Account, NEW kind \in {"enable", "disable", "delete"},
             AccountAction(a, kind)
      PROVE  CalmInv'
  <2>1. /\ acct[a].status # "pending" /\ Enqueue(kind, a) /\ login' = login
        /\ kind = "delete" => LoginsOf(a) = {}
        /\ acct' = [acct EXCEPT ![a] = [status |-> "pending", enabled |-> kind = "enable"]]
        /\ UNCHANGED <<hostVars, pc>>
    BY <1>6 DEF AccountAction
  <2>2. /\ \A b \in Account : b # a => acct'[b] = acct[b]
        /\ acct'[a].status = "pending" /\ acct'[a].enabled = (kind = "enable")
    BY <1>0, <2>1
  <2>3. \A b : LoginsOf(b)' = LoginsOf(b)
    BY <2>1 DEF LoginsOf, Exists
  <2>4. JobsInOrder'
    BY <1>0, <2>1, <2>2, <2>3, PlacedKeepsOrder
  <2>5. HostInStep'
    BY <1>0, <2>1, <2>2, RequestKeepsStep
  <2> QED BY <2>1, <2>2, <2>4, <2>5, PlacedKeepsCalm
<1> QED BY <1>2, <1>4, <1>5, <1>6 DEF Request

-------------------------------------------------------------------------------
(* The worker's steps keep the jobs behind the head, and their order. *)
LEMMA OrderKept ==
  ASSUME TypeOK, DeletesComeFirst, queue # <<>>, NEW m \in [DOMAIN queue' -> DOMAIN queue],
         \A k \in DOMAIN queue' : /\ queue'[k].kind = queue[m[k]].kind
                                  /\ queue'[k].acct = queue[m[k]].acct,
         \A k, j \in DOMAIN queue' : k < j <=> m[k] < m[j],
         \A j \in DOMAIN queue : j = 1 \/ \E k \in DOMAIN queue' : m[k] = j,
         \A a \in Account : acct'[a].enabled = acct[a].enabled,
         \A a \in Account : LoginsOf(a)' \subseteq LoginsOf(a),
         \A l \in Login : login'[l].status = "active" =>
           login[l].status = "active" \/ (held.kind = "sync" /\ held.acct = login[l].acct)
  PROVE  DeletesComeFirst'
<1>1. DOMAIN queue \subseteq Nat \ {0} /\ 1 \in DOMAIN queue
  BY LenProperties, HeldIsJob DEF TypeOK
<1> SUFFICES ASSUME NEW n \in DOMAIN queue', NEW a \in Account, IsJob(n, "delete", a)'
             PROVE  /\ acct'[a].enabled \/ LoginsOf(a)' # {} =>
                         \E j \in DOMAIN queue' : j > n /\ IsJob(j, "enable", a)'
                    /\ \A l \in LoginsOf(a)' :
                         /\ login'[l].status # "active"
                         /\ \A j \in DOMAIN queue' : IsJob(j, "sync", a)' => j > n
  BY DEF DeletesComeFirst
<1>2. m[n] \in DOMAIN queue /\ IsJob(m[n], "delete", a)
  BY DEF IsJob
<1>3. /\ acct[a].enabled \/ LoginsOf(a) # {} =>
           \E j \in DOMAIN queue : j > m[n] /\ IsJob(j, "enable", a)
      /\ \A l \in LoginsOf(a) :
           /\ login[l].status # "active"
           /\ \A j \in DOMAIN queue : IsJob(j, "sync", a) => j > m[n]
  BY <1>2 DEF DeletesComeFirst
<1>4. ASSUME acct'[a].enabled \/ LoginsOf(a)' # {}
      PROVE  \E j \in DOMAIN queue' : j > n /\ IsJob(j, "enable", a)'
  <2>1. PICK j \in DOMAIN queue : j > m[n] /\ IsJob(j, "enable", a)
    BY <1>3, <1>4
  <2>2. j # 1
    BY <1>1, <1>2, <2>1
  <2>3. PICK k \in DOMAIN queue' : m[k] = j
    BY <2>2
  <2>4. n < k /\ IsJob(k, "enable", a)'
    BY <1>1, <1>2, <2>1, <2>3 DEF IsJob
  <2> QED BY <2>4
<1>5. ASSUME NEW l \in LoginsOf(a)'
      PROVE  /\ login'[l].status # "active"
             /\ \A j \in DOMAIN queue' : IsJob(j, "sync", a)' => j > n
  <2>1. l \in LoginsOf(a) /\ l \in Login /\ login[l].acct = a
    BY <1>5 DEF LoginsOf
  <2>2. login'[l].status # "active"
    <3>1. ASSUME held.kind = "sync", held.acct = a PROVE FALSE
      <4>1. IsJob(1, "sync", a)
        BY <3>1 DEF IsJob, held
      <4>2. 1 > m[n]
        BY <1>1, <1>3, <2>1, <4>1
      <4> QED BY <1>1, <1>2, <4>2
    <3> QED BY <1>3, <2>1, <3>1
  <2>3. ASSUME NEW j \in DOMAIN queue', IsJob(j, "sync", a)' PROVE j > n
    <3>1. m[j] \in DOMAIN queue /\ IsJob(m[j], "sync", a)
      BY <2>3 DEF IsJob
    <3>2. m[n] < m[j]
      BY <1>1, <1>2, <1>3, <2>1, <3>1
    <3> QED BY <3>2
  <2> QED BY <2>2, <2>3
<1> QED BY <1>4, <1>5

(* The same with the jobs where they were. *)
LEMMA OrderKeptInPlace ==
  ASSUME TypeOK, DeletesComeFirst, queue # <<>>, DOMAIN queue' = DOMAIN queue,
         \A k \in DOMAIN queue' : /\ queue'[k].kind = queue[k].kind
                                  /\ queue'[k].acct = queue[k].acct,
         \A a \in Account : acct'[a].enabled = acct[a].enabled,
         \A a \in Account : LoginsOf(a)' \subseteq LoginsOf(a),
         \A l \in Login : login'[l].status = "active" =>
           login[l].status = "active" \/ (held.kind = "sync" /\ held.acct = login[l].acct)
  PROVE  DeletesComeFirst'
<1> DEFINE m == [k \in DOMAIN queue |-> k]
<1>1. m \in [DOMAIN queue' -> DOMAIN queue] /\ \A k \in DOMAIN queue' : m[k] = k
  OBVIOUS
<1> HIDE DEF m
<1> QED BY <1>1, OrderKept

LEMMA AgedInPlace ==
  ASSUME TypeOK, Age
  PROVE  /\ DOMAIN queue' = DOMAIN queue
         /\ \A k \in DOMAIN queue' : /\ queue'[k].kind = queue[k].kind
                                     /\ queue'[k].acct = queue[k].acct
                                     /\ queue'[k].state # "new"
<1>1. queue \in Seq(Job) /\ \A i \in DOMAIN queue : queue[i] \in Job
  BY ElementOfSeq, LenProperties DEF TypeOK
<1> QED BY <1>1 DEF Age, Job

LEMMA OthersKeepCalm ==
  ASSUME IInv, CalmInv, Claim \/ CallNothing \/ Settle
  PROVE  CalmInv'
<1>0. /\ TypeOK /\ queue # <<>> /\ 1 \in DOMAIN queue /\ queue \in Seq(Job)
      /\ UNCHANGED <<hostVars, acct, login>> /\ OpIsAwaited
      /\ DOMAIN queue = 1 .. Len(queue) /\ Len(queue) \in Nat
      /\ \A i \in DOMAIN queue : queue[i] \in Job
      /\ DeletesComeFirst /\ NewIsPending /\ HomelessIsError
  BY HeldIsJob, ElementOfSeq, LenProperties
     DEF IInv, TypeOK, HeadIsRunning, Claim, CallNothing, Settle, CalmInv, JobsInOrder
<1>1. HostInStep'
  BY <1>0, RequestKeepsStep DEF IInv, CalmInv
<1>2. \A a : LoginsOf(a)' = LoginsOf(a)
  BY <1>0 DEF LoginsOf, Exists
<1>3. OpIsAwaited'
  BY <1>0 DEF OpIsAwaited, hostVars, Claim, CallNothing, Settle
<1>h. ASSUME \A j \in DOMAIN queue, a \in Account :
               FindsOut(j, a) /\ acct[a].status # "gone" =>
                 \E k \in DOMAIN queue' : FindsOut(k, a)'
      PROVE  HomelessIsError'
  <2> SUFFICES ASSUME NEW a \in Account, ~HasUser(a)', ~AccountOp(a)',
                      acct[a].status \in {"active", "disabled"}
               PROVE  \E j \in DOMAIN queue' : FindsOut(j, a)'
    BY <1>0 DEF HomelessIsError
  <2>1. ~HasUser(a) /\ ~AccountOp(a)
    BY <1>0 DEF hostVars, HasUser, AccountOp
  <2> QED BY <1>0, <1>h, <2>1 DEF HomelessIsError
<1>n. ASSUME \A k \in DOMAIN queue' : queue'[k].state = "new" =>
               \E j \in DOMAIN queue : /\ queue[j].kind = queue'[k].kind
                                       /\ queue[j].acct = queue'[k].acct
                                       /\ queue[j].state = "new"
      PROVE  NewIsPending'
  BY <1>0, <1>n DEF NewIsPending
(* The head is claimed, aged or requeued where it is. *)
<1>4. ASSUME DOMAIN queue' = DOMAIN queue,
             \A k \in DOMAIN queue' : /\ queue'[k].kind = queue[k].kind
                                      /\ queue'[k].acct = queue[k].acct
                                      /\ queue'[k].state = "new" => queue[k].state = "new",
             CallNothing \/ pc' # "handled"
      PROVE  CalmInv'
  <2>1. DeletesComeFirst'
    BY <1>0, <1>2, <1>4, OrderKeptInPlace
  <2>2. NewIsPending'
    BY <1>4, <1>n
  <2>3. ASSUME NEW j \in DOMAIN queue, NEW a \in Account, FindsOut(j, a), acct[a].status # "gone"
        PROVE  FindsOut(j, a)'
    <3>1. CASE CallNothing
      <4>1. queue[1].acct # a
        BY <2>3, <3>1 DEF CallNothing, held
      <4>2. j # 1
        BY <2>3, <4>1 DEF FindsOut, IsJob
      <4> QED BY <1>0, <1>4, <2>3, <4>2 DEF FindsOut, IsJob
    <3>2. CASE pc' # "handled"
      BY <1>4, <2>3, <3>2 DEF FindsOut, IsJob
    <3> QED BY <1>4, <3>1, <3>2
  <2>4. HomelessIsError'
    BY <1>4, <1>h, <2>3
  <2> QED BY <1>1, <1>3, <2>1, <2>2, <2>4 DEF CalmInv, JobsInOrder
<1>5. CASE Claim
  <2> DEFINE t == [queue EXCEPT ![1].state = "running", ![1].tries = @ + 1]
  <2>1. /\ DOMAIN t = DOMAIN queue
        /\ \A k \in DOMAIN t : /\ t[k].kind = queue[k].kind /\ t[k].acct = queue[k].acct
                               /\ t[k].state = "new" => queue[k].state = "new"
    BY <1>0 DEF Job
  <2>2. queue' = t /\ pc' # "handled"
    BY <1>5 DEF Claim
  <2> HIDE DEF t
  <2> QED BY <1>4, <2>1, <2>2
<1>6. CASE CallNothing
  BY <1>0, <1>4, <1>6, AgedInPlace DEF CallNothing
<1>7. CASE Settle /\ ~ok /\ held.tries < MaxAttempts
  <2> DEFINE t == [queue EXCEPT ![1].state = "queued"]
  <2>1. /\ DOMAIN t = DOMAIN queue
        /\ \A k \in DOMAIN t : /\ t[k].kind = queue[k].kind /\ t[k].acct = queue[k].acct
                               /\ t[k].state = "new" => queue[k].state = "new"
    BY <1>0 DEF Job
  <2>2. queue' = t /\ pc' # "handled"
    BY <1>7 DEF Settle
  <2> HIDE DEF t
  <2> QED BY <1>4, <2>1, <2>2
<1>8. CASE Settle /\ ~(~ok /\ held.tries < MaxAttempts)
  <2>1. queue' = Tail(queue) /\ pc = "handled" /\ pc' = "idle"
    BY <1>8 DEF Settle
  <2>2. /\ Tail(queue) \in Seq(Job) /\ Len(Tail(queue)) = Len(queue) - 1
        /\ \A k \in 1 .. Len(Tail(queue)) : Tail(queue)[k] = queue[k + 1]
    BY <1>0, HeadTailProperties
  <2>3. DOMAIN queue' = 1 .. Len(queue) - 1
    BY <2>1, <2>2, LenProperties
  <2>4. \A k \in DOMAIN queue' : queue'[k] = queue[k + 1] /\ k + 1 \in DOMAIN queue
    BY <1>0, <2>1, <2>2, <2>3
  <2>5. \A j \in DOMAIN queue \ {1} : j - 1 \in DOMAIN queue' /\ queue'[j - 1] = queue[j]
    <3> SUFFICES ASSUME NEW j \in DOMAIN queue \ {1}
                 PROVE  j - 1 \in DOMAIN queue' /\ queue'[j - 1] = queue[j]
      OBVIOUS
    <3>1. j - 1 \in DOMAIN queue' /\ (j - 1) + 1 = j
      BY <1>0, <2>3
    <3> QED BY <2>4, <3>1
  <2> DEFINE m == [k \in DOMAIN queue' |-> k + 1]
  <2>6. /\ m \in [DOMAIN queue' -> DOMAIN queue]
        /\ \A k \in DOMAIN queue' : m[k] = k + 1
    BY <2>4
  <2>7. \A k, j \in DOMAIN queue' : k < j <=> m[k] < m[j]
    BY <2>3, <2>6
  <2>8. \A j \in DOMAIN queue : j = 1 \/ \E k \in DOMAIN queue' : m[k] = j
    <3>1. \A j \in DOMAIN queue \ {1} : (j - 1) + 1 = j
      BY <1>0
    <3> QED BY <2>5, <2>6, <3>1
  <2> HIDE DEF m
  <2>9. DeletesComeFirst'
    BY <1>0, <1>2, <2>4, <2>6, <2>7, <2>8, OrderKept
  <2>10. NewIsPending'
    BY <1>n, <2>4
  <2>11. ASSUME NEW j \in DOMAIN queue, NEW a \in Account, FindsOut(j, a)
         PROVE  \E k \in DOMAIN queue' : FindsOut(k, a)'
    <3>1. j # 1
      BY <1>0, <2>1, <2>11 DEF FindsOut
    <3>2. j - 1 \in DOMAIN queue' /\ FindsOut(j - 1, a)'
      BY <2>1, <2>5, <2>11, <3>1 DEF FindsOut, IsJob
    <3> QED BY <3>2
  <2>12. HomelessIsError'
    BY <1>h, <2>11
  <2> QED BY <1>1, <1>3, <2>9, <2>10, <2>12 DEF CalmInv, JobsInOrder
<1> QED BY <1>5, <1>6, <1>7, <1>8

LEMMA CallKeepsCalm ==
  ASSUME IInv, CalmInv, Call PROVE CalmInv'
<1>1. /\ op.at = "off" /\ pc' = "calling" /\ held.kind \in Kinds
      /\ UNCHANGED <<home, file, pdb, sessions, acct, login, queue>>
      /\ op'.doing = held.kind /\ op'.acct = held.acct /\ op'.at = "begin"
      /\ ~op'.failed
  BY HeldIsJob DEF IInv, HeadIsRunning, Call, Begin
<1>2. \A l : /\ RowEntry(l)' = RowEntry(l) /\ RowLine(l)' = RowLine(l) /\ Exists(l)' = Exists(l)
  BY <1>1 DEF RowEntry, RowLine, Exists
<1>3. \A a : LoginsOf(a)' = LoginsOf(a)
  BY <1>1, <1>2 DEF LoginsOf
<1>4. OpIsAwaited'
  BY <1>1 DEF OpIsAwaited, held
<1>5. JobsInOrder'
  BY <1>1, <1>3 DEF CalmInv, JobsInOrder, NewIsPending, DeletesComeFirst, IsJob
<1>6. HomelessIsError'
  BY <1>1 DEF CalmInv, HomelessIsError, FindsOut, IsJob, AccountOp, HasUser
<1>7. ActiveIsFiled' /\ FilesAreWhole'
  BY <1>1, <1>2 DEF CalmInv, HostInStep, ActiveIsFiled, FilesAreWhole
<1>8. ChangeProgress'
  BY <1>1 DEF ChangeProgress, Suspends, Resumes, Compiles
<1>9. ShownIsServed'
  BY <1>1, <1>2, <1>3
     DEF CalmInv, HostInStep, ShownIsServed, HasUser, AccountOp, Closed, Served, NoTrace
<1> QED BY <1>4, <1>5, <1>6, <1>7, <1>8, <1>9 DEF CalmInv, HostInStep

(* What the handler of a change of an account finds when it has succeeded, *)
(* and what it then shows.                                                 *)
LEMMA ActionShows ==
  ASSUME IInv, TraceInv, GoneInv, CalmInv, Handle, HandleAction
  PROVE  LET a == held.acct
         IN /\ a \in Account /\ acct'[a].enabled = acct[a].enabled
            /\ \A b \in Account : b # a => acct'[b] = acct[b]
            /\ acct'[a].status = "active" /\ HasUser(a) =>
                 /\ home[a] = "open" /\ ~file[a].suspended /\ Lines(a) \subseteq pdb
            /\ acct'[a].status = "disabled" /\ HasUser(a) =>
                 /\ home[a] = "closed" /\ NoTrace(a)
                 /\ file[a].there => file[a].suspended
            /\ acct'[a].status \in {"active", "disabled"} /\ ~HasUser(a) =>
                 \E j \in DOMAIN queue : j > 1 /\ IsJob(j, "enable", a)
<1> DEFINE a == held.acct
<1>1. /\ pc = "calling" /\ op.at = "end" /\ op.acct = a /\ held.kind # "sync"
      /\ queue # <<>> /\ TypeOK /\ acct \in [Account -> AccountRow]
      /\ op.doing = held.kind \/ (held.kind = "enable" /\ op.doing = "undo")
      /\ ChangeProgress /\ DeleteProgress /\ DeletesComeFirst
  BY DEF Handle, HandleAction, TraceInv, OpIsHeld, CalmInv, OpIsAwaited, HostInStep, GoneInv,
         JobsInOrder, IInv, HeadIsRunning, TypeOK
<1>2. a \in Account /\ 1 \in DOMAIN queue /\ held.kind \in Kinds
  BY <1>1, HeldIsJob
<1> DEFINE becomes(s) == acct' = [acct EXCEPT ![a].status = s]
<1>3. ASSUME NEW s \in {"error", "gone", "active", "disabled"}, becomes(s)
      PROVE  /\ acct'[a].enabled = acct[a].enabled /\ acct'[a].status = s
             /\ \A b \in Account : b # a => acct'[b] = acct[b]
  BY <1>1, <1>2, <1>3 DEF AccountRow
<1>4. \/ becomes("error") \/ becomes("gone")
      \/ ~op.failed /\ held.kind = "delete" /\ acct' = acct /\ LoginsOf(a) # {}
      \/ ~op.failed /\ held.kind = "enable" /\ becomes("active")
      \/ ~op.failed /\ held.kind = "disable" /\ becomes("disabled")
  BY DEF HandleAction
<1> HIDE DEF becomes, a
<1>5. CASE becomes("error") \/ becomes("gone")
  BY <1>2, <1>3, <1>5 DEF a
<1>6. CASE ~op.failed /\ held.kind = "delete" /\ acct' = acct /\ LoginsOf(a) # {}
  <2>1. home[a] = "quarantined"
    BY <1>1, <1>6 DEF DeleteProgress
  <2>2. IsJob(1, "delete", a)
    BY <1>6 DEF IsJob, held, a
  <2>3. \E j \in DOMAIN queue : j > 1 /\ IsJob(j, "enable", a)
    BY <1>1, <1>2, <1>6, <2>2 DEF DeletesComeFirst
  <2> QED BY <1>2, <1>6, <2>1, <2>3 DEF HasUser, a
<1>7. CASE ~op.failed /\ held.kind = "enable" /\ becomes("active")
  <2>1. home[a] = "open" /\ ~file[a].suspended /\ Lines(a) \subseteq pdb
    BY <1>1, <1>7 DEF ChangeProgress, Resumes, Compiles
  <2> QED BY <1>2, <1>3, <1>7, <2>1 DEF HasUser, a
<1>8. CASE ~op.failed /\ held.kind = "disable" /\ becomes("disabled")
  <2>1. /\ home[a] = "closed" /\ NoTrace(a)
        /\ file[a].there => file[a].suspended
    BY <1>1, <1>8 DEF ChangeProgress, Suspends, NoTrace
  <2> QED BY <1>2, <1>3, <1>8, <2>1 DEF HasUser, a
<1> QED BY <1>4, <1>5, <1>6, <1>7, <1>8

(* What the end of a synchronization makes of the logins. *)
LEMMA SyncShows ==
  ASSUME IInv, TraceInv, CalmInv, Handle, HandleSync
  PROVE  /\ acct' = acct /\ held.acct \in Account
         /\ \A l \in Login : Exists(l)' => Exists(l)
         /\ \A l \in Login : /\ login'[l].acct = login[l].acct
                             /\ l \in LoginsOf(held.acct) \/ login'[l] = login[l]
         /\ \A l \in LoginsOf(held.acct) : login'[l].status = "active" =>
              /\ ~login'[l].deleting
              /\ RowEntry(l)' \in file[held.acct].entries
              /\ file[held.acct].suspended \/ RowLine(l)' \in pdb
<1>1. /\ pc = "calling" /\ op.at = "end" /\ op.acct = held.acct /\ op.doing = "sync"
      /\ login \in [Login -> LoginRow] /\ queue # <<>> /\ TypeOK
      /\ SyncProgress /\ ChangeProgress
      /\ op.entries = Snapshot(held.acct)
  BY DEF Handle, HandleSync, TraceInv, OpIsHeld, CalmInv, HostInStep,
         IInv, HeadIsRunning, TypeOK, SnapshotIsCurrent
<1>2. /\ acct' = acct /\ held.acct \in Account
      /\ login' = [l \in Login |-> IF l \in LoginsOf(held.acct) THEN Finished(l, op.failed)
                                                                 ELSE login[l]]
  BY <1>1, HeldIsJob DEF HandleSync, FinishFTP
<1>3. ASSUME NEW l \in Login
      PROVE  /\ Finished(l, op.failed).acct = login[l].acct
             /\ Finished(l, op.failed).name = login[l].name
             /\ Finished(l, op.failed).pw = login[l].pw
             /\ Finished(l, op.failed).deleting = login[l].deleting
             /\ Finished(l, op.failed).status = "active" =>
                  ~op.failed /\ ~login[l].deleting /\ login[l].enabled = TRUE
  BY <1>1 DEF Finished, LoginRow
<1>4. \A l \in LoginsOf(held.acct) : l \in Login /\ Exists(l) /\ login[l].acct = held.acct
  BY DEF LoginsOf
<1>5. ASSUME NEW l \in LoginsOf(held.acct), login'[l].status = "active"
      PROVE  /\ ~login'[l].deleting
             /\ RowEntry(l)' \in file[held.acct].entries
             /\ file[held.acct].suspended \/ RowLine(l)' \in pdb
  <2>1. /\ ~op.failed /\ ~login[l].deleting /\ login[l].enabled = TRUE
        /\ login'[l].acct = held.acct /\ login'[l].name = login[l].name
        /\ login'[l].pw = login[l].pw /\ login'[l].deleting = login[l].deleting
    BY <1>2, <1>3, <1>4, <1>5
  <2>2. RowEntry(l)' \in Snapshot(held.acct)
    BY <2>1 DEF Snapshot, RowEntry
  <2>3. file[held.acct].entries = Snapshot(held.acct)
    BY <1>1, <2>1 DEF SyncProgress
  <2>4. RowLine(l)' \in Lines(held.acct)
    BY <2>1, <2>2, <2>3 DEF RowLine, RowEntry, Lines
  <2>5. file[held.acct].suspended \/ Lines(held.acct) \subseteq pdb
    BY <1>1, <2>1 DEF ChangeProgress, Compiles
  <2> QED BY <2>1, <2>2, <2>3, <2>4, <2>5
<1> QED BY <1>2, <1>3, <1>4, <1>5 DEF Exists

LEMMA HandleKeepsCalm ==
  ASSUME IInv, TraceInv, GoneInv, CalmInv, Handle PROVE CalmInv'
<1>0. /\ TypeOK /\ queue # <<>> /\ pc = "calling" /\ op.at = "end" /\ op.acct = held.acct
      /\ UNCHANGED <<home, file, pdb, sessions>> /\ op' = NoOp /\ pc' = "handled" /\ Age
      /\ op.doing = held.kind \/ (held.kind = "enable" /\ op.doing = "undo")
      /\ DeletesComeFirst /\ HomelessIsError /\ HostInStep
      /\ HandleSync \/ HandleAction
      /\ held.acct \in Account /\ 1 \in DOMAIN queue
  BY HeldIsJob DEF IInv, HeadIsRunning, Handle, CalmInv, JobsInOrder, OpIsAwaited, TraceInv,
                   OpIsHeld
<1>1. /\ DOMAIN queue' = DOMAIN queue
      /\ \A k \in DOMAIN queue' : /\ queue'[k].kind = queue[k].kind
                                  /\ queue'[k].acct = queue[k].acct
                                  /\ queue'[k].state # "new"
  BY <1>0, AgedInPlace
<1>2. \A k, kind, a : k \in DOMAIN queue => (IsJob(k, kind, a)' <=> IsJob(k, kind, a))
  BY <1>1 DEF IsJob
<1>3. OpIsAwaited'
  BY <1>0 DEF OpIsAwaited, NoOp
<1>4. NewIsPending'
  BY <1>1 DEF NewIsPending
<1>5. HandleAction => login' = login
  BY DEF HandleAction
<1>6. \A a : LoginsOf(a)' \subseteq LoginsOf(a)
  <2>1. CASE HandleSync
    BY <2>1, SyncShows DEF LoginsOf
  <2>2. CASE HandleAction
    BY <1>5, <2>2 DEF LoginsOf, Exists
  <2> QED BY <1>0, <2>1, <2>2
<1>7. DeletesComeFirst'
  <2>1. \A a \in Account : acct'[a].enabled = acct[a].enabled
    BY <1>0, SyncShows, ActionShows
  <2>2. ASSUME NEW l \in Login, login'[l].status = "active"
        PROVE  login[l].status = "active" \/ (held.kind = "sync" /\ held.acct = login[l].acct)
    <3>1. CASE HandleSync
      <4>1. l \in LoginsOf(held.acct) \/ login'[l] = login[l]
        BY <3>1, SyncShows
      <4> QED BY <2>2, <3>1, <4>1 DEF LoginsOf, HandleSync
    <3>2. CASE HandleAction
      BY <1>5, <2>2, <3>2
    <3> QED BY <1>0, <3>1, <3>2
  <2> QED BY <1>0, <1>1, <1>6, <2>1, <2>2, OrderKeptInPlace
<1>8. HomelessIsError'
  <2> SUFFICES ASSUME NEW a \in Account, ~HasUser(a)', acct'[a].status \in {"active", "disabled"}
               PROVE  \E j \in DOMAIN queue' : FindsOut(j, a)'
    BY DEF HomelessIsError
  <2>1. ~HasUser(a)
    BY <1>0 DEF HasUser
  <2>2. CASE HandleAction /\ a = held.acct
    <3>1. \E j \in DOMAIN queue : j > 1 /\ IsJob(j, "enable", a)
      BY <2>1, <2>2, ActionShows
    <3> QED BY <1>1, <1>2, <3>1 DEF FindsOut
  <2>3. CASE HandleSync \/ a # held.acct
    <3>1. acct'[a] = acct[a]
      BY <1>0, <2>3, SyncShows, ActionShows
    <3>2. ~AccountOp(a)
      BY <1>0, <2>3 DEF AccountOp, HandleSync
    <3>3. PICK j \in DOMAIN queue : FindsOut(j, a)
      BY <1>0, <2>1, <3>1, <3>2 DEF HomelessIsError
    <3>4. j # 1
      BY <1>0, <2>3, <3>3 DEF FindsOut, IsJob, held, HandleSync
    <3>5. j > 1
      <4>1. DOMAIN queue \subseteq Nat \ {0}
        BY <1>0, LenProperties DEF TypeOK
      <4> QED BY <3>4, <4>1
    <3> QED BY <1>1, <1>2, <3>3, <3>5 DEF FindsOut
  <2> QED BY <1>0, <2>2, <2>3
<1>9. ActiveIsFiled'
  <2> SUFFICES ASSUME NEW l \in Login, login'[l].status = "active"
               PROVE  ~login'[l].deleting /\ RowEntry(l)' \in file[login'[l].acct].entries
    BY <1>0 DEF ActiveIsFiled, NoOp
  <2>1. CASE login'[l] = login[l]
    BY <1>0, <2>1 DEF HostInStep, ActiveIsFiled, RowEntry
  <2>2. CASE HandleSync /\ l \in LoginsOf(held.acct)
    BY <2>2, SyncShows DEF LoginsOf
  <2> QED BY <1>0, <1>5, <2>1, <2>2, SyncShows
<1>10. FilesAreWhole' /\ ChangeProgress'
  BY <1>0 DEF HostInStep, FilesAreWhole, ChangeProgress, Suspends, Resumes, Compiles, NoOp
<1>11. ShownIsServed'
  <2> SUFFICES ASSUME NEW a \in Account, HasUser(a)
               PROVE  /\ acct'[a].status = "disabled" => Closed(a)'
                      /\ acct'[a].status = "active" => Served(a)'
    BY <1>0 DEF ShownIsServed, HasUser
  <2>1. Closed(a)' <=> /\ home[a] = "closed" /\ NoTrace(a)
                       /\ file[a].there => file[a].suspended
    BY <1>0 DEF Closed, NoTrace, NoOp
  <2>2. Served(a)' <=> /\ home[a] = "open" /\ ~file[a].suspended
                       /\ \A l \in LoginsOf(a)' : login'[l].status = "active" => RowLine(l)' \in pdb
    BY <1>0 DEF Served, NoOp
  <2>3. CASE HandleAction /\ a = held.acct
    <3>1. ASSUME Lines(a) \subseteq pdb, NEW l \in LoginsOf(a)', login'[l].status = "active"
          PROVE  RowLine(l)' \in pdb
      <4>1. l \in Login /\ login'[l].acct = a
        BY DEF LoginsOf
      <4>2. RowEntry(l)' \in file[a].entries
        BY <1>0, <1>9, <3>1, <4>1 DEF ActiveIsFiled
      <4>3. RowLine(l)' \in Lines(a)
        BY <4>1, <4>2 DEF RowLine, RowEntry, Lines
      <4> QED BY <3>1, <4>3
    <3>2. /\ acct'[a].status = "active" =>
               home[a] = "open" /\ ~file[a].suspended /\ Lines(a) \subseteq pdb
          /\ acct'[a].status = "disabled" =>
               /\ home[a] = "closed" /\ NoTrace(a)
               /\ file[a].there => file[a].suspended
      BY <2>3, ActionShows
    <3> QED BY <2>1, <2>2, <3>1, <3>2
  <2>4. CASE HandleSync \/ a # held.acct
    <3>1. acct'[a] = acct[a]
      BY <1>0, <2>4, SyncShows, ActionShows
    <3>2. ~AccountOp(a)
      BY <1>0, <2>4 DEF AccountOp, HandleSync
    <3>3. /\ acct[a].status = "disabled" => Closed(a)
          /\ acct[a].status = "active" => Served(a)
      BY <1>0, <3>2 DEF HostInStep, ShownIsServed
    <3>4. ASSUME Served(a), NEW l \in LoginsOf(a)', login'[l].status = "active"
          PROVE  RowLine(l)' \in pdb
      <4>1. l \in LoginsOf(a) /\ l \in Login /\ login[l].acct = a
        BY <1>6 DEF LoginsOf
      <4>2. CASE login'[l] = login[l]
        BY <3>4, <4>1, <4>2 DEF Served, RowLine
      <4>3. CASE HandleSync /\ l \in LoginsOf(held.acct)
        <5>1. a = held.acct
          BY <4>1, <4>3 DEF LoginsOf
        <5> QED BY <3>4, <4>3, <5>1, SyncShows DEF Served
      <4> QED BY <1>0, <1>5, <4>1, <4>2, <4>3, SyncShows
    <3> QED BY <2>1, <2>2, <3>1, <3>3, <3>4 DEF Closed, Served
  <2> QED BY <1>0, <2>3, <2>4
<1> QED BY <1>3, <1>4, <1>7, <1>8, <1>9, <1>10, <1>11 DEF CalmInv, JobsInOrder, HostInStep

(* What the panel shows of an account is what its host does: of one shown  *)
(* as disabled the home is closed and no login works, of one shown as      *)
(* active the logins shown as active do work - whatever steps have failed  *)
(* on the host, were retried, or overlap with the account's other jobs -   *)
(* as long as the server has not died and every handler has been able to   *)
(* store how its job ended (accounts/service.go, ftp/service.go).          *)
THEOREM AccountsServeAsShown == Spec => [](mishaps = 0 => AccountServesAsShown)
<1>1. Init => CalmSoFar
  <2> SUFFICES ASSUME Init PROVE CalmInv
    BY DEF CalmSoFar
  <2>1. queue = <<>> /\ DOMAIN queue = {} /\ pc = "idle" /\ op = NoOp
    BY EmptySeq DEF Init, HostInit
  <2>2. OpIsAwaited /\ JobsInOrder
    BY <2>1 DEF OpIsAwaited, JobsInOrder, NewIsPending, DeletesComeFirst, NoOp
  <2>3. HomelessIsError
    BY DEF Init, HostInit, HomelessIsError, HasUser
  <2>4. HostInStep
    BY <2>1 DEF Init, HostInit, NoFile, NoOp, HostInStep, ActiveIsFiled, FilesAreWhole,
                ChangeProgress, Suspends, Resumes, Compiles, ShownIsServed, Served, LoginsOf
  <2> QED BY <2>2, <2>3, <2>4 DEF CalmInv
<1>2. IInv /\ TraceInv /\ StatusFits /\ GoneInv /\ CalmSoFar /\ [Next]_vars => CalmSoFar'
  <2> SUFFICES ASSUME IInv, TraceInv, StatusFits, GoneInv, CalmSoFar,
                      [Next]_vars, mishaps' = 0
               PROVE  CalmInv'
    BY DEF CalmSoFar
  <2>1. mishaps \in Nat
    BY FtpAccessAssumption DEF IInv, TypeOK
  <2>2. mishaps = 0 /\ ~HandleUnsaved /\ ~Crash
    <3>1. ~HandleUnsaved /\ ~Crash
      BY <2>1 DEF HandleUnsaved, Crash
    <3>2. mishaps' = mishaps
      BY <3>1 DEF Next, Request, WorkerStep, CreateFTP, UpdateFTP, DeleteFTP, AccountAction,
                  Claim, Call, CallNothing, Handle, Settle, Orphaned, Restart, panel, vars
    <3> QED BY <3>1, <3>2
  <2>3. CalmInv
    BY <2>2 DEF CalmSoFar
  <2>4. ~Restart /\ ~Orphaned
    BY <2>3 DEF Restart, Orphaned, CalmInv, OpIsAwaited
  <2>5. CASE UNCHANGED vars
    <3>1. UNCHANGED <<home, file, pdb, sessions, op, acct, login, queue, pc>>
      BY <2>5 DEF vars, hostVars, panel
    <3>2. \A l : RowEntry(l)' = RowEntry(l) /\ RowLine(l)' = RowLine(l) /\ Exists(l)' = Exists(l)
      BY <3>1 DEF RowEntry, RowLine, Exists
    <3>3. \A a : LoginsOf(a)' = LoginsOf(a) /\ Closed(a)' = Closed(a) /\ Served(a)' = Served(a)
      BY <3>1, <3>2 DEF LoginsOf, Closed, Served, NoTrace
    <3>4. HostInStep'
      BY <2>3, <3>1, <3>2, <3>3
         DEF CalmInv, HostInStep, ActiveIsFiled, FilesAreWhole, ChangeProgress, Suspends,
             Resumes, Compiles, Lines, ShownIsServed, HasUser, AccountOp
    <3>5. OpIsAwaited' /\ JobsInOrder' /\ HomelessIsError'
      BY <2>3, <3>1, <3>3
         DEF CalmInv, OpIsAwaited, held, JobsInOrder, NewIsPending, DeletesComeFirst, IsJob,
             HomelessIsError, FindsOut, HasUser, AccountOp
    <3> QED BY <3>4, <3>5 DEF CalmInv
  <2> QED BY <2>2, <2>3, <2>4, <2>5, HostKeepsCalm, RequestKeepsCalm, OthersKeepCalm,
             CallKeepsCalm, HandleKeepsCalm DEF Next, WorkerStep
<1>3. IInv /\ TraceInv /\ CalmSoFar => (mishaps = 0 => AccountServesAsShown)
  <2> SUFFICES ASSUME IInv, TraceInv, CalmInv, NEW a \in Account, ~AccountBusy(a)
               PROVE  /\ acct[a].status = "disabled" => home[a] = "closed" /\ OfAcct(a) = {}
                      /\ acct[a].status = "active" =>
                           \A l \in LoginsOf(a) : login[l].status = "active" => RowLine(l) \in pdb
    BY DEF CalmSoFar, AccountServesAsShown
  <2>1. \A j \in DOMAIN queue : queue[j].acct = a =>
          queue[j].kind \notin {"enable", "disable", "delete"}
    BY DEF AccountBusy, JobsOf
  <2>2. ~AccountOp(a)
    <3> SUFFICES ASSUME AccountOp(a) PROVE FALSE
      OBVIOUS
    <3>1. /\ pc = "calling" /\ held.acct = a /\ queue # <<>> /\ TypeOK
          /\ op.doing = held.kind \/ held.kind = "enable"
      BY DEF AccountOp, CalmInv, OpIsAwaited, TraceInv, OpIsHeld, IInv, HeadIsRunning
    <3>2. 1 \in DOMAIN queue /\ held.kind \in Kinds
      BY <3>1, HeldIsJob
    <3>3. held.kind = "sync"
      BY <2>1, <3>1, <3>2 DEF held
    <3> QED BY <3>1, <3>3 DEF AccountOp
  <2>3. acct[a].status \in {"active", "disabled"} => HasUser(a)
    BY <2>1, <2>2 DEF CalmInv, HomelessIsError, FindsOut, IsJob
  <2> QED BY <2>2, <2>3 DEF CalmInv, HostInStep, ShownIsServed, Closed, Served, NoTrace, OfAcct
<1>4. Spec => [](RowsFit /\ StatusFits)
  BY LoginsFitRows
<1> QED BY <1>1, <1>2, <1>3, <1>4, Invariance, TraceInvariance, GoneInvariance, PTL DEF Spec
===============================================================================
