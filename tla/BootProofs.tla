----------------------------- MODULE BootProofs -----------------------------
(* The promises of module Boot, for any number of processes, migrations and   *)
(* signals: who has the lock, what is migrated, and which backup is kept.     *)
EXTENDS Boot, FiniteSetTheorems, SequenceTheorems, TLAPS

-----------------------------------------------------------------------------
(* The lock                                                                   *)

\* As long as no live process lost it, the lock is that of the one process that has
\* got it and not yet removed it.
OwnerHasLock ==
  stolen \/ \A p \in Proc : Alive(p) /\ (pc[p] = "locked" \/ rel[p] \in {"set", "started"})
                              => lock = p

\* The database is open between the assignment of release and its call.
OpenWhileSet == \A p \in Proc : db[p] => Alive(p) /\ rel[p] = "set"

\* Before the lock is returned there is no release, and nothing is committed.
Early == {"off", "lock", "locked"}
UnsetEarly == \A p \in Proc : pc[p] \in Early => rel[p] = "unset" /\ done[p] = {}

LockInv == OwnerHasLock /\ OpenWhileSet /\ UnsetEarly

\* Outside boot's catch it is a shutdown that calls release.
Busy == {"backup", "apply", "up", "init", "bind", "ready"}
StartedBySignal == \A p \in Proc : rel[p] = "started" /\ pc[p] \in Busy => signals[p] > 0
ClosingSignalled == \A p \in Proc : closing[p] <= signals[p]

\* What a process that has ended leaves behind, in the words of LockLeftOnlyInHaste.
RemovedIsGone == \A p \in Proc : rel[p] = "removed" => lock # p

HasteInv == LockLeftOnlyInHaste /\ StartedBySignal /\ RemovedIsGone

-----------------------------------------------------------------------------
(* The migrations                                                             *)

\* The rows are those of the first files.
AppliedPrefix == \E a \in 0..Files : applied = 1..a

\* What is pending is a tail of the files, and the files before it have rows. Whoever
\* is in a file's up has that file pending.
Migrating == {"backup", "apply", "up"}
From(k) == [i \in 1..(Files - k) |-> k + i]
PendingTail == \A p \in Proc : pc[p] \in Migrating =>
  \E k \in 0..Files : /\ pending[p] = From(k) /\ 1..k \subseteq applied
                      /\ pc[p] = "up" => k # Files

\* Who is past its migrations found none left, and only then is there a listener.
PastMigrations == \A p \in Proc :
  pc[p] \in {"init", "bind", "ready"} \/ listener[p] => applied = 1..Files

\* Who is going to commit next has a backup that lacks its own commits only.
NextUndoable == \A p \in Proc :
  /\ pc[p] \in {"apply", "up"} /\ pending[p] # <<>> /\ Head(pending[p]) \notin applied
  => base[p] \cup done[p] = applied /\ base[p] \in ToSet(backups)

\* Closing the listener, and with it the database, takes a listener, which takes the
\* end of the migrations: while .sql migrations are applied the database is open.
ListenerLast == \A p \in Proc : listener[p] \/ closing[p] > 0 => pc[p] \in {"ready", "gone"}
OpenToApply == \A p \in Proc : pc[p] = "apply" => db[p]

\* The newest backup is that of the process that has the database open.
NewestIsOwn == stolen \/ \A p \in Proc :
  db[p] /\ (pc[p] \in {"apply", "up"} \/ done[p] # {})
    => backups # <<>> /\ backups[Len(backups)] = base[p]

FileInv == TypeOK /\ ClosingSignalled /\ AppliedPrefix /\ PendingTail
ServeInv == PastMigrations /\ ListenerLast /\ OpenToApply

\* Who has not got its backup has committed nothing.
DoneAfterBackup == \A p \in Proc : pc[p] \in Early \cup {"backup"} => done[p] = {}

BackupInv == NextUndoable /\ NewestIsOwn /\ DoneAfterBackup

-----------------------------------------------------------------------------
(* What is pending                                                            *)

\* If the rows are those of the first a files, the others are pending in order.
LEMMA UnappliedTail ==
  ASSUME NEW a \in 0..Files, applied = 1..a
  PROVE  Unapplied = From(a)
<1> USE BootAssumption
<1>1. (1..Files) \ applied = (a + 1)..Files
  OBVIOUS
<1>2. Cardinality((a + 1)..Files) = Files - a
  BY FS_Interval
<1>3. ASSUME NEW i \in 1..(Files - a)
      PROVE  (CHOOSE f \in (a + 1)..Files :
                Cardinality({g \in (a + 1)..Files : g < f}) = i - 1) = a + i
  <2>1. ASSUME NEW f \in (a + 1)..Files
        PROVE  Cardinality({g \in (a + 1)..Files : g < f}) = f - a - 1
    <3>1. {g \in (a + 1)..Files : g < f} = (a + 1)..(f - 1)
      OBVIOUS
    <3>2. Cardinality((a + 1)..(f - 1)) = f - a - 1
      BY FS_Interval
    <3> QED BY <3>1, <3>2
  <2>2. a + i \in (a + 1)..Files
    OBVIOUS
  <2>3. \A f \in (a + 1)..Files :
          Cardinality({g \in (a + 1)..Files : g < f}) = i - 1 <=> f = a + i
    BY <2>1
  <2> QED BY <2>2, <2>3
<1> DEFINE Pending(S) == [i \in 1..Cardinality(S) |->
                             CHOOSE f \in S : Cardinality({g \in S : g < f}) = i - 1]
<1>4. Unapplied = Pending((1..Files) \ applied)
  BY DEF Unapplied
<1> HIDE DEF Pending
<1>5. Unapplied = Pending((a + 1)..Files)
  BY <1>1, <1>4
<1> QED
  BY <1>2, <1>3, <1>5 DEF From, Pending

\* A tail of the files is a sequence of files; its head and tail are what they seem.
LEMMA TailOfFiles ==
  ASSUME NEW k \in 0..Files
  PROVE  /\ From(k) \in Seq(1..Files)
         /\ From(k) = <<>> <=> k = Files
         /\ k # Files => Head(From(k)) = k + 1 /\ Tail(From(k)) = From(k + 1)
<1> USE BootAssumption
<1>1. From(k) \in Seq(1..Files) /\ Len(From(k)) = Files - k
  BY DEF From
<1>2. From(k) = <<>> <=> k = Files
  BY <1>1
<1>3. ASSUME k # Files PROVE Head(From(k)) = k + 1 /\ Tail(From(k)) = From(k + 1)
  <2>1. Head(From(k)) = k + 1
    BY <1>1, <1>3 DEF From
  <2>2. /\ Tail(From(k)) \in Seq(1..Files) /\ Len(Tail(From(k))) = Files - (k + 1)
        /\ \A i \in 1..(Files - (k + 1)) : Tail(From(k))[i] = From(k)[i + 1]
    BY <1>1, <1>2, <1>3
  <2>3. /\ From(k + 1) \in Seq(1..Files) /\ Len(From(k + 1)) = Files - (k + 1)
        /\ \A i \in 1..(Files - (k + 1)) : From(k + 1)[i] = From(k)[i + 1]
    BY <1>3 DEF From
  <2>4. \A i \in 1..(Files - (k + 1)) : Tail(From(k))[i] = From(k + 1)[i]
    BY <2>2, <2>3
  <2>5. Tail(From(k)) = From(k + 1)
    BY <2>2, <2>3, <2>4, SeqEqual
  <2> QED BY <2>1, <2>5
<1> QED
  BY <1>1, <1>2, <1>3

-----------------------------------------------------------------------------
(* Types, and what is applied                                                 *)

\* They hold before any process starts.
LEMMA FileInit == Init => FileInv
<1> SUFFICES ASSUME Init PROVE FileInv
  OBVIOUS
<1> USE BootAssumption
<1>1. TypeOK
  <2> USE DEF Init
  <2>1. lock \in Proc \cup {None} /\ stale \in BOOLEAN /\ applied \subseteq 1..Files
    OBVIOUS
  <2>2. /\ backups \in Seq(SUBSET (1..Files)) /\ pending \in [Proc -> Seq(1..Files)]
        /\ base \in [Proc -> SUBSET (1..Files)] /\ done \in [Proc -> SUBSET (1..Files)]
    OBVIOUS
  <2>3. pc \in [Proc -> Awaits \cup {"off", "apply", "gone"}]
    OBVIOUS
  <2>4. db \in [Proc -> BOOLEAN] /\ listener \in [Proc -> BOOLEAN] /\ stolen \in BOOLEAN
    OBVIOUS
  <2>5. rel \in [Proc -> {"unset", "set", "started", "removed"}]
    OBVIOUS
  <2>6. status \in [Proc -> {0, 1, Killed}]
    OBVIOUS
  <2>7. closing \in [Proc -> 0..MaxSignals] /\ signals \in [Proc -> 0..MaxSignals]
    OBVIOUS
  <2> QED BY <2>1, <2>2, <2>3, <2>4, <2>5, <2>6, <2>7 DEF TypeOK
<1>2. AppliedPrefix
  <2>1. applied = 1..0
    BY DEF Init
  <2> QED BY <2>1 DEF AppliedPrefix
<1>3. PendingTail
  BY DEF Init, PendingTail, Migrating
<1>4. ClosingSignalled
  BY DEF Init, ClosingSignalled
<1> QED
  BY <1>1, <1>2, <1>3, <1>4 DEF FileInv

\* A process that ends, or releases the lock, touches only what is its own, and the
\* lock if it began to remove it.
LEMMA EndType ==
  ASSUME TypeOK, NEW p \in Proc, NEW s \in {0, 1, Killed}, NEW m \in Awaits \cup {"off", "apply", "gone"},
         (Exit(p, s) /\ UNCHANGED rel) \/ ReleaseThenExit(p, s, m)
  PROVE  /\ lock' \in Proc \cup {None} /\ pc' \in [Proc -> Awaits \cup {"off", "apply", "gone"}]
         /\ db' \in [Proc -> BOOLEAN] /\ listener' \in [Proc -> BOOLEAN]
         /\ rel' \in [Proc -> {"unset", "set", "started", "removed"}]
         /\ status' \in [Proc -> {0, 1, Killed}]
         /\ \E q \in {m, "gone"} : pc' = [pc EXCEPT ![p] = q]
<1> USE DEF Exit, ReleaseThenExit, Goto, CloseDb, TypeOK
<1>1. lock' \in Proc \cup {None}
  OBVIOUS
<1>2. pc' \in [Proc -> Awaits \cup {"off", "apply", "gone"}]
  BY ZenonT(60)
<1>3. db' \in [Proc -> BOOLEAN]
  OBVIOUS
<1>4. listener' \in [Proc -> BOOLEAN]
  OBVIOUS
<1>5. rel' \in [Proc -> {"unset", "set", "started", "removed"}]
  OBVIOUS
<1>6. status' \in [Proc -> {0, 1, Killed}]
  OBVIOUS
<1>7. \E q \in {m, "gone"} : pc' = [pc EXCEPT ![p] = q]
  OBVIOUS
<1> QED BY <1>1, <1>2, <1>3, <1>4, <1>5, <1>6, <1>7

\* A file is committed in its turn: the rows are then those of the files up to it.
LEMMA CommitNext ==
  ASSUME FileInv, NEW p \in Proc, pc[p] \in {"apply", "up"}, pending[p] # <<>>, Commit(p)
  PROVE  \E k \in 0..(Files - 1) :
           /\ pending[p] = From(k) /\ applied = 1..k
           /\ applied' = 1..(k + 1)
           /\ pending' = [pending EXCEPT ![p] = From(k + 1)]
<1> USE BootAssumption
<1>1. PICK k \in 0..Files : pending[p] = From(k) /\ 1..k \subseteq applied
  BY DEF FileInv, PendingTail, Migrating
<1>2. PICK a \in 0..Files : applied = 1..a
  BY DEF FileInv, AppliedPrefix
<1>3. k # Files /\ Head(pending[p]) = k + 1 /\ Tail(pending[p]) = From(k + 1)
  BY <1>1, TailOfFiles
<1>4. k + 1 \notin applied
  BY <1>3 DEF Commit
<1>5. a = k
  BY <1>1, <1>2, <1>4
<1>6. applied' = applied \cup {k + 1} /\ pending' = [pending EXCEPT ![p] = From(k + 1)]
  BY <1>3 DEF Commit
<1>7. k \in 0..(Files - 1) /\ applied' = 1..(k + 1)
  BY <1>2, <1>3, <1>5, <1>6
<1> QED BY <1>1, <1>2, <1>5, <1>6, <1>7

\* Whoever commits has something pending.
LEMMA CommitPending ==
  ASSUME FileInv, NEW p \in Proc, (ApplySql(p) \/ EndTs(p)), Commit(p)
  PROVE  pc[p] \in {"apply", "up"} /\ pending[p] # <<>>
<1>1. CASE ApplySql(p)
  BY <1>1 DEF ApplySql, Begins
<1>2. CASE EndTs(p)
  <2>1. pc[p] = "up"
    BY <1>2 DEF EndTs
  <2>2. PICK k \in 0..Files : pending[p] = From(k) /\ k # Files
    BY <2>1 DEF FileInv, PendingTail, Migrating
  <2> QED BY <2>1, <2>2, TailOfFiles
<1> QED BY <1>1, <1>2

\* Each step keeps the types: what is left to apply is the end of what there is.
LEMMA TypeStep == FileInv /\ [Next]_vars => TypeOK'
<1> SUFFICES ASSUME FileInv, [Next]_vars PROVE TypeOK'
  OBVIOUS
<1>0. TypeOK
  BY DEF FileInv
<1> USE BootAssumption
\* The process ends, or begins to release the lock.
<1>1. ASSUME NEW p \in Proc, NEW s \in {0, 1, Killed}, NEW m \in Awaits \cup {"off", "apply", "gone"},
             (Exit(p, s) /\ UNCHANGED rel) \/ ReleaseThenExit(p, s, m),
             UNCHANGED <<stale, applied, backups, batch, stolen>>,
             closing' \in [Proc -> 0..MaxSignals], signals' \in [Proc -> 0..MaxSignals]
      PROVE  TypeOK'
  <2>1. UNCHANGED <<stale, applied, backups, pending, base, done, stolen>>
    BY <1>1 DEF batch
  <2>2. /\ lock' \in Proc \cup {None} /\ pc' \in [Proc -> Awaits \cup {"off", "apply", "gone"}]
        /\ db' \in [Proc -> BOOLEAN] /\ listener' \in [Proc -> BOOLEAN]
        /\ rel' \in [Proc -> {"unset", "set", "started", "removed"}]
        /\ status' \in [Proc -> {0, 1, Killed}]
    BY <1>0, <1>1, EndType
  <2> QED BY <1>0, <1>1, <2>1, <2>2 DEF TypeOK
<1>2. ASSUME NEW p \in Proc, Fail(p) PROVE TypeOK'
  BY <1>0, <1>1, <1>2 DEF Fail, Awaits, TypeOK
<1>3. ASSUME NEW p \in Proc, Refused(p) \/ Compromised(p) PROVE TypeOK'
  <2>1. Exit(p, 1) /\ UNCHANGED rel /\ UNCHANGED <<stale, applied, backups, batch, stolen>>
    BY <1>3 DEF Refused, Compromised
  <2>2. UNCHANGED <<closing, signals>>
    BY <1>3 DEF Refused, Compromised
  <2> QED BY <1>0, <1>1, <2>1, <2>2 DEF TypeOK
<1>4. ASSUME NEW p \in Proc, Released(p) PROVE TypeOK'
  <2>1. status[p] \in {0, 1, Killed}
    BY <1>0 DEF TypeOK
  <2> QED BY <1>0, <1>1, <1>4, <2>1 DEF Released, TypeOK
<1>5. ASSUME NEW p \in Proc, CloseAndRelease(p),
             closing' \in [Proc -> 0..MaxSignals], signals' \in [Proc -> 0..MaxSignals]
      PROVE  TypeOK'
  BY <1>0, <1>1, <1>5 DEF CloseAndRelease, ShutdownStatus, TypeOK
\* A file is committed, or what it does fails.
<1>6. ASSUME NEW p \in Proc, (ApplySql(p) \/ EndTs(p)), Commit(p) PROVE TypeOK'
  <2>1. PICK k \in 0..(Files - 1) : /\ pending[p] = From(k) /\ applied' = 1..(k + 1)
                                    /\ pending' = [pending EXCEPT ![p] = From(k + 1)]
    BY <1>6, CommitPending, CommitNext
  <2>2. From(k + 1) \in Seq(1..Files) /\ Head(pending[p]) = k + 1
    BY <2>1, TailOfFiles
  <2>3. applied' \subseteq 1..Files /\ pending' \in [Proc -> Seq(1..Files)]
    BY <1>0, <2>1, <2>2 DEF TypeOK
  <2>4. done' \in [Proc -> SUBSET (1..Files)]
    BY SMTT(60), <1>0, <1>6, <2>2 DEF Commit, TypeOK
  <2>5. pc' \in [Proc -> Awaits \cup {"off", "apply", "gone"}]
    BY <1>0, <1>6 DEF Commit, Goto, TypeOK
  <2>6. UNCHANGED <<lock, stale, backups, base, db, listener, rel, status, closing, signals, stolen>>
    BY <1>6 DEF Commit
  <2> QED BY <1>0, <2>3, <2>4, <2>5, <2>6 DEF TypeOK
<1>7. ASSUME NEW p \in Proc, (ApplySql(p) \/ EndTs(p)) PROVE TypeOK'
  BY <1>2, <1>6, <1>7 DEF ApplySql, EndTs, Throws
<1>8. ASSUME NEW p \in Proc, Locked(p) PROVE TypeOK'
  <2>1. CASE Open(p)
    <3>1. PICK a \in 0..Files : applied = 1..a
      BY DEF FileInv, AppliedPrefix
    <3>2. Unapplied \in Seq(1..Files)
      BY <3>1, UnappliedTail, TailOfFiles
    <3>3. pending' \in [Proc -> Seq(1..Files)]
      BY <1>0, <2>1, <3>2 DEF Open, TypeOK
    <3>4. db' \in [Proc -> BOOLEAN]
      BY <1>0, <2>1 DEF Open, TypeOK
    <3>5. /\ pc' \in [Proc -> Awaits \cup {"off", "apply", "gone"}]
          /\ rel' \in [Proc -> {"unset", "set", "started", "removed"}]
      BY <1>0, <2>1 DEF Open, Goto, TypeOK, Awaits
    <3> QED BY <1>0, <2>1, <3>3, <3>4, <3>5 DEF Open, TypeOK, disk
  <2>2. CASE OpenFails(p)
    BY <1>0, <2>2 DEF OpenFails, TypeOK, disk, batch, Goto, Awaits
  <2> QED BY <1>8, <2>1, <2>2 DEF Locked
<1>9. ASSUME NEW p \in Proc, BackedUp(p) PROVE TypeOK'
  <2>1. CASE Fail(p)
    BY <1>2, <2>1
  <2>2. CASE ~Fail(p)
    <3>1. backups' = Append(backups, applied)
      BY <1>9, <2>2 DEF BackedUp, TakeBackup
    <3>2. backups \in Seq(SUBSET (1..Files)) /\ applied \in SUBSET (1..Files)
      BY <1>0 DEF TypeOK
    <3>3. backups' \in Seq(SUBSET (1..Files))
      BY <3>1, <3>2, AppendProperties
    <3> QED BY <1>0, <1>9, <2>2, <3>3 DEF BackedUp, Goto, TypeOK
  <2> QED BY <2>1, <2>2
<1>10. ASSUME NEW p \in Proc, Migrated(p) PROVE TypeOK'
  <2>1. backups' \in Seq(SUBSET (1..Files))
    BY <1>0, <1>10 DEF Migrated, Prune, TypeOK
  <2> QED BY <1>0, <1>10, <2>1 DEF Migrated, Goto, TypeOK, Awaits, batch
<1>11. ASSUME NEW p \in Proc, Start(p) \/ TakeLock(p) PROVE TypeOK'
  BY <1>0, <1>11 DEF Start, TakeLock, Goto, TypeOK, Awaits, disk, batch
<1>12. ASSUME NEW p \in Proc, BeginTs(p) \/ BeginFails(p) PROVE TypeOK'
  BY <1>0, <1>2, <1>12 DEF BeginTs, BeginFails, Goto, TypeOK, Awaits, disk, batch
<1>13. ASSUME NEW p \in Proc, ManagerReady(p) PROVE TypeOK'
  BY <1>0, <1>2, <1>13 DEF ManagerReady, Goto, TypeOK, Awaits, disk, batch
<1>14. ASSUME NEW p \in Proc, Bound(p) PROVE TypeOK'
  <2>1. CASE ~Fail(p)
    <3>1. listener' \in [Proc -> BOOLEAN]
      BY <1>0, <1>14, <2>1 DEF Bound, TypeOK
    <3> QED BY <1>0, <1>14, <2>1, <3>1 DEF Bound, Goto, TypeOK, Awaits, disk, batch
  <2> QED BY <1>2, <2>1
<1>15. ASSUME NEW p \in Proc, Signal(p) PROVE TypeOK'
  <2>1. signals' \in [Proc -> 0..MaxSignals]
    BY <1>0, <1>15 DEF Signal, TypeOK
  <2>2. CASE ~listener[p]
    BY <1>0, <1>5, <1>15, <2>1, <2>2 DEF Signal, TypeOK
  <2>3. CASE listener[p]
    <3>1. closing[p] + 1 <= MaxSignals
      BY <1>0, <1>15 DEF Signal, TypeOK, FileInv, ClosingSignalled
    <3>2. /\ closing' = [closing EXCEPT ![p] = closing[p] + 1]
          /\ UNCHANGED <<disk, pc, batch, db, listener, rel, status, stolen>>
      BY <1>15, <2>3 DEF Signal
    <3>3. closing' \in [Proc -> 0..MaxSignals]
      BY <1>0, <3>1, <3>2 DEF TypeOK
    <3> QED BY <1>0, <2>1, <3>2, <3>3 DEF TypeOK, disk, batch
  <2> QED BY <2>2, <2>3
<1>16. ASSUME NEW p \in Proc, ListenerClosed(p) PROVE TypeOK'
  <2>1. closing' \in [Proc -> 0..MaxSignals]
    BY <1>0, <1>16 DEF ListenerClosed, TypeOK
  <2> QED BY <1>0, <1>5, <1>16, <2>1 DEF ListenerClosed, TypeOK
<1>17. ASSUME NEW p \in Proc, Removed(p) \/ Refresh(p) PROVE TypeOK'
  BY <1>0, <1>17 DEF Removed, Refresh, TypeOK, batch
<1>18. ASSUME NEW p \in Proc, Kill(p) PROVE TypeOK'
  BY <1>0, <1>18 DEF Kill, Goto, CloseDb, TypeOK, disk, batch
<1>19. CASE GoesStale
  BY <1>0, <1>19 DEF GoesStale, TypeOK, batch
<1>20. CASE UNCHANGED vars
  BY <1>0, <1>20 DEF vars, disk, batch, TypeOK
<1> QED
  BY <1>3, <1>4, <1>7, <1>8, <1>9, <1>10, <1>11, <1>12, <1>13, <1>14, <1>15, <1>16, <1>17,
     <1>18, <1>19, <1>20
  DEF Next

\* Only a signal lets a process close what it has open.
LEMMA ClosingStep == FileInv /\ [Next]_vars => ClosingSignalled'
<1> SUFFICES ASSUME FileInv, [Next]_vars PROVE ClosingSignalled'
  OBVIOUS
<1>0. TypeOK /\ ClosingSignalled
  BY DEF FileInv
<1>1. ASSUME NEW p \in Proc, Signal(p) \/ ListenerClosed(p) PROVE ClosingSignalled'
  <2>1. \/ /\ signals' = [signals EXCEPT ![p] = signals[p] + 1]
           /\ closing' = [closing EXCEPT ![p] = closing[p] + 1] \/ UNCHANGED closing
        \/ UNCHANGED signals /\ closing' = [closing EXCEPT ![p] = closing[p] - 1]
    BY <1>1 DEF Signal, ListenerClosed
  <2>2. closing \in [Proc -> Nat] /\ signals \in [Proc -> Nat]
    BY <1>0, BootAssumption DEF TypeOK
  <2> SUFFICES ASSUME NEW q \in Proc PROVE closing'[q] <= signals'[q]
    BY DEF ClosingSignalled
  <2>3. closing[q] <= signals[q]
    BY <1>0 DEF ClosingSignalled
  <2>4. signals'[q] \in {signals[q], signals[q] + 1} /\ closing'[q] \in {closing[q], closing[q] + 1, closing[q] - 1}
    BY <2>1, <2>2
  <2>5. closing'[q] = closing[q] + 1 => signals'[q] = signals[q] + 1
    BY <2>1, <2>2
  <2> QED BY <2>2, <2>3, <2>4, <2>5
<1>2. CASE UNCHANGED <<closing, signals>>
  BY <1>0, <1>2 DEF ClosingSignalled
<1> QED
  BY <1>1, <1>2
  DEF Next, vars, disk, batch, Start, TakeLock, Refused, Refresh, Compromised, Locked, Open,
      OpenFails, BackedUp, ApplySql, Commit, Throws, Fail, BeginTs, EndTs, BeginFails, Migrated,
      ManagerReady, Bound, Removed, Released, Kill, GoesStale

\* A step commits a file, opens the database, or leaves the rows and what is pending
\* alone; then nobody starts to migrate.
LEMMA FileSteps ==
  ASSUME FileInv, [Next]_vars
  PROVE  \/ \E p \in Proc : (ApplySql(p) \/ EndTs(p)) /\ Commit(p)
         \/ \E p \in Proc : Locked(p) /\ Open(p)
         \/ /\ UNCHANGED <<applied, pending>>
            /\ \A p \in Proc : pc'[p] \in Migrating =>
                 pc[p] \in Migrating /\ (pc'[p] = "up" => pc[p] = "up" \/ pending[p] # <<>>)
<1>0. TypeOK
  BY DEF FileInv
<1> DEFINE Kept == /\ UNCHANGED <<applied, pending>>
                   /\ \A p \in Proc : pc'[p] \in Migrating =>
                        pc[p] \in Migrating /\ (pc'[p] = "up" => pc[p] = "up" \/ pending[p] # <<>>)
<1>1. ASSUME UNCHANGED <<applied, pending>>, NEW p \in Proc, NEW q,
             pc' = [pc EXCEPT ![p] = q], q \in {pc[p], "lock", "locked", "init", "bind", "ready", "release", "gone"}
      PROVE  Kept
  BY <1>0, <1>1 DEF TypeOK, Migrating
<1>2. CASE UNCHANGED <<applied, pending, pc>>
  BY <1>2
<1>3. ASSUME NEW p \in Proc, Fail(p) PROVE Kept
  BY <1>1, <1>3 DEF Fail, ReleaseThenExit, Exit, Goto, batch
<1>4. ASSUME NEW p \in Proc, CloseAndRelease(p) PROVE Kept
  BY <1>1, <1>4 DEF CloseAndRelease, ReleaseThenExit, Exit, Goto, batch
<1>5. ASSUME NEW p \in Proc, Refused(p) \/ Compromised(p) \/ Released(p) \/ Kill(p) PROVE Kept
  BY <1>1, <1>5 DEF Refused, Compromised, Released, Kill, Exit, Goto, batch, disk
<1>6. ASSUME NEW p \in Proc, Start(p) \/ TakeLock(p) \/ Migrated(p) PROVE Kept
  BY <1>1, <1>6 DEF Start, TakeLock, Migrated, Goto, batch, disk
<1>7. ASSUME NEW p \in Proc, ManagerReady(p) \/ Bound(p) \/ OpenFails(p) PROVE Kept
  BY <1>1, <1>3, <1>7 DEF ManagerReady, Bound, OpenFails, Goto, batch, disk
<1>8. ASSUME NEW p \in Proc, Signal(p) \/ ListenerClosed(p) PROVE Kept
  BY <1>2, <1>4, <1>8 DEF Signal, ListenerClosed, batch, disk
<1>9. ASSUME NEW p \in Proc, BackedUp(p) PROVE Kept
  BY <1>0, <1>3, <1>9 DEF BackedUp, Goto, TypeOK, Migrating
<1>10. ASSUME NEW p \in Proc, BeginTs(p) PROVE Kept
  BY <1>0, <1>10 DEF BeginTs, Begins, Goto, TypeOK, Migrating, batch, disk
<1>11. ASSUME NEW p \in Proc, BeginFails(p) PROVE Kept
  BY <1>3, <1>11 DEF BeginFails
<1>12. ASSUME NEW p \in Proc, ApplySql(p) \/ EndTs(p), ~Commit(p) PROVE Kept
  BY <1>3, <1>12 DEF ApplySql, EndTs, Throws
<1>13. ASSUME NEW p \in Proc, Removed(p) \/ Refresh(p) PROVE Kept
  BY <1>2, <1>13 DEF Removed, Refresh, batch
<1>14. CASE GoesStale \/ UNCHANGED vars
  BY <1>2, <1>14 DEF GoesStale, vars, batch, disk
<1> QED
  BY <1>5, <1>6, <1>7, <1>8, <1>9, <1>10, <1>11, <1>12, <1>13, <1>14 DEF Next, Locked

\* Each step keeps both, and the rows of _migrations those of the first files.
LEMMA FileStep == FileInv /\ [Next]_vars => FileInv'
<1> SUFFICES ASSUME FileInv, [Next]_vars PROVE AppliedPrefix' /\ PendingTail'
  BY TypeStep, ClosingStep DEF FileInv
<1>0. TypeOK /\ AppliedPrefix /\ PendingTail
  BY DEF FileInv
<1> USE BootAssumption
<1>1. ASSUME NEW p \in Proc, ApplySql(p) \/ EndTs(p), Commit(p)
      PROVE  AppliedPrefix' /\ PendingTail'
  <2>1. PICK k \in 0..(Files - 1) : /\ pending[p] = From(k) /\ applied = 1..k
                                    /\ applied' = 1..(k + 1)
                                    /\ pending' = [pending EXCEPT ![p] = From(k + 1)]
    BY <1>1, CommitPending, CommitNext
  <2>2. k + 1 \in 0..Files
    OBVIOUS
  <2>3. AppliedPrefix'
    BY <2>1, <2>2 DEF AppliedPrefix
  <2>4. pc' = [pc EXCEPT ![p] = "apply"]
    BY <1>1 DEF Commit, Goto
  <2>5. PendingTail'
    <3> SUFFICES ASSUME NEW q \in Proc, pc'[q] \in Migrating
                 PROVE  \E n \in 0..Files : /\ pending'[q] = From(n) /\ 1..n \subseteq applied'
                                            /\ pc'[q] = "up" => n # Files
      BY DEF PendingTail
    <3>1. CASE q = p
      BY <1>0, <2>1, <2>2, <2>4, <3>1 DEF TypeOK
    <3>2. CASE q # p
      <4>1. pc'[q] = pc[q] /\ pending'[q] = pending[q] /\ applied \subseteq applied'
        BY <1>0, <2>1, <2>4, <3>2 DEF TypeOK
      <4> QED BY <1>0, <4>1 DEF PendingTail
    <3> QED BY <3>1, <3>2
  <2> QED BY <2>3, <2>5
<1>2. ASSUME NEW p \in Proc, Locked(p), Open(p)
      PROVE  AppliedPrefix' /\ PendingTail'
  <2>1. PICK a \in 0..Files : applied = 1..a
    BY <1>0 DEF AppliedPrefix
  <2>2. /\ applied' = applied /\ pending' = [pending EXCEPT ![p] = From(a)]
        /\ pc' \in {[pc EXCEPT ![p] = "init"], [pc EXCEPT ![p] = "backup"]}
    BY <1>2, <2>1, UnappliedTail DEF Open, Goto, disk
  <2>3. AppliedPrefix'
    BY <2>1, <2>2 DEF AppliedPrefix
  <2>4. ASSUME NEW q \in Proc, pc'[q] \in Migrating
        PROVE  \E n \in 0..Files : /\ pending'[q] = From(n) /\ 1..n \subseteq applied'
                                   /\ pc'[q] = "up" => n # Files
    <3>1. CASE q = p
      BY <1>0, <2>1, <2>2, <3>1 DEF TypeOK
    <3>2. CASE q # p
      <4>1. pc'[q] = pc[q] /\ pending'[q] = pending[q]
        BY <1>0, <2>2, <3>2 DEF TypeOK
      <4> QED BY <1>0, <2>2, <2>4, <4>1 DEF PendingTail
    <3> QED BY <3>1, <3>2
  <2> QED BY <2>3, <2>4 DEF PendingTail
<1>3. ASSUME UNCHANGED <<applied, pending>>,
             \A p \in Proc : pc'[p] \in Migrating =>
               pc[p] \in Migrating /\ (pc'[p] = "up" => pc[p] = "up" \/ pending[p] # <<>>)
      PROVE  AppliedPrefix' /\ PendingTail'
  <2>1. AppliedPrefix'
    BY <1>0, <1>3 DEF AppliedPrefix
  <2>2. ASSUME NEW q \in Proc, pc'[q] \in Migrating
        PROVE  \E n \in 0..Files : /\ pending'[q] = From(n) /\ 1..n \subseteq applied'
                                   /\ pc'[q] = "up" => n # Files
    <3>1. PICK n \in 0..Files : /\ pending[q] = From(n) /\ 1..n \subseteq applied
                                /\ pc[q] = "up" => n # Files
      BY <1>0, <1>3, <2>2 DEF PendingTail
    <3>2. pc'[q] = "up" => n # Files
      BY <1>3, <2>2, <3>1, TailOfFiles
    <3> QED BY <1>3, <3>1, <3>2
  <2> QED BY <2>1, <2>2 DEF PendingTail
<1> QED
  BY <1>1, <1>2, <1>3, FileSteps

\* No process, signal, failure or crash leaves a variable outside its type, and the rows
\* of _migrations are always those of the first files in their order (migrate.ts).
THEOREM TypesAndFiles == Spec => [](TypeOK /\ AppliedPrefix)
<1>1. FileInv => TypeOK /\ AppliedPrefix
  BY DEF FileInv
<1> QED
  BY <1>1, FileInit, FileStep, PTL DEF Spec

-----------------------------------------------------------------------------
(* The lock is held while the database is open                                *)

\* What the end of a process, or the call of release, does to each process.
LEMMA EndEffect ==
  ASSUME TypeOK, NEW p \in Proc, NEW s, NEW m,
         (Exit(p, s) /\ UNCHANGED rel) \/ ReleaseThenExit(p, s, m)
  PROVE  /\ \A q \in Proc \ {p} : /\ pc'[q] = pc[q] /\ rel'[q] = rel[q] /\ db'[q] = db[q]
                                  /\ listener'[q] = listener[q] /\ status'[q] = status[q]
         /\ ~db'[p] /\ status'[p] = s /\ (listener'[p] => listener[p])
         /\ \/ /\ rel[p] = "set" /\ rel'[p] = "started" /\ pc'[p] = m
               /\ lock' = lock
            \/ /\ rel'[p] = rel[p] /\ pc'[p] = "gone" /\ ~listener'[p]
               /\ lock' = lock \/ (rel[p] = "started" /\ lock' = None)
<1> USE DEF Exit, ReleaseThenExit, Goto, CloseDb
<1>1. \A q \in Proc \ {p} : pc'[q] = pc[q] /\ rel'[q] = rel[q] /\ status'[q] = status[q]
  BY DEF TypeOK
<1>2. ~db'[p] /\ \A q \in Proc \ {p} : db'[q] = db[q]
  BY DEF TypeOK
<1>3. listener' \in {listener, [listener EXCEPT ![p] = FALSE]}
  OBVIOUS
<1>4. (listener'[p] => listener[p]) /\ \A q \in Proc \ {p} : listener'[q] = listener[q]
  BY <1>3 DEF TypeOK
<1>5. status'[p] = s
  BY DEF TypeOK
<1>6. \/ rel[p] = "set" /\ rel'[p] = "started" /\ pc'[p] = m /\ lock' = lock
      \/ /\ rel'[p] = rel[p] /\ pc'[p] = "gone" /\ listener' = [listener EXCEPT ![p] = FALSE]
         /\ lock' = lock \/ (rel[p] = "started" /\ lock' = None)
  BY DEF TypeOK
<1>7. listener' = [listener EXCEPT ![p] = FALSE] => ~listener'[p]
  BY DEF TypeOK
<1> QED BY <1>1, <1>2, <1>4, <1>5, <1>6, <1>7

\* Release ends the process only if there is none to call.
LEMMA ReleaseEffect ==
  ASSUME TypeOK, NEW p \in Proc, NEW s, NEW m, ReleaseThenExit(p, s, m)
  PROVE  /\ \A q \in Proc \ {p} : pc'[q] = pc[q] /\ rel'[q] = rel[q] /\ status'[q] = status[q]
         /\ \/ rel[p] = "set" /\ rel'[p] = "started" /\ pc'[p] = m /\ lock' = lock
            \/ /\ rel'[p] = rel[p] /\ pc'[p] = "gone" /\ rel[p] # "set"
               /\ lock' = lock \/ (rel[p] = "started" /\ lock' = None)
BY DEF ReleaseThenExit, Exit, Goto, TypeOK

\* Nobody takes the lock from a process that keeps it fresh, and who closes the database
\* has it still.
LEMMA LockStep == FileInv /\ LockInv /\ [Next]_vars => LockInv'
<1> SUFFICES ASSUME FileInv, LockInv, [Next]_vars PROVE LockInv'
  OBVIOUS
<1>0. TypeOK /\ OwnerHasLock /\ OpenWhileSet /\ UnsetEarly
  BY DEF FileInv, LockInv
<1> USE BootAssumption
\* A process ends, or calls its release.
<1>1. ASSUME NEW p \in Proc, NEW s, NEW m, m \in {pc[p], "release"},
             Alive(p), (Exit(p, s) /\ UNCHANGED rel) \/ ReleaseThenExit(p, s, m),
             UNCHANGED <<done, stolen>>
      PROVE  LockInv'
  <2>0. /\ \A q \in Proc \ {p} : pc'[q] = pc[q] /\ rel'[q] = rel[q] /\ db'[q] = db[q]
        /\ ~db'[p]
        /\ \/ rel[p] = "set" /\ rel'[p] = "started" /\ pc'[p] = m /\ lock' = lock
           \/ /\ rel'[p] = rel[p] /\ pc'[p] = "gone"
              /\ lock' = lock \/ (rel[p] = "started" /\ lock' = None)
    BY <1>0, <1>1, EndEffect
  <2>1. OwnerHasLock'
    <3> SUFFICES ASSUME ~stolen, NEW q \in Proc, Alive(q)',
                        pc'[q] = "locked" \/ rel'[q] \in {"set", "started"}
                 PROVE  lock' = q
      BY <1>1 DEF OwnerHasLock
    <3>1. CASE q = p
      BY <1>0, <1>1, <3>1, <2>0 DEF OwnerHasLock, Alive
    <3>2. CASE q # p
      <4>1. lock = q
        BY <1>0, <3>2, <2>0 DEF OwnerHasLock, Alive
      <4>2. rel[p] # "started"
        BY <1>0, <1>1, <3>2, <4>1 DEF OwnerHasLock
      <4> QED BY <4>1, <4>2, <2>0
    <3> QED BY <3>1, <3>2
  <2>2. OpenWhileSet'
    BY <1>0, <2>0 DEF OpenWhileSet, Alive
  <2>3. ASSUME NEW q \in Proc, pc'[q] \in Early PROVE rel'[q] = "unset" /\ done'[q] = {}
    <3>1. done' = done
      BY <1>1
    <3>2. q # p
      BY <1>0, <1>1, <2>0, <2>3 DEF UnsetEarly, Early
    <3> QED BY <1>0, <2>0, <2>3, <3>1, <3>2 DEF UnsetEarly
  <2> QED BY <2>1, <2>2, <2>3 DEF LockInv, UnsetEarly
<1>2. ASSUME NEW p \in Proc, Fail(p), Alive(p) PROVE LockInv'
  BY <1>1, <1>2 DEF Fail, batch
<1>3. ASSUME NEW p \in Proc, CloseAndRelease(p), Alive(p) PROVE LockInv'
  BY <1>1, <1>3 DEF CloseAndRelease, batch
<1>4. ASSUME NEW p \in Proc, Refused(p) \/ Compromised(p) \/ Released(p) PROVE LockInv'
  BY <1>1, <1>4 DEF Refused, Compromised, Released, Alive, batch
\* A process stays where it was, or goes on with the lock, the release and the database
\* that it had.
<1>5. ASSUME NEW p \in Proc, NEW q, pc' = [pc EXCEPT ![p] = q],
             pc[p] \notin {"locked", "gone"}, q # "locked", q \in Early => pc[p] \in Early,
             UNCHANGED <<lock, rel, stolen, db>>, db[p] => q # "gone",
             \A r \in Proc : pc'[r] \in Early => done'[r] = done[r]
      PROVE  LockInv'
  <2>1. \A r \in Proc : pc'[r] = IF r = p THEN q ELSE pc[r]
    BY <1>0, <1>5 DEF TypeOK
  <2>2. OwnerHasLock'
    <3> SUFFICES ASSUME ~stolen, NEW r \in Proc, Alive(r)',
                        pc'[r] = "locked" \/ rel'[r] \in {"set", "started"}
                 PROVE  lock' = r
      BY <1>5 DEF OwnerHasLock
    <3>1. Alive(r) /\ (pc[r] = "locked" \/ rel[r] \in {"set", "started"})
      BY <1>0, <1>5, <2>1 DEF Alive, UnsetEarly, Early
    <3> QED BY <1>0, <1>5, <3>1 DEF OwnerHasLock
  <2>3. ASSUME NEW r \in Proc, db'[r] PROVE Alive(r)' /\ rel'[r] = "set"
    BY <1>0, <1>5, <2>1, <2>3 DEF OpenWhileSet, Alive, UnsetEarly, Early
  <2>4. ASSUME NEW r \in Proc, pc'[r] \in Early PROVE rel'[r] = "unset" /\ done'[r] = {}
    BY <1>0, <1>5, <2>1, <2>4 DEF UnsetEarly
  <2> QED BY <2>2, <2>3, <2>4 DEF LockInv, OpenWhileSet, UnsetEarly
<1>6. ASSUME NEW p \in Proc, Start(p) PROVE LockInv'
  <2>1. PICK q \in {"lock", "gone"} : pc' = [pc EXCEPT ![p] = q]
    BY <1>6 DEF Start, Goto
  <2>2. pc[p] = "off" /\ UNCHANGED <<lock, rel, stolen, db, done>>
    BY <1>6 DEF Start, disk, batch
  <2>3. ~db[p]
    BY <1>0, <2>2 DEF OpenWhileSet, Alive
  <2>4. q # "locked" /\ q \notin {"off", "locked"} /\ pc[p] \in Early
    BY <2>1, <2>2 DEF Early
  <2> QED BY <1>5, <2>1, <2>2, <2>3, <2>4
<1>7. ASSUME NEW p \in Proc, Kill(p) PROVE LockInv'
  <2>1. /\ pc' = [pc EXCEPT ![p] = "gone"] /\ db' = [db EXCEPT ![p] = FALSE]
        /\ UNCHANGED <<lock, rel, stolen, done>> /\ Alive(p)
    BY <1>7 DEF Kill, Goto, CloseDb, disk, batch
  <2>2. \A r \in Proc : r # p => pc'[r] = pc[r] /\ db'[r] = db[r]
    BY <1>0, <2>1 DEF TypeOK
  <2>3. pc'[p] = "gone" /\ ~db'[p]
    BY <1>0, <2>1 DEF TypeOK
  <2> QED
    BY <1>0, <2>1, <2>2, <2>3 DEF LockInv, OwnerHasLock, OpenWhileSet, UnsetEarly, Alive, Early
<1>8. ASSUME NEW p \in Proc, TakeLock(p) PROVE LockInv'
  <2>1. \A r \in Proc : pc'[r] = IF r = p THEN "locked" ELSE pc[r]
    BY <1>0, <1>8 DEF TakeLock, Goto, TypeOK
  <2>2. /\ pc[p] = "lock" /\ lock' = p /\ stolen' = (stolen \/ (lock # None /\ Alive(lock)))
        /\ UNCHANGED <<rel, db, done>>
    BY <1>8 DEF TakeLock, batch
  <2>3. OwnerHasLock'
    <3> SUFFICES ASSUME ~stolen, ~(lock # None /\ Alive(lock)), NEW r \in Proc, Alive(r)',
                        pc'[r] = "locked" \/ rel'[r] \in {"set", "started"}
                 PROVE  r = p
      BY <2>2 DEF OwnerHasLock
    <3>1. ASSUME r # p PROVE lock = r /\ Alive(r)
      BY <1>0, <2>1, <2>2, <3>1 DEF OwnerHasLock, Alive
    <3> QED BY <3>1
  <2>4. OpenWhileSet'
    BY <1>0, <2>1, <2>2 DEF OpenWhileSet, Alive
  <2>5. UnsetEarly'
    BY <1>0, <2>1, <2>2 DEF UnsetEarly, Early
  <2> QED BY <2>3, <2>4, <2>5 DEF LockInv
<1>9. ASSUME NEW p \in Proc, Locked(p), Open(p) PROVE LockInv'
  <2>1. PICK q \in {"init", "backup"} : \A r \in Proc : pc'[r] = IF r = p THEN q ELSE pc[r]
    BY <1>0, <1>9 DEF Open, Goto, TypeOK
  <2>2. \A r \in Proc : rel'[r] = IF r = p THEN "set" ELSE rel[r]
    BY <1>0, <1>9 DEF Open, TypeOK
  <2>3. pc[p] = "locked" /\ UNCHANGED <<lock, stolen, done>>
    BY <1>9 DEF Locked, Open, disk
  <2>4. \A r \in Proc : db'[r] => r = p \/ db[r]
    BY <1>0, <1>9 DEF Open, TypeOK
  <2>5. OwnerHasLock'
    BY <1>0, <2>1, <2>2, <2>3 DEF OwnerHasLock, Alive
  <2>6. OpenWhileSet'
    BY <1>0, <2>1, <2>2, <2>4 DEF OpenWhileSet, Alive
  <2>7. UnsetEarly'
    BY <1>0, <2>1, <2>2, <2>3 DEF UnsetEarly, Early
  <2> QED BY <2>5, <2>6, <2>7 DEF LockInv
<1>10. ASSUME NEW p \in Proc, Locked(p), OpenFails(p) PROVE LockInv'
  <2>1. \A r \in Proc : pc'[r] = IF r = p THEN "release" ELSE pc[r]
    BY <1>0, <1>10 DEF OpenFails, Goto, TypeOK
  <2>2. \A r \in Proc : rel'[r] = IF r = p THEN "started" ELSE rel[r]
    BY <1>0, <1>10 DEF OpenFails, TypeOK
  <2>3. pc[p] = "locked" /\ UNCHANGED <<lock, stolen, done, db>>
    BY <1>10 DEF Locked, OpenFails, disk, batch
  <2>4. OwnerHasLock'
    BY <1>0, <2>1, <2>2, <2>3 DEF OwnerHasLock, Alive
  <2>5. OpenWhileSet'
    BY <1>0, <2>1, <2>2, <2>3 DEF OpenWhileSet, Alive, UnsetEarly, Early
  <2>6. UnsetEarly'
    BY <1>0, <2>1, <2>2, <2>3 DEF UnsetEarly, Early
  <2> QED BY <2>4, <2>5, <2>6 DEF LockInv
<1>11. ASSUME NEW p \in Proc, ApplySql(p) \/ EndTs(p), Commit(p) PROVE LockInv'
  <2>1. pc[p] \in {"apply", "up"}
    BY <1>11, CommitPending
  <2>2. /\ pc' = [pc EXCEPT ![p] = "apply"] /\ UNCHANGED <<lock, rel, stolen, db>>
        /\ done' = [done EXCEPT ![p] = done[p] \cup {Head(pending[p])}]
    BY <1>11 DEF Commit, Goto
  <2>3. \A r \in Proc : pc'[r] \in Early => done'[r] = done[r]
    BY <1>0, <2>2 DEF TypeOK, Early
  <2>4. "apply" \notin Early /\ pc[p] \notin {"locked", "gone"}
    BY <2>1 DEF Early
  <2> QED BY <1>5, <2>2, <2>3, <2>4
<1>12. ASSUME NEW p \in Proc, ApplySql(p) \/ EndTs(p) \/ BeginFails(p), Fail(p) PROVE LockInv'
  BY <1>2, <1>12 DEF ApplySql, EndTs, BeginFails, Begins, Alive
<1>13. ASSUME NEW p \in Proc, BeginTs(p) \/ Migrated(p) PROVE LockInv'
  BY <1>5, <1>13 DEF BeginTs, Begins, Migrated, Goto, Early, disk, batch
<1>14. ASSUME NEW p \in Proc, BackedUp(p) PROVE LockInv'
  BY <1>2, <1>5, <1>14 DEF BackedUp, Goto, Early, Alive
<1>15. ASSUME NEW p \in Proc, ManagerReady(p) PROVE LockInv'
  BY <1>2, <1>5, <1>15 DEF ManagerReady, Goto, Early, Alive, disk, batch
<1>16. ASSUME NEW p \in Proc, Bound(p) PROVE LockInv'
  BY <1>2, <1>5, <1>16 DEF Bound, Goto, Early, Alive, disk, batch
<1>17. CASE UNCHANGED <<pc, lock, stolen, rel, db, done>>
  BY <1>0, <1>17 DEF LockInv, OwnerHasLock, OpenWhileSet, UnsetEarly, Alive
<1>18. ASSUME NEW p \in Proc, Signal(p) \/ ListenerClosed(p) PROVE LockInv'
  BY <1>3, <1>17, <1>18 DEF Signal, ListenerClosed, Awaits, Alive, disk, batch
<1>19. ASSUME NEW p \in Proc, Removed(p) PROVE LockInv'
  <2>1. \A r \in Proc : rel'[r] = IF r = p THEN "removed" ELSE rel[r]
    BY <1>0, <1>19 DEF Removed, TypeOK
  <2>2. /\ Alive(p) /\ rel[p] = "started" /\ lock' = None
        /\ UNCHANGED <<pc, stolen, db, done>>
    BY <1>19 DEF Removed, batch
  <2>3. pc[p] \notin Early
    BY <1>0, <2>2 DEF UnsetEarly
  <2>4. OwnerHasLock'
    BY <1>0, <2>1, <2>2, <2>3 DEF OwnerHasLock, Alive, Early
  <2>5. OpenWhileSet'
    BY <1>0, <2>1, <2>2 DEF OpenWhileSet, Alive
  <2>6. UnsetEarly'
    BY <1>0, <2>1, <2>2, <2>3 DEF UnsetEarly
  <2> QED BY <2>4, <2>5, <2>6 DEF LockInv
<1>20. ASSUME NEW p \in Proc, Refresh(p) PROVE LockInv'
  BY <1>17, <1>20 DEF Refresh, batch
<1>21. CASE GoesStale \/ UNCHANGED vars
  BY <1>17, <1>21 DEF GoesStale, vars, disk, batch
<1> QED
  BY <1>4, <1>6, <1>7, <1>8, <1>9, <1>10, <1>11, <1>12, <1>13, <1>14, <1>15, <1>16, <1>18,
     <1>19, <1>20, <1>21
  DEF Next, Locked, ApplySql, EndTs, BeginFails, Throws

\* The database is open only in the process that has the lock, unless the lock was taken
\* from a process that could not keep it fresh (boot and shutdown of index.ts, lock.ts).
THEOREM LockWhileOpen == Spec => []LockHeldWhileOpen
<1>1. Init => LockInv
  BY DEF Init, LockInv, OwnerHasLock, OpenWhileSet, UnsetEarly, Alive, Early
<1>2. FileInv /\ LockInv /\ [Next]_vars => (FileInv /\ LockInv)'
  BY FileStep, LockStep
<1>3. LockInv => LockHeldWhileOpen
  BY DEF LockInv, OwnerHasLock, OpenWhileSet, LockHeldWhileOpen
<1> QED
  BY <1>1, <1>2, <1>3, FileInit, PTL DEF Spec

-----------------------------------------------------------------------------
(* Who leaves the lock behind                                                 *)

\* Who ends by himself has given his lock back, but for two signals or a failing boot.
LEMMA HasteStep == FileInv /\ LockInv /\ HasteInv /\ [Next]_vars => HasteInv'
<1> SUFFICES ASSUME FileInv, LockInv, HasteInv, [Next]_vars PROVE HasteInv'
  OBVIOUS
<1>0. /\ TypeOK /\ UnsetEarly /\ ClosingSignalled
      /\ LockLeftOnlyInHaste /\ StartedBySignal /\ RemovedIsGone
  BY DEF FileInv, LockInv, HasteInv
<1>t. /\ signals \in [Proc -> Nat] /\ closing \in [Proc -> Nat] /\ None \notin Proc
      /\ "release" \notin Busy /\ "gone" \notin Busy
  BY <1>0, BootAssumption DEF TypeOK, Busy
\* A process ends, or calls its release: with the lock it ends only if it was told to
\* before, or never had the lock in hand.
<1>1. ASSUME NEW p \in Proc,
             \A q \in Proc \ {p} : pc'[q] = pc[q] /\ rel'[q] = rel[q] /\ status'[q] = status[q],
             \/ /\ rel[p] = "set" /\ rel'[p] = "started" /\ lock' = lock
                /\ pc'[p] = "release" \/ (pc'[p] # "gone" /\ signals'[p] > 0)
             \/ /\ rel'[p] = rel[p] /\ pc'[p] = "gone" /\ (rel[p] = "set" => lock # p)
                /\ lock' = lock \/ (rel[p] = "started" /\ lock' = None),
             rel[p] = "started" => signals'[p] > 0,
             \A q \in Proc : signals[q] > 0 => signals'[q] > 0
      PROVE  HasteInv'
  <2>3. \A q \in Proc : lock' = q => lock = q
    BY <1>t, <1>1
  <2>4. LockLeftOnlyInHaste'
    <3> SUFFICES ASSUME NEW q \in Proc, lock' = q, pc'[q] = "gone", status'[q] # Killed
                 PROVE  rel'[q] = "unset" \/ (rel'[q] = "started" /\ signals'[q] > 0)
      BY DEF LockLeftOnlyInHaste
    <3>1. CASE q = p
      <4>1. lock = p /\ rel[p] # "set" /\ rel'[p] = rel[p]
        BY <1>1, <2>3, <3>1
      <4>2. rel[p] \in {"unset", "started"}
        BY <1>0, <4>1 DEF RemovedIsGone, TypeOK
      <4> QED BY <1>1, <3>1, <4>1, <4>2
    <3>2. CASE q # p
      BY <1>0, <1>1, <2>3, <3>2 DEF LockLeftOnlyInHaste
    <3> QED BY <3>1, <3>2
  <2>5. StartedBySignal'
    <3> SUFFICES ASSUME NEW q \in Proc, rel'[q] = "started", pc'[q] \in Busy
                 PROVE  signals'[q] > 0
      BY DEF StartedBySignal
    <3> QED BY <1>0, <1>1, <1>t DEF StartedBySignal
  <2>6. RemovedIsGone'
    BY <1>0, <1>1, <2>3 DEF RemovedIsGone
  <2> QED BY <2>4, <2>5, <2>6 DEF HasteInv
<1>2. ASSUME NEW p \in Proc, Fail(p), pc[p] \in Busy PROVE HasteInv'
  <2>1. ReleaseThenExit(p, 1, "release") /\ UNCHANGED signals
    BY <1>2 DEF Fail
  <2>2. rel[p] = "started" => signals'[p] > 0
    BY <1>0, <1>2, <2>1 DEF StartedBySignal
  <2>3. /\ \A q \in Proc \ {p} : pc'[q] = pc[q] /\ rel'[q] = rel[q] /\ status'[q] = status[q]
        /\ \/ rel[p] = "set" /\ rel'[p] = "started" /\ pc'[p] = "release" /\ lock' = lock
           \/ /\ rel'[p] = rel[p] /\ pc'[p] = "gone" /\ rel[p] # "set"
              /\ lock' = lock \/ (rel[p] = "started" /\ lock' = None)
    BY <1>0, <2>1, ReleaseEffect
  <2>4. \A q \in Proc : signals[q] > 0 => signals'[q] > 0
    BY <2>1
  <2> QED BY <1>1, <2>2, <2>3, <2>4
<1>3. ASSUME NEW p \in Proc, CloseAndRelease(p), pc[p] # "gone", signals'[p] > 0,
             \A q \in Proc : signals[q] > 0 => signals'[q] > 0
      PROVE  HasteInv'
  <2>1. ReleaseThenExit(p, 0, pc[p])
    BY <1>3 DEF CloseAndRelease, ShutdownStatus
  <2>2. /\ \A q \in Proc \ {p} : pc'[q] = pc[q] /\ rel'[q] = rel[q] /\ status'[q] = status[q]
        /\ \/ rel[p] = "set" /\ rel'[p] = "started" /\ pc'[p] = pc[p] /\ lock' = lock
           \/ /\ rel'[p] = rel[p] /\ pc'[p] = "gone" /\ rel[p] # "set"
              /\ lock' = lock \/ (rel[p] = "started" /\ lock' = None)
    BY <1>0, <2>1, ReleaseEffect
  <2> QED BY <1>1, <1>3, <2>2
<1>4. ASSUME NEW p \in Proc, Refused(p) \/ Compromised(p) \/ Released(p) PROVE HasteInv'
  <2>1. PICK s : Exit(p, s) /\ UNCHANGED rel /\ UNCHANGED signals
    BY <1>4 DEF Refused, Compromised, Released
  <2>2. rel[p] # "started" /\ (rel[p] = "set" => lock # p)
    BY <1>0, <1>4 DEF Refused, Compromised, Released, UnsetEarly, Early
  <2>3. /\ \A q \in Proc \ {p} : pc'[q] = pc[q] /\ rel'[q] = rel[q] /\ status'[q] = status[q]
        /\ rel'[p] = rel[p] /\ pc'[p] = "gone" /\ lock' = lock
    BY <1>0, <2>1, <2>2 DEF Exit, Goto, TypeOK
  <2>4. \A q \in Proc : signals[q] > 0 => signals'[q] > 0
    BY <2>1
  <2> QED BY <1>1, <2>2, <2>3, <2>4
\* A process goes on; who is not busy yet has not called its release.
<1>6. ASSUME NEW p \in Proc, NEW q, pc' = [pc EXCEPT ![p] = q], q # "gone",
             q \in Busy => pc[p] \in Busy, UNCHANGED <<lock, rel, status, signals>>
      PROVE  HasteInv'
  <2>1. \A r \in Proc : pc'[r] = IF r = p THEN q ELSE pc[r]
    BY <1>0, <1>6 DEF TypeOK
  <2> QED BY <1>0, <1>6, <2>1 DEF HasteInv, LockLeftOnlyInHaste, StartedBySignal, RemovedIsGone
<1>7. CASE UNCHANGED <<pc, rel, status>> /\ lock' \in {lock, None}
           /\ \A q \in Proc : signals[q] > 0 => signals'[q] > 0
  BY <1>0, <1>t, <1>7 DEF HasteInv, LockLeftOnlyInHaste, StartedBySignal, RemovedIsGone
<1>8. ASSUME NEW p \in Proc, Signal(p) \/ ListenerClosed(p) PROVE HasteInv'
  <2>1. signals'[p] > 0 /\ pc[p] # "gone" /\ \A q \in Proc : signals[q] > 0 => signals'[q] > 0
    <3>1. CASE Signal(p)
      BY <1>0, <1>t, <3>1 DEF Signal, Awaits
    <3>2. CASE ListenerClosed(p)
      BY <1>0, <1>t, <3>2 DEF ListenerClosed, ClosingSignalled, Alive
    <3> QED BY <1>8, <3>1, <3>2
  <2>2. CloseAndRelease(p) \/ UNCHANGED <<pc, rel, status, lock>>
    BY <1>8 DEF Signal, ListenerClosed, disk
  <2> QED BY <1>3, <1>7, <2>1, <2>2
<1>9. ASSUME NEW p \in Proc, Removed(p) PROVE HasteInv'
  <2>1. \A r \in Proc : rel'[r] = IF r = p THEN "removed" ELSE rel[r]
    BY <1>0, <1>9 DEF Removed, TypeOK
  <2>2. lock' = None /\ UNCHANGED <<pc, signals>>
    BY <1>9 DEF Removed
  <2> QED BY <1>0, <1>t, <2>1, <2>2 DEF HasteInv, LockLeftOnlyInHaste, StartedBySignal, RemovedIsGone
<1>10. ASSUME NEW p \in Proc, Kill(p) PROVE HasteInv'
  <2>1. \A r \in Proc : /\ pc'[r] = IF r = p THEN "gone" ELSE pc[r]
                        /\ status'[r] = IF r = p THEN Killed ELSE status[r]
    BY <1>0, <1>10 DEF Kill, Goto, TypeOK
  <2>2. UNCHANGED <<lock, rel, signals>>
    BY <1>10 DEF Kill, disk
  <2> QED BY <1>0, <1>t, <2>1, <2>2 DEF HasteInv, LockLeftOnlyInHaste, StartedBySignal, RemovedIsGone
<1>11. ASSUME NEW p \in Proc, Start(p) PROVE HasteInv'
  <2>1. PICK q \in {"lock", "gone"} : \A r \in Proc : pc'[r] = IF r = p THEN q ELSE pc[r]
    BY <1>0, <1>11 DEF Start, Goto, TypeOK
  <2>2. \A r \in Proc : r # p => status'[r] = status[r]
    BY <1>0, <1>11 DEF Start, TypeOK
  <2>3. rel[p] = "unset" /\ UNCHANGED <<lock, rel, signals>>
    BY <1>0, <1>11 DEF Start, UnsetEarly, Early, disk
  <2> QED BY <1>0, <1>t, <2>1, <2>2, <2>3 DEF HasteInv, LockLeftOnlyInHaste, StartedBySignal, RemovedIsGone
<1>12. ASSUME NEW p \in Proc, TakeLock(p) PROVE HasteInv'
  <2>1. \A r \in Proc : pc'[r] = IF r = p THEN "locked" ELSE pc[r]
    BY <1>0, <1>12 DEF TakeLock, Goto, TypeOK
  <2>2. rel[p] = "unset" /\ lock' = p /\ UNCHANGED <<rel, status, signals>>
    BY <1>0, <1>12 DEF TakeLock, UnsetEarly, Early
  <2> QED BY <1>0, <1>t, <2>1, <2>2 DEF HasteInv, LockLeftOnlyInHaste, StartedBySignal, RemovedIsGone, Busy
<1>13. ASSUME NEW p \in Proc, Locked(p) PROVE HasteInv'
  <2>1. PICK q \in {"init", "backup", "release"} : \A r \in Proc : pc'[r] = IF r = p THEN q ELSE pc[r]
    BY <1>0, <1>13 DEF Locked, Open, OpenFails, Goto, TypeOK
  <2>2. PICK x \in {"set", "started"} : /\ \A r \in Proc : rel'[r] = IF r = p THEN x ELSE rel[r]
                                        /\ x = "started" => pc'[p] = "release"
    <3>1. CASE Open(p)
      BY <1>0, <3>1 DEF Open, TypeOK
    <3>2. CASE OpenFails(p)
      BY <1>0, <3>2 DEF OpenFails, Goto, TypeOK
    <3> QED BY <1>13, <3>1, <3>2 DEF Locked
  <2>3. UNCHANGED <<lock, signals>> /\ \A r \in Proc : r # p => status'[r] = status[r]
    BY <1>0, <1>13 DEF Locked, Open, OpenFails, disk, TypeOK
  <2> QED BY <1>0, <1>t, <2>1, <2>2, <2>3 DEF HasteInv, LockLeftOnlyInHaste, StartedBySignal, RemovedIsGone
<1>14. ASSUME NEW p \in Proc, ApplySql(p) \/ EndTs(p) PROVE HasteInv'
  <2>1. pc[p] \in {"apply", "up"}
    BY <1>14 DEF ApplySql, EndTs, Begins
  <2> QED BY <1>2, <1>6, <1>14, <2>1 DEF ApplySql, EndTs, Commit, Throws, Goto, Busy
<1>15. ASSUME NEW p \in Proc, BackedUp(p) \/ BeginFails(p) PROVE HasteInv'
  BY <1>2, <1>6, <1>15 DEF BackedUp, BeginFails, Goto, Busy
<1>16. ASSUME NEW p \in Proc, BeginTs(p) \/ Migrated(p) PROVE HasteInv'
  BY <1>6, <1>16 DEF BeginTs, Begins, Migrated, Goto, Busy, disk
<1>17. ASSUME NEW p \in Proc, ManagerReady(p) \/ Bound(p) PROVE HasteInv'
  BY <1>2, <1>6, <1>17 DEF ManagerReady, Bound, Goto, Busy, disk
<1>18. ASSUME NEW p \in Proc, Refresh(p) PROVE HasteInv'
  BY <1>7, <1>18 DEF Refresh
<1>19. CASE GoesStale \/ UNCHANGED vars
  BY <1>7, <1>19 DEF GoesStale, vars, disk
<1> QED
  BY <1>4, <1>8, <1>9, <1>10, <1>11, <1>12, <1>13, <1>14, <1>15, <1>16, <1>17, <1>18, <1>19
  DEF Next

\* A process that ends by itself with its lock in hand was told to end twice over, or
\* during a boot that fails (shutdown and boot's catch of index.ts).
THEOREM LockLeft == Spec => []LockLeftOnlyInHaste
<1>1. Init => LockInv /\ HasteInv
  BY BootAssumption DEF Init, LockInv, OwnerHasLock, OpenWhileSet, UnsetEarly, Alive, Early,
     HasteInv, LockLeftOnlyInHaste, StartedBySignal, RemovedIsGone
<1>2. FileInv /\ LockInv /\ HasteInv /\ [Next]_vars => (FileInv /\ LockInv /\ HasteInv)'
  BY FileStep, LockStep, HasteStep
<1>3. HasteInv => LockLeftOnlyInHaste
  BY DEF HasteInv
<1> QED
  BY <1>1, <1>2, <1>3, FileInit, PTL DEF Spec

-----------------------------------------------------------------------------
(* Nobody is served before the migrations are done                            *)

\* No row is taken back.
LEMMA AppliedGrows == FileInv /\ [Next]_vars => applied \subseteq applied'
<1> SUFFICES ASSUME FileInv, [Next]_vars PROVE applied \subseteq applied'
  OBVIOUS
<1>1. ASSUME NEW p \in Proc, Commit(p) PROVE applied \subseteq applied'
  BY <1>1 DEF Commit
<1>2. ASSUME NEW p \in Proc, Open(p) PROVE applied \subseteq applied'
  BY <1>2 DEF Open, disk
<1> QED BY <1>1, <1>2, FileSteps

\* Whoever has nothing left to migrate finds every file among the rows.
LEMMA NothingPending ==
  ASSUME FileInv, NEW p \in Proc, pc[p] \in Migrating, pending[p] = <<>>
  PROVE  applied = 1..Files
<1>1. PICK k \in 0..Files : pending[p] = From(k) /\ 1..k \subseteq applied
  BY DEF FileInv, PendingTail
<1>2. k = Files
  BY <1>1, TailOfFiles
<1> QED BY <1>1, <1>2 DEF FileInv, TypeOK

\* What a step does to one process: it stays, it leaves the way to the listener or is
\* before its migrations, it applies a file, or it goes on past them.
Stays(r) == /\ pc'[r] = pc[r] /\ (listener'[r] => listener[r])
            /\ closing'[r] > 0 => closing[r] > 0 \/ listener[r]
            /\ pc[r] = "apply" => db'[r] = db[r]
Leaves(r) == /\ pc'[r] \in {"gone", "release", "lock", "locked", "backup", "up"}
             /\ listener'[r] => listener[r]
             /\ listener'[r] \/ closing'[r] > 0 => pc'[r] = "gone"
Applies(r) == pc'[r] = "apply" /\ db'[r] /\ ~listener'[r] /\ ~(closing'[r] > 0)
Passes(r) == /\ pc'[r] \in {"init", "bind", "ready"} /\ applied = 1..Files
             /\ listener'[r] \/ closing'[r] > 0 => pc'[r] = "ready"
Moves(r) == Stays(r) \/ Leaves(r) \/ Applies(r) \/ Passes(r)

\* Each step keeps the listener the last of what a boot does.
LEMMA ServeSteps ==
  ASSUME FileInv, ServeInv, [Next]_vars
  PROVE  \A r \in Proc : Moves(r)
<1>0. TypeOK /\ PastMigrations /\ ListenerLast /\ OpenToApply
  BY DEF FileInv, ServeInv
\* Other processes stay.
<1>1. ASSUME NEW p \in Proc, Moves(p), UNCHANGED closing,
             \A r \in Proc \ {p} : pc'[r] = pc[r] /\ listener'[r] = listener[r] /\ db'[r] = db[r]
      PROVE  \A r \in Proc : Moves(r)
  BY <1>1 DEF Moves, Stays
<1>2. ASSUME NEW p \in Proc, Fail(p), pc[p] \notin {"ready", "gone"}
      PROVE  \A r \in Proc : Moves(r)
  <2>1. ReleaseThenExit(p, 1, "release") /\ UNCHANGED closing
    BY <1>2 DEF Fail
  <2>2. /\ \A r \in Proc \ {p} : pc'[r] = pc[r] /\ listener'[r] = listener[r] /\ db'[r] = db[r]
        /\ pc'[p] \in {"release", "gone"} /\ (listener'[p] => listener[p])
    BY <1>0, <2>1, EndEffect
  <2>3. ~listener[p] /\ ~(closing[p] > 0)
    BY <1>0, <1>2 DEF ListenerLast
  <2>4. Leaves(p)
    BY <2>1, <2>2, <2>3 DEF Leaves
  <2> QED BY <1>1, <2>1, <2>2, <2>4 DEF Moves
<1>3. ASSUME NEW p \in Proc, Refused(p) \/ Compromised(p) \/ Released(p) \/ Kill(p)
      PROVE  \A r \in Proc : Moves(r)
  <2>1. /\ pc' = [pc EXCEPT ![p] = "gone"] /\ db' = [db EXCEPT ![p] = FALSE]
        /\ listener' = [listener EXCEPT ![p] = FALSE] /\ UNCHANGED closing
    BY <1>3 DEF Refused, Compromised, Released, Kill, Exit, Goto, CloseDb
  <2>2. \A r \in Proc \ {p} : pc'[r] = pc[r] /\ listener'[r] = listener[r] /\ db'[r] = db[r]
    BY <1>0, <2>1 DEF TypeOK
  <2>3. pc'[p] = "gone" /\ ~listener'[p]
    BY <1>0, <2>1 DEF TypeOK
  <2>4. Leaves(p)
    BY <2>3 DEF Leaves
  <2> QED BY <1>1, <2>1, <2>2, <2>4 DEF Moves
<1>4. ASSUME NEW p \in Proc, CloseAndRelease(p), closing'[p] > 0 => closing[p] > 0 \/ listener[p],
             pc[p] # "apply", \A r \in Proc \ {p} : closing'[r] = closing[r]
      PROVE  \A r \in Proc : Moves(r)
  <2>1. /\ \A r \in Proc \ {p} : pc'[r] = pc[r] /\ listener'[r] = listener[r] /\ db'[r] = db[r]
        /\ pc'[p] \in {pc[p], "gone"} /\ (listener'[p] => listener[p])
    <3>1. ReleaseThenExit(p, 0, pc[p])
      BY <1>4 DEF CloseAndRelease, ShutdownStatus
    <3> QED BY <1>0, <3>1, EndEffect
  <2>2. Stays(p) \/ Leaves(p)
    BY <1>4, <2>1 DEF Stays, Leaves
  <2> QED BY <1>4, <2>1, <2>2 DEF Moves, Stays
<1>5. ASSUME UNCHANGED <<pc, listener, db>>, \A r \in Proc : closing'[r] > 0 => closing[r] > 0 \/ listener[r]
      PROVE  \A r \in Proc : Moves(r)
  BY <1>5 DEF Moves, Stays
\* A process goes on.
<1>6. ASSUME NEW p \in Proc, NEW q, pc' = [pc EXCEPT ![p] = q], UNCHANGED <<listener, db, closing>>,
             pc[p] \notin {"ready", "gone"},
             \/ q \in {"gone", "release", "lock", "locked", "backup", "up"}
             \/ q = "apply" /\ db[p]
             \/ q \in {"init", "bind", "ready"} /\ applied = 1..Files
      PROVE  \A r \in Proc : Moves(r)
  <2>1. pc'[p] = q /\ \A r \in Proc \ {p} : pc'[r] = pc[r]
    BY <1>0, <1>6 DEF TypeOK
  <2>2. ~listener'[p] /\ ~(closing'[p] > 0)
    BY <1>0, <1>6 DEF ListenerLast
  <2>3. db' = db
    BY <1>6
  <2>4. Leaves(p) \/ Applies(p) \/ Passes(p)
    BY <1>6, <2>1, <2>2, <2>3 DEF Leaves, Applies, Passes
  <2> QED BY <1>1, <1>6, <2>1, <2>4 DEF Moves
<1>7. ASSUME NEW p \in Proc, Start(p) PROVE \A r \in Proc : Moves(r)
  BY <1>6, <1>7 DEF Start, Goto, disk, batch
<1>8. ASSUME NEW p \in Proc, TakeLock(p) \/ BeginTs(p) PROVE \A r \in Proc : Moves(r)
  BY <1>6, <1>8 DEF TakeLock, BeginTs, Begins, Goto, disk, batch
<1>9. ASSUME NEW p \in Proc, Locked(p) PROVE \A r \in Proc : Moves(r)
  <2>1. CASE Open(p)
    <3>1. pc[p] = "locked" /\ UNCHANGED <<listener, closing>>
      BY <1>9, <2>1 DEF Locked, Open
    <3>2. ~listener'[p] /\ ~(closing'[p] > 0)
      BY <1>0, <3>1 DEF ListenerLast
    <3>3. pc' = [pc EXCEPT ![p] = IF Unapplied = <<>> THEN "init" ELSE "backup"]
      BY <2>1 DEF Open, Goto
    <3>4. pc'[p] = "backup" \/ (pc'[p] = "init" /\ applied = 1..Files)
      <4>1. PICK a \in 0..Files : applied = 1..a
        BY DEF FileInv, AppliedPrefix
      <4>2. Unapplied = <<>> => a = Files
        BY <4>1, UnappliedTail, TailOfFiles
      <4>3. pc'[p] \in {"init", "backup"} /\ (pc'[p] = "init" => Unapplied = <<>>)
        BY <1>0, <3>3 DEF TypeOK
      <4> QED BY <4>1, <4>2, <4>3
    <3>5. Leaves(p) \/ Passes(p)
      BY <3>2, <3>4 DEF Leaves, Passes
    <3>6. db' = [db EXCEPT ![p] = TRUE]
      BY <2>1 DEF Open
    <3>7. \A r \in Proc \ {p} : db'[r] = db[r]
      BY <1>0, <3>6 DEF TypeOK
    <3>8. \A r \in Proc \ {p} : pc'[r] = pc[r]
      BY <1>0, <3>3 DEF TypeOK
    <3> QED BY <1>1, <3>1, <3>5, <3>7, <3>8 DEF Moves
  <2>2. CASE OpenFails(p)
    <3>1. pc[p] = "locked" /\ pc' = [pc EXCEPT ![p] = "release"] /\ UNCHANGED <<listener, db, closing>>
      BY <1>9, <2>2 DEF Locked, OpenFails, Goto
    <3> QED BY <1>6, <3>1
  <2> QED BY <1>9, <2>1, <2>2 DEF Locked
<1>10. ASSUME NEW p \in Proc, BackedUp(p) PROVE \A r \in Proc : Moves(r)
  <2>1. pc[p] = "backup"
    BY <1>10 DEF BackedUp
  <2>2. CASE Fail(p)
    BY <1>2, <2>1, <2>2
  <2>3. CASE ~Fail(p)
    <3>1. db[p] /\ pc' = [pc EXCEPT ![p] = "apply"] /\ UNCHANGED <<listener, db, closing>>
      BY <1>10, <2>3 DEF BackedUp, Goto
    <3> QED BY <1>6, <2>1, <3>1
  <2> QED BY <2>2, <2>3
<1>11. ASSUME NEW p \in Proc, ApplySql(p) \/ EndTs(p) PROVE \A r \in Proc : Moves(r)
  <2>1. pc[p] \in {"apply", "up"}
    BY <1>11 DEF ApplySql, EndTs, Begins
  <2>2. CASE Fail(p)
    BY <1>2, <2>1, <2>2
  <2>3. CASE ~Fail(p)
    <3>1. Commit(p) /\ (pc[p] = "up" => db[p])
      BY <1>11, <2>3 DEF ApplySql, EndTs, Begins, Throws
    <3>2. db[p]
      BY <1>0, <2>1, <3>1 DEF OpenToApply
    <3>3. pc' = [pc EXCEPT ![p] = "apply"] /\ UNCHANGED <<listener, db, closing>>
      BY <3>1 DEF Commit, Goto
    <3> QED BY <1>6, <2>1, <3>2, <3>3
  <2> QED BY <2>2, <2>3
<1>12. ASSUME NEW p \in Proc, BeginFails(p) PROVE \A r \in Proc : Moves(r)
  BY <1>2, <1>12 DEF BeginFails
<1>13. ASSUME NEW p \in Proc, Migrated(p) PROVE \A r \in Proc : Moves(r)
  <2>1. pc[p] = "apply" /\ applied = 1..Files
    BY <1>13, NothingPending DEF Migrated, Migrating
  <2>2. pc' = [pc EXCEPT ![p] = "init"] /\ UNCHANGED <<listener, db, closing>>
    BY <1>13 DEF Migrated, Goto
  <2> QED BY <1>6, <2>1, <2>2
<1>14. ASSUME NEW p \in Proc, ManagerReady(p) PROVE \A r \in Proc : Moves(r)
  <2>1. pc[p] = "init" /\ applied = 1..Files
    BY <1>0, <1>14 DEF ManagerReady, PastMigrations
  <2>2. CASE Fail(p)
    BY <1>2, <2>1, <2>2
  <2>3. CASE ~Fail(p)
    <3>1. pc' = [pc EXCEPT ![p] = "bind"] /\ UNCHANGED <<listener, db, closing>>
      BY <1>14, <2>3 DEF ManagerReady, Goto
    <3> QED BY <1>6, <2>1, <3>1
  <2> QED BY <2>2, <2>3
<1>15. ASSUME NEW p \in Proc, Bound(p) PROVE \A r \in Proc : Moves(r)
  <2>1. pc[p] = "bind" /\ applied = 1..Files
    BY <1>0, <1>15 DEF Bound, PastMigrations
  <2>2. CASE Fail(p)
    BY <1>2, <2>1, <2>2
  <2>3. CASE ~Fail(p)
    <3>1. /\ pc' = [pc EXCEPT ![p] = "ready"] /\ UNCHANGED <<db, closing>>
          /\ listener' = [listener EXCEPT ![p] = TRUE]
      BY <1>15, <2>3 DEF Bound, Goto
    <3>2. pc'[p] = "ready" /\ \A r \in Proc \ {p} : pc'[r] = pc[r]
      BY <1>0, <3>1 DEF TypeOK
    <3>3. \A r \in Proc \ {p} : listener'[r] = listener[r]
      BY <1>0, <3>1 DEF TypeOK
    <3>4. Passes(p)
      BY <2>1, <3>2 DEF Passes
    <3> QED BY <1>1, <3>1, <3>2, <3>3, <3>4 DEF Moves
  <2> QED BY <2>2, <2>3
\* A shutdown begins, goes on, or the lock's directory changes.
<1>16. ASSUME NEW p \in Proc, Signal(p) PROVE \A r \in Proc : Moves(r)
  <2>1. pc[p] # "apply"
    BY <1>16 DEF Signal, Awaits
  <2>2. CASE ~listener[p]
    <3>1. CloseAndRelease(p) /\ UNCHANGED closing
      BY <1>16, <2>2 DEF Signal
    <3> QED BY <1>4, <2>1, <3>1
  <2>3. CASE listener[p]
    <3>1. UNCHANGED <<pc, listener, db>> /\ closing' = [closing EXCEPT ![p] = closing[p] + 1]
      BY <1>16, <2>3 DEF Signal
    <3>2. \A r \in Proc : r # p => closing'[r] = closing[r]
      BY <1>0, <3>1 DEF TypeOK
    <3> QED BY <1>5, <2>3, <3>1, <3>2
  <2> QED BY <2>2, <2>3
<1>17. ASSUME NEW p \in Proc, ListenerClosed(p) PROVE \A r \in Proc : Moves(r)
  <2>1. CloseAndRelease(p) /\ closing[p] > 0 /\ closing' = [closing EXCEPT ![p] = closing[p] - 1]
    BY <1>17 DEF ListenerClosed
  <2>2. pc[p] # "apply"
    BY <1>0, <2>1 DEF ListenerLast
  <2>3. \A r \in Proc \ {p} : closing'[r] = closing[r]
    BY <1>0, <2>1 DEF TypeOK
  <2> QED BY <1>4, <2>1, <2>2, <2>3
<1>18. ASSUME NEW p \in Proc, Removed(p) \/ Refresh(p) PROVE \A r \in Proc : Moves(r)
  BY <1>5, <1>18 DEF Removed, Refresh
<1>19. CASE GoesStale \/ UNCHANGED vars
  BY <1>5, <1>19 DEF GoesStale, vars
<1> QED
  BY <1>3, <1>7, <1>8, <1>9, <1>10, <1>11, <1>12, <1>13, <1>14, <1>15, <1>16, <1>17, <1>18, <1>19
  DEF Next

\* Nobody serves, applies a file or closes its listener out of turn.
LEMMA ServeStep == FileInv /\ ServeInv /\ [Next]_vars => ServeInv'
<1> SUFFICES ASSUME FileInv, ServeInv, [Next]_vars, NEW r \in Proc
             PROVE  /\ pc'[r] \in {"init", "bind", "ready"} \/ listener'[r] => applied' = 1..Files
                    /\ listener'[r] \/ closing'[r] > 0 => pc'[r] \in {"ready", "gone"}
                    /\ pc'[r] = "apply" => db'[r]
  BY DEF ServeInv, PastMigrations, ListenerLast, OpenToApply
<1>0. TypeOK /\ PastMigrations /\ ListenerLast /\ OpenToApply
  BY DEF FileInv, ServeInv
<1>1. applied = 1..Files => applied' = 1..Files
  BY AppliedGrows, TypeStep DEF TypeOK
<1>2. Moves(r)
  BY ServeSteps
<1>3. CASE Stays(r)
  BY <1>0, <1>1, <1>3 DEF Stays, PastMigrations, ListenerLast, OpenToApply
<1>4. CASE Leaves(r)
  BY <1>0, <1>1, <1>4 DEF Leaves, PastMigrations
<1>5. CASE Applies(r)
  BY <1>5 DEF Applies
<1>6. CASE Passes(r)
  BY <1>1, <1>6 DEF Passes
<1> QED BY <1>2, <1>3, <1>4, <1>5, <1>6 DEF Moves

\* No client is served before every migration is committed, whoever commits them: the
\* listener is bound only by who finds none left ("a half-migrated DB is never visible").
THEOREM ReadyMigrated == Spec => []ReadyIsMigrated
<1>1. Init => ServeInv
  BY BootAssumption DEF Init, ServeInv, PastMigrations, ListenerLast, OpenToApply
<1>2. FileInv /\ ServeInv /\ [Next]_vars => (FileInv /\ ServeInv)'
  BY FileStep, ServeStep
<1>3. ServeInv => ReadyIsMigrated
  BY DEF ServeInv, PastMigrations, ReadyIsMigrated
<1> QED
  BY <1>1, <1>2, <1>3, FileInit, PTL DEF Spec

-----------------------------------------------------------------------------
(* The backup of what is committed                                            *)

\* A step commits a file, takes a backup, prunes the backups, or leaves all of them
\* alone; then nobody gets to commit, and who opens the database has committed nothing.
LEMMA BackupSteps ==
  ASSUME FileInv, ServeInv, BackupInv, [Next]_vars
  PROVE  \/ \E p \in Proc : (ApplySql(p) \/ EndTs(p)) /\ Commit(p)
         \/ \E p \in Proc : BackedUp(p) /\ ~Fail(p)
         \/ \E p \in Proc : Migrated(p)
         \/ /\ UNCHANGED <<applied, backups, base, done>> /\ (stolen => stolen')
            /\ \A r \in Proc :
                 /\ pc'[r] \in {"apply", "up"} => pc[r] \in {"apply", "up"} /\ pending'[r] = pending[r]
                 /\ pc'[r] \in Early \cup {"backup"} => pc[r] \in Early \cup {"backup"}
                 /\ db'[r] => db[r] \/ (pc'[r] \in {"init", "backup"} /\ done[r] = {})
<1>0. TypeOK /\ DoneAfterBackup
  BY DEF FileInv, BackupInv
<1> DEFINE Quiet(r) ==
      /\ pc'[r] \in {"apply", "up"} => pc[r] \in {"apply", "up"} /\ pending'[r] = pending[r]
      /\ pc'[r] \in Early \cup {"backup"} => pc[r] \in Early \cup {"backup"}
      /\ db'[r] => db[r] \/ (pc'[r] \in {"init", "backup"} /\ done[r] = {})
    Kept == /\ UNCHANGED <<applied, backups, base, done>> /\ (stolen => stolen')
            /\ \A r \in Proc : Quiet(r)
<1>1. ASSUME UNCHANGED <<applied, backups, pending, base, done>>, stolen => stolen', NEW p \in Proc,
             \A r \in Proc \ {p} : pc'[r] = pc[r] /\ db'[r] = db[r],
             pc'[p] \in {"init", "bind", "ready", "release", "gone"} \/ pc'[p] = pc[p]
               \/ (pc'[p] \in {"lock", "locked"} /\ pc[p] \in Early) \/ (pc'[p] = "up" /\ pc[p] = "apply"),
             db'[p] => db[p]
      PROVE  Kept
  BY <1>1 DEF Early
<1>2. ASSUME NEW p \in Proc, Fail(p) PROVE Kept
  <2>1. /\ UNCHANGED <<applied, backups, pending, base, done, stolen>>
        /\ ReleaseThenExit(p, 1, "release")
    BY <1>2 DEF Fail, batch
  <2>2. /\ \A r \in Proc \ {p} : pc'[r] = pc[r] /\ db'[r] = db[r]
        /\ pc'[p] \in {"release", "gone"} /\ ~db'[p]
    BY <1>0, <2>1, EndEffect
  <2> QED BY <1>1, <2>1, <2>2
<1>3. ASSUME NEW p \in Proc, CloseAndRelease(p) PROVE Kept
  <2>1. /\ UNCHANGED <<applied, backups, pending, base, done, stolen>>
        /\ ReleaseThenExit(p, 0, pc[p])
    BY <1>3 DEF CloseAndRelease, ShutdownStatus, batch
  <2>2. /\ \A r \in Proc \ {p} : pc'[r] = pc[r] /\ db'[r] = db[r]
        /\ pc'[p] \in {pc[p], "gone"} /\ ~db'[p]
    BY <1>0, <2>1, EndEffect
  <2> QED BY <1>1, <2>1, <2>2
<1>4. ASSUME NEW p \in Proc, Refused(p) \/ Compromised(p) \/ Released(p) \/ Kill(p) PROVE Kept
  <2>1. /\ UNCHANGED <<applied, backups, pending, base, done, stolen>>
        /\ pc' = [pc EXCEPT ![p] = "gone"] /\ db' = [db EXCEPT ![p] = FALSE]
    BY <1>4 DEF Refused, Compromised, Released, Kill, Exit, Goto, CloseDb, batch, disk
  <2>2. pc'[p] = "gone" /\ \A r \in Proc \ {p} : pc'[r] = pc[r]
    BY <1>0, <2>1 DEF TypeOK
  <2>3. ~db'[p] /\ \A r \in Proc \ {p} : db'[r] = db[r]
    BY <1>0, <2>1 DEF TypeOK
  <2>4. \A r \in Proc \ {p} : pc'[r] = pc[r] /\ db'[r] = db[r]
    BY <2>2, <2>3
  <2> QED BY <1>1, <2>1, <2>2, <2>3, <2>4
\* A process goes on.
<1>5. ASSUME NEW p \in Proc, NEW q, pc' = [pc EXCEPT ![p] = q], stolen => stolen',
             UNCHANGED <<applied, backups, pending, base, done, db>>,
             q \in {"init", "bind", "ready", "release", "gone"}
               \/ (q \in {"lock", "locked"} /\ pc[p] \in Early) \/ (q = "up" /\ pc[p] = "apply")
      PROVE  Kept
  <2>1. pc'[p] = q /\ \A r \in Proc \ {p} : pc'[r] = pc[r]
    BY <1>0, <1>5 DEF TypeOK
  <2>2. \A r \in Proc \ {p} : pc'[r] = pc[r] /\ db'[r] = db[r]
    BY <1>5, <2>1
  <2> QED BY <1>1, <1>5, <2>1, <2>2
<1>6. ASSUME NEW p \in Proc, Start(p) PROVE Kept
  <2>1. PICK q \in {"lock", "gone"} : pc' = [pc EXCEPT ![p] = q]
    BY <1>6 DEF Start, Goto
  <2>2. pc[p] \in Early /\ UNCHANGED <<applied, backups, pending, base, done, db, stolen>>
    BY <1>6 DEF Start, Early, disk, batch
  <2> QED BY <1>5, <2>1, <2>2
<1>7. ASSUME NEW p \in Proc, TakeLock(p) PROVE Kept
  <2>1. pc' = [pc EXCEPT ![p] = "locked"] /\ (stolen => stolen')
    BY <1>7 DEF TakeLock, Goto
  <2>2. pc[p] \in Early /\ UNCHANGED <<applied, backups, pending, base, done, db>>
    BY <1>7 DEF TakeLock, Early, batch
  <2> QED BY <1>5, <2>1, <2>2
<1>8. ASSUME NEW p \in Proc, Open(p), Locked(p) PROVE Kept
  <2>1. /\ pc' = [pc EXCEPT ![p] = IF Unapplied = <<>> THEN "init" ELSE "backup"]
        /\ pending' = [pending EXCEPT ![p] = Unapplied] /\ db' = [db EXCEPT ![p] = TRUE]
        /\ pc[p] = "locked" /\ UNCHANGED <<applied, backups, base, done, stolen>>
    BY <1>8 DEF Open, Locked, Goto, disk
  <2>2. pc'[p] \in {"init", "backup"} /\ \A r \in Proc \ {p} : pc'[r] = pc[r]
    BY <1>0, <2>1 DEF TypeOK
  <2>3. \A r \in Proc \ {p} : db'[r] = db[r]
    BY <1>0, <2>1 DEF TypeOK
  <2>4. \A r \in Proc \ {p} : pending'[r] = pending[r]
    BY <1>0, <2>1 DEF TypeOK
  <2>5. done[p] = {}
    BY <1>0, <2>1 DEF DoneAfterBackup, Early
  <2>6. Quiet(p)
    BY <2>1, <2>2, <2>5 DEF Early
  <2>7. \A r \in Proc \ {p} : Quiet(r)
    BY <2>2, <2>3, <2>4
  <2> QED BY <2>1, <2>6, <2>7
<1>9. ASSUME NEW p \in Proc, OpenFails(p) \/ BeginTs(p) PROVE Kept
  BY <1>5, <1>9 DEF OpenFails, BeginTs, Begins, Goto, disk, batch
<1>10. ASSUME NEW p \in Proc, ApplySql(p) \/ EndTs(p) \/ BeginFails(p), ~Commit(p) PROVE Kept
  BY <1>2, <1>10 DEF ApplySql, EndTs, BeginFails, Throws
<1>11. ASSUME NEW p \in Proc, ManagerReady(p) PROVE Kept
  BY <1>2, <1>5, <1>11 DEF ManagerReady, Goto, disk, batch
<1>12. ASSUME NEW p \in Proc, Bound(p) PROVE Kept
  BY <1>2, <1>5, <1>12 DEF Bound, Goto, disk, batch
<1>13. CASE UNCHANGED <<applied, backups, pending, base, done, stolen, pc, db>>
  BY <1>13
<1>14. ASSUME NEW p \in Proc, Signal(p) \/ ListenerClosed(p) PROVE Kept
  BY <1>3, <1>13, <1>14 DEF Signal, ListenerClosed, disk, batch
<1>15. ASSUME NEW p \in Proc, Removed(p) \/ Refresh(p) PROVE Kept
  BY <1>13, <1>15 DEF Removed, Refresh, batch
<1>16. CASE GoesStale \/ UNCHANGED vars
  BY <1>13, <1>16 DEF GoesStale, vars, disk, batch
<1>17. ASSUME NEW p \in Proc, BeginFails(p) PROVE Kept
  BY <1>2, <1>17 DEF BeginFails
<1> QED
  BY <1>2, <1>4, <1>6, <1>7, <1>8, <1>9, <1>10, <1>11, <1>12, <1>14, <1>15, <1>16, <1>17 DEF Next, Locked

\* The newest backup survives the pruning.
LEMMA NewestKept ==
  ASSUME backups \in Seq(SUBSET (1..Files)), backups # <<>>, Prune
  PROVE  backups' # <<>> /\ backups'[Len(backups')] = backups[Len(backups)]
<1> USE BootAssumption
<1>1. PICK m \in 1..Len(backups) : backups' = SubSeq(backups, m, Len(backups))
  <2>1. Len(backups) \in Nat /\ Len(backups) >= 1
    OBVIOUS
  <2>2. (IF Len(backups) > Keep THEN Len(backups) - Keep + 1 ELSE 1) \in 1..Len(backups)
    BY <2>1
  <2> QED BY <2>2 DEF Prune
<1>2. Len(backups') = Len(backups) - m + 1 /\ backups'[Len(backups')] = backups[Len(backups)]
  BY <1>1
<1>3. backups' # <<>>
  BY <1>1, <1>2
<1> QED BY <1>2, <1>3

\* Every step keeps a backup for whoever is going to commit, and under the lock for
\* whoever has committed.
LEMMA BackupStep == FileInv /\ LockInv /\ ServeInv /\ BackupInv /\ [Next]_vars => BackupInv'
<1> SUFFICES ASSUME FileInv, LockInv, ServeInv, BackupInv, [Next]_vars PROVE BackupInv'
  OBVIOUS
<1>0. /\ TypeOK /\ PendingTail /\ AppliedPrefix /\ OwnerHasLock /\ OpenWhileSet /\ OpenToApply
      /\ NextUndoable /\ NewestIsOwn /\ DoneAfterBackup
  BY DEF FileInv, LockInv, ServeInv, BackupInv
<1> USE BootAssumption
<1> DEFINE Due(q) == pc[q] \in {"apply", "up"} /\ pending[q] # <<>> /\ Head(pending[q]) \notin applied
           Owns(q) == db[q] /\ (pc[q] \in {"apply", "up"} \/ done[q] # {})
\* Whoever is due is due to the file after the rows.
<1>1. ASSUME NEW q \in Proc, NEW k \in 0..Files, applied = 1..k,
             pc[q] \in {"apply", "up"}, pending[q] # <<>>, Head(pending[q]) \notin applied
      PROVE  k # Files /\ Head(pending[q]) = k + 1
  <2>1. PICK j \in 0..Files : pending[q] = From(j) /\ 1..j \subseteq applied
    BY <1>0, <1>1 DEF PendingTail, Migrating
  <2>2. j # Files /\ Head(pending[q]) = j + 1
    BY <1>1, <2>1, TailOfFiles
  <2> QED BY <1>1, <2>1, <2>2
\* The database is open in one process at most, unless its lock was taken.
<1>2. ASSUME ~stolen, NEW p \in Proc, NEW q \in Proc, db[p], db[q] PROVE p = q
  BY <1>0, <1>2 DEF OwnerHasLock, OpenWhileSet
<1>3. ASSUME NEW p \in Proc, ApplySql(p) \/ EndTs(p), Commit(p) PROVE BackupInv'
  <2>1. pc[p] \in {"apply", "up"} /\ pending[p] # <<>>
    BY <1>3, CommitPending
  <2>2. PICK k \in 0..(Files - 1) : /\ pending[p] = From(k) /\ applied = 1..k
                                    /\ applied' = 1..(k + 1)
                                    /\ pending' = [pending EXCEPT ![p] = From(k + 1)]
    BY <1>3, <2>1, CommitNext
  <2>3. k # Files /\ Head(pending[p]) = k + 1
    BY <2>2, TailOfFiles
  <2>4. /\ Head(pending[p]) \notin applied /\ pc' = [pc EXCEPT ![p] = "apply"]
        /\ done' = [done EXCEPT ![p] = done[p] \cup {k + 1}]
        /\ UNCHANGED <<backups, base, db, stolen>>
    BY <1>3, <2>3 DEF Commit, Goto
  <2>5. base[p] \cup done[p] = applied /\ base[p] \in ToSet(backups)
    BY <1>0, <2>1, <2>4 DEF NextUndoable
  <2>6. pc'[p] = "apply" /\ done'[p] = done[p] \cup {k + 1}
    BY <1>0, <2>4 DEF TypeOK
  <2>7. \A q \in Proc \ {p} : pc'[q] = pc[q] /\ pending'[q] = pending[q] /\ done'[q] = done[q]
    BY <1>0, <2>2, <2>4 DEF TypeOK
  <2>8. NextUndoable'
    <3> SUFFICES ASSUME NEW q \in Proc, pc'[q] \in {"apply", "up"}, pending'[q] # <<>>,
                        Head(pending'[q]) \notin applied'
                 PROVE  base'[q] \cup done'[q] = applied' /\ base'[q] \in ToSet(backups)'
      BY DEF NextUndoable
    <3>1. CASE q = p
      <4>1. base'[p] = base[p] /\ backups' = backups
        BY <2>4
      <4>2. base[p] \cup done'[p] = applied'
        BY <2>2, <2>5, <2>6
      <4> QED BY <2>5, <3>1, <4>1, <4>2
    <3>2. CASE q # p
      <4>1. /\ pc[q] \in {"apply", "up"} /\ pending[q] # <<>> /\ Head(pending[q]) \notin 1..(k + 1)
        BY <2>2, <2>7, <3>2
      <4>2. Head(pending[q]) \notin applied
        BY <2>2, <4>1
      <4>3. Head(pending[q]) = k + 1
        BY <1>1, <2>2, <4>1, <4>2
      <4> QED BY <4>1, <4>3
    <3> QED BY <3>1, <3>2
  <2>9. NewestIsOwn'
    <3> SUFFICES ASSUME ~stolen, NEW q \in Proc, db[q], pc'[q] \in {"apply", "up"} \/ done'[q] # {}
                 PROVE  backups # <<>> /\ backups[Len(backups)] = base[q]
      BY <2>4 DEF NewestIsOwn
    <3>1. pc[q] \in {"apply", "up"} \/ done[q] # {}
      BY <2>1, <2>7
    <3> QED BY <1>0, <3>1 DEF NewestIsOwn
  <2>10. DoneAfterBackup'
    BY <1>0, <2>6, <2>7 DEF DoneAfterBackup, Early
  <2> QED BY <2>8, <2>9, <2>10 DEF BackupInv
<1>4. ASSUME NEW p \in Proc, BackedUp(p), ~Fail(p) PROVE BackupInv'
  <2>1. /\ pc[p] = "backup" /\ db[p] /\ backups' = Append(backups, applied)
        /\ base' = [base EXCEPT ![p] = applied] /\ pc' = [pc EXCEPT ![p] = "apply"]
        /\ UNCHANGED <<applied, pending, done, db, stolen>>
    BY <1>4 DEF BackedUp, TakeBackup, Goto
  <2>2. backups \in Seq(SUBSET (1..Files)) /\ applied \in SUBSET (1..Files)
    BY <1>0 DEF TypeOK
  <2>3. /\ backups' # <<>> /\ backups'[Len(backups')] = applied
        /\ applied \in ToSet(backups)' /\ ToSet(backups) \subseteq ToSet(backups)'
    <3>1. /\ backups' \in Seq(SUBSET (1..Files)) /\ Len(backups') = Len(backups) + 1
          /\ backups'[Len(backups) + 1] = applied
          /\ \A i \in 1..Len(backups) : backups'[i] = backups[i]
      BY <2>1, <2>2, AppendProperties
    <3> QED BY <2>2, <3>1 DEF ToSet
  <2>4. pc'[p] = "apply" /\ base'[p] = applied /\ done[p] = {}
    BY <1>0, <2>1 DEF TypeOK, DoneAfterBackup
  <2>5. \A q \in Proc \ {p} : pc'[q] = pc[q] /\ base'[q] = base[q]
    BY <1>0, <2>1 DEF TypeOK
  <2>6. NextUndoable'
    <3> SUFFICES ASSUME NEW q \in Proc, pc'[q] \in {"apply", "up"}, pending[q] # <<>>,
                        Head(pending[q]) \notin applied
                 PROVE  base'[q] \cup done[q] = applied /\ base'[q] \in ToSet(backups)'
      BY <2>1 DEF NextUndoable
    <3>1. CASE q = p
      BY <2>3, <2>4, <3>1
    <3>2. CASE q # p
      BY <1>0, <2>3, <2>5, <3>2 DEF NextUndoable
    <3> QED BY <3>1, <3>2
  <2>7. NewestIsOwn'
    <3> SUFFICES ASSUME ~stolen, NEW q \in Proc, db[q]
                 PROVE  backups' # <<>> /\ backups'[Len(backups')] = base'[q]
      BY <2>1 DEF NewestIsOwn
    <3>1. q = p
      BY <1>2, <2>1
    <3> QED BY <2>3, <2>4, <3>1
  <2>8. DoneAfterBackup'
    BY <1>0, <2>1, <2>4, <2>5 DEF DoneAfterBackup, Early
  <2> QED BY <2>6, <2>7, <2>8 DEF BackupInv
<1>5. ASSUME NEW p \in Proc, Migrated(p) PROVE BackupInv'
  <2>1. /\ pc[p] = "apply" /\ applied = 1..Files /\ Prune /\ pc' = [pc EXCEPT ![p] = "init"]
        /\ UNCHANGED <<applied, pending, base, done, db, stolen>>
    BY <1>5, NothingPending DEF Migrated, Migrating, Goto, batch
  <2>2. \A q \in Proc : pc'[q] = IF q = p THEN "init" ELSE pc[q]
    BY <1>0, <2>1 DEF TypeOK
  <2>3. NextUndoable'
    <3> SUFFICES ASSUME NEW q \in Proc, pc'[q] \in {"apply", "up"}, pending[q] # <<>>,
                        Head(pending[q]) \notin applied
                 PROVE  FALSE
      BY <2>1 DEF NextUndoable
    <3>1. pc[q] \in {"apply", "up"} /\ Files \in 0..Files
      BY <2>2
    <3> QED BY <1>1, <2>1, <3>1
  <2>4. NewestIsOwn'
    <3> SUFFICES ASSUME ~stolen, NEW q \in Proc, db[q], pc'[q] \in {"apply", "up"} \/ done[q] # {}
                 PROVE  backups' # <<>> /\ backups'[Len(backups')] = base[q]
      BY <2>1 DEF NewestIsOwn
    <3>1. backups # <<>> /\ backups[Len(backups)] = base[q]
      BY <1>0, <2>2 DEF NewestIsOwn
    <3>2. backups \in Seq(SUBSET (1..Files))
      BY <1>0 DEF TypeOK
    <3> QED BY <2>1, <3>1, <3>2, NewestKept
  <2>5. DoneAfterBackup'
    BY <1>0, <2>1, <2>2 DEF DoneAfterBackup, Early
  <2> QED BY <2>3, <2>4, <2>5 DEF BackupInv
<1>6. ASSUME UNCHANGED <<applied, backups, base, done>>, stolen => stolen',
             \A r \in Proc :
               /\ pc'[r] \in {"apply", "up"} => pc[r] \in {"apply", "up"} /\ pending'[r] = pending[r]
               /\ pc'[r] \in Early \cup {"backup"} => pc[r] \in Early \cup {"backup"}
               /\ db'[r] => db[r] \/ (pc'[r] \in {"init", "backup"} /\ done[r] = {})
      PROVE  BackupInv'
  <2>1. NextUndoable'
    BY <1>0, <1>6 DEF NextUndoable
  <2>2. NewestIsOwn'
    <3> SUFFICES ASSUME ~stolen', NEW q \in Proc, db'[q], pc'[q] \in {"apply", "up"} \/ done'[q] # {}
                 PROVE  backups' # <<>> /\ backups'[Len(backups')] = base'[q]
      BY DEF NewestIsOwn
    <3>1. done' = done /\ backups' = backups /\ base' = base
      BY <1>6
    <3>2. db[q] /\ (pc[q] \in {"apply", "up"} \/ done[q] # {})
      BY <1>6, <3>1
    <3> QED BY <1>0, <1>6, <3>1, <3>2 DEF NewestIsOwn
  <2>3. DoneAfterBackup'
    BY <1>0, <1>6 DEF DoneAfterBackup
  <2> QED BY <2>1, <2>2, <2>3 DEF BackupInv
<1> QED BY <1>3, <1>4, <1>5, <1>6, BackupSteps

\* When a process commits a migration there is a backup without its own commits and with
\* all others, and under the lock it outlives the pruning while the database is open
\* (the backup and pruneBackups of migrate.ts).
THEOREM UndoBatch == Spec => BatchUndoable
<1> DEFINE I == FileInv /\ LockInv /\ ServeInv /\ BackupInv
<1>1. Init => I
  <2>1. Init => LockInv
    BY DEF Init, LockInv, OwnerHasLock, OpenWhileSet, UnsetEarly, Alive, Early
  <2>2. Init => ServeInv
    BY BootAssumption DEF Init, ServeInv, PastMigrations, ListenerLast, OpenToApply
  <2>3. Init => BackupInv
    BY DEF Init, BackupInv, NextUndoable, NewestIsOwn, DoneAfterBackup
  <2> QED BY <2>1, <2>2, <2>3, FileInit
<1>2. I /\ [Next]_vars => I'
  BY FileStep, LockStep, ServeStep, BackupStep
<1>3. I => \A p \in Proc : db[p] /\ done[p] # {} => stolen \/ base[p] \in ToSet(backups)
  <2> SUFFICES ASSUME I, NEW p \in Proc, db[p], done[p] # {}, ~stolen
               PROVE  base[p] \in ToSet(backups)
    OBVIOUS
  <2>1. backups # <<>> /\ backups[Len(backups)] = base[p] /\ backups \in Seq(SUBSET (1..Files))
    BY DEF BackupInv, NewestIsOwn, FileInv, TypeOK
  <2> QED BY <2>1 DEF ToSet
<1>4. I /\ [Next]_vars => [\A p \in Proc : done'[p] # done[p] =>
          /\ base[p] \in ToSet(backups)
          /\ base[p] \cup done[p] = applied]_vars
  <2> SUFFICES ASSUME I, [Next]_vars, NEW p \in Proc, done'[p] # done[p]
               PROVE  base[p] \in ToSet(backups) /\ base[p] \cup done[p] = applied
    OBVIOUS
  <2>0. TypeOK /\ NextUndoable
    BY DEF FileInv, BackupInv
  <2>1. PICK q \in Proc : (ApplySql(q) \/ EndTs(q)) /\ Commit(q)
    BY BackupSteps DEF BackedUp, Migrated, batch
  <2>2. p = q
    BY <2>0, <2>1 DEF Commit, TypeOK
  <2>3. pc[p] \in {"apply", "up"} /\ pending[p] # <<>> /\ Head(pending[p]) \notin applied
    BY <2>1, <2>2, CommitPending DEF Commit
  <2> QED BY <2>0, <2>3 DEF NextUndoable
<1> HIDE DEF I
<1>5. Spec => [](\A p \in Proc : db[p] /\ done[p] # {} => stolen \/ base[p] \in ToSet(backups))
  BY <1>1, <1>2, <1>3, PTL DEF Spec
<1>6. Spec => [][\A p \in Proc : done'[p] # done[p] =>
          /\ base[p] \in ToSet(backups)
          /\ base[p] \cup done[p] = applied]_vars
  BY <1>1, <1>2, <1>4, PTL DEF Spec
<1> QED
  BY <1>5, <1>6 DEF BatchUndoable
=============================================================================
