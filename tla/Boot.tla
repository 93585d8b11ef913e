-------------------------------- MODULE Boot --------------------------------
(* Processes of pi-oven-server on one data directory: boot and shutdown of    *)
(* index.ts, the lock of lock.ts, and migrate of state/migrate.ts.            *)
(*                                                                            *)
(* A step is what the process runs between two awaits; only during one of     *)
(* those can a signal handler run, so that none runs while .sql migrations    *)
(* are applied. A process can be killed anywhere. What the lock does is that  *)
(* of the proper-lockfile package: a directory whose mtime a timer keeps      *)
(* fresh, and which anyone may take over once it is ten seconds old.          *)
EXTENDS Naturals, Sequences, SequencesExt, FiniteSets

CONSTANTS Proc,        \* processes, each started once at most
          None,        \* no process
          Files,       \* migration files 1..Files, in the order of their names
          Ts,          \* those that are .ts, whose up is awaited
          Keep,        \* backups kept (10 in the code)
          MaxSignals   \* bound: signals each process handles

ASSUME BootAssumption ==
  /\ None \notin Proc
  /\ Files \in Nat \ {0} /\ Ts \subseteq 1..Files
  /\ Keep \in Nat \ {0} /\ MaxSignals \in Nat

VARIABLES
  lock,      \* whose directory server.lock.lock is, or None
  stale,     \* it is more than ten seconds old
  applied,   \* the files with a row in _migrations
  backups,   \* state.db.bak.*, oldest first: the rows each holds
  pc,        \* what boot of each process awaits
  pending,   \* migrate's pending, less what it has applied
  base,      \* the rows its backup holds
  done,      \* migrate's applied: the files it has committed itself
  db,        \* the process has state.db open
  listener,  \* it has assigned listener
  rel,       \* its release: unset, set, started (released is TRUE), removed
  status,    \* the status that the one awaiting release exits with
  closing,   \* shutdowns that await listener.close
  signals,   \* signals handled
  stolen     \* a lock was taken from a process that was alive

disk == <<lock, stale, applied, backups>>
batch == <<pending, base, done>>
vars == <<disk, pc, batch, db, listener, rel, status, closing, signals, stolen>>

Killed == 137
Awaits == {"lock", "locked", "backup", "up", "init", "bind", "ready", "release"}

TypeOK ==
  /\ lock \in Proc \cup {None} /\ stale \in BOOLEAN
  /\ applied \subseteq 1..Files /\ backups \in Seq(SUBSET (1..Files))
  /\ pc \in [Proc -> Awaits \cup {"off", "apply", "gone"}]
  /\ pending \in [Proc -> Seq(1..Files)] /\ base \in [Proc -> SUBSET (1..Files)]
  /\ done \in [Proc -> SUBSET (1..Files)]
  /\ db \in [Proc -> BOOLEAN] /\ listener \in [Proc -> BOOLEAN]
  /\ rel \in [Proc -> {"unset", "set", "started", "removed"}]
  /\ status \in [Proc -> {0, 1, Killed}]
  /\ closing \in [Proc -> 0..MaxSignals] /\ signals \in [Proc -> 0..MaxSignals]
  /\ stolen \in BOOLEAN

Init ==
  /\ lock = None /\ stale = FALSE /\ applied = {} /\ backups = <<>>
  /\ pc = [p \in Proc |-> "off"]
  /\ pending = [p \in Proc |-> <<>>] /\ base = [p \in Proc |-> {}]
  /\ done = [p \in Proc |-> {}]
  /\ db = [p \in Proc |-> FALSE] /\ listener = [p \in Proc |-> FALSE]
  /\ rel = [p \in Proc |-> "unset"] /\ status = [p \in Proc |-> 0]
  /\ closing = [p \in Proc |-> 0] /\ signals = [p \in Proc |-> 0]
  /\ stolen = FALSE

Alive(p) == pc[p] \notin {"off", "gone"}
Goto(p, step) == pc' = [pc EXCEPT ![p] = step]
CloseDb(p) == db' = [db EXCEPT ![p] = FALSE]

-----------------------------------------------------------------------------
(* How a process ends                                                         *)

\* process.exit. The removal of the directory, once begun, may still happen.
Exit(p, s) ==
  /\ Goto(p, "gone") /\ CloseDb(p)
  /\ listener' = [listener EXCEPT ![p] = FALSE]
  /\ status' = [status EXCEPT ![p] = s]
  /\ lock' \in IF rel[p] = "started" THEN {lock, None} ELSE {lock}

\* await release?.(), then process.exit(s). The database is closed before. Whoever
\* finds no release, or one that has been called, does not wait.
ReleaseThenExit_DbLast(p, s, meanwhile) ==
  \/ /\ rel[p] = "set"
     /\ rel' = [rel EXCEPT ![p] = "started"]
     /\ status' = [status EXCEPT ![p] = s]
     /\ Goto(p, meanwhile)
     /\ UNCHANGED <<lock, db, listener>>
  \/ rel[p] # "set" /\ Exit(p, s) /\ UNCHANGED rel
ReleaseThenExit_NotAwaited(p, s, meanwhile) == Exit(p, s) /\ UNCHANGED rel
ReleaseThenExit(p, s, meanwhile) ==
  \/ /\ rel[p] = "set"
     /\ rel' = [rel EXCEPT ![p] = "started"]
     /\ status' = [status EXCEPT ![p] = s]
     /\ Goto(p, meanwhile)
     /\ CloseDb(p)
     /\ UNCHANGED <<lock, listener>>
  \/ rel[p] # "set" /\ Exit(p, s) /\ UNCHANGED rel

\* boot's catch: the database is closed, which rolls back a transaction.
Fail(p) ==
  /\ ReleaseThenExit(p, 1, "release")
  /\ UNCHANGED <<stale, applied, backups, batch, closing, signals, stolen>>

\* The directory is gone, whoever it belonged to.
Removed(p) ==
  /\ Alive(p) /\ rel[p] = "started"
  /\ rel' = [rel EXCEPT ![p] = "removed"]
  /\ lock' = None /\ stale' = FALSE
  /\ UNCHANGED <<applied, backups, pc, batch, db, listener, status, closing, signals, stolen>>

Released(p) ==
  /\ Alive(p) /\ pc[p] # "apply" /\ rel[p] = "removed"
  /\ Exit(p, status[p])
  /\ UNCHANGED <<stale, applied, backups, batch, rel, closing, signals, stolen>>

\* SIGKILL, or the machine.
Kill(p) ==
  /\ Alive(p)
  /\ Goto(p, "gone") /\ CloseDb(p)
  /\ listener' = [listener EXCEPT ![p] = FALSE]
  /\ status' = [status EXCEPT ![p] = Killed]
  /\ UNCHANGED <<disk, batch, rel, closing, signals, stolen>>

\* The lock's timer finds the directory gone, or another's: the error it throws is
\* not caught.
Compromised(p) ==
  /\ Alive(p) /\ pc[p] # "apply" /\ rel[p] = "set" /\ lock # p
  /\ Exit(p, 1)
  /\ UNCHANGED <<stale, applied, backups, batch, rel, closing, signals, stolen>>

-----------------------------------------------------------------------------
(* The lock                                                                   *)

Start(p) ==
  /\ pc[p] = "off"
  /\ \/ Goto(p, "lock") /\ UNCHANGED status
     \/ Goto(p, "gone") /\ status' = [status EXCEPT ![p] = 1]
  /\ UNCHANGED <<disk, batch, db, listener, rel, closing, signals, stolen>>

\* The directory is made, or taken over.
TakeLock(p) ==
  /\ pc[p] = "lock" /\ (lock = None \/ stale)
  /\ lock' = p /\ stale' = FALSE
  /\ stolen' = (stolen \/ (lock # None /\ Alive(lock)))
  /\ Goto(p, "locked")
  /\ UNCHANGED <<applied, backups, batch, db, listener, rel, status, closing, signals>>

\* ELOCKED: no retries.
Refused(p) ==
  /\ pc[p] = "lock" /\ lock # None /\ ~stale
  /\ Exit(p, 1)
  /\ UNCHANGED <<stale, applied, backups, batch, rel, closing, signals, stolen>>

\* Ten seconds without the timer: its process is dead, or runs a migration.
GoesStale ==
  /\ lock # None /\ ~stale
  /\ pc[lock] \in {"gone", "apply"}
  /\ stale' = TRUE
  /\ UNCHANGED <<lock, applied, backups, pc, batch, db, listener, rel, status, closing, signals, stolen>>

Refresh(p) ==
  /\ lock = p /\ stale /\ Alive(p) /\ pc[p] # "apply" /\ rel[p] \in {"unset", "set"}
  /\ stale' = FALSE
  /\ UNCHANGED <<lock, applied, backups, pc, batch, db, listener, rel, status, closing, signals, stolen>>

-----------------------------------------------------------------------------
(* boot, from the lock to "ready"                                             *)

\* readdir, sorted, less the rows.
Unapplied == [i \in 1..Cardinality((1..Files) \ applied) |->
                CHOOSE f \in (1..Files) \ applied : Cardinality({g \in (1..Files) \ applied : g < f}) = i - 1]

\* The logger starts, the database is opened, and migrate runs up to db.backup, or
\* to its end if nothing is pending.
Open(p) ==
  /\ db' = [db EXCEPT ![p] = TRUE]
  /\ pending' = [pending EXCEPT ![p] = Unapplied]
  /\ Goto(p, IF Unapplied = <<>> THEN "init" ELSE "backup")
  /\ rel' = [rel EXCEPT ![p] = "set"]
  /\ UNCHANGED <<disk, base, done, listener, status, closing, signals, stolen>>

\* One of these throws: a log directory that cannot be made, a file that is no
\* database, a checksum that differs, an applied file that is missing.
OpenFails(p) ==
  /\ rel' = [rel EXCEPT ![p] = "started"]
  /\ status' = [status EXCEPT ![p] = 1]
  /\ Goto(p, "release")
  /\ UNCHANGED <<disk, batch, db, listener, closing, signals, stolen>>

Locked(p) == pc[p] = "locked" /\ (Open(p) \/ OpenFails(p))

\* The backup completes; it holds what is committed by then.
TakeBackup_FirstTimeOnly(p) ==
  IF backups = <<>> THEN backups' = <<applied>> ELSE UNCHANGED backups
TakeBackup(p) == backups' = Append(backups, applied)

BackedUp(p) ==
  /\ pc[p] = "backup"
  /\ \/ /\ db[p]
        /\ TakeBackup(p)
        /\ base' = [base EXCEPT ![p] = applied]
        /\ Goto(p, "apply")
        /\ UNCHANGED <<lock, stale, applied, pending, done, db, listener, rel, status, closing, signals, stolen>>
     \/ Fail(p)

InTransaction(p) == pc[p] = "up" /\ db[p]

\* BEGIN IMMEDIATE waits for another process's transaction, five seconds at most.
Begins(p) == pc[p] = "apply" /\ pending[p] # <<>> /\ \A q \in Proc : ~InTransaction(q)

\* The row is inserted, unless the name is there, and all of it is committed.
Commit(p) ==
  LET f == Head(pending[p])
  IN  /\ f \notin applied
      /\ applied' = applied \cup {f}
      /\ done' = [done EXCEPT ![p] = done[p] \cup {f}]
      /\ pending' = [pending EXCEPT ![p] = Tail(pending[p])]
      /\ Goto(p, "apply")
      /\ UNCHANGED <<lock, stale, backups, base, db, listener, rel, status, closing, signals, stolen>>

\* What fails is rolled back, and boot fails.
Throws_Skips(p) ==
  /\ pending' = [pending EXCEPT ![p] = Tail(pending[p])]
  /\ Goto(p, "apply")
  /\ UNCHANGED <<disk, base, done, db, listener, rel, status, closing, signals, stolen>>
Throws(p) == Fail(p)

ApplySql(p) == Begins(p) /\ Head(pending[p]) \notin Ts /\ (Commit(p) \/ Throws(p))

\* SQLITE_BUSY
BeginFails(p) == pc[p] = "apply" /\ pending[p] # <<>> /\ Fail(p)

BeginTs(p) ==
  /\ Begins(p) /\ Head(pending[p]) \in Ts
  /\ Goto(p, "up")
  /\ UNCHANGED <<disk, batch, db, listener, rel, status, closing, signals, stolen>>

\* import and up have returned; a shutdown may have closed the database meanwhile.
EndTs(p) ==
  /\ pc[p] = "up"
  /\ \/ db[p] /\ Commit(p)
     \/ Throws(p)

\* pruneBackups, and migrate returns.
Prune_Oldest == backups' = SubSeq(backups, 1, IF Len(backups) < Keep THEN Len(backups) ELSE Keep)
Prune == backups' = SubSeq(backups, IF Len(backups) > Keep THEN Len(backups) - Keep + 1 ELSE 1, Len(backups))

Migrated(p) ==
  /\ pc[p] = "apply" /\ pending[p] = <<>>
  /\ Prune
  /\ Goto(p, "init")
  /\ UNCHANGED <<lock, stale, applied, batch, db, listener, rel, status, closing, signals, stolen>>

\* The workspaces are there.
ManagerReady(p) ==
  /\ pc[p] = "init"
  /\ \/ Goto(p, "bind") /\ UNCHANGED <<disk, batch, db, listener, rel, status, closing, signals, stolen>>
     \/ Fail(p)

\* The listener is bound and assigned, also when a shutdown is under way.
Bound(p) ==
  /\ pc[p] = "bind"
  /\ \/ /\ listener' = [listener EXCEPT ![p] = TRUE]
        /\ Goto(p, "ready")
        /\ UNCHANGED <<disk, batch, db, rel, status, closing, signals, stolen>>
     \/ Fail(p)

-----------------------------------------------------------------------------
(* shutdown, once for each signal                                             *)

ShutdownStatus == 0

\* What follows listener?.close().
CloseAndRelease(p) ==
  /\ ReleaseThenExit(p, ShutdownStatus, pc[p])
  /\ UNCHANGED <<stale, applied, backups, batch, stolen>>

Signal(p) ==
  /\ pc[p] \in Awaits /\ signals[p] < MaxSignals
  /\ signals' = [signals EXCEPT ![p] = signals[p] + 1]
  /\ \/ /\ listener[p]
        /\ closing' = [closing EXCEPT ![p] = closing[p] + 1]
        /\ UNCHANGED <<disk, pc, batch, db, listener, rel, status, stolen>>
     \/ ~listener[p] /\ CloseAndRelease(p) /\ UNCHANGED closing

\* listener.close has returned or thrown.
ListenerClosed(p) ==
  /\ Alive(p) /\ closing[p] > 0
  /\ closing' = [closing EXCEPT ![p] = closing[p] - 1]
  /\ CloseAndRelease(p)
  /\ UNCHANGED signals

Next ==
  \/ GoesStale
  \/ \E p \in Proc :
       \/ Start(p) \/ TakeLock(p) \/ Refused(p) \/ Refresh(p) \/ Compromised(p)
       \/ Locked(p) \/ BackedUp(p) \/ ApplySql(p) \/ BeginTs(p) \/ EndTs(p) \/ BeginFails(p)
       \/ Migrated(p) \/ ManagerReady(p) \/ Bound(p)
       \/ Signal(p) \/ ListenerClosed(p) \/ Removed(p) \/ Released(p) \/ Kill(p)

Spec == Init /\ [][Next]_vars

-----------------------------------------------------------------------------
(* Properties                                                                 *)

\* The database is open only in the process that has the lock, through signals
\* during boot, failures and shutdowns, unless the lock was taken from a process
\* that could not keep it fresh.
LockHeldWhileOpen == stolen \/ \A p \in Proc : db[p] => lock = p

\* No client is served before every migration is committed, also if two processes
\* migrate: "a half-migrated DB is never visible on the wire".
ReadyIsMigrated == \A p \in Proc : listener[p] => applied = 1..Files

\* When a process commits a migration there is a backup that lacks what it has
\* committed and nothing else: to restore it undoes its batch, and no other's, even
\* if two processes migrate. Under the lock it is kept while the database is open.
BatchUndoable ==
  /\ [][\A p \in Proc : done'[p] # done[p] =>
          /\ base[p] \in ToSet(backups)
          /\ base[p] \cup done[p] = applied]_vars
  /\ [](\A p \in Proc : db[p] /\ done[p] # {} => stolen \/ base[p] \in ToSet(backups))

\* A process that ends by itself leaves its lock only if it ends before it has it
\* in hand, or in the middle of its removal, at a signal that finds it released:
\* the second one, or one during a boot that fails.
LockLeftOnlyInHaste ==
  \A p \in Proc : lock = p /\ pc[p] = "gone" /\ status[p] # Killed =>
    \/ rel[p] = "unset"
    \/ rel[p] = "started" /\ signals[p] > 0
=============================================================================
