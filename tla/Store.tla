------------------------------- MODULE Store -------------------------------
(***************************************************************************)
(* internal/store/store.go: the store file of the daemon.  Open creates or *)
(* locks it, migrates its schema in one transaction and checks it; Backup  *)
(* writes a snapshot while transactions go on; Restore builds a checked    *)
(* copy under a temporary name and links it to the path.  Processes stop   *)
(* between any two steps.                                                  *)
(*                                                                         *)
(* A file is an index into disk.  Its content is the schema version, the   *)
(* migrations whose buckets exist, the value of one record and the number  *)
(* of audit records, and whether bbolt's own check passes.                 *)
(***************************************************************************)
EXTENDS Naturals, Sequences

CONSTANTS
  Procs,                \* processes that open or restore the store
  CurrentSchemaVersion, \* 6 in the code
  Foreign,              \* contents of backups from elsewhere
  MaxValue,             \* the record's values are 1..MaxValue; 0 when it is absent
  MaxAudit,             \* bound on the audit records
  MaxFiles              \* bound on the files that a SetAside or a Restore starts from

Content(version, buckets, value, audit, sound) ==
  [version |-> version, buckets |-> buckets, value |-> value, audit |-> audit, sound |-> sound]

Contents == [version : Nat, buckets : SUBSET Nat, value : Nat, audit : Nat, sound : BOOLEAN]

ASSUME StoreAssumption ==
  /\ {CurrentSchemaVersion, MaxValue, MaxAudit, MaxFiles} \subseteq Nat \ {0}
  /\ Foreign \subseteq Contents

VARIABLES
  disk,    \* the content of every file that was ever created
  path,    \* the file at Options.Path, 0 when there is none
  temp,    \* the file at the temporary name of a process's Restore, or 0
  left,    \* the files that still have the temporary name of a Restore that is over
  procs,   \* what every process is doing
  backup   \* the last backup: [announced, content], or none

vars == <<disk, path, temp, left, procs, backup>>

\* A process at rest.  tx is the content its write transaction would commit, view
\* what the read transaction of a backup sees.
Idle == [pc |-> "idle", file |-> 0, tx |-> Content(0, {}, 0, 0, TRUE), view |-> {}]

Labels == {"idle", "open", "update", "migrate", "check", "copy", "openTemp", "link", "remove", "openPath"}

\* A content with every bucket its version calls for; migrations and
\* ensureDataBuckets do not mind others.
Complete(content) == content.sound /\ 1..content.version \subseteq content.buckets

\* bbolt creates a file without buckets; the version of such a file is 0.
NewFile == Content(0, {}, 0, 0, TRUE)

Damaged == Content(0, {}, 0, 0, FALSE)

NoBackup == [announced |-> 0, content |-> NewFile]

Init ==
  /\ \/ disk = <<>> /\ path = 0
     \/ \E v \in 1..CurrentSchemaVersion : disk = <<Content(v, 1..v, 1, 0, TRUE)>> /\ path = 1
  /\ temp = [p \in Procs |-> 0]
  /\ left = {}
  /\ procs = [p \in Procs |-> Idle]
  /\ backup = NoBackup

Locked(file) == \E p \in Procs : procs[p].file = file

Goto(p, pc) == procs' = [procs EXCEPT ![p] = [procs[p] EXCEPT !.pc = pc]]

\* Mutant: the handle is closed and not given up.
FailKeepsFile(p) == procs' = [procs EXCEPT ![p] = [Idle EXCEPT !.pc = "closed"]]

\* The handle, its lock and its transactions are given up.
Fail(p) == procs' = [procs EXCEPT ![p] = Idle]

-----------------------------------------------------------------------------
(* Open                                                                    *)

\* A process holds the file and has begun the migration's transaction.
Holding(p, file, content) ==
  procs' = [procs EXCEPT ![p] = [procs[p] EXCEPT !.pc = "migrate", !.file = file, !.tx = content]]

\* Mutant: the file lock is not taken.
OpenFileShared(p) ==
  /\ procs[p].pc \in {"idle", "openPath"}
  /\ IF path = 0
     THEN /\ disk' = Append(disk, NewFile)
          /\ path' = Len(disk) + 1
          /\ Holding(p, Len(disk) + 1, NewFile)
     ELSE Holding(p, path, disk[path]) /\ UNCHANGED <<disk, path>>
  /\ UNCHANGED <<temp, left, backup>>

\* bbolt.Open on the path, for Open itself or at the end of Restore: it creates
\* a missing file, and fails with ErrLockTimeout on one that another process has.
OpenFile(p) ==
  /\ procs[p].pc \in {"idle", "openPath"}
  /\ IF path = 0
     THEN /\ disk' = Append(disk, NewFile)
          /\ path' = Len(disk) + 1
          /\ Holding(p, Len(disk) + 1, NewFile)
     ELSE /\ IF Locked(path) THEN Fail(p) ELSE Holding(p, path, disk[path])
          /\ UNCHANGED <<disk, path>>
  /\ UNCHANGED <<temp, left, backup>>

\* The deferred os.Remove of a temporary name.  Its error is dropped: the name may
\* stay.
CleanupTemporary(p) ==
  /\ temp' = [temp EXCEPT ![p] = 0]
  /\ \E kept \in SUBSET ({temp[p]} \ {0}) : left' = left \cup kept

\* The failure of an open, by itself or of Restore's own copy.
FailOpen(p) == Fail(p) /\ CleanupTemporary(p)

\* readSchemaVersion: buckets without a version are an integrity error.
Readable(content) == content.version > 0 \/ content.buckets = {}

\* nextMigration and its apply: the buckets of one more version.
Applied(tx) == [tx EXCEPT !.version = @ + 1, !.buckets = @ \cup {tx.version + 1}]

\* Mutant: every migration commits by itself.
MigrateEagerly(p) ==
  LET tx == procs[p].tx
  IN  /\ procs[p].pc = "migrate" /\ Readable(tx) /\ tx.version < CurrentSchemaVersion
      /\ disk' = [disk EXCEPT ![procs[p].file] = Applied(tx)]
      /\ procs' = [procs EXCEPT ![p] = [procs[p] EXCEPT !.tx = Applied(tx)]]
      /\ UNCHANGED <<path, temp, left, backup>>

\* migrate: one migration of the loop.
Migrate(p) ==
  LET tx == procs[p].tx
  IN  /\ procs[p].pc = "migrate" /\ Readable(tx) /\ tx.version < CurrentSchemaVersion
      /\ procs' = [procs EXCEPT ![p] = [procs[p] EXCEPT !.tx = Applied(tx)]]
      /\ UNCHANGED <<disk, path, temp, left, backup>>

EnsureDataBuckets(content) == 1..CurrentSchemaVersion \subseteq content.buckets

\* migrate: the commit.
Migrated(p) ==
  /\ procs[p].pc = "migrate"
  /\ procs[p].tx.version = CurrentSchemaVersion /\ EnsureDataBuckets(procs[p].tx)
  /\ disk' = [disk EXCEPT ![procs[p].file] = procs[p].tx]
  /\ Goto(p, "check")
  /\ UNCHANGED <<path, temp, left, backup>>

\* migrate: rollback, because the content is not one this binary can migrate, or
\* because the disk is full.
MigrateFails(p) ==
  /\ procs[p].pc = "migrate"
  /\ FailOpen(p)
  /\ UNCHANGED <<disk, path, backup>>

\* CheckIntegrity.  A store at the path is handed to the caller; Restore closes
\* the one under its temporary name.
Check(p) ==
  /\ procs[p].pc = "check"
  /\ IF ~disk[procs[p].file].sound
     THEN FailOpen(p)
     ELSE /\ IF temp[p] # 0
             THEN procs' = [procs EXCEPT ![p] = [Idle EXCEPT !.pc = "link"]]
             ELSE procs' = [procs EXCEPT ![p] = [procs[p] EXCEPT !.pc = "open", !.tx = NewFile]]
          /\ UNCHANGED <<temp, left>>
  /\ UNCHANGED <<disk, path, backup>>

-----------------------------------------------------------------------------
(* The open store                                                          *)

\* Update begins a write transaction.
Update(p) ==
  /\ procs[p].pc = "open"
  /\ procs' = [procs EXCEPT ![p] =
                 [procs[p] EXCEPT !.pc = "update", !.tx = disk[procs[p].file]]]
  /\ UNCHANGED <<disk, path, temp, left, backup>>

Write(p, content) ==
  /\ procs[p].pc = "update"
  /\ procs' = [procs EXCEPT ![p] = [procs[p] EXCEPT !.tx = content]]
  /\ UNCHANGED <<disk, path, temp, left, backup>>

\* Tx.Put and Tx.Delete on a bucket other than the audit bucket.
Put(p) == \E value \in 1..MaxValue : Write(p, [procs[p].tx EXCEPT !.value = value])

Delete(p) == Write(p, [procs[p].tx EXCEPT !.value = 0])

\* Tx.AppendAudit, under a key that is not there yet.
AppendAudit(p) ==
  procs[p].tx.audit < MaxAudit /\ Write(p, [procs[p].tx EXCEPT !.audit = @ + 1])

EndUpdate(p) ==
  procs' = [procs EXCEPT ![p] = [procs[p] EXCEPT !.pc = "open", !.tx = NewFile]]

Commit(p) ==
  /\ procs[p].pc = "update"
  /\ disk' = [disk EXCEPT ![procs[p].file] = procs[p].tx]
  /\ EndUpdate(p)
  /\ UNCHANGED <<path, temp, left, backup>>

\* The callback returns an error, or the disk is full.
Rollback(p) ==
  /\ procs[p].pc = "update"
  /\ EndUpdate(p)
  /\ UNCHANGED <<disk, path, temp, left, backup>>

Size(content) == 1 + content.audit + IF content.value > 0 THEN 1 ELSE 0

\* BackupWithSize: a read transaction begins, and ready is told its size.
BeginBackup(p) ==
  /\ procs[p].pc \in {"open", "update"} /\ procs[p].view = {}
  /\ procs' = [procs EXCEPT ![p] = [procs[p] EXCEPT !.view = {disk[procs[p].file]}]]
  /\ UNCHANGED <<disk, path, temp, left, backup>>

EndView(p) == procs' = [procs EXCEPT ![p] = [procs[p] EXCEPT !.view = {}]]

\* Mutant: the content is that of a transaction of its own.
WriteToLate(p) ==
  /\ procs[p].pc \in {"open", "update"}
  /\ \E seen \in procs[p].view :
       backup' = [announced |-> Size(seen), content |-> disk[procs[p].file]]
  /\ EndView(p)
  /\ UNCHANGED <<disk, path, temp, left>>

\* BackupWithSize: what the transaction saw is written, whatever has been committed
\* since.  The transfer may break off.
WriteTo(p) ==
  /\ procs[p].pc \in {"open", "update"}
  /\ \E seen \in procs[p].view : \E content \in {seen, Damaged} :
       backup' = [announced |-> Size(seen), content |-> content]
  /\ EndView(p)
  /\ UNCHANGED <<disk, path, temp, left>>

Close(p) ==
  /\ procs[p].pc = "open"
  /\ Fail(p)
  /\ UNCHANGED <<disk, path, temp, left, backup>>

-----------------------------------------------------------------------------
(* Restore                                                                 *)

\* Mutant: one temporary name for all, which is opened when it is there.
RestoreFixedName(p) ==
  LET there == (left \cup {temp[q] : q \in Procs}) \ {0}
  IN  /\ procs[p].pc = "idle" /\ Len(disk) < MaxFiles
      /\ path = 0
      /\ IF there = {}
         THEN disk' = Append(disk, Damaged) /\ temp' = [temp EXCEPT ![p] = Len(disk) + 1]
         ELSE \E file \in there : temp' = [temp EXCEPT ![p] = file] /\ UNCHANGED disk
      /\ procs' = [procs EXCEPT ![p] = [Idle EXCEPT !.pc = "copy"]]
      /\ UNCHANGED <<path, left, backup>>

\* The target must not exist; CreateTemp makes a file under a name that is not
\* there yet.
Restore(p) ==
  /\ procs[p].pc = "idle" /\ Len(disk) < MaxFiles
  /\ path = 0
  /\ disk' = Append(disk, Damaged)
  /\ temp' = [temp EXCEPT ![p] = Len(disk) + 1]
  /\ procs' = [procs EXCEPT ![p] = [Idle EXCEPT !.pc = "copy"]]
  /\ UNCHANGED <<path, left, backup>>

\* Mutant: a copy is linked without having been opened.
CopyUnchecked(p) ==
  /\ procs[p].pc = "copy"
  /\ \E content \in Foreign \cup {backup.content} :
       disk' = [disk EXCEPT ![temp[p]] = content] /\ Goto(p, "link")
  /\ UNCHANGED <<path, temp, left, backup>>

\* io.Copy, Sync and Close.
Copy(p) ==
  /\ procs[p].pc = "copy"
  /\ \E content \in Foreign \cup {backup.content} :
       disk' = [disk EXCEPT ![temp[p]] = content] /\ Goto(p, "openTemp")
  /\ UNCHANGED <<path, temp, left, backup>>

\* A step fails, and the deferred os.Remove runs.  After the link the step that
\* fails is os.Remove itself, and the path stays.
RestoreFails(p) ==
  /\ procs[p].pc \in {"copy", "openTemp", "link", "remove"}
  /\ Fail(p) /\ CleanupTemporary(p)
  /\ UNCHANGED <<disk, path, backup>>

\* The copy is opened like a store, under its own name and lock.
OpenTemp(p) ==
  /\ procs[p].pc = "openTemp"
  /\ Holding(p, temp[p], disk[temp[p]])
  /\ UNCHANGED <<disk, path, temp, left, backup>>

\* Mutant: the copy is renamed to the path.
LinkRenames(p) ==
  /\ procs[p].pc = "link"
  /\ path' = temp[p] /\ Goto(p, "remove")
  /\ UNCHANGED <<disk, temp, left, backup>>

\* os.Link, which fails when the path exists.
Link(p) ==
  /\ procs[p].pc = "link"
  /\ IF path = 0
     THEN path' = temp[p] /\ Goto(p, "remove") /\ UNCHANGED <<temp, left>>
     ELSE FailOpen(p) /\ UNCHANGED path
  /\ UNCHANGED <<disk, backup>>

\* Mutant: an error of os.Remove is dropped.
RemoveUnchecked(p) ==
  /\ procs[p].pc = "remove"
  /\ CleanupTemporary(p)
  /\ Goto(p, "openPath")
  /\ UNCHANGED <<disk, path, backup>>

\* os.Remove of the temporary name; Restore goes on to open the path.
Remove(p) ==
  /\ procs[p].pc = "remove"
  /\ temp' = [temp EXCEPT ![p] = 0]
  /\ Goto(p, "openPath")
  /\ UNCHANGED <<disk, path, left, backup>>

-----------------------------------------------------------------------------
(* Stops and the operator                                                  *)

\* A process stops: its locks are gone, nothing deferred runs, and a temporary name
\* stays.
Crash(p) ==
  /\ procs[p].pc # "idle"
  /\ Fail(p)
  /\ temp' = [temp EXCEPT ![p] = 0]
  /\ left' = left \cup ({temp[p]} \ {0})
  /\ UNCHANGED <<disk, path, backup>>

\* docs/operations.md: the operator stops the daemon and moves the file away.
SetAside ==
  /\ path # 0 /\ Len(disk) < MaxFiles
  /\ \A p \in Procs : procs[p].pc = "idle"
  /\ path' = 0
  /\ UNCHANGED <<disk, temp, left, procs, backup>>

Next ==
  \/ \E p \in Procs :
       \/ OpenFile(p) \/ Migrate(p) \/ Migrated(p) \/ MigrateFails(p) \/ Check(p)
       \/ Update(p) \/ Put(p) \/ Delete(p) \/ AppendAudit(p) \/ Commit(p) \/ Rollback(p)
       \/ BeginBackup(p) \/ WriteTo(p) \/ Close(p)
       \/ Restore(p) \/ Copy(p) \/ RestoreFails(p) \/ OpenTemp(p) \/ Link(p) \/ Remove(p)
       \/ Crash(p)
  \/ SetAside

Spec == Init /\ [][Next]_vars

-----------------------------------------------------------------------------
(* Properties                                                              *)

\* Type invariant.
TypeOK ==
  /\ disk \in Seq(Contents)
  /\ path \in 0..Len(disk)
  /\ temp \in [Procs -> 0..Len(disk)]
  /\ left \in SUBSET (1..Len(disk))
  /\ procs \in [Procs -> [pc : Labels, file : 0..Len(disk), tx : Contents, view : SUBSET Contents]]
  /\ backup \in [announced : Nat, content : Contents]

\* Wherever processes stop, the path holds no file, an empty one that Open has
\* just created, or a complete one of some schema version: never a part of a copy,
\* a damaged backup or a half migrated store.
PathComplete == path # 0 => Complete(disk[path])

\* store.go:405: Restore "never overwrites an existing target": a file at the path
\* stays there until the operator, with no process at work, moves it away.
NeverOverwritten ==
  [][path # 0 /\ path' # path => path' = 0 /\ \A p \in Procs : procs[p].pc = "idle"]_vars

\* The schema of a file at the path changes to the current one in one step, and its
\* audit records are never taken away (Put and Delete refuse the audit bucket).
\* The records of any file change only by the commit of the process that has it
\* open, and by the copying of a backup into it: a migration, a check, a link or a
\* stop keeps them, so that a restored store has the records of its backup.
UpgradeAtomic ==
  [][/\ path # 0 /\ path' = path =>
          /\ disk'[path].version \in {disk[path].version, CurrentSchemaVersion}
          /\ disk'[path].audit >= disk[path].audit
     /\ \A f \in DOMAIN disk :
          \/ disk'[f].value = disk[f].value /\ disk'[f].audit = disk[f].audit
          \/ \E p \in Procs :
               \/ procs[p].pc = "update" /\ procs[p].file = f
               \/ procs[p].pc = "copy" /\ temp[p] = f]_vars

\* A store that Open or Restore has handed out is complete, of the current version,
\* at the path, and that of one process only.
OpenStoreSound ==
  \A p \in Procs : procs[p].pc \in {"open", "update"} =>
    /\ procs[p].file = path
    /\ Complete(disk[path]) /\ disk[path].version = CurrentSchemaVersion
    /\ \A q \in Procs : q # p => procs[q].file # path

\* store.go:381: ready is called "with the exact byte count that will be written",
\* whatever commits in the meantime.
BackupFramed == backup.content.sound /\ backup # NoBackup =>
  backup.announced = Size(backup.content)

\* Until Restore links it to the path, the copy it builds and checks is its alone:
\* no other process has it open, builds its own copy in it, or has left it behind.
CopyPrivate == \A p \in Procs :
  temp[p] # 0 =>
    /\ temp[p] \notin left
    /\ \A q \in Procs : q # p =>
         temp[q] # temp[p] /\ (temp[p] # path => procs[q].file # temp[p])

\* store.go:464: Restore goes on to open the path only when the file there has no
\* other name; a stop or a failure may leave it one, and is never a success.
RestoredAlone == \A p \in Procs :
  procs[p].pc = "openPath" => path # 0 /\ path \notin left \cup {temp[q] : q \in Procs}

\* Open, Backup, Restore: the path holds no store, an empty or a complete one; an
\* open store is complete, current and of one process; a backup has the length
\* that was announced; the copy of a Restore is its alone; a Restore that goes on to
\* open the path has left no second name for the store.
StoreSound ==
  /\ TypeOK /\ PathComplete /\ OpenStoreSound /\ BackupFramed
  /\ CopyPrivate /\ RestoredAlone
=============================================================================
