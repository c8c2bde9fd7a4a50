---------------------------- MODULE StoreProofs ----------------------------
EXTENDS Store, TLAPS

-----------------------------------------------------------------------------
(* The store                                                               *)

\* The types of all but the temporary names that are left behind.
Types ==
  /\ disk \in Seq(Contents)
  /\ path \in 0..Len(disk)
  /\ temp \in [Procs -> 0..Len(disk)]
  /\ procs \in [Procs -> [pc : Labels, file : 0..Len(disk), tx : Contents, view : SUBSET Contents]]
  /\ backup \in [announced : Nat, content : Contents]

\* A process has a file and its lock at Held, and a temporary name at Copying; at
\* Private the temporary name is the only one of the copy.
Held == {"migrate", "check", "open", "update"}
Copying == {"copy", "openTemp", "link", "remove"}
Private == {"copy", "openTemp", "migrate", "check", "link"}

\* What a process relies on: it has the copy or the file at the path; the
\* migration has kept the records and, at the path, completeness; a copy is linked
\* when it is complete, and a transaction starts from a complete store.
ProcSound(p) ==
  LET c == procs[p]
      held == disk[c.file]
  IN  /\ (c.file = 0) <=> (c.pc \notin Held)
      /\ temp[p] # 0 => c.pc \in Private \cup {"remove"}
      /\ c.pc \in Copying => temp[p] # 0
      /\ temp[p] # 0 /\ c.pc \in Private => temp[p] # path
      /\ c.pc \in Held => c.file = IF temp[p] # 0 THEN temp[p] ELSE path
      /\ c.pc = "migrate" =>
           /\ c.tx.value = held.value /\ c.tx.audit = held.audit
           /\ temp[p] = 0 => Complete(c.tx)
      /\ c.pc = "check" =>
           held.version = CurrentSchemaVersion /\ 1..CurrentSchemaVersion \subseteq held.buckets
      /\ c.pc = "link" => Complete(disk[temp[p]])
      /\ c.pc \in {"open", "update"} => held.version = CurrentSchemaVersion
      /\ c.pc = "update" =>
           Complete(c.tx) /\ c.tx.version = CurrentSchemaVersion /\ c.tx.audit >= held.audit

\* No two processes have a file or a temporary name in common.
Apart ==
  \A p, q \in Procs : p # q =>
    /\ procs[p].file # 0 => procs[q].file # procs[p].file
    /\ temp[p] # 0 => temp[q] # temp[p]

\* The inductive invariant of the store.
StoreInv ==
  /\ Types
  /\ PathComplete
  /\ BackupFramed
  /\ Apart
  /\ \A p \in Procs : ProcSound(p)

\* The constants, and the contents the code writes.
LEMMA StoreValues ==
  /\ {CurrentSchemaVersion, MaxValue, MaxAudit, MaxFiles} \subseteq Nat \ {0}
  /\ Foreign \subseteq Contents
  /\ NewFile \in Contents /\ Damaged \in Contents
  /\ Complete(NewFile)
  /\ Idle.tx \in Contents
BY StoreAssumption DEF Contents, NewFile, Damaged, Content, Complete, Idle

\* At the start nothing is opened, and a file at the path is complete.
LEMMA StoreInit == Init => StoreInv
<1> SUFFICES ASSUME Init PROVE StoreInv
  OBVIOUS
<1>1. disk \in Seq(Contents) /\ path \in 0..Len(disk) /\ PathComplete
  <2>1. CASE disk = <<>> /\ path = 0
    BY <2>1 DEF PathComplete
  <2>2. ASSUME NEW v \in 1..CurrentSchemaVersion,
               disk = <<Content(v, 1..v, 1, 0, TRUE)>>, path = 1
        PROVE  disk \in Seq(Contents) /\ path \in 0..Len(disk) /\ PathComplete
    <3> DEFINE c == Content(v, 1..v, 1, 0, TRUE)
    <3>1. c \in Contents /\ Complete(c)
      BY StoreValues DEF Content, Contents, Complete
    <3>2. disk = <<c>> /\ path = 1
      BY <2>2
    <3> HIDE DEF c
    <3>3. Len(disk) = 1 /\ disk[1] = c /\ disk \in Seq(Contents)
      BY <3>1, <3>2
    <3> QED BY <3>1, <3>2, <3>3 DEF PathComplete
  <2>3. \/ disk = <<>> /\ path = 0
        \/ \E v \in 1..CurrentSchemaVersion :
             disk = <<Content(v, 1..v, 1, 0, TRUE)>> /\ path = 1
    BY Zenon DEF Init
  <2> QED BY <2>1, <2>2, <2>3, Zenon
<1>2. /\ temp = [p \in Procs |-> 0] /\ procs = [p \in Procs |-> Idle]
      /\ backup = NoBackup
  BY DEF Init
<1>3. Types
  <2>1. Idle \in [pc : Labels, file : 0..Len(disk), tx : Contents, view : SUBSET Contents]
    <3>1. Len(disk) \in Nat
      BY <1>1
    <3> QED BY <3>1, StoreValues DEF Idle, Labels, Content, Contents
  <2>2. backup \in [announced : Nat, content : Contents]
    BY <1>2, StoreValues DEF NoBackup
  <2> QED BY <1>1, <1>2, <2>1, <2>2 DEF Types
<1>4. BackupFramed
  BY <1>2 DEF BackupFramed
<1>5. Apart /\ \A p \in Procs : ProcSound(p)
  BY <1>2 DEF Apart, ProcSound, Idle, Held, Copying, Private
<1> QED BY <1>1, <1>3, <1>4, <1>5 DEF StoreInv

\* What the records of processes are.
ProcRecord == [pc : Labels, file : 0..Len(disk), tx : Contents, view : SUBSET Contents]

\* What a backup is.
Backups == [announced : Nat, content : Contents]

\* What the type invariant says of one process.
LEMMA ProcTypes ==
  ASSUME Types, NEW p \in Procs
  PROVE  /\ temp[p] \in 0..Len(disk)
         /\ procs[p] \in ProcRecord
         /\ procs[p].pc \in Labels /\ procs[p].file \in 0..Len(disk)
         /\ procs[p].tx \in Contents /\ procs[p].view \in SUBSET Contents
         /\ Len(disk) \in Nat
         /\ \A i \in 1..Len(disk) : disk[i] \in Contents
BY DEF Types, ProcRecord

\* A step leaves the process q as it was: its state, the file it has, the copy it
\* is about to link, and a path that it relies on.
Spared(q) ==
  /\ procs'[q] = procs[q] /\ temp'[q] = temp[q]
  /\ procs[q].pc = "link" => disk'[temp[q]] = disk[temp[q]]
  /\ procs[q].file # 0 => disk'[procs[q].file] = disk[procs[q].file]
  /\ path' = path \/ (path = 0 /\ path' # temp[q])

\* A process that is spared keeps what it relies on.
LEMMA SparedSound ==
  ASSUME StoreInv, NEW q \in Procs, Spared(q)
  PROVE  ProcSound(q)'
<1>1. ProcSound(q) /\ Types
  BY DEF StoreInv
<1>2. path = 0 /\ procs[q].pc \in Held => temp[q] # 0
  BY <1>1, ProcTypes DEF ProcSound
<1> QED BY <1>1, <1>2 DEF ProcSound, Spared, Copying, Held, Complete

\* A step of the process p: the others are spared, p itself is sound after it.
LEMMA ProcStep ==
  ASSUME StoreInv, NEW p \in Procs, Types', PathComplete', BackupFramed',
         ProcSound(p)',
         \A q \in Procs : q # p => Spared(q),
         procs'[p].file # 0 => \A q \in Procs : q # p => procs[q].file # procs'[p].file,
         temp'[p] # 0 => \A q \in Procs : q # p => temp[q] # temp'[p]
  PROVE  StoreInv'
<1>1. \A q \in Procs : ProcSound(q)'
  BY SparedSound
<1>2. Apart'
  BY DEF Apart, StoreInv, Spared
<1> QED BY <1>1, <1>2 DEF StoreInv

\* A step of p that leaves the files and the path alone.
LEMMA QuietStep ==
  ASSUME StoreInv, NEW p \in Procs, NEW r \in ProcRecord,
         procs' = [procs EXCEPT ![p] = r], UNCHANGED <<disk, path>>,
         temp' = temp \/ temp' = [temp EXCEPT ![p] = 0],
         backup' = backup \/ (backup' \in Backups /\ BackupFramed'),
         r.file # 0 => \A q \in Procs : q # p => procs[q].file # r.file,
         ProcSound(p)'
  PROVE  StoreInv'
<1>1. Types /\ temp \in [Procs -> 0..Len(disk)] /\ Len(disk) \in Nat
  BY DEF StoreInv, Types
<1>2. Types'
  <2>1. procs \in [Procs -> ProcRecord]
    BY <1>1 DEF Types, ProcRecord
  <2>3. procs' \in [Procs -> ProcRecord]
    BY <2>1
  <2>4. temp' \in [Procs -> 0..Len(disk)]
    BY <1>1
  <2>2. backup' \in [announced : Nat, content : Contents]
    BY <1>1 DEF Types, Backups
  <2> QED BY <1>1, <2>2, <2>3, <2>4 DEF Types, ProcRecord
<1>3. PathComplete' /\ BackupFramed'
  BY DEF StoreInv, PathComplete, BackupFramed
<1>4. procs'[p] = r /\ temp'[p] \in {0, temp[p]}
  BY <1>1 DEF Types
<1>5. \A q \in Procs : q # p => Spared(q)
  BY <1>1 DEF Types, Spared
<1>6. \A q \in Procs : q # p /\ temp[p] # 0 => temp[q] # temp[p]
  BY DEF StoreInv, Apart
<1> QED BY <1>2, <1>3, <1>4, <1>5, <1>6, ProcStep

\* A process at rest without a temporary name is sound.
LEMMA RestSound ==
  ASSUME NEW p \in Procs, procs'[p] = Idle, temp'[p] = 0
  PROVE  ProcSound(p)'
BY DEF ProcSound, Idle, Held, Copying, Private

\* The process gives up, with or without the removal of its temporary name.
LEMMA GiveUpStep ==
  ASSUME StoreInv, NEW p \in Procs, UNCHANGED <<disk, path, backup>>,
         Fail(p), (temp' = temp /\ temp[p] = 0) \/ temp' = [temp EXCEPT ![p] = 0]
  PROVE  StoreInv'
<1>1. Types
  BY DEF StoreInv
<1>2. Idle \in ProcRecord
  BY <1>1, StoreValues, ProcTypes DEF ProcRecord, Idle, Labels, Content, Contents
<1>3. procs' = [procs EXCEPT ![p] = Idle] /\ procs'[p] = Idle /\ temp'[p] = 0
  BY <1>1 DEF Fail, Types
<1>4. Idle.file = 0
  BY DEF Idle
<1> QED BY <1>2, <1>3, <1>4, RestSound, QuietStep, Zenon

\* Every step that ends in a failure or a stop.
LEMMA FailureSteps ==
  ASSUME StoreInv, NEW p \in Procs,
         MigrateFails(p) \/ Close(p) \/ RestoreFails(p) \/ Crash(p)
  PROVE  StoreInv'
<1>1. procs[p].pc = "open" => temp[p] = 0
  BY ProcTypes DEF StoreInv, ProcSound, Private
<1> QED BY <1>1, GiveUpStep DEF MigrateFails, FailOpen, CleanupTemporary, Close, RestoreFails, Crash

\* One migration adds the bucket of its version and nothing else.
LEMMA AppliedContent ==
  ASSUME NEW tx \in Contents
  PROVE  /\ Applied(tx) \in Contents
         /\ Applied(tx).value = tx.value /\ Applied(tx).audit = tx.audit
         /\ Complete(tx) => Complete(Applied(tx))
<1>3. tx.version + 1 \in Nat /\ tx.buckets \cup {tx.version + 1} \in SUBSET Nat
  BY DEF Contents
<1>4. \A v \in Nat, b \in SUBSET Nat :
        [tx EXCEPT !.version = v, !.buckets = b] \in Contents
  BY Zenon DEF Contents
<1>5. Applied(tx) =
        [tx EXCEPT !.version = tx.version + 1, !.buckets = tx.buckets \cup {tx.version + 1}]
  BY DEF Applied
<1>6. Applied(tx) \in Contents
  BY <1>3, <1>4, <1>5, Zenon
<1>1. /\ Applied(tx).value = tx.value /\ Applied(tx).audit = tx.audit
      /\ Applied(tx).version = tx.version + 1 /\ Applied(tx).sound = tx.sound
      /\ Applied(tx).buckets = tx.buckets \cup {tx.version + 1}
  BY DEF Applied, Contents
<1>2. 1..tx.version \subseteq tx.buckets
      => 1..(tx.version + 1) \subseteq tx.buckets \cup {tx.version + 1}
  BY DEF Contents
<1> QED BY <1>1, <1>2, <1>6 DEF Complete

\* The parts of a process's record after a change of the transaction.
LEMMA PartsTx ==
  ASSUME Types, NEW p \in Procs, NEW tx \in Contents, NEW r, r = [procs[p] EXCEPT !.tx = tx]
  PROVE  /\ r \in ProcRecord
         /\ r.pc = procs[p].pc /\ r.file = procs[p].file /\ r.tx = tx
BY ProcTypes DEF ProcRecord

\* The same for a label,
LEMMA PartsLabel ==
  ASSUME Types, NEW p \in Procs, NEW label \in Labels, NEW r,
         r = [procs[p] EXCEPT !.pc = label]
  PROVE  /\ r \in ProcRecord
         /\ r.pc = label /\ r.file = procs[p].file /\ r.tx = procs[p].tx
BY ProcTypes DEF ProcRecord

\* and for a process that holds nothing.
LEMMA PartsIdle ==
  ASSUME Types, NEW label \in Labels, NEW r, r = [Idle EXCEPT !.pc = label]
  PROVE  r \in ProcRecord /\ r.pc = label /\ r.file = 0 /\ r.tx = Idle.tx
<1>1. Len(disk) \in Nat
  BY DEF Types
<1>2. Idle \in ProcRecord /\ Idle.file = 0
  BY <1>1, StoreValues DEF ProcRecord, Idle, Labels, Content, Contents
<1> QED BY <1>2 DEF ProcRecord

\* What holds of a process before a step of it.
LEMMA Before ==
  ASSUME StoreInv, NEW p \in Procs
  PROVE  /\ Types /\ ProcSound(p) /\ PathComplete
         /\ procs[p].file # 0 => \A q \in Procs : q # p => procs[q].file # procs[p].file
         /\ procs[p].pc \in Labels /\ procs[p].file \in 0..Len(disk)
         /\ procs[p].tx \in Contents /\ procs[p].view \in SUBSET Contents
         /\ temp[p] \in 0..Len(disk) /\ path \in 0..Len(disk)
BY ProcTypes DEF StoreInv, Apart, Types

\* The record that a step gives to its process.
LEMMA After ==
  ASSUME StoreInv, NEW p \in Procs, NEW r, procs' = [procs EXCEPT ![p] = r]
  PROVE  procs'[p] = r
BY DEF StoreInv, Types

\* A process goes on with the file it has, and the files stay as they are.
LEMMA GoOnStep ==
  ASSUME StoreInv, NEW p \in Procs, NEW r \in ProcRecord,
         procs' = [procs EXCEPT ![p] = r], r.file \in {0, procs[p].file},
         UNCHANGED <<disk, path, temp>>,
         backup' = backup \/ (backup' \in Backups /\ BackupFramed'),
         ProcSound(p)'
  PROVE  StoreInv'
BY Before, QuietStep, Zenon

\* The labels.
LEMMA LabelValues ==
  /\ "idle" \in Labels /\ "open" \in Labels /\ "update" \in Labels /\ "migrate" \in Labels
  /\ "check" \in Labels /\ "copy" \in Labels /\ "openTemp" \in Labels /\ "link" \in Labels
  /\ "remove" \in Labels /\ "openPath" \in Labels
BY DEF Labels

\* One migration of the transaction.
LEMMA MigrateStep ==
  ASSUME StoreInv, NEW p \in Procs, Migrate(p)
  PROVE  StoreInv'
<1> DEFINE r == [procs[p] EXCEPT !.tx = Applied(procs[p].tx)]
<1>1. /\ r \in ProcRecord /\ r.pc = procs[p].pc /\ r.file = procs[p].file
      /\ r.tx = Applied(procs[p].tx)
  BY Before, PartsTx, AppliedContent
<1>2. /\ procs[p].pc = "migrate" /\ procs' = [procs EXCEPT ![p] = r]
      /\ UNCHANGED <<disk, path, temp, backup>>
  BY DEF Migrate
<1> HIDE DEF r
<1>3. procs'[p] = r
  BY <1>2, After, Zenon
<1>4. ProcSound(p)'
  BY <1>1, <1>2, <1>3, Before, AppliedContent, SMTT(30) DEF ProcSound
<1> QED BY <1>1, <1>2, <1>4, GoOnStep, Zenon

\* A process has an open store: its file is the one at the path.
LEMMA OpenPlace ==
  ASSUME StoreInv, NEW p \in Procs, procs[p].pc \in {"open", "update"}
  PROVE  /\ procs[p].file = path /\ path # 0 /\ path \in 1..Len(disk) /\ temp[p] = 0
         /\ disk[path] \in Contents /\ Complete(disk[path])
         /\ disk[path].version = CurrentSchemaVersion
<1>1. /\ procs[p].file = path /\ path # 0 /\ temp[p] = 0
      /\ disk[path].version = CurrentSchemaVersion
  BY Before DEF ProcSound, Held, Private
<1>2. path \in 1..Len(disk) /\ disk[path] \in Contents
  BY <1>1, Before, ProcTypes
<1> QED BY <1>1, <1>2, Before DEF PathComplete

\* A write transaction begins, on the content of a complete store.
LEMMA UpdateStep ==
  ASSUME StoreInv, NEW p \in Procs, Update(p)
  PROVE  StoreInv'
<1> DEFINE tx == disk[procs[p].file]
           r == [procs[p] EXCEPT !.pc = "update", !.tx = tx]
<1>1. /\ procs[p].pc = "open" /\ procs' = [procs EXCEPT ![p] = r]
      /\ UNCHANGED <<disk, path, temp, backup>>
  BY DEF Update
<1>2. /\ procs[p].file = path /\ path # 0 /\ temp[p] = 0 /\ tx = disk[path]
      /\ disk[path] \in Contents /\ Complete(disk[path])
      /\ disk[path].version = CurrentSchemaVersion
  BY <1>1, OpenPlace
<1> HIDE DEF tx
<1>3. r \in ProcRecord /\ r.pc = "update" /\ r.file = procs[p].file /\ r.tx = tx
  <2>1. Types
    BY Before
  <2> QED BY <1>2, <2>1, LabelValues, ProcTypes, Zenon DEF ProcRecord
<1> HIDE DEF r
<1>4. procs'[p] = r
  BY <1>1, After, Zenon
<1>5. disk[path].audit \in Nat
  BY <1>2 DEF Contents
<1>6. ProcSound(p)'
  BY <1>1, <1>2, <1>3, <1>4, <1>5 DEF ProcSound, Held, Copying, Private
<1> QED BY <1>1, <1>3, <1>6, GoOnStep, Zenon

\* A change of a record, or one more audit record, in the transaction.
LEMMA WriteStep ==
  ASSUME StoreInv, NEW p \in Procs, Put(p) \/ Delete(p) \/ AppendAudit(p)
  PROVE  StoreInv'
<1> DEFINE tx == procs[p].tx
<1>1. tx \in Contents
  BY Before
<1>2. PICK content \in Contents :
        /\ Write(p, content)
        /\ content.version = tx.version /\ content.buckets = tx.buckets
        /\ content.sound = tx.sound /\ content.audit >= tx.audit
  <2>1. \A v \in Nat : LET c == [tx EXCEPT !.value = v]
                       IN  /\ c \in Contents /\ c.version = tx.version /\ c.buckets = tx.buckets
                           /\ c.sound = tx.sound /\ c.audit >= tx.audit
    BY <1>1 DEF Contents
  <2>2. LET c == [tx EXCEPT !.audit = @ + 1]
        IN  /\ c \in Contents /\ c.version = tx.version /\ c.buckets = tx.buckets
            /\ c.sound = tx.sound /\ c.audit >= tx.audit
    BY <1>1 DEF Contents
  <2>3. 1..MaxValue \subseteq Nat /\ 0 \in Nat
    BY StoreValues
  <2> QED BY <2>1, <2>2, <2>3, Zenon DEF Put, Delete, AppendAudit
<1> DEFINE r == [procs[p] EXCEPT !.tx = content]
<1>3. /\ procs[p].pc = "update" /\ procs' = [procs EXCEPT ![p] = r]
      /\ UNCHANGED <<disk, path, temp, backup>>
  BY <1>2 DEF Write
<1>4. r \in ProcRecord /\ r.pc = procs[p].pc /\ r.file = procs[p].file /\ r.tx = content
  BY <1>2, Before, PartsTx
<1> HIDE DEF r
<1>5. procs'[p] = r
  BY <1>3, After, Zenon
<1>6. procs[p].file = path /\ path # 0 /\ disk[path] \in Contents
  BY <1>3, Before, ProcTypes DEF ProcSound, Held, Private
<1>7. content.audit >= disk[path].audit
  <2>1. tx.audit >= disk[path].audit
    BY <1>3, <1>6, Before DEF ProcSound
  <2> QED BY <1>1, <1>2, <1>6, <2>1 DEF Contents
<1>8. ProcSound(p)'
  <2>1. ProcSound(p) /\ Complete(tx) /\ tx.version = CurrentSchemaVersion
    BY <1>3, Before DEF ProcSound
  <2>2. Complete(content)
    BY <1>2, <2>1 DEF Complete
  <2> QED BY <1>2, <1>3, <1>4, <1>5, <1>6, <1>7, <2>1, <2>2 DEF ProcSound
<1> QED BY <1>3, <1>4, <1>8, GoOnStep, Zenon

\* The transaction ends.
LEMMA EndUpdateParts ==
  ASSUME StoreInv, NEW p \in Procs, EndUpdate(p)
  PROVE  \E r \in ProcRecord :
           /\ procs' = [procs EXCEPT ![p] = r] /\ procs'[p] = r
           /\ r.pc = "open" /\ r.file = procs[p].file
<1> DEFINE r == [procs[p] EXCEPT !.pc = "open", !.tx = NewFile]
<1>1. Types /\ NewFile \in Contents
  BY Before, StoreValues
<1>2. r \in ProcRecord /\ r.pc = "open" /\ r.file = procs[p].file
  BY <1>1, LabelValues, ProcTypes, Zenon DEF ProcRecord
<1>3. procs' = [procs EXCEPT ![p] = r]
  BY DEF EndUpdate
<1> HIDE DEF r
<1>4. procs'[p] = r
  BY <1>3, After, Zenon
<1> QED BY <1>2, <1>3, <1>4, Zenon

\* The transaction is rolled back.
LEMMA RollbackStep ==
  ASSUME StoreInv, NEW p \in Procs, Rollback(p)
  PROVE  StoreInv'
<1>1. procs[p].pc = "update" /\ EndUpdate(p) /\ UNCHANGED <<disk, path, temp, backup>>
  BY DEF Rollback
<1>2. PICK r \in ProcRecord :
        /\ procs' = [procs EXCEPT ![p] = r] /\ procs'[p] = r
        /\ r.pc = "open" /\ r.file = procs[p].file
  BY <1>1, EndUpdateParts
<1>3. ProcSound(p)'
  BY <1>1, <1>2, OpenPlace DEF ProcSound, Held, Copying, Private
<1> QED BY <1>1, <1>2, <1>3, GoOnStep, Zenon

\* A process that only begins or ends a read transaction stays sound.
LEMMA ViewSound ==
  ASSUME StoreInv, NEW p \in Procs, UNCHANGED <<disk, path, temp>>,
         procs'[p].pc = procs[p].pc, procs'[p].file = procs[p].file, procs'[p].tx = procs[p].tx
  PROVE  ProcSound(p)'
BY Before DEF ProcSound

\* A backup's read transaction begins.
LEMMA BeginBackupStep ==
  ASSUME StoreInv, NEW p \in Procs, BeginBackup(p)
  PROVE  StoreInv'
<1> DEFINE v == {disk[procs[p].file]}
           r == [procs[p] EXCEPT !.view = v]
<1>1. /\ procs[p].pc \in {"open", "update"} /\ procs' = [procs EXCEPT ![p] = r]
      /\ UNCHANGED <<disk, path, temp, backup>>
  BY DEF BeginBackup
<1>2. {disk[procs[p].file]} \in SUBSET Contents
  BY <1>1, OpenPlace
<1>3. /\ r \in ProcRecord
      /\ r.pc = procs[p].pc /\ r.file = procs[p].file /\ r.tx = procs[p].tx
  <2>1. v \in SUBSET Contents /\ Types
    BY <1>2, Before
  <2> HIDE DEF v
  <2> QED BY <2>1, ProcTypes DEF ProcRecord
<1> HIDE DEF r
<1>4. procs'[p] = r
  BY <1>1, After, Zenon
<1>5. ProcSound(p)'
  BY <1>1, <1>3, <1>4, ViewSound, Zenon
<1> QED BY <1>1, <1>3, <1>5, GoOnStep, Zenon

\* The size of a content is a number.
LEMMA SizeType == ASSUME NEW content \in Contents PROVE Size(content) \in Nat
BY DEF Size, Contents

\* The backup is what its transaction saw, of the announced size, or broken off.
LEMMA WriteToStep ==
  ASSUME StoreInv, NEW p \in Procs, WriteTo(p)
  PROVE  StoreInv'
<1> DEFINE v == {}
           r == [procs[p] EXCEPT !.view = v]
<1>1. procs' = [procs EXCEPT ![p] = r] /\ UNCHANGED <<disk, path, temp>>
  BY DEF WriteTo, EndView
<1>2. /\ r \in ProcRecord
      /\ r.pc = procs[p].pc /\ r.file = procs[p].file /\ r.tx = procs[p].tx
  <2>1. v \in SUBSET Contents /\ Types
    BY Before
  <2> HIDE DEF v
  <2> QED BY <2>1, ProcTypes DEF ProcRecord
<1> HIDE DEF r
<1>3. procs'[p] = r
  BY <1>1, After, Zenon
<1>4. ProcSound(p)'
  BY <1>1, <1>2, <1>3, ViewSound, Zenon
<1>5. PICK seen \in procs[p].view : \E content \in {seen, Damaged} :
        backup' = [announced |-> Size(seen), content |-> content]
  BY DEF WriteTo
<1>10. PICK content \in {seen, Damaged} :
         backup' = [announced |-> Size(seen), content |-> content]
  BY <1>5
<1>6. seen \in Contents /\ content \in Contents /\ Size(seen) \in Nat
  BY <1>5, <1>10, Before, StoreValues, SizeType
<1>7. backup' \in Backups
  BY <1>6, <1>10 DEF Backups
<1>8. content.sound => content = seen
  BY <1>10 DEF Damaged, Content
<1>9. BackupFramed'
  BY <1>8, <1>10 DEF BackupFramed
<1> QED BY <1>1, <1>2, <1>4, <1>7, <1>9, GoOnStep, Zenon

\* The check of a migrated file: a sound copy may be linked, a sound store at the
\* path is open.
LEMMA CheckStep ==
  ASSUME StoreInv, NEW p \in Procs, Check(p)
  PROVE  StoreInv'
<1>1. procs[p].pc = "check" /\ UNCHANGED <<disk, path, backup>>
  BY DEF Check
<1>2. /\ procs[p].file = IF temp[p] # 0 THEN temp[p] ELSE path
      /\ disk[procs[p].file].version = CurrentSchemaVersion
      /\ 1..CurrentSchemaVersion \subseteq disk[procs[p].file].buckets
      /\ temp[p] # 0 => temp[p] # path
      /\ procs[p].file # 0
  BY <1>1, Before DEF ProcSound, Held, Private
<1>3. CASE ~disk[procs[p].file].sound
  BY <1>1, <1>3, GiveUpStep DEF Check, FailOpen, CleanupTemporary
<1>4. CASE disk[procs[p].file].sound /\ temp[p] # 0
  <2> DEFINE r == [Idle EXCEPT !.pc = "link"]
  <2>1. procs' = [procs EXCEPT ![p] = r] /\ temp' = temp
    BY <1>4 DEF Check
  <2>2. r \in ProcRecord /\ r.pc = "link" /\ r.file = 0
    BY Before, LabelValues, PartsIdle, Zenon
  <2> HIDE DEF r
  <2>3. procs'[p] = r
    BY <2>1, After, Zenon
  <2>4. Complete(disk[temp[p]])
    BY <1>2, <1>4 DEF Complete
  <2>5. ProcSound(p)'
    BY <1>1, <1>2, <1>4, <2>1, <2>2, <2>3, <2>4 DEF ProcSound, Held, Copying, Private, Complete
  <2> QED BY <1>1, <2>1, <2>2, <2>5, GoOnStep, Zenon
<1>5. CASE disk[procs[p].file].sound /\ temp[p] = 0
  <2>1. EndUpdate(p) /\ temp' = temp
    BY <1>5 DEF Check, EndUpdate
  <2>2. PICK r \in ProcRecord :
          /\ procs' = [procs EXCEPT ![p] = r] /\ procs'[p] = r
          /\ r.pc = "open" /\ r.file = procs[p].file
    BY <2>1, EndUpdateParts
  <2>3. ProcSound(p)'
    BY <1>1, <1>2, <1>5, <2>1, <2>2 DEF ProcSound, Held, Copying, Private
  <2> QED BY <1>1, <2>1, <2>2, <2>3, GoOnStep, Zenon
<1> QED BY <1>3, <1>4, <1>5

\* A process takes a file that no other has, and begins its migration.
LEMMA HoldingParts ==
  ASSUME StoreInv, NEW p \in Procs, NEW file \in 1..Len(disk), Holding(p, file, disk[file])
  PROVE  \E r \in ProcRecord :
           /\ procs' = [procs EXCEPT ![p] = r] /\ procs'[p] = r
           /\ r.pc = "migrate" /\ r.file = file /\ r.tx = disk[file]
<1> DEFINE tx == disk[file]
           r == [procs[p] EXCEPT !.pc = "migrate", !.file = file, !.tx = tx]
<1>1. Types /\ tx \in Contents /\ file \in 0..Len(disk)
  BY Before, ProcTypes
<1>2. procs' = [procs EXCEPT ![p] = r]
  BY DEF Holding
<1> HIDE DEF tx
<1>3. r \in ProcRecord /\ r.pc = "migrate" /\ r.file = file /\ r.tx = tx
  BY <1>1, LabelValues, ProcTypes, Zenon DEF ProcRecord
<1> HIDE DEF r
<1>4. procs'[p] = r
  BY <1>2, After, Zenon
<1> QED BY <1>2, <1>3, <1>4, Zenon DEF tx

\* Restore opens its copy.
LEMMA OpenTempStep ==
  ASSUME StoreInv, NEW p \in Procs, OpenTemp(p)
  PROVE  StoreInv'
<1>1. /\ procs[p].pc = "openTemp" /\ Holding(p, temp[p], disk[temp[p]])
      /\ UNCHANGED <<disk, path, temp, backup>>
  BY DEF OpenTemp
<1>2. temp[p] # 0 /\ temp[p] # path /\ temp[p] \in 1..Len(disk)
  <2>1. temp[p] # 0 /\ temp[p] # path
    BY <1>1, Before DEF ProcSound, Copying, Private
  <2> QED BY <2>1, Before, ProcTypes
<1>3. PICK r \in ProcRecord :
        /\ procs' = [procs EXCEPT ![p] = r] /\ procs'[p] = r
        /\ r.pc = "migrate" /\ r.file = temp[p] /\ r.tx = disk[temp[p]]
  BY <1>1, <1>2, HoldingParts
<1>4. \A q \in Procs : q # p => procs[q].file # temp[p]
  <2> SUFFICES ASSUME NEW q \in Procs, q # p, procs[q].file = temp[p] PROVE FALSE
    OBVIOUS
  <2>1. procs[q].file \in {temp[q], path}
    BY <1>2, Before DEF ProcSound
  <2>2. temp[q] # temp[p]
    BY <1>2 DEF StoreInv, Apart
  <2> QED BY <1>2, <2>1, <2>2
<1>5. ProcSound(p)'
  BY <1>1, <1>2, <1>3 DEF ProcSound, Held, Copying, Private
<1> QED BY <1>1, <1>3, <1>4, <1>5, QuietStep, Zenon

\* The temporary name is removed after the link.
LEMMA RemoveStep ==
  ASSUME StoreInv, NEW p \in Procs, Remove(p)
  PROVE  StoreInv'
<1> DEFINE r == [procs[p] EXCEPT !.pc = "openPath"]
<1>1. /\ procs[p].pc = "remove" /\ procs' = [procs EXCEPT ![p] = r]
      /\ temp' = [temp EXCEPT ![p] = 0] /\ UNCHANGED <<disk, path, backup>>
  BY DEF Remove, Goto
<1>2. r \in ProcRecord /\ r.pc = "openPath" /\ r.file = procs[p].file
  BY Before, LabelValues, PartsLabel
<1> HIDE DEF r
<1>3. procs'[p] = r /\ temp'[p] = 0
  BY <1>1, Before DEF Types
<1>4. procs[p].file = 0
  BY <1>1, Before DEF ProcSound, Held
<1>5. ProcSound(p)'
  BY <1>1, <1>2, <1>3, <1>4 DEF ProcSound, Held, Copying, Private
<1> QED BY <1>1, <1>2, <1>4, <1>5, QuietStep, Zenon

\* An open of a path that holds a file: it is refused when another process has the
\* file.
LEMMA OpenFileStep ==
  ASSUME StoreInv, NEW p \in Procs, OpenFile(p), path # 0
  PROVE  StoreInv'
<1>1. procs[p].pc \in {"idle", "openPath"} /\ UNCHANGED <<disk, path, temp, backup>>
  BY DEF OpenFile
<1>2. temp[p] = 0 /\ procs[p].file = 0
  BY <1>1, Before DEF ProcSound, Held, Private
<1>3. CASE Locked(path)
  BY <1>1, <1>2, <1>3, GiveUpStep DEF OpenFile
<1>4. CASE ~Locked(path)
  <2>1. Holding(p, path, disk[path])
    BY <1>4 DEF OpenFile
  <2>2. path \in 1..Len(disk)
    BY Before, ProcTypes
  <2>3. PICK r \in ProcRecord :
          /\ procs' = [procs EXCEPT ![p] = r] /\ procs'[p] = r
          /\ r.pc = "migrate" /\ r.file = path /\ r.tx = disk[path]
    BY <2>1, <2>2, HoldingParts
  <2>4. \A q \in Procs : procs[q].file # path
    BY <1>4 DEF Locked
  <2>5. Complete(disk[path])
    BY Before DEF PathComplete
  <2>6. ProcSound(p)'
    BY <1>1, <1>2, <2>3, <2>5 DEF ProcSound, Held, Copying, Private, Complete
  <2> QED BY <1>1, <2>3, <2>4, <2>6, QuietStep, Zenon
<1> QED BY <1>3, <1>4

\* A step of p that writes one file, which no other process has or is about to
\* link; at the path the content is complete.
LEMMA FileStep ==
  ASSUME StoreInv, NEW p \in Procs, NEW r \in ProcRecord, NEW f \in 1..Len(disk),
         NEW c \in Contents,
         disk' = [disk EXCEPT ![f] = c], procs' = [procs EXCEPT ![p] = r],
         UNCHANGED <<path, temp, backup>>,
         f = path => Complete(c),
         \A q \in Procs : q # p => procs[q].file # f /\ (procs[q].pc = "link" => temp[q] # f),
         r.file \in {0, procs[p].file},
         ProcSound(p)'
  PROVE  StoreInv'
<1>1. Types /\ Len(disk) \in Nat /\ disk \in Seq(Contents)
  BY Before DEF Types
<1>2. /\ disk' \in Seq(Contents) /\ Len(disk') = Len(disk) /\ disk'[f] = c
      /\ \A i \in 1..Len(disk) : i # f => disk'[i] = disk[i]
  BY <1>1
<1>3. Types'
  <2>1. procs \in [Procs -> ProcRecord]
    BY <1>1 DEF Types, ProcRecord
  <2>2. procs' \in [Procs -> ProcRecord]
    BY <2>1
  <2>3. ProcRecord' = ProcRecord
    BY <1>2, Zenon DEF ProcRecord
  <2>4. procs' \in
          [Procs -> [pc : Labels, file : 0..Len(disk'), tx : Contents, view : SUBSET Contents]]
    BY <2>2, <2>3, Zenon DEF ProcRecord
  <2> QED BY <1>1, <1>2, <2>4 DEF Types
<1>4. PathComplete'
  <2>1. path \in 0..Len(disk) /\ PathComplete
    BY Before
  <2>2. CASE path = f
    BY <1>2, <2>2 DEF PathComplete
  <2>3. CASE path # f
    BY <1>2, <2>1, <2>3 DEF PathComplete
  <2> QED BY <2>2, <2>3
<1>5. BackupFramed'
  BY DEF StoreInv, BackupFramed
<1>6. procs'[p] = r /\ \A q \in Procs : q # p => procs'[q] = procs[q]
  BY <1>1 DEF Types
<1>7. \A q \in Procs : q # p => Spared(q)
  <2> SUFFICES ASSUME NEW q \in Procs, q # p PROVE Spared(q)
    OBVIOUS
  <2>1. procs[q].file \in 0..Len(disk) /\ temp[q] \in 0..Len(disk)
    BY Before
  <2>2. procs[q].pc = "link" => temp[q] # 0
    BY Before DEF ProcSound, Copying
  <2> QED BY <1>1, <1>2, <1>6, <2>1, <2>2 DEF Spared
<1>8. \A q \in Procs : q # p /\ temp[p] # 0 => temp[q] # temp[p]
  BY DEF StoreInv, Apart
<1> QED BY <1>3, <1>4, <1>5, <1>6, <1>7, <1>8, Before, ProcStep

\* The file of p, or its copy: no other process has it or is about to link it.
LEMMA OwnFile ==
  ASSUME StoreInv, NEW p \in Procs, NEW f,
         \/ procs[p].pc \in Held /\ f = procs[p].file
         \/ procs[p].pc = "copy" /\ f = temp[p]
  PROVE  /\ f \in 1..Len(disk)
         /\ \A q \in Procs : q # p => procs[q].file # f /\ (procs[q].pc = "link" => temp[q] # f)
<1>1. f # 0 /\ f \in {temp[p], path} /\ (f = path => procs[p].file = path)
  BY Before DEF ProcSound, Held, Copying, Private
<1>2. f \in 1..Len(disk)
  <2>1. temp[p] \in 0..Len(disk) /\ path \in 0..Len(disk) /\ Types
    BY Before
  <2>2. Len(disk) \in Nat
    BY <2>1 DEF Types
  <2> QED BY <1>1, <2>1, <2>2
<1>3. ASSUME NEW q \in Procs, q # p
      PROVE  procs[q].file # f /\ (procs[q].pc = "link" => temp[q] # f)
  <2>1. procs[q].pc = "link" => temp[q] # 0 /\ temp[q] # path
    BY Before DEF ProcSound, Copying, Private
  <2>2. procs[q].file # 0 => procs[q].file \in {temp[q], path}
    BY Before DEF ProcSound
  <2>3. temp[p] # 0 => temp[q] # temp[p]
    BY <1>3 DEF StoreInv, Apart
  <2>4. procs[p].file # 0 => procs[q].file # procs[p].file
    BY <1>3 DEF StoreInv, Apart
  <2> QED BY <1>1, <2>1, <2>2, <2>3, <2>4
<1> QED BY <1>2, <1>3

\* The commit of the migration.
LEMMA MigratedStep ==
  ASSUME StoreInv, NEW p \in Procs, Migrated(p)
  PROVE  StoreInv'
<1> DEFINE f == procs[p].file
           c == procs[p].tx
           r == [procs[p] EXCEPT !.pc = "check"]
<1>1. /\ procs[p].pc = "migrate" /\ c.version = CurrentSchemaVersion
      /\ 1..CurrentSchemaVersion \subseteq c.buckets
      /\ disk' = [disk EXCEPT ![f] = c] /\ procs' = [procs EXCEPT ![p] = r]
      /\ UNCHANGED <<path, temp, backup>>
  BY DEF Migrated, Goto, EnsureDataBuckets
<1>2. r \in ProcRecord /\ r.pc = "check" /\ r.file = f
  BY Before, LabelValues, PartsLabel
<1>3. c \in Contents /\ disk \in Seq(Contents)
  BY Before DEF Types
<1>4. /\ f \in 1..Len(disk)
      /\ \A q \in Procs : q # p => procs[q].file # f /\ (procs[q].pc = "link" => temp[q] # f)
  BY <1>1, OwnFile DEF Held
<1>5. /\ f = IF temp[p] # 0 THEN temp[p] ELSE path
      /\ temp[p] # 0 => temp[p] # path
      /\ temp[p] = 0 => Complete(c)
  BY <1>1, Before DEF ProcSound, Held, Private
<1> HIDE DEF r, f, c
<1>6. procs'[p] = r /\ disk'[f] = c
  <2>1. procs'[p] = r
    BY <1>1, After, Zenon
  <2>2. disk'[f] = c
    BY <1>1, <1>3, <1>4
  <2> QED BY <2>1, <2>2
<1>7. ProcSound(p)'
  BY <1>1, <1>2, <1>4, <1>5, <1>6, SMTT(30) DEF ProcSound, Held, Copying, Private
<1>8. r.file \in {0, procs[p].file}
  BY <1>2 DEF f
<1>9. f = path => Complete(c)
  BY <1>5
<1> QED BY <1>1, <1>2, <1>3, <1>4, <1>7, <1>8, <1>9, FileStep, Zenon

\* The commit of a transaction.
LEMMA CommitStep ==
  ASSUME StoreInv, NEW p \in Procs, Commit(p)
  PROVE  StoreInv'
<1> DEFINE c == procs[p].tx
<1>1. /\ procs[p].pc = "update" /\ EndUpdate(p)
      /\ disk' = [disk EXCEPT ![procs[p].file] = c] /\ UNCHANGED <<path, temp, backup>>
  BY DEF Commit
<1>2. procs[p].file = path /\ path \in 1..Len(disk) /\ path # 0 /\ temp[p] = 0
  BY <1>1, OpenPlace
<1>3. PICK r \in ProcRecord :
        /\ procs' = [procs EXCEPT ![p] = r] /\ procs'[p] = r
        /\ r.pc = "open" /\ r.file = procs[p].file
  BY <1>1, EndUpdateParts
<1>4. c \in Contents /\ disk \in Seq(Contents)
  BY Before DEF Types
<1>5. Complete(c) /\ c.version = CurrentSchemaVersion
  BY <1>1, Before DEF ProcSound
<1>6. \A q \in Procs : q # p => procs[q].file # path /\ (procs[q].pc = "link" => temp[q] # path)
  BY <1>1, <1>2, OwnFile DEF Held
<1> HIDE DEF c
<1>7. disk' = [disk EXCEPT ![path] = c] /\ disk'[path] = c
  BY <1>1, <1>2, <1>4
<1>8. ProcSound(p)'
  BY <1>1, <1>2, <1>3, <1>5, <1>7 DEF ProcSound, Held, Copying, Private
<1> QED BY <1>1, <1>2, <1>3, <1>4, <1>5, <1>6, <1>7, <1>8, FileStep, Zenon

\* The copy is written under the temporary name.
LEMMA CopyStep ==
  ASSUME StoreInv, NEW p \in Procs, Copy(p)
  PROVE  StoreInv'
<1> DEFINE r == [procs[p] EXCEPT !.pc = "openTemp"]
<1>1. PICK c \in Foreign \cup {backup.content} : disk' = [disk EXCEPT ![temp[p]] = c]
  BY Zenon DEF Copy
<1>2. /\ procs[p].pc = "copy" /\ procs' = [procs EXCEPT ![p] = r]
      /\ UNCHANGED <<path, temp, backup>>
  BY DEF Copy, Goto
<1>3. r \in ProcRecord /\ r.pc = "openTemp" /\ r.file = procs[p].file
  BY Before, LabelValues, PartsLabel
<1>4. c \in Contents /\ disk \in Seq(Contents)
  <2>1. backup.content \in Contents /\ disk \in Seq(Contents)
    BY Before DEF Types
  <2> QED BY <1>1, <2>1, StoreValues
<1>5. /\ temp[p] \in 1..Len(disk)
      /\ \A q \in Procs : q # p =>
           procs[q].file # temp[p] /\ (procs[q].pc = "link" => temp[q] # temp[p])
  BY <1>2, OwnFile
<1>6. temp[p] # 0 /\ temp[p] # path /\ procs[p].file = 0
  BY <1>2, Before DEF ProcSound, Held, Copying, Private
<1> HIDE DEF r
<1>7. procs'[p] = r
  BY <1>2, After, Zenon
<1>8. ProcSound(p)'
  BY <1>2, <1>3, <1>6, <1>7 DEF ProcSound, Held, Copying, Private
<1> QED BY <1>1, <1>2, <1>3, <1>4, <1>5, <1>6, <1>8, FileStep, Zenon

\* A step of p that creates a file: it is the last one, and p alone has it.
LEMMA CreateStep ==
  ASSUME StoreInv, NEW p \in Procs, NEW r, NEW c \in Contents,
         disk' = Append(disk, c), procs' = [procs EXCEPT ![p] = r],
         r \in ProcRecord', UNCHANGED backup, path = 0,
         r.file \in {0, Len(disk) + 1},
         \/ temp' = temp /\ path' = Len(disk) + 1 /\ Complete(c)
         \/ temp' = [temp EXCEPT ![p] = Len(disk) + 1] /\ path' = path,
         ProcSound(p)'
  PROVE  StoreInv'
<1>1. Types /\ Len(disk) \in Nat /\ disk \in Seq(Contents) /\ temp \in [Procs -> 0..Len(disk)]
  BY Before DEF Types
<1>2. /\ disk' \in Seq(Contents) /\ Len(disk') = Len(disk) + 1 /\ disk'[Len(disk) + 1] = c
      /\ \A i \in 1..Len(disk) : disk'[i] = disk[i]
  BY <1>1
<1>3. 0..Len(disk) \subseteq 0..Len(disk') /\ Len(disk) + 1 \in 0..Len(disk')
  BY <1>1, <1>2
<1>4. Types'
  <2>1. procs \in [Procs -> ProcRecord]
    BY <1>1 DEF Types, ProcRecord
  <2>2. ProcRecord \subseteq ProcRecord'
    BY <1>3 DEF ProcRecord
  <2>3. procs' \in [Procs -> ProcRecord']
    BY <2>1, <2>2
  <2>4. procs' \in
          [Procs -> [pc : Labels, file : 0..Len(disk'), tx : Contents, view : SUBSET Contents]]
    BY <2>3 DEF ProcRecord
  <2>5. temp' \in [Procs -> 0..Len(disk')] /\ path' \in 0..Len(disk')
    BY <1>1, <1>3
  <2>6. backup' \in [announced : Nat, content : Contents]
    BY <1>1 DEF Types
  <2> QED BY <1>2, <2>4, <2>5, <2>6 DEF Types
<1>5. PathComplete' /\ BackupFramed'
  BY <1>2 DEF StoreInv, PathComplete, BackupFramed
<1>6. /\ procs'[p] = r /\ temp'[p] \in {temp[p], Len(disk) + 1}
      /\ \A q \in Procs : q # p => procs'[q] = procs[q] /\ temp'[q] = temp[q]
  BY <1>1 DEF Types
<1>7. \A q \in Procs : q # p =>
        /\ temp[q] # Len(disk) + 1 /\ procs[q].file # Len(disk) + 1
        /\ Spared(q)
  <2> SUFFICES ASSUME NEW q \in Procs, q # p
               PROVE  /\ temp[q] # Len(disk) + 1 /\ procs[q].file # Len(disk) + 1
                      /\ Spared(q)
    OBVIOUS
  <2>1. procs[q].file \in 0..Len(disk) /\ temp[q] \in 0..Len(disk)
    BY Before
  <2>2. procs[q].pc = "link" => temp[q] # 0
    BY Before, Zenon DEF ProcSound, Copying
  <2>3. temp[q] # Len(disk) + 1 /\ procs[q].file # Len(disk) + 1
    BY <1>1, <2>1
  <2> QED BY <1>1, <1>2, <1>6, <2>1, <2>2, <2>3 DEF Spared
<1>8. \A q \in Procs : q # p /\ temp[p] # 0 => temp[q] # temp[p]
  BY DEF StoreInv, Apart
<1> QED BY <1>4, <1>5, <1>6, <1>7, <1>8, ProcStep

\* An open of a path without a file creates an empty store there.
LEMMA CreateFileStep ==
  ASSUME StoreInv, NEW p \in Procs, OpenFile(p), path = 0
  PROVE  StoreInv'
<1> DEFINE n == Len(disk) + 1
           r == [procs[p] EXCEPT !.pc = "migrate", !.file = n, !.tx = NewFile]
<1>1. /\ procs[p].pc \in {"idle", "openPath"} /\ disk' = Append(disk, NewFile)
      /\ path' = n /\ procs' = [procs EXCEPT ![p] = r] /\ UNCHANGED <<temp, backup>>
  BY DEF OpenFile, Holding
<1>2. temp[p] = 0
  BY <1>1, Before DEF ProcSound, Private
<1>3. /\ Types /\ NewFile \in Contents /\ Complete(NewFile)
      /\ disk \in Seq(Contents) /\ Len(disk) \in Nat
  BY Before, StoreValues DEF Types
<1>4. Len(disk') = n /\ n \in Nat /\ n # 0 /\ disk'[n] = NewFile
  BY <1>1, <1>3
<1> HIDE DEF n
<1>5. r \in ProcRecord' /\ r.pc = "migrate" /\ r.file = n /\ r.tx = NewFile
  <2>1. procs[p] \in [pc : Labels, file : 0..Len(disk), tx : Contents, view : SUBSET Contents]
    BY <1>3, ProcTypes DEF ProcRecord
  <2>2. n \in 0..Len(disk')
    BY <1>4
  <2> HIDE DEF NewFile
  <2> QED BY <1>3, <2>1, <2>2, LabelValues, Zenon DEF ProcRecord
<1> HIDE DEF r
<1>6. procs'[p] = r
  BY <1>1, After, Zenon
<1>7. ProcSound(p)'
  BY <1>1, <1>2, <1>3, <1>4, <1>5, <1>6 DEF ProcSound, Held, Copying, Private, Complete
<1> QED BY <1>1, <1>3, <1>5, <1>7, CreateStep, Zenon DEF n

\* Restore creates its temporary file.
LEMMA RestoreStep ==
  ASSUME StoreInv, NEW p \in Procs, Restore(p)
  PROVE  StoreInv'
<1> DEFINE n == Len(disk) + 1
           r == [Idle EXCEPT !.pc = "copy"]
<1>1. /\ path = 0 /\ disk' = Append(disk, Damaged) /\ temp' = [temp EXCEPT ![p] = n]
      /\ procs' = [procs EXCEPT ![p] = r] /\ UNCHANGED <<path, backup>>
  BY DEF Restore
<1>2. Types /\ Damaged \in Contents /\ disk \in Seq(Contents) /\ Len(disk) \in Nat
  <2>1. Types /\ Damaged \in Contents
    BY Before, StoreValues, Zenon
  <2>2. disk \in Seq(Contents)
    BY <2>1, Zenon DEF Types
  <2> QED BY <2>1, <2>2
<1>3. Len(disk') = n /\ n \in Nat /\ n # 0
  BY <1>1, <1>2
<1>4. r \in ProcRecord /\ r.pc = "copy" /\ r.file = 0
  BY <1>2, LabelValues, PartsIdle, Zenon
<1> HIDE DEF r
<1>5. r \in ProcRecord'
  <2>1. 0..Len(disk) \subseteq 0..Len(disk')
    BY <1>2, <1>3
  <2> QED BY <1>4, <2>1 DEF ProcRecord
<1> HIDE DEF n
<1>6. procs'[p] = r /\ temp'[p] = n
  BY <1>1, <1>2, Before DEF Types
<1>7. ProcSound(p)'
  BY <1>1, <1>3, <1>4, <1>6 DEF ProcSound, Held, Copying, Private
<1> QED BY <1>1, <1>2, <1>4, <1>5, <1>7, CreateStep, Zenon DEF n

\* The copy is linked to a free path; a path that is taken stays.
LEMMA LinkStep ==
  ASSUME StoreInv, NEW p \in Procs, Link(p)
  PROVE  StoreInv'
<1> DEFINE r == [procs[p] EXCEPT !.pc = "remove"]
<1>1. procs[p].pc = "link" /\ UNCHANGED <<disk, backup>>
  BY DEF Link
<1>2. CASE path # 0
  BY <1>1, <1>2, GiveUpStep DEF Link, FailOpen, CleanupTemporary
<1>3. CASE path = 0
  <2>1. path' = temp[p] /\ temp' = temp /\ procs' = [procs EXCEPT ![p] = r]
    BY <1>3 DEF Link, Goto
  <2>2. r \in ProcRecord /\ r.pc = "remove" /\ r.file = procs[p].file
    BY Before, LabelValues, PartsLabel
  <2>3. temp[p] # 0 /\ Complete(disk[temp[p]]) /\ procs[p].file = 0
    BY <1>1, Before, Zenon DEF ProcSound, Held, Copying
  <2> HIDE DEF r
  <2>4. Types /\ temp[p] \in 0..Len(disk) /\ BackupFramed
    BY Before DEF StoreInv
  <2>5. procs'[p] = r /\ \A q \in Procs : q # p => procs'[q] = procs[q]
    BY <2>1, <2>4 DEF Types
  <2>6. Types'
    <3>1. procs \in [Procs -> ProcRecord]
      BY <2>4 DEF Types, ProcRecord
    <3>2. procs' \in [Procs -> ProcRecord]
      BY <2>1, <2>2, <3>1
    <3> QED BY <1>1, <2>1, <2>4, <3>2 DEF Types, ProcRecord
  <2>7. PathComplete' /\ BackupFramed'
    BY <1>1, <2>1, <2>3, <2>4 DEF PathComplete, BackupFramed, Complete
  <2>8. ProcSound(p)'
    BY <1>1, <2>1, <2>2, <2>3, <2>5 DEF ProcSound, Held, Copying, Private
  <2>9. \A q \in Procs : q # p => temp[q] # temp[p]
    BY <2>3 DEF StoreInv, Apart
  <2>10. \A q \in Procs : q # p => Spared(q)
    BY <1>1, <1>3, <2>1, <2>5, <2>9 DEF Spared
  <2> QED BY <2>1, <2>2, <2>3, <2>5, <2>6, <2>7, <2>8, <2>9, <2>10, ProcStep
<1> QED BY <1>2, <1>3

\* The operator moves the file away while no process is at work.
LEMMA SetAsideStep == ASSUME StoreInv, SetAside PROVE StoreInv'
<1>1. /\ path' = 0 /\ UNCHANGED <<disk, temp, procs, backup>>
      /\ \A p \in Procs : procs[p].pc = "idle"
  BY DEF SetAside
<1>2. Types' /\ PathComplete' /\ BackupFramed' /\ Apart'
  BY <1>1 DEF StoreInv, Types, PathComplete, BackupFramed, Apart
<1>3. ASSUME NEW p \in Procs PROVE ProcSound(p)'
  BY <1>1, Before DEF ProcSound, Held, Copying, Private
<1> QED BY <1>2, <1>3 DEF StoreInv

\* Every step keeps the invariant of the store.
LEMMA StoreStepSound == ASSUME StoreInv, [Next]_vars PROVE StoreInv'
<1>1. CASE UNCHANGED vars
  <2>1. UNCHANGED <<disk, path, temp, procs, backup>>
    BY <1>1 DEF vars
  <2>2. Types' /\ PathComplete' /\ BackupFramed' /\ Apart'
    BY <2>1 DEF StoreInv, Types, PathComplete, BackupFramed, Apart
  <2>3. \A p \in Procs : ProcSound(p)'
    BY <2>1, Zenon DEF StoreInv, ProcSound
  <2> QED BY <2>2, <2>3 DEF StoreInv
<1>2. CASE SetAside
  BY <1>2, SetAsideStep
<1>3. ASSUME NEW p \in Procs,
             \/ OpenFile(p) \/ Migrate(p) \/ Migrated(p) \/ MigrateFails(p) \/ Check(p)
             \/ Update(p) \/ Put(p) \/ Delete(p) \/ AppendAudit(p) \/ Commit(p) \/ Rollback(p)
             \/ BeginBackup(p) \/ WriteTo(p) \/ Close(p)
             \/ Restore(p) \/ Copy(p) \/ RestoreFails(p) \/ OpenTemp(p) \/ Link(p) \/ Remove(p)
             \/ Crash(p)
      PROVE  StoreInv'
  BY <1>3, OpenFileStep, CreateFileStep, MigrateStep, MigratedStep, FailureSteps, CheckStep,
     UpdateStep, WriteStep, CommitStep, RollbackStep, BeginBackupStep, WriteToStep,
     RestoreStep, CopyStep, OpenTempStep, LinkStep, RemoveStep
<1> QED BY <1>1, <1>2, <1>3 DEF Next

-----------------------------------------------------------------------------
(* The names of files                                                      *)

\* A temporary name in use is not one that was left behind; after the link the
\* copy is at the path; and once its temporary name is removed the path is its only
\* name.
Names ==
  /\ left \in SUBSET (1..Len(disk))
  /\ \A p \in Procs :
       /\ temp[p] # 0 => temp[p] \notin left
       /\ procs[p].pc = "remove" => temp[p] = path
       /\ procs[p].pc = "openPath" =>
            path # 0 /\ path \notin left /\ \A q \in Procs : temp[q] # path

\* A step does not bring a process to the end of a Restore.
NotEnding == \A q \in Procs :
  procs'[q].pc = procs[q].pc \/ procs'[q].pc \notin {"remove", "openPath"}

\* A step that changes the record of one process, and not to one at the end of a
\* Restore.
LEMMA OneProcess ==
  ASSUME StoreInv, NEW p \in Procs, NEW r, procs' = [procs EXCEPT ![p] = r],
         r.pc \notin {"remove", "openPath"} \/ r.pc = procs[p].pc
  PROVE  NotEnding
<1>1. procs \in [Procs -> ProcRecord]
  BY DEF StoreInv, Types, ProcRecord
<1> QED BY <1>1, Zenon DEF NotEnding

\* The label of a record after each change that steps make to it.
LEMMA RecordLabels ==
  ASSUME NEW c \in ProcRecord, NEW label, NEW x, NEW file
  PROVE  /\ [c EXCEPT !.tx = x].pc = c.pc /\ [c EXCEPT !.view = x].pc = c.pc
         /\ [c EXCEPT !.pc = label].pc = label
         /\ [c EXCEPT !.pc = label, !.tx = x].pc = label
         /\ [c EXCEPT !.pc = label, !.file = file, !.tx = x].pc = label
         /\ [Idle EXCEPT !.pc = label].pc = label /\ Idle.pc = "idle"
BY DEF ProcRecord, Idle

\* A process holds a file, has failed, or has changed its transaction: it is not at
\* the end of a Restore.
LEMMA ElsewhereSteps ==
  ASSUME StoreInv, NEW p \in Procs,
         \/ \E x : procs' = [procs EXCEPT ![p] = [procs[p] EXCEPT !.tx = x]]
         \/ \E x : procs' = [procs EXCEPT ![p] = [procs[p] EXCEPT !.view = x]]
         \/ \E x, file : Holding(p, file, x)
         \/ \E x : procs' = [procs EXCEPT ![p] = [procs[p] EXCEPT !.pc = "update", !.tx = x]]
         \/ EndUpdate(p) \/ Fail(p) \/ Goto(p, "check") \/ Goto(p, "openTemp")
         \/ procs' = [procs EXCEPT ![p] = [Idle EXCEPT !.pc = "link"]]
         \/ procs' = [procs EXCEPT ![p] = [Idle EXCEPT !.pc = "copy"]]
  PROVE  NotEnding
<1>1. procs[p] \in ProcRecord
  BY Before, ProcTypes, Zenon
<1>2. ASSUME NEW label \in {"check", "openTemp"}, Goto(p, label) PROVE NotEnding
  <2> DEFINE r == [procs[p] EXCEPT !.pc = label]
  <2>1. r.pc = label /\ label \notin {"remove", "openPath"}
    BY <1>1, <1>2, Zenon DEF ProcRecord
  <2>2. procs' = [procs EXCEPT ![p] = r]
    BY <1>2, Zenon DEF Goto
  <2> HIDE DEF r
  <2> QED BY <2>1, <2>2, OneProcess, Zenon
<1>3. ASSUME NEW label \in {"link", "copy"},
             procs' = [procs EXCEPT ![p] = [Idle EXCEPT !.pc = label]]
      PROVE  NotEnding
  <2>1. label \notin {"remove", "openPath"}
    BY <1>3, Zenon
  <2> QED BY <1>1, <1>3, <2>1, RecordLabels, OneProcess, Zenon
<1>4. ASSUME NEW x, NEW label \in {"update", "open"},
             procs' = [procs EXCEPT ![p] = [procs[p] EXCEPT !.pc = label, !.tx = x]]
      PROVE  NotEnding
  <2> DEFINE r == [procs[p] EXCEPT !.pc = label, !.tx = x]
  <2>1. r.pc = label /\ label \notin {"remove", "openPath"}
    BY <1>1, <1>4, Zenon DEF ProcRecord
  <2>2. procs' = [procs EXCEPT ![p] = r]
    BY <1>4, Zenon
  <2> HIDE DEF r
  <2> QED BY <2>1, <2>2, OneProcess, Zenon
<1>5. ASSUME NEW x, NEW file, Holding(p, file, x) PROVE NotEnding
  <2> DEFINE r == [procs[p] EXCEPT !.pc = "migrate", !.file = file, !.tx = x]
  <2>1. r.pc = "migrate"
    BY <1>1, Zenon DEF ProcRecord
  <2>2. procs' = [procs EXCEPT ![p] = r]
    BY <1>5, Zenon DEF Holding
  <2> HIDE DEF r
  <2> QED BY <2>1, <2>2, OneProcess, Zenon
<1>6. CASE Fail(p)
  <2>1. "idle" \notin {"remove", "openPath"}
    BY Zenon
  <2> QED BY <1>1, <1>6, <2>1, RecordLabels, OneProcess, Zenon DEF Fail
<1>7. ASSUME NEW x,
             \/ procs' = [procs EXCEPT ![p] = [procs[p] EXCEPT !.tx = x]]
             \/ procs' = [procs EXCEPT ![p] = [procs[p] EXCEPT !.view = x]]
      PROVE  NotEnding
  BY <1>1, <1>7, RecordLabels, OneProcess, Zenon
<1>8. CASE EndUpdate(p)
  BY <1>4, <1>8, Zenon DEF EndUpdate
<1> QED BY <1>2, <1>3, <1>4, <1>5, <1>6, <1>7, <1>8, Zenon

\* A step that leaves the names alone.
LEMMA NamesKept ==
  ASSUME StoreInv, Names, UNCHANGED <<path, temp, left>>, Len(disk') = Len(disk), NotEnding
  PROVE  Names'
BY Zenon DEF Names, NotEnding

\* A process gives up, and its temporary name is removed or left behind.
LEMMA NamesGivenUp ==
  ASSUME StoreInv, Names, NEW p \in Procs, Fail(p), UNCHANGED <<disk, path>>,
         temp' = [temp EXCEPT ![p] = 0],
         left' \in SUBSET (left \cup ({temp[p]} \ {0}))
  PROVE  Names'
<1>1. NotEnding
  BY ElsewhereSteps, Zenon
<1>2. /\ temp[p] \in 0..Len(disk) /\ Len(disk) \in Nat
      /\ temp \in [Procs -> 0..Len(disk)]
  BY ProcTypes DEF StoreInv, Types
<1>3. left' \in SUBSET (1..Len(disk'))
  BY <1>2 DEF Names
<1>4. \A q \in Procs : q # p /\ temp[p] # 0 => temp[q] # temp[p]
  BY DEF StoreInv, Apart
<1>5. procs'[p].pc = "idle" /\ temp'[p] = 0 /\ \A q \in Procs : q # p => temp'[q] = temp[q]
  <2>1. procs'[p] = Idle
    BY After, Zenon DEF Fail
  <2>2. temp'[p] = 0 /\ \A q \in Procs : q # p => temp'[q] = temp[q]
    BY <1>2
  <2> QED BY <2>1, <2>2 DEF Idle
<1> QED BY <1>1, <1>3, <1>4, <1>5, Zenon DEF Names, NotEnding

\* Without a file at the path no Restore is between its link and its end.
LEMMA NoneEnding ==
  ASSUME StoreInv, Names, path = 0, NEW q \in Procs
  PROVE  procs[q].pc \notin {"remove", "openPath"}
<1>1. procs[q].pc = "remove" => temp[q] # 0
  BY Before, Zenon DEF ProcSound, Copying
<1> QED BY <1>1 DEF Names

\* A file is created, for the path or for the temporary name of p.
LEMMA NamesCreated ==
  ASSUME StoreInv, Names, NEW p \in Procs, path = 0, NEW c,
         disk' = Append(disk, c), NotEnding, left' = left,
         temp' \in {temp, [temp EXCEPT ![p] = Len(disk) + 1]}
  PROVE  Names'
<1>1. /\ disk \in Seq(Contents) /\ Len(disk) \in Nat
      /\ temp \in [Procs -> 0..Len(disk)]
  BY DEF StoreInv, Types
<1>2. Len(disk') = Len(disk) + 1
  BY <1>1
<1>3. left \in SUBSET (1..Len(disk))
  BY DEF Names
<1>4. left' \in SUBSET (1..Len(disk')) /\ Len(disk) + 1 \notin left
  BY <1>1, <1>2, <1>3
<1>5. \A q \in Procs : procs'[q].pc \notin {"remove", "openPath"}
  BY NoneEnding DEF NotEnding
<1>6. \A q \in Procs : temp'[q] \in {temp[q], Len(disk) + 1}
  BY <1>1
<1>7. \A q \in Procs : temp'[q] # 0 => temp'[q] \notin left'
  BY <1>4, <1>6 DEF Names
<1> QED BY <1>4, <1>5, <1>7 DEF Names

\* Every step keeps the names apart.
LEMMA NamesStep == ASSUME StoreInv, Names, [Next]_vars PROVE Names'
<1>1. CASE UNCHANGED vars
  BY <1>1, Zenon DEF vars, Names
<1>2. CASE SetAside
  BY <1>2 DEF SetAside, Names
<1>3. ASSUME NEW p \in Procs, MigrateFails(p) \/ RestoreFails(p) \/ Crash(p)
      PROVE  Names'
  <2>1. Fail(p) /\ UNCHANGED <<disk, path>> /\ temp' = [temp EXCEPT ![p] = 0]
    BY <1>3, Zenon DEF MigrateFails, RestoreFails, Crash, FailOpen, CleanupTemporary
  <2>2. left' \in SUBSET (left \cup ({temp[p]} \ {0}))
    BY <1>3 DEF MigrateFails, RestoreFails, Crash, FailOpen, CleanupTemporary
  <2> QED BY <2>1, <2>2, NamesGivenUp, Zenon
<1>4. ASSUME NEW p \in Procs,
             \/ Migrate(p) \/ Update(p) \/ Put(p) \/ Delete(p) \/ AppendAudit(p) \/ Rollback(p)
             \/ BeginBackup(p) \/ WriteTo(p) \/ Close(p) \/ OpenTemp(p)
      PROVE  Names'
  <2>1. UNCHANGED <<disk, path, temp, left>>
    BY <1>4, Zenon DEF Migrate, Update, Put, Delete, AppendAudit, Write, Rollback, BeginBackup,
                       WriteTo, Close, OpenTemp
  <2>2. NotEnding
    BY <1>4, ElsewhereSteps, Zenon
       DEF Migrate, Update, Put, Delete, AppendAudit, Write, Rollback, BeginBackup, WriteTo,
           EndView, Close, OpenTemp
  <2> QED BY <2>1, <2>2, NamesKept
<1>5. ASSUME NEW p \in Procs, Migrated(p) \/ Commit(p) \/ Copy(p)
      PROVE  Names'
  <2>1. UNCHANGED <<path, temp, left>>
    BY <1>5, Zenon DEF Migrated, Commit, Copy
  <2>2. Len(disk') = Len(disk)
    <3>1. disk \in Seq(Contents)
      BY DEF StoreInv, Types
    <3> QED BY <1>5, <3>1 DEF Migrated, Commit, Copy
  <2>3. NotEnding
    BY <1>5, ElsewhereSteps, Zenon DEF Migrated, Commit, Copy
  <2> QED BY <2>1, <2>2, <2>3, NamesKept
<1>6. ASSUME NEW p \in Procs, Check(p)
      PROVE  Names'
  <2>1. CASE ~disk[procs[p].file].sound
    BY <1>6, <2>1, NamesGivenUp DEF Check, FailOpen, CleanupTemporary
  <2>2. CASE disk[procs[p].file].sound
    <3>1. UNCHANGED <<disk, path, temp, left>>
      BY <1>6, <2>2, Zenon DEF Check
    <3>2. NotEnding
      BY <1>6, <2>2, ElsewhereSteps, Zenon DEF Check, EndUpdate
    <3> QED BY <3>1, <3>2, NamesKept
  <2> QED BY <2>1, <2>2
<1>7. ASSUME NEW p \in Procs, OpenFile(p)
      PROVE  Names'
  <2>1. NotEnding
    BY <1>7, ElsewhereSteps, Zenon DEF OpenFile
  <2>2. CASE path = 0
    BY <1>7, <2>1, <2>2, NamesCreated DEF OpenFile
  <2>3. CASE path # 0
    BY <1>7, <2>1, <2>3, NamesKept DEF OpenFile
  <2> QED BY <2>2, <2>3
<1>8. ASSUME NEW p \in Procs, Restore(p)
      PROVE  Names'
  <2>1. NotEnding
    BY <1>8, ElsewhereSteps, Zenon DEF Restore
  <2> QED BY <1>8, <2>1, NamesCreated, Zenon DEF Restore
<1>9. ASSUME NEW p \in Procs, Link(p)
      PROVE  Names'
  <2>1. CASE path # 0
    BY <1>9, <2>1, NamesGivenUp DEF Link, FailOpen, CleanupTemporary
  <2>2. CASE path = 0
    <3>1. path' = temp[p] /\ UNCHANGED <<disk, temp, left>> /\ Goto(p, "remove")
      BY <1>9, <2>2 DEF Link
    <3>2. \A q \in Procs : q # p => procs'[q] = procs[q]
      BY <3>1 DEF Goto, StoreInv, Types
    <3>3. procs'[p].pc = "remove"
      <4>1. procs[p] \in ProcRecord
        BY Before, ProcTypes
      <4>2. procs'[p] = [procs[p] EXCEPT !.pc = "remove"]
        BY <3>1, After, Zenon DEF Goto
      <4> QED BY <4>1, <4>2 DEF ProcRecord
    <3>4. \A q \in Procs : q # p => procs'[q].pc \notin {"remove", "openPath"}
      BY <2>2, <3>2, NoneEnding
    <3> QED BY <3>1, <3>3, <3>4 DEF Names
  <2> QED BY <2>1, <2>2
<1>10. ASSUME NEW p \in Procs, Remove(p)
       PROVE  Names'
  <2>1. /\ procs[p].pc = "remove" /\ temp' = [temp EXCEPT ![p] = 0] /\ Goto(p, "openPath")
        /\ UNCHANGED <<disk, path, left>>
    BY <1>10 DEF Remove
  <2>2. temp[p] # 0 /\ temp[p] = path /\ path \notin left
    BY <2>1, Before DEF ProcSound, Copying, Names
  <2>3. \A q \in Procs : q # p => temp[q] # path
    BY <2>2 DEF StoreInv, Apart
  <2>4. temp'[p] = 0 /\ \A q \in Procs : q # p => temp'[q] = temp[q] /\ procs'[q] = procs[q]
    BY <2>1 DEF Goto, StoreInv, Types
  <2>5. procs'[p].pc = "openPath"
    <3>1. procs[p] \in ProcRecord
      BY Before, ProcTypes
    <3>2. procs'[p] = [procs[p] EXCEPT !.pc = "openPath"]
      BY <2>1, After, Zenon DEF Goto
    <3> QED BY <3>1, <3>2 DEF ProcRecord
  <2>6. \A q \in Procs : temp'[q] # path
    BY <2>2, <2>3, <2>4
  <2> QED BY <2>1, <2>2, <2>4, <2>5, <2>6 DEF Names
<1> QED BY <1>1, <1>2, <1>3, <1>4, <1>5, <1>6, <1>7, <1>8, <1>9, <1>10, Zenon DEF Next

\* Open, Backup, Restore: wherever processes stop, the path holds no store, an
\* empty or a complete one; an open store is complete, current and of one process;
\* a backup has the length that was announced; the copy of a Restore is its alone
\* until it is at the path; and a Restore that goes on to open the path has left no
\* second name for the store.
THEOREM StoreStaysSound == Spec => []StoreSound
<1>1. StoreInv /\ Names => StoreSound
  <2> SUFFICES ASSUME StoreInv, Names PROVE StoreSound
    OBVIOUS
  <2>1. TypeOK /\ PathComplete /\ BackupFramed
    BY DEF StoreInv, Names, Types, TypeOK
  <2>2. OpenStoreSound
    BY OpenPlace DEF OpenStoreSound, StoreInv, Apart
  <2>3. CopyPrivate
    <3> SUFFICES ASSUME NEW p \in Procs, temp[p] # 0
                 PROVE  /\ temp[p] \notin left
                        /\ \A q \in Procs : q # p =>
                             temp[q] # temp[p] /\ (temp[p] # path => procs[q].file # temp[p])
      BY DEF CopyPrivate
    <3>1. ASSUME NEW q \in Procs, q # p PROVE temp[q] # temp[p]
      BY <3>1 DEF StoreInv, Apart
    <3>2. ASSUME NEW q \in Procs PROVE procs[q].file \in {0, temp[q], path}
      BY Before DEF ProcSound
    <3> QED BY <3>1, <3>2 DEF Names
  <2>4. RestoredAlone
    BY DEF RestoredAlone, Names
  <2> QED BY <2>1, <2>2, <2>3, <2>4 DEF StoreSound
<1>2. Init => StoreInv /\ Names
  <2>1. Init => Names
    BY DEF Init, Names, Idle
  <2> QED BY <2>1, StoreInit
<1>3. StoreInv /\ Names /\ [Next]_vars => StoreInv' /\ Names'
  BY StoreStepSound, NamesStep
<1> QED BY <1>1, <1>2, <1>3, PTL DEF Spec

\* Restore never overwrites: a file at the path stays there until the operator, with
\* no process at work, moves it away.
THEOREM StoreNeverOverwritten == Spec => NeverOverwritten
<1>1. [Next]_vars =>
        (path # 0 /\ path' # path => path' = 0 /\ \A p \in Procs : procs[p].pc = "idle")
  BY Zenon DEF Next, vars, SetAside, OpenFile, Migrate, Migrated, MigrateFails, Check, Update, Put,
         Delete, AppendAudit, Write, Commit, Rollback, BeginBackup, WriteTo, Close, Restore, Copy,
         RestoreFails, OpenTemp, Link, Remove, Crash
<1> QED BY <1>1, PTL DEF Spec, NeverOverwritten

\* What UpgradeAtomic says of the file at the path, and of the records of a file.
Upgraded ==
  path # 0 /\ path' = path =>
    /\ disk'[path].version \in {disk[path].version, CurrentSchemaVersion}
    /\ disk'[path].audit >= disk[path].audit

RecordsKept(f) ==
  \/ disk'[f].value = disk[f].value /\ disk'[f].audit = disk[f].audit
  \/ \E p \in Procs :
       \/ procs[p].pc = "update" /\ procs[p].file = f
       \/ procs[p].pc = "copy" /\ temp[p] = f

\* A file changes with the commit of a migration, which keeps its records, with the
\* commit of a transaction of the process that has it open, and with the copying of
\* a backup into it, which is not at the path.
LEMMA UpgradeStep ==
  ASSUME StoreInv, [Next]_vars
  PROVE  Upgraded /\ \A f \in DOMAIN disk : RecordsKept(f)
<1>1. /\ disk \in Seq(Contents) /\ DOMAIN disk = 1..Len(disk)
      /\ \A f \in DOMAIN disk : disk[f] \in Contents /\ disk[f].audit \in Nat
  <2>1. disk \in Seq(Contents)
    BY DEF StoreInv, Types
  <2>2. DOMAIN disk = 1..Len(disk) /\ \A f \in DOMAIN disk : disk[f] \in Contents
    BY <2>1
  <2>3. \A c \in Contents : c.audit \in Nat
    BY DEF Contents
  <2> QED BY <2>1, <2>2, <2>3, Zenon
<1>2. path # 0 => path \in DOMAIN disk
  BY <1>1 DEF StoreInv, Types
<1>3. ASSUME \A f \in DOMAIN disk : disk'[f] = disk[f]
      PROVE  Upgraded /\ \A f \in DOMAIN disk : RecordsKept(f)
  BY <1>1, <1>2, <1>3 DEF Upgraded, RecordsKept
<1>4. ASSUME NEW p \in Procs, Migrated(p)
      PROVE  Upgraded /\ \A f \in DOMAIN disk : RecordsKept(f)
  <2>1. /\ procs[p].pc = "migrate" /\ procs[p].tx.version = CurrentSchemaVersion
        /\ disk' = [disk EXCEPT ![procs[p].file] = procs[p].tx]
    BY <1>4 DEF Migrated
  <2>2. /\ procs[p].tx.value = disk[procs[p].file].value
        /\ procs[p].tx.audit = disk[procs[p].file].audit
    BY <2>1, Before, Zenon DEF ProcSound
  <2>3. \A f \in DOMAIN disk :
          disk'[f] = IF f = procs[p].file THEN procs[p].tx ELSE disk[f]
    BY <1>1, <2>1
  <2>4. \A f \in DOMAIN disk :
          /\ disk'[f].value = disk[f].value /\ disk'[f].audit = disk[f].audit
          /\ disk'[f].version \in {disk[f].version, CurrentSchemaVersion}
    BY <2>1, <2>2, <2>3
  <2> QED BY <1>1, <1>2, <2>4 DEF Upgraded, RecordsKept
<1>5. ASSUME NEW p \in Procs, Commit(p)
      PROVE  Upgraded /\ \A f \in DOMAIN disk : RecordsKept(f)
  <2>1. procs[p].pc = "update" /\ disk' = [disk EXCEPT ![procs[p].file] = procs[p].tx]
    BY <1>5 DEF Commit
  <2>2. procs[p].file = path /\ path # 0
    BY <2>1, OpenPlace
  <2>3. procs[p].tx.version = CurrentSchemaVersion /\ procs[p].tx.audit >= disk[path].audit
    BY <2>1, <2>2, Before DEF ProcSound
  <2>4. disk'[path] = procs[p].tx /\ \A f \in DOMAIN disk : f # path => disk'[f] = disk[f]
    BY <1>1, <1>2, <2>1, <2>2
  <2> QED BY <2>1, <2>2, <2>3, <2>4 DEF Upgraded, RecordsKept
<1>6. ASSUME NEW p \in Procs, Copy(p)
      PROVE  Upgraded /\ \A f \in DOMAIN disk : RecordsKept(f)
  <2>1. procs[p].pc = "copy" /\ \E c : disk' = [disk EXCEPT ![temp[p]] = c]
    BY <1>6, Zenon DEF Copy
  <2>2. temp[p] # path
    BY <2>1, Before, Zenon DEF ProcSound, Copying, Private
  <2>3. \A f \in DOMAIN disk : f # temp[p] => disk'[f] = disk[f]
    BY <1>1, <2>1
  <2>4. Upgraded
    BY <1>1, <1>2, <2>2, <2>3 DEF Upgraded
  <2>5. \A f \in DOMAIN disk : RecordsKept(f)
    BY <2>1, <2>3, Zenon DEF RecordsKept
  <2> QED BY <2>4, <2>5
<1>7. ASSUME \E c : disk' = Append(disk, c)
      PROVE  \A f \in DOMAIN disk : disk'[f] = disk[f]
  BY <1>1, <1>7
<1>8. \/ disk' = disk \/ \E c : disk' = Append(disk, c)
      \/ \E p \in Procs : Migrated(p) \/ Commit(p) \/ Copy(p)
  BY Zenon DEF Next, vars, SetAside, OpenFile, Migrate, MigrateFails, Check, Update, Put, Delete,
         AppendAudit, Write, Rollback, BeginBackup, WriteTo, Close, Restore, RestoreFails,
         OpenTemp, Link, Remove, Crash
<1> QED BY <1>3, <1>4, <1>5, <1>6, <1>7, <1>8

\* The schema of a file at the path changes to the current one in one step, and its
\* audit records are never taken away; the records of any file change only by the
\* commit of the process that has it open, or the copying of a backup into it.
THEOREM StoreUpgradesAtomically == Spec => UpgradeAtomic
<1>1. StoreInv /\ [Next]_vars => StoreInv'
  BY StoreStepSound
<1>2. StoreInv /\ [Next]_vars => Upgraded /\ \A f \in DOMAIN disk : RecordsKept(f)
  BY UpgradeStep
<1> QED BY <1>1, <1>2, StoreInit, PTL DEF Spec, UpgradeAtomic, Upgraded, RecordsKept
=============================================================================
