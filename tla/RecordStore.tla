----------------------------- MODULE RecordStore -----------------------------
(***************************************************************************)
(* The vault collection on disk: one encrypted collection file             *)
(* (vaultCollection.ts) that names, for every vault, the content-addressed *)
(* record and attachment files that its document is made of                *)
(* (vaultRecordStore.ts, vaultAttachmentStore.ts), and the operations of   *)
(* vaultStorage.ts over them: document updates, create, switch, rename,    *)
(* archive and delete, migration of a single-vault document, backup,       *)
(* restore and the collection of unreferenced files.                       *)
(*                                                                         *)
(* The storage queue runs one task at a time.  A task writes the files it  *)
(* needs, measures all that its collection references, renames the         *)
(* collection file over the old one, and then removes old files that       *)
(* nothing references.  It may fail or the process may die at any step.    *)
(* Record files are written and removed by concurrent workers: a worker    *)
(* that fails ends the task, and the others go on beside the next one.     *)
(***************************************************************************)
EXTENDS Naturals, Sequences, SequencesExt, FiniteSets

CONSTANTS Vaults,
          Records, Attachments,  \* content ids, one file each
          Contents,        \* the sets of files that a document may need
          Default,         \* the content of a new vault
          Operations,      \* ids of collection operations
          None, Over, Lost,
          ReceiptLimit,    \* MAX_RECENT_VAULT_COLLECTION_MUTATION_RECEIPTS
          Starts,          \* the collection and the backup that may be there at first
          Fragile,         \* files that may be damaged from outside
          MaxRevision,     \* bound: collection revisions
          MaxLeft,         \* bound: records that workers of failed tasks still write or remove
          OneBackup        \* bound: a backup is made only when there is none

Files == Records \cup Attachments
Kinds == {"create", "switch", "rename", "archive", "unarchive", "delete"}

ASSUME StoreAssumption ==
  /\ Records \cap Attachments = {}
  /\ Contents \subseteq SUBSET Files /\ Default \in Contents \cap SUBSET Records
  /\ {} \notin Contents
  /\ ReceiptLimit \in Nat \ {0} /\ MaxRevision \in Nat /\ MaxLeft \in Nat
  /\ OneBackup \in BOOLEAN
  /\ Fragile \subseteq Files

VARIABLES
  store,    \* what the collection file says
  disk,     \* by file: absent, intact, or broken (it does not open under its id)
  task,     \* the task at the head of the storage queue
  stray,    \* records that workers of failed tasks still write or remove
  request,  \* by operation: what the caller asked for
  backup,   \* the last backup: a collection with copies of its files, or None
  taken     \* history: the records that workers of failed tasks removed or spoiled,
            \* and that no task has written since

vars == <<store, disk, task, stray, request, backup, taken>>

\* Collections; a document written before collections existed has revision 0.
Collection ==
  [format : {"inline", "records", "collection"}, active : Vaults, revision : Nat,
   content : [Vaults -> Contents \cup {None}], archived : SUBSET Vaults,
   receipts : Seq(Operations), applied : Seq(Operations)]

\* None is not a content, a collection, what a backup saves or what a caller asked for.
ASSUME NoneAssumption ==
  /\ None \notin Contents /\ None \notin Collection
  /\ None \notin [kind : Kinds, vault : Vaults, expected : Nat]
  /\ None \notin [content : [Vaults -> Contents \cup {None}], active : Vaults,
                 archived : SUBSET Vaults]
  /\ Over \notin [kind : Kinds, vault : Vaults, expected : Nat] \cup {None}

Idle == [at |-> "idle", restores |-> FALSE, write |-> {}, next |-> None, remove |-> {}]
NoStray == [write |-> {}, absent |-> {}, remove |-> {}]

TypeOK ==
  /\ store \in Collection
  /\ disk \in [Files -> {"absent", "intact", "broken"}]
  /\ task \in [at : {"idle", "writing", "measured", "collecting"}, restores : BOOLEAN,
               write : SUBSET Files, next : Collection \cup {None}, remove : SUBSET Files]
  /\ stray \in [write : SUBSET Records, absent : SUBSET Records, remove : SUBSET Records]
  /\ request \in [Operations -> [kind : Kinds, vault : Vaults, expected : Nat]
                                  \cup {None, Over}]
  /\ backup \in Collection \cup {None}
  /\ taken \subseteq Records

-----------------------------------------------------------------------------
Present(s) == {v \in Vaults : s.content[v] # None}

\* The files a collection references.  An inline document carries its content.
References(s) ==
  IF s.format = "inline" THEN {} ELSE UNION {s.content[v] : v \in Present(s)}

Selectable(s) == s.active \in Present(s) \ s.archived /\ s.archived \subseteq Present(s)

\* A document from before collections is one vault, and nothing was applied to it.
Sound(s) ==
  /\ Selectable(s) /\ IsInjective(s.applied)
  /\ s.format # "collection" => Present(s) = {s.active} /\ s.applied = <<>>

ASSUME StartsAssumption ==
  \A s \in Starts :
    /\ s.store \in Collection /\ Sound(s.store) /\ s.store.applied = <<>>
    /\ s.backup # None => s.backup \in Collection /\ Sound(s.backup) /\ s.backup.applied = <<>>

Exists(f) == disk[f] # "absent"
Opens(f)  == disk[f] = "intact"

\* Every vault's records and the active vault's attachments are read and verified.
Needed(s) ==
  (References(s) \cap Records) \cup (IF s.format = "inline" THEN {} ELSE s.content[s.active])

Decodes(s) == \A f \in Needed(s) : Opens(f)

\* A single-vault document becomes the only vault of a collection.
Migrated(s) ==
  IF s.format = "collection" THEN s
  ELSE [s EXCEPT !.format = "collection", !.revision = 1]

\* Files of s that the task must write or verify: records it just read are trusted.
Unwritten(s) == References(s) \ (References(store) \cap Records)

Init ==
  /\ \E s \in Starts : store = s.store /\ backup = s.backup
  /\ disk = [f \in Files |-> IF f \in References(store) THEN "intact" ELSE "absent"]
  /\ task = Idle
  /\ stray = NoStray
  /\ request = [o \in Operations |-> None]
  /\ taken = {}

-----------------------------------------------------------------------------
\* Tasks

Run(next, write, restores) ==
  /\ task.at = "idle"
  /\ task' = [Idle EXCEPT !.at = "writing", !.restores = restores, !.write = write,
                          !.next = next]
  /\ UNCHANGED <<store, disk, stray, backup, taken>>

\* The first read of a document without a collection.
Migrate ==
  /\ store.format # "collection" /\ Decodes(store)
  /\ LET next == Migrated(store)
     IN Run(next, IF store.format = "inline" THEN References(next) ELSE {}, FALSE)
  /\ UNCHANGED request

Updated(c) ==
  [Migrated(store) EXCEPT !.revision = store.revision + 1, !.content[store.active] = c]

\* An update of the active vault's document.  Its attachments are stored again.
Update(c) ==
  /\ store.revision < MaxRevision /\ Decodes(store)
  /\ LET next == Updated(c)
     IN Run(next, Unwritten(next) \cap c, FALSE)
  /\ UNCHANGED request

Allowed(s, kind, v) ==
  CASE kind = "create"    -> v \notin Present(s)
    [] kind = "switch"    -> v \in Present(s) \ s.archived
    [] kind = "rename"    -> v \in Present(s)
    [] kind = "archive"   -> v \in Present(s) \ {s.active}
    [] kind = "unarchive" -> v \in Present(s)
    [] kind = "delete"    -> v \in s.archived

\* The caller asks for what the collection it was shown allows.
Request(o) ==
  /\ request[o] = None /\ store.format = "collection"
  /\ \E kind \in Kinds, v \in Vaults :
       /\ Allowed(store, kind, v)
       /\ request' = [request EXCEPT ![o] = [kind |-> kind, vault |-> v,
                                             expected |-> store.revision]]
  /\ UNCHANGED <<store, disk, task, stray, backup, taken>>

\* Selecting the active vault, or archiving what is archived, changes nothing.
Changes(s, kind, v) ==
  CASE kind = "switch"    -> v # s.active
    [] kind = "archive"   -> v \notin s.archived
    [] kind = "unarchive" -> v \in s.archived
    [] OTHER              -> TRUE

Changed(s, kind, v) ==
  CASE kind = "create"    -> [s EXCEPT !.content[v] = Default, !.active = v]
    [] kind = "switch"    -> [s EXCEPT !.active = v]
    [] kind = "rename"    -> s
    [] kind = "archive"   -> [s EXCEPT !.archived = @ \cup {v}]
    [] kind = "unarchive" -> [s EXCEPT !.archived = @ \ {v}]
    [] kind = "delete"    -> [s EXCEPT !.content[v] = None, !.archived = @ \ {v}]

\* The last receipts, with o's.  One of o is not among them: Admits.
Recent(receipts, o) ==
  LET all == Append(receipts, o)
  IN SubSeq(all, IF Len(all) > ReceiptLimit THEN Len(all) - ReceiptLimit + 1 ELSE 1, Len(all))

\* A receipt answers a replay; otherwise the collection must be the one the caller saw.
Admits(o) == o \notin ToSet(store.receipts) /\ request[o].expected = store.revision

\* Mutant of TargetOpens: the target of a switch is not hydrated.
TargetUnread(o) == TRUE

\* A switch hydrates its target before the active vault changes.
TargetOpens(o) ==
  request[o].kind = "switch" => \A f \in store.content[request[o].vault] : Opens(f)

Operated(o) ==
  LET kind == request[o].kind
      v    == request[o].vault
      step == IF Changes(store, kind, v)
              THEN [Changed(store, kind, v) EXCEPT
                      !.revision = @ + 1, !.applied = Append(@, o)]
              ELSE store
  IN [step EXCEPT !.receipts = Recent(@, o)]

\* A collection operation.  What the caller asked for is asked again when an answer
\* is lost: a task for it may run any number of times.
Operate(o) ==
  /\ request[o] \notin {None, Over} /\ Decodes(store)
  /\ \A f \in References(store) : Exists(f)
  /\ Admits(o)
  /\ Allowed(store, request[o].kind, request[o].vault) /\ TargetOpens(o)
  /\ Operated(o).revision <= MaxRevision
  /\ Run(Operated(o),
         IF request[o].kind = "create" THEN Default \ (References(store) \cap Records) ELSE {},
         FALSE)
  /\ UNCHANGED request

\* A backup verifies and copies every file that the collection references.
Backup ==
  /\ task.at = "idle"
  /\ store.format = "collection" /\ Decodes(store)
  /\ \A f \in References(store) : Opens(f)
  /\ OneBackup => backup = None
  /\ backup' = store
  /\ UNCHANGED <<store, disk, task, stray, request, taken>>

\* A restore of a backup writes its records over whatever is there and repairs its
\* attachments; the inline document of an old backup is encoded like any other.
Restore ==
  /\ backup # None
  /\ Run(Migrated(backup), References(Migrated(backup)), backup.format = "collection")
  /\ UNCHANGED request

-----------------------------------------------------------------------------
\* Steps of the task

WithinBound(s) ==
  Cardinality(s.write) + Cardinality(s.absent) + Cardinality(s.remove) <= MaxLeft

\* A file that is there must open under its id; a restore replaces it.
Accepts(f) == task.restores \/ disk[f] # "broken"

Written(f) == IF ~Exists(f) \/ task.restores THEN "intact" ELSE disk[f]

\* Attachments are stored before records are encoded, except by a restore.
Write(f) ==
  /\ task.at = "writing" /\ f \in task.write
  /\ LET first == IF task.restores THEN Records ELSE Attachments
     IN f \in first \/ task.write \cap first = {}
  /\ Accepts(f)
  /\ disk' = [disk EXCEPT ![f] = Written(f)]
  /\ taken' = taken \ {f}
  /\ task' = [task EXCEPT !.write = @ \ {f}]
  /\ UNCHANGED <<store, stray, request, backup>>

Measures == \A f \in References(task.next) : Exists(f)

Measure ==
  /\ task.at = "writing" /\ task.write = {}
  /\ Measures
  /\ task' = [task EXCEPT !.at = "measured"]
  /\ UNCHANGED <<store, disk, stray, request, backup, taken>>

\* Mutants of Garbage: by the active vault alone; by the vaults that are not archived.
GarbageOfActive == {f \in Files : Exists(f)} \ task.next.content[task.next.active]
GarbageOfAvailable ==
  {f \in Files : Exists(f)}
    \ UNION {task.next.content[v] : v \in Present(task.next) \ task.next.archived}

Garbage == {f \in Files : Exists(f)} \ References(task.next)

\* The rename of the collection file.  What is garbage is removed when its grace
\* period has passed, which is any part of it here.  A restore ends every session.
Commit ==
  /\ task.at = "measured"
  /\ store' = task.next
  /\ request' = IF task.restores
                THEN [o \in Operations |-> IF request[o] = None THEN None ELSE Over]
                ELSE request
  /\ \E old \in SUBSET Garbage : task' = [Idle EXCEPT !.at = "collecting", !.remove = old]
  /\ UNCHANGED <<disk, stray, backup, taken>>

Unlink(f) ==
  /\ task.at = "collecting" /\ f \in task.remove
  /\ disk' = [disk EXCEPT ![f] = "absent"]
  /\ taken' = taken \ {f}
  /\ task' = [task EXCEPT !.remove = @ \ {f}]
  /\ UNCHANGED <<store, stray, request, backup>>

\* A removal fails.  Attachments are removed one after the other; records by
\* workers, of which the others go on.
FailRemoval(f) ==
  /\ task.at = "collecting" /\ f \in task.remove
  /\ LET own == IF f \in Records THEN Records ELSE Attachments
     IN /\ task' = [task EXCEPT !.remove = @ \ own]
        /\ stray' = [stray EXCEPT !.remove = @ \cup ((task.remove \cap Records \cap own) \ {f})]
  /\ WithinBound(stray')
  /\ UNCHANGED <<store, disk, request, backup, taken>>

Finish ==
  /\ task.at = "collecting" /\ task.remove = {}
  /\ task' = Idle
  /\ UNCHANGED <<store, disk, stray, request, backup, taken>>

\* The task fails before its rename: a file cannot be read or written, or the
\* session ended.  While records are written, the other workers go on.
Fail ==
  /\ task.at \in {"writing", "measured"}
  /\ \E left \in SUBSET (task.write \cap Records) :
       /\ left # {} => /\ ~task.restores /\ task.write \subseteq Records
                       /\ left # task.write
       /\ stray' = [stray EXCEPT !.write = @ \cup left]
  /\ WithinBound(stray')
  /\ task' = Idle
  /\ UNCHANGED <<store, disk, request, backup, taken>>

-----------------------------------------------------------------------------
\* Workers that outlive their task

\* A worker writes only what it finds absent ...
StrayLook(f) ==
  /\ f \in stray.write
  /\ stray' = [stray EXCEPT !.write = @ \ {f}, !.absent = IF Exists(f) THEN @ ELSE @ \cup {f}]
  /\ UNCHANGED <<store, disk, task, request, backup, taken>>

\* ... under the task's copy of the key, which was zeroed when the task failed: what is
\* encrypted after that does not open.
StrayWrite(f) ==
  /\ f \in stray.absent
  /\ \E result \in {"intact", "broken"} :
       /\ disk' = [disk EXCEPT ![f] = result]
       /\ taken' = IF result = "broken" THEN taken \cup {f} ELSE taken \ {f}
  /\ stray' = [stray EXCEPT !.absent = @ \ {f}]
  /\ UNCHANGED <<store, task, request, backup>>

StrayRemove(f) ==
  /\ f \in stray.remove
  /\ disk' = [disk EXCEPT ![f] = "absent"]
  /\ taken' = taken \cup {f}
  /\ stray' = [stray EXCEPT !.remove = @ \ {f}]
  /\ UNCHANGED <<store, task, request, backup>>

\* The process dies and starts again.
Crash ==
  /\ task' = Idle
  /\ stray' = NoStray
  /\ task # Idle \/ stray # stray'
  /\ UNCHANGED <<store, disk, request, backup, taken>>

\* Something else damages a file, one at a time, while no task runs.
Damage(f) ==
  /\ task.at = "idle" /\ f \in Fragile /\ Opens(f)
  /\ \A g \in Files : disk[g] # "broken"
  /\ disk' = [disk EXCEPT ![f] = "broken"]
  /\ UNCHANGED <<store, task, stray, request, backup, taken>>

StartTask ==
  \/ Migrate \/ Backup \/ Restore
  \/ \E c \in Contents : Update(c)
  \/ \E o \in Operations : Operate(o)

TaskStep ==
  \/ Measure \/ Commit \/ Finish \/ Fail
  \/ \E f \in Files : Write(f) \/ Unlink(f) \/ FailRemoval(f)

StrayStep == \E f \in Records : StrayLook(f) \/ StrayWrite(f) \/ StrayRemove(f)

Next ==
  \/ StartTask \/ TaskStep \/ StrayStep \/ Crash
  \/ \E o \in Operations : Request(o)
  \/ \E f \in Files : Damage(f)

Spec == Init /\ [][Next]_vars

-----------------------------------------------------------------------------
\* What the collection references is there, but for what workers of failed tasks took:
\* the collector of a task takes nothing that is referenced.
Kept == \A f \in References(store) : Exists(f) \/ f \in taken

\* What was measured is still there when it is committed, but for what such workers
\* took; and what a task removes is referenced by nothing.
Unharmed ==
  /\ task.at = "measured" => \A f \in References(task.next) : Exists(f) \/ f \in taken
  /\ task.remove \cap References(store) = {}

\* "garbage-collects only old unreferenced record files" (vaultRecordStore.test.ts:105).
CollectsOnlyUnreferenced == \A f \in References(store) : Exists(f)

\* "the copied bytes remain intact until the operation releases them.  This avoids
\* mutating a Buffer that an in-flight crypto operation is still reading"
\* (vaultSessionKey.ts:37-38): a record file that the store writes opens under its id.
WritesWhatOpens == \A f \in Records : disk[f] # "broken"

\* A collection that is renamed into place opens: all records of all vaults and the
\* attachments of the vault it makes active, also when other files are damaged, and
\* when a restore met damaged files.  Only a worker of an earlier, failed task can take
\* a record of it, and only after the task read, wrote or verified that record.
CommitsOpen ==
  [][store' # store => \A f \in Needed(store') : disk'[f] = "intact" \/ f \in taken']_vars

\* An operation takes effect at most once, however often it is asked for again and
\* whatever receipts have been forgotten: a deleted vault does not come back, nor
\* does a later selection give way.
AppliedOnce == IsInjective(store.applied)

\* What the task is about to commit was made from the collection that is still there,
\* and an operation was asked for of that very revision.
Proposed ==
  \/ task.next = Migrated(store) /\ store.format # "collection"
  \/ \E c \in Contents : task.next = Updated(c)
  \/ \E o \in Operations :
       /\ request[o] \notin {None, Over} /\ request[o].expected = store.revision
       /\ Allowed(store, request[o].kind, request[o].vault)
       /\ task.next = Operated(o)
  \/ /\ backup # None /\ task.next = Migrated(backup)
     /\ backup.format = "collection" => task.restores

\* What a collection needs to open is to be written or opens, but for what workers of
\* failed tasks took since.
Serial ==
  task.at \in {"writing", "measured"} =>
    /\ task.remove = {} /\ Proposed
    /\ \A f \in Needed(task.next) : f \in task.write \/ Opens(f) \/ f \in taken
    /\ task.at = "measured" => task.write = {}

\* An operation that was applied was asked for, of an earlier revision unless a
\* restore ended every session since.
Remembered ==
  /\ \A o \in ToSet(store.applied) :
       request[o] # None /\ (request[o] # Over => request[o].expected < store.revision)
  /\ backup # None => \A o \in ToSet(backup.applied) : request[o] # None
  /\ \A o \in Operations : request[o] # None => store.format = "collection"

\* The type invariant; the active vault is there and not archived, in the collection
\* and in the backup; every file that the collection references is there, whatever
\* failed, died or was collected, but for records that a worker of a failed task took;
\* no operation was applied twice; and what makes these last: a task commits what it
\* made from the collection that it replaces.
IInv ==
  /\ TypeOK
  /\ Sound(store) /\ (backup # None => Sound(backup))
  /\ Kept /\ Unharmed /\ AppliedOnce
  /\ Serial /\ Remembered

-----------------------------------------------------------------------------
\* The abstract collection: a vault some file of which is gone is lost, unless a worker
\* of a failed task took that file.
ContentOf(s, v) ==
  IF s.content[v] = None THEN None
  ELSE IF s.format = "inline" \/ \A f \in s.content[v] : Exists(f) \/ f \in taken
       THEN s.content[v]
  ELSE Lost

Saved ==
  IF backup = None THEN None
  ELSE [content |-> backup.content, active |-> backup.active, archived |-> backup.archived]

Atomic == INSTANCE AtomicCollection WITH
  content  <- [v \in Vaults |-> ContentOf(store, v)],
  active   <- store.active,
  archived <- store.archived,
  saved    <- Saved

\* Every operation takes effect at once or not at all, on the vault it names alone,
\* and no vault loses to the task itself a file it shares with one that is updated,
\* deleted or replaced.
ImplementsAtomicCollection == Atomic!Spec
=============================================================================
