# A verified model of Vaultage's vault core

Vaultage is an Electron application that keeps secrets in an encrypted vault on
one machine. This directory holds TLA+ modules of the parts of its main process
where order, crashes and concurrency decide whether a vault, its keys, its
content and its audit trail stay correct, the TLC configurations that check
them, and proofs that TLAPS checks. Paths below are relative to the repository's
`src/main/` unless they say otherwise. `PROJECT.json` maps every definition to
the lines it stands for, and lists the hazards and the properties that cover
them.

## 1. The system

The main process is one Node event loop. Nothing runs in parallel, but every
`await` (a file operation, a key derivation, a dialog, a queue) lets another IPC
handler, timer or lock run, so the unit of interleaving is the code between two
awaits. The renderer is another process and talks to it by asynchronous calls
whose answers may be lost. The process may die at any point; the files stay.

| Part | State | Operations | Talks to |
|---|---|---|---|
| Session keyring, `vaultSessionKey.ts` | vault key, epoch, live operations, lock in progress | `beginOperation`, `acquire`, `installKey`, `rotateScope`, `invalidate`, `release`, `assertCurrent` | every handler holds a handle of it |
| Authentication-state store, `vaultStorage.ts`, `fileIO.ts` | vault, credentials and recovery files by generation, `auth-state.json`, the operation queue | create, change credentials, change the kit, both, restore, update the vault; collection of old wrappers | files; called by the next two parts |
| Authentication flows, `auth.ts`, `authIpc.ts`, `vaultSessionIpc.ts` | what a call has read, derived and queued | set-up, unlock, Touch ID, password change, kit rotation, verification, revocation and recovery, restore, sign-out, backup | store, keyring, Keychain, audit |
| Mutations, `vaultDataIpc.ts`, `vaultMutationReceipts.ts`, `vaultUsageBatcher.ts`, `vaultCollectionIpc.ts`, `renderer/src/vaultContext.tsx` | document revision, receipts, usage markers, the renderer's queue and snapshot, active vault | mutate, usage flush, other writers, switch | store, keyring, audit |
| Commands, `vaultCommandMutations.ts`, `menuPanelIpc.ts`, `shared/vaultValidation.ts` | the document: tree, order, fields, services, project mappings, pins | create, update, move, delete of folders, secrets, providers, groups and projects; links; pins | called by a mutation inside its commit |
| Records, collection, attachments, `vaultRecordStore.ts`, `vaultCollection.ts`, `vaultAttachmentStore.ts` | content-addressed files, the collection file with its receipts | edit, create, switch, rename, archive, delete, migrate, back up, restore, collect | store's queue, files |
| Audit log, `audit.ts` | log file, anchor, archives, append cache | append, rotate, recover, verify, read | files |
| Audit publication, `index.ts`, `auditFailureGuard.ts`, `vaultMutationReceipts.ts` | append queue, the guard's block, reconciliation | record, append, block and lock, reconcile | audit log, keyring, documents |
| Reveal-PIN throttle, `quickRevealPin.ts`, `quickRevealPinThrottleStore.ts` | failures in memory and in a file, generation | check, save, clear, reset | files |
| Lock, usage and shutdown, `index.ts`, `vaultUsageBatcher.ts`, `gracefulShutdown.ts`, `idleAutoLock.ts` | published revision, pending usage buckets, flush chain, quit state | record a use, flush, retry, discard; lock, idle lock, scope change, quit | keyring, mutations |
| Secrets, exports, imports, `vaultSecretIpc.ts`, `menuPanelIpc.ts`, `vaultExportIpc.ts` | clipboard and its timers, export files, import previews | copy, reveal, save an image, export plain and sealed, preview and import | keyring, audit, PIN throttle |
| Keychain helper, `vault-keychain/main.swift`, `keychain.ts` | one key by service: primary, retired ones, a marker | store, retrieve, remove; each a process of its own | called by the authentication flows |
| Renderer session, `renderer/src/vaultContext.tsx` | session guard, the vault, revision and list it shows | sign in, lock, sign out, command, change vaults, take published changes | authentication flows, mutations, collection, over two ordered channels |
| Secret editor, `renderer/src/components/AddSecretModal.open.tsx` | the open form over hidden values, pictures and certificates being read | open, edit, paste, save | commands, by the renderer session |
| Reveal of a field, `renderer/src/lib/useTransientReveal.ts` | one row's value, gate and timer | reveal, mask, leave, expire | secrets |
| Projects' dialog, `renderer/src/components/EnvProjectsModal.tsx` | the edited copy, scans, the export under way | select, create, scan, save, export, delete | commands, project folders |
| Import dialog, `renderer/src/components/ImportModal.tsx` | source, text, files being read, preview, token | choose, read, parse, decrypt, select, import, discard | exports and imports |
| Menu-bar panel, `renderer/src/components/MenuBarPanel.tsx`, `menuPanelIpc.ts` | status, search, PIN request, revealed fields, draft | status, search, copy, reveal, act, paste, create | secrets, commands, lifecycle |
| Project folders, `projectCapabilities.ts`, `projectMutationAuthorization.ts`, `projectIpc.ts`, `envFile.ts` | path grants by renderer, stored paths, `.env` files | pick, discover, grant, consume, revoke, set a path, export | keyring, mutations, files |

What is hard, and which properties say it goes right. A name in brackets is a
named conjunct of the module's `IInv`.

- **Work that outlives its session.** A handler reads, awaits and commits. In
  between, a lock, an unlock or a vault switch may have happened. Handles must
  pass `assertCurrent` exactly in their own scope, a lock must drain what runs,
  and nothing may be committed for a session or vault that is over
  (`CommitsOnlyInItsScope`, `LockDrains`, `UnlockOnlyUnovertaken`,
  `ScopedCommits`, `ExportsAsApproved`).
- **Several files, one state.** Vault, credentials, kit and manifest are four
  files, and a collection has as many as its records. Whatever step dies or
  fails, the files must be one installation and one collection, and the wrapper
  of an old password or kit must go ([`ManifestResolves`],
  `ImplementsAtomicAuthState`, `CommitLeavesOneWrapper`, [`Kept`, `Unharmed`],
  `CommitsOpen`, `ImplementsAtomicCollection`).
- **Checks made before a slow derivation.** A flow reads, spends a second in
  scrypt, and then commits. What it read may be stale ([`OneVaultKey`,
  `SessionOpensVault`], `FlowsReplaced`, `FlowsAnswer`).
- **Lost answers.** A renderer that does not hear from a command retries it; the
  receipt that would recognise it is one of a bounded ring ([`AppliedOnce`,
  `AppliedOnWhatItsAuthorSaw`], `StaleMeansNotApplied`). The same holds for a
  usage batch whose commit was not seen ([`UsageCountedOnce`]).
- **A log that survives its crashes.** A crash in an append or a rotation must
  neither lose an acknowledged event nor leave a log that looks tampered with
  ([`AcknowledgedKept`, `AlwaysVerifies`, `RotationResumes`],
  `ReadsAcknowledged`).
- **Commit first, audit later; or audit first, release later.** An entry lost
  between a commit and its append must be found again ([`ReconciledSession`],
  `EventuallyAudited`); a revealed value or a plaintext file must not leave before its
  entry, nor an answer deny a file that is there ([`ReleasesAreRecorded`,
  `AnswersTellOfFiles`]).
- **A throttle that forgets nothing.** Failures are in memory and in a file, and
  resets race them ([`CeilingHolds`, `OneCheckAtATime`,
  `ClosedWhileResetting`, `FailuresStayCounted`]).
- **Ends of things.** A lock, a quit, a usage count, a copied secret and a queued
  request must each come to an end (`LockReturns`, `QuitEnds`, `UsageSettles`,
  `CopiesAreCleared`, `EveryRequestSettles`), and the end of one session must not
  reach into the next ([`RevisionFollowsDocument`]).
- **Authority spent once.** A folder grant is looked up across an await, an
  import token across a preview, and a file may change under an approved
  replacement ([`Accounted`, `ImportsArePreviewed`], `ExportsAsApproved`).
- **A key replaced in steps.** The Keychain helper deletes the item that another
  process wrote and adds it anew, each call may fail, and the process may be
  killed: the only key must not be lost, nor an older one come back
  (`KeysStay`, [`RetrievalTidies`, `AnswersHold`, `OneNamespace`]).
- **Two processes, two sessions.** The renderer and the main process unlock, lock
  and change vaults on their own and learn of each other late: at rest they must
  agree, and meanwhile nothing shown may go back (`RendererInv`,
  `RendererGoesOn`).
- **Answers that outlive what asked for them.** A dialog of the renderer goes on
  while a file is read, a secret decrypted, a folder scanned or a value fetched;
  what comes then must not land in another form, another row or another project,
  and must leave no plaintext behind (`FormInv`, `FormSaves`, `EditorInv`,
  `ImportInv`, `ScreensInv`, [`PlaintextHasAnOwner`, `ValueIsOfThisVisit`,
  `NothingLeft`]).
- **Long sequences of legal edits** that leave a folder inside itself, a
  reference to what is gone or an order nobody chose ([`validateFolderTree`,
  `validateReferences`], `MappingsFollowFields`, `OrderIsKept`).

## 2. The modules

    SessionKeyring ......................... SessionLifecycleProofs
    AtomicAuthState  <=refines= AuthStateStore ... AuthStateStoreProofs
    AtomicCollection <=refines= RecordStore ...... RecordStoreProofs
    AuthFlows        (a commit is one step, as AuthStateStore justifies;
                      a scope is an epoch, as SessionKeyring justifies)
                     ......... SignInProofs
    VaultMutations   (over the same two facts) ... VaultMutationsProofs
    VaultCommands    (what a mutation does to the document, in its one step)
    SessionLifecycle, SecretRelease, ProjectAccess  (over the keyring's epochs)
                     ......... SessionLifecycleProofs, SecretReleaseProofs
    MutationAudit    (an append is one step: AuditLog looks inside it)
                     ......... MutationAuditProofs
    AuditLog
    QuickRevealPin
    KeychainHelper
    RendererSession  (over sketches of the flows, the commands and the switches)
    SecretForm, ProjectEditor, ImportDialog, MenuPanel, FieldReveal
                     (each a dialog over a sketch of what it calls)
                     ......... DialogsProofs, of ProjectAccess and the last three

Each `...Proofs` module extends one of them with its theorems (section 4);
`SignInProofs`, `SessionLifecycleProofs` and `DialogsProofs` extend the `MC` module in
which several modules are run, and so speak of each as it is run there.
Each `MC...` module extends one with the sets of a small instance.
Modules that share nothing may be checked in one run: in `MCDeviceStores` a
behaviour is one of `QuickRevealPin`, `KeychainHelper` or `AuditLog`, in
`MCDocuments` one of `VaultCommands` or `SecretForm`, and in `MCDialogs` one of
`ProjectAccess`, `ProjectEditor`, `ImportDialog`, `MenuPanel` or `FieldReveal`, in
`MCSessionLifecycle` one of `SessionLifecycle` or `SessionKeyring`,
chosen by `part` in the initial state (the run `project_folders` takes those of
`ProjectAccess`, the run `dialogs` the others); in `MCSignIn` it is one of `AuthFlows` or of
`RendererSession`, chosen by `side`. The variables of the other modules stay as they
were in the initial state, so a run's state space is the sum of its parts' and not their product. A
property is the module's own, stated of the behaviours that are its: `StoresInv`,
`FlowsInv`, `RendererInv` and so on.
Operators named "Mutant of X" are X with a plausible bug; no behaviour uses
them. They show that each property depends on the code it is about: put in X's
place, TLC finds the property violated.

A constant such as `Scenarios`, `Settings`, `Starts`, `Casts` or `Families` is a
set from which `Init` chooses the bounds and the kinds of call of one behaviour.
One run then covers several small instances where their product would be too
large; the bounds only appear in guards.

**SessionKeyring.** `key` is the epoch of the installed buffer or `NoKey`, as a
new buffer is made at each installation and stamped with the epoch; `epoch`,
`invalidating` and `activeOperations` are the code's fields; `handle` is what
each place in a handler holds. The actions are the methods. The history variable
`fresh` holds the handles acquired since the last boundary and `awaited` what
each lock found live. That an invalidation ends in the step of the last release,
and not a microtask later, is not visible to handlers, which start in tasks of
their own.

**AuthStateStore.** The files are functions from generation to content, the
manifest names generations, and generation 0 is the layout from before
manifests. One action is one atomic file operation
(`atomicWritePrivateFile` writes, syncs and renames, so a file appears whole),
`AbortStep` is the `catch` block, `CollectStep` the collection with any subset
of its deletions failing, `Crash` the death of the process, and the queue is
`enqueueVaultOperation`. It is shown to implement **AtomicAuthState**, in which
the installation is one triple and a request takes effect in one step: the
mapping reads the triple out of the files through `resolveActiveState`, and a
request has been applied once its manifest is renamed.

**RecordStore.** A vault's document is the set of content-addressed files it
needs; vaults share files. A task of the storage queue writes what is absent
(`Write`), measures what its collection references, renames the collection file
(`Commit`) and unlinks what nothing references any more. `Fail` is an error at
any of these steps, and the workers of a failed batch that go on are `stray`: they may write
or remove their records beside any later task. The history `taken` holds the records
that they removed or spoiled and that no task has written since. Operations keep what they ask for when their answer is lost, so each may run
again. It implements **AtomicCollection**: a map from vault to content, the
active vault and the archived ones, on which each operation acts at once on the
vault it names. The mapping reads a vault as `Lost` when one of its files is gone.

**AuthFlows.** One step is the code between two awaits that matter: `Begin`,
`Read` (outside the queue), derivation, the queued operation at the head of the
queue (`Commit`, `VaultReadOpens`), and what follows when it settles. Keys,
passwords and kits are numbers in order of creation, wrappers are records of
what they wrap. The Keychain is one external variable. A flow is `displaced` when a first-run
restore replaces the vault it works with, and `mixed` is the history of whether such
a flow has committed. Left out: the throttling of failed kit attempts, and texts.

**VaultMutations.** A vault's document is the sequence of its changes; revision,
receipts and usage markers are computed from it, as every commit appends one and
trims. The renderer's queue, its retry under the same id, its snapshot and its
session epoch are there, as the properties are about what its author saw. The
storage queue runs one operation at a time and only the session can change
within one, so reading, deciding and committing is one step.

**VaultCommands.** The document is its tree (`parent`, `order`), the fields of
secrets, providers and their groups, projects with their mappings from
environment names to fields, and pins. Each command of
`vaultCommandMutations.ts` is an action with its guard and its clean-up of
references; the canonical validator's two main checks are the invariant, stated
of the command's result before the validator sees it. `parent` may hold a cycle,
which the nested folders of the code cannot show: the tree is a property here.
The panel's quick creation edits the document outside the commands.
`Init` is a document of an earlier version, without orders, field ids or kinds of
pins.

**AuditLog.** One action is one file operation of an append, a rotation or a
load. An event is its number and that of the event its hash covers; the anchor's
MAC fixes its content, so a segment is the sequence of its events. A failed or
interrupted append leaves nothing, part of a line, or a line without its
newline. `acked` and `dropped` are histories of what was promised and what
retention removed.

**MutationAudit.** `receipts` is the ring in the document, `queue` the chain of
appends, `blocked` and `locking` the guard, `recon` the reconciliation with what
it read. One entry per change, one vault.

**QuickRevealPin.** One PIN record. `memory` names the attempt state that the
map holds, which handlers keep a reference to across awaits. Time is left out:
a check that the back-off could refuse may be refused or not.

**SessionLifecycle.** `buckets` is the batcher's queue of usage batches with
their ids, `flushTail` its chain of flushes, `flush` the one that runs;
`document` holds the counts and the ring of markers. A lock clears the key at
once and ends when everything has drained; its tail then resets the published
revision and runs a flush that finds no key. Code that needs no I/O runs before
any other event: `InTurn` says so. A quit locks, then waits for at most five
seconds, which is `ExitOnTimeout` at any time.

**SecretRelease.** A call is a record that moves through its awaits: the read of
the vault, the PIN, the dialog, the audit entries it waits for
(`recordAuditDurable`), the write and rename of a file. `timers` are the
thirty-second clearings, `attempt` and `held` the import previews by window. The
audit queue and its guard are small here: an entry is appended, skipped or
failed. A commit and the publication of its revision are one step.

**KeychainHelper.** A service of the Keychain holds one key or none. A helper
process goes through its Keychain calls one by one (`FindService`, `ReadItem`,
`stageMigrationKey`, `deleteSource`, `addPrimary`, `unstage`, `removeKey`); each
may fail (`CallFails`), the main process may kill the helper (`Kill`) or die and
leave it running (`MainDies`). The main process waits in `spawnSync`, so no other
helper starts meanwhile. `told` is a history of what the last answer says.
`AuthFlows` takes the Keychain as one variable, which this module looks inside.

**RendererSession.** `inbox` and `wire` are the two channels between one renderer
and the main process; Electron keeps the order of each. A call is a record that
travels there and back and carries what its continuation holds: the epoch, the
scope, what it will do with a list. `epoch` and `unlocked` are the renderer's
session guard, `screen`, `view` and `coll` what it shows. The main process is a
sketch: a session epoch, handlers that run, locks that wait for them, vaults as
revisions; `AuthFlows`, `SessionLifecycle` and `VaultMutations` look inside it.

**SecretForm.** The document of each secret, its redaction by
`vaultRedaction.ts`, a form that is opened on the redacted copy and edited by
rows, and the merge that puts the values back. A field of the form carries, as a
history, what it stands for, and a save what its author meant: `FormSaves`
compares the stored result with that. A request is answered in order; other
writers change or delete secrets meanwhile.

**ProjectEditor.** `editor` is the dialog's React state, a copy of one project
with the flags that decide which controls it shows; a guard is the condition under
which a control is rendered and enabled. `commands` are the renderer's commands in
their order, each applied to the document as `vaultCommandMutations.ts` applies
it, `scans` the scans under way and `export` the part of `handleExport` that
follows its command. A setting with `hasty` lets the user go on during a scan or a
creation, which the dialog's disabled controls rule out: it shows what they are
for (section 5).

**ImportDialog.** A text, a file or a selection of pictures is its number in the
order given. The export password is whether the field holds something: each change of
it overtakes the decryption under way. `reads` are the files and pictures being read, each with the attempt
it belongs to, `calls` the decryptions on their way, with the gate's verdict on
them (`live`), `retained` the tokens whose plaintext the main process keeps, and
`cancels` the requests to drop one.

**MenuPanel.** `panel` is the React state; an attempt and the generation it began
in is again a record with `live`. Two effects, the debounced search and the focus
refresh, are actions of their own. `session` counts unlocks and locks of the main
process, whose handlers of the panel are in `SecretRelease`.

**FieldReveal.** One row, whose component React keeps when another secret or
version is shown, so that its identity changes in a rendering and its effects run
later (`settled`). The gate's generation is `live`, again. The window may lose the
focus or be hidden at any time, and the session may end.

**ProjectAccess.** `grants` is the list of one-use capabilities of each renderer;
`pick`, `discovery`, `change`, `switching` and `export` are the calls in
progress, each with the scope it began in. A command looks its grants up one by
one and then consumes them one by one; when one fails, the lookups that are under
way go on as `strays`. The user edits the `.env` file at any time.

## 3. The runs

| Run | Instance | Shows |
|---|---|---|
| `auth_state` | 2 clients, 8 requests over 2 values of each file, 3 layouts, 3 generations, 1 crash or failed deletion | the refinement; the manifest always resolves; superseded wrappers go; no request is left unanswered |
| `sign_in` | flows: 2 clients; every flow but the kit's revocation, every flow but Touch ID, or five with both, over an installation with outdated parameters; or the first-run flows over an empty directory with backups of 2 other installations, or two first-run restores and the use of a kit there; 1, 2 or 3 new secrets, 2 boundaries, crashes. Renderer: 3 unlocks and 2 idle locks with a command and an edit; 2 sign-outs; 2 changes of vaults over 3 with an idle lock, a second unlock or a lost answer; one with an idle lock and a second unlock, with a lost answer, or with a command and an edit | keys mix only by a flow whose vault a first-run restore replaced meanwhile, never over an installation; what was replaced returns only by the two stale paths named; sign-out is final; answers match effects; at rest both processes have the same session, vault and revision, and within an epoch nothing shown goes back, but for the list by the answer of a change that was sent again |
| `mutations` | 2 commands, 2 usage batches and a writer; or a command beside 2 switches, or beside a switch and a writer; 2 vaults, one receipt and one marker kept, one lost answer | no change twice, none over an unseen one, none in another vault but for the gap of section 5 |
| `documents` | commands: root and 2 folders, 2 secrets of 2 fields, 2 providers, a group, a project, an environment name, 1 pin; 6 families of commands. Form: 2 secrets of 1 or 2 fields, 2 values, 2 pictures, 4 types, at most 3 edits, 2 saves and 2 changes by others | the validator never refuses what commands made; mappings and orders survive what does not concern them; a save stores what its author meant and never a placeholder or another field's value |
| `records` | 2 vaults, 3 records and an attachment, 2 operations, one receipt kept, 3 revisions; inline, record and collection formats, a backup from before collections; a damaged attachment; 1 record left to a worker of a failed task | no task collects what is referenced, what is committed opens, but for records that a worker of an earlier, failed task took; operations apply once, the refinement |
| `mutation_audit` | 2 changes, ring of 1 or 2, 4 boundaries, 2 faults | reconciliation is complete, and entries arrive |
| `device_stores` | PIN: 2 handlers, 5 checks, 2 resets, 2 faults; or 1 handler, 6 checks, 1 reset, 3 restarts. Keychain: 1 helper at a time, 2 vaults after each other, 5 calls, 3 faults; an edition with a retired service and one without. Log: 8 appends, segments of 2, 1 archive, 3 faults, no reader; or 4 appends, 2 readers, no rotation | the ceiling holds, checks exclude each other, a restart forgets no answered failure; a key is there until it is removed, answers say what is there, an interrupted replacement is completed; nothing the log acknowledged is lost, it verifies when no reader runs, and reads are complete |
| `lifecycle` | keyring: 3 handles, one of them over a dialog, 2 lockers, 4 boundaries. Session: 2 uses, flush at 2, 1 marker, idle check and quit, 3 boundaries; 2 handlers, one over a dialog, or that one and a fault or crash | a handle passes `assertCurrent` exactly in its scope; a lock that returned has outlasted all it found live; an overtaken unlock installs nothing; each lock returns unless a dialog stays open; a use counts at most once and is never lost silently; the published revision is the document's; usage of a lasting session settles; a quit ends |
| `release` | 2 handlers, 2 windows, 1 value; 2 copies or reveals, or 2 exports, over 3 boundaries with a failing entry and a crash; or 3 previews and imports over 2 boundaries and 2 edits | revealed values and plaintext files are on record first; answers tell of files; imports are what was previewed; copied secrets are cleared and nothing else is |
| `project_folders` | 2 folders, one in the other, 2 projects, 2 vaults, 3 calls at a time, 2 boundaries, 1 commit; 2 selections, or one and an export, over a project to create; or 1 selection over two projects to move | a grant is spent once, an export writes only where the acknowledged document says, nothing is replaced unapproved |
| `dialogs` | editor: 1 project or 2, or none; 2 folders with a key each, 2 fields, 2 edits, 1 scan, 3 commands. Import: 3 things given, 2 parses, 2 openings. Panel: 2 fields, 2 queries, 6 calls, 2 visits, 2 pastes, 2 unlocks. Row: 2 identities, 3 reveals, 4 changes, 2 sessions | a deleted project stays deleted and entries stay with their project; a preview is of what was given last and plaintext has an owner; a value shown was asked for on this visit and will be hidden |
| `project_scans` | one project to create, from a folder with one key, scanned | violated: the keys that a scan finds are not recorded (section 5) |

**Bounds.** They are counters in the guards, each a named constant or a field of
a scenario. Two clients or handlers suffice where the code's exclusion is
pairwise (a queue, a flag, an epoch comparison); the keyring has three handles so
that one can belong to an earlier scope, one to the present and one to a dialog.
A ring of one entry makes eviction happen after two changes. Three generations
allow a commit over a commit over the remains of a failed one. Three records, of
which two go together and one is shared, let two workers race and let a vault
lose some but not all of its files. Segments of two events with one archive make
eight appends rotate three times and drop a segment. Two boundaries are a lock or
sign-out and a second one or a crash; a third reopens the vault. Of three calls on
project folders one can begin while a second is confirmed and a third, a switch, is
about to be queued. In `records` workers of failed tasks have one record left between them
(`MaxLeft`), to write or to remove beside any later task, and a second backup is not made
(`OneBackup`). Each family of commands pairs
those that touch the same part of the document. Symmetry is used only in runs
without liveness properties; over records only for the two that always go
together.

**Deadlock.** Models whose bounds or one-time calls run out do stop, so
`CHECK_DEADLOCK FALSE` is set there; `lifecycle`, and the keyring in it, is checked for
it. Liveness properties take the place of the deadlock
check in the others.

**Fairness.** `SessionKeyring`: weak fairness of `release`, as every handler
releases in a `finally` block, but not for a handle that is kept over a native
dialog; and of a lock's return once it may. `AuthStateStore`: weak fairness of the
running operation and of the start of the next, which promise chaining gives;
none of crashes, failures or new requests. `MutationAudit`: of handlers, the
append queue, the guard's lock and the reconciliation's steps, each a promise
callback that runs; none of users, crashes and failures. `SessionLifecycle`: of
the end of each handler without a dialog, the flush timer, the start of the next
flush and the answer of its commit, the end of a lock that may end, and the
five-second timer of a quit. `SecretRelease`: of the append queue, of each call's
steps that wait for nobody, and of the clearing timers; none of dialogs, PINs,
windows or locks. All else is safety.

## 4. Proofs

TLAPS checks each theorem below for every value of the constants that the named
assumptions allow: any sets of clients, handlers, vaults, files, commands and
windows, any limits and any number of boundaries. Each invariant is first checked
by TLC as the `IInv` of a run, then proved by `Init => IInv` and
`IInv /\ [Next]_vars => IInv'`, with a step for each action and one for each
conjunct that the action may disturb. An action property or a refinement follows
from the invariant and one more look at each action. Sequences are handled by a few
lemmas at the head of each module (what `Append`, `Tail` and a bounded suffix do to
members, order and repetition), which the rest cites.

| Of | Theorem | States |
|---|---|---|
| `SessionKeyring` | `KeyringInvariant` | `SessionsSpec => []KeyringInv`, the module's `IInv` |
|  | `HandlesAreScoped` | `SessionsSpec => []CommitsOnlyInItsScope` |
|  | `LocksDrain` | `SessionsSpec => []LockDrains` |
|  | `UnlocksAreUnovertaken` | `SessionsSpec => UnlockOnlyUnovertaken` |
| `AuthStateStore` | `StoreInvariant` | `Spec => []IInv`, in it `ManifestResolves` |
|  | `SupersededWrappersGo` | `Spec => CommitLeavesOneWrapper` |
|  | `ImplementsOneTriple` | `Spec => ImplementsAtomicAuthState` |
| `RecordStore` | `CollectionInvariant` | `Spec => []IInv`, in it `Kept`, `Unharmed`, `AppliedOnce` |
|  | `CommittedOpens` | `Spec => CommitsOpen` |
|  | `ImplementsCollection` | `Spec => ImplementsAtomicCollection` |
| `VaultMutations` | `MutationsInvariant` | `Spec => []IInv`, in it `AppliedOnce`, `AppliedOnWhatItsAuthorSaw` |
|  | `StaleAnswersAreTrue` | `Spec => StaleMeansNotApplied` |
|  | `CommitsAreScoped` | `Spec => ScopedCommits` |
| `SessionLifecycle` | `LifecycleInvariant` | `SessionsSpec => []IInv`, in it `UsageCountedOnce`, `RevisionFollowsDocument` |
| `SecretRelease` | `ReleaseInvariant` | `Spec => []IInv`, in it `ReleasesAreRecorded`, `AnswersTellOfFiles`, `ImportsArePreviewed` |
|  | `UsersAreSpared` | `Spec => ClearsOnlySecrets` |
| `MutationAudit` | `AuditInvariant` | `Spec => []IInv`, in it `ReconciledSession` |
| `RendererSession` | `RendererAgreesAtRest` | `BothSpec => [](side = "renderer" => SidesAgree)`, a part of `RendererInv` |
|  | `RendererNeverGoesBack` | `BothSpec => RendererGoesOn`, which is `NothingGoesBack` |
| `AuthFlows` | `FlowsSafe` | `BothSpec => []FlowsInv`, in it `OneVaultKey`, `SessionOpensVault` |
|  | `FlowsReplaceForGood` | `BothSpec => FlowsReplaced`, which is `ReplacedStaysReplaced` |
|  | `FlowsAnswerTruly` | `BothSpec => FlowsAnswer`, which is `SignedOutStaysOut` and `ReportsWhatItDid` |
| `ProjectAccess` | `AccessSafe` | `DialogsSpec => []AccessInv`, in it `Accounted` |
|  | `ExportsAreApproved` | `DialogsSpec => ExportsAsApproved`, which is `ExportsWhereAcknowledged` and `ReplacesOnlyApproved` |
| `ImportDialog` | `ImportIsSafe` | `DialogsSpec => []ImportInv`, in it `PreviewIsOfTheLast`, `PlaintextHasAnOwner` |
| `MenuPanel`, `FieldReveal` | `ScreensAreClean` | `DialogsSpec => []ScreensInv`, in it `NothingLeft`, `ResultsOfTheQuery`, `ValueIsOfThisVisit` |

Of the constants is assumed, by `ASSUME`s that the runs evaluate: for `SessionKeyring`,
in `MCSessionLifecycle`, `KeyringAssumption`; in `AuthStateStore` `BoundsAssumption`,
`NoneAssumption`, `LayoutAssumption` and `RequestsAssumption`; in `RecordStore`
`StoreAssumption`, `NoneAssumption` and `StartsAssumption`; in `VaultMutations`
`LimitsAssumption`; in `SessionLifecycle` `LifecycleAssumption`; in `SecretRelease`
`BoundsAssumption` and `NamesAssumption`; in `MutationAudit` `BoundsAssumption`;
in `AuthFlows` `FlowsAssumption`; for `RendererSession`, in `MCSignIn`,
`RendererAssumption`; in `ProjectAccess` `ProjectAssumption` and `NoneAssumption`; for
the dialogs, in `MCDialogs`, `ImportAssumption`, `PanelAssumption` and
`RevealAssumption`.

The assumptions say that a bound is a number, that `None` is no vault, file or
key, that kinds of changes are apart, and that what a behaviour starts from is a
state the program writes: a request has the arguments its commit function takes
(`RequestsAssumption`), a collection on disk has an active vault that is not
archived and every file it references (`StartsAssumption`). No theorem has a hypothesis
beside these: workers outlive their batch, first-run restores of different backups
overlap, and answers are lost. Where the code lets one of these do harm, the statement
says whom it harms: only records in `taken`, only once `mixed`, only a list by the answer
of a change that was sent again. That it does harm there, section 5 shows.
`FlowsAssumption` also numbers the secrets: those of the installation, those made
here and those of foreign backups are apart.

**The keyring.** `CommitsOnlyInItsScope` is not inductive: it says nothing of a
handle that is stale because of its number only. `IInv` adds that no stamp is ahead
of the epoch (else a boundary could make an old handle current), that `fresh` is
exactly the live handles stamped with the present epoch while no lock is in
progress, that the installed key belongs to the present epoch and a current
lease shares it, that the counter is the number of live handles, that a lock in
progress has cleared the key and waits for something, and that what a lock still
awaits is live and the lock still in progress. `LockDrains` then follows as the
lock's return needs `~invalidating`. `KeyringAssumption` (handles form a finite
set) is there as the counter is a cardinality.

**The authentication-state store.** That the manifest resolves says nothing of
the files an operation has written so far. `IInv` adds that whoever waits has one
operation, queued or running (`QueueIsPending`); that the running one has the last
generation drawn and no file in force has it before its manifest is renamed
(`GenerationIsItsOwn`); that what it resolved when it began is still in force
(`ActiveIsInForce`), as the queue runs one operation at a time; and that what its
step has behind it is on disk (`Written`). Then a rename of the manifest names
files that are there, and collection deletes only what nothing names. The refinement
is a step simulation: `InForceKept` says that a step that leaves the manifest and
its files alone is a stutter of `AtomicAuthState`, and the rename is the one step at
which the request is applied.
`CommitLeavesOneWrapper` looks at the last step alone: a collection without a failed
deletion has removed every generation that the manifest does not name.

**The collection.** `Serial` says that what a task is about to commit was made from the
collection still there, and that whatever that needs to open is yet to be written, opens
already, or was taken by a worker of a failed task. `Kept`
then survives the commit, and it survives the collection because garbage is computed
from the committed collection. A worker that goes on adds what it takes to `taken`, and
a task that writes the record strikes it off: only by the one is anything referenced
lost. `Remembered` says that an applied operation was asked
for of an earlier revision, so it is refused though its receipt be evicted: the ring's
size does not matter for `AppliedOnce`. In the refinement a vault is `Lost` once one
of its files is gone, so it also says again that none ever is.

**Mutations.** The two lines a call waits in, the channel to the main process and
the storage queue, keep their order (`LinesAgree`). A session has one command out
(`OneOut`). From these, `RetriesFollow`: between the two attempts of a command no
other command comes, so the receipt of the first is the last one written when the
second is looked up, and even a ring of one entry holds it. `AppliedAsAsked` says that an
applied command stands beyond the revision its author saw; so a command whose revision
is still current has not been applied, which gives `AppliedOnce` without receipts and
`StaleMeansNotApplied` with them. `SwitchesRotate` says that a switch which did not
rotate the scope finds its target selected already, and `Scoped` that the vaults which
rotating switches still lead to were known when a call was admitted: `ScopedCommits`
follows.

**Usage counts.** `BucketsInOrder`: a bucket takes no use once it was tried, and only
the first bucket can be on disk unseen. So its marker, the newest one, is still there
when it is tried again, whatever the ring's size, and a use is counted once.
`FlushInOrder` says that a flush works on the front of the queue, and `NothingInvented`
that the published revision is never ahead of the document.

**Release of secrets.** `EntriesArrive` says of an audit entry that a call waits for: it
is in the log, or queued before any unlock's entry, or the guard blocks and no unlock's
entry is queued. An unlock's entry is what lifts the guard, and every unlock in the queue
was before the call, so a wait ends with the entry in the log or with the guard shut.
`ExportsInOrder` then says that an export that goes on to its file has its authorization.
`CallsApart` and `TokensApart`: calls in progress have numbers of their own, and one that
imports holds a token that no other call, window or later preview has.

**Reconciliation.** It compares the receipts with what it read of the log. `LogGrows`
says that what it read is still there, `ProbesAhead` that it waits for every event which
may lift the guard in its session: what the guard suppresses after the comparison stays
suppressed, and the conclusion excepts it. `NotAhead` keeps an old reconciliation out of
a later session.

**Authentication flows.** That the files and the session hold one key says nothing of
what a flow that derives for a while will do next. `IInv` adds what each flow carries at
each stage (`Carries`), and that what it read holds one key, of secrets known by then
(`SeenIsSound`), so that a new secret is in no installation, backup or history. While its
epoch lasts, a leased key is the session's (`LeasesKey`), and the vault that a flow has
opened, or chose a backup for, is still the one on disk unless the flow is displaced
(`VaultStays`): a commit that puts another vault there needs an empty directory or a
backup of the same vault, or it is a first-run restore that finds an installation by now.
`RestoresFirst` says that nothing is unlocked while such a restore is still to commit, and
`FirstRunOnly` that there is none, nor a displaced flow, over an installation. All of this
holds while no keys are mixed; `KeysMixOnlyByDisplaced` then says that they hold together
or that the behaviour began with a first run and a displaced flow has committed.
`CommitsAtHead` and `EpochsBehind` give the answers: a commit that is refused has not been
applied, and a flow that ran at a sign-out is never current again.

**The renderer.** Agreement at rest says nothing while a message is on its way. `IInv`
adds `SidesInv`, which holds until the application quits. Of a lock of the main process
the renderer is told, after any answer that would still open it (`LearnsOfLock`); a
renderer that is locked has a lock or a sign-out on its way to an open main process, or
an answer that opens it (`EndIsSent`); one whose guard is closed while the vault is still
shown has its sign-out on its way (`SignsOut`). What makes the answer to an attempt safe
to install is `NoEndBehind`: no lock or sign-out was sent after the attempt that the
guard still accepts, for each of them ends the attempt's epoch. `EpochsSeen` says which
attempts the guard accepts: those of an epoch in which nothing is shown. At rest there is
no such message left, so the two sides are both open or both shut.

That a list shown is not older than the one before it rests on what is
still on its way. `IInv` adds `ListInv`: lists that refresh an epoch stand on the wire in
the order in which they were true, behind the one that is shown (`ListsInOrder`), as the
main process answers a list at once and a change when it is committed. The exception is a
change that was sent again, which is answered from its receipt (`Repeats`). The first call
of a change is not: it is in one place, which is a list that is asked for or answered, a
call or a running handler, and in none once its handler is done with it (`AskedOnce`).
What a repeated answer brings is the list that its change made (`Recorded`), so
`NothingGoesBack` says exactly how far back the list may go.

**Project folders.** `Accounted` says that of each selection a renderer made there are
never more grants, held or taken by a command, than were made: `balance >= Holds + Taken`.
A grant that is evicted, revoked or expired only lowers `Holds`; a commit counts one off
each balance of which it holds one. Several are granted in one step, so the proof adds up the new
ones by induction over their number. An export writes where the acknowledged document
says: the revision it carries stands for one folder, the one that was stored and shown
(`ExportsOfOneRevision`), as a command commits to the active vault with all it looked up
in hand (`CommandsOfTheActive`) and publishes what it stored (`ShownIsStored`); and it
replaces a file only when it asked (`ExportsPrepared`). While its scope lasts no switch of
vaults is queued: a switch rotates the scope and is queued in the same step
(`index.ts:480`, `vaultCollectionIpc.ts:81-89`).

**The import dialog.** That a preview is of what was given last says nothing of what is
still being read or decrypted. `GivenIsLast` says that what the dialog has, `ReadsAreOfTheLast`
and `CallsAreOfTheText` that what may still be heard, is of that; and that at most one
decryption may be heard, else the answer of one could replace the preview of the other
and leave its token with nobody. `TokenOfThePreview` ties the token to the preview, and
`PlaintextIsAccounted` says where each plaintext that the main process keeps is: shown,
given back on a channel, or on its way to the dialog. Once the calls and the requests to
drop one are answered, only the shown one is left, which is `PlaintextHasAnOwner`.

**The panel and the row.** What may still be heard of a field or a picture was asked for
since the panel was cleared (`LiveIsOfThisPanel`), and of a row, since it was left
(`LiveIsOfThisPage`); so what it brings is of what is shown. Searches have no generation.
`SearchesCatchUp` says that while a search of another query may still succeed, a later one
of the query in the field is on its way, and is answered after it, as the main process
answers the searches of one session in their order and the session never goes back: so the
results are those of the query in the end (`ResultsOfTheQuery`).

**Model-checked only.** Liveness, as the prover does not reason about fairness here:
`LockReturns`, `EveryRequestSettles`, `EventuallyAudited`, `UsageSettles`, `QuitEnds`,
`CopiesAreCleared`. And the safety properties
of the modules without proofs: `VaultCommands` and `SecretForm` (`CommandsInv`,
`FormInv`), `AuditLog`, `QuickRevealPin` and `KeychainHelper` (`StoresInv`), and
`ProjectEditor` (`EditorInv`), which holds for the instance's sequences of edits and not
for all (section 5), so that there is no theorem to prove. `MutationsInvariant` and `ReleaseInvariant` speak of the main process and of the
one renderer's part that `VaultMutations` has; that the renderer shows at rest what was
committed is `ShowsTheActive` of `RendererInv`, which TLC checks.

## 5. Known limits of the code

Each of these is what reading the code and TLC agree on. The statement named with
it says what one might wish for and does not hold; it is no property of a run, and
the runs' properties say how far the limit reaches. To see it violated, take the
configuration of the module, replace its properties by the statement, drop its
symmetry, and change:

| Statement | Configuration | Changes |
|---|---|---|
| `RevokedKitStaysRevoked`, `OneVaultKey` | `MCSignIn` | none |
| `RendererInv` | `MCSignIn` | `Scenarios <- NoScenario`, `Settings <- FailedSignOut`, `LostAnswer` or `TwoChanges` |
| `ListNeverGoesBack` | `MCSignIn` | `Scenarios <- NoScenario`, `Settings <- SentAgain` |
| `CommitsInItsVault` | `MCVaultMutations` | `Casts <- RaceCast` |
| `OnlyActiveWrappersRemain` | `MCAuthStateStore` | `Layouts <- LegacyLayouts`, `MaxFaults = 0` |
| `HashChained`, `StoresInv` | `MCDeviceStores` | `Settings <- Nothing`, `Editions <- Nothing`, `LogSettings <- OnlyReadRace`, `OnlyReadLoss` |
| `PublishedOnce` | `MCMutationAudit` | `ReceiptLimits <- OnlyTwo`, `MaxFaults = 0` |
| `OlderAttemptLoses`, `OlderResetLoses`, `FailuresStayCounted` | `MCDeviceStores` | `Editions <- Nothing`, `LogSettings <- Nothing`, `Settings <- OnlyReset`, `OnlyTwoResets`, `OnlySaveFailure` |
| `KeysStay` | `MCDeviceStores` | `Settings <- Nothing`, `LogSettings <- Nothing`, `Helpers <- TwoHelpers` |
| `CollectsOnlyUnreferenced`, `WritesWhatOpens` | `MCRecordStore` | none |
| `QueuedUsageSettles` | `MCSessionLifecycle` | `Casts <- OneAlone` |
| `GrantsEnd` | `MCDialogs`, `MCProjectFolders.cfg` | none |
| `LaterSaveStays` | `MCDialogs` | `EditorSettings <- SavesAgain` |
| `NewDraftStays`, `StatusIsTheLast` | `MCDialogs` | none |
| `EditorInv` | `MCDialogs` | `EditorSettings <- InAHurry` or `DeletesWhileScanning`, `PanelCasts <- Nothing` |
| `OldOrderIsKept` | `MCDocuments` | none |

- **A kit that was replaced comes back**, `RevokedKitStaysRevoked`.
  `verifyRecoveryKit` reads the envelope, derives for a while, and commits the
  copy it read (`auth.ts:519`). A rotation or revocation in between is undone,
  though the renderer says that replacing a kit ends the old one
  (`renderer/src/components/RecoveryKitCenter.tsx:233`). `ReplacedStaysReplaced`
  shows that only this path and an unlock that rewraps outdated parameters do so.
- **Two first runs at once**, `OneVaultKey`. That there is no installation is read
  before the kit is derived (`auth.ts:688`), and the commit does not look again
  (`vaultStorage.ts:1122`): of two restores of different backups the second replaces
  the first. A kit flow in between has read the first vault's kit and wraps that
  vault's key over the second (`auth.ts:643`), which then opens with nothing. `FlowsInv`
  says that keys mix in no other way; the renderer's screen has one restore under way at
  a time.
- **A command in the wrong vault**, `CommitsInItsVault`. The switch rotates
  the scope at `vaultCollectionIpc.ts:81` and only then queues; a command admitted
  in between holds the new epoch, runs after the switch, and commits to the new
  vault when the revisions agree (compare `vaultSessionKey.ts:107-112`).
  `ScopedCommits` says that nothing worse happens.
- **The legacy wrapper stays**, `OnlyActiveWrappersRemain`. Collection
  deletes generated names only (`vaultStorage.ts:1663`), so `key.wrapped` of the
  old password survives a rotation, though the comment at `vaultStorage.ts:1650`
  says that such a wrapper would undermine it.
- **A reader beside an append**, `HashChained`, and in `StoresInv`
  `AcknowledgedKept`. A
  read caches an old anchor under the new files (`audit.ts:196`) and the chain
  breaks (`docs/security-architecture.md:71`); a reader that finds a rotation's
  journal truncates the log after the appender has gone on.
- **A change recorded twice**, `PublishedOnce`: it commits while the
  reconciliation compares.
- **Resets and late saves of the PIN throttle**, `OlderAttemptLoses`,
  `OlderResetLoses`, `FailuresStayCounted`: a save or an older deletion that
  lands after a reset; a save that failed, and a restart.
- **Workers that outlive their batch**, `CollectsOnlyUnreferenced`,
  `WritesWhatOpens`. When one of the concurrent workers of
  `vaultRecordStore.ts:557` fails, the others go on: a late one removes what a
  newer commit references, or writes under a key copy that was zeroed
  (`vaultSessionKey.ts:37-38`), which does not open.
- **Usage after an unlock**, `QueuedUsageSettles`. What a lock could not flush
  "remains queued ... for the next unlock" (`index.ts:643`), but nothing flushes
  it then until another use is recorded (`vaultUsageBatcher.ts:153` expects locks
  to flush first). `UsageSettles` covers the use's own session.
- **A grant after the lock**, `GrantsEnd`. A picked folder that
  is resolved while a lock revokes all grants is granted after it
  (`projectIpc.ts:82`; `projectCapabilities.test.ts:86`). `Accounted` shows that it
  is still spent once.
- **An orphaned helper**, `KeysStay`. The main process dies while a
  helper replaces the key, starts anew, and calls a second helper: the two delete
  each other's item and marker, and no key is left. The password still opens the
  vault. The run `device_stores` has one helper alive at a time.
- **What a renderer misses while it signs out**, `RendererInv`. Its
  guard is closed until the answer, so a change published meanwhile is dropped
  (`renderer/src/vaultContext.tsx:576`); a sign-out that fails goes on with the
  snapshot from before it. The next command is answered `stale` with the newer one.
- **What a lost answer leaves**, `RendererInv`,
  `ListNeverGoesBack`. A change of the collection that is sent again is
  answered from its receipt, with the list of then, and publishes nothing: an edit
  in between is not shown, or the list goes back, and with several changes the renderer
  may rest on it (`ShowsTheActive` excepts that). The next list or answer is right.
  `RendererGoesOn` shows that the list goes back in no other way.
- **An older switch is shown over a newer document**, `RendererInv` with `TwoChanges`. The
  event of a switch is kept until the list has come
  (`renderer/src/vaultContext.tsx:674`), and then installed with no look at its revision.
  When the second of two changes has returned to the same vault and an edit has been shown,
  the renderer goes back to the snapshot of the first event; it begins a new epoch with
  it, so `RendererGoesOn` allows this.
- **What nobody listens for.** The lock event has a listener while the main layout
  is mounted only (`renderer/src/components/MainLayout.open.tsx:62`), which
  `onAutoLock` shows as the event being ignored; nothing says otherwise.
- **Order in documents of earlier versions**, `OldOrderIsKept`. A folder
  without an order shows its secrets first in the renderer
  (`renderer/src/lib/vaultTree.ts:36`) and is written with its folders first
  (`vaultCommandMutations.ts:868`).
- **A project from a scanned folder**, `UnmappedKeysAreRecorded`, the run
  `project_scans`. A scan fills the entries of the new project with the keys it
  found, which have no secret yet (`renderer/src/components/EnvProjectsModal.tsx:74`),
  and the command requires one of every entry
  (`../shared/vaultIpcContracts.ts:839`): the project is refused until each key is
  mapped or removed, though `docs/project-scanning.md:10` says that the scan records
  the project.
- **A mixed mapping.** Clearing a mapping in the editor keeps the id of its field
  (`EnvProjectsModal.tsx:581`), so a suggestion used after it sends the label of
  one field with the id of another, which is refused
  (`vaultCommandMutations.ts:1203`). `MappingsAreWhole` shows that none is stored.
- **The time of an export undoes a save**, `LaterSaveStays`. `handleExport` writes
  the project as it was at the click, with the time added
  (`EnvProjectsModal.tsx:868`); what was saved while the export waited is undone.
- **What the disabled controls are for**, `EditorInv` with `InAHurry`. Scans and
  creations have no attempt number in the projects' dialog; that their answers do
  not land in another project rests on its controls being disabled meanwhile.
- **What they do not rule out**, `EditorInv` with `DeletesWhileScanning`. The answer to a
  deletion selects the first project that is left, whatever is edited by then
  (`EnvProjectsModal.tsx:888-905`). Between the two the user can begin a new project, as
  its button is disabled only while a new one is being made (`:1279`), and pick a folder for it; the scan of
  that folder, answered after the deletion, puts its keys into the project that was
  selected (`:750-772`). The settings of the run `dialogs` have no deletion beside a scan.
- **A draft begun while another is sent**, `NewDraftStays`: the answer of a creation
  empties whichever draft is in the panel (`renderer/src/components/MenuBarPanel.tsx:427`).
  **An older status**, `StatusIsTheLast`: statuses have no order of their own, so a
  late one replaces a newer until the next.
- **The `vault.lock` entry** is queued when the key is gone and skipped
  (`index.ts:639`); nothing in the repository says otherwise, so no property does.
- **A copy outlives a quit**: its timer dies with the process, so
  `CopiesAreCleared` excepts a crash.

## 6. Not modelled, and the plan

Not modelled for good: cryptography and the kit's text (no state; keys and
wrappers are values), formats, limits of size and number, and text validation
(pure, unit-tested), the access control of a Keychain item, windows, policies and
preload, the presentation of the audit trail, the scanning of a folder and the
parsing of an env file, stubs, harness and scripts. The renderer's interface is
half of the program's lines. Of it the session, the secret editor, the three
dialogs and the reveal of a field are modelled, because calls under way outlive
what they were made for; the rest is presentation and navigation.

Abstracted inside modelled parts: the length of timers (they may fire at any
time), the chunks and staging directories of attachments, file grants beside
folder grants, the throttling of kit attempts, and, in `ProjectAccess` and
`SecretRelease`, the vault a command commits to in the switch window, which is
`VaultMutations`' subject.

What has no proof yet; each of these modules was written with one action per
operation and without recursive operators for it.

1. `QuickRevealPin` (`OneCheckAtATime`, `ClosedWhileResetting`) and `KeychainHelper`
   (`OneNamespace`, `AnswersHold`), which are small.
2. `AuditLog` (`AcknowledgedKept` and `AlwaysVerifies` without a reader), where the
   strengthening says of each step of a rotation what its journal allows to resume.
3. `VaultCommands`: that each command keeps `validateReferences`. That the tree has no
   cycle speaks of chains of any length, which the prover reaches only through a rank
   for each folder.
4. `SecretForm`, and `ShowsTheActive` of `RendererInv`: that what is committed reaches the
   renderer, which has the exceptions of section 5.
