------------------------------ MODULE AuthFlows ------------------------------
(***************************************************************************)
(* AuthController (src/main/auth.ts) over the authentication-state store   *)
(* and the session keyring: setup, unlocking, password and Emergency Kit   *)
(* changes, recovery and restore, as they interleave with each other, with *)
(* locks and sign-outs, and with the death of the process.                 *)
(*                                                                         *)
(* A flow reads the installation outside the storage queue, derives keys,  *)
(* then queues its vault read or its commit.  AuthStateStore shows that a  *)
(* commit is one atomic change of the installation; here it is one step,   *)
(* and the deletions that follow it are the gap before Settle.  What a     *)
(* flow does when its queued operation settles runs before the next queued *)
(* operation's first check, which comes after a mkdir.                     *)
(*                                                                         *)
(* Vault keys, passwords and kits are numbered in the order they are made. *)
(***************************************************************************)
EXTENDS Naturals, Sequences

CONSTANTS Clients,        \* concurrent calls of the controller
          None,
          Scenarios,      \* bound: the kinds of call made, the installation found,
                          \* and foreign backups
          MaxMade,        \* bound: secrets made
          MaxEpoch        \* bound: session boundaries crossed

VARIABLES
  installed,    \* the vault's key, credentials and kit in force, or None
  backup,       \* a backup folder of this installation, or None
  keychain,     \* the vault key stored for Touch ID, or None
  sessionKey,   \* the unlocked vault key, or None
  epoch, locking,
  queue,        \* flows with an operation in the storage queue
  flow,         \* by client
  made,         \* the last number given to a secret
  revoked,      \* history: kits a rotation, a revocation or a use replaced
  retired,      \* history: passwords a change or a recovery replaced
  before,       \* history: flows already running at the last sign-out
  mixed,        \* history: a flow has committed to a vault that a first-run restore
                \* put in the place of the one the flow works with
  scenario      \* the one of Scenarios this behaviour is of

disk    == <<installed, backup, keychain>>
session == <<sessionKey, epoch, locking>>
past    == <<revoked, retired, mixed>>
history == <<past, before>>
vars    == <<disk, session, queue, flow, made, history, scenario>>

AllFlows == {"setup", "unlock", "touchid", "change", "rotate", "verify", "revoke",
             "recover", "restoreKit", "restore"}
Stages   == {"idle", "begun", "read", "vault", "opened", "commit", "committed"}
Ids      == Nat \cup {None}

\* vault: the key it is sealed with; cred: the key wrapped under a password, and
\* whether its scrypt parameters are outdated; kit: the key wrapped under a code.
NoKit == [id |-> None, key |-> None]

Installations ==
  [vault : Nat, cred : [key : Nat, password : Nat, outdated : BOOLEAN],
   kit : {NoKit} \cup [id : Nat, key : Nat]]

\* Both wrappers of an installation open to the key of its vault.
Sound(i) == i.cred.key = i.vault /\ (i.kit # NoKit => i.kit.key = i.vault)

\* What an installation is found with was made before, and what a foreign backup
\* holds has no number that is given to a secret made here.
ASSUME FlowsAssumption ==
  /\ MaxMade \in Nat /\ MaxEpoch \in Nat
  /\ None \notin Nat /\ None \notin Installations
  /\ \A s \in Scenarios :
       /\ s.flows \subseteq AllFlows
       /\ s.installed \in Installations \cup {None} /\ s.foreign \subseteq Installations
       /\ s.made \in Nat
       /\ s.installed # None => Sound(s.installed) /\ s.installed.cred.password <= s.made
                               /\ s.installed.kit.id \in {None} \cup 0..s.made
       /\ \A b \in s.foreign : Sound(b) /\ b.cred.password > MaxMade
                             /\ (b.kit.id # None => b.kit.id > MaxMade)

\* The last three are history: what the flow did and answered, and that a first-run
\* restore replaced the vault it works with.
Calls ==
  [kind : AllFlows \cup {"idle"}, at : Stages, epoch : Nat, key : Ids,
   seen : Installations \cup {None}, changed : BOOLEAN,
   answer : {"none", "success", "failed"}, displaced : BOOLEAN]

NoFlow == [kind |-> "idle", at |-> "idle", epoch |-> 0, key |-> None, seen |-> None,
           changed |-> FALSE, answer |-> "none", displaced |-> FALSE]

TypeOK ==
  /\ installed \in Installations \cup {None}
  /\ backup \in Installations \cup {None}
  /\ keychain \in Ids /\ sessionKey \in Ids
  /\ epoch \in Nat /\ locking \in BOOLEAN
  /\ queue \in Seq(Clients)
  /\ flow \in [Clients -> Calls]
  /\ made \in Nat
  /\ revoked \subseteq Nat /\ retired \subseteq Nat
  /\ before \subseteq Clients
  /\ mixed \in BOOLEAN
  /\ scenario \in Scenarios

Init ==
  /\ scenario \in Scenarios /\ installed = scenario.installed
  /\ backup = None
  /\ keychain \in {None} \cup (IF installed = None THEN {} ELSE {installed.vault})
  /\ sessionKey = None
  /\ epoch = 0
  /\ locking = FALSE
  /\ queue = <<>>
  /\ flow = [c \in Clients |-> NoFlow]
  /\ made = scenario.made
  /\ revoked = {}
  /\ retired = {}
  /\ before = {}
  /\ mixed = FALSE

-----------------------------------------------------------------------------
Kind(c)    == flow[c].kind
Running(c) == flow[c].at # "idle"

\* Mutant of AssertCurrent: it only refuses while a lock is in progress.
AssertUnlocking(c) == ~locking

\* The operation's check; a lease taken in the same turn agrees with it.
AssertCurrent(c) == ~locking /\ flow[c].epoch = epoch

AtHead(c) == queue # <<>> /\ Head(queue) = c

\* These hold a lease on the unlocked key from their first line; a restore does
\* when there is one.
NeedsKey(kind) == kind \in {"change", "rotate", "verify", "revoke"}

\* A flow ends: it answers, its handles are released, a waiting lock may finish.
Answer(c, result) ==
  /\ flow' = [flow EXCEPT ![c] = [NoFlow EXCEPT !.answer = result]]
  /\ before' = before \ {c}

WaitsOn(others) == locking /\ \E d \in others : Running(d)

Advance(c, stage) == flow' = [flow EXCEPT ![c].at = stage]

-----------------------------------------------------------------------------
Begin(c, kind) ==
  /\ ~Running(c)
  /\ ~locking
  /\ NeedsKey(kind) => sessionKey # None
  /\ flow' = [flow EXCEPT ![c] =
       [NoFlow EXCEPT !.kind = kind, !.at = "begun", !.epoch = epoch,
        !.key = IF NeedsKey(kind) \/ kind = "restore" THEN sessionKey ELSE None]]
  /\ UNCHANGED <<disk, session, queue, made, history>>

\* Wrong input, a failed read or write, or a check that throws before the commit.
Fail(c) ==
  /\ flow[c].at \in {"begun", "read", "opened"} \/ (flow[c].at = "commit" /\ AtHead(c))
  /\ queue' = IF flow[c].at = "commit" THEN Tail(queue) ELSE queue
  /\ Answer(c, "failed")
  /\ locking' = WaitsOn(Clients \ {c})
  /\ UNCHANGED <<disk, sessionKey, epoch, made, past>>

\* The unqueued read of the credentials, the envelope or the status.  First-run
\* flows go on only over nothing, the others only over something.
Read(c) ==
  /\ flow[c].at = "begun" /\ Kind(c) # "touchid"
  /\ (Kind(c) \in {"setup", "restoreKit"}) <=> (installed = None)
  /\ flow' = [flow EXCEPT ![c].at = "read", ![c].seen = installed]
  /\ UNCHANGED <<disk, session, queue, made, history>>

\* Touch ID reads the Keychain instead and queues the vault read at once.
RetrieveKey(c) ==
  /\ flow[c].at = "begun" /\ Kind(c) = "touchid"
  /\ keychain # None
  /\ flow' = [flow EXCEPT ![c].at = "vault", ![c].key = keychain]
  /\ queue' = Append(queue, c)
  /\ UNCHANGED <<disk, session, made, history>>

\* The password or the code opened the wrapper that was read: prove the key on
\* the vault before anything is changed.
OpenVault(c) ==
  /\ flow[c].at = "read"
  /\ \/ Kind(c) = "unlock" /\ AssertCurrent(c)
        /\ flow' = [flow EXCEPT ![c].at = "vault", ![c].key = flow[c].seen.cred.key]
     \/ Kind(c) = "recover" /\ flow[c].seen.kit # NoKit
        /\ flow' = [flow EXCEPT ![c].at = "vault", ![c].key = flow[c].seen.kit.key]
  /\ queue' = Append(queue, c)
  /\ UNCHANGED <<disk, session, made, history>>

\* What a backup restores: its own vault, the given or its own credentials, and
\* its kit, or the kit in force when it has none.
RestoredFrom(snapshot) ==
  [snapshot EXCEPT !.kit =
     IF snapshot.kit # NoKit THEN snapshot.kit
     ELSE IF installed # None THEN installed.kit ELSE NoKit]

\* The wrapper that was read opens to the leased key; the commit is queued.
Confirmed(c) ==
  CASE Kind(c) \in {"change", "rotate", "revoke"} -> flow[c].seen.cred.key = flow[c].key
    [] Kind(c) = "verify" -> flow[c].seen.kit.key = flow[c].key
    [] OTHER -> FALSE

\* A queued commit, the key it works with and the state it was computed from.
Submit(c, key, seen) ==
  /\ flow' = [flow EXCEPT ![c].at = "commit", ![c].key = key, ![c].seen = seen]
  /\ queue' = Append(queue, c)
  /\ UNCHANGED <<disk, session, history>>

SubmitChange(c) ==
  /\ flow[c].at = "read"
  /\ AssertCurrent(c)
  /\ Confirmed(c)
  /\ Submit(c, flow[c].key, flow[c].seen)
  /\ UNCHANGED made

\* After the vault read, recovery and an outdated unlock rewrap the key.
SubmitRewrap(c) ==
  /\ flow[c].at = "opened"
  /\ AssertCurrent(c)
  /\ Submit(c, flow[c].key, flow[c].seen)
  /\ UNCHANGED made

SubmitSetup(c) ==
  /\ flow[c].at = "read" /\ Kind(c) = "setup"
  /\ AssertCurrent(c)
  /\ made < MaxMade
  /\ made' = made + 1
  /\ Submit(c, made + 1, None)

\* First-run restore takes any backup with a kit; restore over an installation
\* takes one that opens to the key the current password confirmed.
SubmitRestore(c, snapshot) ==
  /\ flow[c].at = "read"
  /\ \/ Kind(c) = "restoreKit" /\ AssertCurrent(c) /\ snapshot.kit # NoKit
     \/ Kind(c) = "restore" /\ snapshot.cred.key = flow[c].seen.cred.key
        /\ flow[c].key \in {None, flow[c].seen.cred.key}
  /\ Submit(c, snapshot.cred.key, snapshot)
  /\ UNCHANGED made

-----------------------------------------------------------------------------
Install(c) ==
  /\ sessionKey' = flow[c].key
  /\ epoch' = epoch + 1
  /\ UNCHANGED locking

\* installKey, then the Keychain, in one turn.
SucceedUnlocked(c) ==
  /\ epoch < MaxEpoch
  /\ Install(c)
  /\ keychain' = flow[c].key
  /\ Answer(c, "success")

FailOvertaken(c) ==
  /\ Answer(c, "failed")
  /\ locking' = WaitsOn(Clients \ {c})
  /\ UNCHANGED <<sessionKey, epoch, keychain>>

\* readVault, at the head of the queue: the vault is not there, cannot be read, or
\* is sealed with another key.  Touch ID then forgets the key it came with, unless
\* the vault opened but its content is not valid.
VaultReadFails(c) ==
  /\ flow[c].at = "vault" /\ AtHead(c)
  /\ queue' = Tail(queue)
  /\ Answer(c, "failed")
  /\ locking' = WaitsOn(Clients \ {c})
  /\ keychain' \in IF Kind(c) = "touchid" THEN {None, keychain} ELSE {keychain}
  /\ UNCHANGED <<installed, backup, sessionKey, epoch, made, past>>

\* The key opens the vault, and the caller goes on in the same turn.  An unlock
\* with outdated parameters, and recovery, have a key to rewrap first.
VaultReadOpens(c) ==
  /\ flow[c].at = "vault" /\ AtHead(c)
  /\ installed # None /\ installed.vault = flow[c].key
  /\ queue' = Tail(queue)
  /\ IF ~AssertCurrent(c) THEN FailOvertaken(c)
     ELSE IF Kind(c) = "recover" \/ (Kind(c) = "unlock" /\ flow[c].seen.cred.outdated)
     THEN Advance(c, "opened") /\ UNCHANGED <<session, keychain, before>>
     ELSE IF Kind(c) = "touchid"
     THEN epoch < MaxEpoch /\ Install(c) /\ Answer(c, "success") /\ UNCHANGED keychain
     ELSE SucceedUnlocked(c)
  /\ UNCHANGED <<installed, backup, made, past>>

-----------------------------------------------------------------------------
\* Mutant of Basis: a commit starts from the state it read, not the one in force.
BasisRead(c) == flow[c].seen

\* A queued commit resolves the state in force when its turn comes.
Basis(c) == installed

\* The kit a verification commits is the one it read.
VerifiedKit(c) == flow[c].seen.kit

FirstRunKit(c, new) == [id |-> new, key |-> flow[c].key]

\* What each commit leaves installed, given the number of a new secret.
Target(c, new) ==
  LET wrapped == [key |-> flow[c].key, password |-> new, outdated |-> FALSE]
      kit     == [id |-> new, key |-> flow[c].key]
      seen    == flow[c].seen
  IN CASE Kind(c) = "setup"   -> [vault |-> flow[c].key, cred |-> wrapped, kit |-> kit]
       [] Kind(c) = "unlock"  -> [Basis(c) EXCEPT !.cred = [seen.cred EXCEPT !.outdated = FALSE]]
       [] Kind(c) = "change"  -> [Basis(c) EXCEPT !.cred = wrapped]
       [] Kind(c) = "rotate"  -> [Basis(c) EXCEPT !.kit = kit]
       [] Kind(c) = "verify"  -> [Basis(c) EXCEPT !.kit = VerifiedKit(c)]
       [] Kind(c) = "revoke"  -> [Basis(c) EXCEPT !.kit = NoKit]
       [] Kind(c) = "recover" -> [Basis(c) EXCEPT !.cred = wrapped, !.kit = kit]
       [] Kind(c) = "restore" -> RestoredFrom(seen)
       [] Kind(c) = "restoreKit" ->
            [vault |-> seen.vault, cred |-> wrapped, kit |-> FirstRunKit(c, new)]

\* Setup rechecks that nothing is installed, a restore rechecks nothing, and the
\* others resolve the installation they change.
MayCommit(c) ==
  CASE Kind(c) = "setup" -> installed = None
    [] Kind(c) \in {"restore", "restoreKit"} -> TRUE
    [] OTHER -> installed # None

MakesSecret(kind) == kind \notin {"unlock", "verify", "revoke", "restore"}

\* A flow works with a vault from its proof of the key on it, or from the choice of
\* a backup of it, to its commit.
WorksWithVault(f) ==
  \/ f.at \in {"opened", "commit"} /\ f.kind \in {"unlock", "recover"}
  \/ f.at \in {"read", "commit"} /\ f.kind = "restore"

\* A first-run restore that finds an installation by now replaces its vault.
ReplacesVault(c) ==
  Kind(c) = "restoreKit" /\ installed # None /\ installed'.vault # installed.vault

\* The commit at the head of the queue, up to the rename of the manifest.
Commit(c) ==
  /\ flow[c].at = "commit" /\ AtHead(c)
  /\ AssertCurrent(c)
  /\ MayCommit(c)
  /\ MakesSecret(Kind(c)) /\ Kind(c) # "setup" => made < MaxMade
  /\ made' = IF MakesSecret(Kind(c)) /\ Kind(c) # "setup" THEN made + 1 ELSE made
  /\ installed' = Target(c, made')
  /\ flow' = [d \in Clients |->
       IF d = c THEN [flow[c] EXCEPT !.at = "committed", !.changed = TRUE]
       ELSE [flow[d] EXCEPT !.displaced =
               @ \/ (ReplacesVault(c) /\ WorksWithVault(flow[d]))]]
  /\ mixed' = (mixed \/ flow[c].displaced)
  /\ revoked' = IF Kind(c) \in {"restore", "restoreKit"} THEN revoked \ {installed'.kit.id}
                ELSE IF Kind(c) \in {"rotate", "revoke", "recover"} /\ installed.kit # NoKit
                THEN revoked \cup {installed.kit.id} ELSE revoked
  /\ retired' = IF Kind(c) = "restore" THEN retired \ {installed'.cred.password}
                ELSE IF Kind(c) \in {"change", "recover"}
                THEN retired \cup {installed.cred.password} ELSE retired
  /\ UNCHANGED <<backup, keychain, session, queue, before>>

\* Mutant of KeyToStore: the key is stored whatever happened since.
KeyToStoreAlways(c) == flow[c].key

\* What a settled password change leaves in the Keychain.
KeyToStore(c) == IF AssertCurrent(c) THEN flow[c].key ELSE keychain

\* The commit settles.  The kit flows report success at once, and a password
\* change too, but it stores the key only if no lock came between.
SettleChange(c) ==
  /\ flow[c].at = "committed" /\ AtHead(c)
  /\ Kind(c) \in {"change", "rotate", "verify", "revoke"}
  /\ queue' = Tail(queue)
  /\ keychain' = IF Kind(c) = "change" THEN KeyToStore(c) ELSE keychain
  /\ Answer(c, "success")
  /\ locking' = WaitsOn(Clients \ {c})
  /\ UNCHANGED <<installed, backup, sessionKey, epoch, made, past>>

\* Setup, recovery and unlock go on to install the key in the session.
SettleUnlock(c) ==
  /\ flow[c].at = "committed" /\ AtHead(c)
  /\ Kind(c) \in {"setup", "unlock", "recover"}
  /\ queue' = Tail(queue)
  /\ IF AssertCurrent(c) THEN SucceedUnlocked(c) ELSE FailOvertaken(c)
  /\ UNCHANGED <<installed, backup, made, past>>

\* First-run restore queues a read of the vault it restored.
SettleFirstRun(c) ==
  /\ flow[c].at = "committed" /\ AtHead(c)
  /\ Kind(c) = "restoreKit"
  /\ IF AssertCurrent(c)
     THEN /\ queue' = Append(Tail(queue), c)
          /\ Advance(c, "vault")
          /\ UNCHANGED <<session, keychain, before>>
     ELSE queue' = Tail(queue) /\ FailOvertaken(c)
  /\ UNCHANGED <<installed, backup, made, past>>

\* invalidate: a lock joins the one in progress, or starts one and waits.
EndSession(others) ==
  IF locking THEN locking' = WaitsOn(others) /\ UNCHANGED <<sessionKey, epoch>>
  ELSE /\ epoch < MaxEpoch
       /\ epoch' = epoch + 1
       /\ sessionKey' = None
       /\ locking' = \E d \in others : Running(d)

\* Restore forgets the Keychain, and its handler locks before it quits the app.
SettleRestore(c) ==
  /\ flow[c].at = "committed" /\ AtHead(c)
  /\ Kind(c) = "restore"
  /\ queue' = Tail(queue)
  /\ keychain' = None
  /\ Answer(c, "success")
  /\ EndSession(Clients \ {c})
  /\ UNCHANGED <<installed, backup, made, past>>

-----------------------------------------------------------------------------
Lock ==
  /\ ~locking
  /\ EndSession(Clients)
  /\ UNCHANGED <<disk, queue, flow, made, history>>

\* forgetTouchID, then lockVault in the same turn.
SignOut ==
  /\ keychain' = None
  /\ EndSession(Clients)
  /\ before' = {c \in Clients : Running(c)}
  /\ UNCHANGED <<installed, backup, queue, flow, made, past>>

\* A backup of the installation in force; a behaviour takes one at most.
Backup ==
  /\ sessionKey # None /\ installed # None
  /\ backup = None
  /\ backup' = installed
  /\ UNCHANGED <<installed, keychain, session, queue, flow, made, history>>

\* The process dies and starts again locked, over the files and the Keychain.
Crash ==
  /\ \E c \in Clients : Running(c)
  /\ epoch < MaxEpoch
  /\ epoch' = epoch + 1
  /\ sessionKey' = None
  /\ locking' = FALSE
  /\ queue' = <<>>
  /\ flow' = [c \in Clients |-> NoFlow]
  /\ before' = {}
  /\ UNCHANGED <<disk, made, past>>

Snapshots == scenario.foreign \cup (IF backup = None THEN {} ELSE {backup})

Step(c) ==
  \/ \E kind \in scenario.flows : Begin(c, kind)
  \/ Read(c) \/ RetrieveKey(c) \/ OpenVault(c) \/ SubmitChange(c) \/ SubmitRewrap(c)
  \/ SubmitSetup(c) \/ \E s \in Snapshots : SubmitRestore(c, s)
  \/ VaultReadFails(c) \/ VaultReadOpens(c) \/ Commit(c)
  \/ SettleChange(c) \/ SettleUnlock(c) \/ SettleFirstRun(c) \/ SettleRestore(c)
  \/ Fail(c)

Next == ((\E c \in Clients : Step(c)) \/ Lock \/ SignOut \/ Backup \/ Crash)
        /\ UNCHANGED scenario

Spec == Init /\ [][Next]_vars

-----------------------------------------------------------------------------
\* The vault, its credentials and its kit always hold one and the same key: no
\* interleaving of flows leaves a wrapper that opens to another vault's key.
OneVaultKey == installed # None => Sound(installed)

\* An unlocked session always holds the key of the vault on disk.
SessionOpensVault ==
  sessionKey # None => installed # None /\ installed.vault = sessionKey

\* Of the same session: no lock or sign-out came since the flow began.
Current(f) == f.epoch = epoch

EpochsBehind ==
  /\ \A c \in Clients : Running(c) => flow[c].epoch <= epoch /\ (locking => ~Current(flow[c]))
  /\ \A c \in before : Running(c) /\ flow[c].epoch < epoch

CommitsAtHead == \A c \in Clients : flow[c].at = "committed" => AtHead(c)

\* What is installed, kept as a backup or read by a flow: its password and kit are
\* none that is still to be made and, while no keys are mixed, its wrappers open to
\* its vault.
Known(n) == n = None \/ n <= made \/ n > MaxMade

KnownSound(i) ==
  Known(i.cred.password) /\ Known(i.kit.id) /\ (mixed \/ Sound(i))

HeldIsSound ==
  /\ \A i \in {installed, backup} \ {None} : KnownSound(i)
  /\ \A n \in revoked \cup retired : Known(n)

\* An installation is never removed, and what follows from one follows it.
InstalledFirst ==
  installed = None => /\ scenario.installed = None /\ backup = None
                      /\ revoked = {} /\ retired = {} /\ ~mixed

\* What a flow carries at each stage, whatever the others do.
StartsVault(kind) == kind \in {"setup", "restoreKit"}
Opens(kind)       == kind \in {"unlock", "recover", "restore", "restoreKit"}
Submitted(f)      == f.at \in {"commit", "committed"}

Carries(f) ==
  /\ f.at # "idle" => f.kind \in scenario.flows
  /\ f.changed <=> f.at = "committed" \/ (f.at = "vault" /\ f.kind = "restoreKit")
  /\ f.at = "read" => f.kind # "touchid" /\ (f.seen = None <=> StartsVault(f.kind))
  /\ f.at = "vault" => f.kind \in {"unlock", "touchid", "recover", "restoreKit"}
  /\ f.at = "opened" => f.kind \in {"unlock", "recover"}
  /\ Submitted(f) => f.kind # "touchid" /\ f.key # None /\ (f.seen = None <=> f.kind = "setup")
  /\ f.at \in {"vault", "opened"} \/ (f.at # "idle" /\ NeedsKey(f.kind)) => f.key # None
  /\ (Submitted(f) \/ f.at \in {"vault", "opened"}) /\ Opens(f.kind) => f.seen # None
  /\ (Submitted(f) \/ f.at = "opened") /\ f.kind = "unlock" => f.seen.cred.outdated
  /\ Submitted(f) /\ f.kind = "verify" => f.seen.kit.key = f.key

SeenIsSound(f) == f.seen # None => KnownSound(f.seen)

\* A leased key is the one of the session while that lasts.
LeasesKey(f) ==
  f.at # "idle" /\ NeedsKey(f.kind) /\ Current(f) => f.key = sessionKey

\* A key that opens what was read is the key of the vault that was read.
OpensSeen(f) ==
  (Submitted(f) \/ f.at \in {"vault", "opened"}) /\ Opens(f.kind) => f.key = f.seen.vault

\* The vault that a flow works with is the one on disk until a first-run restore
\* replaces it, and the one it committed to until it settles.
VaultStays(f) ==
  /\ WorksWithVault(f) /\ Current(f) /\ ~f.displaced =>
       installed # None /\ installed.vault = f.seen.vault
  /\ f.at = "committed" /\ f.kind \in {"setup", "unlock", "recover"} =>
       installed # None /\ installed.vault = f.key

\* While a first-run restore is still to commit nothing is unlocked.
RestoresFirst(f) ==
  f.at \in {"read", "commit"} /\ f.kind = "restoreKit" /\ Current(f) => sessionKey = None

\* First-run flows begin over nothing.
FirstRunOnly(f) ==
  f.displaced \/ (StartsVault(f.kind) /\ (f.at = "read" \/ Submitted(f))) =>
    scenario.installed = None

FlowOK(f) ==
  /\ Carries(f) /\ SeenIsSound(f) /\ LeasesKey(f) /\ FirstRunOnly(f)
  /\ mixed \/ (OpensSeen(f) /\ VaultStays(f) /\ RestoresFirst(f))

\* Keys mix in one way only: a flow that works with a vault commits after a first-run
\* restore has replaced that vault, which a commit does not check (auth.ts:721-735).
\* Over an installation they never mix.
KeysMixOnlyByDisplaced ==
  IF mixed THEN scenario.installed = None ELSE OneVaultKey /\ SessionOpensVault

IInv ==
  /\ TypeOK
  /\ KeysMixOnlyByDisplaced
  /\ EpochsBehind /\ CommitsAtHead /\ HeldIsSound /\ InstalledFirst
  /\ \A c \in Clients : FlowOK(flow[c])

\* A flow that was running when the user signed out never puts the key back into
\* the Keychain (auth.ts:408-410).
SignedOutStaysOut ==
  \A c \in before : keychain = None /\ flow'[c] # flow[c] => keychain' = None

\* What a flow reports is what it did: a failure that changed the installation is
\* one that a session boundary overtook, or the final vault read of a first-run
\* restore, and a success of a changing flow means that the change was made.
ReportsWhatItDid ==
  \A c \in Clients : Running(c) /\ flow'[c].at = "idle" /\ flow'[c] # NoFlow =>
    /\ flow'[c].answer = "failed" /\ flow[c].changed =>
         flow[c].epoch # epoch \/ flow[c].at = "vault"
    /\ flow'[c].answer = "success" /\ Kind(c) \notin {"unlock", "touchid"} =>
         flow[c].changed

AnswersHold == SignedOutStaysOut /\ ReportsWhatItDid

\* Replacing or removing a kit revokes its code (RecoveryKitCenter.tsx:233): the
\* kit is not in force again until a backup that holds it is restored.
RevokedKitStaysRevoked == installed # None => installed.kit.id \notin revoked

\* A revoked kit comes back only through a verification that had read it before
\* (auth.ts:502-525), and a password that a change or a recovery replaced only
\* through an unlock that had read it with outdated parameters before, and rewraps
\* it now (auth.ts:334-362).
RevokedKitReturnsOnlyByVerify ==
  \A id \in revoked \cap revoked' : installed'.kit.id = id /\ installed.kit.id # id =>
    \E c \in Clients : /\ AtHead(c) /\ Kind(c) = "verify"
                       /\ flow[c].seen.kit.id = id

RetiredPasswordReturnsOnlyByRewrap ==
  \A p \in retired \cap retired' :
    installed'.cred.password = p /\ installed.cred.password # p =>
      \E c \in Clients : /\ AtHead(c) /\ Kind(c) = "unlock"
                         /\ flow[c].seen.cred.outdated /\ flow[c].seen.cred.password = p

ReplacedStaysReplaced ==
  RevokedKitReturnsOnlyByVerify /\ RetiredPasswordReturnsOnlyByRewrap
=============================================================================
