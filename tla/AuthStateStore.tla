--------------------------- MODULE AuthStateStore ---------------------------
(***************************************************************************)
(* The authentication-state commits of src/main/vaultStorage.ts over the   *)
(* files of the vault directory.  auth-state.json names the vault,         *)
(* credentials and recovery files in force; each commit writes new files   *)
(* under a fresh generation, then renames the manifest over the old one,   *)
(* then deletes the wrappers it superseded.  Commits run one at a time     *)
(* from a queue; any step may fail, and the process may die between any    *)
(* two of them.                                                            *)
(*                                                                         *)
(* atomicWritePrivateFile (src/main/fileIO.ts) writes and syncs a          *)
(* temporary file and renames it, so here each file appears whole or not   *)
(* at all.  Generation 0 stands for the legacy layout: vault.enc, and      *)
(* key.wrapped with params.json, that no manifest names.                   *)
(***************************************************************************)
EXTENDS Naturals, Sequences

CONSTANTS Clients,    \* callers of the commit functions
          Vaults,     \* encrypted vault contents
          Creds,      \* wrapped key with its scrypt parameters
          Kits,       \* recovery envelopes
          None,
          Requests,   \* the commits they ask for
          Layouts,    \* the legacy layouts a run may start from
          MaxGen,     \* bound: generations a behaviour may use
          MaxFaults   \* bound: crashes and deletions that fail

Gens == 0..MaxGen

ASSUME BoundsAssumption == MaxGen \in Nat /\ MaxFaults \in Nat
ASSUME NoneAssumption   ==
  /\ None \notin Vaults \cup Creds \cup Kits \cup Gens
  /\ None \notin [vault : Gens, cred : Gens, rec : Gens \cup {None}]
  /\ None \notin [vault : Vaults, cred : Creds, kit : Kits \cup {None}]
ASSUME LayoutAssumption ==
  Layouts \subseteq [vault : Vaults \cup {None}, cred : Creds \cup {None}]

Kinds    == {"create", "credentials", "recovery", "both", "restore", "update"}
MaybeKit == Kits \cup {None}

\* What each commit function is given: only these arguments are not None.
ASSUME RequestsAssumption ==
  /\ Requests \subseteq [kind : Kinds, vault : Vaults \cup {None},
                          cred : Creds \cup {None}, kit : MaybeKit]
  /\ \A r \in Requests :
       /\ r.vault # None <=> r.kind \in {"create", "restore", "update"}
       /\ r.cred # None <=> r.kind \in {"create", "credentials", "both", "restore"}
       /\ r.kind \in {"credentials", "update"} => r.kit = None
       /\ r.kind = "both" => r.kit # None

VARIABLES
  vaultFile, credFile, recFile,   \* by generation: the file's content, or None
  manifest,                       \* auth-state.json, or None
  nextGen,                        \* the next random generation
  queue,                          \* clients whose operation waits its turn
  request, result,                \* by client
  step, runner, gen, active,      \* the running operation
  faults

disk == <<vaultFile, credFile, recFile, manifest>>
job  == <<step, runner, gen, active>>
vars == <<disk, nextGen, queue, request, result, job, faults>>

Manifests == [vault : Gens, cred : Gens, rec : Gens \cup {None}]
Steps     == {"idle", "vault", "replace", "credentials", "recovery", "manifest", "collect"}
Results   == {"idle", "pending", "committed", "failed", "lost"}
Actives   ==
  [vault : Gens, cred : Creds \cup {None}, rec : Gens \cup {None}, kit : MaybeKit]

\* resolveActiveState found nothing it could use.
NoActive == [vault |-> 0, cred |-> None, rec |-> None, kit |-> None]

TypeOK ==
  /\ vaultFile \in [Gens -> Vaults \cup {None}]
  /\ credFile \in [Gens -> Creds \cup {None}]
  /\ recFile \in [Gens -> MaybeKit]
  /\ manifest \in Manifests \cup {None}
  /\ nextGen \in 1..(MaxGen + 1)
  /\ queue \in Seq(Clients)
  /\ request \in [Clients -> Requests \cup {None}]
  /\ result \in [Clients -> Results]
  /\ step \in Steps
  /\ runner \in Clients \cup {None}
  /\ gen \in Gens
  /\ active \in Actives
  /\ faults \in 0..MaxFaults

Init ==
  /\ \E layout \in Layouts :
       /\ vaultFile = [g \in Gens |-> IF g = 0 THEN layout.vault ELSE None]
       /\ credFile = [g \in Gens |-> IF g = 0 THEN layout.cred ELSE None]
  /\ recFile = [g \in Gens |-> None]
  /\ manifest = None
  /\ nextGen = 1
  /\ queue = <<>>
  /\ request = [c \in Clients |-> None]
  /\ result = [c \in Clients |-> "idle"]
  /\ step = "idle"
  /\ runner = None
  /\ gen = 0
  /\ active = NoActive
  /\ faults = 0

-----------------------------------------------------------------------------
\* getAuthStateStatus: a manifest must resolve; without one the legacy files
\* must be all there, or all absent.
Resolves(m) ==
  /\ vaultFile[m.vault] # None
  /\ credFile[m.cred] # None
  /\ m.rec # None => recFile[m.rec] # None

Status ==
  IF manifest # None THEN IF Resolves(manifest) THEN "ready" ELSE "incomplete"
  ELSE IF vaultFile[0] = None /\ credFile[0] = None THEN "missing"
  ELSE IF vaultFile[0] # None /\ credFile[0] # None THEN "ready" ELSE "incomplete"

\* resolveActiveState: the files in force and what they hold.
ActiveState ==
  IF Status # "ready" THEN NoActive
  ELSE IF manifest = None
       THEN [vault |-> 0, cred |-> credFile[0], rec |-> None, kit |-> None]
       ELSE [vault |-> manifest.vault, cred |-> credFile[manifest.cred],
             rec |-> manifest.rec,
             kit |-> IF manifest.rec = None THEN None ELSE recFile[manifest.rec]]

-----------------------------------------------------------------------------
(* The commit functions, by what they write.                               *)
WritesVault(r) == r.kind \in {"create", "restore"}

\* A recovery commit rewraps nothing: it copies the credentials in force.
NewCred(r) == IF r.kind = "recovery" THEN active.cred ELSE r.cred

\* A restored snapshot without an envelope keeps the one in force.
NewKit(r) == IF r.kind = "restore" /\ r.kit = None THEN active.kit ELSE r.kit

NewManifest(r) ==
  [vault |-> IF WritesVault(r) THEN gen ELSE active.vault,
   cred  |-> gen,
   rec   |-> IF r.kind = "credentials" THEN active.rec
             ELSE IF NewKit(r) # None THEN gen ELSE None]

\* Setup refuses to run over anything; restore runs over anything.
MayStart(r) ==
  CASE r.kind = "create"  -> Status = "missing"
    [] r.kind = "restore" -> TRUE
    [] OTHER              -> Status = "ready"

-----------------------------------------------------------------------------
\* enqueueVaultOperation.
Submit(c, r) ==
  /\ result[c] # "pending"
  /\ nextGen + Len(queue) <= MaxGen
  /\ request' = [request EXCEPT ![c] = r]
  /\ result' = [result EXCEPT ![c] = "pending"]
  /\ queue' = Append(queue, c)
  /\ UNCHANGED <<disk, nextGen, job, faults>>

\* The next operation resolves the active state and draws its generation.
Start(c) ==
  /\ step = "idle"
  /\ queue # <<>> /\ c = Head(queue)
  /\ MayStart(request[c])
  /\ queue' = Tail(queue)
  /\ runner' = c
  /\ gen' = nextGen
  /\ nextGen' = nextGen + 1
  /\ active' = ActiveState
  /\ step' = CASE WritesVault(request[c])     -> "vault"
               [] request[c].kind = "update"  -> "replace"
               [] OTHER                       -> "credentials"
  /\ UNCHANGED <<disk, request, result, faults>>

\* Mutant of Refuse: the queue moves on but the caller's promise never settles.
RefuseSilently(c) ==
  /\ step = "idle"
  /\ queue # <<>> /\ c = Head(queue)
  /\ queue' = Tail(queue)
  /\ UNCHANGED <<disk, nextGen, request, result, job, faults>>

\* It throws at once: the wrong status, or a session that has changed.
Refuse(c) ==
  /\ step = "idle"
  /\ queue # <<>> /\ c = Head(queue)
  /\ queue' = Tail(queue)
  /\ request' = [request EXCEPT ![c] = None]
  /\ result' = [result EXCEPT ![c] = "failed"]
  /\ UNCHANGED <<disk, nextGen, job, faults>>

\* Mutant of WriteVault: a restore overwrites the vault file in force.
WriteVaultInPlace ==
  /\ step = "vault"
  /\ vaultFile' = [vaultFile EXCEPT ![gen] = request[runner].vault,
                                   ![active.vault] = request[runner].vault]
  /\ step' = "credentials"
  /\ UNCHANGED <<credFile, recFile, manifest, nextGen, queue, request, result,
                 runner, gen, active, faults>>

WriteVault ==
  /\ step = "vault"
  /\ vaultFile' = [vaultFile EXCEPT ![gen] = request[runner].vault]
  /\ step' = "credentials"
  /\ UNCHANGED <<credFile, recFile, manifest, nextGen, queue, request, result,
                 runner, gen, active, faults>>

\* Mutant of WriteCredentials: the manifest goes first, the envelope after it.
WriteCredentialsOnly ==
  /\ step = "credentials"
  /\ credFile' = [credFile EXCEPT ![gen] = NewCred(request[runner])]
  /\ step' = "manifest"
  /\ UNCHANGED <<vaultFile, recFile, manifest, nextGen, queue, request, result,
                 runner, gen, active, faults>>

WriteCredentials ==
  /\ step = "credentials"
  /\ credFile' = [credFile EXCEPT ![gen] = NewCred(request[runner])]
  /\ step' = IF NewKit(request[runner]) # None THEN "recovery" ELSE "manifest"
  /\ UNCHANGED <<vaultFile, recFile, manifest, nextGen, queue, request, result,
                 runner, gen, active, faults>>

WriteRecovery ==
  /\ step = "recovery"
  /\ recFile' = [recFile EXCEPT ![gen] = NewKit(request[runner])]
  /\ step' = "manifest"
  /\ UNCHANGED <<vaultFile, credFile, manifest, nextGen, queue, request, result,
                 runner, gen, active, faults>>

\* The rename of auth-state.json commits; what follows cannot fail the caller.
WriteManifest ==
  /\ step = "manifest"
  /\ manifest' = NewManifest(request[runner])
  /\ step' = "collect"
  /\ UNCHANGED <<vaultFile, credFile, recFile, nextGen, queue, request, result,
                 runner, gen, active, faults>>

\* commitVaultUpdate renames over the vault file in force.
ReplaceVault ==
  /\ step = "replace"
  /\ vaultFile' = [vaultFile EXCEPT ![active.vault] = request[runner].vault]
  /\ step' = "collect"
  /\ UNCHANGED <<credFile, recFile, manifest, nextGen, queue, request, result,
                 runner, gen, active, faults>>

\* The running operation settles its promise and the next one may start.
Finish(answer) ==
  /\ request' = [request EXCEPT ![runner] = None]
  /\ result' = [result EXCEPT ![runner] = answer]
  /\ step' = "idle"
  /\ runner' = None
  /\ gen' = 0
  /\ active' = NoActive

\* garbageCollectAuthStateFiles deletes every credentials.*.json and
\* recovery.*.json the manifest does not name; setup and updates do not call it.
\* Mutant of Collects: a rotation of both wrappers forgets the old ones.
CollectsSingly(r) == r.kind \notin {"create", "update", "both"}

Collects(r) == r.kind \notin {"create", "update"}

Stale(files, kept) == {g \in Gens \ {0} : files[g] # None /\ g # kept}

Without(files, gone) == [g \in Gens |-> IF g \in gone THEN None ELSE files[g]]

\* Deletions are best-effort: those in spared fail, and nobody is told.
Collect(sparedCred, sparedRec) ==
  /\ step = "collect"
  /\ IF Collects(request[runner])
     THEN /\ sparedCred \subseteq Stale(credFile, manifest.cred)
          /\ sparedRec \subseteq Stale(recFile, manifest.rec)
          /\ credFile' = Without(credFile, Stale(credFile, manifest.cred) \ sparedCred)
          /\ recFile' = Without(recFile, Stale(recFile, manifest.rec) \ sparedRec)
     ELSE sparedCred = {} /\ sparedRec = {} /\ UNCHANGED <<credFile, recFile>>
  /\ faults' = IF sparedCred \cup sparedRec = {} THEN faults ELSE faults + 1
  /\ Finish("committed")
  /\ UNCHANGED <<vaultFile, manifest, nextGen, queue>>

\* A write fails, or assertCurrent throws before a rename: the operation deletes
\* the files of its own generation (spared ones stay) and rejects.
Abort(spared) ==
  /\ step \in {"vault", "replace", "credentials", "recovery", "manifest"}
  /\ vaultFile' = IF "vault" \in spared THEN vaultFile ELSE Without(vaultFile, {gen})
  /\ credFile' = IF "cred" \in spared THEN credFile ELSE Without(credFile, {gen})
  /\ recFile' = IF "rec" \in spared THEN recFile ELSE Without(recFile, {gen})
  /\ faults' = IF spared = {} THEN faults ELSE faults + 1
  /\ Finish("failed")
  /\ UNCHANGED <<manifest, nextGen, queue>>

\* The process dies and starts again with the files it finds.
Crash ==
  /\ faults < MaxFaults
  /\ faults' = faults + 1
  /\ queue' = <<>>
  /\ request' = [c \in Clients |-> None]
  /\ result' = [c \in Clients |-> IF result[c] = "pending" THEN "lost" ELSE result[c]]
  /\ step' = "idle"
  /\ runner' = None
  /\ gen' = 0
  /\ active' = NoActive
  /\ UNCHANGED <<disk, nextGen>>

CollectStep == \/ Collect({}, {})
               \/ /\ faults < MaxFaults /\ step = "collect"
                  /\ \E sc \in SUBSET Stale(credFile, manifest.cred),
                        sr \in SUBSET Stale(recFile, manifest.rec) : Collect(sc, sr)
AbortStep   == \E spared \in SUBSET {"vault", "cred", "rec"} :
                 (faults < MaxFaults \/ spared = {}) /\ Abort(spared)

Work == WriteVault \/ WriteCredentials \/ WriteRecovery \/ WriteManifest \/ ReplaceVault
        \/ CollectStep

Next == \/ \E c \in Clients : \/ \E r \in Requests : Submit(c, r)
                              \/ Start(c) \/ Refuse(c)
        \/ Work \/ AbortStep \/ Crash

Spec == Init /\ [][Next]_vars

\* The queue runs the next operation when the one before it settles, and an
\* operation that is running goes on to settle.
Fairness == /\ WF_vars(Work)
            /\ \A c \in Clients : WF_vars(Start(c) \/ Refuse(c))
FairSpec == Spec /\ Fairness

-----------------------------------------------------------------------------
\* At every instant, between any two file operations and after any crash, the
\* manifest names files that exist (vaultStorage.ts:1805-1815 can resolve it).
ManifestResolves == manifest # None => Resolves(manifest)

\* The steps of an operation that has not committed yet.
Before == Steps \ {"idle", "collect"}

\* Whoever waits for an answer has one operation, which waits in the queue or runs.
QueueIsPending ==
  /\ \A c \in Clients : result[c] = "pending" => request[c] \in Requests
  /\ \A i \in 1..Len(queue) : result[queue[i]] = "pending"
  /\ \A i, j \in 1..Len(queue) : queue[i] = queue[j] => i = j
  /\ step # "idle" => /\ runner \in Clients /\ result[runner] = "pending"
                      /\ \A i \in 1..Len(queue) : queue[i] # runner

\* The running operation has the last generation drawn, and until its manifest is there no
\* file in force has it.
GenerationIsItsOwn ==
  /\ nextGen + Len(queue) <= MaxGen + 1
  /\ step # "idle" => gen = nextGen - 1 /\ gen > 0
  /\ step \in Before /\ manifest # None =>
       manifest.vault < gen /\ manifest.cred < gen /\ (manifest.rec # None => manifest.rec < gen)
  /\ manifest # None =>
       /\ manifest.vault < nextGen /\ manifest.cred < nextGen
       /\ manifest.rec # None => manifest.rec < nextGen

\* What the operation resolved when it began is in force until it commits.
ActiveIsInForce == step \in Before => active = ActiveState /\ MayStart(request[runner])

\* What a step has behind it is on the disk, under the operation's generation.
Written ==
  LET r == request[runner] IN
  /\ step = "vault" => WritesVault(r)
  /\ step = "replace" => r.kind = "update"
  /\ step \in {"credentials", "recovery", "manifest"} =>
       r.kind # "update" /\ (WritesVault(r) => vaultFile[gen] = r.vault)
  /\ step \in {"recovery", "manifest"} => credFile[gen] = NewCred(r)
  /\ step = "recovery" => NewKit(r) # None
  /\ step = "manifest" /\ NewKit(r) # None => recFile[gen] = NewKit(r)

\* A usable installation is then never lost to a setup, a rotation, a restore, a
\* failure or a crash: that it stays installed is part of the refinement below.
IInv == /\ TypeOK /\ ManifestResolves /\ QueueIsPending /\ GenerationIsItsOwn
        /\ ActiveIsInForce /\ Written

\* Of the generations in S, only the wrappers that the manifest names are there.
OnlyInForce(S) ==
  \A g \in S : /\ credFile[g] # None => g = manifest.cred
               /\ recFile[g] # None => g = manifest.rec

\* A rotation, revocation or restore that completes its deletions leaves of the
\* generated wrappers only those in force, whatever earlier crashes and failures left
\* behind.
CommitLeavesOneWrapper ==
  [][step = "collect" /\ step' = "idle" /\ faults' = faults
     /\ request[runner].kind \notin {"create", "update"} => OnlyInForce(Gens \ {0})']_vars

\* When nothing failed or died, the only credentials and recovery files left, those of
\* the legacy layout included, are in force: a superseded wrapper must not outlive the
\* commit that superseded it (vaultStorage.ts:1650-1654).
OnlyActiveWrappersRemain ==
  faults = 0 /\ step = "idle" /\ manifest # None => OnlyInForce(Gens)

\* No operation wedges the queue: each one is answered, or lost to a crash.
EveryRequestSettles ==
  \A c \in Clients : result[c] = "pending" ~> result[c] # "pending"

-----------------------------------------------------------------------------
(* The refinement: what the files say is installed.                        *)
Installed ==
  IF Status # "ready" THEN None
  ELSE [vault |-> vaultFile[ActiveState.vault], cred |-> ActiveState.cred,
        kit |-> ActiveState.kit]

AbstractAccepts(r, state) ==
  CASE r.kind = "create"  -> state = None
    [] r.kind = "restore" -> TRUE
    [] OTHER              -> state # None

AbstractTarget(r, state) ==
  LET old == IF state = None THEN [vault |-> None, cred |-> None, kit |-> None] ELSE state
  IN  [vault |-> IF r.vault # None THEN r.vault ELSE old.vault,
       cred  |-> IF r.cred # None THEN r.cred ELSE old.cred,
       kit   |-> IF r.kit # None THEN r.kit
                 ELSE IF r.kind \in {"create", "recovery"} THEN None ELSE old.kit]

AbstractOutcome ==
  [c \in Clients |-> IF step = "collect" /\ runner = c THEN "applied" ELSE result[c]]

Atomic == INSTANCE AtomicAuthState WITH
  Accepts <- AbstractAccepts, Target <- AbstractTarget,
  installed <- Installed, pending <- request, outcome <- AbstractOutcome

ImplementsAtomicAuthState == Atomic!ASpec
=============================================================================
