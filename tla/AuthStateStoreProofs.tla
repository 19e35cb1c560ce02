------------------------- MODULE AuthStateStoreProofs -------------------------
(* Proofs about AuthStateStore, for any clients, contents, requests, layouts *)
(* and bounds.                                                               *)
EXTENDS AuthStateStore, TLAPS

\* What a request is made of.
LEMMA RequestFacts ==
  ASSUME NEW r \in Requests
  PROVE  /\ r.kind \in Kinds /\ r.vault \in Vaults \cup {None}
         /\ r.cred \in Creds \cup {None} /\ r.kit \in MaybeKit
         /\ r.vault # None <=> r.kind \in {"create", "restore", "update"}
         /\ r.cred # None <=> r.kind \in {"create", "credentials", "both", "restore"}
         /\ r.kind \in {"credentials", "update"} => r.kit = None
         /\ r.kind = "both" => r.kit # None
  BY RequestsAssumption

LEMMA NoneFacts ==
  /\ None \notin Vaults /\ None \notin Creds /\ None \notin Kits /\ None \notin Gens
  /\ None \notin Manifests /\ MaxGen \in Nat /\ 0 \in Gens
  BY NoneAssumption, BoundsAssumption DEF Gens, Manifests

\* A step that leaves the manifest and the files it names alone, or the legacy files
\* where there is none, changes nothing of what is installed.
LEMMA InForceKept ==
  ASSUME manifest' = manifest,
         manifest # None => /\ vaultFile'[manifest.vault] = vaultFile[manifest.vault]
                            /\ credFile'[manifest.cred] = credFile[manifest.cred]
                            /\ manifest.rec # None => recFile'[manifest.rec] = recFile[manifest.rec],
         manifest = None => vaultFile'[0] = vaultFile[0] /\ credFile'[0] = credFile[0]
  PROVE  /\ Status' = Status /\ ActiveState' = ActiveState
         /\ ManifestResolves' = ManifestResolves /\ Installed' = Installed
<1>1. manifest # None => Resolves(manifest)' = Resolves(manifest)
  BY DEF Resolves
<1>2. Status' = Status
  BY <1>1 DEF Status
<1>3. ActiveState' = ActiveState
  BY <1>2 DEF ActiveState
<1>4. ManifestResolves' = ManifestResolves
  BY <1>1 DEF ManifestResolves
<1>5. Installed' = Installed
  BY <1>2, <1>3 DEF Installed, Status, ActiveState, NoActive
<1>6. QED
  BY <1>2, <1>3, <1>4, <1>5

\* What is in force is an Active, with a vault and credentials when there is one.
LEMMA ActiveFacts ==
  ASSUME TypeOK
  PROVE  /\ ActiveState \in Actives
         /\ Status = "ready" => /\ ActiveState.cred \in Creds
                                /\ vaultFile[ActiveState.vault] \in Vaults
                                /\ manifest # None => /\ ActiveState.vault = manifest.vault
                                                      /\ ActiveState.rec = manifest.rec
                                /\ manifest = None => /\ ActiveState.vault = 0
                                                      /\ ActiveState.rec = None
<1> USE NoneFacts DEF TypeOK, Manifests
<1>1. ActiveState \in Actives
  BY DEF ActiveState, NoActive, Actives, MaybeKit
<1>2. ASSUME Status = "ready", manifest # None
      PROVE  /\ ActiveState.cred \in Creds /\ vaultFile[ActiveState.vault] \in Vaults
             /\ ActiveState.vault = manifest.vault /\ ActiveState.rec = manifest.rec
  BY <1>2 DEF ActiveState, Status, Resolves
<1>3. ASSUME Status = "ready", manifest = None
      PROVE  /\ ActiveState.cred \in Creds /\ vaultFile[ActiveState.vault] \in Vaults
             /\ ActiveState.vault = 0 /\ ActiveState.rec = None
  BY <1>3 DEF ActiveState, Status
<1>4. QED
  BY <1>1, <1>2, <1>3

\* The files of the running operation's generation are not in force before it commits.
LEMMA BesideKept ==
  ASSUME IInv, step \in Before, manifest' = manifest,
         \A g \in Gens : g # gen => /\ vaultFile'[g] = vaultFile[g]
                                    /\ credFile'[g] = credFile[g]
                                    /\ recFile'[g] = recFile[g]
  PROVE  /\ Status' = Status /\ ActiveState' = ActiveState
         /\ ManifestResolves' = ManifestResolves /\ Installed' = Installed
<1>1. step # "idle" /\ gen \in Nat /\ gen > 0
  BY NoneFacts DEF IInv, TypeOK, GenerationIsItsOwn, Before, Steps, Gens
<1>2. manifest # None => /\ vaultFile'[manifest.vault] = vaultFile[manifest.vault]
                         /\ credFile'[manifest.cred] = credFile[manifest.cred]
                         /\ manifest.rec # None => recFile'[manifest.rec] = recFile[manifest.rec]
  BY <1>1, NoneFacts DEF IInv, TypeOK, GenerationIsItsOwn, Manifests, Gens
<1>3. vaultFile'[0] = vaultFile[0] /\ credFile'[0] = credFile[0]
  BY <1>1, NoneFacts
<1>4. QED
  BY <1>2, <1>3, InForceKept

\* The request of the operation that runs.
LEMMA RunningFacts ==
  ASSUME IInv, step # "idle"
  PROVE  /\ runner \in Clients /\ request[runner] \in Requests /\ result[runner] = "pending"
         /\ gen \in Gens /\ gen > 0 /\ gen < nextGen /\ nextGen \in Nat
  BY NoneFacts DEF IInv, TypeOK, QueueIsPending, GenerationIsItsOwn, Gens

\* The wrapper that an operation writes is there to be written.
LEMMA NewCredFacts ==
  ASSUME IInv, step \in {"vault", "credentials", "recovery", "manifest"}
  PROVE  /\ NewCred(request[runner]) \in Creds
         /\ NewKit(request[runner]) \in MaybeKit
<1> DEFINE r == request[runner]
<1>1. r \in Requests /\ step \in Before
  BY RunningFacts DEF Before, Steps
<1>2. active = ActiveState /\ MayStart(r)
  BY <1>1 DEF IInv, ActiveIsInForce
<1>3. r.kind # "update"
  BY DEF IInv, Written, WritesVault
<1>4. NewKit(r) \in MaybeKit
  <2>1. active.kit \in MaybeKit /\ r.kit \in MaybeKit
    BY <1>1, RequestFacts DEF IInv, TypeOK, Actives
  <2>2. QED
    BY <2>1 DEF NewKit
<1>5. CASE r.kind = "recovery"
  <2>1. Status = "ready"
    BY <1>2, <1>5 DEF MayStart
  <2>2. QED
    BY <2>1, <1>2, <1>4, <1>5, ActiveFacts DEF NewCred, IInv
<1>6. CASE r.kind # "recovery"
  <2>1. r.cred \in Creds
    BY <1>1, <1>3, <1>6, RequestFacts DEF Kinds
  <2>2. QED
    BY <2>1, <1>4, <1>6 DEF NewCred
<1>7. QED
  BY <1>5, <1>6

-----------------------------------------------------------------------------
LEMMA InitIInv == Init => IInv
<1> SUFFICES ASSUME Init PROVE IInv
  OBVIOUS
<1> USE NoneFacts
<1>1. TypeOK
  <2>1. vaultFile \in [Gens -> Vaults \cup {None}] /\ credFile \in [Gens -> Creds \cup {None}]
    BY LayoutAssumption DEF Init
  <2>2. nextGen \in 1..(MaxGen + 1) /\ faults \in 0..MaxFaults
    BY BoundsAssumption DEF Init
  <2>3. active \in Actives
    BY DEF Init, NoActive, Actives, MaybeKit
  <2>4. QED
    BY <2>1, <2>2, <2>3 DEF Init, TypeOK, Steps, Results, MaybeKit
<1>2. ManifestResolves /\ ActiveIsInForce /\ Written
  BY DEF Init, ManifestResolves, ActiveIsInForce, Written, Before
<1>3. QueueIsPending /\ GenerationIsItsOwn
  BY BoundsAssumption DEF Init, QueueIsPending, GenerationIsItsOwn, Before
<1>4. QED
  BY <1>1, <1>2, <1>3 DEF IInv

\* A client waits at the end of the queue.
LEMMA SubmitIInv ==
  ASSUME IInv, NEW c \in Clients, NEW r \in Requests, Submit(c, r)
  PROVE  IInv'
<1> USE DEF Submit
<1>1. TypeOK'
  BY DEF IInv, TypeOK, disk, job, Results
<1>2. /\ Len(queue') = Len(queue) + 1 /\ queue'[Len(queue) + 1] = c
      /\ \A i \in 1..Len(queue) : queue'[i] = queue[i]
      /\ \A i \in 1..Len(queue) : queue[i] \in Clients
      /\ Len(queue) \in Nat
  BY DEF IInv, TypeOK
<1>3. \A i \in 1..Len(queue) : queue[i] # c
  BY DEF IInv, QueueIsPending
<1>4. QueueIsPending'
  <2>1. \A d \in Clients : result'[d] = IF d = c THEN "pending" ELSE result[d]
    BY DEF IInv, TypeOK
  <2>2. \A d \in Clients : request'[d] = IF d = c THEN r ELSE request[d]
    BY DEF IInv, TypeOK
  <2>3. \A i \in 1..Len(queue') : result'[queue'[i]] = "pending"
    BY <1>2, <2>1 DEF IInv, QueueIsPending
  <2>4. \A i, j \in 1..Len(queue') : queue'[i] = queue'[j] => i = j
    BY <1>2, <1>3 DEF IInv, QueueIsPending
  <2>5. step' # "idle" => /\ runner' \in Clients /\ result'[runner'] = "pending"
                          /\ \A i \in 1..Len(queue') : queue'[i] # runner'
    BY <1>2, <2>1 DEF IInv, QueueIsPending, job
  <2>6. QED
    BY <2>1, <2>2, <2>3, <2>4, <2>5 DEF IInv, QueueIsPending
<1>5. GenerationIsItsOwn'
  BY <1>2, NoneFacts DEF IInv, GenerationIsItsOwn, TypeOK, disk, job, Gens
<1>6. /\ ManifestResolves' = ManifestResolves /\ ActiveState' = ActiveState /\ Status' = Status
  BY InForceKept DEF disk
<1>7. step # "idle" => request'[runner] = request[runner]
  BY DEF IInv, QueueIsPending, TypeOK
<1>8. ActiveIsInForce'
  BY <1>6, <1>7 DEF IInv, ActiveIsInForce, MayStart, job, Before
<1>9. Written'
  BY <1>7 DEF IInv, Written, WritesVault, NewCred, NewKit, job, disk
<1>10. QED
  BY <1>1, <1>4, <1>5, <1>6, <1>8, <1>9 DEF IInv

\* The head of the queue leaves it.
LEMMA HeadFacts ==
  ASSUME IInv, queue # <<>>, queue' = Tail(queue)
  PROVE  /\ queue' \in Seq(Clients) /\ Head(queue) = queue[1] /\ Head(queue) \in Clients
         /\ Len(queue) \in Nat /\ Len(queue) > 0 /\ Len(queue') = Len(queue) - 1
         /\ \A i \in 1..Len(queue') : queue'[i] = queue[i + 1] /\ queue'[i] # Head(queue)
         /\ result[Head(queue)] = "pending" /\ request[Head(queue)] \in Requests
<1>1. /\ queue \in Seq(Clients) /\ queue' \in Seq(Clients) /\ Head(queue) = queue[1]
      /\ Head(queue) \in Clients
      /\ Len(queue) \in Nat /\ Len(queue) > 0 /\ Len(queue') = Len(queue) - 1
      /\ \A i \in 1..Len(queue') : queue'[i] = queue[i + 1]
  BY DEF IInv, TypeOK
<1>2. \A i \in 1..Len(queue') : i + 1 \in 1..Len(queue) /\ 1 \in 1..Len(queue) /\ i + 1 # 1
  BY <1>1
<1>3. \A i \in 1..Len(queue') : queue'[i] # Head(queue)
  BY <1>1, <1>2 DEF IInv, QueueIsPending
<1>4. result[Head(queue)] = "pending" /\ request[Head(queue)] \in Requests
  BY <1>1 DEF IInv, QueueIsPending
<1>5. QED
  BY <1>1, <1>3, <1>4

LEMMA StartIInv ==
  ASSUME IInv, NEW c \in Clients, Start(c)
  PROVE  IInv'
<1> DEFINE r == request[c]
<1> USE DEF Start
<1>1. /\ r \in Requests /\ result[c] = "pending" /\ queue' \in Seq(Clients)
      /\ Len(queue) \in Nat /\ Len(queue) > 0 /\ Len(queue') = Len(queue) - 1
      /\ \A i \in 1..Len(queue') : queue'[i] = queue[i + 1] /\ queue'[i] # c
  BY HeadFacts
<1>2. nextGen \in Gens /\ nextGen > 0 /\ nextGen' \in 1..(MaxGen + 1)
  BY <1>1, NoneFacts DEF IInv, GenerationIsItsOwn, TypeOK, Gens
<1>3. TypeOK'
  <2>1. active' \in Actives
    BY ActiveFacts DEF IInv
  <2>2. step' \in {"vault", "replace", "credentials"}
    OBVIOUS
  <2>3. QED
    BY <1>1, <1>2, <2>1, <2>2 DEF IInv, TypeOK, disk, Steps
<1>4. QueueIsPending'
  <2>1. \A i \in 1..Len(queue') : i + 1 \in 1..Len(queue)
    BY <1>1
  <2>2. \A i, j \in 1..Len(queue') : queue'[i] = queue'[j] => i = j
    BY <1>1, <2>1 DEF IInv, QueueIsPending
  <2>3. \A i \in 1..Len(queue') : result[queue'[i]] = "pending"
    BY <1>1, <2>1 DEF IInv, QueueIsPending
  <2>4. QED
    BY <1>1, <2>2, <2>3 DEF IInv, QueueIsPending
<1>5. GenerationIsItsOwn'
  <2>1. nextGen' + Len(queue') <= MaxGen + 1
    BY <1>1, <1>2, NoneFacts DEF IInv, GenerationIsItsOwn, Gens
  <2>2. gen' = nextGen' - 1 /\ gen' > 0
    BY <1>2, NoneFacts DEF Gens
  <2>3. manifest' # None =>
          /\ manifest'.vault < gen' /\ manifest'.cred < gen'
          /\ manifest'.rec # None => manifest'.rec < gen'
    BY DEF IInv, GenerationIsItsOwn, disk
  <2>4. manifest' # None => /\ manifest'.vault \in Nat /\ manifest'.cred \in Nat
                            /\ manifest'.rec # None => manifest'.rec \in Nat
    BY NoneFacts DEF IInv, TypeOK, Manifests, Gens, disk
  <2>5. QED
    BY <1>2, <2>1, <2>2, <2>3, <2>4, NoneFacts DEF GenerationIsItsOwn, Gens
<1>6. ManifestResolves' = ManifestResolves /\ ActiveState' = ActiveState /\ Status' = Status
  BY InForceKept DEF disk
<1>7. ActiveIsInForce'
  BY <1>6 DEF ActiveIsInForce, MayStart
<1>8. Written'
  BY <1>1, <1>6 DEF Written, WritesVault
<1>9. QED
  BY <1>3, <1>4, <1>5, <1>6, <1>7, <1>8 DEF IInv

LEMMA RefuseIInv ==
  ASSUME IInv, NEW c \in Clients, Refuse(c)
  PROVE  IInv'
<1> USE DEF Refuse
<1>1. /\ result[c] = "pending" /\ queue' \in Seq(Clients)
      /\ Len(queue) \in Nat /\ Len(queue) > 0 /\ Len(queue') = Len(queue) - 1
      /\ \A i \in 1..Len(queue') : queue'[i] = queue[i + 1] /\ queue'[i] # c
  BY HeadFacts
<1>2. TypeOK'
  BY <1>1 DEF IInv, TypeOK, disk, job, Results
<1>3. QueueIsPending'
  <2>1. \A i \in 1..Len(queue') : i + 1 \in 1..Len(queue)
    BY <1>1
  <2>2. \A i, j \in 1..Len(queue') : queue'[i] = queue'[j] => i = j
    BY <1>1, <2>1 DEF IInv, QueueIsPending
  <2>3. \A i \in 1..Len(queue') : queue'[i] \in Clients /\ result'[queue'[i]] = "pending"
    BY <1>1, <2>1 DEF IInv, QueueIsPending, TypeOK
  <2>4. \A d \in Clients : result'[d] = "pending" => request'[d] \in Requests
    BY DEF IInv, QueueIsPending, TypeOK
  <2>5. QED
    BY <2>2, <2>3, <2>4 DEF QueueIsPending, job
<1>4. GenerationIsItsOwn'
  BY <1>1, NoneFacts DEF IInv, GenerationIsItsOwn, TypeOK, disk, job, Gens, Before
<1>5. ManifestResolves' = ManifestResolves
  BY InForceKept DEF disk
<1>6. ActiveIsInForce' /\ Written'
  BY DEF ActiveIsInForce, Written, Before, job
<1>7. QED
  BY <1>2, <1>3, <1>4, <1>5, <1>6 DEF IInv

LEMMA WriteVaultIInv ==
  ASSUME IInv, WriteVault
  PROVE  IInv'
<1> DEFINE r == request[runner]
<1> USE DEF WriteVault
<1>1. r \in Requests /\ gen \in Gens /\ step \in Before
  BY RunningFacts DEF Before, Steps
<1>2. Status' = Status /\ ActiveState' = ActiveState /\ ManifestResolves' = ManifestResolves
  BY <1>1, BesideKept DEF IInv, TypeOK
<1>3. TypeOK'
  BY <1>1, RequestFacts DEF IInv, TypeOK, Steps
<1>4. QueueIsPending'
  BY DEF IInv, QueueIsPending
<1>5. GenerationIsItsOwn' /\ ActiveIsInForce'
  BY <1>1, <1>2 DEF IInv, GenerationIsItsOwn, ActiveIsInForce, Before, MayStart
<1>6. Written'
  BY <1>1 DEF IInv, Written, WritesVault, TypeOK
<1>7. QED
  BY <1>2, <1>3, <1>4, <1>5, <1>6 DEF IInv

LEMMA WriteCredentialsIInv ==
  ASSUME IInv, WriteCredentials
  PROVE  IInv'
<1> DEFINE r == request[runner]
<1> USE DEF WriteCredentials
<1>1. r \in Requests /\ gen \in Gens /\ step \in Before /\ step' \in Before
  BY RunningFacts DEF Before, Steps
<1>2. Status' = Status /\ ActiveState' = ActiveState /\ ManifestResolves' = ManifestResolves
  BY <1>1, BesideKept DEF IInv, TypeOK
<1>3. TypeOK'
  BY <1>1, NewCredFacts DEF IInv, TypeOK, Steps
<1>4. QueueIsPending'
  BY DEF IInv, QueueIsPending
<1>5. GenerationIsItsOwn' /\ ActiveIsInForce'
  BY <1>1, <1>2 DEF IInv, GenerationIsItsOwn, ActiveIsInForce, Before, MayStart
<1>6. Written'
  BY <1>1 DEF IInv, Written, WritesVault, TypeOK, NewCred, NewKit
<1>7. QED
  BY <1>2, <1>3, <1>4, <1>5, <1>6 DEF IInv

LEMMA WriteRecoveryIInv ==
  ASSUME IInv, WriteRecovery
  PROVE  IInv'
<1> DEFINE r == request[runner]
<1> USE DEF WriteRecovery
<1>1. r \in Requests /\ gen \in Gens /\ step \in Before /\ step' \in Before
  BY RunningFacts DEF Before, Steps
<1>2. Status' = Status /\ ActiveState' = ActiveState /\ ManifestResolves' = ManifestResolves
  BY <1>1, BesideKept DEF IInv, TypeOK
<1>3. TypeOK'
  BY <1>1, NewCredFacts DEF IInv, TypeOK, Steps
<1>4. QueueIsPending'
  BY DEF IInv, QueueIsPending
<1>5. GenerationIsItsOwn' /\ ActiveIsInForce'
  BY <1>1, <1>2 DEF IInv, GenerationIsItsOwn, ActiveIsInForce, Before, MayStart
<1>6. Written'
  BY <1>1 DEF IInv, Written, WritesVault, TypeOK, NewCred, NewKit
<1>7. QED
  BY <1>2, <1>3, <1>4, <1>5, <1>6 DEF IInv

\* The manifest names what was written, or what was in force before.
LEMMA NewManifestFacts ==
  ASSUME IInv, step = "manifest", NEW r, r = request[runner]
  PROVE  /\ NewManifest(r) \in Manifests
         /\ NewManifest(r).vault < nextGen /\ NewManifest(r).cred < nextGen
         /\ NewManifest(r).rec # None => NewManifest(r).rec < nextGen
         /\ vaultFile[NewManifest(r).vault] # None
         /\ vaultFile[NewManifest(r).vault] =
              IF WritesVault(r) THEN r.vault ELSE vaultFile[ActiveState.vault]
         /\ credFile[NewManifest(r).cred] = NewCred(r) /\ NewCred(r) \in Creds
         /\ NewManifest(r).rec # None => recFile[NewManifest(r).rec] # None
         /\ (IF NewManifest(r).rec = None THEN None ELSE recFile[NewManifest(r).rec])
              = IF r.kind = "credentials" THEN ActiveState.kit ELSE NewKit(r)
         /\ ~WritesVault(r) => Status = "ready"
<1>1. /\ r \in Requests /\ gen \in Gens /\ gen > 0 /\ gen < nextGen /\ nextGen \in Nat
      /\ step \in Before
  BY RunningFacts DEF Before, Steps
<1>2. active = ActiveState /\ MayStart(r)
  BY <1>1 DEF IInv, ActiveIsInForce
<1>3. /\ r.kind # "update" /\ (WritesVault(r) => vaultFile[gen] = r.vault)
      /\ credFile[gen] = NewCred(r) /\ (NewKit(r) # None => recFile[gen] = NewKit(r))
      /\ NewCred(r) \in Creds /\ NewKit(r) \in MaybeKit
  BY NewCredFacts DEF IInv, Written
<1>4. ~WritesVault(r) => Status = "ready"
  BY <1>2 DEF MayStart, WritesVault
<1>5. active.vault \in Gens /\ active.rec \in Gens \cup {None}
  BY DEF IInv, TypeOK, Actives
<1>6. ~WritesVault(r) =>
        /\ active.vault < nextGen /\ (active.rec # None => active.rec < nextGen)
        /\ vaultFile[active.vault] # None
        /\ (active.rec # None => recFile[active.rec] # None)
        /\ active.kit = IF active.rec = None THEN None ELSE recFile[active.rec]
  <2> SUFFICES ASSUME Status = "ready"
               PROVE  /\ active.vault < nextGen /\ (active.rec # None => active.rec < nextGen)
                      /\ vaultFile[active.vault] # None
                      /\ (active.rec # None => recFile[active.rec] # None)
                      /\ active.kit = IF active.rec = None THEN None ELSE recFile[active.rec]
    BY <1>4
  <2>1. CASE manifest = None
    BY <1>1, <1>2, <2>1, ActiveFacts, NoneFacts DEF IInv, ActiveState, Gens
  <2>2. CASE manifest # None
    <3>1. Resolves(manifest)
      BY <2>2 DEF IInv, ManifestResolves
    <3>2. active.vault = manifest.vault /\ active.rec = manifest.rec
      BY <1>2, <2>2, ActiveFacts DEF IInv
    <3>3. QED
      BY <1>2, <2>2, <3>1, <3>2, NoneFacts DEF IInv, GenerationIsItsOwn, Resolves, ActiveState
  <2>3. QED
    BY <2>1, <2>2
<1>7. WritesVault(r) => r.vault # None
  BY <1>1, RequestFacts DEF WritesVault
<1>8. ~WritesVault(r) => r.kind # "create" /\ r.kind # "restore"
  BY DEF WritesVault
<1>9. r.kind = "credentials" => ~WritesVault(r)
  BY DEF WritesVault
<1>10. NewManifest(r) \in Manifests
  BY <1>1, <1>5 DEF NewManifest, Manifests
<1>11. /\ vaultFile[NewManifest(r).vault] # None
       /\ vaultFile[NewManifest(r).vault] =
            IF WritesVault(r) THEN r.vault ELSE vaultFile[ActiveState.vault]
       /\ NewManifest(r).vault < nextGen
  BY <1>1, <1>2, <1>3, <1>6, <1>7 DEF NewManifest
<1>12. /\ NewManifest(r).rec # None => recFile[NewManifest(r).rec] # None
       /\ NewManifest(r).rec # None => NewManifest(r).rec < nextGen
       /\ (IF NewManifest(r).rec = None THEN None ELSE recFile[NewManifest(r).rec])
            = IF r.kind = "credentials" THEN ActiveState.kit ELSE NewKit(r)
  <2>1. CASE r.kind = "credentials"
    BY <1>2, <1>6, <1>9, <2>1 DEF NewManifest
  <2>2. CASE r.kind # "credentials" /\ NewKit(r) # None
    BY <1>1, <1>3, <2>2, NoneFacts DEF NewManifest
  <2>3. CASE r.kind # "credentials" /\ NewKit(r) = None
    BY <2>3 DEF NewManifest
  <2>4. QED
    BY <2>1, <2>2, <2>3
<1>13. NewManifest(r).cred = gen
  BY DEF NewManifest
<1>14. QED
  BY <1>1, <1>3, <1>4, <1>10, <1>11, <1>12, <1>13

LEMMA WriteManifestIInv ==
  ASSUME IInv, WriteManifest
  PROVE  IInv'
<1> DEFINE r == request[runner]
<1> USE DEF WriteManifest
<1>1. /\ NewManifest(r) \in Manifests
      /\ NewManifest(r).vault < nextGen /\ NewManifest(r).cred < nextGen
      /\ NewManifest(r).rec # None => NewManifest(r).rec < nextGen
      /\ vaultFile[NewManifest(r).vault] # None
      /\ credFile[NewManifest(r).cred] # None
      /\ NewManifest(r).rec # None => recFile[NewManifest(r).rec] # None
  BY NewManifestFacts, NoneFacts
<1>2. TypeOK'
  BY <1>1 DEF IInv, TypeOK, Steps
<1>3. ManifestResolves'
  BY <1>1 DEF ManifestResolves, Resolves
<1>4. QueueIsPending'
  BY DEF IInv, QueueIsPending
<1>5. GenerationIsItsOwn'
  BY <1>1 DEF IInv, GenerationIsItsOwn, Before
<1>6. ActiveIsInForce' /\ Written'
  BY DEF ActiveIsInForce, Written, Before
<1>7. QED
  BY <1>2, <1>3, <1>4, <1>5, <1>6 DEF IInv

\* What an update replaces is the vault file in force.
LEMMA ReplaceFacts ==
  ASSUME IInv, step = "replace"
  PROVE  /\ request[runner].vault \in Vaults /\ request[runner].kind = "update"
         /\ request[runner] \in Requests
         /\ active = ActiveState /\ Status = "ready" /\ active.vault \in Gens
         /\ manifest # None => active.vault = manifest.vault
         /\ manifest = None => active.vault = 0
<1>1. request[runner] \in Requests /\ step \in Before
  BY RunningFacts DEF Before, Steps
<1>2. request[runner].kind = "update"
  BY DEF IInv, Written
<1>3. request[runner].vault \in Vaults
  BY <1>1, <1>2, RequestFacts
<1>4. active = ActiveState /\ Status = "ready"
  BY <1>1, <1>2 DEF IInv, ActiveIsInForce, MayStart
<1>5. QED
  BY <1>1, <1>2, <1>3, <1>4, ActiveFacts DEF IInv, TypeOK, Actives

LEMMA ReplaceVaultIInv ==
  ASSUME IInv, ReplaceVault
  PROVE  IInv'
<1> USE DEF ReplaceVault
<1>1. TypeOK'
  BY ReplaceFacts DEF IInv, TypeOK, Steps
<1>2. ManifestResolves'
  BY ReplaceFacts, NoneFacts DEF IInv, ManifestResolves, Resolves, TypeOK
<1>3. QueueIsPending'
  BY DEF IInv, QueueIsPending
<1>4. GenerationIsItsOwn'
  BY DEF IInv, GenerationIsItsOwn, Before
<1>5. ActiveIsInForce' /\ Written'
  BY DEF ActiveIsInForce, Written, Before
<1>6. QED
  BY <1>1, <1>2, <1>3, <1>4, <1>5 DEF IInv

\* The answer of the running operation ends its request and nobody else's.
LEMMA FinishFacts ==
  ASSUME IInv, step # "idle", NEW answer \in {"committed", "failed"}, Finish(answer),
         UNCHANGED <<manifest, nextGen, queue>>
  PROVE  /\ request' \in [Clients -> Requests \cup {None}] /\ result' \in [Clients -> Results]
         /\ QueueIsPending' /\ GenerationIsItsOwn' /\ ActiveIsInForce' /\ Written'
<1> USE DEF Finish
<1>1. runner \in Clients
  BY RunningFacts
<1>2. request' \in [Clients -> Requests \cup {None}] /\ result' \in [Clients -> Results]
  BY <1>1 DEF IInv, TypeOK, Results
<1>3. \A i \in 1..Len(queue) : queue[i] \in Clients
  BY DEF IInv, TypeOK
<1>4. QueueIsPending'
  BY <1>1, <1>3 DEF IInv, QueueIsPending, TypeOK
<1>5. GenerationIsItsOwn'
  BY DEF IInv, GenerationIsItsOwn, Before
<1>6. ActiveIsInForce' /\ Written'
  BY DEF ActiveIsInForce, Written, Before
<1>7. QED
  BY <1>2, <1>4, <1>5, <1>6

\* A collection keeps what is in force, whatever it deletes.
LEMMA CollectFacts ==
  ASSUME IInv, NEW sc, NEW sr, Collect(sc, sr)
  PROVE  /\ credFile' \in [Gens -> Creds \cup {None}] /\ recFile' \in [Gens -> MaybeKit]
         /\ ManifestResolves' /\ Installed' = Installed
<1> USE DEF Collect
<1>1. credFile' \in [Gens -> Creds \cup {None}] /\ recFile' \in [Gens -> MaybeKit]
  BY DEF IInv, TypeOK, Without, MaybeKit
<1>2. manifest # None => /\ credFile'[manifest.cred] = credFile[manifest.cred]
                         /\ manifest.rec # None => recFile'[manifest.rec] = recFile[manifest.rec]
  BY DEF IInv, TypeOK, Manifests, Without, Stale
<1>3. credFile'[0] = credFile[0]
  BY NoneFacts DEF IInv, TypeOK, Without, Stale
<1>4. QED
  BY <1>1, <1>2, <1>3, InForceKept DEF IInv

LEMMA CollectIInv ==
  ASSUME IInv, NEW sc, NEW sr, Collect(sc, sr), sc \cup sr = {} \/ faults < MaxFaults
  PROVE  IInv'
<1>1. faults' \in 0..MaxFaults
  BY BoundsAssumption DEF IInv, TypeOK, Collect
<1>2. /\ request' \in [Clients -> Requests \cup {None}] /\ result' \in [Clients -> Results]
      /\ QueueIsPending' /\ GenerationIsItsOwn' /\ ActiveIsInForce' /\ Written'
  BY FinishFacts DEF Collect
<1>3. TypeOK'
  <2>1. gen' = 0 /\ active' = NoActive /\ step' = "idle" /\ runner' = None
    BY DEF Collect, Finish
  <2>2. gen' \in Gens /\ active' \in Actives /\ step' \in Steps
    BY <2>1, NoneFacts DEF NoActive, Actives, MaybeKit, Steps
  <2>3. QED
    BY <1>1, <1>2, <2>1, <2>2, CollectFacts DEF IInv, TypeOK, Collect
<1>4. QED
  BY <1>2, <1>3, CollectFacts DEF IInv

LEMMA AbortIInv ==
  ASSUME IInv, NEW spared \in SUBSET {"vault", "cred", "rec"}, Abort(spared),
         spared = {} \/ faults < MaxFaults
  PROVE  /\ IInv' /\ Installed' = Installed
<1>1. faults' \in 0..MaxFaults
  BY BoundsAssumption DEF IInv, TypeOK, Abort
<1>2. step \in Before /\ step # "idle"
  BY DEF Abort, Before, Steps
<1>3. /\ request' \in [Clients -> Requests \cup {None}] /\ result' \in [Clients -> Results]
      /\ QueueIsPending' /\ GenerationIsItsOwn' /\ ActiveIsInForce' /\ Written'
  BY <1>2, FinishFacts DEF Abort
<1>4. /\ vaultFile' \in [Gens -> Vaults \cup {None}]
      /\ credFile' \in [Gens -> Creds \cup {None}] /\ recFile' \in [Gens -> MaybeKit]
  BY DEF IInv, TypeOK, Abort, Without, MaybeKit
<1>5. \A g \in Gens : g # gen => /\ vaultFile'[g] = vaultFile[g]
                                 /\ credFile'[g] = credFile[g]
                                 /\ recFile'[g] = recFile[g]
  BY DEF Abort, Without
<1>6. ManifestResolves' /\ Installed' = Installed
  BY <1>2, <1>5, BesideKept DEF Abort, IInv
<1>7. TypeOK'
  <2>1. gen' = 0 /\ active' = NoActive /\ step' = "idle" /\ runner' = None
    BY DEF Abort, Finish
  <2>2. gen' \in Gens /\ active' \in Actives /\ step' \in Steps
    BY <2>1, NoneFacts DEF NoActive, Actives, MaybeKit, Steps
  <2>3. QED
    BY <1>1, <1>3, <1>4, <2>1, <2>2 DEF IInv, TypeOK, Abort
<1>8. QED
  BY <1>3, <1>6, <1>7 DEF IInv

LEMMA CrashIInv ==
  ASSUME IInv, Crash
  PROVE  /\ IInv' /\ Installed' = Installed
<1> USE DEF Crash
<1>1. ManifestResolves' = ManifestResolves /\ Installed' = Installed
  BY InForceKept DEF disk
<1>2. TypeOK'
  <2>1. gen' \in Gens /\ active' \in Actives /\ step' \in Steps /\ faults' \in 0..MaxFaults
    BY NoneFacts, BoundsAssumption DEF NoActive, Actives, MaybeKit, Steps, IInv, TypeOK
  <2>2. queue' \in Seq(Clients) /\ request' \in [Clients -> Requests \cup {None}]
    OBVIOUS
  <2>3. result' \in [Clients -> Results]
    BY DEF IInv, TypeOK, Results
  <2>4. QED
    BY <2>1, <2>2, <2>3 DEF IInv, TypeOK, disk
<1>3. QueueIsPending'
  BY DEF QueueIsPending
<1>4. GenerationIsItsOwn'
  <2>1. Len(queue) \in Nat /\ Len(queue') = 0
    BY DEF IInv, TypeOK
  <2>2. QED
    BY <2>1, NoneFacts DEF IInv, GenerationIsItsOwn, TypeOK, disk, Before, Gens
<1>5. ActiveIsInForce' /\ Written'
  BY DEF ActiveIsInForce, Written, Before
<1>6. QED
  BY <1>1, <1>2, <1>3, <1>4, <1>5 DEF IInv

-----------------------------------------------------------------------------
LEMMA NextIInv == IInv /\ [Next]_vars => IInv'
<1> SUFFICES ASSUME IInv, [Next]_vars PROVE IInv'
  OBVIOUS
<1>1. CASE \E c \in Clients : \/ \E r \in Requests : Submit(c, r)
                             \/ Start(c) \/ Refuse(c)
  BY <1>1, SubmitIInv, StartIInv, RefuseIInv
<1>2. CASE WriteVault \/ WriteCredentials \/ WriteRecovery \/ WriteManifest \/ ReplaceVault
  BY <1>2, WriteVaultIInv, WriteCredentialsIInv, WriteRecoveryIInv, WriteManifestIInv,
     ReplaceVaultIInv
<1>3. CASE CollectStep
  BY <1>3, CollectIInv DEF CollectStep
<1>4. CASE AbortStep
  BY <1>4, AbortIInv DEF AbortStep
<1>5. CASE Crash
  BY <1>5, CrashIInv
<1>6. CASE UNCHANGED vars
  <2>1. ManifestResolves' = ManifestResolves /\ ActiveState' = ActiveState /\ Status' = Status
    BY <1>6, InForceKept DEF vars, disk
  <2>2. TypeOK' /\ QueueIsPending' /\ GenerationIsItsOwn'
    BY <1>6 DEF IInv, TypeOK, QueueIsPending, GenerationIsItsOwn, vars, disk, job, Before
  <2>3. ActiveIsInForce' /\ Written'
    BY <1>6, <2>1 DEF IInv, ActiveIsInForce, Written, MayStart, WritesVault, NewCred, NewKit,
                      vars, disk, job, Before
  <2>4. QED
    BY <2>1, <2>2, <2>3 DEF IInv
<1>7. QED
  BY <1>1, <1>2, <1>3, <1>4, <1>5, <1>6 DEF Next, Work

\* The manifest names files that exist at every instant, whatever fails or dies
\* (vaultStorage.ts:1805-1815), and all that this rests on.
THEOREM StoreInvariant == Spec => []IInv
<1>1. Init => IInv
  BY InitIInv
<1>2. IInv /\ [Next]_vars => IInv'
  BY NextIInv
<1>3. QED
  BY <1>1, <1>2, PTL DEF Spec

\* A commit whose deletions succeed leaves no generated wrapper but those in force
\* (vaultStorage.ts:1650-1673).
THEOREM SupersededWrappersGo == Spec => CommitLeavesOneWrapper
<1> DEFINE Leaves == step = "collect" /\ step' = "idle" /\ faults' = faults
                     /\ request[runner].kind \notin {"create", "update"}
                       => OnlyInForce(Gens \ {0})'
<1>1. ASSUME IInv, [Next]_vars PROVE Leaves
  <2> SUFFICES ASSUME step = "collect", step' = "idle", faults' = faults,
                      request[runner].kind \notin {"create", "update"}
               PROVE  OnlyInForce(Gens \ {0})'
    OBVIOUS
  <2>1. faults \in Nat
    BY <1>1, BoundsAssumption DEF IInv, TypeOK
  <2>2. PICK sc, sr : Collect(sc, sr)
    BY <1>1, <2>1 DEF Next, Work, CollectStep, AbortStep, Submit, Start, Refuse, WriteVault,
         WriteCredentials, WriteRecovery, WriteManifest, ReplaceVault, Abort, Crash, vars, job
  <2>3. sc = {} /\ sr = {}
    BY <2>1, <2>2 DEF Collect
  <2>4. /\ credFile' = Without(credFile, Stale(credFile, manifest.cred))
        /\ recFile' = Without(recFile, Stale(recFile, manifest.rec))
        /\ manifest' = manifest
    BY <2>2, <2>3 DEF Collect, Collects
  <2>5. QED
    BY <2>4 DEF OnlyInForce, Without, Stale
<1>2. QED
  BY <1>1, StoreInvariant, PTL DEF Spec, CommitLeavesOneWrapper

-----------------------------------------------------------------------------
(* The files implement one atomic (vault, credentials, kit) state.           *)

LEMMA InitRefines == Init => Atomic!AInit
  BY DEF Init, Atomic!AInit, AbstractOutcome

\* What is installed is a triple when the status is ready, and nothing otherwise.
LEMMA InstalledFacts ==
  ASSUME IInv
  PROVE  /\ Status = "ready" => /\ Installed # None
                                /\ Installed.vault = vaultFile[ActiveState.vault]
                                /\ Installed.cred = ActiveState.cred
                                /\ Installed.kit = ActiveState.kit
         /\ Status # "ready" => Installed = None
<1>1. ASSUME Status = "ready"
      PROVE  Installed \in [vault : Vaults, cred : Creds, kit : Kits \cup {None}]
  BY <1>1, ActiveFacts DEF Installed, IInv, Actives, MaybeKit
<1>2. QED
  BY <1>1, NoneAssumption DEF Installed

LEMMA NextRefines == IInv /\ [Next]_vars => [Atomic!ANext]_Atomic!avars
<1> SUFFICES ASSUME IInv, [Next]_vars PROVE [Atomic!ANext]_Atomic!avars
  OBVIOUS
<1>1. ASSUME NEW c \in Clients, NEW r \in Requests, Submit(c, r)
      PROVE  Atomic!Submit(c, r)
  <2>1. Installed' = Installed
    BY <1>1, InForceKept DEF Submit, disk
  <2>2. AbstractOutcome[c] \notin {"pending", "applied"}
    BY <1>1 DEF Submit, AbstractOutcome, IInv, QueueIsPending, TypeOK, Results
  <2>3. AbstractOutcome' = [AbstractOutcome EXCEPT ![c] = "pending"]
    BY <1>1 DEF Submit, AbstractOutcome, job, IInv, TypeOK, QueueIsPending
  <2>4. QED
    BY <1>1, <2>1, <2>2, <2>3 DEF Submit, Atomic!Submit, Atomic!InFlight
<1>2. ASSUME NEW c \in Clients, Start(c) PROVE UNCHANGED Atomic!avars
  <2>1. Installed' = Installed
    BY <1>2, InForceKept DEF Start, disk
  <2>2. AbstractOutcome' = AbstractOutcome
    BY <1>2 DEF Start, AbstractOutcome
  <2>3. QED
    BY <1>2, <2>1, <2>2 DEF Start, Atomic!avars
<1>3. ASSUME NEW c \in Clients, Refuse(c) PROVE Atomic!Fail(c)
  <2>1. Installed' = Installed
    BY <1>3, InForceKept DEF Refuse, disk
  <2>2. AbstractOutcome[c] = "pending"
    BY <1>3, HeadFacts DEF Refuse, AbstractOutcome
  <2>3. AbstractOutcome' = [AbstractOutcome EXCEPT ![c] = "failed"]
    BY <1>3 DEF Refuse, AbstractOutcome, job, IInv, TypeOK
  <2>4. QED
    BY <1>3, <2>1, <2>2, <2>3 DEF Refuse, Atomic!Fail
<1>4. ASSUME WriteVault \/ WriteCredentials \/ WriteRecovery PROVE UNCHANGED Atomic!avars
  <2>1. step \in Before /\ gen \in Gens
    BY <1>4 DEF WriteVault, WriteCredentials, WriteRecovery, Before, Steps, IInv, TypeOK
  <2>2. Installed' = Installed
    BY <1>4, <2>1, BesideKept DEF WriteVault, WriteCredentials, WriteRecovery, IInv, TypeOK
  <2>3. AbstractOutcome' = AbstractOutcome
    BY <1>4 DEF WriteVault, WriteCredentials, WriteRecovery, AbstractOutcome
  <2>4. QED
    BY <1>4, <2>2, <2>3 DEF WriteVault, WriteCredentials, WriteRecovery, Atomic!avars
<1>5. ASSUME WriteManifest PROVE Atomic!Apply(runner)
  <2> DEFINE r == request[runner]
             m == NewManifest(r)
  <2>1. /\ runner \in Clients /\ r \in Requests /\ result[runner] = "pending"
        /\ step = "manifest" /\ step \in Before /\ manifest' = m
    BY <1>5, RunningFacts DEF WriteManifest, Before, Steps
  <2>2. /\ m \in Manifests
        /\ vaultFile[m.vault] # None
        /\ vaultFile[m.vault] = IF WritesVault(r) THEN r.vault ELSE vaultFile[ActiveState.vault]
        /\ credFile[m.cred] = NewCred(r) /\ NewCred(r) \in Creds
        /\ m.rec # None => recFile[m.rec] # None
        /\ (IF m.rec = None THEN None ELSE recFile[m.rec])
              = IF r.kind = "credentials" THEN ActiveState.kit ELSE NewKit(r)
        /\ ~WritesVault(r) => Status = "ready"
    BY <2>1, NewManifestFacts
  <2>3. active = ActiveState /\ MayStart(r) /\ r.kind # "update"
    BY <2>1 DEF IInv, ActiveIsInForce, Written
  <2>4. Installed' = [vault |-> vaultFile[m.vault], cred |-> NewCred(r),
                      kit |-> IF m.rec = None THEN None ELSE recFile[m.rec]]
    <3>1. Status' = "ready"
      BY <1>5, <2>1, <2>2, NoneFacts DEF Status, Resolves, WriteManifest, Manifests
    <3>2. m # None
      BY <2>2, NoneFacts DEF Manifests
    <3>3. QED
      BY <1>5, <2>1, <2>2, <3>1, <3>2 DEF Installed, ActiveState, WriteManifest
  <2>5. AbstractAccepts(r, Installed)
    <3>1. CASE r.kind \in {"create", "restore"}
      BY <2>3, <3>1 DEF AbstractAccepts, MayStart, Installed
    <3>2. CASE r.kind \notin {"create", "restore"}
      BY <2>2, <3>2, InstalledFacts DEF AbstractAccepts, WritesVault
    <3>3. QED
      BY <3>1, <3>2
  <2>6. Installed' = AbstractTarget(r, Installed)
    <3>1. r.vault # None => WritesVault(r)
      BY <2>1, <2>3, RequestFacts DEF WritesVault
    <3>2. Installed = None => ActiveState.kit = None
      BY InstalledFacts DEF ActiveState, NoActive
    <3>3. CASE r.kind = "create"
      BY <2>1, <2>2, <2>4, <3>3, RequestFacts DEF AbstractTarget, WritesVault, NewCred, NewKit
    <3>4. CASE r.kind = "restore"
      <4>1. r.vault # None /\ r.cred # None
        BY <2>1, <3>4, RequestFacts
      <4>2. Installed # None => Installed.kit = ActiveState.kit
        BY InstalledFacts
      <4>3. QED
        BY <2>2, <2>3, <2>4, <3>2, <3>4, <4>1, <4>2
           DEF AbstractTarget, WritesVault, NewCred, NewKit
    <3>5. CASE r.kind = "recovery"
      <4>1. r.vault = None /\ r.cred = None /\ ~WritesVault(r)
        BY <2>1, <3>5, RequestFacts DEF WritesVault
      <4>2. QED
        BY <2>2, <2>3, <2>4, <3>5, <4>1, InstalledFacts DEF AbstractTarget, NewCred, NewKit
    <3>6. CASE r.kind = "credentials"
      <4>1. r.vault = None /\ r.cred # None /\ r.kit = None /\ ~WritesVault(r)
        BY <2>1, <3>6, RequestFacts DEF WritesVault
      <4>2. QED
        BY <2>2, <2>3, <2>4, <3>6, <4>1, InstalledFacts DEF AbstractTarget, NewCred, NewKit
    <3>7. CASE r.kind = "both"
      <4>1. r.vault = None /\ r.cred # None /\ r.kit # None /\ ~WritesVault(r)
        BY <2>1, <3>7, RequestFacts DEF WritesVault
      <4>2. QED
        BY <2>2, <2>3, <2>4, <3>7, <4>1, InstalledFacts DEF AbstractTarget, NewCred, NewKit
    <3>8. QED
      BY <2>1, <2>3, <3>3, <3>4, <3>5, <3>6, <3>7, RequestFacts DEF Kinds
  <2>7. AbstractOutcome[runner] = "pending"
    BY <2>1 DEF AbstractOutcome
  <2>8. AbstractOutcome' = [AbstractOutcome EXCEPT ![runner] = "applied"]
    BY <1>5, <2>1 DEF AbstractOutcome, WriteManifest
  <2>9. QED
    BY <1>5, <2>5, <2>6, <2>7, <2>8 DEF Atomic!Apply, WriteManifest
<1>6. ASSUME ReplaceVault PROVE Atomic!Apply(runner)
  <2> DEFINE r == request[runner]
  <2>1. /\ runner \in Clients /\ result[runner] = "pending" /\ step = "replace"
    BY <1>6, RunningFacts DEF ReplaceVault
  <2>2. /\ r \in Requests /\ r.kind = "update" /\ r.vault \in Vaults
        /\ active = ActiveState /\ Status = "ready" /\ active.vault \in Gens
        /\ manifest # None => active.vault = manifest.vault
        /\ manifest = None => active.vault = 0
    BY <2>1, ReplaceFacts
  <2>3. r.cred = None /\ r.kit = None
    BY <2>2, RequestFacts
  <2>4. /\ vaultFile' = [vaultFile EXCEPT ![active.vault] = r.vault]
        /\ vaultFile'[active.vault] = r.vault /\ r.vault # None
        /\ UNCHANGED <<credFile, recFile, manifest>>
    BY <1>6, <2>2, NoneFacts DEF ReplaceVault, IInv, TypeOK
  <2>5. Status' = "ready"
    BY <2>2, <2>4, NoneFacts DEF Status, Resolves
  <2>6. ActiveState' = ActiveState
    BY <2>2, <2>4, <2>5 DEF ActiveState
  <2>7. Installed' = [vault |-> r.vault, cred |-> ActiveState.cred, kit |-> ActiveState.kit]
    BY <2>2, <2>4, <2>5, <2>6 DEF Installed
  <2>8. AbstractAccepts(r, Installed) /\ Installed' = AbstractTarget(r, Installed)
    BY <2>2, <2>3, <2>4, <2>7, InstalledFacts DEF AbstractAccepts, AbstractTarget
  <2>9. AbstractOutcome[runner] = "pending"
    BY <2>1 DEF AbstractOutcome
  <2>10. AbstractOutcome' = [AbstractOutcome EXCEPT ![runner] = "applied"]
    BY <1>6, <2>1 DEF AbstractOutcome, ReplaceVault
  <2>11. QED
    BY <1>6, <2>8, <2>9, <2>10 DEF Atomic!Apply, ReplaceVault
<1>7. ASSUME NEW sc, NEW sr, Collect(sc, sr) PROVE Atomic!Confirm(runner)
  <2>1. runner \in Clients /\ AbstractOutcome[runner] = "applied"
    BY <1>7, RunningFacts DEF Collect, AbstractOutcome
  <2>2. AbstractOutcome' = [AbstractOutcome EXCEPT ![runner] = "committed"]
    BY <1>7, <2>1 DEF Collect, Finish, AbstractOutcome, IInv, TypeOK
  <2>3. QED
    BY <1>7, <2>1, <2>2, CollectFacts DEF Collect, Finish, Atomic!Confirm
<1>8. ASSUME NEW spared \in SUBSET {"vault", "cred", "rec"}, Abort(spared),
             spared = {} \/ faults < MaxFaults
      PROVE  Atomic!Fail(runner)
  <2>1. runner \in Clients /\ AbstractOutcome[runner] = "pending" /\ step # "collect"
    BY <1>8, RunningFacts DEF Abort, AbstractOutcome
  <2>2. AbstractOutcome' = [AbstractOutcome EXCEPT ![runner] = "failed"]
    BY <1>8, <2>1 DEF Abort, Finish, AbstractOutcome, IInv, TypeOK
  <2>3. Installed' = Installed
    BY <1>8, AbortIInv
  <2>4. QED
    BY <1>8, <2>1, <2>2, <2>3 DEF Abort, Finish, Atomic!Fail
<1>9. ASSUME Crash PROVE Atomic!Crash
  <2>1. \A c \in Clients : Atomic!InFlight(c) <=> result[c] = "pending"
    BY DEF Atomic!InFlight, AbstractOutcome, IInv, TypeOK, QueueIsPending, Results
  <2>2. \A c \in Clients : ~Atomic!InFlight(c) => AbstractOutcome[c] = result[c]
    BY DEF Atomic!InFlight, AbstractOutcome
  <2>3. AbstractOutcome' = [c \in Clients |-> IF result[c] = "pending" THEN "lost" ELSE result[c]]
    BY <1>9 DEF Crash, AbstractOutcome
  <2>4. AbstractOutcome' = [c \in Clients |-> IF Atomic!InFlight(c) THEN "lost"
                                             ELSE AbstractOutcome[c]]
    BY <2>1, <2>2, <2>3
  <2>5. QED
    BY <1>9, <2>4, CrashIInv DEF Crash, Atomic!Crash
<1>10. ASSUME UNCHANGED vars PROVE UNCHANGED Atomic!avars
  <2>1. Installed' = Installed
    BY <1>10, InForceKept DEF vars, disk
  <2>2. QED
    BY <1>10, <2>1 DEF vars, job, disk, Atomic!avars, AbstractOutcome
<1>11. CASE \E c \in Clients : \/ \E r \in Requests : Submit(c, r)
                              \/ Start(c) \/ Refuse(c)
  BY <1>1, <1>2, <1>3, <1>11 DEF Atomic!ANext
<1>12. CASE Work
  <2>1. CASE CollectStep
    <3>1. PICK sc, sr : Collect(sc, sr)
      BY <2>1 DEF CollectStep
    <3>2. runner \in Clients
      BY <3>1, RunningFacts DEF Collect
    <3>3. QED
      BY <1>7, <3>1, <3>2 DEF Atomic!ANext
  <2>2. CASE WriteVault \/ WriteCredentials \/ WriteRecovery
    BY <1>4, <2>2
  <2>3. CASE WriteManifest \/ ReplaceVault
    <3>1. runner \in Clients
      BY <2>3, RunningFacts DEF WriteManifest, ReplaceVault
    <3>2. QED
      BY <1>5, <1>6, <2>3, <3>1 DEF Atomic!ANext
  <2>4. QED
    BY <1>12, <2>1, <2>2, <2>3 DEF Work
<1>13. CASE AbortStep
  <2>1. PICK spared \in SUBSET {"vault", "cred", "rec"} :
          (faults < MaxFaults \/ spared = {}) /\ Abort(spared)
    BY <1>13 DEF AbortStep
  <2>2. runner \in Clients
    BY <2>1, RunningFacts DEF Abort
  <2>3. QED
    BY <1>8, <2>1, <2>2 DEF Atomic!ANext
<1>14. CASE Crash
  BY <1>9, <1>14 DEF Atomic!ANext
<1>15. QED
  BY <1>10, <1>11, <1>12, <1>13, <1>14 DEF Next

\* The files implement one (vault, credentials, kit) triple that each request replaces in
\* one step or leaves alone, and a crash loses answers but never half of a change
\* (vaultStorage.ts:1122-1217).
THEOREM ImplementsOneTriple == Spec => ImplementsAtomicAuthState
<1>1. Init => Atomic!AInit
  BY InitRefines
<1>2. IInv /\ [Next]_vars => [Atomic!ANext]_Atomic!avars
  BY NextRefines
<1>3. QED
  BY <1>1, <1>2, StoreInvariant, PTL DEF Spec, ImplementsAtomicAuthState, Atomic!ASpec

=============================================================================
