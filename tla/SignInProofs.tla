---------------------------- MODULE SignInProofs ----------------------------
(***************************************************************************)
(* Proofs about AuthFlows, as MCSignIn runs it: the keys, the credentials  *)
(* and the session always agree, what is replaced stays replaced, and what *)
(* a flow answers holds, for any number of calls, sessions and secrets.    *)
(***************************************************************************)
EXTENDS MCSignIn, SequenceTheorems, TLAPS

-----------------------------------------------------------------------------
\* What a call that ends leaves, and what one that begins has.
Ended(result)  == [NoFlow EXCEPT !.answer = result]
Begun(kind, k) == [NoFlow EXCEPT !.kind = kind, !.at = "begun", !.epoch = epoch, !.key = k]

\* A call's record, field by field (the two sides of every step build one).
LEMMA CallFields ==
  ASSUME NEW f \in Calls
  PROVE  /\ f.kind \in AllFlows \cup {"idle"} /\ f.at \in Stages /\ f.epoch \in Nat
         /\ f.key \in Ids /\ f.seen \in Installations \cup {None}
         /\ f.changed \in BOOLEAN /\ f.answer \in {"none", "success", "failed"}
BY DEF Calls

LEMMA EndedIsCall ==
  ASSUME NEW result \in {"none", "success", "failed"}
  PROVE  /\ Ended(result) \in Calls
         /\ Ended(result).at = "idle" /\ Ended(result).seen = None
         /\ ~Ended(result).changed /\ ~Ended(result).displaced /\ Ended(result).answer = result
BY DEF Ended, NoFlow, Calls, AllFlows, Stages, Ids

\* A call that is not under way is bound to nothing.
LEMMA IdleIsOK ==
  ASSUME NEW f \in Calls, f.at = "idle", f.seen = None, ~f.changed, ~f.displaced
  PROVE  FlowOK(f)
BY DEF FlowOK, Carries, SeenIsSound, LeasesKey, FirstRunOnly, OpensSeen, VaultStays,
       WorksWithVault, RestoresFirst, Submitted

\* The fields of an installation.
LEMMA InstallationFields ==
  ASSUME NEW i \in Installations
  PROVE  /\ i.vault \in Nat /\ i.cred.key \in Nat /\ i.cred.password \in Nat
         /\ i.cred.outdated \in BOOLEAN /\ i.kit.id \in Ids /\ i.kit.key \in Ids
         /\ i.kit \in {NoKit} \cup [id : Nat, key : Nat]
         /\ i.kit # NoKit => i.kit.id \in Nat /\ i.kit.key \in Nat
         /\ i.cred \in [key : Nat, password : Nat, outdated : BOOLEAN]
BY DEF Installations, NoKit, Ids

\* A number that is known stays known as more secrets are made.
LEMMA KnownGrows ==
  ASSUME made \in Nat, made' \in Nat, made <= made',
         NEW n \in Ids, Known(n)
  PROVE  Known(n)'
BY FlowsAssumption DEF Known, Ids

-----------------------------------------------------------------------------
(* A step that is no boundary, no commit and no backup.                    *)

\* What such a step leaves alone.
SameGround == UNCHANGED <<installed, backup, sessionKey, epoch, mixed, scenario>>

\* A call that was bound soundly still is, in a state with the same ground.
LEMMA CallStaysOK ==
  ASSUME TypeOK, made' \in Nat, made <= made', SameGround,
         NEW d, NEW f \in Calls, flow'[d] = f, FlowOK(f)
  PROVE  FlowOK(flow[d])'
<1>1. Carries(flow[d])'
  BY DEF FlowOK, Carries, SameGround, Submitted
<1>2. SeenIsSound(flow[d])'
  <2>1. SUFFICES ASSUME f.seen # None
                 PROVE  KnownSound(f.seen)'
    BY DEF SeenIsSound, KnownSound, Known
  <2>2. f.seen \in Installations /\ KnownSound(f.seen)
    BY CallFields, <2>1 DEF FlowOK, SeenIsSound
  <2>3. Known(f.seen.cred.password)' /\ Known(f.seen.kit.id)'
    BY <2>2, InstallationFields, KnownGrows DEF KnownSound, TypeOK, Ids
  <2>4. QED  BY <2>2, <2>3 DEF KnownSound, Sound, SameGround
<1>3. LeasesKey(flow[d])' /\ FirstRunOnly(flow[d])'
  BY DEF FlowOK, LeasesKey, FirstRunOnly, Submitted, SameGround, Current
<1>4. mixed' \/ (OpensSeen(flow[d])' /\ VaultStays(flow[d])')
  BY DEF FlowOK, OpensSeen, Submitted, VaultStays, WorksWithVault, SameGround, Current
<1>5. mixed' \/ RestoresFirst(flow[d])'
  BY DEF FlowOK, RestoresFirst, SameGround, Current
<1>6. QED  BY <1>1, <1>2, <1>3, <1>4, <1>5 DEF FlowOK

\* One call moves on: the others stay as they were.
LEMMA CallsStayOK ==
  ASSUME IInv, made' \in Nat, made <= made', SameGround,
         NEW c \in Clients, NEW g \in Calls, flow' = [flow EXCEPT ![c] = g],
         FlowOK(g)
  PROVE  \A d \in Clients : FlowOK(flow[d])'
<1>1. TAKE d \in Clients
<1>2. PICK f \in Calls : flow'[d] = f /\ FlowOK(f)
  BY <1>1 DEF IInv, TypeOK
<1>3. QED  BY <1>2, CallStaysOK DEF IInv

\* The parts of the invariant about what is on disk.
LEMMA DiskStays ==
  ASSUME IInv, made' \in Nat, made <= made', SameGround, UNCHANGED past
  PROVE  /\ KeysMixOnlyByDisplaced' /\ HeldIsSound' /\ InstalledFirst'
<1> USE DEF IInv
<1>1. KeysMixOnlyByDisplaced' /\ InstalledFirst'
  BY DEF KeysMixOnlyByDisplaced, OneVaultKey, Sound, SessionOpensVault, InstalledFirst,
         SameGround, past
<1>2. ASSUME NEW i \in {installed, backup} \ {None}
      PROVE  KnownSound(i)'
  <2>1. i \in Installations /\ KnownSound(i)
    BY <1>2 DEF TypeOK, HeldIsSound
  <2>2. Known(i.cred.password)' /\ Known(i.kit.id)'
    BY <2>1, InstallationFields, KnownGrows DEF KnownSound, TypeOK, Ids
  <2>3. QED  BY <2>1, <2>2 DEF KnownSound, Sound, SameGround
<1>3. ASSUME NEW n \in revoked \cup retired
      PROVE  Known(n)'
  BY <1>3, KnownGrows DEF HeldIsSound, TypeOK, Ids
<1>4. HeldIsSound'
  BY <1>2, <1>3 DEF HeldIsSound, SameGround, past
<1>5. QED  BY <1>1, <1>4

\* The epochs, when one call moves on in its own session or ends.
LEMMA EpochsStay ==
  ASSUME IInv, UNCHANGED epoch, locking' => locking,
         NEW c \in Clients, NEW g \in Calls, flow' = [flow EXCEPT ![c] = g],
         before' \subseteq before,
         \/ g.at = "idle" /\ c \notin before'
         \/ g.at # "idle" /\ g.epoch = flow[c].epoch /\ Running(c)
         \/ g.epoch = epoch /\ ~locking /\ ~Running(c)
  PROVE  EpochsBehind'
<1> USE DEF IInv, EpochsBehind, Running, Current, TypeOK
<1>1. ASSUME NEW d \in Clients, flow'[d].at # "idle"
      PROVE  flow'[d].epoch <= epoch' /\ (locking' => flow'[d].epoch # epoch')
  <2>1. CASE d = c  BY <1>1, <2>1
  <2>2. CASE d # c  BY <1>1, <2>2
  <2>3. QED  BY <2>1, <2>2
<1>2. ASSUME NEW d \in before'
      PROVE  flow'[d].at # "idle" /\ flow'[d].epoch < epoch'
  <2>1. CASE d = c  BY <1>2, <2>1
  <2>2. CASE d # c  BY <1>2, <2>2
  <2>3. QED  BY <2>1, <2>2
<1>3. QED  BY <1>1, <1>2

\* The queue, when a call that commits no more leaves its head or joins its end.
LEMMA QueueStays ==
  ASSUME IInv, NEW c \in Clients, NEW g \in Calls, flow' = [flow EXCEPT ![c] = g],
         g.at # "committed",
         \/ UNCHANGED queue
         \/ queue' = Append(queue, c)
         \/ AtHead(c) /\ queue' = Tail(queue)
         \/ AtHead(c) /\ queue' = Append(Tail(queue), c)
  PROVE  queue' \in Seq(Clients) /\ CommitsAtHead'
<1> USE DEF IInv, TypeOK
<1>1. queue' \in Seq(Clients)
  BY DEF AtHead
<1>2. ASSUME NEW d \in Clients, flow'[d].at = "committed"
      PROVE  AtHead(d)'
  <2>1. d # c /\ flow[d].at = "committed"
    BY <1>2
  <2>2. queue # <<>> /\ Head(queue) = d
    BY <2>1 DEF CommitsAtHead, AtHead
  <2>3. ~AtHead(c)
    BY <2>1, <2>2 DEF AtHead
  <2>4. queue' # <<>> /\ Head(queue') = d
    BY <2>2, <2>3
  <2>5. QED  BY <2>4 DEF AtHead
<1>3. QED  BY <1>1, <1>2 DEF CommitsAtHead

\* One call's record stays a call's record.
LEMMA FlowStays ==
  ASSUME TypeOK, NEW c \in Clients, NEW g \in Calls, flow' = [flow EXCEPT ![c] = g]
  PROVE  flow' \in [Clients -> Calls]
BY DEF TypeOK

-----------------------------------------------------------------------------
(* A session boundary: no call that runs is current any more.              *)

LEMMA CallsCrossBoundary ==
  ASSUME IInv, UNCHANGED <<installed, backup, scenario, made, mixed>>,
         epoch' = epoch + 1, flow' \in [Clients -> Calls],
         \A d \in Clients : flow'[d] = flow[d]
                         \/ (flow'[d].at = "idle" /\ flow'[d].seen = None /\ ~flow'[d].changed
                /\ ~flow'[d].displaced)
  PROVE  \A d \in Clients : FlowOK(flow[d])'
<1> USE DEF IInv, TypeOK
<1>1. TAKE d \in Clients
<1>2. CASE /\ flow'[d].at = "idle" /\ flow'[d].seen = None /\ ~flow'[d].changed
           /\ ~flow'[d].displaced
  BY <1>2 DEF FlowOK, Carries, SeenIsSound, LeasesKey, FirstRunOnly, OpensSeen, VaultStays,
              WorksWithVault, RestoresFirst, Submitted
<1>3. CASE flow'[d] = flow[d]
  <2>1. PICK f \in Calls : f = flow[d]
    OBVIOUS
  <2>2. FlowOK(f) /\ flow'[d] = f
    BY <1>3, <2>1
  <2>3. f.at = "idle" \/ f.epoch # epoch'
    BY <2>1 DEF EpochsBehind, Running, Calls
  <2>4. Carries(flow[d])'
    BY <2>2 DEF FlowOK, Carries, Submitted
  <2>5. SeenIsSound(flow[d])'
    BY <2>2 DEF FlowOK, SeenIsSound, KnownSound, Known, Sound
  <2>6. LeasesKey(flow[d])' /\ RestoresFirst(flow[d])'
    BY <2>2, <2>3 DEF LeasesKey, RestoresFirst, Current
  <2>7. FirstRunOnly(flow[d])'
    BY <2>2 DEF FlowOK, FirstRunOnly, Submitted
  <2>8. mixed' \/ (OpensSeen(flow[d])' /\ VaultStays(flow[d])')
    BY <2>2, <2>3 DEF FlowOK, OpensSeen, Submitted, VaultStays, WorksWithVault, Current
  <2>9. QED  BY <2>4, <2>5, <2>6, <2>7, <2>8 DEF FlowOK
<1>4. QED  BY <1>2, <1>3

LEMMA DiskCrossesBoundary ==
  ASSUME IInv, UNCHANGED <<installed, backup, scenario, made, past>>,
         ~mixed /\ sessionKey' # None => installed # None /\ installed.vault = sessionKey'
  PROVE  /\ KeysMixOnlyByDisplaced' /\ HeldIsSound' /\ InstalledFirst'
<1> USE DEF IInv
<1>1. KeysMixOnlyByDisplaced' /\ InstalledFirst'
  BY DEF KeysMixOnlyByDisplaced, OneVaultKey, Sound, SessionOpensVault, InstalledFirst, past
<1>2. HeldIsSound'
  BY DEF HeldIsSound, KnownSound, Sound, Known, past
<1>3. QED  BY <1>1, <1>2

LEMMA EpochsCrossBoundary ==
  ASSUME IInv, epoch' = epoch + 1, before' \subseteq Clients,
         \A d \in Clients : flow'[d] = flow[d] \/ (flow'[d].at = "idle" /\ d \notin before'),
         \A d \in before' : Running(d)
  PROVE  EpochsBehind'
<1> USE DEF IInv, EpochsBehind, Running, Current, TypeOK, Calls
<1>1. ASSUME NEW d \in Clients, flow'[d].at # "idle"
      PROVE  flow'[d].epoch <= epoch' /\ flow'[d].epoch # epoch'
  BY <1>1
<1>2. ASSUME NEW d \in before'
      PROVE  flow'[d].at # "idle" /\ flow'[d].epoch < epoch'
  BY <1>2
<1>3. QED  BY <1>1, <1>2

-----------------------------------------------------------------------------
(* The two shapes of a step of a call.                                     *)

\* A call moves on or ends within its session.
LEMMA MovesOn ==
  ASSUME IInv, NEW c \in Clients, NEW g \in Calls, flow' = [flow EXCEPT ![c] = g],
         FlowOK(g), g.at # "committed",
         SameGround, UNCHANGED past, made' \in Nat, made <= made',
         keychain' \in Ids, locking' \in BOOLEAN, locking' => locking, before' \subseteq before,
         \/ g.at = "idle" /\ c \notin before'
         \/ g.at # "idle" /\ g.epoch = flow[c].epoch /\ Running(c)
         \/ g.epoch = epoch /\ ~locking /\ ~Running(c),
         \/ UNCHANGED queue
         \/ queue' = Append(queue, c)
         \/ AtHead(c) /\ queue' = Tail(queue)
         \/ AtHead(c) /\ queue' = Append(Tail(queue), c)
  PROVE  IInv'
<1>1. queue' \in Seq(Clients) /\ CommitsAtHead'
  BY QueueStays
<1>2. flow' \in [Clients -> Calls]
  BY FlowStays DEF IInv
<1>3. TypeOK'
  BY <1>1, <1>2 DEF IInv, TypeOK, SameGround, past
<1>4. EpochsBehind'
  BY EpochsStay DEF SameGround
<1>5. \A d \in Clients : FlowOK(flow[d])'
  BY CallsStayOK
<1>6. QED  BY <1>1, <1>3, <1>4, <1>5, DiskStays DEF IInv

\* A call ends, or none does, as the session begins or ends.
LEMMA CrossesBoundary ==
  ASSUME IInv, UNCHANGED <<installed, backup, scenario, made, past>>,
         epoch' = epoch + 1, flow' \in [Clients -> Calls], before' \subseteq Clients,
         keychain' \in Ids, sessionKey' \in Ids, locking' \in BOOLEAN,
         queue' \in Seq(Clients), CommitsAtHead',
         ~mixed /\ sessionKey' # None => installed # None /\ installed.vault = sessionKey',
         \A d \in Clients :
           flow'[d] = flow[d]
           \/ (flow'[d].at = "idle" /\ flow'[d].seen = None /\ ~flow'[d].changed
                /\ ~flow'[d].displaced),
         \A d \in Clients : flow'[d] = flow[d] \/ (flow'[d].at = "idle" /\ d \notin before'),
         \A d \in before' : Running(d)
  PROVE  IInv'
<1>1. TypeOK'
  BY DEF IInv, TypeOK, past
<1>2. EpochsBehind'
  BY EpochsCrossBoundary
<1>3. \A d \in Clients : FlowOK(flow[d])'
  BY CallsCrossBoundary DEF past
<1>4. QED  BY <1>1, <1>2, <1>3, DiskCrossesBoundary DEF IInv

-----------------------------------------------------------------------------
(* The steps before the queue.                                             *)

LEMMA BeginKeepsIInv ==
  ASSUME IInv, UNCHANGED scenario, NEW c \in Clients, NEW kind \in scenario.flows, Begin(c, kind)
  PROVE  IInv'
<1> DEFINE k == IF NeedsKey(kind) \/ kind = "restore" THEN sessionKey ELSE None
<1>1. PICK g : g = [NoFlow EXCEPT !.kind = kind, !.at = "begun", !.epoch = epoch, !.key = k]
  OBVIOUS
<1>2. kind \in AllFlows /\ k \in Ids
  BY FlowsAssumption DEF IInv, TypeOK, Ids
<1>3. g \in Calls /\ flow' = [flow EXCEPT ![c] = g]
  BY <1>1, <1>2 DEF Begin, Calls, NoFlow, Stages, IInv, TypeOK, Ids
<1>4. /\ g.kind = kind /\ g.at = "begun" /\ g.epoch = epoch /\ g.key = k
      /\ g.seen = None /\ ~g.changed /\ ~g.displaced
  BY <1>1 DEF NoFlow
<1>5. NeedsKey(kind) => k = sessionKey /\ k # None
  BY DEF Begin
<1>6. FlowOK(g)
  BY <1>4, <1>5 DEF FlowOK, Carries, SeenIsSound, LeasesKey, FirstRunOnly, OpensSeen,
                    VaultStays, WorksWithVault, RestoresFirst, Submitted
<1>7. ~Running(c) /\ ~locking /\ UNCHANGED <<disk, session, queue, made, history>>
  BY DEF Begin
<1>8. /\ SameGround /\ UNCHANGED past /\ made' \in Nat /\ made <= made'
      /\ keychain' \in Ids /\ locking' \in BOOLEAN /\ ~locking' /\ before' \subseteq before
      /\ UNCHANGED queue
  BY <1>7 DEF Running, SameGround, past, disk, session, history, IInv, TypeOK
<1>9. QED  BY <1>3, <1>4, <1>6, <1>7, <1>8, MovesOn

LEMMA ReadKeepsIInv ==
  ASSUME IInv, UNCHANGED scenario, NEW c \in Clients, Read(c)
  PROVE  IInv'
<1>1. PICK f \in Calls : f = flow[c] /\ FlowOK(f)
  BY DEF IInv, TypeOK
<1>2. PICK g : g = [f EXCEPT !.at = "read", !.seen = installed]
  OBVIOUS
<1>3. g \in Calls /\ flow' = [flow EXCEPT ![c] = g]
  BY <1>1, <1>2 DEF Read, Calls, Stages, IInv, TypeOK
<1>4. /\ g.at = "read" /\ g.seen = installed /\ g.kind = f.kind /\ g.epoch = f.epoch
      /\ g.key = f.key /\ g.changed = f.changed /\ g.displaced = f.displaced
  BY <1>1, <1>2 DEF Calls
<1>5. /\ f.at = "begun" /\ f.kind # "touchid" /\ (StartsVault(f.kind) <=> installed = None)
      /\ UNCHANGED <<disk, session, queue, made, history>>
  BY <1>1 DEF Read, Kind, StartsVault
<1>6. FlowOK(g)
  <2>1. Carries(g)
    BY <1>1, <1>4, <1>5 DEF FlowOK, Carries, Submitted
  <2>2. SeenIsSound(g) /\ LeasesKey(g)
    BY <1>1, <1>4, <1>5 DEF FlowOK, SeenIsSound, IInv, HeldIsSound, LeasesKey, Current
  <2>3. OpensSeen(g) /\ VaultStays(g)
    BY <1>4, <1>5 DEF OpensSeen, Submitted, VaultStays, WorksWithVault, StartsVault
  <2>4. mixed \/ RestoresFirst(g)
    BY <1>4, <1>5 DEF RestoresFirst, StartsVault, IInv, KeysMixOnlyByDisplaced,
                      SessionOpensVault
  <2>5. FirstRunOnly(g)
    BY <1>1, <1>4, <1>5 DEF FlowOK, FirstRunOnly, Submitted, StartsVault, IInv, InstalledFirst
  <2>6. QED  BY <2>1, <2>2, <2>3, <2>4, <2>5 DEF FlowOK
<1>7. /\ SameGround /\ UNCHANGED past /\ made' \in Nat /\ made <= made'
      /\ keychain' \in Ids /\ locking' \in BOOLEAN /\ (locking' => locking)
      /\ before' \subseteq before /\ UNCHANGED queue /\ Running(c)
  BY <1>1, <1>5 DEF Running, SameGround, past, disk, session, history, IInv, TypeOK
<1>8. QED  BY <1>1, <1>3, <1>4, <1>6, <1>7, MovesOn

\* A call goes on in its session: what it keeps of its record.
LEMMA GoesOn ==
  ASSUME IInv, NEW c \in Clients, NEW g \in Calls, flow' = [flow EXCEPT ![c] = g],
         FlowOK(g), g.at \notin {"idle", "committed"}, g.epoch = flow[c].epoch,
         flow[c].at # "idle",
         SameGround, UNCHANGED <<past, before, locking>>,
         made' \in Nat, made <= made', keychain' \in Ids,
         \/ UNCHANGED queue
         \/ queue' = Append(queue, c)
         \/ AtHead(c) /\ queue' = Tail(queue)
         \/ AtHead(c) /\ queue' = Append(Tail(queue), c)
  PROVE  IInv'
<1>1. /\ locking' \in BOOLEAN /\ (locking' => locking) /\ before' \subseteq before
      /\ g.at # "idle" /\ g.at # "committed" /\ Running(c)
  BY DEF IInv, TypeOK, Running
<1>2. QED  BY <1>1, MovesOn

LEMMA RetrieveKeyKeepsIInv ==
  ASSUME IInv, UNCHANGED scenario, NEW c \in Clients, RetrieveKey(c)
  PROVE  IInv'
<1>1. PICK f \in Calls : f = flow[c] /\ FlowOK(f)
  BY DEF IInv, TypeOK
<1>2. PICK g : g = [f EXCEPT !.at = "vault", !.key = keychain]
  OBVIOUS
<1>3. g \in Calls /\ flow' = [flow EXCEPT ![c] = g]
  BY <1>1, <1>2 DEF RetrieveKey, Calls, Stages, IInv, TypeOK
<1>4. /\ g.at = "vault" /\ g.key = keychain /\ g.kind = f.kind /\ g.epoch = f.epoch
      /\ g.seen = f.seen /\ g.changed = f.changed /\ g.displaced = f.displaced
  BY <1>1, <1>2 DEF Calls
<1>5. /\ f.at = "begun" /\ f.kind = "touchid" /\ queue' = Append(queue, c) /\ keychain # None
      /\ UNCHANGED <<disk, session, made, history>>
  BY <1>1 DEF RetrieveKey, Kind
<1>6. FlowOK(g)
  BY <1>1, <1>4, <1>5 DEF FlowOK, Carries, SeenIsSound, LeasesKey, FirstRunOnly, OpensSeen,
    VaultStays, WorksWithVault, RestoresFirst, Submitted, Opens, NeedsKey, StartsVault
<1>7. /\ SameGround /\ UNCHANGED <<past, before, locking>>
      /\ made' \in Nat /\ made <= made' /\ keychain' \in Ids
  BY <1>1, <1>5 DEF SameGround, past, disk, session, history, IInv, TypeOK
<1>8. g.at \notin {"idle", "committed"} /\ flow[c].at # "idle" /\ g.epoch = flow[c].epoch
  BY <1>1, <1>4, <1>5
<1>9. QED  BY <1>3, <1>5, <1>6, <1>7, <1>8, GoesOn

\* The key that a password or a code opened is the one of the vault it was read with.
LEMMA OpenVaultKeepsIInv ==
  ASSUME IInv, UNCHANGED scenario, NEW c \in Clients, OpenVault(c)
  PROVE  IInv'
<1>1. PICK f \in Calls : f = flow[c] /\ FlowOK(f)
  BY DEF IInv, TypeOK
<1>2. PICK k : /\ k = IF f.kind = "unlock" THEN f.seen.cred.key ELSE f.seen.kit.key
               /\ f.kind = "recover" => f.seen.kit # NoKit
  BY <1>1 DEF OpenVault, Kind
<1>3. /\ f.at = "read" /\ f.kind \in {"unlock", "recover"} /\ queue' = Append(queue, c)
      /\ UNCHANGED <<disk, session, made, history>>
  BY <1>1 DEF OpenVault, Kind
<1>4. f.seen \in Installations /\ (mixed \/ k = f.seen.vault)
      /\ k \in Ids /\ k # None
  <2>1. f.seen # None
    BY <1>1, <1>3 DEF FlowOK, Carries, StartsVault
  <2>2. f.seen \in Installations /\ (mixed \/ Sound(f.seen))
    BY <1>1, <2>1 DEF FlowOK, SeenIsSound, KnownSound, Calls
  <2>3. QED  BY <1>2, <1>3, <2>2, InstallationFields, FlowsAssumption DEF Sound, Ids
<1>5. PICK g : g = [f EXCEPT !.at = "vault", !.key = k]
  OBVIOUS
<1>6. g \in Calls /\ flow' = [flow EXCEPT ![c] = g]
  <2>1. g \in Calls
    BY <1>4, <1>5 DEF Calls, Stages
  <2>2. flow' = [flow EXCEPT ![c].at = "vault", ![c].key = k]
    BY <1>1, <1>2 DEF OpenVault, Kind
  <2>3. QED  BY <1>1, <1>5, <2>1, <2>2 DEF IInv, TypeOK
<1>7. /\ g.at = "vault" /\ g.key = k /\ g.kind = f.kind /\ g.epoch = f.epoch
      /\ g.seen = f.seen /\ g.changed = f.changed /\ g.displaced = f.displaced
  BY <1>1, <1>5 DEF Calls
<1>8. FlowOK(g)
  <2>1. Carries(g)
    BY <1>1, <1>3, <1>4, <1>7, FlowsAssumption DEF FlowOK, Carries, Submitted, Opens, NeedsKey
  <2>2. SeenIsSound(g) /\ LeasesKey(g) /\ FirstRunOnly(g)
    BY <1>1, <1>3, <1>7 DEF FlowOK, SeenIsSound, LeasesKey, NeedsKey, FirstRunOnly, Submitted,
      StartsVault
  <2>3. mixed \/ (OpensSeen(g) /\ VaultStays(g) /\ RestoresFirst(g))
    BY <1>3, <1>4, <1>7 DEF OpensSeen, VaultStays, WorksWithVault, RestoresFirst
  <2>4. QED  BY <2>1, <2>2, <2>3 DEF FlowOK
<1>9. /\ SameGround /\ UNCHANGED <<past, before, locking>>
      /\ made' \in Nat /\ made <= made' /\ keychain' \in Ids
  BY <1>1, <1>3 DEF SameGround, past, disk, session, history, IInv, TypeOK
<1>10. g.at \notin {"idle", "committed"} /\ flow[c].at # "idle" /\ g.epoch = flow[c].epoch
  BY <1>1, <1>3, <1>7
<1>11. QED  BY <1>3, <1>6, <1>8, <1>9, <1>10, GoesOn

-----------------------------------------------------------------------------
(* A commit joins the queue.                                               *)

LEMMA SubmitGoesOn ==
  ASSUME IInv, UNCHANGED scenario, NEW c \in Clients, NEW f \in Calls, f = flow[c],
         f.at \in {"read", "opened"}, NEW key \in Ids, NEW seen \in Installations \cup {None},
         Submit(c, key, seen), made' \in Nat, made <= made',
         FlowOK([f EXCEPT !.at = "commit", !.key = key, !.seen = seen])
  PROVE  IInv'
<1>1. PICK g : g = [f EXCEPT !.at = "commit", !.key = key, !.seen = seen]
  OBVIOUS
<1>2. g \in Calls /\ FlowOK(g) /\ g.at = "commit" /\ g.epoch = f.epoch
  BY <1>1 DEF Calls, Stages
<1>3. flow' = [flow EXCEPT ![c] = g] /\ queue' = Append(queue, c)
  BY <1>1 DEF Submit, IInv, TypeOK
<1>4. SameGround /\ UNCHANGED <<past, before, locking>> /\ keychain' \in Ids
  BY DEF Submit, SameGround, past, disk, session, history, IInv, TypeOK
<1>5. /\ g.at \notin {"idle", "committed"} /\ flow[c].at # "idle" /\ g.epoch = flow[c].epoch
     
  BY <1>2
<1>6. QED  BY <1>2, <1>3, <1>4, <1>5, GoesOn

LEMMA SubmitChangeKeepsIInv ==
  ASSUME IInv, UNCHANGED scenario, NEW c \in Clients, SubmitChange(c)
  PROVE  IInv'
<1>1. PICK f \in Calls : f = flow[c] /\ FlowOK(f)
  BY DEF IInv, TypeOK
<1>2. PICK g : g = [f EXCEPT !.at = "commit", !.key = f.key, !.seen = f.seen]
  OBVIOUS
<1>3. /\ g.at = "commit" /\ g.key = f.key /\ g.kind = f.kind /\ g.epoch = f.epoch
      /\ g.seen = f.seen /\ g.changed = f.changed /\ g.displaced = f.displaced
  BY <1>2 DEF Calls
<1>4. /\ f.at = "read" /\ NeedsKey(f.kind) /\ (f.kind = "verify" => f.seen.kit.key = f.key)
      /\ Submit(c, f.key, f.seen) /\ UNCHANGED made
  BY <1>1 DEF SubmitChange, Confirmed, Kind, NeedsKey
<1>5. Carries(g)
  BY <1>1, <1>3, <1>4 DEF FlowOK, Carries, Submitted, NeedsKey, Opens, StartsVault
<1>6. /\ SeenIsSound(g) /\ LeasesKey(g) /\ FirstRunOnly(g)
      /\ OpensSeen(g) /\ VaultStays(g) /\ RestoresFirst(g)
  BY <1>1, <1>3, <1>4 DEF FlowOK, SeenIsSound, LeasesKey, Current, FirstRunOnly, OpensSeen, Opens,
                          VaultStays, WorksWithVault, RestoresFirst, NeedsKey, StartsVault
<1>7. FlowOK(g)
  BY <1>5, <1>6 DEF FlowOK
<1>8. made' \in Nat /\ made <= made' /\ f.key \in Ids /\ f.seen \in Installations \cup {None}
  BY <1>4 DEF IInv, TypeOK, Calls
<1>9. QED  BY <1>1, <1>2, <1>4, <1>7, <1>8, SubmitGoesOn

LEMMA SubmitRewrapKeepsIInv ==
  ASSUME IInv, UNCHANGED scenario, NEW c \in Clients, SubmitRewrap(c)
  PROVE  IInv'
<1>1. PICK f \in Calls : f = flow[c] /\ FlowOK(f)
  BY DEF IInv, TypeOK
<1>2. PICK g : g = [f EXCEPT !.at = "commit", !.key = f.key, !.seen = f.seen]
  OBVIOUS
<1>3. /\ g.at = "commit" /\ g.key = f.key /\ g.kind = f.kind /\ g.epoch = f.epoch
      /\ g.seen = f.seen /\ g.changed = f.changed /\ g.displaced = f.displaced
  BY <1>2 DEF Calls
<1>4. f.at = "opened" /\ Submit(c, f.key, f.seen) /\ UNCHANGED made
  BY <1>1 DEF SubmitRewrap
<1>5. f.kind \in {"unlock", "recover"} /\ f.seen \in Installations /\ f.key # None
  BY <1>1, <1>4, InstallationFields, FlowsAssumption DEF FlowOK, Carries, Opens, Calls
<1>6. Carries(g)
  BY <1>1, <1>3, <1>4, <1>5, FlowsAssumption
     DEF FlowOK, Carries, Submitted, NeedsKey, Opens, StartsVault
<1>7. /\ SeenIsSound(g) /\ LeasesKey(g) /\ FirstRunOnly(g)
      /\ mixed \/ (OpensSeen(g) /\ VaultStays(g) /\ RestoresFirst(g))
  BY <1>1, <1>3, <1>4, <1>5 DEF FlowOK, SeenIsSound, LeasesKey, FirstRunOnly, OpensSeen, Opens,
     Submitted, VaultStays, WorksWithVault, Current, RestoresFirst, NeedsKey, StartsVault
<1>8. FlowOK(g)
  BY <1>6, <1>7 DEF FlowOK
<1>9. made' \in Nat /\ made <= made' /\ f.key \in Ids /\ f.seen \in Installations \cup {None}
  BY <1>4 DEF IInv, TypeOK, Calls
<1>10. QED  BY <1>1, <1>2, <1>4, <1>8, <1>9, SubmitGoesOn

LEMMA SubmitSetupKeepsIInv ==
  ASSUME IInv, UNCHANGED scenario, NEW c \in Clients, SubmitSetup(c)
  PROVE  IInv'
<1>1. PICK f \in Calls : f = flow[c] /\ FlowOK(f)
  BY DEF IInv, TypeOK
<1>2. PICK g : g = [f EXCEPT !.at = "commit", !.key = made + 1, !.seen = None]
  OBVIOUS
<1>3. /\ g.at = "commit" /\ g.key = made + 1 /\ g.kind = f.kind /\ g.epoch = f.epoch
      /\ g.seen = None /\ g.changed = f.changed /\ g.displaced = f.displaced
  BY <1>2 DEF Calls
<1>4. /\ f.at = "read" /\ f.kind = "setup" /\ made' = made + 1 /\ Submit(c, made + 1, None)
  BY <1>1 DEF SubmitSetup, Kind
<1>5. made + 1 \in Nat /\ made + 1 # None /\ made + 1 \in Ids /\ made' \in Nat /\ made <= made'
  BY <1>4, FlowsAssumption DEF IInv, TypeOK, Ids
<1>6. FlowOK(g)
  BY <1>1, <1>3, <1>4, <1>5 DEF FlowOK, Carries, Submitted, NeedsKey, Opens, SeenIsSound,
    LeasesKey, FirstRunOnly, StartsVault, OpensSeen, VaultStays, WorksWithVault, RestoresFirst
<1>7. QED  BY <1>1, <1>2, <1>4, <1>5, <1>6, SubmitGoesOn

\* What a backup brings is sound, whoever made it.
LEMMA SnapshotIsSound ==
  ASSUME IInv, NEW x \in Snapshots
  PROVE  x \in Installations /\ KnownSound(x)
<1>1. CASE x \in scenario.foreign
  BY <1>1, FlowsAssumption, InstallationFields DEF IInv, TypeOK, KnownSound, Known, Ids
<1>2. CASE x = backup /\ backup # None
  BY <1>2 DEF IInv, TypeOK, HeldIsSound
<1>3. QED  BY <1>1, <1>2 DEF Snapshots

LEMMA SubmitRestoreKeepsIInv ==
  ASSUME IInv, UNCHANGED scenario, NEW c \in Clients, NEW x \in Snapshots, SubmitRestore(c, x)
  PROVE  IInv'
<1>1. PICK f \in Calls : f = flow[c] /\ FlowOK(f)
  BY DEF IInv, TypeOK
<1>2. x \in Installations /\ KnownSound(x) /\ x # None /\ x.cred.key \in Nat
  BY SnapshotIsSound, InstallationFields, FlowsAssumption
<1>3. PICK g : g = [f EXCEPT !.at = "commit", !.key = x.cred.key, !.seen = x]
  OBVIOUS
<1>4. /\ g.at = "commit" /\ g.key = x.cred.key /\ g.kind = f.kind /\ g.epoch = f.epoch
      /\ g.seen = x /\ g.changed = f.changed /\ g.displaced = f.displaced
  BY <1>3 DEF Calls
<1>5. /\ f.at = "read" /\ f.kind \in {"restore", "restoreKit"} /\ UNCHANGED made
      /\ Submit(c, x.cred.key, x) /\ (f.kind = "restore" => x.cred.key = f.seen.cred.key)
  BY <1>1 DEF SubmitRestore, Kind
<1>6. Carries(g) /\ SeenIsSound(g) /\ LeasesKey(g) /\ FirstRunOnly(g)
  BY <1>1, <1>2, <1>4, <1>5, FlowsAssumption
     DEF FlowOK, Carries, Submitted, NeedsKey, Opens, SeenIsSound, LeasesKey, FirstRunOnly,
         StartsVault
<1>7. mixed \/ OpensSeen(g)
  BY <1>2, <1>4 DEF OpensSeen, KnownSound, Sound
<1>8. mixed \/ VaultStays(g)
  <2>1. SUFFICES ASSUME f.kind = "restore", Current(f), ~f.displaced, ~mixed
                 PROVE  installed # None /\ installed.vault = x.vault
    BY <1>4, <1>5 DEF VaultStays, WorksWithVault, Current
  <2>2. installed # None /\ installed.vault = f.seen.vault
    BY <1>1, <1>5, <2>1 DEF FlowOK, VaultStays, WorksWithVault
  <2>3. f.seen.cred.key = f.seen.vault
    BY <1>1, <1>5, <2>1 DEF FlowOK, Carries, StartsVault, SeenIsSound, KnownSound, Sound
  <2>4. QED  BY <1>2, <1>5, <2>1, <2>2, <2>3 DEF KnownSound, Sound
<1>9. mixed \/ RestoresFirst(g)
  BY <1>1, <1>4, <1>5 DEF FlowOK, RestoresFirst, Current
<1>10. FlowOK(g)
  BY <1>6, <1>7, <1>8, <1>9 DEF FlowOK
<1>11. made' \in Nat /\ made <= made' /\ x.cred.key \in Ids
  BY <1>2, <1>5 DEF IInv, TypeOK, Ids
<1>12. QED  BY <1>1, <1>2, <1>3, <1>5, <1>10, <1>11, SubmitGoesOn

-----------------------------------------------------------------------------
(* A call ends, in its session or with one that begins.                    *)

LEMMA EndsInSession ==
  ASSUME IInv, NEW c \in Clients, NEW result \in {"success", "failed"}, Answer(c, result),
         locking' = WaitsOn(Clients \ {c}),
         SameGround, UNCHANGED <<past, made>>, keychain' \in Ids,
         UNCHANGED queue \/ (AtHead(c) /\ queue' = Tail(queue))
  PROVE  IInv'
<1>1. PICK g : g = Ended(result)
  OBVIOUS
<1>2. g \in Calls /\ g.at = "idle" /\ FlowOK(g)
  BY <1>1, EndedIsCall, IdleIsOK
<1>3. flow' = [flow EXCEPT ![c] = g] /\ before' \subseteq before /\ c \notin before'
  BY <1>1 DEF Answer, Ended
<1>4. /\ locking' \in BOOLEAN /\ (locking' => locking) /\ g.at # "committed"
      /\ made' \in Nat /\ made <= made'
  BY <1>2 DEF WaitsOn, IInv, TypeOK
<1>5. QED  BY <1>2, <1>3, <1>4, MovesOn

LEMMA UnlocksSession ==
  ASSUME IInv, NEW c \in Clients, Answer(c, "success"), Install(c), AtHead(c),
         queue' = Tail(queue), mixed \/ (installed # None /\ installed.vault = flow[c].key),
         keychain' \in Ids, UNCHANGED <<installed, backup, scenario, made, past>>
  PROVE  IInv'
<1>1. PICK g : g = Ended("success")
  OBVIOUS
<1>2. g \in Calls /\ g.at = "idle" /\ g.seen = None /\ ~g.changed /\ ~g.displaced
  BY <1>1, EndedIsCall
<1>3. flow' = [flow EXCEPT ![c] = g] /\ before' = before \ {c}
  BY <1>1 DEF Answer, Ended
<1>4. queue' \in Seq(Clients) /\ CommitsAtHead'
  BY <1>2, <1>3, QueueStays
<1>5. flow' \in [Clients -> Calls]
  BY <1>2, <1>3, FlowStays DEF IInv
<1>6. \A d \in Clients :
        flow'[d] = flow[d] \/ (flow'[d].at = "idle" /\ flow'[d].seen = None /\ ~flow'[d].changed
                /\ ~flow'[d].displaced)
  BY <1>2, <1>3 DEF IInv, TypeOK
<1>7. \A d \in Clients : flow'[d] = flow[d] \/ (flow'[d].at = "idle" /\ d \notin before')
  BY <1>2, <1>3 DEF IInv, TypeOK
<1>8. /\ before' \subseteq Clients /\ (\A d \in before' : Running(d))
      /\ sessionKey' \in Ids /\ locking' \in BOOLEAN /\ epoch' = epoch + 1
      /\ sessionKey' = flow[c].key
  BY <1>3 DEF Install, IInv, TypeOK, EpochsBehind, Calls
<1>9. QED  BY <1>4, <1>5, <1>6, <1>7, <1>8, CrossesBoundary

LEMMA FailKeepsIInv ==
  ASSUME IInv, UNCHANGED scenario, NEW c \in Clients, Fail(c)
  PROVE  IInv'
<1>1. UNCHANGED queue \/ (AtHead(c) /\ queue' = Tail(queue))
  BY DEF Fail
<1>2. /\ SameGround /\ UNCHANGED <<past, made>>
      /\ keychain' \in Ids /\ Answer(c, "failed") /\ locking' = WaitsOn(Clients \ {c})
  BY DEF Fail, SameGround, past, disk, IInv, TypeOK
<1>3. QED  BY <1>1, <1>2, EndsInSession

LEMMA VaultReadFailsKeepsIInv ==
  ASSUME IInv, UNCHANGED scenario, NEW c \in Clients, VaultReadFails(c)
  PROVE  IInv'
<1>1. /\ SameGround /\ UNCHANGED <<past, made>>
      /\ keychain' \in Ids /\ Answer(c, "failed") /\ locking' = WaitsOn(Clients \ {c})
      /\ AtHead(c) /\ queue' = Tail(queue)
  BY DEF VaultReadFails, SameGround, past, IInv, TypeOK, Ids
<1>2. QED  BY <1>1, EndsInSession

LEMMA SettleChangeKeepsIInv ==
  ASSUME IInv, UNCHANGED scenario, NEW c \in Clients, SettleChange(c)
  PROVE  IInv'
<1>1. flow[c].key \in Ids /\ keychain \in Ids
  BY DEF IInv, TypeOK, Calls
<1>2. keychain' \in Ids
  BY <1>1 DEF SettleChange, KeyToStore
<1>3. /\ SameGround /\ UNCHANGED <<past, made>>
      /\ Answer(c, "success") /\ locking' = WaitsOn(Clients \ {c})
      /\ AtHead(c) /\ queue' = Tail(queue)
  BY DEF SettleChange, SameGround, past, Kind
<1>4. QED  BY <1>2, <1>3, EndsInSession

\* A call that a boundary overtook is not of the session.
LEMMA OvertakenIsOld ==
  ASSUME IInv, NEW c \in Clients, Running(c), ~AssertCurrent(c)
  PROVE  ~Current(flow[c])
BY DEF IInv, EpochsBehind, AssertCurrent, Current

LEMMA SettleUnlockKeepsIInv ==
  ASSUME IInv, UNCHANGED scenario, NEW c \in Clients, SettleUnlock(c)
  PROVE  IInv'
<1>1. /\ flow[c].at = "committed" /\ AtHead(c) /\ queue' = Tail(queue)
      /\ flow[c].kind \in {"setup", "unlock", "recover"}
      /\ UNCHANGED <<installed, backup, made, past>>
  BY DEF SettleUnlock, Kind
<1>2. CASE AssertCurrent(c) /\ SucceedUnlocked(c)
  <2>1. mixed \/ (installed # None /\ installed.vault = flow[c].key)
    BY <1>1 DEF IInv, FlowOK, VaultStays
  <2>2. Install(c) /\ Answer(c, "success") /\ keychain' \in Ids
    BY <1>2 DEF SucceedUnlocked, IInv, TypeOK, Calls
  <2>3. QED  BY <1>1, <2>1, <2>2, UnlocksSession
<1>3. CASE ~AssertCurrent(c) /\ FailOvertaken(c)
  <2>1. /\ Answer(c, "failed") /\ locking' = WaitsOn(Clients \ {c})
        /\ SameGround /\ keychain' \in Ids
    BY <1>1, <1>3 DEF FailOvertaken, SameGround, past, IInv, TypeOK
  <2>2. QED  BY <1>1, <2>1, EndsInSession
<1>4. QED  BY <1>2, <1>3 DEF SettleUnlock

LEMMA VaultReadOpensKeepsIInv ==
  ASSUME IInv, UNCHANGED scenario, NEW c \in Clients, VaultReadOpens(c)
  PROVE  IInv'
<1>1. PICK f \in Calls : f = flow[c] /\ FlowOK(f)
  BY DEF IInv, TypeOK
<1>2. /\ f.at = "vault" /\ AtHead(c) /\ queue' = Tail(queue)
      /\ installed # None /\ installed.vault = f.key
      /\ UNCHANGED <<installed, backup, made, past>>
  BY <1>1 DEF VaultReadOpens
<1>3. keychain \in Ids /\ f.key \in Ids
  BY DEF IInv, TypeOK, Calls
<1>4. CASE ~AssertCurrent(c) /\ FailOvertaken(c)
  <2>1. /\ Answer(c, "failed") /\ locking' = WaitsOn(Clients \ {c})
        /\ SameGround /\ keychain' \in Ids
    BY <1>2, <1>3, <1>4 DEF FailOvertaken, SameGround, past
  <2>2. QED  BY <1>2, <2>1, EndsInSession
<1>5. CASE /\ f.kind = "recover" \/ (f.kind = "unlock" /\ f.seen.cred.outdated)
           /\ Advance(c, "opened") /\ UNCHANGED <<session, keychain, before>>
  <2>1. PICK g : g = [f EXCEPT !.at = "opened"]
    OBVIOUS
  <2>2. g \in Calls /\ flow' = [flow EXCEPT ![c] = g]
    BY <1>1, <1>5, <2>1 DEF Advance, Calls, Stages, IInv, TypeOK
  <2>3. /\ g.at = "opened" /\ g.key = f.key /\ g.kind = f.kind /\ g.epoch = f.epoch
        /\ g.seen = f.seen /\ g.changed = f.changed /\ g.displaced = f.displaced
    BY <2>1 DEF Calls
  <2>4. Carries(g)
    BY <1>1, <1>2, <1>5, <2>3 DEF FlowOK, Carries, Submitted, Opens, NeedsKey
  <2>5. /\ SeenIsSound(g) /\ LeasesKey(g) /\ FirstRunOnly(g)
        /\ mixed \/ (OpensSeen(g) /\ VaultStays(g) /\ RestoresFirst(g))
    BY <1>1, <1>2, <1>5, <2>3 DEF FlowOK, SeenIsSound, LeasesKey, NeedsKey, FirstRunOnly,
      Submitted, StartsVault, OpensSeen, Opens, VaultStays, WorksWithVault, RestoresFirst
  <2>6. FlowOK(g)
    BY <2>4, <2>5 DEF FlowOK
  <2>7. SameGround /\ UNCHANGED <<past, before, locking>> /\ keychain' \in Ids
        /\ made' \in Nat /\ made <= made'
    BY <1>2, <1>3, <1>5 DEF SameGround, past, session, IInv, TypeOK
  <2>8. g.at \notin {"idle", "committed"} /\ flow[c].at # "idle" /\ g.epoch = flow[c].epoch
    BY <1>1, <1>2, <2>3
  <2>9. QED  BY <1>2, <2>2, <2>6, <2>7, <2>8, GoesOn
<1>6. CASE Install(c) /\ Answer(c, "success") /\ keychain' \in {keychain, f.key}
  <2>1. installed.vault = flow[c].key /\ keychain' \in Ids
    BY <1>1, <1>2, <1>3, <1>6
  <2>2. QED  BY <1>2, <1>6, <2>1, UnlocksSession
<1>7. QED
  BY <1>1, <1>4, <1>5, <1>6 DEF VaultReadOpens, SucceedUnlocked, Kind

LEMMA SettleFirstRunKeepsIInv ==
  ASSUME IInv, UNCHANGED scenario, NEW c \in Clients, SettleFirstRun(c)
  PROVE  IInv'
<1>1. PICK f \in Calls : f = flow[c] /\ FlowOK(f)
  BY DEF IInv, TypeOK
<1>2. /\ f.at = "committed" /\ f.kind = "restoreKit" /\ AtHead(c)
      /\ UNCHANGED <<installed, backup, made, past>>
  BY <1>1 DEF SettleFirstRun, Kind
<1>3. CASE ~AssertCurrent(c) /\ queue' = Tail(queue) /\ FailOvertaken(c)
  <2>1. /\ Answer(c, "failed") /\ locking' = WaitsOn(Clients \ {c})
        /\ SameGround /\ keychain' \in Ids
    BY <1>2, <1>3 DEF FailOvertaken, SameGround, past, IInv, TypeOK
  <2>2. QED  BY <1>2, <1>3, <2>1, EndsInSession
<1>4. CASE queue' = Append(Tail(queue), c) /\ Advance(c, "vault")
           /\ UNCHANGED <<session, keychain, before>>
  <2>1. PICK g : g = [f EXCEPT !.at = "vault"]
    OBVIOUS
  <2>2. g \in Calls /\ flow' = [flow EXCEPT ![c] = g]
    BY <1>1, <1>4, <2>1 DEF Advance, Calls, Stages, IInv, TypeOK
  <2>3. /\ g.at = "vault" /\ g.key = f.key /\ g.kind = f.kind /\ g.epoch = f.epoch
        /\ g.seen = f.seen /\ g.changed = f.changed /\ g.displaced = f.displaced
    BY <2>1 DEF Calls
  <2>4. FlowOK(g)
    BY <1>1, <1>2, <2>3 DEF FlowOK, Carries, Submitted, Opens, NeedsKey, SeenIsSound, LeasesKey,
      FirstRunOnly, OpensSeen, VaultStays, WorksWithVault, RestoresFirst, StartsVault
  <2>5. SameGround /\ UNCHANGED <<past, before, locking>> /\ keychain' \in Ids
        /\ made' \in Nat /\ made <= made'
    BY <1>2, <1>4 DEF SameGround, past, session, IInv, TypeOK
  <2>6. g.at \notin {"idle", "committed"} /\ flow[c].at # "idle" /\ g.epoch = flow[c].epoch
    BY <1>1, <1>2, <2>3
  <2>7. QED  BY <1>2, <1>4, <2>2, <2>4, <2>5, <2>6, GoesOn
<1>5. QED  BY <1>1, <1>3, <1>4 DEF SettleFirstRun

LEMMA SettleRestoreKeepsIInv ==
  ASSUME IInv, UNCHANGED scenario, NEW c \in Clients, SettleRestore(c)
  PROVE  IInv'
<1>1. /\ flow[c].at = "committed" /\ flow[c].kind = "restore" /\ AtHead(c)
      /\ queue' = Tail(queue) /\ keychain' \in Ids /\ Answer(c, "success")
      /\ EndSession(Clients \ {c}) /\ UNCHANGED <<installed, backup, made, past>>
  BY DEF SettleRestore, Kind, Ids
<1>2. CASE locking
  <2>1. /\ locking' = WaitsOn(Clients \ {c}) /\ SameGround
    BY <1>1, <1>2 DEF EndSession, SameGround, past
  <2>2. QED  BY <1>1, <2>1, EndsInSession
<1>3. CASE ~locking
  <2>1. PICK g : g = Ended("success")
    OBVIOUS
  <2>2. g \in Calls /\ g.at = "idle" /\ g.seen = None /\ ~g.changed /\ ~g.displaced
    BY <2>1, EndedIsCall
  <2>3. flow' = [flow EXCEPT ![c] = g] /\ before' = before \ {c}
    BY <1>1, <2>1 DEF Answer, Ended
  <2>4. queue' \in Seq(Clients) /\ CommitsAtHead'
    BY <1>1, <2>2, <2>3, QueueStays
  <2>5. flow' \in [Clients -> Calls]
    BY <2>2, <2>3, FlowStays DEF IInv
  <2>6. \A d \in Clients :
          flow'[d] = flow[d]
          \/ (flow'[d].at = "idle" /\ flow'[d].seen = None /\ ~flow'[d].changed
                /\ ~flow'[d].displaced)
    BY <2>2, <2>3 DEF IInv, TypeOK
  <2>7. \A d \in Clients : flow'[d] = flow[d] \/ (flow'[d].at = "idle" /\ d \notin before')
    BY <2>2, <2>3 DEF IInv, TypeOK
  <2>8. /\ before' \subseteq Clients /\ (\A d \in before' : Running(d))
        /\ sessionKey' = None /\ sessionKey' \in Ids /\ locking' \in BOOLEAN
        /\ epoch' = epoch + 1
    BY <1>1, <1>3, <2>3 DEF EndSession, IInv, TypeOK, EpochsBehind, Ids
  <2>9. QED  BY <1>1, <2>4, <2>5, <2>6, <2>7, <2>8, CrossesBoundary
<1>4. QED  BY <1>2, <1>3

-----------------------------------------------------------------------------
(* What no call does.                                                      *)

LEMMA LockKeepsIInv ==
  ASSUME IInv, UNCHANGED scenario, Lock
  PROVE  IInv'
<1>1. /\ flow' = flow /\ queue' = queue /\ before' = before /\ sessionKey' = None
      /\ epoch' = epoch + 1 /\ locking' \in BOOLEAN
      /\ UNCHANGED <<installed, backup, keychain, made, past>>
  BY DEF Lock, EndSession, disk, history, past
<1>2. /\ flow' \in [Clients -> Calls] /\ before' \subseteq Clients /\ queue' \in Seq(Clients)
      /\ keychain' \in Ids /\ sessionKey' \in Ids /\ (\A d \in before' : Running(d))
      /\ CommitsAtHead'
  BY <1>1 DEF IInv, TypeOK, EpochsBehind, CommitsAtHead, AtHead, Ids
<1>3. QED  BY <1>1, <1>2, CrossesBoundary

LEMMA SignOutKeepsIInv ==
  ASSUME IInv, UNCHANGED scenario, SignOut
  PROVE  IInv'
<1>1. /\ flow' = flow /\ queue' = queue /\ before' = {c \in Clients : Running(c)}
      /\ keychain' \in Ids /\ EndSession(Clients)
      /\ UNCHANGED <<installed, backup, made, past>>
  BY DEF SignOut, Ids
<1>2. /\ flow' \in [Clients -> Calls] /\ before' \subseteq Clients /\ queue' \in Seq(Clients)
      /\ (\A d \in before' : Running(d)) /\ CommitsAtHead'
  BY <1>1 DEF IInv, TypeOK, CommitsAtHead, AtHead
<1>3. CASE ~locking
  <2>1. sessionKey' = None /\ sessionKey' \in Ids /\ epoch' = epoch + 1 /\ locking' \in BOOLEAN
    BY <1>1, <1>3 DEF EndSession, Ids
  <2>2. QED  BY <1>1, <1>2, <2>1, CrossesBoundary
<1>4. CASE locking
  <2>1. SameGround /\ locking' \in BOOLEAN /\ made' \in Nat /\ made <= made'
    BY <1>1, <1>4 DEF EndSession, WaitsOn, SameGround, past, IInv, TypeOK
  <2>2. TypeOK'
    BY <1>1, <1>2, <2>1 DEF IInv, TypeOK, SameGround, past
  <2>3. ASSUME NEW d \in Clients
        PROVE  FlowOK(flow[d])'
    <3>1. PICK f \in Calls : flow'[d] = f /\ FlowOK(f)
      BY <1>1 DEF IInv, TypeOK
    <3>2. QED  BY <2>1, <3>1, CallStaysOK DEF IInv
  <2>4. EpochsBehind'
    BY <1>1, <1>4, <2>1 DEF IInv, TypeOK, Calls, EpochsBehind, Running, Current, SameGround, past
  <2>5. QED  BY <1>1, <1>2, <2>1, <2>2, <2>3, <2>4, DiskStays DEF IInv
<1>5. QED  BY <1>3, <1>4 DEF IInv, TypeOK

LEMMA BackupKeepsIInv ==
  ASSUME IInv, UNCHANGED scenario, Backup
  PROVE  IInv'
<1>1. /\ sessionKey # None /\ installed # None /\ backup' = installed
      /\ UNCHANGED <<installed, keychain, session, queue, flow, made, history>>
  BY DEF Backup
<1>2. TypeOK' /\ KeysMixOnlyByDisplaced' /\ InstalledFirst' /\ CommitsAtHead'
  BY <1>1 DEF IInv, TypeOK, KeysMixOnlyByDisplaced, OneVaultKey, Sound, SessionOpensVault,
              InstalledFirst, CommitsAtHead, AtHead, session, history, past
<1>3. EpochsBehind'
  BY <1>1 DEF IInv, EpochsBehind, Running, Current, session, history, past
<1>4. HeldIsSound'
  BY <1>1 DEF IInv, HeldIsSound, KnownSound, Known, Sound, history, past
<1>5. ASSUME NEW d \in Clients
      PROVE  FlowOK(flow[d])'
  <2>1. PICK f \in Calls : f = flow[d] /\ flow'[d] = f /\ FlowOK(f)
    BY <1>1 DEF IInv, TypeOK
  <2>2. Carries(flow[d])' /\ FirstRunOnly(flow[d])'
    BY <1>1, <2>1 DEF FlowOK, Carries, Submitted, FirstRunOnly
  <2>3. SeenIsSound(flow[d])' /\ LeasesKey(flow[d])'
    BY <1>1, <2>1 DEF FlowOK, SeenIsSound, KnownSound, Known, Sound, LeasesKey, Current, session,
                      history, past
  <2>4. mixed' \/ (OpensSeen(flow[d])' /\ VaultStays(flow[d])' /\ RestoresFirst(flow[d])')
    BY <1>1, <2>1 DEF FlowOK, OpensSeen, Submitted, VaultStays, WorksWithVault, RestoresFirst,
                      Current, session, history, past
  <2>5. QED  BY <2>2, <2>3, <2>4 DEF FlowOK
<1>6. QED  BY <1>2, <1>3, <1>4, <1>5 DEF IInv

LEMMA CrashKeepsIInv ==
  ASSUME IInv, UNCHANGED scenario, Crash
  PROVE  IInv'
<1>1. PICK g : g = NoFlow
  OBVIOUS
<1>2. g \in Calls /\ g.at = "idle" /\ g.seen = None /\ ~g.changed /\ ~g.displaced
  BY <1>1 DEF NoFlow, Calls, Stages, Ids
<1>3. /\ flow' = [d \in Clients |-> g] /\ queue' = <<>> /\ before' = {} /\ sessionKey' = None
      /\ epoch' = epoch + 1 /\ locking' = FALSE
      /\ UNCHANGED <<installed, backup, keychain, made, past>>
  BY <1>1 DEF Crash, disk
<1>4. /\ flow' \in [Clients -> Calls] /\ before' \subseteq Clients /\ queue' \in Seq(Clients)
      /\ (\A d \in before' : Running(d)) /\ locking' \in BOOLEAN
      /\ keychain' \in Ids /\ sessionKey' \in Ids
  <2>1. flow' \in [Clients -> Calls]
    BY <1>2, <1>3
  <2>2. keychain' \in Ids /\ sessionKey' \in Ids
    BY <1>3 DEF IInv, TypeOK, Ids
  <2>3. queue' \in Seq(Clients)
    BY <1>3
  <2>4. before' \subseteq Clients /\ (\A d \in before' : Running(d)) /\ locking' \in BOOLEAN
    BY <1>3
  <2>5. QED  BY <2>1, <2>2, <2>3, <2>4
<1>5. CommitsAtHead'
  BY <1>2, <1>3 DEF CommitsAtHead
<1>6. \A d \in Clients :
        flow'[d] = flow[d]
        \/ (flow'[d].at = "idle" /\ flow'[d].seen = None /\ ~flow'[d].changed
                /\ ~flow'[d].displaced)
  BY <1>2, <1>3
<1>7. \A d \in Clients : flow'[d] = flow[d] \/ (flow'[d].at = "idle" /\ d \notin before')
  BY <1>2, <1>3
<1>8. QED  BY <1>3, <1>4, <1>5, <1>6, <1>7, CrossesBoundary

-----------------------------------------------------------------------------
(* The commit.                                                             *)

\* What the call at the head of the queue works with.
LEMMA Committing ==
  ASSUME IInv, NEW c \in Clients, Commit(c)
  PROVE  \E f \in Calls :
           /\ f = flow[c] /\ FlowOK(f) /\ f.at = "commit" /\ f.key \in Nat
           /\ Current(f) /\ ~locking /\ AtHead(c)
           /\ f.seen # None => f.seen \in Installations /\ KnownSound(f.seen)
           /\ f.kind \in scenario.flows /\ f.kind \in AllFlows \ {"touchid"}
<1>1. PICK f \in Calls : f = flow[c] /\ FlowOK(f)
  BY DEF IInv, TypeOK
<1>2. f.at = "commit" /\ Current(f) /\ ~locking /\ AtHead(c)
  BY <1>1 DEF Commit, AssertCurrent, Current
<1>3. f.key \in Nat /\ f.kind \in scenario.flows /\ f.kind # "touchid"
  BY <1>1, <1>2 DEF FlowOK, Carries, Submitted, Calls, Ids
<1>4. f.kind \in AllFlows
  BY <1>3, FlowsAssumption DEF IInv, TypeOK
<1>5. f.seen # None => f.seen \in Installations /\ KnownSound(f.seen)
  BY <1>1 DEF FlowOK, SeenIsSound, Calls
<1>6. QED  BY <1>1, <1>2, <1>3, <1>4, <1>5

\* The number of the secret it may make.
LEMMA CommitNumbers ==
  ASSUME IInv, NEW c \in Clients, Commit(c), NEW m, m = made'
  PROVE  /\ m \in Nat /\ made <= m /\ Known(m)'
         /\ MakesSecret(Kind(c)) /\ Kind(c) # "setup" => m = made + 1 /\ m <= MaxMade
<1>1. made \in Nat /\ MaxMade \in Nat
  BY FlowsAssumption DEF IInv, TypeOK
<1>2. m = IF MakesSecret(Kind(c)) /\ Kind(c) # "setup" THEN made + 1 ELSE made
  BY DEF Commit
<1>3. MakesSecret(Kind(c)) /\ Kind(c) # "setup" => made < MaxMade
  BY DEF Commit
<1>4. m \in Nat /\ made <= m
  BY <1>1, <1>2
<1>5. QED  BY <1>1, <1>2, <1>3, <1>4 DEF Known

\* A commit mixes keys when its vault was replaced, and nothing separates them again.
LEMMA CommitMixes ==
  ASSUME IInv, NEW c \in Clients, Commit(c)
  PROVE  /\ mixed' \in BOOLEAN /\ (mixed => mixed')
         /\ ~mixed' => ~mixed /\ ~flow[c].displaced
         /\ mixed' => mixed \/ flow[c].displaced
<1>1. mixed' = (mixed \/ flow[c].displaced)
  BY DEF Commit
<1>2. mixed \in BOOLEAN /\ flow[c].displaced \in BOOLEAN
  BY DEF IInv, TypeOK, Calls
<1>3. QED  BY <1>1, <1>2

\* What is known and sound still is once it is committed.
LEMMA StaysKnownSound ==
  ASSUME IInv, made' \in Nat, made <= made', mixed => mixed',
         NEW i \in Installations, KnownSound(i)
  PROVE  KnownSound(i)'
<1>1. Known(i.cred.password)' /\ Known(i.kit.id)'
  BY InstallationFields, KnownGrows DEF KnownSound, IInv, TypeOK, Ids
<1>2. QED  BY <1>1 DEF KnownSound, Sound

\* A vault key wrapped under a new password, and under a new code.
LEMMA WrappedIsKnown ==
  ASSUME NEW k \in Nat, NEW m \in Nat, Known(m)'
  PROVE  /\ [key |-> k, password |-> m, outdated |-> FALSE]
              \in [key : Nat, password : Nat, outdated : BOOLEAN]
         /\ [id |-> m, key |-> k] \in [id : Nat, key : Nat]
         /\ [id |-> m, key |-> k] # NoKit
BY FlowsAssumption DEF NoKit

\* What a commit installs: sound, and of the vault that was there unless it is the
\* first or replaces it.
CommitInstalled(f) ==
  /\ installed' \in Installations /\ KnownSound(installed)'
  /\ ~mixed' /\ f.kind \notin {"setup", "restoreKit"} =>
       installed # None /\ installed'.vault = installed.vault
  /\ f.kind = "setup" => installed = None /\ installed'.vault = f.key
  /\ f.kind = "restoreKit" => installed'.vault = f.seen.vault

LEMMA CommitsNewCredentials ==
  ASSUME IInv, UNCHANGED scenario, NEW c \in Clients, Commit(c),
         NEW f \in Calls, f = flow[c], FlowOK(f), f.at = "commit", f.key \in Nat, Current(f),
         f.kind \in {"change", "rotate", "recover"}
  PROVE  CommitInstalled(f)
<1>1. PICK m : m = made' /\ m \in Nat /\ made <= m /\ Known(m)'
  <2>1. PICK m : m = made'
    OBVIOUS
  <2>2. QED  BY <2>1, CommitNumbers
<1>2. installed \in Installations /\ KnownSound(installed) /\ installed # None
  BY DEF Commit, MayCommit, Kind, IInv, TypeOK, HeldIsSound
<1>3. PICK o \in Installations : o = installed /\ KnownSound(o) /\ KnownSound(o)'
  BY <1>1, <1>2, StaysKnownSound, CommitMixes
<1>4. mixed' \/ o.vault = f.key
  <2>1. SUFFICES ASSUME ~mixed, ~f.displaced
                 PROVE  o.vault = f.key
    BY CommitMixes
  <2>2. CASE f.kind = "recover"
    BY <1>3, <2>1, <2>2 DEF FlowOK, VaultStays, WorksWithVault, OpensSeen, Opens, Submitted
  <2>3. CASE f.kind \in {"change", "rotate"}
    BY <1>3, <2>1, <2>3, FlowsAssumption
       DEF FlowOK, LeasesKey, NeedsKey, IInv, KeysMixOnlyByDisplaced, SessionOpensVault
  <2>4. QED  BY <2>2, <2>3
<1>5. PICK w : w = [key |-> f.key, password |-> m, outdated |-> FALSE]
  OBVIOUS
<1>6. PICK k : k = [id |-> m, key |-> f.key]
  OBVIOUS
<1>7. /\ w \in [key : Nat, password : Nat, outdated : BOOLEAN] /\ k \in [id : Nat, key : Nat]
      /\ w.key = f.key /\ w.password = m /\ ~w.outdated /\ k.id = m /\ k.key = f.key
  BY <1>1, <1>5, <1>6, WrappedIsKnown
<1>8. installed' = CASE f.kind = "change" -> [o EXCEPT !.cred = w]
                     [] f.kind = "rotate" -> [o EXCEPT !.kit = k]
                     [] f.kind = "recover" -> [o EXCEPT !.cred = w, !.kit = k]
  BY <1>1, <1>3, <1>5, <1>6 DEF Commit, Target, Basis, Kind
<1>9. PICK i : /\ i = installed' /\ i \in Installations /\ i.vault = o.vault
               /\ i.cred = IF f.kind = "rotate" THEN o.cred ELSE w
               /\ i.kit = IF f.kind = "change" THEN o.kit ELSE k
  <2>1. CASE f.kind = "change"   BY <1>7, <1>8, <2>1 DEF Installations
  <2>2. CASE f.kind = "rotate"   BY <1>7, <1>8, <2>2 DEF Installations
  <2>3. CASE f.kind = "recover"
    <3>1. PICK j : j = [o EXCEPT !.cred = w]
      OBVIOUS
    <3>2. j \in Installations /\ j.vault = o.vault /\ j.cred = w
      BY <1>7, <3>1 DEF Installations
    <3>3. installed' = [j EXCEPT !.kit = k]
      BY <1>8, <2>3, <3>1
    <3>4. QED  BY <1>7, <2>3, <3>2, <3>3 DEF Installations
  <2>4. QED  BY <2>1, <2>2, <2>3
<1>10. KnownSound(i)'
  BY <1>1, <1>3, <1>4, <1>7, <1>9 DEF KnownSound, Sound
<1>11. QED  BY <1>2, <1>3, <1>9, <1>10 DEF CommitInstalled, KnownSound, Sound, Known

LEMMA CommitsWhatWasRead ==
  ASSUME IInv, UNCHANGED scenario, NEW c \in Clients, Commit(c),
         NEW f \in Calls, f = flow[c], FlowOK(f), f.at = "commit", f.key \in Nat, Current(f),
         f.kind \in {"unlock", "verify", "revoke"}
  PROVE  CommitInstalled(f)
<1>1. PICK m : m = made' /\ m \in Nat /\ made <= m
  <2>1. PICK m : m = made'
    OBVIOUS
  <2>2. QED  BY <2>1, CommitNumbers
<1>2. installed \in Installations /\ KnownSound(installed) /\ installed # None
  BY DEF Commit, MayCommit, Kind, IInv, TypeOK, HeldIsSound
<1>3. PICK o \in Installations : o = installed /\ KnownSound(o) /\ KnownSound(o)'
  BY <1>1, <1>2, StaysKnownSound, CommitMixes
<1>4. PICK s \in Installations : s = f.seen /\ KnownSound(s) /\ KnownSound(s)'
  <2>1. f.seen \in Installations /\ KnownSound(f.seen)
    BY DEF FlowOK, Carries, Submitted, SeenIsSound, Calls
  <2>2. QED  BY <1>1, <2>1, StaysKnownSound, CommitMixes
<1>5. \/ mixed'
      \/ /\ f.kind = "unlock" => s.vault = o.vault
         /\ f.kind = "verify" => s.kit.key = o.vault
  <2>1. SUFFICES ASSUME ~mixed, ~f.displaced
                 PROVE  /\ f.kind = "unlock" => s.vault = o.vault
                        /\ f.kind = "verify" => s.kit.key = o.vault
    BY CommitMixes
  <2>2. CASE f.kind = "unlock"
    BY <1>3, <1>4, <2>1, <2>2 DEF FlowOK, VaultStays, WorksWithVault
  <2>3. CASE f.kind = "verify"
    <3>1. f.key = o.vault
      BY <1>3, <2>1, <2>3, FlowsAssumption
         DEF FlowOK, LeasesKey, NeedsKey, IInv, KeysMixOnlyByDisplaced, SessionOpensVault
    <3>2. QED  BY <1>4, <2>3, <3>1 DEF FlowOK, Carries, Submitted
  <2>4. QED  BY <2>2, <2>3
<1>6. PICK w : w = [s.cred EXCEPT !.outdated = FALSE]
  OBVIOUS
<1>7. /\ w \in [key : Nat, password : Nat, outdated : BOOLEAN] /\ ~w.outdated
      /\ w.key = s.cred.key /\ w.password = s.cred.password
  BY <1>6, InstallationFields
<1>8. Known(NoKit.id)'
  BY DEF NoKit, Known
<1>9. installed' = CASE f.kind = "unlock" -> [o EXCEPT !.cred = w]
                     [] f.kind = "verify" -> [o EXCEPT !.kit = s.kit]
                     [] f.kind = "revoke" -> [o EXCEPT !.kit = NoKit]
  BY <1>3, <1>4, <1>6 DEF Commit, Target, Basis, VerifiedKit, Kind
<1>10. PICK i : /\ i = installed' /\ i \in Installations /\ i.vault = o.vault
                /\ i.cred = IF f.kind = "unlock" THEN w ELSE o.cred
                /\ i.kit = IF f.kind = "unlock" THEN o.kit
                           ELSE IF f.kind = "verify" THEN s.kit ELSE NoKit
  BY <1>7, <1>8, <1>9, InstallationFields DEF Installations
<1>11. KnownSound(i)'
  BY <1>3, <1>4, <1>5, <1>7, <1>8, <1>10 DEF KnownSound, Sound
<1>12. QED  BY <1>2, <1>3, <1>10, <1>11 DEF CommitInstalled, KnownSound, Sound, Known

LEMMA CommitsSetup ==
  ASSUME IInv, UNCHANGED scenario, NEW c \in Clients, Commit(c),
         NEW f \in Calls, f = flow[c], f.key \in Nat, f.kind = "setup"
  PROVE  CommitInstalled(f)
<1>1. PICK m : m = made' /\ m \in Nat /\ Known(m)'
  <2>1. PICK m : m = made'
    OBVIOUS
  <2>2. QED  BY <2>1, CommitNumbers
<1>2. PICK w : w = [key |-> f.key, password |-> m, outdated |-> FALSE]
  OBVIOUS
<1>3. PICK k : k = [id |-> m, key |-> f.key]
  OBVIOUS
<1>4. /\ w \in [key : Nat, password : Nat, outdated : BOOLEAN] /\ k \in [id : Nat, key : Nat]
      /\ w.key = f.key /\ w.password = m /\ ~w.outdated /\ k.id = m /\ k.key = f.key
  BY <1>1, <1>2, <1>3, WrappedIsKnown
<1>5. installed = None /\ installed' = [vault |-> f.key, cred |-> w, kit |-> k]
  BY <1>1, <1>2, <1>3 DEF Commit, MayCommit, Target, Kind
<1>6. PICK i : /\ i = installed' /\ i \in Installations
               /\ i.vault = f.key /\ i.cred = w /\ i.kit = k
  BY <1>4, <1>5 DEF Installations
<1>7. KnownSound(i)'
  BY <1>1, <1>4, <1>6 DEF KnownSound, Sound
<1>8. QED  BY <1>4, <1>5, <1>6, <1>7 DEF CommitInstalled, KnownSound, Sound, Known

LEMMA CommitsFirstRun ==
  ASSUME IInv, UNCHANGED scenario, NEW c \in Clients, Commit(c),
         NEW f \in Calls, f = flow[c], FlowOK(f), f.at = "commit", f.key \in Nat,
         f.kind = "restoreKit"
  PROVE  CommitInstalled(f)
<1>1. PICK m : m = made' /\ m \in Nat /\ Known(m)'
  <2>1. PICK m : m = made'
    OBVIOUS
  <2>2. QED  BY <2>1, CommitNumbers
<1>2. f.seen.vault \in Nat /\ (mixed' \/ f.seen.vault = f.key)
  <2>1. f.seen \in Installations
    BY DEF FlowOK, Carries, Submitted, Opens, Calls
  <2>2. QED  BY <2>1, InstallationFields, CommitMixes DEF FlowOK, OpensSeen, Submitted, Opens
<1>3. PICK w : w = [key |-> f.key, password |-> m, outdated |-> FALSE]
  OBVIOUS
<1>4. PICK k : k = [id |-> m, key |-> f.key]
  OBVIOUS
<1>5. /\ w \in [key : Nat, password : Nat, outdated : BOOLEAN] /\ k \in [id : Nat, key : Nat]
      /\ w.key = f.key /\ w.password = m /\ ~w.outdated /\ k.id = m /\ k.key = f.key
  BY <1>1, <1>3, <1>4, WrappedIsKnown
<1>6. installed' = [vault |-> f.seen.vault, cred |-> w, kit |-> k]
  BY <1>1, <1>3, <1>4 DEF Commit, Target, FirstRunKit, Kind
<1>7. PICK i : /\ i = installed' /\ i \in Installations
               /\ i.vault = f.seen.vault /\ i.cred = w /\ i.kit = k
  BY <1>2, <1>5, <1>6 DEF Installations
<1>8. KnownSound(i)'
  BY <1>1, <1>2, <1>5, <1>7 DEF KnownSound, Sound
<1>9. QED  BY <1>5, <1>7, <1>8 DEF CommitInstalled, KnownSound, Sound, Known

LEMMA CommitsRestore ==
  ASSUME IInv, UNCHANGED scenario, NEW c \in Clients, Commit(c),
         NEW f \in Calls, f = flow[c], FlowOK(f), f.at = "commit", f.key \in Nat, Current(f),
         f.kind = "restore", f.kind \in scenario.flows
  PROVE  CommitInstalled(f)
<1>1. made' \in Nat /\ made <= made'
  <2>1. PICK m : m = made'
    OBVIOUS
  <2>2. QED  BY <2>1, CommitNumbers
<1>2. mixed' \/ (installed # None /\ installed.vault = f.seen.vault)
  BY CommitMixes DEF FlowOK, VaultStays, WorksWithVault
<1>3. PICK o : o = IF installed # None THEN installed.kit ELSE NoKit
  OBVIOUS
<1>4. /\ o \in {NoKit} \cup [id : Nat, key : Nat] /\ Known(o.id)'
      /\ mixed' \/ o = NoKit \/ o.key = installed.vault
  <2>1. CASE installed = None
    BY <1>3, <2>1 DEF NoKit, Known
  <2>2. CASE installed # None
    <3>1. PICK v \in Installations : v = installed /\ KnownSound(v)
      BY <2>2 DEF IInv, TypeOK, HeldIsSound
    <3>2. KnownSound(v)'
      BY <1>1, <3>1, StaysKnownSound, CommitMixes
    <3>3. o = v.kit
      BY <1>3, <2>2, <3>1
    <3>4. QED
      BY <3>1, <3>2, <3>3, InstallationFields DEF KnownSound, Sound
  <2>3. QED  BY <2>1, <2>2
<1>5. PICK s \in Installations : s = f.seen /\ KnownSound(s) /\ KnownSound(s)'
  <2>1. f.seen \in Installations /\ KnownSound(f.seen)
    BY DEF FlowOK, Carries, Submitted, SeenIsSound, Calls
  <2>2. QED  BY <1>1, <2>1, StaysKnownSound, CommitMixes
<1>6. PICK k : k = IF s.kit # NoKit THEN s.kit ELSE o
  OBVIOUS
<1>7. k \in {NoKit} \cup [id : Nat, key : Nat]
  BY <1>4, <1>6, InstallationFields
<1>8. installed' = [s EXCEPT !.kit = k]
  BY <1>3, <1>5, <1>6 DEF Commit, Target, RestoredFrom, Kind
<1>9. PICK i : /\ i = installed' /\ i \in Installations
               /\ i.vault = s.vault /\ i.cred = s.cred /\ i.kit = k
  BY <1>7, <1>8 DEF Installations
<1>10. KnownSound(i)'
  BY <1>2, <1>4, <1>5, <1>6, <1>9 DEF KnownSound, Sound
<1>11. QED
  BY <1>2, <1>5, <1>9, <1>10 DEF CommitInstalled, KnownSound, Sound, Known

LEMMA CommitInstalls ==
  ASSUME IInv, UNCHANGED scenario, NEW c \in Clients, Commit(c),
         NEW f \in Calls, f = flow[c], FlowOK(f), f.at = "commit", f.key \in Nat, Current(f),
         f.kind \in scenario.flows, f.kind \in AllFlows \ {"touchid"}
  PROVE  CommitInstalled(f)
<1>1. \/ f.kind = "setup" \/ f.kind = "restoreKit" \/ f.kind = "restore"
      \/ f.kind \in {"change", "rotate", "recover"}
      \/ f.kind \in {"unlock", "verify", "revoke"}
  BY DEF AllFlows
<1>2. CASE f.kind = "setup"                        BY <1>2, CommitsSetup
<1>3. CASE f.kind = "restoreKit"                   BY <1>3, CommitsFirstRun
<1>4. CASE f.kind = "restore"                      BY <1>4, CommitsRestore
<1>5. CASE f.kind \in {"change", "rotate", "recover"}  BY <1>5, CommitsNewCredentials
<1>6. CASE f.kind \in {"unlock", "verify", "revoke"}   BY <1>6, CommitsWhatWasRead
<1>7. QED  BY <1>1, <1>2, <1>3, <1>4, <1>5, <1>6

\* The other calls, over what a commit installed.
LEMMA CommitKeepsOthers ==
  ASSUME IInv, UNCHANGED scenario, NEW c \in Clients, Commit(c),
         NEW f \in Calls, f = flow[c], FlowOK(f), f.at = "commit", Current(f), AtHead(c),
         CommitInstalled(f), UNCHANGED <<backup, sessionKey, epoch>>,
         made' \in Nat, made <= made',
         NEW d \in Clients, d # c, NEW h \in Calls, h = flow[d], FlowOK(h)
  PROVE  FlowOK(flow[d])'
<1>1. PICK g : /\ g = flow'[d]
               /\ g = [h EXCEPT !.displaced =
                        h.displaced \/ (ReplacesVault(c) /\ WorksWithVault(h))]
  BY DEF Commit
<1>2. /\ g.kind = h.kind /\ g.at = h.at /\ g.epoch = h.epoch /\ g.key = h.key
      /\ g.seen = h.seen /\ g.changed = h.changed
      /\ ~g.displaced => ~h.displaced /\ ~(ReplacesVault(c) /\ WorksWithVault(h))
      /\ g.displaced => h.displaced \/ ReplacesVault(c)
  BY <1>1 DEF Calls
<1>3. Carries(flow[d])'
  BY <1>1, <1>2 DEF FlowOK, Carries, Submitted
<1>4. SeenIsSound(flow[d])'
  <2>1. SUFFICES ASSUME h.seen # None
                 PROVE  KnownSound(h.seen)'
    BY <1>1, <1>2 DEF SeenIsSound, KnownSound, Known
  <2>2. h.seen \in Installations /\ KnownSound(h.seen)
    BY <2>1 DEF FlowOK, SeenIsSound, Calls
  <2>3. QED  BY <2>2, StaysKnownSound, CommitMixes
<1>5. LeasesKey(flow[d])'
  BY <1>1, <1>2 DEF FlowOK, LeasesKey, Current
<1>6. FirstRunOnly(flow[d])'
  <2>1. ReplacesVault(c) => scenario.installed = None
    BY DEF ReplacesVault, Kind, FlowOK, FirstRunOnly, Submitted, StartsVault
  <2>2. QED  BY <1>1, <1>2, <2>1 DEF FlowOK, FirstRunOnly, Submitted
<1>7. h.at # "committed"
  BY DEF IInv, CommitsAtHead, AtHead
<1>8. mixed' \/ (OpensSeen(flow[d])' /\ RestoresFirst(flow[d])')
  BY <1>1, <1>2, CommitMixes DEF FlowOK, OpensSeen, Submitted, RestoresFirst, Current
<1>9. mixed' \/ VaultStays(flow[d])'
  <2>1. SUFFICES ASSUME ~mixed', WorksWithVault(h), Current(h), ~h.displaced, ~ReplacesVault(c)
                 PROVE  installed' # None /\ installed'.vault = h.seen.vault
    BY <1>1, <1>2, <1>7 DEF VaultStays, WorksWithVault, Current
  <2>2. installed # None /\ installed.vault = h.seen.vault
    BY <2>1, CommitMixes DEF FlowOK, VaultStays
  <2>3. installed' # None
    BY FlowsAssumption DEF CommitInstalled
  <2>4. installed'.vault = installed.vault
    BY <2>1, <2>2 DEF CommitInstalled, ReplacesVault, Kind
  <2>5. QED  BY <2>2, <2>3, <2>4
<1>10. QED  BY <1>3, <1>4, <1>5, <1>6, <1>8, <1>9 DEF FlowOK

\* The call that committed.
LEMMA CommitKeepsOwn ==
  ASSUME IInv, UNCHANGED scenario, NEW c \in Clients, Commit(c),
         NEW f \in Calls, f = flow[c], FlowOK(f), f.at = "commit", f.kind # "touchid", Current(f),
         CommitInstalled(f), UNCHANGED <<sessionKey, epoch>>, made' \in Nat, made <= made',
         NEW g \in Calls, flow'[c] = g, g.at = "committed", g.changed, g.kind = f.kind,
         g.key = f.key, g.seen = f.seen, g.epoch = f.epoch, g.displaced = f.displaced
  PROVE  FlowOK(flow[c])'
<1>1. Carries(flow[c])'
  BY DEF FlowOK, Carries, Submitted
<1>2. SeenIsSound(flow[c])'
  <2>1. SUFFICES ASSUME f.seen # None
                 PROVE  KnownSound(f.seen)'
    BY DEF SeenIsSound, KnownSound, Known
  <2>2. f.seen \in Installations /\ KnownSound(f.seen)
    BY <2>1 DEF FlowOK, SeenIsSound, Calls
  <2>3. QED  BY <2>2, StaysKnownSound, CommitMixes
<1>3. LeasesKey(flow[c])' /\ FirstRunOnly(flow[c])' /\ RestoresFirst(flow[c])'
  BY DEF FlowOK, LeasesKey, Current, FirstRunOnly, Submitted, RestoresFirst
<1>4. mixed' \/ OpensSeen(flow[c])'
  BY CommitMixes DEF FlowOK, OpensSeen, Submitted
<1>5. mixed' \/ VaultStays(flow[c])'
  <2>1. SUFFICES ASSUME ~mixed', f.kind \in {"setup", "unlock", "recover"}
                 PROVE  installed' # None /\ installed'.vault = f.key
    BY DEF VaultStays, WorksWithVault
  <2>2. installed' # None
    BY FlowsAssumption DEF CommitInstalled
  <2>3. f.kind # "setup" => installed.vault = f.key
    BY <2>1, CommitMixes DEF FlowOK, VaultStays, WorksWithVault, OpensSeen, Submitted, Opens
  <2>4. QED  BY <2>1, <2>2, <2>3 DEF CommitInstalled
<1>6. QED  BY <1>1, <1>2, <1>3, <1>4, <1>5 DEF FlowOK

\* The numbers that are revoked or retired.
LEMMA CommitKeepsHistory ==
  ASSUME IInv, NEW c \in Clients, Commit(c), made' \in Nat, made <= made'
  PROVE  /\ revoked' \subseteq Nat /\ retired' \subseteq Nat
         /\ \A n \in revoked' \cup retired' : Known(n)'
<1>1. /\ revoked' \subseteq revoked \cup {installed.kit.id}
      /\ installed.kit.id \in revoked' => installed.kit.id \in revoked \/ installed.kit # NoKit
      /\ retired' \subseteq retired \cup {installed.cred.password}
      /\ installed = None => Kind(c) \in {"setup", "restore", "restoreKit"}
  BY DEF Commit, MayCommit
<1>2. CASE installed = None
  <2>1. revoked' \subseteq revoked /\ retired' \subseteq retired
    BY <1>1, <1>2 DEF Commit
  <2>2. QED  BY <2>1, KnownGrows DEF IInv, TypeOK, HeldIsSound, Ids
<1>3. CASE installed # None
  <2>1. installed \in Installations /\ KnownSound(installed)
    BY <1>3 DEF IInv, TypeOK, HeldIsSound
  <2>2. /\ installed.cred.password \in Nat /\ Known(installed.cred.password)
        /\ Known(installed.kit.id)
        /\ installed.kit # NoKit => installed.kit.id \in Nat
    BY <2>1, InstallationFields DEF KnownSound
  <2>3. revoked' \subseteq Nat /\ retired' \subseteq Nat
    BY <1>1, <2>2 DEF IInv, TypeOK
  <2>4. ASSUME NEW n \in revoked' \cup retired'
        PROVE  n \in Ids /\ Known(n)
    BY <1>1, <2>2, <2>3, <2>4 DEF IInv, HeldIsSound, Ids
  <2>5. ASSUME NEW n \in revoked' \cup retired'
        PROVE  Known(n)'
    BY <2>4, <2>5, KnownGrows DEF IInv, TypeOK
  <2>6. QED  BY <2>3, <2>5
<1>4. QED  BY <1>2, <1>3

LEMMA CommitKeepsIInv ==
  ASSUME IInv, UNCHANGED scenario, NEW c \in Clients, Commit(c)
  PROVE  IInv'
<1>1. PICK f \in Calls :
        /\ f = flow[c] /\ FlowOK(f) /\ f.at = "commit" /\ f.key \in Nat
        /\ Current(f) /\ ~locking /\ AtHead(c)
        /\ f.kind \in scenario.flows /\ f.kind \in AllFlows \ {"touchid"}
  BY Committing
<1>2. made' \in Nat /\ made <= made'
  <2>1. PICK m : m = made'
    OBVIOUS
  <2>2. QED  BY <2>1, CommitNumbers
<1>3. CommitInstalled(f)
  BY <1>1, CommitInstalls
<1>4. PICK g : g = [f EXCEPT !.at = "committed", !.changed = TRUE]
  OBVIOUS
<1>5. /\ g \in Calls /\ g.at = "committed" /\ g.changed /\ g.kind = f.kind /\ g.key = f.key
      /\ g.seen = f.seen /\ g.epoch = f.epoch /\ g.displaced = f.displaced
  BY <1>1, <1>4 DEF Calls, Stages
<1>6. /\ flow'[c] = g
      /\ \A d \in Clients : d # c => flow'[d] = [flow[d] EXCEPT !.displaced =
           flow[d].displaced \/ (ReplacesVault(c) /\ WorksWithVault(flow[d]))]
      /\ flow' = [d \in Clients |-> flow'[d]]
  <2>1. flow'[c] = [flow[c] EXCEPT !.at = "committed", !.changed = TRUE]
    BY DEF Commit
  <2>2. QED  BY <1>1, <1>4, <2>1 DEF Commit
<1>7. UNCHANGED <<backup, keychain, sessionKey, epoch, locking, queue, before>>
  BY DEF Commit, session
<1>8. installed' # None
  BY <1>3, FlowsAssumption DEF CommitInstalled
<1>9. flow' \in [Clients -> Calls] /\ \A d \in Clients : d # c =>
        flow'[d].at = flow[d].at /\ flow'[d].epoch = flow[d].epoch
  <2>1. ASSUME NEW d \in Clients, d # c
        PROVE  flow'[d] \in Calls /\ flow'[d].at = flow[d].at /\ flow'[d].epoch = flow[d].epoch
    <3>1. PICK h \in Calls : h = flow[d]
      BY DEF IInv, TypeOK
    <3>2. PICK b \in BOOLEAN : b = (h.displaced \/ (ReplacesVault(c) /\ WorksWithVault(h)))
      OBVIOUS
    <3>3. flow'[d] = [h EXCEPT !.displaced = b]
      BY <1>6, <2>1, <3>1, <3>2
    <3>4. QED  BY <3>1, <3>3 DEF Calls
  <2>2. QED  BY <1>5, <1>6, <2>1
<1>10. TypeOK'
  BY <1>2, <1>3, <1>7, <1>9, CommitKeepsHistory, CommitMixes DEF IInv, TypeOK, CommitInstalled
<1>11. KeysMixOnlyByDisplaced' /\ InstalledFirst'
  <2>1. InstalledFirst' /\ (mixed' \/ OneVaultKey')
    BY <1>3, <1>8 DEF CommitInstalled, KnownSound, OneVaultKey, InstalledFirst
  <2>2. mixed' \/ SessionOpensVault'
    BY <1>1, <1>3, <1>7, <1>8, CommitMixes
       DEF CommitInstalled, IInv, KeysMixOnlyByDisplaced, SessionOpensVault, FlowOK, RestoresFirst
  <2>3. mixed' => scenario'.installed = None
    BY <1>1, CommitMixes DEF IInv, KeysMixOnlyByDisplaced, FlowOK, FirstRunOnly
  <2>4. QED  BY <2>1, <2>2, <2>3 DEF KeysMixOnlyByDisplaced
<1>12. HeldIsSound'
  <2>1. ASSUME NEW i \in {installed', backup'} \ {None}
        PROVE  KnownSound(i)'
    <3>1. CASE i = installed'
      BY <1>3, <3>1 DEF CommitInstalled, KnownSound, Sound, Known
    <3>2. CASE i = backup' /\ i # None
      <4>1. i \in Installations /\ KnownSound(i)
        BY <1>7, <3>2 DEF IInv, TypeOK, HeldIsSound
      <4>2. QED  BY <1>2, <4>1, StaysKnownSound, CommitMixes
    <3>3. QED  BY <2>1, <3>1, <3>2
  <2>2. QED  BY <1>2, <2>1, CommitKeepsHistory DEF HeldIsSound
<1>13. EpochsBehind'
  BY <1>1, <1>5, <1>6, <1>7, <1>9 DEF IInv, TypeOK, EpochsBehind, Running, Current
<1>14. CommitsAtHead'
  BY <1>1, <1>7, <1>9 DEF IInv, CommitsAtHead, AtHead
<1>15. FlowOK(flow[c])'
  BY <1>1, <1>2, <1>3, <1>5, <1>6, <1>7, CommitKeepsOwn
<1>16. ASSUME NEW d \in Clients, d # c
       PROVE  FlowOK(flow[d])'
  <2>1. PICK h \in Calls : h = flow[d] /\ FlowOK(h)
    BY DEF IInv, TypeOK
  <2>2. QED  BY <1>1, <1>2, <1>3, <1>7, <1>16, <2>1, CommitKeepsOthers
<1>17. QED  BY <1>10, <1>11, <1>12, <1>13, <1>14, <1>15, <1>16 DEF IInv

-----------------------------------------------------------------------------
(* The theorems.                                                           *)

LEMMA InitIInv ==
  ASSUME Init
  PROVE  IInv
<1> USE DEF Init
<1>1. PICK g : g = NoFlow
  OBVIOUS
<1>2. g \in Calls /\ g.at = "idle" /\ g.seen = None /\ ~g.changed /\ ~g.displaced
  BY <1>1 DEF NoFlow, Calls, Stages, Ids
<1>3. flow = [c \in Clients |-> g]
  BY <1>1
<1>4. installed # None => installed \in Installations /\ Sound(installed)
                          /\ installed.cred.password <= made
                          /\ installed.kit.id \in {None} \cup 0..made
  BY FlowsAssumption
<1>5. made \in Nat
  BY FlowsAssumption
<1>6. TypeOK
  <2>1. keychain \in Ids
    BY <1>4, InstallationFields DEF Ids
  <2>2. installed \in Installations \cup {None} /\ flow \in [Clients -> Calls]
    BY <1>2, <1>3, <1>4
  <2>3. queue \in Seq(Clients)
    OBVIOUS
  <2>4. /\ backup \in Installations \cup {None} /\ sessionKey \in Ids /\ epoch \in Nat
        /\ locking \in BOOLEAN /\ revoked \subseteq Nat /\ retired \subseteq Nat
        /\ before \subseteq Clients /\ scenario \in Scenarios
    BY DEF Ids
  <2>5. QED  BY <1>5, <2>1, <2>2, <2>3, <2>4 DEF TypeOK
<1>7. HeldIsSound
  BY <1>4, <1>5 DEF HeldIsSound, KnownSound, Known
<1>8. \A c \in Clients : FlowOK(flow[c])
  BY <1>2, <1>3, IdleIsOK
<1>9. EpochsBehind /\ CommitsAtHead
  BY <1>2, <1>3 DEF EpochsBehind, CommitsAtHead, Running
<1>10. KeysMixOnlyByDisplaced /\ InstalledFirst
  BY <1>4 DEF KeysMixOnlyByDisplaced, OneVaultKey, SessionOpensVault, InstalledFirst
<1>11. QED  BY <1>6, <1>7, <1>8, <1>9, <1>10 DEF IInv

LEMMA NextKeepsIInv ==
  ASSUME IInv, Next
  PROVE  IInv'
<1>1. UNCHANGED scenario
  BY DEF Next
<1>2. CASE Lock     BY <1>1, <1>2, LockKeepsIInv
<1>3. CASE SignOut  BY <1>1, <1>3, SignOutKeepsIInv
<1>4. CASE Backup   BY <1>1, <1>4, BackupKeepsIInv
<1>5. CASE Crash    BY <1>1, <1>5, CrashKeepsIInv
<1>6. ASSUME NEW c \in Clients, Step(c)
      PROVE  IInv'
  <2>1. CASE \E kind \in scenario.flows : Begin(c, kind)  BY <1>1, <2>1, BeginKeepsIInv
  <2>2. CASE Read(c)            BY <1>1, <2>2, ReadKeepsIInv
  <2>3. CASE RetrieveKey(c)     BY <1>1, <2>3, RetrieveKeyKeepsIInv
  <2>4. CASE OpenVault(c)       BY <1>1, <2>4, OpenVaultKeepsIInv
  <2>5. CASE SubmitChange(c)    BY <1>1, <2>5, SubmitChangeKeepsIInv
  <2>6. CASE SubmitRewrap(c)    BY <1>1, <2>6, SubmitRewrapKeepsIInv
  <2>7. CASE SubmitSetup(c)     BY <1>1, <2>7, SubmitSetupKeepsIInv
  <2>8. CASE \E x \in Snapshots : SubmitRestore(c, x)  BY <1>1, <2>8, SubmitRestoreKeepsIInv
  <2>9. CASE VaultReadFails(c)  BY <1>1, <2>9, VaultReadFailsKeepsIInv
  <2>10. CASE VaultReadOpens(c) BY <1>1, <2>10, VaultReadOpensKeepsIInv
  <2>11. CASE Commit(c)         BY <1>1, <2>11, CommitKeepsIInv
  <2>12. CASE SettleChange(c)   BY <1>1, <2>12, SettleChangeKeepsIInv
  <2>13. CASE SettleUnlock(c)   BY <1>1, <2>13, SettleUnlockKeepsIInv
  <2>14. CASE SettleFirstRun(c) BY <1>1, <2>14, SettleFirstRunKeepsIInv
  <2>15. CASE SettleRestore(c)  BY <1>1, <2>15, SettleRestoreKeepsIInv
  <2>16. CASE Fail(c)           BY <1>1, <2>16, FailKeepsIInv
  <2>17. QED  BY <1>6, <2>1, <2>2, <2>3, <2>4, <2>5, <2>6, <2>7, <2>8, <2>9, <2>10, <2>11,
                 <2>12, <2>13, <2>14, <2>15, <2>16 DEF Step
<1>7. QED  BY <1>2, <1>3, <1>4, <1>5, <1>6 DEF Next

LEMMA StutterKeepsIInv ==
  ASSUME IInv, UNCHANGED vars
  PROVE  IInv'
<1>1. UNCHANGED <<installed, backup, keychain, sessionKey, epoch, locking, queue, flow, made,
                  revoked, retired, before, mixed, scenario>>
  BY DEF vars, disk, session, history, past
<1>2. TypeOK' /\ KeysMixOnlyByDisplaced' /\ InstalledFirst' /\ CommitsAtHead'
  BY <1>1 DEF IInv, TypeOK, KeysMixOnlyByDisplaced, OneVaultKey, Sound, SessionOpensVault,
              InstalledFirst, CommitsAtHead, AtHead
<1>3. EpochsBehind'
  BY <1>1 DEF IInv, EpochsBehind, Running, Current
<1>4. SameGround /\ UNCHANGED past /\ made' \in Nat /\ made <= made'
  BY <1>1 DEF SameGround, past, IInv, TypeOK
<1>5. HeldIsSound'
  BY <1>4, DiskStays
<1>6. ASSUME NEW d \in Clients
      PROVE  FlowOK(flow[d])'
  <2>1. PICK f \in Calls : flow'[d] = f /\ FlowOK(f)
    BY <1>1 DEF IInv, TypeOK
  <2>2. QED  BY <1>4, <2>1, CallStaysOK DEF IInv
<1>7. QED  BY <1>2, <1>3, <1>5, <1>6 DEF IInv

\* The vault, its credentials and its kit hold one key, and an unlocked session the key
\* of the vault on disk, whatever flows, locks, sign-outs and crashes interleave
\* (auth.ts over vaultStorage.ts), until a flow commits whose vault a first-run restore
\* replaced under it; over an installation that does not happen.
THEOREM FlowsSafe == BothSpec => []FlowsInv
<1>1. BothInit => FlowsInv
  BY InitIInv DEF BothInit, FlowsInv
<1>2. FlowsInv /\ [BothNext]_bothVars => FlowsInv'
  <2>1. SUFFICES ASSUME side = "main", side' = side, IInv, Next \/ UNCHANGED vars
                 PROVE  IInv'
    BY DEF FlowsInv, BothNext, bothVars
  <2>2. QED  BY <2>1, NextKeepsIInv, StutterKeepsIInv
<1>3. QED  BY <1>1, <1>2, PTL DEF BothSpec

\* A number that is made now has not been replaced.
LEMMA NewIsNotReplaced ==
  ASSUME IInv, NEW m, m = made + 1, m <= MaxMade
  PROVE  m \notin revoked /\ m \notin retired
BY FlowsAssumption DEF IInv, TypeOK, HeldIsSound, Known

\* What a commit puts in force in the place of the password and the kit.
LEMMA CommitReplaces ==
  ASSUME IInv, NEW c \in Clients, Commit(c)
  PROVE  ReplacedStaysReplaced
<1>1. PICK f \in Calls :
        /\ f = flow[c] /\ FlowOK(f) /\ f.at = "commit" /\ AtHead(c)
        /\ f.seen # None => f.seen \in Installations /\ KnownSound(f.seen)
        /\ f.kind \in AllFlows \ {"touchid"}
  BY Committing
<1>2. PICK m : m = made'
  OBVIOUS
<1>3. installed # None \/ f.kind \in {"setup", "restore", "restoreKit"}
  BY <1>1 DEF Commit, MayCommit, Kind
<1>4. f.kind \in {"change", "rotate", "recover", "restoreKit"} =>
        m \notin revoked /\ m \notin retired
  BY <1>1, <1>2, CommitNumbers, NewIsNotReplaced DEF MakesSecret, Kind
<1>5. f.kind \notin {"setup", "restore", "restoreKit"} => installed \in Installations
  BY <1>3 DEF IInv, TypeOK
<1>6. f.kind = "setup" => revoked = {} /\ retired = {}
  BY <1>1 DEF Commit, MayCommit, Kind, IInv, InstalledFirst
<1>7. f.kind \in {"unlock", "verify"} => f.seen \in Installations
  BY <1>1 DEF FlowOK, Carries, Submitted
<1>8. RevokedKitReturnsOnlyByVerify
  <2>1. SUFFICES ASSUME NEW id \in revoked \cap revoked',
                        installed'.kit.id = id, installed.kit.id # id
                 PROVE  f.kind = "verify" /\ f.seen.kit.id = id
    BY <1>1 DEF RevokedKitReturnsOnlyByVerify, Kind
  <2>2. id # None
    BY FlowsAssumption DEF IInv, TypeOK
  <2>3. CASE f.kind \in {"unlock", "change"}
    <3>1. installed'.kit = installed.kit
      BY <1>1, <1>5, <2>3 DEF Commit, Target, Basis, Kind, Installations
    <3>2. QED  BY <2>1, <3>1
  <2>4. CASE f.kind = "rotate"
    <3>1. installed'.kit.id = m
      BY <1>1, <1>2, <1>5, <2>4 DEF Commit, Target, Basis, Kind, Installations
    <3>2. QED  BY <1>4, <2>1, <2>4, <3>1
  <2>5. CASE f.kind = "recover"
    <3>1. installed'.kit.id = m
      BY <1>1, <1>2, <1>5, <2>5 DEF Commit, Target, Basis, Kind, Installations
    <3>2. QED  BY <1>4, <2>1, <2>5, <3>1
  <2>6. CASE f.kind = "revoke"
    <3>1. installed'.kit.id = None
      BY <1>1, <1>5, <2>6 DEF Commit, Target, Basis, Kind, Installations, NoKit
    <3>2. QED  BY <2>1, <2>2, <3>1
  <2>7. CASE f.kind = "verify"
    <3>1. installed'.kit = f.seen.kit
      BY <1>1, <1>5, <2>7 DEF Commit, Target, Basis, VerifiedKit, Kind, Installations
    <3>2. QED  BY <2>1, <2>7, <3>1
  <2>8. CASE f.kind \in {"restore", "restoreKit"}
    BY <1>1, <2>1, <2>8 DEF Commit, Kind
  <2>9. CASE f.kind = "setup"
    BY <1>6, <2>1, <2>9
  <2>10. QED  BY <1>1, <2>3, <2>4, <2>5, <2>6, <2>7, <2>8, <2>9 DEF AllFlows
<1>9. RetiredPasswordReturnsOnlyByRewrap
  <2>1. SUFFICES ASSUME NEW p \in retired \cap retired',
                        installed'.cred.password = p, installed.cred.password # p
                 PROVE  f.kind = "unlock" /\ f.seen.cred.outdated /\ f.seen.cred.password = p
    BY <1>1 DEF RetiredPasswordReturnsOnlyByRewrap, Kind
  <2>2. CASE f.kind \in {"rotate", "verify", "revoke"}
    <3>1. installed'.cred = installed.cred
      BY <1>1, <1>5, <2>2 DEF Commit, Target, Basis, Kind, Installations
    <3>2. QED  BY <2>1, <3>1
  <2>3. CASE f.kind = "change"
    <3>1. installed'.cred.password = m
      BY <1>1, <1>2, <1>5, <2>3 DEF Commit, Target, Basis, Kind, Installations
    <3>2. QED  BY <1>4, <2>1, <2>3, <3>1
  <2>4. CASE f.kind = "recover"
    <3>1. installed'.cred.password = m
      BY <1>1, <1>2, <1>5, <2>4 DEF Commit, Target, Basis, Kind, Installations
    <3>2. QED  BY <1>4, <2>1, <2>4, <3>1
  <2>5. CASE f.kind = "restoreKit"
    <3>1. installed'.cred.password = m
      BY <1>1, <1>2, <2>5 DEF Commit, Target, Kind
    <3>2. QED  BY <1>4, <2>1, <2>5, <3>1
  <2>6. CASE f.kind = "unlock"
    <3>1. installed'.cred = [f.seen.cred EXCEPT !.outdated = FALSE]
      BY <1>1, <1>5, <2>6 DEF Commit, Target, Basis, Kind, Installations
    <3>2. f.seen.cred.password = p
      BY <1>7, <2>1, <2>6, <3>1 DEF Installations
    <3>3. QED  BY <1>1, <2>6, <3>2 DEF FlowOK, Carries, Submitted
  <2>7. CASE f.kind = "restore"
    BY <1>1, <2>1, <2>7 DEF Commit, Kind
  <2>8. CASE f.kind = "setup"
    BY <1>6, <2>1, <2>8
  <2>9. QED  BY <1>1, <2>2, <2>3, <2>4, <2>5, <2>6, <2>7, <2>8 DEF AllFlows
<1>10. QED  BY <1>8, <1>9 DEF ReplacedStaysReplaced

\* Only a commit installs anything.
LEMMA OnlyCommitsInstall ==
  ASSUME Next \/ UNCHANGED vars, \A c \in Clients : ~Commit(c)
  PROVE  installed' = installed
<1>1. CASE UNCHANGED vars             BY <1>1 DEF vars, disk
<1>2. CASE Lock \/ SignOut \/ Backup \/ Crash  BY <1>2 DEF Lock, SignOut, Backup, Crash, disk
<1>3. ASSUME NEW c \in Clients, Step(c)
      PROVE  installed' = installed
  BY <1>3 DEF Step, Begin, Read, RetrieveKey, OpenVault, SubmitChange, SubmitRewrap, SubmitSetup,
     SubmitRestore, Submit, VaultReadFails, VaultReadOpens, SettleChange, SettleUnlock,
     SettleFirstRun, SettleRestore, Fail, disk
<1>4. QED  BY <1>1, <1>2, <1>3 DEF Next

\* A revoked kit comes back only through a verification that had read it (auth.ts:502-525)
\* or a restored backup, and a replaced password only through an unlock that had read it
\* with outdated parameters (auth.ts:334-362).
THEOREM FlowsReplaceForGood == BothSpec => FlowsReplaced
<1>1. FlowsInv /\ [BothNext]_bothVars => [side = "main" => ReplacedStaysReplaced]_bothVars
  <2>1. SUFFICES ASSUME side = "main", IInv, Next \/ UNCHANGED vars
                 PROVE  ReplacedStaysReplaced
    BY DEF FlowsInv, BothNext, bothVars
  <2>2. CASE \E c \in Clients : Commit(c)
    BY <2>1, <2>2, CommitReplaces
  <2>3. CASE \A c \in Clients : ~Commit(c)
    <3>1. installed' = installed
      BY <2>1, <2>3, OnlyCommitsInstall
    <3>2. QED  BY <3>1 DEF ReplacedStaysReplaced, RevokedKitReturnsOnlyByVerify,
                           RetiredPasswordReturnsOnlyByRewrap
  <2>4. QED  BY <2>2, <2>3
<1>2. QED  BY <1>1, FlowsSafe, PTL DEF BothSpec, FlowsReplaced

-----------------------------------------------------------------------------
(* What a call answers.                                                    *)

\* The answer that a step gives a call, and what it does to the Keychain for it.
HoldsFor(c) ==
  /\ c \in before /\ keychain = None => keychain' = None
  /\ Running(c) /\ flow'[c].at = "idle" =>
       /\ flow'[c].answer = "failed" /\ flow[c].changed =>
            flow[c].epoch # epoch \/ flow[c].at = "vault"
       /\ flow'[c].answer = "success" /\ Kind(c) \notin {"unlock", "touchid"} => flow[c].changed

LEMMA AnswerGives ==
  ASSUME TypeOK, NEW c \in Clients, NEW result \in {"success", "failed"}, Answer(c, result)
  PROVE  flow'[c].answer = result
<1>1. flow'[c] = Ended(result)
  BY DEF Answer, Ended, TypeOK
<1>2. QED  BY <1>1, EndedIsCall

\* A step of a call leaves the others where they are; a commit may displace them.
LEMMA OnlyItsOwn ==
  ASSUME TypeOK, NEW c \in Clients, Step(c), NEW d \in Clients, d # c
  PROVE  flow'[d].at = flow[d].at /\ (flow'[d] = flow[d] \/ keychain' = keychain)
<1>1. CASE \/ \E kind \in scenario.flows : Begin(c, kind)
           \/ Read(c) \/ RetrieveKey(c) \/ OpenVault(c)
  BY <1>1 DEF Begin, Read, RetrieveKey, OpenVault, TypeOK
<1>2. CASE \/ SubmitChange(c) \/ SubmitRewrap(c) \/ SubmitSetup(c)
           \/ \E s \in Snapshots : SubmitRestore(c, s)
  BY <1>2 DEF SubmitChange, SubmitRewrap, SubmitSetup, SubmitRestore, Submit, TypeOK
<1>3. CASE VaultReadFails(c) \/ Fail(c) \/ SettleChange(c) \/ SettleRestore(c)
  BY <1>3 DEF VaultReadFails, Fail, SettleChange, SettleRestore, Answer, TypeOK
<1>4. CASE VaultReadOpens(c) \/ SettleUnlock(c) \/ SettleFirstRun(c)
  BY <1>4 DEF VaultReadOpens, SettleUnlock, SettleFirstRun, FailOvertaken, SucceedUnlocked,
    Advance, Answer, TypeOK
<1>5. CASE Commit(c)
  <2>1. PICK h \in Calls : h = flow[d]
    BY DEF TypeOK
  <2>2. keychain' = keychain /\ \E b : flow'[d] = [h EXCEPT !.displaced = b]
    BY <1>5, <2>1 DEF Commit
  <2>3. QED  BY <2>1, <2>2 DEF Calls
<1>6. QED  BY <1>1, <1>2, <1>3, <1>4, <1>5 DEF Step

\* A call that goes on, from the first line to the commit.
LEMMA GoingOnHolds ==
  ASSUME IInv, NEW c \in Clients,
         \/ \E kind \in scenario.flows : Begin(c, kind)
         \/ Read(c) \/ RetrieveKey(c) \/ OpenVault(c)
         \/ SubmitChange(c) \/ SubmitRewrap(c) \/ SubmitSetup(c)
         \/ \E s \in Snapshots : SubmitRestore(c, s)
         \/ Commit(c)
  PROVE  HoldsFor(c)
<1> USE DEF HoldsFor, IInv, TypeOK, Calls, disk
<1>1. CASE \E kind \in scenario.flows : Begin(c, kind)  BY <1>1 DEF Begin
<1>2. CASE Read(c)          BY <1>2 DEF Read
<1>3. CASE RetrieveKey(c)   BY <1>3 DEF RetrieveKey
<1>4. CASE OpenVault(c)     BY <1>4 DEF OpenVault
<1>5. CASE SubmitChange(c) \/ SubmitRewrap(c) \/ SubmitSetup(c)
           \/ \E s \in Snapshots : SubmitRestore(c, s)
  <2>1. \E k, s : Submit(c, k, s)
    BY <1>5 DEF SubmitChange, SubmitRewrap, SubmitSetup, SubmitRestore
  <2>2. flow'[c].at = "commit" /\ keychain' = keychain
    BY <2>1 DEF Submit
  <2>3. QED  BY <2>2
<1>6. CASE Commit(c)        BY <1>6, ZenonT(60) DEF Commit
<1>7. QED  BY <1>1, <1>2, <1>3, <1>4, <1>5, <1>6

\* A call that a boundary overtook fails, and stores nothing.
LEMMA OvertakenHolds ==
  ASSUME IInv, NEW c \in Clients, Running(c), ~AssertCurrent(c), FailOvertaken(c)
  PROVE  HoldsFor(c)
<1>1. flow'[c].answer = "failed" /\ keychain' = keychain
  BY AnswerGives DEF FailOvertaken, IInv
<1>2. flow[c].epoch # epoch
  BY OvertakenIsOld DEF Current
<1>3. QED  BY <1>1, <1>2 DEF HoldsFor

\* One that runs in its session may succeed, with the change made if it makes one.
LEMMA SucceededHolds ==
  ASSUME IInv, NEW c \in Clients, AssertCurrent(c), Answer(c, "success"),
         Kind(c) \in {"unlock", "touchid"} \/ flow[c].changed
  PROVE  HoldsFor(c)
<1>1. c \notin before
  BY DEF IInv, EpochsBehind, AssertCurrent, TypeOK
<1>2. flow'[c].answer = "success"
  BY AnswerGives DEF IInv
<1>3. QED  BY <1>1, <1>2 DEF HoldsFor

LEMMA EndingHolds ==
  ASSUME IInv, NEW c \in Clients,
         \/ Fail(c) \/ VaultReadFails(c) \/ VaultReadOpens(c) \/ SettleChange(c)
         \/ SettleUnlock(c) \/ SettleFirstRun(c) \/ SettleRestore(c)
  PROVE  HoldsFor(c)
<1>1. PICK f \in Calls : f = flow[c] /\ FlowOK(f)
  BY DEF IInv, TypeOK
<1>2. f.changed <=> f.at = "committed" \/ (f.at = "vault" /\ f.kind = "restoreKit")
  BY <1>1 DEF FlowOK, Carries
<1>3. CASE Fail(c)
  <2>1. flow'[c].answer = "failed" /\ ~flow[c].changed /\ keychain' = keychain
    BY <1>1, <1>2, <1>3, AnswerGives DEF Fail, IInv, disk
  <2>2. QED  BY <2>1 DEF HoldsFor
<1>4. CASE VaultReadFails(c)
  <2>1. flow'[c].answer = "failed" /\ flow[c].at = "vault" /\ keychain' \in {None, keychain}
    BY <1>4, AnswerGives DEF VaultReadFails, IInv
  <2>2. QED  BY <2>1 DEF HoldsFor
<1>5. CASE VaultReadOpens(c)
  <2>1. f.at = "vault" /\ f.kind \in {"unlock", "touchid", "recover", "restoreKit"} /\ Running(c)
    BY <1>1, <1>5 DEF VaultReadOpens, FlowOK, Carries, Running
  <2>2. CASE ~AssertCurrent(c)
    BY <1>5, <2>1, <2>2, OvertakenHolds DEF VaultReadOpens
  <2>3. CASE AssertCurrent(c) /\ Advance(c, "opened") /\ UNCHANGED keychain
    BY <2>3 DEF Advance, HoldsFor, IInv, TypeOK, Calls
  <2>4. CASE AssertCurrent(c) /\ Answer(c, "success") /\ f.kind # "recover"
    BY <1>1, <1>2, <2>1, <2>4, SucceededHolds DEF Kind
  <2>5. QED  BY <1>1, <1>5, <2>2, <2>3, <2>4 DEF VaultReadOpens, SucceedUnlocked, Kind
<1>6. CASE SettleChange(c)
  <2>1. /\ flow'[c].answer = "success" /\ flow[c].changed
        /\ keychain' = keychain \/ AssertCurrent(c)
    BY <1>1, <1>2, <1>6, AnswerGives DEF SettleChange, KeyToStore, IInv
  <2>2. AssertCurrent(c) => c \notin before
    BY DEF IInv, EpochsBehind, AssertCurrent, TypeOK
  <2>3. QED  BY <2>1, <2>2 DEF HoldsFor
<1>7. CASE SettleUnlock(c)
  <2>1. f.at = "committed" /\ f.changed /\ Running(c)
    BY <1>1, <1>2, <1>7 DEF SettleUnlock, Running
  <2>2. CASE AssertCurrent(c)
    BY <1>1, <1>7, <2>1, <2>2, SucceededHolds DEF SettleUnlock, SucceedUnlocked
  <2>3. CASE ~AssertCurrent(c)
    BY <1>7, <2>1, <2>3, OvertakenHolds DEF SettleUnlock
  <2>4. QED  BY <2>2, <2>3
<1>8. CASE SettleFirstRun(c)
  <2>1. CASE AssertCurrent(c)
    BY <1>8, <2>1 DEF SettleFirstRun, Advance, HoldsFor, IInv, TypeOK, Calls
  <2>2. CASE ~AssertCurrent(c)
    BY <1>8, <2>2, OvertakenHolds DEF SettleFirstRun, Running
  <2>3. QED  BY <2>1, <2>2
<1>9. CASE SettleRestore(c)
  <2>1. flow'[c].answer = "success" /\ flow[c].changed /\ keychain' = None
    BY <1>1, <1>2, <1>9, AnswerGives DEF SettleRestore, IInv
  <2>2. QED  BY <2>1 DEF HoldsFor
<1>10. QED  BY <1>3, <1>4, <1>5, <1>6, <1>7, <1>8, <1>9

\* After a sign-out no flow that was running puts the key back into the Keychain
\* (auth.ts:408-410), and what a flow reports is what it did.
THEOREM FlowsAnswerTruly == BothSpec => FlowsAnswer
<1>1. FlowsInv /\ [BothNext]_bothVars => [side = "main" => AnswersHold]_bothVars
  <2>1. SUFFICES ASSUME side = "main", IInv, Next \/ UNCHANGED vars
                 PROVE  AnswersHold
    BY DEF FlowsInv, BothNext, bothVars
  <2>2. CASE flow' = flow
    BY <2>1, <2>2 DEF AnswersHold, SignedOutStaysOut, ReportsWhatItDid, Running, IInv, TypeOK
  <2>3. CASE Crash
    BY <2>3 DEF Crash, disk, AnswersHold, SignedOutStaysOut, ReportsWhatItDid
  <2>4. ASSUME NEW c \in Clients, Step(c)
        PROVE  AnswersHold
    <3>1. HoldsFor(c)
      BY <2>1, <2>4, GoingOnHolds, EndingHolds DEF Step
    <3>2. \A d \in Clients : d # c =>
            flow'[d].at = flow[d].at /\ (flow'[d] = flow[d] \/ keychain' = keychain)
      BY <2>1, <2>4, OnlyItsOwn DEF IInv
    <3>3. SignedOutStaysOut
      BY <2>1, <3>1, <3>2 DEF SignedOutStaysOut, HoldsFor, IInv, TypeOK
    <3>4. ReportsWhatItDid
      BY <3>1, <3>2 DEF ReportsWhatItDid, HoldsFor, Running
    <3>5. QED  BY <3>3, <3>4 DEF AnswersHold
  <2>5. QED  BY <2>1, <2>2, <2>3, <2>4 DEF Next, Lock, SignOut, Backup, vars
<1>2. QED  BY <1>1, FlowsSafe, PTL DEF BothSpec, FlowsAnswer

-----------------------------------------------------------------------------
(* The renderer beside the session of the main process: RendererSession.   *)
(* A channel is a sequence, whose first is taken and to whose end is said. *)

LEMMA ListsItself ==
  ASSUME NEW S, NEW s \in Seq(S)
  PROVE  R!IsSequence(s)
BY SeqOfRange DEF R!IsSequence, Range

\* What arrives goes to the end of a channel.
LEMMA SentLast ==
  ASSUME NEW s, R!IsSequence(s), NEW e, NEW t, t = Append(s, e)
  PROVE  /\ R!IsSequence(t) /\ Len(s) \in Nat /\ DOMAIN s = 1..Len(s)
         /\ DOMAIN t = 1..(Len(s) + 1) /\ t[Len(s) + 1] = e
         /\ \A i \in DOMAIN s : i \in DOMAIN t /\ t[i] = s[i]
<1> DEFINE S == {s[i] : i \in DOMAIN s}
<1>1. s \in Seq(S) /\ s \in Seq(S \cup {e})
  BY DEF R!IsSequence
<1>2. /\ Len(s) \in Nat /\ DOMAIN s = 1..Len(s)
      /\ DOMAIN t = 1..(Len(s) + 1) /\ t[Len(s) + 1] = e
      /\ \A i \in DOMAIN s : i \in DOMAIN t /\ t[i] = s[i]
  BY <1>1
<1>3. t \in Seq(S \cup {e}) /\ Len(t) = Len(s) + 1
  BY <1>1
<1>4. QED  BY <1>2, <1>3, ListsItself

\* What is taken comes from its front.
LEMMA TakenFirst ==
  ASSUME NEW s, R!IsSequence(s), s # <<>>, NEW t, t = Tail(s)
  PROVE  /\ R!IsSequence(t) /\ Len(s) \in Nat \ {0} /\ DOMAIN s = 1..Len(s)
         /\ DOMAIN t = 1..(Len(s) - 1)
         /\ 1 \in DOMAIN s /\ Head(s) = s[1]
         /\ \A i \in DOMAIN t : i + 1 \in DOMAIN s /\ t[i] = s[i + 1]
<1> DEFINE S == {s[i] : i \in DOMAIN s}
<1>1. s \in Seq(S)
  BY DEF R!IsSequence
<1>2. /\ Len(s) \in Nat \ {0} /\ DOMAIN s = 1..Len(s)
      /\ DOMAIN t = 1..(Len(s) - 1)
      /\ 1 \in DOMAIN s /\ Head(s) = s[1]
      /\ \A i \in DOMAIN t : i + 1 \in DOMAIN s /\ t[i] = s[i + 1]
  BY <1>1
<1>3. t \in Seq(S) /\ Len(t) = Len(s) - 1
  BY <1>1
<1>4. QED  BY <1>2, <1>3, ListsItself

\* One message is said, or two.
LEMMA SaidLast ==
  ASSUME NEW s, R!IsSequence(s), NEW e
  PROVE  s \o <<e>> = Append(s, e)
<1>1. s \in Seq({s[i] : i \in DOMAIN s} \cup {e})
  BY DEF R!IsSequence
<1>2. QED  BY <1>1

LEMMA SaidBoth ==
  ASSUME NEW s, R!IsSequence(s), NEW d, NEW e
  PROVE  s \o <<d, e>> = Append(Append(s, d), e)
<1> DEFINE S == {s[i] : i \in DOMAIN s} \cup {d, e}
<1>1. s \in Seq(S) /\ d \in S /\ e \in S
  BY DEF R!IsSequence
<1> HIDE DEF S
<1>2. QED  BY <1>1

-----------------------------------------------------------------------------
\* What no step undoes.
Onwards ==
  /\ R!Existing \subseteq R!Existing' /\ revision' \in Nat /\ revision <= revision'
  /\ used'["change"] \in Nat /\ used["change"] <= used'["change"]
  /\ \A c, r : R!Recorded(c, r) => R!Recorded(c, r)'

LEMMA CallStays ==
  ASSUME R!TypeOK, Onwards, NEW c, R!CallOK(c)
  PROVE  R!CallOK(c)'
<1>1. used["change"] \in Nat
  BY DEF R!TypeOK, R!Kinds
<1>2. ASSUME NEW d, R!ChangeOK(d)
      PROVE  R!ChangeOK(d)'
  BY <1>1, <1>2 DEF R!ChangeOK, Onwards
<1>3. QED  BY <1>2 DEF R!CallOK

LEMMA HandlerStays ==
  ASSUME R!TypeOK, Onwards, NEW h, R!HandlerOK(h)
  PROVE  R!HandlerOK(h)'
<1>1. used["change"] \in Nat /\ revision \in Nat
  BY DEF R!TypeOK, R!Kinds
<1>2. ASSUME NEW d, R!ChangeOK(d)
      PROVE  R!ChangeOK(d)'
  BY <1>1, <1>2 DEF R!ChangeOK, Onwards
<1>3. h.at = "read" => h.result \in R!Collections /\ h.result.active \in R!Existing'
                       /\ h.result.revision <= revision'
  BY <1>1 DEF R!HandlerOK, Onwards, R!Collections
<1>4. \A c, r : R!Recorded(c, r) => R!Recorded(c, r)'
  BY DEF Onwards
<1>5. QED  BY <1>2, <1>3, <1>4 DEF R!HandlerOK

LEMMA MessageStays ==
  ASSUME R!TypeOK, Onwards, NEW m, R!MessageOK(m)
  PROVE  R!MessageOK(m)'
<1>1. revision \in Nat
  BY DEF R!TypeOK
<1>2. m.kind \in {"list", "change"} => m.call.kind = m.kind /\ R!CallOK(m.call)'
  BY CallStays DEF R!MessageOK
<1>3. R!BringsList(m) => m.coll \in R!Collections /\ m.coll.revision <= revision'
  BY <1>1 DEF R!MessageOK, Onwards, R!Collections
<1>4. \A c, r : R!Recorded(c, r) => R!Recorded(c, r)'
  BY DEF Onwards
<1>5. QED  BY <1>2, <1>3, <1>4 DEF R!MessageOK, R!BringsList

\* A channel keeps what it had, and loses its first or gains a last.
LEMMA InboxStays ==
  ASSUME R!TypeOK, R!InboxOK, Onwards,
         \/ inbox' = inbox
         \/ inbox # <<>> /\ inbox' = Tail(inbox)
         \/ \E e : inbox' = Append(inbox, e) /\ R!CallOK(e)'
  PROVE  R!IsSequence(inbox)' /\ R!InboxOK'
<1>1. \A c : R!CallOK(c) => R!CallOK(c)'
  BY CallStays
<1>2. R!IsSequence(inbox)
  BY DEF R!TypeOK
<1>3. CASE inbox' = inbox
  BY <1>1, <1>2, <1>3 DEF R!InboxOK, R!IsSequence
<1>4. CASE inbox # <<>> /\ inbox' = Tail(inbox)
  <2>1. R!IsSequence(inbox)'
    BY <1>2, <1>4, TakenFirst
  <2>2. \A i \in DOMAIN inbox' : i + 1 \in DOMAIN inbox /\ inbox'[i] = inbox[i + 1]
    BY <1>2, <1>4, TakenFirst
  <2>3. QED  BY <1>1, <2>1, <2>2 DEF R!InboxOK
<1>5. ASSUME NEW e, inbox' = Append(inbox, e), R!CallOK(e)'
      PROVE  R!IsSequence(inbox)' /\ R!InboxOK'
  <2>1. R!IsSequence(inbox)'
    BY <1>2, <1>5, SentLast DEF R!IsSequence
  <2>2. \A i \in DOMAIN inbox' : (i \in DOMAIN inbox /\ inbox'[i] = inbox[i]) \/ inbox'[i] = e
    BY <1>2, <1>5, SentLast
  <2>3. QED  BY <1>1, <1>5, <2>1, <2>2 DEF R!InboxOK
<1>6. QED  BY <1>3, <1>4, <1>5

LEMMA WireStays ==
  ASSUME R!TypeOK, R!WireOK, Onwards,
         \/ wire' = wire
         \/ wire # <<>> /\ wire' = Tail(wire)
         \/ \E e : R!Says(<<e>>) /\ R!MessageOK(e)'
         \/ \E d, e : R!Says(<<d, e>>) /\ R!MessageOK(d)' /\ R!MessageOK(e)'
  PROVE  R!IsSequence(wire)' /\ R!WireOK'
<1>1. \A c : R!MessageOK(c) => R!MessageOK(c)'
  BY MessageStays
<1>2. R!IsSequence(wire)
  BY DEF R!TypeOK
<1>3. CASE wire' = wire
  BY <1>1, <1>2, <1>3 DEF R!WireOK, R!IsSequence
<1>4. CASE wire # <<>> /\ wire' = Tail(wire)
  <2>1. R!IsSequence(wire)'
    BY <1>2, <1>4, TakenFirst
  <2>2. \A i \in DOMAIN wire' : i + 1 \in DOMAIN wire /\ wire'[i] = wire[i + 1]
    BY <1>2, <1>4, TakenFirst
  <2>3. QED  BY <1>1, <2>1, <2>2 DEF R!WireOK
<1>5. ASSUME NEW e, R!Says(<<e>>), R!MessageOK(e)'
      PROVE  R!IsSequence(wire)' /\ R!WireOK'
  <2>0. wire' = Append(wire, e)
    BY <1>2, <1>5, SaidLast DEF R!Says
  <2>1. R!IsSequence(wire)'
    BY <1>2, <2>0, SentLast DEF R!IsSequence
  <2>2. \A i \in DOMAIN wire' : (i \in DOMAIN wire /\ wire'[i] = wire[i]) \/ wire'[i] = e
    BY <1>2, <2>0, SentLast
  <2>3. QED  BY <1>1, <1>5, <2>1, <2>2 DEF R!WireOK
<1>6. ASSUME NEW d, NEW e, R!Says(<<d, e>>), R!MessageOK(d)', R!MessageOK(e)'
      PROVE  R!IsSequence(wire)' /\ R!WireOK'
  <2>s. PICK s : s = Append(wire, d)
    OBVIOUS
  <2>0. wire' = Append(s, e)
    BY <1>2, <2>s, <1>6, SaidBoth DEF R!Says
  <2>1. R!IsSequence(s)
    BY <1>2, <2>s, SentLast
  <2>2. \A i \in DOMAIN s : (i \in DOMAIN wire /\ s[i] = wire[i]) \/ s[i] = d
    BY <1>2, <2>s, SentLast
  <2>3. R!IsSequence(wire)'
    BY <2>0, <2>1, SentLast
  <2>4. \A i \in DOMAIN wire' : (i \in DOMAIN s /\ wire'[i] = s[i]) \/ wire'[i] = e
    BY <2>0, <2>1, SentLast
  <2>5. QED  BY <1>1, <1>6, <2>2, <2>3, <2>4 DEF R!WireOK
<1>7. QED  BY <1>3, <1>4, <1>5, <1>6

-----------------------------------------------------------------------------
\* The list that is shown comes before those that are on their way.
LEMMA ListsStay ==
  ASSUME R!TypeOK, R!ListsInOrder, Onwards, wire' = wire, coll' = coll \/ coll' = None
  PROVE  R!ListsInOrder'
<1>1. revision \in Nat /\ (coll # None => coll \in R!Collections)
  BY DEF R!TypeOK
<1>2. coll # None => coll.revision \in Nat
  BY <1>1 DEF R!Collections
<1>3. coll' # None => coll'.revision <= revision'
  BY <1>1, <1>2 DEF R!ListsInOrder, Onwards
<1>4. QED  BY <1>3 DEF R!ListsInOrder

LEMMA ListsTaken ==
  ASSUME R!TypeOK, R!ListsInOrder, R!WireOK, wire # <<>>, wire' = Tail(wire),
         revision' = revision,
         coll' = coll \/ coll' = None \/ (R!BringsList(R!Message) /\ coll' = R!Message.coll)
  PROVE  R!ListsInOrder'
<1>1. /\ 1 \in DOMAIN wire /\ R!Message = wire[1]
      /\ \A i \in DOMAIN wire' :
              i \in Nat \ {0} /\ i + 1 \in DOMAIN wire /\ wire'[i] = wire[i + 1]
  BY TakenFirst DEF R!TypeOK, R!Message
<1>2. \A i, j \in DOMAIN wire' :
        i < j /\ R!BringsList(wire'[i]) /\ R!InOrder(wire'[j]) =>
          wire'[i].coll.revision <= wire'[j].coll.revision
  <2>1. SUFFICES ASSUME NEW i \in DOMAIN wire', NEW j \in DOMAIN wire', i < j,
                        R!BringsList(wire'[i]), R!InOrder(wire'[j])
                 PROVE  wire'[i].coll.revision <= wire'[j].coll.revision
    OBVIOUS
  <2>2. i + 1 \in DOMAIN wire /\ j + 1 \in DOMAIN wire /\ i + 1 < j + 1
    BY <1>1, <2>1
  <2>3. R!BringsList(wire[i + 1]) /\ R!InOrder(wire[j + 1])
    BY <1>1, <2>1
  <2>4. QED  BY <1>1, <2>2, <2>3 DEF R!ListsInOrder
<1>3. coll' # None => coll'.revision <= revision'
  BY <1>1 DEF R!ListsInOrder, R!WireOK, R!MessageOK
<1>4. ASSUME NEW i \in DOMAIN wire', coll' # None, R!InOrder(wire'[i])
      PROVE  coll'.revision <= wire'[i].coll.revision
  <2>1. i + 1 \in DOMAIN wire /\ 1 < i + 1 /\ R!InOrder(wire[i + 1]) /\ wire'[i] = wire[i + 1]
    BY <1>1, <1>4
  <2>2. CASE coll' = coll
    BY <1>4, <2>1, <2>2 DEF R!ListsInOrder
  <2>3. CASE R!BringsList(R!Message) /\ coll' = R!Message.coll
    BY <1>1, <2>1, <2>3 DEF R!ListsInOrder
  <2>4. QED  BY <1>4, <2>2, <2>3
<1>5. QED  BY <1>2, <1>3, <1>4 DEF R!ListsInOrder

LEMMA ListsSaid ==
  ASSUME R!TypeOK, R!ListsInOrder, R!WireOK, Onwards, coll' = coll,
         NEW e, R!Says(<<e>>) \/ (\E d : ~R!BringsList(d) /\ R!Says(<<d, e>>)),
         R!BringsList(e) => e.coll.revision \in Nat /\ e.coll.revision <= revision',
         R!InOrder(e) => e.coll.revision = revision'
  PROVE  R!ListsInOrder'
<1>1. PICK n \in Nat : /\ n + 1 \in DOMAIN wire' /\ wire'[n + 1] = e
                       /\ \A i \in DOMAIN wire' : i \in 1..(n + 1)
                       /\ \A i \in DOMAIN wire' : i <= n =>
                            ~R!BringsList(wire'[i]) \/ (i \in DOMAIN wire /\ wire'[i] = wire[i])
  <2>0. R!IsSequence(wire)
    BY DEF R!TypeOK
  <2>1. CASE R!Says(<<e>>)
    <3>1. wire' = Append(wire, e)
      BY <2>0, <2>1, SaidLast DEF R!Says
    <3>2. /\ Len(wire) \in Nat /\ DOMAIN wire = 1..Len(wire)
          /\ DOMAIN wire' = 1..(Len(wire) + 1) /\ wire'[Len(wire) + 1] = e
          /\ \A i \in DOMAIN wire : wire'[i] = wire[i]
      BY <2>0, <3>1, SentLast
    <3>3. QED  BY <3>2
  <2>2. ASSUME NEW d, ~R!BringsList(d), R!Says(<<d, e>>)
        PROVE  \E n \in Nat :
                 /\ n + 1 \in DOMAIN wire' /\ wire'[n + 1] = e
                 /\ \A i \in DOMAIN wire' : i \in 1..(n + 1)
                 /\ \A i \in DOMAIN wire' : i <= n =>
                      ~R!BringsList(wire'[i]) \/ (i \in DOMAIN wire /\ wire'[i] = wire[i])
    <3>0. PICK s : s = Append(wire, d)
      OBVIOUS
    <3>1. wire' = Append(s, e)
      BY <2>0, <2>2, <3>0, SaidBoth DEF R!Says
    <3>2. R!IsSequence(s)
      BY <2>0, <3>0, SentLast
    <3>3. /\ Len(wire) \in Nat /\ DOMAIN wire = 1..Len(wire)
          /\ DOMAIN s = 1..(Len(wire) + 1) /\ s[Len(wire) + 1] = d
          /\ \A i \in DOMAIN wire : s[i] = wire[i]
      BY <2>0, <3>0, SentLast
    <3>4. /\ Len(s) \in Nat /\ DOMAIN s = 1..Len(s)
          /\ DOMAIN wire' = 1..(Len(s) + 1) /\ wire'[Len(s) + 1] = e
          /\ \A i \in DOMAIN s : wire'[i] = s[i]
      BY <3>1, <3>2, SentLast
    <3>5. \A i \in DOMAIN s : ~R!BringsList(s[i]) \/ (i \in DOMAIN wire /\ s[i] = wire[i])
      BY <2>2, <3>3
    <3>6. QED  BY <3>4, <3>5
  <2>3. QED  BY <2>1, <2>2
<1>2. revision \in Nat /\ (coll # None => coll \in R!Collections)
  BY DEF R!TypeOK
<1>3. /\ \A i \in DOMAIN wire : R!BringsList(wire[i]) => wire[i].coll.revision \in Nat
                                                       /\ wire[i].coll.revision <= revision
      /\ coll # None => coll.revision \in Nat
  BY <1>2 DEF R!WireOK, R!MessageOK, R!Collections
<1>4. ASSUME NEW i \in DOMAIN wire', NEW j \in DOMAIN wire', i < j,
             R!BringsList(wire'[i]), R!InOrder(wire'[j])
      PROVE  wire'[i].coll.revision <= wire'[j].coll.revision
  <2>1. i <= n /\ i \in DOMAIN wire /\ wire'[i] = wire[i]
    BY <1>1, <1>4
  <2>2. CASE j <= n
    <3>1. j \in DOMAIN wire /\ wire'[j] = wire[j]
      BY <1>1, <1>4, <2>2 DEF R!InOrder, R!Refreshes
    <3>2. QED  BY <1>4, <2>1, <3>1 DEF R!ListsInOrder
  <2>3. CASE j = n + 1
    BY <1>1, <1>2, <1>3, <1>4, <2>1, <2>3 DEF Onwards
  <2>4. QED  BY <1>1, <2>2, <2>3
<1>5. ASSUME coll' # None
      PROVE  coll'.revision <= revision'
  BY <1>2, <1>3, <1>5 DEF R!ListsInOrder, Onwards
<1>6. ASSUME NEW i \in DOMAIN wire', coll' # None, R!InOrder(wire'[i])
      PROVE  coll'.revision <= wire'[i].coll.revision
  <2>1. CASE i <= n
    BY <1>1, <1>6, <2>1 DEF R!ListsInOrder, R!InOrder, R!Refreshes
  <2>2. CASE i = n + 1
    BY <1>1, <1>5, <1>6, <2>2
  <2>3. QED  BY <1>1, <2>1, <2>2
<1>7. QED  BY <1>4, <1>5, <1>6 DEF R!ListsInOrder

\* A message that brings no list does not matter to them.
LEMMA ListsSaidNone ==
  ASSUME R!TypeOK, R!ListsInOrder, R!WireOK, Onwards, coll' = coll,
         NEW e, ~R!BringsList(e), R!Says(<<e>>) \/ (\E d : ~R!BringsList(d) /\ R!Says(<<d, e>>))
  PROVE  R!ListsInOrder'
BY ListsSaid DEF R!InOrder, R!Refreshes

-----------------------------------------------------------------------------
\* A change of the collection that is asked for is in one place.
LEMMA PlaceLeft ==
  ASSUME NEW calls, R!IsSequence(calls), calls # <<>>, NEW answers, NEW handlers, NEW done, NEW n,
         R!InOnePlace(calls, answers, handlers, done, n)
  PROVE  /\ R!InOnePlace(Tail(calls), answers, handlers, done, n)
         /\ R!Asks(Head(calls), n) => R!Nowhere(Tail(calls), answers, handlers, done, n)
<1>0. PICK rest : rest = Tail(calls)
  OBVIOUS
<1>1. /\ 1 \in DOMAIN calls /\ Head(calls) = calls[1]
      /\ \A i \in DOMAIN rest :
              i \in Nat \ {0} /\ i + 1 \in DOMAIN calls /\ rest[i] = calls[i + 1]
  BY <1>0, TakenFirst
<1>2. \A i, j \in DOMAIN rest : R!Asks(rest[i], n) /\ R!Asks(rest[j], n) => i = j
  BY <1>1 DEF R!InOnePlace
<1>3. \A i \in DOMAIN rest : R!Asks(rest[i], n) => R!Nowhere(<<>>, answers, handlers, done, n)
  BY <1>1 DEF R!InOnePlace
<1>4. R!InOnePlace(rest, answers, handlers, done, n)
  BY <1>2, <1>3 DEF R!InOnePlace
<1>5. ASSUME R!Asks(Head(calls), n)
      PROVE  R!Nowhere(rest, answers, handlers, done, n)
  <2>1. R!Nowhere(<<>>, answers, handlers, done, n)
    BY <1>1, <1>5 DEF R!InOnePlace
  <2>2. \A i \in DOMAIN rest : ~R!Asks(rest[i], n)
    <3>1. ASSUME NEW i \in DOMAIN rest, R!Asks(rest[i], n)
          PROVE  FALSE
      <4>1. i + 1 = 1
        BY <1>1, <1>5, <3>1 DEF R!InOnePlace
      <4>2. QED  BY <1>1, <4>1
    <3>2. QED  BY <3>1
  <2>3. QED  BY <2>1, <2>2 DEF R!Nowhere
<1>6. QED  BY <1>0, <1>4, <1>5

LEMMA AnswerLeft ==
  ASSUME NEW calls, NEW answers, R!IsSequence(answers), answers # <<>>, NEW handlers, NEW done,
         NEW n, R!InOnePlace(calls, answers, handlers, done, n)
  PROVE  /\ R!InOnePlace(calls, Tail(answers), handlers, done, n)
         /\ R!Tells(Head(answers), n) => R!Nowhere(calls, Tail(answers), handlers, done, n)
<1>0. PICK rest : rest = Tail(answers)
  OBVIOUS
<1>1. /\ 1 \in DOMAIN answers /\ Head(answers) = answers[1]
      /\ \A i \in DOMAIN rest :
           i \in Nat \ {0} /\ i + 1 \in DOMAIN answers /\ rest[i] = answers[i + 1]
  BY <1>0, TakenFirst
<1>2. \A i, j \in DOMAIN rest : R!Tells(rest[i], n) /\ R!Tells(rest[j], n) => i = j
  BY <1>1 DEF R!InOnePlace
<1>3. \A i \in DOMAIN calls : R!Asks(calls[i], n) => R!Nowhere(<<>>, rest, handlers, done, n)
  BY <1>1 DEF R!InOnePlace, R!Nowhere
<1>4. \A i \in DOMAIN rest : R!Tells(rest[i], n) => R!Nowhere(<<>>, <<>>, handlers, done, n)
  BY <1>1 DEF R!InOnePlace
<1>5. R!InOnePlace(calls, rest, handlers, done, n)
  BY <1>2, <1>3, <1>4 DEF R!InOnePlace
<1>6. ASSUME R!Tells(Head(answers), n)
      PROVE  R!Nowhere(calls, rest, handlers, done, n)
  <2>1. R!Nowhere(<<>>, <<>>, handlers, done, n)
    BY <1>1, <1>6 DEF R!InOnePlace
  <2>2. \A i \in DOMAIN rest : ~R!Tells(rest[i], n)
    <3>1. ASSUME NEW i \in DOMAIN rest, R!Tells(rest[i], n)
          PROVE  FALSE
      <4>1. i + 1 = 1
        BY <1>1, <1>6, <3>1 DEF R!InOnePlace
      <4>2. QED  BY <1>1, <4>1
    <3>2. QED  BY <3>1
  <2>3. \A i \in DOMAIN calls : ~R!Asks(calls[i], n)
    BY <1>1, <1>6 DEF R!InOnePlace, R!Nowhere
  <2>4. QED  BY <2>1, <2>2, <2>3 DEF R!Nowhere
<1>7. QED  BY <1>0, <1>5, <1>6

LEMMA HandlerLeft ==
  ASSUME NEW calls, NEW answers, NEW handlers, NEW done, NEW n, NEW rest,
         R!InOnePlace(calls, answers, handlers, done, n),
         \A g \in rest : g.at = "change" => g \in handlers
  PROVE  /\ R!InOnePlace(calls, answers, rest, done, n)
         /\ \A h \in handlers : R!Runs(h, n) /\ h \notin rest =>
              R!Nowhere(calls, answers, rest, done, n)
<1>1. \A g \in rest : R!Runs(g, n) => g \in handlers
  BY DEF R!Runs
<1>2. R!InOnePlace(calls, answers, rest, done, n)
  BY <1>1 DEF R!InOnePlace, R!Nowhere
<1>3. ASSUME NEW h \in handlers, R!Runs(h, n), h \notin rest
      PROVE  R!Nowhere(calls, answers, rest, done, n)
  <2>1. n \notin done /\ \A g \in rest : ~R!Runs(g, n)
    BY <1>1, <1>3 DEF R!InOnePlace
  <2>2. \A i \in DOMAIN calls : ~R!Asks(calls[i], n)
    BY <1>3 DEF R!InOnePlace, R!Nowhere
  <2>3. \A i \in DOMAIN answers : ~R!Tells(answers[i], n)
    BY <1>3 DEF R!InOnePlace, R!Nowhere
  <2>4. QED  BY <2>1, <2>2, <2>3 DEF R!Nowhere
<1>4. QED  BY <1>2, <1>3

LEMMA CallSent ==
  ASSUME NEW calls, R!IsSequence(calls), NEW answers, NEW handlers, NEW done, NEW n, NEW e,
         R!InOnePlace(calls, answers, handlers, done, n),
         R!Asks(e, n) => R!Nowhere(calls, answers, handlers, done, n)
  PROVE  R!InOnePlace(Append(calls, e), answers, handlers, done, n)
<1>0. PICK all : all = Append(calls, e)
  OBVIOUS
<1>1. \A i \in DOMAIN all :
        (i \in DOMAIN calls /\ all[i] = calls[i]) \/ (i = Len(calls) + 1 /\ all[i] = e)
  BY <1>0, SentLast
<1>2. \A i, j \in DOMAIN all : R!Asks(all[i], n) /\ R!Asks(all[j], n) => i = j
  BY <1>1 DEF R!InOnePlace, R!Nowhere
<1>3. \A i \in DOMAIN all : R!Asks(all[i], n) => R!Nowhere(<<>>, answers, handlers, done, n)
  BY <1>1 DEF R!InOnePlace, R!Nowhere
<1>4. QED  BY <1>0, <1>2, <1>3 DEF R!InOnePlace

LEMMA AnswerSaid ==
  ASSUME NEW calls, NEW answers, R!IsSequence(answers), NEW handlers, NEW done, NEW n, NEW e,
         R!InOnePlace(calls, answers, handlers, done, n),
         R!Tells(e, n) => R!Nowhere(calls, answers, handlers, done, n)
  PROVE  R!InOnePlace(calls, Append(answers, e), handlers, done, n)
<1>0. PICK all : all = Append(answers, e)
  OBVIOUS
<1>1. \A i \in DOMAIN all :
        (i \in DOMAIN answers /\ all[i] = answers[i]) \/ (i = Len(answers) + 1 /\ all[i] = e)
  BY <1>0, SentLast
<1>2. \A i, j \in DOMAIN all : R!Tells(all[i], n) /\ R!Tells(all[j], n) => i = j
  BY <1>1 DEF R!InOnePlace, R!Nowhere
<1>3. \A i \in DOMAIN calls : R!Asks(calls[i], n) => R!Nowhere(<<>>, all, handlers, done, n)
  BY <1>1 DEF R!InOnePlace, R!Nowhere
<1>4. \A i \in DOMAIN all : R!Tells(all[i], n) => R!Nowhere(<<>>, <<>>, handlers, done, n)
  BY <1>1 DEF R!InOnePlace, R!Nowhere
<1>5. QED  BY <1>0, <1>2, <1>3, <1>4 DEF R!InOnePlace

LEMMA HandlerBegun ==
  ASSUME NEW calls, NEW answers, NEW handlers, NEW done, NEW n, NEW h,
         R!InOnePlace(calls, answers, handlers, done, n),
         R!Runs(h, n) => R!Nowhere(calls, answers, handlers, done, n)
  PROVE  R!InOnePlace(calls, answers, handlers \cup {h}, done, n)
<1>1. \A i \in DOMAIN calls : R!Asks(calls[i], n) =>
        R!Nowhere(<<>>, answers, handlers \cup {h}, done, n)
  BY DEF R!InOnePlace, R!Nowhere
<1>2. \A i \in DOMAIN answers : R!Tells(answers[i], n) =>
        R!Nowhere(<<>>, <<>>, handlers \cup {h}, done, n)
  BY DEF R!InOnePlace, R!Nowhere
<1>3. QED  BY <1>1, <1>2 DEF R!InOnePlace, R!Nowhere

LEMMA ChangeDone ==
  ASSUME NEW calls, NEW answers, NEW handlers, NEW done, NEW n, NEW k,
         R!InOnePlace(calls, answers, handlers, done, n),
         n = k => R!Nowhere(calls, answers, handlers, done, n)
  PROVE  R!InOnePlace(calls, answers, handlers, done \cup {k}, n)
BY DEF R!InOnePlace, R!Nowhere

LEMMA DoneIsLess ==
  ASSUME NEW calls, NEW answers, NEW handlers, NEW done, NEW more, NEW n,
         R!InOnePlace(calls, answers, handlers, done, n),
         n \in more => n \in done \/ R!Nowhere(calls, answers, handlers, {}, n)
  PROVE  R!InOnePlace(calls, answers, handlers, more, n)
BY DEF R!InOnePlace, R!Nowhere

\* What shows that the handler of a call is done with it was there, or comes with the step.
LEMMA HandledBefore ==
  ASSUME R!TypeOK, NEW n, R!Handled(n)', receipts' = receipts,
         \/ inbox' = inbox
         \/ inbox # <<>> /\ inbox' = Tail(inbox)
         \/ \E e : inbox' = Append(inbox, e) /\ (R!Again(e, n) => R!Handled(n)),
         \A g \in main' : R!Took(g, n) => g \in main \/ R!Handled(n),
         \/ wire' = wire
         \/ wire # <<>> /\ wire' = Tail(wire)
         \/ \E e : R!Says(<<e>>) /\ (R!Told(e, n) => R!Handled(n))
         \/ \E d, e : R!Says(<<d, e>>) /\ ~R!Told(d, n) /\ (R!Told(e, n) => R!Handled(n))
  PROVE  R!Handled(n)
<1>1. R!IsSequence(inbox) /\ R!IsSequence(wire)
  BY DEF R!TypeOK
<1>2. ASSUME NEW i \in DOMAIN inbox', R!Again(inbox'[i], n)
      PROVE  R!Handled(n)
  <2>1. CASE inbox' = inbox
    BY <1>2, <2>1 DEF R!Handled
  <2>2. CASE inbox # <<>> /\ inbox' = Tail(inbox)
    <3>1. i + 1 \in DOMAIN inbox /\ inbox'[i] = inbox[i + 1]
      BY <1>1, <1>2, <2>2, TakenFirst
    <3>2. QED  BY <1>2, <3>1 DEF R!Handled
  <2>3. ASSUME NEW e, inbox' = Append(inbox, e), R!Again(e, n) => R!Handled(n)
        PROVE  R!Handled(n)
    <3>1. (i \in DOMAIN inbox /\ inbox'[i] = inbox[i]) \/ inbox'[i] = e
      BY <1>1, <2>3, SentLast
    <3>2. QED  BY <1>2, <2>3, <3>1 DEF R!Handled
  <2>4. QED  BY <2>1, <2>2, <2>3
<1>3. ASSUME NEW g \in main', R!Took(g, n)
      PROVE  R!Handled(n)
  BY <1>3 DEF R!Handled
<1>4. ASSUME NEW i \in DOMAIN wire', R!Told(wire'[i], n)
      PROVE  R!Handled(n)
  <2>1. CASE wire' = wire
    BY <1>4, <2>1 DEF R!Handled
  <2>2. CASE wire # <<>> /\ wire' = Tail(wire)
    <3>1. i + 1 \in DOMAIN wire /\ wire'[i] = wire[i + 1]
      BY <1>1, <1>4, <2>2, TakenFirst
    <3>2. QED  BY <1>4, <3>1 DEF R!Handled
  <2>3. ASSUME NEW e, R!Says(<<e>>), R!Told(e, n) => R!Handled(n)
        PROVE  R!Handled(n)
    <3>1. wire' = Append(wire, e)
      BY <1>1, <2>3, SaidLast DEF R!Says
    <3>2. (i \in DOMAIN wire /\ wire'[i] = wire[i]) \/ wire'[i] = e
      BY <1>1, <3>1, SentLast
    <3>3. QED  BY <1>4, <2>3, <3>2 DEF R!Handled
  <2>4. ASSUME NEW d, NEW e, R!Says(<<d, e>>), ~R!Told(d, n), R!Told(e, n) => R!Handled(n)
        PROVE  R!Handled(n)
    <3>0. PICK t : t = Append(wire, d)
      OBVIOUS
    <3>1. wire' = Append(t, e)
      BY <1>1, <2>4, <3>0, SaidBoth DEF R!Says
    <3>2. R!IsSequence(t)
      BY <1>1, <3>0, SentLast
    <3>3. (i \in DOMAIN t /\ wire'[i] = t[i]) \/ wire'[i] = e
      BY <3>1, <3>2, SentLast
    <3>4. i \in DOMAIN t => (i \in DOMAIN wire /\ t[i] = wire[i]) \/ t[i] = d
      BY <1>1, <3>0, SentLast
    <3>5. QED  BY <1>4, <2>4, <3>3, <3>4 DEF R!Handled
  <2>5. QED  BY <2>1, <2>2, <2>3, <2>4
<1>5. QED  BY <1>2, <1>3, <1>4 DEF R!Handled

\* The steps that ask for nothing new.
LEMMA AskedStays ==
  ASSUME R!TypeOK, R!AskedOnce, UNCHANGED setting, receipts' = receipts,
         \/ inbox' = inbox
         \/ inbox # <<>> /\ inbox' = Tail(inbox)
         \/ \E e : inbox' = Append(inbox, e)
                   /\ \A n : ~R!Asks(e, n) /\ (R!Again(e, n) => R!Handled(n)),
         \/ wire' = wire
         \/ wire # <<>> /\ wire' = Tail(wire)
         \/ \E e : /\ R!Says(<<e>>) /\ e.kind # "list"
                   /\ \A n : R!Told(e, n) =>
                        R!Handled(n) \/ R!Nowhere(inbox', wire, main', {}, n)
         \/ \E d, e : /\ R!Says(<<d, e>>) /\ d.kind \notin {"list", "change"} /\ e.kind # "list"
                      /\ \A n : R!Told(e, n) =>
                           R!Handled(n) \/ R!Nowhere(inbox', wire, main', {}, n),
         \A g \in main' : g \in main \/ g.at \notin {"change", "read"}
  PROVE  R!AskedOnce'
<1>1. SUFFICES ASSUME NEW n \in 1..setting["change"],
                      R!InOnePlace(inbox, wire, main, R!Done, n)
               PROVE  R!InOnePlace(inbox', wire', main', R!Done', n)
  BY DEF R!AskedOnce
<1>2. R!IsSequence(inbox) /\ R!IsSequence(wire)
  BY DEF R!TypeOK
<1>3. R!InOnePlace(inbox', wire, main, R!Done, n)
  BY <1>1, <1>2, PlaceLeft, CallSent
<1>n. R!Nowhere(inbox', wire, main', {}, n) =>
        \A e : e.kind # "list" =>
          /\ R!Says(<<e>>) => R!Nowhere(inbox', wire', main', {}, n)
          /\ \A d : d.kind # "list" /\ R!Says(<<d, e>>) => R!Nowhere(inbox', wire', main', {}, n)
  <2>1. SUFFICES ASSUME R!Nowhere(inbox', wire, main', {}, n), NEW e, e.kind # "list"
                 PROVE  /\ R!Says(<<e>>) => R!Nowhere(inbox', wire', main', {}, n)
                        /\ \A d : d.kind # "list" /\ R!Says(<<d, e>>) =>
                                R!Nowhere(inbox', wire', main', {}, n)
    OBVIOUS
  <2>2. CASE R!Says(<<e>>)
    <3>1. wire' = Append(wire, e) /\ ~R!Tells(e, n)
      BY <1>2, <2>1, <2>2, SaidLast DEF R!Says, R!Tells
    <3>2. \A i \in DOMAIN wire' : (i \in DOMAIN wire /\ wire'[i] = wire[i]) \/ wire'[i] = e
      BY <1>2, <3>1, SentLast
    <3>3. QED  BY <2>1, <3>1, <3>2 DEF R!Nowhere
  <2>3. ASSUME NEW d, d.kind # "list", R!Says(<<d, e>>)
        PROVE  R!Nowhere(inbox', wire', main', {}, n)
    <3>0. PICK t : t = Append(wire, d)
      OBVIOUS
    <3>1. wire' = Append(t, e) /\ ~R!Tells(d, n) /\ ~R!Tells(e, n)
      BY <1>2, <2>1, <2>3, <3>0, SaidBoth DEF R!Says, R!Tells
    <3>2. R!IsSequence(t)
      BY <1>2, <3>0, SentLast
    <3>t. \A i \in DOMAIN t : (i \in DOMAIN wire /\ t[i] = wire[i]) \/ t[i] = d
      BY <1>2, <3>0, SentLast
    <3>3. \A i \in DOMAIN wire' : (i \in DOMAIN t /\ wire'[i] = t[i]) \/ wire'[i] = e
      BY <3>1, <3>2, SentLast
    <3>4. \A i \in DOMAIN wire' : ~R!Tells(wire'[i], n)
      BY <2>1, <3>1, <3>t, <3>3 DEF R!Nowhere
    <3>5. QED  BY <2>1, <3>4 DEF R!Nowhere
  <2>4. QED  BY <2>2, <2>3
<1>4. R!InOnePlace(inbox', wire', main, R!Done, n)
  <2>1. CASE wire # <<>> /\ wire' = Tail(wire)
    BY <1>2, <1>3, <2>1, AnswerLeft
  <2>2. ASSUME NEW e, R!Says(<<e>>), e.kind # "list"
        PROVE  R!InOnePlace(inbox', wire', main, R!Done, n)
    <3>1. wire' = Append(wire, e) /\ ~R!Tells(e, n)
      BY <1>2, <2>2, SaidLast DEF R!Says, R!Tells
    <3>2. QED  BY <1>2, <1>3, <3>1, AnswerSaid
  <2>3. ASSUME NEW d, NEW e, R!Says(<<d, e>>), d.kind # "list", e.kind # "list"
        PROVE  R!InOnePlace(inbox', wire', main, R!Done, n)
    <3>0. PICK t : t = Append(wire, d)
      OBVIOUS
    <3>1. wire' = Append(t, e) /\ ~R!Tells(d, n) /\ ~R!Tells(e, n)
      BY <1>2, <2>3, <3>0, SaidBoth DEF R!Says, R!Tells
    <3>2. R!IsSequence(t)
      BY <1>2, <3>0, SentLast
    <3>3. R!InOnePlace(inbox', t, main, R!Done, n)
      BY <1>2, <1>3, <3>0, <3>1, AnswerSaid
    <3>4. QED  BY <3>1, <3>2, <3>3, AnswerSaid
  <2>4. QED  BY <1>3, <2>1, <2>2, <2>3
<1>5. R!InOnePlace(inbox', wire', main', R!Done, n)
  BY <1>4, HandlerLeft
<1>6. R!Handled(n)' => R!Handled(n) \/ R!Nowhere(inbox', wire', main', {}, n)
  <2>1. SUFFICES ASSUME R!Handled(n)', ~R!Nowhere(inbox', wire', main', {}, n)
                 PROVE  R!Handled(n)
    OBVIOUS
  <2>2. \A g \in main' : R!Took(g, n) => g \in main
    BY DEF R!Took
  <2>3. \/ wire' = wire
        \/ wire # <<>> /\ wire' = Tail(wire)
        \/ \E e : R!Says(<<e>>) /\ (R!Told(e, n) => R!Handled(n))
        \/ \E d, e : R!Says(<<d, e>>) /\ ~R!Told(d, n) /\ (R!Told(e, n) => R!Handled(n))
    BY <1>n, <2>1 DEF R!Told
  <2>4. \/ inbox' = inbox
        \/ inbox # <<>> /\ inbox' = Tail(inbox)
        \/ \E e : inbox' = Append(inbox, e) /\ (R!Again(e, n) => R!Handled(n))
    OBVIOUS
  <2>5. QED  BY <2>1, <2>2, <2>3, <2>4, HandledBefore
<1>7. n \in R!Done' => n \in R!Done \/ R!Nowhere(inbox', wire', main', {}, n)
  BY <1>1, <1>6 DEF R!Done
<1>8. QED  BY <1>5, <1>7, DoneIsLess

-----------------------------------------------------------------------------
LEMMA UsesCount ==
  ASSUME R!TypeOK, UNCHANGED setting, used' = used \/ \E k \in R!Kinds : R!Uses(k)
  PROVE  /\ used' \in [R!Kinds -> Nat]
         /\ \A k \in R!Kinds : used[k] <= used'[k] /\ used'[k] <= setting'[k]
<1>1. /\ used \in [R!Kinds -> Nat] /\ setting \in [R!Kinds -> Nat]
      /\ \A k \in R!Kinds : used[k] <= setting[k]
  BY RendererAssumption DEF R!TypeOK
<1>2. CASE used' = used
  BY <1>1, <1>2
<1>3. ASSUME NEW k \in R!Kinds, R!Uses(k)
      PROVE  /\ used' \in [R!Kinds -> Nat]
             /\ \A l \in R!Kinds : used[l] <= used'[l] /\ used'[l] <= setting'[l]
  <2>0. PICK n \in Nat : n = used[k]
    BY <1>1
  <2>1. used' = [used EXCEPT ![k] = n + 1] /\ n < setting[k]
    BY <1>3, <2>0 DEF R!Uses
  <2>2. QED  BY <1>1, <2>0, <2>1
<1>4. QED  BY <1>2, <1>3

\* What a step that commits no change of the collection has to show.
LEMMA StepKeeps ==
  ASSUME R!ListInv, UNCHANGED <<setting, receipts, revision, active>>,
         used' = used \/ \E k \in R!Kinds : R!Uses(k),
         open' \in BOOLEAN, invalidating' \in BOOLEAN, over' \in BOOLEAN, unlocked' \in BOOLEAN,
         keySession' \in Nat, tails' \in Nat, guardEpoch' \in Nat,
         rev' \in [R!Vaults -> Nat], \A v \in R!Vaults : rev[v] <= rev'[v],
         screen' \in {"locked", "unlocked"}, view' \in R!Views \cup {None},
         \/ inbox' = inbox
         \/ inbox # <<>> /\ inbox' = Tail(inbox)
         \/ \E e : inbox' = Append(inbox, e) /\ R!CallOK(e)',
         \A g \in main' : g \in main \/ R!HandlerOK(g)',
         \/ wire' = wire /\ (coll' = coll \/ coll' = None)
         \/ /\ wire # <<>> /\ wire' = Tail(wire)
            /\ coll' = coll \/ coll' = None \/ (R!BringsList(R!Message) /\ coll' = R!Message.coll)
         \/ /\ coll' = coll
            /\ \E e : /\ R!MessageOK(e)'
                      /\ R!InOrder(e) => e.coll.revision = revision'
                      /\ \/ R!Says(<<e>>)
                         \/ \E d : R!MessageOK(d)' /\ ~R!BringsList(d) /\ R!Says(<<d, e>>),
         R!AskedOnce'
  PROVE  R!ListInv'
<1>1. /\ R!TypeOK /\ R!InboxOK /\ R!MainOK /\ R!WireOK /\ R!ReceiptsOK
      /\ R!ListsInOrder
  BY DEF R!ListInv
<1>2. /\ used' \in [R!Kinds -> Nat] /\ used \in [R!Kinds -> Nat]
      /\ \A k \in R!Kinds : used[k] <= used'[k] /\ used'[k] <= setting'[k]
  BY <1>1, UsesCount DEF R!TypeOK
<1>3. "change" \in R!Kinds
  BY DEF R!Kinds
<1>4. R!Existing \subseteq R!Existing'
  <2>1. \A v \in R!Vaults : rev[v] \in Nat /\ rev'[v] \in Nat
    BY <1>1 DEF R!TypeOK
  <2>2. QED  BY <2>1 DEF R!Existing
<1>5. Onwards
  BY <1>1, <1>2, <1>3, <1>4 DEF Onwards, R!TypeOK, R!Recorded
<1>6. R!IsSequence(inbox)' /\ R!InboxOK'
  BY <1>1, <1>5, InboxStays
<1>7. R!IsSequence(wire)' /\ R!WireOK'
  BY <1>1, <1>5, WireStays
<1>8. R!MainOK'
  BY <1>1, <1>5, HandlerStays DEF R!MainOK
<1>9. R!ReceiptsOK'
  BY <1>1, <1>4 DEF R!ReceiptsOK
<1>11. /\ R!ListsInOrder'
       /\ coll' \in R!Collections \cup {None}
  <2>1. CASE wire' = wire /\ (coll' = coll \/ coll' = None)
    BY <1>1, <1>5, <2>1, ListsStay DEF R!TypeOK
  <2>2. CASE /\ wire # <<>> /\ wire' = Tail(wire)
             /\ coll' = coll \/ coll' = None \/ (R!BringsList(R!Message)
                     /\ coll' = R!Message.coll)
    <3>1. 1 \in DOMAIN wire /\ R!Message = wire[1]
      BY <1>1, <2>2, TakenFirst DEF R!TypeOK, R!Message
    <3>2. R!BringsList(R!Message) => R!Message.coll \in R!Collections
      BY <1>1, <3>1 DEF R!WireOK, R!MessageOK
    <3>3. R!ListsInOrder'
      BY <1>1, <2>2, ListsTaken
    <3>4. QED  BY <1>1, <2>2, <3>2, <3>3 DEF R!TypeOK
  <2>3. ASSUME coll' = coll, NEW e, R!MessageOK(e)', R!InOrder(e) =>
                    e.coll.revision = revision',
               \/ R!Says(<<e>>)
               \/ \E d : R!MessageOK(d)' /\ ~R!BringsList(d) /\ R!Says(<<d, e>>)
        PROVE  R!ListsInOrder'
    <3>1. R!BringsList(e) => e.coll.revision \in Nat /\ e.coll.revision <= revision'
      BY <2>3 DEF R!MessageOK, R!Collections
    <3>2. QED  BY <1>1, <1>5, <2>3, <3>1, ListsSaid
  <2>4. QED  BY <1>1, <2>1, <2>2, <2>3 DEF R!TypeOK
<1>12. active' \in R!Existing' /\ DOMAIN receipts' \subseteq 1..used'["change"]
  <2>1. active \in R!Existing /\ DOMAIN receipts \subseteq 1..used["change"]
    BY <1>1 DEF R!TypeOK
  <2>2. QED  BY <1>2, <1>3, <1>4, <2>1
<1>13. R!TypeOK'
  BY <1>1, <1>2, <1>6, <1>7, <1>11, <1>12 DEF R!TypeOK
<1>14. QED  BY <1>6, <1>7, <1>8, <1>9, <1>11, <1>13 DEF R!ListInv

LEMMA SessionTyped ==
  ASSUME R!ListInv
  PROVE  /\ open \in BOOLEAN /\ invalidating \in BOOLEAN /\ over \in BOOLEAN
         /\ unlocked \in BOOLEAN
         /\ keySession \in Nat /\ keySession + 1 \in Nat /\ tails \in Nat /\ tails + 1 \in Nat
         /\ guardEpoch \in Nat /\ guardEpoch + 1 \in Nat /\ revision \in Nat
         /\ rev \in [R!Vaults -> Nat] /\ active \in R!Vaults /\ active \in R!Existing
         /\ screen \in {"locked", "unlocked"} /\ view \in R!Views \cup {None}
         /\ R!View(active) \in R!Views /\ R!Collection \in R!Collections
         /\ R!TypeOK /\ R!AskedOnce /\ R!IsSequence(inbox) /\ R!IsSequence(wire)
BY DEF R!ListInv, R!TypeOK, R!Existing, R!View, R!Collection, R!Views, R!Collections

\* A call of the user's that asks for no change of the collection.
LEMMA SendsKeeps ==
  ASSUME R!ListInv, NEW e, R!Sends(e), R!CallOK(e)', e.kind # "change", \A n : ~R!Asks(e, n),
         UNCHANGED <<setting, wire>>, R!Main, used' = used \/ \E k \in R!Kinds : R!Uses(k),
         guardEpoch' \in Nat, unlocked' \in BOOLEAN, screen' \in {"locked", "unlocked"},
         view' = view \/ view' = None, coll' = coll \/ coll' = None
  PROVE  R!ListInv'
<1>1. R!AskedOnce'
  BY SessionTyped, AskedStays DEF R!Sends, R!Main, R!mainState, R!documents, R!Again
<1>2. UNCHANGED <<setting, receipts, revision, active, rev, main, open, keySession, invalidating,
                  tails, over>>
  BY DEF R!Main, R!mainState, R!documents
<1>3. inbox' = Append(inbox, e) /\ wire' = wire
  BY DEF R!Sends
<1>4. \A v \in R!Vaults : rev[v] <= rev'[v]
  BY <1>2, SessionTyped
<1>5. QED  BY <1>1, <1>2, <1>3, <1>4, SessionTyped, StepKeeps

LEMMA AuthenticateKeeps ==
  ASSUME R!ListInv, R!Authenticate
  PROVE  R!ListInv'
<1>0. PICK e : e = [kind |-> "auth", epoch |-> guardEpoch]
  OBVIOUS
<1>1. R!CallOK(e)' /\ e.kind # "change" /\ \A n : ~R!Asks(e, n)
  BY <1>0 DEF R!CallOK, R!Asks
<1>2. /\ R!Sends(e) /\ UNCHANGED <<setting, wire>> /\ R!Main /\ R!Renderer /\ R!Uses("unlock")
      /\ "unlock" \in R!Kinds
  BY <1>0 DEF R!Authenticate, R!Kinds
<1>3. UNCHANGED <<guardEpoch, unlocked, screen, view, coll>>
  BY <1>2 DEF R!Renderer, R!guard, R!shown
<1>4. used' = used \/ \E k \in R!Kinds : R!Uses(k)
  BY <1>2
<1>5. QED  BY <1>1, <1>2, <1>3, <1>4, SessionTyped, SendsKeeps

LEMMA LockKeeps ==
  ASSUME R!ListInv, R!lock
  PROVE  R!ListInv'
<1>0. PICK e : e = [kind |-> "lock"]
  OBVIOUS
<1>1. R!CallOK(e)' /\ e.kind # "change" /\ \A n : ~R!Asks(e, n)
  BY <1>0 DEF R!CallOK, R!Asks
<1>2. /\ R!Sends(e) /\ UNCHANGED <<setting, wire>> /\ R!Main /\ used' = used
      /\ guardEpoch' = guardEpoch + 1 /\ unlocked' = FALSE
      /\ screen' = "locked" /\ view' = None /\ coll' = None
  BY <1>0 DEF R!lock, R!locks, R!end
<1>3. QED  BY <1>1, <1>2, SessionTyped, SendsKeeps

LEMMA SignOutKeeps ==
  ASSUME R!ListInv, R!signOut
  PROVE  R!ListInv'
<1>0. PICK e : e = [kind |-> "signOut", epoch |-> guardEpoch + 1]
  OBVIOUS
<1>1. R!CallOK(e)' /\ e.kind # "change" /\ \A n : ~R!Asks(e, n)
  BY <1>0 DEF R!CallOK, R!Asks
<1>2. /\ R!Sends(e) /\ UNCHANGED <<setting, wire, screen, view, coll>> /\ R!Main
      /\ R!Uses("signOut") /\ "signOut" \in R!Kinds
      /\ guardEpoch' = guardEpoch + 1 /\ unlocked' = FALSE
  BY <1>0 DEF R!signOut, R!end, R!shown, R!Kinds
<1>3. used' = used \/ \E k \in R!Kinds : R!Uses(k)
  BY <1>2
<1>4. QED  BY <1>1, <1>2, <1>3, SessionTyped, SendsKeeps

LEMMA RunVaultCommandKeeps ==
  ASSUME R!ListInv, R!runVaultCommand
  PROVE  R!ListInv'
<1>0. PICK e : e = [kind |-> "mutate", epoch |-> guardEpoch, expected |-> view.rev]
  OBVIOUS
<1>1. R!CallOK(e)' /\ e.kind # "change" /\ \A n : ~R!Asks(e, n)
  BY <1>0 DEF R!CallOK, R!Asks
<1>2. /\ R!Sends(e) /\ UNCHANGED <<setting, wire>> /\ R!Main /\ R!Renderer /\ R!Uses("command")
      /\ "command" \in R!Kinds
  BY <1>0 DEF R!runVaultCommand, R!Kinds
<1>3. UNCHANGED <<guardEpoch, unlocked, screen, view, coll>>
  BY <1>2 DEF R!Renderer, R!guard, R!shown
<1>4. used' = used \/ \E k \in R!Kinds : R!Uses(k)
  BY <1>2
<1>5. QED  BY <1>1, <1>2, <1>3, <1>4, SessionTyped, SendsKeeps

\* A new change of the collection has a number of its own.
LEMMA NewIsNowhere ==
  ASSUME R!ListInv, NEW n, n \notin 1..used["change"]
  PROVE  R!Nowhere(inbox, wire, main, {}, n) /\ ~R!Handled(n)
<1>1. \A i \in DOMAIN inbox : ~R!Asks(inbox[i], n)
  BY DEF R!ListInv, R!InboxOK, R!CallOK, R!ChangeOK, R!Asks, R!ChangeOps
<1>2. \A i \in DOMAIN wire : ~R!Tells(wire[i], n)
  BY DEF R!ListInv, R!WireOK, R!MessageOK, R!CallOK, R!ChangeOK, R!Tells, R!Asks, R!ChangeOps
<1>3. \A h \in main : ~R!Runs(h, n)
  BY DEF R!ListInv, R!MainOK, R!HandlerOK, R!ChangeOK, R!Runs
<1>4. n \notin DOMAIN receipts
  BY DEF R!ListInv, R!TypeOK
<1>5. ~\E i \in DOMAIN inbox : R!Again(inbox[i], n)
  BY DEF R!ListInv, R!InboxOK, R!CallOK, R!ChangeOK, R!Again
<1>6. ~\E h \in main : R!Took(h, n)
  BY DEF R!ListInv, R!MainOK, R!HandlerOK, R!ChangeOK, R!Took
<1>7. ~\E i \in DOMAIN wire : R!Told(wire[i], n)
  BY DEF R!ListInv, R!WireOK, R!MessageOK, R!CallOK, R!ChangeOK, R!Told
<1>8. ~R!Handled(n)
  BY <1>4, <1>5, <1>6, <1>7 DEF R!Handled
<1>9. QED  BY <1>1, <1>2, <1>3, <1>8 DEF R!Nowhere

LEMMA CaptureKeeps ==
  ASSUME R!ListInv, R!captureVaultCollectionMutation
  PROVE  R!ListInv'
<1>1. PICK op \in R!ChangeOps, v \in R!Existing :
        R!Sends(R!Lists(R!Scope, [op |-> op, target |-> v, id |-> used["change"] + 1]))
  BY DEF R!captureVaultCollectionMutation, R!ChangeOps
<1>2. /\ UNCHANGED <<setting, wire>> /\ R!Main /\ R!Renderer /\ R!Uses("change")
      /\ "change" \in R!Kinds
  BY DEF R!captureVaultCollectionMutation, R!Kinds
<1>3. UNCHANGED <<guardEpoch, unlocked, screen, view, coll, receipts, revision, active, rev, main,
                  open, keySession, invalidating, tails, over>>
  BY <1>2 DEF R!Renderer, R!guard, R!shown, R!Main, R!mainState, R!documents
<1>4. PICK k \in Nat : k = used["change"] /\ used'["change"] = k + 1
  <2>1. used \in [R!Kinds -> Nat]
    BY SessionTyped DEF R!TypeOK
  <2>2. PICK k \in Nat : k = used["change"]
    BY <1>2, <2>1
  <2>3. used' = [used EXCEPT !["change"] = k + 1]
    BY <1>2, <2>2 DEF R!Uses
  <2>4. QED  BY <1>2, <2>1, <2>2, <2>3
<1>5. PICK next : next = [op |-> op, target |-> v, id |-> k + 1]
  OBVIOUS
<1>6. PICK e : e = R!Lists(R!Scope, next)
  OBVIOUS
<1>7. inbox' = Append(inbox, e)
  BY <1>1, <1>4, <1>5, <1>6 DEF R!Sends
<1>8. e.kind = "list" /\ e.next.op = op /\ e.next.target = v /\ e.next.id = k + 1
  BY <1>5, <1>6 DEF R!Lists
<1>9. R!CallOK(e)'
  <2>1. v \in R!Existing'
    BY <1>3 DEF R!Existing
  <2>2. R!ChangeOK(e.next)'
    BY <1>4, <1>8, <2>1 DEF R!ChangeOK
  <2>3. QED  BY <1>8, <2>2 DEF R!CallOK
<1>10. R!AskedOnce'
  <2>1. SUFFICES ASSUME NEW n \in 1..setting["change"],
                        R!InOnePlace(inbox, wire, main, R!Done, n)
                 PROVE  R!InOnePlace(inbox', wire', main', R!Done', n)
    BY <1>2, SessionTyped DEF R!AskedOnce
  <2>2. R!Asks(e, n) => n \notin 1..used["change"]
    BY <1>4, <1>8 DEF R!Asks
  <2>3. R!Asks(e, n) => R!Nowhere(inbox, wire, main, R!Done, n)
    BY <2>2, NewIsNowhere DEF R!Nowhere, R!Done
  <2>4. R!InOnePlace(inbox', wire, main, R!Done, n)
    BY <1>7, <2>1, <2>3, SessionTyped, CallSent
  <2>5. n \in R!Done' => n \in R!Done
    <3>1. ~R!Again(e, n)
      BY <1>8 DEF R!Again
    <3>2. R!Handled(n)' => R!Handled(n)
      BY <1>2, <1>3, <1>7, <3>1, SessionTyped, HandledBefore
    <3>3. QED  BY <1>2, <3>2 DEF R!Done
  <2>6. QED  BY <1>2, <1>3, <2>4, <2>5, DoneIsLess
<1>11. \A u \in R!Vaults : rev[u] <= rev'[u]
  BY <1>3, SessionTyped
<1>12. UNCHANGED <<setting, receipts, revision, active>> /\ wire' = wire /\ coll' = coll
  BY <1>2, <1>3
<1>13. QED  BY <1>2, <1>3, <1>7, <1>9, <1>10, <1>11, <1>12, SessionTyped, StepKeeps

-----------------------------------------------------------------------------
\* A step of the main process that begins no change of the collection and lists none.
LEMMA HandlersKeep ==
  ASSUME R!ListInv, R!Renderer, UNCHANGED <<setting, receipts, revision, active>>,
         used' = used \/ \E k \in R!Kinds : R!Uses(k),
         open' \in BOOLEAN, invalidating' \in BOOLEAN, over' \in BOOLEAN,
         keySession' \in Nat, tails' \in Nat,
         rev' \in [R!Vaults -> Nat], \A v \in R!Vaults : rev[v] <= rev'[v],
         inbox' = inbox \/ (inbox # <<>> /\ inbox' = Tail(inbox)),
         \A g \in main' : g \in main \/ (R!HandlerOK(g)' /\ g.at \notin {"change", "read"}),
         \/ wire' = wire
         \/ \E e : /\ R!MessageOK(e)' /\ e.kind # "list"
                   /\ R!InOrder(e) => e.coll.revision = revision'
                   /\ \A n : R!Told(e, n) =>
                        R!Handled(n) \/ R!Nowhere(inbox', wire, main', {}, n)
                   /\ \/ R!Says(<<e>>)
                      \/ \E d : /\ R!MessageOK(d)' /\ d.kind \notin {"list", "change"}
                                /\ R!Says(<<d, e>>)
  PROVE  R!ListInv'
<1>1. UNCHANGED <<guardEpoch, unlocked, screen, view, coll>>
  BY DEF R!Renderer, R!guard, R!shown
<1>2. R!AskedOnce'
  BY SessionTyped, AskedStays
<1>3. /\ \/ wire' = wire
         \/ \E e : /\ R!MessageOK(e)'
                   /\ R!InOrder(e) => e.coll.revision = revision'
                   /\ \/ R!Says(<<e>>)
                      \/ \E d : R!MessageOK(d)' /\ ~R!BringsList(d) /\ R!Says(<<d, e>>)
  BY DEF R!BringsList
<1>4. \A g \in main' : g \in main \/ R!HandlerOK(g)'
  OBVIOUS
<1>5. QED  BY <1>1, <1>2, <1>3, <1>4, SessionTyped, StepKeeps

\* An answer that says no more than that its call failed.
LEMMA FailedIsOK ==
  ASSUME NEW c, R!CallOK(c)', c.kind \notin {"changed", "switched"}
  PROVE  R!MessageOK(R!Failed(c))' /\ ~R!BringsList(R!Failed(c)) /\ R!Failed(c).kind = c.kind
<1>1. PICK m : m = R!Failed(c)
  OBVIOUS
<1>2. m.kind = c.kind /\ m.call = c /\ m.result = "failed"
  BY <1>1 DEF R!Failed
<1>3. R!MessageOK(m)'
  BY <1>2 DEF R!MessageOK, R!BringsList
<1>4. ~R!BringsList(m)
  BY <1>2 DEF R!BringsList
<1>5. QED  BY <1>1, <1>2, <1>3, <1>4

LEMMA FirstCall ==
  ASSUME R!ListInv, inbox # <<>>
  PROVE  R!CallOK(R!Call) /\ R!Call = inbox[1] /\ 1 \in DOMAIN inbox
BY TakenFirst, SessionTyped DEF R!Call, R!ListInv, R!InboxOK

\* Where no document and no count changes, a call and a handler stay what they are.
LEMMA CallsStand ==
  ASSUME UNCHANGED <<rev, revision, used, receipts>>
  PROVE  /\ \A c : R!CallOK(c) => R!CallOK(c)'
         /\ \A h : R!HandlerOK(h) => R!HandlerOK(h)'
<1>1. ASSUME NEW d, R!ChangeOK(d)
      PROVE  R!ChangeOK(d)'
  BY <1>1 DEF R!ChangeOK, R!Existing
<1>2. \A c : R!CallOK(c) => R!CallOK(c)'
  BY <1>1 DEF R!CallOK
<1>3. \A h : R!HandlerOK(h) => R!HandlerOK(h)'
  BY <1>1 DEF R!HandlerOK, R!Existing, R!Recorded
<1>4. QED  BY <1>2, <1>3

LEMMA TakeAuthKeeps ==
  ASSUME R!ListInv, R!TakeAuth
  PROVE  R!ListInv'
<1>1. /\ inbox # <<>> /\ R!Call.kind = "auth" /\ inbox' = Tail(inbox)
      /\ UNCHANGED <<setting, R!documents, used>> /\ R!Renderer
  BY DEF R!TakeAuth, R!Turn, R!Taken
<1>2. UNCHANGED <<receipts, revision, active, rev>>
  BY <1>1 DEF R!documents
<1>3. PICK c : c = R!Call
  OBVIOUS
<1>4. R!CallOK(c)'
  BY <1>1, <1>2, <1>3, FirstCall, CallsStand
<1>5. \A v \in R!Vaults : rev[v] <= rev'[v]
  BY <1>2, SessionTyped
<1>6. CASE invalidating
  <2>1. R!Says(<<R!Failed(c)>>) /\ UNCHANGED R!mainState
    BY <1>3, <1>6 DEF R!TakeAuth
  <2>2. R!MessageOK(R!Failed(c))' /\ ~R!BringsList(R!Failed(c)) /\ R!Failed(c).kind = "auth"
    BY <1>1, <1>3, <1>4, FailedIsOK
  <2>3. UNCHANGED <<main, open, keySession, invalidating, tails, over>>
    BY <2>1 DEF R!mainState
  <2>4. ~R!InOrder(R!Failed(c)) /\ (\A k : ~R!Told(R!Failed(c), k))
    BY <2>2 DEF R!InOrder, R!Refreshes, R!Told
  <2>5. QED  BY <1>1, <1>2, <1>5, <2>1, <2>2, <2>3, <2>4, SessionTyped, HandlersKeep
<1>7. CASE ~invalidating
  <2>1. PICK h : h = [at |-> "auth", session |-> keySession, call |-> c]
    OBVIOUS
  <2>2. /\ main' = main \cup {h} /\ wire' = wire
        /\ UNCHANGED <<open, keySession, invalidating, tails, leaving, over>>
    BY <1>3, <1>7, <2>1 DEF R!TakeAuth, R!Starts
  <2>3. R!HandlerOK(h)' /\ h.at = "auth"
    BY <1>1, <1>3, <2>1 DEF R!HandlerOK
  <2>4. \A g \in main' : g \in main \/ (R!HandlerOK(g)' /\ g.at \notin {"change", "read"})
    BY <2>2, <2>3
  <2>5. QED  BY <1>1, <1>2, <1>5, <2>2, <2>4, SessionTyped, HandlersKeep
<1>8. QED  BY <1>6, <1>7

LEMMA TakeMutateKeeps ==
  ASSUME R!ListInv, R!TakeMutate
  PROVE  R!ListInv'
<1>1. /\ inbox # <<>> /\ R!Call.kind = "mutate" /\ inbox' = Tail(inbox)
      /\ UNCHANGED <<setting, R!documents, used>> /\ R!Renderer
  BY DEF R!TakeMutate, R!Turn, R!Taken
<1>2. UNCHANGED <<receipts, revision, active, rev>>
  BY <1>1 DEF R!documents
<1>3. PICK c : c = R!Call
  OBVIOUS
<1>4. R!CallOK(c)'
  BY <1>1, <1>2, <1>3, FirstCall, CallsStand
<1>5. \A v \in R!Vaults : rev[v] <= rev'[v]
  BY <1>2, SessionTyped
<1>6. CASE ~R!MayStart
  <2>1. R!Says(<<R!Failed(c)>>) /\ UNCHANGED R!mainState
    BY <1>3, <1>6 DEF R!TakeMutate
  <2>2. R!MessageOK(R!Failed(c))' /\ ~R!BringsList(R!Failed(c)) /\ R!Failed(c).kind = "mutate"
    BY <1>1, <1>3, <1>4, FailedIsOK
  <2>3. UNCHANGED <<main, open, keySession, invalidating, tails, over>>
    BY <2>1 DEF R!mainState
  <2>4. ~R!InOrder(R!Failed(c)) /\ (\A k : ~R!Told(R!Failed(c), k))
    BY <2>2 DEF R!InOrder, R!Refreshes, R!Told
  <2>5. QED  BY <1>1, <1>2, <1>5, <2>1, <2>2, <2>3, <2>4, SessionTyped, HandlersKeep
<1>7. CASE R!MayStart
  <2>1. PICK h : h = [at |-> "mutate", session |-> keySession, call |-> c]
    OBVIOUS
  <2>2. /\ main' = main \cup {h} /\ wire' = wire
        /\ UNCHANGED <<open, keySession, invalidating, tails, leaving, over>>
    BY <1>3, <1>7, <2>1 DEF R!TakeMutate, R!Starts
  <2>3. R!HandlerOK(h)' /\ h.at = "mutate"
    BY <1>1, <1>3, <2>1 DEF R!HandlerOK
  <2>4. \A g \in main' : g \in main \/ (R!HandlerOK(g)' /\ g.at \notin {"change", "read"})
    BY <2>2, <2>3
  <2>5. QED  BY <1>1, <1>2, <1>5, <2>2, <2>4, SessionTyped, HandlersKeep
<1>8. QED  BY <1>6, <1>7

LEMMA TakeLockKeeps ==
  ASSUME R!ListInv, R!TakeLock
  PROVE  R!ListInv'
<1>1. /\ inbox # <<>> /\ inbox' = Tail(inbox) /\ R!Renderer
      /\ UNCHANGED <<setting, R!documents, used, wire, tails, over>>
      /\ main' = main /\ open' = FALSE /\ keySession' = keySession + 1
      /\ invalidating' = (main # {})
  BY DEF R!TakeLock, R!Turn, R!Taken, R!lockVault
<1>2. UNCHANGED <<receipts, revision, active, rev>>
  BY <1>1 DEF R!documents
<1>3. \A v \in R!Vaults : rev[v] <= rev'[v]
  BY <1>2, SessionTyped
<1>4. QED  BY <1>1, <1>2, <1>3, SessionTyped, HandlersKeep

LEMMA TakeSignOutKeeps ==
  ASSUME R!ListInv, R!TakeSignOut
  PROVE  R!ListInv'
<1>1. /\ inbox # <<>> /\ R!Call.kind = "signOut" /\ inbox' = Tail(inbox) /\ R!Renderer
      /\ UNCHANGED <<setting, R!documents, used>>
  BY DEF R!TakeSignOut, R!Turn, R!Taken
<1>2. UNCHANGED <<receipts, revision, active, rev>>
  BY <1>1 DEF R!documents
<1>3. \A v \in R!Vaults : rev[v] <= rev'[v]
  BY <1>2, SessionTyped
<1>4. PICK c : c = R!Call
  OBVIOUS
<1>5. R!CallOK(c)'
  BY <1>1, <1>2, <1>4, FirstCall, CallsStand
<1>6. CASE R!Says(<<R!Failed(c)>>) /\ UNCHANGED R!mainState
  <2>1. R!MessageOK(R!Failed(c))' /\ ~R!BringsList(R!Failed(c)) /\ R!Failed(c).kind = "signOut"
    BY <1>1, <1>4, <1>5, FailedIsOK
  <2>2. UNCHANGED <<main, open, keySession, invalidating, tails, over>>
    BY <1>6 DEF R!mainState
  <2>3. ~R!InOrder(R!Failed(c)) /\ (\A k : ~R!Told(R!Failed(c), k))
    BY <2>1 DEF R!InOrder, R!Refreshes, R!Told
  <2>4. QED  BY <1>1, <1>2, <1>3, <1>6, <2>1, <2>2, <2>3, SessionTyped, HandlersKeep
<1>7. CASE R!lockVault(main) /\ UNCHANGED <<wire, tails, over>>
  <2>1. main' = main /\ open' = FALSE /\ keySession' = keySession + 1
         /\ invalidating' = (main # {})
    BY <1>7 DEF R!lockVault
  <2>2. QED  BY <1>1, <1>2, <1>3, <1>7, <2>1, SessionTyped, HandlersKeep
<1>8. QED  BY <1>4, <1>6, <1>7 DEF R!TakeSignOut

LEMMA TakeListKeeps ==
  ASSUME R!ListInv, R!TakeList
  PROVE  R!ListInv'
<1>1. /\ inbox # <<>> /\ R!Call.kind = "list" /\ inbox' = Tail(inbox) /\ R!Renderer
      /\ UNCHANGED <<setting, R!mainState, R!documents, used>>
  BY DEF R!TakeList, R!Turn, R!Taken
<1>2. UNCHANGED <<receipts, revision, active, rev, main, open, keySession, invalidating, tails,
                  over,
                  guardEpoch, unlocked, screen, view, coll>>
  BY <1>1 DEF R!documents, R!mainState, R!Renderer, R!guard, R!shown
<1>3. PICK c : c = R!Call
  OBVIOUS
<1>4. R!CallOK(c)' /\ c.kind = "list"
  BY <1>1, <1>2, <1>3, FirstCall, CallsStand
<1>5. PICK e : /\ R!Says(<<e>>)
               /\ e = IF R!MayStart
                      THEN [kind |-> "list", call |-> c, result |-> "ok", coll |-> R!Collection]
                      ELSE R!Failed(c)
  BY <1>3 DEF R!TakeList
<1>6. e.kind = "list" /\ e.call = c /\ e.result \in {"ok", "failed"}
  BY <1>4, <1>5 DEF R!Failed
<1>7. R!BringsList(e) => e.coll \in R!Collections /\ e.coll.revision = revision
  <2>1. PICK k : k = R!Collection /\ k \in R!Collections /\ k.revision = revision
    BY SessionTyped DEF R!Collection
  <2>2. QED  BY <1>4, <1>5, <2>1 DEF R!BringsList, R!Failed
<1>8. R!MessageOK(e)' /\ (R!InOrder(e) => e.coll.revision = revision')
  <2>1. R!BringsList(e) => e.coll \in R!Collections /\ e.coll.revision <= revision'
    BY <1>2, <1>7, SessionTyped
  <2>2. R!MessageOK(e)'
    BY <1>4, <1>6, <2>1 DEF R!MessageOK, R!BringsList
  <2>3. QED  BY <1>2, <1>7, <2>2 DEF R!InOrder, R!Refreshes
<1>9. R!AskedOnce'
  <2>1. SUFFICES ASSUME NEW n \in 1..setting["change"],
                        R!InOnePlace(inbox, wire, main, R!Done, n)
                 PROVE  R!InOnePlace(inbox', wire', main', R!Done', n)
    BY <1>1, SessionTyped DEF R!AskedOnce
  <2>2. /\ R!InOnePlace(inbox', wire, main, R!Done, n)
        /\ R!Asks(c, n) => R!Nowhere(inbox', wire, main, R!Done, n)
    BY <1>1, <1>3, <2>1, SessionTyped, PlaceLeft DEF R!Call
  <2>3. R!Tells(e, n) => R!Asks(c, n)
    BY <1>6 DEF R!Tells
  <2>4. wire' = Append(wire, e)
    BY <1>5, SessionTyped, SaidLast DEF R!Says
  <2>5. R!InOnePlace(inbox', wire', main, R!Done, n)
    BY <2>2, <2>3, <2>4, SessionTyped, AnswerSaid
  <2>6. n \in R!Done' => n \in R!Done
    <3>1. ~R!Told(e, n)
      BY <1>6 DEF R!Told
    <3>2. R!Handled(n)' => R!Handled(n)
      BY <1>1, <1>2, <1>5, <3>1, SessionTyped, HandledBefore
    <3>3. QED  BY <1>1, <3>2 DEF R!Done
  <2>7. QED  BY <1>2, <2>5, <2>6, DoneIsLess
<1>10. \A v \in R!Vaults : rev[v] <= rev'[v]
  BY <1>2, SessionTyped
<1>11. \A g \in main' : g \in main
  BY <1>2
<1>12. QED  BY <1>1, <1>2, <1>5, <1>8, <1>9, <1>10, <1>11, SessionTyped, StepKeeps

\* The number of a change is one of those that the behaviour may have.
LEMMA ChangeCounts ==
  ASSUME R!ListInv, NEW c, R!ChangeOK(c)
  PROVE  c.id \in 1..setting["change"]
<1>1. setting \in [R!Kinds -> Nat] /\ used \in [R!Kinds -> Nat]
      /\ used["change"] <= setting["change"] /\ "change" \in R!Kinds
  BY SessionTyped, RendererAssumption DEF R!TypeOK, R!Kinds
<1>2. QED  BY <1>1 DEF R!ChangeOK

LEMMA TakeChangeKeeps ==
  ASSUME R!ListInv, R!TakeChange
  PROVE  R!ListInv'
<1>1. /\ inbox # <<>> /\ R!Call.kind = "change" /\ inbox' = Tail(inbox) /\ R!Renderer
      /\ UNCHANGED <<setting, R!documents, used>>
  BY DEF R!TakeChange, R!Turn, R!Taken
<1>2. UNCHANGED <<receipts, revision, active, rev, guardEpoch, unlocked, screen, view, coll>>
  BY <1>1 DEF R!documents, R!Renderer, R!guard, R!shown
<1>3. PICK c : c = R!Call
  OBVIOUS
<1>4. R!CallOK(c) /\ R!CallOK(c)' /\ c.kind = "change"
  BY <1>1, <1>2, <1>3, FirstCall, CallsStand
<1>5. \A v \in R!Vaults : rev[v] <= rev'[v]
  BY <1>2, SessionTyped
<1>6. CASE ~R!MayStart
  <2>1. R!Says(<<R!Failed(c)>>) /\ UNCHANGED R!mainState
    BY <1>3, <1>6 DEF R!TakeChange
  <2>2. R!MessageOK(R!Failed(c))' /\ ~R!BringsList(R!Failed(c)) /\ R!Failed(c).kind = "change"
    BY <1>4, FailedIsOK
  <2>3. UNCHANGED <<main, open, keySession, invalidating, tails, over>>
    BY <2>1 DEF R!mainState
  <2>4. ~R!InOrder(R!Failed(c))
    BY <2>2 DEF R!InOrder, R!Refreshes
  <2>n. ASSUME NEW n, R!Told(R!Failed(c), n)
        PROVE  R!Handled(n) \/ R!Nowhere(inbox', wire, main', {}, n)
    <3>1. c.id = n
      BY <1>4, <2>n DEF R!Told, R!Failed
    <3>2. CASE c.again
      <4>1. R!Again(inbox[1], n) /\ 1 \in DOMAIN inbox
        BY <1>1, <1>3, <1>4, <3>1, <3>2, FirstCall DEF R!Again
      <4>2. QED  BY <4>1 DEF R!Handled
    <3>3. CASE ~c.again
      <4>1. n \in 1..setting["change"]
        BY <1>4, <3>1, ChangeCounts DEF R!CallOK
      <4>2. R!InOnePlace(inbox, wire, main, R!Done, n)
        BY <4>1, SessionTyped DEF R!AskedOnce
      <4>3. R!Asks(R!Call, n)
        BY <1>3, <1>4, <3>1, <3>3 DEF R!Asks
      <4>4. R!Nowhere(inbox', wire, main, R!Done, n)
        BY <1>1, <4>2, <4>3, SessionTyped, PlaceLeft DEF R!Call
      <4>5. QED  BY <2>3, <4>4 DEF R!Nowhere
    <3>4. QED  BY <3>2, <3>3
  <2>5. QED  BY <1>1, <1>2, <1>5, <2>1, <2>2, <2>3, <2>4, <2>n, SessionTyped, HandlersKeep
<1>7. CASE R!MayStart
  <2>1. PICK s \in Nat : s = IF R!Rotates(c) THEN keySession + 1 ELSE keySession
    BY SessionTyped
  <2>2. PICK h : h = [at |-> "change", session |-> s, call |-> c]
    OBVIOUS
  <2>3. /\ main' = main \cup {h} /\ wire' = wire /\ keySession' = s
        /\ UNCHANGED <<open, invalidating, tails, over>>
    BY <1>3, <1>7, <2>1, <2>2 DEF R!TakeChange
  <2>4. h.at = "change" /\ h.call = c
    BY <2>2
  <2>5. R!HandlerOK(h)'
    <3>1. R!HandlerOK(h)
      BY <1>4, <2>4 DEF R!HandlerOK, R!CallOK
    <3>2. QED  BY <1>1, <1>2, <3>1, CallsStand
  <2>6. R!AskedOnce'
    <3>1. SUFFICES ASSUME NEW n \in 1..setting["change"],
                          R!InOnePlace(inbox, wire, main, R!Done, n)
                   PROVE  R!InOnePlace(inbox', wire', main', R!Done', n)
      BY <1>1, SessionTyped DEF R!AskedOnce
    <3>2. /\ R!InOnePlace(inbox', wire, main, R!Done, n)
          /\ R!Asks(c, n) => R!Nowhere(inbox', wire, main, R!Done, n)
      BY <1>1, <1>3, <3>1, SessionTyped, PlaceLeft DEF R!Call
    <3>3. R!Runs(h, n) => R!Asks(c, n)
      BY <1>4, <2>4 DEF R!Runs, R!Asks
    <3>4. R!InOnePlace(inbox', wire, main', R!Done, n)
      BY <2>3, <3>2, <3>3, HandlerBegun
    <3>5. n \in R!Done' => n \in R!Done
      <4>1. R!Took(h, n) => R!Again(inbox[1], n) /\ 1 \in DOMAIN inbox
        BY <1>1, <1>3, <1>4, <2>4, FirstCall DEF R!Took, R!Again
      <4>2. R!Took(h, n) => R!Handled(n)
        BY <4>1 DEF R!Handled
      <4>3. \A g \in main' : R!Took(g, n) => g \in main \/ R!Handled(n)
        BY <2>3, <4>2
      <4>4. R!Handled(n)' => R!Handled(n)
        BY <1>1, <1>2, <2>3, <4>3, SessionTyped, HandledBefore
      <4>5. QED  BY <1>1, <4>4 DEF R!Done
    <3>6. QED  BY <2>3, <3>4, <3>5, DoneIsLess
  <2>7. \A g \in main' : g \in main \/ R!HandlerOK(g)'
    BY <2>3, <2>5
  <2>8. QED  BY <1>1, <1>2, <1>5, <2>1, <2>3, <2>6, <2>7, SessionTyped, StepKeeps
<1>8. QED  BY <1>6, <1>7

LEMMA LocksHereKeep ==
  ASSUME R!ListInv, R!LockHere \/ R!LockTail \/ (\E call \in leaving : R!SignedOut(call))
  PROVE  R!ListInv'
<1>1. CASE R!LockHere
  <2>1. /\ R!Uses("idle") /\ "idle" \in R!Kinds /\ main' = main /\ open' = FALSE
        /\ keySession' = keySession + 1
        /\ invalidating' = (main # {}) /\ tails' = tails + 1 /\ inbox' = inbox /\ wire' = wire
        /\ UNCHANGED <<setting, over, R!documents>> /\ R!Renderer
    BY <1>1 DEF R!LockHere, R!lockVault, R!NoTalk, R!channels, R!Kinds
  <2>2. UNCHANGED <<receipts, revision, active, rev>>
    BY <2>1 DEF R!documents
  <2>3. used' = used \/ \E k \in R!Kinds : R!Uses(k)
    BY <2>1
  <2>4. \A v \in R!Vaults : rev[v] <= rev'[v]
    BY <2>2, SessionTyped
  <2>5. QED  BY <2>1, <2>2, <2>3, <2>4, SessionTyped, HandlersKeep
<1>2. CASE R!LockTail
  <2>0. PICK e : e = [kind |-> "autoLock"]
    OBVIOUS
  <2>1. /\ tails' = tails - 1 /\ tails > 0 /\ R!Says(<<e>>)
        /\ UNCHANGED <<setting, inbox, main, open, keySession, invalidating, over>>
        /\ UNCHANGED <<R!documents, used>> /\ R!Renderer
    BY <1>2, <2>0 DEF R!LockTail
  <2>2. UNCHANGED <<receipts, revision, active, rev>>
    BY <2>1 DEF R!documents
  <2>3. R!MessageOK(e)' /\ e.kind # "list" /\ ~R!InOrder(e) /\ (\A k : ~R!Told(e, k))
    BY <2>0 DEF R!MessageOK, R!InOrder, R!Refreshes, R!BringsList, R!Told
  <2>4. tails' \in Nat /\ \A v \in R!Vaults : rev[v] <= rev'[v]
    BY <2>1, <2>2, SessionTyped
  <2>5. QED  BY <2>1, <2>2, <2>3, <2>4, SessionTyped, HandlersKeep
<1>3. ASSUME NEW call \in leaving, R!SignedOut(call)
      PROVE  R!ListInv'
  <2>0. PICK e : e = [kind |-> "signOut", call |-> call, result |-> "ok"]
    OBVIOUS
  <2>1. /\ over' = TRUE /\ R!Says(<<e>>)
        /\ UNCHANGED <<setting, inbox, main, open, keySession, invalidating, tails, used>>
        /\ UNCHANGED R!documents
        /\ R!Renderer
    BY <1>3, <2>0 DEF R!SignedOut
  <2>2. UNCHANGED <<receipts, revision, active, rev>>
    BY <2>1 DEF R!documents
  <2>3. R!MessageOK(e)' /\ e.kind # "list" /\ ~R!InOrder(e) /\ (\A k : ~R!Told(e, k))
    BY <2>0 DEF R!MessageOK, R!InOrder, R!Refreshes, R!BringsList, R!Told
  <2>4. \A v \in R!Vaults : rev[v] <= rev'[v]
    BY <2>2, SessionTyped
  <2>5. QED  BY <2>1, <2>2, <2>3, <2>4, SessionTyped, HandlersKeep
<1>4. QED  BY <1>1, <1>2, <1>3

LEMMA AuthenticatedKeeps ==
  ASSUME R!ListInv, NEW h \in main, R!Authenticated(h)
  PROVE  R!ListInv'
<1>0. h.call.kind = "auth"
  BY DEF R!Authenticated, R!ListInv, R!MainOK, R!HandlerOK
<1>1. /\ main' = main \ {h} /\ invalidating' = (invalidating /\ main' # {})
      /\ UNCHANGED <<setting, inbox, tails, over, R!documents, used>> /\ R!Renderer
  BY DEF R!Authenticated, R!Ends
<1>2. UNCHANGED <<receipts, revision, active, rev>>
  BY <1>1 DEF R!documents
<1>3. /\ invalidating' \in BOOLEAN /\ \A v \in R!Vaults : rev[v] <= rev'[v]
      /\ \A g \in main' : g \in main
  BY <1>1, <1>2, SessionTyped
<1>4. PICK e : /\ R!Says(<<e>>) /\ e.kind = "auth" /\ (e.result # "failed" => e.view \in R!Views)
               /\ open' \in BOOLEAN /\ keySession' \in Nat
  <2>1. CASE /\ open' = TRUE /\ keySession' = keySession + 1
             /\ R!Says(<<[kind |-> "auth", call |-> h.call, result |-> "ok",
                         view |-> R!View(active)]>>)
    BY <2>1, SessionTyped
  <2>2. CASE R!Says(<<R!Failed(h.call)>>) /\ UNCHANGED <<open, keySession>>
    BY <1>0, <2>2, SessionTyped DEF R!Failed
  <2>3. QED  BY <2>1, <2>2 DEF R!Authenticated
<1>5. R!MessageOK(e)' /\ e.kind # "list" /\ ~R!InOrder(e) /\ (\A k : ~R!Told(e, k))
  BY <1>4 DEF R!MessageOK, R!InOrder, R!Refreshes, R!BringsList, R!Told
<1>6. QED  BY <1>1, <1>2, <1>3, <1>4, <1>5, SessionTyped, HandlersKeep

\* A commit adds one to the active vault's revision.
LEMMA Advances ==
  ASSUME R!ListInv, rev' = [rev EXCEPT ![active] = @ + 1]
  PROVE  /\ rev' \in [R!Vaults -> Nat] /\ \A v \in R!Vaults : rev[v] <= rev'[v]
         /\ rev'[active] = rev[active] + 1 /\ rev'[active] \in Nat
<1>1. PICK n \in Nat : n = rev[active]
  BY SessionTyped
<1>2. rev' = [rev EXCEPT ![active] = n + 1]
  BY <1>1
<1>3. QED  BY <1>1, <1>2, SessionTyped

LEMMA EditedKeeps ==
  ASSUME R!ListInv, R!Edited
  PROVE  R!ListInv'
<1>1. /\ R!Uses("edit") /\ "edit" \in R!Kinds
      /\ rev' = [rev EXCEPT ![active] = @ + 1]
      /\ UNCHANGED <<setting, inbox, R!mainState, active, revision, receipts>> /\ R!Renderer
  BY DEF R!Edited, R!Kinds
<1>2. UNCHANGED <<main, open, keySession, invalidating, tails, over>>
  BY <1>1 DEF R!mainState
<1>3. PICK n \in Nat : n = rev[active]
  BY SessionTyped
<1>4. PICK e : e = [kind |-> "changed", view |-> [vault |-> active, rev |-> n + 1]]
  OBVIOUS
<1>5. R!Says(<<e>>)
  BY <1>3, <1>4 DEF R!Edited, R!Changed
<1>6. e.view \in R!Views
  BY <1>3, <1>4, SessionTyped DEF R!Views
<1>7. R!MessageOK(e)' /\ e.kind # "list" /\ ~R!InOrder(e) /\ (\A k : ~R!Told(e, k))
  BY <1>4, <1>6 DEF R!MessageOK, R!InOrder, R!Refreshes, R!BringsList, R!Told
<1>8. used' = used \/ \E k \in R!Kinds : R!Uses(k)
  BY <1>1
<1>9. QED  BY <1>1, <1>2, <1>5, <1>7, <1>8, Advances, SessionTyped, HandlersKeep

LEMMA MutatedKeeps ==
  ASSUME R!ListInv, NEW h \in main, R!Mutated(h)
  PROVE  R!ListInv'
<1>0. h.call.kind = "mutate"
  BY DEF R!Mutated, R!ListInv, R!MainOK, R!HandlerOK
<1>1. /\ main' = main \ {h} /\ invalidating' = (invalidating /\ main' # {})
      /\ UNCHANGED <<setting, inbox, open, keySession, tails, over, used, active, revision,
                     receipts>>
      /\ R!Renderer
  BY DEF R!Mutated, R!Ends, R!AnswersOnly
<1>2. invalidating' \in BOOLEAN /\ \A g \in main' : g \in main
  BY <1>1, SessionTyped
<1>3. ASSUME NEW result
      PROVE  \A e : e = [kind |-> "mutate", call |-> h.call, result |-> result,
                         view |-> [vault |-> active, rev |-> rev'[active]]]
                    /\ rev'[active] \in Nat =>
               R!MessageOK(e)' /\ e.kind # "list" /\ ~R!InOrder(e) /\ (\A k : ~R!Told(e, k))
  <2>1. SUFFICES ASSUME NEW e, rev'[active] \in Nat,
                        e = [kind |-> "mutate", call |-> h.call, result |-> result,
                             view |-> [vault |-> active, rev |-> rev'[active]]]
                 PROVE  R!MessageOK(e)' /\ e.kind # "list" /\ ~R!InOrder(e) /\ (\A k : ~R!Told(e, k))
    OBVIOUS
  <2>2. e.kind = "mutate" /\ e.view \in R!Views
    BY <2>1, SessionTyped DEF R!Views
  <2>3. QED  BY <2>2 DEF R!MessageOK, R!InOrder, R!Refreshes, R!BringsList, R!Told
<1>4. CASE /\ rev' = [rev EXCEPT ![active] = @ + 1]
           /\ R!Says(<<R!Changed(active, rev[active] + 1),
                     [kind |-> "mutate", call |-> h.call, result |-> "ok",
                      view |-> [vault |-> active, rev |-> rev'[active]]]>>)
  <2>0. PICK n \in Nat : n = rev[active]
    BY SessionTyped
  <2>1. PICK d : d = [kind |-> "changed", view |-> [vault |-> active, rev |-> n + 1]]
    OBVIOUS
  <2>2. PICK e : e = [kind |-> "mutate", call |-> h.call, result |-> "ok",
                      view |-> [vault |-> active, rev |-> rev'[active]]]
    OBVIOUS
  <2>3. R!Says(<<d, e>>)
    BY <1>4, <2>0, <2>1, <2>2 DEF R!Changed
  <2>4. d.kind = "changed" /\ d.view \in R!Views
    BY <2>1, SessionTyped DEF R!Views
  <2>5. R!MessageOK(d)'
    BY <2>4 DEF R!MessageOK, R!BringsList
  <2>6. R!MessageOK(e)' /\ e.kind # "list" /\ ~R!InOrder(e) /\ (\A k : ~R!Told(e, k))
    BY <1>3, <1>4, <2>2, Advances
  <2>7. rev' \in [R!Vaults -> Nat] /\ \A v \in R!Vaults : rev[v] <= rev'[v]
    BY <1>4, Advances
  <2>8. QED  BY <1>1, <1>2, <2>3, <2>4, <2>5, <2>6, <2>7, SessionTyped, HandlersKeep
<1>5. CASE UNCHANGED rev /\ R!Says(<<[kind |-> "mutate", call |-> h.call, result |-> "stale",
                                    view |-> [vault |-> active, rev |-> rev'[active]]]>>)
  <2>1. PICK e : e = [kind |-> "mutate", call |-> h.call, result |-> "stale",
                      view |-> [vault |-> active, rev |-> rev'[active]]]
    OBVIOUS
  <2>2. rev' \in [R!Vaults -> Nat] /\ \A v \in R!Vaults : rev[v] <= rev'[v]
    BY <1>5, SessionTyped
  <2>3. R!MessageOK(e)' /\ e.kind # "list" /\ ~R!InOrder(e) /\ (\A k : ~R!Told(e, k))
    BY <1>3, <2>1, <2>2, SessionTyped
  <2>4. QED  BY <1>1, <1>2, <1>5, <2>1, <2>2, <2>3, SessionTyped, HandlersKeep
<1>6. CASE UNCHANGED rev /\ R!Says(<<R!Failed(h.call)>>)
  <2>1. PICK e : e = R!Failed(h.call)
    OBVIOUS
  <2>2. e.kind = "mutate" /\ e.result = "failed"
    BY <1>0, <2>1 DEF R!Failed
  <2>3. R!MessageOK(e)' /\ ~R!InOrder(e) /\ (\A k : ~R!Told(e, k))
    BY <2>2 DEF R!MessageOK, R!InOrder, R!Refreshes, R!BringsList, R!Told
  <2>4. rev' \in [R!Vaults -> Nat] /\ \A v \in R!Vaults : rev[v] <= rev'[v]
    BY <1>6, SessionTyped
  <2>5. QED  BY <1>1, <1>2, <1>6, <2>1, <2>2, <2>3, <2>4, SessionTyped, HandlersKeep
<1>7. QED  BY <1>4, <1>5, <1>6 DEF R!Mutated

LEMMA ChangeRefusedKeeps ==
  ASSUME R!ListInv, NEW h \in main, R!ChangeRefused(h)
  PROVE  R!ListInv'
<1>1. /\ main' = main \ {h} /\ invalidating' = (invalidating /\ main' # {})
      /\ UNCHANGED <<setting, inbox, open, keySession, tails, over, used, R!documents>>
      /\ R!Renderer /\ h.at = "change"
  BY DEF R!ChangeRefused, R!Ends, R!AnswersOnly
<1>2. UNCHANGED <<receipts, revision, active, rev>>
  BY <1>1 DEF R!documents
<1>3. /\ invalidating' \in BOOLEAN /\ \A v \in R!Vaults : rev[v] <= rev'[v]
      /\ \A g \in main' : g \in main
  BY <1>1, <1>2, SessionTyped
<1>4. PICK c : c = h.call
  OBVIOUS
<1>5. c.kind = "change" /\ R!CallOK(c) /\ R!CallOK(c)'
  <2>1. R!HandlerOK(h)
    BY DEF R!ListInv, R!MainOK
  <2>2. c.kind = "change" /\ R!CallOK(c)
    BY <1>1, <1>4, <2>1 DEF R!HandlerOK, R!CallOK
  <2>3. QED  BY <1>1, <1>2, <2>2, CallsStand
<1>6. PICK e : /\ R!Says(<<e>>) /\ R!MessageOK(e)' /\ e.kind # "list" /\ e.call = c
               /\ R!InOrder(e) => e.coll.revision = revision'
  <2>1. CASE R!Says(<<R!Failed(c)>>)
    BY <1>5, <2>1, FailedIsOK DEF R!InOrder, R!Refreshes, R!Failed
  <2>2. CASE R!Says(<<[kind |-> "change", call |-> c, result |-> "stale", coll |-> R!Collection]>>)
    <3>1. PICK k : k = R!Collection /\ k \in R!Collections /\ k.revision = revision
      BY SessionTyped DEF R!Collection
    <3>2. PICK e : e = [kind |-> "change", call |-> c, result |-> "stale", coll |-> k]
      OBVIOUS
    <3>3. /\ e.kind = "change" /\ e.call = c /\ e.result = "stale" /\ e.coll \in R!Collections
          /\ e.coll.revision = revision'
      BY <1>2, <3>1, <3>2
    <3>4. e.coll.revision <= revision'
      BY <1>2, <3>3, SessionTyped
    <3>5. R!MessageOK(e)'
      BY <1>5, <3>3, <3>4 DEF R!MessageOK, R!BringsList
    <3>6. QED  BY <2>2, <3>1, <3>2, <3>3, <3>5
  <2>3. QED  BY <1>4, <2>1, <2>2 DEF R!ChangeRefused
<1>7. ASSUME NEW n, R!Told(e, n)
      PROVE  R!Handled(n) \/ R!Nowhere(inbox', wire, main', {}, n)
  <2>1. c.id = n
    BY <1>6, <1>7 DEF R!Told
  <2>2. CASE c.again
    <3>1. R!Took(h, n)
      BY <1>1, <1>4, <2>1, <2>2 DEF R!Took
    <3>2. QED  BY <3>1 DEF R!Handled
  <2>3. CASE ~c.again
    <3>1. n \in 1..setting["change"]
      BY <1>5, <2>1, ChangeCounts DEF R!CallOK
    <3>2. R!InOnePlace(inbox, wire, main, R!Done, n)
      BY <3>1, SessionTyped DEF R!AskedOnce
    <3>3. R!Runs(h, n) /\ h \notin main' /\ \A g \in main' : g \in main
      BY <1>1, <1>4, <2>1, <2>3 DEF R!Runs
    <3>4. R!Nowhere(inbox, wire, main', R!Done, n)
      BY <3>2, <3>3, HandlerLeft
    <3>5. QED  BY <1>1, <3>4 DEF R!Nowhere
  <2>4. QED  BY <2>2, <2>3
<1>8. QED  BY <1>1, <1>2, <1>3, <1>6, <1>7, SessionTyped, HandlersKeep

LEMMA SnapshotKeeps ==
  ASSUME R!ListInv, NEW h \in main, R!Snapshot(h)
  PROVE  R!ListInv'
<1>1. /\ main' = main \ {h} /\ invalidating' = (invalidating /\ main' # {})
      /\ UNCHANGED <<setting, inbox, open, keySession, tails, over, used, R!documents>>
      /\ R!Renderer /\ h.at = "read"
  BY DEF R!Snapshot, R!Ends, R!AnswersOnly
<1>2. UNCHANGED <<receipts, revision, active, rev>>
  BY <1>1 DEF R!documents
<1>3. /\ invalidating' \in BOOLEAN /\ \A v \in R!Vaults : rev[v] <= rev'[v]
      /\ \A g \in main' : g \in main
  BY <1>1, <1>2, SessionTyped
<1>4. PICK c, r : c = h.call /\ r = h.result
  OBVIOUS
<1>5. /\ c.kind = "change" /\ R!CallOK(c)' /\ r \in R!Collections /\ r.active \in R!Vaults
      /\ r.revision <= revision' /\ R!Recorded(c, r)'
  <2>1. R!HandlerOK(h)
    BY DEF R!ListInv, R!MainOK
  <2>2. c.kind = "change" /\ R!CallOK(c)
    BY <1>1, <1>4, <2>1 DEF R!HandlerOK, R!CallOK
  <2>3. r \in R!Collections /\ r.active \in R!Vaults /\ r.revision <= revision
    BY <1>1, <1>4, <2>1 DEF R!HandlerOK, R!Existing
  <2>4. R!Recorded(c, r)
    BY <1>1, <1>4, <2>1 DEF R!HandlerOK
  <2>5. QED  BY <1>1, <1>2, <2>2, <2>3, <2>4, CallsStand DEF R!Recorded
<1>6. PICK v : v = R!View(r.active) /\ v \in R!Views /\ v # None
  <2>1. R!View(r.active) \in R!Views
    BY <1>5, SessionTyped DEF R!View, R!Views
  <2>2. QED  BY <2>1, RendererAssumption
<1>7. PICK e : e = [kind |-> "change", call |-> c, result |-> "ok", coll |-> r, view |-> v]
  OBVIOUS
<1>8. e.kind = "change" /\ e.call = c /\ e.result = "ok" /\ e.coll = r /\ e.view = v
  BY <1>7
<1>9. R!MessageOK(e)' /\ ~R!InOrder(e)
  <2>1. R!MessageOK(e)'
    BY <1>5, <1>6, <1>8 DEF R!MessageOK, R!BringsList
  <2>2. ~R!InOrder(e)
    BY <1>6, <1>8 DEF R!InOrder, R!Refreshes, R!Installs
  <2>3. QED  BY <2>1, <2>2
<1>10. \/ R!Says(<<e>>)
       \/ \E d : R!MessageOK(d)' /\ d.kind \notin {"list", "change"} /\ R!Says(<<d, e>>)
  <2>1. CASE h.known
    <3>1. R!Says(<<>> \o <<e>>)
      BY <1>4, <1>6, <1>7, <2>1 DEF R!Snapshot
    <3>2. QED  BY <3>1 DEF R!Says
  <2>2. CASE ~h.known
    <3>0. PICK d : d = [kind |-> "switched", view |-> v]
      OBVIOUS
    <3>1. R!Says(<<d>> \o <<e>>)
      BY <1>4, <1>6, <1>7, <2>2, <3>0 DEF R!Snapshot
    <3>2. R!Says(<<d, e>>)
      BY <3>1 DEF R!Says
    <3>3. d.kind = "switched" /\ d.view = v
      BY <3>0
    <3>4. R!MessageOK(d)'
      BY <1>6, <3>3 DEF R!MessageOK, R!BringsList
    <3>5. QED  BY <3>2, <3>3, <3>4
  <2>3. QED  BY <2>1, <2>2
<1>11. e.kind # "list"
  BY <1>8
<1>12. ASSUME NEW n, R!Told(e, n)
       PROVE  R!Handled(n)
  <2>1. R!Took(h, n)
    BY <1>1, <1>4, <1>8, <1>12 DEF R!Told, R!Took
  <2>2. QED  BY <2>1 DEF R!Handled
<1>13. QED  BY <1>1, <1>2, <1>3, <1>9, <1>10, <1>11, <1>12, SessionTyped, HandlersKeep

LEMMA SnapshotFailsKeeps ==
  ASSUME R!ListInv, NEW h \in main, R!SnapshotFails(h)
  PROVE  R!ListInv'
<1>1. /\ main' = main \ {h} /\ open' = FALSE /\ keySession' = keySession + 1
      /\ invalidating' = (main' # {}) /\ tails' = tails + 1 /\ h.at = "read"
      /\ UNCHANGED <<setting, inbox, over, R!documents>> /\ R!Renderer
  BY DEF R!SnapshotFails, R!lockVault
<1>2. UNCHANGED <<receipts, revision, active, rev>>
  BY <1>1 DEF R!documents
<1>3. /\ \A v \in R!Vaults : rev[v] <= rev'[v]
      /\ \A g \in main' : g \in main
  BY <1>1, <1>2, SessionTyped
<1>4. used' = used \/ \E k \in R!Kinds : R!Uses(k)
  <2>1. "fault" \in R!Kinds
    BY DEF R!Kinds
  <2>2. QED  BY <2>1 DEF R!SnapshotFails
<1>5. PICK e : e = R!Failed(h.call)
  OBVIOUS
<1>6. R!CallOK(h.call) /\ h.call.kind = "change"
  BY <1>1 DEF R!ListInv, R!MainOK, R!HandlerOK, R!CallOK
<1>7. Onwards
  <2>1. used' \in [R!Kinds -> Nat] /\ \A k \in R!Kinds : used[k] <= used'[k]
    BY <1>1, <1>4, SessionTyped, UsesCount
  <2>2. "change" \in R!Kinds
    BY DEF R!Kinds
  <2>3. R!Existing' = R!Existing
    BY <1>2 DEF R!Existing
  <2>4. QED  BY <1>2, <2>1, <2>2, <2>3, SessionTyped DEF Onwards, R!Recorded
<1>8. PICK c : c = h.call
  OBVIOUS
<1>9. R!CallOK(c)' /\ c.kind = "change"
  BY <1>6, <1>7, <1>8, CallStays, SessionTyped
<1>10. R!MessageOK(e)' /\ e.kind # "list" /\ ~R!InOrder(e)
  BY <1>5, <1>8, <1>9, FailedIsOK DEF R!InOrder, R!Refreshes
<1>11. R!Says(<<e>>)
  BY <1>5 DEF R!SnapshotFails
<1>12. ASSUME NEW n, R!Told(e, n)
       PROVE  R!Handled(n)
  <2>1. R!Took(h, n)
    BY <1>1, <1>5, <1>12 DEF R!Told, R!Took, R!Failed
  <2>2. QED  BY <2>1 DEF R!Handled
<1>13. QED  BY <1>1, <1>2, <1>3, <1>4, <1>10, <1>11, <1>12, SessionTyped, HandlersKeep

\* What a change of the collection makes of it.
LEMMA ResultIsNewer ==
  ASSUME R!ListInv, NEW c, c.op \in R!ChangeOps, c.target \in R!Existing,
         c.op = "create" => R!Existing # R!Vaults, NEW r, r = R!Result(c)
  PROVE  /\ r \in R!Collections /\ r.revision \in {revision, revision + 1}
         /\ r.active \in R!Vaults
<1>1. R!Existing # R!Vaults => \E v \in R!Vaults : v \notin R!Existing
  BY DEF R!Existing
<1>2. CASE c.op = "create"
  <2>1. PICK v : v = CHOOSE w \in R!Vaults : w \notin R!Existing
    OBVIOUS
  <2>2. v \in R!Vaults
    BY <1>1, <1>2, <2>1
  <2>3. r = [revision |-> revision + 1, active |-> v]
    BY <1>2, <2>1 DEF R!Result
  <2>4. QED  BY <2>2, <2>3, SessionTyped DEF R!Collections
<1>3. CASE c.op = "rename"
  BY <1>3, SessionTyped DEF R!Result, R!Collections
<1>4. CASE c.op = "switch"
  <2>1. c.target \in R!Vaults
    BY DEF R!Existing
  <2>2. r = R!Collection \/ r = [revision |-> revision + 1, active |-> c.target]
    BY <1>4 DEF R!Result
  <2>3. QED  BY <2>1, <2>2, SessionTyped DEF R!Collections, R!Collection
<1>5. QED  BY <1>2, <1>3, <1>4 DEF R!ChangeOps

\* The handler of a first call finds no receipt of it.
LEMMA KnownIsAgain ==
  ASSUME R!ListInv, NEW h \in main, h.at = "change", h.call.id \in DOMAIN receipts
  PROVE  h.call.again
<1>1. SUFFICES ASSUME ~h.call.again
               PROVE  FALSE
  OBVIOUS
<1>2. PICK n : n = h.call.id
  OBVIOUS
<1>3. n \in 1..setting["change"]
  BY <1>2, ChangeCounts DEF R!ListInv, R!MainOK, R!HandlerOK
<1>4. R!InOnePlace(inbox, wire, main, R!Done, n) /\ R!Runs(h, n)
  BY <1>1, <1>2, <1>3, SessionTyped DEF R!AskedOnce, R!Runs
<1>5. n \in R!Done
  BY <1>2, <1>3 DEF R!Done, R!Handled
<1>6. QED  BY <1>4, <1>5 DEF R!InOnePlace

LEMMA ChangeCommitsKeeps ==
  ASSUME R!ListInv, NEW h \in main, R!ChangeCommits(h)
  PROVE  R!ListInv'
<1>0. PICK c : c = h.call
  OBVIOUS
<1> DEFINE known == c.id \in DOMAIN receipts
<1>1. PICK result : result = IF known THEN receipts[c.id] ELSE R!Result(c)
  OBVIOUS
<1>2. /\ h.at = "change"
      /\ known \/ c.expected = revision
      /\ c.op = "create" => known \/ R!Existing # R!Vaults
      /\ UNCHANGED <<setting, inbox, open, keySession, tails, over, used>> /\ R!Renderer
  BY <1>0 DEF R!ChangeCommits, R!AnswersOnly
<1>3. R!HandlerOK(h) /\ R!ChangeOK(c) /\ c.kind = "change"
  <2>1. R!HandlerOK(h)
    BY DEF R!ListInv, R!MainOK
  <2>2. QED  BY <1>0, <1>2, <2>1 DEF R!HandlerOK
<1>4. /\ result \in R!Collections /\ result.active \in R!Vaults
      /\ known => result.active \in R!Existing /\ result.revision <= revision
      /\ ~known => result.revision \in {revision, revision + 1}
  <2>1. CASE known
    <3>1. result \in R!Collections /\ result.active \in R!Existing /\ result.revision <= revision
      BY <1>1, <2>1, SessionTyped DEF R!ListInv, R!TypeOK, R!ReceiptsOK
    <3>2. QED  BY <2>1, <3>1 DEF R!Existing
  <2>2. CASE ~known
    BY <1>1, <1>2, <1>3, <2>2, ResultIsNewer DEF R!ChangeOK
  <2>3. QED  BY <2>1, <2>2
<1>5. /\ known => UNCHANGED R!documents
      /\ ~known =>
           /\ revision' = result.revision /\ active' = result.active
           /\ receipts' = [n \in DOMAIN receipts \cup {c.id} |->
                             IF n = c.id THEN result ELSE receipts[n]]
           /\ rev' = IF result.active \in R!Existing THEN rev
                     ELSE [rev EXCEPT ![result.active] = 1]
  BY <1>0, <1>1 DEF R!ChangeCommits
<1>6. /\ rev' \in [R!Vaults -> Nat] /\ R!Existing \subseteq R!Existing'
      /\ result.active \in R!Existing'
      /\ active' \in R!Existing' /\ revision' \in Nat /\ revision <= revision'
      /\ result.revision <= revision'
  <2>1. CASE known
    <3>1. UNCHANGED <<rev, active, revision>> /\ R!Existing' = R!Existing
      BY <1>5, <2>1 DEF R!documents, R!Existing
    <3>2. QED  BY <1>4, <2>1, <3>1, SessionTyped
  <2>2. CASE ~known
    <3>1. /\ rev' \in [R!Vaults -> Nat] /\ \A v \in R!Existing : rev'[v] = rev[v]
          /\ rev'[result.active] > 0
      BY <1>4, <1>5, <2>2, SessionTyped DEF R!Existing
    <3>2. R!Existing \subseteq R!Existing' /\ result.active \in R!Existing'
      BY <1>4, <3>1 DEF R!Existing
    <3>3. result.revision \in Nat /\ revision <= result.revision
      BY <1>4, <2>2, SessionTyped
    <3>4. QED  BY <1>5, <2>2, <3>1, <3>2, <3>3
  <2>3. QED  BY <2>1, <2>2
<1>8. /\ DOMAIN receipts' = DOMAIN receipts \cup {c.id} /\ receipts'[c.id] = result
      /\ \A n \in DOMAIN receipts : receipts'[n] = receipts[n]
  <2>1. CASE known
    BY <1>1, <1>5, <2>1 DEF R!documents
  <2>2. CASE ~known
    BY <1>1, <1>5, <2>2
  <2>3. QED  BY <2>1, <2>2
<1>7. Onwards
  <2>1. used["change"] \in Nat
    BY SessionTyped DEF R!TypeOK, R!Kinds
  <2>2. \A d, r : R!Recorded(d, r) => R!Recorded(d, r)'
    BY <1>8 DEF R!Recorded
  <2>3. QED  BY <1>2, <1>6, <2>1, <2>2 DEF Onwards
<1>9. R!CallOK(c)' /\ R!ChangeOK(c)'
  <2>1. R!CallOK(c)
    BY <1>3 DEF R!CallOK
  <2>2. R!CallOK(c)'
    BY <1>7, <2>1, CallStays, SessionTyped
  <2>3. QED  BY <1>3, <2>2 DEF R!CallOK
<1>10. PICK e : e = [kind |-> "change", call |-> c, result |-> "ok", coll |-> result,
                     view |-> None]
  OBVIOUS
<1>e. /\ e.kind = "change" /\ e.call = c /\ e.result = "ok" /\ e.coll = result
      /\ e.view = None
  BY <1>10
<1>11. PICK g : g = [at |-> "read", session |-> h.session, call |-> c, result |-> result,
                     known |-> known]
  OBVIOUS
<1>g. g.at = "read" /\ g.call = c /\ g.result = result
  BY <1>11
<1>12. \/ /\ c.op = "rename" /\ R!Says(<<e>>) /\ main' = main \ {h}
          /\ invalidating' = (invalidating /\ main' # {})
       \/ /\ wire' = wire /\ invalidating' = invalidating /\ main' = (main \ {h}) \cup {g}
  BY <1>0, <1>1, <1>10, <1>11 DEF R!ChangeCommits, R!Ends
<1>13. R!HandlerOK(g)' /\ R!MessageOK(e)'
  <2>1. R!HandlerOK(g)'
    BY <1>3, <1>4, <1>6, <1>8, <1>9, <1>g DEF R!HandlerOK, R!Recorded
  <2>2. R!MessageOK(e)'
    BY <1>4, <1>3, <1>6, <1>8, <1>9, <1>e DEF R!MessageOK, R!BringsList, R!Recorded
  <2>3. QED  BY <2>1, <2>2
<1>14. R!InboxOK' /\ R!IsSequence(inbox)'
  BY <1>2, <1>7, InboxStays, SessionTyped DEF R!ListInv
<1>15. R!WireOK' /\ R!IsSequence(wire)'
  BY <1>7, <1>12, <1>13, WireStays, SessionTyped DEF R!ListInv
<1>16. R!MainOK'
  <2>1. \A f \in main : R!HandlerOK(f)'
    BY <1>7, HandlerStays, SessionTyped DEF R!ListInv, R!MainOK
  <2>2. QED  BY <1>12, <1>13, <2>1 DEF R!MainOK
<1>17. \A n \in DOMAIN receipts' : receipts'[n].active \in R!Existing'
                                   /\ receipts'[n].revision <= revision'
                                   /\ receipts'[n] \in R!Collections
  <2>1. \A n \in DOMAIN receipts : receipts[n].active \in R!Existing
                                   /\ receipts[n].revision <= revision
                                   /\ receipts[n] \in R!Collections
    BY DEF R!ListInv, R!ReceiptsOK, R!TypeOK
  <2>2. \A n \in DOMAIN receipts : receipts[n].revision \in Nat
    BY <2>1 DEF R!Collections
  <2>3. QED  BY <1>4, <1>6, <1>8, <2>1, <2>2, SessionTyped
<1>18. R!InOrder(e) => result.revision = revision'
  <2>1. CASE known
    <3>1. c.again
      BY <1>0, <1>2, <2>1, KnownIsAgain
    <3>2. QED  BY <1>e, <3>1 DEF R!InOrder, R!Repeats
  <2>2. CASE ~known
    BY <1>5, <2>2
  <2>3. QED  BY <2>1, <2>2
<1>19. UNCHANGED <<guardEpoch, unlocked, screen, view, coll>>
  BY <1>2 DEF R!Renderer, R!guard, R!shown
<1>20. R!ListsInOrder'
  <2>0. R!ListsInOrder
    BY DEF R!ListInv
  <2>1. CASE wire' = wire
    BY <1>7, <1>19, <2>0, <2>1, ListsStay, SessionTyped
  <2>2. CASE c.op = "rename" /\ R!Says(<<e>>)
    <3>1. e.coll.revision \in Nat /\ e.coll.revision <= revision'
          /\ (R!InOrder(e) => e.coll.revision = revision')
      BY <1>4, <1>6, <1>e, <1>18 DEF R!Collections
    <3>2. QED  BY <1>7, <1>19, <2>0, <2>2, <3>1, ListsSaid, SessionTyped DEF R!ListInv
  <2>3. QED  BY <1>12, <2>1, <2>2
<1>21. R!AskedOnce'
  <2>1. SUFFICES ASSUME NEW n \in 1..setting["change"],
                        R!InOnePlace(inbox, wire, main, R!Done, n)
                 PROVE  R!InOnePlace(inbox', wire', main', R!Done', n)
    BY <1>2, SessionTyped DEF R!AskedOnce
  <2>2. R!InOnePlace(inbox, wire', main, R!Done, n)
    <3>1. CASE R!Says(<<e>>)
      <4>1. wire' = Append(wire, e) /\ ~R!Tells(e, n)
        BY <1>e, <3>1, SaidLast, SessionTyped DEF R!Says, R!Tells
      <4>2. QED  BY <2>1, <4>1, AnswerSaid, SessionTyped
    <3>2. QED  BY <1>12, <2>1, <3>1
  <2>3. \A f \in main' : f.at = "change" => f \in main /\ f # h
    BY <1>2, <1>g, <1>12
  <2>4. R!InOnePlace(inbox, wire', main', R!Done, n)
    BY <2>2, <2>3, HandlerLeft
  <2>5. n = c.id => R!Handled(n) \/ R!Nowhere(inbox, wire', main', {}, n)
    <3>1. CASE c.again
      BY <1>0, <1>2, <3>1 DEF R!Took, R!Handled
    <3>2. CASE ~c.again
      <4>1. h \notin main' /\ \A f \in main' : f.at = "change" => f \in main
        BY <1>2, <2>3
      <4>2. \A f \in main : R!Runs(f, n) /\ f \notin main' =>
              R!Nowhere(inbox, wire', main', R!Done, n)
        BY <2>2, <4>1, HandlerLeft
      <4>3. n = c.id => R!Runs(h, n)
        BY <1>0, <1>2, <3>2 DEF R!Runs
      <4>4. QED  BY <4>1, <4>2, <4>3 DEF R!Nowhere
    <3>3. QED  BY <3>1, <3>2
  <2>6. n # c.id /\ R!Handled(n)' => R!Handled(n)
    <3>1. SUFFICES ASSUME n # c.id, R!Handled(n)'
                   PROVE  R!Handled(n)
      OBVIOUS
    <3>2. ~R!Told(e, n) /\ ~R!Took(g, n)
      BY <1>e, <1>g, <3>1 DEF R!Told, R!Took
    <3>3. n \in DOMAIN receipts' => R!Handled(n)
      BY <1>8, <3>1 DEF R!Handled
    <3>4. \A i \in DOMAIN wire' : R!Told(wire'[i], n) => R!Handled(n)
      <4>1. CASE wire' = wire
        BY <4>1 DEF R!Handled
      <4>2. CASE R!Says(<<e>>)
        <5>1. wire' = Append(wire, e)
          BY <4>2, SaidLast, SessionTyped DEF R!Says
        <5>2. \A i \in DOMAIN wire' : (i \in DOMAIN wire /\ wire'[i] = wire[i]) \/ wire'[i] = e
          BY <5>1, SentLast, SessionTyped, SMTT(30)
        <5>3. QED  BY <3>2, <5>2 DEF R!Handled
      <4>3. QED  BY <1>12, <4>1, <4>2
    <3>5. \A f \in main' : R!Took(f, n) => R!Handled(n)
      BY <1>12, <3>2 DEF R!Handled
    <3>6. QED  BY <1>2, <3>1, <3>3, <3>4, <3>5 DEF R!Handled
  <2>7. n \in R!Done' => n \in R!Done \/ R!Nowhere(inbox, wire', main', {}, n)
    BY <1>2, <2>1, <2>5, <2>6 DEF R!Done
  <2>8. QED  BY <1>2, <2>4, <2>7, DoneIsLess
<1>23. R!TypeOK'
  <2>1. DOMAIN receipts' \subseteq 1..used'["change"]
    BY <1>2, <1>3, <1>8, SessionTyped DEF R!TypeOK, R!ChangeOK
  <2>2. invalidating' \in BOOLEAN
    BY <1>12, SessionTyped
  <2>3. QED  BY <1>2, <1>6, <1>14, <1>15, <1>17, <1>19, <2>1, <2>2, SessionTyped DEF R!TypeOK
<1>24. R!ReceiptsOK'
  BY <1>17 DEF R!ReceiptsOK
<1>25. QED  BY <1>14, <1>15, <1>16, <1>20, <1>21, <1>23, <1>24 DEF R!ListInv

-----------------------------------------------------------------------------
LEMMA FirstMessage ==
  ASSUME R!ListInv, wire # <<>>
  PROVE  R!MessageOK(R!Message)
BY TakenFirst, SessionTyped DEF R!Message, R!ListInv, R!WireOK

\* The renderer, on an answer or an event: it may show the list that comes, and ask for a
\* change of the collection that the message told of.
LEMMA AnswersKeep ==
  ASSUME R!ListInv, R!Main, UNCHANGED <<setting, used>>, wire # <<>>, R!Received,
         guardEpoch' \in Nat, unlocked' \in BOOLEAN, screen' \in {"locked", "unlocked"},
         view' \in R!Views \cup {None},
         coll' = coll \/ coll' = None \/ (R!BringsList(R!Message) /\ coll' = R!Message.coll),
         \/ inbox' = inbox
         \/ \E e : R!Sends(e) /\ R!CallOK(e)'
                   /\ \A n : ~R!Again(e, n) /\ (R!Asks(e, n) => R!Tells(R!Message, n))
  PROVE  R!ListInv'
<1>1. UNCHANGED <<receipts, revision, active, rev, main, open, keySession, invalidating, tails,
                  over>>
  BY DEF R!Main, R!mainState, R!documents
<1>2. wire' = Tail(wire)
  BY DEF R!Received
<1>3. R!AskedOnce'
  <2>1. SUFFICES ASSUME NEW n \in 1..setting["change"],
                        R!InOnePlace(inbox, wire, main, R!Done, n)
                 PROVE  R!InOnePlace(inbox', wire', main', R!Done', n)
    BY SessionTyped DEF R!AskedOnce
  <2>2. /\ R!InOnePlace(inbox, wire', main, R!Done, n)
        /\ R!Tells(R!Message, n) => R!Nowhere(inbox, wire', main, R!Done, n)
    BY <1>2, <2>1, SessionTyped, AnswerLeft DEF R!Message
  <2>3. ASSUME NEW e, R!Sends(e), \A k : R!Asks(e, k) => R!Tells(R!Message, k)
        PROVE  R!InOnePlace(inbox', wire', main, R!Done, n)
    <3>1. inbox' = Append(inbox, e)
      BY <2>3 DEF R!Sends
    <3>2. R!Asks(e, n) => R!Nowhere(inbox, wire', main, R!Done, n)
      BY <2>2, <2>3
    <3>3. QED  BY <2>2, <3>1, <3>2, SessionTyped, CallSent
  <2>4. R!InOnePlace(inbox', wire', main, R!Done, n)
    BY <2>2, <2>3
  <2>5. inbox' = inbox \/ \E e : inbox' = Append(inbox, e) /\ (R!Again(e, n) => R!Handled(n))
    BY DEF R!Sends
  <2>6. R!Handled(n)' => R!Handled(n)
    BY <1>1, <1>2, <2>5, SessionTyped, HandledBefore
  <2>7. n \in R!Done' => n \in R!Done
    BY <2>6 DEF R!Done
  <2>8. QED  BY <1>1, <2>4, <2>7, DoneIsLess
<1>4. \A v \in R!Vaults : rev[v] <= rev'[v]
  BY <1>1, SessionTyped
<1>5. inbox' = inbox \/ \E e : inbox' = Append(inbox, e) /\ R!CallOK(e)'
  BY DEF R!Sends
<1>6. \A g \in main' : g \in main
  BY <1>1
<1>7. QED  BY <1>1, <1>2, <1>3, <1>4, <1>5, <1>6, SessionTyped, StepKeeps

LEMMA AuthAnswerKeeps ==
  ASSUME R!ListInv, R!AuthAnswer
  PROVE  R!ListInv'
<1>1. wire # <<>> /\ R!Message.kind = "auth" /\ R!Received /\ UNCHANGED <<setting, used>>
       /\ R!Main
  BY DEF R!AuthAnswer, R!Event
<1>2. CASE R!Message.result = "ok" /\ R!Unlocks(R!Message.view) /\ UNCHANGED coll
  <2>1. PICK v : v = R!Message.view
    OBVIOUS
  <2>2. v \in R!Views
    BY <1>1, <1>2, <2>1, FirstMessage DEF R!MessageOK
  <2>3. PICK e : e = R!Lists([epoch |-> guardEpoch + 1, vault |-> v.vault], R!Nothing)
    OBVIOUS
  <2>4. /\ R!Sends(e) /\ guardEpoch' = guardEpoch + 1 /\ unlocked' = TRUE /\ screen' = "unlocked"
        /\ view' = v
    BY <1>2, <2>1, <2>3 DEF R!Unlocks, R!begin
  <2>5. e.kind = "list" /\ e.next.op = "none"
    BY <2>3 DEF R!Lists, R!Nothing
  <2>6. R!CallOK(e)' /\ \A n : ~R!Asks(e, n) /\ ~R!Again(e, n)
    BY <2>5 DEF R!CallOK, R!Asks, R!Again, R!ChangeOps
  <2>7. QED  BY <1>1, <1>2, <2>2, <2>4, <2>6, SessionTyped, AnswersKeep
<1>3. CASE R!Ignored
  <2>1. UNCHANGED <<inbox, guardEpoch, unlocked, screen, view, coll>>
    BY <1>3 DEF R!Ignored, R!guard, R!shown
  <2>2. QED  BY <1>1, <2>1, SessionTyped, AnswersKeep
<1>4. QED  BY <1>2, <1>3 DEF R!AuthAnswer

LEMMA OnAutoLockKeeps ==
  ASSUME R!ListInv, R!onAutoLock
  PROVE  R!ListInv'
<1>1. wire # <<>> /\ R!Received /\ UNCHANGED <<setting, used>> /\ R!Main
  BY DEF R!onAutoLock, R!Event
<1>2. CASE R!locks
  <2>1. PICK e : e = [kind |-> "lock"]
    OBVIOUS
  <2>2. /\ R!Sends(e) /\ guardEpoch' = guardEpoch + 1 /\ unlocked' = FALSE /\ screen' = "locked"
        /\ view' = None /\ coll' = None
    BY <1>2, <2>1 DEF R!locks, R!end
  <2>3. R!CallOK(e)' /\ \A n : ~R!Asks(e, n) /\ ~R!Again(e, n)
    BY <2>1 DEF R!CallOK, R!Asks, R!Again
  <2>4. QED  BY <1>1, <2>2, <2>3, SessionTyped, AnswersKeep
<1>3. CASE R!Ignored
  <2>1. UNCHANGED <<inbox, guardEpoch, unlocked, screen, view, coll>>
    BY <1>3 DEF R!Ignored, R!guard, R!shown
  <2>2. QED  BY <1>1, <2>1, SessionTyped, AnswersKeep
<1>4. QED  BY <1>2, <1>3 DEF R!onAutoLock

LEMMA SignOutAnswerKeeps ==
  ASSUME R!ListInv, R!SignOutAnswer
  PROVE  R!ListInv'
<1>1. wire # <<>> /\ R!Received /\ UNCHANGED <<setting, inbox, used>> /\ R!Main
  BY DEF R!SignOutAnswer, R!Event
<1>2. /\ guardEpoch' \in Nat /\ unlocked' \in BOOLEAN /\ screen' \in {"locked", "unlocked"}
      /\ view' \in R!Views \cup {None} /\ (coll' = coll \/ coll' = None)
  BY SessionTyped DEF R!SignOutAnswer, R!guard, R!shown, R!begin
<1>3. QED  BY <1>1, <1>2, SessionTyped, AnswersKeep

LEMMA InstallsView ==
  ASSUME R!ListInv, NEW v \in R!Views, R!installNewerSnapshot(v)
  PROVE  view' \in R!Views \cup {None}
BY SessionTyped DEF R!installNewerSnapshot

LEMMA OnVaultChangedKeeps ==
  ASSUME R!ListInv, R!onVaultChanged
  PROVE  R!ListInv'
<1>1. /\ wire # <<>> /\ R!Message.kind = "changed" /\ R!Received /\ R!Main
      /\ UNCHANGED <<setting, inbox, R!guard, screen, coll, used>>
      /\ R!installNewerSnapshot(R!Message.view)
  BY DEF R!onVaultChanged, R!Event
<1>2. view' \in R!Views \cup {None}
  <2>1. R!Message.view \in R!Views
    BY <1>1, FirstMessage DEF R!MessageOK
  <2>2. QED  BY <1>1, <2>1, InstallsView
<1>3. UNCHANGED <<guardEpoch, unlocked>>
  BY <1>1 DEF R!guard
<1>4. QED  BY <1>1, <1>2, <1>3, SessionTyped, AnswersKeep

LEMMA MutateAnswerKeeps ==
  ASSUME R!ListInv, R!MutateAnswer
  PROVE  R!ListInv'
<1>1. /\ wire # <<>> /\ R!Message.kind = "mutate" /\ R!Received /\ R!Main
      /\ UNCHANGED <<setting, inbox, R!guard, screen, coll, used>>
  BY DEF R!MutateAnswer, R!Event
<1>2. view' \in R!Views \cup {None}
  <2>1. CASE R!Message.result # "failed" /\ R!installNewerSnapshot(R!Message.view)
    <3>1. R!Message.view \in R!Views
      BY <1>1, <2>1, FirstMessage DEF R!MessageOK
    <3>2. QED  BY <2>1, <3>1, InstallsView
  <2>2. CASE view' = view
    BY <2>2, SessionTyped
  <2>3. QED  BY <2>1, <2>2 DEF R!MutateAnswer
<1>3. UNCHANGED <<guardEpoch, unlocked>>
  BY <1>1 DEF R!guard
<1>4. QED  BY <1>1, <1>2, <1>3, SessionTyped, AnswersKeep

LEMMA OnVaultSwitchedKeeps ==
  ASSUME R!ListInv, R!onVaultSwitched
  PROVE  R!ListInv'
<1>1. /\ wire # <<>> /\ R!Message.kind = "switched" /\ R!Received /\ R!Main
      /\ UNCHANGED <<setting, R!guard, R!shown, used>>
  BY DEF R!onVaultSwitched, R!Event
<1>2. UNCHANGED <<guardEpoch, unlocked, screen, view, coll>>
  BY <1>1 DEF R!guard, R!shown
<1>3. CASE inbox' = inbox
  BY <1>1, <1>2, <1>3, SessionTyped, AnswersKeep
<1>4. CASE R!Sends(R!Lists(R!Scope, [op |-> "install", view |-> R!Message.view]))
  <2>1. PICK next : next = [op |-> "install", view |-> R!Message.view]
    OBVIOUS
  <2>2. PICK e : e = R!Lists(R!Scope, next)
    OBVIOUS
  <2>3. R!Message.view \in R!Views
    BY <1>1, FirstMessage DEF R!MessageOK
  <2>4. e.kind = "list" /\ e.next.op = "install" /\ e.next.view \in R!Views
    BY <2>1, <2>2, <2>3 DEF R!Lists
  <2>5. R!CallOK(e)' /\ \A n : ~R!Asks(e, n) /\ ~R!Again(e, n)
    BY <2>4 DEF R!CallOK, R!Asks, R!Again, R!ChangeOps
  <2>6. R!Sends(e)
    BY <1>4, <2>1, <2>2
  <2>7. QED  BY <1>1, <1>2, <2>5, <2>6, SessionTyped, AnswersKeep
<1>5. QED  BY <1>3, <1>4 DEF R!onVaultSwitched

LEMMA ListAnswerKeeps ==
  ASSUME R!ListInv, R!ListAnswer
  PROVE  R!ListInv'
<1>0. PICK call, next : call = R!Message.call /\ next = call.next
  OBVIOUS
<1>1. wire # <<>> /\ R!Message.kind = "list" /\ R!Received /\ UNCHANGED <<setting, used>>
       /\ R!Main
  BY DEF R!ListAnswer, R!Event
<1>2. /\ call.kind = "list"
      /\ next.op = "install" => next.view \in R!Views
      /\ next.op \notin {"none", "install"} => R!ChangeOK(next)
  BY <1>0, <1>1, FirstMessage DEF R!MessageOK, R!CallOK, R!ChangeOK, R!ChangeOps
<1>3. UNCHANGED <<receipts, revision, active, rev>>
  BY <1>1 DEF R!Main, R!documents
<1>4. CASE R!Ignored
  <2>1. UNCHANGED <<inbox, guardEpoch, unlocked, screen, view, coll>>
    BY <1>4 DEF R!Ignored, R!guard, R!shown
  <2>2. QED  BY <1>1, <2>1, SessionTyped, AnswersKeep
<1>5. CASE /\ R!Message.result # "failed" /\ coll' = R!Message.coll
           /\ UNCHANGED <<inbox, R!guard, screen, view>>
  <2>1. UNCHANGED <<guardEpoch, unlocked>> /\ R!BringsList(R!Message)
    BY <1>1, <1>5 DEF R!guard, R!BringsList
  <2>2. QED  BY <1>1, <1>5, <2>1, SessionTyped, AnswersKeep
<1>6. CASE /\ R!Message.result # "failed" /\ next.op = "install" /\ UNCHANGED inbox
           /\ R!installVaultScope(next.view, R!Message.coll)
  <2>1. /\ guardEpoch' = guardEpoch + 1 /\ unlocked' = TRUE /\ screen' = "unlocked"
        /\ view' = next.view /\ coll' = R!Message.coll
    BY <1>6 DEF R!installVaultScope, R!begin
  <2>2. R!BringsList(R!Message)
    BY <1>1, <1>6 DEF R!BringsList
  <2>3. QED  BY <1>1, <1>2, <1>6, <2>1, <2>2, SessionTyped, AnswersKeep
<1>7. CASE /\ R!Message.result # "failed" /\ next.op \notin {"none", "install"}
           /\ coll' = R!Message.coll
           /\ R!Sends(R!Changes(call.scope, next, R!Message.coll.revision, FALSE))
           /\ UNCHANGED <<R!guard, screen, view>>
  <2>1. UNCHANGED <<guardEpoch, unlocked>> /\ R!BringsList(R!Message)
    BY <1>1, <1>7 DEF R!guard, R!BringsList
  <2>2. PICK e : e = R!Changes(call.scope, next, R!Message.coll.revision, FALSE)
    OBVIOUS
  <2>3. /\ e.kind = "change" /\ e.op = next.op /\ e.target = next.target /\ e.id = next.id
        /\ ~e.again
    BY <2>2 DEF R!Changes
  <2>4. R!CallOK(e)'
    <3>1. R!ChangeOK(e)
      BY <1>2, <1>7, <2>3 DEF R!ChangeOK
    <3>2. R!CallOK(e)
      BY <2>3, <3>1 DEF R!CallOK
    <3>3. QED  BY <1>1, <1>3, <3>2, CallsStand
  <2>5. ASSUME NEW n, R!Asks(e, n)
        PROVE  R!Tells(R!Message, n)
    <3>1. next.id = n /\ next.op \in R!ChangeOps
      BY <1>2, <1>7, <2>3, <2>5 DEF R!Asks, R!ChangeOK
    <3>2. QED  BY <1>0, <1>1, <1>2, <3>1 DEF R!Tells, R!Asks
  <2>6. R!Sends(e)
    BY <1>7, <2>2
  <2>7. \A n : ~R!Again(e, n)
    BY <2>3 DEF R!Again
  <2>8. QED  BY <1>1, <1>7, <2>1, <2>4, <2>5, <2>6, <2>7, SessionTyped, AnswersKeep
<1>8. QED  BY <1>0, <1>4, <1>5, <1>6, <1>7 DEF R!ListAnswer

LEMMA ChangeAnswerKeeps ==
  ASSUME R!ListInv, R!ChangeAnswer
  PROVE  R!ListInv'
<1>1. /\ wire # <<>> /\ R!Message.kind = "change" /\ R!Received /\ R!Main
      /\ UNCHANGED <<setting, inbox, used>>
  BY DEF R!ChangeAnswer, R!Event
<1>2. CASE UNCHANGED <<R!guard, R!shown>>
  <2>1. UNCHANGED <<guardEpoch, unlocked, screen, view, coll>>
    BY <1>2 DEF R!guard, R!shown
  <2>2. QED  BY <1>1, <2>1, SessionTyped, AnswersKeep
<1>3. CASE /\ R!Message.result = "ok" /\ R!Message.view # None
           /\ R!installVaultScope(R!Message.view, R!Message.coll)
  <2>1. /\ guardEpoch' = guardEpoch + 1 /\ unlocked' = TRUE /\ screen' = "unlocked"
        /\ view' = R!Message.view /\ coll' = R!Message.coll
    BY <1>3 DEF R!installVaultScope, R!begin
  <2>2. R!BringsList(R!Message)
    BY <1>1, <1>3 DEF R!BringsList
  <2>3. R!Message.view \in R!Views
    BY <1>1, <1>3, FirstMessage DEF R!MessageOK
  <2>4. QED  BY <1>1, <2>1, <2>2, <2>3, SessionTyped, AnswersKeep
<1>4. CASE /\ R!Message.result # "failed" /\ coll' = R!Message.coll
           /\ UNCHANGED <<R!guard, screen, view>>
  <2>1. UNCHANGED <<guardEpoch, unlocked>> /\ R!BringsList(R!Message)
    BY <1>1, <1>4 DEF R!guard, R!BringsList
  <2>2. QED  BY <1>1, <1>4, <2>1, SessionTyped, AnswersKeep
<1>5. QED  BY <1>2, <1>3, <1>4 DEF R!ChangeAnswer

LEMMA AnswerLostKeeps ==
  ASSUME R!ListInv, R!AnswerLost
  PROVE  R!ListInv'
<1>0. PICK call : call = R!Message.call
  OBVIOUS
<1>1. /\ wire # <<>> /\ R!Message.kind = "change" /\ wire' = Tail(wire) /\ R!Main
      /\ UNCHANGED <<setting, R!guard, R!shown>> /\ R!Uses("fault")
  BY DEF R!AnswerLost, R!Event, R!Received
<1>2. UNCHANGED <<guardEpoch, unlocked, screen, view, coll, receipts, revision, active, rev,
                  main, open,
                  keySession, invalidating, tails, over>>
  BY <1>1 DEF R!guard, R!shown, R!Main, R!mainState, R!documents
<1>3. used' = used \/ \E k \in R!Kinds : R!Uses(k)
  BY <1>1 DEF R!Kinds
<1>5. Onwards
  <2>1. used' \in [R!Kinds -> Nat] /\ \A k \in R!Kinds : used[k] <= used'[k]
    BY <1>1, <1>3, SessionTyped, UsesCount
  <2>2. "change" \in R!Kinds
    BY DEF R!Kinds
  <2>3. R!Existing' = R!Existing
    BY <1>2 DEF R!Existing
  <2>4. QED  BY <1>2, <2>1, <2>2, <2>3, SessionTyped DEF Onwards, R!Recorded
<1>6. inbox' = inbox
        \/ \E e : /\ inbox' = Append(inbox, e) /\ R!CallOK(e)'
                  /\ \A n : ~R!Asks(e, n) /\ (R!Again(e, n) => R!Handled(n))
  <2>1. CASE R!Sends(R!Changes(call.scope, call, call.expected, TRUE))
    <3>1. PICK e : e = R!Changes(call.scope, call, call.expected, TRUE)
      OBVIOUS
    <3>2. /\ e.kind = "change" /\ e.op = call.op /\ e.target = call.target /\ e.id = call.id
          /\ e.again
      BY <3>1 DEF R!Changes
    <3>3. R!ChangeOK(call)
      BY <1>0, <1>1, FirstMessage DEF R!MessageOK, R!CallOK
    <3>4. R!CallOK(e)
      BY <3>2, <3>3 DEF R!CallOK, R!ChangeOK
    <3>5. R!CallOK(e)'
      BY <1>5, <3>4, CallStays, SessionTyped
    <3>6. R!Told(wire[1], call.id) /\ 1 \in DOMAIN wire
      BY <1>0, <1>1, TakenFirst, SessionTyped DEF R!Told, R!Message
    <3>7. R!Handled(call.id)
      BY <3>6 DEF R!Handled
    <3>8. \A n : ~R!Asks(e, n) /\ (R!Again(e, n) => R!Handled(n))
      BY <3>2, <3>7 DEF R!Asks, R!Again
    <3>9. QED  BY <2>1, <3>1, <3>5, <3>8 DEF R!Sends
  <2>2. QED  BY <1>0, <2>1 DEF R!AnswerLost
<1>7. \A v \in R!Vaults : rev[v] <= rev'[v]
  BY <1>2, SessionTyped
<1>8. \A g \in main' : g \in main
  BY <1>2
<1>9. UNCHANGED setting
  BY <1>1
<1>4. R!AskedOnce'
  BY <1>1, <1>2, <1>6, SessionTyped, AskedStays
<1>10. QED  BY <1>1, <1>2, <1>3, <1>4, <1>6, <1>7, <1>8, <1>9, SessionTyped, StepKeeps

-----------------------------------------------------------------------------
LEMMA InitListInv ==
  ASSUME R!Init
  PROVE  R!ListInv
<1>1. R!Vaults \subseteq Nat /\ 1 \in R!Vaults /\ rev[1] = 1 /\ rev \in [R!Vaults -> Nat]
  BY RendererAssumption DEF R!Init, R!Vaults
<1>2. 1 \in R!Existing
  BY <1>1 DEF R!Existing
<1>3. R!IsSequence(inbox) /\ R!IsSequence(wire)
  BY DEF R!Init, R!IsSequence
<1>4. R!TypeOK
  <2>1. setting \in [R!Kinds -> Nat]
    BY RendererAssumption DEF R!Init
  <2>2. DOMAIN receipts \subseteq 1..used["change"] /\ \A n \in DOMAIN receipts : FALSE
    BY DEF R!Init
  <2>3. used \in [R!Kinds -> Nat] /\ \A k \in R!Kinds : used[k] <= setting[k]
    BY <2>1 DEF R!Init
  <2>4. QED  BY <1>1, <1>2, <1>3, <2>2, <2>3 DEF R!Init, R!TypeOK
<1>5. R!InboxOK /\ R!MainOK /\ R!WireOK /\ R!ReceiptsOK
  BY DEF R!Init, R!InboxOK, R!MainOK, R!WireOK, R!ReceiptsOK
<1>6. R!ListsInOrder
  BY DEF R!Init, R!ListsInOrder
<1>7. R!AskedOnce
  BY DEF R!Init, R!AskedOnce, R!InOnePlace
<1>8. QED  BY <1>4, <1>5, <1>6, <1>7 DEF R!ListInv

LEMMA NextListInv ==
  ASSUME R!ListInv, R!Next
  PROVE  R!ListInv'
<1>1. CASE R!User
  BY <1>1, AuthenticateKeeps, LockKeeps, SignOutKeeps, RunVaultCommandKeeps, CaptureKeeps DEF R!User
<1>2. CASE R!Handlers
  BY <1>2, TakeAuthKeeps, TakeLockKeeps, TakeSignOutKeeps, TakeMutateKeeps, TakeListKeeps,
     TakeChangeKeeps, LocksHereKeep, EditedKeeps, AuthenticatedKeeps, MutatedKeeps,
     ChangeCommitsKeeps, ChangeRefusedKeeps, SnapshotKeeps, SnapshotFailsKeeps DEF R!Handlers
<1>3. CASE R!Answers
  BY <1>3, AuthAnswerKeeps, OnAutoLockKeeps, SignOutAnswerKeeps, OnVaultChangedKeeps,
     MutateAnswerKeeps, OnVaultSwitchedKeeps, ListAnswerKeeps, ChangeAnswerKeeps,
     AnswerLostKeeps DEF R!Answers
<1>4. QED  BY <1>1, <1>2, <1>3 DEF R!Next

LEMMA StaysListInv ==
  ASSUME R!ListInv, UNCHANGED rendererVars
  PROVE  R!ListInv'
<1>1. UNCHANGED <<setting, inbox, wire, main, open, keySession, invalidating, tails, leaving, over,
                  active, rev, revision, receipts, guardEpoch, unlocked, screen, view, coll, used>>
  BY DEF rendererVars
<1>2. R!TypeOK'
  BY <1>1 DEF R!ListInv, R!TypeOK, R!Existing, R!IsSequence
<1>3. R!InboxOK' /\ R!MainOK' /\ R!WireOK' /\ R!ReceiptsOK'
  BY <1>1 DEF R!ListInv, R!InboxOK, R!CallOK, R!ChangeOK, R!Existing, R!MainOK, R!HandlerOK,
              R!WireOK, R!MessageOK, R!BringsList, R!ReceiptsOK, R!Recorded
<1>4. R!ListsInOrder'
  BY <1>1 DEF R!ListInv, R!ListsInOrder, R!BringsList, R!InOrder, R!Refreshes, R!Installs,
              R!Repeats
<1>5. R!AskedOnce'
  BY <1>1 DEF R!ListInv, R!AskedOnce, R!Done, R!Handled
<1>6. QED  BY <1>2, <1>3, <1>4, <1>5 DEF R!ListInv

-----------------------------------------------------------------------------
\* What is shown goes on.

LEMMA ShownStays ==
  ASSUME R!ListInv, UNCHANGED <<view, coll>> \/ (guardEpoch' = guardEpoch + 1)
  PROVE  R!NothingGoesBack
<1>1. view # None => view.rev \in Nat
  BY SessionTyped DEF R!Views
<1>2. coll # None => coll.revision \in Nat
  BY SessionTyped DEF R!TypeOK, R!Collections
<1>3. guardEpoch \in Nat
  BY SessionTyped
<1>4. QED  BY <1>1, <1>2, <1>3 DEF R!NothingGoesBack, R!ListStays

LEMMA NewerSnapshot ==
  ASSUME R!ListInv, NEW v \in R!Views, R!installNewerSnapshot(v), UNCHANGED coll
  PROVE  R!NothingGoesBack
<1>1. CASE view' = view
  BY <1>1, ShownStays
<1>2. CASE view # None /\ R!canInstallVaultSnapshot(v) /\ view' = v
  <2>1. view.rev \in Nat /\ v.rev \in Nat
    BY <1>2, SessionTyped DEF R!Views
  <2>2. coll # None => coll.revision \in Nat
    BY SessionTyped DEF R!TypeOK, R!Collections
  <2>3. QED  BY <1>2, <2>1, <2>2 DEF R!NothingGoesBack, R!ListStays, R!canInstallVaultSnapshot
<1>3. QED  BY <1>1, <1>2 DEF R!installNewerSnapshot

LEMMA NewerList ==
  ASSUME R!ListInv, wire # <<>>, R!Refreshes(R!Message), coll' = R!Message.coll,
         UNCHANGED view
  PROVE  R!NothingGoesBack
<1>1. 1 \in DOMAIN wire /\ R!Message = wire[1]
  BY SessionTyped, TakenFirst DEF R!Message
<1>2. R!Message.coll.revision \in Nat /\ (coll # None => coll.revision \in Nat)
  BY SessionTyped, FirstMessage DEF R!MessageOK, R!Refreshes, R!TypeOK, R!Collections
<1>3. view # None => view.rev \in Nat
  BY SessionTyped DEF R!Views
<1>4. CASE R!InOrder(R!Message)
  <2>1. coll # None => coll.revision <= R!Message.coll.revision
    BY <1>1, <1>4 DEF R!ListInv, R!ListsInOrder
  <2>2. QED  BY <1>2, <1>3, <2>1 DEF R!NothingGoesBack, R!ListStays
<1>5. CASE R!Repeats(R!Message)
  <2>1. R!Event("change") /\ coll' = receipts[R!Message.call.id]
    BY <1>5, FirstMessage DEF R!MessageOK, R!Recorded, R!Repeats, R!Event
  <2>2. QED  BY <1>3, <1>5, <2>1 DEF R!NothingGoesBack
<1>6. QED  BY <1>4, <1>5 DEF R!InOrder

LEMMA NextGoesOn ==
  ASSUME R!ListInv, R!Next
  PROVE  R!NothingGoesBack
<1>1. CASE R!User
  <2>1. UNCHANGED <<view, coll>> \/ guardEpoch' = guardEpoch + 1
    BY <1>1 DEF R!User, R!Authenticate, R!lock, R!locks, R!end, R!signOut, R!runVaultCommand,
                R!captureVaultCollectionMutation, R!Renderer, R!shown
  <2>2. QED  BY <2>1, ShownStays
<1>2. CASE R!Handlers
  <2>1. R!Renderer
    BY <1>2 DEF R!Handlers, R!TakeAuth, R!TakeLock, R!TakeSignOut, R!TakeMutate, R!TakeList,
                R!TakeChange, R!LockHere, R!LockTail, R!Edited, R!SignedOut, R!Authenticated,
                R!Mutated, R!AnswersOnly, R!ChangeCommits, R!ChangeRefused, R!Snapshot,
                R!SnapshotFails
  <2>2. QED  BY <2>1, ShownStays DEF R!Renderer, R!shown
<1>3. CASE R!AuthAnswer \/ R!onAutoLock \/ R!SignOutAnswer \/ R!onVaultSwitched \/ R!AnswerLost
  <2>1. UNCHANGED <<view, coll>> \/ guardEpoch' = guardEpoch + 1 \/ (view' = None /\ coll' = None)
    BY <1>3 DEF R!AuthAnswer, R!Unlocks, R!begin, R!Ignored, R!onAutoLock, R!locks, R!end,
                R!SignOutAnswer, R!onVaultSwitched, R!AnswerLost, R!shown
  <2>2. QED  BY <2>1, ShownStays DEF R!NothingGoesBack, R!ListStays
<1>4. CASE R!onVaultChanged \/ R!MutateAnswer
  <2>1. wire # <<>> /\ UNCHANGED coll
    BY <1>4 DEF R!onVaultChanged, R!MutateAnswer, R!Event
  <2>2. \/ UNCHANGED <<view, coll>>
        \/ R!Message.view \in R!Views /\ R!installNewerSnapshot(R!Message.view)
    BY <1>4, <2>1, FirstMessage DEF R!onVaultChanged, R!MutateAnswer, R!Event, R!MessageOK
  <2>3. QED  BY <2>1, <2>2, ShownStays, NewerSnapshot
<1>5. CASE R!ListAnswer
  <2>1. wire # <<>> /\ R!Message.kind = "list"
    BY <1>5 DEF R!ListAnswer, R!Event
  <2>2. \/ UNCHANGED <<view, coll>>
        \/ guardEpoch' = guardEpoch + 1
        \/ R!Message.result # "failed" /\ coll' = R!Message.coll /\ UNCHANGED view
    BY <1>5 DEF R!ListAnswer, R!Ignored, R!shown, R!installVaultScope, R!begin
  <2>3. QED  BY <2>1, <2>2, ShownStays, NewerList DEF R!Refreshes, R!BringsList, R!Installs
<1>6. CASE R!ChangeAnswer
  <2>1. wire # <<>> /\ R!Message.kind = "change"
    BY <1>6 DEF R!ChangeAnswer, R!Event
  <2>2. \/ UNCHANGED <<view, coll>>
        \/ guardEpoch' = guardEpoch + 1
        \/ /\ R!Message.result # "failed" /\ ~R!Installs(R!Message)
           /\ coll' = R!Message.coll /\ UNCHANGED view
    BY <1>6 DEF R!ChangeAnswer, R!shown, R!installVaultScope, R!begin, R!Installs
  <2>3. QED  BY <2>1, <2>2, ShownStays, NewerList DEF R!Refreshes, R!BringsList
<1>7. QED  BY <1>1, <1>2, <1>3, <1>4, <1>5, <1>6 DEF R!Next, R!Answers

LEMMA StaysGoesOn ==
  ASSUME R!ListInv, UNCHANGED rendererVars
  PROVE  R!NothingGoesBack
BY ShownStays DEF rendererVars, R!shown

-----------------------------------------------------------------------------
(* The two sides of the keySession *)

\* A channel that lost its first d, none of them of these kinds, and got none of them.
Conveys(s, t, d, kinds) ==
  /\ d \in Nat
  /\ \A i \in DOMAIN s : i \in Nat
  /\ \A i \in DOMAIN t :
          i \in Nat /\ (t[i].kind \in kinds => i + d \in DOMAIN s /\ s[i + d] = t[i])
  /\ \A i \in DOMAIN s : s[i].kind \in kinds => i - d \in DOMAIN t /\ t[i - d] = s[i]

LEMMA ConveysAll ==
  ASSUME NEW s, R!IsSequence(s), NEW kinds
  PROVE  Conveys(s, s, 0, kinds)
<1>1. Len(s) \in Nat /\ DOMAIN s = 1..Len(s)
  BY DEF R!IsSequence
<1>2. QED  BY <1>1 DEF Conveys

LEMMA ConveysTail ==
  ASSUME NEW s, R!IsSequence(s), s # <<>>, NEW kinds, Head(s).kind \notin kinds,
         NEW t, t = Tail(s)
  PROVE  Conveys(s, t, 1, kinds)
<1>1. /\ Len(s) \in Nat \ {0} /\ DOMAIN s = 1..Len(s) /\ DOMAIN t = 1..(Len(s) - 1)
      /\ Head(s) = s[1] /\ \A i \in DOMAIN t : t[i] = s[i + 1]
  BY TakenFirst
<1>2. QED  BY <1>1 DEF Conveys

LEMMA ConveysMore ==
  ASSUME NEW s, R!IsSequence(s), NEW kinds, NEW e, e.kind \notin kinds, NEW t, t = Append(s, e)
  PROVE  Conveys(s, t, 0, kinds)
<1>1. /\ Len(s) \in Nat /\ DOMAIN s = 1..Len(s) /\ DOMAIN t = 1..(Len(s) + 1)
      /\ t[Len(s) + 1] = e /\ \A i \in DOMAIN s : t[i] = s[i]
  BY SentLast
<1>2. QED  BY <1>1 DEF Conveys

\* What opens, keeps open or ends a session, by channel.
CallKinds    == {"auth", "lock", "signOut"}
MessageKinds == {"auth", "autoLock", "signOut"}

LEMMA InboxCarried ==
  ASSUME R!IsSequence(inbox),
         \/ inbox' = inbox
         \/ inbox # <<>> /\ R!Call.kind \notin CallKinds /\ inbox' = Tail(inbox)
         \/ \E e : e.kind \notin CallKinds /\ inbox' = Append(inbox, e)
  PROVE  \E d : Conveys(inbox, inbox', d, CallKinds)
<1>1. PICK t : t = inbox'
  OBVIOUS
<1>2. CASE inbox' = inbox
  BY <1>2, ConveysAll
<1>3. CASE inbox # <<>> /\ R!Call.kind \notin CallKinds /\ inbox' = Tail(inbox)
  BY <1>1, <1>3, ConveysTail DEF R!Call
<1>4. CASE \E e : e.kind \notin CallKinds /\ inbox' = Append(inbox, e)
  BY <1>1, <1>4, ConveysMore
<1>5. QED  BY <1>2, <1>3, <1>4

LEMMA WireCarried ==
  ASSUME R!IsSequence(wire),
         \/ wire' = wire
         \/ wire # <<>> /\ R!Message.kind \notin MessageKinds /\ wire' = Tail(wire)
         \/ \E e : e.kind \notin MessageKinds /\ R!Says(<<e>>)
         \/ \E d, e : d.kind \notin MessageKinds /\ e.kind \notin MessageKinds /\ R!Says(<<d, e>>)
  PROVE  \E d : Conveys(wire, wire', d, MessageKinds)
<1>1. PICK t : t = wire'
  OBVIOUS
<1>2. CASE wire' = wire
  BY <1>2, ConveysAll
<1>3. CASE wire # <<>> /\ R!Message.kind \notin MessageKinds /\ wire' = Tail(wire)
  BY <1>1, <1>3, ConveysTail DEF R!Message
<1>4. ASSUME NEW e, e.kind \notin MessageKinds, R!Says(<<e>>)
      PROVE  \E d : Conveys(wire, wire', d, MessageKinds)
  <2>1. t = Append(wire, e)
    BY <1>1, <1>4, SaidLast DEF R!Says
  <2>2. QED  BY <1>1, <1>4, <2>1, ConveysMore
<1>5. ASSUME NEW d, NEW e, d.kind \notin MessageKinds, e.kind \notin MessageKinds,
             R!Says(<<d, e>>)
      PROVE  \E k : Conveys(wire, wire', k, MessageKinds)
  <2>0. PICK s : s = Append(wire, d)
    OBVIOUS
  <2>1. t = Append(s, e)
    BY <1>1, <1>5, <2>0, SaidBoth DEF R!Says
  <2>2. R!IsSequence(s) /\ Conveys(wire, s, 0, MessageKinds)
    BY <1>5, <2>0, SentLast, ConveysMore
  <2>3. Conveys(s, t, 0, MessageKinds)
    BY <1>5, <2>1, <2>2, ConveysMore
  <2>4. Conveys(wire, t, 0, MessageKinds)
    BY <2>2, <2>3 DEF Conveys
  <2>5. QED  BY <1>1, <2>4
<1>6. QED  BY <1>2, <1>3, <1>4, <1>5

\* What a step shows that changes neither side of the session.
LEMMA QuietStep ==
  ASSUME R!ListInv, R!TwoSides,
         UNCHANGED <<guardEpoch, unlocked, screen, open, tails>>, view' = None <=> view = None,
         keySession' \in Nat, keySession <= keySession',
         \A h \in main' : h.at = "auth" => h \in main /\ (R!Current(h)' => R!Current(h)),
         \/ inbox' = inbox
         \/ inbox # <<>> /\ R!Call.kind \notin CallKinds /\ inbox' = Tail(inbox)
         \/ \E e : e.kind \notin CallKinds /\ inbox' = Append(inbox, e),
         \/ wire' = wire
         \/ wire # <<>> /\ R!Message.kind \notin MessageKinds /\ wire' = Tail(wire)
         \/ \E e : e.kind \notin MessageKinds /\ R!Says(<<e>>)
         \/ \E d, e : d.kind \notin MessageKinds /\ e.kind \notin MessageKinds /\ R!Says(<<d, e>>)
  PROVE  R!TwoSides'
<1>1. PICK d : Conveys(inbox, inbox', d, CallKinds)
  BY InboxCarried, SessionTyped
<1>2. PICK k : Conveys(wire, wire', k, MessageKinds)
  BY WireCarried, SessionTyped
<1>3. /\ d \in Nat /\ \A i \in DOMAIN inbox : i \in Nat
      /\ \A i \in DOMAIN inbox' : /\ i \in Nat
                                  /\ inbox'[i].kind \in {"auth", "lock", "signOut"} =>
                                       i + d \in DOMAIN inbox /\ inbox[i + d] = inbox'[i]
      /\ \A i \in DOMAIN inbox : inbox[i].kind \in {"auth", "lock", "signOut"} =>
                                       i - d \in DOMAIN inbox' /\ inbox'[i - d] = inbox[i]
  BY <1>1 DEF Conveys, CallKinds
<1>4. /\ k \in Nat /\ \A i \in DOMAIN wire : i \in Nat
      /\ \A i \in DOMAIN wire' : /\ i \in Nat
                                 /\ wire'[i].kind \in {"auth", "autoLock", "signOut"} =>
                                      i + k \in DOMAIN wire /\ wire[i + k] = wire'[i]
      /\ \A i \in DOMAIN wire : wire[i].kind \in {"auth", "autoLock", "signOut"} =>
                                      i - k \in DOMAIN wire' /\ wire'[i - k] = wire[i]
  BY <1>2 DEF Conveys, MessageKinds
<1>5. R!EpochsSeen'
  <2>1. R!EpochsSeen /\ keySession \in Nat
    BY SessionTyped DEF R!TwoSides
  <2>2. \A i \in DOMAIN inbox' : /\ inbox'[i].kind = "auth" => R!Attempt(inbox[i].epoch)'
                                 /\ inbox'[i].kind = "signOut" => R!Leaves(inbox[i].epoch)'
    BY <1>3, <2>1 DEF R!EpochsSeen, R!Attempt, R!Leaves
  <2>3. \A h \in main' : h.at = "auth" =>
          /\ h.call.kind = "auth" /\ R!Attempt(h.call.epoch)'
          /\ h.session \in Nat /\ h.session <= keySession'
    BY <2>1 DEF R!EpochsSeen, R!Attempt
  <2>4. \A i \in DOMAIN wire' :
          /\ wire'[i].kind = "auth" => R!Attempt(wire[i].call.epoch)'
          /\ wire'[i].kind = "signOut" =>
                  R!Leaves(wire[i].call.epoch)' /\ wire'[i].result = "failed"
    BY <1>4, <2>1 DEF R!EpochsSeen, R!Attempt, R!Leaves
  <2>5. QED  BY <2>2, <2>3, <2>4 DEF R!EpochsSeen
<1>6. R!ShownWhole'
  BY DEF R!TwoSides, R!ShownWhole
<1>7. R!NoEndBehind'
  <2>0. R!NoEndBehind
    BY DEF R!TwoSides
  <2>1. ASSUME NEW i \in DOMAIN inbox', NEW j \in DOMAIN inbox', i < j, inbox'[i].kind = "auth",
               inbox'[i].epoch = guardEpoch, inbox'[j].kind \in {"lock", "signOut"}
        PROVE  FALSE
    <3>0. i \in Nat /\ j \in Nat /\ d \in Nat
      BY <1>3
    <3>1. i + d \in DOMAIN inbox /\ inbox[i + d] = inbox'[i]
      BY <1>3, <2>1
    <3>2. j + d \in DOMAIN inbox /\ inbox[j + d] = inbox'[j]
      BY <1>3, <2>1
    <3>3. i + d < j + d
      BY <2>1, <3>0
    <3>4. QED  BY <2>0, <2>1, <3>1, <3>2, <3>3 DEF R!NoEndBehind, R!EndsAccess
  <2>2. \A j \in DOMAIN inbox' : inbox'[j].kind \in {"lock", "signOut"} =>
          \E i \in DOMAIN inbox : inbox[i].kind = inbox'[j].kind
    BY <1>3
  <2>3. \A h \in main' : h.at = "auth" /\ h.call.epoch = guardEpoch =>
          \A j \in DOMAIN inbox' : inbox'[j].kind \notin {"lock", "signOut"}
    BY <2>0, <2>2 DEF R!NoEndBehind, R!EndsAccess
  <2>4. \A i \in DOMAIN wire' : wire'[i].kind = "auth" /\ wire'[i].call.epoch = guardEpoch =>
          \A j \in DOMAIN inbox' : inbox'[j].kind \notin {"lock", "signOut"}
    BY <1>4, <2>0, <2>2 DEF R!NoEndBehind, R!EndsAccess
  <2>5. screen = "unlocked" => \A j \in DOMAIN inbox' : inbox'[j].kind # "lock"
    BY <2>0, <2>2 DEF R!NoEndBehind
  <2>6. QED  BY <2>1, <2>3, <2>4, <2>5 DEF R!NoEndBehind, R!EndsAccess
<1>8. R!LearnsOfLock'
  <2>1. (\E j \in DOMAIN wire : wire[j].kind = "autoLock") =>
          \E j \in DOMAIN wire' : wire'[j].kind = "autoLock"
    BY <1>4
  <2>2. ASSUME ~open, tails = 0, NEW i \in DOMAIN wire', R!Opens(wire[i])'
        PROVE  \E j \in DOMAIN wire' : i < j /\ wire'[j].kind = "autoLock"
    <3>1. i + k \in DOMAIN wire /\ R!Opens(wire[i + k])
      BY <1>4, <2>2 DEF R!Opens
    <3>2. PICK j \in DOMAIN wire : i + k < j /\ wire[j].kind = "autoLock"
      BY <2>2, <3>1 DEF R!TwoSides, R!LearnsOfLock
    <3>3. j - k \in DOMAIN wire' /\ i < j - k /\ wire'[j - k] = wire[j]
      BY <1>4, <3>2
    <3>4. QED  BY <3>2, <3>3
  <2>3. tails \in Nat
    BY SessionTyped
  <2>4. QED  BY <2>1, <2>2, <2>3 DEF R!TwoSides, R!LearnsOfLock
<1>9. R!SignsOut'
  <2>1. R!SignsOut
    BY DEF R!TwoSides
  <2>2. ASSUME NEW i \in DOMAIN inbox, inbox[i].kind = "signOut", inbox[i].epoch = guardEpoch
        PROVE  \E j \in DOMAIN inbox' : inbox'[j].kind = "signOut" /\ inbox'[j].epoch = guardEpoch
    <3>1. i - d \in DOMAIN inbox' /\ inbox'[i - d] = inbox[i]
      BY <1>3, <2>2
    <3>2. QED  BY <2>2, <3>1
  <2>3. ASSUME NEW i \in DOMAIN wire, R!Reopens(wire[i])
        PROVE  \E j \in DOMAIN wire' : R!Reopens(wire[j])'
    <3>1. i - k \in DOMAIN wire' /\ wire'[i - k] = wire[i]
      BY <1>4, <2>3 DEF R!Reopens
    <3>2. QED  BY <2>3, <3>1 DEF R!Reopens
  <2>4. QED  BY <2>1, <2>2, <2>3 DEF R!SignsOut
<1>10. R!EndIsSent'
  <2>1. (\E i \in DOMAIN inbox : R!Closes(inbox[i])) =>
             \E i \in DOMAIN inbox' : R!Closes(inbox[i])'
    BY <1>3 DEF R!Closes
  <2>2. /\ (\E i \in DOMAIN wire : R!Opens(wire[i])) => \E i \in DOMAIN wire' : R!Opens(wire[i])'
        /\ (\E i \in DOMAIN wire : R!Reopens(wire[i])) =>
                \E i \in DOMAIN wire' : R!Reopens(wire[i])'
    BY <1>4 DEF R!Opens, R!Reopens
  <2>3. ASSUME ~unlocked, NEW i \in DOMAIN inbox', inbox'[i].kind = "auth",
               inbox'[i].epoch # guardEpoch
        PROVE  \E j \in DOMAIN inbox' : i < j /\ R!Closes(inbox[j])'
    <3>1. i + d \in DOMAIN inbox /\ inbox[i + d] = inbox'[i]
      BY <1>3, <2>3
    <3>2. PICK j \in DOMAIN inbox : i + d < j /\ R!Closes(inbox[j])
      BY <2>3, <3>1 DEF R!TwoSides, R!EndIsSent
    <3>3. j - d \in DOMAIN inbox' /\ i < j - d /\ inbox'[j - d] = inbox[j]
      BY <1>3, <3>2 DEF R!Closes
    <3>4. QED  BY <3>2, <3>3 DEF R!Closes
  <2>4. ASSUME ~unlocked, NEW h \in main', h.at = "auth", R!Current(h)', h.call.epoch # guardEpoch
        PROVE  \/ \E i \in DOMAIN inbox : R!Closes(inbox[i])
               \/ \E i \in DOMAIN wire : R!Reopens(wire[i])
    BY <2>4 DEF R!TwoSides, R!EndIsSent
  <2>5. QED  BY <2>1, <2>2, <2>3, <2>4 DEF R!TwoSides, R!EndIsSent
<1>11. QED  BY <1>5, <1>6, <1>7, <1>8, <1>9, <1>10 DEF R!TwoSides

\* The places of a channel, and what they had.
LEMMA CallTaken ==
  ASSUME R!ListInv, inbox # <<>>, inbox' = Tail(inbox)
  PROVE  /\ 1 \in DOMAIN inbox /\ inbox[1] = R!Call
         /\ \A i \in DOMAIN inbox' : i \in Nat /\ 1 <= i /\ i + 1 \in DOMAIN inbox
                                     /\ inbox[i + 1] = inbox'[i]
         /\ \A i \in DOMAIN inbox : i \in Nat /\ 1 <= i
         /\ \A i \in DOMAIN inbox : 1 < i => i - 1 \in DOMAIN inbox' /\ inbox'[i - 1] = inbox[i]
<1>1. PICK t : t = inbox'
  OBVIOUS
<1>2. /\ Len(inbox) \in Nat \ {0} /\ DOMAIN inbox = 1..Len(inbox)
      /\ DOMAIN t = 1..(Len(inbox) - 1) /\ R!Call = inbox[1]
      /\ \A i \in DOMAIN t : t[i] = inbox[i + 1]
  BY <1>1, TakenFirst, SessionTyped DEF R!Call
<1>3. QED  BY <1>1, <1>2

LEMMA MessageTaken ==
  ASSUME R!ListInv, wire # <<>>, wire' = Tail(wire)
  PROVE  /\ 1 \in DOMAIN wire /\ wire[1] = R!Message
         /\ \A i \in DOMAIN wire' : i \in Nat /\ 1 <= i /\ i + 1 \in DOMAIN wire
                                    /\ wire[i + 1] = wire'[i]
         /\ \A i \in DOMAIN wire : i \in Nat /\ 1 <= i
         /\ \A i \in DOMAIN wire : 1 < i => i - 1 \in DOMAIN wire' /\ wire'[i - 1] = wire[i]
<1>1. PICK t : t = wire'
  OBVIOUS
<1>2. /\ Len(wire) \in Nat \ {0} /\ DOMAIN wire = 1..Len(wire)
      /\ DOMAIN t = 1..(Len(wire) - 1) /\ R!Message = wire[1]
      /\ \A i \in DOMAIN t : t[i] = wire[i + 1]
  BY <1>1, TakenFirst, SessionTyped DEF R!Message
<1>3. QED  BY <1>1, <1>2

LEMMA CallAdded ==
  ASSUME R!ListInv, NEW e, inbox' = Append(inbox, e)
  PROVE  \E n \in Nat : /\ n \in DOMAIN inbox' /\ inbox'[n] = e
                        /\ \A i \in DOMAIN inbox : i \in Nat /\ i < n /\ i \in DOMAIN inbox'
                                                   /\ inbox'[i] = inbox[i]
                        /\ \A i \in DOMAIN inbox' : i = n \/ i \in DOMAIN inbox
<1>1. PICK t : t = inbox'
  OBVIOUS
<1>2. /\ Len(inbox) \in Nat /\ DOMAIN inbox = 1..Len(inbox)
      /\ DOMAIN t = 1..(Len(inbox) + 1) /\ t[Len(inbox) + 1] = e
      /\ \A i \in DOMAIN inbox : t[i] = inbox[i]
  BY <1>1, SentLast, SessionTyped
<1>3. QED  BY <1>1, <1>2

LEMMA MessageAdded ==
  ASSUME R!ListInv, NEW e, R!Says(<<e>>)
  PROVE  \E n \in Nat : /\ n \in DOMAIN wire' /\ wire'[n] = e
                        /\ \A i \in DOMAIN wire : i \in Nat /\ i < n /\ i \in DOMAIN wire'
                                                  /\ wire'[i] = wire[i]
                        /\ \A i \in DOMAIN wire' : i = n \/ i \in DOMAIN wire
<1>1. PICK t : t = wire'
  OBVIOUS
<1>2. t = Append(wire, e)
  BY <1>1, SaidLast, SessionTyped DEF R!Says
<1>3. /\ Len(wire) \in Nat /\ DOMAIN wire = 1..Len(wire)
      /\ DOMAIN t = 1..(Len(wire) + 1) /\ t[Len(wire) + 1] = e
      /\ \A i \in DOMAIN wire : t[i] = wire[i]
  BY <1>2, SentLast, SessionTyped
<1>4. QED  BY <1>1, <1>3

\* The attempt is of an epoch that shows nothing, and no end of it follows.
LEMMA AuthenticateSides ==
  ASSUME R!ListInv, R!TwoSides, R!Authenticate
  PROVE  R!TwoSides'
<1>0. PICK e : e = [kind |-> "auth", epoch |-> guardEpoch]
  OBVIOUS
<1>e. e.kind = "auth" /\ e.epoch = guardEpoch /\ guardEpoch \in Nat
  BY <1>0, SessionTyped
<1>1. /\ inbox' = Append(inbox, e) /\ wire' = wire /\ screen = "locked"
      /\ UNCHANGED <<main, open, keySession, invalidating, tails, leaving, over>>
      /\ UNCHANGED <<guardEpoch, unlocked, screen, view>>
  BY <1>0 DEF R!Authenticate, R!Sends, R!Main, R!mainState, R!Renderer, R!guard, R!shown
<1>2. PICK n \in Nat :
         /\ n \in DOMAIN inbox' /\ inbox'[n] = e
         /\ \A i \in DOMAIN inbox : i \in Nat /\ i < n /\ i \in DOMAIN inbox'
                                    /\ inbox'[i] = inbox[i]
         /\ \A i \in DOMAIN inbox' : i = n \/ i \in DOMAIN inbox
  BY <1>1, CallAdded
<1>3. R!EpochsSeen'
  BY <1>e, <1>1, <1>2 DEF R!TwoSides, R!EpochsSeen, R!Attempt, R!Leaves
<1>4. R!NoEndBehind'
  BY <1>e, <1>1, <1>2 DEF R!TwoSides, R!NoEndBehind, R!EndsAccess
<1>5. R!ShownWhole' /\ R!LearnsOfLock' /\ R!SignsOut'
  BY <1>1 DEF R!TwoSides, R!ShownWhole, R!LearnsOfLock, R!Opens, R!SignsOut
<1>6. R!EndIsSent'
  BY <1>e, <1>1, <1>2 DEF R!TwoSides, R!EndIsSent, R!Current, R!Closes, R!Opens, R!Reopens
<1>7. QED  BY <1>3, <1>4, <1>5, <1>6 DEF R!TwoSides

\* The renderer ends its session: lock, an event of a lock, a sign-out.
LEMMA EndSides ==
  ASSUME R!ListInv, R!TwoSides, UNCHANGED <<main, open, keySession, invalidating, tails>>,
         guardEpoch' = guardEpoch + 1, unlocked' = FALSE,
         NEW e, inbox' = Append(inbox, e),
         \/ e.kind = "lock" /\ screen' = "locked" /\ view' = None
         \/ /\ e.kind = "signOut" /\ e.epoch = guardEpoch' /\ screen = "unlocked" /\ wire' = wire
            /\ UNCHANGED <<screen, view>>,
         wire' = wire \/ (wire # <<>> /\ wire' = Tail(wire))
  PROVE  R!TwoSides'
<1>1. PICK n \in Nat :
         /\ n \in DOMAIN inbox' /\ inbox'[n] = e
         /\ \A i \in DOMAIN inbox : i \in Nat /\ i < n /\ i \in DOMAIN inbox'
                                    /\ inbox'[i] = inbox[i]
         /\ \A i \in DOMAIN inbox' : i = n \/ i \in DOMAIN inbox
  BY CallAdded
<1>2. guardEpoch \in Nat /\ guardEpoch' \in Nat /\ \A k \in Nat : k <= guardEpoch =>
           k <= guardEpoch' /\ k # guardEpoch'
  BY SessionTyped
<1>3. \A i \in DOMAIN wire' : \E j \in DOMAIN wire : wire'[i] = wire[j]
  BY MessageTaken
<1>4. /\ \A i \in DOMAIN inbox : /\ inbox[i].kind = "auth" => inbox[i].epoch \in Nat
                                                             /\ inbox[i].epoch <= guardEpoch
                                 /\ inbox[i].kind = "signOut" => inbox[i].epoch \in Nat
                                                                /\ inbox[i].epoch <= guardEpoch
      /\ \A h \in main : h.at = "auth" => /\ h.call.kind = "auth" /\ h.call.epoch \in Nat
                                          /\ h.call.epoch <= guardEpoch
                                          /\ h.session \in Nat /\ h.session <= keySession
      /\ \A i \in DOMAIN wire' : wire'[i].kind \in {"auth", "signOut"} =>
           wire'[i].call.epoch \in Nat /\ wire'[i].call.epoch <= guardEpoch
      /\ \A i \in DOMAIN wire' : wire'[i].kind = "signOut" => wire'[i].result = "failed"
  BY <1>3 DEF R!TwoSides, R!EpochsSeen, R!Attempt, R!Leaves
<1>5. R!EpochsSeen'
  BY <1>1, <1>2, <1>4 DEF R!EpochsSeen, R!Attempt, R!Leaves
<1>6. R!ShownWhole'
  BY DEF R!TwoSides, R!ShownWhole
<1>7. R!NoEndBehind'
  BY <1>1, <1>2, <1>4 DEF R!TwoSides, R!NoEndBehind, R!EndsAccess
<1>8. R!LearnsOfLock'
  BY <1>2, <1>4 DEF R!TwoSides, R!LearnsOfLock, R!Opens
<1>9. R!SignsOut'
  BY <1>1 DEF R!SignsOut
<1>10. R!EndIsSent'
  BY <1>1 DEF R!EndIsSent, R!Closes
<1>11. QED  BY <1>5, <1>6, <1>7, <1>8, <1>9, <1>10 DEF R!TwoSides

-----------------------------------------------------------------------------
\* What a call leaves that is taken.
LEMMA CallLeaves ==
  ASSUME R!ListInv, R!TwoSides, inbox # <<>>, inbox' = Tail(inbox)
  PROVE  /\ \A i \in DOMAIN inbox' : /\ inbox'[i].kind = "auth" => R!Attempt(inbox'[i].epoch)
                                     /\ inbox'[i].kind = "signOut" => R!Leaves(inbox'[i].epoch)
         /\ \A i, j \in DOMAIN inbox' :
              i < j /\ inbox'[i].kind = "auth" /\ inbox'[i].epoch = guardEpoch =>
                   ~R!EndsAccess(inbox'[j])
         /\ screen = "unlocked" => \A j \in DOMAIN inbox' : inbox'[j].kind # "lock"
         /\ ~unlocked => \A i \in DOMAIN inbox' :
                 inbox'[i].kind = "auth" /\ inbox'[i].epoch # guardEpoch =>
                          \E j \in DOMAIN inbox' : i < j /\ R!Closes(inbox'[j])
         /\ \A h \in main : h.at = "auth" /\ h.call.epoch = guardEpoch =>
              \A j \in DOMAIN inbox' : ~R!EndsAccess(inbox'[j])
         /\ \A i \in DOMAIN wire : wire[i].kind = "auth" /\ wire[i].call.epoch = guardEpoch =>
              \A j \in DOMAIN inbox' : ~R!EndsAccess(inbox'[j])
<1>1. /\ \A i \in DOMAIN inbox' : i \in Nat /\ 1 <= i /\ i + 1 \in DOMAIN inbox
                                  /\ inbox[i + 1] = inbox'[i]
      /\ \A i \in DOMAIN inbox : i \in Nat /\ 1 <= i
      /\ \A i \in DOMAIN inbox : 1 < i => i - 1 \in DOMAIN inbox' /\ inbox'[i - 1] = inbox[i]
  BY CallTaken
<1>2. \A i \in DOMAIN inbox' : i + 1 \in DOMAIN inbox /\ inbox[i + 1] = inbox'[i]
  BY <1>1
<1>3. \A i, j \in DOMAIN inbox' : i < j => i + 1 < j + 1
  BY <1>1
<1>4. ASSUME ~unlocked, NEW i \in DOMAIN inbox', inbox'[i].kind = "auth",
             inbox'[i].epoch # guardEpoch
      PROVE  \E j \in DOMAIN inbox' : i < j /\ R!Closes(inbox'[j])
  <2>1. PICK j \in DOMAIN inbox : i + 1 < j /\ R!Closes(inbox[j])
    BY <1>2, <1>4 DEF R!TwoSides, R!EndIsSent
  <2>2. j - 1 \in DOMAIN inbox' /\ i < j - 1 /\ inbox'[j - 1] = inbox[j]
    BY <1>1, <2>1
  <2>3. QED  BY <2>1, <2>2
<1>5. QED  BY <1>2, <1>3, <1>4 DEF R!TwoSides, R!EpochsSeen, R!NoEndBehind

\* The attempt fails, or waits: of an epoch that was left its end still comes.
LEMMA TakeAuthSides ==
  ASSUME R!ListInv, R!TwoSides, R!TakeAuth
  PROVE  R!TwoSides'
<1>0. PICK c : c = R!Call
  OBVIOUS
<1>1. /\ inbox # <<>> /\ c.kind = "auth" /\ inbox' = Tail(inbox)
      /\ UNCHANGED <<guardEpoch, unlocked, screen, view>>
  BY <1>0 DEF R!TakeAuth, R!Turn, R!Taken, R!Renderer, R!guard, R!shown
<1>2. /\ 1 \in DOMAIN inbox /\ inbox[1] = c
      /\ \A i \in DOMAIN inbox' : i \in Nat /\ 1 <= i /\ i + 1 \in DOMAIN inbox
                                  /\ inbox[i + 1] = inbox'[i]
      /\ \A i \in DOMAIN inbox : i \in Nat /\ 1 <= i
      /\ \A i \in DOMAIN inbox : 1 < i => i - 1 \in DOMAIN inbox' /\ inbox'[i - 1] = inbox[i]
  BY <1>0, <1>1, CallTaken
<1>3. /\ \A i \in DOMAIN inbox : R!Closes(inbox[i]) => 1 < i
      /\ \A i \in DOMAIN inbox : inbox[i].kind = "signOut" => 1 < i
  BY <1>1, <1>2 DEF R!Closes
<1>4. /\ R!Attempt(c.epoch)
      /\ c.epoch = guardEpoch => \A j \in DOMAIN inbox' : ~R!EndsAccess(inbox'[j])
      /\ ~unlocked /\ c.epoch # guardEpoch => \E j \in DOMAIN inbox' : R!Closes(inbox'[j])
  <2>1. R!Attempt(c.epoch)
    BY <1>1, <1>2 DEF R!TwoSides, R!EpochsSeen
  <2>2. ASSUME c.epoch = guardEpoch, NEW j \in DOMAIN inbox'
        PROVE  ~R!EndsAccess(inbox'[j])
    <3>1. j + 1 \in DOMAIN inbox /\ 1 < j + 1 /\ inbox[j + 1] = inbox'[j]
      BY <1>2
    <3>2. QED  BY <1>1, <1>2, <2>2, <3>1 DEF R!TwoSides, R!NoEndBehind
  <2>3. ~unlocked /\ c.epoch # guardEpoch => \E j \in DOMAIN inbox' : R!Closes(inbox'[j])
    BY <1>1, <1>2 DEF R!TwoSides, R!EndIsSent
  <2>4. QED  BY <2>1, <2>2, <2>3
<1>5. /\ \A i \in DOMAIN inbox' : /\ inbox'[i].kind = "auth" => R!Attempt(inbox'[i].epoch)
                                  /\ inbox'[i].kind = "signOut" => R!Leaves(inbox'[i].epoch)
      /\ \A i, j \in DOMAIN inbox' :
           i < j /\ inbox'[i].kind = "auth" /\ inbox'[i].epoch = guardEpoch =>
                ~R!EndsAccess(inbox'[j])
      /\ screen = "unlocked" => \A j \in DOMAIN inbox' : inbox'[j].kind # "lock"
      /\ ~unlocked => \A i \in DOMAIN inbox' :
              inbox'[i].kind = "auth" /\ inbox'[i].epoch # guardEpoch =>
                       \E j \in DOMAIN inbox' : i < j /\ R!Closes(inbox'[j])
      /\ \A h \in main : h.at = "auth" /\ h.call.epoch = guardEpoch =>
           \A j \in DOMAIN inbox' : ~R!EndsAccess(inbox'[j])
      /\ \A i \in DOMAIN wire : wire[i].kind = "auth" /\ wire[i].call.epoch = guardEpoch =>
           \A j \in DOMAIN inbox' : ~R!EndsAccess(inbox'[j])
  BY <1>1, CallLeaves
<1>6. /\ (\E i \in DOMAIN inbox : R!Closes(inbox[i])) =>
              \E i \in DOMAIN inbox' : R!Closes(inbox'[i])
      /\ (\E i \in DOMAIN inbox : inbox[i].kind = "signOut" /\ inbox[i].epoch = guardEpoch) =>
           \E i \in DOMAIN inbox' : inbox'[i].kind = "signOut" /\ inbox'[i].epoch = guardEpoch
  BY <1>2, <1>3
<1>8. CASE R!Says(<<R!Failed(c)>>) /\ UNCHANGED R!mainState
  <2>0. PICK e : e = R!Failed(c)
    OBVIOUS
  <2>1. e.kind = "auth" /\ e.call = c /\ e.result = "failed"
    BY <1>1, <2>0 DEF R!Failed
  <2>2. UNCHANGED <<main, open, keySession, invalidating, tails>>
    BY <1>8 DEF R!mainState
  <2>3. PICK n \in Nat :
           /\ n \in DOMAIN wire' /\ wire'[n] = e
           /\ \A i \in DOMAIN wire : i \in Nat /\ i < n /\ i \in DOMAIN wire'
                                     /\ wire'[i] = wire[i]
           /\ \A i \in DOMAIN wire' : i = n \/ i \in DOMAIN wire
    BY <1>8, <2>0, MessageAdded
  <2>4. R!EpochsSeen'
    BY <1>1, <1>4, <1>5, <2>1, <2>2, <2>3 DEF R!TwoSides, R!EpochsSeen, R!Attempt, R!Leaves
  <2>5. R!NoEndBehind'
    <3>1. \A i \in DOMAIN wire' : wire'[i].kind = "auth" /\ wire'[i].call.epoch = guardEpoch =>
            \A j \in DOMAIN inbox' : ~R!EndsAccess(inbox'[j])
      BY <1>4, <1>5, <2>1, <2>3
    <3>2. QED  BY <1>1, <1>5, <2>2, <3>1 DEF R!NoEndBehind, R!EndsAccess
  <2>6. R!ShownWhole' /\ R!LearnsOfLock'
    BY <1>1, <2>1, <2>2, <2>3 DEF R!TwoSides, R!ShownWhole, R!LearnsOfLock, R!Opens
  <2>7. R!SignsOut'
    BY <1>1, <1>6, <2>3 DEF R!TwoSides, R!SignsOut, R!Reopens
  <2>8. R!EndIsSent'
    <3>1. /\ (\E i \in DOMAIN wire : R!Opens(wire[i])) =>
                  \E i \in DOMAIN wire' : R!Opens(wire[i])'
          /\ (\E i \in DOMAIN wire : R!Reopens(wire[i])) =>
                  \E i \in DOMAIN wire' : R!Reopens(wire[i])'
      BY <1>1, <2>3 DEF R!Opens, R!Reopens
    <3>2. QED  BY <1>1, <1>5, <1>6, <2>2, <3>1 DEF R!TwoSides, R!EndIsSent, R!Closes, R!Current
  <2>9. QED  BY <2>4, <2>5, <2>6, <2>7, <2>8 DEF R!TwoSides
<1>9. CASE ~invalidating /\ R!Starts([at |-> "auth", session |-> keySession, call |-> c])
            /\ wire' = wire
  <2>0. PICK g : g = [at |-> "auth", session |-> keySession, call |-> c]
    OBVIOUS
  <2>1. /\ g.at = "auth" /\ g.session = keySession /\ g.call = c
        /\ main' = main \cup {g} /\ UNCHANGED <<wire, open, keySession, invalidating, tails>>
    BY <1>9, <2>0 DEF R!Starts
  <2>2. keySession \in Nat
    BY SessionTyped
  <2>3. R!EpochsSeen'
    BY <1>1, <1>4, <1>5, <2>1, <2>2 DEF R!TwoSides, R!EpochsSeen, R!Attempt, R!Leaves
  <2>4. R!NoEndBehind'
    <3>1. \A h \in main' : h.at = "auth" /\ h.call.epoch = guardEpoch =>
            \A j \in DOMAIN inbox' : ~R!EndsAccess(inbox'[j])
      BY <1>4, <1>5, <2>1
    <3>2. QED  BY <1>1, <1>5, <2>1, <3>1 DEF R!NoEndBehind, R!EndsAccess
  <2>5. R!ShownWhole' /\ R!LearnsOfLock'
    BY <1>1, <2>1 DEF R!TwoSides, R!ShownWhole, R!LearnsOfLock, R!Opens
  <2>6. R!SignsOut'
    BY <1>1, <1>6, <2>1 DEF R!TwoSides, R!SignsOut, R!Reopens
  <2>7. R!EndIsSent'
    BY <1>1, <1>4, <1>5, <1>6, <2>1 DEF R!TwoSides, R!EndIsSent, R!Closes, R!Current, R!Opens,
                                        R!Reopens
  <2>8. QED  BY <2>3, <2>4, <2>5, <2>6, <2>7 DEF R!TwoSides
<1>10. QED  BY <1>0, <1>8, <1>9 DEF R!TakeAuth

\* What a handler that ended says, if anything, and what it leaves of the session.
LEMMA AuthenticatedSides ==
  ASSUME R!ListInv, R!TwoSides, NEW h \in main, R!Authenticated(h)
  PROVE  R!TwoSides'
<1>1. /\ h.at = "auth" /\ main' = main \ {h} /\ invalidating' = (invalidating /\ main' # {})
      /\ inbox' = inbox /\ tails' = tails
      /\ UNCHANGED <<guardEpoch, unlocked, screen, view>>
  BY DEF R!Authenticated, R!Ends, R!Renderer, R!guard, R!shown
<1>2. \A g \in main' : g \in main /\ (~invalidating' => ~invalidating)
  BY <1>1, SessionTyped
<1>3. keySession \in Nat /\ tails \in Nat
  BY SessionTyped
<1>4. R!Attempt(h.call.epoch) /\ h.call.kind = "auth"
  BY <1>1 DEF R!TwoSides, R!EpochsSeen
<1>5. PICK e : /\ R!Says(<<e>>) /\ e.kind = "auth" /\ e.call = h.call
               /\ \/ R!Current(h) /\ open' = TRUE /\ keySession' = keySession + 1
                          /\ e.result = "ok"
                  \/ UNCHANGED <<open, keySession>> /\ e.result = "failed"
  <2>1. CASE /\ R!Current(h) /\ open' = TRUE /\ keySession' = keySession + 1
             /\ R!Says(<<[kind |-> "auth", call |-> h.call, result |-> "ok",
                         view |-> R!View(active)]>>)
    <3>1. PICK e : e = [kind |-> "auth", call |-> h.call, result |-> "ok", view |-> R!View(active)]
      OBVIOUS
    <3>2. e.kind = "auth" /\ e.call = h.call /\ e.result = "ok"
      BY <3>1
    <3>3. QED  BY <2>1, <3>1, <3>2
  <2>2. CASE R!Says(<<R!Failed(h.call)>>) /\ UNCHANGED <<open, keySession>>
    <3>1. PICK e : e = R!Failed(h.call)
      OBVIOUS
    <3>2. e.kind = "auth" /\ e.call = h.call /\ e.result = "failed"
      BY <1>4, <3>1 DEF R!Failed
    <3>3. QED  BY <2>2, <3>1, <3>2
  <2>3. QED  BY <2>1, <2>2 DEF R!Authenticated
<1>6. PICK n \in Nat :
         /\ n \in DOMAIN wire' /\ wire'[n] = e
         /\ \A i \in DOMAIN wire : i \in Nat /\ i < n /\ i \in DOMAIN wire'
                                   /\ wire'[i] = wire[i]
         /\ \A i \in DOMAIN wire' : i = n \/ i \in DOMAIN wire
  BY <1>5, MessageAdded
<1>7. keySession' \in Nat /\ keySession <= keySession'
  BY <1>3, <1>5
<1>8. R!EpochsSeen'
  <2>1. R!EpochsSeen
    BY DEF R!TwoSides
  <2>2. \A g \in main' : g.at = "auth" =>
          g.call.kind = "auth" /\ R!Attempt(g.call.epoch) /\ g.session \in Nat
           /\ g.session <= keySession'
    BY <1>2, <1>3, <1>7, <2>1 DEF R!EpochsSeen
  <2>3. \A i \in DOMAIN wire' : /\ wire'[i].kind = "auth" => R!Attempt(wire'[i].call.epoch)
                                /\ wire'[i].kind = "signOut" => R!Leaves(wire'[i].call.epoch)
                                                               /\ wire'[i].result = "failed"
    BY <1>4, <1>5, <1>6, <2>1 DEF R!EpochsSeen
  <2>4. QED  BY <1>1, <2>1, <2>2, <2>3 DEF R!EpochsSeen, R!Attempt, R!Leaves
<1>9. R!ShownWhole' /\ R!NoEndBehind'
  BY <1>1, <1>2, <1>5, <1>6 DEF R!TwoSides, R!ShownWhole, R!NoEndBehind
<1>10. R!LearnsOfLock'
  BY <1>1, <1>5, <1>6 DEF R!TwoSides, R!LearnsOfLock, R!Opens
<1>11. R!SignsOut'
  BY <1>1, <1>6 DEF R!TwoSides, R!SignsOut, R!Reopens
<1>12. R!EndIsSent'
  <2>1. /\ (\E i \in DOMAIN wire : R!Opens(wire[i])) => \E i \in DOMAIN wire' : R!Opens(wire[i])'
        /\ (\E i \in DOMAIN wire : R!Reopens(wire[i])) =>
                \E i \in DOMAIN wire' : R!Reopens(wire[i])'
    BY <1>1, <1>6 DEF R!Opens, R!Reopens
  <2>2. ~unlocked /\ open' => \/ \E i \in DOMAIN inbox : R!Closes(inbox[i])
                              \/ \E i \in DOMAIN wire' : R!Opens(wire[i])' \/ R!Reopens(wire[i])'
    <3>1. CASE R!Current(h) /\ h.call.epoch # guardEpoch
      BY <1>1, <2>1, <3>1 DEF R!TwoSides, R!EndIsSent
    <3>2. CASE h.call.epoch = guardEpoch /\ e.result = "ok"
      BY <1>1, <1>5, <1>6, <3>2 DEF R!Opens
    <3>3. CASE open' = open
      BY <2>1, <3>3 DEF R!TwoSides, R!EndIsSent
    <3>4. QED  BY <1>5, <3>1, <3>2, <3>3
  <2>3. \A g \in main' : g.at = "auth" /\ R!Current(g)' => g \in main /\ R!Current(g)
    BY <1>2, <1>3, <1>5 DEF R!TwoSides, R!EpochsSeen, R!Current
  <2>4. QED  BY <1>1, <2>1, <2>2, <2>3 DEF R!TwoSides, R!EndIsSent, R!Closes
<1>13. QED  BY <1>8, <1>9, <1>10, <1>11, <1>12 DEF R!TwoSides

\* The renderer asked for the lock: it shows nothing, nor will it.
LEMMA TakeLockSides ==
  ASSUME R!ListInv, R!TwoSides, R!TakeLock
  PROVE  R!TwoSides'
<1>1. /\ inbox # <<>> /\ R!Call.kind = "lock" /\ inbox' = Tail(inbox) /\ wire' = wire
      /\ open' = FALSE /\ keySession' = keySession + 1 /\ main' = main /\ tails' = tails
      /\ UNCHANGED <<guardEpoch, unlocked, screen, view>>
  BY DEF R!TakeLock, R!Turn, R!Taken, R!lockVault, R!Renderer, R!guard, R!shown
<1>2. keySession \in Nat /\ screen \in {"locked", "unlocked"}
  BY SessionTyped
<1>3. 1 \in DOMAIN inbox /\ inbox[1] = R!Call
  BY <1>1, CallTaken
<1>4. /\ screen = "locked"
      /\ \A i \in DOMAIN wire : ~R!Opens(wire[i])
  BY <1>1, <1>2, <1>3 DEF R!TwoSides, R!NoEndBehind, R!EndsAccess, R!Opens
<1>5. R!EpochsSeen' /\ R!NoEndBehind'
  BY <1>1, <1>2, CallLeaves DEF R!TwoSides, R!EpochsSeen, R!Attempt, R!Leaves, R!NoEndBehind,
                                R!EndsAccess
<1>6. R!ShownWhole' /\ R!LearnsOfLock' /\ R!SignsOut'
  BY <1>1, <1>4 DEF R!TwoSides, R!ShownWhole, R!LearnsOfLock, R!SignsOut, R!Opens
<1>7. R!EndIsSent'
  <2>1. \A h \in main : h.at = "auth" => ~R!Current(h)'
    BY <1>1, <1>2 DEF R!TwoSides, R!EpochsSeen, R!Current
  <2>2. QED  BY <1>1, <2>1, CallLeaves DEF R!EndIsSent, R!Closes
<1>8. QED  BY <1>5, <1>6, <1>7 DEF R!TwoSides

\* The main process locks by itself: the renderer will be told.
LEMMA LocksHereSides ==
  ASSUME R!ListInv, R!TwoSides, R!LockHere \/ (\E h \in main : R!SnapshotFails(h))
  PROVE  R!TwoSides'
<1>1. /\ inbox' = inbox /\ open' = FALSE /\ keySession' = keySession + 1 /\ tails' = tails + 1
      /\ main' \subseteq main
      /\ UNCHANGED <<guardEpoch, unlocked, screen, view>>
  BY DEF R!LockHere, R!SnapshotFails, R!lockVault, R!NoTalk, R!channels, R!Renderer, R!guard,
         R!shown
<1>2. PICK k : Conveys(wire, wire', k, MessageKinds)
  <2>1. CASE wire' = wire
    BY <2>1, WireCarried, SessionTyped
  <2>2. ASSUME NEW h \in main, R!SnapshotFails(h)
        PROVE  \E e : e.kind \notin MessageKinds /\ R!Says(<<e>>)
    <3>0. PICK e : e = R!Failed(h.call)
      OBVIOUS
    <3>1. h.call.kind = "change"
      BY <2>2 DEF R!SnapshotFails, R!ListInv, R!MainOK, R!HandlerOK
    <3>2. e.kind = "change" /\ R!Says(<<e>>)
      BY <2>2, <3>0, <3>1 DEF R!SnapshotFails, R!Failed
    <3>3. QED  BY <3>2 DEF MessageKinds
  <2>3. QED  BY <2>1, <2>2, WireCarried, SessionTyped DEF R!LockHere, R!NoTalk, R!channels
<1>3. /\ \A i \in DOMAIN wire' : wire'[i].kind \in {"auth", "autoLock", "signOut"} =>
           i + k \in DOMAIN wire /\ wire[i + k] = wire'[i]
      /\ \A i \in DOMAIN wire : wire[i].kind \in {"auth", "autoLock", "signOut"} =>
           i - k \in DOMAIN wire' /\ wire'[i - k] = wire[i]
  BY <1>2 DEF Conveys, MessageKinds
<1>4. keySession \in Nat /\ tails' > 0
  BY <1>1, SessionTyped
<1>5. R!EpochsSeen'
  <2>1. /\ \A i \in DOMAIN inbox : /\ inbox[i].kind = "auth" => R!Attempt(inbox[i].epoch)
                                   /\ inbox[i].kind = "signOut" => R!Leaves(inbox[i].epoch)
        /\ \A h \in main' : h.at = "auth" =>
             h.call.kind = "auth" /\ R!Attempt(h.call.epoch) /\ h.session \in Nat
              /\ h.session <= keySession'
    BY <1>1, <1>4 DEF R!TwoSides, R!EpochsSeen
  <2>2. \A i \in DOMAIN wire' :
          /\ wire'[i].kind = "auth" => R!Attempt(wire'[i].call.epoch)
          /\ wire'[i].kind = "signOut" =>
                  R!Leaves(wire'[i].call.epoch) /\ wire'[i].result = "failed"
    BY <1>3 DEF R!TwoSides, R!EpochsSeen
  <2>3. QED  BY <1>1, <2>1, <2>2 DEF R!EpochsSeen, R!Attempt, R!Leaves
<1>6. R!ShownWhole' /\ R!LearnsOfLock'
  BY <1>1, <1>4 DEF R!TwoSides, R!ShownWhole, R!LearnsOfLock
<1>7. R!NoEndBehind'
  BY <1>1, <1>3 DEF R!TwoSides, R!NoEndBehind
<1>8. R!SignsOut'
  BY <1>1, <1>3 DEF R!TwoSides, R!SignsOut, R!Reopens
<1>9. R!EndIsSent'
  <2>1. \A h \in main : h.at = "auth" => ~R!Current(h)'
    BY <1>1, <1>4 DEF R!TwoSides, R!EpochsSeen, R!Current
  <2>2. QED  BY <1>1, <2>1 DEF R!TwoSides, R!EndIsSent, R!Closes
<1>10. QED  BY <1>5, <1>6, <1>7, <1>8, <1>9 DEF R!TwoSides

\* The renderer is told.
LEMMA LockTailSides ==
  ASSUME R!ListInv, R!TwoSides, R!LockTail
  PROVE  R!TwoSides'
<1>0. PICK e : e = [kind |-> "autoLock"]
  OBVIOUS
<1>1. /\ UNCHANGED <<inbox, main, open, keySession, invalidating, guardEpoch, unlocked, screen,
                     view>>
      /\ R!Says(<<e>>) /\ e.kind = "autoLock"
  BY <1>0 DEF R!LockTail, R!Renderer, R!guard, R!shown
<1>2. PICK n \in Nat :
         /\ n \in DOMAIN wire' /\ wire'[n] = e
         /\ \A i \in DOMAIN wire : i \in Nat /\ i < n /\ i \in DOMAIN wire'
                                   /\ wire'[i] = wire[i]
         /\ \A i \in DOMAIN wire' : i = n \/ i \in DOMAIN wire
  BY <1>1, MessageAdded
<1>3. R!EpochsSeen'
  BY <1>1, <1>2 DEF R!TwoSides, R!EpochsSeen, R!Attempt, R!Leaves
<1>4. R!NoEndBehind'
  BY <1>1, <1>2 DEF R!TwoSides, R!NoEndBehind
<1>5. R!ShownWhole'
  BY <1>1 DEF R!TwoSides, R!ShownWhole
<1>6. R!LearnsOfLock'
  <2>1. \E j \in DOMAIN wire' : wire'[j].kind = "autoLock"
    BY <1>1, <1>2
  <2>2. \A i \in DOMAIN wire' : wire'[i].kind = "auth" => i < n
    BY <1>1, <1>2
  <2>3. \A i \in DOMAIN wire' : wire'[i].kind = "auth" =>
          \E j \in DOMAIN wire' : i < j /\ wire'[j].kind = "autoLock"
    BY <1>1, <1>2, <2>2
  <2>4. QED  BY <2>1, <2>3 DEF R!LearnsOfLock, R!Opens
<1>7. R!SignsOut' /\ R!EndIsSent'
  <2>1. /\ (\E i \in DOMAIN wire : R!Opens(wire[i])) => \E i \in DOMAIN wire' : R!Opens(wire[i])'
        /\ (\E i \in DOMAIN wire : R!Reopens(wire[i])) =>
                \E i \in DOMAIN wire' : R!Reopens(wire[i])'
    BY <1>1, <1>2 DEF R!Opens, R!Reopens
  <2>2. R!SignsOut'
    BY <1>1, <2>1 DEF R!TwoSides, R!SignsOut
  <2>3. R!EndIsSent'
    BY <1>1, <2>1 DEF R!TwoSides, R!EndIsSent, R!Closes, R!Current
  <2>4. QED  BY <2>2, <2>3
<1>8. QED  BY <1>3, <1>4, <1>5, <1>6, <1>7 DEF R!TwoSides

\* The sign-out fails, or the application is about to quit.
LEMMA TakeSignOutSides ==
  ASSUME R!ListInv, R!TwoSides, R!TakeSignOut, ~R!Gone'
  PROVE  R!TwoSides'
<1>0. PICK c : c = R!Call
  OBVIOUS
<1>1. /\ inbox # <<>> /\ c.kind = "signOut" /\ inbox' = Tail(inbox)
      /\ R!Says(<<R!Failed(c)>>) /\ UNCHANGED R!mainState
      /\ UNCHANGED <<guardEpoch, unlocked, screen, view>>
  BY <1>0 DEF R!TakeSignOut, R!Turn, R!Taken, R!Renderer, R!guard, R!shown, R!Gone
<1>2. PICK e : e = R!Failed(c)
  OBVIOUS
<1>3. /\ e.kind = "signOut" /\ e.call = c /\ e.result = "failed"
      /\ UNCHANGED <<main, open, keySession, invalidating, tails>>
  BY <1>1, <1>2 DEF R!Failed, R!mainState
<1>4. PICK n \in Nat :
         /\ n \in DOMAIN wire' /\ wire'[n] = e
         /\ \A i \in DOMAIN wire : i \in Nat /\ i < n /\ i \in DOMAIN wire'
                                   /\ wire'[i] = wire[i]
         /\ \A i \in DOMAIN wire' : i = n \/ i \in DOMAIN wire
  BY <1>1, <1>2, MessageAdded
<1>5. /\ 1 \in DOMAIN inbox /\ inbox[1] = c
      /\ \A i \in DOMAIN inbox : i \in Nat /\ 1 <= i
      /\ \A i \in DOMAIN inbox : 1 < i => i - 1 \in DOMAIN inbox' /\ inbox'[i - 1] = inbox[i]
  BY <1>0, <1>1, CallTaken
<1>6. R!Leaves(c.epoch)
  BY <1>1, <1>5 DEF R!TwoSides, R!EpochsSeen
<1>7. c.epoch = guardEpoch => \E i \in DOMAIN wire' : R!Reopens(wire[i])'
  BY <1>1, <1>3, <1>4 DEF R!Reopens
<1>8. /\ (\E i \in DOMAIN inbox : R!Closes(inbox[i])) => \/ c.epoch = guardEpoch
                                                       \/ \E i \in DOMAIN inbox' :
                                                               R!Closes(inbox'[i])
      /\ (\E i \in DOMAIN inbox : inbox[i].kind = "signOut" /\ inbox[i].epoch = guardEpoch) =>
           \/ c.epoch = guardEpoch
           \/ \E i \in DOMAIN inbox' : inbox'[i].kind = "signOut" /\ inbox'[i].epoch = guardEpoch
  <2>1. \A i \in DOMAIN inbox : i = 1 \/ \E j \in DOMAIN inbox' : inbox'[j] = inbox[i]
    BY <1>5
  <2>2. QED  BY <1>1, <1>5, <2>1 DEF R!Closes
<1>9. /\ (\E i \in DOMAIN wire : R!Opens(wire[i])) => \E i \in DOMAIN wire' : R!Opens(wire[i])'
      /\ (\E i \in DOMAIN wire : R!Reopens(wire[i])) =>
              \E i \in DOMAIN wire' : R!Reopens(wire[i])'
  BY <1>1, <1>4 DEF R!Opens, R!Reopens
<1>10. R!EpochsSeen'
  <2>1. \A i \in DOMAIN inbox' : /\ inbox'[i].kind = "auth" => R!Attempt(inbox'[i].epoch)
                                 /\ inbox'[i].kind = "signOut" => R!Leaves(inbox'[i].epoch)
    BY <1>1, CallLeaves
  <2>2. \A i \in DOMAIN wire' :
          /\ wire'[i].kind = "auth" => R!Attempt(wire'[i].call.epoch)
          /\ wire'[i].kind = "signOut" =>
                  R!Leaves(wire'[i].call.epoch) /\ wire'[i].result = "failed"
    BY <1>3, <1>4, <1>6 DEF R!TwoSides, R!EpochsSeen
  <2>3. QED  BY <1>1, <1>3, <2>1, <2>2 DEF R!TwoSides, R!EpochsSeen, R!Attempt, R!Leaves
<1>11. R!NoEndBehind'
  <2>1. \A i \in DOMAIN wire' : wire'[i].kind = "auth" => i \in DOMAIN wire /\ wire'[i] = wire[i]
    BY <1>3, <1>4
  <2>2. QED  BY <1>1, <1>3, <2>1, CallLeaves DEF R!NoEndBehind, R!EndsAccess
<1>12. R!ShownWhole' /\ R!LearnsOfLock'
  BY <1>1, <1>3, <1>4 DEF R!TwoSides, R!ShownWhole, R!LearnsOfLock, R!Opens
<1>13. R!SignsOut'
  BY <1>1, <1>7, <1>8, <1>9 DEF R!TwoSides, R!SignsOut
<1>14. R!EndIsSent'
  <2>1. ~unlocked => \A i \in DOMAIN inbox' :
             inbox'[i].kind = "auth" /\ inbox'[i].epoch # guardEpoch =>
                       \E j \in DOMAIN inbox' : i < j /\ R!Closes(inbox'[j])
    BY <1>1, CallLeaves
  <2>2. QED  BY <1>1, <1>3, <1>7, <1>8, <1>9, <2>1 DEF R!TwoSides, R!EndIsSent, R!Closes, R!Current
<1>15. QED  BY <1>10, <1>11, <1>12, <1>13, <1>14 DEF R!TwoSides

-----------------------------------------------------------------------------
\* What is on its way stays so when a message is taken: what opens, and what tells.
LEMMA MessageLeaves ==
  ASSUME R!ListInv, R!TwoSides, wire # <<>>, wire' = Tail(wire)
  PROVE  /\ \A i \in DOMAIN wire' : \E j \in DOMAIN wire : wire'[i] = wire[j]
         /\ \A i \in DOMAIN wire : wire[i] = R!Message \/ \E j \in DOMAIN wire' :
                 wire'[j] = wire[i]
         /\ ~open => \A i \in DOMAIN wire' : R!Opens(wire'[i]) =>
              tails > 0 \/ \E j \in DOMAIN wire' : i < j /\ wire'[j].kind = "autoLock"
         /\ ~open /\ R!Opens(R!Message) =>
              tails > 0 \/ \E j \in DOMAIN wire' : wire'[j].kind = "autoLock"
<1>1. /\ 1 \in DOMAIN wire /\ wire[1] = R!Message
      /\ \A i \in DOMAIN wire' : i \in Nat /\ 1 <= i /\ i + 1 \in DOMAIN wire
                                 /\ wire[i + 1] = wire'[i]
      /\ \A i \in DOMAIN wire : i \in Nat /\ 1 <= i
      /\ \A i \in DOMAIN wire : 1 < i => i - 1 \in DOMAIN wire' /\ wire'[i - 1] = wire[i]
  BY MessageTaken
<1>2. ASSUME ~open, tails = 0, NEW i \in DOMAIN wire', R!Opens(wire'[i])
      PROVE  \E j \in DOMAIN wire' : i < j /\ wire'[j].kind = "autoLock"
  <2>1. PICK j \in DOMAIN wire : i + 1 < j /\ wire[j].kind = "autoLock"
    BY <1>1, <1>2 DEF R!TwoSides, R!LearnsOfLock
  <2>2. j - 1 \in DOMAIN wire' /\ i < j - 1 /\ wire'[j - 1] = wire[j]
    BY <1>1, <2>1
  <2>3. QED  BY <2>1, <2>2
<1>3. ASSUME ~open, tails = 0, R!Opens(R!Message)
      PROVE  \E j \in DOMAIN wire' : wire'[j].kind = "autoLock"
  <2>1. PICK j \in DOMAIN wire : 1 < j /\ wire[j].kind = "autoLock"
    BY <1>1, <1>3 DEF R!TwoSides, R!LearnsOfLock
  <2>2. QED  BY <1>1, <2>1
<1>4. \A i \in DOMAIN wire : i = 1 \/ 1 < i
  BY <1>1
<1>5. tails = 0 \/ tails > 0
  BY SessionTyped
<1>6. QED  BY <1>1, <1>2, <1>3, <1>4, <1>5

\* The renderer begins an epoch: of an answer that opens it, or of one that keeps it open.
LEMMA BeginSides ==
  ASSUME R!ListInv, R!TwoSides, UNCHANGED <<main, open, keySession, invalidating, tails>>,
         guardEpoch' = guardEpoch + 1, unlocked' = TRUE, screen' = "unlocked", view' # None,
         wire # <<>>, wire' = Tail(wire), R!Message.kind # "autoLock",
         screen = "unlocked" \/ R!Opens(R!Message),
         \/ inbox' = inbox
         \/ \E e : e.kind \notin CallKinds /\ inbox' = Append(inbox, e)
  PROVE  R!TwoSides'
<1>1. PICK d : Conveys(inbox, inbox', d, CallKinds)
  BY InboxCarried, SessionTyped
<1>2. \A i \in DOMAIN inbox' : inbox'[i].kind \in {"auth", "lock", "signOut"} =>
                                 \E j \in DOMAIN inbox : inbox'[i] = inbox[j]
  BY <1>1 DEF Conveys, CallKinds
<1>3. guardEpoch \in Nat /\ guardEpoch' \in Nat /\ \A k \in Nat : k <= guardEpoch =>
           k <= guardEpoch' /\ k # guardEpoch'
  BY SessionTyped
<1>4. /\ \A i \in DOMAIN wire' : \E j \in DOMAIN wire : wire'[i] = wire[j]
      /\ \A i \in DOMAIN wire : wire[i] = R!Message \/ \E j \in DOMAIN wire' : wire'[j] = wire[i]
      /\ 1 \in DOMAIN wire /\ wire[1] = R!Message
  BY MessageLeaves, MessageTaken
<1>5. /\ \A i \in DOMAIN inbox' : /\ inbox'[i].kind = "auth" => inbox'[i].epoch \in Nat
                                                              /\ inbox'[i].epoch <= guardEpoch
                                  /\ inbox'[i].kind = "signOut" => inbox'[i].epoch \in Nat
                                                                 /\ inbox'[i].epoch <= guardEpoch
      /\ \A h \in main : h.at = "auth" => /\ h.call.kind = "auth" /\ h.call.epoch \in Nat
                                          /\ h.call.epoch <= guardEpoch
                                          /\ h.session \in Nat /\ h.session <= keySession
      /\ \A i \in DOMAIN wire' : wire'[i].kind \in {"auth", "signOut"} =>
           wire'[i].call.epoch \in Nat /\ wire'[i].call.epoch <= guardEpoch
      /\ \A i \in DOMAIN wire' : wire'[i].kind = "signOut" => wire'[i].result = "failed"
  BY <1>2, <1>4 DEF R!TwoSides, R!EpochsSeen, R!Attempt, R!Leaves
<1>6. R!EpochsSeen'
  BY <1>3, <1>5 DEF R!EpochsSeen, R!Attempt, R!Leaves
<1>7. R!ShownWhole' /\ R!SignsOut' /\ R!EndIsSent'
  BY DEF R!ShownWhole, R!SignsOut, R!EndIsSent
<1>8. R!NoEndBehind'
  <2>1. \A j \in DOMAIN inbox : inbox[j].kind # "lock"
    BY <1>4 DEF R!TwoSides, R!NoEndBehind, R!Opens, R!EndsAccess
  <2>2. \A j \in DOMAIN inbox' : inbox'[j].kind # "lock"
    BY <1>2, <2>1
  <2>3. QED  BY <1>3, <1>5, <2>2 DEF R!NoEndBehind
<1>9. R!LearnsOfLock'
  <2>1. \A i \in DOMAIN wire' : ~R!Opens(wire[i])'
    BY <1>3, <1>5 DEF R!Opens
  <2>2. ~open => tails > 0 \/ \E j \in DOMAIN wire' : wire'[j].kind = "autoLock"
    <3>1. CASE R!Opens(R!Message)
      BY <3>1, MessageLeaves
    <3>2. CASE screen = "unlocked"
      BY <1>4, <3>2 DEF R!TwoSides, R!LearnsOfLock
    <3>3. QED  BY <3>1, <3>2
  <2>3. QED  BY <2>1, <2>2 DEF R!LearnsOfLock
<1>10. QED  BY <1>6, <1>7, <1>8, <1>9 DEF R!TwoSides

\* A message that changes nothing here.
LEMMA SpentSides ==
  ASSUME R!ListInv, R!TwoSides, UNCHANGED <<main, open, keySession, invalidating, tails, inbox>>,
         UNCHANGED <<guardEpoch, unlocked, screen, view>>,
         wire # <<>>, wire' = Tail(wire),
         ~unlocked => ~R!Opens(R!Message), ~R!Reopens(R!Message),
         R!Message.kind = "autoLock" => screen = "locked"
  PROVE  R!TwoSides'
<1>1. /\ \A i \in DOMAIN wire' : \E j \in DOMAIN wire : wire'[i] = wire[j]
      /\ \A i \in DOMAIN wire : wire[i] = R!Message \/ \E j \in DOMAIN wire' : wire'[j] = wire[i]
  BY MessageLeaves
<1>2. R!EpochsSeen'
  BY <1>1 DEF R!TwoSides, R!EpochsSeen, R!Attempt, R!Leaves
<1>3. R!ShownWhole'
  BY DEF R!TwoSides, R!ShownWhole
<1>4. R!NoEndBehind'
  BY <1>1 DEF R!TwoSides, R!NoEndBehind
<1>5. /\ (\E i \in DOMAIN wire : R!Reopens(wire[i])) =>
              \E i \in DOMAIN wire' : R!Reopens(wire[i])'
      /\ ~unlocked /\ (\E i \in DOMAIN wire : R!Opens(wire[i])) =>
           \E i \in DOMAIN wire' : R!Opens(wire[i])'
  BY <1>1 DEF R!Opens, R!Reopens
<1>6. R!LearnsOfLock'
  <2>1. ~open => \A i \in DOMAIN wire' : R!Opens(wire[i])' =>
          tails > 0 \/ \E j \in DOMAIN wire' : i < j /\ wire'[j].kind = "autoLock"
    BY MessageLeaves DEF R!Opens
  <2>2. ~open /\ screen = "unlocked" =>
          tails > 0 \/ \E j \in DOMAIN wire' : wire'[j].kind = "autoLock"
    BY <1>1 DEF R!TwoSides, R!LearnsOfLock
  <2>3. QED  BY <2>1, <2>2 DEF R!LearnsOfLock
<1>7. R!SignsOut'
  BY <1>5 DEF R!TwoSides, R!SignsOut
<1>8. R!EndIsSent'
  BY <1>5 DEF R!TwoSides, R!EndIsSent, R!Closes, R!Current
<1>9. QED  BY <1>2, <1>3, <1>4, <1>6, <1>7, <1>8 DEF R!TwoSides

LEMMA AuthAnswerSides ==
  ASSUME R!ListInv, R!TwoSides, R!AuthAnswer
  PROVE  R!TwoSides'
<1>1. /\ wire # <<>> /\ R!Message.kind = "auth" /\ wire' = Tail(wire)
      /\ UNCHANGED <<main, open, keySession, invalidating, tails>>
  BY DEF R!AuthAnswer, R!Event, R!Received, R!Main, R!mainState
<1>2. CASE /\ R!isAuthAttemptCurrent(R!Message.call.epoch) /\ R!Message.result = "ok"
           /\ R!Unlocks(R!Message.view)
  <2>0. PICK e : e = R!Lists([epoch |-> guardEpoch + 1, vault |-> R!Message.view.vault], R!Nothing)
    OBVIOUS
  <2>1. e.kind = "list"
    BY <2>0 DEF R!Lists
  <2>2. /\ guardEpoch' = guardEpoch + 1 /\ unlocked' = TRUE /\ screen' = "unlocked"
                /\ view' = R!Message.view
        /\ inbox' = Append(inbox, e)
    BY <1>2, <2>0 DEF R!Unlocks, R!begin, R!Sends
  <2>3. R!Message.view \in R!Views /\ R!Message.view # None
    BY <1>1, <1>2, FirstMessage, RendererAssumption DEF R!MessageOK
  <2>4. R!Opens(R!Message)
    BY <1>1, <1>2 DEF R!Opens, R!isAuthAttemptCurrent
  <2>5. e.kind \notin CallKinds
    BY <2>1 DEF CallKinds
  <2>6. QED  BY <1>1, <2>2, <2>3, <2>4, <2>5, BeginSides
<1>3. CASE ~(R!isAuthAttemptCurrent(R!Message.call.epoch) /\ R!Message.result = "ok") /\ R!Ignored
  <2>1. /\ ~unlocked => ~R!Opens(R!Message)
        /\ ~R!Reopens(R!Message)
    BY <1>1, <1>3 DEF R!Opens, R!Reopens, R!isAuthAttemptCurrent
  <2>2. UNCHANGED <<inbox, guardEpoch, unlocked, screen, view>>
    BY <1>3 DEF R!Ignored, R!guard, R!shown
  <2>3. QED  BY <1>1, <2>1, <2>2, SpentSides
<1>4. QED  BY <1>2, <1>3 DEF R!AuthAnswer

LEMMA OnAutoLockSides ==
  ASSUME R!ListInv, R!TwoSides, R!onAutoLock
  PROVE  R!TwoSides'
<1>1. /\ wire # <<>> /\ R!Message.kind = "autoLock" /\ wire' = Tail(wire)
      /\ UNCHANGED <<main, open, keySession, invalidating, tails>>
  BY DEF R!onAutoLock, R!Event, R!Received, R!Main, R!mainState
<1>2. CASE R!locks
  <2>0. PICK e : e = [kind |-> "lock"]
    OBVIOUS
  <2>1. e.kind = "lock"
    BY <2>0
  <2>2. /\ guardEpoch' = guardEpoch + 1 /\ unlocked' = FALSE /\ screen' = "locked" /\ view' = None
        /\ inbox' = Append(inbox, e)
    BY <1>2, <2>0 DEF R!locks, R!end, R!Sends
  <2>3. QED  BY <1>1, <2>1, <2>2, EndSides
<1>3. CASE screen # "unlocked" /\ R!Ignored
  <2>1. screen = "locked" /\ ~R!Opens(R!Message) /\ ~R!Reopens(R!Message)
    BY <1>1, <1>3, SessionTyped DEF R!Opens, R!Reopens
  <2>2. UNCHANGED <<inbox, guardEpoch, unlocked, screen, view>>
    BY <1>3 DEF R!Ignored, R!guard, R!shown
  <2>3. QED  BY <1>1, <2>1, <2>2, SpentSides
<1>4. QED  BY <1>2, <1>3 DEF R!onAutoLock

LEMMA SignOutAnswerSides ==
  ASSUME R!ListInv, R!TwoSides, R!SignOutAnswer
  PROVE  R!TwoSides'
<1>1. /\ wire # <<>> /\ R!Message.kind = "signOut" /\ wire' = Tail(wire) /\ inbox' = inbox
      /\ UNCHANGED <<main, open, keySession, invalidating, tails>>
  BY DEF R!SignOutAnswer, R!Event, R!Received, R!Main, R!mainState
<1>2. 1 \in DOMAIN wire /\ wire[1] = R!Message
  BY <1>1, MessageTaken
<1>3. R!Leaves(R!Message.call.epoch) /\ R!Message.result = "failed"
  BY <1>1, <1>2 DEF R!TwoSides, R!EpochsSeen
<1>4. CASE guardEpoch # R!Message.call.epoch /\ UNCHANGED <<R!guard, R!shown>>
  <2>1. ~R!Opens(R!Message) /\ ~R!Reopens(R!Message) /\ UNCHANGED <<guardEpoch, unlocked, screen,
                                                                    view>>
    BY <1>1, <1>4 DEF R!Opens, R!Reopens, R!guard, R!shown
  <2>2. QED  BY <1>1, <2>1, SpentSides
<1>5. CASE guardEpoch = R!Message.call.epoch /\ R!begin /\ UNCHANGED R!shown
  <2>1. screen = "unlocked" /\ view # None
    BY <1>3, <1>5 DEF R!Leaves, R!TwoSides, R!ShownWhole
  <2>2. /\ guardEpoch' = guardEpoch + 1 /\ unlocked' = TRUE /\ screen' = "unlocked"
                /\ view' # None
    BY <1>5, <2>1 DEF R!begin, R!shown
  <2>3. QED  BY <1>1, <2>1, <2>2, BeginSides
<1>6. QED  BY <1>3, <1>4, <1>5 DEF R!SignOutAnswer

\* Of a vault that the answer brings, in the scope that asked for it.
LEMMA InstallSides ==
  ASSUME R!ListInv, R!TwoSides, wire # <<>>, wire' = Tail(wire), R!Message.kind \in {"list",
         "change"},
         UNCHANGED <<inbox, main, open, keySession, invalidating, tails>>,
         R!ScopeCurrent(R!Message.call.scope), NEW v, v # None, NEW c, R!installVaultScope(v, c)
  PROVE  R!TwoSides'
<1>1. unlocked /\ screen = "unlocked"
  BY DEF R!ScopeCurrent, R!isCurrent, R!TwoSides, R!ShownWhole
<1>2. /\ guardEpoch' = guardEpoch + 1 /\ unlocked' = TRUE /\ screen' = "unlocked" /\ view' # None
  BY DEF R!installVaultScope, R!begin
<1>3. QED  BY <1>1, <1>2, BeginSides

LEMMA ListAnswerSides ==
  ASSUME R!ListInv, R!TwoSides, R!ListAnswer
  PROVE  R!TwoSides'
<1>0. PICK call, next : call = R!Message.call /\ next = call.next
  OBVIOUS
<1>1. /\ wire # <<>> /\ R!Message.kind = "list" /\ wire' = Tail(wire)
      /\ UNCHANGED <<main, open, keySession, invalidating, tails>>
  BY DEF R!ListAnswer, R!Event, R!Received, R!Main, R!mainState
<1>2. CASE /\ R!ScopeCurrent(call.scope) /\ next.op = "install" /\ inbox' = inbox
           /\ R!installVaultScope(next.view, R!Message.coll)
  <2>1. next.view \in R!Views /\ next.view # None
    BY <1>0, <1>1, <1>2, FirstMessage, RendererAssumption DEF R!MessageOK, R!CallOK, R!ChangeOK,
                                                              R!ChangeOps
  <2>2. QED  BY <1>0, <1>1, <1>2, <2>1, InstallSides
<1>3. CASE /\ UNCHANGED <<guardEpoch, unlocked, screen, view>>
           /\ inbox' = inbox
                   \/ R!Sends(R!Changes(call.scope, next, R!Message.coll.revision, FALSE))
  <2>1. inbox' = inbox \/ \E e : e.kind \notin CallKinds /\ inbox' = Append(inbox, e)
    <3>0. PICK e : e = R!Changes(call.scope, next, R!Message.coll.revision, FALSE)
      OBVIOUS
    <3>1. e.kind = "change"
      BY <3>0 DEF R!Changes
    <3>2. QED  BY <1>3, <3>0, <3>1 DEF R!Sends, CallKinds
  <2>2. R!Message.kind \notin MessageKinds
    BY <1>1 DEF MessageKinds
  <2>3. \A h \in main' : h \in main /\ (R!Current(h)' => R!Current(h))
    BY <1>1 DEF R!Current
  <2>4. QED  BY <1>1, <1>3, <2>1, <2>2, <2>3, SessionTyped, QuietStep
<1>4. QED  BY <1>0, <1>2, <1>3 DEF R!ListAnswer, R!Ignored, R!guard, R!shown

LEMMA ChangeAnswerSides ==
  ASSUME R!ListInv, R!TwoSides, R!ChangeAnswer
  PROVE  R!TwoSides'
<1>1. /\ wire # <<>> /\ R!Message.kind = "change" /\ wire' = Tail(wire) /\ inbox' = inbox
      /\ UNCHANGED <<main, open, keySession, invalidating, tails>>
  BY DEF R!ChangeAnswer, R!Event, R!Received, R!Main, R!mainState
<1>2. CASE /\ R!ScopeCurrent(R!Message.call.scope) /\ R!Message.view # None
           /\ R!installVaultScope(R!Message.view, R!Message.coll)
  BY <1>1, <1>2, InstallSides
<1>3. CASE UNCHANGED <<guardEpoch, unlocked, screen, view>>
  <2>1. R!Message.kind \notin MessageKinds
    BY <1>1 DEF MessageKinds
  <2>2. \A h \in main' : h \in main /\ (R!Current(h)' => R!Current(h))
    BY <1>1 DEF R!Current
  <2>3. QED  BY <1>1, <1>3, <2>1, <2>2, SessionTyped, QuietStep
<1>4. QED  BY <1>2, <1>3 DEF R!ChangeAnswer, R!guard, R!shown

\* The other answers: a snapshot, an event of a switch, a lost answer.
LEMMA OtherAnswersSides ==
  ASSUME R!ListInv, R!TwoSides,
         R!onVaultChanged \/ R!MutateAnswer \/ R!onVaultSwitched \/ R!AnswerLost
  PROVE  R!TwoSides'
<1>1. /\ wire # <<>> /\ R!Message.kind \in {"changed", "mutate", "switched", "change"}
      /\ wire' = Tail(wire)
      /\ UNCHANGED <<main, open, keySession, invalidating, tails, guardEpoch, unlocked, screen>>
  BY DEF R!onVaultChanged, R!MutateAnswer, R!onVaultSwitched, R!AnswerLost, R!Event, R!Received,
         R!Main, R!mainState, R!guard, R!shown
<1>2. view' = None <=> view = None
  <2>1. CASE R!installNewerSnapshot(R!Message.view) /\ R!Message.view \in R!Views
    BY <2>1, RendererAssumption DEF R!installNewerSnapshot
  <2>2. CASE view' = view
    BY <2>2
  <2>3. R!onVaultChanged => R!Message.view \in R!Views
    BY <1>1, FirstMessage DEF R!onVaultChanged, R!Event, R!MessageOK
  <2>4. R!MutateAnswer /\ R!Message.result # "failed" => R!Message.view \in R!Views
    BY <1>1, FirstMessage DEF R!MutateAnswer, R!Event, R!MessageOK
  <2>5. QED  BY <2>1, <2>2, <2>3, <2>4 DEF R!onVaultChanged, R!MutateAnswer, R!onVaultSwitched,
                                           R!AnswerLost, R!shown
<1>3. inbox' = inbox \/ \E e : e.kind \notin CallKinds /\ inbox' = Append(inbox, e)
  <2>1. PICK e : e = R!Lists(R!Scope, [op |-> "install", view |-> R!Message.view])
    OBVIOUS
  <2>2. PICK f : f = R!Changes(R!Message.call.scope, R!Message.call, R!Message.call.expected, TRUE)
    OBVIOUS
  <2>3. e.kind \notin CallKinds /\ f.kind \notin CallKinds
    BY <2>1, <2>2 DEF R!Lists, R!Changes, CallKinds
  <2>4. inbox' = inbox \/ inbox' = Append(inbox, e) \/ inbox' = Append(inbox, f)
    BY <2>1, <2>2 DEF R!onVaultChanged, R!MutateAnswer, R!onVaultSwitched, R!AnswerLost, R!Sends
  <2>5. QED  BY <2>3, <2>4
<1>4. R!Message.kind \notin MessageKinds
  BY <1>1 DEF MessageKinds
<1>5. \A h \in main' : h \in main /\ (R!Current(h)' => R!Current(h))
  BY <1>1 DEF R!Current
<1>6. QED  BY <1>1, <1>2, <1>3, <1>4, <1>5, SessionTyped, QuietStep

-----------------------------------------------------------------------------
LEMMA UserSides ==
  ASSUME R!ListInv, R!TwoSides, R!User
  PROVE  R!TwoSides'
<1>1. CASE R!lock
  <2>0. PICK e : e = [kind |-> "lock"]
    OBVIOUS
  <2>1. e.kind = "lock"
    BY <2>0
  <2>2. /\ guardEpoch' = guardEpoch + 1 /\ unlocked' = FALSE /\ screen' = "locked" /\ view' = None
        /\ inbox' = Append(inbox, e) /\ wire' = wire
        /\ UNCHANGED <<main, open, keySession, invalidating, tails>>
    BY <1>1, <2>0 DEF R!lock, R!locks, R!end, R!Sends, R!Main, R!mainState
  <2>3. QED  BY <2>1, <2>2, EndSides
<1>2. CASE R!signOut
  <2>0. PICK e : e = [kind |-> "signOut", epoch |-> guardEpoch + 1]
    OBVIOUS
  <2>1. e.kind = "signOut" /\ e.epoch = guardEpoch + 1
    BY <2>0
  <2>2. /\ guardEpoch' = guardEpoch + 1 /\ unlocked' = FALSE /\ screen = "unlocked"
        /\ inbox' = Append(inbox, e) /\ wire' = wire
        /\ UNCHANGED <<screen, view, main, open, keySession, invalidating, tails>>
    BY <1>2, <2>0 DEF R!signOut, R!end, R!Sends, R!Main, R!mainState, R!shown
  <2>3. QED  BY <2>1, <2>2, EndSides
<1>3. CASE R!runVaultCommand \/ R!captureVaultCollectionMutation
  <2>1. /\ UNCHANGED <<wire, main, open, keySession, invalidating, tails, guardEpoch, unlocked,
                       screen, view>>
    BY <1>3 DEF R!runVaultCommand, R!captureVaultCollectionMutation, R!Main, R!mainState,
                R!Renderer, R!guard, R!shown
  <2>2. \E e : e.kind \notin CallKinds /\ inbox' = Append(inbox, e)
    <3>1. CASE R!runVaultCommand
      <4>1. PICK e : e = [kind |-> "mutate", epoch |-> guardEpoch, expected |-> view.rev]
        OBVIOUS
      <4>2. e.kind \notin CallKinds
        BY <4>1 DEF CallKinds
      <4>3. QED  BY <3>1, <4>1, <4>2 DEF R!runVaultCommand, R!Sends
    <3>2. CASE R!captureVaultCollectionMutation
      <4>1. PICK next : R!Sends(R!Lists(R!Scope, next))
        BY <3>2 DEF R!captureVaultCollectionMutation
      <4>2. PICK e : e = R!Lists(R!Scope, next)
        OBVIOUS
      <4>3. e.kind \notin CallKinds
        BY <4>2 DEF R!Lists, CallKinds
      <4>4. QED  BY <4>1, <4>2, <4>3 DEF R!Sends
    <3>3. QED  BY <1>3, <3>1, <3>2
  <2>3. \A h \in main' : h \in main /\ (R!Current(h)' => R!Current(h))
    BY <2>1 DEF R!Current
  <2>4. QED  BY <2>1, <2>2, <2>3, SessionTyped, QuietStep
<1>4. QED  BY <1>1, <1>2, <1>3, AuthenticateSides DEF R!User

\* A handler of a command, a list or a change: begun or answered.
LEMMA OtherCallsSides ==
  ASSUME R!ListInv, R!TwoSides, R!TakeMutate \/ R!TakeList \/ R!TakeChange \/ R!Edited
  PROVE  R!TwoSides'
<1>1. /\ UNCHANGED <<open, tails, invalidating, guardEpoch, unlocked, screen, view>>
      /\ keySession' = keySession \/ keySession' = keySession + 1
      /\ \/ inbox' = inbox
         \/ inbox # <<>> /\ R!Call.kind \in {"mutate", "list", "change"} /\ inbox' = Tail(inbox)
  BY DEF R!TakeMutate, R!TakeList, R!TakeChange, R!Edited, R!Turn, R!Taken, R!Starts, R!mainState,
         R!Renderer, R!guard, R!shown
<1>2. keySession \in Nat /\ keySession' \in Nat /\ keySession <= keySession'
  BY <1>1, SessionTyped
<1>3. \A h \in main' : h.at = "auth" => h \in main
  <2>1. CASE R!TakeMutate
    <3>1. PICK g : g = [at |-> "mutate", session |-> keySession, call |-> R!Call]
      OBVIOUS
    <3>2. g.at = "mutate"
      BY <3>1
    <3>3. main' = main \/ main' = main \cup {g}
      BY <2>1, <3>1 DEF R!TakeMutate, R!Starts, R!mainState
    <3>4. QED  BY <3>2, <3>3
  <2>2. CASE R!TakeChange
    <3>0. PICK s : s = IF R!Rotates(R!Call) THEN keySession + 1 ELSE keySession
      OBVIOUS
    <3>1. PICK g : g = [at |-> "change", session |-> s, call |-> R!Call]
      OBVIOUS
    <3>2. g.at = "change"
      BY <3>1
    <3>3. main' = main \/ main' = main \cup {g}
      BY <2>2, <3>0, <3>1 DEF R!TakeChange, R!mainState
    <3>4. QED  BY <3>2, <3>3
  <2>3. CASE R!TakeList \/ R!Edited
    BY <2>3 DEF R!TakeList, R!Edited, R!mainState
  <2>4. QED  BY <2>1, <2>2, <2>3
<1>4. \A h \in main : h.at = "auth" => (R!Current(h)' => R!Current(h))
  BY <1>1, <1>2 DEF R!TwoSides, R!EpochsSeen, R!Current
<1>5. wire' = wire \/ \E e : e.kind \notin MessageKinds /\ R!Says(<<e>>)
  <2>1. PICK e : e = R!Failed(R!Call)
    OBVIOUS
  <2>2. PICK l : l = [kind |-> "list", call |-> R!Call, result |-> "ok", coll |-> R!Collection]
    OBVIOUS
  <2>3. PICK d : d = R!Changed(active, rev[active] + 1)
    OBVIOUS
  <2>4. /\ e.kind = R!Call.kind /\ l.kind = "list" /\ d.kind = "changed"
    BY <2>1, <2>2, <2>3 DEF R!Failed, R!Changed
  <2>5. R!Edited => R!Says(<<d>>)
    BY <2>3 DEF R!Edited
  <2>6. R!TakeList => R!Call.kind = "list" /\ (R!Says(<<l>>) \/ R!Says(<<e>>))
    BY <2>1, <2>2 DEF R!TakeList, R!Turn
  <2>7. R!TakeMutate => R!Call.kind = "mutate" /\ (wire' = wire \/ R!Says(<<e>>))
    BY <2>1 DEF R!TakeMutate, R!Turn
  <2>8. R!TakeChange => R!Call.kind = "change" /\ (wire' = wire \/ R!Says(<<e>>))
    BY <2>1 DEF R!TakeChange, R!Turn
  <2>9. QED  BY <2>4, <2>5, <2>6, <2>7, <2>8 DEF MessageKinds
<1>6. \/ inbox' = inbox
      \/ inbox # <<>> /\ R!Call.kind \notin CallKinds /\ inbox' = Tail(inbox)
  BY <1>1 DEF CallKinds
<1>7. QED  BY <1>1, <1>2, <1>3, <1>4, <1>5, <1>6, QuietStep

LEMMA OtherHandlersSides ==
  ASSUME R!ListInv, R!TwoSides, NEW h \in main,
         R!Mutated(h) \/ R!ChangeCommits(h) \/ R!ChangeRefused(h) \/ R!Snapshot(h)
  PROVE  R!TwoSides'
<1>1. /\ UNCHANGED <<inbox, open, keySession, tails, guardEpoch, unlocked, screen, view>>
      /\ h.at \in {"mutate", "change", "read"}
  BY DEF R!Mutated, R!ChangeCommits, R!ChangeRefused, R!Snapshot, R!AnswersOnly, R!Renderer,
         R!guard, R!shown
<1>2. h.call.kind \in {"mutate", "change"}
  BY <1>1 DEF R!ListInv, R!MainOK, R!HandlerOK
<1>3. /\ \A g \in main' : g.at = "auth" => g \in main
      /\ \/ invalidating' = (invalidating /\ main' # {})
         \/ invalidating' = invalidating
  <2>1. CASE R!Ends(h)
    BY <2>1 DEF R!Ends
  <2>2. CASE R!ChangeCommits(h) /\ h.call.op # "rename"
    <3>0. PICK known, result :
            /\ known = (h.call.id \in DOMAIN receipts)
            /\ result = IF known THEN receipts[h.call.id] ELSE R!Result(h.call)
      OBVIOUS
    <3>1. PICK g : g = [at |-> "read", session |-> h.session, call |-> h.call, result |-> result,
                        known |-> known]
      OBVIOUS
    <3>2. g.at = "read"
      BY <3>1
    <3>3. main' = (main \ {h}) \cup {g} /\ invalidating' = invalidating
      BY <2>2, <3>0, <3>1 DEF R!ChangeCommits
    <3>4. QED  BY <3>2, <3>3
  <2>3. QED  BY <2>1, <2>2 DEF R!Mutated, R!ChangeCommits, R!ChangeRefused, R!Snapshot
<1>4. \A g \in main' : R!Current(g)' => R!Current(g)
  <2>1. \A g \in main' : ~invalidating' => ~invalidating
    BY <1>3, SessionTyped
  <2>2. QED  BY <1>1, <2>1 DEF R!Current
<1>5. \/ wire' = wire
      \/ \E e : e.kind \notin MessageKinds /\ R!Says(<<e>>)
      \/ \E d, e : d.kind \notin MessageKinds /\ e.kind \notin MessageKinds /\ R!Says(<<d, e>>)
  <2>0. PICK f : f = R!Failed(h.call)
    OBVIOUS
  <2>f. f.kind \in {"mutate", "change"}
    BY <1>2, <2>0 DEF R!Failed
  <2>1. ASSUME R!Mutated(h)
        PROVE  \/ \E e : e.kind \notin MessageKinds /\ R!Says(<<e>>)
               \/ \E d, e : /\ d.kind \notin MessageKinds /\ e.kind \notin MessageKinds
                            /\ R!Says(<<d, e>>)
    <3>1. PICK d : d = R!Changed(active, rev[active] + 1)
      OBVIOUS
    <3>2. PICK e : e = [kind |-> "mutate", call |-> h.call, result |-> "ok",
                        view |-> [vault |-> active, rev |-> rev'[active]]]
      OBVIOUS
    <3>3. PICK s : s = [kind |-> "mutate", call |-> h.call, result |-> "stale",
                        view |-> [vault |-> active, rev |-> rev'[active]]]
      OBVIOUS
    <3>4. d.kind = "changed" /\ e.kind = "mutate" /\ s.kind = "mutate"
      BY <3>1, <3>2, <3>3 DEF R!Changed
    <3>5. R!Says(<<d, e>>) \/ R!Says(<<s>>) \/ R!Says(<<f>>)
      BY <2>0, <2>1, <3>1, <3>2, <3>3 DEF R!Mutated
    <3>6. QED  BY <2>f, <3>4, <3>5 DEF MessageKinds
  <2>2. ASSUME R!ChangeCommits(h)
        PROVE  wire' = wire \/ \E e : e.kind \notin MessageKinds /\ R!Says(<<e>>)
    <3>0. PICK result : result = IF h.call.id \in DOMAIN receipts THEN receipts[h.call.id]
                                 ELSE R!Result(h.call)
      OBVIOUS
    <3>1. PICK e : e = [kind |-> "change", call |-> h.call, result |-> "ok", coll |-> result,
                        view |-> None]
      OBVIOUS
    <3>2. e.kind = "change"
      BY <3>1
    <3>3. wire' = wire \/ R!Says(<<e>>)
      BY <2>2, <3>0, <3>1 DEF R!ChangeCommits
    <3>4. QED  BY <3>2, <3>3 DEF MessageKinds
  <2>3. ASSUME R!ChangeRefused(h)
        PROVE  \E e : e.kind \notin MessageKinds /\ R!Says(<<e>>)
    <3>1. PICK e : e = [kind |-> "change", call |-> h.call, result |-> "stale",
                        coll |-> R!Collection]
      OBVIOUS
    <3>2. e.kind = "change"
      BY <3>1
    <3>3. R!Says(<<e>>) \/ R!Says(<<f>>)
      BY <2>0, <2>3, <3>1 DEF R!ChangeRefused
    <3>4. QED  BY <2>f, <3>2, <3>3 DEF MessageKinds
  <2>4. ASSUME R!Snapshot(h)
        PROVE  \/ \E e : e.kind \notin MessageKinds /\ R!Says(<<e>>)
               \/ \E d, e : /\ d.kind \notin MessageKinds /\ e.kind \notin MessageKinds
                            /\ R!Says(<<d, e>>)
    <3>0. PICK v : v = R!View(h.result.active)
      OBVIOUS
    <3>1. PICK e : e = [kind |-> "change", call |-> h.call, result |-> "ok", coll |-> h.result,
                        view |-> v]
      OBVIOUS
    <3>2. PICK d : d = [kind |-> "switched", view |-> v]
      OBVIOUS
    <3>3. e.kind = "change" /\ d.kind = "switched"
      BY <3>1, <3>2
    <3>4. R!Says(<<>> \o <<e>>) \/ R!Says(<<d>> \o <<e>>)
      BY <2>4, <3>0, <3>1, <3>2 DEF R!Snapshot
    <3>5. R!Says(<<e>>) \/ R!Says(<<d, e>>)
      BY <3>4 DEF R!Says
    <3>6. QED  BY <3>3, <3>5 DEF MessageKinds
  <2>5. QED  BY <2>1, <2>2, <2>3, <2>4
<1>6. keySession' \in Nat /\ keySession <= keySession'
  BY <1>1, SessionTyped
<1>7. \A g \in main' : g.at = "auth" => g \in main /\ (R!Current(g)' => R!Current(g))
  BY <1>3, <1>4
<1>8. QED  BY <1>1, <1>5, <1>6, <1>7, QuietStep

\* Once a sign-out has locked, the application only quits.
LEMMA StillGone ==
  ASSUME R!Next
  PROVE  UNCHANGED <<leaving, over>> \/ R!Gone'
<1>1. CASE R!User
  BY <1>1 DEF R!User, R!Authenticate, R!lock, R!signOut, R!runVaultCommand,
              R!captureVaultCollectionMutation, R!Main, R!mainState
<1>2. CASE R!Answers
  BY <1>2 DEF R!Answers, R!AuthAnswer, R!onAutoLock, R!SignOutAnswer, R!onVaultChanged,
              R!MutateAnswer, R!onVaultSwitched, R!ListAnswer, R!ChangeAnswer, R!AnswerLost,
              R!Main, R!mainState
<1>3. CASE R!TakeAuth \/ R!TakeLock \/ R!TakeMutate \/ R!TakeList \/ R!TakeChange
            \/ R!LockHere \/ R!LockTail
           \/ R!Edited
  BY <1>3 DEF R!TakeAuth, R!TakeLock, R!TakeMutate, R!TakeList, R!TakeChange, R!LockHere,
              R!LockTail, R!Edited, R!Starts, R!mainState
<1>4. CASE R!TakeSignOut
  BY <1>4 DEF R!TakeSignOut, R!mainState, R!Gone
<1>5. CASE \E call \in leaving : R!SignedOut(call)
  BY <1>5 DEF R!SignedOut, R!Gone
<1>6. CASE \E h \in main : \/ R!Authenticated(h) \/ R!Mutated(h) \/ R!ChangeCommits(h)
                           \/ R!ChangeRefused(h) \/ R!Snapshot(h) \/ R!SnapshotFails(h)
  BY <1>6 DEF R!Authenticated, R!Mutated, R!ChangeCommits, R!ChangeRefused, R!Snapshot,
              R!SnapshotFails, R!AnswersOnly
<1>7. QED  BY <1>1, <1>2, <1>3, <1>4, <1>5, <1>6 DEF R!Next, R!Handlers

LEMMA InitSides ==
  ASSUME R!Init
  PROVE  R!SidesInv
BY DEF R!Init, R!SidesInv, R!TwoSides, R!EpochsSeen, R!ShownWhole, R!NoEndBehind, R!LearnsOfLock,
       R!Opens, R!SignsOut, R!EndIsSent

LEMMA NextSides ==
  ASSUME R!ListInv, R!SidesInv, R!Next
  PROVE  R!SidesInv'
<1>1. SUFFICES ASSUME ~R!Gone'
               PROVE  R!TwoSides'
  BY DEF R!SidesInv
<1>2. ~R!Gone /\ R!TwoSides /\ leaving = {}
  BY <1>1, StillGone DEF R!Gone, R!SidesInv
<1>3. CASE R!User
  BY <1>2, <1>3, UserSides
<1>4. CASE R!Answers
  BY <1>2, <1>4, AuthAnswerSides, OnAutoLockSides, SignOutAnswerSides, ListAnswerSides,
     ChangeAnswerSides, OtherAnswersSides DEF R!Answers
<1>5. CASE R!Handlers
  BY <1>1, <1>2, <1>5, TakeAuthSides, TakeLockSides, TakeSignOutSides, OtherCallsSides,
     LocksHereSides, LockTailSides, AuthenticatedSides, OtherHandlersSides DEF R!Handlers
<1>6. QED  BY <1>3, <1>4, <1>5 DEF R!Next

LEMMA StaysSides ==
  ASSUME R!SidesInv, UNCHANGED rendererVars
  PROVE  R!SidesInv'
BY DEF R!SidesInv, R!Gone, R!TwoSides, R!EpochsSeen, R!Attempt, R!Leaves, R!ShownWhole,
       R!NoEndBehind, R!EndsAccess, R!LearnsOfLock, R!Opens, R!Reopens, R!SignsOut, R!EndIsSent,
       R!Closes, R!Current, rendererVars, R!channels, R!mainState, R!guard, R!shown

LEMMA AgreeAtRest ==
  ASSUME R!ListInv, R!SidesInv
  PROVE  R!SidesAgree
<1>1. SUFFICES ASSUME R!Quiet, R!TwoSides
               PROVE  /\ unlocked <=> open
                      /\ unlocked <=> screen = "unlocked"
                      /\ unlocked <=> view # None
  BY DEF R!SidesAgree, R!SidesInv, R!Quiet, R!Gone
<1>2. /\ DOMAIN inbox = {} /\ DOMAIN wire = {} /\ tails = 0
      /\ screen \in {"locked", "unlocked"}
  BY <1>1, SessionTyped DEF R!Quiet
<1>3. screen = "unlocked" => unlocked /\ open
  BY <1>1, <1>2 DEF R!TwoSides, R!SignsOut, R!LearnsOfLock
<1>4. ~unlocked => ~open
  BY <1>1, <1>2 DEF R!TwoSides, R!EndIsSent
<1>5. /\ screen = "unlocked" <=> view # None
      /\ unlocked => screen = "unlocked"
  BY <1>1 DEF R!TwoSides, R!ShownWhole
<1>6. unlocked <=> open
  BY <1>3, <1>4, <1>5, SessionTyped
<1>7. QED  BY <1>3, <1>5, <1>6, SessionTyped

-----------------------------------------------------------------------------
\* Of a behaviour of the renderer: what is on its way is what it should be.
LEMMA ListsHold == BothSpec => [](side = "renderer" => R!ListInv /\ R!SidesInv)
<1> DEFINE Lists == side = "renderer" => R!ListInv /\ R!SidesInv
<1>1. BothInit => Lists
  BY InitListInv, InitSides DEF BothInit
<1>2. Lists /\ [BothNext]_bothVars => Lists'
  <2>1. SUFFICES ASSUME Lists, [BothNext]_bothVars, side' = "renderer"
                 PROVE  R!ListInv' /\ R!SidesInv'
    OBVIOUS
  <2>2. side = "renderer" /\ (R!Next \/ UNCHANGED rendererVars)
    BY <2>1 DEF BothNext, bothVars
  <2>3. QED  BY <2>1, <2>2, NextListInv, StaysListInv, NextSides, StaysSides
<1>3. QED  BY <1>1, <1>2, PTL DEF BothSpec

\* "A renderer response is only allowed to affect the vault it was authored in."
\* (vaultContext.tsx:210): within an epoch of its session the renderer shows one vault, and
\* no late answer or event takes its document back to an earlier revision, nor the list of
\* the vaults, whatever answers are lost: but for the answer of a change that was sent again,
\* which shows the list as that change made it.
THEOREM RendererNeverGoesBack == BothSpec => RendererGoesOn
<1>1. /\ side = "renderer" => R!ListInv
      /\ [BothNext]_bothVars
      => [side = "renderer" => R!NothingGoesBack]_bothVars
  <2>1. SUFFICES ASSUME side = "renderer", R!ListInv, R!Next \/ UNCHANGED rendererVars
                 PROVE  R!NothingGoesBack
    BY DEF BothNext, bothVars
  <2>2. QED  BY <2>1, NextGoesOn, StaysGoesOn
<1>2. QED  BY <1>1, ListsHold, PTL DEF BothSpec, RendererGoesOn

\* Once nothing is on its way, and unless the application quits, the renderer is unlocked,
\* shows its main layout and holds a vault exactly when the main process has the key
\* (vaultContext.tsx:828 and :898-930, main/index.ts:651): whatever of unlocks, locks of
\* either side, failed sign-outs, changes and lost answers a behaviour had.
THEOREM RendererAgreesAtRest ==
  BothSpec => [](side = "renderer" => R!SidesAgree)
<1>1. (side = "renderer" => R!ListInv /\ R!SidesInv) => (side = "renderer" => R!SidesAgree)
  BY AgreeAtRest
<1>2. QED  BY <1>1, ListsHold, PTL
=============================================================================
