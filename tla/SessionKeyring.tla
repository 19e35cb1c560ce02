--------------------------- MODULE SessionKeyring ---------------------------
(***************************************************************************)
(* VaultSessionKeyring (src/main/vaultSessionKey.ts): the owner of the one *)
(* long-lived vault key.  Asynchronous work holds a handle (an operation,  *)
(* or a lease on a copy of the key) and calls assertCurrent before it      *)
(* commits; a lock, an unlock or a change of the selected vault is a       *)
(* boundary that must make every earlier handle fail that check.           *)
(*                                                                         *)
(* The keyring stamps each key buffer with the epoch it was installed at   *)
(* and makes a new buffer at every installation, so a buffer's identity is *)
(* its epoch.                                                              *)
(***************************************************************************)
EXTENDS Naturals, FiniteSets

CONSTANTS Handles,         \* places a handler keeps the handle it acquired
          DialogHandles,   \* the ones kept while a native dialog is open
          Lockers,         \* callers of invalidate()
          NoKey,           \* the keyring's null
          MaxEpoch         \* bound: how many boundaries a behaviour crosses

(* DialogHandles is a subset of Handles, which is finite, and NoKey no epoch: *)
(* KeyringAssumption of MCSessionLifecycle.                                   *)

VARIABLES
  key,               \* the epoch stamped on the installed buffer, or NoKey
  epoch,             \* epochValue
  invalidating,      \* a lock waits for the handles out there
  activeOperations,  \* the counter the lock waits on
  handle,            \* what each place holds
  locker,            \* each caller of invalidate()
  fresh,             \* history: handles acquired since the last boundary
  awaited            \* history: handles live when each caller locked

keyring == <<key, epoch, invalidating, activeOperations>>
vars    == <<key, epoch, invalidating, activeOperations, handle, locker, fresh, awaited>>

HandleKinds == {"none", "reference", "operation", "lease", "released"}
LockStates  == {"idle", "waiting", "returned"}
Buffers     == Nat \cup {NoKey}

TypeOK ==
  /\ key \in Buffers
  /\ epoch \in 0..MaxEpoch
  /\ invalidating \in BOOLEAN
  /\ activeOperations \in Nat
  /\ handle \in [Handles -> [kind : HandleKinds, epoch : Nat]]
  /\ locker \in [Lockers -> LockStates]
  /\ fresh \in SUBSET Handles
  /\ awaited \in [Lockers -> SUBSET Handles]

Init ==
  /\ key = NoKey
  /\ epoch = 0
  /\ invalidating = FALSE
  /\ activeOperations = 0
  /\ handle = [h \in Handles |-> [kind |-> "none", epoch |-> 0]]
  /\ locker = [l \in Lockers |-> "idle"]
  /\ fresh = {}
  /\ awaited = [l \in Lockers |-> {}]

-----------------------------------------------------------------------------
Unheld(h) == handle[h].kind \in {"none", "reference", "released"}
Held(h)   == handle[h].kind \in {"operation", "lease"}
Live      == {h \in Handles : Held(h)}

currentKey == IF invalidating THEN NoKey ELSE key
isUnlocked == currentKey # NoKey

\* Mutant of AssertCurrent: it forgets to compare epochs.
AssertUnlockedOnly(h) ==
  Held(h) /\ ~invalidating /\ (handle[h].kind = "lease" => key = handle[h].epoch)

\* assertCurrent of an operation, and of a lease, which also compares buffers.
AssertCurrent(h) ==
  /\ Held(h)
  /\ ~invalidating
  /\ handle[h].epoch = epoch
  /\ handle[h].kind = "lease" => key = handle[h].epoch

Acquire(h, kind) ==
  /\ activeOperations' = activeOperations + 1
  /\ handle' = [handle EXCEPT ![h] = [kind |-> kind, epoch |-> epoch]]
  /\ fresh' = fresh \cup {h}
  /\ UNCHANGED <<key, epoch, invalidating, locker, awaited>>

\* A boundary: the epoch moves on, nothing acquired before it is fresh.
Boundary ==
  /\ epoch < MaxEpoch
  /\ epoch' = epoch + 1
  /\ fresh' = {}

-----------------------------------------------------------------------------
beginOperation(h) ==
  /\ Unheld(h)
  /\ ~invalidating
  /\ Acquire(h, "operation")

\* A handler reads the branded buffer and passes it on; storage leases it later.
captureKey(h) ==
  /\ Unheld(h)
  /\ isUnlocked
  /\ handle' = [handle EXCEPT ![h] = [kind |-> "reference", epoch |-> key]]
  /\ UNCHANGED <<key, epoch, invalidating, activeOperations, locker, fresh, awaited>>

\* Leases the buffer captured earlier; any other buffer is refused.
leaseBoundKey(h) ==
  /\ handle[h].kind = "reference"
  /\ handle[h].epoch = epoch
  /\ key = handle[h].epoch
  /\ ~invalidating
  /\ Acquire(h, "lease")

\* The unlock handler h brings a key under the epoch its operation began in.
installKey(h) ==
  /\ handle[h].kind = "operation"
  /\ ~invalidating
  /\ handle[h].epoch = epoch
  /\ Boundary
  /\ key' = epoch + 1
  /\ UNCHANGED <<invalidating, activeOperations, handle, locker, awaited>>

\* Mutant of rotateScope: the old buffer stays installed with its old stamp.
rotateEpochOnly ==
  /\ isUnlocked
  /\ Boundary
  /\ UNCHANGED <<key, invalidating, activeOperations, handle, locker, awaited>>

rotateScope ==
  /\ isUnlocked
  /\ Boundary
  /\ key' = epoch + 1
  /\ UNCHANGED <<invalidating, activeOperations, handle, locker, awaited>>

\* Mutants of invalidate: the lock does not wait; it only clears the key.
invalidateAtOnce(l) ==
  /\ locker[l] # "waiting" /\ ~invalidating
  /\ Boundary
  /\ key' = NoKey
  /\ locker' = [locker EXCEPT ![l] = "waiting"]
  /\ awaited' = [awaited EXCEPT ![l] = Live]
  /\ UNCHANGED <<invalidating, activeOperations, handle>>

invalidateKeyOnly(l) ==
  /\ locker[l] # "waiting" /\ ~invalidating
  /\ key' = NoKey
  /\ fresh' = {}
  /\ locker' = [locker EXCEPT ![l] = "waiting"]
  /\ awaited' = [awaited EXCEPT ![l] = Live]
  /\ UNCHANGED <<epoch, invalidating, activeOperations, handle>>

\* The first caller starts the invalidation and waits when handles are live.
invalidate(l) ==
  /\ locker[l] # "waiting"
  /\ ~invalidating
  /\ Boundary
  /\ key' = NoKey
  /\ invalidating' = (activeOperations > 0)
  /\ locker' = [locker EXCEPT ![l] = "waiting"]
  /\ awaited' = [awaited EXCEPT ![l] = Live]
  /\ UNCHANGED <<activeOperations, handle>>

\* A caller that finds an invalidation under way waits for the same promise.
joinInvalidation(l) ==
  /\ locker[l] # "waiting"
  /\ invalidating
  /\ locker' = [locker EXCEPT ![l] = "waiting"]
  /\ awaited' = [awaited EXCEPT ![l] = Live]
  /\ UNCHANGED <<keyring, handle, fresh>>

\* Mutant of release: the waiting lock is not woken.
releaseSilently(h) ==
  /\ Held(h)
  /\ handle' = [handle EXCEPT ![h].kind = "released"]
  /\ activeOperations' = activeOperations - 1
  /\ fresh' = fresh \ {h}
  /\ awaited' = [l \in Lockers |-> awaited[l] \ {h}]
  /\ UNCHANGED <<key, epoch, locker, invalidating>>

\* release(): once per handle; the last one ends the invalidation in progress.
\* In the code that end comes a microtask or two later, which no handler that
\* begins in a task of its own can observe.
release(h) ==
  /\ Held(h)
  /\ handle' = [handle EXCEPT ![h].kind = "released"]
  /\ activeOperations' = IF activeOperations = 0 THEN 0 ELSE activeOperations - 1
  /\ invalidating' = (invalidating /\ activeOperations' # 0)
  /\ fresh' = fresh \ {h}
  /\ awaited' = [l \in Lockers |-> awaited[l] \ {h}]
  /\ UNCHANGED <<key, epoch, locker>>

\* The awaiting caller resumes after the invalidation has ended; handlers that
\* run between the two may already have started new work.
invalidateReturns(l) ==
  /\ locker[l] = "waiting"
  /\ ~invalidating
  /\ locker' = [locker EXCEPT ![l] = "returned"]
  /\ UNCHANGED <<keyring, handle, fresh, awaited>>

Next ==
  \/ \E h \in Handles : \/ beginOperation(h) \/ captureKey(h) \/ leaseBoundKey(h)
                        \/ installKey(h) \/ release(h)
  \/ rotateScope
  \/ \E l \in Lockers : invalidate(l) \/ joinInvalidation(l) \/ invalidateReturns(l)

Spec == Init /\ [][Next]_vars

\* Every handler releases in a finally block, so a handle outlives no await
\* that ends; one kept over a native dialog lasts as long as the user likes.
Fairness ==
  /\ \A h \in Handles \ DialogHandles : WF_vars(release(h))
  /\ \A l \in Lockers : WF_vars(invalidateReturns(l))

FairSpec == Spec /\ Fairness

-----------------------------------------------------------------------------
\* A handle passes assertCurrent exactly while no lock, unlock or scope change
\* has happened since it was acquired: stale work never commits, and current
\* work is never refused (vaultSessionKey.ts:32-38, 107-112).
CommitsOnlyInItsScope == \A h \in Handles : AssertCurrent(h) <=> h \in fresh

\* The counter a lock waits on is the number of live handles, so a lock neither
\* returns over live work nor waits for work that is gone.
CountsLiveHandles == activeOperations = Cardinality(Live)

\* When a lock returns, every operation that was running when it was called
\* has finished, for the caller that started it and for those that joined.
LockDrains == \A l \in Lockers : locker[l] = "returned" => awaited[l] = {}

\* A lock in progress hides the key from everyone and is only ever waiting for
\* work that began before it.
NoKeyWhileLocking == invalidating => key = NoKey /\ fresh = {} /\ Live # {}

\* A key appears only through an unlock whose operation saw no boundary: an
\* unlock that a lock or another unlock overtook installs nothing.
UnlockOnlyUnovertaken ==
  [][key' # NoKey /\ key = NoKey =>
       \E h \in fresh : handle[h].kind = "operation"]_vars

\* The strengthening the proofs induct on.
KeyBelongsToEpoch == key # NoKey => key = epoch

StampsAreOld == \A h \in Handles : handle[h].epoch <= epoch

FreshExactly ==
  \A h \in Handles :
    h \in fresh <=> Held(h) /\ handle[h].epoch = epoch /\ ~invalidating

LeaseSharesBuffer ==
  \A h \in fresh : handle[h].kind = "lease" => key = epoch

AwaitedWorkIsLive ==
  \A l \in Lockers : /\ awaited[l] \subseteq Live
                     /\ awaited[l] # {} => invalidating

IInv ==
  /\ TypeOK
  /\ KeyBelongsToEpoch
  /\ StampsAreOld
  /\ FreshExactly
  /\ LeaseSharesBuffer
  /\ CountsLiveHandles
  /\ NoKeyWhileLocking
  /\ AwaitedWorkIsLive
  /\ LockDrains

\* Every lock eventually returns unless an open dialog keeps its handle.
LockReturns ==
  \A l \in Lockers :
    locker[l] = "waiting" ~>
      (locker[l] = "returned" \/ \E h \in DialogHandles : Held(h))
=============================================================================
