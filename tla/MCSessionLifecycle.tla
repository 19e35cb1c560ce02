------------------------- MODULE MCSessionLifecycle -------------------------
(* The session and the keyring that guards its key.  A behaviour is of one  *)
(* of them; the other stays as it was at the start.  Of the session: two    *)
(* handlers, one of which may wait for a dialog, and no faults; and the     *)
(* latter with a fault.  Of the keyring: three handles, one of them kept    *)
(* over a native dialog, and two callers that lock.                         *)
EXTENDS SessionLifecycle
CONSTANTS e1, e2, h1, h2, h3, Handles, LongHandles, Callers, NoKey, MaxBoundaries
MCEvents   == {e1, e2}
MCHandlers == {h1, h2}
MCDialogs  == {h2}

Beside   == [handlers |-> MCHandlers, faults |-> 0]
Faulty   == [handlers |-> MCDialogs, faults |-> 1]
MCCasts  == {Beside, Faulty}
OneAlone == {[handlers |-> {h1}, faults |-> 0]}

MCHandles     == {h1, h2, h3}
MCLongHandles == {h3}

VARIABLES part, key, epochValue, invalidating, activeOperations, handle, locker,
          acquired, awaited

Keyring == INSTANCE SessionKeyring
             WITH DialogHandles <- LongHandles, Lockers <- Callers, MaxEpoch <- MaxBoundaries,
                  epoch <- epochValue, fresh <- acquired

\* SessionKeyring's assumptions, of these constants.
ASSUME KeyringAssumption ==
  /\ LongHandles \subseteq Handles /\ IsFiniteSet(Handles)
  /\ MaxBoundaries \in Nat /\ NoKey \notin Nat

keyringVars == <<key, epochValue, invalidating, activeOperations, handle, locker,
                 acquired, awaited>>
allVars == <<part, vars, keyringVars>>

SessionsInit ==
  /\ part \in {"session", "keyring"} /\ Init /\ Keyring!Init
  /\ part = "keyring" => cast = CHOOSE c \in Casts : TRUE

SessionsNext ==
  /\ part' = part
  /\ \/ part = "session" /\ Next /\ UNCHANGED keyringVars
     \/ part = "keyring" /\ Keyring!Next /\ UNCHANGED vars

SessionsSpec == SessionsInit /\ [][SessionsNext]_allVars

\* Nothing that is fair can happen in the part that stays as it was.
SessionsFairSpec == SessionsSpec /\ Fairness /\ Keyring!Fairness

\* SessionKeyring's invariant: the counter a lock waits on is the number of live handles,
\* and no key is there while it waits (vaultSessionKey.ts:64-94).
KeyringInv == Keyring!IInv

\* SessionKeyring's: a handle passes assertCurrent exactly while no lock, unlock or scope
\* change has happened since it was acquired (vaultSessionKey.ts:32-38, 107-112).
CommitsOnlyInItsScope == Keyring!CommitsOnlyInItsScope

\* SessionKeyring's: a lock that returns has waited for the work it found running, also
\* for a caller that joined it.
LockDrains == Keyring!LockDrains

\* SessionKeyring's: an unlock that a lock or another unlock overtook installs no key.
UnlockOnlyUnovertaken == Keyring!UnlockOnlyUnovertaken

\* SessionKeyring's: every lock returns unless an open dialog keeps its handle.
LockReturns == Keyring!LockReturns
===============================================================================
