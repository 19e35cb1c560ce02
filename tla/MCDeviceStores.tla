---------------------------- MODULE MCDeviceStores ----------------------------
(* Three stores beside the vault, which share nothing: a behaviour is one of    *)
(* the reveal PIN's throttle; or one of the Keychain helper, over the edition   *)
(* of this repository, which has no retired service, and one with a retired     *)
(* one; or one of the audit log, with rotations and faults or with readers.     *)
EXTENDS MCQuickRevealPin, Sequences

CONSTANTS h1, h2, Unknown, Helpers, Editions, MaxKeys, MaxCalls, MaxKeychainFaults,
          r1, r2, Appender, Readers, MaxArchives, MaxEvents, MaxLogFaults, LogSettings

OneHelper    == {h1}
TwoHelpers   == {h1, h2}
Nothing      == {}
BothEditions == {<<>>, <<"retired">>}

TwoReaders    == {r1, r2}
StoreSymmetry == CallerSymmetry \cup Permutations(TwoReaders)

LogBounds(l, who, n, f) == [limit |-> l, readers |-> who, events |-> n, faults |-> f]
RotationsAndReads == {LogBounds(2, {}, 8, 3), LogBounds(9, TwoReaders, 4, 0)}
OnlyReadRace      == {LogBounds(9, {r1}, 4, 0)}
OnlyReadLoss      == {LogBounds(1, {r1}, 4, 0)}

VARIABLES part, legacy, items, job, waiting, vault, tries, told, calls, keychainFaults,
          logSetting, active, anchor, archive, cache, actor, issued, acked, dropped, logFaults

keychainVars == <<legacy, items, job, waiting, vault, tries, told, calls, keychainFaults>>
logVars == <<logSetting, active, anchor, archive, cache, actor, issued, acked, dropped, logFaults>>
allVars == <<part, vars, keychainVars, logVars>>

Keychain == INSTANCE KeychainHelper
              WITH attempt <- tries, faults <- keychainFaults, MaxFaults <- MaxKeychainFaults

Log == INSTANCE AuditLog
         WITH setting <- logSetting, faults <- logFaults, MaxFaults <- MaxLogFaults,
              Settings <- LogSettings

NoThrottle ==
  /\ setting = None /\ stored = None /\ memory = None /\ attempt = None /\ check = None
  /\ checks = None /\ healthy = None /\ generation = None /\ clearing = None
  /\ cleared = None /\ failed = None /\ faults = None /\ restarts = None
NoKeychain ==
  /\ legacy = None /\ items = None /\ job = None /\ waiting = None /\ vault = None
  /\ tries = None /\ told = None /\ calls = None /\ keychainFaults = None
NoAudit ==
  /\ logSetting = None /\ active = None /\ anchor = None /\ archive = None /\ cache = None
  /\ actor = None /\ issued = None /\ acked = None /\ dropped = None /\ logFaults = None

StoresInit ==
  \/ part = "pin" /\ Init /\ NoKeychain /\ NoAudit
  \/ part = "keychain" /\ Keychain!Init /\ NoThrottle /\ NoAudit
  \/ part = "log" /\ Log!Init /\ NoThrottle /\ NoKeychain

StoresNext ==
  /\ part' = part
  /\ \/ part = "pin" /\ Next /\ UNCHANGED <<keychainVars, logVars>>
     \/ part = "keychain" /\ Keychain!Next /\ UNCHANGED <<vars, logVars>>
     \/ part = "log" /\ Log!Next /\ UNCHANGED <<vars, keychainVars>>

StoresSpec == StoresInit /\ [][StoresNext]_allVars

PinInv      == part = "pin" => IInv
KeychainInv == part = "keychain" => Keychain!IInv
LogInv      == part = "log" => Log!IInv

\* The invariants of the three modules, each of its own behaviours: the throttle forgets
\* no failure (quickRevealPin.ts:158), the helper's answers say what is there
\* (vault-keychain/main.swift:456), and the log keeps what it acknowledged and verifies
\* whatever was interrupted (audit.ts:538).
StoresInv == PinInv /\ KeychainInv /\ LogInv

\* KeychainHelper's action property, of a behaviour of the helper: a complete key stays,
\* and one that opens the vault is not replaced by another (main.swift:457).
KeysStay == [][part = "keychain" => Keychain!KeysStay]_allVars

\* AuditLog's action property, of a behaviour of the log: a read that succeeds returns
\* all that was acknowledged when it began (audit.ts:192).
ReadsAcknowledged == [][part = "log" => Log!ReadsAcknowledged]_allVars

\* AuditLog's HashChained, of a behaviour of the log (docs/security-architecture.md:71).
HashChained == part = "log" => Log!HashChained
===============================================================================
