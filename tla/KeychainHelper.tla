---------------------------- MODULE KeychainHelper ----------------------------
(***************************************************************************)
(* The native helper that keeps the vault key in the macOS Keychain        *)
(* (vault-keychain/main.swift), started by src/main/keychain.ts for the    *)
(* authentication flows of src/main/auth.ts.                               *)
(*                                                                         *)
(* The main process waits for a helper (spawnSync), and kills it when it   *)
(* takes too long; any Keychain call may fail.  So a helper may stop after *)
(* any of its calls, and the next one finds what it left.  When the main   *)
(* process dies instead, the helper goes on, beside those of the next one. *)
(*                                                                         *)
(* A service holds one key or None.  Keys are numbered; the vault opens    *)
(* with one of them.                                                       *)
(***************************************************************************)
EXTENDS Naturals, Sequences, Functions

CONSTANTS Helpers,       \* helper processes alive at a time
          None, Unknown,
          Editions,      \* the retired services of the edition, in their order
          MaxKeys,       \* bound: vaults that are set up
          MaxCalls,      \* bound: calls of the helper
          MaxFaults      \* bound: failed Keychain calls, kills, deaths of the main process

VARIABLES
  legacy,      \* LEGACY_SERVICES
  items,       \* by service
  job,         \* by helper
  waiting,     \* the helper the main process waits for, or None
  vault,       \* the key the vault opens with
  attempt,     \* the key a Touch ID unlock tries the vault with, or None
  told,        \* history: what the last answer says the Keychain holds, or Unknown
  calls, faults

vars == <<legacy, items, job, waiting, vault, attempt, told, calls, faults>>

Keys     == 1..MaxKeys
Services == {"primary", "migration"} \cup Range(legacy)
Idle     == [at |-> "idle", for |-> "none", key |-> None, service |-> 0, refresh |-> "no"]

\* What a helper is asked for: to store, to retrieve for an unlock or for a
\* confirmation, to remove.
Uses   == {"store", "unlock", "confirm", "remove"}
Stages == {"idle", "find", "auth", "read", "stage", "delete", "add", "unstage", "print", "remove"}

TypeOK ==
  /\ legacy \in Editions
  /\ items \in [Services -> Keys \cup {None}]
  /\ job \in [Helpers -> [at : Stages, for : Uses \cup {"none"}, key : Keys \cup {None},
                          service : 0..(Len(legacy) + 2), refresh : {"no", "yes", "failed"}]]
  /\ waiting \in Helpers \cup {None}
  /\ vault \in Keys
  /\ attempt \in Keys \cup {None}
  /\ told \in Keys \cup {None, Unknown}
  /\ calls \in 0..MaxCalls /\ faults \in 0..MaxFaults

\* The key of an earlier build under a retired service, or of this vault or a
\* former one under the primary service; MaxKeys - 1 vaults may follow.
Init ==
  /\ legacy \in Editions
  /\ \E s \in {"primary"} \cup Range(legacy), k \in {1, None} :
       items = [t \in Services |-> IF t = s THEN k ELSE None]
  /\ job = [h \in Helpers |-> Idle]
  /\ waiting = None
  /\ vault = 1
  /\ attempt = None
  /\ told = Unknown
  /\ calls = 0 /\ faults = 0

-----------------------------------------------------------------------------
ReadServices == <<"primary">> \o legacy \o <<"migration">>
Replaced     == <<"primary">> \o legacy

Present(s) == items[s] # None
Found      == {n \in DOMAIN ReadServices : Present(ReadServices[n])}
First      == CHOOSE n \in Found : \A m \in Found : n <= m

\* The key that a retrieval would print.
Readable == IF Found = {} THEN None ELSE items[ReadServices[First]]

Goes(h, stage)   == job' = [job EXCEPT ![h].at = stage]
KeychainOnly(h)  == UNCHANGED <<legacy, waiting, vault, attempt, told, calls, faults>>
Quiet            == UNCHANGED <<legacy, vault, calls>>

-----------------------------------------------------------------------------
(* The main process *)

Calls(use, stage, key) ==
  /\ waiting = None
  /\ calls < MaxCalls
  /\ \E h \in Helpers :
       /\ job[h].at = "idle"
       /\ job' = [job EXCEPT ![h] = [Idle EXCEPT !.at = stage, !.for = use, !.key = key,
                                                 !.service = 1]]
       /\ waiting' = h
  /\ calls' = calls + 1
  /\ UNCHANGED <<legacy, items, vault, faults>>

\* Set-up, an unlock by password, a password change and a recovery store the key.
keychainStore == Calls("store", "stage", vault) /\ told' = Unknown /\ UNCHANGED attempt

\* One unlock at a time reads the vault with what it retrieved.
unlockWithTouchID == attempt = None /\ Calls("unlock", "find", None) /\ UNCHANGED <<told, attempt>>

confirmUnlockedKeychain == Calls("confirm", "find", None) /\ UNCHANGED <<told, attempt>>

\* forgetTouchID, and the end of a restore.
keychainRemove == Calls("remove", "remove", None) /\ told' = Unknown /\ UNCHANGED attempt

\* The unlock has tried the vault: a key that does not open it is removed, and so is
\* one that cannot be tried, as the vault cannot be read.
TriedVault ==
  /\ attempt # None
  /\ waiting = None
  /\ attempt' = None
  /\ \/ attempt = vault /\ UNCHANGED <<legacy, items, job, waiting, vault, told, calls, faults>>
     \/ Calls("remove", "remove", None) /\ told' = Unknown

\* The vault's directory is removed and a vault set up anew, which stores its key
\* next; the Keychain still has the former one.
SetUpAnew ==
  /\ waiting = None
  /\ attempt = None
  /\ vault < MaxKeys
  /\ vault' = vault + 1
  /\ UNCHANGED <<legacy, items, job, waiting, attempt, told, calls, faults>>

\* A helper ends; the main process, if it still waits for it, takes the answer.
Exits(h, printed, holds) ==
  /\ job' = [job EXCEPT ![h] = Idle]
  /\ waiting' = IF waiting = h THEN None ELSE waiting
  /\ attempt' = IF waiting = h /\ job[h].for = "unlock" /\ printed # None
                THEN printed ELSE attempt
  /\ told' = IF waiting = h /\ holds # Unknown THEN holds ELSE told
  /\ Quiet

ExitsWithError(h) == Exits(h, None, Unknown) /\ UNCHANGED items

-----------------------------------------------------------------------------
(* retrieve *)

\* Mutant of FindService: a marker beside the primary is left alone.
FindServiceOnly(h) ==
  /\ job[h].at = "find"
  /\ IF Found = {}
     THEN ExitsWithError(h)
     ELSE /\ job' = [job EXCEPT ![h].at = "auth", ![h].service = First,
                                ![h].refresh = IF First # 1 THEN "yes" ELSE "no"]
          /\ UNCHANGED items /\ KeychainOnly(h)
  /\ UNCHANGED faults

\* The first service that has an item is read; one that is not the primary, or a
\* marker left beside the primary, makes the retrieval write the key anew.
FindService(h) ==
  /\ job[h].at = "find"
  /\ IF Found = {}
     THEN ExitsWithError(h)
     ELSE /\ job' = [job EXCEPT ![h].at = "auth", ![h].service = First,
                                ![h].refresh = IF First # 1 \/ Present("migration")
                                               THEN "yes" ELSE "no"]
          /\ UNCHANGED items /\ KeychainOnly(h)
  /\ UNCHANGED faults

\* The user is present, or declines.
Authenticate(h) ==
  /\ job[h].at = "auth"
  /\ \/ Goes(h, "read") /\ UNCHANGED items /\ KeychainOnly(h)
     \/ ExitsWithError(h)
  /\ UNCHANGED faults

ReadItem(h) ==
  LET key == items[ReadServices[job[h].service]] IN
  /\ job[h].at = "read"
  /\ IF key = None
     THEN ExitsWithError(h)
     ELSE /\ job' = [job EXCEPT ![h].at = IF job[h].refresh = "yes" THEN "stage" ELSE "print",
                                ![h].key = key, ![h].service = 1]
          /\ UNCHANGED items /\ KeychainOnly(h)
  /\ UNCHANGED faults

Output(h) ==
  /\ job[h].at = "print"
  /\ Exits(h, job[h].key, job[h].key)
  /\ UNCHANGED <<items, faults>>

-----------------------------------------------------------------------------
(* replaceStoredKey, of a store or of a retrieval that writes the key anew *)

\* Mutant of stageMigrationKey: its status is not looked at.
stageMigrationKeyUnseen(h) ==
  /\ job[h].at = "stage"
  /\ items' \in {items, [items EXCEPT !["migration"] = job[h].key]}
  /\ Goes(h, "delete")
  /\ KeychainOnly(h)

stageMigrationKey(h) ==
  /\ job[h].at = "stage"
  /\ items' = [items EXCEPT !["migration"] = job[h].key]
  /\ Goes(h, "delete")
  /\ KeychainOnly(h)

\* Each service the key is read from is emptied, and found empty.
deleteSource(h) ==
  LET n == job[h].service IN
  /\ job[h].at = "delete"
  /\ items' = [items EXCEPT ![Replaced[n]] = None]
  /\ job' = [job EXCEPT ![h].at = IF n = Len(Replaced) THEN "add" ELSE "delete",
                        ![h].service = IF n = Len(Replaced) THEN n ELSE n + 1]
  /\ KeychainOnly(h)

\* An item that another helper added meanwhile is a duplicate: a failure.
addPrimary(h) ==
  /\ job[h].at = "add"
  /\ ~Present("primary")
  /\ items' = [items EXCEPT !["primary"] = job[h].key]
  /\ Goes(h, "unstage")
  /\ KeychainOnly(h)

\* A store answers; a retrieval prints what it read.
unstage(h) ==
  /\ job[h].at = "unstage"
  /\ items' = [items EXCEPT !["migration"] = None]
  /\ IF job[h].for = "store"
     THEN Exits(h, None, job[h].key) /\ UNCHANGED faults
     ELSE /\ job' = [job EXCEPT ![h].at = "print", ![h].refresh = "no"]
          /\ KeychainOnly(h)

removeKey(h) ==
  LET n == job[h].service IN
  /\ job[h].at = "remove"
  /\ items' = [items EXCEPT ![ReadServices[n]] = None]
  /\ IF n = Len(ReadServices)
     THEN Exits(h, None, None) /\ UNCHANGED faults
     ELSE job' = [job EXCEPT ![h].service = n + 1] /\ KeychainOnly(h)

-----------------------------------------------------------------------------
\* A Keychain call fails, by itself or as an item is in its way.  A retrieval that
\* was writing the key anew prints it all the same, one that could not tell whether
\* a marker is there takes it that none is, and everything else ends in an error.
CallFails(h) ==
  /\ job[h].at \notin {"idle", "auth", "print"}
  /\ \/ faults < MaxFaults /\ faults' = faults + 1
     \/ job[h].at = "add" /\ Present("primary") /\ UNCHANGED faults
  /\ \/ /\ job[h].for \in {"unlock", "confirm"}
        /\ job[h].at \in {"stage", "delete", "add", "unstage"}
        /\ job' = [job EXCEPT ![h].at = "print", ![h].refresh = "failed"]
        /\ UNCHANGED items /\ UNCHANGED <<legacy, waiting, vault, attempt, told, calls>>
     \/ /\ job[h].at = "find" /\ Present("primary")
        /\ job' = [job EXCEPT ![h].at = "auth", ![h].service = 1, ![h].refresh = "failed"]
        /\ UNCHANGED items /\ UNCHANGED <<legacy, waiting, vault, attempt, told, calls>>
     \/ /\ job[h].for \in {"store", "remove"} \/ job[h].at \in {"find", "read"}
        /\ ExitsWithError(h)

\* The main process kills a helper that takes too long.
Kill(h) ==
  /\ waiting = h
  /\ faults < MaxFaults
  /\ faults' = faults + 1
  /\ ExitsWithError(h)

\* The main process dies; the helper goes on.
MainDies ==
  /\ waiting # None
  /\ faults < MaxFaults
  /\ faults' = faults + 1
  /\ waiting' = None
  /\ attempt' = None
  /\ told' = Unknown
  /\ UNCHANGED <<items, job>>
  /\ Quiet

-----------------------------------------------------------------------------
Helper(h) ==
  \/ FindService(h) \/ Authenticate(h) \/ ReadItem(h) \/ Output(h)
  \/ stageMigrationKey(h) \/ deleteSource(h) \/ addPrimary(h) \/ unstage(h)
  \/ removeKey(h) \/ CallFails(h) \/ Kill(h)

Next ==
  \/ keychainStore \/ unlockWithTouchID \/ confirmUnlockedKeychain \/ keychainRemove
  \/ TriedVault \/ SetUpAnew \/ MainDies
  \/ \E h \in Helpers : Helper(h)

Spec == Init /\ [][Next]_vars

-----------------------------------------------------------------------------
(* Properties *)

\* What was last answered is what the Keychain holds until a store or a removal
\* starts: a stored key is the one that is read, as is a key that was retrieved,
\* also when writing it anew failed, and a removal leaves nothing to read.  A store
\* or a removal that failed says nothing.
AnswersHold == told # Unknown => Readable = told

\* A retired service never keeps a key beside the primary one, which it would come
\* back in place of once the primary is deleted.
OneNamespace == Present("primary") => \A s \in Range(legacy) : ~Present(s)

\* A retrieval that wrote the key anew, or saw no need to, leaves it under the
\* primary service alone: an interrupted replacement is completed by the next
\* retrieval that meets no failure.
RetrievalTidies ==
  \A h \in Helpers :
    job[h].at = "print" /\ job[h].refresh = "no" =>
      /\ items["primary"] = job[h].key
      /\ \A s \in Services \ {"primary"} : ~Present(s)

IInv == TypeOK /\ AnswersHold /\ OneNamespace /\ RetrievalTidies

Removing == \E h \in Helpers : job[h].for = "remove"

\* Only a removal empties the Keychain: a failure, a kill or a death at any call of
\* a replacement leaves a complete key (main.swift:457).
SourceKept == Readable # None /\ ~Removing => Readable' # None

\* As long as no removal runs and no other vault is set up, a Keychain that opens
\* the vault goes on to: storing the same key again, at each unlock by password,
\* cannot bring back another.
OpeningKeyStays == Readable = vault /\ vault' = vault /\ ~Removing => Readable' = vault

KeysStay == SourceKept /\ OpeningKeyStays
===============================================================================
