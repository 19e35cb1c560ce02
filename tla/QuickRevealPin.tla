---------------------------- MODULE QuickRevealPin ----------------------------
(***************************************************************************)
(* The throttle of the reveal PIN (quickRevealPin.ts) over its file        *)
(* (quickRevealPinThrottleStore.ts): checks of a PIN that a vault's secret *)
(* and menu-panel handlers make, and the resets that a confirmed user      *)
(* presence makes beside them.  One PIN record, hence one file.  Time is   *)
(* left out: while the back-off runs a check may be refused.               *)
(***************************************************************************)
EXTENDS Naturals, FiniteSets

CONSTANTS Callers,       \* handlers that check a PIN
          None,
          Limit,         \* PIN_MAX_FAILURES
          BackoffStart,  \* PIN_BACKOFF_START
          MaxChecks,     \* bound: checks that begin
          MaxResets,     \* bound: resets
          MaxFaults,     \* bound: operations on the file that fail
          MaxRestarts,   \* bound: restarts of the process
          Settings       \* how many of each a behaviour may have, and whose checks

VARIABLES
  setting,     \* the bounds of the behaviour
  stored,      \* the file: failures, the ceiling, and the generation that saved it, or None
  memory,      \* pinAttempts: the attempt state of the record, or None
  attempt,     \* the attempt states, by the check that made each
  check,       \* by caller: the check it makes
  checks,      \* number of checks begun
  healthy,     \* throttleStoreHealthy
  generation,  \* throttleGeneration
  clearing,    \* resets whose clearAll runs
  cleared,     \* history: the last reset whose clearAll succeeded
  failed,      \* history: checks of wrong PINs since the last right one or reset
  faults, restarts

throttle == <<memory, attempt, healthy, generation, clearing>>
history  == <<cleared, failed>>
bounds   == <<setting, faults, restarts>>
vars     == <<stored, throttle, check, checks, history, bounds>>

ASSUME BoundsAssumption ==
  /\ Limit \in Nat \ {0} /\ BackoffStart \in 1..Limit
  /\ MaxChecks \in Nat /\ MaxResets \in Nat /\ MaxFaults \in Nat /\ MaxRestarts \in Nat
  /\ Settings \subseteq [callers : SUBSET Callers, checks : 0..MaxChecks, resets : 0..MaxResets,
                         faults : 0..MaxFaults, restarts : 0..MaxRestarts]

Checks == 1..MaxChecks
Fresh  == [failures |-> 0, ceiling |-> FALSE, pending |-> TRUE]
NoCheck == [at |-> "idle", id |-> 0, state |-> 0, generation |-> 0, saves |-> None]
Saved  == [failures : 1..Limit, ceiling : BOOLEAN, by : 0..MaxResets]

TypeOK ==
  /\ setting \in Settings
  /\ stored \in Saved \cup {None}
  /\ memory \in Checks \cup {None}
  /\ attempt \in [Checks -> [failures : 0..Limit, ceiling : BOOLEAN, pending : BOOLEAN]]
  /\ check \in [Callers ->
       [at : {"idle", "load", "derive", "clear", "save", "write", "lost"}, id : 0..MaxChecks,
        state : 0..MaxChecks, generation : 0..MaxResets, saves : Saved \cup {None}]]
  /\ checks \in 0..MaxChecks /\ healthy \in BOOLEAN
  /\ generation \in 0..MaxResets /\ clearing \subseteq 1..generation /\ cleared \in 0..generation
  /\ failed \subseteq 1..checks
  /\ faults \in 0..MaxFaults /\ restarts \in 0..MaxRestarts

Init ==
  /\ setting \in Settings
  /\ stored = None /\ memory = None
  /\ attempt = [n \in Checks |-> Fresh]
  /\ check = [c \in Callers |-> NoCheck] /\ checks = 0
  /\ healthy = TRUE /\ generation = 0 /\ clearing = {} /\ cleared = 0
  /\ failed = {} /\ faults = 0 /\ restarts = 0

-----------------------------------------------------------------------------
Mine(c)    == attempt[check[c].state]
Ends(c)    == check' = [check EXCEPT ![c] = NoCheck]
Current(c) == check[c].generation = generation

\* The back-off or the ceiling refuses a check; only the ceiling always does.
MayRefuse(state) == state.ceiling \/ state.failures >= BackoffStart
MayDerive(state) == ~state.ceiling

MayBegin(state) == healthy /\ ~attempt[state].pending

Begins(c, state, at) ==
  /\ checks' = checks + 1
  /\ check' = [check EXCEPT ![c] =
       [at |-> at, id |-> checks + 1, state |-> state, generation |-> generation, saves |-> None]]

\* A check finds the record's state in memory, unblocked, and derives the verifier;
\* a check that it refuses changes nothing.
BeginKnown(c) ==
  /\ check[c].at = "idle" /\ checks < setting.checks
  /\ memory # None /\ MayBegin(memory) /\ MayDerive(attempt[memory])
  /\ Begins(c, memory, "derive")
  /\ attempt' = [attempt EXCEPT ![memory].pending = TRUE]
  /\ UNCHANGED <<stored, memory, healthy, generation, clearing, history, bounds>>

\* Without one it makes a new state and loads the file.
BeginNew(c) ==
  /\ check[c].at = "idle" /\ checks < setting.checks
  /\ memory = None /\ healthy
  /\ Begins(c, checks + 1, "load")
  /\ memory' = checks + 1
  /\ UNCHANGED <<stored, attempt, healthy, generation, clearing, history, bounds>>

Loaded(state) ==
  IF stored = None THEN state
  ELSE [state EXCEPT !.failures = stored.failures, !.ceiling = stored.ceiling]

Load(c) ==
  /\ check[c].at = "load"
  /\ LET state == Loaded(Mine(c)) IN
     \/ /\ MayDerive(state)
        /\ attempt' = [attempt EXCEPT ![check[c].state] = state]
        /\ check' = [check EXCEPT ![c].at = "derive"]
     \/ /\ MayRefuse(state)
        /\ attempt' = [attempt EXCEPT ![check[c].state] = [state EXCEPT !.pending = FALSE]]
        /\ Ends(c)
  /\ UNCHANGED <<stored, memory, checks, healthy, generation, clearing, history, bounds>>

Fault == faults < setting.faults /\ faults' = faults + 1 /\ UNCHANGED <<setting, restarts>>

LoadFails(c) ==
  /\ check[c].at = "load" /\ Fault
  /\ attempt' = [attempt EXCEPT ![check[c].state].pending = FALSE]
  /\ healthy' = FALSE
  /\ Ends(c)
  /\ UNCHANGED <<stored, memory, checks, generation, clearing, history>>

-----------------------------------------------------------------------------
\* The verifier is derived, which takes long.

\* A reset overtook the check.
Overtaken(c) ==
  /\ check[c].at = "derive" /\ ~Current(c)
  /\ attempt' = [attempt EXCEPT ![check[c].state].pending = FALSE]
  /\ Ends(c)
  /\ UNCHANGED <<stored, memory, checks, healthy, generation, clearing, history, bounds>>

RightPin(c) ==
  /\ check[c].at = "derive" /\ Current(c)
  /\ memory' = None
  /\ check' = [check EXCEPT ![c].at = "clear"]
  /\ failed' = {}
  /\ UNCHANGED <<stored, attempt, checks, healthy, generation, clearing, cleared, bounds>>

\* Mutant of Failure: the ceiling is one failure late.
FailureLate(state) ==
  [failures |-> state.failures + 1, ceiling |-> state.failures + 1 > Limit, pending |-> FALSE]

Failure(state) ==
  [failures |-> state.failures + 1, ceiling |-> state.failures + 1 >= Limit, pending |-> FALSE]

\* The failure is counted, the next check may begin, and the count goes to the file
\* before the answer.
WrongPin(c) ==
  /\ check[c].at = "derive" /\ Current(c)
  /\ LET state == Failure(Mine(c)) IN
     /\ attempt' = [attempt EXCEPT ![check[c].state] = state]
     /\ check' = [check EXCEPT ![c].at = "save", ![c].saves =
          [failures |-> state.failures, ceiling |-> state.ceiling, by |-> generation]]
  /\ failed' = failed \cup {check[c].id}
  /\ UNCHANGED <<stored, memory, checks, healthy, generation, clearing, cleared, bounds>>

ClearOne(c) ==
  /\ check[c].at = "clear"
  /\ stored' = None
  /\ attempt' = [attempt EXCEPT ![check[c].state].pending = FALSE]
  /\ Ends(c)
  /\ UNCHANGED <<memory, checks, healthy, generation, clearing, history, bounds>>

ClearOneFails(c) ==
  /\ check[c].at = "clear" /\ Fault
  /\ healthy' = FALSE
  /\ attempt' = [attempt EXCEPT ![check[c].state].pending = FALSE]
  /\ Ends(c)
  /\ UNCHANGED <<stored, memory, checks, generation, clearing, history>>

\* The save makes the directory, then writes a file in it and renames it.
MakeDirectory(c) ==
  /\ check[c].at = "save"
  /\ check' = [check EXCEPT ![c].at = "write"]
  /\ UNCHANGED <<stored, throttle, checks, history, bounds>>

Save(c) ==
  /\ check[c].at = "write"
  /\ stored' = check[c].saves
  /\ Ends(c)
  /\ UNCHANGED <<throttle, checks, history, bounds>>

NotSaved(c) ==
  /\ healthy' = FALSE
  /\ attempt' = [attempt EXCEPT ![check[c].state].ceiling = TRUE]
  /\ Ends(c)
  /\ UNCHANGED <<stored, memory, checks, generation, clearing, history>>

SaveFails(c) == check[c].at \in {"save", "write"} /\ Fault /\ NotSaved(c)

\* The directory is gone by the rename.
SaveLost(c) == check[c].at = "lost" /\ NotSaved(c) /\ UNCHANGED bounds

-----------------------------------------------------------------------------
\* A confirmed presence starts over; no check begins until the directory is deleted.
Reset ==
  /\ generation < setting.resets
  /\ generation' = generation + 1
  /\ memory' = None /\ healthy' = FALSE
  /\ clearing' = clearing \cup {generation + 1}
  /\ failed' = {}
  /\ UNCHANGED <<stored, attempt, check, checks, cleared, bounds>>

Cleared(g, result) == healthy' = IF g = generation THEN result ELSE healthy

ClearAll(g) ==
  /\ g \in clearing
  /\ clearing' = clearing \ {g}
  /\ stored' = None
  /\ cleared' = IF g > cleared THEN g ELSE cleared
  /\ Cleared(g, TRUE)
  /\ check' = [c \in Callers |->
       IF check[c].at = "write" THEN [check[c] EXCEPT !.at = "lost"] ELSE check[c]]
  /\ UNCHANGED <<memory, attempt, checks, generation, failed, bounds>>

ClearAllFails(g) ==
  /\ g \in clearing /\ Fault
  /\ clearing' = clearing \ {g}
  /\ Cleared(g, FALSE)
  /\ UNCHANGED <<stored, memory, attempt, check, checks, generation, history>>

\* The file is all that is left; a check that was not answered tells nothing.
Restart ==
  /\ restarts < setting.restarts /\ restarts' = restarts + 1
  /\ memory' = None /\ healthy' = TRUE /\ clearing' = {}
  /\ check' = [c \in Callers |-> NoCheck]
  /\ failed' = failed \ {check[c].id : c \in Callers}
  /\ UNCHANGED <<setting, stored, attempt, checks, generation, cleared, faults>>

Check(c) ==
  \/ BeginKnown(c) \/ BeginNew(c) \/ Load(c) \/ LoadFails(c)
  \/ Overtaken(c) \/ RightPin(c) \/ WrongPin(c)
  \/ ClearOne(c) \/ ClearOneFails(c) \/ MakeDirectory(c) \/ Save(c) \/ SaveFails(c) \/ SaveLost(c)

Next ==
  \/ \E c \in setting.callers : Check(c)
  \/ \E g \in clearing : ClearAll(g) \/ ClearAllFails(g)
  \/ Reset \/ Restart

Spec == Init /\ [][Next]_vars

-----------------------------------------------------------------------------
Quiet == \A c \in Callers : check[c].at = "idle"

\* Between resets no more wrong PINs are tried than the ceiling allows.
CeilingHolds == Cardinality(failed) <= Limit

\* Two checks derive at once only across a reset.
OneCheckAtATime ==
  Cardinality({c \in Callers : check[c].at = "derive" /\ Current(c)}) <= 1

\* No check may begin while the deletion of the last reset runs, whatever older ones do.
ClosedWhileResetting == generation \in clearing => ~healthy

\* "A best-effort persistence failure must never silently reset throttling."
\* (quickRevealPin.ts:156-157): when nothing is in memory, what the next check loads
\* covers every wrong PIN that was answered.
FailuresStayCounted ==
  healthy /\ memory = None /\ Quiet =>
    Cardinality(failed) <= (IF stored = None THEN 0 ELSE stored.failures)

IInv ==
  TypeOK /\ CeilingHolds /\ OneCheckAtATime /\ ClosedWhileResetting /\ FailuresStayCounted

\* "The generation check prevents an older reset or PIN attempt from winning later."
\* (quickRevealPin.ts:175-176).  The attempt: after a reset nothing of an earlier
\* generation is stored.
OlderAttemptLoses == cleared = generation /\ stored # None => stored.by = generation

\* The reset: a failure counted after the last one is in the file once it is answered.
OlderResetLoses ==
  healthy /\ memory # None /\ Quiet =>
    attempt[memory].failures = 0 \/ stored # None

=============================================================================
