----------------------------- MODULE SecretRelease -----------------------------
(***************************************************************************)
(* How secrets leave the vault, and how an encrypted export comes back:    *)
(* copying, revealing and saving (vaultSecretIpc.ts, menuPanelIpc.ts), the *)
(* exports and the one-shot encrypted import (vaultExportIpc.ts), over the *)
(* session's operations, the audit queue and its failure guard (index.ts). *)
(*                                                                         *)
(* A call is admitted, reads the vault, and checks a PIN or a phrase; then *)
(* it writes to the clipboard, answers with the value or writes a file,    *)
(* around audit entries it waits for.  What the throttle of the PIN does   *)
(* is in QuickRevealPin, what a rotation of the scope does in SessionKeyring, *)
(* what a commit does in VaultMutations: here a change of the vault and    *)
(* the publication of its revision are one step.                           *)
(***************************************************************************)
EXTENDS Naturals, FiniteSets, SequencesExt

CONSTANTS Handlers,    \* calls that may run at once
          Windows,     \* renderers
          Values,      \* secret values that are not empty
          Nothing,     \* the empty clipboard and the empty value
          Users,       \* what the user copies
          None,
          Scenarios,   \* the kinds of calls a behaviour makes, and its bounds
          MaxCalls, MaxEpoch, MaxRevision, MaxFaults, MaxCrashes   \* bounds

VARIABLES
  scenario,
  session,     \* the keyring: whether it is open, and its epoch
  revision,    \* the revision of the vault
  call,        \* by handler: the call it serves
  calls,       \* number of calls begun
  pending,     \* auditQueue
  log,         \* entries in the audit log
  blocked,     \* the failure guard suppresses entries
  alarm,       \* the guard's lock is scheduled
  clip,        \* the clipboard
  timers,      \* by value: timers that will clear it
  files,       \* exports that were written
  shown,       \* calls whose answer held a secret value
  attempt,     \* encryptedImportAttemptBySender
  preview,     \* history: by call, the import preview it made
  held,        \* encryptedImports: the previews that are retained
  imported,    \* history: commits of imports
  answer,      \* history: by call, what it answered
  faults, crashes

keyring == <<session, revision>>
audit   == <<pending, log, blocked, alarm>>
imports == <<attempt, preview, held, imported>>
limits  == <<scenario, faults, crashes>>
vars    == <<keyring, call, calls, audit, clip, timers, files, shown, imports, answer, limits>>

Exports == {"plain", "sealed", "image"}
Kinds   == {"copy", "reveal", "preview", "import"} \cup Exports
Stages  == {"idle", "read", "pin", "ready", "dialog", "authorize", "write", "rename", "written",
            "record", "decrypt", "commit"}
Calls   == 1..MaxCalls

ASSUME BoundsAssumption ==
  /\ {MaxCalls, MaxEpoch, MaxRevision} \subseteq Nat \ {0}
  /\ {MaxFaults, MaxCrashes} \subseteq Nat
  /\ Scenarios \subseteq [kinds : SUBSET Kinds, calls : 0..MaxCalls, epochs : 0..MaxEpoch,
                          revisions : 1..MaxRevision, faults : 0..MaxFaults,
                          crashes : 0..MaxCrashes]

Previews == [window : Windows, epoch : 0..MaxEpoch, seen : 1..MaxRevision]

\* The fingerprint of a secret tells it from what the user copies.
ASSUME NamesAssumption ==
  /\ Users \cap (Values \cup {Nothing}) = {}
  /\ None \notin Previews

NoCall == [at |-> "idle", kind |-> None, id |-> 0, epoch |-> 0, seen |-> 0,
           value |-> Nothing, window |-> None, token |-> 0]
Unlocking == <<0, "unlock">>     \* the entry of an unlock, which no call waits for
Entries   == (Calls \X {"copied", "revealed", "authorized", "exported", "imported"})
               \cup {Unlocking}

TypeOK ==
  /\ scenario \in Scenarios
  /\ session \in [at : {"open", "closing", "closed"}, epoch : 0..MaxEpoch]
  /\ revision \in 1..MaxRevision
  /\ call \in [Handlers ->
       [at : Stages, kind : Kinds \cup {None}, id : 0..MaxCalls, epoch : 0..MaxEpoch,
        seen : 0..MaxRevision, value : Values \cup {Nothing}, window : Windows \cup {None},
        token : 0..MaxCalls]]
  /\ calls \in 0..MaxCalls
  /\ pending \in Seq(Entries) /\ log \subseteq Entries
  /\ blocked \in BOOLEAN /\ alarm \in BOOLEAN
  /\ clip \in Values \cup Users \cup {Nothing} /\ timers \in [Values -> Nat]
  /\ files \subseteq Calls \X Exports /\ shown \subseteq Calls
  /\ attempt \in [Windows -> 0..MaxCalls]
  /\ preview \in [Calls -> Previews \cup {None}]
  /\ held \subseteq Calls
  /\ imported \subseteq [token : Calls, window : Windows, epoch : 0..MaxEpoch, on : 1..MaxRevision]
  /\ answer \in [Calls -> {"none", "ok", "failed", "committed"}]
  /\ faults \in 0..MaxFaults /\ crashes \in 0..MaxCrashes

Init ==
  /\ scenario \in Scenarios
  /\ session = [at |-> "open", epoch |-> 1] /\ revision = 1
  /\ call = [h \in Handlers |-> NoCall] /\ calls = 0
  /\ pending = <<>> /\ log = {} /\ blocked = FALSE /\ alarm = FALSE
  /\ clip \in Users /\ timers = [v \in Values |-> 0]
  /\ files = {} /\ shown = {}
  /\ attempt = [w \in Windows |-> 0] /\ preview = [n \in Calls |-> None] /\ held = {}
  /\ imported = {} /\ answer = [n \in Calls |-> "none"]
  /\ faults = 0 /\ crashes = 0

-------------------------------------------------------------------------------
(* A call: its operation, its way to an answer, and the audit entries it   *)
(* waits for.                                                              *)

AssertCurrent(h) == session = [at |-> "open", epoch |-> call[h].epoch]

MayBegin(h, kind) == call[h].at = "idle" /\ kind \in scenario.kinds /\ calls < scenario.calls

Admit(h, c) ==
  /\ calls' = calls + 1
  /\ call' = [call EXCEPT ![h] = [c EXCEPT !.id = calls + 1, !.epoch = session.epoch]]
  /\ UNCHANGED answer

\* The answer of a call that is refused before it has an operation.
Rejects ==
  /\ calls' = calls + 1
  /\ answer' = [answer EXCEPT ![calls + 1] = "failed"]
  /\ UNCHANGED call

Moves(h, stage) == call' = [call EXCEPT ![h].at = stage] /\ UNCHANGED answer

Ends(h, a) ==
  /\ call' = [call EXCEPT ![h] = NoCall]
  /\ answer' = [answer EXCEPT ![call[h].id] = a]

\* The first lines of recordAuditDurable.
MayRecord == ~blocked /\ session.at = "open"

Records(h, what) ==
  /\ pending' = Append(pending, <<call[h].id, what>>)
  /\ UNCHANGED <<log, blocked, alarm>>

\* The queue has passed the call's entry.
Flushed(h) == \A e \in Range(pending) : e[1] # call[h].id

\* Mutant of Kept: the guard is not asked again after the flush.
KeptCurrent(h) == AssertCurrent(h)

Kept(h) == ~blocked /\ AssertCurrent(h)

\* A call that only reads so far ends: its session is gone, the item is protected or too
\* large, the PIN or the phrase is wrong, the dialog is cancelled.
GiveUp(h) ==
  /\ call[h].at \in {"read", "pin", "ready", "dialog", "decrypt", "commit"}
  /\ Ends(h, "failed")
  /\ UNCHANGED <<keyring, calls, audit, clip, timers, files, shown, imports, limits>>

Begin(h, kind, v) ==
  /\ MayBegin(h, kind) /\ kind \notin {"preview", "import"} /\ session.at = "open"
  /\ kind # "copy" => v = Nothing
  /\ Admit(h, [NoCall EXCEPT !.at = "read", !.kind = kind, !.value = v])
  /\ UNCHANGED <<keyring, audit, clip, timers, files, shown, imports, limits>>

\* The read leases the key the call began with.
Read(h) ==
  /\ call[h].at = "read" /\ call[h].kind # "preview" /\ AssertCurrent(h)
  /\ \E stage \in (IF call[h].kind \in Exports THEN {"dialog"} ELSE {"pin", "ready"}) :
       call' = [call EXCEPT ![h].at = stage, ![h].seen = revision]
  /\ UNCHANGED <<keyring, calls, audit, clip, timers, files, shown, imports, answer, limits>>

RightPin(h) ==
  /\ call[h].at = "pin" /\ Moves(h, "ready")
  /\ UNCHANGED <<keyring, calls, audit, clip, timers, files, shown, imports, limits>>

-------------------------------------------------------------------------------
(* Copying and revealing.                                                  *)

\* The value is on the clipboard before its entry is asked for.
Copy(h) ==
  /\ call[h].at = "ready" /\ call[h].kind = "copy" /\ AssertCurrent(h)
  /\ \/ /\ MayRecord /\ Records(h, "copied")
        /\ clip' = call[h].value
        /\ Moves(h, "record")
     \/ /\ ~MayRecord
        /\ clip' = Nothing
        /\ Ends(h, "failed")
        /\ UNCHANGED audit
  /\ UNCHANGED <<keyring, calls, timers, files, shown, imports, limits>>

CopySucceeds(h) ==
  /\ call[h].at = "record" /\ call[h].kind = "copy" /\ Flushed(h) /\ Kept(h)
  /\ timers' = [v \in Values |-> IF v = call[h].value THEN timers[v] + 1 ELSE timers[v]]
  /\ Ends(h, "ok")
  /\ UNCHANGED <<keyring, calls, audit, clip, files, shown, imports, limits>>

\* Mutant of CopyFails: the value stays.
CopyFailsLeaving(h) ==
  /\ call[h].at = "record" /\ call[h].kind = "copy" /\ Flushed(h) /\ ~Kept(h)
  /\ Ends(h, "failed")
  /\ UNCHANGED <<keyring, calls, audit, clip, timers, files, shown, imports, limits>>

CopyFails(h) ==
  /\ call[h].at = "record" /\ call[h].kind = "copy" /\ Flushed(h) /\ ~Kept(h)
  /\ clip' = IF clip = call[h].value THEN Nothing ELSE clip
  /\ Ends(h, "failed")
  /\ UNCHANGED <<keyring, calls, audit, timers, files, shown, imports, limits>>

\* Mutant of Fire: the fingerprint is not compared.
FireAnyway(v) ==
  /\ timers[v] > 0
  /\ timers' = [timers EXCEPT ![v] = @ - 1]
  /\ clip' = Nothing
  /\ UNCHANGED <<keyring, call, calls, audit, files, shown, imports, answer, limits>>

\* A timer clears the clipboard if it still holds what was copied.
Fire(v) ==
  /\ timers[v] > 0
  /\ timers' = [timers EXCEPT ![v] = @ - 1]
  /\ clip' = IF clip = v THEN Nothing ELSE clip
  /\ UNCHANGED <<keyring, call, calls, audit, files, shown, imports, answer, limits>>

UserCopies ==
  /\ clip \notin Users /\ clip' \in Users
  /\ UNCHANGED <<keyring, call, calls, audit, timers, files, shown, imports, answer, limits>>

Reveal(h) ==
  /\ call[h].at = "ready" /\ call[h].kind = "reveal" /\ AssertCurrent(h)
  /\ MayRecord /\ Records(h, "revealed") /\ Moves(h, "record")
  /\ UNCHANGED <<keyring, calls, clip, timers, files, shown, imports, limits>>

RevealAnswers(h) ==
  /\ call[h].at = "record" /\ call[h].kind = "reveal" /\ Flushed(h)
  /\ \/ Kept(h) /\ Ends(h, "ok") /\ shown' = shown \cup {call[h].id}
     \/ ~Kept(h) /\ Ends(h, "failed") /\ UNCHANGED shown
  /\ UNCHANGED <<keyring, calls, audit, clip, timers, files, imports, limits>>

-------------------------------------------------------------------------------
(* Exports to a file.  One of an image must be of the vault's revision; a  *)
(* sealed one asks for no authorization.                                   *)

Timely(h) == call[h].kind = "image" => revision = call[h].seen

Choose(h) ==
  /\ call[h].at = "dialog" /\ AssertCurrent(h) /\ Timely(h)
  /\ \/ call[h].kind = "sealed" /\ Moves(h, "write") /\ UNCHANGED audit
     \/ call[h].kind # "sealed" /\ MayRecord /\ Records(h, "authorized") /\ Moves(h, "authorize")
  /\ UNCHANGED <<keyring, calls, clip, timers, files, shown, imports, limits>>

Authorized(h) ==
  /\ call[h].at = "authorize" /\ Flushed(h)
  /\ \/ Kept(h) /\ Timely(h) /\ Moves(h, "write")
     \/ ~(Kept(h) /\ Timely(h)) /\ Ends(h, "failed")
  /\ UNCHANGED <<keyring, calls, audit, clip, timers, files, shown, imports, limits>>

\* beforeCommit, after the temporary file is written.
BeforeCommit(h) ==
  /\ call[h].at = "write"
  /\ \/ AssertCurrent(h) /\ Moves(h, "rename")
     \/ ~AssertCurrent(h) /\ Ends(h, "failed")
  /\ UNCHANGED <<keyring, calls, audit, clip, timers, files, shown, imports, limits>>

Rename(h) ==
  /\ call[h].at = "rename"
  /\ files' = files \cup {<<call[h].id, call[h].kind>>}
  /\ Moves(h, "written")
  /\ UNCHANGED <<keyring, calls, audit, clip, timers, shown, imports, limits>>

Fault == faults < scenario.faults /\ faults' = faults + 1 /\ UNCHANGED <<scenario, crashes>>

WriteFails(h) ==
  /\ call[h].at \in {"write", "rename"} /\ Fault /\ Ends(h, "failed")
  /\ UNCHANGED <<keyring, calls, audit, clip, timers, files, shown, imports>>

\* The file is there: an entry that is refused is an answer of its own.
Written(h) ==
  /\ call[h].at = "written"
  /\ \/ MayRecord /\ Records(h, "exported") /\ Moves(h, "record")
     \/ ~MayRecord /\ Ends(h, "committed") /\ UNCHANGED audit
  /\ UNCHANGED <<keyring, calls, clip, timers, files, shown, imports, limits>>

ExportAnswers(h) ==
  /\ call[h].at = "record" /\ call[h].kind \in Exports /\ Flushed(h)
  /\ Ends(h, IF blocked THEN "committed" ELSE "ok")
  /\ UNCHANGED <<keyring, calls, audit, clip, timers, files, shown, imports, limits>>

-------------------------------------------------------------------------------
(* The encrypted import: a preview retains what it decrypted under a token *)
(* that one commit may spend.                                              *)

Of(w) == {t \in held : preview[t].window = w}

\* The attempt counts before anything is checked.
BeginPreview(h, w) ==
  /\ MayBegin(h, "preview")
  /\ attempt' = [attempt EXCEPT ![w] = calls + 1]
  /\ \/ session.at = "open"
        /\ Admit(h, [NoCall EXCEPT !.at = "decrypt", !.kind = "preview", !.window = w])
     \/ session.at # "open" /\ Rejects
  /\ UNCHANGED <<keyring, audit, clip, timers, files, shown, preview, held, imported, limits>>

Decrypt(h) ==
  /\ call[h].at = "decrypt" /\ AssertCurrent(h) /\ Moves(h, "read")
  /\ UNCHANGED <<keyring, calls, audit, clip, timers, files, shown, imports, limits>>

\* Only the last attempt of its renderer retains its preview, in the place of earlier ones.
Preview(h) ==
  /\ call[h].at = "read" /\ call[h].kind = "preview" /\ AssertCurrent(h)
  /\ LET w == call[h].window IN
     \/ /\ attempt[w] = call[h].id
        /\ preview' = [preview EXCEPT ![call[h].id] =
             [window |-> w, epoch |-> call[h].epoch, seen |-> revision]]
        /\ held' = (held \ Of(w)) \cup {call[h].id}
        /\ Ends(h, "ok")
     \/ attempt[w] # call[h].id /\ Ends(h, "failed") /\ UNCHANGED <<preview, held>>
  /\ UNCHANGED <<keyring, calls, audit, clip, timers, files, shown, attempt, imported, limits>>

\* The renderer cancels the preview, or two minutes pass.
Forget(t) ==
  /\ t \in held
  /\ held' = held \ {t}
  /\ UNCHANGED <<keyring, call, calls, audit, clip, timers, files, shown, attempt, preview,
                 imported, answer, limits>>

\* The monitor sees that the session of the preview is over.
Monitor(t) ==
  /\ t \in held /\ (session.at = "closing" \/ session.epoch # preview[t].epoch)
  /\ Forget(t)

WindowCloses(w) ==
  /\ attempt[w] # 0
  /\ attempt' = [attempt EXCEPT ![w] = 0]
  /\ held' = held \ Of(w)
  /\ UNCHANGED <<keyring, call, calls, audit, clip, timers, files, shown, preview, imported,
                 answer, limits>>

\* The token is spent before the commit is tried; r is the revision the renderer expects.
BeginImport(h, w, t, r) ==
  /\ MayBegin(h, "import") /\ preview[t] # None /\ session.at = "open"
  /\ held' = held \ ({t} \cap Of(w))
  /\ IF t \in Of(w) /\ preview[t].epoch = session.epoch /\ r = preview[t].seen
     THEN Admit(h, [NoCall EXCEPT !.at = "commit", !.kind = "import", !.window = w,
                                  !.token = t, !.seen = r])
     ELSE Rejects
  /\ UNCHANGED <<keyring, audit, clip, timers, files, shown, attempt, preview, imported, limits>>

Fits(h) == AssertCurrent(h) /\ revision = call[h].seen

CommitImport(h) ==
  /\ call[h].at = "commit" /\ Fits(h) /\ revision < scenario.revisions
  /\ revision' = revision + 1
  /\ imported' = imported \cup
       {[token |-> call[h].token, window |-> call[h].window, epoch |-> session.epoch, on |-> revision]}
  /\ Records(h, "imported")
  /\ Ends(h, "ok")
  /\ UNCHANGED <<session, calls, clip, timers, files, shown, attempt, preview, held, limits>>

-------------------------------------------------------------------------------
(* What goes on around the calls.                                          *)

Boundary(at) ==
  /\ session.epoch < scenario.epochs
  /\ session' = [at |-> at, epoch |-> session.epoch + 1]

Around == UNCHANGED <<revision, call, calls, clip, timers, files, shown, imports, answer>>

Lock == session.at = "open" /\ Boundary("closing") /\ Around /\ UNCHANGED <<audit, limits>>

\* A lock returns when no call is left.
LockReturns ==
  /\ session.at = "closing" /\ \A h \in Handlers : call[h].at = "idle"
  /\ session' = [session EXCEPT !.at = "closed"]
  /\ Around /\ UNCHANGED <<audit, limits>>

Unlock ==
  /\ session.at = "closed" /\ Boundary("open")
  /\ pending' = Append(pending, Unlocking)
  /\ Around /\ UNCHANGED <<log, blocked, alarm, limits>>

RotateScope == session.at = "open" /\ Boundary("open") /\ Around /\ UNCHANGED <<audit, limits>>

\* Another command commits.
Edit ==
  /\ session.at = "open" /\ revision < scenario.revisions /\ revision' = revision + 1
  /\ UNCHANGED <<session, call, calls, audit, clip, timers, files, shown, imports, answer, limits>>

\* While the guard blocks, only an unlock's entry is tried, and reopens the log.
AppendEntry ==
  /\ pending # <<>> /\ pending' = Tail(pending)
  /\ LET e == Head(pending) IN
     IF blocked /\ e # Unlocking THEN UNCHANGED <<log, blocked>>
     ELSE log' = log \cup {e} /\ blocked' = FALSE
  /\ Around /\ UNCHANGED <<session, alarm, limits>>

AppendFails ==
  /\ pending # <<>> /\ (blocked => Head(pending) = Unlocking)
  /\ Fault
  /\ pending' = Tail(pending) /\ blocked' = TRUE /\ alarm' = TRUE
  /\ Around /\ UNCHANGED <<session, log>>

GuardLocks ==
  /\ alarm /\ alarm' = FALSE
  /\ \/ session.at = "open" /\ Boundary("closing")
     \/ session.at # "open" /\ UNCHANGED session
  /\ Around /\ UNCHANGED <<pending, log, blocked, limits>>

\* The process dies: the log, the files and the clipboard are left.
Crash ==
  /\ crashes < scenario.crashes /\ crashes' = crashes + 1 /\ Boundary("closed")
  /\ call' = [h \in Handlers |-> NoCall]
  /\ pending' = <<>> /\ blocked' = FALSE /\ alarm' = FALSE
  /\ timers' = [v \in Values |-> 0]
  /\ attempt' = [w \in Windows |-> 0] /\ held' = {}
  /\ UNCHANGED <<revision, calls, log, clip, files, shown, preview, imported, answer, scenario, faults>>

-------------------------------------------------------------------------------
\* The steps of a call that need nobody's answer.
Proceed(h) ==
  \/ Copy(h) \/ CopySucceeds(h) \/ CopyFails(h) \/ Reveal(h) \/ RevealAnswers(h)
  \/ Authorized(h) \/ BeforeCommit(h) \/ Rename(h) \/ Written(h) \/ ExportAnswers(h)

Step(h) ==
  \/ \E kind \in Kinds, v \in Values \cup {Nothing} : Begin(h, kind, v)
  \/ Read(h) \/ RightPin(h) \/ GiveUp(h) \/ Proceed(h) \/ Choose(h) \/ WriteFails(h)
  \/ \E w \in Windows : BeginPreview(h, w)
  \/ Decrypt(h) \/ Preview(h)
  \/ \E w \in Windows, t \in Calls, r \in 1..revision : BeginImport(h, w, t, r)
  \/ CommitImport(h)

Next ==
  \/ \E h \in Handlers : Step(h)
  \/ \E v \in Values : Fire(v)
  \/ \E t \in Calls : Forget(t) \/ Monitor(t)
  \/ \E w \in Windows : WindowCloses(w)
  \/ UserCopies \/ Lock \/ LockReturns \/ Unlock \/ RotateScope \/ Edit
  \/ AppendEntry \/ AppendFails \/ GuardLocks \/ Crash

\* The audit queue runs, a call that waits for nobody goes on, and timers fire.
Fairness ==
  /\ WF_vars(AppendEntry)
  /\ \A h \in Handlers : WF_vars(Proceed(h))
  /\ \A v \in Values : WF_vars(Fire(v))

Spec == Init /\ [][Next]_vars /\ Fairness

-------------------------------------------------------------------------------
(* What is released is on record first, across failures of the log, locks  *)
(* and crashes: the entry of a revealed value before the answer that holds *)
(* it, the authorization of a plaintext file before the file               *)
(* (recordAuditDurable).  A copy is on the clipboard before its entry.     *)
ReleasesAreRecorded ==
  /\ \A n \in shown : <<n, "revealed">> \in log
  /\ \A n \in Calls, k \in {"plain", "image"} : <<n, k>> \in files => <<n, "authorized">> \in log

(* An answer tells whether the file is there: a failure leaves none, and   *)
(* success has both entries (the committed flag of the export handlers).   *)
AnswersTellOfFiles ==
  \A n \in Calls, k \in Exports :
    <<n, k>> \in files =>
      /\ answer[n] # "failed"
      /\ answer[n] = "ok" => <<n, "exported">> \in log

(* A renderer has one preview, its last, and none once it is gone; a token *)
(* is spent once, on the revision and in the session that its preview saw  *)
(* ("deliberately one-shot", vaultExportIpc.ts:236).                       *)
ImportsArePreviewed ==
  /\ \A t \in held : attempt[preview[t].window] >= t /\ Of(preview[t].window) = {t}
  /\ \A i \in imported :
       /\ preview[i.token] = [window |-> i.window, epoch |-> i.epoch, seen |-> i.on]
       /\ i.token \notin held
       /\ \A j \in imported : j.token = i.token => j = i

\* Calls in progress have numbers of their own, and no answer yet; a lock leaves none.
CallsApart ==
  /\ \A h \in Handlers : call[h].at # "idle" =>
       /\ call[h].id \in 1..calls /\ answer[call[h].id] = "none" /\ session.at # "closed"
       /\ \A g \in Handlers : call[g].at # "idle" /\ call[g].id = call[h].id => g = h
  /\ \A n \in Calls : n > calls => answer[n] = "none" /\ preview[n] = None

\* What a call waits for in the audit queue.
Awaited(h) ==
  <<call[h].id,
    CASE call[h].at = "authorize" -> "authorized"
      [] call[h].kind = "copy"    -> "copied"
      [] call[h].kind = "reveal"  -> "revealed"
      [] OTHER                    -> "exported">>

\* An entry that a call waits for arrives, or the guard suppressed it: then it blocks for
\* as long as the call goes on, since every unlock was before the call.
EntriesArrive ==
  \A h \in Handlers : call[h].at \in {"authorize", "record"} =>
    \/ Awaited(h) \in log
    \/ \E j \in 1..Len(pending) :
         pending[j] = Awaited(h) /\ \A i \in 1..Len(pending) : pending[i] = Unlocking => i < j
    \/ blocked /\ \A i \in 1..Len(pending) : pending[i] # Unlocking

\* An export of plaintext goes on to its file with its authorization on record.
ExportsInOrder ==
  /\ \A h \in Handlers :
       /\ call[h].at \in {"dialog", "write", "rename", "written"} => call[h].kind \in Exports
       /\ call[h].at = "authorize" => call[h].kind \in {"plain", "image"}
       /\ call[h].at = "record" => call[h].kind \in {"copy", "reveal"} \cup Exports
       /\ call[h].at \in {"write", "rename", "written", "record"}
            /\ call[h].kind \in {"plain", "image"} => <<call[h].id, "authorized">> \in log
  /\ \A n \in Calls, k \in Exports : <<n, k>> \in files =>
       /\ n <= calls
       /\ \A h \in Handlers : call[h].at # "idle" /\ call[h].id = n =>
            call[h].kind = k /\ call[h].at \in {"written", "record"}

\* A call that previews has none yet; one that imports took its token from the rest.
TokensApart ==
  /\ \A t \in held : t <= calls /\ preview[t] # None
  /\ \A h \in Handlers :
       /\ call[h].at # "idle" =>
            /\ preview[call[h].id] = None
            /\ call[h].kind = "preview" => call[h].window \in Windows
       /\ call[h].at = "commit" =>
            /\ call[h].token \in Calls \ held /\ preview[call[h].token] # None
            /\ preview[call[h].token] =
                 [window |-> call[h].window, epoch |-> call[h].epoch, seen |-> call[h].seen]
            /\ \A i \in imported : i.token # call[h].token
            /\ \A g \in Handlers :
                 call[g].at = "commit" /\ call[g].token = call[h].token => g = h

IInv ==
  /\ TypeOK /\ ReleasesAreRecorded /\ AnswersTellOfFiles /\ ImportsArePreviewed
  /\ CallsApart /\ EntriesArrive /\ ExportsInOrder /\ TokensApart

(* Clearing spares what the user copied since: only a copy of a secret     *)
(* replaces it (the fingerprint that timers and failures compare).         *)
ClearsOnlySecrets ==
  [][clip' # clip /\ clip \in Users => \E h \in Handlers : Copy(h)]_vars

(* A copied secret leaves the clipboard while the process lives, whether   *)
(* the copy succeeds, fails, or a lock or a switch ends its session.       *)
CopiesAreCleared ==
  \A v \in Values : clip = v ~> (clip # v \/ crashes > 0)
===============================================================================
