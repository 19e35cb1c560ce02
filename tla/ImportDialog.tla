------------------------------ MODULE ImportDialog ------------------------------
(***************************************************************************)
(* The dialog that imports secrets (ImportModal.tsx, importFlowSecurity.ts)*)
(* beside the main process, which decrypts a sealed export and keeps the   *)
(* plaintext under a token until the import or its end                     *)
(* (vaultExportIpc.ts).  Files, pictures and decryptions take their time,  *)
(* and the dialog goes on meanwhile: back, to another source, to another   *)
(* text, or away.                                                          *)
(*                                                                         *)
(* What the user gives, a text, a file or a selection of pictures, is      *)
(* known by its number: the count of what was given so far.                *)
(***************************************************************************)
EXTENDS Naturals, FiniteSets

CONSTANTS Kinds,       \* of texts, among "plain", "sealed", "csv"
          ImportSources, \* of "csv", which stands for the browsers' too, "vaultageJson", "images"
          None,
          MaxGiven, MaxParses, MaxDialogs \* bounds

VARIABLES
  dialog,    \* what React keeps of the dialog that is open, or None
  token,     \* encryptedImportTokenRef
  reads,     \* the files and pictures being read
  calls,     \* beginEncryptedImport, between its invocation and its answer
  received,  \* how many of them the main process has received
  cancels,   \* cancelEncryptedImport on its way
  retained,  \* the tokens the main process keeps plaintext under
  locked,    \* the session has ended
  given, parses, dialogs

main == <<received, retained, locked>>
vars == <<dialog, token, reads, calls, cancels, main, given, parses, dialogs>>

Nothing == [of |-> 0, kind |-> None]

\* A dialog of nothing yet.
Fresh ==
  [step |-> "source", source |-> None, text |-> Nothing, password |-> FALSE,
   parsed |-> Nothing, root |-> 0, selections |-> 0, included |-> FALSE,
   destination |-> TRUE, importing |-> None]

Init ==
  /\ dialog = None /\ token = None
  /\ reads = {} /\ calls = {} /\ received = 0 /\ cancels = {} /\ retained = {}
  /\ locked = FALSE /\ given = 0 /\ parses = 0 /\ dialogs = 0

-----------------------------------------------------------------------------
\* Mutant of Discard: the token is dropped, the plaintext stays.
DiscardSilently == token' = None /\ UNCHANGED cancels

\* The dialog has no more use for the decrypted preview.
Discard == token' = None /\ cancels' = cancels \cup ({token} \ {None})

\* Mutant of Overtaken: what was begun keeps its right to answer.
OvertakenNever(begun) == begun

\* Attempts have numbers, and one is live while its number is the gate's: the gate has
\* moved on, and none of these is any more.
Overtaken(begun) == {[r EXCEPT !.live = FALSE] : r \in begun}

InvalidateAll == calls' = Overtaken(calls) /\ reads' = Overtaken(reads)

Shows(d) == dialog # None /\ dialog.importing = None /\ dialog' = d

OpenDialog ==
  /\ dialog = None /\ dialogs < MaxDialogs /\ ~locked
  /\ dialog' = Fresh /\ dialogs' = dialogs + 1
  /\ UNCHANGED <<token, reads, calls, cancels, main, given, parses>>

\* The dialog is closed, or its whole page goes because the vault was locked: only then
\* may an import be under way.  The readings end in a component that is gone.
CloseDialog ==
  /\ dialog # None /\ (dialog.importing = None \/ locked)
  /\ dialog' = None /\ reads' = {} /\ calls' = Overtaken(calls)
  /\ Discard /\ UNCHANGED <<main, given, parses, dialogs>>

chooseSource(s) ==
  /\ dialog.step = "source"
  /\ Shows([Fresh EXCEPT !.step = "input", !.source = s, !.destination = dialog.destination])
  /\ InvalidateAll /\ Discard
  /\ UNCHANGED <<main, given, parses, dialogs>>

\* The text is another one, and no preview is of it.
Replaced(d, text) ==
  [d EXCEPT !.text = text, !.password = FALSE, !.root = 0, !.selections = 0]

\* The user types or pastes a text.
replaceImportText(k) ==
  /\ dialog.step = "input" /\ dialog.source # "images" /\ given < MaxGiven
  /\ given' = given + 1
  /\ Shows(Replaced(dialog, [of |-> given', kind |-> k]))
  /\ InvalidateAll /\ Discard /\ UNCHANGED <<main, parses, dialogs>>

\* The user picks a file: too large, it leaves no text, and else it is read.
handleFile ==
  /\ dialog.step = "input" /\ dialog.source # "images" /\ given < MaxGiven
  /\ given' = given + 1
  /\ Shows(Replaced(dialog, Nothing))
  /\ calls' = Overtaken(calls)
  /\ \/ reads' = Overtaken(reads)
     \/ reads' = Overtaken(reads) \cup {[live |-> TRUE, of |-> given', source |-> dialog.source]}
  /\ Discard /\ UNCHANGED <<main, parses, dialogs>>

\* Mutant of FileCounts: a file counts when the source is still the same.
FileCountsBySource(r) == dialog.source = r.source

\* The file is the last thing the user gave.
FileCounts(r) == r.live /\ dialog.source = r.source

\* The reading ends, well or not.
FileRead(r) ==
  /\ r.source # "images"
  /\ \/ /\ FileCounts(r) /\ dialog.importing = None
        /\ \E k \in Kinds : dialog' = Replaced(dialog, [of |-> r.of, kind |-> k])
        /\ calls' = Overtaken(calls) /\ reads' = Overtaken(reads \ {r}) /\ Discard
     \/ reads' = reads \ {r} /\ UNCHANGED <<dialog, token, calls, cancels>>
  /\ UNCHANGED <<main, given, parses, dialogs>>

\* The user picks pictures: too many or none, and nothing is read.
handleImageFiles ==
  /\ dialog.step = "input" /\ dialog.source = "images" /\ given < MaxGiven
  /\ given' = given + 1
  /\ Shows([dialog EXCEPT !.parsed = Nothing, !.included = FALSE])
  /\ \/ reads' = Overtaken(reads)
     \/ reads' = Overtaken(reads) \cup {[live |-> TRUE, of |-> given', source |-> "images"]}
  /\ UNCHANGED <<token, calls, cancels, main, parses, dialogs>>

\* All are read, or the selection is refused, or no picture of it can be read.
ImagesRead(r) ==
  /\ r.source = "images" /\ reads' = reads \ {r}
  /\ \/ /\ r.live
        /\ dialog' = [dialog EXCEPT !.parsed = [of |-> r.of, kind |-> "images"],
                                    !.included = TRUE]
     \/ UNCHANGED dialog
  /\ UNCHANGED <<token, calls, cancels, main, given, parses, dialogs>>

\* Mutant of TypePassword: the decryption under another password goes on.
TypePasswordUnheard ==
  /\ dialog.step = "input" /\ dialog.source = "vaultageJson"
  /\ \E filled \in BOOLEAN : Shows([dialog EXCEPT !.password = filled])
  /\ UNCHANGED <<token, reads, calls, cancels, main, given, parses, dialogs>>

\* The field of the export password changes, whatever the text is: it holds something or
\* was emptied, and what is being decrypted under another password counts no more.
TypePassword ==
  /\ dialog.step = "input" /\ dialog.source = "vaultageJson"
  /\ \E filled \in BOOLEAN :
       (filled \/ dialog.password) /\ Shows([dialog EXCEPT !.password = filled])
  /\ calls' = Overtaken(calls)
  /\ UNCHANGED <<token, reads, cancels, main, given, parses, dialogs>>

-----------------------------------------------------------------------------
(* From the input to the preview. *)
Parses == dialog.step = "input" /\ parses < MaxParses /\ parses' = parses + 1

\* Pictures are parsed when they are read; a table of rows whatever it holds.
ParseImages ==
  /\ Parses /\ dialog.source = "images" /\ dialog.parsed # Nothing
  /\ Shows([dialog EXCEPT !.step = "preview"])
  /\ UNCHANGED <<token, reads, calls, cancels, main, given, dialogs>>

ParseTable ==
  /\ Parses /\ dialog.source = "csv" /\ dialog.text # Nothing
  /\ Shows([dialog EXCEPT !.step = "preview", !.parsed = [of |-> dialog.text.of, kind |-> "csv"],
                          !.included = dialog.text.kind = "csv"])
  /\ UNCHANGED <<token, reads, calls, cancels, main, given, dialogs>>

\* An export that is not sealed is read at once, if it is one.
ParsePlain ==
  /\ Parses /\ dialog.source = "vaultageJson" /\ dialog.text # Nothing
  /\ dialog.text.kind # "sealed"
  /\ Shows(IF dialog.text.kind # "plain" THEN [dialog EXCEPT !.password = FALSE]
           ELSE [dialog EXCEPT !.step = "preview", !.password = FALSE, !.included = TRUE,
                   !.root = dialog.text.of,
                   !.parsed = [of |-> dialog.text.of, kind |-> "plain"]])
  /\ calls' = Overtaken(calls) /\ UNCHANGED <<token, reads, cancels, main, given, dialogs>>

ParseSealed ==
  /\ Parses /\ dialog.source = "vaultageJson" /\ dialog.text.kind = "sealed" /\ dialog.password
  /\ Shows([dialog EXCEPT !.password = FALSE])
  /\ calls' = Overtaken(calls) \cup {[id |-> parses', live |-> TRUE, of |-> dialog.text.of,
                                     state |-> "sent"]}
  /\ UNCHANGED <<token, reads, cancels, main, given, dialogs>>

Becomes(c, state) == calls' = (calls \ {c}) \cup {[c EXCEPT !.state = state]}

\* The main process receives the calls in their order and decrypts one beside the other.
ReceiveCall(c) ==
  /\ c.state = "sent" /\ \A d \in calls : d.state = "sent" => c.id <= d.id
  /\ Becomes(c, "running") /\ received' = c.id
  /\ UNCHANGED <<dialog, token, reads, cancels, retained, locked, given, parses, dialogs>>

\* A newer call of this window has come.
Superseded(c) == received # c.id

\* A decryption ends; of one window only the newest keeps its plaintext.
Decrypted(c) ==
  /\ c.state = "running"
  /\ \/ /\ ~Superseded(c) /\ ~locked
        /\ retained' = {c.id} /\ Becomes(c, "previewed")
     \/ Becomes(c, "failed") /\ UNCHANGED retained
  /\ UNCHANGED <<dialog, token, reads, received, cancels, locked, given, parses, dialogs>>

\* The text is still the one that was decrypted, and nothing came after.
isCurrent(c) == c.live /\ dialog.text.of = c.of

\* The answer: of another attempt, its plaintext is given back.
Answered(c) ==
  /\ c.state \in {"previewed", "failed"} /\ calls' = calls \ {c}
  /\ \/ /\ ~isCurrent(c)
        /\ cancels' = cancels \cup (IF c.state = "previewed" THEN {c.id} ELSE {})
        /\ UNCHANGED <<dialog, token>>
     \/ /\ isCurrent(c) /\ c.state = "failed" /\ UNCHANGED <<dialog, token, cancels>>
     \/ /\ isCurrent(c) /\ c.state = "previewed"
        /\ token' = c.id /\ UNCHANGED cancels
        /\ dialog' = [dialog EXCEPT !.step = "preview", !.root = 0, !.selections = c.of,
                        !.parsed = [of |-> c.of, kind |-> "sealed"], !.included = TRUE]
  /\ UNCHANGED <<reads, main, given, parses, dialogs>>

Cancelled(t) ==
  /\ cancels' = cancels \ {t} /\ retained' = retained \ {t}
  /\ UNCHANGED <<dialog, token, reads, calls, received, locked, given, parses, dialogs>>

\* A preview of a session that ended, or one that is too old, is forgotten.
Expire ==
  /\ retained # {} /\ retained' = {}
  /\ UNCHANGED <<dialog, token, reads, calls, received, cancels, locked, given, parses, dialogs>>

-----------------------------------------------------------------------------
handleBack ==
  /\ dialog.step \in {"input", "preview"}
  /\ Shows(IF dialog.step = "input"
           THEN [Fresh EXCEPT !.destination = dialog.destination]
           ELSE IF dialog.source = "vaultageJson"
           THEN [dialog EXCEPT !.step = "input", !.password = FALSE, !.root = 0,
                               !.selections = 0, !.parsed = Nothing, !.included = FALSE]
           ELSE [dialog EXCEPT !.step = "input", !.password = FALSE])
  /\ InvalidateAll /\ Discard
  /\ UNCHANGED <<main, given, parses, dialogs>>

\* Rows are chosen, all, none or one by one.
toggleRow ==
  /\ dialog.step = "preview" /\ dialog.parsed # Nothing
  /\ Shows([dialog EXCEPT !.included = ~@])
  /\ UNCHANGED <<token, reads, calls, cancels, main, given, parses, dialogs>>

\* The folder is deleted elsewhere, or another is chosen.
ChangeDestination ==
  /\ dialog # None /\ dialog' = [dialog EXCEPT !.destination = ~@]
  /\ UNCHANGED <<token, reads, calls, cancels, main, given, parses, dialogs>>

\* What the rows of the preview are imported from.
Sends ==
  IF dialog.source = "vaultageJson" /\ token # None
  THEN [kind |-> "sealed", of |-> dialog.selections]
  ELSE IF dialog.source = "vaultageJson" /\ dialog.root # 0
  THEN [kind |-> "plain", of |-> dialog.root]
  ELSE dialog.parsed

handleImport ==
  /\ dialog.step = "preview" /\ dialog.included /\ dialog.destination
  /\ Shows([dialog EXCEPT !.importing = [kind |-> Sends.kind, state |-> "sent"]])
  /\ UNCHANGED <<token, reads, calls, cancels, main, given, parses, dialogs>>

\* The main process commits the import or refuses it, which a locked one does; the
\* plaintext is used once, but a locked one leaves it to expire.
CommitImport ==
  /\ dialog # None /\ dialog.importing # None /\ dialog.importing.state = "sent"
  /\ LET sealed == dialog.importing.kind = "sealed"
     IN \/ /\ ~locked /\ (sealed => token \in retained)
           /\ dialog' = [dialog EXCEPT !.importing.state = "committed"]
           /\ retained' = IF sealed THEN retained \ {token} ELSE retained
        \/ /\ dialog' = [dialog EXCEPT !.importing.state = "refused"]
           /\ retained' = IF sealed /\ ~locked THEN retained \ {token} ELSE retained
  /\ UNCHANGED <<token, reads, calls, received, cancels, locked, given, parses, dialogs>>

\* clearPreparedImportData
Cleared(d) ==
  [d EXCEPT !.text = Nothing, !.password = FALSE, !.root = 0, !.selections = 0,
            !.parsed = Nothing, !.included = FALSE]

\* The answer of an import: of a sealed one the token is spent, and after a refusal it has
\* to be decrypted again.
ImportAnswered ==
  /\ dialog # None /\ dialog.importing # None /\ dialog.importing.state # "sent"
  /\ LET sealed == dialog.importing.kind = "sealed"
         done   == dialog.importing.state = "committed"
         d      == [dialog EXCEPT !.importing = None]
     IN /\ dialog' = IF done THEN [Cleared(d) EXCEPT !.step = "done"]
                     ELSE IF ~sealed THEN d
                     ELSE [d EXCEPT !.step = "input", !.selections = 0, !.parsed = Nothing,
                                    !.included = FALSE]
        /\ calls' = IF done THEN Overtaken(calls) ELSE calls
        /\ IF sealed THEN token' = None /\ UNCHANGED cancels
           ELSE IF done THEN token' = None /\ cancels' = cancels \cup ({token} \ {None})
           ELSE UNCHANGED <<token, cancels>>
  /\ UNCHANGED <<reads, main, given, parses, dialogs>>

\* The session ends; the page of the dialog goes with the answer.
Lock ==
  /\ ~locked /\ locked' = TRUE
  /\ UNCHANGED <<dialog, token, reads, calls, received, cancels, retained, given, parses, dialogs>>

UserStep ==
  /\ dialog # None
  /\ \/ \E s \in ImportSources : chooseSource(s)
     \/ \E k \in Kinds : replaceImportText(k)
     \/ handleFile \/ handleImageFiles \/ TypePassword
     \/ ParseImages \/ ParseTable \/ ParsePlain \/ ParseSealed
     \/ handleBack \/ toggleRow \/ handleImport

ReadStep == \E r \in reads : FileRead(r) \/ ImagesRead(r)
CallStep == \E c \in calls : ReceiveCall(c) \/ Decrypted(c) \/ Answered(c)

Next ==
  \/ OpenDialog \/ CloseDialog \/ UserStep \/ ReadStep \/ CallStep
  \/ \E t \in cancels : Cancelled(t)
  \/ Expire \/ ChangeDestination \/ CommitImport \/ ImportAnswered \/ Lock

Spec == Init /\ [][Next]_vars

-----------------------------------------------------------------------------
(* Properties. *)
Calls == [id : 1..MaxParses, live : BOOLEAN, of : 1..MaxGiven,
          state : {"sent", "running", "previewed", "failed"}]

Reads == [live : BOOLEAN, of : 1..MaxGiven, source : ImportSources]

Contents   == Kinds \cup {"plain", "sealed", "csv", "images"}
Importings == [kind : Contents \cup {None}, state : {"sent", "committed", "refused"}]
Dialogs ==
  [step : {"source", "input", "preview", "done"}, source : ImportSources \cup {None},
   text : [of : 0..MaxGiven, kind : Kinds \cup {None}], password : BOOLEAN,
   parsed : [of : 0..MaxGiven, kind : Contents \cup {None}],
   root : 0..MaxGiven, selections : 0..MaxGiven, included : BOOLEAN,
   destination : BOOLEAN, importing : Importings \cup {None}]

\* The state is well typed.
TypeOK ==
  /\ dialog \in Dialogs \cup {None} /\ token \in 1..parses \cup {None}
  /\ dialog # None => (dialog.source = None <=> dialog.step = "source")
  /\ reads \subseteq Reads /\ calls \subseteq Calls /\ \A c \in calls : c.id <= parses
  /\ retained \subseteq 1..MaxParses /\ cancels \subseteq 1..MaxParses
  /\ received \in 0..MaxParses /\ locked \in BOOLEAN
  /\ given \in 0..MaxGiven /\ parses \in 0..MaxParses /\ dialogs \in 0..MaxDialogs

\* The preview shows what the user gave last, and its rows are what an import would take:
\* no answer of an earlier reading or decryption gets into it, nor does any of an earlier
\* preview remain under it; and what was decrypted is shown only if the password it was
\* asked for with is the last one given (ImportModal.tsx:335, 424, 452, 816).
PreviewIsOfTheLast ==
  dialog # None /\ dialog.step = "preview" =>
    /\ dialog.parsed.of = given /\ Sends = dialog.parsed
    /\ dialog.source = "vaultageJson" /\ dialog.parsed.kind = "sealed" => ~dialog.password

\* While its session lasts the main process keeps the plaintext of no preview but the one
\* on the screen, once the calls have been answered (ImportModal.tsx:221, 335).
PlaintextHasAnOwner ==
  calls = {} /\ cancels = {} /\ ~locked =>
    /\ Cardinality(retained) <= 1
    /\ retained \subseteq (IF dialog = None THEN {} ELSE {token})

(* Why both hold.  What the dialog has of a text is of the last thing that was given; a *)
(* reading that may still be heard is of it, and there is nothing yet where it goes.    *)
GivenIsLast ==
  dialog # None =>
    /\ dialog.text # Nothing => dialog.text.of = given /\ given > 0
    /\ dialog.source = "images" =>
         /\ dialog.text = Nothing
         /\ dialog.step = "input" /\ dialog.parsed # Nothing => dialog.parsed.of = given
ReadsAreOfTheLast ==
  \A r \in reads : r.live =>
    /\ dialog # None /\ dialog.step = "input" /\ dialog.source = r.source /\ r.of = given
    /\ IF r.source = "images" THEN dialog.parsed = Nothing ELSE dialog.text = Nothing

\* One call at most may still be heard, it is of the text in the field, no password was
\* typed since, and no two have one number.
CallsAreOfTheText ==
  \A c \in calls :
    /\ c.live => /\ dialog # None /\ dialog.step = "input" /\ dialog.source = "vaultageJson"
                 /\ dialog.text.kind = "sealed" /\ dialog.text.of = c.of /\ ~dialog.password
                 /\ \A d \in calls : d.live => c = d
    /\ c.id # token /\ \A d \in calls : c.id = d.id => c = d

\* A token is the preview's, and so is an import that is under way.
TokenOfThePreview ==
  /\ token # None => dialog # None /\ dialog.step = "preview"
  /\ dialog # None /\ dialog.importing # None => dialog.step = "preview"

\* Plaintext is the preview's, or given back already, or that of a call on its way to the
\* dialog; a sealed import that is over has used it.
PlaintextIsAccounted ==
  /\ \A s, t \in retained : s = t
  /\ \A t \in retained : \/ locked \/ t = token \/ t \in cancels
                         \/ \E c \in calls : c.id = t /\ c.state = "previewed"
  /\ (/\ dialog # None /\ dialog.importing # None
      /\ dialog.importing.kind = "sealed" /\ dialog.importing.state # "sent")
     => locked \/ token \notin retained

IInv == /\ TypeOK /\ PreviewIsOfTheLast /\ PlaintextHasAnOwner
        /\ GivenIsLast /\ ReadsAreOfTheLast /\ CallsAreOfTheText
        /\ TokenOfThePreview /\ PlaintextIsAccounted
==============================================================================
