------------------------------- MODULE MCDialogs -------------------------------
(* The folders of projects and four dialogs of the renderer, which share       *)
(* nothing here: a behaviour is one of ProjectAccess; or one of the projects'  *)
(* dialog, with a project and a folder to scan, with two projects, or with a   *)
(* first one; or one of the import dialog; or one of the menu-bar panel, where *)
(* the user works with fields, drafts or searches; or one of a field's row.    *)
EXTENDS MCProjectAccess

CONSTANTS e1, e2, e3, d1, d2, k1, k2, EditorSettings,
          ImportKinds, ImportSources, MaxGiven, MaxParses, MaxDialogs,
          SecretFields, Queries, Blank, PanelCasts,
          Identities, MaxAsked, MaxChanges, MaxSessions

EnvFound == [d \in {d1, d2} |-> IF d = d1 THEN <<k1>> ELSE <<k2>>]
Edit(of, new, edits, scanned, sent, fast) ==
  [existing |-> of, folder |-> d1, startNew |-> {new}, edits |-> edits, scans |-> scanned,
   commands |-> sent, hasty |-> fast]
Patient == {Edit({e1}, FALSE, 2, 1, 2, FALSE), Edit({e1, e2}, FALSE, 1, 0, 3, FALSE),
            Edit({}, TRUE, 2, 1, 2, FALSE)}
InAHurry == {Edit({e1}, FALSE, 2, 1, 2, TRUE)}
SavesAgain == {Edit({e1}, FALSE, 3, 0, 4, FALSE)}
DeletesWhileScanning == {Edit({e1, e2}, FALSE, 0, 1, 1, FALSE)}
FirstProject == {Edit({}, TRUE, 1, 1, 2, FALSE)}

Use(does, v, c, p, s) ==
  [does |-> does, visits |-> v, calls |-> c, pasted |-> p, sessions |-> s]
EveryUse == {Use({"fields"}, 2, 6, 0, 2), Use({"fields"}, 1, 5, 0, 3), Use({"add"}, 2, 4, 2, 2),
             Use({"search", "add"}, 1, 5, 1, 2), Use({"search", "act"}, 1, 5, 0, 3)}
Texts     == {"plain", "sealed", "csv"}
Sources   == {"csv", "vaultageJson", "images"}
Nothing   == {}

VARIABLES part, projects, granted, editor, scans, commands, stamp, used, deleted, setting,
          dialog, token, files_, sealed, received, cancels, retained, locked, given, parses, dialogs,
          focused, panel, due, reads, calls, timers, opened, heard, visits, begun, pasted, cast,
          asked, cleared,
          row, hidden, revealed, timer, attempts, guard, clicks, changes, revoked

editorVars == <<projects, granted, editor, scans, commands, stamp, used, deleted, setting>>
importVars == <<dialog, token, files_, sealed, received, cancels, retained, locked, given, parses,
                dialogs>>
panelVars  == <<focused, panel, due, reads, calls, timers, opened, heard, visits, begun, pasted,
                cast, asked, cleared>>
revealVars == <<row, hidden, revealed, timer, attempts, guard, clicks, changes, revoked>>
allVars == <<part, vars, editorVars, importVars, panelVars, revealVars>>

Editor == INSTANCE ProjectEditor
            WITH Projects <- {e1, e2, e3}, Folders <- {d1, d2}, Keys <- {k1, k2},
                 Fields <- SecretFields, Found <- EnvFound, EditorCasts <- EditorSettings,
                 export <- stamp, cast <- setting
Import == INSTANCE ImportDialog
            WITH Kinds <- ImportKinds, reads <- files_, calls <- sealed
Panel  == INSTANCE MenuPanel
            WITH Fields <- SecretFields, Casts <- PanelCasts, session <- opened
Reveal == INSTANCE FieldReveal
            WITH calls <- attempts, session <- guard, asked <- clicks

\* The bounds are numbers, and the absence of a thing is no such thing.
ASSUME ImportAssumption ==
  /\ MaxGiven \in Nat /\ MaxParses \in Nat /\ MaxDialogs \in Nat
  /\ None \notin 1..MaxParses \cup Import!Dialogs \cup Import!Importings
  /\ None \notin ImportSources \cup Import!Contents
  /\ None \notin {"images", "csv", "vaultageJson"}
ASSUME PanelAssumption ==
  /\ Blank \in Queries /\ None \notin Queries
  /\ None \notin Panel!Requests \cup Panel!Pendings
ASSUME RevealAssumption ==
  /\ MaxSessions \in Nat \ {0} /\ MaxAsked \in Nat /\ MaxChanges \in Nat
  /\ None \notin Reveal!Attempts \cup Reveal!Rows \cup Reveal!Values

NoAccess ==
  /\ unlocked = None /\ epoch = None /\ active = None /\ vaultRevision = None
  /\ revision = None /\ path = None /\ grants = None /\ pick = None /\ discovery = None
  /\ change = None /\ strays = None /\ switching = None /\ export = None /\ dotenv = None
  /\ ignored = None /\ shown = None /\ balance = None /\ left = None
NoEditor ==
  /\ projects = None /\ granted = None /\ editor = None /\ scans = None /\ commands = None
  /\ stamp = None /\ used = None /\ deleted = None /\ setting = None
NoImport ==
  /\ dialog = None /\ token = None /\ files_ = None /\ sealed = None /\ received = None
  /\ cancels = None /\ retained = None /\ locked = None /\ given = None /\ parses = None
  /\ dialogs = None
NoPanel ==
  /\ focused = None /\ panel = None /\ due = None /\ reads = None /\ calls = None
  /\ timers = None /\ opened = None /\ heard = None /\ visits = None /\ begun = None
  /\ pasted = None /\ cast = None /\ asked = None /\ cleared = None
NoReveal ==
  /\ row = None /\ hidden = None /\ revealed = None /\ timer = None /\ attempts = None
  /\ guard = None /\ clicks = None /\ changes = None /\ revoked = None

DialogsInit ==
  \/ part = "access" /\ Init /\ NoEditor /\ NoImport /\ NoPanel /\ NoReveal
  \/ part = "editor" /\ Editor!Init /\ NoAccess /\ NoImport /\ NoPanel /\ NoReveal
  \/ part = "import" /\ Import!Init /\ NoAccess /\ NoEditor /\ NoPanel /\ NoReveal
  \/ part = "panel"  /\ Panel!Init /\ NoAccess /\ NoEditor /\ NoImport /\ NoReveal
  \/ part = "reveal" /\ Reveal!Init /\ NoAccess /\ NoEditor /\ NoImport /\ NoPanel

DialogsNext ==
  /\ part' = part
  /\ \/ part = "access" /\ Next /\ UNCHANGED <<editorVars, importVars, panelVars, revealVars>>
     \/ part = "editor" /\ Editor!Next /\ UNCHANGED <<vars, importVars, panelVars, revealVars>>
     \/ part = "import" /\ Import!Next /\ UNCHANGED <<vars, editorVars, panelVars, revealVars>>
     \/ part = "panel"  /\ Panel!Next /\ UNCHANGED <<vars, editorVars, importVars, revealVars>>
     \/ part = "reveal" /\ Reveal!Next /\ UNCHANGED <<vars, editorVars, importVars, panelVars>>

DialogsSpec == DialogsInit /\ [][DialogsNext]_allVars

\* ProjectAccess's invariant, of its own behaviours: a picked folder is spent once, by the
\* command it was picked for (projectCapabilities.ts:66).
AccessInv == part = "access" => IInv

\* ProjectEditor's, of the projects' dialog: what is edited is the project that is shown,
\* and a deleted one stays deleted (EnvProjectsModal.tsx:649-661).
EditorInv == part = "editor" => Editor!IInv

\* ImportDialog's: the preview is of what was given last, and the main process keeps no
\* plaintext that nobody will ask for or discard (ImportModal.tsx:335).
ImportInv == part = "import" => Import!IInv

\* MenuPanel's and FieldReveal's: nothing is shown that was asked for before the panel was
\* cleared (MenuBarPanel.tsx:312), or of another field, version or session than the row's
\* (useTransientReveal.ts:90).
ScreensInv == /\ part = "panel" => Panel!IInv
              /\ part = "reveal" => Reveal!IInv

\* ProjectAccess's action properties, of its own behaviours: an export writes where the
\* vault's folder is the one confirmed, and replaces no file that was not approved
\* (envFile.ts:65).
ExportsAsApproved ==
  [][part = "access" => ExportsWhereAcknowledged /\ ReplacesOnlyApproved]_allVars

\* ProjectAccess's: no grant outlives the session it was made in.
GrantsEnd == part = "access" => GrantsEndWithTheirSession

\* The behaviours of one module alone.
AccessInit == DialogsInit /\ part = "access"
AccessSpec == AccessInit /\ [][DialogsNext]_allVars
EditorSpec == DialogsInit /\ part = "editor" /\ [][DialogsNext]_allVars

\* ProjectEditor's: a project made from a folder that was scanned is recorded with the keys
\* found there, though they are not mapped yet (docs/project-scanning.md:10).
UnmappedKeysAreRecorded == [][part = "editor" => Editor!UnmappedKeysAreRecorded]_allVars

\* ProjectEditor's: the time of an export does not undo what was saved since the click.
LaterSaveStays == [][part = "editor" => Editor!LaterSaveStays]_allVars

\* MenuPanel's: a draft begun since a creation was sent stays, and the status shown is of
\* the last request for it.
NewDraftStays   == [][part = "panel" => Panel!NewDraftStays]_allVars
StatusIsTheLast == [][part = "panel" => Panel!StatusIsTheLast]_allVars
===============================================================================
