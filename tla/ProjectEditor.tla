----------------------------- MODULE ProjectEditor -----------------------------
(***************************************************************************)
(* The dialog of the projects (EnvProjectsModal.tsx): it makes a project   *)
(* from a folder whose files are scanned, maps the keys found there to     *)
(* fields, saves, exports and deletes.  It edits a copy, and goes on while *)
(* a scan or a command is under way; what comes then is applied to what    *)
(* the dialog shows by then.                                               *)
(*                                                                         *)
(* The renderer sends one command after the other, and knows the document  *)
(* as of the last answer.                                                  *)
(***************************************************************************)
EXTENDS Naturals, FiniteSets, SequencesExt

CONSTANTS Projects, Folders, Keys, Fields, None,
          Found,        \* by folder: the keys that its files use
          Create,       \* the target of a folder picked for a new project
          EditorCasts   \* bounds: what the user does in a behaviour

VARIABLES
  projects,  \* of the document: by project, its path, entries and exports, or None
  granted,   \* folders that may be stored, for what they were picked
  editor,    \* what React keeps of the dialog, or None
  scans,     \* scanProject on its way, of the dialog that is open
  commands,  \* sent and to be sent, in their order
  export,    \* handleExport after its command, or None
  used,      \* counts: edits, scans, commands
  deleted,   \* history
  cast

vars == <<projects, granted, editor, scans, commands, export, used, deleted, cast>>

Unmapped(k)  == [key |-> k, field |-> None, id |-> None]
Mapped(e)    == e.key # None /\ e.field # None
\* A field's id that was kept while its field was not.
Mixed(e)     == e.id \notin {None, e.field}
Whole(entries) ==
  /\ \A i \in 1..Len(entries) : ~Mixed(entries[i])
  /\ \A i, j \in 1..Len(entries) : entries[i].key = entries[j].key => i = j

Existing == {p \in Projects : projects[p] # None}
NoDraft  == [selected |-> None, path |-> None, entries |-> <<>>, of |-> None]

Init ==
  /\ cast \in EditorCasts
  /\ projects = [p \in Projects |->
       IF p \in cast.existing THEN [path |-> cast.folder, entries |-> <<>>, exports |-> 0]
       ELSE None]
  /\ granted = {} /\ editor = None /\ scans = {} /\ commands = <<>> /\ export = None
  /\ used = [edits |-> 0, scans |-> 0, commands |-> 0] /\ deleted = {}

Uses(what) == used[what] < cast[what] /\ used' = [used EXCEPT ![what] = @ + 1]

-----------------------------------------------------------------------------
(* The dialog *)
isCreating == editor # None /\ editor.creating /\ editor.selected = None
isEditing  == editor # None /\ editor.selected # None

\* Mutant of Copied: the entries on the screen stay.
CopiedWithout(d, p, project) == [d EXCEPT !.selected = p, !.path = project.path]

\* The local copies of a project.
Copied(d, p, project) ==
  [d EXCEPT !.selected = p, !.path = project.path, !.entries = project.entries, !.of = p]

selectProject(d, p, project) ==
  [Copied(d, p, project) EXCEPT !.creating = FALSE, !.confirming = FALSE]

\* Without a project to show: nothing.
selectFirst(d, table) ==
  IF \A p \in Projects : table[p] = None THEN NoDraft @@ [d EXCEPT !.creating = FALSE]
  ELSE LET p == CHOOSE q \in Projects : table[q] # None IN selectProject(d, p, table[p])

\* Nothing chosen of a folder yet.
Emptied(d) == NoDraft @@ [d EXCEPT !.found = FALSE, !.scanned = FALSE]

\* While a scan or a creation is under way the dialog lets a user in a hurry go on.
Waits ==
  cast.hasty \/ (scans = {} /\ \A i \in 1..Len(commands) : commands[i].kind # "create")

Fresh(new) ==
  [startNew |-> new, creating |-> new, confirming |-> FALSE, found |-> FALSE, scanned |-> FALSE,
   scanning |-> FALSE, discovering |-> FALSE, exporting |-> FALSE] @@ NoDraft

Shows(d) == editor' = d

Open(new) ==
  /\ editor = None /\ new \in cast.startNew
  /\ Shows(IF new THEN Fresh(TRUE) ELSE selectFirst(Fresh(FALSE), projects))
  /\ UNCHANGED <<projects, granted, scans, commands, export, used, deleted>>

\* What is still scanned is of a component that is gone; its commands go on.
Closed == editor' = None /\ scans' = {}

Close ==
  /\ editor # None /\ Closed
  /\ UNCHANGED <<projects, granted, commands, export, used, deleted>>

Choose(p) ==
  /\ editor # None /\ ~isCreating /\ p \in Existing
  /\ Shows(selectProject(editor, p, projects[p]))
  /\ UNCHANGED <<projects, granted, scans, commands, export, used, deleted>>

startCreating ==
  /\ editor # None /\ ~isCreating
  /\ Shows([Emptied(editor) EXCEPT !.creating = TRUE, !.confirming = FALSE])
  /\ UNCHANGED <<projects, granted, scans, commands, export, used, deleted>>

exitCreateFlow ==
  /\ isCreating /\ Waits
  /\ IF editor.startNew THEN Closed
     ELSE Shows([selectFirst(editor, projects) EXCEPT !.found = FALSE, !.scanned = FALSE])
          /\ UNCHANGED scans
  /\ UNCHANGED <<projects, granted, commands, export, used, deleted>>

chooseCreateFlow ==
  /\ isCreating /\ Waits /\ Shows(Emptied(editor))
  /\ UNCHANGED <<projects, granted, scans, commands, export, used, deleted>>

-----------------------------------------------------------------------------
(* Folders *)

\* For the project on the screen.
handlePickFolder(f) ==
  /\ isEditing /\ Uses("edits")
  /\ Shows([editor EXCEPT !.path = f])
  /\ granted' = granted \cup {<<editor.selected, f>>}
  /\ UNCHANGED <<projects, scans, commands, export, deleted>>

\* A parent is picked and its folders are looked for, each of which may be a project.
handlePickParentFolder ==
  /\ isCreating /\ ~editor.discovering /\ Waits
  /\ Shows([Emptied(editor) EXCEPT !.discovering = TRUE])
  /\ UNCHANGED <<projects, granted, scans, commands, export, used, deleted>>

Discovered ==
  /\ editor # None /\ editor.discovering
  /\ \/ /\ Shows([editor EXCEPT !.discovering = FALSE, !.found = TRUE])
        /\ granted' = granted \cup ({Create} \X Folders)
     \/ Shows([editor EXCEPT !.discovering = FALSE, !.found = FALSE]) /\ UNCHANGED granted
  /\ UNCHANGED <<projects, scans, commands, export, used, deleted>>

\* The folder is shown at once, and then what a scan finds in it.
scanSelectedFolder(d, f) ==
  /\ Uses("scans")
  /\ Shows([d EXCEPT !.path = f, !.scanning = TRUE])
  /\ scans' = scans \cup {[number |-> used.scans + 1, folder |-> f]}

selectCandidate(f) ==
  /\ isCreating /\ editor.found /\ Waits
  /\ scanSelectedFolder(editor, f)
  /\ UNCHANGED <<projects, granted, commands, export, deleted>>

handlePickExactProjectFolder(f) ==
  /\ isCreating /\ ~editor.scanning /\ Waits
  /\ scanSelectedFolder([editor EXCEPT !.found = FALSE], f)
  /\ granted' = granted \cup {<<Create, f>>}
  /\ UNCHANGED <<projects, commands, export, deleted>>

\* Into whatever the dialog shows.
Scanned(s) ==
  /\ scans' = scans \ {s}
  /\ \/ Shows([editor EXCEPT !.scanning = FALSE, !.scanned = TRUE, !.of = s.folder,
                             !.entries = [i \in 1..Len(Found[s.folder]) |-> Unmapped(Found[s.folder][i])]])
     \/ Shows([editor EXCEPT !.scanning = FALSE, !.scanned = FALSE, !.of = s.folder, !.entries = <<>>])
  /\ UNCHANGED <<projects, granted, commands, export, used, deleted>>

-----------------------------------------------------------------------------
(* Entries *)
Edits(entries) ==
  /\ editor # None /\ Uses("edits") /\ Shows([editor EXCEPT !.entries = entries])
  /\ UNCHANGED <<projects, granted, scans, commands, export, deleted>>

addEntry == isEditing /\ Edits(Append(editor.entries, Unmapped(None)))

removeEntry(i) == isEditing /\ Edits(RemoveAt(editor.entries, i))

updateEntry(i, e) == Edits([editor.entries EXCEPT ![i] = e])

Reviewed == isCreating /\ editor.path # None

EditEntry(i) ==
  LET e == editor.entries[i] IN
  \/ isEditing /\ \E k \in Keys : updateEntry(i, [e EXCEPT !.key = k])
  \/ /\ isEditing \/ Reviewed
     /\ \E f \in Fields \cup {None} : updateEntry(i, [e EXCEPT !.field = f, !.id = f])
  \/ Reviewed /\ Mapped(e) /\ updateEntry(i, [e EXCEPT !.field = None])

\* The field that fits the key best takes the place of the field, not of its id.
useReviewSuggestion(i) ==
  /\ Reviewed /\ ~Mapped(editor.entries[i])
  /\ \E f \in Fields : updateEntry(i, [editor.entries[i] EXCEPT !.field = f])

-----------------------------------------------------------------------------
(* Commands *)
Command(kind, p) ==
  [kind |-> kind, project |-> p, path |-> editor.path, entries |-> editor.entries,
   exports |-> IF kind = "create" THEN 0 ELSE projects[p].exports, known |-> projects]

Runs(command) == commands' = Append(commands, command)

\* A new project gets an id of its own.
NewProject == CHOOSE p \in Projects :
  /\ projects[p] = None /\ p \notin deleted
  /\ \A i \in 1..Len(commands) : commands[i].project # p
HasNew == \E p \in Projects :
  /\ projects[p] = None /\ p \notin deleted
  /\ \A i \in 1..Len(commands) : commands[i].project # p

handleCreate ==
  /\ isCreating /\ editor.path # None /\ Waits   \* the Enter key waits for no scan
  /\ HasNew /\ Uses("commands")
  /\ Runs(Command("create", NewProject))
  /\ UNCHANGED <<projects, granted, editor, scans, export, deleted>>

handleSave ==
  /\ isEditing /\ editor.selected \in Existing /\ Uses("commands")
  /\ Runs(Command("save", editor.selected))
  /\ UNCHANGED <<projects, granted, editor, scans, export, deleted>>

handleDelete ==
  /\ isEditing /\ editor.selected \in Existing /\ Uses("commands")
  /\ Runs(Command("delete", editor.selected))
  /\ UNCHANGED <<projects, granted, editor, scans, export, deleted>>

\* The first click asks for the phrase, the second saves what is to be exported.
handleExport ==
  /\ isEditing /\ editor.selected \in Existing /\ ~editor.exporting /\ export = None
  /\ \E i \in 1..Len(editor.entries) : Mapped(editor.entries[i])
  /\ IF ~editor.confirming
     THEN Shows([editor EXCEPT !.confirming = TRUE]) /\ UNCHANGED <<commands, export, used>>
     ELSE /\ Uses("commands") /\ Runs(Command("export", editor.selected))
          /\ Shows([editor EXCEPT !.exporting = TRUE])
          /\ export' = [Command("stamp", editor.selected) EXCEPT !.exports = @ + 1]
  /\ UNCHANGED <<projects, granted, scans, deleted>>

\* exportEnv has written the file or not; then the time of it is stored, with the rest as
\* it was.
ExportEnds ==
  /\ export # None /\ \A i \in 1..Len(commands) : commands[i].kind # "export"
  /\ export' = None
  /\ \/ Runs(export) /\ editor' = editor
     \/ /\ UNCHANGED commands
        /\ editor' = IF editor = None THEN None ELSE [editor EXCEPT !.exporting = FALSE]
  /\ UNCHANGED <<projects, granted, scans, used, deleted>>

-----------------------------------------------------------------------------
(* The main process *)

\* What the contract of the command admits: validateEnvEntryArray.
Admitted(c) == \A i \in 1..Len(c.entries) : Mapped(c.entries[i])

Target(c) == IF c.kind = "create" THEN Create ELSE c.project
IsNewPath(c) == projects[c.project] = None \/ projects[c.project].path # c.path

\* authorizeProjectPathMutation: a new path needs a folder picked for it, which is spent.
Authorized(c) == IsNewPath(c) => <<Target(c), c.path>> \in granted
Spends(c) == granted' = IF IsNewPath(c) THEN granted \ {<<Target(c), c.path>>} ELSE granted

\* Mutant of Applies: what is no longer there is put there.
AppliesAlways(c) == Whole(c.entries)

\* hydrateProjectEntries and the existence of the project.
Applies(c) == Whole(c.entries) /\ (c.kind = "create" \/ projects[c.project] # None)

Hydrated(entries) == [i \in 1..Len(entries) |-> [entries[i] EXCEPT !.id = entries[i].field]]

Stored(c) == [projects EXCEPT ![c.project] =
               [path |-> c.path, entries |-> Hydrated(c.entries), exports |-> c.exports]]

\* What the dialog does with the answer, if it is still there.
Continues(c, done, table) ==
  IF editor = None THEN editor' = None
  ELSE editor' =
    CASE c.kind = "create" /\ done -> selectProject(editor, c.project, c)
      [] c.kind = "delete" /\ done -> selectFirst(editor, [c.known EXCEPT ![c.project] = None])
      [] c.kind = "export" /\ ~done -> [editor EXCEPT !.exporting = FALSE]
      [] c.kind = "stamp" -> [editor EXCEPT !.exporting = FALSE, !.confirming = FALSE]
      [] OTHER -> editor

Commit ==
  LET c == Head(commands) IN
  /\ commands # <<>> /\ commands' = Tail(commands)
  /\ IF c.kind = "delete"
     THEN /\ projects' = [projects EXCEPT ![c.project] = None]
          /\ Continues(c, projects[c.project] # None, projects')
          /\ deleted' = deleted \cup {c.project} /\ UNCHANGED <<granted, export>>
     ELSE LET spent == Admitted(c) /\ Authorized(c)
              done  == spent /\ Applies(c)
          IN /\ IF spent THEN Spends(c) ELSE UNCHANGED granted
             /\ projects' = IF done THEN Stored(c) ELSE projects
             /\ export' = IF c.kind = "export" /\ ~done THEN None ELSE export
             /\ Continues(c, done, projects') /\ UNCHANGED deleted
  /\ UNCHANGED <<scans, used>>

UserStep ==
  \/ \E new \in BOOLEAN : Open(new)
  \/ Close \/ startCreating \/ exitCreateFlow \/ chooseCreateFlow \/ handlePickParentFolder
  \/ \E p \in Projects : Choose(p)
  \/ \E f \in Folders : handlePickFolder(f) \/ selectCandidate(f) \/ handlePickExactProjectFolder(f)
  \/ addEntry
  \/ editor # None /\ \E i \in 1..Len(editor.entries) :
       removeEntry(i) \/ EditEntry(i) \/ useReviewSuggestion(i)
  \/ handleCreate \/ handleSave \/ handleDelete \/ handleExport

Next ==
  /\ cast' = cast
  /\ \/ UserStep \/ Discovered \/ ExportEnds \/ Commit
     \/ \E s \in scans : Scanned(s)

Spec == Init /\ [][Next]_vars

-----------------------------------------------------------------------------
Entries == [key : Keys \cup {None}, field : Fields \cup {None}, id : Fields \cup {None}]

TypeOK ==
  /\ granted \subseteq (Projects \cup {Create}) \X Folders
  /\ \A p \in Existing : projects[p].path \in Folders /\ Range(projects[p].entries) \subseteq Entries
  /\ editor # None => /\ editor.selected \in Projects \cup {None}
                      /\ editor.path \in Folders \cup {None}
                      /\ Range(editor.entries) \subseteq Entries
  /\ \A s \in scans : s.folder \in Folders /\ editor # None
  /\ deleted \subseteq Projects

\* A deleted project stays deleted, though a save or an export of it was under way
\* (vaultCommandMutations.ts:592).
DeletedStays == deleted \cap Existing = {}

\* Every mapping of the document says one field, by its label and by its id, and a key once
\* (vaultCommandMutations.ts:1199-1203).
MappingsAreWhole ==
  \A p \in Existing : Whole(projects[p].entries) /\ \A e \in Range(projects[p].entries) : e.id = e.field

\* What is edited under a project's name is that project's: with the entries of another
\* project or folder a save would replace its mappings (EnvProjectsModal.tsx:649-661).
EntriesAreOfTheProject ==
  isEditing => editor.of = editor.selected

IInv == TypeOK /\ DeletedStays /\ MappingsAreWhole /\ EntriesAreOfTheProject

\* What was saved after the click on Export is not undone by the time of the export.
LaterSaveStays ==
  commands # <<>> /\ commands' = Tail(commands) /\ Head(commands).kind = "stamp" =>
    \A p \in Projects : projects[p] # None /\ projects'[p] # None =>
      projects'[p].entries = projects[p].entries

\* A project whose folder was picked is recorded with the keys found in it, mapped or not.
UnmappedKeysAreRecorded ==
  commands # <<>> /\ Head(commands).kind = "create" /\ commands' = Tail(commands) =>
    LET c == Head(commands) IN
    Authorized(c) /\ Whole(c.entries) => projects'[c.project] # None
===============================================================================
