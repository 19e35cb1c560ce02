-------------------------------- MODULE MenuPanel --------------------------------
(***************************************************************************)
(* The panel of the menu bar (MenuBarPanel.tsx), a window of its own: it   *)
(* searches the vault, copies and shows single fields, and saves what was  *)
(* pasted into it, by calls to the main process (menuPanelIpc.ts), whose   *)
(* vault may be locked at any time.  The user may turn away while a call   *)
(* or a picture is on its way, and what comes then must not be on the      *)
(* screen when the panel is opened again.                                  *)
(*                                                                         *)
(* A text or picture is known by its number: the count of what was pasted. *)
(***************************************************************************)
EXTENDS Naturals, FiniteSets

CONSTANTS Fields,        \* the fields that a search finds
          Queries, Blank, \* what may be searched for, and the empty query
          None,
          Casts          \* bounds: what the user does in a behaviour, and how often

VARIABLES
  focused, panel, \* the window, and its React state
  due,      \* the search waits for the next letter
  reads,    \* pictures being read
  calls,    \* to the main process, until their answers
  timers,   \* each hides a field
  session,  \* of the main process: odd while the vault is open, even while it is locked
  heard,    \* the last session that an answer came from
  visits, begun, pasted, cast,
  asked,    \* history: the fields asked for since the panel was last cleared
  cleared   \* history: the number of pastes when its draft was last cleared

vars == <<focused, panel, due, reads, calls, timers, session, heard, visits, begun, pasted,
          asked, cleared, cast>>

Locked == [unlocked |-> FALSE, pin |-> FALSE]
\* What a search found: by query and session, or nothing.
NoResults == [of |-> None, session |-> 0]

Init ==
  /\ cast \in Casts /\ focused = FALSE /\ due = FALSE /\ reads = {} /\ timers = {}
  /\ panel = [status |-> Locked, screen |-> "home", query |-> Blank, results |-> NoResults,
              revealed |-> {}, request |-> None, pending |-> None, action |-> FALSE,
              mode |-> "text", name |-> Blank, text |-> 0, image |-> 0, saved |-> FALSE,
              busy |-> FALSE]
  /\ session \in {1, 2} /\ heard = 0
  /\ calls = {[kind |-> "status", id |-> 1, session |-> session, ends |-> FALSE]}
  /\ visits = 0 /\ begun = 1 /\ pasted = 0 /\ asked = {} /\ cleared = 0

unlocked == panel.status.unlocked
Open(s)  == s % 2 = 1

-----------------------------------------------------------------------------
\* A generation is live until the next one.
Overtaken(S) == {[r EXCEPT !.live = FALSE] : r \in S}

FieldCalls == {c \in calls : c.kind \in {"copy", "view"}}

\* Mutant of NewGeneration: what is under way keeps its right to answer.
SameGeneration == calls

NewGeneration == (calls \ FieldCalls) \cup Overtaken(FieldCalls)

Emptied(p) ==
  [p EXCEPT !.screen = "home", !.name = Blank, !.text = 0, !.image = 0, !.saved = FALSE,
            !.revealed = {}, !.request = None]

AskStatus(ends) == [kind |-> "status", id |-> begun + 1, session |-> session, ends |-> ends]

clearSensitivePanelState ==
  /\ panel' = Emptied(panel) /\ calls' = NewGeneration /\ reads' = Overtaken(reads)
  /\ asked' = {} /\ cleared' = pasted

\* The tray shows the panel, which asks for the status.
Focus ==
  /\ ~focused /\ visits < cast.visits /\ begun < cast.calls
  /\ focused' = TRUE /\ visits' = visits + 1
  /\ begun' = begun + 1 /\ calls' = calls \cup {AskStatus(FALSE)}
  /\ UNCHANGED <<panel, reads, timers, session, heard, pasted, asked, cleared>>

\* The window loses the focus, or is hidden: by the user, or around a change of vaults.
Blur ==
  /\ focused /\ focused' = FALSE /\ clearSensitivePanelState
  /\ UNCHANGED <<timers, session, heard, visits, begun, pasted>>

\* Back, Escape or Close; the last is followed by Blur.
goHome ==
  /\ focused /\ clearSensitivePanelState
  /\ UNCHANGED <<focused, timers, session, heard, visits, begun, pasted>>

-----------------------------------------------------------------------------
(* The main process.  It reads the vault for one call after the other; what it answers    *)
(* without reading, because it is locked, comes at any time.                               *)
Ready(c) ==
  Open(c.session) =>
    \A d \in calls : d.kind \in {"status", "search"} /\ Open(d.session) => c.id <= d.id

\* A call that the main process received while it was open succeeds in that session only,
\* and the answers come in the order in which they are sent.
MaySucceed(c) == Open(c.session) /\ heard <= c.session

Ends(c) == heard' = IF c.session > heard THEN c.session ELSE heard

StatusAnswered(c) ==
  /\ c.kind = "status" /\ Ready(c) /\ Ends(c)
  /\ \E pin \in BOOLEAN :
       LET status == IF Open(c.session) THEN [unlocked |-> TRUE, pin |-> pin] ELSE Locked
           p == [panel EXCEPT !.status = status, !.busy = @ /\ ~c.ends]
       IN IF status.unlocked
          THEN /\ panel' = p /\ calls' = calls \ {c} /\ UNCHANGED <<reads, asked, cleared>>
          ELSE /\ panel' = [Emptied(p) EXCEPT !.results = NoResults]
               /\ calls' = NewGeneration \ {c} /\ reads' = Overtaken(reads)
               /\ asked' = {} /\ cleared' = pasted
  /\ UNCHANGED <<focused, timers, session, visits, begun, pasted>>

LockOrUnlock ==
  /\ session < cast.sessions /\ session' = session + 1
  /\ UNCHANGED <<focused, panel, reads, calls, timers, heard, visits, begun, pasted, asked, cleared>>

\* The lock, or an action that has no part in the panel; one at a time.
runPanelAction(action) ==
  /\ focused /\ panel.screen = "home" /\ ~panel.action /\ begun < cast.calls
  /\ action = "lock" => unlocked
  /\ panel' = [panel EXCEPT !.action = TRUE] /\ begun' = begun + 1
  /\ calls' = calls \cup {[kind |-> action, id |-> begun', session |-> session]}
  /\ UNCHANGED <<focused, reads, timers, session, heard, visits, pasted, asked, cleared>>

\* A lock has cleared the key when it is answered, and the status is asked for again.
ActionAnswered(c) ==
  /\ c.kind \in {"lock", "openApp"}
  /\ session' = IF c.kind = "lock" /\ Open(session) THEN session + 1 ELSE session
  /\ heard' = session'
  /\ panel' = [panel EXCEPT !.action = FALSE] /\ begun' = begun + 1
  /\ calls' = (calls \ {c}) \cup {[AskStatus(FALSE) EXCEPT !.session = session']}
  /\ UNCHANGED <<focused, reads, timers, visits, pasted, asked, cleared>>

-----------------------------------------------------------------------------
(* The search. *)
Shows(p) ==
  /\ focused /\ panel' = p
  /\ UNCHANGED <<focused, timers, session, heard, visits, asked>>

OpenSearch ==
  /\ panel.screen = "home" /\ unlocked /\ Shows([panel EXCEPT !.screen = "search"])
  /\ UNCHANGED <<reads, calls, begun, pasted, cleared>>

TypeQuery(q) ==
  /\ panel.screen = "search" /\ unlocked /\ Shows([panel EXCEPT !.query = q])
  /\ UNCHANGED <<reads, calls, begun, pasted, cleared>>

\* Mutant of SearchDependsOn: the screen is not what a search depends on.
SearchDependsOnQuery(p) == <<p.query, p.status.unlocked>>

\* A search begins again when one of these is another.
SearchDependsOn(p) == <<p.query, p.screen, p.status.unlocked>>

\* What React does after a step.
Rerendered ==
  due' = IF SearchDependsOn(panel') = SearchDependsOn(panel) THEN due
         ELSE panel'.status.unlocked /\ panel'.screen = "search"

SearchTimer ==
  /\ due /\ begun < cast.calls /\ due' = FALSE /\ begun' = begun + 1
  /\ calls' = calls \cup {[kind |-> "search", id |-> begun', query |-> panel.query,
                           session |-> session]}
  /\ UNCHANGED <<focused, panel, reads, timers, session, heard, visits, pasted, asked, cleared>>

\* Found, or nothing because the vault is locked or cannot be read.
SearchAnswered(c) ==
  /\ c.kind = "search" /\ Ready(c) /\ Ends(c) /\ calls' = calls \ {c}
  /\ \E found \in {NoResults} \cup (IF MaySucceed(c) THEN {[of |-> c.query, session |-> c.session]}
                                    ELSE {}) :
       panel' = [panel EXCEPT !.results = found]
  /\ UNCHANGED <<focused, reads, timers, session, visits, begun, pasted, asked, cleared>>

-----------------------------------------------------------------------------
(* One field of a result. *)
runFieldAction(p, action, f) ==
  /\ begun < cast.calls /\ begun' = begun + 1
  /\ focused /\ panel' = [p EXCEPT !.pending = [action |-> action, field |-> f]]
  /\ calls' = calls \cup {[kind |-> action, id |-> begun', field |-> f, live |-> TRUE,
                           session |-> session]}
  /\ asked' = asked \cup {f}
  /\ UNCHANGED <<focused, reads, timers, session, heard, visits, pasted, cleared>>

Searching == panel.screen = "search" /\ unlocked /\ panel.pending = None

requestFieldAction(action, f) ==
  /\ Searching /\ panel.results # NoResults
  /\ IF action = "view" /\ f \in panel.revealed
     THEN /\ Shows([panel EXCEPT !.revealed = @ \ {f}])
          /\ UNCHANGED <<reads, calls, begun, pasted, cleared>>
     ELSE IF panel.status.pin
     THEN /\ Shows([panel EXCEPT !.request = [action |-> action, field |-> f, pin |-> FALSE]])
          /\ UNCHANGED <<reads, calls, begun, pasted, cleared>>
     ELSE runFieldAction(panel, action, f)

\* The PIN is typed, or the request withdrawn.
EditRequest ==
  /\ Searching /\ panel.request # None
  /\ \E request \in {None, [panel.request EXCEPT !.pin = TRUE]} :
       Shows([panel EXCEPT !.request = request])
  /\ UNCHANGED <<reads, calls, begun, pasted, cleared>>

\* With the PIN or with Touch ID.
RunRequest ==
  /\ Searching /\ panel.request # None
  /\ runFieldAction(panel, panel.request.action, panel.request.field)

FieldAnswered(c) ==
  /\ c.kind \in {"copy", "view"} /\ calls' = calls \ {c} /\ Ends(c)
  /\ LET p == IF panel.pending = [action |-> c.kind, field |-> c.field]
              THEN [panel EXCEPT !.pending = None] ELSE panel
     IN \/ panel' = p /\ UNCHANGED timers
        \/ /\ c.live /\ MaySucceed(c)
           /\ IF c.kind = "copy" THEN panel' = [p EXCEPT !.request = None] /\ UNCHANGED timers
              ELSE /\ panel' = [p EXCEPT !.request = None, !.revealed = @ \cup {c.field}]
                   /\ timers' = timers \cup {[id |-> c.id, field |-> c.field]}
  /\ UNCHANGED <<focused, reads, session, visits, begun, pasted, asked, cleared>>

\* After fifteen seconds; the timer of an earlier view hides a later one, too.
TimerFires(t) ==
  /\ timers' = timers \ {t} /\ panel' = [panel EXCEPT !.revealed = @ \ {t.field}]
  /\ UNCHANGED <<focused, reads, calls, session, heard, visits, begun, pasted, asked, cleared>>

-----------------------------------------------------------------------------
(* The quick addition. *)
NoDraft(p) == [p EXCEPT !.name = Blank, !.text = 0, !.image = 0, !.saved = FALSE]

openQuickAdd(mode) ==
  /\ panel.screen = "home" /\ unlocked
  /\ Shows([NoDraft(panel) EXCEPT !.mode = mode, !.screen = "add"])
  /\ reads' = Overtaken(reads) /\ cleared' = pasted /\ UNCHANGED <<calls, begun, pasted>>

ClearDraft ==
  /\ panel.screen = "add" /\ Shows(NoDraft(panel))
  /\ reads' = Overtaken(reads) /\ cleared' = pasted /\ UNCHANGED <<calls, begun, pasted>>

\* From text to picture the text stays, from picture to text the picture goes.
ChooseMode(mode) ==
  /\ panel.screen = "add"
  /\ Shows([panel EXCEPT !.mode = mode, !.saved = FALSE, !.image = IF mode = "text" THEN 0 ELSE @])
  /\ reads' = Overtaken(reads) /\ UNCHANGED <<calls, begun, pasted, cleared>>

TypeName(q) ==
  /\ panel.screen = "add" /\ Shows([panel EXCEPT !.name = q])
  /\ UNCHANGED <<reads, calls, begun, pasted, cleared>>

PasteText ==
  /\ panel.screen = "add" /\ panel.mode = "text" /\ pasted < cast.pasted
  /\ pasted' = pasted + 1 /\ Shows([panel EXCEPT !.text = pasted', !.saved = FALSE])
  /\ UNCHANGED <<reads, calls, begun, cleared>>

handleImagePaste ==
  /\ panel.screen = "add" /\ panel.mode = "image" /\ pasted < cast.pasted
  /\ pasted' = pasted + 1 /\ Shows(panel)
  /\ reads' = Overtaken(reads) \cup {[of |-> pasted', live |-> TRUE]}
  /\ UNCHANGED <<calls, begun, cleared>>

\* Mutant of isCurrent: a picture that was read is taken.
isCurrentAlways(r) == TRUE

isCurrent(r) == r.live

\* The picture is read, or cannot be.
ImageRead(r) ==
  /\ reads' = reads \ {r}
  /\ panel' \in {panel} \cup (IF isCurrent(r) THEN {[panel EXCEPT !.image = r.of, !.saved = FALSE]}
                              ELSE {})
  /\ UNCHANGED <<focused, calls, timers, session, heard, visits, begun, pasted, asked, cleared>>

saveQuickAdd ==
  /\ panel.screen = "add" /\ unlocked /\ ~panel.busy /\ begun < cast.calls
  /\ (IF panel.mode = "text" THEN panel.text ELSE panel.image) # 0
  /\ begun' = begun + 1 /\ Shows([panel EXCEPT !.busy = TRUE, !.saved = FALSE])
  /\ calls' = calls \cup {[kind |-> "create", id |-> begun', name |-> panel.name,
                           of |-> IF panel.mode = "text" THEN panel.text ELSE panel.image,
                           session |-> session]}
  /\ UNCHANGED <<reads, pasted, cleared>>

\* It is saved, and the next search is for it; or it is not, and the draft stays.
CreateAnswered(c) ==
  /\ c.kind = "create" /\ Ends(c)
  /\ \/ /\ panel' = [panel EXCEPT !.busy = FALSE] /\ calls' = calls \ {c} /\ UNCHANGED begun
     \/ /\ MaySucceed(c)
        /\ panel' = [NoDraft(panel) EXCEPT !.saved = TRUE, !.query = c.name]
        /\ begun' = begun + 1 /\ calls' = (calls \ {c}) \cup {AskStatus(TRUE)}
  /\ UNCHANGED <<focused, reads, timers, session, visits, pasted, asked, cleared>>

-----------------------------------------------------------------------------
Does(what) == what \in cast.does

UserStep ==
  \/ Focus \/ Blur \/ goHome
  \/ OpenSearch
  \/ Does("search") /\ \E q \in Queries : TypeQuery(q)
  \/ Does("fields") /\ \/ EditRequest \/ RunRequest
                       \/ \E a \in {"copy", "view"}, f \in Fields : requestFieldAction(a, f)
  \/ Does("add") /\ \/ ClearDraft \/ PasteText \/ handleImagePaste \/ saveQuickAdd
                    \/ \E m \in {"text", "image"} : openQuickAdd(m) \/ ChooseMode(m)
                    \/ \E q \in Queries : TypeName(q)
  \/ Does("act") /\ \E a \in {"lock", "openApp"} : runPanelAction(a)

Answer ==
  \/ \E c \in calls : \/ StatusAnswered(c) \/ ActionAnswered(c) \/ SearchAnswered(c)
                      \/ FieldAnswered(c) \/ CreateAnswered(c)
  \/ \E r \in reads : ImageRead(r)
  \/ \E t \in timers : TimerFires(t)

Next ==
  /\ cast' = cast
  /\ \/ (UserStep \/ Answer \/ LockOrUnlock) /\ Rerendered
     \/ SearchTimer

Spec == Init /\ [][Next]_vars

-----------------------------------------------------------------------------
(* Properties. *)

FieldActions == {"copy", "view"}
Requests == [action : FieldActions, field : Fields, pin : BOOLEAN]
Pendings == [action : FieldActions, field : Fields]
Panels ==
  [status : [unlocked : BOOLEAN, pin : BOOLEAN], screen : {"home", "search", "add"},
   query : Queries, results : [of : Queries \cup {None}, session : Nat],
   revealed : SUBSET Fields, request : Requests \cup {None}, pending : Pendings \cup {None},
   action : BOOLEAN, mode : {"text", "image"}, name : Queries, text : Nat, image : Nat,
   saved : BOOLEAN, busy : BOOLEAN]
Calls ==
  [kind : {"status"}, id : Nat, session : Nat, ends : BOOLEAN]
  \cup [kind : {"lock", "openApp"}, id : Nat, session : Nat]
  \cup [kind : {"search"}, id : Nat, query : Queries, session : Nat]
  \cup [kind : FieldActions, id : Nat, field : Fields, live : BOOLEAN, session : Nat]
  \cup [kind : {"create"}, id : Nat, name : Queries, of : Nat, session : Nat]

\* The state is well typed, and calls are begun and sent in the order of their numbers.
TypeOK ==
  /\ focused \in BOOLEAN /\ due \in BOOLEAN /\ panel \in Panels
  /\ {begun, pasted, cleared, session, heard} \subseteq Nat /\ cleared <= pasted
  /\ reads \subseteq [of : Nat, live : BOOLEAN] /\ timers \subseteq [id : Nat, field : Fields]
  /\ calls \subseteq Calls /\ asked \subseteq Fields /\ heard <= session
  /\ \A c \in calls : c.id <= begun /\ c.session <= session
  /\ \A c, d \in calls : c.id < d.id => c.session <= d.session

\* A panel that is not in front, or that knows its vault to be locked, holds no value, no
\* PIN and no draft, whatever was on its way (MenuBarPanel.tsx:157).
NothingLeft ==
  ~focused \/ ~unlocked =>
    /\ panel.screen = "home" /\ panel.revealed = {} /\ panel.request = None
    /\ panel.text = 0 /\ panel.image = 0 /\ panel.name = Blank

\* What is shown was asked for since the panel was last cleared, and a timer will hide it
\* (MenuBarPanel.tsx:331).
RevealsExpire ==
  panel.revealed \subseteq asked \cap {t.field : t \in timers}

\* A draft was pasted since the panel or the form was last cleared (MenuBarPanel.tsx:385).
DraftIsRecent == {panel.text, panel.image} \subseteq {0} \cup cleared + 1..pasted

\* Once the searches are answered the results are those of the query in the field
\* (MenuBarPanel.tsx:240).
ResultsOfTheQuery ==
  /\ panel.screen = "search" /\ ~due /\ \A c \in calls : c.kind # "search"
  => panel.results.of \in {None, panel.query}

(* Why they hold.  What may still be heard of fields and pictures was asked for on this *)
(* panel, since it was cleared.                                                         *)
LiveIsOfThisPanel ==
  /\ \A c \in FieldCalls : c.live => focused /\ unlocked /\ c.field \in asked
  /\ \A r \in reads : r.live => focused /\ unlocked /\ cleared < r.of /\ r.of <= pasted

\* While a search of another query may still be heard, or left its results, one of the
\* query in the field is on its way, and is answered after it.
Later(c) == \E d \in calls : d.kind = "search" /\ d.id > c.id /\ d.query = panel.query
SearchesCatchUp ==
  panel.screen = "search" /\ ~due =>
    /\ \A c \in calls : c.kind = "search" /\ MaySucceed(c) /\ c.query # panel.query => Later(c)
    /\ panel.results.of \in {None, panel.query}
         \/ \E d \in calls : d.kind = "search" /\ d.query = panel.query

IInv == /\ TypeOK /\ NothingLeft /\ RevealsExpire /\ DraftIsRecent /\ ResultsOfTheQuery
        /\ LiveIsOfThisPanel /\ SearchesCatchUp

\* What the save of an earlier draft ends is not a newer one.
NewDraftStays ==
  \A c \in calls :
    c.kind = "create" /\ c \notin calls' /\ panel'.saved =>
      panel.text \in {0, c.of} /\ panel.image \in {0, c.of}

\* Once the calls are answered the panel knows of a lock it asked for.
StatusIsTheLast ==
  \A c \in calls : c.kind = "status" /\ c \notin calls' /\ panel'.status.unlocked =>
    Open(session) \/ \E d \in calls' : d.kind = "status"
==============================================================================
