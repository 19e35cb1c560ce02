------------------------------ MODULE FieldReveal ------------------------------
(***************************************************************************)
(* A field of the secret on the page (SecretDetail.open.tsx), whose value  *)
(* the renderer shows for thirty seconds (lib/useTransientReveal.ts),      *)
(* beside the call that asks the main process for it (vaultContext.tsx).   *)
(*                                                                         *)
(* React keeps the component of a row when another secret, or another      *)
(* version of this one, is put on the page: only the row's identity is     *)
(* another one then, with its first rendering, and the effects run later.  *)
(***************************************************************************)
EXTENDS Naturals

CONSTANTS Identities,  \* a secret, its version and the field
          None,
          MaxAsked, MaxChanges, MaxSessions \* bounds

VARIABLES
  row,       \* the mounted component: its identity, and whether its effects have run
  hidden,    \* document.visibilityState
  revealed,  \* the value React keeps, or None: whose it is and the attempt it answers
  timer,     \* the attempt of the timeout that is pending, or None
  calls,     \* attempts between the click and their answer
  session,   \* of RendererVaultSessionGuard
  asked, changes, \* counts: clicks and identities
  revoked    \* history: asked when the page was last left, or its row became another

vars == <<row, hidden, revealed, timer, calls, session, asked, changes, revoked>>

Init ==
  /\ row = None /\ hidden = FALSE /\ revealed = None /\ timer = None
  /\ calls = {} /\ session = 1 /\ asked = 0 /\ changes = 0 /\ revoked = 0

\* What the row renders: a value of another identity is not.
value == IF row # None /\ revealed # None /\ revealed.identity = row.identity
         THEN revealed ELSE None

-----------------------------------------------------------------------------
(* useTransientReveal *)

mask  == revealed' = None /\ timer' = None

\* TransientRevealGate: attempts have a generation, and one is live while it is the gate's.
Overtaken(attempt) == IF attempt = None THEN None ELSE [attempt EXCEPT !.live = FALSE]
OvertakenAll == {Overtaken(c) : c \in calls}

clear == mask /\ calls' = OvertakenAll

\* Mutants of isCurrent: identities are compared only, or generations only.
isCurrentByIdentity(attempt, identity) == attempt.identity = identity
isCurrentAlways(attempt, identity) == TRUE

isCurrent(attempt, identity) == attempt.identity = identity /\ attempt.live

\* The first render of another identity.
Mount(identity) ==
  /\ row = None /\ changes < MaxChanges
  /\ row' = [identity |-> identity, settled |-> TRUE] /\ changes' = changes + 1
  /\ UNCHANGED <<hidden, revealed, timer, calls, session, asked, revoked>>

\* React runs the effects of one rendering before the next.
Rerender(identity) ==
  /\ row # None /\ row.settled /\ row.identity # identity /\ changes < MaxChanges
  /\ row' = [identity |-> identity, settled |-> FALSE] /\ changes' = changes + 1
  /\ calls' = OvertakenAll /\ timer' = Overtaken(timer) /\ revoked' = asked
  /\ UNCHANGED <<hidden, revealed, session, asked>>

RunEffect ==
  /\ row # None /\ ~row.settled
  /\ row' = [row EXCEPT !.settled = TRUE]
  /\ clear /\ UNCHANGED <<hidden, session, asked, changes, revoked>>

\* Another component takes the row's place; what React kept for it is gone.
leave == row' = None /\ clear /\ revoked' = asked

Unmount ==
  /\ row # None /\ leave
  /\ UNCHANGED <<hidden, session, asked, changes>>

Blur ==
  /\ row # None /\ clear /\ revoked' = asked
  /\ UNCHANGED <<row, hidden, session, asked, changes>>

Hide ==
  /\ ~hidden /\ hidden' = TRUE
  /\ IF row = None THEN UNCHANGED <<revealed, timer, calls>> ELSE clear
  /\ revoked' = asked
  /\ UNCHANGED <<row, session, asked, changes>>

Show ==
  /\ hidden /\ hidden' = FALSE
  /\ UNCHANGED <<row, revealed, timer, calls, session, asked, changes, revoked>>

TimerFires ==
  /\ timer # None /\ row # None
  /\ IF isCurrent(timer, row.identity) THEN clear ELSE timer' = None /\ UNCHANGED <<revealed, calls>>
  /\ UNCHANGED <<row, hidden, session, asked, changes, revoked>>

-----------------------------------------------------------------------------
(* FieldRow, ImageField and revealSecretField, revealSecretImageField *)

\* The toggle of a row that shows its value.
HideValue ==
  /\ value # None /\ clear
  /\ UNCHANGED <<row, hidden, session, asked, changes, revoked>>

\* Mutant of maskFirst: the last value stays while the next is asked for.
maskNot == revealed' = revealed /\ timer' = Overtaken(timer)

maskFirst == mask

\* The click may be on a rendering from before the last answer.
reveal ==
  /\ row # None /\ asked < MaxAsked
  /\ maskFirst
  /\ asked' = asked + 1
  /\ calls' = OvertakenAll \cup
       {[number |-> asked + 1, identity |-> row.identity, live |-> TRUE,
         session |-> session, at |-> "confirm"]}
  /\ UNCHANGED <<row, hidden, session, changes, revoked>>

\* The promise that reveal awaits: the value, or null.
Resolves(c, result) ==
  LET heard == row # None /\ result # None /\ isCurrent(c, row.identity) /\ ~hidden IN
  /\ calls' = calls \ {c}
  /\ IF heard THEN revealed' = result /\ timer' = c ELSE UNCHANGED <<revealed, timer>>
  /\ UNCHANGED <<row, hidden, session, asked, changes, revoked>>

\* requestSecretRevealConfirmation: a dialog of the renderer's, which stays when the
\* page is left or locked, or on macOS nothing.
Confirm(c) ==
  /\ c.at = "confirm" /\ c.session = session
  /\ calls' = (calls \ {c}) \cup {[c EXCEPT !.at = "main"]}
  /\ UNCHANGED <<row, hidden, revealed, timer, session, asked, changes, revoked>>

Refuse(c) == c.at = "confirm" /\ Resolves(c, None)

\* The main process answers; a value of a session that is over is dropped.
Answer(c) ==
  /\ c.at = "main"
  /\ \/ c.session = session /\ Resolves(c, [identity |-> c.identity, of |-> c.number, session |-> c.session])
     \/ Resolves(c, None)

\* RendererVaultSessionGuard.end and begin: the page is left, for the sign-in's.
Lock ==
  /\ session < MaxSessions /\ session' = session + 1
  /\ row' = None /\ clear /\ revoked' = asked
  /\ UNCHANGED <<hidden, asked, changes>>

Next ==
  \/ \E i \in Identities : Mount(i) \/ Rerender(i)
  \/ RunEffect \/ Unmount \/ Blur \/ Hide \/ Show \/ TimerFires
  \/ HideValue \/ reveal
  \/ \E c \in calls : Confirm(c) \/ Refuse(c) \/ Answer(c)
  \/ Lock

Spec == Init /\ [][Next]_vars

-----------------------------------------------------------------------------
Attempts == [number : 1..MaxAsked, identity : Identities, live : BOOLEAN,
             session : 1..MaxSessions, at : {"confirm", "main"}]

Rows   == [identity : Identities, settled : BOOLEAN]
Values == [identity : Identities, of : 1..MaxAsked, session : 1..MaxSessions]

TypeOK ==
  /\ row \in Rows \cup {None}
  /\ hidden \in BOOLEAN /\ session \in 1..MaxSessions
  /\ revealed \in Values \cup {None}
  /\ timer \in Attempts \cup {None}
  /\ calls \subseteq Attempts
  /\ asked \in 0..MaxAsked /\ changes \in 0..MaxChanges /\ revoked \in 0..asked

\* A value on the page is going to be hidden: the timeout that does so is pending and is
\* the value's own, whatever was asked for after it (useTransientReveal.ts:82-84).
ValueExpires ==
  value # None => timer # None /\ timer.number = value.of /\ isCurrent(timer, row.identity)

\* A value on the page was asked for on this page: after the window was last left, hidden,
\* locked or given to another secret, for the field that is shown now and in the session
\* that is open (useTransientReveal.ts:45-49, :88-95).
ValueIsOfThisVisit ==
  value # None => /\ value.of > revoked
                  /\ value.session = session

\* Plaintext of a secret that is not on the page is at most what one effect still has to
\* clear.
NothingKept == revealed # None => row # None /\ (value # None \/ ~row.settled)

\* An attempt that may still answer was made on this page: leaving it overtakes them all.
LiveIsOfThisPage == \A c \in calls : c.live => row # None /\ c.number > revoked

IInv == TypeOK /\ ValueExpires /\ ValueIsOfThisVisit /\ NothingKept /\ LiveIsOfThisPage
===============================================================================
