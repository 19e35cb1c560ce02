---------------------------- MODULE RendererSession ----------------------------
(***************************************************************************)
(* What the renderer shows (renderer/src/vaultContext.tsx) beside the      *)
(* session that the main process has: sign-in, lock, sign-out, the change  *)
(* of the active vault, commands and published changes, over the two       *)
(* channels between them.  Each channel keeps the order of what is sent.   *)
(*                                                                         *)
(* A call is a record that carries what its continuation in the renderer   *)
(* holds; it goes through inbox, main and wire and comes back as its       *)
(* answer.  A vault is its number, its document a revision.                *)
(***************************************************************************)
EXTENDS Naturals, Sequences

CONSTANTS None,
          MaxVaults,      \* bound: vaults
          Settings        \* how much of each a behaviour may have

VARIABLES
  setting,
  inbox, wire,                \* calls and answers or events, in their order
  main,                       \* handlers that run
  open, session, invalidating,\* vaultSession: a key, its epoch, a lock that waits
  tails,                      \* locks whose end will tell the renderer
  leaving,                    \* sign-outs that wait for their lock
  over,                       \* the application quits
  active, rev, revision,      \* the active vault, the documents, the collection
  receipts,                   \* operations of the collection that were committed
  epoch, unlocked,            \* RendererVaultSessionGuard
  screen, view, coll,         \* what the renderer shows
  used                        \* by kind: how much of it the behaviour had

channels   == <<inbox, wire>>
mainState  == <<main, open, session, invalidating, tails, leaving, over>>
documents  == <<active, rev, revision, receipts>>
guard      == <<epoch, unlocked>>
shown      == <<screen, view, coll>>
vars == <<setting, channels, mainState, documents, guard, shown, used>>

Vaults == 1..MaxVaults
Kinds  == {"unlock", "idle", "signOut", "edit", "command", "change", "fault"}

View(v)    == [vault |-> v, rev |-> rev[v]]
Collection == [revision |-> revision, active |-> active]
Existing   == {v \in Vaults : rev[v] > 0}

Views       == [vault : Vaults, rev : Nat]
Collections == [revision : Nat, active : Vaults]

IsSequence(s) == s \in Seq({s[i] : i \in DOMAIN s})

TypeOK ==
  /\ setting \in Settings
  /\ IsSequence(inbox) /\ IsSequence(wire)
  /\ open \in BOOLEAN /\ invalidating \in BOOLEAN /\ over \in BOOLEAN /\ unlocked \in BOOLEAN
  /\ session \in Nat /\ tails \in Nat /\ epoch \in Nat /\ revision \in Nat
  /\ rev \in [Vaults -> Nat] /\ active \in Existing
  /\ DOMAIN receipts \subseteq 1..used["change"]
  /\ \A n \in DOMAIN receipts : receipts[n] \in Collections
  /\ screen \in {"locked", "unlocked"}
  /\ view \in Views \cup {None}
  /\ coll \in Collections \cup {None}
  /\ used \in [Kinds -> Nat] /\ \A k \in Kinds : used[k] <= setting[k]

\* Two vaults, the renderer has found out that it is locked.
Init ==
  /\ setting \in Settings
  /\ inbox = <<>> /\ wire = <<>> /\ main = {}
  /\ open = FALSE /\ session = 0 /\ invalidating = FALSE /\ tails = 0
  /\ leaving = {} /\ over = FALSE
  /\ active = 1 /\ rev = [v \in Vaults |-> IF v <= 2 THEN 1 ELSE 0] /\ revision = 1
  /\ receipts = <<>>
  /\ epoch = 0 /\ unlocked = FALSE
  /\ screen = "locked" /\ view = None /\ coll = None
  /\ used = [k \in Kinds |-> 0]

-----------------------------------------------------------------------------
Uses(k) == used[k] < setting[k] /\ used' = [used EXCEPT ![k] = @ + 1]

Sends(call) == inbox' = Append(inbox, call)
Says(messages) == wire' = wire \o messages
NoTalk == UNCHANGED channels

Main     == UNCHANGED <<mainState, documents>>
Renderer == UNCHANGED <<guard, shown>>

\* RendererVaultScope
Scope           == [epoch |-> epoch, vault |-> view.vault]
MayCapture      == view # None /\ unlocked
isCurrent(e)    == unlocked /\ e = epoch
ScopeCurrent(s) == view # None /\ view.vault = s.vault /\ isCurrent(s.epoch)

-----------------------------------------------------------------------------
(* The user *)

begin == epoch' = epoch + 1 /\ unlocked' = TRUE
end   == epoch' = epoch + 1 /\ unlocked' = FALSE

\* Set-up, password, Touch ID, recovery with the kit, also from a backup.  Several
\* attempts may be on their way.
Authenticate ==
  /\ screen = "locked" /\ Uses("unlock")
  /\ Sends([kind |-> "auth", epoch |-> epoch])
  /\ UNCHANGED <<setting, wire>> /\ Main /\ Renderer

locks ==
  /\ end
  /\ screen' = "locked" /\ view' = None /\ coll' = None
  /\ Sends([kind |-> "lock"])

lock ==
  /\ screen = "unlocked"
  /\ locks
  /\ UNCHANGED <<setting, wire, used>> /\ Main

signOut ==
  /\ screen = "unlocked" /\ Uses("signOut")
  /\ end
  /\ Sends([kind |-> "signOut", epoch |-> epoch + 1])
  /\ UNCHANGED <<setting, wire, shown>> /\ Main

runVaultCommand ==
  /\ MayCapture /\ Uses("command")
  /\ Sends([kind |-> "mutate", epoch |-> epoch, expected |-> view.rev])
  /\ UNCHANGED <<setting, wire>> /\ Main /\ Renderer

\* A list of the vaults, and what is done with it: nothing, installing the vault of a
\* switch event, or a change of the collection.
Lists(scope, next) == [kind |-> "list", scope |-> scope, next |-> next]
Changes(scope, c, expected, again) ==
  [kind |-> "change", scope |-> scope, op |-> c.op, target |-> c.target, id |-> c.id,
   expected |-> expected, again |-> again]
Nothing            == [op |-> "none"]

captureVaultCollectionMutation ==
  /\ MayCapture /\ Uses("change")
  /\ \E op \in {"create", "rename", "switch"}, v \in Existing :
       /\ op # "switch" => v = active
       /\ Sends(Lists(Scope, [op |-> op, target |-> v, id |-> used["change"] + 1]))
  /\ UNCHANGED <<setting, wire>> /\ Main /\ Renderer

-----------------------------------------------------------------------------
(* The main process *)

Taken == inbox' = Tail(inbox)
Call  == Head(inbox)
Turn(kind) == inbox # <<>> /\ Call.kind = kind /\ ~over

\* A lock waits for the handlers that run, and lets none begin.
Starts(handler) ==
  /\ main' = main \cup {handler}
  /\ UNCHANGED <<open, session, invalidating, tails, leaving, over>>
MayStart == open /\ ~invalidating

Ends(h) ==
  /\ main' = main \ {h}
  /\ invalidating' = (invalidating /\ main' # {})

lockVault(others) ==
  /\ open' = FALSE
  /\ session' = session + 1
  /\ main' = others
  /\ invalidating' = (others # {})

\* Of a handler that ends, beside its answer.
AnswersOnly ==
  UNCHANGED <<setting, inbox, open, session, tails, leaving, over, used>> /\ Renderer

Current(h) == h.session = session /\ ~invalidating

Failed(call) == [kind |-> call.kind, call |-> call, result |-> "failed"]

TakeAuth ==
  /\ Turn("auth") /\ Taken
  /\ IF invalidating
     THEN Says(<<Failed(Call)>>) /\ UNCHANGED mainState
     ELSE Starts([at |-> "auth", session |-> session, call |-> Call]) /\ UNCHANGED wire
  /\ UNCHANGED <<setting, documents, used>> /\ Renderer

\* installKey, and the answer; a wrong password or a session that changed fails.
Authenticated(h) ==
  /\ h \in main /\ h.at = "auth"
  /\ Ends(h)
  /\ \/ /\ Current(h)
        /\ open' = TRUE /\ session' = session + 1
        /\ Says(<<[kind |-> "auth", call |-> h.call, result |-> "ok", view |-> View(active)]>>)
     \/ /\ Says(<<Failed(h.call)>>)
        /\ UNCHANGED <<open, session>>
  /\ UNCHANGED <<setting, inbox, tails, leaving, over, documents, used>> /\ Renderer

TakeLock ==
  /\ Turn("lock") /\ Taken
  /\ lockVault(main)
  /\ UNCHANGED <<setting, wire, tails, leaving, over, documents, used>> /\ Renderer

\* The idle check or the menu panel locks.
LockHere ==
  /\ open /\ ~over /\ Uses("idle")
  /\ lockVault(main)
  /\ tails' = tails + 1
  /\ NoTalk /\ UNCHANGED <<setting, leaving, over, documents>> /\ Renderer

LockTail ==
  /\ tails > 0 /\ ~invalidating
  /\ tails' = tails - 1
  /\ Says(<<[kind |-> "autoLock"]>>)
  /\ UNCHANGED <<setting, inbox, main, open, session, invalidating, leaving, over>>
  /\ UNCHANGED <<documents, used>> /\ Renderer

\* The Keychain refuses to forget, or the vault is locked ...
TakeSignOut ==
  /\ Turn("signOut") /\ Taken
  /\ \/ /\ Says(<<Failed(Call)>>)
        /\ UNCHANGED mainState
     \/ /\ lockVault(main)
        /\ leaving' = leaving \cup {Call}
        /\ UNCHANGED <<wire, tails, over>>
  /\ UNCHANGED <<setting, documents, used>> /\ Renderer

\* ... and the application quits.
SignedOut(call) ==
  /\ ~invalidating
  /\ leaving' = leaving \ {call}
  /\ over' = TRUE
  /\ Says(<<[kind |-> "signOut", call |-> call, result |-> "ok"]>>)
  /\ UNCHANGED <<setting, inbox, main, open, session, invalidating, tails, documents, used>>
  /\ Renderer

TakeMutate ==
  /\ Turn("mutate") /\ Taken
  /\ IF MayStart
     THEN Starts([at |-> "mutate", session |-> session, call |-> Call]) /\ UNCHANGED wire
     ELSE Says(<<Failed(Call)>>) /\ UNCHANGED mainState
  /\ UNCHANGED <<setting, documents, used>> /\ Renderer

Changed(v, r) == [kind |-> "changed", view |-> [vault |-> v, rev |-> r]]

Mutated(h) ==
  LET answer(result) == [kind |-> "mutate", call |-> h.call, result |-> result,
                         view |-> [vault |-> active, rev |-> rev'[active]]] IN
  /\ h \in main /\ h.at = "mutate"
  /\ Ends(h)
  /\ \/ /\ Current(h) /\ h.call.expected = rev[active]
        /\ rev' = [rev EXCEPT ![active] = @ + 1]
        /\ Says(<<Changed(active, rev[active] + 1), answer("ok")>>)
     \/ /\ Current(h) /\ h.call.expected # rev[active]
        /\ UNCHANGED rev
        /\ Says(<<answer("stale")>>)
     \/ /\ ~Current(h)
        /\ UNCHANGED rev
        /\ Says(<<Failed(h.call)>>)
  /\ AnswersOnly /\ UNCHANGED <<active, revision, receipts>>

\* The menu panel, a usage flush or a reveal PIN changes the document.
Edited ==
  /\ MayStart /\ Uses("edit")
  /\ rev' = [rev EXCEPT ![active] = @ + 1]
  /\ Says(<<Changed(active, rev[active] + 1)>>)
  /\ UNCHANGED <<setting, inbox, mainState, active, revision, receipts>> /\ Renderer

TakeList ==
  /\ Turn("list") /\ Taken
  /\ Says(<<IF MayStart
            THEN [kind |-> "list", call |-> Call, result |-> "ok", coll |-> Collection]
            ELSE Failed(Call)>>)
  /\ UNCHANGED <<setting, mainState, documents, used>> /\ Renderer

\* Only a switch to another vault, or a creation, ends the present scope.
Rotates(c) == c.op = "create" \/ (c.op = "switch" /\ c.target # active)

TakeChange ==
  /\ Turn("change") /\ Taken
  /\ IF MayStart
     THEN LET s == IF Rotates(Call) THEN session + 1 ELSE session IN
          /\ session' = s
          /\ main' = main \cup {[at |-> "change", session |-> s, call |-> Call]}
          /\ UNCHANGED <<open, invalidating, tails, leaving, over, wire>>
     ELSE Says(<<Failed(Call)>>) /\ UNCHANGED mainState
  /\ UNCHANGED <<setting, documents, used>> /\ Renderer

\* A switch to the active vault changes nothing.
Result(c) ==
  LET new == CHOOSE v \in Vaults : v \notin Existing IN
  CASE c.op = "create" -> [revision |-> revision + 1, active |-> new]
    [] c.op = "rename" -> [revision |-> revision + 1, active |-> active]
    [] c.op = "switch" /\ c.target = active -> Collection
    [] c.op = "switch" /\ c.target # active -> [revision |-> revision + 1, active |-> c.target]

\* The handler's queued operation: a receipt answers again what was committed, an
\* operation that saw another revision is refused.  A rename is done then; of a switch
\* or a creation the active vault is read next.
ChangeCommits(h) ==
  LET c == h.call  known == c.id \in DOMAIN receipts IN
  /\ h \in main /\ h.at = "change" /\ Current(h)
  /\ known \/ c.expected = revision
  /\ c.op = "create" => known \/ Existing # Vaults
  /\ LET result == IF known THEN receipts[c.id] ELSE Result(c) IN
     /\ IF known
        THEN UNCHANGED documents
        ELSE /\ revision' = result.revision /\ active' = result.active
             /\ receipts' = [n \in DOMAIN receipts \cup {c.id} |->
                             IF n = c.id THEN result ELSE receipts[n]]
             /\ rev' = IF result.active \in Existing THEN rev
                       ELSE [rev EXCEPT ![result.active] = 1]
     /\ IF c.op = "rename"
        THEN /\ Ends(h)
             /\ Says(<<[kind |-> "change", call |-> c, result |-> "ok", coll |-> result,
                        view |-> None]>>)
        ELSE /\ main' = (main \ {h}) \cup
                  {[at |-> "read", session |-> h.session, call |-> c, result |-> result,
                    known |-> known]}
             /\ UNCHANGED <<invalidating, wire>>
  /\ AnswersOnly

ChangeRefused(h) ==
  LET c == h.call IN
  /\ h \in main /\ h.at = "change"
  /\ \/ /\ Current(h) /\ c.id \notin DOMAIN receipts /\ c.expected # revision
        /\ Says(<<[kind |-> "change", call |-> c, result |-> "stale", coll |-> Collection]>>)
     \/ /\ ~Current(h) \/ (c.op = "create" /\ c.id \notin DOMAIN receipts /\ Existing = Vaults)
        /\ Says(<<Failed(c)>>)
  /\ Ends(h)
  /\ AnswersOnly /\ UNCHANGED documents

\* The vault of the result is read, published unless it was before, and answered ...
Snapshot(h) ==
  LET v == View(h.result.active) IN
  /\ h \in main /\ h.at = "read" /\ Current(h)
  /\ Ends(h)
  /\ Says((IF h.known THEN <<>> ELSE <<[kind |-> "switched", view |-> v]>>) \o
          <<[kind |-> "change", call |-> h.call, result |-> "ok", coll |-> h.result,
             view |-> v]>>)
  /\ AnswersOnly /\ UNCHANGED documents

\* ... or cannot be read, or not in this session any more: the vault is locked first.
SnapshotFails(h) ==
  /\ h \in main /\ h.at = "read"
  /\ IF Current(h) THEN Uses("fault") ELSE UNCHANGED used
  /\ lockVault(main \ {h})
  /\ tails' = tails + 1
  /\ Says(<<Failed(h.call)>>)
  /\ UNCHANGED <<setting, inbox, leaving, over, documents>> /\ Renderer

-----------------------------------------------------------------------------
(* The renderer, on an answer or an event *)

Received == wire' = Tail(wire)
Message  == Head(wire)
Event(kind)  == wire # <<>> /\ Message.kind = kind

Unlocks(v) ==
  /\ begin
  /\ screen' = "unlocked" /\ view' = v
  /\ Sends(Lists([epoch |-> epoch + 1, vault |-> v.vault], Nothing))

Ignored == UNCHANGED <<inbox, guard, shown>>

\* Mutant of isAuthAttemptCurrent: the epoch is not compared.
isAuthAttemptCurrentAny(e) == ~unlocked

isAuthAttemptCurrent(e) == ~unlocked /\ e = epoch

\* An attempt that the session has left behind changes nothing.
AuthAnswer ==
  /\ Event("auth") /\ Received
  /\ IF isAuthAttemptCurrent(Message.call.epoch) /\ Message.result = "ok"
     THEN Unlocks(Message.view) /\ UNCHANGED coll
     ELSE Ignored
  /\ UNCHANGED <<setting, used>> /\ Main

\* The main layout, which listens, is shown while unlocked only.
onAutoLock ==
  /\ Event("autoLock") /\ Received
  /\ IF screen = "unlocked" THEN locks ELSE Ignored
  /\ UNCHANGED <<setting, used>> /\ Main

\* Of the present epoch: after a success the application ends, after a failure the same
\* snapshot goes on in a new epoch.
SignOutAnswer ==
  /\ Event("signOut") /\ Received
  /\ IF epoch # Message.call.epoch
     THEN UNCHANGED <<guard, shown>>
     ELSE IF Message.result = "ok"
          THEN screen' = "locked" /\ view' = None /\ coll' = None /\ UNCHANGED guard
          ELSE begin /\ UNCHANGED shown
  /\ UNCHANGED <<setting, inbox, used>> /\ Main

\* Mutant of canInstallVaultSnapshot: of any vault.
canInstallVaultSnapshotAny(v) == v.rev > view.rev

canInstallVaultSnapshot(v) == view.vault = v.vault /\ v.rev > view.rev

installNewerSnapshot(v) ==
  view' = IF unlocked /\ view # None /\ canInstallVaultSnapshot(v) THEN v ELSE view

onVaultChanged ==
  /\ Event("changed") /\ Received
  /\ installNewerSnapshot(Message.view)
  /\ UNCHANGED <<setting, inbox, guard, screen, coll, used>> /\ Main

MutateAnswer ==
  /\ Event("mutate") /\ Received
  /\ IF isCurrent(Message.call.epoch) /\ Message.result # "failed"
     THEN installNewerSnapshot(Message.view)
     ELSE UNCHANGED view
  /\ UNCHANGED <<setting, inbox, guard, screen, coll, used>> /\ Main

\* Another vault is active: what the renderer shows of it waits for the list.
onVaultSwitched ==
  /\ Event("switched") /\ Received
  /\ IF MayCapture THEN Sends(Lists(Scope, [op |-> "install", view |-> Message.view]))
     ELSE UNCHANGED inbox
  /\ UNCHANGED <<setting, guard, shown, used>> /\ Main

\* assertVaultScope, before a late answer is looked at.
installVaultScope(v, c) ==
  /\ begin
  /\ screen' = "unlocked" /\ view' = v /\ coll' = c

ListAnswer ==
  LET call == Message.call  next == call.next IN
  /\ Event("list") /\ Received
  /\ IF ~ScopeCurrent(call.scope) \/ Message.result = "failed"
     THEN Ignored
     ELSE \/ /\ next.op = "none"
             /\ coll' = Message.coll /\ UNCHANGED <<inbox, guard, screen, view>>
          \/ /\ next.op = "install" /\ UNCHANGED inbox
             /\ IF Message.coll.active = next.view.vault
                THEN installVaultScope(next.view, Message.coll)
                ELSE coll' = Message.coll /\ UNCHANGED <<guard, screen, view>>
          \/ /\ next.op \notin {"none", "install"}
             /\ coll' = Message.coll
             /\ Sends(Changes(call.scope, next, Message.coll.revision, FALSE))
             /\ UNCHANGED <<guard, screen, view>>
  /\ UNCHANGED <<setting, used>> /\ Main

ChangeAnswer ==
  LET scope == Message.call.scope IN
  /\ Event("change") /\ Received
  /\ UNCHANGED inbox
  /\ IF ~ScopeCurrent(scope) \/ Message.result = "failed"
     THEN UNCHANGED <<guard, shown>>
     ELSE IF Message.result = "ok" /\ Message.view # None
          THEN installVaultScope(Message.view, Message.coll)
          ELSE coll' = Message.coll /\ UNCHANGED <<guard, screen, view>>
  /\ UNCHANGED <<setting, used>> /\ Main

\* The answer of a change of the collection is lost.  It is sent once more under its id, if
\* its scope is still current.  (That a command is sent again is VaultMutations' subject.)
AnswerLost ==
  LET call == Message.call IN
  /\ Event("change") /\ Received /\ Uses("fault")
  /\ IF ~call.again /\ ScopeCurrent(call.scope)
     THEN Sends(Changes(call.scope, call, call.expected, TRUE))
     ELSE UNCHANGED inbox
  /\ UNCHANGED <<setting, guard, shown>> /\ Main

-----------------------------------------------------------------------------
User == Authenticate \/ lock \/ signOut \/ runVaultCommand \/ captureVaultCollectionMutation

Handlers ==
  \/ TakeAuth \/ TakeLock \/ TakeSignOut \/ TakeMutate \/ TakeList \/ TakeChange
  \/ LockHere \/ LockTail \/ Edited
  \/ \E call \in leaving : SignedOut(call)
  \/ \E h \in main :
       \/ Authenticated(h) \/ Mutated(h)
       \/ ChangeCommits(h) \/ ChangeRefused(h) \/ Snapshot(h) \/ SnapshotFails(h)

Answers ==
  \/ AuthAnswer \/ onAutoLock \/ SignOutAnswer \/ onVaultChanged \/ MutateAnswer
  \/ onVaultSwitched \/ ListAnswer \/ ChangeAnswer \/ AnswerLost

Next == User \/ Handlers \/ Answers

Spec == Init /\ [][Next]_vars

-----------------------------------------------------------------------------
(* What is on its way *)

ChangeOps == {"create", "rename", "switch"}

\* A call holds what its handler and its answer need.
ChangeOK(c) == c.op \in ChangeOps /\ c.target \in Existing /\ c.id \in 1..used["change"]

CallOK(c) ==
  /\ c.kind = "list" => \/ c.next.op = "none"
                        \/ c.next.op = "install" /\ c.next.view \in Views
                        \/ ChangeOK(c.next)
  /\ c.kind = "change" => ChangeOK(c)

\* What a change made is kept as its receipt.
Recorded(c, result) == c.id \in DOMAIN receipts /\ receipts[c.id] = result

HandlerOK(h) ==
  /\ h.call.kind = IF h.at = "read" THEN "change" ELSE h.at
  /\ h.at \in {"change", "read"} => ChangeOK(h.call)
  /\ h.at = "read" => h.result \in Collections /\ h.result.active \in Existing
                      /\ h.result.revision <= revision
                      /\ Recorded(h.call, h.result)

\* An answer may bring a list, which is shown in the present epoch or begins another.
BringsList(m) == m.kind \in {"list", "change"} /\ m.result # "failed"
Installs(m)   == m.kind = "change" /\ m.result = "ok" /\ m.view # None
Refreshes(m)  == BringsList(m) /\ ~Installs(m)

MessageOK(m) ==
  /\ m.kind \in {"list", "change"} => m.call.kind = m.kind /\ CallOK(m.call)
  /\ m.kind \in {"changed", "switched"} => m.view \in Views
  /\ m.kind \in {"auth", "mutate"} /\ m.result # "failed" => m.view \in Views
  /\ BringsList(m) => m.coll \in Collections /\ m.coll.revision <= revision
  /\ m.kind = "change" /\ m.result = "ok" => /\ m.view \in Views \cup {None}
                                             /\ Recorded(m.call, m.coll)

InboxOK    == \A i \in DOMAIN inbox : CallOK(inbox[i])
MainOK     == \A h \in main : HandlerOK(h)
WireOK     == \A i \in DOMAIN wire : MessageOK(wire[i])
ReceiptsOK == \A n \in DOMAIN receipts :
                receipts[n].active \in Existing /\ receipts[n].revision <= revision

\* A change that is sent again is answered with the list that it made the first time.
Repeats(m) == m.kind = "change" /\ m.result = "ok" /\ m.call.again

\* But for these, the lists that refresh an epoch come in the order in which they were true.
InOrder(m) == Refreshes(m) /\ ~Repeats(m)

ListsInOrder ==
  /\ \A i, j \in DOMAIN wire :
       i < j /\ BringsList(wire[i]) /\ InOrder(wire[j]) =>
         wire[i].coll.revision <= wire[j].coll.revision
  /\ coll # None => /\ coll.revision <= revision
                    /\ \A i \in DOMAIN wire :
                         InOrder(wire[i]) => coll.revision <= wire[i].coll.revision

\* A change of the collection is asked for the first time once: the call is in one place,
\* or its handler is done with it.
Asks(c, n) ==
  \/ c.kind = "list" /\ c.next.op \in ChangeOps /\ c.next.id = n
  \/ c.kind = "change" /\ ~c.again /\ c.id = n

Tells(m, n) == m.kind = "list" /\ Asks(m.call, n)
Runs(h, n)  == h.at = "change" /\ ~h.call.again /\ h.call.id = n

\* That the handler of the first call is done with it.
Again(c, n) == c.kind = "change" /\ c.again /\ c.id = n
Took(h, n)  == (h.at = "read" \/ (h.at = "change" /\ h.call.again)) /\ h.call.id = n
Told(m, n)  == m.kind = "change" /\ m.call.id = n

Handled(n) ==
  \/ n \in DOMAIN receipts
  \/ \E i \in DOMAIN inbox : Again(inbox[i], n)
  \/ \E h \in main : Took(h, n)
  \/ \E i \in DOMAIN wire : Told(wire[i], n)

Done == {n \in 1..setting["change"] : Handled(n)}

Nowhere(calls, answers, handlers, done, n) ==
  /\ \A i \in DOMAIN calls : ~Asks(calls[i], n)
  /\ \A i \in DOMAIN answers : ~Tells(answers[i], n)
  /\ \A h \in handlers : ~Runs(h, n)
  /\ n \notin done

InOnePlace(calls, answers, handlers, done, n) ==
  /\ \A i, j \in DOMAIN calls : Asks(calls[i], n) /\ Asks(calls[j], n) => i = j
  /\ \A i, j \in DOMAIN answers : Tells(answers[i], n) /\ Tells(answers[j], n) => i = j
  /\ \A h, g \in handlers : Runs(h, n) /\ Runs(g, n) => h = g
  /\ \A i \in DOMAIN calls : Asks(calls[i], n) => Nowhere(<<>>, answers, handlers, done, n)
  /\ \A i \in DOMAIN answers : Tells(answers[i], n) => Nowhere(<<>>, <<>>, handlers, done, n)
  /\ \A h \in handlers : Runs(h, n) => n \notin done

AskedOnce == \A n \in 1..setting["change"] : InOnePlace(inbox, wire, main, Done, n)

ListInv ==
  /\ TypeOK /\ InboxOK /\ MainOK /\ WireOK /\ ReceiptsOK
  /\ ListsInOrder /\ AskedOnce

-----------------------------------------------------------------------------
(* The two sides of the session *)

Gone == over \/ leaving # {}

EndsAccess(c) == c.kind \in {"lock", "signOut"}
Closes(c) == c.kind = "lock" \/ (c.kind = "signOut" /\ c.epoch = epoch)

\* An answer that opens the renderer, or keeps it open.
Opens(m)   == m.kind = "auth" /\ m.result = "ok" /\ m.call.epoch = epoch
Reopens(m) == m.kind = "signOut" /\ m.call.epoch = epoch

\* An attempt is of an epoch in which nothing is shown, a sign-out of one that it ended.
Attempt(e) == e \in Nat /\ e <= epoch /\ (e = epoch => screen = "locked")
Leaves(e)  == e \in Nat /\ e <= epoch /\ (e = epoch => screen = "unlocked" /\ ~unlocked)

EpochsSeen ==
  /\ \A i \in DOMAIN inbox : /\ inbox[i].kind = "auth" => Attempt(inbox[i].epoch)
                             /\ inbox[i].kind = "signOut" => Leaves(inbox[i].epoch)
  /\ \A h \in main : h.at = "auth" =>
       h.call.kind = "auth" /\ Attempt(h.call.epoch) /\ h.session \in Nat /\ h.session <= session
  /\ \A i \in DOMAIN wire : /\ wire[i].kind = "auth" => Attempt(wire[i].call.epoch)
                            /\ wire[i].kind = "signOut" => Leaves(wire[i].call.epoch)
                                                          /\ wire[i].result = "failed"

ShownWhole == (screen = "unlocked" <=> view # None) /\ (unlocked => screen = "unlocked")

\* No end of a session was sent after the attempt that may open the next.
NoEndBehind ==
  /\ \A i, j \in DOMAIN inbox :
       i < j /\ inbox[i].kind = "auth" /\ inbox[i].epoch = epoch => ~EndsAccess(inbox[j])
  /\ \A h \in main : h.at = "auth" /\ h.call.epoch = epoch =>
       \A j \in DOMAIN inbox : ~EndsAccess(inbox[j])
  /\ \A i \in DOMAIN wire : wire[i].kind = "auth" /\ wire[i].call.epoch = epoch =>
       \A j \in DOMAIN inbox : ~EndsAccess(inbox[j])
  /\ screen = "unlocked" => \A j \in DOMAIN inbox : inbox[j].kind # "lock"

\* Of a lock of the main process the renderer is told, after what still opens it.
LearnsOfLock ==
  ~open =>
    /\ screen = "unlocked" => tails > 0 \/ \E j \in DOMAIN wire : wire[j].kind = "autoLock"
    /\ \A i \in DOMAIN wire : Opens(wire[i]) =>
         tails > 0 \/ \E j \in DOMAIN wire : i < j /\ wire[j].kind = "autoLock"

\* A sign-out is answered.
SignsOut ==
  screen = "unlocked" /\ ~unlocked =>
    \/ \E i \in DOMAIN inbox : inbox[i].kind = "signOut" /\ inbox[i].epoch = epoch
    \/ \E i \in DOMAIN wire : Reopens(wire[i])

\* A renderer that is locked has locked the main process, or will, or is about to open; an
\* attempt that it has left behind is followed by an end of its session.
EndIsSent ==
  ~unlocked =>
    /\ open => \/ \E i \in DOMAIN inbox : Closes(inbox[i])
               \/ \E i \in DOMAIN wire : Opens(wire[i]) \/ Reopens(wire[i])
    /\ \A i \in DOMAIN inbox : inbox[i].kind = "auth" /\ inbox[i].epoch # epoch =>
         \E j \in DOMAIN inbox : i < j /\ Closes(inbox[j])
    /\ \A h \in main : h.at = "auth" /\ Current(h) /\ h.call.epoch # epoch =>
         \/ \E i \in DOMAIN inbox : Closes(inbox[i])
         \/ \E i \in DOMAIN wire : Reopens(wire[i])

TwoSides ==
  EpochsSeen /\ ShownWhole /\ NoEndBehind /\ LearnsOfLock /\ SignsOut /\ EndIsSent

\* Until the application quits.
SidesInv == ~Gone => TwoSides

-----------------------------------------------------------------------------
Quiet == ~over /\ inbox = <<>> /\ wire = <<>> /\ main = {} /\ tails = 0 /\ leaving = {}

\* Once nothing is on its way, and unless the application quits, the renderer is unlocked
\* exactly when the main process is ...
SidesAgree ==
  Quiet =>
    /\ unlocked <=> open
    /\ unlocked <=> screen = "unlocked"
    /\ unlocked <=> view # None

\* ... and shows the active vault as it was last committed and a list that says so, unless
\* an answer was lost of a behaviour with several changes of the collection.
ShowsTheActive ==
  Quiet /\ unlocked /\ (used["fault"] = 0 \/ used["change"] <= 1) =>
    view = View(active) /\ (coll # None => coll.active = active)

IInv == ListInv /\ SidesInv /\ SidesAgree /\ ShowsTheActive

\* The list that is shown is no older one.
ListStays == coll # None /\ coll' # None => coll'.revision >= coll.revision

\* "A renderer response is only allowed to affect the vault it was authored in."
\* (vaultContext.tsx:210): within an epoch one vault is shown and its document does not go
\* back to an earlier revision.  Nor does the list, but by the answer of a change that was
\* sent again: it then is what that change made of it.
NothingGoesBack ==
  epoch' = epoch =>
    /\ view # None /\ view' # None => view'.vault = view.vault /\ view'.rev >= view.rev
    /\ \/ ListStays
       \/ Event("change") /\ Repeats(Message) /\ coll' = receipts[Message.call.id]
===============================================================================
