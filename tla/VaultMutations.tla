---------------------------- MODULE VaultMutations ----------------------------
(***************************************************************************)
(* How a change of the vault's content gets from the renderer to the disk: *)
(* the renderer's command queue (vaultContext.tsx), the mutate handler     *)
(* (vaultDataIpc.ts), its receipts and revision check, the usage batches   *)
(* and other writers that commit in between, and the switch of the active  *)
(* vault (vaultCollectionIpc.ts), over the storage queue.                  *)
(*                                                                         *)
(* A vault's document is the sequence of changes committed to it.  Its     *)
(* revision counts them, and the receipts and usage markers it carries are *)
(* the last ones of their kind, as every commit appends one and trims.     *)
(*                                                                         *)
(* The queue runs one operation at a time and only the session can change  *)
(* between an operation's first read and its rename, which the last check  *)
(* precedes: reading, deciding and committing are one step here.           *)
(***************************************************************************)
EXTENDS Naturals, Sequences, SequencesExt, FiniteSets, Functions

CONSTANTS Vaults,
          Commands,        \* mutation ids, each with its own command
          Switches,        \* collection operation ids
          Batches,         \* usage batches
          Writers,         \* commits of the agent, the menu panel, ...
          None,
          ReceiptLimit,    \* MAX_RECENT_MUTATION_RECEIPTS and its collection twin
          UsageLimit,      \* MAX_RECENT_USAGE_BATCH_IDS
          Casts,           \* bound: the requests and writes that a behaviour may make
          MaxRetries,      \* bound: answers lost in a behaviour
          MaxEpoch         \* bound: session boundaries, in main and in the renderer

VARIABLES
  log,         \* by vault: the changes its document holds, in order
  collection,  \* the active vault, the collection's revision and its receipts
  unlocked, epoch,
  inbox,       \* invocations on their way from the renderer, in order
  queue,       \* calls in the storage queue
  call,        \* by call: an invocation the main process received
  view,        \* the renderer's snapshot: a vault and its revision, or None
  scope,       \* the renderer's session epoch
  waiting,     \* the renderer's command queue
  request      \* by command or switch: what the renderer asked for

disk     == <<log, collection>>
main     == <<unlocked, epoch, inbox, queue, call>>
renderer == <<view, scope, waiting, request>>
vars     == <<disk, main, renderer>>

Requests == Commands \cup Switches
Changes  == Commands \cup Batches \cup Writers
\* A request is invoked at most twice, under the same id.
Calls    == (Requests \X {1, 2}) \cup ((Batches \cup Writers) \X {1})

ASSUME LimitsAssumption ==
  /\ ReceiptLimit \in Nat \ {0} /\ UsageLimit \in Nat \ {0}
  /\ Casts \subseteq SUBSET (Changes \cup Switches)
  /\ MaxRetries \in Nat /\ MaxEpoch \in Nat
  /\ Commands \cap (Switches \cup Batches \cup Writers) = {}
  /\ Switches \cap (Batches \cup Writers) = {} /\ Batches \cap Writers = {}

Snapshots == [vault : Vaults, revision : Nat]
NoCall    == [at |-> "idle", epoch |-> 0, rotate |-> FALSE, vault |-> None,
              under |-> {}, answer |-> "none", data |-> None]

TypeOK ==
  /\ log \in [Vaults -> Seq(Changes)]
  /\ collection \in [active : Vaults, revision : Nat, receipts : Seq(Switches)]
  /\ unlocked \in BOOLEAN /\ epoch \in Nat
  /\ inbox \in Seq(Calls) /\ queue \in Seq(Calls)
  /\ call \in [Calls -> [at : {"idle", "sent", "begun", "read", "queued", "committed", "done"},
                         epoch : Nat, rotate : BOOLEAN, vault : Vaults \cup {None},
                         under : SUBSET Vaults,
                         answer : {"none", "success", "stale", "failed"},
                         data : Snapshots \cup {None}]]
  /\ view \in Snapshots \cup {None}
  /\ scope \in Nat
  /\ waiting \in Seq(Commands)
  /\ request \in [Requests ->
       [at : {"unused", "waiting", "sent", "done"}, vault : Vaults \cup {None},
        revision : Nat, scope : Nat, target : Vaults \cup {None}]]

Init ==
  /\ log = [v \in Vaults |-> <<>>]
  /\ \E v \in Vaults : collection = [active |-> v, revision |-> 1, receipts |-> <<>>]
  /\ unlocked = FALSE /\ epoch = 0
  /\ inbox = <<>> /\ queue = <<>>
  /\ view = None /\ scope = 0 /\ waiting = <<>>
  /\ \E cast \in Casts :
       /\ call = [x \in Calls |->
            IF x[1] \in cast \/ x[2] = 2 THEN NoCall ELSE [NoCall EXCEPT !.at = "done"]]
       /\ request = [r \in Requests |->
            [at |-> IF r \in cast THEN "unused" ELSE "done", vault |-> None,
             revision |-> 0, scope |-> 0, target |-> None]]

-----------------------------------------------------------------------------
Active      == collection.active

\* A document with no revision counts as revision 1.
Revision(v) == Len(log[v]) + 1
Snapshot(v) == [vault |-> v, revision |-> Revision(v)]

AtHead(x) == queue # <<>> /\ Head(queue) = x

AssertCurrent(x) == unlocked /\ call[x].epoch = epoch

\* The members of S in s that fewer than n others follow.
Recent(s, S, n) ==
  {e \in S : \E k \in 1..Len(s) :
     s[k] = e /\ Cardinality({i \in (k + 1)..Len(s) : s[i] \in S}) < n}

Receipts(v) == Recent(log[v], Commands, ReceiptLimit)

\* The revisions that the usage markers of the document name.
UsageRevisions(v) ==
  {k + 1 : k \in {i \in 1..Len(log[v]) : log[v][i] \in Recent(log[v], Batches, UsageLimit)}}

\* Mutant: the range check skips the first revision.
UsageOnlyRangeOff(v, expected) ==
  /\ expected < Revision(v) /\ Revision(v) - expected <= UsageLimit
  /\ (expected + 2)..Revision(v) \subseteq UsageRevisions(v)

isUsageOnlyRevisionRange(v, expected) ==
  /\ expected < Revision(v) /\ Revision(v) - expected <= UsageLimit
  /\ (expected + 1)..Revision(v) \subseteq UsageRevisions(v)

\* Mutants of Found: the receipts are not consulted; nor is the revision.
FoundByRevision(c, v) ==
  IF request[c].revision = Revision(v) \/ isUsageOnlyRevisionRange(v, request[c].revision)
  THEN "fresh" ELSE "stale"

\* What the updater finds for a command: its receipt, a document that moved on, or
\* one it may change.
Found(c, v) ==
  IF c \in Receipts(v) THEN "receipt"
  ELSE IF request[c].revision = Revision(v) \/ isUsageOnlyRevisionRange(v, request[c].revision)
  THEN "fresh" ELSE "stale"

Answered(x, answer, data) ==
  call' = [call EXCEPT ![x] = [NoCall EXCEPT !.at = "done", !.answer = answer, !.data = data]]

\* The main process takes up a call under the session epoch `now`.  History: the
\* vault that is active as it does, and those whose switch was already under way.
Admitted(x, stage, now) ==
  call' = [call EXCEPT ![x].at = stage, ![x].epoch = now, ![x].vault = Active,
    ![x].under = {request[y[1]].target : y \in
       {z \in ToSet(queue) : z[1] \in Switches /\ call[z].rotate /\ call[z].epoch = epoch}}]

Enqueue(x, now) == queue' = Append(queue, x) /\ Admitted(x, "queued", now)

-----------------------------------------------------------------------------
\* The renderer

\* The user changes what the snapshot shows, or a form opened at an earlier one.
Author(c) ==
  /\ request[c].at = "unused" /\ view # None
  /\ \E r \in 1..view.revision :
       request' = [request EXCEPT ![c] = [@ EXCEPT !.at = "waiting", !.vault = view.vault,
                                                   !.revision = r, !.scope = scope]]
  /\ waiting' = Append(waiting, c)
  /\ UNCHANGED <<disk, main, view, scope>>

Invoke(x) ==
  /\ inbox' = Append(inbox, x)
  /\ call' = [call EXCEPT ![x].at = "sent"]
  /\ UNCHANGED <<unlocked, epoch, queue>>

\* Commands of a session go out one at a time.
Send(c) ==
  /\ request[c].at = "waiting" /\ waiting # <<>> /\ Head(waiting) = c
  /\ request' = [request EXCEPT ![c].at = "sent"]
  /\ Invoke(<<c, 1>>)
  /\ UNCHANGED <<disk, view, scope, waiting>>

\* A switch names the collection revision it just read.
RequestSwitch(s, v) ==
  /\ request[s].at = "unused" /\ view # None
  /\ request' = [request EXCEPT ![s] =
       [at |-> "sent", vault |-> view.vault, revision |-> collection.revision,
        scope |-> scope, target |-> v]]
  /\ Invoke(<<s, 1>>)
  /\ UNCHANGED <<disk, view, scope, waiting>>

IsCurrent(r) == view # None /\ request[r].scope = scope

Attempt(r) == IF call[<<r, 2>>].at = "idle" THEN <<r, 1>> ELSE <<r, 2>>

Leave(r) == IF waiting # <<>> /\ Head(waiting) = r THEN Tail(waiting) ELSE waiting

Lost == Cardinality({r \in Requests : call[<<r, 2>>].at # "idle"})

\* The answer is lost, whatever became of the call: a request of this session is
\* invoked once more under the same id.
LoseAnswer(r) ==
  /\ request[r].at = "sent"
  /\ IF Attempt(r) = <<r, 1>> /\ IsCurrent(r)
     THEN Lost < MaxRetries /\ Invoke(<<r, 2>>) /\ UNCHANGED <<waiting, request>>
     ELSE /\ request' = [request EXCEPT ![r].at = "done"]
          /\ waiting' = Leave(r)
          /\ UNCHANGED main
  /\ UNCHANGED <<disk, view, scope>>

\* A newer snapshot of the vault on screen replaces it; any other is dropped.
Newer(data) ==
  IF data # None /\ view # None /\ data.vault = view.vault /\ data.revision > view.revision
  THEN data ELSE view

ReceiveCommand(c) ==
  /\ request[c].at = "sent" /\ call[Attempt(c)].at = "done"
  /\ view' = IF IsCurrent(c) THEN Newer(call[Attempt(c)].data) ELSE view
  /\ request' = [request EXCEPT ![c].at = "done"]
  /\ waiting' = Leave(c)
  /\ UNCHANGED <<disk, main, scope>>

\* The renderer begins or ends a session: commands that wait are dropped.
Rescope(snapshot) ==
  /\ scope < MaxEpoch
  /\ view' = snapshot
  /\ scope' = scope + 1
  /\ waiting' = <<>>

Dropped(without) ==
  [r \in Requests |-> IF request[r].at = "waiting" \/ r \in without
                      THEN [request[r] EXCEPT !.at = "done"] ELSE request[r]]

ReceiveSwitch(s) ==
  /\ request[s].at = "sent" /\ call[Attempt(s)].at = "done"
  /\ IF IsCurrent(s) /\ view.vault = request[s].vault /\ call[Attempt(s)].answer = "success"
     THEN Rescope(call[Attempt(s)].data) /\ request' = Dropped({s})
     ELSE /\ request' = [request EXCEPT ![s].at = "done"]
          /\ UNCHANGED <<view, scope, waiting>>
  /\ UNCHANGED <<disk, main>>

\* Change events bring any later snapshot of the vault on screen; a switch event
\* makes the renderer read the collection and install the vault it selects.
HearChange ==
  /\ view # None
  /\ \E r \in (view.revision + 1)..Revision(view.vault) : view' = [view EXCEPT !.revision = r]
  /\ UNCHANGED <<disk, main, scope, waiting, request>>

HearSwitch ==
  /\ view # None /\ Active # view.vault
  /\ \E r \in 1..Revision(Active) : Rescope([vault |-> Active, revision |-> r])
  /\ request' = Dropped({})
  /\ UNCHANGED <<disk, main>>

\* The user locks, or the renderer hears that main did.
EndView ==
  /\ view # None
  /\ Rescope(None)
  /\ request' = Dropped({})
  /\ UNCHANGED <<disk, main>>

-----------------------------------------------------------------------------
\* The main process

\* Handlers start in the order of their invocations.
Arrives(x) == inbox # <<>> /\ Head(inbox) = x /\ inbox' = Tail(inbox)

\* The mutate handler up to its place in the queue, in one turn.
Admit(x) ==
  /\ x[1] \in Commands /\ Arrives(x)
  /\ IF unlocked THEN Enqueue(x, epoch)
     ELSE Answered(x, "failed", None) /\ UNCHANGED queue
  /\ UNCHANGED <<disk, unlocked, epoch, renderer>>

\* A usage flush queues its commit.
Flush(x) ==
  /\ x[1] \in Batches /\ call[x].at = "idle"
  /\ unlocked
  /\ Enqueue(x, epoch)
  /\ UNCHANGED <<disk, unlocked, epoch, inbox, renderer>>

\* Another writer takes the session's key, works on what it will write ...
BeginWrite(x) ==
  /\ x[1] \in Writers /\ call[x].at = "idle"
  /\ unlocked
  /\ Admitted(x, "begun", epoch)
  /\ UNCHANGED <<disk, unlocked, epoch, queue, inbox, renderer>>

\* ... and queues the commit, if the key is still the session's.
Write(x) ==
  /\ x[1] \in Writers /\ call[x].at = "begun"
  /\ IF AssertCurrent(x)
     THEN /\ call' = [call EXCEPT ![x].at = "queued"]
          /\ queue' = Append(queue, x)
     ELSE Answered(x, "failed", None) /\ UNCHANGED queue
  /\ UNCHANGED <<disk, unlocked, epoch, inbox, renderer>>

\* The switch handler reads the collection before anything else ...
ReadSelection(x) ==
  /\ x[1] \in Switches /\ Arrives(x)
  /\ IF unlocked
     THEN call' = [call EXCEPT ![x].at = "read", ![x].rotate = request[x[1]].target # Active]
     ELSE Answered(x, "failed", None)
  /\ UNCHANGED <<disk, unlocked, epoch, queue, renderer>>

\* Mutant of Rotated: the scope is not rotated before the switch.
NotRotated(x) == epoch

\* ... and rotates the scope, once usage is flushed, when the target is another
\* vault: every handle admitted so far is refused from here on.
Rotated(x) == IF call[x].rotate THEN epoch + 1 ELSE epoch

AdmitSwitch(x) ==
  /\ x[1] \in Switches /\ call[x].at = "read"
  /\ IF unlocked
     THEN /\ Rotated(x) <= MaxEpoch
          /\ epoch' = Rotated(x)
          /\ Enqueue(x, epoch')
     ELSE Answered(x, "failed", None) /\ UNCHANGED <<epoch, queue>>
  /\ UNCHANGED <<disk, unlocked, inbox, renderer>>

\* The call's operation fails: its session is over, or it meets an error.
Fail(x) ==
  /\ AtHead(x)
  /\ queue' = Tail(queue)
  /\ Answered(x, "failed", None)
  /\ UNCHANGED <<disk, unlocked, epoch, inbox, renderer>>

CommitCommand(x) ==
  /\ AtHead(x) /\ x[1] \in Commands /\ AssertCurrent(x)
  /\ queue' = Tail(queue)
  /\ log' = IF Found(x[1], Active) = "fresh"
            THEN [log EXCEPT ![Active] = Append(@, x[1])] ELSE log
  /\ Answered(x, IF Found(x[1], Active) = "stale" THEN "stale" ELSE "success",
              [vault |-> Active, revision |-> Len(log'[Active]) + 1])
  /\ UNCHANGED <<collection, unlocked, epoch, inbox, renderer>>

CommitWrite(x) ==
  /\ AtHead(x) /\ x[1] \in Batches \cup Writers /\ AssertCurrent(x)
  /\ queue' = Tail(queue)
  /\ log' = [log EXCEPT ![Active] = Append(@, x[1])]
  /\ Answered(x, "success", None)
  /\ UNCHANGED <<collection, unlocked, epoch, inbox, renderer>>

Expected(s) == request[s].revision = collection.revision

\* The collection keeps the last receipts.
Trimmed(s) == SubSeq(s, IF Len(s) > ReceiptLimit THEN Len(s) - ReceiptLimit + 1 ELSE 1, Len(s))

\* A receipt answers a replay; otherwise the collection must be the one the caller
\* saw.  Selecting the active vault only leaves a receipt.
CommitSwitch(x) ==
  /\ AtHead(x) /\ x[1] \in Switches /\ AssertCurrent(x)
  /\ queue' = Tail(queue)
  /\ IF x[1] \notin ToSet(collection.receipts) /\ ~Expected(x[1])
     THEN Answered(x, "stale", None) /\ UNCHANGED collection
     ELSE /\ call' = [call EXCEPT ![x].at = "committed"]
          /\ collection' =
               IF x[1] \in ToSet(collection.receipts) THEN collection
               ELSE [active   |-> request[x[1]].target,
                     revision |-> collection.revision
                                  + (IF request[x[1]].target = Active THEN 0 ELSE 1),
                     receipts |-> Trimmed(Append(collection.receipts, x[1]))]
  /\ UNCHANGED <<log, unlocked, epoch, inbox, renderer>>

\* The handler reads the vault it selected under the key it started with; when it
\* cannot, it locks the session, whichever that is by now.
SettleSwitch(x) ==
  /\ x[1] \in Switches /\ call[x].at = "committed"
  /\ \/ /\ AssertCurrent(x)
        /\ Answered(x, "success", Snapshot(request[x[1]].target))
        /\ UNCHANGED <<unlocked, epoch>>
     \/ /\ Answered(x, "failed", None)
        /\ IF unlocked THEN epoch < MaxEpoch /\ epoch' = epoch + 1 /\ unlocked' = FALSE
           ELSE UNCHANGED <<unlocked, epoch>>
  /\ UNCHANGED <<disk, queue, inbox, renderer>>

Lock ==
  /\ unlocked /\ epoch < MaxEpoch
  /\ unlocked' = FALSE
  /\ epoch' = epoch + 1
  /\ UNCHANGED <<disk, inbox, queue, call, renderer>>

Drained == \A x \in Calls : call[x].at \notin {"queued", "committed"}

\* An unlock waits for the lock to drain what was running, and opens the active vault.
Unlock ==
  /\ ~unlocked /\ epoch < MaxEpoch /\ Drained
  /\ view = None
  /\ unlocked' = TRUE
  /\ epoch' = epoch + 1
  /\ Rescope(Snapshot(Active))
  /\ request' = Dropped({})
  /\ UNCHANGED <<disk, inbox, queue, call>>

RendererStep ==
  \/ \E c \in Commands : Author(c) \/ Send(c) \/ ReceiveCommand(c)
  \/ \E s \in Switches : ReceiveSwitch(s) \/ \E v \in Vaults : RequestSwitch(s, v)
  \/ \E r \in Requests : LoseAnswer(r)
  \/ HearChange \/ HearSwitch \/ EndView

MainStep ==
  \E x \in Calls : Admit(x) \/ Flush(x) \/ BeginWrite(x) \/ Write(x) \/ ReadSelection(x)
                   \/ AdmitSwitch(x) \/ Fail(x) \/ CommitCommand(x) \/ CommitWrite(x)
                   \/ CommitSwitch(x) \/ SettleSwitch(x)

Next == RendererStep \/ MainStep \/ Lock \/ Unlock

Spec == Init /\ [][Next]_vars

-----------------------------------------------------------------------------
\* A command that lands in the vault it was written for lands on the document its
\* author saw, up to usage counters: no change of another writer is overwritten.
AppliedOnWhatItsAuthorSaw ==
  \A v \in Vaults : \A k \in 1..Len(log[v]) :
    log[v][k] \in Commands /\ request[log[v][k]].vault = v =>
      \A j \in 1..(k - 1) : request[log[v][k]].revision <= j => log[v][j] \in Batches

\* No document holds a command twice, however its invocations interleave.
AppliedOnce ==
  \A v \in Vaults : \A j, k \in 1..Len(log[v]) :
    log[v][j] = log[v][k] => j = k

\* A call is where its stage says, in each line once; none that goes on has an answer.
LinesAgree ==
  /\ IsInjective(inbox) /\ IsInjective(queue)
  /\ \A x \in Calls :
       /\ call[x].at = "sent" <=> x \in ToSet(inbox)
       /\ call[x].at = "queued" <=> x \in ToSet(queue)
       /\ call[x].at # "done" => call[x].answer = "none"

Applied(e) == \E v \in Vaults : e \in ToSet(log[v])

\* What is applied was asked for, and changes the revision its author saw or a later one.
AppliedAsAsked ==
  /\ \A r \in Requests : request[r].at \in {"unused", "waiting"} =>
       call[<<r, 1>>].at = "idle" /\ call[<<r, 2>>].at = "idle" /\ ~Applied(r)
  /\ \A e \in Batches \cup Writers : Applied(e) => call[<<e, 1>>].at = "done"
  /\ \A v \in Vaults : \A k \in 1..Len(log[v]) :
       log[v][k] \in Commands => request[log[v][k]].revision <= k

InLine(x) == call[x].at \in {"sent", "queued"}

Earlier(s, y, x) == \E p, q \in 1..Len(s) : p < q /\ s[p] = y /\ s[q] = x

\* The operation of y comes before that of x.
Ahead(y, x) ==
  (y \in ToSet(queue) /\ x \in ToSet(inbox)) \/ Earlier(queue, y, x) \/ Earlier(inbox, y, x)

Sends(c) == request[c].at = "sent" /\ IsCurrent(c)

MayRetry(c) == Sends(c) /\ call[<<c, 2>>].at = "idle"

\* A session's command queue has one command out, its first, ...
OneOut ==
  /\ \A r \in Requests : request[r].scope <= scope
  /\ \A c \in Commands : Sends(c) => waiting # <<>> /\ Head(waiting) = c

\* ... so that no other command comes between the two attempts of a command, and the
\* receipt of the first is the last one when the second asks for it.
RetriesFollow ==
  \A c \in Commands :
    /\ InLine(<<c, 1>>) =>
         /\ ~Applied(c)
         /\ InLine(<<c, 2>>) => Ahead(<<c, 1>>, <<c, 2>>)
         /\ MayRetry(c) \/ InLine(<<c, 2>>) =>
              \A y \in (Commands \ {c}) \X {1, 2} : InLine(y) =>
                Ahead(y, <<c, 1>>) \/ (InLine(<<c, 2>>) /\ Ahead(<<c, 2>>, y))
    /\ Applied(c) /\ (MayRetry(c) \/ InLine(<<c, 2>>)) =>
         /\ \A v \in Vaults : \A j, k \in 1..Len(log[v]) :
              j < k /\ log[v][j] = c => log[v][k] \notin Commands
         /\ \A y \in (Commands \ {c}) \X {1, 2} : InLine(y) =>
              InLine(<<c, 2>>) /\ Ahead(<<c, 2>>, y)

\* The switches under way in the session that y is in.
Rotating(y) == y[1] \in Switches /\ call[y].at = "queued" /\ call[y].rotate /\ call[y].epoch = epoch

\* A switch that did not rotate the scope does not move the selection.
SwitchesRotate ==
  \A s \in Switches :
    /\ request[s].revision <= collection.revision
    /\ request[s].at = "sent" => request[s].target \in Vaults
    /\ \A x \in {s} \X {1, 2} :
         /\ call[x].at \notin {"idle", "done"} => request[s].target \in Vaults
         /\ call[x].at \in {"read", "queued"} /\ ~call[x].rotate
              /\ request[s].revision = collection.revision => Active = request[s].target

\* The vault in which a call of this session would commit now, and those in which it
\* would after the switches ahead of it, were under way when it was admitted.
Scoped ==
  \A x \in Calls :
    /\ call[x].epoch <= epoch
    /\ call[x].at \in {"begun", "queued"} /\ call[x].epoch = epoch =>
         /\ Active \in {call[x].vault} \cup call[x].under
         /\ \A y \in Calls \ {x} : Rotating(y) => request[y[1]].target \in call[x].under

IInv ==
  /\ TypeOK /\ AppliedOnce /\ AppliedOnWhatItsAuthorSaw
  /\ LinesAgree /\ AppliedAsAsked /\ OneOut /\ RetriesFollow /\ SwitchesRotate /\ Scoped

\* A call that answers "changed meanwhile" has not applied its command, nor has an
\* earlier attempt: a retry of a committed command is answered from its receipt.
StaleMeansNotApplied ==
  [][\A x \in Calls : x[1] \in Commands /\ call'[x].answer = "stale" /\ call[x].at = "queued" =>
       x[1] \notin ToSet(log[Active])]_vars

\* A call commits to the vault that was active when it was admitted, or to one whose
\* switch had rotated the scope before that.
ScopedCommits ==
  [][\A x \in Calls : log' # log /\ AtHead(x) => Active \in {call[x].vault} \cup call[x].under]_vars

\* "work admitted for vault A cannot pass a later commit ... after vault B becomes the
\* selected scope" (vaultSessionKey.ts:107-112).
CommitsInItsVault ==
  [][\A x \in Calls : log' # log /\ AtHead(x) => Active = call[x].vault]_vars
=============================================================================
