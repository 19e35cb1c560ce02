--------------------------- MODULE SessionLifecycle ---------------------------
(***************************************************************************)
(* The life of a session in the main process (index.ts): unlock, lock by   *)
(* the user, the idle timer or the system, rotation before a vault switch, *)
(* and quit (gracefulShutdown.ts, idleAutoLock.ts), with the usage counts  *)
(* that pile up in memory meanwhile (vaultUsageBatcher.ts).                *)
(*                                                                         *)
(* A scope is an epoch and a lock waits for the live handles, as           *)
(* SessionKeyring shows.  Code that runs without an await on I/O, such as  *)
(* the end of a lock or the start of the next flush, precedes any other    *)
(* event: InTurn holds the others back.                                    *)
(***************************************************************************)
EXTENDS Naturals, Sequences, SequencesExt, FiniteSets

CONSTANTS Events,       \* uses of a secret, each counted once
          Handlers,     \* handlers of the renderer's calls
          DialogHandlers, \* the ones that may wait for a dialog without end
          Lockers,      \* callers of lockVault
          Idle, Quitter,  \* among them: the idle check and before-quit
          None,
          FlushLimit,   \* DEFAULT_USAGE_FLUSH_EVENT_LIMIT
          MarkerLimit,  \* MAX_RECENT_USAGE_BATCH_IDS
          MaxEpoch,     \* bound: session boundaries of a behaviour
          MaxRevision,  \* bound: the revision at which handlers stop to write
          Casts         \* by behaviour: the handlers, and bound: storage errors and crashes

ASSUME LifecycleAssumption ==
  /\ DialogHandlers \subseteq Handlers
  /\ {Idle, Quitter} \subseteq Lockers
  /\ FlushLimit \in Nat \ {0} /\ MarkerLimit \in Nat \ {0}
  /\ MaxEpoch \in Nat /\ MaxRevision \in Nat
  /\ Casts \subseteq [handlers : SUBSET Handlers, faults : Nat]

VARIABLES
  unlocked, epoch,
  live,        \* the handles out: by handler its epoch, "flush" apart
  locking,     \* the callers that wait for a lock to end
  vaultRevision,
  document,    \* on disk: its revision, the uses counted and the batch markers
  buckets,     \* pending usage
  timer,       \* a flush is scheduled
  flushTail,   \* flushes that wait for the one before
  flush,       \* the flush that runs, or None
  quit,
  cast,        \* who acts, and the faults that are left
  used,        \* history: the uses there were
  fresh,       \* history: those of this session
  dropped      \* history: those discarded, or lost with a process

session == <<unlocked, epoch, live, locking, vaultRevision>>
usage   == <<buckets, timer, flushTail, flush>>
uses    == <<used, fresh, dropped>>
vars    == <<session, document, usage, quit, cast, uses>>

Buckets == [id : Events, events : SUBSET Events, attempted : BOOLEAN]
Flushes == [by : {"background", "scope"}, targets : SUBSET Events,
            epoch : Nat, at : {"preparing", "renaming"}]

Init ==
  /\ unlocked = FALSE /\ epoch = 0
  /\ live = [h \in Handlers |-> None] /\ locking = [l \in Lockers |-> "no"]
  /\ vaultRevision = 0
  /\ document = [revision |-> 1, count |-> [e \in Events |-> 0], markers |-> <<>>]
  /\ buckets = <<>> /\ timer = FALSE /\ flushTail = <<>> /\ flush = None
  /\ quit = "no" /\ cast \in Casts
  /\ used = {} /\ fresh = {} /\ dropped = {}

-----------------------------------------------------------------------------
Pending   == UNION {b.events : b \in ToSet(buckets)}
Live      == {h \in Handlers : live[h] # None}
Locking   == \E l \in Lockers : locking[l] # "no"
Drained   == Live = {} /\ flush = None
Running   == quit \in {"no", "preparing"}

\* Nothing is due before the next event of the loop.
InTurn ==
  /\ Running
  /\ flush # None \/ flushTail = <<>>
  /\ Locking => ~Drained

Fault == cast.faults > 0 /\ cast' = [cast EXCEPT !.faults = @ - 1]

MayCross  == epoch < MaxEpoch
NextEpoch == epoch' = epoch + 1

-----------------------------------------------------------------------------
\* Handlers

Begin(h) ==
  /\ InTurn /\ h \in cast.handlers /\ live[h] = None /\ ~Locking
  /\ live' = [live EXCEPT ![h] = epoch]
  /\ UNCHANGED <<unlocked, epoch, locking, vaultRevision, document, usage, quit, cast, uses>>

AssertCurrent(h) == live[h] = epoch /\ ~Locking

Release(h) ==
  /\ InTurn /\ live[h] # None
  /\ live' = [live EXCEPT ![h] = None]

\* An unlock that nothing overtook publishes the document and installs the key.
Unlock(h) ==
  /\ AssertCurrent(h)
  /\ MayCross /\ NextEpoch
  /\ Release(h)
  /\ unlocked' = TRUE
  /\ vaultRevision' = document.revision
  /\ fresh' = IF unlocked THEN fresh ELSE {}
  /\ UNCHANGED <<locking, document, usage, quit, cast, used, dropped>>

\* A handler commits a change and publishes its revision.
Write(h) ==
  /\ AssertCurrent(h) /\ unlocked
  /\ document.revision < MaxRevision
  /\ Release(h)
  /\ document' = [document EXCEPT !.revision = @ + 1]
  /\ vaultRevision' = document'.revision
  /\ UNCHANGED <<unlocked, epoch, locking, usage, quit, cast, uses>>

\* A handler ends without: refused, or done with reading.
End(h) ==
  /\ Release(h)
  /\ UNCHANGED <<unlocked, epoch, locking, vaultRevision, document, usage, quit, cast, uses>>

-----------------------------------------------------------------------------
\* The usage batcher

\* A bucket that was tried may be on disk already: it takes no further event.
Joins == buckets # <<>> /\ ~Last(buckets).attempted

Collected(e) ==
  IF Joins THEN [buckets EXCEPT ![Len(buckets)].events = @ \cup {e}]
  ELSE Append(buckets, [id |-> e, events |-> {e}, attempted |-> FALSE])

\* A handler released a secret: the use is recorded under the session's key.
record(e) ==
  /\ InTurn /\ unlocked
  /\ e \notin used
  /\ used' = used \cup {e} /\ fresh' = fresh \cup {e}
  /\ buckets' = Collected(e)
  /\ IF Cardinality(Pending') >= FlushLimit
     THEN timer' = FALSE /\ flushTail' = Append(flushTail, "background")
     ELSE timer' = TRUE /\ UNCHANGED flushTail
  /\ UNCHANGED <<session, document, flush, quit, cast, dropped>>

\* flush() clears the timer and waits for the flush before it.
FlushBy(who) ==
  /\ InTurn
  /\ timer' = FALSE
  /\ flushTail' = Append(flushTail, who)
  /\ UNCHANGED <<session, document, buckets, flush, quit, cast, uses>>

TimerFires == timer /\ FlushBy("background")

\* A switch or creation of a vault begins with the usage of the one it leaves.
beforeVaultScopeChange ==
  /\ unlocked /\ MayCross
  /\ "scope" \notin ToSet(flushTail) /\ (flush # None => flush.by # "scope")
  /\ FlushBy("scope")

\* The caller goes on: a new scope, if there is still a session.
RotateFor(by) ==
  IF by = "scope" /\ unlocked /\ ~Locking THEN NextEpoch ELSE UNCHANGED epoch

Finished(by, left) ==
  /\ flush' = None
  /\ buckets' = left
  /\ timer' = (timer \/ left # <<>>)
  /\ RotateFor(by)
  /\ UNCHANGED dropped

\* Mutant of Failed: a failed flush is not scheduled again.
FailedForGood(by, left) ==
  /\ flush' = None
  /\ IF by = "scope"
     THEN buckets' = <<>> /\ timer' = FALSE /\ dropped' = dropped \cup Pending
     ELSE buckets' = left /\ UNCHANGED <<timer, dropped>>
  /\ RotateFor(by)

\* A failed background flush is scheduled again while there is a session; before a
\* change of scope the pending usage is discarded.
Failed(by, left) ==
  /\ flush' = None
  /\ IF by = "scope"
     THEN buckets' = <<>> /\ timer' = FALSE /\ dropped' = dropped \cup Pending
     ELSE buckets' = left /\ timer' = (timer \/ (unlocked /\ ~Locking /\ left # <<>>))
          /\ UNCHANGED dropped
  /\ RotateFor(by)

\* The first bucket of left among targets, tried from here on, is next.
Proceed(by, targets, left) ==
  LET due == {i \in 1..Len(left) : left[i].id \in targets}
  IN IF due = {} THEN Finished(by, left)
     ELSE LET i == CHOOSE i \in due : \A j \in due : i <= j
              tried == [left EXCEPT ![i].attempted = TRUE]
          IN IF ~unlocked \/ Locking THEN Failed(by, tried)
             ELSE /\ flush' = [by |-> by, targets |-> targets, epoch |-> epoch, at |-> "preparing"]
                  /\ buckets' = tried
                  /\ UNCHANGED <<timer, dropped, epoch>>

\* flushCapturedBatches: the buckets there are when its turn comes.
StartFlush ==
  /\ Running /\ flush = None /\ flushTail # <<>>
  /\ flushTail' = Tail(flushTail)
  /\ Proceed(Head(flushTail), {b.id : b \in ToSet(buckets)}, buckets)
  /\ UNCHANGED <<unlocked, live, locking, vaultRevision, document, quit, cast, used, fresh>>

Current == CHOOSE i \in 1..Len(buckets) :
             /\ buckets[i].id \in flush.targets
             /\ \A j \in 1..(i - 1) : buckets[j].id \notin flush.targets

\* The last check before the rename; a lock after it waits for the rename.
AuthorizeCommit ==
  /\ InTurn /\ flush # None /\ flush.at = "preparing"
  /\ unlocked /\ ~Locking /\ flush.epoch = epoch
  /\ flush' = [flush EXCEPT !.at = "renaming"]
  /\ UNCHANGED <<session, document, buckets, timer, flushTail, quit, cast, uses>>

\* Mutant of Applied: the markers are not consulted.
AppliedAgain(b) ==
  [revision |-> document.revision + 1,
   count    |-> [e \in Events |-> document.count[e] + (IF e \in b.events THEN 1 ELSE 0)],
   markers  |-> Append(document.markers, b.id)]

\* The document with bucket b in it: a marker tells that it is there already.
Applied(b) ==
  IF b.id \in ToSet(document.markers) THEN document
  ELSE [revision |-> document.revision + 1,
        count    |-> [e \in Events |-> document.count[e] + (IF e \in b.events THEN 1 ELSE 0)],
        markers  |-> LET all == Append(document.markers, b.id)
                     IN SubSeq(all, IF Len(all) > MarkerLimit THEN 2 ELSE 1, Len(all))]

\* A revision is published unless the main process knows a later one.
Published(revision) == IF revision >= vaultRevision THEN revision ELSE vaultRevision

\* The bucket is on disk and leaves the queue; the flush goes on to the next.
CommitBucket ==
  /\ InTurn /\ flush # None /\ flush.at = "renaming"
  /\ document' = Applied(buckets[Current])
  /\ vaultRevision' = Published(document'.revision)
  /\ Proceed(flush.by, flush.targets, RemoveAt(buckets, Current))
  /\ UNCHANGED <<unlocked, live, locking, flushTail, quit, cast, used, fresh>>

\* The rename took effect but reports an error: the batcher cannot know.
CommitUnseen ==
  /\ InTurn /\ flush # None /\ flush.at = "renaming"
  /\ Fault
  /\ document' = Applied(buckets[Current])
  /\ Failed(flush.by, buckets)
  /\ UNCHANGED <<unlocked, live, locking, vaultRevision, flushTail, quit, used, fresh>>

\* The commit fails: its session is over, or storage meets an error.
FailBucket ==
  /\ InTurn /\ flush # None
  /\ \/ flush.at = "preparing" /\ (~unlocked \/ Locking \/ flush.epoch # epoch) /\ UNCHANGED cast
     \/ Fault
  /\ Failed(flush.by, buckets)
  /\ UNCHANGED <<unlocked, live, locking, vaultRevision, document, flushTail, quit, used, fresh>>

-----------------------------------------------------------------------------
\* lockVault

\* Revokes what the session granted and clears the key, in one turn; then waits.
BeginLock(l) ==
  /\ locking[l] = "no"
  /\ IF Locking THEN UNCHANGED epoch ELSE MayCross /\ NextEpoch
  /\ locking' = [locking EXCEPT ![l] = IF unlocked THEN "unlocked" ELSE "locked"]
  /\ unlocked' = FALSE
  /\ UNCHANGED <<live, vaultRevision, document, usage, cast, uses>>

\* The menu, the system, a failed audit or a manual lock; the idle check looks first.
Lock(l) ==
  /\ InTurn /\ l # Quitter
  /\ l = Idle => unlocked
  /\ BeginLock(l)
  /\ UNCHANGED quit

\* The rest of lockVault once the lock has drained.  The vault.lock entry finds no
\* key and is skipped; the flush finds none either, after it has cleared the timer
\* and tried the first bucket.
EndLock(l) ==
  /\ Running /\ locking[l] # "no" /\ Drained /\ flushTail = <<>>
  /\ locking' = [locking EXCEPT ![l] = "no"]
  /\ IF locking[l] = "unlocked"
     THEN /\ timer' = FALSE
          /\ buckets' = IF buckets = <<>> THEN <<>> ELSE [buckets EXCEPT ![1].attempted = TRUE]
     ELSE UNCHANGED <<timer, buckets>>
  /\ vaultRevision' = 0
  /\ UNCHANGED <<unlocked, epoch, live, document, flushTail, flush, quit, cast, uses>>

-----------------------------------------------------------------------------
\* Quit

BeforeQuit ==
  /\ InTurn /\ quit = "no"
  /\ quit' = "preparing"
  /\ BeginLock(Quitter)

\* The process ends; the files stay.
EndProcess(how) ==
  /\ quit' = how
  /\ dropped' = dropped \cup Pending
  /\ unlocked' = FALSE /\ vaultRevision' = 0
  /\ buckets' = <<>> /\ timer' = FALSE /\ flushTail' = <<>> /\ flush' = None
  /\ locking' = [l \in Lockers |-> "no"]
  /\ live' = [h \in Handlers |-> None] /\ fresh' = {}
  /\ UNCHANGED <<epoch, document, used>>

\* Cleanup has run: the lock, and the audit entries that were queued.
ExitOrderly ==
  /\ InTurn /\ quit = "preparing" /\ locking[Quitter] = "no"
  /\ EndProcess("exited")
  /\ UNCHANGED cast

\* Mutant of ExitOnTimeout: it fires only when nothing holds the lock up.
ExitWhenDrained ==
  /\ Running /\ quit = "preparing" /\ Drained
  /\ EndProcess("exited")
  /\ UNCHANGED cast

\* Five seconds have passed, whatever the cleanup waits for.
ExitOnTimeout ==
  /\ Running /\ quit = "preparing"
  /\ EndProcess("exited")
  /\ UNCHANGED cast

Crash == Running /\ Fault /\ EndProcess("exited")

Restart ==
  /\ quit = "exited"
  /\ quit' = "no"
  /\ UNCHANGED <<session, document, usage, cast, uses>>

Next ==
  \/ \E h \in Handlers : Begin(h) \/ Unlock(h) \/ Write(h) \/ End(h)
  \/ \E e \in Events : record(e)
  \/ TimerFires \/ beforeVaultScopeChange
  \/ StartFlush \/ AuthorizeCommit \/ CommitBucket \/ CommitUnseen \/ FailBucket
  \/ \E l \in Lockers : Lock(l) \/ EndLock(l)
  \/ BeforeQuit \/ ExitOrderly \/ ExitOnTimeout \/ Crash \/ Restart

Spec == Init /\ [][Next]_vars

\* Timers fire, storage answers, queues move on and every handler ends, unless it
\* waits for a dialog.
Fairness ==
  /\ \A h \in Handlers \ DialogHandlers : WF_vars(End(h) \/ Unlock(h) \/ Write(h))
  /\ WF_vars(TimerFires) /\ WF_vars(StartFlush)
  /\ WF_vars(AuthorizeCommit \/ CommitBucket \/ FailBucket)
  /\ \A l \in Lockers : WF_vars(EndLock(l))
  /\ WF_vars(ExitOnTimeout)

FairSpec == Spec /\ Fairness

-----------------------------------------------------------------------------
TypeOK ==
  /\ unlocked \in BOOLEAN /\ epoch \in Nat /\ vaultRevision \in Nat
  /\ live \in [Handlers -> Nat \cup {None}]
  /\ locking \in [Lockers -> {"no", "unlocked", "locked"}]
  /\ document \in [revision : Nat, count : [Events -> Nat], markers : Seq(Events)]
  /\ buckets \in Seq(Buckets) /\ timer \in BOOLEAN
  /\ flushTail \in Seq({"background", "scope"}) /\ flush \in Flushes \cup {None}
  /\ quit \in {"no", "preparing", "exited"}
  /\ cast \in [handlers : SUBSET Handlers, faults : Nat]
  /\ used \subseteq Events /\ fresh \subseteq used /\ dropped \subseteq used

\* A use is in at most one bucket, and a bucket on disk is there with all its uses.
BucketsAgree ==
  /\ \A i, j \in 1..Len(buckets) : i # j => buckets[i].events \cap buckets[j].events = {}
  /\ \A b \in ToSet(buckets) : \A e \in b.events :
       document.count[e] = IF b.id \in ToSet(document.markers) THEN 1 ELSE 0

\* Every use is counted at most once, and it is counted, pending, or was discarded or
\* lost with a process: whatever fails, is retried or locks in between.
UsageCountedOnce ==
  \A e \in used : /\ document.count[e] <= 1
                   /\ (e \in Pending \cup dropped \/ document.count[e] = 1)

\* While unlocked the revision the main process compares with is the document's; only
\* a usage batch that reached the disk unseen may leave it behind.
RevisionFollowsDocument ==
  unlocked => \/ vaultRevision = document.revision
              \/ \E e \in Pending \cup dropped : document.count[e] = 1

\* A bucket is named by a use of its own; one that is on disk already is the first, and
\* no use joins it.
BucketsInOrder ==
  \A i \in 1..Len(buckets) :
    /\ buckets[i].id \in buckets[i].events /\ buckets[i].events \subseteq used
    /\ buckets[i].id \in ToSet(document.markers) => i = 1 /\ buckets[i].attempted

\* What is left of the buckets a flush found stands before those that came later; the
\* flush is at the first.
FlushInOrder ==
  flush # None =>
    /\ flush.targets \subseteq used
    /\ buckets # <<>> /\ buckets[1].attempted /\ buckets[1].id \in flush.targets
    /\ \A i \in 1..Len(buckets), j \in 1..Len(buckets) :
         j < i /\ buckets[i].id \in flush.targets => buckets[j].id \in flush.targets

\* Nothing is counted or marked that was not used, and no revision is published that is
\* not there.
NothingInvented ==
  /\ ToSet(document.markers) \subseteq used
  /\ \A e \in Events \ used : document.count[e] = 0
  /\ vaultRevision <= document.revision

\* No unlock gets through while a lock waits.
LockedOut == Locking => ~unlocked

IInv ==
  /\ TypeOK /\ LockedOut
  /\ BucketsAgree /\ UsageCountedOnce /\ RevisionFollowsDocument
  /\ BucketsInOrder /\ FlushInOrder /\ NothingInvented

\* Usage recorded in a session that goes on does not wait for ever.
UsageSettles ==
  \A e \in Events : (e \in fresh \cap Pending) ~> (e \notin fresh \cap Pending \/ ~unlocked)

\* "remains queued with an idempotency marker for the next unlock" (index.ts:643).
QueuedUsageSettles ==
  \A e \in Events : (e \in Pending /\ unlocked) ~> (e \notin Pending \/ ~unlocked)

\* A quit ends, even when a dialog keeps the lock waiting.
QuitEnds == quit = "preparing" ~> quit # "preparing"
=============================================================================
