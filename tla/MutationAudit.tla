---------------------------- MODULE MutationAudit ----------------------------
(***************************************************************************)
(* From a committed change of the vault to its entry in the audit log: the *)
(* receipts that the document carries (vaultMutationReceipts.ts), the      *)
(* queue of audit appends, the guard that suppresses them after a failure  *)
(* (auditFailureGuard.ts), and the reconciliation that every unlock        *)
(* schedules (index.ts).                                                   *)
(*                                                                         *)
(* One vault, one audit entry for each change.  The log itself is the      *)
(* subject of AuditLog: here an append either adds its entry or fails.     *)
(***************************************************************************)
EXTENDS Naturals, Sequences, SequencesExt, FiniteSets

CONSTANTS Mutations,
          Probe,          \* the audit event of a setup or an unlock
          ReceiptLimits,  \* values of MAX_RECENT_MUTATION_RECEIPTS
          MaxEpoch,       \* bound: session boundaries
          MaxFaults       \* bound: failed appends, failed reads and crashes

VARIABLES
  limit,      \* MAX_RECENT_MUTATION_RECEIPTS of the behaviour
  receipts,   \* the document's receipts, oldest first
  entries,    \* the log's entries for changes, oldest first
  queue,      \* appends that were recorded
  blocked,    \* the guard suppresses appends
  locking,    \* the guard is about to lock the session
  unlocked, epoch,
  handler,    \* by change: what its handler has done
  scheduled,  \* reconciliations that wait for their turn
  recon,      \* the reconciliation that runs
  faults

guard   == <<blocked, locking>>
session == <<unlocked, epoch>>
vars == <<limit, receipts, entries, queue, guard, session, handler, scheduled, recon, faults>>

ASSUME BoundsAssumption ==
  /\ Probe \notin Mutations
  /\ ReceiptLimits \subseteq Nat \ {0} /\ MaxEpoch \in Nat /\ MaxFaults \in Nat

NoRecon == [at |-> "idle", epoch |-> 0, ahead |-> 0, published |-> {}]

TypeOK ==
  /\ limit \in ReceiptLimits
  /\ receipts \in Seq(Mutations) /\ Len(receipts) <= limit
  /\ entries \in Seq(Mutations)
  /\ queue \in Seq(Mutations \cup {Probe})
  /\ blocked \in BOOLEAN /\ locking \in BOOLEAN
  /\ unlocked \in BOOLEAN /\ epoch \in 0..MaxEpoch
  /\ handler \in [Mutations -> {"unused", "committed", "done"}]
  /\ scheduled \in 0..MaxEpoch
  /\ recon \in [at : {"idle", "flush", "compare", "done"}, epoch : 0..MaxEpoch,
                ahead : 0..Len(queue), published : SUBSET Mutations]
  /\ faults \in 0..MaxFaults

Init ==
  /\ limit \in ReceiptLimits
  /\ receipts = <<>> /\ entries = <<>> /\ queue = <<>>
  /\ blocked = FALSE /\ locking = FALSE
  /\ unlocked = FALSE /\ epoch = 0
  /\ handler = [m \in Mutations |-> "unused"]
  /\ scheduled = 0 /\ recon = NoRecon /\ faults = 0

-----------------------------------------------------------------------------
\* Without a key the event is skipped.
recordAudit(events) == queue' = IF unlocked THEN queue \o events ELSE queue

WithReceipt(m) ==
  LET all == Append(receipts, m)
  IN SubSeq(all, IF Len(all) > limit THEN Len(all) - limit + 1 ELSE 1, Len(all))

\* The rename that commits a change and its receipt, in the session it was asked in ...
Commit(m) ==
  /\ handler[m] = "unused" /\ unlocked
  /\ handler' = [handler EXCEPT ![m] = "committed"]
  /\ receipts' = WithReceipt(m)
  /\ UNCHANGED <<limit, entries, queue, guard, session, scheduled, recon, faults>>

\* Mutant of Publish: the entry is left to the next reconciliation.
PublishLater(m) ==
  /\ handler[m] = "committed"
  /\ handler' = [handler EXCEPT ![m] = "done"]
  /\ UNCHANGED <<limit, receipts, entries, queue, guard, session, scheduled, recon, faults>>

\* ... and the handler's publication, which a lock may overtake.
Publish(m) ==
  /\ handler[m] = "committed"
  /\ handler' = [handler EXCEPT ![m] = "done"]
  /\ recordAudit(<<m>>)
  /\ UNCHANGED <<limit, receipts, entries, guard, session, scheduled, recon, faults>>

-----------------------------------------------------------------------------
\* The queue of appends

Dequeue ==
  /\ queue' = Tail(queue)
  /\ recon' = [recon EXCEPT !.ahead = IF @ > 0 THEN @ - 1 ELSE 0]

\* Only a setup's or an unlock's event passes the guard, and its success lifts it.
shouldAttempt(event) == ~blocked \/ event = Probe

AppendEvent ==
  /\ queue # <<>>
  /\ Dequeue
  /\ entries' = IF Head(queue) # Probe /\ shouldAttempt(Head(queue))
                THEN Append(entries, Head(queue)) ELSE entries
  /\ blocked' = (blocked /\ Head(queue) # Probe)
  /\ UNCHANGED <<limit, receipts, locking, session, handler, scheduled, faults>>

\* The guard blocks and locks the session soon after.
markFailed == blocked' = TRUE /\ locking' = TRUE /\ faults' = faults + 1

AppendFails ==
  /\ queue # <<>> /\ shouldAttempt(Head(queue)) /\ faults < MaxFaults
  /\ Dequeue
  /\ markFailed
  /\ UNCHANGED <<limit, receipts, entries, session, handler, scheduled>>

-----------------------------------------------------------------------------
\* The session

Boundary(open) == epoch < MaxEpoch /\ epoch' = epoch + 1 /\ unlocked' = open

\* A lock waits for the operations it found; the next unlock comes after that.
Running == recon.at \in {"flush", "compare"}
Drained == ~Running /\ \A m \in Mutations : handler[m] # "committed"

\* An unlock with the password, Touch ID or a setup records its event and schedules a
\* reconciliation in one turn; a recovery with the kit records another event.
Unlock ==
  /\ ~unlocked /\ Drained
  /\ Boundary(TRUE)
  /\ scheduled' = scheduled + 1
  /\ queue' \in {Append(queue, Probe), queue}
  /\ UNCHANGED <<limit, receipts, entries, guard, handler, recon, faults>>

Lock ==
  /\ unlocked
  /\ Boundary(FALSE)
  /\ UNCHANGED <<limit, receipts, entries, queue, guard, handler, scheduled, recon, faults>>

\* A switch of the active vault ends what the session's leases allow.
RotateScope ==
  /\ unlocked
  /\ Boundary(TRUE)
  /\ UNCHANGED <<limit, receipts, entries, queue, guard, handler, scheduled, recon, faults>>

FailSecureLock ==
  /\ locking
  /\ locking' = FALSE
  /\ IF unlocked THEN Boundary(FALSE) ELSE UNCHANGED session
  /\ UNCHANGED <<limit, receipts, entries, queue, blocked, handler, scheduled, recon, faults>>

\* What was queued, published or being reconciled is lost with the process.
Crash ==
  /\ faults < MaxFaults /\ faults' = faults + 1
  /\ epoch < MaxEpoch /\ epoch' = epoch + 1 /\ unlocked' = FALSE
  /\ queue' = <<>> /\ blocked' = FALSE /\ locking' = FALSE
  /\ handler' = [m \in Mutations |-> IF handler[m] = "committed" THEN "done" ELSE handler[m]]
  /\ scheduled' = 0 /\ recon' = NoRecon
  /\ UNCHANGED <<limit, receipts, entries>>

-----------------------------------------------------------------------------
\* The reconciliation

LeaseCurrent == unlocked /\ recon.epoch = epoch

\* It takes the session's key, if there is one, and waits for the appends queued so far.
Reconcile ==
  /\ scheduled > 0 /\ ~Running
  /\ scheduled' = scheduled - 1
  /\ recon' = IF unlocked
              THEN [at |-> "flush", epoch |-> epoch, ahead |-> Len(queue), published |-> {}]
              ELSE NoRecon
  /\ UNCHANGED <<limit, receipts, entries, queue, guard, session, handler, faults>>

\* It reads the log ...
ReadLog ==
  /\ recon.at = "flush" /\ recon.ahead = 0 /\ LeaseCurrent
  /\ recon' = [recon EXCEPT !.at = "compare", !.published = ToSet(entries)]
  /\ UNCHANGED <<limit, receipts, entries, queue, guard, session, handler, scheduled, faults>>

Before(m, n) ==
  \E i, j \in DOMAIN receipts : i < j /\ receipts[i] = m /\ receipts[j] = n

\* Mutant of Pending: the last receipt stands for all.
PendingLast(published) ==
  {IF receipts = <<>> \/ Last(receipts) \in published THEN <<>> ELSE <<Last(receipts)>>}

\* The receipts without an entry, in their order: a set of one sequence.
Pending(published) ==
  LET due == ToSet(receipts) \ published
  IN {s \in SeqOf(due, Len(receipts)) :
        /\ ToSet(s) = due
        /\ \A i, j \in DOMAIN s : i < j => Before(s[i], s[j])}

\* ... then the document, and records the entries that the log did not have.
Compare ==
  /\ recon.at = "compare" /\ LeaseCurrent
  /\ \E missing \in Pending(recon.published) : recordAudit(missing)
  /\ recon' = [recon EXCEPT !.at = "done"]
  /\ UNCHANGED <<limit, receipts, entries, guard, session, handler, scheduled, faults>>

\* The session changed under it.
Abandon ==
  /\ Running /\ ~LeaseCurrent /\ recon.ahead = 0
  /\ recon' = NoRecon
  /\ UNCHANGED <<limit, receipts, entries, queue, guard, session, handler, scheduled, faults>>

\* The log or the vault cannot be read.
ReconcileFails ==
  /\ Running /\ LeaseCurrent /\ recon.ahead = 0 /\ faults < MaxFaults
  /\ recon' = NoRecon
  /\ markFailed
  /\ UNCHANGED <<limit, receipts, entries, queue, session, handler, scheduled>>

Next ==
  \/ \E m \in Mutations : Commit(m) \/ Publish(m)
  \/ AppendEvent \/ AppendFails
  \/ Unlock \/ Lock \/ RotateScope \/ FailSecureLock \/ Crash
  \/ Reconcile \/ ReadLog \/ Compare \/ Abandon \/ ReconcileFails

Spec == Init /\ [][Next]_vars

\* A handler runs to its end, the queues are worked off, and a lock that was begun
\* takes effect.
Fairness ==
  /\ \A m \in Mutations : WF_vars(Publish(m))
  /\ WF_vars(AppendEvent)
  /\ WF_vars(FailSecureLock)
  /\ WF_vars(Reconcile)
  /\ WF_vars(ReadLog)
  /\ WF_vars(Compare)
  /\ WF_vars(Abandon)

FairSpec == Spec /\ Fairness

-----------------------------------------------------------------------------
Audited(m) == m \in ToSet(entries)

\* Once the session's reconciliation is over and unless the guard blocks, no change the
\* document remembers is without its entry, whatever earlier sessions lost.
ReconciledSession ==
  recon.at = "done" /\ LeaseCurrent /\ ~blocked =>
    \A m \in ToSet(receipts) : Audited(m) \/ m \in ToSet(queue) \/ handler[m] = "committed"

\* What a reconciliation read of the log is still there.
LogGrows == recon.published \subseteq ToSet(entries)

\* A reconciliation waits for the events that may lift the guard in its session: what the
\* guard suppresses after that stays suppressed until the next one.
ProbesAhead ==
  recon.at # "idle" /\ LeaseCurrent =>
    \A i \in 1..Len(queue) : queue[i] = Probe => recon.at = "flush" /\ i <= recon.ahead

\* Nothing runs or is scheduled ahead of the session's boundaries.
NotAhead == recon.epoch <= epoch /\ scheduled <= epoch

IInv == TypeOK /\ ReconciledSession /\ LogGrows /\ ProbesAhead /\ NotAhead

\* "without duplicating already-published receipt entries"
\* (vaultMutationReceipts.ts:176-180): no change is in the log twice.
PublishedOnce == Len(entries) = Cardinality(ToSet(entries))

\* A change gets its entry once it is committed, or once a reconciliation is scheduled
\* though publication, crash or failure lost it before, unless the session meets a
\* boundary (a switch ends a reconciliation and schedules no other), the guard blocks
\* or later changes evict the receipt.
EventuallyAudited ==
  \A m \in Mutations, e \in 1..MaxEpoch :
    /\ m \in ToSet(receipts) /\ unlocked /\ epoch = e
    /\ scheduled > 0 \/ handler[m] = "committed"
    ~> Audited(m) \/ epoch # e \/ blocked \/ m \notin ToSet(receipts)
=============================================================================
