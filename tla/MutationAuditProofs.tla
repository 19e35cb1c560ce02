-------------------------- MODULE MutationAuditProofs --------------------------
(* Proofs about MutationAudit, for any changes, ring sizes and bounds.          *)
EXTENDS MutationAudit, SequenceTheorems, TLAPS

Queued == Mutations \cup {Probe}

-----------------------------------------------------------------------------
\* The members of sequences

LEMMA SeqFacts ==
  ASSUME NEW S, NEW s \in Seq(S)
  PROVE  /\ Len(s) \in Nat /\ DOMAIN s = 1..Len(s)
         /\ s # <<>> <=> Len(s) > 0
         /\ ToSet(s) = {s[i] : i \in 1..Len(s)}
         /\ ToSet(s) \subseteq S
<1>1. Len(s) \in Nat /\ DOMAIN s = 1..Len(s) /\ \A i \in 1..Len(s) : s[i] \in S
  BY LenProperties, ElementOfSeq
<1>2. s # <<>> <=> Len(s) > 0
  BY <1>1, EmptySeq
<1>3. ToSet(s) = {s[i] : i \in 1..Len(s)}
  BY <1>1 DEF ToSet
<1>4. QED
  BY <1>1, <1>2, <1>3

LEMMA ConcatFacts ==
  ASSUME NEW S, NEW s \in Seq(S), NEW t \in Seq(S)
  PROVE  /\ s \o t \in Seq(S) /\ ToSet(s \o t) = ToSet(s) \cup ToSet(t)
         /\ Len(s \o t) = Len(s) + Len(t)
         /\ \A i \in 1..Len(s) : (s \o t)[i] = s[i]
         /\ \A i \in 1..Len(s \o t) : i > Len(s) => (s \o t)[i] \in ToSet(t)
<1>1. /\ s \o t \in Seq(S) /\ Len(s \o t) = Len(s) + Len(t)
      /\ \A i \in 1..(Len(s) + Len(t)) :
           (s \o t)[i] = IF i <= Len(s) THEN s[i] ELSE t[i - Len(s)]
  BY ConcatProperties
<1> DEFINE r == s \o t
<1>0. r \in Seq(S) /\ Len(r) = Len(s) + Len(t)
  BY <1>1
<1> HIDE DEF r
<1>2. /\ Len(s) \in Nat /\ Len(t) \in Nat /\ r \in Seq(S) /\ Len(r) = Len(s) + Len(t)
      /\ ToSet(r) = {r[i] : i \in 1..Len(r)}
      /\ ToSet(s) = {s[i] : i \in 1..Len(s)} /\ ToSet(t) = {t[i] : i \in 1..Len(t)}
  BY <1>0, SeqFacts
<1>3. /\ \A i \in 1..Len(s) : i \in 1..Len(r) /\ r[i] = s[i]
      /\ \A i \in 1..Len(t) : i + Len(s) \in 1..Len(r) /\ r[i + Len(s)] = t[i]
      /\ \A i \in 1..Len(r) : i > Len(s) => i - Len(s) \in 1..Len(t) /\ r[i] = t[i - Len(s)]
  BY <1>1, <1>2 DEF r
<1>4. ToSet(s) \subseteq ToSet(r) /\ ToSet(t) \subseteq ToSet(r)
  BY <1>2, <1>3
<1>5. ASSUME NEW i \in 1..Len(r) PROVE r[i] \in ToSet(s) \cup ToSet(t)
  <2>1. i \in 1..Len(s) \/ i > Len(s)
    BY <1>2
  <2>2. QED
    BY <1>2, <1>3, <2>1
<1>6. ToSet(r) = ToSet(s) \cup ToSet(t)
  BY <1>2, <1>4, <1>5
<1>7. QED
  BY <1>2, <1>3, <1>6 DEF r

LEMMA AppendFacts ==
  ASSUME NEW S, NEW s \in Seq(S), NEW e \in S
  PROVE  /\ Append(s, e) \in Seq(S) /\ ToSet(Append(s, e)) = ToSet(s) \cup {e}
         /\ Len(Append(s, e)) = Len(s) + 1
         /\ \A i \in 1..Len(s) : Append(s, e)[i] = s[i]
<1>1. /\ Append(s, e) \in Seq(S) /\ Len(Append(s, e)) = Len(s) + 1
      /\ \A i \in 1..Len(s) : Append(s, e)[i] = s[i]
      /\ Append(s, e)[Len(s) + 1] = e
  BY AppendProperties
<1> DEFINE r == Append(s, e)
<1>0. r \in Seq(S)
  BY <1>1
<1> HIDE DEF r
<1>2. /\ Len(s) \in Nat
      /\ ToSet(r) = {r[i] : i \in 1..Len(r)} /\ ToSet(s) = {s[i] : i \in 1..Len(s)}
  BY <1>0, SeqFacts
<1>3. Len(r) = Len(s) + 1 /\ (\A i \in 1..Len(s) : r[i] = s[i]) /\ r[Len(s) + 1] = e
  BY <1>1 DEF r
<1>4. /\ Len(s) + 1 \in 1..Len(r) /\ \A i \in 1..Len(s) : i \in 1..Len(r)
      /\ \A i \in 1..Len(r) : i \in 1..Len(s) \/ i = Len(s) + 1
  BY <1>2, <1>3
<1>5. ToSet(r) = ToSet(s) \cup {e}
  BY <1>2, <1>3, <1>4
<1>6. QED
  BY <1>1, <1>5 DEF r

LEMMA TailFacts ==
  ASSUME NEW S, NEW s \in Seq(S), s # <<>>
  PROVE  /\ Head(s) \in S /\ Head(s) = s[1] /\ Tail(s) \in Seq(S)
         /\ Len(Tail(s)) = Len(s) - 1 /\ Len(s) > 0
         /\ \A i \in 1..Len(Tail(s)) : Tail(s)[i] = s[i + 1]
         /\ ToSet(s) = {Head(s)} \cup ToSet(Tail(s))
<1>1. /\ Head(s) \in S /\ Tail(s) \in Seq(S) /\ Len(Tail(s)) = Len(s) - 1
      /\ \A i \in 1..Len(Tail(s)) : Tail(s)[i] = s[i + 1]
  BY HeadTailProperties
<1>2. Head(s) = s[1]
  OBVIOUS
<1> DEFINE r == Tail(s)
<1>0. r \in Seq(S)
  BY <1>1
<1> HIDE DEF r
<1>3. /\ Len(s) \in Nat /\ Len(s) > 0
      /\ ToSet(r) = {r[i] : i \in 1..Len(r)} /\ ToSet(s) = {s[i] : i \in 1..Len(s)}
  BY <1>0, SeqFacts
<1>4. Len(r) = Len(s) - 1 /\ \A i \in 1..Len(r) : r[i] = s[i + 1]
  BY <1>1 DEF r
<1>5. /\ 1 \in 1..Len(s)
      /\ \A i \in 1..Len(r) : i + 1 \in 1..Len(s)
      /\ \A i \in 1..Len(s) : i = 1 \/ (i - 1 \in 1..Len(r) /\ r[i - 1] = s[i])
  BY <1>3, <1>4
<1>6. ToSet(s) = {Head(s)} \cup ToSet(r)
  BY <1>2, <1>3, <1>4, <1>5
<1>7. QED
  BY <1>1, <1>2, <1>3, <1>6 DEF r

LEMMA ShortFacts ==
  /\ ToSet(<<>>) = {} /\ Len(<<>>) = 0
  /\ \A S : <<>> \in Seq(S)
  /\ \A S : \A e \in S : <<e>> \in Seq(S) /\ ToSet(<<e>>) = {e}
<1>1. Len(<<>>) = 0 /\ \A S : <<>> \in Seq(S)
  BY EmptySeq
<1>2. ToSet(<<>>) = {}
  BY <1>1, EmptySeq DEF ToSet
<1>3. ASSUME NEW S, NEW e \in S PROVE <<e>> \in Seq(S) /\ ToSet(<<e>>) = {e}
  BY DEF ToSet
<1>4. QED
  BY <1>1, <1>2, <1>3

-----------------------------------------------------------------------------
\* A change leaves its receipt, and no receipt is new but that.
LEMMA ReceiptFacts ==
  ASSUME TypeOK, NEW m \in Mutations
  PROVE  /\ WithReceipt(m) \in Seq(Mutations) /\ Len(WithReceipt(m)) <= limit
         /\ ToSet(WithReceipt(m)) \subseteq ToSet(receipts) \cup {m}
<1> DEFINE all  == Append(receipts, m)
           from == IF Len(all) > limit THEN Len(all) - limit + 1 ELSE 1
           kept == SubSeq(all, from, Len(all))
<1>1. /\ receipts \in Seq(Mutations) /\ Len(receipts) \in Nat /\ Len(receipts) <= limit
      /\ limit \in Nat /\ limit > 0
  BY BoundsAssumption, SeqFacts DEF TypeOK
<1>2. /\ all \in Seq(Mutations) /\ Len(all) = Len(receipts) + 1
      /\ ToSet(all) = ToSet(receipts) \cup {m}
  BY <1>1, AppendFacts
<1> HIDE DEF all
<1>3. /\ from \in Nat /\ from >= 1 /\ from <= Len(all) /\ Len(all) - from + 1 <= limit
      /\ Len(all) \in Nat
  BY <1>1, <1>2
<1> HIDE DEF from
<1>4. ToSet(all) = {all[i] : i \in 1..Len(all)} /\ \A i \in 1..Len(all) : all[i] \in Mutations
  BY <1>2, SeqFacts, ElementOfSeq
<1>5. /\ kept \in Seq(Mutations)
      /\ Len(kept) = IF from <= Len(all) THEN Len(all) - from + 1 ELSE 0
      /\ \A i \in 1..(Len(all) - from + 1) : kept[i] = all[from + i - 1]
  <2>1. \A i \in from..Len(all) : all[i] \in Mutations
    BY <1>3, <1>4
  <2>2. QED
    BY <1>3, <2>1, SubSeqProperties
<1>6. WithReceipt(m) = kept
  BY DEF WithReceipt, kept, from, all
<1> HIDE DEF kept
<1>7. ToSet(kept) = {kept[i] : i \in 1..Len(kept)}
  BY <1>5, SeqFacts
<1>8. ASSUME NEW i \in 1..Len(kept) PROVE kept[i] \in ToSet(all)
  <2>1. from + i - 1 \in 1..Len(all) /\ kept[i] = all[from + i - 1]
    BY <1>3, <1>5
  <2>2. QED
    BY <1>4, <2>1
<1>9. QED
  BY <1>2, <1>3, <1>5, <1>6, <1>7, <1>8

\* The reconciliation records every receipt that it did not find, and nothing else.
LEMMA PendingFacts ==
  ASSUME TypeOK, NEW published, NEW missing \in Pending(published)
  PROVE  /\ missing \in Seq(Queued) /\ ToSet(missing) = ToSet(receipts) \ published
         /\ Probe \notin ToSet(missing)
<1> DEFINE due == ToSet(receipts) \ published
<1>1. missing \in SeqOf(due, Len(receipts)) /\ ToSet(missing) = due
  BY DEF Pending
<1>2. receipts \in Seq(Mutations) /\ Len(receipts) \in Nat /\ due \subseteq Mutations
  BY SeqFacts DEF TypeOK
<1> HIDE DEF due
<1>3. PICK n \in 0..Len(receipts) : missing \in [1..n -> due]
  BY <1>1 DEF SeqOf
<1>4. missing \in [1..n -> Queued] /\ n \in Nat
  BY <1>2, <1>3 DEF Queued
<1>5. missing \in Seq(Queued)
  BY <1>4
<1>6. Probe \notin due
  BY <1>2, BoundsAssumption
<1>7. QED
  BY <1>1, <1>5, <1>6 DEF due

LEMMA RecordFacts ==
  ASSUME TypeOK, NEW events \in Seq(Queued), recordAudit(events)
  PROVE  /\ queue' \in Seq(Queued) /\ Len(queue) \in Nat
         /\ ToSet(queue) \subseteq ToSet(queue') /\ Len(queue') >= Len(queue)
         /\ unlocked => ToSet(queue') = ToSet(queue) \cup ToSet(events)
         /\ \A i \in 1..Len(queue) : queue'[i] = queue[i]
         /\ \A i \in 1..Len(queue') : i > Len(queue) => queue'[i] \in ToSet(events)
<1>1. queue \in Seq(Queued) /\ Len(queue) \in Nat /\ Len(events) \in Nat
  BY SeqFacts DEF TypeOK, Queued
<1>2. CASE unlocked
  <2>1. queue' = queue \o events
    BY <1>2 DEF recordAudit
  <2>2. QED
    BY <1>1, <1>2, <2>1, ConcatFacts
<1>3. CASE ~unlocked
  <2>1. queue' = queue
    BY <1>3 DEF recordAudit
  <2>2. QED
    BY <1>1, <1>3, <2>1
<1>4. QED
  BY <1>2, <1>3

-----------------------------------------------------------------------------
LEMMA InitIInv == Init => IInv
<1> SUFFICES ASSUME Init PROVE IInv
  OBVIOUS
<1>1. TypeOK
  <2>1. /\ receipts \in Seq(Mutations) /\ Len(receipts) = 0 /\ entries \in Seq(Mutations)
        /\ queue \in Seq(Mutations \cup {Probe}) /\ Len(queue) = 0
    BY ShortFacts DEF Init
  <2>2. limit \in ReceiptLimits /\ limit \in Nat
    BY BoundsAssumption DEF Init
  <2>3. /\ 0 \in 0..MaxEpoch /\ 0 \in 0..MaxFaults
    BY BoundsAssumption
  <2>4. recon \in [at : {"idle", "flush", "compare", "done"}, epoch : 0..MaxEpoch,
                   ahead : 0..Len(queue), published : SUBSET Mutations]
    BY <2>1, <2>3 DEF Init, NoRecon
  <2>5. /\ blocked \in BOOLEAN /\ locking \in BOOLEAN /\ unlocked \in BOOLEAN
        /\ epoch \in 0..MaxEpoch /\ scheduled \in 0..MaxEpoch /\ faults \in 0..MaxFaults
        /\ handler \in [Mutations -> {"unused", "committed", "done"}]
    BY <2>3 DEF Init
  <2>6. QED
    BY <2>1, <2>2, <2>4, <2>5 DEF TypeOK
<1>2. ReconciledSession /\ LogGrows /\ ProbesAhead /\ NotAhead
  BY BoundsAssumption DEF Init, ReconciledSession, LogGrows, ProbesAhead, NotAhead,
                          LeaseCurrent, NoRecon
<1>3. QED
  BY <1>1, <1>2 DEF IInv

\* A boundary, or the end of the session, leaves the reconciliation without a lease.
LEMMA UnleasedIInv ==
  ASSUME IInv, TypeOK', ~LeaseCurrent', LogGrows', NotAhead'
  PROVE  IInv'
BY DEF IInv, ReconciledSession, ProbesAhead

LEMMA OverIInv ==
  ASSUME IInv, TypeOK', recon' = NoRecon, NotAhead'
  PROVE  IInv'
<1>1. ReconciledSession' /\ ProbesAhead' /\ LogGrows'
  BY DEF ReconciledSession, ProbesAhead, LogGrows, NoRecon
<1>2. QED
  BY <1>1 DEF IInv

-----------------------------------------------------------------------------
LEMMA CommitIInv == ASSUME IInv, NEW m \in Mutations, Commit(m) PROVE IInv'
<1>1. /\ TypeOK /\ handler' = [handler EXCEPT ![m] = "committed"]
      /\ receipts' = WithReceipt(m)
      /\ UNCHANGED <<limit, entries, queue, guard, session, scheduled, recon, faults>>
  BY DEF IInv, Commit
<1>2. /\ receipts' \in Seq(Mutations) /\ Len(receipts') <= limit
      /\ ToSet(receipts') \subseteq ToSet(receipts) \cup {m}
  BY <1>1, ReceiptFacts
<1>3. handler' \in [Mutations -> {"unused", "committed", "done"}]
      /\ handler'[m] = "committed" /\ \A n \in Mutations \ {m} : handler'[n] = handler[n]
  BY <1>1 DEF TypeOK
<1>4. TypeOK'
  BY <1>1, <1>2, <1>3 DEF TypeOK, guard, session
<1>5. ReconciledSession'
  <2>1. SUFFICES ASSUME recon.at = "done", LeaseCurrent, ~blocked, NEW n \in ToSet(receipts')
                 PROVE  n \in ToSet(entries) \/ n \in ToSet(queue) \/ handler'[n] = "committed"
    BY <1>1 DEF ReconciledSession, Audited, LeaseCurrent, guard, session
  <2>2. CASE n = m
    BY <1>3, <2>2
  <2>3. CASE n # m
    <3>1. n \in ToSet(receipts) /\ n \in Mutations
      BY <1>1, <1>2, <2>1, <2>3, SeqFacts DEF TypeOK
    <3>2. QED
      BY <1>3, <2>1, <2>3, <3>1 DEF IInv, ReconciledSession, Audited
  <2>4. QED
    BY <2>2, <2>3
<1>6. LogGrows' /\ ProbesAhead' /\ NotAhead'
  BY <1>1 DEF IInv, LogGrows, ProbesAhead, NotAhead, LeaseCurrent, session
<1>7. QED
  BY <1>4, <1>5, <1>6 DEF IInv

LEMMA PublishIInv == ASSUME IInv, NEW m \in Mutations, Publish(m) PROVE IInv'
<1>1. /\ TypeOK /\ handler' = [handler EXCEPT ![m] = "done"]
      /\ recordAudit(<<m>>)
      /\ UNCHANGED <<limit, receipts, entries, guard, session, scheduled, recon, faults>>
  BY DEF IInv, Publish
<1>2. <<m>> \in Seq(Queued) /\ ToSet(<<m>>) = {m} /\ m # Probe
  BY ShortFacts, BoundsAssumption DEF Queued
<1>3. /\ queue' \in Seq(Queued) /\ Len(queue) \in Nat
      /\ ToSet(queue) \subseteq ToSet(queue') /\ Len(queue') >= Len(queue)
      /\ unlocked => ToSet(queue') = ToSet(queue) \cup {m}
      /\ \A i \in 1..Len(queue) : queue'[i] = queue[i]
      /\ \A i \in 1..Len(queue') : i > Len(queue) => queue'[i] = m
  BY <1>1, <1>2, RecordFacts
<1>4. handler' \in [Mutations -> {"unused", "committed", "done"}]
      /\ \A n \in Mutations \ {m} : handler'[n] = handler[n]
  BY <1>1 DEF TypeOK
<1>5. Len(queue') \in Nat
  BY <1>3, SeqFacts
<1>6. recon' \in [at : {"idle", "flush", "compare", "done"}, epoch : 0..MaxEpoch,
                  ahead : 0..Len(queue'), published : SUBSET Mutations]
  BY <1>1, <1>3, <1>5 DEF TypeOK
<1>7. TypeOK'
  BY <1>1, <1>3, <1>4, <1>6 DEF TypeOK, guard, session, Queued
<1>8. ReconciledSession'
  <2>1. SUFFICES ASSUME recon.at = "done", LeaseCurrent, ~blocked, NEW n \in ToSet(receipts)
                 PROVE  n \in ToSet(entries) \/ n \in ToSet(queue') \/ handler'[n] = "committed"
    BY <1>1 DEF ReconciledSession, Audited, LeaseCurrent, guard, session
  <2>2. CASE n = m
    BY <1>3, <2>1, <2>2 DEF LeaseCurrent
  <2>3. CASE n # m
    <3>1. n \in Mutations
      BY <1>1, <2>1, SeqFacts DEF TypeOK
    <3>2. QED
      BY <1>3, <1>4, <2>1, <2>3, <3>1 DEF IInv, ReconciledSession, Audited
  <2>4. QED
    BY <2>2, <2>3
<1>9. ProbesAhead'
  <2>1. SUFFICES ASSUME recon.at # "idle", LeaseCurrent,
                        NEW i \in 1..Len(queue'), queue'[i] = Probe
                 PROVE  recon.at = "flush" /\ i <= recon.ahead
    BY <1>1 DEF ProbesAhead, LeaseCurrent, session
  <2>2. i \in 1..Len(queue) /\ queue[i] = Probe
    BY <1>2, <1>3, <1>5, <2>1
  <2>3. QED
    BY <2>1, <2>2 DEF IInv, ProbesAhead
<1>10. LogGrows' /\ NotAhead'
  BY <1>1 DEF IInv, LogGrows, NotAhead, session
<1>11. QED
  BY <1>7, <1>8, <1>9, <1>10 DEF IInv

-----------------------------------------------------------------------------
\* An append leaves the queue.
LEMMA DequeueFacts ==
  ASSUME TypeOK, queue # <<>>, Dequeue
  PROVE  /\ queue' \in Seq(Queued) /\ Len(queue') = Len(queue) - 1
         /\ Head(queue) \in Queued
         /\ ToSet(queue) = {Head(queue)} \cup ToSet(queue')
         /\ recon' \in [at : {"idle", "flush", "compare", "done"}, epoch : 0..MaxEpoch,
                         ahead : 0..Len(queue'), published : SUBSET Mutations]
         /\ recon'.at = recon.at /\ recon'.epoch = recon.epoch
         /\ recon'.published = recon.published
         /\ ProbesAhead /\ epoch' = epoch /\ unlocked' = unlocked => ProbesAhead'
         /\ ProbesAhead /\ recon.at = "done" /\ LeaseCurrent => Head(queue) # Probe
<1>1. queue \in Seq(Queued)
  BY DEF TypeOK, Queued
<1>2. /\ queue' \in Seq(Queued) /\ Len(queue') = Len(queue) - 1 /\ Len(queue) > 0
      /\ Head(queue) \in Queued /\ Head(queue) = queue[1]
      /\ \A i \in 1..Len(queue') : queue'[i] = queue[i + 1]
      /\ ToSet(queue) = {Head(queue)} \cup ToSet(queue')
  BY <1>1, TailFacts DEF Dequeue
<1>3. Len(queue) \in Nat /\ Len(queue') \in Nat
  BY <1>1, <1>2, SeqFacts
<1>4. recon' = [recon EXCEPT !.ahead = IF recon.ahead > 0 THEN recon.ahead - 1 ELSE 0]
  BY DEF Dequeue
<1>5. /\ recon \in [at : {"idle", "flush", "compare", "done"}, epoch : 0..MaxEpoch,
                     ahead : 0..Len(queue), published : SUBSET Mutations]
      /\ recon.ahead \in 0..Len(queue)
  BY DEF TypeOK
<1>6. PICK n \in 0..Len(queue') : n = IF recon.ahead > 0 THEN recon.ahead - 1 ELSE 0
  BY <1>2, <1>3, <1>5
<1>7. /\ recon' \in [at : {"idle", "flush", "compare", "done"}, epoch : 0..MaxEpoch,
                      ahead : 0..Len(queue'), published : SUBSET Mutations]
      /\ recon'.at = recon.at /\ recon'.epoch = recon.epoch
      /\ recon'.published = recon.published /\ recon'.ahead = n
  BY <1>4, <1>5, <1>6
<1>8. ASSUME ProbesAhead, epoch' = epoch, unlocked' = unlocked PROVE ProbesAhead'
  <2>1. SUFFICES ASSUME recon.at # "idle", LeaseCurrent,
                        NEW i \in 1..Len(queue'), queue'[i] = Probe
                 PROVE  recon.at = "flush" /\ i <= n
    BY <1>7, <1>8 DEF ProbesAhead, LeaseCurrent
  <2>2. i + 1 \in 1..Len(queue) /\ queue[i + 1] = Probe
    BY <1>2, <1>3, <2>1
  <2>3. recon.at = "flush" /\ i + 1 <= recon.ahead
    BY <1>8, <2>1, <2>2 DEF ProbesAhead
  <2>4. QED
    BY <1>5, <1>6, <2>3
<1>9. ASSUME ProbesAhead, recon.at = "done", LeaseCurrent PROVE Head(queue) # Probe
  <2>1. 1 \in 1..Len(queue)
    BY <1>2, <1>3
  <2>2. QED
    BY <1>2, <1>9, <2>1 DEF ProbesAhead
<1>10. QED
  BY <1>2, <1>7, <1>8, <1>9

\* What the guard suppresses while the reconciliation is over, it suppresses for the rest
\* of the session.
LEMMA AppendIInv == ASSUME IInv, AppendEvent PROVE IInv'
<1> DEFINE e == Head(queue)
<1>1. /\ TypeOK /\ queue # <<>> /\ Dequeue
      /\ entries' = IF e # Probe /\ shouldAttempt(e) THEN Append(entries, e) ELSE entries
      /\ blocked' = (blocked /\ e # Probe)
      /\ UNCHANGED <<limit, receipts, locking, session, handler, scheduled, faults>>
  BY DEF IInv, AppendEvent
<1>2. epoch' = epoch /\ unlocked' = unlocked
  BY <1>1 DEF session
<1>3. /\ queue' \in Seq(Queued) /\ e \in Queued
      /\ ToSet(queue) = {e} \cup ToSet(queue')
      /\ recon' \in [at : {"idle", "flush", "compare", "done"}, epoch : 0..MaxEpoch,
                      ahead : 0..Len(queue'), published : SUBSET Mutations]
      /\ recon'.at = recon.at /\ recon'.epoch = recon.epoch
      /\ recon'.published = recon.published
      /\ ProbesAhead'
      /\ recon.at = "done" /\ LeaseCurrent => e # Probe
  BY <1>1, <1>2, DequeueFacts DEF IInv
<1> HIDE DEF e
<1>4. /\ entries' \in Seq(Mutations) /\ ToSet(entries) \subseteq ToSet(entries')
      /\ e # Probe /\ ~blocked => e \in ToSet(entries')
  <2>1. CASE e # Probe /\ shouldAttempt(e)
    <3>1. e \in Mutations /\ entries \in Seq(Mutations) /\ entries' = Append(entries, e)
      BY <1>1, <1>3, <2>1 DEF Queued, TypeOK
    <3>2. QED
      BY <3>1, AppendFacts
  <2>2. CASE ~(e # Probe /\ shouldAttempt(e))
    BY <1>1, <2>2 DEF shouldAttempt, TypeOK
  <2>3. QED
    BY <2>1, <2>2
<1>5. TypeOK'
  <2>1. blocked' \in BOOLEAN
    BY <1>1
  <2>2. QED
    BY <1>1, <1>3, <1>4, <2>1 DEF TypeOK, Queued, session
<1>6. ReconciledSession'
  <2>1. SUFFICES ASSUME recon.at = "done", LeaseCurrent, ~blocked', NEW n \in ToSet(receipts)
                 PROVE  n \in ToSet(entries') \/ n \in ToSet(queue') \/ handler[n] = "committed"
    BY <1>1, <1>2, <1>3 DEF ReconciledSession, Audited, LeaseCurrent
  <2>2. e # Probe /\ ~blocked
    BY <1>1, <1>3, <2>1
  <2>3. n \in ToSet(entries) \/ n \in ToSet(queue) \/ handler[n] = "committed"
    BY <2>1, <2>2 DEF IInv, ReconciledSession, Audited
  <2>4. QED
    BY <1>3, <1>4, <2>2, <2>3
<1>7. LogGrows' /\ NotAhead'
  BY <1>1, <1>2, <1>3, <1>4 DEF IInv, LogGrows, NotAhead
<1>8. QED
  BY <1>3, <1>5, <1>6, <1>7 DEF IInv

LEMMA AppendFailsIInv == ASSUME IInv, AppendFails PROVE IInv'
<1>1. /\ TypeOK /\ queue # <<>> /\ Dequeue /\ faults < MaxFaults
      /\ blocked' = TRUE /\ locking' = TRUE /\ faults' = faults + 1
      /\ UNCHANGED <<limit, receipts, entries, session, handler, scheduled>>
  BY DEF IInv, AppendFails, markFailed
<1>2. epoch' = epoch /\ unlocked' = unlocked
  BY <1>1 DEF session
<1>3. /\ queue' \in Seq(Queued)
      /\ recon' \in [at : {"idle", "flush", "compare", "done"}, epoch : 0..MaxEpoch,
                      ahead : 0..Len(queue'), published : SUBSET Mutations]
      /\ recon'.at = recon.at /\ recon'.epoch = recon.epoch
      /\ recon'.published = recon.published
      /\ ProbesAhead'
  BY <1>1, <1>2, DequeueFacts DEF IInv
<1>4. faults' \in 0..MaxFaults
  BY <1>1, BoundsAssumption DEF TypeOK
<1>5. TypeOK'
  BY <1>1, <1>2, <1>3, <1>4 DEF TypeOK, Queued
<1>6. ReconciledSession' /\ LogGrows' /\ NotAhead'
  BY <1>1, <1>2, <1>3 DEF IInv, ReconciledSession, LogGrows, NotAhead
<1>7. QED
  BY <1>3, <1>5, <1>6 DEF IInv

-----------------------------------------------------------------------------
\* A new epoch.
LEMMA EpochFacts ==
  ASSUME IInv, epoch < MaxEpoch, epoch' = epoch + 1
  PROVE  /\ epoch' \in 0..MaxEpoch /\ scheduled + 1 \in 0..MaxEpoch
         /\ scheduled + 1 <= epoch' /\ scheduled <= epoch' /\ recon.epoch <= epoch'
         /\ recon.epoch # epoch'
<1>1. /\ epoch \in 0..MaxEpoch /\ scheduled \in 0..MaxEpoch /\ MaxEpoch \in Nat
      /\ recon.epoch \in 0..MaxEpoch /\ recon.epoch <= epoch /\ scheduled <= epoch
  BY BoundsAssumption DEF IInv, TypeOK, NotAhead
<1>2. QED
  BY <1>1

LEMMA UnlockIInv == ASSUME IInv, Unlock PROVE IInv'
<1>1. /\ TypeOK /\ epoch < MaxEpoch /\ epoch' = epoch + 1 /\ unlocked' = TRUE
      /\ scheduled' = scheduled + 1
      /\ queue' \in {Append(queue, Probe), queue}
      /\ UNCHANGED <<limit, receipts, entries, guard, handler, recon, faults>>
  BY DEF IInv, Unlock, Boundary
<1>2. /\ epoch' \in 0..MaxEpoch /\ scheduled' \in 0..MaxEpoch
      /\ scheduled' <= epoch' /\ recon.epoch <= epoch' /\ recon.epoch # epoch'
  BY <1>1, EpochFacts
<1>3. queue \in Seq(Queued) /\ Len(queue) \in Nat /\ Probe \in Queued
  BY <1>1, SeqFacts DEF TypeOK, Queued
<1>4. queue' \in Seq(Queued) /\ Len(queue') \in Nat /\ Len(queue') >= Len(queue)
  BY <1>1, <1>3, AppendFacts
<1>5. recon' \in [at : {"idle", "flush", "compare", "done"}, epoch : 0..MaxEpoch,
                  ahead : 0..Len(queue'), published : SUBSET Mutations]
  BY <1>1, <1>3, <1>4 DEF TypeOK
<1>6. TypeOK'
  BY <1>1, <1>2, <1>4, <1>5 DEF TypeOK, Queued, guard
<1>7. LogGrows' /\ NotAhead' /\ ~LeaseCurrent'
  BY <1>1, <1>2 DEF IInv, LogGrows, NotAhead, LeaseCurrent
<1>8. QED
  BY <1>6, <1>7, UnleasedIInv

\* A lock, a rotation of the scope, or the guard's lock.
LEMMA CrossIInv ==
  ASSUME IInv, NEW open \in BOOLEAN, Boundary(open), locking' \in BOOLEAN,
         UNCHANGED <<limit, receipts, entries, queue, blocked, handler, scheduled, recon, faults>>
  PROVE  IInv'
<1>1. epoch < MaxEpoch /\ epoch' = epoch + 1 /\ unlocked' = open
  BY DEF Boundary
<1>2. epoch' \in 0..MaxEpoch /\ scheduled <= epoch' /\ recon.epoch <= epoch' /\ recon.epoch # epoch'
  BY <1>1, EpochFacts
<1>3. TypeOK'
  BY <1>1, <1>2 DEF IInv, TypeOK
<1>4. LogGrows' /\ NotAhead' /\ ~LeaseCurrent'
  BY <1>2 DEF IInv, LogGrows, NotAhead, LeaseCurrent
<1>5. QED
  BY <1>3, <1>4, UnleasedIInv

LEMMA FailSecureLockIInv == ASSUME IInv, FailSecureLock PROVE IInv'
<1>1. /\ locking' = FALSE
      /\ UNCHANGED <<limit, receipts, entries, queue, blocked, handler, scheduled, recon, faults>>
      /\ Boundary(FALSE) \/ UNCHANGED session
  BY DEF FailSecureLock
<1>2. CASE Boundary(FALSE)
  BY <1>1, <1>2, CrossIInv
<1>3. CASE UNCHANGED session
  <2>1. TypeOK'
    BY <1>1, <1>3 DEF IInv, TypeOK, session
  <2>2. ReconciledSession' /\ LogGrows' /\ ProbesAhead' /\ NotAhead'
    BY <1>1, <1>3 DEF IInv, ReconciledSession, Audited, LogGrows, ProbesAhead, NotAhead,
                      LeaseCurrent, session
  <2>3. QED
    BY <2>1, <2>2 DEF IInv
<1>4. QED
  BY <1>1, <1>2, <1>3

LEMMA CrashIInv == ASSUME IInv, Crash PROVE IInv'
<1>1. /\ TypeOK /\ faults < MaxFaults /\ faults' = faults + 1
      /\ epoch < MaxEpoch /\ epoch' = epoch + 1 /\ unlocked' = FALSE
      /\ queue' = <<>> /\ blocked' = FALSE /\ locking' = FALSE
      /\ handler' = [m \in Mutations |-> IF handler[m] = "committed" THEN "done" ELSE handler[m]]
      /\ scheduled' = 0 /\ recon' = NoRecon
      /\ UNCHANGED <<limit, receipts, entries>>
  BY DEF IInv, Crash
<1>2. epoch' \in 0..MaxEpoch /\ faults' \in 0..MaxFaults
  BY <1>1, BoundsAssumption DEF TypeOK
<1>3. handler' \in [Mutations -> {"unused", "committed", "done"}]
  BY <1>1 DEF TypeOK
<1>4. queue' \in Seq(Mutations \cup {Probe}) /\ Len(queue') = 0
  BY <1>1, ShortFacts
<1>5. recon' \in [at : {"idle", "flush", "compare", "done"}, epoch : 0..MaxEpoch,
                  ahead : 0..Len(queue'), published : SUBSET Mutations]
  BY <1>1, <1>4, BoundsAssumption DEF NoRecon
<1>6. TypeOK'
  <2>1. scheduled' \in 0..MaxEpoch /\ blocked' \in BOOLEAN /\ locking' \in BOOLEAN
        /\ unlocked' \in BOOLEAN
    <3>1. 0 \in 0..MaxEpoch
      BY BoundsAssumption
    <3>2. QED
      BY <1>1, <3>1
  <2>2. /\ limit' \in ReceiptLimits /\ receipts' \in Seq(Mutations) /\ Len(receipts') <= limit'
        /\ entries' \in Seq(Mutations)
    BY <1>1 DEF TypeOK
  <2>3. QED
    BY <1>2, <1>3, <1>4, <1>5, <2>1, <2>2 DEF TypeOK
<1>7. NotAhead'
  BY <1>1, <1>2 DEF NotAhead, NoRecon
<1>8. QED
  BY <1>1, <1>6, <1>7, OverIInv

-----------------------------------------------------------------------------
LEMMA ReconcileIInv == ASSUME IInv, Reconcile PROVE IInv'
<1>1. /\ TypeOK /\ scheduled > 0 /\ scheduled' = scheduled - 1
      /\ UNCHANGED <<limit, receipts, entries, queue, guard, session, handler, faults>>
      /\ \/ recon' = NoRecon
         \/ recon' = [at |-> "flush", epoch |-> epoch, ahead |-> Len(queue), published |-> {}]
  BY DEF IInv, Reconcile
<1>2. /\ scheduled' \in 0..MaxEpoch /\ scheduled' <= epoch /\ 0 <= epoch
      /\ 0 \in 0..MaxEpoch /\ epoch \in 0..MaxEpoch /\ epoch' = epoch
  BY <1>1, BoundsAssumption DEF IInv, TypeOK, NotAhead, session
<1>3. Len(queue) \in Nat
  BY <1>1, SeqFacts DEF TypeOK
<1>4. recon' \in [at : {"idle", "flush", "compare", "done"}, epoch : 0..MaxEpoch,
                  ahead : 0..Len(queue'), published : SUBSET Mutations]
  BY <1>1, <1>2, <1>3 DEF NoRecon
<1>5. TypeOK'
  BY <1>1, <1>2, <1>4 DEF TypeOK, guard, session
<1>6. NotAhead'
  BY <1>1, <1>2 DEF NotAhead, NoRecon
<1>7. CASE recon' = NoRecon
  BY <1>5, <1>6, <1>7, OverIInv
<1>8. CASE recon' = [at |-> "flush", epoch |-> epoch, ahead |-> Len(queue), published |-> {}]
  <2>1. /\ recon'.at = "flush" /\ recon'.ahead = Len(queue') /\ recon'.published = {}
    BY <1>1, <1>8
  <2>2. ReconciledSession' /\ LogGrows' /\ ProbesAhead'
    BY <1>1, <1>3, <2>1 DEF ReconciledSession, LogGrows, ProbesAhead
  <2>3. QED
    BY <1>5, <1>6, <2>2 DEF IInv
<1>9. QED
  BY <1>1, <1>7, <1>8

LEMMA ReadLogIInv == ASSUME IInv, ReadLog PROVE IInv'
<1>1. /\ TypeOK /\ recon.at = "flush" /\ recon.ahead = 0 /\ LeaseCurrent
      /\ recon' = [recon EXCEPT !.at = "compare", !.published = ToSet(entries)]
      /\ UNCHANGED <<limit, receipts, entries, queue, guard, session, handler, scheduled, faults>>
  BY DEF IInv, ReadLog
<1>2. ToSet(entries) \subseteq Mutations
  BY <1>1, SeqFacts DEF TypeOK
<1>3. /\ recon' \in [at : {"idle", "flush", "compare", "done"}, epoch : 0..MaxEpoch,
                      ahead : 0..Len(queue), published : SUBSET Mutations]
      /\ recon'.at = "compare" /\ recon'.published = ToSet(entries)
      /\ recon'.epoch = recon.epoch
  BY <1>1, <1>2 DEF TypeOK
<1>4. TypeOK'
  BY <1>1, <1>3 DEF TypeOK, guard, session
<1>5. \A i \in 1..Len(queue) : queue[i] # Probe
  <2>1. Len(queue) \in Nat
    BY <1>1, SeqFacts DEF TypeOK
  <2>2. QED
    BY <1>1, <2>1 DEF IInv, ProbesAhead
<1>6. ReconciledSession' /\ LogGrows' /\ ProbesAhead' /\ NotAhead'
  BY <1>1, <1>3, <1>5 DEF IInv, ReconciledSession, LogGrows, ProbesAhead, NotAhead, session
<1>7. QED
  BY <1>4, <1>6 DEF IInv

\* What the log has not, the queue gets.
LEMMA CompareIInv == ASSUME IInv, Compare PROVE IInv'
<1>1. /\ TypeOK /\ recon.at = "compare" /\ LeaseCurrent
      /\ recon' = [recon EXCEPT !.at = "done"]
      /\ UNCHANGED <<limit, receipts, entries, guard, session, handler, scheduled, faults>>
  BY DEF IInv, Compare
<1>2. PICK missing \in Pending(recon.published) : recordAudit(missing)
  BY DEF Compare
<1>3. /\ missing \in Seq(Queued) /\ ToSet(missing) = ToSet(receipts) \ recon.published
      /\ Probe \notin ToSet(missing)
  BY <1>1, PendingFacts
<1>4. /\ queue' \in Seq(Queued) /\ Len(queue) \in Nat /\ Len(queue') >= Len(queue)
      /\ ToSet(queue') = ToSet(queue) \cup ToSet(missing)
      /\ \A i \in 1..Len(queue) : queue'[i] = queue[i]
      /\ \A i \in 1..Len(queue') : i > Len(queue) => queue'[i] \in ToSet(missing)
  BY <1>1, <1>2, <1>3, RecordFacts DEF LeaseCurrent
<1>5. Len(queue') \in Nat
  BY <1>4, SeqFacts
<1>6. /\ recon' \in [at : {"idle", "flush", "compare", "done"}, epoch : 0..MaxEpoch,
                      ahead : 0..Len(queue'), published : SUBSET Mutations]
      /\ recon'.at = "done" /\ recon'.published = recon.published
      /\ recon'.epoch = recon.epoch
  <2>1. 0..Len(queue) \subseteq 0..Len(queue')
    BY <1>4, <1>5
  <2>2. recon \in [at : {"idle", "flush", "compare", "done"}, epoch : 0..MaxEpoch,
                   ahead : 0..Len(queue'), published : SUBSET Mutations]
    BY <1>1, <2>1 DEF TypeOK
  <2>3. QED
    BY <1>1, <2>2
<1>7. TypeOK'
  BY <1>1, <1>4, <1>6 DEF TypeOK, Queued, guard, session
<1>8. ReconciledSession'
  <2>1. \A n \in ToSet(receipts) : n \in ToSet(entries) \/ n \in ToSet(queue')
    BY <1>3, <1>4 DEF IInv, LogGrows
  <2>2. QED
    BY <1>1, <2>1 DEF ReconciledSession, Audited
<1>9. ProbesAhead'
  <2>1. ASSUME NEW i \in 1..Len(queue') PROVE queue'[i] # Probe
    <3>1. CASE i \in 1..Len(queue)
      BY <1>1, <1>4, <3>1 DEF IInv, ProbesAhead
    <3>2. CASE i \notin 1..Len(queue)
      BY <1>3, <1>4, <1>5, <3>2
    <3>3. QED
      BY <3>1, <3>2
  <2>2. QED
    BY <2>1 DEF ProbesAhead
<1>10. LogGrows' /\ NotAhead'
  BY <1>1, <1>6 DEF IInv, LogGrows, NotAhead, session
<1>11. QED
  BY <1>7, <1>8, <1>9, <1>10 DEF IInv

\* A reconciliation that is given up, or fails.
LEMMA EndReconIInv == ASSUME IInv, Abandon \/ ReconcileFails PROVE IInv'
<1>1. /\ TypeOK /\ recon' = NoRecon
      /\ UNCHANGED <<limit, receipts, entries, queue, session, handler, scheduled>>
      /\ \/ UNCHANGED guard /\ faults' = faults
         \/ blocked' = TRUE /\ locking' = TRUE /\ faults' = faults + 1 /\ faults < MaxFaults
  BY DEF IInv, Abandon, ReconcileFails, markFailed
<1>2. faults' \in 0..MaxFaults /\ blocked' \in BOOLEAN /\ locking' \in BOOLEAN
  <2>1. faults' \in 0..MaxFaults
    BY <1>1, BoundsAssumption DEF TypeOK
  <2>2. blocked \in BOOLEAN /\ locking \in BOOLEAN
    BY <1>1 DEF TypeOK
  <2>3. blocked' \in BOOLEAN /\ locking' \in BOOLEAN
    BY <1>1, <2>2 DEF guard
  <2>4. QED
    BY <2>1, <2>3
<1>3. Len(queue) \in Nat /\ 0 \in 0..MaxEpoch /\ 0 \in 0..Len(queue) /\ 0 <= epoch
  BY <1>1, SeqFacts, BoundsAssumption DEF TypeOK
<1>4. recon' \in [at : {"idle", "flush", "compare", "done"}, epoch : 0..MaxEpoch,
                  ahead : 0..Len(queue'), published : SUBSET Mutations]
  BY <1>1, <1>3 DEF NoRecon
<1>5. TypeOK'
  BY <1>1, <1>2, <1>4 DEF TypeOK, session
<1>6. NotAhead'
  BY <1>1, <1>3 DEF IInv, NotAhead, NoRecon, session
<1>7. QED
  BY <1>1, <1>5, <1>6, OverIInv

-----------------------------------------------------------------------------
LEMMA NextIInv == IInv /\ [Next]_vars => IInv'
<1> SUFFICES ASSUME IInv, [Next]_vars PROVE IInv'
  OBVIOUS
<1>1. ASSUME NEW m \in Mutations, Commit(m) PROVE IInv'
  BY <1>1, CommitIInv
<1>2. ASSUME NEW m \in Mutations, Publish(m) PROVE IInv'
  BY <1>2, PublishIInv
<1>3. CASE AppendEvent
  BY <1>3, AppendIInv
<1>4. CASE AppendFails
  BY <1>4, AppendFailsIInv
<1>5. CASE Unlock
  BY <1>5, UnlockIInv
<1>6. CASE Lock \/ RotateScope
  BY <1>6, CrossIInv DEF Lock, RotateScope, guard, IInv, TypeOK
<1>7. CASE FailSecureLock
  BY <1>7, FailSecureLockIInv
<1>8. CASE Crash
  BY <1>8, CrashIInv
<1>9. CASE Reconcile
  BY <1>9, ReconcileIInv
<1>10. CASE ReadLog
  BY <1>10, ReadLogIInv
<1>11. CASE Compare
  BY <1>11, CompareIInv
<1>12. CASE Abandon \/ ReconcileFails
  BY <1>12, EndReconIInv
<1>13. CASE UNCHANGED vars
  <2>1. TypeOK'
    BY <1>13 DEF IInv, TypeOK, vars, guard, session
  <2>2. ReconciledSession' /\ LogGrows' /\ ProbesAhead' /\ NotAhead'
    BY <1>13 DEF IInv, ReconciledSession, Audited, LogGrows, ProbesAhead, NotAhead,
                 LeaseCurrent, vars, guard, session
  <2>3. QED
    BY <2>1, <2>2 DEF IInv
<1>14. QED
  BY <1>1, <1>2, <1>3, <1>4, <1>5, <1>6, <1>7, <1>8, <1>9, <1>10, <1>11, <1>12, <1>13
  DEF Next

\* Once the reconciliation that an unlock schedules (index.ts:412-449) is over in its own
\* session and the guard does not block (auditFailureGuard.ts), every change that the
\* document still has a receipt of is in the log, in the queue or about to be published,
\* whatever publications earlier sessions, failures and crashes lost.
THEOREM AuditInvariant == Spec => []IInv
<1>1. IInv /\ [Next]_vars => IInv'
  BY NextIInv
<1>2. QED
  BY <1>1, InitIInv, PTL DEF Spec
=============================================================================
