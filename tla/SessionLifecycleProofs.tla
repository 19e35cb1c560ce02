------------------------ MODULE SessionLifecycleProofs ------------------------
(* Proofs about SessionLifecycle and SessionKeyring, the parts of               *)
(* MCSessionLifecycle, for any uses, handlers, handles, callers that lock,      *)
(* limits and bounds.                                                           *)
EXTENDS MCSessionLifecycle, SequenceTheorems, FiniteSetTheorems, TLAPS

Documents == [revision : Nat, count : [Events -> Nat], markers : Seq(Events)]

\* The uses that a queue of buckets holds.
Held(q) == {e \in Events : \E i \in 1..Len(q) : e \in q[i].events}

\* What the invariant says of buckets q beside document d.
Filed(q, d) ==
  /\ \A i, j \in 1..Len(q) : i # j => q[i].events \cap q[j].events = {}
  /\ \A i \in 1..Len(q) :
       /\ q[i].id \in q[i].events /\ q[i].events \subseteq used
       /\ q[i].id \in ToSet(d.markers) => i = 1 /\ q[i].attempted
       /\ \A e \in q[i].events :
            d.count[e] = IF q[i].id \in ToSet(d.markers) THEN 1 ELSE 0

\* The same buckets, some of which were tried since.
Tried(q, r) ==
  /\ Len(r) = Len(q)
  /\ \A i \in 1..Len(q) : /\ r[i].id = q[i].id /\ r[i].events = q[i].events
                          /\ q[i].attempted => r[i].attempted

\* The buckets of a flush that found targets stand first in q.
First(q, targets) ==
  \A i, j \in 1..Len(q) : j < i /\ q[i].id \in targets => q[j].id \in targets

LEMMA SeqFacts ==
  ASSUME NEW q \in Seq(Buckets)
  PROVE  /\ Len(q) \in Nat /\ DOMAIN q = 1..Len(q)
         /\ \A i \in 1..Len(q) : q[i] \in Buckets
         /\ q # <<>> <=> Len(q) > 0
         /\ ToSet(q) = {q[i] : i \in 1..Len(q)}
         /\ UNION {b.events : b \in ToSet(q)} = Held(q)
<1>1. Len(q) \in Nat /\ DOMAIN q = 1..Len(q) /\ \A i \in 1..Len(q) : q[i] \in Buckets
  BY LenProperties, ElementOfSeq
<1>2. q # <<>> <=> Len(q) > 0
  BY <1>1, EmptySeq
<1>3. ToSet(q) = {q[i] : i \in 1..Len(q)}
  BY <1>1 DEF ToSet
<1>4. UNION {b.events : b \in ToSet(q)} = Held(q)
  BY <1>1, <1>3 DEF Held, Buckets
<1>5. QED
  BY <1>1, <1>2, <1>3, <1>4

LEMMA FiledFacts ==
  ASSUME TypeOK
  PROVE  /\ Pending = Held(buckets)
         /\ BucketsAgree /\ BucketsInOrder <=> Filed(buckets, document)
<1>1. Pending = Held(buckets)
  BY SeqFacts DEF Pending, TypeOK
<1>2. /\ \A i \in 1..Len(buckets) : buckets[i] \in ToSet(buckets)
      /\ \A b \in ToSet(buckets) : \E i \in 1..Len(buckets) : b = buckets[i]
  BY SeqFacts DEF TypeOK
<1>3. BucketsAgree /\ BucketsInOrder <=> Filed(buckets, document)
  <2>1. ASSUME BucketsAgree, BucketsInOrder PROVE Filed(buckets, document)
    BY <1>2, <2>1, ZenonT(30) DEF BucketsAgree, BucketsInOrder, Filed
  <2>2. ASSUME Filed(buckets, document) PROVE BucketsAgree /\ BucketsInOrder
    <3>1. BucketsInOrder
      BY <2>2 DEF BucketsInOrder, Filed
    <3>2. \A i, j \in 1..Len(buckets) :
            i # j => buckets[i].events \cap buckets[j].events = {}
      BY <2>2 DEF Filed
    <3>3. ASSUME NEW b \in ToSet(buckets), NEW e \in b.events
          PROVE  document.count[e] = IF b.id \in ToSet(document.markers) THEN 1 ELSE 0
      BY <1>2, <2>2 DEF Filed
    <3>4. QED
      BY <3>1, <3>2, <3>3 DEF BucketsAgree
  <2>3. QED
    BY <2>1, <2>2
<1>4. QED
  BY <1>1, <1>3

LEMMA TriedFacts ==
  ASSUME NEW q \in Seq(Buckets), NEW r \in Seq(Buckets), Tried(q, r), NEW d, NEW targets
  PROVE  /\ Held(r) = Held(q)
         /\ Filed(q, d) => Filed(r, d)
         /\ First(q, targets) => First(r, targets)
  BY DEF Tried, Held, Filed, First

LEMMA TryFacts ==
  ASSUME NEW q \in Seq(Buckets), NEW i \in 1..Len(q)
  PROVE  LET r == [q EXCEPT ![i].attempted = TRUE]
         IN r \in Seq(Buckets) /\ Tried(q, r) /\ r[i].attempted
<1> DEFINE b == [q[i] EXCEPT !.attempted = TRUE]
           r == [q EXCEPT ![i] = b]
<1>1. b \in Buckets /\ b.id = q[i].id /\ b.events = q[i].events /\ b.attempted
  <2>1. q[i] \in Buckets
    BY SeqFacts
  <2>2. QED
    BY <2>1 DEF Buckets
<1> HIDE DEF b
<1>2. /\ r \in Seq(Buckets) /\ Len(r) = Len(q)
      /\ \A j \in 1..Len(q) : r[j] = IF j = i THEN b ELSE q[j]
  BY <1>1, ExceptSeq
<1> HIDE DEF r
<1>3. Tried(q, r)
  BY <1>1, <1>2 DEF Tried
<1>4. r[i].attempted
  BY <1>1, <1>2
<1>5. QED
  BY <1>2, <1>3, <1>4 DEF r, b

\* The bucket that was committed is taken from the head of the queue.
LEMMA RestFacts ==
  ASSUME NEW q \in Seq(Buckets), q # <<>>
  PROVE  /\ RemoveAt(q, 1) \in Seq(Buckets)
         /\ Len(RemoveAt(q, 1)) = Len(q) - 1
         /\ \A i \in 1..(Len(q) - 1) : RemoveAt(q, 1)[i] = q[i + 1]
<1> DEFINE r == SubSeq(q, 2, Len(q))
<1>1. Len(q) \in Nat /\ Len(q) > 0 /\ \A i \in 2..Len(q) : q[i] \in Buckets
  BY SeqFacts
<1>2. /\ r \in Seq(Buckets) /\ Len(r) = IF 2 <= Len(q) THEN Len(q) - 2 + 1 ELSE 0
      /\ \A i \in 1..(Len(q) - 2 + 1) : r[i] = q[2 + i - 1]
  BY <1>1, SubSeqProperties
<1>3. SubSeq(q, 1, 0) = <<>>
  BY SubSeqEmpty
<1>4. RemoveAt(q, 1) = r
  BY <1>2, <1>3, ConcatEmptySeq DEF RemoveAt
<1> HIDE DEF r
<1>5. QED
  <2>1. Len(r) = Len(q) - 1
    <3>1. /\ Len(q) \in Nat /\ Len(q) > 0
          /\ Len(r) = IF 2 <= Len(q) THEN Len(q) - 2 + 1 ELSE 0
      BY <1>1, <1>2
    <3>2. \A n \in Nat : n > 0 => (IF 2 <= n THEN n - 2 + 1 ELSE 0) = n - 1
      OBVIOUS
    <3>3. QED
      BY <3>1, <3>2
  <2>2. \A i \in 1..(Len(q) - 1) : r[i] = q[i + 1]
    BY <1>1, <1>2
  <2>3. QED
    BY <1>2, <1>4, <2>1, <2>2

-----------------------------------------------------------------------------
\* How a flush goes on with the buckets that are left: at the first, or not at all.
LEMMA ProceedFacts ==
  ASSUME TypeOK, NEW by \in {"background", "scope"}, NEW targets \in SUBSET Events,
         NEW left \in Seq(Buckets), First(left, targets), Proceed(by, targets, left)
  PROVE  /\ \/ buckets' \in Seq(Buckets) /\ Tried(left, buckets') /\ dropped' = dropped
            \/ buckets' = <<>> /\ dropped' = dropped \cup Pending
         /\ timer' \in BOOLEAN /\ epoch' \in Nat /\ flush' \in Flushes \cup {None}
         /\ flush' # None => /\ flush'.targets = targets /\ First(buckets', targets)
                             /\ buckets' # <<>> /\ buckets'[1].attempted
                             /\ buckets'[1].id \in targets
<1> DEFINE due == {i \in 1..Len(left) : left[i].id \in targets}
<1>1. /\ Len(left) \in Nat /\ left # <<>> <=> Len(left) > 0
      /\ timer \in BOOLEAN /\ epoch \in Nat /\ unlocked \in BOOLEAN
  BY SeqFacts DEF TypeOK
<1>2. Tried(left, left)
  BY DEF Tried
<1>3. RotateFor(by) => epoch' \in Nat
  BY <1>1 DEF RotateFor, NextEpoch
<1>4. CASE due = {}
  <2>1. Finished(by, left)
    BY <1>4 DEF Proceed
  <2>2. timer' \in BOOLEAN
    BY <2>1 DEF Finished
  <2>3. QED
    BY <1>2, <1>3, <2>1, <2>2 DEF Finished
<1>5. CASE due # {}
  <2> DEFINE first == CHOOSE i \in due : \A j \in due : i <= j
             tried == [left EXCEPT ![first].attempted = TRUE]
  <2>1. 1 \in due /\ \A j \in due : 1 <= j
    BY <1>1, <1>5 DEF First
  <2>2. first \in due /\ \A j \in due : first <= j
    BY <2>1
  <2>3. first = 1
    BY <2>1, <2>2
  <2>4. 1 \in 1..Len(left) /\ left[1].id \in targets
    BY <2>1
  <2>5. tried \in Seq(Buckets) /\ Tried(left, tried) /\ tried[1].attempted
    BY <2>3, <2>4, TryFacts
  <2>6. First(tried, targets) /\ tried[1].id \in targets /\ tried # <<>>
    <3> HIDE DEF tried
    <3>1. First(tried, targets)
      BY <2>5, TriedFacts
    <3>2. Len(tried) = Len(left) /\ tried[1].id = left[1].id
      BY <2>4, <2>5 DEF Tried
    <3>3. tried # <<>>
      BY <1>1, <2>4, <2>5, <3>2, SeqFacts
    <3>4. QED
      BY <2>4, <3>1, <3>2, <3>3
  <2>7. CASE ~unlocked \/ Locking
    <3>1. Failed(by, tried)
      BY <1>5, <2>7 DEF Proceed
    <3> HIDE DEF tried
    <3>2. timer' \in BOOLEAN
      BY <3>1 DEF Failed
    <3>3. QED
      BY <1>3, <2>5, <3>1, <3>2 DEF Failed
  <2>8. CASE ~(~unlocked \/ Locking)
    <3>1. /\ flush' = [by |-> by, targets |-> targets, epoch |-> epoch, at |-> "preparing"]
          /\ buckets' = tried
          /\ UNCHANGED <<timer, dropped, epoch>>
      BY <1>5, <2>8 DEF Proceed
    <3> HIDE DEF tried
    <3>2. flush' \in Flushes /\ flush'.targets = targets
      BY <1>1, <3>1 DEF Flushes
    <3>3. QED
      BY <1>1, <2>5, <2>6, <3>1, <3>2
  <2>9. QED
    BY <2>7, <2>8
<1>6. QED
  BY <1>4, <1>5

LEMMA FailedFacts ==
  ASSUME TypeOK, NEW by, Failed(by, buckets)
  PROVE  /\ flush' = None
         /\ \/ buckets' = buckets /\ dropped' = dropped
            \/ buckets' = <<>> /\ dropped' = dropped \cup Pending
         /\ timer' \in BOOLEAN /\ epoch' \in Nat
<1>1. epoch' \in Nat
  BY DEF Failed, RotateFor, NextEpoch, TypeOK
<1>2. timer' \in BOOLEAN
  BY DEF Failed, TypeOK
<1>3. QED
  BY <1>1, <1>2 DEF Failed

-----------------------------------------------------------------------------
\* The flush is at the first bucket.
LEMMA CurrentFacts ==
  ASSUME TypeOK, FlushInOrder, flush # None
  PROVE  Current = 1 /\ buckets # <<>> /\ buckets[1] \in Buckets /\ First(buckets, flush.targets)
<1>1. Len(buckets) \in Nat /\ Len(buckets) > 0 /\ buckets[1] \in Buckets
  BY SeqFacts DEF TypeOK, FlushInOrder
<1>2. First(buckets, flush.targets) /\ buckets # <<>> /\ buckets[1].id \in flush.targets
  BY DEF FlushInOrder, First
<1> DEFINE At(i) == /\ buckets[i].id \in flush.targets
                    /\ \A j \in 1..(i - 1) : buckets[j].id \notin flush.targets
<1>3. 1 \in 1..Len(buckets) /\ At(1)
  BY <1>1, <1>2
<1>4. \A i \in 1..Len(buckets) : At(i) => i = 1
  BY <1>1, <1>2
<1>5. Current = 1
  <2>1. Current = CHOOSE i \in 1..Len(buckets) : At(i)
    BY DEF Current
  <2> HIDE DEF At
  <2>2. QED
    BY <1>3, <1>4, <2>1
<1>6. QED
  BY <1>1, <1>2, <1>5

\* The document with a bucket in it.
LEMMA AppliedFacts ==
  ASSUME document \in Documents, NEW b \in Buckets
  PROVE  LET d == Applied(b)
         IN /\ d \in Documents /\ d.revision >= document.revision
            /\ b.id \in ToSet(d.markers)
            /\ ToSet(d.markers) \subseteq ToSet(document.markers) \cup {b.id}
            /\ b.id \in ToSet(document.markers) => d = document
            /\ b.id \notin ToSet(document.markers) =>
                 \A e \in Events :
                   d.count[e] = document.count[e] + (IF e \in b.events THEN 1 ELSE 0)
<1> DEFINE d    == Applied(b)
           m    == document.markers
           all  == Append(m, b.id)
           from == IF Len(all) > MarkerLimit THEN 2 ELSE 1
           kept == SubSeq(all, from, Len(all))
           cnt  == [e \in Events |-> document.count[e] + (IF e \in b.events THEN 1 ELSE 0)]
<1>1. CASE b.id \in ToSet(m)
  BY <1>1 DEF Applied, Documents
<1>2. CASE b.id \notin ToSet(m)
  <2>1. /\ m \in Seq(Events) /\ Len(m) \in Nat /\ DOMAIN m = 1..Len(m) /\ b.id \in Events
        /\ document.count \in [Events -> Nat] /\ document.revision \in Nat
    <3>1. m \in Seq(Events) /\ b.id \in Events
      BY DEF Documents, Buckets
    <3>2. QED
      BY <3>1, LenProperties DEF Documents
  <2>2. /\ all \in Seq(Events) /\ Len(all) = Len(m) + 1
        /\ \A i \in 1..Len(m) : all[i] = m[i]
        /\ all[Len(m) + 1] = b.id
    BY <2>1, AppendProperties
  <2> HIDE DEF all
  <2>3. /\ Len(all) \in Nat /\ from \in 1..2 /\ from <= Len(all)
        /\ \A i \in from..Len(all) : all[i] \in Events
    <3>1. \A i \in 1..Len(all) : all[i] \in Events
      BY <2>2, ElementOfSeq
    <3>2. QED
      BY <2>1, <2>2, <3>1, LifecycleAssumption
  <2> HIDE DEF from
  <2>4. /\ kept \in Seq(Events) /\ Len(kept) = Len(all) - from + 1
        /\ \A i \in 1..(Len(all) - from + 1) : kept[i] = all[from + i - 1]
    BY <2>3, SubSeqProperties
  <2> HIDE DEF kept
  <2>5. DOMAIN kept = 1..Len(kept) /\ Len(kept) \in Nat
    BY <2>4, LenProperties
  <2>6. b.id \in ToSet(kept)
    <3>1. Len(kept) \in 1..Len(kept) /\ kept[Len(kept)] = b.id
      <4> DEFINE n == Len(all) - from + 1
      <4>1. n \in 1..n /\ from + n - 1 = Len(m) + 1
        BY <2>1, <2>2, <2>3
      <4>2. Len(kept) = n /\ kept[n] = all[from + n - 1]
        BY <2>4, <4>1
      <4> HIDE DEF n
      <4>3. QED
        BY <2>2, <4>1, <4>2
    <3>2. QED
      BY <2>5, <3>1 DEF ToSet
  <2>7. ToSet(kept) \subseteq ToSet(m) \cup {b.id}
    <3>1. ASSUME NEW i \in 1..Len(kept) PROVE kept[i] \in ToSet(m) \cup {b.id}
      <4>1. from + i - 1 \in 1..(Len(m) + 1) /\ kept[i] = all[from + i - 1]
        BY <2>1, <2>2, <2>3, <2>4
      <4>2. QED
        <5>1. all[from + i - 1] \in ToSet(m) \cup {b.id}
          <6>1. CASE from + i - 1 \in 1..Len(m)
            <7>1. all[from + i - 1] = m[from + i - 1]
              BY <2>2, <6>1
            <7>2. m[from + i - 1] \in ToSet(m)
              BY <2>1, <6>1 DEF ToSet
            <7>3. QED
              BY <7>1, <7>2
          <6>2. CASE from + i - 1 = Len(m) + 1
            BY <2>2, <6>2
          <6>3. QED
            BY <2>1, <4>1, <6>1, <6>2
        <5>2. QED
          BY <4>1, <5>1
    <3>2. QED
      BY <2>5, <3>1 DEF ToSet
  <2>8. cnt \in [Events -> Nat]
    BY <2>1
  <2>9. d = [revision |-> document.revision + 1, count |-> cnt, markers |-> kept]
    BY <1>2 DEF Applied, kept, from, all
  <2> HIDE DEF cnt, d
  <2>10. d.count = cnt /\ d.markers = kept /\ d.revision = document.revision + 1
    BY <2>9
  <2>11. d \in Documents
    BY <2>1, <2>4, <2>8, <2>9 DEF Documents
  <2>12. QED
    BY <1>2, <2>1, <2>6, <2>7, <2>10, <2>11 DEF d, cnt
<1>3. QED
  BY <1>1, <1>2

-----------------------------------------------------------------------------
\* A step after which the queue is left, some of it tried, or was discarded.
LEMMA LeavesIInv ==
  ASSUME IInv, TypeOK', used' = used, NEW left \in Seq(Buckets), Filed(left, document'),
         Held(left) \subseteq Pending,
         \A e \in used : /\ document'.count[e] <= 1
                         /\ e \in Held(left) \cup dropped \/ document'.count[e] = 1,
         \A e \in Events \ used : document'.count[e] = 0,
         ToSet(document'.markers) \subseteq used,
         vaultRevision' <= document'.revision,
         unlocked' => \/ vaultRevision' = document'.revision
                      \/ \E e \in Held(left) \cup dropped : document'.count[e] = 1,
         \/ buckets' \in Seq(Buckets) /\ Tried(left, buckets') /\ dropped' = dropped
         \/ buckets' = <<>> /\ dropped' = dropped \cup Pending,
         unlocked' => locking' = locking /\ (unlocked \/ ~Locking),
         FlushInOrder'
  PROVE  IInv'
<1>1. Held(left) \cup dropped \subseteq Held(buckets') \cup dropped'
  <2>1. CASE buckets' \in Seq(Buckets) /\ Tried(left, buckets') /\ dropped' = dropped
    BY <2>1, TriedFacts
  <2>2. CASE buckets' = <<>> /\ dropped' = dropped \cup Pending
    BY <2>2
  <2>3. QED
    BY <2>1, <2>2
<1>2. Filed(buckets', document') /\ buckets' \in Seq(Buckets)
  <2>1. CASE buckets' \in Seq(Buckets) /\ Tried(left, buckets') /\ dropped' = dropped
    BY <2>1, TriedFacts
  <2>2. CASE buckets' = <<>> /\ dropped' = dropped \cup Pending
    <3>1. <<>> \in Seq(Buckets) /\ Len(<<>>) = 0
      BY EmptySeq
    <3>2. QED
      BY <2>2, <3>1 DEF Filed
  <2>3. QED
    BY <2>1, <2>2
<1>3. Pending' = Held(buckets')
  BY <1>2, SeqFacts DEF Pending
<1>4. BucketsAgree' /\ BucketsInOrder'
  <2>1. /\ \A i \in 1..Len(buckets') : buckets'[i] \in ToSet(buckets')
        /\ \A b \in ToSet(buckets') : \E i \in 1..Len(buckets') : b = buckets'[i]
    BY <1>2, SeqFacts
  <2>2. BucketsInOrder'
    BY <1>2 DEF BucketsInOrder, Filed
  <2>3. \A i, j \in 1..Len(buckets') :
          i # j => buckets'[i].events \cap buckets'[j].events = {}
    BY <1>2 DEF Filed
  <2>4. ASSUME NEW b \in ToSet(buckets'), NEW e \in b.events
        PROVE  document'.count[e] = IF b.id \in ToSet(document'.markers) THEN 1 ELSE 0
    BY <1>2, <2>1 DEF Filed
  <2>5. QED
    BY <2>2, <2>3, <2>4 DEF BucketsAgree
<1>5. UsageCountedOnce' /\ NothingInvented'
  BY <1>1, <1>3 DEF UsageCountedOnce, NothingInvented
<1>6. RevisionFollowsDocument'
  BY <1>1, <1>3 DEF RevisionFollowsDocument
<1>7. LockedOut'
  BY DEF IInv, LockedOut, Locking
<1>8. QED
  BY <1>4, <1>5, <1>6, <1>7 DEF IInv

\* A step that touches neither the uses that are on disk nor the queue, but for the mark
\* that a bucket was tried.
LEMMA QuietIInv ==
  ASSUME IInv, TypeOK', used' = used, dropped' = dropped,
         document'.count = document.count, document'.markers = document.markers,
         Tried(buckets, buckets'),
         vaultRevision' <= document'.revision,
         unlocked' => \/ vaultRevision' = document'.revision
                      \/ unlocked /\ UNCHANGED <<vaultRevision, document>>,
         unlocked' => locking' = locking /\ (unlocked \/ ~Locking),
         FlushInOrder'
  PROVE  IInv'
<1>1. /\ buckets \in Seq(Buckets) /\ buckets' \in Seq(Buckets)
      /\ Pending = Held(buckets) /\ Filed(buckets, document)
  BY FiledFacts DEF IInv, TypeOK
<1>2. Filed(buckets, document')
  <2>1. \A i, j \in 1..Len(buckets) : i # j => buckets[i].events \cap buckets[j].events = {}
    BY <1>1 DEF Filed
  <2>2. ASSUME NEW i \in 1..Len(buckets)
        PROVE  /\ buckets[i].id \in buckets[i].events /\ buckets[i].events \subseteq used
               /\ buckets[i].id \in ToSet(document'.markers) => i = 1 /\ buckets[i].attempted
               /\ \A e \in buckets[i].events :
                    document'.count[e] = IF buckets[i].id \in ToSet(document'.markers) THEN 1 ELSE 0
    BY <1>1 DEF Filed
  <2>3. QED
    BY <2>1, <2>2 DEF Filed
<1>3. /\ \A e \in used : /\ document'.count[e] <= 1
                         /\ e \in Held(buckets) \cup dropped \/ document'.count[e] = 1
      /\ \A e \in Events \ used : document'.count[e] = 0
      /\ ToSet(document'.markers) \subseteq used
  BY <1>1 DEF IInv, UsageCountedOnce, NothingInvented
<1>4. unlocked' => \/ vaultRevision' = document'.revision
                   \/ \E e \in Held(buckets) \cup dropped : document'.count[e] = 1
  BY <1>1 DEF IInv, RevisionFollowsDocument
<1>5. QED
  BY <1>1, <1>2, <1>3, <1>4, LeavesIInv

LEMMA InitIInv == Init => IInv
<1> SUFFICES ASSUME Init PROVE IInv
  OBVIOUS
<1> USE DEF Init
<1>1. /\ <<>> \in Seq(Buckets) /\ <<>> \in Seq(Events) /\ <<>> \in Seq({"background", "scope"})
      /\ Len(<<>>) = 0 /\ ToSet(<<>>) = {}
  BY EmptySeq DEF ToSet
<1>2. TypeOK
  BY <1>1, LifecycleAssumption DEF TypeOK
<1>3. BucketsAgree /\ BucketsInOrder /\ FlushInOrder /\ LockedOut
  BY <1>1 DEF BucketsAgree, BucketsInOrder, FlushInOrder, LockedOut
<1>4. UsageCountedOnce /\ RevisionFollowsDocument /\ NothingInvented
  BY <1>1 DEF UsageCountedOnce, RevisionFollowsDocument, NothingInvented
<1>5. QED
  BY <1>2, <1>3, <1>4 DEF IInv

-----------------------------------------------------------------------------
LEMMA RevisedFacts ==
  ASSUME NEW d \in Documents
  PROVE  LET e == [d EXCEPT !.revision = d.revision + 1]
         IN /\ e \in Documents /\ e.revision = d.revision + 1
            /\ e.count = d.count /\ e.markers = d.markers
<1>1. PICK n \in Nat : n = d.revision + 1
  BY DEF Documents
<1>2. QED
  BY <1>1 DEF Documents

\* What the handlers do with the queue and its flush: nothing.
LEMMA HandlerIInv ==
  ASSUME IInv, NEW h \in Handlers, Begin(h) \/ Unlock(h) \/ Write(h) \/ End(h)
  PROVE  IInv'
<1>1. /\ UNCHANGED <<usage, quit, cast, used, dropped, locking>>
      /\ document'.count = document.count /\ document'.markers = document.markers
      /\ \/ UNCHANGED <<unlocked, vaultRevision, document>>
         \/ vaultRevision' = document'.revision
      /\ document'.revision >= document.revision /\ document' \in Documents
      /\ epoch' \in Nat /\ unlocked' \in BOOLEAN
      /\ live' \in [Handlers -> Nat \cup {None}] /\ vaultRevision' \in Nat
      /\ fresh' \subseteq used
      /\ unlocked' => unlocked \/ ~Locking
  <2> USE DEF IInv, TypeOK, Documents, uses
  <2>1. CASE Begin(h)
    BY <2>1 DEF Begin
  <2>2. CASE Unlock(h)
    BY <2>2 DEF Unlock, Release, NextEpoch, AssertCurrent
  <2>3. CASE Write(h)
    <3>1. document \in Documents /\ live \in [Handlers -> Nat \cup {None}] /\ epoch \in Nat
          /\ unlocked \in BOOLEAN /\ fresh \subseteq used
      OBVIOUS
    <3> HIDE DEF IInv, TypeOK
    <3>2. /\ document' = [document EXCEPT !.revision = document.revision + 1]
          /\ vaultRevision' = document'.revision /\ live' = [live EXCEPT ![h] = None]
          /\ UNCHANGED <<unlocked, epoch, locking, usage, quit, cast, uses>>
      BY <2>3 DEF Write, Release
    <3>3. /\ document' \in Documents /\ document'.revision = document.revision + 1
          /\ document'.count = document.count /\ document'.markers = document.markers
      BY <3>1, <3>2, RevisedFacts
    <3>4. live' \in [Handlers -> Nat \cup {None}]
      BY <3>1, <3>2
    <3>5. UNCHANGED <<used, dropped>> /\ fresh' = fresh
      BY <3>2 DEF uses
    <3>6. document'.revision \in Nat /\ document.revision \in Nat
      BY <3>1, <3>3 DEF Documents
    <3>7. /\ document'.revision >= document.revision /\ vaultRevision' \in Nat
          /\ vaultRevision' = document'.revision
      BY <3>2, <3>3, <3>6
    <3> HIDE DEF Documents, uses
    <3>8. UNCHANGED <<usage, quit, cast, used, dropped, locking>>
      BY <3>2, <3>5
    <3>9. QED
      BY <3>1, <3>2, <3>3, <3>4, <3>5, <3>7, <3>8
  <2>4. CASE End(h)
    BY <2>4 DEF End, Release
  <2>5. QED
    BY <2>1, <2>2, <2>3, <2>4
<1>2. TypeOK'
  BY <1>1 DEF IInv, TypeOK, usage, Documents
<1>3. Tried(buckets, buckets')
  BY <1>1 DEF Tried, usage
<1>4. FlushInOrder'
  BY <1>1 DEF IInv, FlushInOrder, usage
<1>5. vaultRevision' <= document'.revision
  BY <1>1 DEF IInv, NothingInvented, TypeOK, Documents
<1>6. QED
  BY <1>1, <1>2, <1>3, <1>4, <1>5, QuietIInv DEF IInv

\* The queue takes a use: in its last bucket, unless that was tried, or in a new one.
LEMMA CollectedFacts ==
  ASSUME TypeOK, Filed(buckets, document), NEW e \in Events \ used,
         document.count[e] = 0, ToSet(document.markers) \subseteq used
  PROVE  LET r == Collected(e)
         IN /\ r \in Seq(Buckets) /\ Held(r) = Held(buckets) \cup {e}
            /\ Len(r) >= Len(buckets) /\ r # <<>>
            /\ \A i \in 1..Len(buckets) : /\ r[i].id = buckets[i].id
                                          /\ r[i].attempted = buckets[i].attempted
                                          /\ buckets[i].attempted => r[i] = buckets[i]
            /\ \A i \in 1..Len(r) : i > Len(buckets) => r[i].id = e
            /\ \A i, j \in 1..Len(r) : i # j => r[i].events \cap r[j].events = {}
            /\ \A i \in 1..Len(r) :
                 /\ r[i].id \in r[i].events /\ r[i].events \subseteq used \cup {e}
                 /\ r[i].id \in ToSet(document.markers) => i = 1 /\ r[i].attempted
                 /\ \A x \in r[i].events :
                      document.count[x] = IF r[i].id \in ToSet(document.markers) THEN 1 ELSE 0
<1> DEFINE q == buckets
           n == Len(q)
           r == Collected(e)
<1>1. q \in Seq(Buckets) /\ n \in Nat /\ (q # <<>> <=> n > 0) /\ \A i \in 1..n : q[i] \in Buckets
  BY SeqFacts DEF TypeOK
<1>2. CASE Joins
  <2> DEFINE b == [q[n] EXCEPT !.events = @ \cup {e}]
  <2>1. n \in 1..n /\ ~q[n].attempted /\ q[n] \in Buckets
    BY <1>1, <1>2 DEF Joins, Last
  <2>2. /\ b \in Buckets /\ b.id = q[n].id /\ b.events = q[n].events \cup {e}
        /\ b.attempted = q[n].attempted
    BY <2>1 DEF Buckets
  <2>3. r = [q EXCEPT ![n] = b]
    BY <1>2 DEF Collected
  <2> HIDE DEF b
  <2>4. r \in Seq(Buckets) /\ Len(r) = n /\ \A i \in 1..n : r[i] = IF i = n THEN b ELSE q[i]
    BY <1>1, <2>1, <2>2, <2>3, ExceptSeq
  <2> HIDE DEF r, n
  <2>5. Held(r) = Held(q) \cup {e}
    BY <1>1, <2>1, <2>2, <2>4 DEF Held, n
  <2>6. r # <<>>
    BY <2>1, <2>4, EmptySeq
  <2>7. \A i, j \in 1..Len(r) : i # j => r[i].events \cap r[j].events = {}
    <3>1. \A i \in 1..n : e \notin q[i].events
      BY DEF Filed, n
    <3>2. QED
      BY <2>2, <2>4, <3>1 DEF Filed, n
  <2>8. ASSUME NEW i \in 1..Len(r)
        PROVE  /\ r[i].id \in r[i].events /\ r[i].events \subseteq used \cup {e}
               /\ r[i].id \in ToSet(document.markers) => i = 1 /\ r[i].attempted
               /\ \A x \in r[i].events :
                    document.count[x] = IF r[i].id \in ToSet(document.markers) THEN 1 ELSE 0
    <3>1. CASE i = n
      <4>1. q[n].id \notin ToSet(document.markers)
        BY <2>1 DEF Filed, n
      <4>2. QED
        BY <2>1, <2>2, <2>4, <3>1, <4>1 DEF Filed, n
    <3>2. CASE i # n
      BY <2>4, <3>2 DEF Filed, n
    <3>3. QED
      BY <3>1, <3>2
  <2>9. QED
    <3>1. n \in Nat /\ \A i \in 1..Len(r) : ~(i > n)
      BY <1>1, <2>4 DEF n
    <3>2. \A i \in 1..n : /\ r[i].id = q[i].id /\ r[i].attempted = q[i].attempted
                          /\ q[i].attempted => r[i] = q[i]
      BY <2>1, <2>2, <2>4
    <3>3. QED
      BY <2>4, <2>5, <2>6, <2>7, <2>8, <3>1, <3>2 DEF n, r
<1>3. CASE ~Joins
  <2> DEFINE b == [id |-> e, events |-> {e}, attempted |-> FALSE]
  <2>1. b \in Buckets /\ b.id = e /\ b.events = {e} /\ b.attempted = FALSE
    BY DEF Buckets
  <2>2. r = Append(q, b)
    BY <1>3 DEF Collected
  <2> HIDE DEF b, r
  <2>3. /\ r \in Seq(Buckets) /\ Len(r) = n + 1 /\ r # <<>>
        /\ \A i \in 1..n : r[i] = q[i]
        /\ r[n + 1] = b
    BY <1>1, <2>1, <2>2, AppendProperties
  <2> HIDE DEF n
  <2>4. n \in Nat /\ n + 1 \in 1..Len(r) /\ \A i \in 1..Len(r) : i \in 1..n \/ i = n + 1
    BY <1>1, <2>3
  <2>5. Held(r) = Held(q) \cup {e}
    BY <2>1, <2>3, <2>4 DEF Held, n
  <2>6. \A i, j \in 1..Len(r) : i # j => r[i].events \cap r[j].events = {}
    <3>1. \A i \in 1..n : e \notin q[i].events
      BY DEF Filed, n
    <3>2. \A i, j \in 1..n : i # j => q[i].events \cap q[j].events = {}
      BY DEF Filed, n
    <3>3. QED
      BY <2>1, <2>3, <2>4, <3>1, <3>2
  <2>7. ASSUME NEW i \in 1..Len(r)
        PROVE  /\ r[i].id \in r[i].events /\ r[i].events \subseteq used \cup {e}
               /\ r[i].id \in ToSet(document.markers) => i = 1 /\ r[i].attempted
               /\ \A x \in r[i].events :
                    document.count[x] = IF r[i].id \in ToSet(document.markers) THEN 1 ELSE 0
    <3>1. CASE i = n + 1
      BY <2>1, <2>3, <3>1
    <3>2. CASE i \in 1..n
      BY <2>3, <3>2 DEF Filed, n
    <3>3. QED
      BY <2>4, <3>1, <3>2
  <2>8. QED
    <3>1. Len(r) >= n /\ \A i \in 1..Len(r) : i > n => r[i].id = e
      BY <2>1, <2>3, <2>4
    <3>2. QED
      BY <2>3, <2>5, <2>6, <2>7, <3>1 DEF n, r
<1>4. QED
  BY <1>2, <1>3

LEMMA RecordIInv == ASSUME IInv, NEW e \in Events, record(e) PROVE IInv'
<1> DEFINE r == Collected(e)
<1>1. /\ e \in Events \ used /\ used' = used \cup {e} /\ fresh' = fresh \cup {e}
      /\ buckets' = r
      /\ UNCHANGED <<session, document, flush, quit, cast, dropped>>
      /\ \/ timer' = FALSE /\ flushTail' = Append(flushTail, "background")
         \/ timer' = TRUE /\ flushTail' = flushTail
  BY DEF record
<1>2. /\ TypeOK /\ Filed(buckets, document) /\ Pending = Held(buckets)
      /\ buckets \in Seq(Buckets) /\ Len(buckets) \in Nat
  BY FiledFacts, SeqFacts DEF IInv, TypeOK
<1>3. document.count[e] = 0 /\ ToSet(document.markers) \subseteq used
  BY <1>1 DEF IInv, NothingInvented
<1>4. /\ r \in Seq(Buckets) /\ Held(r) = Held(buckets) \cup {e}
      /\ Len(r) >= Len(buckets) /\ r # <<>>
      /\ \A i \in 1..Len(buckets) : /\ r[i].id = buckets[i].id
                                    /\ r[i].attempted = buckets[i].attempted
                                    /\ buckets[i].attempted => r[i] = buckets[i]
      /\ \A i \in 1..Len(r) : i > Len(buckets) => r[i].id = e
      /\ \A i, j \in 1..Len(r) : i # j => r[i].events \cap r[j].events = {}
      /\ \A i \in 1..Len(r) :
           /\ r[i].id \in r[i].events /\ r[i].events \subseteq used \cup {e}
           /\ r[i].id \in ToSet(document.markers) => i = 1 /\ r[i].attempted
           /\ \A x \in r[i].events :
                document.count[x] = IF r[i].id \in ToSet(document.markers) THEN 1 ELSE 0
  BY <1>1, <1>2, <1>3, CollectedFacts
<1> HIDE DEF r
<1>5. /\ Len(r) \in Nat
      /\ \A i \in 1..Len(r) : r[i] \in ToSet(r)
      /\ \A b \in ToSet(r) : \E i \in 1..Len(r) : b = r[i]
      /\ UNION {b.events : b \in ToSet(r)} = Held(r)
  <2>1. r \in Seq(Buckets)
    BY <1>4
  <2>2. QED
    BY ONLY <2>1, SeqFacts
<1>6. Pending' = Held(r)
  BY <1>1, <1>5 DEF Pending
<1>7. TypeOK'
  <2>1. flushTail' \in Seq({"background", "scope"})
    <3>1. flushTail \in Seq({"background", "scope"}) /\ "background" \in {"background", "scope"}
      BY <1>2 DEF TypeOK
    <3>2. Append(flushTail, "background") \in Seq({"background", "scope"})
      BY <3>1, AppendProperties
    <3>3. QED
      BY <1>1, <3>1, <3>2
  <2>2. /\ timer' \in BOOLEAN /\ used' \subseteq Events
        /\ fresh' \subseteq used' /\ dropped' \subseteq used'
    BY <1>1, <1>2 DEF TypeOK
  <2>3. QED
    BY <1>1, <1>2, <1>4, <2>1, <2>2 DEF TypeOK, session
<1>8. BucketsInOrder'
  BY <1>1, <1>4 DEF BucketsInOrder
<1>9. BucketsAgree'
  <2>1. ASSUME NEW b \in ToSet(r), NEW x \in b.events
        PROVE  document.count[x] = IF b.id \in ToSet(document.markers) THEN 1 ELSE 0
    BY <1>4, <1>5
  <2>2. QED
    BY <1>1, <1>4, <2>1 DEF BucketsAgree
<1>10. UsageCountedOnce'
  <2>1. ASSUME NEW x \in used \cup {e}
        PROVE  document.count[x] <= 1 /\ (x \in Held(r) \cup dropped \/ document.count[x] = 1)
    BY <1>2, <1>3, <1>4 DEF IInv, UsageCountedOnce
  <2>2. QED
    BY <1>1, <1>6, <2>1 DEF UsageCountedOnce
<1>11. RevisionFollowsDocument'
  BY <1>1, <1>2, <1>4, <1>6 DEF IInv, RevisionFollowsDocument, session
<1>12. NothingInvented'
  BY <1>1 DEF IInv, NothingInvented, session
<1>13. FlushInOrder'
  <2>1. SUFFICES ASSUME flush # None PROVE FlushInOrder'
    BY <1>1 DEF FlushInOrder
  <2>2. /\ flush.targets \subseteq used /\ 1 \in 1..Len(buckets)
        /\ buckets[1].attempted /\ buckets[1].id \in flush.targets
        /\ \A i, j \in 1..Len(buckets) :
             j < i /\ buckets[i].id \in flush.targets => buckets[j].id \in flush.targets
    BY <1>2, <2>1, SeqFacts DEF IInv, FlushInOrder
  <2>3. \A i \in 1..Len(r) : r[i].id \in flush.targets => i \in 1..Len(buckets)
    BY <1>1, <1>2, <1>4, <1>5, <2>2
  <2>4. r[1].attempted /\ r[1].id \in flush.targets
    BY <1>4, <2>2
  <2>5. ASSUME NEW i \in 1..Len(r), NEW j \in 1..Len(r), j < i, r[i].id \in flush.targets
        PROVE  r[j].id \in flush.targets
    <3>1. i \in 1..Len(buckets)
      BY <2>3, <2>5
    <3>2. j \in 1..Len(buckets)
      BY <1>2, <1>5, <2>5, <3>1
    <3>3. QED
      BY <1>4, <2>2, <2>5, <3>1, <3>2
  <2>6. QED
    BY <1>1, <1>4, <2>2, <2>4, <2>5 DEF FlushInOrder
<1>14. LockedOut'
  BY <1>1 DEF IInv, LockedOut, Locking, session
<1>15. QED
  BY <1>7, <1>8, <1>9, <1>10, <1>11, <1>12, <1>13, <1>14 DEF IInv

\* A flush is asked for.
LEMMA FlushByIInv ==
  ASSUME IInv, NEW who \in {"background", "scope"}, FlushBy(who) PROVE IInv'
<1>1. /\ timer' = FALSE /\ flushTail' = Append(flushTail, who)
      /\ UNCHANGED <<session, document, buckets, flush, quit, cast, uses>>
  BY DEF FlushBy
<1>2. TypeOK'
  <2>1. flushTail' \in Seq({"background", "scope"})
    BY <1>1, AppendProperties DEF IInv, TypeOK
  <2>2. QED
    BY <1>1, <2>1 DEF IInv, TypeOK, session, uses
<1>3. Tried(buckets, buckets') /\ FlushInOrder'
  BY <1>1 DEF Tried, IInv, FlushInOrder, uses
<1>4. QED
  BY <1>1, <1>2, <1>3, QuietIInv DEF IInv, NothingInvented, session, uses

LEMMA StartFlushIInv == ASSUME IInv, StartFlush PROVE IInv'
<1> DEFINE targets == {b.id : b \in ToSet(buckets)}
           by      == Head(flushTail)
<1>1. /\ flushTail # <<>> /\ flushTail' = Tail(flushTail) /\ Proceed(by, targets, buckets)
      /\ UNCHANGED <<unlocked, live, locking, vaultRevision, document, quit, cast, used, fresh>>
  BY DEF StartFlush
<1>2. /\ TypeOK /\ Filed(buckets, document) /\ Pending = Held(buckets)
      /\ buckets \in Seq(Buckets)
      /\ \A i \in 1..Len(buckets) : buckets[i] \in Buckets
      /\ ToSet(buckets) = {buckets[i] : i \in 1..Len(buckets)}
  BY FiledFacts, SeqFacts DEF IInv, TypeOK
<1>3. by \in {"background", "scope"} /\ flushTail' \in Seq({"background", "scope"})
  BY <1>1, <1>2, HeadTailProperties DEF TypeOK
<1>4. targets \in SUBSET Events /\ targets \subseteq used /\ First(buckets, targets)
  BY <1>2 DEF Filed, First, Buckets
<1> HIDE DEF targets, by
<1>5. /\ \/ buckets' \in Seq(Buckets) /\ Tried(buckets, buckets') /\ dropped' = dropped
         \/ buckets' = <<>> /\ dropped' = dropped \cup Pending
      /\ timer' \in BOOLEAN /\ epoch' \in Nat /\ flush' \in Flushes \cup {None}
      /\ flush' # None => /\ flush'.targets = targets /\ First(buckets', targets)
                          /\ buckets' # <<>> /\ buckets'[1].attempted
                          /\ buckets'[1].id \in targets
  BY <1>1, <1>2, <1>3, <1>4, ProceedFacts
<1>6. TypeOK'
  <2>1. buckets' \in Seq(Buckets)
    BY <1>5, EmptySeq
  <2>2. dropped' \subseteq used
    BY <1>2, <1>5 DEF TypeOK, Held, Filed
  <2>3. QED
    BY <1>1, <1>2, <1>3, <1>5, <2>1, <2>2 DEF TypeOK
<1>7. FlushInOrder'
  BY <1>1, <1>4, <1>5 DEF FlushInOrder, First
<1>8. /\ \A e \in used : /\ document'.count[e] <= 1
                         /\ e \in Held(buckets) \cup dropped \/ document'.count[e] = 1
      /\ \A e \in Events \ used : document'.count[e] = 0
      /\ ToSet(document'.markers) \subseteq used /\ vaultRevision' <= document'.revision
  BY <1>1, <1>2 DEF IInv, UsageCountedOnce, NothingInvented
<1>9. unlocked' => \/ vaultRevision' = document'.revision
                   \/ \E e \in Held(buckets) \cup dropped : document'.count[e] = 1
  BY <1>1, <1>2 DEF IInv, RevisionFollowsDocument
<1>10. QED
  BY <1>1, <1>2, <1>5, <1>6, <1>7, <1>8, <1>9, LeavesIInv

-----------------------------------------------------------------------------
\* The document with the first bucket in it, beside the queue with that bucket and
\* without it.
LEMMA CommittedFacts ==
  ASSUME IInv, flush # None
  PROVE  LET b == buckets[1]
             d == Applied(b)
             q == RemoveAt(buckets, 1)
         IN /\ d \in Documents /\ vaultRevision <= d.revision
            /\ ToSet(d.markers) \subseteq used
            /\ \A e \in b.events : d.count[e] = 1
            /\ \A e \in Events : e \notin b.events => d.count[e] = document.count[e]
            /\ b.events \subseteq used /\ b.id \in b.events
            /\ Filed(buckets, d) /\ Filed(q, d) /\ q \in Seq(Buckets)
            /\ Held(q) \subseteq Held(buckets) /\ Held(buckets) \subseteq Held(q) \cup b.events
            /\ First(q, flush.targets)
<1> DEFINE b == buckets[1]
           d == Applied(b)
           q == RemoveAt(buckets, 1)
           n == Len(buckets)
<1>1. /\ TypeOK /\ Filed(buckets, document) /\ buckets \in Seq(Buckets) /\ n \in Nat
      /\ \A i \in 1..n : buckets[i] \in Buckets
  BY FiledFacts, SeqFacts DEF IInv, TypeOK
<1>2. /\ buckets # <<>> /\ b \in Buckets /\ First(buckets, flush.targets)
      /\ 1 \in 1..n /\ b.attempted
  BY <1>1, CurrentFacts, SeqFacts DEF IInv, FlushInOrder
<1>3. document \in Documents
  BY <1>1 DEF TypeOK, Documents
<1>4. /\ d \in Documents /\ d.revision >= document.revision
      /\ b.id \in ToSet(d.markers)
      /\ ToSet(d.markers) \subseteq ToSet(document.markers) \cup {b.id}
      /\ b.id \in ToSet(document.markers) => d = document
      /\ b.id \notin ToSet(document.markers) =>
           \A e \in Events :
             d.count[e] = document.count[e] + (IF e \in b.events THEN 1 ELSE 0)
  BY <1>2, <1>3, AppliedFacts
<1>5. /\ b.id \in b.events /\ b.events \subseteq used /\ b.events \subseteq Events
      /\ \A e \in b.events :
           document.count[e] = IF b.id \in ToSet(document.markers) THEN 1 ELSE 0
  BY <1>1, <1>2 DEF Filed, Buckets
<1> HIDE DEF d
<1>6. \A e \in b.events : d.count[e] = 1
  <2>1. CASE b.id \in ToSet(document.markers)
    BY <1>4, <1>5, <2>1
  <2>2. CASE b.id \notin ToSet(document.markers)
    BY <1>4, <1>5, <2>2
  <2>3. QED
    BY <2>1, <2>2
<1>7. \A e \in Events : e \notin b.events => d.count[e] = document.count[e]
  BY <1>3, <1>4 DEF Documents
<1>8. /\ vaultRevision <= d.revision /\ ToSet(d.markers) \subseteq used
  BY <1>1, <1>3, <1>4, <1>5 DEF IInv, NothingInvented, Documents, TypeOK
<1>9. ASSUME NEW i \in 1..n, i # 1
      PROVE  /\ buckets[i].id \notin ToSet(d.markers)
             /\ buckets[i].id \in buckets[i].events /\ buckets[i].events \subseteq used
             /\ \A e \in buckets[i].events : d.count[e] = 0
  <2>1. /\ buckets[i].events \cap b.events = {} /\ buckets[i].id \in buckets[i].events
        /\ buckets[i].id \notin ToSet(document.markers) /\ buckets[i].events \subseteq used
        /\ \A e \in buckets[i].events : document.count[e] = 0
    BY <1>1, <1>2, <1>9 DEF Filed
  <2>2. buckets[i].events \subseteq Events
    BY <1>1 DEF Buckets
  <2>3. QED
    BY <1>4, <1>5, <1>7, <2>1, <2>2
<1>10. Filed(buckets, d)
  <2>1. \A i, j \in 1..n : i # j => buckets[i].events \cap buckets[j].events = {}
    BY <1>1 DEF Filed
  <2>2. ASSUME NEW i \in 1..n
        PROVE  /\ buckets[i].id \in buckets[i].events /\ buckets[i].events \subseteq used
               /\ buckets[i].id \in ToSet(d.markers) => i = 1 /\ buckets[i].attempted
               /\ \A e \in buckets[i].events :
                    d.count[e] = IF buckets[i].id \in ToSet(d.markers) THEN 1 ELSE 0
    <3>1. CASE i = 1
      BY <1>2, <1>4, <1>5, <1>6, <3>1
    <3>2. CASE i # 1
      BY <1>9, <3>2
    <3>3. QED
      BY <3>1, <3>2
  <2>3. QED
    BY <2>1, <2>2 DEF Filed
<1>11. /\ q \in Seq(Buckets) /\ Len(q) = n - 1 /\ \A i \in 1..(n - 1) : q[i] = buckets[i + 1]
  BY <1>1, <1>2, RestFacts
<1> HIDE DEF q
<1>12. \A i \in 1..Len(q) : i + 1 \in 1..n /\ i + 1 # 1 /\ q[i] = buckets[i + 1]
  BY <1>1, <1>11
<1>13. Filed(q, d)
  <2>1. \A i, j \in 1..Len(q) : i # j => q[i].events \cap q[j].events = {}
    BY <1>1, <1>12 DEF Filed
  <2>2. QED
    BY <1>9, <1>12, <2>1 DEF Filed
<1>14. Held(q) \subseteq Held(buckets)
  BY <1>12 DEF Held
<1>15. Held(buckets) \subseteq Held(q) \cup b.events
  <2>1. ASSUME NEW e \in Events, NEW i \in 1..n, e \in buckets[i].events
        PROVE  e \in Held(q) \cup b.events
    <3>1. CASE i = 1
      BY <2>1, <3>1
    <3>2. CASE i # 1
      <4>1. i - 1 \in 1..Len(q) /\ q[i - 1] = buckets[i]
        BY <1>1, <1>11, <3>2
      <4>2. QED
        BY <2>1, <4>1 DEF Held
    <3>3. QED
      BY <3>1, <3>2
  <2>2. QED
    BY <2>1 DEF Held
<1>16. First(q, flush.targets)
  <2>1. ASSUME NEW i \in 1..Len(q), NEW j \in 1..Len(q), j < i, q[i].id \in flush.targets
        PROVE  q[j].id \in flush.targets
    <3>1. i + 1 \in 1..n /\ j + 1 \in 1..n /\ j + 1 < i + 1
      BY <1>1, <1>12, <2>1
    <3>2. QED
      BY <1>2, <1>12, <2>1, <3>1 DEF First
  <2>2. QED
    BY <2>1 DEF First
<1>17. QED
  BY <1>4, <1>5, <1>6, <1>7, <1>8, <1>10, <1>11, <1>13, <1>14, <1>15, <1>16 DEF d, q

\* No use is counted twice by that, and none is lost.
LEMMA CountedFacts ==
  ASSUME IInv, flush # None, NEW q,
         q = buckets \/ q = RemoveAt(buckets, 1)
  PROVE  LET d == Applied(buckets[1])
         IN /\ \A e \in used : /\ d.count[e] <= 1
                               /\ e \in Held(q) \cup dropped \/ d.count[e] = 1
            /\ \A e \in Events \ used : d.count[e] = 0
<1> DEFINE b == buckets[1]
           d == Applied(b)
<1> HIDE DEF d
<1>1. /\ \A e \in b.events : d.count[e] = 1
      /\ \A e \in Events : e \notin b.events => d.count[e] = document.count[e]
      /\ b.events \subseteq used
      /\ Held(buckets) \subseteq Held(q) \cup b.events
  BY CommittedFacts DEF d
<1>2. /\ Pending = Held(buckets) /\ used \subseteq Events
      /\ \A e \in used : /\ document.count[e] <= 1
                         /\ e \in Pending \cup dropped \/ document.count[e] = 1
      /\ \A e \in Events \ used : document.count[e] = 0
  BY FiledFacts DEF IInv, UsageCountedOnce, NothingInvented, TypeOK
<1>3. QED
  BY <1>1, <1>2 DEF d

LEMMA CommitBucketIInv == ASSUME IInv, CommitBucket PROVE IInv'
<1> DEFINE b == buckets[1]
           d == Applied(b)
           q == RemoveAt(buckets, 1)
<1>1. TypeOK /\ flush # None /\ flush \in Flushes /\ Current = 1 /\ Pending = Held(buckets)
  BY CurrentFacts, FiledFacts DEF CommitBucket, IInv, TypeOK
<1>2. /\ document' = d /\ vaultRevision' = Published(document'.revision)
      /\ Proceed(flush.by, flush.targets, q)
      /\ UNCHANGED <<unlocked, live, locking, flushTail, quit, cast, used, fresh>>
  BY <1>1 DEF CommitBucket
<1>3. /\ d \in Documents /\ vaultRevision <= d.revision
      /\ ToSet(d.markers) \subseteq used
      /\ Filed(q, d) /\ q \in Seq(Buckets) /\ Held(q) \subseteq Held(buckets)
      /\ First(q, flush.targets)
  BY <1>1, CommittedFacts
<1>4. /\ \A e \in used : /\ d.count[e] <= 1
                         /\ e \in Held(q) \cup dropped \/ d.count[e] = 1
      /\ \A e \in Events \ used : d.count[e] = 0
  BY <1>1, CountedFacts
<1> HIDE DEF d, q
<1>5. /\ flush.by \in {"background", "scope"} /\ flush.targets \in SUBSET Events
      /\ flush.targets \subseteq used
  BY <1>1 DEF Flushes, IInv, FlushInOrder
<1>6. /\ \/ buckets' \in Seq(Buckets) /\ Tried(q, buckets') /\ dropped' = dropped
         \/ buckets' = <<>> /\ dropped' = dropped \cup Pending
      /\ timer' \in BOOLEAN /\ epoch' \in Nat /\ flush' \in Flushes \cup {None}
      /\ flush' # None => /\ flush'.targets = flush.targets /\ First(buckets', flush.targets)
                          /\ buckets' # <<>> /\ buckets'[1].attempted
                          /\ buckets'[1].id \in flush.targets
  BY <1>1, <1>2, <1>3, <1>5, ProceedFacts
<1>7. vaultRevision' = d.revision /\ d.revision \in Nat
  BY <1>1, <1>2, <1>3 DEF Published, Documents, TypeOK
<1>8. TypeOK'
  <2>1. buckets' \in Seq(Buckets)
    BY <1>6, EmptySeq
  <2>2. dropped' \subseteq used
    <3>1. Held(buckets) \subseteq used
      BY <1>1, FiledFacts DEF IInv, Held, Filed
    <3>2. QED
      BY <1>1, <1>6, <3>1 DEF TypeOK
  <2>3. document' \in [revision : Nat, count : [Events -> Nat], markers : Seq(Events)]
    BY <1>2, <1>3 DEF Documents
  <2>4. QED
    BY <1>1, <1>2, <1>6, <1>7, <2>1, <2>2, <2>3 DEF TypeOK
<1>9. FlushInOrder'
  BY <1>2, <1>5, <1>6 DEF FlushInOrder, First
<1>10. /\ vaultRevision' <= document'.revision
       /\ vaultRevision' = document'.revision
  BY <1>2, <1>7
<1>11. QED
  BY <1>1, <1>2, <1>3, <1>4, <1>6, <1>8, <1>9, <1>10, LeavesIInv

LEMMA FaultFacts ==
  ASSUME TypeOK, Fault
  PROVE  cast' \in [handlers : SUBSET Handlers, faults : Nat]
<1>1. /\ cast \in [handlers : SUBSET Handlers, faults : Nat]
      /\ cast.faults > 0 /\ cast' = [cast EXCEPT !.faults = cast.faults - 1]
  BY DEF Fault, TypeOK
<1>2. PICK n \in Nat : n = cast.faults - 1
  BY <1>1
<1>3. QED
  BY <1>1, <1>2

LEMMA CommitUnseenIInv == ASSUME IInv, CommitUnseen PROVE IInv'
<1> DEFINE b == buckets[1]
           d == Applied(b)
<1>1. TypeOK /\ flush # None /\ flush \in Flushes /\ Current = 1 /\ Pending = Held(buckets)
      /\ buckets \in Seq(Buckets)
  BY CurrentFacts, FiledFacts DEF CommitUnseen, IInv, TypeOK
<1>2. /\ document' = d /\ Fault /\ Failed(flush.by, buckets)
      /\ UNCHANGED <<unlocked, live, locking, vaultRevision, flushTail, quit, used, fresh>>
  BY <1>1 DEF CommitUnseen
<1>3. /\ d \in Documents /\ vaultRevision <= d.revision
      /\ ToSet(d.markers) \subseteq used /\ Filed(buckets, d)
      /\ \A e \in b.events : d.count[e] = 1
      /\ b.events \subseteq used /\ b.id \in b.events
  BY <1>1, CommittedFacts
<1>4. /\ \A e \in used : /\ d.count[e] <= 1
                         /\ e \in Held(buckets) \cup dropped \/ d.count[e] = 1
      /\ \A e \in Events \ used : d.count[e] = 0
  BY <1>1, CountedFacts
<1> HIDE DEF d
<1>5. /\ flush' = None /\ timer' \in BOOLEAN /\ epoch' \in Nat
      /\ \/ buckets' = buckets /\ dropped' = dropped
         \/ buckets' = <<>> /\ dropped' = dropped \cup Pending
  BY <1>1, <1>2, FailedFacts
<1>6. TypeOK'
  <2>1. buckets' \in Seq(Buckets)
    BY <1>1, <1>5, EmptySeq
  <2>2. dropped' \subseteq used
    <3>1. Held(buckets) \subseteq used
      BY <1>3 DEF Held, Filed
    <3>2. QED
      BY <1>1, <1>5, <3>1 DEF TypeOK
  <2>3. document' \in [revision : Nat, count : [Events -> Nat], markers : Seq(Events)]
    BY <1>2, <1>3 DEF Documents
  <2>4. cast' \in [handlers : SUBSET Handlers, faults : Nat]
    BY <1>1, <1>2, FaultFacts DEF TypeOK
  <2>5. QED
    BY <1>1, <1>2, <1>5, <2>1, <2>2, <2>3, <2>4 DEF TypeOK
<1>7. FlushInOrder'
  BY <1>5 DEF FlushInOrder
<1>8. \E e \in Held(buckets) \cup dropped : document'.count[e] = 1
  <2>1. b.id \in Held(buckets)
    <3>1. 1 \in 1..Len(buckets) /\ b.id \in Events
      BY <1>1, <1>3, SeqFacts, CurrentFacts DEF IInv, TypeOK
    <3>2. QED
      BY <1>3, <3>1 DEF Held
  <2>2. QED
    BY <1>2, <1>3, <2>1
<1>9. Tried(buckets, buckets)
  BY DEF Tried
<1>10. QED
  BY <1>1, <1>2, <1>3, <1>4, <1>5, <1>6, <1>7, <1>8, <1>9, LeavesIInv

LEMMA FailBucketIInv == ASSUME IInv, FailBucket PROVE IInv'
<1>1. /\ TypeOK /\ Pending = Held(buckets) /\ buckets \in Seq(Buckets)
      /\ Filed(buckets, document)
  BY FiledFacts DEF IInv, TypeOK
<1>2. /\ Failed(flush.by, buckets) /\ (cast' = cast \/ Fault)
      /\ UNCHANGED <<unlocked, live, locking, vaultRevision, document, flushTail, quit, used,
                     fresh>>
  BY DEF FailBucket
<1>3. /\ flush' = None /\ timer' \in BOOLEAN /\ epoch' \in Nat
      /\ \/ buckets' = buckets /\ dropped' = dropped
         \/ buckets' = <<>> /\ dropped' = dropped \cup Pending
  BY <1>1, <1>2, FailedFacts
<1>4. TypeOK'
  <2>1. buckets' \in Seq(Buckets)
    BY <1>1, <1>3, EmptySeq
  <2>2. dropped' \subseteq used
    <3>1. Held(buckets) \subseteq used
      BY <1>1 DEF Held, Filed
    <3>2. QED
      BY <1>1, <1>3, <3>1 DEF TypeOK
  <2>3. cast' \in [handlers : SUBSET Handlers, faults : Nat]
    BY <1>1, <1>2, FaultFacts DEF TypeOK
  <2>4. QED
    BY <1>1, <1>2, <1>3, <2>1, <2>2, <2>3 DEF TypeOK
<1>5. FlushInOrder' /\ Tried(buckets, buckets)
  BY <1>3 DEF FlushInOrder, Tried
<1>6. /\ \A e \in used : /\ document'.count[e] <= 1
                         /\ e \in Held(buckets) \cup dropped \/ document'.count[e] = 1
      /\ \A e \in Events \ used : document'.count[e] = 0
      /\ ToSet(document'.markers) \subseteq used /\ vaultRevision' <= document'.revision
  BY <1>1, <1>2 DEF IInv, UsageCountedOnce, NothingInvented
<1>7. unlocked' => \/ vaultRevision' = document'.revision
                   \/ \E e \in Held(buckets) \cup dropped : document'.count[e] = 1
  BY <1>1, <1>2 DEF IInv, RevisionFollowsDocument
<1>8. Filed(buckets, document')
  BY <1>1, <1>2
<1>9. QED
  BY <1>1, <1>2, <1>3, <1>4, <1>5, <1>6, <1>7, <1>8, LeavesIInv

LEMMA AuthorizeCommitIInv == ASSUME IInv, AuthorizeCommit PROVE IInv'
<1>1. /\ flush # None /\ flush' = [flush EXCEPT !.at = "renaming"]
      /\ UNCHANGED <<session, document, buckets, timer, flushTail, quit, cast, uses>>
  BY DEF AuthorizeCommit
<1>2. flush \in Flushes
  BY <1>1 DEF IInv, TypeOK
<1>3. flush' \in Flushes /\ flush'.targets = flush.targets
  BY <1>1, <1>2 DEF Flushes
<1>4. TypeOK'
  BY <1>1, <1>3 DEF IInv, TypeOK, session, uses
<1>5. Tried(buckets, buckets') /\ FlushInOrder'
  BY <1>1, <1>3 DEF Tried, IInv, FlushInOrder, uses
<1>6. QED
  BY <1>1, <1>4, <1>5, QuietIInv DEF IInv, NothingInvented, session, uses

-----------------------------------------------------------------------------
\* The key is cleared; the queue stays.
LEMMA BeginLockIInv ==
  ASSUME IInv, NEW l \in Lockers, BeginLock(l), quit' \in {"no", "preparing", "exited"}
  PROVE  IInv'
<1>1. /\ UNCHANGED <<live, vaultRevision, document, usage, cast, uses>>
      /\ unlocked' = FALSE /\ epoch' \in Nat
      /\ locking' \in [Lockers -> {"no", "unlocked", "locked"}]
  BY DEF BeginLock, NextEpoch, IInv, TypeOK
<1>2. TypeOK'
  BY <1>1 DEF IInv, TypeOK, usage, uses
<1>3. Tried(buckets, buckets') /\ FlushInOrder'
  BY <1>1 DEF Tried, IInv, FlushInOrder, usage, uses
<1>4. QED
  BY <1>1, <1>2, <1>3, QuietIInv DEF IInv, NothingInvented, uses

LEMMA EndLockIInv == ASSUME IInv, NEW l \in Lockers, EndLock(l) PROVE IInv'
<1>1. /\ flush = None /\ vaultRevision' = 0
      /\ UNCHANGED <<unlocked, epoch, live, document, flushTail, flush, quit, cast, uses>>
      /\ locking' = [locking EXCEPT ![l] = "no"]
      /\ timer' = FALSE \/ timer' = timer
      /\ \/ buckets' = buckets
         \/ buckets # <<>> /\ buckets' = [buckets EXCEPT ![1].attempted = TRUE]
  BY DEF EndLock, Drained
<1>2. unlocked' = FALSE
  BY <1>1 DEF EndLock, IInv, TypeOK, LockedOut, Locking
<1>3. TypeOK /\ buckets \in Seq(Buckets)
  BY DEF IInv, TypeOK
<1>4. buckets' \in Seq(Buckets) /\ Tried(buckets, buckets')
  <2>1. CASE buckets' = buckets
    BY <1>3, <2>1 DEF Tried
  <2>2. CASE buckets # <<>> /\ buckets' = [buckets EXCEPT ![1].attempted = TRUE]
    <3>1. 1 \in 1..Len(buckets)
      BY <1>3, <2>2, SeqFacts
    <3>2. QED
      BY <1>3, <2>2, <3>1, TryFacts
  <2>3. QED
    BY <1>1, <2>1, <2>2
<1>5. TypeOK'
  BY <1>1, <1>3, <1>4 DEF TypeOK, uses
<1>6. FlushInOrder' /\ vaultRevision' <= document'.revision
  BY <1>1, <1>3 DEF FlushInOrder, TypeOK
<1>7. QED
  BY <1>1, <1>2, <1>4, <1>5, <1>6, QuietIInv DEF uses

\* A process takes the queue with it.
LEMMA EndProcessIInv ==
  ASSUME IInv, EndProcess("exited"), cast' \in [handlers : SUBSET Handlers, faults : Nat]
  PROVE  IInv'
<1>1. /\ TypeOK /\ Pending = Held(buckets) /\ buckets \in Seq(Buckets)
      /\ Filed(buckets, document)
  BY FiledFacts DEF IInv, TypeOK
<1>2. /\ quit' = "exited" /\ dropped' = dropped \cup Pending
      /\ unlocked' = FALSE /\ vaultRevision' = 0
      /\ buckets' = <<>> /\ timer' = FALSE /\ flushTail' = <<>> /\ flush' = None
      /\ locking' = [m \in Lockers |-> "no"]
      /\ live' = [h \in Handlers |-> None] /\ fresh' = {}
      /\ epoch' = epoch /\ document' = document /\ used' = used
  BY DEF EndProcess
<1>3. TypeOK'
  <2>1. <<>> \in Seq(Buckets) /\ <<>> \in Seq({"background", "scope"})
    BY EmptySeq
  <2>2. dropped' \subseteq used
    <3>1. Held(buckets) \subseteq used
      BY <1>1 DEF Held, Filed
    <3>2. QED
      BY <1>1, <1>2, <3>1 DEF TypeOK
  <2>3. QED
    BY <1>1, <1>2, <2>1, <2>2 DEF TypeOK
<1>4. FlushInOrder' /\ vaultRevision' <= document'.revision
  BY <1>1, <1>2 DEF FlushInOrder, TypeOK
<1>5. /\ \A e \in used : /\ document'.count[e] <= 1
                         /\ e \in Held(buckets) \cup dropped \/ document'.count[e] = 1
      /\ \A e \in Events \ used : document'.count[e] = 0
      /\ ToSet(document'.markers) \subseteq used
  BY <1>1, <1>2 DEF IInv, UsageCountedOnce, NothingInvented
<1>6. Filed(buckets, document')
  BY <1>1, <1>2
<1>7. QED
  BY <1>1, <1>2, <1>3, <1>4, <1>5, <1>6, LeavesIInv

LEMMA RestartIInv == ASSUME IInv, Restart PROVE IInv'
<1>1. quit' = "no" /\ UNCHANGED <<session, document, usage, cast, uses>>
  BY DEF Restart
<1>2. TypeOK'
  BY <1>1 DEF IInv, TypeOK, session, usage, uses
<1>3. Tried(buckets, buckets') /\ FlushInOrder'
  BY <1>1 DEF Tried, IInv, FlushInOrder, usage, uses
<1>4. QED
  BY <1>1, <1>2, <1>3, QuietIInv DEF IInv, NothingInvented, session, uses

-----------------------------------------------------------------------------
LEMMA NextIInv == IInv /\ [Next]_vars => IInv'
<1> SUFFICES ASSUME IInv, [Next]_vars PROVE IInv'
  OBVIOUS
<1>1. ASSUME NEW h \in Handlers, Begin(h) \/ Unlock(h) \/ Write(h) \/ End(h) PROVE IInv'
  BY <1>1, HandlerIInv
<1>2. ASSUME NEW e \in Events, record(e) PROVE IInv'
  BY <1>2, RecordIInv
<1>3. CASE TimerFires
  BY <1>3, FlushByIInv DEF TimerFires
<1>4. CASE beforeVaultScopeChange
  BY <1>4, FlushByIInv DEF beforeVaultScopeChange
<1>5. CASE StartFlush
  BY <1>5, StartFlushIInv
<1>6. CASE AuthorizeCommit
  BY <1>6, AuthorizeCommitIInv
<1>7. CASE CommitBucket
  BY <1>7, CommitBucketIInv
<1>8. CASE CommitUnseen
  BY <1>8, CommitUnseenIInv
<1>9. CASE FailBucket
  BY <1>9, FailBucketIInv
<1>10. ASSUME NEW l \in Lockers, Lock(l) PROVE IInv'
  BY <1>10, BeginLockIInv DEF Lock, IInv, TypeOK
<1>11. ASSUME NEW l \in Lockers, EndLock(l) PROVE IInv'
  BY <1>11, EndLockIInv
<1>12. CASE BeforeQuit
  BY <1>12, BeginLockIInv, LifecycleAssumption DEF BeforeQuit
<1>13. CASE ExitOrderly \/ ExitOnTimeout
  BY <1>13, EndProcessIInv DEF ExitOrderly, ExitOnTimeout, IInv, TypeOK
<1>14. CASE Crash
  BY <1>14, EndProcessIInv, FaultFacts DEF Crash, IInv
<1>15. CASE Restart
  BY <1>15, RestartIInv
<1>16. CASE UNCHANGED vars
  <2>1. UNCHANGED <<session, document, usage, quit, cast, uses>>
    BY <1>16 DEF vars
  <2>2. TypeOK'
    BY <2>1 DEF IInv, TypeOK, session, usage, uses
  <2>3. Tried(buckets, buckets') /\ FlushInOrder'
    BY <2>1 DEF Tried, IInv, FlushInOrder, usage, uses
  <2>4. QED
    BY <2>1, <2>2, <2>3, QuietIInv DEF IInv, NothingInvented, session, uses
<1>17. QED
  BY <1>1, <1>2, <1>3, <1>4, <1>5, <1>6, <1>7, <1>8, <1>9, <1>10, <1>11, <1>12, <1>13,
     <1>14, <1>15, <1>16 DEF Next

-----------------------------------------------------------------------------
\* The keyring
\* The two modules count with the same operator.
LEMMA KeyringCounts == \A S : Keyring!Cardinality(S) = Cardinality(S)
  BY DEF Cardinality, Keyring!Cardinality

\* The live handles are finitely many, so the counter can count them.
LEMMA KeyringLiveIsFinite == IsFiniteSet(Keyring!Live) /\ Cardinality(Keyring!Live) \in Nat
<1>1. Keyring!Live \in SUBSET Handles
  BY DEF Keyring!Live
<1>2. IsFiniteSet(Keyring!Live)
  BY <1>1, FS_Subset, KeyringAssumption
<1>3. QED
  BY <1>2, FS_CardinalityType

\* Acquiring an unheld place adds exactly one live handle.
LEMMA KeyringAcquireCounts ==
  ASSUME Keyring!TypeOK, Keyring!CountsLiveHandles, NEW h \in Handles, Keyring!Unheld(h),
         NEW kind \in {"operation", "lease"}, Keyring!Acquire(h, kind)
  PROVE  /\ Keyring!Live' = Keyring!Live \cup {h}
         /\ Keyring!CountsLiveHandles'
<1>1. h \notin Keyring!Live
  BY DEF Keyring!Live, Keyring!Held, Keyring!Unheld
<1>2. Keyring!Live' = Keyring!Live \cup {h}
  BY DEF Keyring!Live, Keyring!Held, Keyring!Unheld, Keyring!Acquire, Keyring!TypeOK
<1>3. Cardinality(Keyring!Live \cup {h}) = Cardinality(Keyring!Live) + 1
  BY <1>1, KeyringLiveIsFinite, FS_AddElement
<1>4. Keyring!CountsLiveHandles'
  BY KeyringCounts, <1>2, <1>3 DEF Keyring!CountsLiveHandles, Keyring!Acquire
<1>5. QED
  BY <1>2, <1>4

\* Releasing a live handle removes exactly it, and never underflows the counter.
LEMMA KeyringReleaseCounts ==
  ASSUME Keyring!TypeOK, Keyring!CountsLiveHandles, NEW h \in Handles, Keyring!release(h)
  PROVE  /\ Keyring!Live' = Keyring!Live \ {h}
         /\ Keyring!CountsLiveHandles'
         /\ activeOperations' = 0 <=> Keyring!Live' = {}
<1>1. h \in Keyring!Live
  BY DEF Keyring!Live, Keyring!release
<1>2. Keyring!Live' = Keyring!Live \ {h}
  BY DEF Keyring!Live, Keyring!Held, Keyring!release, Keyring!TypeOK
<1>3. /\ Cardinality(Keyring!Live \ {h}) = Cardinality(Keyring!Live) - 1
      /\ IsFiniteSet(Keyring!Live \ {h})
  BY <1>1, KeyringLiveIsFinite, FS_RemoveElement
<1>4. Cardinality(Keyring!Live) # 0
  BY <1>1, KeyringLiveIsFinite, FS_EmptySet
<1>5. Keyring!CountsLiveHandles'
  BY KeyringCounts, <1>2, <1>3, <1>4, KeyringLiveIsFinite DEF Keyring!CountsLiveHandles,
     Keyring!release
<1>6. Cardinality(Keyring!Live') = 0 <=> Keyring!Live' = {}
  BY <1>2, <1>3, FS_EmptySet
<1>7. QED
  BY KeyringCounts, <1>2, <1>5, <1>6 DEF Keyring!CountsLiveHandles

-----------------------------------------------------------------------------
LEMMA KeyringInitIInv == Keyring!Init => Keyring!IInv
<1> SUFFICES ASSUME Keyring!Init PROVE Keyring!IInv
  OBVIOUS
<1>1. Keyring!Live = {}
  BY DEF Keyring!Init, Keyring!Live, Keyring!Held
<1>2. Keyring!CountsLiveHandles
  BY KeyringCounts, <1>1, FS_EmptySet DEF Keyring!Init, Keyring!CountsLiveHandles
<1>3. Keyring!TypeOK
  <2>1. epochValue \in 0..MaxBoundaries
    BY KeyringAssumption DEF Keyring!Init
  <2>2. handle \in [Handles -> [kind : Keyring!HandleKinds, epoch : Nat]]
    BY DEF Keyring!Init, Keyring!HandleKinds
  <2>3. locker \in [Callers -> Keyring!LockStates] /\ awaited \in [Callers -> SUBSET Handles]
    BY DEF Keyring!Init, Keyring!LockStates
  <2>4. QED
    BY <2>1, <2>2, <2>3 DEF Keyring!Init, Keyring!TypeOK, Keyring!Buffers
<1>4. QED
  BY <1>1, <1>2, <1>3, KeyringAssumption
     DEF Keyring!Init, Keyring!IInv, Keyring!KeyBelongsToEpoch, Keyring!StampsAreOld,
         Keyring!FreshExactly, Keyring!LeaseSharesBuffer,
         Keyring!NoKeyWhileLocking, Keyring!AwaitedWorkIsLive, Keyring!LockDrains,
         Keyring!Held

\* What acquiring a handle keeps, for beginOperation and leaseBoundKey alike.
LEMMA KeyringAcquireIInv ==
  ASSUME Keyring!IInv, NEW h \in Handles, Keyring!Unheld(h), ~invalidating,
         NEW kind \in {"operation", "lease"}, kind = "lease" => key = epochValue,
         Keyring!Acquire(h, kind)
  PROVE  Keyring!IInv'
<1> USE DEF Keyring!Acquire
<1>1. Keyring!TypeOK'
  BY KeyringAssumption DEF Keyring!IInv, Keyring!TypeOK, Keyring!HandleKinds
<1>2. Keyring!Live' = Keyring!Live \cup {h} /\ Keyring!CountsLiveHandles'
  BY KeyringAcquireCounts DEF Keyring!IInv
<1>3. Keyring!KeyBelongsToEpoch' /\ Keyring!NoKeyWhileLocking' /\ Keyring!LockDrains'
  BY DEF Keyring!IInv, Keyring!KeyBelongsToEpoch, Keyring!NoKeyWhileLocking,
     Keyring!LockDrains
<1>4. Keyring!StampsAreOld'
  BY DEF Keyring!IInv, Keyring!StampsAreOld, Keyring!TypeOK
<1>5. Keyring!FreshExactly' /\ Keyring!LeaseSharesBuffer'
  BY DEF Keyring!IInv, Keyring!FreshExactly, Keyring!LeaseSharesBuffer, Keyring!TypeOK,
     Keyring!Held, Keyring!Unheld
<1>6. Keyring!AwaitedWorkIsLive'
  BY <1>2 DEF Keyring!IInv, Keyring!AwaitedWorkIsLive
<1>7. QED
  BY <1>1, <1>2, <1>3, <1>4, <1>5, <1>6 DEF Keyring!IInv

\* Crossing a boundary with the handles left alone: nothing stays fresh.
LEMMA KeyringBoundaryIInv ==
  ASSUME Keyring!IInv, Keyring!Boundary, UNCHANGED <<activeOperations, handle>>,
         key' \in {NoKey, epochValue'}, invalidating' \in BOOLEAN,
         invalidating' => key' = NoKey /\ activeOperations > 0,
         locker' \in [Callers -> Keyring!LockStates], awaited' \in [Callers -> SUBSET Handles],
         \A l \in Callers : /\ awaited'[l] \subseteq Keyring!Live
                            /\ awaited'[l] # {} => invalidating'
                            /\ locker'[l] = "returned" => awaited'[l] = {}
  PROVE  Keyring!IInv'
<1> USE DEF Keyring!Boundary
<1>1. Keyring!TypeOK'
  BY KeyringAssumption DEF Keyring!IInv, Keyring!TypeOK, Keyring!Buffers
<1>2. Keyring!Live' = Keyring!Live /\ Keyring!CountsLiveHandles'
  BY DEF Keyring!IInv, Keyring!CountsLiveHandles, Keyring!Live, Keyring!Held
<1>3. invalidating' => Keyring!Live' # {}
  BY KeyringCounts, <1>2, FS_EmptySet DEF Keyring!IInv, Keyring!CountsLiveHandles
<1>4. Keyring!KeyBelongsToEpoch' /\ Keyring!StampsAreOld'
  BY DEF Keyring!IInv, Keyring!KeyBelongsToEpoch, Keyring!StampsAreOld, Keyring!TypeOK
<1>5. Keyring!FreshExactly' /\ Keyring!LeaseSharesBuffer'
  BY DEF Keyring!IInv, Keyring!FreshExactly, Keyring!LeaseSharesBuffer,
     Keyring!StampsAreOld, Keyring!TypeOK
<1>6. Keyring!NoKeyWhileLocking' /\ Keyring!AwaitedWorkIsLive' /\ Keyring!LockDrains'
  BY <1>2, <1>3 DEF Keyring!NoKeyWhileLocking, Keyring!AwaitedWorkIsLive, Keyring!LockDrains
<1>7. QED
  BY <1>1, <1>2, <1>4, <1>5, <1>6 DEF Keyring!IInv

LEMMA KeyringReleaseIInv ==
  ASSUME Keyring!IInv, NEW h \in Handles, Keyring!release(h)
  PROVE  Keyring!IInv'
<1> USE DEF Keyring!release
<1>1. /\ Keyring!Live' = Keyring!Live \ {h}
      /\ Keyring!CountsLiveHandles'
      /\ activeOperations' = 0 <=> Keyring!Live' = {}
  BY KeyringReleaseCounts DEF Keyring!IInv
<1>2. Keyring!TypeOK'
  BY <1>1, KeyringAssumption DEF Keyring!IInv, Keyring!TypeOK, Keyring!HandleKinds
<1>3. Keyring!KeyBelongsToEpoch' /\ Keyring!StampsAreOld'
  BY DEF Keyring!IInv, Keyring!KeyBelongsToEpoch, Keyring!StampsAreOld, Keyring!TypeOK
<1>4. Keyring!FreshExactly' /\ Keyring!LeaseSharesBuffer'
  <2>1. invalidating => acquired = {}
    BY DEF Keyring!IInv, Keyring!NoKeyWhileLocking
  <2>2. \A g \in Handles : g # h => handle'[g] = handle[g]
    BY DEF Keyring!IInv, Keyring!TypeOK
  <2>3. ~Keyring!Held(h)'
    BY DEF Keyring!IInv, Keyring!TypeOK, Keyring!Held
  <2>4. invalidating' => invalidating
    OBVIOUS
  <2>5. ASSUME NEW g \in Handles, g # h, invalidating, ~invalidating'
        PROVE  ~Keyring!Held(g)
    BY <1>1, <2>5 DEF Keyring!Live
  <2>6. ASSUME NEW g \in Handles, g # h
        PROVE  g \in acquired' <=>
                 Keyring!Held(g)' /\ handle'[g].epoch = epochValue' /\ ~invalidating'
    BY <2>1, <2>2, <2>4, <2>5, <2>6 DEF Keyring!IInv, Keyring!FreshExactly, Keyring!Held
  <2>7. QED
    BY <2>2, <2>3, <2>6 DEF Keyring!IInv, Keyring!FreshExactly, Keyring!LeaseSharesBuffer,
       Keyring!TypeOK
<1>5. Keyring!NoKeyWhileLocking'
  BY <1>1 DEF Keyring!IInv, Keyring!NoKeyWhileLocking
<1>6. Keyring!AwaitedWorkIsLive' /\ Keyring!LockDrains'
  BY <1>1 DEF Keyring!IInv, Keyring!AwaitedWorkIsLive, Keyring!LockDrains, Keyring!TypeOK
<1>7. QED
  BY <1>1, <1>2, <1>3, <1>4, <1>5, <1>6 DEF Keyring!IInv

LEMMA KeyringNextIInv == Keyring!IInv /\ [Keyring!Next]_(Keyring!vars) => Keyring!IInv'
<1> SUFFICES ASSUME Keyring!IInv, [Keyring!Next]_(Keyring!vars) PROVE Keyring!IInv'
  OBVIOUS
<1>1. ASSUME NEW h \in Handles, Keyring!beginOperation(h) PROVE Keyring!IInv'
  BY <1>1, KeyringAcquireIInv DEF Keyring!beginOperation
<1>2. ASSUME NEW h \in Handles, Keyring!captureKey(h) PROVE Keyring!IInv'
  <2> USE <1>2 DEF Keyring!captureKey
  <2>1. key \in Nat /\ key = epochValue
    BY DEF Keyring!IInv, Keyring!KeyBelongsToEpoch, Keyring!TypeOK, Keyring!Buffers,
       Keyring!isUnlocked, Keyring!currentKey
  <2>2. Keyring!TypeOK'
    BY <2>1 DEF Keyring!IInv, Keyring!TypeOK, Keyring!HandleKinds
  <2>3. \A g \in Handles : Keyring!Held(g)' <=> Keyring!Held(g)
    BY DEF Keyring!IInv, Keyring!TypeOK, Keyring!Held, Keyring!Unheld
  <2>4. Keyring!Live' = Keyring!Live
    BY <2>3 DEF Keyring!Live
  <2>5. \A g \in Handles : Keyring!Held(g) => handle'[g] = handle[g]
    BY DEF Keyring!IInv, Keyring!TypeOK, Keyring!Held, Keyring!Unheld
  <2>6. Keyring!StampsAreOld'
    BY <2>1 DEF Keyring!IInv, Keyring!StampsAreOld, Keyring!TypeOK
  <2>7. Keyring!FreshExactly' /\ Keyring!LeaseSharesBuffer'
    BY <2>3, <2>5 DEF Keyring!IInv, Keyring!FreshExactly, Keyring!LeaseSharesBuffer,
       Keyring!TypeOK
  <2>8. /\ Keyring!CountsLiveHandles' /\ Keyring!NoKeyWhileLocking'
        /\ Keyring!AwaitedWorkIsLive' /\ Keyring!LockDrains'
    BY <2>4 DEF Keyring!IInv, Keyring!CountsLiveHandles, Keyring!NoKeyWhileLocking,
       Keyring!AwaitedWorkIsLive, Keyring!LockDrains
  <2>9. QED
    BY <2>2, <2>6, <2>7, <2>8 DEF Keyring!IInv, Keyring!KeyBelongsToEpoch
<1>3. ASSUME NEW h \in Handles, Keyring!leaseBoundKey(h) PROVE Keyring!IInv'
  BY <1>3, KeyringAcquireIInv DEF Keyring!leaseBoundKey, Keyring!Unheld
<1>4. ASSUME NEW h \in Handles, Keyring!installKey(h) PROVE Keyring!IInv'
  BY <1>4, KeyringBoundaryIInv DEF Keyring!installKey, Keyring!Boundary, Keyring!IInv,
     Keyring!TypeOK, Keyring!AwaitedWorkIsLive, Keyring!LockDrains
<1>5. ASSUME Keyring!rotateScope PROVE Keyring!IInv'
  <2>1. ~invalidating
    BY <1>5 DEF Keyring!rotateScope, Keyring!isUnlocked, Keyring!currentKey
  <2>2. QED
    BY <1>5, <2>1, KeyringBoundaryIInv
       DEF Keyring!rotateScope, Keyring!Boundary, Keyring!IInv, Keyring!TypeOK,
           Keyring!AwaitedWorkIsLive, Keyring!LockDrains
<1>6. ASSUME NEW l \in Callers, Keyring!invalidate(l) PROVE Keyring!IInv'
  <2> USE <1>6 DEF Keyring!invalidate
  <2>1. activeOperations > 0 <=> Keyring!Live # {}
    BY KeyringCounts, KeyringLiveIsFinite, FS_EmptySet DEF Keyring!IInv,
       Keyring!CountsLiveHandles
  <2>2. locker' \in [Callers -> Keyring!LockStates] /\ awaited' \in [Callers -> SUBSET Handles]
    BY DEF Keyring!IInv, Keyring!TypeOK, Keyring!LockStates, Keyring!Live
  <2>3. ASSUME NEW m \in Callers
        PROVE  /\ awaited'[m] \subseteq Keyring!Live
               /\ awaited'[m] # {} => invalidating'
               /\ locker'[m] = "returned" => awaited'[m] = {}
    BY <2>1 DEF Keyring!IInv, Keyring!TypeOK, Keyring!AwaitedWorkIsLive, Keyring!LockDrains
  <2>4. /\ Keyring!Boundary /\ UNCHANGED <<activeOperations, handle>>
        /\ key' \in {NoKey, epochValue'} /\ invalidating' \in BOOLEAN
        /\ invalidating' => key' = NoKey /\ activeOperations > 0
    BY DEF Keyring!IInv, Keyring!TypeOK
  <2> HIDE DEF Keyring!invalidate
  <2>5. QED
    BY <2>2, <2>3, <2>4, KeyringBoundaryIInv
<1>7. ASSUME NEW l \in Callers, Keyring!joinInvalidation(l) PROVE Keyring!IInv'
  <2> USE <1>7 DEF Keyring!joinInvalidation, Keyring!keyring
  <2>1. Keyring!TypeOK'
    BY DEF Keyring!IInv, Keyring!TypeOK, Keyring!LockStates, Keyring!Live
  <2>2. Keyring!Live' = Keyring!Live
    BY DEF Keyring!Live, Keyring!Held
  <2>3. Keyring!AwaitedWorkIsLive' /\ Keyring!LockDrains'
    BY <2>2 DEF Keyring!IInv, Keyring!AwaitedWorkIsLive, Keyring!LockDrains, Keyring!TypeOK
  <2>4. QED
    BY <2>1, <2>2, <2>3 DEF Keyring!IInv, Keyring!KeyBelongsToEpoch, Keyring!StampsAreOld,
       Keyring!FreshExactly,
       Keyring!LeaseSharesBuffer, Keyring!CountsLiveHandles, Keyring!NoKeyWhileLocking,
       Keyring!Held
<1>8. ASSUME NEW h \in Handles, Keyring!release(h) PROVE Keyring!IInv'
  BY <1>8, KeyringReleaseIInv
<1>9. ASSUME NEW l \in Callers, Keyring!invalidateReturns(l) PROVE Keyring!IInv'
  <2> USE <1>9 DEF Keyring!invalidateReturns, Keyring!keyring
  <2>1. Keyring!TypeOK'
    BY DEF Keyring!IInv, Keyring!TypeOK, Keyring!LockStates
  <2>2. Keyring!Live' = Keyring!Live
    BY DEF Keyring!Live, Keyring!Held
  <2>3. Keyring!LockDrains'
    BY DEF Keyring!IInv, Keyring!AwaitedWorkIsLive, Keyring!LockDrains, Keyring!TypeOK
  <2>4. QED
    BY <2>1, <2>2, <2>3 DEF Keyring!IInv, Keyring!KeyBelongsToEpoch, Keyring!StampsAreOld,
       Keyring!FreshExactly,
       Keyring!LeaseSharesBuffer, Keyring!CountsLiveHandles, Keyring!NoKeyWhileLocking,
       Keyring!AwaitedWorkIsLive, Keyring!Held
<1>10. CASE UNCHANGED Keyring!vars
  BY <1>10 DEF Keyring!vars, Keyring!IInv, Keyring!TypeOK, Keyring!KeyBelongsToEpoch,
     Keyring!StampsAreOld, Keyring!FreshExactly,
     Keyring!LeaseSharesBuffer, Keyring!CountsLiveHandles, Keyring!NoKeyWhileLocking,
     Keyring!AwaitedWorkIsLive,
     Keyring!LockDrains, Keyring!Live, Keyring!Held
<1>11. QED
  BY <1>1, <1>2, <1>3, <1>4, <1>5, <1>6, <1>7, <1>8, <1>9, <1>10 DEF Keyring!Next

-----------------------------------------------------------------------------
\* The steps of one part leave the other alone.
LEMMA PartsAreApart ==
  /\ SessionsInit => Init /\ Keyring!Init
  /\ [SessionsNext]_allVars => [Next]_vars /\ [Keyring!Next]_(Keyring!vars)
<1>1. SessionsInit => Init /\ Keyring!Init
  BY DEF SessionsInit
<1>2. ASSUME [SessionsNext]_allVars PROVE [Next]_vars
  BY <1>2, Zenon DEF SessionsNext, allVars
<1>3. ASSUME [SessionsNext]_allVars PROVE UNCHANGED keyringVars \/ Keyring!Next
  BY <1>3, Zenon DEF SessionsNext, allVars
<1>4. ASSUME UNCHANGED keyringVars PROVE UNCHANGED Keyring!vars
  BY <1>4 DEF keyringVars, Keyring!vars
<1>5. QED
  BY <1>1, <1>2, <1>3, <1>4

\* Whatever is retried, fails unseen, locks, quits or crashes in between, the batcher
\* (vaultUsageBatcher.ts:71-224) counts every use at most once, and each is counted,
\* pending, or was discarded or lost with a process; the revision the main process
\* compares with (index.ts) is the document's, unless a batch reached the disk unseen.
\* The idempotency markers the document keeps are bounded: no bucket but the first can
\* be on disk already, so the ones that are evicted are never looked for again.
THEOREM LifecycleInvariant == SessionsSpec => []IInv
<1>1. IInv /\ [SessionsNext]_allVars => IInv'
  BY NextIInv, PartsAreApart
<1>2. SessionsInit => IInv
  BY InitIInv, PartsAreApart
<1>3. QED
  BY <1>1, <1>2, PTL DEF SessionsSpec

\* The keyring (vaultSessionKey.ts) counts the handles that are out and hides the key
\* while a lock waits for them: for any handles, callers and number of boundaries.
THEOREM KeyringInvariant == SessionsSpec => []KeyringInv
<1>1. KeyringInv /\ [SessionsNext]_allVars => KeyringInv'
  BY KeyringNextIInv, PartsAreApart DEF KeyringInv
<1>2. SessionsInit => KeyringInv
  BY KeyringInitIInv, PartsAreApart DEF KeyringInv
<1>3. QED
  BY <1>1, <1>2, PTL DEF SessionsSpec

\* assertCurrent succeeds exactly for the handles no boundary has overtaken.
THEOREM HandlesAreScoped == SessionsSpec => []CommitsOnlyInItsScope
<1>1. KeyringInv => CommitsOnlyInItsScope
  BY DEF KeyringInv, CommitsOnlyInItsScope, Keyring!IInv, Keyring!FreshExactly,
     Keyring!LeaseSharesBuffer, Keyring!CommitsOnlyInItsScope, Keyring!AssertCurrent
<1>2. QED
  BY <1>1, KeyringInvariant, PTL

\* A lock returns only when the work it found running has finished.
THEOREM LocksDrain == SessionsSpec => []LockDrains
<1>1. KeyringInv => LockDrains
  BY DEF KeyringInv, LockDrains, Keyring!IInv
<1>2. QED
  BY <1>1, KeyringInvariant, PTL

\* Only an unlock that nothing overtook makes a key appear.
THEOREM UnlocksAreUnovertaken == SessionsSpec => UnlockOnlyUnovertaken
<1>1. KeyringInv /\ [SessionsNext]_allVars =>
        [key' # NoKey /\ key = NoKey =>
           \E h \in acquired : handle[h].kind = "operation"]_(Keyring!vars)
  <2> SUFFICES ASSUME Keyring!IInv, Keyring!Next, key' # NoKey, key = NoKey
               PROVE  \E h \in acquired : handle[h].kind = "operation"
    BY PartsAreApart DEF KeyringInv
  <2>1. PICK h \in Handles : Keyring!installKey(h)
    BY DEF Keyring!Next, Keyring!beginOperation, Keyring!captureKey, Keyring!leaseBoundKey,
       Keyring!Acquire, Keyring!release, Keyring!rotateScope, Keyring!isUnlocked,
       Keyring!currentKey, Keyring!invalidate, Keyring!joinInvalidation,
       Keyring!invalidateReturns, Keyring!keyring
  <2>2. h \in acquired
    BY <2>1 DEF Keyring!installKey, Keyring!IInv, Keyring!FreshExactly, Keyring!Held
  <2>3. QED
    BY <2>1, <2>2 DEF Keyring!installKey
<1>2. QED
  BY <1>1, KeyringInvariant, PTL
     DEF SessionsSpec, UnlockOnlyUnovertaken, Keyring!UnlockOnlyUnovertaken
=============================================================================
