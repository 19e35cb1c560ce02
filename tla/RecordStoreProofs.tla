-------------------------- MODULE RecordStoreProofs --------------------------
(* Proofs about RecordStore, for any vaults, files, contents, operations and *)
(* starts, also while workers of failed tasks write and remove records.      *)
EXTENDS RecordStore, SequenceTheorems, TLAPS

LEMMA RecentFacts ==
  ASSUME NEW receipts \in Seq(Operations), NEW o \in Operations
  PROVE  Recent(receipts, o) \in Seq(Operations)
<1> DEFINE all  == Append(receipts, o)
           from == IF Len(all) > ReceiptLimit THEN Len(all) - ReceiptLimit + 1 ELSE 1
<1>1. all \in Seq(Operations) /\ Len(all) \in Nat
  BY AppendProperties, LenProperties
<1>2. from \in Int /\ from >= 1 /\ Len(all) \in Int
  BY <1>1, StoreAssumption
<1>3. \A i \in from..Len(all) : all[i] \in Operations
  <2> TAKE i \in from..Len(all)
  <2>1. i \in 1..Len(all)
    BY <1>1, <1>2
  <2>2. QED
    BY <1>1, <2>1, ElementOfSeq
<1>4. SubSeq(all, from, Len(all)) \in Seq(Operations)
  BY <1>2, <1>3, SubSeqProperties
<1>5. QED
  BY <1>4 DEF Recent

\* What is appended to an injective sequence that lacks it.
LEMMA AppendFacts ==
  ASSUME NEW q \in Seq(Operations), NEW o \in Operations
  PROVE  /\ Append(q, o) \in Seq(Operations)
         /\ ToSet(Append(q, o)) \subseteq ToSet(q) \cup {o}
         /\ IsInjective(q) /\ o \notin ToSet(q) => IsInjective(Append(q, o))
<1>1. /\ Append(q, o) \in Seq(Operations) /\ Len(Append(q, o)) = Len(q) + 1
      /\ \A i \in 1..Len(q) : Append(q, o)[i] = q[i]
      /\ Append(q, o)[Len(q) + 1] = o
      /\ Len(q) \in Nat /\ DOMAIN q = 1..Len(q)
      /\ DOMAIN Append(q, o) = 1..(Len(q) + 1)
  BY AppendProperties, LenProperties
<1>2. ToSet(Append(q, o)) \subseteq ToSet(q) \cup {o}
  BY <1>1 DEF ToSet
<1>3. ASSUME IsInjective(q), o \notin ToSet(q) PROVE IsInjective(Append(q, o))
  BY <1>1, <1>3 DEF IsInjective, ToSet
<1>4. QED
  BY <1>1, <1>2, <1>3

LEMMA MigratedFacts ==
  ASSUME NEW s \in Collection, Sound(s)
  PROVE  /\ Migrated(s) \in Collection /\ Sound(Migrated(s))
         /\ Migrated(s).format = "collection"
         /\ Migrated(s).active = s.active /\ Migrated(s).content = s.content
         /\ Migrated(s).archived = s.archived /\ Migrated(s).applied = s.applied
         /\ s.format = "collection" => Migrated(s) = s
         /\ References(Migrated(s)) = UNION {s.content[v] : v \in Present(s)}
<1>1. /\ Migrated(s) \in Collection /\ Migrated(s).format = "collection"
      /\ Migrated(s).active = s.active /\ Migrated(s).content = s.content
      /\ Migrated(s).archived = s.archived /\ Migrated(s).applied = s.applied
      /\ s.format = "collection" => Migrated(s) = s
  BY DEF Migrated, Collection
<1>2. Present(Migrated(s)) = Present(s)
  BY <1>1 DEF Present
<1>3. Sound(Migrated(s))
  BY <1>1, <1>2 DEF Sound, Selectable
<1>4. QED
  BY <1>1, <1>2, <1>3 DEF References

LEMMA UpdatedFacts ==
  ASSUME store \in Collection, Sound(store), NEW c \in Contents
  PROVE  /\ Updated(c) \in Collection /\ Sound(Updated(c))
         /\ Updated(c).format = "collection"
         /\ Updated(c).active = store.active
         /\ Updated(c).content = [store.content EXCEPT ![store.active] = c]
         /\ Updated(c).archived = store.archived /\ Updated(c).applied = store.applied
         /\ Updated(c).revision = store.revision + 1
         /\ Present(Updated(c)) = Present(store)
<1>1. /\ Updated(c) \in Collection /\ Updated(c).format = "collection"
      /\ Updated(c).active = store.active
      /\ Updated(c).content = [store.content EXCEPT ![store.active] = c]
      /\ Updated(c).archived = store.archived /\ Updated(c).applied = store.applied
      /\ Updated(c).revision = store.revision + 1
  <2> DEFINE m == Migrated(store)
  <2>1. /\ m \in Collection /\ m.format = "collection" /\ m.active = store.active
        /\ m.content = store.content /\ m.archived = store.archived
        /\ m.applied = store.applied
    BY MigratedFacts
  <2>2. Updated(c) = [m EXCEPT !.revision = store.revision + 1, !.content[store.active] = c]
    BY DEF Updated
  <2> HIDE DEF m
  <2>3. /\ store.revision + 1 \in Nat /\ store.active \in Vaults
        /\ [store.content EXCEPT ![store.active] = c] \in [Vaults -> Contents \cup {None}]
    BY DEF Collection
  <2>4. Updated(c) = [format |-> m.format, active |-> m.active,
                      revision |-> store.revision + 1,
                      content |-> [m.content EXCEPT ![store.active] = c],
                      archived |-> m.archived, receipts |-> m.receipts,
                      applied |-> m.applied]
    BY <2>1, <2>2 DEF Collection
  <2>5. m.receipts \in Seq(Operations) /\ m.applied \in Seq(Operations)
        /\ m.archived \in SUBSET Vaults
    BY <2>1 DEF Collection
  <2>6. QED
    BY <2>1, <2>3, <2>4, <2>5 DEF Collection
<1>2. Present(Updated(c)) = Present(store)
  BY <1>1, NoneAssumption DEF Present, Sound, Selectable, Collection
<1>3. Sound(Updated(c))
  BY <1>1, <1>2 DEF Sound, Selectable
<1>4. QED
  BY <1>1, <1>2, <1>3

LEMMA ChangedFacts ==
  ASSUME NEW s \in Collection, Sound(s), NEW kind \in Kinds, NEW v \in Vaults,
         Allowed(s, kind, v)
  PROVE  /\ Changed(s, kind, v) \in Collection /\ Selectable(Changed(s, kind, v))
         /\ Changed(s, kind, v).format = s.format
         /\ Changed(s, kind, v).revision = s.revision
         /\ Changed(s, kind, v).receipts = s.receipts
         /\ Changed(s, kind, v).applied = s.applied
<1> USE DEF Allowed, Changed, Collection, Selectable, Sound, Present
<1>0. Default \in Contents /\ Default # None
  BY StoreAssumption, NoneAssumption
<1>1. CASE kind = "create"
  BY <1>0, <1>1
<1>2. CASE kind = "switch"
  BY <1>2
<1>3. CASE kind = "rename"
  BY <1>3
<1>4. CASE kind = "archive"
  BY <1>4
<1>5. CASE kind = "unarchive"
  BY <1>5
<1>6. CASE kind = "delete"
  BY <1>6
<1>7. QED
  BY <1>1, <1>2, <1>3, <1>4, <1>5, <1>6 DEF Kinds

\* What an operation makes of a collection that allows it.
LEMMA OperatedFacts ==
  ASSUME TypeOK, Sound(store), Remembered,
         NEW o \in Operations, request[o] \notin {None, Over},
         request[o].expected = store.revision,
         Allowed(store, request[o].kind, request[o].vault)
  PROVE  LET n == Operated(o)
             d == Changed(store, request[o].kind, request[o].vault)
         IN /\ n \in Collection /\ Sound(n) /\ n.format = "collection"
            /\ \/ /\ Changes(store, request[o].kind, request[o].vault)
                  /\ n.content = d.content /\ n.active = d.active
                  /\ n.archived = d.archived
               \/ /\ ~Changes(store, request[o].kind, request[o].vault)
                  /\ n.content = store.content /\ n.active = store.active
                  /\ n.archived = store.archived
            /\ \/ n.revision = store.revision /\ n.applied = store.applied
               \/ /\ n.revision = store.revision + 1
                  /\ ToSet(n.applied) \subseteq ToSet(store.applied) \cup {o}
<1> DEFINE kind == request[o].kind
           v    == request[o].vault
           d    == Changed(store, kind, v)
           e    == [d EXCEPT !.revision = @ + 1, !.applied = Append(@, o)]
           step == IF Changes(store, kind, v) THEN e ELSE store
           n    == Operated(o)
<1>1. kind \in Kinds /\ v \in Vaults /\ store \in Collection
  BY DEF TypeOK
<1>2. store.format = "collection"
  BY NoneAssumption DEF Remembered
<1>3. /\ d \in Collection /\ Selectable(d) /\ d.format = "collection"
      /\ d.revision = store.revision /\ d.receipts = store.receipts
      /\ d.applied = store.applied
  BY <1>1, <1>2, ChangedFacts
<1>4. o \notin ToSet(store.applied)
  BY <1>1 DEF Remembered, Collection
<1>5. /\ Append(store.applied, o) \in Seq(Operations)
      /\ ToSet(Append(store.applied, o)) \subseteq ToSet(store.applied) \cup {o}
      /\ IsInjective(Append(store.applied, o))
  BY <1>1, <1>4, AppendFacts DEF Collection, Sound
<1>6. /\ e \in Collection /\ e.format = "collection" /\ Selectable(e)
      /\ e.content = d.content /\ e.active = d.active /\ e.archived = d.archived
      /\ e.revision = store.revision + 1 /\ e.applied = Append(store.applied, o)
  <2> HIDE DEF d
  <2>1. /\ e \in Collection /\ e.format = "collection"
        /\ e.content = d.content /\ e.active = d.active /\ e.archived = d.archived
        /\ e.revision = store.revision + 1 /\ e.applied = Append(store.applied, o)
    <3>1. d.revision + 1 \in Nat /\ Append(d.applied, o) \in Seq(Operations)
      <4>1. d.revision \in Nat
        BY <1>3 DEF Collection
      <4>2. QED
        BY <1>3, <1>5, <4>1
    <3>2. PICK r \in Nat, q \in Seq(Operations) :
            r = d.revision + 1 /\ q = Append(d.applied, o)
      BY <3>1
    <3>3. e = [d EXCEPT !.revision = r, !.applied = q]
      BY <3>2
    <3>4. d \in Collection
      BY <1>3
    <3> HIDE DEF e
    <3>5. e \in Collection /\ e.format = d.format /\ e.revision = r /\ e.applied = q
      BY <3>3, <3>4 DEF Collection
    <3>6. e.content = d.content /\ e.active = d.active /\ e.archived = d.archived
      BY <3>3, <3>4 DEF Collection
    <3>7. QED
      BY <1>3, <3>2, <3>5, <3>6
  <2>2. Selectable(e)
    BY <1>3, <2>1 DEF Selectable, Present
  <2>3. QED
    BY <2>1, <2>2
<1>7. /\ step \in Collection /\ Selectable(step) /\ step.format = "collection"
      /\ IsInjective(step.applied)
  <2> HIDE DEF e
  <2>1. QED
    BY <1>1, <1>2, <1>5, <1>6 DEF Sound
<1>8. Recent(step.receipts, o) \in Seq(Operations)
  <2> HIDE DEF step
  <2>1. step.receipts \in Seq(Operations)
    BY <1>7 DEF Collection
  <2>2. QED
    BY <2>1, RecentFacts
<1>9. n = [step EXCEPT !.receipts = Recent(@, o)]
  BY DEF Operated
<1>10. /\ n \in Collection /\ n.format = "collection" /\ n.content = step.content
       /\ n.active = step.active /\ n.archived = step.archived
       /\ n.revision = step.revision /\ n.applied = step.applied
  <2> HIDE DEF step, n
  <2>1. QED
    BY <1>7, <1>8, <1>9 DEF Collection
<1>11. Sound(n)
  <2> HIDE DEF step, n
  <2>1. QED
    BY <1>7, <1>10 DEF Sound, Selectable, Present
<1>12. QED
  <2> HIDE DEF n, e, d
  <2>1. CASE Changes(store, kind, v)
    BY <1>5, <1>6, <1>10, <1>11, <2>1 DEF n, d
  <2>2. CASE ~Changes(store, kind, v)
    BY <1>10, <1>11, <2>2 DEF n, d
  <2>3. QED
    BY <2>1, <2>2

\* What the task is about to commit.
LEMMA ProposedFacts ==
  ASSUME TypeOK, Sound(store), backup # None => Sound(backup), Remembered, Proposed
  PROVE  /\ task.next \in Collection /\ Sound(task.next) /\ task.next.format = "collection"
         /\ \A o \in ToSet(task.next.applied) :
              /\ request[o] # None
              /\ ~task.restores /\ request[o] # Over => request[o].expected < task.next.revision
<1> USE DEF TypeOK, Remembered
<1>1. CASE task.next = Migrated(store) /\ store.format # "collection"
  <2>1. ToSet(task.next.applied) = {}
    BY <1>1, MigratedFacts DEF Sound, ToSet
  <2>2. QED
    BY <1>1, <2>1, MigratedFacts
<1>2. ASSUME NEW c \in Contents, task.next = Updated(c)
      PROVE  /\ task.next \in Collection /\ Sound(task.next)
             /\ task.next.format = "collection"
             /\ task.next.applied = store.applied
             /\ task.next.revision = store.revision + 1
  <2>1. /\ Updated(c) \in Collection /\ Sound(Updated(c))
        /\ Updated(c).format = "collection" /\ Updated(c).applied = store.applied
        /\ Updated(c).revision = store.revision + 1
    BY UpdatedFacts
  <2>2. QED
    BY <1>2, <2>1
<1>3. ASSUME NEW p \in Operations, request[p] \notin {None, Over},
             request[p].expected = store.revision,
             Allowed(store, request[p].kind, request[p].vault), task.next = Operated(p)
      PROVE  /\ task.next \in Collection /\ Sound(task.next)
             /\ task.next.format = "collection"
             /\ \/ task.next.revision = store.revision /\ task.next.applied = store.applied
                \/ /\ task.next.revision = store.revision + 1
                   /\ ToSet(task.next.applied) \subseteq ToSet(store.applied) \cup {p}
  BY <1>3, OperatedFacts
<1>4. CASE /\ backup # None /\ task.next = Migrated(backup)
           /\ backup.format = "collection" => task.restores
  <2>1. /\ task.next \in Collection /\ Sound(task.next)
        /\ task.next.format = "collection" /\ task.next.applied = backup.applied
    BY <1>4, MigratedFacts
  <2>2. backup.format # "collection" => ToSet(task.next.applied) = {}
    BY <1>4, <2>1 DEF Sound, ToSet
  <2>3. QED
    BY <1>4, <2>1, <2>2
<1>5. QED
  <2>1. store.revision \in Nat /\ store.applied \in Seq(Operations)
    BY DEF Collection
  <2>2. \A o \in ToSet(store.applied) : o \in Operations
    BY <2>1, ElementOfSeq, LenProperties DEF ToSet
  <2>3. \A o \in Operations : request[o] \notin {None, Over} => request[o].expected \in Nat
    OBVIOUS
  <2>4. CASE \E c \in Contents : task.next = Updated(c)
    BY <1>2, <2>1, <2>2, <2>3, <2>4
  <2>5. CASE \E p \in Operations :
               /\ request[p] \notin {None, Over} /\ request[p].expected = store.revision
               /\ Allowed(store, request[p].kind, request[p].vault)
               /\ task.next = Operated(p)
    <3>1. PICK p \in Operations :
               /\ request[p] \notin {None, Over} /\ request[p].expected = store.revision
               /\ Allowed(store, request[p].kind, request[p].vault)
               /\ task.next = Operated(p)
      BY <2>5
    <3>2. QED
      BY <1>3, <2>1, <2>2, <2>3, <3>1
  <2>6. QED
    BY <1>1, <1>4, <2>4, <2>5 DEF Proposed

\* What was proposed stays proposed while the collection, the backup and the operations
\* that were asked for stay.
LEMMA ProposedKept ==
  ASSUME Proposed, store' = store, backup' = backup,
         task'.next = task.next, task'.restores = task.restores,
         \A o \in Operations : request[o] # None => request'[o] = request[o]
  PROVE  Proposed'
<1>1. CASE task.next = Migrated(store) /\ store.format # "collection"
  BY <1>1 DEF Proposed, Migrated
<1>2. ASSUME NEW c \in Contents, task.next = Updated(c)
      PROVE  task'.next = Updated(c)'
  BY <1>2 DEF Updated, Migrated
<1>3. ASSUME NEW o \in Operations, request[o] \notin {None, Over},
             request[o].expected = store.revision,
             Allowed(store, request[o].kind, request[o].vault), task.next = Operated(o)
      PROVE  /\ request'[o] \notin {None, Over} /\ request'[o].expected = store'.revision
             /\ Allowed(store, request[o].kind, request[o].vault)'
             /\ task'.next = Operated(o)'
  <2>1. request'[o] = request[o]
    BY <1>3
  <2>2. Allowed(store, request[o].kind, request[o].vault)'
    BY <1>3, <2>1 DEF Allowed, Present
  <2>3. Operated(o)' = Operated(o)
    BY <2>1 DEF Operated, Changed, Changes, Recent
  <2>4. QED
    BY <1>3, <2>1, <2>2, <2>3
<1>4. CASE /\ backup # None /\ task.next = Migrated(backup)
           /\ backup.format = "collection" => task.restores
  BY <1>4 DEF Proposed, Migrated
<1>5. QED
  BY <1>1, <1>2, <1>3, <1>4 DEF Proposed

-----------------------------------------------------------------------------
LEMMA ActiveContentFacts ==
  ASSUME NEW n \in Collection, Sound(n)
  PROVE  /\ n.content[n.active] \in Contents /\ n.active \in Present(n)
         /\ n.format # "inline" => n.content[n.active] \subseteq References(n)
         /\ References(n) \subseteq Files /\ Needed(n) \subseteq Files
<1>1. n.active \in Present(n) /\ n.content[n.active] \in Contents
  BY DEF Sound, Selectable, Present, Collection
<1>2. n.format # "inline" => n.content[n.active] \subseteq References(n)
  BY <1>1 DEF References
<1>3. \A v \in Present(n) : n.content[v] \subseteq Files
  BY StoreAssumption DEF Present, Collection
<1>4. References(n) \subseteq Files
  BY <1>3 DEF References
<1>5. QED
  BY <1>1, <1>2, <1>3, <1>4 DEF Needed

\* A task that starts with something proposed, and will write what does not open yet.
LEMMA RunIInv ==
  ASSUME IInv, NEW next \in Collection, NEW write \in SUBSET Files,
         NEW restores \in BOOLEAN, Run(next, write, restores), request' = request,
         Proposed', \A f \in Needed(next) : f \in write \/ Opens(f)
  PROVE  IInv'
<1> USE DEF Run, Idle, NoStray
<1>1. /\ task'.at = "writing" /\ task'.next = next /\ task'.write = write
      /\ task'.remove = {} /\ task'.restores = restores
      /\ UNCHANGED <<store, disk, stray, backup, taken>>
  OBVIOUS
<1>2. TypeOK'
  BY DEF IInv, TypeOK
<1>3. Sound(store)' /\ (backup # None => Sound(backup))' /\ AppliedOnce'
  BY <1>1 DEF IInv, Sound, Selectable, Present, AppliedOnce
<1>4. Kept' /\ Unharmed'
  BY <1>1 DEF IInv, Kept, Unharmed, References, Present, Exists
<1>5. Serial'
  BY <1>1 DEF Serial, Needed, Opens, References, Present
<1>6. Remembered'
  BY <1>1 DEF IInv, Remembered
<1>7. QED
  BY <1>2, <1>3, <1>4, <1>5, <1>6 DEF IInv

LEMMA MigrateIInv == ASSUME IInv, Migrate PROVE IInv'
<1> DEFINE next  == Migrated(store)
           write == IF store.format = "inline" THEN References(next) ELSE {}
<1>1. /\ next \in Collection /\ Sound(next) /\ next.format = "collection"
      /\ next.active = store.active /\ next.content = store.content
      /\ References(next) = UNION {store.content[v] : v \in Present(store)}
  BY MigratedFacts DEF IInv, TypeOK
<1>2. Run(next, write, FALSE) /\ store.format # "collection" /\ Decodes(store) /\ request' = request
  BY DEF Migrate
<1>3. Proposed'
  BY <1>2 DEF Run, Proposed, Migrated
<1>4. Needed(next) \subseteq Files /\ next.content[next.active] \subseteq References(next)
      /\ References(next) \subseteq Files
  BY <1>1, ActiveContentFacts
<1>5. \A f \in Needed(next) : f \in write \/ Opens(f)
  <2>1. CASE store.format = "inline"
    BY <1>4, <2>1 DEF Needed
  <2>2. CASE store.format # "inline"
    BY <1>1, <1>2, <2>2 DEF Needed, Decodes, References
  <2>3. QED
    BY <2>1, <2>2
<1>6. write \in SUBSET Files
  BY <1>4
<1>7. QED
  <2> HIDE DEF next, write
  <2>1. QED
    BY <1>1, <1>2, <1>3, <1>5, <1>6, RunIInv

LEMMA UpdateIInv ==
  ASSUME IInv, NEW c \in Contents, Update(c) PROVE IInv'
<1> DEFINE next  == Updated(c)
           write == Unwritten(next) \cap c
<1>1. /\ next \in Collection /\ Sound(next) /\ next.format = "collection"
      /\ next.active = store.active /\ Present(next) = Present(store)
      /\ next.content = [store.content EXCEPT ![store.active] = c]
  BY UpdatedFacts DEF IInv, TypeOK
<1>2. Run(next, write, FALSE) /\ Decodes(store) /\ request' = request
  BY DEF Update
<1>3. Proposed'
  <2>1. task'.next = Updated(c) /\ store' = store
    BY <1>2 DEF Run, Idle
  <2>2. Updated(c)' = Updated(c)
    BY <2>1 DEF Updated, Migrated
  <2>3. QED
    BY <2>1, <2>2 DEF Proposed
<1>4. c \subseteq Files /\ c = next.content[next.active] /\ c \subseteq References(next)
  BY <1>1, ActiveContentFacts, StoreAssumption, ZenonT(60) DEF IInv, TypeOK, Collection
<1>5. \A f \in c : f \in write \/ Opens(f)
  BY <1>2, <1>4 DEF Unwritten, Decodes, Needed
<1>6. ASSUME NEW f \in References(next) \cap Records, f \notin c PROVE Opens(f)
  <2>1. PICK v \in Present(next) : f \in next.content[v]
    BY <1>1, <1>6 DEF References
  <2>2. v # store.active /\ v \in Present(store) /\ f \in store.content[v]
    BY <1>1, <1>4, <1>6, <2>1 DEF Present, IInv, TypeOK, Collection
  <2>3. f \in References(store)
    BY <2>2 DEF References, IInv, Sound
  <2>4. QED
    BY <1>2, <1>6, <2>3 DEF Decodes, Needed
<1>7. \A f \in Needed(next) : f \in write \/ Opens(f)
  BY <1>4, <1>5, <1>6 DEF Needed
<1>8. write \in SUBSET Files
  BY <1>4
<1>9. QED
  <2> HIDE DEF next, write
  <2>1. QED
    BY <1>1, <1>2, <1>3, <1>7, <1>8, RunIInv

\* What an operation leaves of the files that open.
LEMMA OperateNeeds ==
  ASSUME IInv, NEW o \in Operations, request[o] \notin {None, Over}, Decodes(store),
         request[o].expected = store.revision,
         Allowed(store, request[o].kind, request[o].vault), TargetOpens(o),
         NEW f \in Needed(Operated(o))
  PROVE  \/ Opens(f)
         \/ /\ request[o].kind = "create"
            /\ f \in Default \ (References(store) \cap Records)
<1> DEFINE kind == request[o].kind
           v    == request[o].vault
           n    == Operated(o)
<1>1. /\ kind \in Kinds /\ v \in Vaults /\ store \in Collection /\ Sound(store)
      /\ store.format = "collection"
  BY NoneAssumption DEF IInv, TypeOK, Remembered
<1>2. /\ n \in Collection /\ Sound(n) /\ n.format = "collection"
      /\ \/ /\ Changes(store, kind, v)
            /\ n.content = Changed(store, kind, v).content
            /\ n.active = Changed(store, kind, v).active
         \/ /\ ~Changes(store, kind, v)
            /\ n.content = store.content /\ n.active = store.active
  BY OperatedFacts DEF IInv
<1>3. /\ \/ n.content = store.content
         \/ kind = "delete" /\ n.content = [store.content EXCEPT ![v] = None]
         \/ kind = "create" /\ n.content = [store.content EXCEPT ![v] = Default]
      /\ \/ n.active = store.active
         \/ kind = "create" /\ n.active = v /\ n.content[v] = Default
         \/ kind = "switch" /\ n.active = v /\ n.content = store.content
  BY <1>1, <1>2 DEF Changed, Kinds, Collection
<1>4. Default \subseteq Records /\ Default \in Contents
  BY StoreAssumption
<1>5. \A w \in Vaults : \/ n.content[w] = store.content[w]
                        \/ n.content[w] = None
                        \/ kind = "create" /\ n.content[w] = Default
  BY <1>1, <1>3 DEF Collection
<1> HIDE DEF n, kind, v
<1>6. ASSUME NEW w \in Present(n), f \in n.content[w], f \in Records
      PROVE  \/ Opens(f)
             \/ kind = "create" /\ f \in Default \ (References(store) \cap Records)
  <2>1. w \in Vaults /\ n.content[w] # None
    BY DEF Present
  <2>2. CASE n.content[w] = store.content[w]
    <3>1. f \in References(store)
      BY <1>1, <1>6, <2>1, <2>2 DEF References, Present
    <3>2. QED
      BY <1>6, <3>1 DEF Decodes, Needed
  <2>3. CASE kind = "create" /\ n.content[w] = Default
    BY <1>6, <2>3 DEF Decodes, Needed
  <2>4. QED
    BY <1>5, <2>1, <2>2, <2>3
<1>7. ASSUME f \in n.content[n.active]
      PROVE  \/ Opens(f)
             \/ kind = "create" /\ f \in Default \ (References(store) \cap Records)
  <2>1. n.active \in Present(n) /\ n.content[n.active] \in Contents /\ n.active \in Vaults
    BY <1>2, ActiveContentFacts DEF Present
  <2>2. CASE n.content[n.active] = Default
    <3>1. f \in Records
      BY <1>4, <1>7, <2>2
    <3>2. QED
      BY <1>6, <1>7, <2>1, <3>1
  <2>3. CASE n.active = store.active /\ n.content[n.active] = store.content[n.active]
    BY <1>1, <1>7, <2>3 DEF Decodes, Needed
  <2>4. CASE kind = "switch" /\ n.active = v /\ n.content = store.content
    BY <1>7, <2>4 DEF TargetOpens, kind, v
  <2>5. QED
    BY <1>3, <1>5, <2>1, <2>2, <2>3, <2>4, NoneAssumption
<1>8. QED
  <2>1. f \in References(n) \cap Records \/ f \in n.content[n.active]
    BY DEF Needed, n
  <2>2. ASSUME f \in References(n) \cap Records
        PROVE  \E w \in Present(n) : f \in n.content[w]
    BY <1>2, <2>2 DEF References
  <2>3. QED
    BY <1>6, <1>7, <2>1, <2>2 DEF kind

LEMMA OperateIInv ==
  ASSUME IInv, NEW o \in Operations, Operate(o) PROVE IInv'
<1> DEFINE next  == Operated(o)
           write == IF request[o].kind = "create"
                    THEN Default \ (References(store) \cap Records) ELSE {}
<1>1. /\ request[o] \notin {None, Over} /\ Decodes(store)
      /\ request[o].expected = store.revision
      /\ Allowed(store, request[o].kind, request[o].vault) /\ TargetOpens(o)
      /\ Run(next, write, FALSE) /\ request' = request
  BY DEF Operate, Admits
<1>2. next \in Collection
  BY <1>1, OperatedFacts DEF IInv
<1>3. Proposed'
  <2>1. task'.next = next /\ store' = store
    BY <1>1 DEF Run, Idle
  <2>2. next' = next
    <3>1. request' = request /\ store' = store
      BY <1>1, <2>1
    <3>2. QED
      BY <3>1 DEF Operated, Changed, Changes, Recent
  <2>3. Allowed(store, request[o].kind, request[o].vault)'
    BY <1>1, <2>1 DEF Allowed, Present
  <2> HIDE DEF write
  <2>4. QED
    BY <1>1, <2>1, <2>2, <2>3 DEF Proposed
<1>4. \A f \in Needed(next) : f \in write \/ Opens(f)
  BY <1>1, OperateNeeds
<1>5. write \in SUBSET Files
  BY StoreAssumption DEF Files
<1>6. QED
  <2> HIDE DEF next, write
  <2>1. QED
    BY <1>1, <1>2, <1>3, <1>4, <1>5, RunIInv

LEMMA RestoreIInv == ASSUME IInv, Restore PROVE IInv'
<1> DEFINE next == Migrated(backup)
<1>1. /\ backup # None /\ Run(next, References(next), backup.format = "collection")
      /\ request' = request
  BY DEF Restore
<1>2. backup \in Collection /\ Sound(backup)
  BY <1>1 DEF IInv, TypeOK
<1>3. next \in Collection /\ Sound(next) /\ next.format = "collection"
  BY <1>2, MigratedFacts
<1>4. Proposed'
  BY <1>1 DEF Run, Idle, Proposed, Migrated
<1>5. \A f \in Needed(next) : f \in References(next)
  BY <1>3, ActiveContentFacts DEF Needed
<1>6. References(next) \in SUBSET Files
  BY <1>3, ActiveContentFacts
<1>7. QED
  <2> HIDE DEF next
  <2>1. QED
    BY <1>1, <1>3, <1>4, <1>5, <1>6, RunIInv

LEMMA BackupIInv == ASSUME IInv, Backup PROVE IInv'
<1> USE DEF Backup
<1>1. TypeOK'
  BY DEF IInv, TypeOK
<1>2. Sound(store)' /\ (backup # None => Sound(backup))' /\ AppliedOnce'
  BY DEF IInv, Sound, Selectable, Present, AppliedOnce
<1>3. Kept' /\ Unharmed'
  BY DEF IInv, Kept, Unharmed, References, Present, Exists
<1>4. Serial'
  BY DEF Serial
<1>5. Remembered'
  BY DEF IInv, Remembered
<1>6. QED
  BY <1>1, <1>2, <1>3, <1>4, <1>5 DEF IInv

LEMMA RequestIInv == ASSUME IInv, NEW o \in Operations, Request(o) PROVE IInv'
<1> USE DEF Request
<1>1. TypeOK'
  BY DEF IInv, TypeOK, Collection
<1>2. Sound(store)' /\ (backup # None => Sound(backup))' /\ AppliedOnce'
  BY DEF IInv, Sound, Selectable, Present, AppliedOnce
<1>3. Kept' /\ Unharmed'
  BY DEF IInv, Kept, Unharmed, References, Present, Exists
<1>4. \A p \in Operations : request[p] # None => request'[p] = request[p]
  BY DEF IInv, TypeOK
<1>5. Serial'
  <2>1. ASSUME Proposed PROVE Proposed'
    BY <1>4, <2>1, ProposedKept
  <2>2. QED
    BY <2>1 DEF IInv, Serial, References, Present, Opens
<1>6. Remembered'
  <2>1. store.applied \in Seq(Operations)
        /\ (backup # None => backup.applied \in Seq(Operations))
    BY DEF IInv, TypeOK, Collection
  <2>2. ToSet(store.applied) \subseteq Operations
        /\ (backup # None => ToSet(backup.applied) \subseteq Operations)
    BY <2>1, ElementOfSeq, LenProperties DEF ToSet
  <2>3. QED
    BY <1>4, <2>2 DEF IInv, Remembered
<1>7. QED
  BY <1>1, <1>2, <1>3, <1>5, <1>6 DEF IInv

-----------------------------------------------------------------------------
\* Steps after which the collection, the backup and the operations that were asked for
\* are as before.
LEMMA AtRestKept ==
  ASSUME IInv, UNCHANGED <<store, request, backup>>
  PROVE  /\ Sound(store)' /\ (backup # None => Sound(backup))' /\ AppliedOnce'
         /\ Remembered' /\ References(store)' = References(store)
<1>1. Sound(store)' /\ (backup # None => Sound(backup))' /\ AppliedOnce'
  BY DEF IInv, Sound, Selectable, Present, AppliedOnce
<1>2. Remembered'
  BY DEF IInv, Remembered
<1>3. References(store)' = References(store)
  BY DEF References, Present
<1>4. QED
  BY <1>1, <1>2, <1>3

LEMMA WriteIInv == ASSUME IInv, NEW f \in Files, Write(f) PROVE IInv'
<1> USE DEF Write
<1>1. Written(f) = "intact"
  BY DEF IInv, TypeOK, Written, Accepts, Exists
<1>2. TypeOK'
  BY <1>1 DEF IInv, TypeOK
<1>3. disk'[f] = "intact" /\ \A g \in Files : disk'[g] = disk[g] \/ disk'[g] = "intact"
  BY <1>1 DEF IInv, TypeOK
<1>4. References(store) \subseteq Files
  BY ActiveContentFacts DEF IInv, TypeOK
<1>5. Kept' /\ Unharmed'
  BY <1>3, <1>4, AtRestKept DEF IInv, TypeOK, Kept, Unharmed, Exists
<1>6. Serial'
  <2>1. /\ task'.next = task.next /\ task'.restores = task.restores /\ task'.at = "writing"
        /\ task'.remove = task.remove /\ task'.write = task.write \ {f}
    BY DEF IInv, TypeOK
  <2>2. Proposed /\ task.remove = {}
        /\ \A g \in Needed(task.next) : g \in task.write \/ Opens(g) \/ g \in taken
    BY DEF IInv, Serial
  <2>3. Proposed'
    BY <2>1, <2>2, ProposedKept
  <2>4. task.next \in Collection /\ Sound(task.next)
    BY <2>2, ProposedFacts DEF IInv
  <2>5. Needed(task.next) \subseteq Files
    BY <2>4, ActiveContentFacts
  <2>6. \A g \in Needed(task.next) : g \in task'.write \/ Opens(g)' \/ g \in taken'
    BY <1>3, <2>1, <2>2, <2>5 DEF Opens
  <2>7. QED
    BY <2>1, <2>2, <2>3, <2>6 DEF Serial, Needed, References, Present
<1>7. QED
  BY <1>2, <1>5, <1>6, AtRestKept DEF IInv

LEMMA MeasureIInv == ASSUME IInv, Measure PROVE IInv'
<1> USE DEF Measure
<1>1. /\ task'.next = task.next /\ task'.restores = task.restores /\ task'.at = "measured"
      /\ task'.remove = task.remove /\ task'.write = task.write
  BY DEF IInv, TypeOK
<1>2. TypeOK'
  BY DEF IInv, TypeOK
<1>3. Kept' /\ Unharmed'
  BY <1>1 DEF IInv, Kept, Unharmed, Exists, References, Present, Measures
<1>4. Serial'
  <2>1. Proposed'
    BY <1>1, ProposedKept DEF IInv, Serial
  <2>2. QED
    BY <1>1, <2>1 DEF IInv, Serial, References, Present, Opens
<1>5. QED
  BY <1>2, <1>3, <1>4, AtRestKept DEF IInv

LEMMA CommitIInv == ASSUME IInv, Commit PROVE IInv'
<1>0. /\ store' = task.next /\ UNCHANGED <<disk, stray, backup, taken>>
      /\ \A o \in Operations : /\ request[o] # None => request'[o] # None
                               /\ ~task.restores => request'[o] = request[o]
                               /\ task.restores /\ request[o] # None => request'[o] = Over
                               /\ request[o] = None => request'[o] = None
      /\ request' \in [Operations -> [kind : Kinds, vault : Vaults, expected : Nat]
                                        \cup {None, Over}]
      /\ task.at = "measured"
  BY NoneAssumption DEF Commit, IInv, TypeOK
<1>1. /\ Proposed
      /\ \A f \in References(task.next) : Exists(f) \/ f \in taken
  BY <1>0 DEF IInv, Serial, Unharmed
<1>2. /\ task.next \in Collection /\ Sound(task.next) /\ task.next.format = "collection"
      /\ \A o \in ToSet(task.next.applied) :
           /\ request[o] # None
           /\ ~task.restores /\ request[o] # Over => request[o].expected < task.next.revision
  BY <1>1, ProposedFacts DEF IInv
<1>3. PICK old \in SUBSET Garbage : task' = [Idle EXCEPT !.at = "collecting", !.remove = old]
  BY DEF Commit
<1>4. /\ task'.at = "collecting" /\ task'.remove = old /\ old \subseteq Files
      /\ old \cap References(task.next) = {}
  BY <1>3 DEF Idle, Garbage
<1>5. TypeOK'
  <2>1. task' = [at |-> "collecting", restores |-> FALSE, write |-> {}, next |-> None, remove |-> old]
    BY <1>3 DEF Idle
  <2>2. QED
    <3>1. task' \in [at : {"idle", "writing", "measured", "collecting"}, restores : BOOLEAN,
                    write : SUBSET Files, next : Collection \cup {None}, remove : SUBSET Files]
      <4>1. /\ "collecting" \in {"idle", "writing", "measured", "collecting"}
            /\ FALSE \in BOOLEAN /\ {} \in SUBSET Files /\ old \in SUBSET Files
        BY <1>4
      <4>2. QED
        BY <2>1, <4>1
    <3>2. QED
      BY <1>0, <1>2, <3>1 DEF IInv, TypeOK
<1>6. Sound(store)' /\ (backup # None => Sound(backup))' /\ AppliedOnce'
  BY <1>0, <1>2 DEF IInv, Sound, Selectable, Present, AppliedOnce
<1>7. References(store)' = References(task.next)
  BY <1>0 DEF References, Present
<1>8. Kept' /\ Unharmed'
  BY <1>0, <1>1, <1>4, <1>7 DEF Kept, Unharmed, Exists, NoStray
<1>9. Serial'
  BY <1>4 DEF Serial
<1>10. Remembered'
  <2>1. ToSet(task.next.applied) \subseteq Operations
    <3>1. task.next.applied \in Seq(Operations)
      BY <1>2 DEF Collection
    <3>2. QED
      BY <3>1, ElementOfSeq, LenProperties DEF ToSet
  <2>2. backup # None => ToSet(backup.applied) \subseteq Operations
    <3>1. backup # None => backup.applied \in Seq(Operations)
      BY DEF IInv, TypeOK, Collection
    <3>2. QED
      BY <3>1, ElementOfSeq, LenProperties DEF ToSet
  <2>3. ASSUME NEW o \in ToSet(task.next.applied)
        PROVE  /\ request'[o] # None
               /\ request'[o] # Over => request'[o].expected < task.next.revision
    BY <1>0, <1>2, <2>1
  <2>4. backup # None => \A o \in ToSet(backup.applied) : request'[o] # None
    BY <1>0, <2>2 DEF IInv, Remembered
  <2>5. \A o \in Operations : request'[o] # None => task.next.format = "collection"
    BY <1>2
  <2>6. QED
    BY <1>0, <2>3, <2>4, <2>5 DEF Remembered
<1>11. QED
  BY <1>5, <1>6, <1>8, <1>9, <1>10 DEF IInv

LEMMA UnlinkIInv == ASSUME IInv, NEW f \in Files, Unlink(f) PROVE IInv'
<1> USE DEF Unlink
<1>1. TypeOK'
  BY DEF IInv, TypeOK
<1>2. Kept' /\ Unharmed'
  BY AtRestKept DEF IInv, TypeOK, Kept, Unharmed, Exists
<1>3. Serial'
  BY DEF IInv, TypeOK, Serial
<1>4. QED
  BY <1>1, <1>2, <1>3, AtRestKept DEF IInv

LEMMA FailRemovalIInv == ASSUME IInv, NEW f \in Files, FailRemoval(f) PROVE IInv'
<1> USE DEF FailRemoval
<1>1. TypeOK'
  BY DEF IInv, TypeOK
<1>2. Kept' /\ Unharmed'
  <2>1. task'.remove \cup stray'.remove \subseteq task.remove \cup stray.remove
        /\ task'.at = "collecting"
    BY DEF IInv, TypeOK
  <2>2. QED
    BY <2>1, AtRestKept DEF IInv, Kept, Unharmed, Exists
<1>3. Serial'
  BY DEF IInv, TypeOK, Serial
<1>4. QED
  BY <1>1, <1>2, <1>3, AtRestKept DEF IInv

LEMMA FinishIInv == ASSUME IInv, Finish PROVE IInv'
<1> USE DEF Finish, Idle
<1>1. TypeOK'
  BY DEF IInv, TypeOK
<1>2. Kept' /\ Unharmed' /\ Serial'
  BY AtRestKept DEF IInv, TypeOK, Kept, Unharmed, Serial, Exists
<1>3. QED
  BY <1>1, <1>2, AtRestKept DEF IInv

LEMMA FailIInv == ASSUME IInv, Fail PROVE IInv'
<1> USE DEF Fail
<1>1. PICK left \in SUBSET (task.write \cap Records) :
        stray' = [stray EXCEPT !.write = @ \cup left]
  OBVIOUS
<1>2. TypeOK'
  BY <1>1 DEF IInv, TypeOK, Idle
<1>3. Kept' /\ Unharmed' /\ Serial'
  BY <1>1, AtRestKept DEF IInv, TypeOK, Kept, Unharmed, Serial, Exists, Idle
<1>4. QED
  BY <1>2, <1>3, AtRestKept DEF IInv

-----------------------------------------------------------------------------
\* A step of a worker that outlives its task.
LEMMA StrayIInv ==
  ASSUME IInv, NEW f \in Records, StrayLook(f) \/ StrayWrite(f) \/ StrayRemove(f)
  PROVE  IInv'
<1>1. f \in Files /\ UNCHANGED <<store, task, request, backup>>
  BY DEF Files, StrayLook, StrayWrite, StrayRemove
<1>2. \A g \in Files : \/ disk'[g] = disk[g] /\ (g \in taken => g \in taken')
                       \/ disk'[g] = "intact"
                       \/ g \in taken'
  BY DEF StrayLook, StrayWrite, StrayRemove, IInv, TypeOK
<1>3. Serial'
  <2>1. ASSUME task.at \in {"writing", "measured"}
        PROVE  \A g \in Needed(task.next) : g \in task.write \/ Opens(g)' \/ g \in taken'
    <3>1. /\ Proposed
          /\ \A g \in Needed(task.next) : g \in task.write \/ Opens(g) \/ g \in taken
      BY <2>1 DEF IInv, Serial
    <3>2. Needed(task.next) \subseteq Files
      BY <3>1, ProposedFacts, ActiveContentFacts DEF IInv
    <3>3. QED
      BY <1>2, <3>1, <3>2 DEF Opens
  <2>2. Proposed => Proposed'
    BY <1>1, ProposedKept
  <2>3. QED
    BY <1>1, <2>1, <2>2 DEF IInv, Serial, Needed, References, Present
<1>4. TypeOK'
  <2>1. CASE StrayLook(f)
    BY <2>1 DEF StrayLook, IInv, TypeOK
  <2>2. CASE StrayWrite(f)
    BY <1>1, <2>2 DEF StrayWrite, IInv, TypeOK
  <2>3. CASE StrayRemove(f)
    BY <1>1, <2>3 DEF StrayRemove, IInv, TypeOK
  <2>4. QED
    BY <2>1, <2>2, <2>3
<1>5. Kept' /\ Unharmed'
  <2>1. References(store) \subseteq Files
    BY ActiveContentFacts DEF IInv, TypeOK
  <2>2. task.at = "measured" => References(task.next) \subseteq Files
    BY ProposedFacts, ActiveContentFacts DEF IInv, Serial
  <2>3. \A g \in Files : Exists(g) \/ g \in taken => Exists(g)' \/ g \in taken'
    BY <1>2 DEF Exists
  <2>4. Kept'
    BY <1>1, <2>1, <2>3, AtRestKept DEF IInv, Kept
  <2>5. Unharmed'
    <3>1. References(task.next)' = References(task.next)
      BY <1>1 DEF References, Present
    <3>2. QED
      BY <1>1, <2>2, <2>3, <3>1, AtRestKept DEF IInv, Unharmed
  <2>6. QED
    BY <2>4, <2>5
<1>6. QED
  BY <1>1, <1>3, <1>4, <1>5, AtRestKept DEF IInv

LEMMA CrashIInv == ASSUME IInv, Crash PROVE IInv'
<1> USE DEF Crash, Idle, NoStray
<1>1. TypeOK'
  BY DEF IInv, TypeOK
<1>2. Kept' /\ Unharmed' /\ Serial'
  BY AtRestKept DEF IInv, TypeOK, Kept, Unharmed, Serial, Exists
<1>3. QED
  BY <1>1, <1>2, AtRestKept DEF IInv

LEMMA DamageIInv == ASSUME IInv, NEW f \in Files, Damage(f) PROVE IInv'
<1> USE DEF Damage
<1>1. TypeOK'
  BY DEF IInv, TypeOK
<1>2. Kept' /\ Unharmed' /\ Serial'
  BY AtRestKept DEF IInv, TypeOK, Kept, Unharmed, Serial, Exists
<1>3. QED
  BY <1>1, <1>2, AtRestKept DEF IInv

-----------------------------------------------------------------------------
LEMMA InitIInv == Init => IInv
<1> SUFFICES ASSUME Init PROVE IInv
  OBVIOUS
<1>1. PICK s \in Starts : store = s.store /\ backup = s.backup
  BY DEF Init
<1>2. /\ store \in Collection /\ Sound(store) /\ store.applied = <<>>
      /\ backup # None => backup \in Collection /\ Sound(backup) /\ backup.applied = <<>>
  BY <1>1, StartsAssumption
<1>3. TypeOK
  BY <1>2 DEF Init, TypeOK, Idle, NoStray
<1>4. Kept /\ Unharmed
  <2>1. References(store) \subseteq Files
    BY <1>2, ActiveContentFacts
  <2>2. QED
    BY <2>1 DEF Init, Kept, Unharmed, Exists, Idle, NoStray
<1>5. AppliedOnce /\ Serial
  BY <1>2 DEF Init, AppliedOnce, Sound, Serial, Idle
<1>6. Remembered
  <2>1. ToSet(<<>>) = {}
    BY DEF ToSet
  <2>2. QED
    BY <1>2, <2>1 DEF Init, Remembered
<1>7. QED
  BY <1>2, <1>3, <1>4, <1>5, <1>6 DEF IInv

LEMMA NextIInv == ASSUME IInv, [Next]_vars PROVE IInv'
<1>1. CASE StartTask
  BY <1>1, MigrateIInv, BackupIInv, RestoreIInv, UpdateIInv, OperateIInv DEF StartTask
<1>2. CASE TaskStep
  BY <1>2, MeasureIInv, CommitIInv, FinishIInv, FailIInv, WriteIInv, UnlinkIInv,
     FailRemovalIInv DEF TaskStep
<1>3. CASE StrayStep
  BY <1>3, StrayIInv DEF StrayStep
<1>4. CASE Crash
  BY <1>4, CrashIInv
<1>5. CASE \E o \in Operations : Request(o)
  BY <1>5, RequestIInv
<1>6. CASE \E f \in Files : Damage(f)
  BY <1>6, DamageIInv
<1>7. CASE UNCHANGED vars
  <2> USE <1>7 DEF vars
  <2>1. TypeOK'
    BY DEF IInv, TypeOK
  <2>2. Kept' /\ Unharmed'
    BY AtRestKept DEF IInv, Kept, Unharmed, Exists
  <2>3. Serial'
    <3>1. Proposed => Proposed'
      BY ProposedKept
    <3>2. QED
      BY <3>1 DEF IInv, Serial, References, Present, Opens
  <2>4. QED
    BY <2>1, <2>2, <2>3, AtRestKept DEF IInv
<1>8. QED
  BY <1>1, <1>2, <1>3, <1>4, <1>5, <1>6, <1>7 DEF Next

\* For any vaults, files and operations, and any start that the program can have: the
\* active vault stays there and selectable, every file that the collection references
\* stays there whatever fails, dies or is collected, and no operation is applied twice
\* (vaultStorage.ts:855-933, 1265-1299, 1675-1686); only a record that a worker of a
\* failed task removed beside a later task can be missing (vaultRecordStore.ts:543-559).
THEOREM CollectionInvariant ==
  Spec => []IInv
<1>1. IInv /\ [Next]_vars => IInv'
  BY NextIInv
<1>2. QED
  BY <1>1, InitIInv, PTL DEF Spec

\* A step that is not a commit leaves the collection; a backup alone writes the backup.
LEMMA OnlyCommits ==
  ASSUME [Next]_vars
  PROVE  \/ Commit
         \/ store' = store /\ (Backup \/ backup' = backup)
  BY DEF Next, StartTask, TaskStep, StrayStep, Migrate, Restore, Update, Operate, Run,
         Measure, Finish, Fail, Write, Unlink, FailRemoval, StrayLook, StrayWrite,
         StrayRemove, Crash, Request, Damage, vars, Backup

\* A collection that is renamed into place opens at once: all records of all its vaults
\* and the attachments of the one that it makes active, whatever was damaged before and
\* whatever a backup brought back (vaultStorage.ts:539-556, 1122-1235).
THEOREM CommittedOpens ==
  Spec => CommitsOpen
<1>1. ASSUME IInv, [Next]_vars, store' # store
      PROVE  \A f \in Needed(store') : disk'[f] = "intact" \/ f \in taken'
  <2>1. Commit
    BY <1>1, OnlyCommits
  <2>2. \A f \in Needed(task.next) : Opens(f) \/ f \in taken
    BY <1>1, <2>1 DEF IInv, Serial, Commit
  <2>3. store' = task.next /\ disk' = disk /\ taken' = taken
    BY <2>1 DEF Commit
  <2>4. QED
    BY <2>2, <2>3 DEF Opens
<1>2. QED
  BY <1>1, CollectionInvariant, PTL DEF Spec, CommitsOpen

-----------------------------------------------------------------------------
\* The abstract collection

AbstractContent == [v \in Vaults |-> ContentOf(store, v)]

\* No vault is lost: its abstract content is what the collection file says.
LEMMA ContentFacts ==
  ASSUME IInv
  PROVE  /\ AbstractContent = store.content
         /\ store.content \in [Vaults -> Contents \cup {None}]
         /\ store.active \in Vaults /\ store.archived \subseteq Vaults
         /\ store.active \in Present(store) \ store.archived
         /\ store.archived \subseteq Present(store)
<1>1. /\ store.content \in [Vaults -> Contents \cup {None}]
      /\ store.active \in Vaults /\ store.archived \subseteq Vaults
  BY DEF IInv, TypeOK, Collection
<1>2. ASSUME NEW v \in Vaults, store.content[v] # None, store.format # "inline"
      PROVE  \A f \in store.content[v] : Exists(f) \/ f \in taken
  BY <1>2 DEF IInv, Kept, References, Present
<1>3. \A v \in Vaults : ContentOf(store, v) = store.content[v]
  BY <1>2 DEF ContentOf
<1>4. AbstractContent = store.content
  BY <1>1, <1>3 DEF AbstractContent
<1>5. QED
  BY <1>1, <1>4 DEF IInv, Sound, Selectable

LEMMA ContentFactsNext == IInv' => AbstractContent' = store'.content
<1>1. IInv => AbstractContent = store.content
  BY ContentFacts
<1>2. (IInv => AbstractContent = store.content)'
  BY <1>1, PTL
<1>3. QED
  BY <1>2

LEMMA InitRefines == ASSUME IInv PROVE Atomic!Init
<1>1. AbstractContent \in [Vaults -> Contents \cup {None}]
  BY ContentFacts
<1>2. store.active \in {v \in Vaults : AbstractContent[v] # None}
      /\ store.archived \in SUBSET ({v \in Vaults : AbstractContent[v] # None} \ {store.active})
  BY ContentFacts DEF Present
<1>3. Saved \in {None} \cup [content : [Vaults -> Contents \cup {None}],
                           active : Vaults, archived : SUBSET Vaults]
  BY DEF Saved, IInv, TypeOK, Collection
<1>4. QED
  BY <1>1, <1>2, <1>3 DEF Atomic!Init, Atomic!Present, AbstractContent

\* A commit is the one change of the abstract collection that its task proposed.
LEMMA CommitRefines ==
  ASSUME IInv, IInv', Commit PROVE [Atomic!Next]_(Atomic!vars)
<1> DEFINE Same == /\ AbstractContent' = AbstractContent
                   /\ store'.active = store.active /\ store'.archived = store.archived
<1>1. /\ AbstractContent = store.content /\ AbstractContent' = store'.content
      /\ store.content \in [Vaults -> Contents \cup {None}] /\ store.active \in Vaults
      /\ store.archived \subseteq Present(store)
  BY ContentFacts, ContentFactsNext
<1>2. store' = task.next /\ backup' = backup /\ Saved' = Saved /\ Proposed
  BY DEF Commit, Saved, IInv, Serial
<1>3. ASSUME Same PROVE UNCHANGED Atomic!vars
  BY <1>2, <1>3 DEF Atomic!vars, AbstractContent
<1>4. CASE task.next = Migrated(store) /\ store.format # "collection"
  <2>1. Same
    BY <1>1, <1>2, <1>4, MigratedFacts DEF IInv, TypeOK
  <2>2. QED
    BY <1>3, <2>1
<1>5. ASSUME NEW c \in Contents, task.next = Updated(c) PROVE Atomic!Next
  <2>1. /\ AbstractContent' = [AbstractContent EXCEPT ![store.active] = c]
        /\ store'.active = store.active /\ store'.archived = store.archived
    BY <1>1, <1>2, <1>5, UpdatedFacts DEF IInv, TypeOK
  <2>2. Atomic!Edit(c)
    BY <1>2, <2>1 DEF Atomic!Edit, AbstractContent
  <2>3. QED
    BY <2>2 DEF Atomic!Next
<1>6. ASSUME NEW o \in Operations, request[o] \notin {None, Over},
             request[o].expected = store.revision,
             Allowed(store, request[o].kind, request[o].vault), task.next = Operated(o)
      PROVE  [Atomic!Next]_(Atomic!vars)
  <2> DEFINE kind == request[o].kind
             v    == request[o].vault
             d    == Changed(store, kind, v)
  <2>1. kind \in Kinds /\ v \in Vaults /\ Allowed(store, kind, v)
    BY <1>6 DEF IInv, TypeOK
  <2>2. \/ /\ Changes(store, kind, v)
           /\ store'.content = d.content /\ store'.active = d.active
           /\ store'.archived = d.archived
        \/ Same
    BY <1>1, <1>2, <1>6, OperatedFacts DEF IInv
  <2>3. ASSUME Changes(store, kind, v), store'.content = d.content,
               store'.active = d.active, store'.archived = d.archived
        PROVE  Same \/ Atomic!Next
    <3>1. store \in Collection
      BY DEF IInv, TypeOK
    <3>2. CASE kind = "create"
      <4>1. /\ v \notin Present(store) /\ store'.active = v
            /\ store'.archived = store.archived
            /\ AbstractContent' = [AbstractContent EXCEPT ![v] = Default]
        BY <1>1, <2>1, <2>3, <3>1, <3>2 DEF Allowed, Changed, Collection
      <4>2. Atomic!Create(v)
        BY <1>1, <1>2, <4>1 DEF Atomic!Create, Atomic!Present, AbstractContent, Present
      <4>3. QED
        BY <2>1, <4>2 DEF Atomic!Next
    <3>3. CASE kind = "switch"
      <4>1. /\ v \in Present(store) \ store.archived /\ store'.active = v
            /\ store'.archived = store.archived /\ AbstractContent' = AbstractContent
        BY <1>1, <2>1, <2>3, <3>1, <3>3 DEF Allowed, Changed, Collection
      <4>2. Atomic!Switch(v)
        BY <1>1, <1>2, <4>1 DEF Atomic!Switch, Atomic!Present, AbstractContent, Present
      <4>3. QED
        BY <2>1, <4>2 DEF Atomic!Next
    <3>4. CASE kind = "rename"
      BY <1>1, <2>3, <3>4 DEF Changed
    <3>5. CASE kind = "archive"
      <4>1. /\ v \in Present(store) \ {store.active} /\ store'.active = store.active
            /\ store'.archived = store.archived \cup {v} /\ AbstractContent' = AbstractContent
        BY <1>1, <2>1, <2>3, <3>1, <3>5 DEF Allowed, Changed, Collection
      <4>2. Atomic!Archive(v)
        BY <1>1, <1>2, <4>1 DEF Atomic!Archive, Atomic!Present, AbstractContent, Present
      <4>3. QED
        BY <2>1, <4>2 DEF Atomic!Next
    <3>6. CASE kind = "unarchive"
      <4>1. /\ v \in store.archived /\ store'.active = store.active
            /\ store'.archived = store.archived \ {v} /\ AbstractContent' = AbstractContent
        BY <1>1, <2>1, <2>3, <3>1, <3>6 DEF Changes, Changed, Collection
      <4>2. Atomic!Unarchive(v)
        BY <1>2, <4>1 DEF Atomic!Unarchive, AbstractContent
      <4>3. QED
        BY <2>1, <4>2 DEF Atomic!Next
    <3>7. CASE kind = "delete"
      <4>1. /\ v \in store.archived /\ store'.active = store.active
            /\ store'.archived = store.archived \ {v}
            /\ AbstractContent' = [AbstractContent EXCEPT ![v] = None]
        BY <1>1, <2>1, <2>3, <3>1, <3>7 DEF Allowed, Changed, Collection
      <4>2. Atomic!Delete(v)
        BY <1>2, <4>1 DEF Atomic!Delete, AbstractContent
      <4>3. QED
        BY <2>1, <4>2 DEF Atomic!Next
    <3>8. QED
      BY <2>1, <3>2, <3>3, <3>4, <3>5, <3>6, <3>7 DEF Kinds
  <2>4. QED
    BY <1>3, <2>2, <2>3
<1>7. CASE /\ backup # None /\ task.next = Migrated(backup)
           /\ backup.format = "collection" => task.restores
  <2>1. /\ store'.content = backup.content /\ store'.active = backup.active
        /\ store'.archived = backup.archived
    BY <1>2, <1>7, MigratedFacts DEF IInv, TypeOK
  <2>2. /\ Saved = [content |-> backup.content, active |-> backup.active,
                    archived |-> backup.archived]
        /\ Saved # None
    BY <1>7, NoneAssumption DEF Saved, IInv, TypeOK, Collection
  <2>3. Atomic!Restore
    BY <1>1, <1>2, <2>1, <2>2 DEF Atomic!Restore, AbstractContent
  <2>4. QED
    BY <2>3 DEF Atomic!Next
<1>8. QED
  BY <1>2, <1>4, <1>5, <1>6, <1>7 DEF Proposed

LEMMA NextRefines ==
  ASSUME IInv, IInv', [Next]_vars PROVE [Atomic!Next]_(Atomic!vars)
<1>1. CASE Commit
  BY <1>1, CommitRefines
<1>2. ASSUME store' = store
      PROVE  AbstractContent' = AbstractContent
  BY <1>2, ContentFacts, ContentFactsNext
<1>3. CASE store' = store /\ Backup
  <2>1. store # None
    BY NoneAssumption DEF IInv, TypeOK
  <2>2. Saved' = [content |-> AbstractContent, active |-> store.active,
                  archived |-> store.archived]
    BY <1>3, <2>1, ContentFacts DEF Backup, Saved
  <2>3. Atomic!Backup
    BY <1>2, <1>3, <2>2 DEF Atomic!Backup, AbstractContent
  <2>4. QED
    BY <2>3 DEF Atomic!Next
<1>4. CASE store' = store /\ backup' = backup
  BY <1>2, <1>4 DEF Atomic!vars, AbstractContent, Saved
<1>5. QED
  BY <1>1, <1>3, <1>4, OnlyCommits

\* The files implement the collection its callers are promised: every operation takes
\* effect at once, in the rename of the collection file, or not at all, on the vault it
\* names alone, and no vault loses a file that it shares with another
\* (vaultStorage.ts:539-556, 855-933, vaultRecordStore.ts:364-389).
THEOREM ImplementsCollection ==
  Spec => ImplementsAtomicCollection
<1>1. Spec => Atomic!Init
  BY InitIInv, InitRefines DEF Spec
<1>2. IInv /\ IInv' /\ [Next]_vars => [Atomic!Next]_(Atomic!vars)
  BY NextRefines
<1>3. QED
  BY <1>1, <1>2, CollectionInvariant, PTL DEF Spec, ImplementsAtomicCollection, Atomic!Spec
=============================================================================
