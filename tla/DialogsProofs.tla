---------------------------- MODULE DialogsProofs -----------------------------
(* Proofs about the parts of MCDialogs, for any windows, folders, projects,    *)
(* vaults and bounds.                                                          *)
EXTENDS MCDialogs, SequenceTheorems, FiniteSetTheorems, WellFoundedInduction, TLAPS

\* Induction over the natural numbers, of a set of them.
LEMMA NatSetInduction ==
  ASSUME NEW S, 0 \in S, \A n \in Nat : n \in S => n + 1 \in S
  PROVE  Nat \subseteq S
<1>1. SUFFICES ASSUME Nat \ S # {} PROVE FALSE
  OBVIOUS
<1> DEFINE R == {ss \in Nat \X Nat : ss[1] < ss[2]}
<1>2. IsWellFoundedOn(R, Nat)
  BY NatLessThanWellFounded DEF OpToRel
<1>3. IsWellFoundedOn(R, Nat) /\ Nat \ S \subseteq Nat /\ Nat \ S # {}
  BY <1>2, <1>1
<1> HIDE DEF R
<1>4. PICK x \in Nat \ S : \A y \in Nat \ S : ~(<<y, x>> \in R)
  BY <1>3, WFMin
<1>5. \A y \in Nat \ S : ~(y < x)
  BY <1>4 DEF R
<1>6. x # 0 /\ x - 1 \in Nat
  OBVIOUS
<1>7. x - 1 \in S
  BY <1>5, <1>6
<1>8. x - 1 + 1 \in S
  BY <1>6, <1>7
<1>9. QED
  BY <1>6, <1>8

\* What a grant list is: every key once, and no more than the limit.
Lists == {t \in Seq(Keys) : IsInjective(t) /\ Len(t) <= Limit}

\* A grant keeps a list a list and adds no key but its own.
LEMMA GrantedFacts ==
  ASSUME NEW s \in Lists, NEW k \in Keys
  PROVE  Granted(s, k) \in Lists /\ \A g : Contains(Granted(s, k), g) => Contains(s, g) \/ g = k
<1>1. s \in Seq(Keys) /\ IsInjective(s) /\ Len(s) <= Limit /\ Limit \in Nat \ {0}
  BY ProjectAssumption DEF Lists
<1>2. CASE Contains(s, k)
  BY <1>1, <1>2 DEF Granted, Lists
<1>3. CASE ~Contains(s, k)
  <2> DEFINE t == Append(s, k)
  <2>1. /\ t \in Seq(Keys) /\ t # <<>> /\ Len(t) = Len(s) + 1
        /\ \A i \in 1..Len(s) : t[i] = s[i]
        /\ t[Len(s) + 1] = k
    BY <1>1, AppendProperties
  <2>2. IsInjective(t)
    BY <1>1, <1>3, <2>1 DEF IsInjective, Contains
  <2>3. \A g : Contains(t, g) => Contains(s, g) \/ g = k
    BY <1>1, <2>1 DEF Contains
  <2> HIDE DEF t
  <2>4. /\ Tail(t) \in Seq(Keys) /\ Len(Tail(t)) = Len(t) - 1
        /\ \A i \in 1..Len(Tail(t)) : Tail(t)[i] = t[i + 1]
    BY <2>1, HeadTailProperties
  <2>5. IsInjective(Tail(t))
    BY <2>1, <2>2, <2>4 DEF IsInjective
  <2>6. \A g : Contains(Tail(t), g) => Contains(t, g)
    BY <2>1, <2>4 DEF Contains
  <2>7. Granted(s, k) = IF Len(t) > Limit THEN Tail(t) ELSE t
    BY <1>3 DEF Granted, t
  <2>8. QED
    BY <1>1, <2>1, <2>2, <2>3, <2>4, <2>5, <2>6, <2>7 DEF Lists
<1>4. QED
  BY <1>2, <1>3

\* Neither does a grant of several keys, one after the other, in whatever order.
LEMMA GrantedAllFacts ==
  ASSUME NEW s \in Lists, NEW ks \in SUBSET Keys, IsFiniteSet(ks)
  PROVE  /\ GrantedAll(s, ks) \in Lists
         /\ \A g : Contains(GrantedAll(s, ks), g) => Contains(s, g) \/ g \in ks
<1> DEFINE El(u)    == CHOOSE x \in u : TRUE
           Eq(f, D) == f = [u \in D |-> IF u = {} THEN s ELSE Granted(f[u \ {El(u)}], El(u))]
           D(n)     == {u \in SUBSET ks : Cardinality(u) <= n}
           Good     == {n \in Nat : \E f : Eq(f, D(n))}
<1>1. \A u \in SUBSET ks : /\ IsFiniteSet(u) /\ Cardinality(u) \in Nat
                           /\ Cardinality(u) <= Cardinality(ks)
                           /\ Cardinality(u) = 0 <=> u = {}
  BY FS_Subset, FS_CardinalityType, FS_EmptySet
<1>2. \A u \in SUBSET ks : u # {} =>
        El(u) \in u /\ u \ {El(u)} \in SUBSET ks /\ Cardinality(u \ {El(u)}) = Cardinality(u) - 1
  BY <1>1, FS_RemoveElement
<1>3. 0 \in Good
  <2> DEFINE f == [u \in D(0) |-> s]
  <2>1. \A u \in D(0) : u = {}
    BY <1>1
  <2>2. Eq(f, D(0))
    BY <2>1
  <2>3. QED
    BY <2>2
<1>4. ASSUME NEW n \in Nat, n \in Good PROVE n + 1 \in Good
  <2>1. PICK f : Eq(f, D(n))
    BY <1>4
  <2> DEFINE g == [u \in D(n + 1) |-> IF u = {} THEN s ELSE Granted(f[u \ {El(u)}], El(u))]
  <2>2. \A u \in D(n) : f[u] = IF u = {} THEN s ELSE Granted(f[u \ {El(u)}], El(u))
    BY <2>1
  <2>3. \A u \in D(n) : u \in D(n + 1)
    BY <1>1
  <2>4. \A u \in D(n) : g[u] = f[u]
    BY <2>2, <2>3
  <2>5. \A u \in D(n + 1) : u # {} => u \ {El(u)} \in D(n)
    BY <1>1, <1>2
  <2>6. \A u \in D(n + 1) : u # {} => g[u \ {El(u)}] = f[u \ {El(u)}]
    BY <2>4, <2>5
  <2> DEFINE h == [u \in D(n + 1) |-> IF u = {} THEN s ELSE Granted(g[u \ {El(u)}], El(u))]
  <2>7. \A u \in D(n + 1) : g[u] = IF u = {} THEN s ELSE Granted(f[u \ {El(u)}], El(u))
    OBVIOUS
  <2>8. g \in [D(n + 1) -> {g[u] : u \in D(n + 1)}]
    OBVIOUS
  <2> HIDE DEF g
  <2>9. ASSUME NEW u \in D(n + 1) PROVE g[u] = h[u]
    BY <2>6, <2>7
  <2>10. g = h
    BY <2>8, <2>9
  <2>11. Eq(g, D(n + 1))
    BY <2>10
  <2> HIDE DEF Eq, D
  <2>12. QED
    BY <2>11
<1>5. Good = Nat
  BY <1>3, <1>4, NatSetInduction
<1>6. D(Cardinality(ks)) = SUBSET ks /\ Cardinality(ks) \in Nat
  BY <1>1
<1>7. \E f : Eq(f, SUBSET ks)
  <2>1. \E f : Eq(f, D(Cardinality(ks)))
    BY <1>5, <1>6
  <2> HIDE DEF Eq, D
  <2>2. QED
    BY <2>1, <1>6
<1> DEFINE iter == CHOOSE f : Eq(f, SUBSET ks)
<1>8. Eq(iter, SUBSET ks)
  BY <1>7
<1>9. GrantedAll(s, ks) = iter[ks]
  BY DEF GrantedAll, FoldSet, MapThenFoldSet
<1>10. /\ \A u \in SUBSET ks : iter[u] = IF u = {} THEN s ELSE Granted(iter[u \ {El(u)}], El(u))
  BY <1>8
<1> HIDE DEF iter, El
<1> DEFINE Right(u) == iter[u] \in Lists /\ \A g : Contains(iter[u], g) => Contains(s, g) \/ g \in u
           Proved   == {n \in Nat : \A u \in D(n) : Right(u)}
<1>11. 0 \in Proved
  <2>1. \A u \in D(0) : u = {}
    BY <1>1
  <2>2. Right({})
    BY <1>10
  <2> HIDE DEF Right
  <2>3. QED
    BY <2>1, <2>2
<1>12. ASSUME NEW n \in Nat, n \in Proved PROVE n + 1 \in Proved
  <2> SUFFICES ASSUME NEW u \in D(n + 1) PROVE Right(u)
    OBVIOUS
  <2>1. CASE u = {}
    BY <2>1, <1>10
  <2>2. CASE u # {}
    <3> DEFINE v == u \ {El(u)}
    <3>1. El(u) \in u /\ v \in D(n) /\ v \subseteq u
      BY <2>2, <1>1, <1>2
    <3>2. Right(v)
      BY <3>1, <1>12
    <3>3. iter[u] = Granted(iter[v], El(u)) /\ El(u) \in Keys
      BY <2>2, <1>10, <3>1
    <3>4. QED
      BY <3>1, <3>2, <3>3, GrantedFacts, ZenonT(60)
  <2>3. QED
    BY <2>1, <2>2
<1>13. Proved = Nat
  BY <1>11, <1>12, NatSetInduction
<1>14. Right(ks)
  BY <1>6, <1>13
<1>15. QED
  BY <1>9, <1>14

\* Taking a key out of a list leaves it nowhere, and the rest as they were.
LEMMA SpentFacts ==
  ASSUME NEW s \in Lists, NEW k
  PROVE  /\ Spent(s, k) \in Lists /\ ~Contains(Spent(s, k), k)
         /\ \A g : Contains(Spent(s, k), g) => Contains(s, g)
<1>1. s \in Seq(Keys) /\ IsInjective(s) /\ Len(s) <= Limit /\ Len(s) \in Nat /\ Limit \in Nat
  BY ProjectAssumption DEF Lists
<1>2. CASE ~Contains(s, k)
  BY <1>2 DEF Spent, RemoveFirst, Contains
<1>3. CASE Contains(s, k)
  <2> DEFINE I == {i \in 1..Len(s) : s[i] = k}
  <2>1. PICK n \in 1..Len(s) : I = {n}
    BY <1>1, <1>3 DEF Contains, IsInjective
  <2>2. SelectInSeq(s, LAMBDA v : v = k) = n
    BY <2>1 DEF SelectInSeq, Min
  <2>3. Spent(s, k) = RemoveAt(s, n)
    BY <1>3, <2>2 DEF Spent, RemoveFirst, Contains
  <2> DEFINE t == RemoveAt(s, n)
             a == SubSeq(s, 1, n - 1)
             b == SubSeq(s, n + 1, Len(s))
  <2>4. /\ a \in Seq(Keys) /\ Len(a) = n - 1 /\ \A i \in 1..(n - 1) : a[i] = s[i]
    BY <1>1, SubSeqProperties
  <2>5. /\ b \in Seq(Keys) /\ Len(b) = Len(s) - n
        /\ \A i \in 1..(Len(s) - n) : b[i] = s[n + i]
    BY <1>1, SubSeqProperties
  <2>6. t = a \o b
    BY DEF RemoveAt
  <2> HIDE DEF a, b, t
  <2>7. /\ t \in Seq(Keys) /\ Len(t) = Len(s) - 1
        /\ \A i \in 1..(Len(s) - 1) : t[i] = IF i < n THEN s[i] ELSE s[i + 1]
    <3>1. /\ t \in Seq(Keys) /\ Len(t) = Len(a) + Len(b)
          /\ \A i \in 1..(Len(a) + Len(b)) : t[i] = IF i <= Len(a) THEN a[i] ELSE b[i - Len(a)]
      BY <2>4, <2>5, <2>6, ConcatProperties
    <3>2. Len(t) = Len(s) - 1 /\ n - 1 \in Nat /\ Len(s) - n \in Nat
      BY <1>1, <2>4, <2>5, <3>1
    <3>3. Len(a) + Len(b) = Len(s) - 1
      BY <1>1, <2>4, <2>5
    <3>4. \A i \in 1..(Len(s) - 1) : t[i] = IF i <= n - 1 THEN a[i] ELSE b[i - (n - 1)]
      BY <3>1, <3>3, <2>4
    <3>5. ASSUME NEW i \in 1..(Len(s) - 1) PROVE t[i] = IF i < n THEN s[i] ELSE s[i + 1]
      <4>1. CASE i < n
        <5>1. i \in 1..(n - 1) /\ i <= n - 1
          BY <1>1, <3>2, <4>1
        <5>2. QED
          BY <2>4, <3>4, <4>1, <5>1
      <4>2. CASE i >= n
        <5>1. i - (n - 1) \in 1..(Len(s) - n) /\ t[i] = b[i - (n - 1)]
          BY <1>1, <3>2, <3>4, <4>2
        <5>2. n + (i - (n - 1)) = i + 1
          BY <1>1
        <5>3. QED
          BY <2>5, <5>1, <5>2, <4>2
      <4>3. QED
        BY <1>1, <4>1, <4>2
    <3>6. QED
      BY <3>1, <3>2, <3>5
  <2>8. IsInjective(t)
    BY <1>1, <2>7, SMTT(30) DEF IsInjective
  <2>9. \A i \in 1..(Len(s) - 1) : \E j \in 1..Len(s) : j # n /\ t[i] = s[j]
    BY <1>1, <2>7
  <2>10. \A j \in 1..Len(s) : s[j] = k => j = n
    BY <2>1
  <2>11. ~Contains(t, k) /\ \A g : Contains(t, g) => Contains(s, g)
    BY <2>7, <2>9, <2>10 DEF Contains
  <2>12. QED
    BY <1>1, <2>3, <2>7, <2>8, <2>11 DEF Lists, t
<1>4. QED
  BY <1>2, <1>3

-----------------------------------------------------------------------------
\* The number of lists that hold a key moves with the list that changes.
LEMMA HoldsFacts ==
  ASSUME NEW k
  PROVE  /\ Holds(k) \in Nat /\ Holds(k)' \in Nat
         /\ (\A r \in Renderers : Contains(grants'[r], k) => Contains(grants[r], k))
              => Holds(k)' <= Holds(k)
         /\ \A r \in Renderers :
              (\A q \in Renderers \ {r} : Contains(grants'[q], k) => Contains(grants[q], k))
                => /\ Holds(k)' <= Holds(k) + 1
                   /\ Contains(grants[r], k) /\ ~Contains(grants'[r], k)
                        => Holds(k)' <= Holds(k) - 1
<1> DEFINE A == {r \in Renderers : Contains(grants[r], k)}
           B == {r \in Renderers : Contains(grants'[r], k)}
<1>1. IsFiniteSet(A) /\ IsFiniteSet(B) /\ Cardinality(A) \in Nat /\ Cardinality(B) \in Nat
  <2>1. A \in SUBSET Renderers /\ B \in SUBSET Renderers /\ IsFiniteSet(Renderers)
    BY ProjectAssumption
  <2>2. QED
    BY <2>1, FS_Subset, FS_CardinalityType
<1>2. Holds(k) = Cardinality(A) /\ Holds(k)' = Cardinality(B)
  BY DEF Holds
<1>3. ASSUME \A r \in Renderers : Contains(grants'[r], k) => Contains(grants[r], k)
      PROVE  Cardinality(B) <= Cardinality(A)
  <2>1. B \in SUBSET A
    BY <1>3
  <2>2. QED
    BY <1>1, <2>1, FS_Subset
<1>4. ASSUME NEW r \in Renderers,
             \A q \in Renderers \ {r} : Contains(grants'[q], k) => Contains(grants[q], k)
      PROVE  /\ Cardinality(B) <= Cardinality(A) + 1
             /\ Contains(grants[r], k) /\ ~Contains(grants'[r], k)
                  => Cardinality(B) <= Cardinality(A) - 1
  <2>1. IsFiniteSet(A \cup {r}) /\ Cardinality(A \cup {r}) <= Cardinality(A) + 1
    BY <1>1, FS_AddElement
  <2>2. B \in SUBSET (A \cup {r})
    BY <1>4
  <2>3. Cardinality(B) <= Cardinality(A \cup {r})
    BY <2>1, <2>2, FS_Subset
  <2>4. ASSUME Contains(grants[r], k), ~Contains(grants'[r], k)
        PROVE  Cardinality(B) <= Cardinality(A) - 1
    <3>1. IsFiniteSet(A \ {r}) /\ Cardinality(A \ {r}) = Cardinality(A) - 1
      BY <1>1, <2>4, FS_RemoveElement
    <3>2. B \in SUBSET (A \ {r})
      BY <1>4, <2>4
    <3>3. QED
      BY <3>1, <3>2, FS_Subset
  <2>5. QED
    BY <1>1, <2>1, <2>3, <2>4, FS_CardinalityType
<1>5. QED
  BY <1>1, <1>2, <1>3, <1>4

\* A key is taken by the command under way or it is not.
LEMMA TakenFacts == \A k : Taken(k) \in {0, 1} /\ Taken(k)' \in {0, 1}
  BY DEF Taken

\* No list holds more than before, and no command has taken more.
LEMMA NoMoreAccounted ==
  ASSUME TypeOK, Accounted, balance' = balance,
         \A r \in Renderers : /\ grants'[r] \in Lists
                              /\ \A k : Contains(grants'[r], k) => Contains(grants[r], k),
         \A k \in PathKeys : Taken(k)' <= Taken(k)
  PROVE  Accounted'
<1>1. ASSUME NEW k \in PathKeys PROVE balance'[k] >= Holds(k)' + Taken(k)'
  <2>1. balance[k] >= Holds(k) + Taken(k) /\ balance[k] \in Int
    BY DEF Accounted, TypeOK
  <2>2. Holds(k)' <= Holds(k) /\ Holds(k) \in Nat /\ Holds(k)' \in Nat
    BY HoldsFacts
  <2>3. QED
    BY <2>1, <2>2, TakenFacts
<1>2. QED
  BY <1>1 DEF Accounted, Lists

\* What a window holds is a list.
LEMMA ListsFacts == ASSUME TypeOK, Accounted PROVE \A r \in Renderers : grants[r] \in Lists
  BY DEF TypeOK, Accounted, Lists

\* No call under way is taken for the absence of one.
LEMMA NoneFacts ==
  /\ None \notin Picks /\ None \notin Discoveries /\ None \notin Changes /\ None \notin Exports
  /\ None # "user" /\ None # "vaultage"
  BY NoneAssumption

\* The steps, one after the other; first those that take from the lists or leave them.
LEMMA revokeRendererIInv ==
  ASSUME IInv, NEW r \in Renderers, revokeRenderer(r)
  PROVE  IInv'
<1>1. TypeOK'
  BY DEF revokeRenderer, IInv, TypeOK, session, disk, files, count
<1>2. \A q \in Renderers : /\ grants'[q] \in Lists
                              /\ \A j : Contains(grants'[q], j) => Contains(grants[q], j)
  <2>1. <<>> \in Lists /\ \A j : ~Contains(<<>>, j)
    BY ProjectAssumption DEF Lists, IsInjective, Contains
  <2>2. QED
    BY <2>1, ListsFacts DEF revokeRenderer, IInv
<1>3. Accounted'
  BY <1>2, NoMoreAccounted DEF revokeRenderer, IInv, count, Taken
<1>4. ShownIsStored' /\ CommandsOfTheActive'
  BY DEF revokeRenderer, IInv, session, disk, ShownIsStored, CommandsOfTheActive
<1>5. ExportsOfOneRevision'
  BY DEF revokeRenderer, IInv, session, disk, ExportsOfOneRevision, ExportsPrepared,
     Current, SwitchQueued
<1>6. ExportsPrepared'
  BY DEF revokeRenderer, IInv, session, files, ExportsPrepared
<1>7. QED
  BY <1>1, <1>3, <1>4, <1>5, <1>6 DEF IInv

LEMMA ExpireIInv ==
  ASSUME IInv, NEW r \in Renderers, NEW k \in Keys, Expire(r, k)
  PROVE  IInv'
<1>1. TypeOK'
  <2>1. grants' \in [Renderers -> Seq(Keys)]
    BY ListsFacts, SpentFacts DEF Expire, Spend, IInv, TypeOK, Lists
  <2>2. QED
    BY <2>1 DEF Expire, IInv, TypeOK, session, disk, files, count
<1>2. \A q \in Renderers : /\ grants'[q] \in Lists
                              /\ \A j : Contains(grants'[q], j) => Contains(grants[q], j)
  BY ListsFacts, SpentFacts DEF Expire, IInv, Spend
<1>3. Accounted'
  BY <1>2, NoMoreAccounted DEF Expire, IInv, count, Taken
<1>4. ShownIsStored' /\ CommandsOfTheActive'
  BY DEF Expire, IInv, session, disk, ShownIsStored, CommandsOfTheActive
<1>5. ExportsOfOneRevision'
  BY DEF Expire, IInv, session, disk, ExportsOfOneRevision, ExportsPrepared, Current,
     SwitchQueued
<1>6. ExportsPrepared'
  BY DEF Expire, IInv, session, files, ExportsPrepared
<1>7. QED
  BY <1>1, <1>3, <1>4, <1>5, <1>6 DEF IInv

LEMMA PickFolderIInv ==
  ASSUME IInv, NEW r \in Renderers, NEW k \in Keys, PickFolder(r, k)
  PROVE  IInv'
<1>1. TypeOK'
  BY DEF PickFolder, IInv, TypeOK, session, disk, files, count, Picks, Discoveries
<1>2. Accounted'
  BY DEF PickFolder, IInv, count, Accounted, Holds, Taken
<1>3. ShownIsStored' /\ CommandsOfTheActive'
  BY DEF PickFolder, IInv, session, disk, ShownIsStored, CommandsOfTheActive
<1>4. ExportsOfOneRevision'
  BY DEF PickFolder, IInv, session, disk, ExportsOfOneRevision, ExportsPrepared, Current,
     SwitchQueued
<1>5. ExportsPrepared'
  BY DEF PickFolder, IInv, session, files, ExportsPrepared
<1>6. QED
  BY <1>1, <1>2, <1>3, <1>4, <1>5 DEF IInv

LEMMA PickedIInv ==
  ASSUME IInv, Picked
  PROVE  IInv'
<1>1. TypeOK'
  <2>1. pick' \in Picks \cup {None}
    BY DEF Picked, IInv, TypeOK, Picks
  <2>2. QED
    BY <2>1 DEF Picked, IInv, TypeOK, session, disk, files, count
<1>2. Accounted'
  BY DEF Picked, IInv, count, Accounted, Holds, Taken
<1>3. ShownIsStored' /\ CommandsOfTheActive'
  BY DEF Picked, IInv, session, disk, ShownIsStored, CommandsOfTheActive
<1>4. ExportsOfOneRevision'
  BY DEF Picked, IInv, session, disk, ExportsOfOneRevision, ExportsPrepared, Current,
     SwitchQueued
<1>5. ExportsPrepared'
  BY DEF Picked, IInv, session, files, ExportsPrepared
<1>6. QED
  BY <1>1, <1>2, <1>3, <1>4, <1>5 DEF IInv

LEMMA DiscoverIInv ==
  ASSUME IInv, NEW r \in Renderers, NEW f \in Folders, Discover(r, f)
  PROVE  IInv'
<1>1. TypeOK'
  BY DEF Discover, IInv, TypeOK, session, disk, files, count, Picks, Discoveries
<1>2. Accounted'
  BY DEF Discover, IInv, count, Accounted, Holds, Taken
<1>3. ShownIsStored' /\ CommandsOfTheActive'
  BY DEF Discover, IInv, session, disk, ShownIsStored, CommandsOfTheActive
<1>4. ExportsOfOneRevision'
  BY DEF Discover, IInv, session, disk, ExportsOfOneRevision, ExportsPrepared, Current,
     SwitchQueued
<1>5. ExportsPrepared'
  BY DEF Discover, IInv, session, files, ExportsPrepared
<1>6. QED
  BY <1>1, <1>2, <1>3, <1>4, <1>5 DEF IInv

LEMMA DiscoverFailsIInv ==
  ASSUME IInv, DiscoverFails
  PROVE  IInv'
<1>1. TypeOK'
  BY DEF DiscoverFails, IInv, TypeOK, session, disk, files, count
<1>2. Accounted'
  BY DEF DiscoverFails, IInv, count, Accounted, Holds, Taken
<1>3. ShownIsStored' /\ CommandsOfTheActive'
  BY DEF DiscoverFails, IInv, session, disk, ShownIsStored, CommandsOfTheActive
<1>4. ExportsOfOneRevision'
  BY DEF DiscoverFails, IInv, session, disk, ExportsOfOneRevision, ExportsPrepared,
     Current, SwitchQueued
<1>5. ExportsPrepared'
  BY DEF DiscoverFails, IInv, session, files, ExportsPrepared
<1>6. QED
  BY <1>1, <1>2, <1>3, <1>4, <1>5 DEF IInv

LEMMA CommandFailsIInv ==
  ASSUME IInv, CommandFails
  PROVE  IInv'
<1>1. TypeOK'
  BY DEF CommandFails, IInv, TypeOK, session, disk, files, count
<1>2. Accounted'
  <2>1. \A k : Taken(k)' <= Taken(k)
    BY DEF CommandFails, Taken
  <2>2. \A q \in Renderers : grants'[q] \in Lists
    BY ListsFacts DEF CommandFails, IInv
  <2>3. QED
    BY <2>1, <2>2, NoMoreAccounted DEF CommandFails, IInv, count
<1>3. ShownIsStored' /\ CommandsOfTheActive'
  BY DEF CommandFails, IInv, disk, ShownIsStored, CommandsOfTheActive
<1>4. ExportsOfOneRevision'
  BY DEF CommandFails, IInv, session, disk, ExportsOfOneRevision, ExportsPrepared,
     Current, SwitchQueued
<1>5. ExportsPrepared'
  BY DEF CommandFails, IInv, session, files, ExportsPrepared
<1>6. QED
  BY <1>1, <1>2, <1>3, <1>4, <1>5 DEF IInv

LEMMA AuthorizedIInv ==
  ASSUME IInv, Authorized
  PROVE  IInv'
<1>1. TypeOK'
  <2>1. change' \in Changes
    BY DEF Authorized, IInv, TypeOK, Changes
  <2>2. QED
    BY <2>1 DEF Authorized, IInv, TypeOK, session, disk, files, count
<1>2. Accounted'
  <2>1. change \in Changes /\ change' = [change EXCEPT !.at = "commit"] /\ change.at = "authorize"
    BY DEF Authorized, IInv, TypeOK
  <2>2. /\ change'.at = "commit" /\ change'.keys = change.keys
        /\ change'.look = change.look /\ change'.spend = change.spend
    BY <2>1 DEF Changes
  <2>3. \A k : Taken(k)' <= Taken(k)
    BY <2>1, <2>2, NoneFacts DEF Taken
  <2>4. \A q \in Renderers : grants'[q] \in Lists
    BY ListsFacts DEF Authorized, IInv
  <2>5. QED
    BY <2>3, <2>4, NoMoreAccounted DEF Authorized, IInv, count
<1>3. ShownIsStored' /\ CommandsOfTheActive'
  BY DEF Authorized, IInv, session, disk, ShownIsStored, CommandsOfTheActive
<1>4. ExportsOfOneRevision'
  BY DEF Authorized, IInv, session, disk, ExportsOfOneRevision, ExportsPrepared, Current,
     SwitchQueued
<1>5. ExportsPrepared'
  BY DEF Authorized, IInv, session, files, ExportsPrepared
<1>6. QED
  BY <1>1, <1>2, <1>3, <1>4, <1>5 DEF IInv

LEMMA PublishIInv ==
  ASSUME IInv, Publish
  PROVE  IInv'
<1>1. TypeOK'
  BY DEF Publish, IInv, TypeOK, files, count, Changes
<1>2. Accounted'
  BY DEF Publish, IInv, count, Accounted, Holds, Taken
<1>3. ShownIsStored' /\ CommandsOfTheActive'
  BY DEF Publish, IInv, ShownIsStored, CommandsOfTheActive
<1>4. ExportsOfOneRevision'
  BY DEF Publish, IInv, CommandsOfTheActive, ExportsOfOneRevision, ExportsPrepared,
     Current, SwitchQueued
<1>5. ExportsPrepared'
  BY DEF Publish, IInv, files, ExportsPrepared
<1>6. QED
  BY <1>1, <1>2, <1>3, <1>4, <1>5 DEF IInv

LEMMA ExportEnvIInv ==
  ASSUME IInv, NEW p \in Projects, NEW o \in BOOLEAN, NEW i \in BOOLEAN, ExportEnv(p, o, i)
  PROVE  IInv'
<1>1. TypeOK'
  <2>1. export' \in Exports /\ left' \in [grants : Nat, exports : Nat]
    BY DEF ExportEnv, IInv, TypeOK, session, Exports
  <2>2. QED
    BY <2>1 DEF ExportEnv, IInv, TypeOK, session, disk, files
<1>2. Accounted'
  BY DEF ExportEnv, IInv, Accounted, Holds, Taken
<1>3. ShownIsStored' /\ CommandsOfTheActive'
  BY DEF ExportEnv, IInv, session, disk, ShownIsStored, CommandsOfTheActive
<1>4. ExportsOfOneRevision'
  BY DEF ExportEnv, IInv, TypeOK, session, disk, ShownIsStored, ExportsOfOneRevision,
     ExportsPrepared, Current, SwitchQueued, MayStart, MayRead, Approved
<1>5. ExportsPrepared'
  BY DEF ExportEnv, IInv, TypeOK, session, ExportsPrepared
<1>6. QED
  BY <1>1, <1>2, <1>3, <1>4, <1>5 DEF IInv

LEMMA ExportConfirmedIInv ==
  ASSUME IInv, ExportConfirmed
  PROVE  IInv'
<1>1. TypeOK'
  BY DEF ExportConfirmed, IInv, TypeOK, session, disk, files, count, Exports
<1>2. Accounted'
  BY DEF ExportConfirmed, IInv, count, Accounted, Holds, Taken
<1>3. ShownIsStored' /\ CommandsOfTheActive'
  BY DEF ExportConfirmed, IInv, session, disk, ShownIsStored, CommandsOfTheActive
<1>4. ExportsOfOneRevision'
  BY DEF ExportConfirmed, IInv, session, disk, ExportsOfOneRevision, ExportsPrepared,
     Current, SwitchQueued
<1>5. ExportsPrepared'
  BY DEF ExportConfirmed, IInv, session, ExportsPrepared
<1>6. QED
  BY <1>1, <1>2, <1>3, <1>4, <1>5 DEF IInv

LEMMA ExportLooksIInv ==
  ASSUME IInv, ExportLooks
  PROVE  IInv'
<1>1. TypeOK'
  BY DEF ExportLooks, IInv, TypeOK, session, disk, files, count, Exports
<1>2. Accounted'
  BY DEF ExportLooks, IInv, count, Accounted, Holds, Taken
<1>3. ShownIsStored' /\ CommandsOfTheActive'
  BY DEF ExportLooks, IInv, session, disk, ShownIsStored, CommandsOfTheActive
<1>4. ExportsOfOneRevision'
  BY DEF ExportLooks, IInv, session, disk, ExportsOfOneRevision, ExportsPrepared, Current,
     SwitchQueued
<1>5. ExportsPrepared'
  BY DEF ExportLooks, IInv, TypeOK, session, ExportsPrepared, Exports
<1>6. QED
  BY <1>1, <1>2, <1>3, <1>4, <1>5 DEF IInv

LEMMA ExportIgnoresIInv ==
  ASSUME IInv, ExportIgnores
  PROVE  IInv'
<1>1. TypeOK'
  BY DEF ExportIgnores, IInv, TypeOK, session, disk, count, Exports
<1>2. Accounted'
  BY DEF ExportIgnores, IInv, count, Accounted, Holds, Taken
<1>3. ShownIsStored' /\ CommandsOfTheActive'
  BY DEF ExportIgnores, IInv, session, disk, ShownIsStored, CommandsOfTheActive
<1>4. ExportsOfOneRevision'
  BY DEF ExportIgnores, IInv, session, disk, ExportsOfOneRevision, ExportsPrepared,
     Current, SwitchQueued
<1>5. ExportsPrepared'
  BY DEF ExportIgnores, IInv, TypeOK, session, ExportsPrepared, Exports
<1>6. QED
  BY <1>1, <1>2, <1>3, <1>4, <1>5 DEF IInv

LEMMA ExportWritesIInv ==
  ASSUME IInv, ExportWrites
  PROVE  IInv'
<1>1. TypeOK'
  BY DEF ExportWrites, IInv, TypeOK, session, disk, count
<1>2. Accounted'
  BY DEF ExportWrites, IInv, count, Accounted, Holds, Taken
<1>3. ShownIsStored' /\ CommandsOfTheActive'
  BY DEF ExportWrites, IInv, session, disk, ShownIsStored, CommandsOfTheActive
<1>4. ExportsOfOneRevision'
  BY DEF ExportWrites, IInv, ExportsOfOneRevision, ExportsPrepared
<1>5. ExportsPrepared'
  BY DEF ExportWrites, IInv, ExportsPrepared
<1>6. QED
  BY <1>1, <1>2, <1>3, <1>4, <1>5 DEF IInv

LEMMA ExportEndsIInv ==
  ASSUME IInv, ExportEnds
  PROVE  IInv'
<1>1. TypeOK'
  BY DEF ExportEnds, IInv, TypeOK, session, disk, files, count
<1>2. Accounted'
  BY DEF ExportEnds, IInv, count, Accounted, Holds, Taken
<1>3. ShownIsStored' /\ CommandsOfTheActive'
  BY DEF ExportEnds, IInv, session, disk, ShownIsStored, CommandsOfTheActive
<1>4. ExportsOfOneRevision'
  BY DEF ExportEnds, IInv, ExportsOfOneRevision, ExportsPrepared
<1>5. ExportsPrepared'
  BY DEF ExportEnds, IInv, ExportsPrepared
<1>6. QED
  BY <1>1, <1>2, <1>3, <1>4, <1>5 DEF IInv

LEMMA UserEditsIInv ==
  ASSUME IInv, NEW w \in {None, "user"}, UserEdits(w)
  PROVE  IInv'
<1>1. TypeOK'
  BY DEF UserEdits, IInv, TypeOK, session, disk, count
<1>2. Accounted'
  BY DEF UserEdits, IInv, count, Accounted, Holds, Taken
<1>3. ShownIsStored' /\ CommandsOfTheActive'
  BY DEF UserEdits, IInv, session, disk, ShownIsStored, CommandsOfTheActive
<1>4. ExportsOfOneRevision'
  BY DEF UserEdits, IInv, session, disk, ExportsOfOneRevision, ExportsPrepared, Current,
     SwitchQueued
<1>5. ExportsPrepared'
  BY DEF UserEdits, IInv, session, ExportsPrepared
<1>6. QED
  BY <1>1, <1>2, <1>3, <1>4, <1>5 DEF IInv

LEMMA UnlockIInv ==
  ASSUME IInv, Unlock
  PROVE  IInv'
<1>1. TypeOK'
  BY DEF Unlock, IInv, TypeOK, files, count
<1>2. Accounted'
  BY DEF Unlock, IInv, count, Accounted, Holds, Taken
<1>3. ShownIsStored' /\ CommandsOfTheActive'
  BY DEF Unlock, IInv, ShownIsStored, CommandsOfTheActive
<1>4. ExportsOfOneRevision'
  BY DEF Unlock, IInv, ExportsOfOneRevision, ExportsPrepared
<1>5. ExportsPrepared'
  BY DEF Unlock, IInv, ExportsPrepared
<1>6. QED
  BY <1>1, <1>2, <1>3, <1>4, <1>5 DEF IInv

LEMMA LockIInv ==
  ASSUME IInv, Lock
  PROVE  IInv'
<1>1. TypeOK'
  <2>1. grants' \in [Renderers -> Seq(Keys)]
    BY DEF Lock, revokeAll
  <2>2. QED
    BY <2>1 DEF Lock, IInv, TypeOK, disk, files, count
<1>2. \A q \in Renderers : /\ grants'[q] \in Lists
                              /\ \A j : Contains(grants'[q], j) => Contains(grants[q], j)
  <2>1. <<>> \in Lists /\ \A j : ~Contains(<<>>, j)
    BY ProjectAssumption DEF Lists, IsInjective, Contains
  <2>2. QED
    BY <2>1, ListsFacts DEF Lock, IInv, revokeAll
<1>3. Accounted'
  BY <1>2, NoMoreAccounted DEF Lock, IInv, count, Taken
<1>4. ShownIsStored' /\ CommandsOfTheActive'
  BY DEF Lock, IInv, disk, ShownIsStored, CommandsOfTheActive
<1>5. ExportsOfOneRevision'
  BY DEF Lock, IInv, ExportsOfOneRevision, ExportsPrepared, Current, SwitchQueued
<1>6. ExportsPrepared'
  BY DEF Lock, IInv, files, ExportsPrepared
<1>7. QED
  BY <1>1, <1>3, <1>4, <1>5, <1>6 DEF IInv

LEMMA RotateIInv ==
  ASSUME IInv, Rotate
  PROVE  IInv'
<1>1. TypeOK'
  BY DEF Rotate, IInv, TypeOK, disk, files, count, Targets, MayStart, MayRead, revokeAll
<1>2. \A q \in Renderers : /\ grants'[q] \in Lists
                              /\ \A j : Contains(grants'[q], j) => Contains(grants[q], j)
  <2>1. <<>> \in Lists /\ \A j : ~Contains(<<>>, j)
    BY ProjectAssumption DEF Lists, IsInjective, Contains
  <2>2. QED
    BY <2>1, ListsFacts DEF Rotate, IInv, revokeAll
<1>3. Accounted'
  BY <1>2, NoMoreAccounted DEF Rotate, IInv, count, Taken
<1>4. ShownIsStored' /\ CommandsOfTheActive'
  BY DEF Rotate, IInv, disk, ShownIsStored, CommandsOfTheActive
<1>5. ExportsOfOneRevision'
  BY DEF Rotate, IInv, TypeOK, ExportsOfOneRevision, ExportsPrepared, Current, SwitchQueued
<1>6. ExportsPrepared'
  BY DEF Rotate, IInv, TypeOK, files, ExportsPrepared, Exports
<1>7. QED
  BY <1>1, <1>3, <1>4, <1>5, <1>6 DEF IInv

LEMMA SwitchVaultIInv ==
  ASSUME IInv, NEW v \in Vaults, SwitchVault(v)
  PROVE  IInv'
<1>1. TypeOK'
  BY DEF SwitchVault, IInv, TypeOK, disk, files, count
<1>2. Accounted'
  BY DEF SwitchVault, IInv, count, Accounted, Holds, Taken
<1>3. ShownIsStored' /\ CommandsOfTheActive'
  BY DEF SwitchVault, IInv, disk, ShownIsStored, CommandsOfTheActive
<1>4. ExportsOfOneRevision'
  BY DEF SwitchVault, IInv, ExportsOfOneRevision, ExportsPrepared, Current, SwitchQueued
<1>5. ExportsPrepared'
  BY DEF SwitchVault, IInv, files, ExportsPrepared
<1>6. QED
  BY <1>1, <1>2, <1>3, <1>4, <1>5 DEF IInv

LEMMA PublishSwitchIInv ==
  ASSUME IInv, PublishSwitch
  PROVE  IInv'
<1>1. TypeOK'
  BY DEF PublishSwitch, IInv, TypeOK, disk, files, count
<1>2. Accounted'
  BY DEF PublishSwitch, IInv, count, Accounted, Holds, Taken
<1>3. ShownIsStored' /\ CommandsOfTheActive'
  BY DEF PublishSwitch, IInv, disk, ShownIsStored, CommandsOfTheActive
<1>4. ExportsOfOneRevision'
  BY DEF PublishSwitch, IInv, disk, ShownIsStored, ExportsOfOneRevision, ExportsPrepared,
     Current, SwitchQueued, Approved
<1>5. ExportsPrepared'
  BY DEF PublishSwitch, IInv, files, ExportsPrepared
<1>6. QED
  BY <1>1, <1>2, <1>3, <1>4, <1>5 DEF IInv

LEMMA SwitchFailsIInv ==
  ASSUME IInv, SwitchFails
  PROVE  IInv'
<1>1. TypeOK'
  BY DEF SwitchFails, IInv, TypeOK, disk, files, count
<1>2. Accounted'
  BY DEF SwitchFails, IInv, count, Accounted, Holds, Taken
<1>3. ShownIsStored' /\ CommandsOfTheActive'
  BY DEF SwitchFails, IInv, disk, ShownIsStored, CommandsOfTheActive
<1>4. ExportsOfOneRevision'
  BY DEF SwitchFails, IInv, disk, ExportsOfOneRevision, ExportsPrepared, Current,
     SwitchQueued
<1>5. ExportsPrepared'
  BY DEF SwitchFails, IInv, files, ExportsPrepared
<1>6. QED
  BY <1>1, <1>2, <1>3, <1>4, <1>5 DEF IInv

-----------------------------------------------------------------------------
\* A grant of some keys adds at most one of each, and its selection is counted.
LEMMA GrantAccounted ==
  ASSUME TypeOK, Accounted, NEW r \in Renderers, NEW ks \in SUBSET Keys, IsFiniteSet(ks),
         Grant(r, ks), left.grants > 0, change' = change
  PROVE  /\ grants' \in [Renderers -> Seq(Keys)] /\ balance' \in [PathKeys -> Int]
         /\ left' \in [grants : Nat, exports : Nat]
         /\ Accounted'
<1>1. grants' = [grants EXCEPT ![r] = GrantedAll(grants[r], ks)] /\ grants[r] \in Lists
  BY ListsFacts DEF Grant
<1>2. /\ GrantedAll(grants[r], ks) \in Lists
      /\ \A g : Contains(GrantedAll(grants[r], ks), g) => Contains(grants[r], g) \/ g \in ks
  BY <1>1, GrantedAllFacts
<1>3. /\ \A q \in Renderers : grants'[q] \in Lists
      /\ grants' \in [Renderers -> Seq(Keys)]
      /\ \A q \in Renderers \ {r} : grants'[q] = grants[q]
      /\ \A g : Contains(grants'[r], g) => Contains(grants[r], g) \/ g \in ks
  BY <1>1, <1>2, ListsFacts DEF TypeOK, Lists
<1>4. balance' = [k \in PathKeys |-> balance[k] + (IF k \in ks THEN 1 ELSE 0)]
  BY DEF Grant
<1>5. balance' \in [PathKeys -> Int]
  BY <1>4 DEF TypeOK
<1>6. ASSUME NEW k \in PathKeys PROVE balance'[k] >= Holds(k)' + Taken(k)'
  <2>1. balance[k] >= Holds(k) + Taken(k) /\ balance[k] \in Int
    BY DEF Accounted, TypeOK
  <2>2. Taken(k)' = Taken(k)
    BY DEF Taken
  <2>3. Holds(k) \in Nat /\ Holds(k)' \in Nat
    BY HoldsFacts
  <2>4. CASE k \in ks
    <3>1. Holds(k)' <= Holds(k) + 1
      BY <1>3, HoldsFacts
    <3>2. QED
      BY <1>4, <2>1, <2>2, <2>3, <2>4, <3>1, TakenFacts
  <2>5. CASE k \notin ks
    <3>1. Holds(k)' <= Holds(k)
      BY <1>3, <2>5, HoldsFacts
    <3>2. QED
      BY <1>4, <2>1, <2>2, <2>3, <2>5, <3>1, TakenFacts
  <2>6. QED
    BY <2>4, <2>5
<1>7. Accounted'
  BY <1>3, <1>6 DEF Accounted, Lists
<1>8. left' \in [grants : Nat, exports : Nat]
  <2>1. left \in [grants : Nat, exports : Nat] /\ left' = [left EXCEPT !.grants = left.grants - 1]
    BY DEF Grant, TypeOK
  <2>2. left.grants - 1 \in Nat
    BY <2>1
  <2>3. QED
    BY <2>1, <2>2
<1>9. QED
  BY <1>3, <1>5, <1>7, <1>8

\* What a step that changes only the grants, the counts and calls beside keeps.
LEMMA RestStays ==
  ASSUME IInv, UNCHANGED <<session, disk, files, export>>,
         change' = change \/ ((change' = None \/ change'.at = "authorize") /\ change # None
           /\ change.at = "authorize" /\ (change' # None => change'.vault = change.vault))
  PROVE  ShownIsStored' /\ CommandsOfTheActive' /\ ExportsOfOneRevision' /\ ExportsPrepared'
<1> USE DEF IInv, session, disk, files
<1>1. ShownIsStored' /\ CommandsOfTheActive'
  BY DEF ShownIsStored, CommandsOfTheActive
<1>2. ExportsOfOneRevision' /\ ExportsPrepared'
  BY DEF ExportsOfOneRevision, ExportsPrepared, Current, SwitchQueued
<1>3. QED
  BY <1>1, <1>2

LEMMA GrantFolderIInv ==
  ASSUME IInv, GrantFolder
  PROVE  IInv'
<1> USE DEF IInv, GrantFolder, count
<1>1. pick.renderer \in Renderers /\ pick.key \in Keys
  BY NoneFacts DEF TypeOK, Picks
<1>2. IsFiniteSet({pick.key}) /\ {pick.key} \in SUBSET Keys
  BY <1>1, FS_Singleton
<1>3. CASE Grant(pick.renderer, {pick.key})
  <2>1. /\ grants' \in [Renderers -> Seq(Keys)] /\ balance' \in [PathKeys -> Int]
        /\ left' \in [grants : Nat, exports : Nat] /\ Accounted'
    BY <1>1, <1>2, <1>3, GrantAccounted
  <2>2. TypeOK'
    BY <2>1 DEF TypeOK, session, disk, files
  <2>3. QED
    BY <2>1, <2>2, RestStays
<1>4. CASE UNCHANGED <<grants, count>>
  <2>1. TypeOK'
    BY <1>4 DEF TypeOK, session, disk, files
  <2>2. Accounted'
    BY <1>4 DEF Accounted, Holds, Taken
  <2>3. QED
    BY <2>1, <2>2, RestStays
<1>5. QED
  BY <1>3, <1>4

LEMMA DiscoveredIInv ==
  ASSUME IInv, Discovered
  PROVE  IInv'
<1> USE DEF IInv, Discovered
<1> DEFINE ks == {PathKey(Create, f) : f \in {g \in Folders : <<g, discovery.parent>> \in Inside}}
<1>1. discovery.renderer \in Renderers
  BY DEF TypeOK, Discoveries
<1>2. IsFiniteSet(ks) /\ ks \in SUBSET Keys
  <2> DEFINE G == {g \in Folders : <<g, discovery.parent>> \in Inside}
             f == [g \in G |-> PathKey(Create, g)]
  <2>1. IsFiniteSet(G)
    <3>1. G \in SUBSET Folders /\ IsFiniteSet(Folders)
      BY ProjectAssumption
    <3>2. QED
      BY <3>1, FS_Subset
  <2>2. f \in Surjection(G, ks)
    BY DEF Surjection
  <2>3. IsFiniteSet(ks)
    BY <2>1, <2>2, FS_Surjection
  <2>4. \A g \in Folders : PathKey(Create, g) \in Keys
    BY DEF PathKey, Keys, PathKeys, Targets
  <2>5. QED
    BY <2>3, <2>4
<1>3. /\ grants' \in [Renderers -> Seq(Keys)] /\ balance' \in [PathKeys -> Int]
      /\ left' \in [grants : Nat, exports : Nat] /\ Accounted'
  BY <1>1, <1>2, GrantAccounted
<1>4. TypeOK'
  BY <1>3 DEF TypeOK, session, disk, files
<1>5. QED
  BY <1>3, <1>4, RestStays

-----------------------------------------------------------------------------
LEMMA CommandIInv ==
  ASSUME IInv, NEW r \in Renderers, NEW kind, NEW sets \in SUBSET Settings, Command(r, kind, sets)
  PROVE  IInv'
<1> USE DEF IInv
<1>1. Wanted(kind, sets) \in SUBSET PathKeys
  <2>1. ASSUME NEW t \in sets
        PROVE  PathKey(IF kind = "create" THEN Create ELSE t.project, t.folder) \in PathKeys
    <3>1. t.project \in Projects /\ t.folder \in Folders
      BY DEF Settings
    <3>2. (IF kind = "create" THEN Create ELSE t.project) \in Targets
      BY <3>1 DEF Targets
    <3>3. QED
      BY <3>1, <3>2 DEF PathKey, PathKeys
  <2>2. QED
    BY <2>1 DEF Wanted
<1>2. /\ change = None
      /\ change' = [renderer |-> r, epoch |-> epoch, vault |-> active, sets |-> sets,
                    keys |-> Wanted(kind, sets), look |-> Wanted(kind, sets), spend |-> {},
                    at |-> "authorize"]
      /\ UNCHANGED <<session, disk, files, grants, pick, discovery, strays, export, count>>
  BY Zenon DEF Command, MayRead
<1>3. /\ change' \in Changes /\ change'.vault = active /\ change'.at = "authorize"
      /\ change'.keys = change'.look
  BY <1>1, <1>2 DEF Changes, TypeOK
<1>4. TypeOK'
  BY <1>2, <1>3 DEF TypeOK, session, disk, files, count
<1>5. Accounted'
  <2>1. ASSUME NEW k PROVE Taken(k)' <= Taken(k)
    BY <1>2, <1>3 DEF Taken
  <2>2. \A q \in Renderers : grants'[q] \in Lists /\ grants' = grants
    BY <1>2, ListsFacts
  <2>3. QED
    BY <1>2, <2>1, <2>2, NoMoreAccounted DEF count
<1>6. ShownIsStored' /\ CommandsOfTheActive'
  BY <1>2, <1>3, NoneFacts DEF ShownIsStored, CommandsOfTheActive, disk, session
<1>7. ExportsOfOneRevision' /\ ExportsPrepared'
  BY <1>2 DEF ExportsOfOneRevision, ExportsPrepared, Current, SwitchQueued, disk, session,
     files
<1>8. QED
  BY <1>4, <1>5, <1>6, <1>7

\* A command is over with what it still looked for.
LEMMA FailsFacts ==
  ASSUME TypeOK, change # None, change.at # "publish", NEW k, Fails(k)
  PROVE  /\ strays' \subseteq [renderer : Renderers, key : PathKeys]
         /\ \A j : Taken(j)' <= Taken(j)
<1>1. change \in Changes
  BY DEF TypeOK
<1>2. QED
  BY <1>1 DEF Fails, TypeOK, Changes, Taken

LEMMA LookIInv ==
  ASSUME IInv, NEW k \in PathKeys, Look(k)
  PROVE  IInv'
<1> USE DEF IInv, Look
<1>1. change \in Changes /\ change # None /\ change.at = "authorize"
  BY DEF TypeOK, CommandsOfTheActive, Changes
<1>2. \A q \in Renderers : grants'[q] \in Lists /\ grants' = grants
  BY ListsFacts DEF Fails
<1>3. CASE change' = [change EXCEPT !.look = @ \ {k}, !.spend = @ \cup {k}] /\ strays' = strays
  <2>1. change' \in Changes
    BY <1>1, <1>3 DEF Changes
  <2>2. /\ change'.at = "authorize" /\ change'.keys = change.keys /\ change'.vault = change.vault
        /\ change'.look \cup change'.spend = change.look \cup change.spend
    BY <1>1, <1>3 DEF Changes
  <2>3. \A j : Taken(j)' <= Taken(j)
    BY <1>1, <2>2 DEF Taken
  <2>4. TypeOK'
    BY <1>2, <1>3, <2>1 DEF TypeOK, session, disk, files, count, Fails
  <2>5. Accounted'
    BY <1>2, <2>3, NoMoreAccounted DEF count
  <2>6. QED
    BY <1>1, <2>2, <2>4, <2>5, RestStays
<1>4. CASE Fails(k)
  <2>1. strays' \subseteq [renderer : Renderers, key : PathKeys] /\ \A j : Taken(j)' <= Taken(j)
    BY <1>1, <1>4, FailsFacts
  <2>2. change' = None /\ grants' = grants
    BY <1>4 DEF Fails
  <2>3. TypeOK'
    BY <2>1, <2>2 DEF TypeOK, session, disk, files, count
  <2>4. Accounted'
    BY <1>2, <2>1, <2>2, NoMoreAccounted DEF count
  <2>5. QED
    BY <1>1, <2>2, <2>3, <2>4, RestStays
<1>5. QED
  BY <1>3, <1>4

LEMMA ConsumeIInv ==
  ASSUME IInv, NEW k \in PathKeys, Consume(k)
  PROVE  IInv'
<1> USE DEF IInv, Consume
<1>1. /\ change \in Changes /\ change # None
      /\ change.at = "authorize" /\ change.renderer \in Renderers
  BY DEF TypeOK, CommandsOfTheActive, Changes
<1>2. CASE /\ Contains(grants[change.renderer], k) /\ Spend(change.renderer, k)
           /\ change' = [change EXCEPT !.spend = @ \ {k}] /\ strays' = strays
  <2> DEFINE r == change.renderer
  <2>1. change' \in Changes
    BY <1>1, <1>2 DEF Changes
  <2>2. /\ change'.at = "authorize" /\ change'.keys = change.keys /\ change'.vault = change.vault
        /\ change'.look = change.look /\ change'.spend = change.spend \ {k}
    BY <1>1, <1>2 DEF Changes
  <2>3. \A j : j # k => Taken(j)' <= Taken(j)
    BY <1>1, <2>2 DEF Taken
  <2>4. /\ grants' \in [Renderers -> Seq(Keys)]
        /\ \A q \in Renderers : /\ grants'[q] \in Lists
                                /\ \A g : Contains(grants'[q], g) => Contains(grants[q], g)
        /\ ~Contains(grants'[r], k)
    BY <1>1, <1>2, ListsFacts, SpentFacts DEF Spend, TypeOK, Lists
  <2>5. ASSUME NEW j \in PathKeys PROVE balance'[j] >= Holds(j)' + Taken(j)'
    <3>1. balance'[j] >= Holds(j) + Taken(j) /\ balance'[j] \in Int
      BY DEF Accounted, TypeOK, count
    <3>2. Holds(j)' <= Holds(j) /\ Holds(j) \in Nat /\ Holds(j)' \in Nat
      BY <2>4, HoldsFacts
    <3>3. CASE j # k
      BY <2>3, <3>1, <3>2, <3>3, TakenFacts
    <3>4. CASE j = k
      <4>1. Holds(j)' <= Holds(j) - 1
        BY <1>1, <1>2, <2>4, <3>4, HoldsFacts
      <4>2. QED
        BY <3>1, <3>2, <4>1, TakenFacts
    <3>5. QED
      BY <3>3, <3>4
  <2>6. Accounted'
    BY <2>4, <2>5 DEF Accounted, Lists
  <2>7. TypeOK'
    BY <1>2, <2>1, <2>4 DEF TypeOK, session, disk, files, count
  <2>8. QED
    BY <1>1, <2>2, <2>6, <2>7, RestStays
<1>3. CASE Fails(k)
  <2>1. strays' \subseteq [renderer : Renderers, key : PathKeys] /\ \A j : Taken(j)' <= Taken(j)
    BY <1>1, <1>3, FailsFacts
  <2>2. change' = None /\ grants' = grants
    BY <1>3 DEF Fails
  <2>3. TypeOK'
    BY <2>1, <2>2 DEF TypeOK, session, disk, files, count
  <2>4. \A q \in Renderers : grants'[q] \in Lists
    BY <2>2, ListsFacts
  <2>5. Accounted'
    BY <2>1, <2>2, <2>4, NoMoreAccounted DEF count
  <2>6. QED
    BY <1>1, <2>2, <2>3, <2>5, RestStays
<1>4. QED
  BY <1>2, <1>3

LEMMA StrayIInv ==
  ASSUME IInv, NEW s \in strays, Stray(s)
  PROVE  IInv'
<1> USE DEF IInv, Stray
<1>1. s.renderer \in Renderers
  BY DEF TypeOK
<1>2. /\ grants' \in [Renderers -> Seq(Keys)]
      /\ \A q \in Renderers : /\ grants'[q] \in Lists
                              /\ \A g : Contains(grants'[q], g) => Contains(grants[q], g)
  <2>1. CASE Spend(s.renderer, s.key)
    BY <1>1, <2>1, ListsFacts, SpentFacts DEF Spend, TypeOK, Lists
  <2>2. CASE UNCHANGED grants
    BY <2>2, ListsFacts DEF TypeOK
  <2>3. QED
    BY <2>1, <2>2
<1>3. TypeOK'
  BY <1>2 DEF TypeOK, session, disk, files, count
<1>4. Accounted'
  BY <1>2, NoMoreAccounted DEF Taken, count
<1>5. QED
  BY <1>3, <1>4, RestStays

\* A commit spends what it has taken.
LEMMA CommitIInv ==
  ASSUME IInv, Commit
  PROVE  IInv'
<1> USE DEF IInv, Commit
<1>1. /\ change \in Changes /\ change # None /\ change.at = "commit" /\ change.vault = active
      /\ change.look = {} /\ change.spend = {}
  BY DEF TypeOK, CommandsOfTheActive
<1>2. change' \in Changes
  BY <1>1 DEF Changes
<1>3. /\ change'.at = "publish" /\ change'.vault = active
      /\ change'.look = {} /\ change'.spend = {}
  BY <1>1 DEF Changes
<1>4. path' \in [Projects -> Folders \cup {None, NoProject}]
  <2>1. \A s \in change.sets : s.folder \in Folders
    BY <1>1 DEF Changes, Settings
  <2>2. QED
    BY <2>1 DEF TypeOK
<1>5. revision' \in [Vaults -> Nat] /\ revision'[active] = revision[active] + 1
  BY <1>1 DEF TypeOK
<1>6. balance' \in [PathKeys -> Int]
  BY DEF TypeOK
<1>7. TypeOK'
  BY <1>2, <1>4, <1>5, <1>6 DEF TypeOK, session, files
<1>8. ASSUME NEW k \in PathKeys PROVE balance'[k] >= Holds(k)' + Taken(k)'
  <2>1. balance[k] >= Holds(k) + Taken(k) /\ balance[k] \in Int
    BY DEF Accounted, TypeOK
  <2>2. Taken(k) = (IF k \in change.keys THEN 1 ELSE 0) /\ Taken(k)' = 0
    BY <1>1, <1>3 DEF Taken
  <2>3. Holds(k)' = Holds(k) /\ Holds(k) \in Nat
    BY HoldsFacts DEF Holds
  <2>4. QED
    BY <2>1, <2>2, <2>3
<1>9. Accounted'
  BY <1>8 DEF Accounted
<1>10. ShownIsStored' /\ CommandsOfTheActive'
  BY <1>2, <1>3, NoneFacts DEF ShownIsStored, CommandsOfTheActive, session
<1>11. ExportsOfOneRevision' /\ ExportsPrepared'
  BY <1>5 DEF ExportsOfOneRevision, ExportsPrepared, Exports, Current, SwitchQueued,
     session, files, TypeOK
<1>12. QED
  BY <1>7, <1>9, <1>10, <1>11

-----------------------------------------------------------------------------
LEMMA InitIInv == Init => IInv
<1> SUFFICES ASSUME Init PROVE IInv
  OBVIOUS
<1>1. /\ path \in [Projects -> Folders \cup {None, NoProject}]
      /\ left \in [grants : Nat, exports : Nat]
  BY ProjectAssumption DEF Init
<1>2. grants \in [Renderers -> Seq(Keys)] /\ \A r \in Renderers : grants[r] = <<>>
  BY DEF Init
<1>3. TypeOK
  <2>1. active \in Vaults
    BY ProjectAssumption DEF Init
  <2>2. /\ dotenv \in [Folders -> {None, "user", "vaultage"}] /\ ignored \in [Folders -> BOOLEAN]
        /\ balance \in [PathKeys -> Int] /\ revision \in [Vaults -> Nat]
    BY DEF Init
  <2>3. QED
    BY <1>1, <1>2, <2>1, <2>2 DEF Init, TypeOK
<1>4. Accounted
  <2>1. Limit \in Nat
    BY ProjectAssumption
  <2>2. \A r \in Renderers : IsInjective(grants[r]) /\ Len(grants[r]) <= Limit
    BY <1>2, <2>1 DEF IsInjective
  <2>3. ASSUME NEW k \in PathKeys PROVE balance[k] >= Holds(k) + Taken(k)
    <3>1. {r \in Renderers : Contains(grants[r], k)} = {}
      BY <1>2 DEF Contains
    <3>2. Holds(k) = 0
      BY <3>1, FS_EmptySet DEF Holds
    <3>3. Taken(k) = 0 /\ balance[k] = 0
      BY DEF Init, Taken
    <3>4. QED
      BY <3>2, <3>3
  <2>4. QED
    BY <2>2, <2>3 DEF Accounted
<1>5. ShownIsStored /\ CommandsOfTheActive /\ ExportsOfOneRevision /\ ExportsPrepared
  BY DEF Init, ShownIsStored, CommandsOfTheActive, ExportsOfOneRevision, ExportsPrepared
<1>6. QED
  BY <1>3, <1>4, <1>5 DEF IInv

LEMMA SettingsFacts ==
  /\ \A ss \in Creations : ss \in SUBSET Settings
  /\ \A ss \in Updates : ss \in SUBSET Settings
<1>1. \A p \in Projects, f \in Folders : Sets(p, f) \in Settings
  BY DEF Sets, Settings
<1>2. QED
  BY <1>1 DEF Creations, Updates, Mine

LEMMA NextIInv == IInv /\ [Next]_vars => IInv'
<1> SUFFICES ASSUME IInv, [Next]_vars PROVE IInv'
  OBVIOUS
<1>1. ASSUME NEW r \in Renderers, revokeRenderer(r) PROVE IInv'
  BY <1>1, revokeRendererIInv
<1>2. ASSUME NEW r \in Renderers, NEW k \in Keys, Expire(r, k) PROVE IInv'
  BY <1>2, ExpireIInv
<1>3. ASSUME NEW r \in Renderers, NEW k \in Keys, PickFolder(r, k) PROVE IInv'
  BY <1>3, PickFolderIInv
<1>4. ASSUME NEW r \in Renderers, NEW f \in Folders, Discover(r, f) PROVE IInv'
  BY <1>4, DiscoverIInv
<1>5. ASSUME NEW r \in Renderers, NEW ss \in Creations, Command(r, "create", ss) PROVE IInv'
  BY <1>5, CommandIInv, SettingsFacts
<1>6. ASSUME NEW r \in Renderers, NEW ss \in Updates, Command(r, "update", ss) PROVE IInv'
  BY <1>6, CommandIInv, SettingsFacts
<1>7. CASE Picked \/ GrantFolder
  BY <1>7, PickedIInv, GrantFolderIInv
<1>8. CASE Discovered \/ DiscoverFails
  BY <1>8, DiscoveredIInv, DiscoverFailsIInv
<1>9. ASSUME NEW k \in PathKeys, Look(k) \/ Consume(k) PROVE IInv'
  BY <1>9, LookIInv, ConsumeIInv
<1>10. ASSUME NEW s \in strays, Stray(s) PROVE IInv'
  BY <1>10, StrayIInv
<1>11. CASE Authorized \/ Commit \/ Publish \/ CommandFails
  BY <1>11, AuthorizedIInv, CommitIInv, PublishIInv, CommandFailsIInv
<1>12. ASSUME NEW p \in Projects, NEW o \in BOOLEAN, NEW i \in BOOLEAN, ExportEnv(p, o, i)
       PROVE  IInv'
  BY <1>12, ExportEnvIInv
<1>13. CASE ExportConfirmed \/ ExportLooks \/ ExportIgnores \/ ExportWrites \/ ExportEnds
  BY <1>13, ExportConfirmedIInv, ExportLooksIInv, ExportIgnoresIInv, ExportWritesIInv,
     ExportEndsIInv
<1>14. ASSUME NEW who \in {None, "user"}, UserEdits(who) PROVE IInv'
  BY <1>14, UserEditsIInv
<1>15. CASE Unlock \/ Lock \/ Rotate \/ SwitchFails \/ PublishSwitch
  BY <1>15, UnlockIInv, LockIInv, RotateIInv, SwitchFailsIInv, PublishSwitchIInv
<1>16. ASSUME NEW v \in Vaults, SwitchVault(v) PROVE IInv'
  BY <1>16, SwitchVaultIInv
<1>17. CASE UNCHANGED vars
  <2>1. UNCHANGED <<session, disk, files, grants, pick, discovery, change, strays, export, count>>
    BY <1>17 DEF vars
  <2>2. TypeOK' /\ Accounted'
    BY <2>1 DEF IInv, TypeOK, Accounted, Holds, Taken, session, disk, files, count
  <2>3. QED
    BY <2>1, <2>2, RestStays DEF IInv
<1>18. QED
  BY <1>1, <1>2, <1>3, <1>4, <1>5, <1>6, <1>7, <1>8, <1>9, <1>10, <1>11, <1>12, <1>13,
     <1>14, <1>15, <1>16, <1>17 DEF Next

\* Only the last step of an export writes a secret to a file.
LEMMA WritesAsApproved ==
  ASSUME IInv, Next
  PROVE  ExportsWhereAcknowledged /\ ReplacesOnlyApproved
<1> SUFFICES ASSUME NEW f \in Folders, Writes(f)
             PROVE  /\ Current(export.epoch) /\ shown[export.project] = f /\ export.folder = f
                    /\ dotenv[f] = "user" => export.overwrite
                    /\ export.ignore => ignored[f]
  BY DEF ExportsWhereAcknowledged, ReplacesOnlyApproved
<1>1. dotenv' # dotenv /\ dotenv'[f] # dotenv[f] /\ dotenv'[f] = "vaultage"
  BY DEF Writes
<1>2. ~\E who \in {None, "user"} : UserEdits(who)
  BY <1>1, NoneFacts DEF UserEdits, IInv, TypeOK
<1>3. ExportWrites
  BY <1>1, <1>2, Zenon DEF Next, revokeRenderer, Expire, PickFolder, Discover, Command,
     Picked, GrantFolder, Discovered, DiscoverFails, Look, Consume, Stray, Authorized,
     Commit, Publish, CommandFails, ExportEnv, ExportConfirmed, ExportLooks,
     ExportIgnores, ExportEnds, Unlock, Lock, Rotate, SwitchFails, PublishSwitch,
     SwitchVault, files
<1>4. export \in Exports /\ export # None /\ export.at = "write" /\ Approved /\ Linkable
  BY <1>3 DEF ExportWrites, IInv, TypeOK
<1>5. export.folder = f
  BY <1>1, <1>3, <1>4 DEF ExportWrites, IInv, TypeOK
<1>6. Current(export.epoch) /\ shown[export.project] = f
  BY <1>4, <1>5 DEF Approved, IInv, ExportsOfOneRevision
<1>7. dotenv[f] = "user" => export.overwrite
  BY <1>4, <1>5, NoneFacts DEF Linkable, IInv, ExportsPrepared
<1>8. export.ignore => ignored[f]
  BY <1>4, <1>5 DEF IInv, ExportsPrepared
<1>9. QED
  BY <1>5, <1>6, <1>7, <1>8

-----------------------------------------------------------------------------
\* The steps of the composed behaviours that are not of ProjectAccess leave it alone.
LEMMA DialogsIInv == AccessInv /\ [DialogsNext]_allVars => AccessInv'
<1> SUFFICES ASSUME AccessInv, [DialogsNext]_allVars, part' = "access" PROVE IInv'
  BY DEF AccessInv
<1>1. part = "access" /\ IInv
  BY DEF DialogsNext, allVars, AccessInv
<1>2. [Next]_vars
  BY <1>1, Zenon DEF DialogsNext, allVars
<1>3. QED
  BY <1>1, <1>2, NextIInv

\* Whatever expires, is evicted or revoked, and whatever a command that failed still looks
\* up, a selection of a folder brings it into the document once (projectCapabilities.ts:66,
\* projectMutationAuthorization.ts:23-28): for any windows, folders, projects and limit.
THEOREM AccessSafe == DialogsSpec => []AccessInv
<1>1. DialogsInit => AccessInv
  BY InitIInv, Zenon DEF DialogsInit, AccessInv
<1>2. QED
  BY <1>1, DialogsIInv, PTL DEF DialogsSpec

\* An export of secrets (projectIpc.ts:249-261, envFile.ts:65) writes only in the session
\* that confirmed it and into the folder last shown for the project, and replaces a file of
\* the user's only when that was approved, with the git rule in place before.
THEOREM ExportsAreApproved == DialogsSpec => ExportsAsApproved
<1>1. AccessInv /\ [DialogsNext]_allVars =>
        [part = "access" => ExportsWhereAcknowledged /\ ReplacesOnlyApproved]_allVars
  <2> SUFFICES ASSUME AccessInv, DialogsNext, part = "access"
               PROVE  ExportsWhereAcknowledged /\ ReplacesOnlyApproved
    OBVIOUS
  <2>1. Next /\ IInv
    BY Zenon DEF DialogsNext, AccessInv
  <2>2. QED
    BY <2>1, WritesAsApproved
<1>2. QED
  BY <1>1, AccessSafe, PTL DEF DialogsSpec, ExportsAsApproved

-----------------------------------------------------------------------------
(* The import dialog. *)

\* What the assumptions on the constants say, one by one.
LEMMA ImportFacts ==
  /\ MaxGiven \in Nat /\ MaxParses \in Nat /\ MaxDialogs \in Nat
  /\ None \notin 1..MaxParses /\ None \notin Import!Dialogs /\ None \notin Import!Importings
  /\ None \notin ImportSources /\ None \notin Import!Contents
  /\ None # "images" /\ None # "csv" /\ None # "vaultageJson"
  /\ {"plain", "sealed", "csv", "images"} \subseteq Import!Contents
  /\ ImportKinds \subseteq Import!Contents
  BY ImportAssumption DEF Import!Contents

\* The invariant's conjuncts about calls and plaintext, one by one.
Numbered == \A c \in sealed : c.id # token /\ \A d \in sealed : c.id = d.id => c = d
Heard ==
  \A c \in sealed : c.live =>
    /\ dialog # None /\ dialog.step = "input" /\ dialog.source = "vaultageJson"
    /\ dialog.text.kind = "sealed" /\ dialog.text.of = c.of /\ ~dialog.password
    /\ \A d \in sealed : d.live => c = d
Owned ==
  /\ \A s, t \in retained : s = t
  /\ \A t \in retained : \/ locked \/ t = token \/ t \in cancels
                         \/ \E c \in sealed : c.id = t /\ c.state = "previewed"
Used ==
  (/\ dialog # None /\ dialog.importing # None
   /\ dialog.importing.kind = "sealed" /\ dialog.importing.state # "sent")
  => locked \/ token \notin retained

\* They are those conjuncts.
LEMMA ImportParts ==
  /\ Import!CallsAreOfTheText <=> Numbered /\ Heard
  /\ Import!PlaintextIsAccounted <=> Owned /\ Used
  /\ Import!CallsAreOfTheText' <=> Numbered' /\ Heard'
  /\ Import!PlaintextIsAccounted' <=> Owned' /\ Used'
<1>1. Import!CallsAreOfTheText <=> Numbered /\ Heard
  BY DEF Import!CallsAreOfTheText, Numbered, Heard
<1>2. Import!PlaintextIsAccounted <=> Owned /\ Used
  BY DEF Import!PlaintextIsAccounted, Owned, Used
<1>3. Import!CallsAreOfTheText' <=> Numbered' /\ Heard'
  BY DEF Import!CallsAreOfTheText, Numbered, Heard
<1>4. Import!PlaintextIsAccounted' <=> Owned' /\ Used'
  BY DEF Import!PlaintextIsAccounted, Owned, Used
<1>5. QED
  BY <1>1, <1>2, <1>3, <1>4

\* The instance counts as everyone does.
LEMMA ImportCounts == \A S : Import!Cardinality(S) = Cardinality(S)
  BY DEF Import!Cardinality, Cardinality

\* The plaintext that is kept once the calls are answered is the preview's.
LEMMA ImportHasAnOwner ==
  ASSUME Import!TypeOK, Import!TokenOfThePreview, Owned PROVE Import!PlaintextHasAnOwner
<1> SUFFICES ASSUME sealed = {}, cancels = {}, ~locked
             PROVE  /\ Cardinality(retained) <= 1
                    /\ retained \subseteq (IF dialog = None THEN {} ELSE {token})
  BY ImportCounts DEF Import!PlaintextHasAnOwner
<1>1. retained \subseteq {token}
  BY DEF Owned
<1>2. dialog = None => retained = {}
  BY <1>1, ImportFacts DEF Import!TokenOfThePreview, Import!TypeOK
<1>3. IsFiniteSet({token}) /\ Cardinality({token}) = 1
  BY FS_Singleton
<1>4. Cardinality(retained) <= 1
  BY <1>1, <1>3, FS_Subset
<1>5. QED
  BY <1>1, <1>2, <1>4

\* What the gate does to a call takes its right to answer and no more.
LEMMA ImportOvertakenCalls ==
  ASSUME Import!TypeOK
  PROVE  /\ Import!Overtaken(sealed) \in SUBSET Import!Calls
         /\ \A c \in Import!Overtaken(sealed) :
              ~c.live /\ \E d \in sealed : c = [d EXCEPT !.live = FALSE] /\ c.id = d.id
         /\ \A d \in sealed : \E c \in Import!Overtaken(sealed) : c.id = d.id /\ c.state = d.state
<1>1. \A d \in sealed : LET c == [d EXCEPT !.live = FALSE] IN
        c \in Import!Calls /\ ~c.live /\ c.id = d.id /\ c.state = d.state
  BY DEF Import!TypeOK, Import!Calls
<1>2. QED
  BY <1>1 DEF Import!Overtaken

\* And so with a reading.
LEMMA ImportOvertakenReads ==
  ASSUME NEW S \in SUBSET Import!Reads
  PROVE  /\ Import!Overtaken(S) \in SUBSET Import!Reads
         /\ \A r \in Import!Overtaken(S) : ~r.live
<1>1. \A r \in S : [r EXCEPT !.live = FALSE] \in Import!Reads /\ ~[r EXCEPT !.live = FALSE].live
  BY DEF Import!Reads
<1>2. QED
  BY <1>1 DEF Import!Overtaken

\* A step that leaves the main process alone, and drops the token only for a request to
\* forget its plaintext.
Keeps ==
  /\ sealed' = sealed \/ sealed' = Import!Overtaken(sealed)
  /\ retained' = retained /\ locked' = locked
  /\ Import!Discard \/ UNCHANGED <<token, cancels>>

\* Such a step keeps every call and every plaintext accounted for.
LEMMA ImportKeeps ==
  ASSUME Import!TypeOK, Numbered, Owned, Keeps, parses' \in {parses, parses + 1}
  PROVE  /\ Numbered' /\ Owned'
         /\ sealed' \in SUBSET Import!Calls /\ \A c \in sealed' : c.id <= parses'
         /\ token' \in 1..parses' \cup {None} /\ cancels' \subseteq 1..MaxParses
         /\ cancels \subseteq cancels'
<1>1. /\ token' \in {token, None} /\ cancels \subseteq cancels' /\ cancels' \subseteq 1..MaxParses
      /\ token # None => token' = token \/ token \in cancels'
  <2>1. token \in 1..MaxParses \cup {None} /\ cancels \subseteq 1..MaxParses
    BY ImportFacts DEF Import!TypeOK
  <2>2. CASE Import!Discard
    <3>1. token' = None /\ cancels' = cancels \cup ({token} \ {None})
      BY <2>2 DEF Import!Discard
    <3>2. QED
      BY <2>1, <3>1
  <2>3. CASE UNCHANGED <<token, cancels>>
    BY <2>1, <2>3
  <2>4. QED
    BY <2>2, <2>3 DEF Keeps
<1>2. /\ sealed' \in SUBSET Import!Calls
      /\ \A c \in sealed' : \E d \in sealed : c.id = d.id
      /\ \A d \in sealed : \E c \in sealed' : c.id = d.id /\ c.state = d.state
  BY ImportOvertakenCalls DEF Keeps, Import!TypeOK
<1>3. \A c, d \in sealed' : c.id = d.id => c = d
  <2>1. CASE sealed' = sealed
    BY <2>1 DEF Numbered
  <2>2. CASE sealed' = Import!Overtaken(sealed)
    <3>1. ASSUME NEW c \in sealed', NEW d \in sealed', c.id = d.id PROVE c = d
      <4>1. PICK e \in sealed : c = [e EXCEPT !.live = FALSE] /\ c.id = e.id
        BY <2>2, <3>1, ImportOvertakenCalls
      <4>2. PICK f \in sealed : d = [f EXCEPT !.live = FALSE] /\ d.id = f.id
        BY <2>2, <3>1, ImportOvertakenCalls
      <4>3. e = f
        BY <3>1, <4>1, <4>2 DEF Numbered
      <4>4. QED
        BY <4>1, <4>2, <4>3
    <3>2. QED
      BY <3>1
  <2>3. QED
    BY <2>1, <2>2 DEF Keeps
<1>4. \A c \in sealed' : c.id <= parses' /\ c.id \in 1..MaxParses /\ c.id # token
  BY <1>2, ImportFacts DEF Import!TypeOK, Import!Calls, Numbered
<1>5. Numbered'
  BY <1>1, <1>3, <1>4, ImportFacts DEF Numbered
<1>6. Owned'
  <2>1. retained' = retained /\ locked' = locked /\ None \notin retained
    BY ImportFacts DEF Keeps, Import!TypeOK
  <2>2. QED
    <3>1. \A s, t \in retained' : s = t
      BY <2>1 DEF Owned
    <3>2. ASSUME NEW t \in retained
          PROVE  \/ locked' \/ t = token' \/ t \in cancels'
                 \/ \E c \in sealed' : c.id = t /\ c.state = "previewed"
      <4>1. CASE locked \/ t \in cancels
        BY <1>1, <2>1, <4>1
      <4>2. CASE t = token
        BY <1>1, <2>1, <4>2
      <4>3. CASE \E c \in sealed : c.id = t /\ c.state = "previewed"
        BY <1>2, <4>3
      <4>4. QED
        BY <4>1, <4>2, <4>3 DEF Owned
    <3>3. QED
      BY <2>1, <3>1, <3>2 DEF Owned
<1>7. token' \in 1..parses' \cup {None}
  BY <1>1, ImportFacts DEF Import!TypeOK
<1>8. QED
  BY <1>1, <1>2, <1>4, <1>5, <1>6, <1>7 DEF Import!TypeOK

\* An answer is of one call, and that call is no more.
LEMMA ImportBecomes ==
  ASSUME Import!TypeOK, Numbered, NEW c \in sealed, NEW state \in {"running", "previewed",
         "failed"},
         Import!Becomes(c, state)
  PROVE  /\ sealed' \in SUBSET Import!Calls
         /\ \A d \in sealed' : \E e \in sealed :
              d.id = e.id /\ d.live = e.live /\ d.of = e.of /\ (e # c => d = e)
         /\ \A d, e \in sealed' : d.id = e.id => d = e
         /\ \A e \in sealed : e # c => e \in sealed'
         /\ \E d \in sealed' : d.id = c.id /\ d.state = state
<1> DEFINE b == [c EXCEPT !.state = state]
<1>1. /\ b \in Import!Calls /\ b.id = c.id /\ b.live = c.live /\ b.of = c.of /\ b.state = state
      /\ sealed' = (sealed \ {c}) \cup {b} /\ sealed \in SUBSET Import!Calls
  BY DEF Import!Becomes, Import!TypeOK, Import!Calls
<1> HIDE DEF b
<1>2. \A d, e \in sealed' : d.id = e.id => d = e
  BY <1>1 DEF Numbered
<1>3. QED
  BY <1>1, <1>2

\* The dialog is closed at first.
LEMMA ImportInitIInv == Import!Init => Import!IInv
<1> SUFFICES ASSUME Import!Init PROVE Import!IInv
  OBVIOUS
<1>1. Import!TypeOK
  <2>1. /\ 0 \in 0..MaxGiven /\ 0 \in 0..MaxParses /\ 0 \in 0..MaxDialogs
    BY ImportFacts
  <2>2. QED
    BY <2>1 DEF Import!Init, Import!TypeOK
<1>2. Numbered /\ Heard /\ Owned /\ Used /\ Import!TokenOfThePreview
  BY DEF Import!Init, Numbered, Heard, Owned, Used, Import!TokenOfThePreview
<1>3. Import!GivenIsLast /\ Import!ReadsAreOfTheLast /\ Import!PreviewIsOfTheLast
  BY DEF Import!Init, Import!GivenIsLast, Import!ReadsAreOfTheLast,
     Import!PreviewIsOfTheLast
<1>4. QED
  BY <1>1, <1>2, <1>3, ImportParts, ImportHasAnOwner DEF Import!IInv

\* The invariant without what follows from the rest.
ImportCore == /\ Import!TypeOK /\ Numbered /\ Heard /\ Owned /\ Used /\ Import!TokenOfThePreview
        /\ Import!GivenIsLast /\ Import!ReadsAreOfTheLast /\ Import!PreviewIsOfTheLast

\* That is the whole invariant, for its last conjunct follows from the others.
LEMMA ImportRest == Import!IInv <=> ImportCore
  BY ImportParts, ImportHasAnOwner DEF Import!IInv, ImportCore

\* And so after a step.
LEMMA ImportRestStays == ImportCore' => Import!IInv'
<1>1. ImportCore => Import!IInv
  BY ImportRest
<1>2. QED
  BY <1>1, PTL

\* A step of a dialog that is shown goes on with d, and has calls or readings overtaken.
LEMMA ImportShows ==
  ASSUME ImportCore, NEW d, Import!Shows(d), d \in Import!Dialogs, Keeps, d.importing = None,
         d.step # "preview" => token' = None,
         \/ sealed' = Import!Overtaken(sealed)
         \/ /\ d.step = dialog.step /\ d.source = dialog.source /\ d.text = dialog.text
            /\ d.password = dialog.password
  PROVE  /\ dialog' = d /\ dialog' # None
         /\ Heard' /\ Used' /\ Import!TokenOfThePreview'
<1>1. dialog' = d /\ d # None /\ dialog # None /\ dialog.importing = None
  BY ImportFacts DEF Import!Shows
<1>2. Heard'
  BY <1>1, ImportOvertakenCalls DEF ImportCore, Heard, Keeps
<1>3. Used' /\ Import!TokenOfThePreview'
  BY <1>1, ImportFacts DEF Used, Import!TokenOfThePreview, ImportCore
<1>4. QED
  BY <1>1, <1>2, <1>3

\* What a dialog may become keeps its type.
LEMMA ImportTexts ==
  /\ Import!Nothing \in [of : 0..MaxGiven, kind : ImportKinds \cup {None}]
  /\ Import!Nothing \in [of : 0..MaxGiven, kind : Import!Contents \cup {None}]
  /\ Import!Fresh \in Import!Dialogs
  BY ImportFacts DEF Import!Nothing, Import!Fresh, Import!Dialogs

\* One lemma for each operation: it keeps the invariant.  First those of the input.
LEMMA ImportChooseSource ==
  ASSUME ImportCore, dialog # None, NEW s \in ImportSources, Import!chooseSource(s)
  PROVE  ImportCore'
<1> DEFINE d == [Import!Fresh EXCEPT !.step = "input", !.source = s,
                                     !.destination = dialog.destination]
<1>1. /\ Import!Shows(d) /\ Keeps /\ token' = None /\ sealed' = Import!Overtaken(sealed)
      /\ files_' = Import!Overtaken(files_)
      /\ UNCHANGED <<received, retained, locked, given, parses, dialogs>>
  BY DEF Import!chooseSource, Keeps, Import!main, Import!InvalidateAll, Import!Discard
<1>2. dialog \in Import!Dialogs
  BY DEF ImportCore, Import!TypeOK
<1>3. /\ d \in Import!Dialogs /\ d.importing = None /\ d.step = "input" /\ d.source = s
      /\ d.text = Import!Nothing /\ d.parsed = Import!Nothing
  BY <1>2, ImportTexts DEF Import!Dialogs, Import!Fresh
<1> HIDE DEF d
<1>4. dialog' = d /\ dialog' # None /\ Heard' /\ Used' /\ Import!TokenOfThePreview'
  BY <1>1, <1>3, ImportShows, ImportFacts, ImportOvertakenCalls
<1>5. files_' \in SUBSET Import!Reads /\ \A r \in files_' : ~r.live
  BY <1>1, ImportOvertakenReads DEF ImportCore, Import!TypeOK
<1>6. Import!GivenIsLast' /\ Import!ReadsAreOfTheLast' /\ Import!PreviewIsOfTheLast'
  BY <1>1, <1>3, <1>5
  DEF Import!Shows, Import!GivenIsLast, Import!ReadsAreOfTheLast, Import!PreviewIsOfTheLast
<1>7. QED
  BY <1>1, <1>3, <1>4, <1>5, <1>6, ImportKeeps, ImportFacts DEF ImportCore, Import!TypeOK

\* The input step holds no token, and nothing to be imported.
LEMMA ImportNoToken ==
  ASSUME ImportCore, dialog # None, dialog.step # "preview"
  PROVE  token = None /\ dialog.importing = None /\ dialog \in Import!Dialogs
  BY DEF ImportCore, Import!TokenOfThePreview, Import!TypeOK

\* Another text is the only other thing of the dialog.
LEMMA ImportReplaces ==
  ASSUME NEW d \in Import!Dialogs, NEW t \in [of : 0..MaxGiven, kind : ImportKinds \cup {None}]
  PROVE  /\ Import!Replaced(d, t) \in Import!Dialogs
         /\ Import!Replaced(d, t).text = t
         /\ Import!Replaced(d, t).step = d.step /\ Import!Replaced(d, t).source = d.source
         /\ Import!Replaced(d, t).parsed = d.parsed
         /\ Import!Replaced(d, t).importing = d.importing
<1>1. 0 \in 0..MaxGiven
  BY ImportFacts
<1>2. QED
  BY <1>1 DEF Import!Replaced, Import!Dialogs

LEMMA ImportReplaceText ==
  ASSUME ImportCore, dialog # None, NEW k \in ImportKinds, Import!replaceImportText(k)
  PROVE  ImportCore'
<1> DEFINE t == [of |-> given', kind |-> k]
           d == Import!Replaced(dialog, t)
<1>1. /\ Import!Shows(d) /\ Keeps /\ token' = None /\ sealed' = Import!Overtaken(sealed)
      /\ files_' = Import!Overtaken(files_) /\ given < MaxGiven /\ given' = given + 1
      /\ dialog.step = "input" /\ dialog.source # "images"
      /\ UNCHANGED <<received, retained, locked, parses, dialogs>>
  BY DEF Import!replaceImportText, Keeps, Import!main, Import!InvalidateAll, Import!Discard
<1>2. dialog \in Import!Dialogs /\ given \in Nat /\ given' \in 0..MaxGiven /\ given' > 0
  BY <1>1, ImportFacts DEF ImportCore, Import!TypeOK
<1>3. /\ d \in Import!Dialogs /\ d.importing = None /\ d.step = "input"
      /\ d.source = dialog.source /\ d.text = t /\ t.of = given'
  BY <1>1, <1>2, ImportReplaces, ImportNoToken
<1> HIDE DEF d, t
<1>4. dialog' = d /\ dialog' # None /\ Heard' /\ Used' /\ Import!TokenOfThePreview'
  BY <1>1, <1>3, ImportShows
<1>5. files_' \in SUBSET Import!Reads /\ \A r \in files_' : ~r.live
  BY <1>1, ImportOvertakenReads DEF ImportCore, Import!TypeOK
<1>6. Import!GivenIsLast' /\ Import!ReadsAreOfTheLast' /\ Import!PreviewIsOfTheLast'
  BY <1>1, <1>2, <1>3, <1>5
  DEF Import!Shows, Import!GivenIsLast, Import!ReadsAreOfTheLast, Import!PreviewIsOfTheLast
<1>7. QED
  BY <1>1, <1>2, <1>3, <1>4, <1>5, <1>6, ImportKeeps, ImportNoToken DEF ImportCore,
     Import!TypeOK

LEMMA ImportHandleFile ==
  ASSUME ImportCore, dialog # None, Import!handleFile PROVE ImportCore'
<1> DEFINE d == Import!Replaced(dialog, Import!Nothing)
           r == [live |-> TRUE, of |-> given', source |-> dialog.source]
<1>1. /\ Import!Shows(d) /\ Keeps /\ token' = None /\ sealed' = Import!Overtaken(sealed)
      /\ files_' \in {Import!Overtaken(files_), Import!Overtaken(files_) \cup {r}}
      /\ given < MaxGiven /\ given' = given + 1
      /\ dialog.step = "input" /\ dialog.source # "images"
      /\ UNCHANGED <<received, retained, locked, parses, dialogs>>
  BY DEF Import!handleFile, Keeps, Import!main, Import!Discard
<1>2. /\ dialog \in Import!Dialogs /\ given \in Nat /\ given' \in 0..MaxGiven /\ given' > 0
      /\ given' \in 1..MaxGiven
  BY <1>1, ImportFacts DEF ImportCore, Import!TypeOK
<1>3. /\ d \in Import!Dialogs /\ d.importing = None /\ d.step = "input"
      /\ d.source = dialog.source /\ d.text = Import!Nothing
  BY <1>1, <1>2, ImportReplaces, ImportNoToken, ImportTexts
<1>4. dialog.source # None
  BY <1>1 DEF ImportCore, Import!TypeOK
<1> HIDE DEF d
<1>5. dialog' = d /\ dialog' # None /\ Heard' /\ Used' /\ Import!TokenOfThePreview'
  BY <1>1, <1>3, ImportShows
<1>6. files_' \in SUBSET Import!Reads /\ \A q \in files_' : q.live => q = r
  <2>1. r \in Import!Reads
    BY <1>2, <1>4 DEF Import!Reads, Import!Dialogs
  <2>2. QED
    BY <1>1, <2>1, ImportOvertakenReads DEF ImportCore, Import!TypeOK
<1>7. dialog' = d /\ r.of = given' /\ r.source = dialog.source
  BY <1>1 DEF Import!Shows
<1> HIDE DEF r
<1>8. Import!GivenIsLast' /\ Import!PreviewIsOfTheLast'
  BY <1>1, <1>3, <1>7 DEF Import!GivenIsLast, Import!PreviewIsOfTheLast
<1>9. Import!ReadsAreOfTheLast'
  BY <1>1, <1>3, <1>5, <1>6, <1>7 DEF Import!ReadsAreOfTheLast
<1>10. QED
  BY <1>1, <1>2, <1>3, <1>4, <1>5, <1>6, <1>7, <1>8, <1>9, ImportKeeps DEF ImportCore,
     Import!TypeOK

LEMMA ImportHandleImageFiles ==
  ASSUME ImportCore, dialog # None, Import!handleImageFiles PROVE ImportCore'
<1> DEFINE d == [dialog EXCEPT !.parsed = Import!Nothing, !.included = FALSE]
           r == [live |-> TRUE, of |-> given', source |-> "images"]
<1>1. /\ Import!Shows(d) /\ Keeps /\ token' = token /\ sealed' = sealed
      /\ files_' \in {Import!Overtaken(files_), Import!Overtaken(files_) \cup {r}}
      /\ given < MaxGiven /\ given' = given + 1
      /\ dialog.step = "input" /\ dialog.source = "images"
      /\ UNCHANGED <<received, retained, locked, parses, dialogs>>
  BY DEF Import!handleImageFiles, Keeps, Import!main
<1>2. /\ dialog \in Import!Dialogs /\ given' \in 1..MaxGiven /\ token = None
      /\ dialog.importing = None
  BY <1>1, ImportFacts, ImportNoToken DEF ImportCore, Import!TypeOK
<1>3. /\ d \in Import!Dialogs /\ d.importing = None /\ d.step = "input"
      /\ d.source = "images" /\ d.text = dialog.text /\ d.parsed = Import!Nothing
      /\ d.password = dialog.password
  BY <1>1, <1>2, ImportTexts, ZenonT(60) DEF Import!Dialogs
<1> HIDE DEF d
<1>4. dialog' = d /\ dialog' # None /\ Heard' /\ Used' /\ Import!TokenOfThePreview'
  BY <1>1, <1>2, <1>3, ImportShows
<1>5. files_' \in SUBSET Import!Reads /\ \A q \in files_' : q.live => q = r
  <2>1. "images" \in ImportSources
    BY <1>1, <1>2, ImportFacts DEF Import!Dialogs
  <2>2. r \in Import!Reads
    BY <1>2, <2>1 DEF Import!Reads
  <2>3. QED
    BY <1>1, <2>2, ImportOvertakenReads DEF ImportCore, Import!TypeOK
<1>6. Import!GivenIsLast' /\ Import!ReadsAreOfTheLast' /\ Import!PreviewIsOfTheLast'
  BY <1>1, <1>3, <1>4, <1>5
  DEF ImportCore, Import!GivenIsLast, Import!ReadsAreOfTheLast, Import!PreviewIsOfTheLast
<1>7. QED
  BY <1>1, <1>2, <1>3, <1>4, <1>5, <1>6, ImportKeeps, ImportFacts DEF ImportCore,
     Import!TypeOK

LEMMA ImportTypePassword ==
  ASSUME ImportCore, dialog # None, Import!TypePassword PROVE ImportCore'
<1>0. PICK filled \in BOOLEAN : Import!Shows([dialog EXCEPT !.password = filled])
  BY DEF Import!TypePassword
<1> DEFINE d == [dialog EXCEPT !.password = filled]
<1>1. /\ Import!Shows(d) /\ Keeps /\ token' = token /\ sealed' = Import!Overtaken(sealed)
      /\ dialog.step = "input"
      /\ UNCHANGED <<files_, received, retained, locked, given, parses, dialogs>>
  BY <1>0 DEF Import!TypePassword, Keeps, Import!main
<1>2. dialog \in Import!Dialogs /\ token = None /\ dialog.importing = None
  BY <1>1, ImportNoToken
<1>3. /\ d \in Import!Dialogs /\ d.importing = None /\ d.step = "input"
      /\ d.source = dialog.source /\ d.text = dialog.text /\ d.parsed = dialog.parsed
  BY <1>1, <1>2 DEF Import!Dialogs
<1> HIDE DEF d
<1>4. dialog' = d /\ dialog' # None /\ Heard' /\ Used' /\ Import!TokenOfThePreview'
  BY <1>1, <1>2, <1>3, ImportShows
<1>5. Import!GivenIsLast' /\ Import!ReadsAreOfTheLast' /\ Import!PreviewIsOfTheLast'
  BY <1>1, <1>3, <1>4
  DEF ImportCore, Import!GivenIsLast, Import!ReadsAreOfTheLast, Import!PreviewIsOfTheLast
<1>6. QED
  BY <1>1, <1>2, <1>3, <1>4, <1>5, ImportKeeps DEF ImportCore, Import!TypeOK

\* From the input to the preview.
LEMMA ImportParseImages ==
  ASSUME ImportCore, dialog # None, Import!ParseImages PROVE ImportCore'
<1> DEFINE d == [dialog EXCEPT !.step = "preview"]
<1>1. /\ Import!Shows(d) /\ Keeps /\ token' = token /\ sealed' = sealed /\ dialog.step = "input"
      /\ dialog.source = "images" /\ dialog.parsed # Import!Nothing
      /\ parses < MaxParses /\ parses' = parses + 1
      /\ UNCHANGED <<files_, received, retained, locked, given, dialogs>>
  BY DEF Import!ParseImages, Import!Parses, Keeps, Import!main
<1>2. /\ dialog \in Import!Dialogs /\ token = None /\ dialog.importing = None
      /\ parses \in Nat /\ parses' \in 0..MaxParses
  BY <1>1, ImportNoToken, ImportFacts DEF ImportCore, Import!TypeOK
<1>3. /\ d \in Import!Dialogs /\ d.importing = None /\ d.step = "preview"
      /\ d.source = "images" /\ d.text = dialog.text /\ d.parsed = dialog.parsed
  BY <1>1, <1>2 DEF Import!Dialogs
<1> HIDE DEF d
<1>4. dialog' = d /\ dialog.importing = None
  BY <1>1 DEF Import!Shows
<1>5. \A c \in sealed : ~c.live
  BY <1>1 DEF ImportCore, Heard
<1>6. \A r \in files_ : ~r.live
  BY <1>1 DEF ImportCore, Import!ReadsAreOfTheLast
<1>7. Heard' /\ Used' /\ Import!TokenOfThePreview'
  BY <1>1, <1>2, <1>3, <1>4, <1>5 DEF Heard, Used, Import!TokenOfThePreview
<1>8. Import!GivenIsLast' /\ Import!ReadsAreOfTheLast' /\ Import!PreviewIsOfTheLast'
  BY <1>1, <1>3, <1>4, <1>6
  DEF ImportCore, Import!GivenIsLast, Import!ReadsAreOfTheLast, Import!PreviewIsOfTheLast,
      Import!Sends
<1>9. QED
  BY <1>1, <1>2, <1>3, <1>4, <1>7, <1>8, ImportKeeps, ImportFacts DEF ImportCore,
     Import!TypeOK

LEMMA ImportParseTable ==
  ASSUME ImportCore, dialog # None, Import!ParseTable PROVE ImportCore'
<1> DEFINE parsed == [of |-> dialog.text.of, kind |-> "csv"]
           d == [dialog EXCEPT !.step = "preview", !.parsed = parsed,
                               !.included = dialog.text.kind = "csv"]
<1>1. /\ Import!Shows(d) /\ Keeps /\ token' = token /\ sealed' = sealed /\ dialog.step = "input"
      /\ dialog.source = "csv" /\ dialog.text # Import!Nothing
      /\ parses < MaxParses /\ parses' = parses + 1
      /\ UNCHANGED <<files_, received, retained, locked, given, dialogs>>
  BY DEF Import!ParseTable, Import!Parses, Keeps, Import!main
<1>2. /\ dialog \in Import!Dialogs /\ token = None /\ dialog.importing = None
      /\ parses \in Nat /\ parses' \in 0..MaxParses
  BY <1>1, ImportNoToken, ImportFacts DEF ImportCore, Import!TypeOK
<1>3. /\ d \in Import!Dialogs /\ d.importing = None /\ d.step = "preview"
      /\ d.source = "csv" /\ d.text = dialog.text /\ d.parsed = parsed
  BY <1>1, <1>2, ImportFacts, ZenonT(60) DEF Import!Dialogs
<1> HIDE DEF d
<1>4. dialog' = d /\ dialog.importing = None
  BY <1>1 DEF Import!Shows
<1>5. \A c \in sealed : ~c.live
  BY <1>1 DEF ImportCore, Heard
<1>6. \A r \in files_ : ~r.live
  BY <1>1 DEF ImportCore, Import!ReadsAreOfTheLast
<1>7. Heard' /\ Used' /\ Import!TokenOfThePreview'
  BY <1>1, <1>2, <1>3, <1>4, <1>5 DEF Heard, Used, Import!TokenOfThePreview
<1>8. Import!GivenIsLast' /\ Import!ReadsAreOfTheLast' /\ Import!PreviewIsOfTheLast'
  BY <1>1, <1>3, <1>4, <1>6
  DEF ImportCore, Import!GivenIsLast, Import!ReadsAreOfTheLast, Import!PreviewIsOfTheLast,
      Import!Sends
<1>9. QED
  BY <1>1, <1>2, <1>3, <1>4, <1>7, <1>8, ImportKeeps, ImportFacts DEF ImportCore,
     Import!TypeOK

LEMMA ImportParsePlain ==
  ASSUME ImportCore, dialog # None, Import!ParsePlain PROVE ImportCore'
<1> DEFINE parsed == [of |-> dialog.text.of, kind |-> "plain"]
           b == [dialog EXCEPT !.password = FALSE]
           p == [dialog EXCEPT !.step = "preview", !.password = FALSE, !.included = TRUE,
                   !.root = dialog.text.of, !.parsed = parsed]
           d == IF dialog.text.kind # "plain" THEN b ELSE p
<1>1. /\ Import!Shows(d) /\ Keeps /\ token' = token /\ sealed' = Import!Overtaken(sealed)
      /\ dialog.step = "input" /\ dialog.source = "vaultageJson"
      /\ dialog.text # Import!Nothing /\ parses < MaxParses /\ parses' = parses + 1
      /\ UNCHANGED <<files_, received, retained, locked, given, dialogs>>
  BY DEF Import!ParsePlain, Import!Parses, Keeps, Import!main
<1>2. /\ dialog \in Import!Dialogs /\ token = None /\ dialog.importing = None
      /\ parses \in Nat /\ parses' \in 0..MaxParses
  BY <1>1, ImportNoToken, ImportFacts DEF ImportCore, Import!TypeOK
<1>3. /\ b \in Import!Dialogs /\ b.importing = None /\ b.step = "input"
      /\ b.source = "vaultageJson" /\ b.text = dialog.text
  BY <1>1, <1>2 DEF Import!Dialogs
<1>4. /\ p \in Import!Dialogs /\ p.importing = None /\ p.step = "preview"
      /\ p.source = "vaultageJson" /\ p.text = dialog.text /\ p.parsed = parsed
      /\ p.root = dialog.text.of
  BY <1>1, <1>2, ImportFacts, ZenonT(60) DEF Import!Dialogs
<1> HIDE DEF b, p
<1>5. /\ d \in Import!Dialogs /\ d.importing = None /\ d.step \in {"input", "preview"}
      /\ d.source = "vaultageJson" /\ d.text = dialog.text
      /\ d.step = "preview" => d.parsed = parsed /\ d.root = dialog.text.of
  BY <1>3, <1>4
<1> HIDE DEF d
<1>6. dialog' = d /\ dialog' # None /\ Heard' /\ Used' /\ Import!TokenOfThePreview'
  BY <1>1, <1>2, <1>5, ImportShows
<1>7. /\ \A r \in files_ : ~r.live
      /\ dialog.text.of = given /\ given > 0
  BY <1>1, <1>2, ImportFacts DEF ImportCore, Import!ReadsAreOfTheLast, Import!GivenIsLast
<1>8. Import!GivenIsLast' /\ Import!ReadsAreOfTheLast'
  BY <1>1, <1>5, <1>6, <1>7, ImportFacts
  DEF ImportCore, Import!GivenIsLast, Import!ReadsAreOfTheLast
<1>9. Import!PreviewIsOfTheLast'
  <2>1. SUFFICES ASSUME d.step = "preview"
                 PROVE  d.parsed.of = given' /\ Import!Sends' = d.parsed /\ d.parsed.kind = "plain"
    BY <1>6 DEF Import!PreviewIsOfTheLast
  <2>2. /\ d.parsed = parsed /\ parsed.of = given /\ parsed.kind = "plain"
        /\ d.root = given /\ given # 0
    BY <1>5, <1>7, <2>1
  <2>3. Import!Sends' = [kind |-> "plain", of |-> given]
    BY <1>1, <1>2, <1>5, <1>6, <2>2 DEF Import!Sends
  <2>4. QED
    BY <1>1, <1>7, <2>2, <2>3
<1>10. QED
  BY <1>1, <1>2, <1>5, <1>6, <1>8, <1>9, ImportKeeps, ImportFacts DEF ImportCore,
     Import!TypeOK

LEMMA ImportParseSealed ==
  ASSUME ImportCore, dialog # None, Import!ParseSealed PROVE ImportCore'
<1> DEFINE d == [dialog EXCEPT !.password = FALSE]
           c == [id |-> parses', live |-> TRUE, of |-> dialog.text.of, state |-> "sent"]
<1>1. /\ Import!Shows(d) /\ sealed' = Import!Overtaken(sealed) \cup {c}
      /\ dialog.step = "input" /\ dialog.source = "vaultageJson" /\ dialog.text.kind = "sealed"
      /\ parses < MaxParses /\ parses' = parses + 1
      /\ UNCHANGED <<token, cancels, files_, received, retained, locked, given, dialogs>>
  BY DEF Import!ParseSealed, Import!Parses, Import!main
<1>2. /\ dialog \in Import!Dialogs /\ token = None /\ dialog.importing = None
      /\ parses \in Nat /\ parses' \in 1..MaxParses /\ dialog' = d
  BY <1>1, ImportNoToken, ImportFacts DEF ImportCore, Import!TypeOK, Import!Shows
<1>3. /\ d \in Import!Dialogs /\ d.importing = None /\ d.step = "input"
      /\ d.source = "vaultageJson" /\ d.text = dialog.text /\ ~d.password
  BY <1>1, <1>2 DEF Import!Dialogs
<1>4. /\ dialog.text.of = given /\ given \in 1..MaxGiven
      /\ c.live /\ c.of = dialog.text.of /\ c.id = parses' /\ c \in Import!Calls
  <2>1. dialog.text # Import!Nothing
    BY <1>1, ImportFacts DEF Import!Nothing, Import!Contents
  <2>2. dialog.text.of = given /\ given \in 1..MaxGiven
    BY <1>2, <2>1, ImportFacts DEF ImportCore, Import!GivenIsLast, Import!TypeOK
  <2>3. QED
    BY <1>2, <2>2 DEF Import!Calls
<1> HIDE DEF d, c
<1> DEFINE O == Import!Overtaken(sealed)
<1>5. /\ \A e \in O : ~e.live /\ \E f \in sealed : e = [f EXCEPT !.live = FALSE] /\ e.id = f.id
      /\ \A f \in sealed : \E e \in O : e.id = f.id /\ e.state = f.state
      /\ \A f \in sealed : f.id # parses' /\ f.id <= parses'
      /\ sealed' = O \cup {c} /\ O \in SUBSET Import!Calls /\ sealed' \in SUBSET Import!Calls
  <2>1. Import!TypeOK
    BY DEF ImportCore
  <2>2. \A f \in sealed : f.id # parses' /\ f.id <= parses'
    BY <1>1, <1>2, <2>1 DEF Import!TypeOK, Import!Calls
  <2>3. QED
    BY <1>1, <1>4, <2>1, <2>2, ImportOvertakenCalls
<1> HIDE DEF O
<1>6. Import!TypeOK'
  BY <1>1, <1>2, <1>3, <1>4, <1>5, ImportFacts DEF ImportCore, Import!TypeOK, Import!Calls
<1>7. Numbered'
  <2>1. \A e \in sealed' : e.id \in 1..MaxParses /\ token' = None
    BY <1>1, <1>2, <1>5 DEF Import!Calls
  <2>2. ASSUME NEW e \in sealed', NEW g \in sealed', e.id = g.id PROVE e = g
    <3>1. \A o \in O : o.id # c.id
      BY <1>4, <1>5
    <3>2. CASE e = c \/ g = c
      BY <1>5, <2>2, <3>1, <3>2
    <3>3. CASE e \in O /\ g \in O
      <4>1. PICK f \in sealed : e = [f EXCEPT !.live = FALSE] /\ e.id = f.id
        BY <1>5, <3>3
      <4>2. PICK h \in sealed : g = [h EXCEPT !.live = FALSE] /\ g.id = h.id
        BY <1>5, <3>3
      <4>3. f = h
        BY <2>2, <4>1, <4>2 DEF ImportCore, Numbered
      <4>4. QED
        BY <4>1, <4>2, <4>3
    <3>4. QED
      BY <1>5, <3>2, <3>3
  <2>3. QED
    BY <2>1, <2>2, ImportFacts DEF Numbered
<1>8. Heard'
  BY <1>1, <1>2, <1>3, <1>4, <1>5, ImportFacts DEF Heard
<1>9. Owned'
  BY <1>1, <1>5 DEF ImportCore, Owned
<1>10. Used' /\ Import!TokenOfThePreview'
  BY <1>1, <1>2, <1>3 DEF Used, Import!TokenOfThePreview
<1>11. Import!GivenIsLast' /\ Import!ReadsAreOfTheLast' /\ Import!PreviewIsOfTheLast'
  BY <1>1, <1>2, <1>3, <1>4, ImportFacts
  DEF ImportCore, Import!GivenIsLast, Import!ReadsAreOfTheLast, Import!PreviewIsOfTheLast
<1>12. QED
  BY <1>6, <1>7, <1>8, <1>9, <1>10, <1>11 DEF ImportCore

\* Back, and what is chosen on the preview.
LEMMA ImportHandleBack ==
  ASSUME ImportCore, dialog # None, Import!handleBack PROVE ImportCore'
<1> DEFINE f == [Import!Fresh EXCEPT !.destination = dialog.destination]
           e == [dialog EXCEPT !.step = "input", !.password = FALSE, !.root = 0,
                               !.selections = 0, !.parsed = Import!Nothing, !.included = FALSE]
           g == [dialog EXCEPT !.step = "input", !.password = FALSE]
           d == IF dialog.step = "input" THEN f
                ELSE IF dialog.source = "vaultageJson" THEN e ELSE g
<1>1. /\ Import!Shows(d) /\ Keeps /\ token' = None /\ sealed' = Import!Overtaken(sealed)
      /\ files_' = Import!Overtaken(files_) /\ dialog.step \in {"input", "preview"}
      /\ UNCHANGED <<received, retained, locked, given, parses, dialogs>>
  BY DEF Import!handleBack, Keeps, Import!main, Import!InvalidateAll, Import!Discard
<1>2. dialog \in Import!Dialogs /\ dialog.importing = None
  BY <1>1 DEF ImportCore, Import!TypeOK, Import!Shows
<1>3. /\ f \in Import!Dialogs /\ f.importing = None /\ f.step = "source" /\ f.source = None
      /\ f.text = Import!Nothing
  <2>1. dialog.destination \in BOOLEAN
    BY <1>2 DEF Import!Dialogs
  <2>2. f \in Import!Dialogs
    BY <2>1, ImportTexts DEF Import!Dialogs
  <2>3. f.importing = None /\ f.step = "source" /\ f.source = None /\ f.text = Import!Nothing
    BY DEF Import!Fresh
  <2>4. QED
    BY <2>2, <2>3
<1>4. /\ e \in Import!Dialogs /\ e.importing = None /\ e.step = "input"
      /\ e.source = dialog.source /\ e.text = dialog.text /\ e.parsed = Import!Nothing
  <2>1. 0 \in 0..MaxGiven
    BY ImportFacts
  <2>2. QED
    BY <1>2, <2>1, ImportTexts, ZenonT(60) DEF Import!Dialogs
<1>5. /\ g \in Import!Dialogs /\ g.importing = None /\ g.step = "input"
      /\ g.source = dialog.source /\ g.text = dialog.text /\ g.parsed = dialog.parsed
  BY <1>2 DEF Import!Dialogs
<1> HIDE DEF e, f, g
<1>6. /\ d \in Import!Dialogs /\ d.importing = None
      /\ \/ d.step = "source" /\ d.source = None /\ d.text = Import!Nothing
         \/ /\ d.step = "input" /\ d.source = dialog.source /\ d.text = dialog.text
            /\ dialog.step = "preview" /\ d.parsed \in {Import!Nothing, dialog.parsed}
  BY <1>1, <1>3, <1>4, <1>5
<1> HIDE DEF d
<1>7. dialog' = d /\ dialog' # None /\ Heard' /\ Used' /\ Import!TokenOfThePreview'
  BY <1>1, <1>6, ImportShows
<1>8. files_' \in SUBSET Import!Reads /\ \A r \in files_' : ~r.live
  BY <1>1, ImportOvertakenReads DEF ImportCore, Import!TypeOK
<1>9. Import!GivenIsLast' /\ Import!ReadsAreOfTheLast' /\ Import!PreviewIsOfTheLast'
  BY <1>1, <1>6, <1>7, <1>8, ImportFacts
  DEF ImportCore, Import!GivenIsLast, Import!ReadsAreOfTheLast, Import!PreviewIsOfTheLast
<1>10. Import!TypeOK'
  BY <1>1, <1>6, <1>7, <1>8, ImportKeeps DEF ImportCore, Import!TypeOK
<1>11. QED
  BY <1>1, <1>7, <1>9, <1>10, ImportKeeps DEF ImportCore

LEMMA ImportToggleRow ==
  ASSUME ImportCore, dialog # None, Import!toggleRow PROVE ImportCore'
<1> DEFINE d == [dialog EXCEPT !.included = ~@]
<1>1. /\ Import!Shows(d) /\ Keeps /\ token' = token /\ sealed' = sealed
      /\ UNCHANGED <<files_, received, retained, locked, given, parses, dialogs>>
  BY DEF Import!toggleRow, Keeps, Import!main
<1>2. dialog \in Import!Dialogs /\ dialog.importing = None /\ dialog' = d
  BY <1>1 DEF ImportCore, Import!TypeOK, Import!Shows
<1>3. /\ d \in Import!Dialogs /\ d.importing = None /\ d.step = dialog.step
      /\ d.source = dialog.source /\ d.text = dialog.text /\ d.parsed = dialog.parsed
      /\ d.root = dialog.root /\ d.selections = dialog.selections
      /\ d.password = dialog.password
  BY <1>2, ZenonT(60) DEF Import!Dialogs
<1> HIDE DEF d
<1>4. Heard' /\ Used' /\ Import!TokenOfThePreview'
  BY <1>1, <1>2, <1>3, ImportFacts DEF ImportCore, Heard, Used, Import!TokenOfThePreview
<1>5. Import!GivenIsLast' /\ Import!ReadsAreOfTheLast' /\ Import!PreviewIsOfTheLast'
  BY <1>1, <1>2, <1>3, ImportFacts
  DEF ImportCore, Import!GivenIsLast, Import!ReadsAreOfTheLast, Import!PreviewIsOfTheLast,
      Import!Sends
<1>6. QED
  BY <1>1, <1>2, <1>3, <1>4, <1>5, ImportKeeps DEF ImportCore, Import!TypeOK

LEMMA ImportHandleImport ==
  ASSUME ImportCore, dialog # None, Import!handleImport PROVE ImportCore'
<1> DEFINE i == [kind |-> Import!Sends.kind, state |-> "sent"]
           d == [dialog EXCEPT !.importing = i]
<1>1. /\ Import!Shows(d) /\ Keeps /\ token' = token /\ sealed' = sealed /\ dialog.step = "preview"
      /\ UNCHANGED <<files_, received, retained, locked, given, parses, dialogs>>
  BY DEF Import!handleImport, Keeps, Import!main
<1>2. dialog \in Import!Dialogs /\ dialog.importing = None /\ dialog' = d
  BY <1>1 DEF ImportCore, Import!TypeOK, Import!Shows
<1>3. i \in Import!Importings /\ i.state = "sent"
  <2>1. Import!Sends = dialog.parsed
    BY <1>1 DEF ImportCore, Import!PreviewIsOfTheLast
  <2>2. QED
    BY <1>2, <2>1 DEF Import!Dialogs, Import!Importings
<1> HIDE DEF i
<1>4. /\ d \in Import!Dialogs /\ d.importing = i /\ d.step = dialog.step
      /\ d.source = dialog.source /\ d.text = dialog.text /\ d.parsed = dialog.parsed
      /\ d.root = dialog.root /\ d.selections = dialog.selections
      /\ d.password = dialog.password
  BY <1>2, <1>3 DEF Import!Dialogs
<1> HIDE DEF d
<1>5. Heard' /\ Used' /\ Import!TokenOfThePreview'
  BY <1>1, <1>2, <1>3, <1>4, ImportFacts DEF ImportCore, Heard, Used,
     Import!TokenOfThePreview
<1>6. Import!GivenIsLast' /\ Import!ReadsAreOfTheLast' /\ Import!PreviewIsOfTheLast'
  BY <1>1, <1>2, <1>4, ImportFacts
  DEF ImportCore, Import!GivenIsLast, Import!ReadsAreOfTheLast, Import!PreviewIsOfTheLast,
      Import!Sends
<1>7. QED
  BY <1>1, <1>2, <1>4, <1>5, <1>6, ImportKeeps DEF ImportCore, Import!TypeOK

\* The dialog comes and goes.
LEMMA ImportOpenDialog ==
  ASSUME ImportCore, Import!OpenDialog PROVE ImportCore'
<1>1. /\ dialog = None /\ dialog' = Import!Fresh /\ dialogs' = dialogs + 1 /\ dialogs < MaxDialogs
      /\ Keeps /\ UNCHANGED <<token, sealed, cancels, files_, received, retained, locked,
                              given, parses>>
  BY DEF Import!OpenDialog, Keeps, Import!main
<1>2. token = None /\ (\A c \in sealed : ~c.live) /\ \A r \in files_ : ~r.live
  BY <1>1 DEF ImportCore, Import!TokenOfThePreview, Heard, Import!ReadsAreOfTheLast
<1>3. /\ Import!Fresh \in Import!Dialogs /\ Import!Fresh.importing = None
      /\ Import!Fresh.step = "source" /\ Import!Fresh.source = None
      /\ Import!Fresh.text = Import!Nothing
  BY ImportTexts DEF Import!Fresh
<1>4. Heard' /\ Used' /\ Import!TokenOfThePreview'
  BY <1>1, <1>2, <1>3 DEF Heard, Used, Import!TokenOfThePreview
<1>5. Import!GivenIsLast' /\ Import!ReadsAreOfTheLast' /\ Import!PreviewIsOfTheLast'
  BY <1>1, <1>2, <1>3, ImportFacts
  DEF Import!GivenIsLast, Import!ReadsAreOfTheLast, Import!PreviewIsOfTheLast
<1>6. QED
  BY <1>1, <1>3, <1>4, <1>5, ImportKeeps, ImportFacts DEF ImportCore, Import!TypeOK

LEMMA ImportCloseDialog ==
  ASSUME ImportCore, Import!CloseDialog PROVE ImportCore'
<1>1. /\ dialog' = None /\ files_' = {} /\ sealed' = Import!Overtaken(sealed) /\ token' = None
      /\ Keeps /\ UNCHANGED <<received, retained, locked, given, parses, dialogs>>
  BY DEF Import!CloseDialog, Keeps, Import!main, Import!Discard
<1>2. Heard' /\ Used' /\ Import!TokenOfThePreview'
  BY <1>1, ImportOvertakenCalls DEF ImportCore, Heard, Used, Import!TokenOfThePreview
<1>3. Import!GivenIsLast' /\ Import!ReadsAreOfTheLast' /\ Import!PreviewIsOfTheLast'
  BY <1>1 DEF Import!GivenIsLast, Import!ReadsAreOfTheLast, Import!PreviewIsOfTheLast
<1>4. QED
  BY <1>1, <1>2, <1>3, ImportKeeps DEF ImportCore, Import!TypeOK

\* A reading that is heard is of the last thing given.
LEMMA ImportFileRead ==
  ASSUME ImportCore, NEW r \in files_, Import!FileRead(r) PROVE ImportCore'
<1>1. CASE /\ files_' = files_ \ {r}
           /\ UNCHANGED <<dialog, token, sealed, cancels, received, retained, locked,
                          given, parses, dialogs>>
  BY <1>1
  DEF ImportCore, Import!TypeOK, Numbered, Heard, Owned, Used, Import!TokenOfThePreview,
      Import!GivenIsLast, Import!ReadsAreOfTheLast, Import!PreviewIsOfTheLast, Import!Sends
<1>2. ASSUME NEW k \in ImportKinds, Import!FileCounts(r), dialog.importing = None,
             dialog' = Import!Replaced(dialog, [of |-> r.of, kind |-> k]),
             sealed' = Import!Overtaken(sealed), files_' = Import!Overtaken(files_ \ {r}),
             Import!Discard, r.source # "images",
             UNCHANGED <<received, retained, locked, given, parses, dialogs>>
      PROVE  ImportCore'
  <2> DEFINE t == [of |-> r.of, kind |-> k]
             d == Import!Replaced(dialog, t)
  <2>1. /\ Keeps /\ token' = None /\ dialog' = d
        /\ dialog # None /\ dialog.step = "input" /\ dialog.source = r.source /\ r.of = given
        /\ given \in 1..MaxGiven /\ dialog \in Import!Dialogs
    BY <1>2
    DEF Keeps, Import!Discard, Import!FileCounts, ImportCore, Import!ReadsAreOfTheLast,
        Import!TypeOK,
        Import!Reads
  <2>2. /\ d \in Import!Dialogs /\ d.importing = None /\ d.step = "input"
        /\ d.source = dialog.source /\ d.text = t /\ t.of = given
    BY <1>2, <2>1, ImportReplaces
  <2> HIDE DEF d, t
  <2>3. Heard' /\ Used' /\ Import!TokenOfThePreview'
    BY <1>2, <2>1, <2>2, ImportFacts, ImportOvertakenCalls
    DEF ImportCore, Heard, Used, Import!TokenOfThePreview
  <2>4. files_' \in SUBSET Import!Reads /\ \A q \in files_' : ~q.live
    BY <1>2, ImportOvertakenReads DEF ImportCore, Import!TypeOK
  <2>5. /\ dialog'.step = "input" /\ dialog'.source # "images" /\ given' = given /\ given > 0
        /\ dialog'.text.of = given'
    BY <1>2, <2>1, <2>2
  <2>6. Import!GivenIsLast' /\ Import!ReadsAreOfTheLast' /\ Import!PreviewIsOfTheLast'
    BY <2>4, <2>5
    DEF Import!GivenIsLast, Import!ReadsAreOfTheLast, Import!PreviewIsOfTheLast
  <2>7. QED
    BY <1>2, <2>1, <2>2, <2>3, <2>4, <2>6, ImportKeeps DEF ImportCore, Import!TypeOK
<1>3. QED
  BY <1>1, <1>2 DEF Import!FileRead, Import!main

LEMMA ImportImagesRead ==
  ASSUME ImportCore, NEW r \in files_, Import!ImagesRead(r) PROVE ImportCore'
<1>1. /\ r.source = "images" /\ files_' = files_ \ {r} /\ Keeps
      /\ UNCHANGED <<token, sealed, cancels, received, retained, locked, given, parses, dialogs>>
  BY DEF Import!ImagesRead, Import!main, Keeps
<1>2. CASE UNCHANGED dialog
  BY <1>1, <1>2
  DEF ImportCore, Import!TypeOK, Numbered, Heard, Owned, Used, Import!TokenOfThePreview,
      Import!GivenIsLast, Import!ReadsAreOfTheLast, Import!PreviewIsOfTheLast, Import!Sends
<1> DEFINE parsed == [of |-> r.of, kind |-> "images"]
           d == [dialog EXCEPT !.parsed = parsed, !.included = TRUE]
<1>3. CASE r.live /\ dialog' = d
  <2>1. /\ dialog # None /\ dialog.step = "input" /\ dialog.source = "images" /\ r.of = given
        /\ given \in 1..MaxGiven /\ r \in Import!Reads
    BY <1>1, <1>3 DEF ImportCore, Import!ReadsAreOfTheLast, Import!TypeOK, Import!Reads
  <2>2. token = None /\ dialog.importing = None /\ dialog \in Import!Dialogs
    BY <2>1, ImportNoToken
  <2>3. /\ d \in Import!Dialogs /\ d.importing = None /\ d.step = "input"
        /\ d.source = "images" /\ d.text = dialog.text /\ d.parsed = parsed /\ parsed.of = given
    <3>1. given \in 0..MaxGiven /\ "images" \in Import!Contents
      BY <2>1, ImportFacts
    <3>2. parsed \in [of : 0..MaxGiven, kind : Import!Contents \cup {None}] /\ parsed.of = given
      BY <2>1, <3>1
    <3> HIDE DEF parsed
    <3>3. QED
      BY <2>1, <2>2, <3>2 DEF Import!Dialogs
  <2> HIDE DEF d, parsed
  <2>4. \A q \in files_' : ~q.live
    <3>1. ASSUME NEW q \in files_, q.live PROVE q = r
      <4>1. q.of = r.of /\ q.source = r.source /\ q.live = r.live
        BY <1>3, <2>1, <3>1 DEF ImportCore, Import!ReadsAreOfTheLast, Import!TypeOK,
           Import!Reads
      <4>2. q \in Import!Reads
        BY DEF ImportCore, Import!TypeOK
      <4>3. QED
        BY <2>1, <4>1, <4>2 DEF Import!Reads
    <3>2. QED
      BY <1>1, <3>1
  <2>5. Heard' /\ Used' /\ Import!TokenOfThePreview'
    BY <1>1, <1>3, <2>1, <2>2, <2>3, ImportFacts DEF ImportCore, Heard, Used,
       Import!TokenOfThePreview
  <2>6. Import!GivenIsLast' /\ Import!ReadsAreOfTheLast' /\ Import!PreviewIsOfTheLast'
    BY <1>1, <1>3, <2>1, <2>3, <2>4
    DEF ImportCore, Import!GivenIsLast, Import!ReadsAreOfTheLast, Import!PreviewIsOfTheLast
  <2>7. QED
    BY <1>1, <1>3, <2>1, <2>3, <2>5, <2>6, ImportKeeps DEF ImportCore, Import!TypeOK
<1>4. QED
  BY <1>2, <1>3 DEF Import!ImagesRead

\* What the main process does with a call is none of the dialog's yet.
LEMMA ImportAside ==
  ASSUME ImportCore, NEW c \in sealed, NEW state \in {"running", "previewed", "failed"},
         Import!Becomes(c, state), UNCHANGED <<dialog, token, files_, cancels, locked,
                                               given, parses, dialogs>>
  PROVE  /\ Numbered' /\ Heard' /\ Import!TokenOfThePreview' /\ Import!GivenIsLast'
         /\ Import!ReadsAreOfTheLast' /\ Import!PreviewIsOfTheLast'
         /\ sealed' \in SUBSET Import!Calls /\ \A d \in sealed' : d.id <= parses'
<1>1. Import!TypeOK /\ Numbered /\ Heard
  BY DEF ImportCore
<1>2. Numbered' /\ Heard' /\ sealed' \in SUBSET Import!Calls /\ \A d \in sealed' : d.id <= parses'
  BY <1>1, ImportBecomes DEF Numbered, Heard, Import!TypeOK
<1>3. Import!TokenOfThePreview' /\ Import!GivenIsLast'
      /\ Import!ReadsAreOfTheLast' /\ Import!PreviewIsOfTheLast'
  BY DEF ImportCore, Import!TokenOfThePreview, Import!GivenIsLast, Import!ReadsAreOfTheLast,
         Import!PreviewIsOfTheLast, Import!Sends
<1>4. QED
  BY <1>2, <1>3

\* The main process receives and decrypts; the newest call keeps its plaintext.
LEMMA ImportReceiveCall ==
  ASSUME ImportCore, NEW c \in sealed, Import!ReceiveCall(c) PROVE ImportCore'
<1>1. /\ c.state = "sent" /\ Import!Becomes(c, "running") /\ received' = c.id
      /\ UNCHANGED <<dialog, token, files_, cancels, retained, locked, given, parses, dialogs>>
      /\ Import!TypeOK /\ Numbered
  BY DEF Import!ReceiveCall, ImportCore
<1>2. received' \in 0..MaxParses
  BY <1>1, ImportFacts DEF Import!TypeOK, Import!Calls
<1>3. Owned'
  <2>1. \A e \in sealed : e.state = "previewed" => e \in sealed'
    BY <1>1, ImportBecomes
  <2>2. QED
    BY <1>1, <2>1 DEF ImportCore, Owned
<1>4. Used'
  BY <1>1 DEF ImportCore, Used
<1>5. QED
  BY <1>1, <1>2, <1>3, <1>4, ImportAside DEF ImportCore, Import!TypeOK

LEMMA ImportDecrypted ==
  ASSUME ImportCore, NEW c \in sealed, Import!Decrypted(c) PROVE ImportCore'
<1>1. /\ c.state = "running"
      /\ UNCHANGED <<dialog, token, files_, received, cancels, locked, given, parses, dialogs>>
      /\ Import!TypeOK /\ Numbered
  BY DEF Import!Decrypted, ImportCore
<1>2. c.id \in 1..MaxParses /\ c.id # token
  BY <1>1 DEF Import!TypeOK, Import!Calls, Numbered
<1>3. CASE retained' = {c.id} /\ Import!Becomes(c, "previewed")
  <2>1. Owned' /\ Used'
    BY <1>1, <1>2, <1>3, ImportBecomes DEF ImportCore, Owned, Used
  <2>2. QED
    BY <1>1, <1>2, <1>3, <2>1, ImportAside DEF ImportCore, Import!TypeOK
<1>4. CASE retained' = retained /\ Import!Becomes(c, "failed")
  <2>1. \A e \in sealed : e.state = "previewed" => e \in sealed'
    BY <1>1, <1>4, ImportBecomes
  <2>2. Owned' /\ Used'
    BY <1>1, <1>4, <2>1 DEF ImportCore, Owned, Used
  <2>3. QED
    BY <1>1, <1>4, <2>2, ImportAside DEF ImportCore, Import!TypeOK
<1>5. QED
  BY <1>3, <1>4 DEF Import!Decrypted

\* An answer that is heard is of the text in the field, and no other call may be heard.
LEMMA ImportAnswered ==
  ASSUME ImportCore, NEW c \in sealed, Import!Answered(c) PROVE ImportCore'
<1>1. /\ c.state \in {"previewed", "failed"} /\ sealed' = sealed \ {c}
      /\ UNCHANGED <<files_, received, retained, locked, given, parses, dialogs>>
      /\ Import!TypeOK /\ Numbered
  BY DEF Import!Answered, Import!main, ImportCore
<1>2. /\ c.id \in 1..parses /\ c.id \in 1..MaxParses /\ c.id # token /\ c.of \in 1..MaxGiven
      /\ sealed' \in SUBSET Import!Calls /\ \A d \in sealed' : d.id <= parses' /\ d.id # c.id
  BY <1>1 DEF Import!TypeOK, Import!Calls, Numbered
<1>3. CASE /\ cancels' = cancels \cup (IF c.state = "previewed" THEN {c.id} ELSE {})
           /\ UNCHANGED <<dialog, token>>
  <2>1. Numbered' /\ Heard' /\ Used' /\ Import!TokenOfThePreview'
    BY <1>1, <1>3 DEF ImportCore, Numbered, Heard, Used, Import!TokenOfThePreview
  <2>2. Owned'
    BY <1>1, <1>3 DEF ImportCore, Owned
  <2>3. Import!GivenIsLast' /\ Import!ReadsAreOfTheLast' /\ Import!PreviewIsOfTheLast'
    BY <1>1, <1>3 DEF ImportCore, Import!GivenIsLast, Import!ReadsAreOfTheLast,
       Import!PreviewIsOfTheLast, Import!Sends
  <2>4. QED
    BY <1>1, <1>2, <1>3, <2>1, <2>2, <2>3 DEF ImportCore, Import!TypeOK
<1>4. CASE c.state = "failed" /\ UNCHANGED <<dialog, token, cancels>>
  <2>1. Numbered' /\ Heard' /\ Used' /\ Import!TokenOfThePreview'
    BY <1>1, <1>4 DEF ImportCore, Numbered, Heard, Used, Import!TokenOfThePreview
  <2>2. Owned'
    BY <1>1, <1>4 DEF ImportCore, Owned
  <2>3. Import!GivenIsLast' /\ Import!ReadsAreOfTheLast' /\ Import!PreviewIsOfTheLast'
    BY <1>1, <1>4 DEF ImportCore, Import!GivenIsLast, Import!ReadsAreOfTheLast,
       Import!PreviewIsOfTheLast, Import!Sends
  <2>4. QED
    BY <1>1, <1>2, <1>4, <2>1, <2>2, <2>3 DEF ImportCore, Import!TypeOK
<1> DEFINE parsed == [of |-> c.of, kind |-> "sealed"]
           d == [dialog EXCEPT !.step = "preview", !.root = 0, !.selections = c.of,
                               !.parsed = parsed, !.included = TRUE]
<1>5. CASE /\ Import!isCurrent(c) /\ c.state = "previewed"
           /\ token' = c.id /\ cancels' = cancels /\ dialog' = d
  <2>1. /\ dialog # None /\ dialog.step = "input" /\ dialog.source = "vaultageJson"
        /\ dialog.text.kind = "sealed" /\ dialog.text.of = c.of /\ ~dialog.password
    BY <1>5 DEF ImportCore, Heard, Import!isCurrent
  <2>2. token = None /\ dialog.importing = None /\ dialog \in Import!Dialogs
    BY <2>1, ImportNoToken
  <2>3. c.of = given
    BY <1>2, <2>1 DEF ImportCore, Import!GivenIsLast, Import!Nothing
  <2>4. /\ d \in Import!Dialogs /\ d.importing = None /\ d.step = "preview"
        /\ d.source = "vaultageJson" /\ d.text = dialog.text /\ d.parsed = parsed
        /\ d.selections = c.of /\ ~d.password
    <3>1. 0 \in 0..MaxGiven /\ c.of \in 0..MaxGiven /\ "sealed" \in Import!Contents
      BY <1>2, ImportFacts
    <3>2. parsed \in [of : 0..MaxGiven, kind : Import!Contents \cup {None}]
      BY <3>1
    <3> HIDE DEF parsed
    <3>3. QED
      BY <2>1, <2>2, <3>1, <3>2 DEF Import!Dialogs
  <2> HIDE DEF d
  <2>5. d # None /\ token' # None
    BY <1>2, <1>5, <2>4, ImportFacts
  <2>6. \A e \in sealed' : ~e.live
    BY <1>1, <1>5 DEF ImportCore, Heard, Import!isCurrent
  <2>7. \A r \in files_' : ~r.live
    BY <1>1, <2>1, ImportFacts DEF ImportCore, Import!ReadsAreOfTheLast, Import!Nothing
  <2>8. Numbered' /\ Heard'
    BY <1>1, <1>2, <1>5, <2>6 DEF Numbered, Heard
  <2>9. Owned' /\ Used' /\ Import!TokenOfThePreview'
    <3>1. token \notin retained
      BY <2>2, ImportFacts DEF ImportCore, Import!TypeOK
    <3>2. Owned'
      BY <1>1, <1>2, <1>5, <2>2, <3>1 DEF ImportCore, Owned
    <3>3. QED
      BY <1>5, <2>4, <2>5, <3>2 DEF Used, Import!TokenOfThePreview
  <2>10. Import!GivenIsLast' /\ Import!ReadsAreOfTheLast'
    BY <1>1, <1>5, <2>1, <2>4, <2>7, ImportFacts
    DEF ImportCore, Import!GivenIsLast, Import!ReadsAreOfTheLast
  <2>11. Import!PreviewIsOfTheLast'
    <3>1. Import!Sends' = parsed /\ parsed.of = given
      BY <1>5, <2>3, <2>4, <2>5 DEF Import!Sends
    <3>2. QED
      BY <1>1, <1>5, <2>4, <3>1 DEF Import!PreviewIsOfTheLast
  <2>12. QED
    <3>1. Import!TypeOK'
      BY <1>1, <1>2, <1>5, <2>4, <2>5, ImportFacts DEF Import!TypeOK
    <3>2. QED
      BY <2>8, <2>9, <2>10, <2>11, <3>1 DEF ImportCore
<1>6. QED
  BY <1>3, <1>4, <1>5 DEF Import!Answered

\* Plaintext that goes leaves nothing to account for.
LEMMA ImportCancelled ==
  ASSUME ImportCore, NEW t \in cancels, Import!Cancelled(t) PROVE ImportCore'
<1>1. /\ cancels' = cancels \ {t} /\ retained' = retained \ {t}
      /\ UNCHANGED <<dialog, token, files_, sealed, received, locked, given, parses, dialogs>>
  BY DEF Import!Cancelled
<1>2. Numbered' /\ Heard' /\ Owned' /\ Used' /\ Import!TokenOfThePreview'
  BY <1>1 DEF ImportCore, Numbered, Heard, Owned, Used, Import!TokenOfThePreview
<1>3. Import!GivenIsLast' /\ Import!ReadsAreOfTheLast' /\ Import!PreviewIsOfTheLast'
  BY <1>1 DEF ImportCore, Import!GivenIsLast, Import!ReadsAreOfTheLast,
     Import!PreviewIsOfTheLast, Import!Sends
<1>4. QED
  BY <1>1, <1>2, <1>3 DEF ImportCore, Import!TypeOK

LEMMA ImportExpire ==
  ASSUME ImportCore, Import!Expire PROVE ImportCore'
<1>1. /\ retained' = {}
      /\ UNCHANGED <<dialog, token, files_, sealed, received, cancels, locked, given,
                     parses, dialogs>>
  BY DEF Import!Expire
<1>2. Numbered' /\ Heard' /\ Owned' /\ Used' /\ Import!TokenOfThePreview'
  BY <1>1 DEF ImportCore, Numbered, Heard, Owned, Used, Import!TokenOfThePreview
<1>3. Import!GivenIsLast' /\ Import!ReadsAreOfTheLast' /\ Import!PreviewIsOfTheLast'
  BY <1>1 DEF ImportCore, Import!GivenIsLast, Import!ReadsAreOfTheLast,
     Import!PreviewIsOfTheLast, Import!Sends
<1>4. QED
  BY <1>1, <1>2, <1>3 DEF ImportCore, Import!TypeOK

LEMMA ImportLock ==
  ASSUME ImportCore, Import!Lock PROVE ImportCore'
<1>1. /\ locked' = TRUE
      /\ UNCHANGED <<dialog, token, files_, sealed, received, cancels, retained, given,
                     parses, dialogs>>
  BY DEF Import!Lock
<1>2. Numbered' /\ Heard' /\ Owned' /\ Used' /\ Import!TokenOfThePreview'
  BY <1>1 DEF ImportCore, Numbered, Heard, Owned, Used, Import!TokenOfThePreview
<1>3. Import!GivenIsLast' /\ Import!ReadsAreOfTheLast' /\ Import!PreviewIsOfTheLast'
  BY <1>1 DEF ImportCore, Import!GivenIsLast, Import!ReadsAreOfTheLast,
     Import!PreviewIsOfTheLast, Import!Sends
<1>4. QED
  BY <1>1, <1>2, <1>3 DEF ImportCore, Import!TypeOK

\* The folder does not matter to what is imported.
LEMMA ImportChangeDestination ==
  ASSUME ImportCore, Import!ChangeDestination PROVE ImportCore'
<1> DEFINE b == ~dialog.destination
           d == [dialog EXCEPT !.destination = b]
<1>1. /\ dialog # None /\ dialog' = d
      /\ UNCHANGED <<token, files_, sealed, cancels, received, retained, locked, given,
                     parses, dialogs>>
  BY DEF Import!ChangeDestination, Import!main
<1>2. dialog \in Import!Dialogs
  BY <1>1 DEF ImportCore, Import!TypeOK
<1>b. b \in BOOLEAN
  OBVIOUS
<1> HIDE DEF b
<1>3. /\ d \in Import!Dialogs /\ d # None /\ d.importing = dialog.importing
      /\ d.step = dialog.step
      /\ d.source = dialog.source /\ d.text = dialog.text /\ d.parsed = dialog.parsed
      /\ d.root = dialog.root /\ d.selections = dialog.selections
      /\ d.password = dialog.password
  BY <1>2, <1>b, ImportFacts DEF Import!Dialogs
<1> HIDE DEF d
<1>4. Numbered' /\ Heard' /\ Owned' /\ Used' /\ Import!TokenOfThePreview'
  BY <1>1, <1>3 DEF ImportCore, Numbered, Heard, Owned, Used, Import!TokenOfThePreview
<1>5. Import!GivenIsLast' /\ Import!ReadsAreOfTheLast' /\ Import!PreviewIsOfTheLast'
  BY <1>1, <1>3 DEF ImportCore, Import!GivenIsLast, Import!ReadsAreOfTheLast,
     Import!PreviewIsOfTheLast, Import!Sends
<1>6. QED
  BY <1>1, <1>3, <1>4, <1>5 DEF ImportCore, Import!TypeOK

\* An import that the main process took has used its plaintext.
LEMMA ImportCommitImport ==
  ASSUME ImportCore, Import!CommitImport PROVE ImportCore'
<1>1. PICK state \in {"committed", "refused"} :
        /\ dialog # None /\ dialog.importing # None
        /\ dialog' = [dialog EXCEPT !.importing.state = state]
        /\ retained' \in {retained, retained \ {token}}
        /\ dialog.importing.kind = "sealed" /\ ~locked => retained' = retained \ {token}
        /\ UNCHANGED <<token, files_, sealed, cancels, received, locked, given, parses, dialogs>>
  BY DEF Import!CommitImport
<1> DEFINE i == [dialog.importing EXCEPT !.state = state]
           d == [dialog EXCEPT !.importing = i]
<1>2. dialog \in Import!Dialogs /\ dialog.importing \in Import!Importings
  BY <1>1 DEF ImportCore, Import!TypeOK, Import!Dialogs
<1>3. i \in Import!Importings /\ i.kind = dialog.importing.kind /\ i # None
  BY <1>2, ImportFacts DEF Import!Importings
<1>4. dialog' = d
  BY <1>1, <1>2 DEF Import!Dialogs
<1> HIDE DEF i
<1>5. /\ d \in Import!Dialogs /\ d # None /\ d.importing = i /\ d.step = dialog.step
      /\ d.source = dialog.source /\ d.text = dialog.text /\ d.parsed = dialog.parsed
      /\ d.root = dialog.root /\ d.selections = dialog.selections
      /\ d.password = dialog.password
  BY <1>2, <1>3, ImportFacts DEF Import!Dialogs
<1> HIDE DEF d
<1>6. Numbered' /\ Heard' /\ Owned' /\ Import!TokenOfThePreview'
  BY <1>1, <1>4, <1>5 DEF ImportCore, Numbered, Heard, Owned, Import!TokenOfThePreview
<1>7. Used'
  BY <1>1, <1>3, <1>4, <1>5 DEF Used
<1>8. Import!GivenIsLast' /\ Import!ReadsAreOfTheLast' /\ Import!PreviewIsOfTheLast'
  BY <1>1, <1>4, <1>5 DEF ImportCore, Import!GivenIsLast, Import!ReadsAreOfTheLast,
     Import!PreviewIsOfTheLast, Import!Sends
<1>9. QED
  BY <1>1, <1>4, <1>5, <1>6, <1>7, <1>8 DEF ImportCore, Import!TypeOK

\* Calls that are overtaken keep their numbers.
LEMMA ImportOvertakenNumbered ==
  ASSUME Import!TypeOK, Numbered, token' \in {token, None}, parses' = parses,
         sealed' = sealed \/ sealed' = Import!Overtaken(sealed)
  PROVE  /\ Numbered' /\ sealed' \in SUBSET Import!Calls /\ \A c \in sealed' : c.id <= parses'
         /\ \A e \in sealed : \E c \in sealed' : c.id = e.id /\ c.state = e.state
<1>1. /\ sealed' \in SUBSET Import!Calls
      /\ \A c \in sealed' : \E d \in sealed : c.id = d.id
      /\ \A d \in sealed : \E c \in sealed' : c.id = d.id /\ c.state = d.state
  BY ImportOvertakenCalls DEF Import!TypeOK
<1>2. \A c, d \in sealed' : c.id = d.id => c = d
  <2>1. CASE sealed' = sealed
    BY <2>1 DEF Numbered
  <2>2. CASE sealed' = Import!Overtaken(sealed)
    <3>1. ASSUME NEW c \in sealed', NEW d \in sealed', c.id = d.id PROVE c = d
      <4>1. PICK e \in sealed : c = [e EXCEPT !.live = FALSE] /\ c.id = e.id
        BY <2>2, <3>1, ImportOvertakenCalls
      <4>2. PICK f \in sealed : d = [f EXCEPT !.live = FALSE] /\ d.id = f.id
        BY <2>2, <3>1, ImportOvertakenCalls
      <4>3. e = f
        BY <3>1, <4>1, <4>2 DEF Numbered
      <4>4. QED
        BY <4>1, <4>2, <4>3
    <3>2. QED
      BY <3>1
  <2>3. QED
    BY <2>1, <2>2
<1>3. \A c \in sealed' : c.id <= parses' /\ c.id \in 1..MaxParses /\ c.id # token
  BY <1>1, ImportFacts DEF Import!TypeOK, Import!Calls, Numbered
<1>4. QED
  BY <1>1, <1>2, <1>3, ImportFacts DEF Numbered

\* A sealed import that is over has used the plaintext of its token.
LEMMA ImportAnsweredStays ==
  ASSUME ImportCore, Import!ImportAnswered PROVE ImportCore'
<1> DEFINE sealedOne == dialog.importing.kind = "sealed"
           done == dialog.importing.state = "committed"
           d == [dialog EXCEPT !.importing = None]
           f == [Import!Cleared(d) EXCEPT !.step = "done"]
           g == [d EXCEPT !.step = "input", !.selections = 0, !.parsed = Import!Nothing,
                          !.included = FALSE]
<1>1. /\ dialog # None /\ dialog.importing # None /\ dialog.importing.state # "sent"
      /\ dialog \in Import!Dialogs /\ dialog.step = "preview"
      /\ UNCHANGED <<files_, received, retained, locked, given, parses, dialogs>>
  BY DEF Import!ImportAnswered, Import!main, ImportCore, Import!TypeOK,
     Import!TokenOfThePreview
<1>2. d \in Import!Dialogs /\ d.importing = None /\ d.step = "preview"
      /\ d.source = dialog.source /\ d.text = dialog.text /\ d.parsed = dialog.parsed
      /\ d.root = dialog.root /\ d.selections = dialog.selections
      /\ d.password = dialog.password
  BY <1>1 DEF Import!Dialogs
<1> HIDE DEF d
<1>3. 0 \in 0..MaxGiven
  BY ImportFacts
<1>4. f \in Import!Dialogs /\ f.importing = None /\ f.step = "done" /\ f.source = dialog.source
      /\ f.text = Import!Nothing /\ f.parsed = Import!Nothing
  BY <1>2, <1>3, ImportTexts, ZenonT(60) DEF Import!Dialogs, Import!Cleared
<1>5. g \in Import!Dialogs /\ g.importing = None /\ g.step = "input" /\ g.source = dialog.source
      /\ g.text = dialog.text /\ g.parsed = Import!Nothing
  BY <1>2, <1>3, ImportTexts, ZenonT(60) DEF Import!Dialogs
<1> HIDE DEF f, g
<1>6. (\A c \in sealed : ~c.live) /\ \A r \in files_ : ~r.live
  BY <1>1 DEF ImportCore, Heard, Import!ReadsAreOfTheLast
<1>7. /\ \/ dialog' = f
         \/ dialog' = d /\ UNCHANGED <<token, cancels>>
         \/ dialog' = g /\ token' = None
      /\ \/ sealedOne /\ token' = None /\ cancels' = cancels
         \/ Import!Discard
         \/ UNCHANGED <<token, cancels>>
      /\ dialog' = f => token' = None
      /\ sealed' = sealed \/ sealed' = Import!Overtaken(sealed)
  <2>1. /\ dialog' = IF done THEN f ELSE IF ~sealedOne THEN d ELSE g
        /\ sealed' = IF done THEN Import!Overtaken(sealed) ELSE sealed
        /\ IF sealedOne THEN token' = None /\ cancels' = cancels
           ELSE IF done THEN Import!Discard ELSE UNCHANGED <<token, cancels>>
    BY DEF Import!ImportAnswered, Import!Discard, d, f, g
  <2>2. f # d /\ f # g
    BY <1>2, <1>4, <1>5
  <2>3. Import!Discard => token' = None
    BY DEF Import!Discard
  <2>4. QED
    BY <2>1, <2>2, <2>3
<1>8. dialog' \in Import!Dialogs /\ dialog' # None /\ dialog'.importing = None
  BY <1>2, <1>4, <1>5, <1>7, ImportFacts
<1>9. \A c \in sealed' : ~c.live
  BY <1>6, <1>7, ImportOvertakenCalls DEF ImportCore
<1>10. Heard' /\ Used' /\ Import!TokenOfThePreview'
  BY <1>2, <1>7, <1>8, <1>9, <1>4, <1>5 DEF Heard, Used, Import!TokenOfThePreview
<1>11. Import!GivenIsLast' /\ Import!ReadsAreOfTheLast' /\ Import!PreviewIsOfTheLast'
  <2>1. \A r \in files_' : ~r.live
    BY <1>1, <1>6
  <2>2. Import!GivenIsLast'
    BY <1>1, <1>2, <1>4, <1>5, <1>7, <1>8 DEF ImportCore, Import!GivenIsLast
  <2>3. Import!PreviewIsOfTheLast'
    BY <1>1, <1>2, <1>4, <1>5, <1>7, <1>8
    DEF ImportCore, Import!PreviewIsOfTheLast, Import!Sends
  <2>4. QED
    BY <2>1, <2>2, <2>3 DEF Import!ReadsAreOfTheLast
<1>12. CASE Import!Discard \/ UNCHANGED <<token, cancels>>
  <2>1. Keeps
    BY <1>1, <1>7, <1>12 DEF Keeps
  <2>2. QED
    BY <1>1, <1>2, <1>4, <1>5, <1>7, <1>8, <1>10, <1>11, <2>1, ImportKeeps DEF ImportCore,
       Import!TypeOK
\* The token goes without a request: its plaintext is used, or the session has ended.
<1>13. CASE sealedOne /\ token' = None /\ cancels' = cancels
  <2>1. locked \/ token \notin retained
    BY <1>1, <1>13 DEF ImportCore, Used
  <2>2. /\ sealed' \in SUBSET Import!Calls /\ \A c \in sealed' : c.id <= parses'
        /\ Numbered'
        /\ \A e \in sealed : \E c \in sealed' : c.id = e.id /\ c.state = e.state
    BY <1>1, <1>7, <1>13, ImportOvertakenNumbered DEF ImportCore
  <2>3. Owned'
    BY <1>1, <1>13, <2>1, <2>2 DEF ImportCore, Owned
  <2>4. QED
    BY <1>1, <1>2, <1>4, <1>5, <1>7, <1>8, <1>10, <1>11, <1>13, <2>2, <2>3 DEF ImportCore,
       Import!TypeOK
<1>14. QED
  BY <1>7, <1>12, <1>13

\* Every step of the dialog and of the main process.
LEMMA ImportNextIInv ==
  Import!IInv /\ [Import!Next]_importVars => Import!IInv'
<1> SUFFICES ASSUME ImportCore, [Import!Next]_importVars PROVE ImportCore'
  BY ImportRest, ImportRestStays
<1>1. CASE UNCHANGED importVars
  BY <1>1 DEF importVars, ImportCore, Import!TypeOK, Numbered, Heard, Owned, Used,
     Import!TokenOfThePreview, Import!GivenIsLast, Import!ReadsAreOfTheLast,
     Import!PreviewIsOfTheLast, Import!Sends
<1>2. CASE Import!UserStep
  BY <1>2, ImportChooseSource, ImportReplaceText, ImportHandleFile, ImportHandleImageFiles,
     ImportTypePassword, ImportParseImages, ImportParseTable, ImportParsePlain,
     ImportParseSealed, ImportHandleBack, ImportToggleRow, ImportHandleImport
  DEF Import!UserStep
<1>3. CASE Import!ReadStep
  BY <1>3, ImportFileRead, ImportImagesRead DEF Import!ReadStep
<1>4. CASE Import!CallStep
  BY <1>4, ImportReceiveCall, ImportDecrypted, ImportAnswered DEF Import!CallStep
<1>5. QED
  BY <1>1, <1>2, <1>3, <1>4, ImportOpenDialog, ImportCloseDialog, ImportCancelled,
     ImportExpire,
     ImportChangeDestination, ImportCommitImport, ImportAnsweredStays, ImportLock
  DEF Import!Next

-----------------------------------------------------------------------------
(* The panel of the menu bar. *)

\* What the assumptions on the constants say.
LEMMA PanelFacts ==
  /\ Blank \in Queries /\ None \notin Queries
  /\ None \notin Panel!Requests /\ None \notin Panel!Pendings
  BY PanelAssumption

\* The fields of a call, by its kind.
LEMMA PanelCallFields ==
  \A c \in Panel!Calls :
    /\ c.kind \in {"status", "lock", "openApp", "search", "copy", "view", "create"}
    /\ c.id \in Nat /\ c.session \in Nat
    /\ c.kind = "search" => c.query \in Queries
    /\ c.kind \in {"copy", "view"} => c.field \in SecretFields /\ c.live \in BOOLEAN
    /\ c.kind = "create" => c.name \in Queries /\ c.of \in Nat
<1> SUFFICES ASSUME NEW c \in Panel!Calls
             PROVE  /\ c.kind \in {"status", "lock", "openApp", "search", "copy", "view", "create"}
                    /\ c.id \in Nat /\ c.session \in Nat
                    /\ c.kind = "search" => c.query \in Queries
                    /\ c.kind \in {"copy", "view"} =>
                         c.field \in SecretFields /\ c.live \in BOOLEAN
                    /\ c.kind = "create" => c.name \in Queries /\ c.of \in Nat
  OBVIOUS
<1>1. CASE c \in [kind : {"status"}, id : Nat, session : Nat, ends : BOOLEAN]
  BY <1>1
<1>2. CASE c \in [kind : {"lock", "openApp"}, id : Nat, session : Nat]
  BY <1>2
<1>3. CASE c \in [kind : {"search"}, id : Nat, query : Queries, session : Nat]
  BY <1>3
<1>4. CASE c \in [kind : Panel!FieldActions, id : Nat, field : SecretFields, live : BOOLEAN,
                  session : Nat]
  BY <1>4 DEF Panel!FieldActions
<1>5. CASE c \in [kind : {"create"}, id : Nat, name : Queries, of : Nat, session : Nat]
  BY <1>5
<1>6. QED
  BY <1>1, <1>2, <1>3, <1>4, <1>5 DEF Panel!Calls

\* An overtaken field call is the same but for its right to answer.
LEMMA PanelOvertakes ==
  ASSUME NEW c \in Panel!Calls, c.kind \in {"copy", "view"}
  PROVE  LET d == [c EXCEPT !.live = FALSE] IN
         d \in Panel!Calls /\ d.kind = c.kind /\ d.id = c.id /\ d.session = c.session /\ ~d.live
<1>1. c \in [kind : Panel!FieldActions, id : Nat, field : SecretFields, live : BOOLEAN,
             session : Nat]
  <2>1. ~(c \in [kind : {"status"}, id : Nat, session : Nat, ends : BOOLEAN])
    OBVIOUS
  <2>2. ~(c \in [kind : {"lock", "openApp"}, id : Nat, session : Nat])
    OBVIOUS
  <2>3. ~(c \in [kind : {"search"}, id : Nat, query : Queries, session : Nat])
    OBVIOUS
  <2>4. ~(c \in [kind : {"create"}, id : Nat, name : Queries, of : Nat, session : Nat])
    OBVIOUS
  <2>5. QED
    BY <2>1, <2>2, <2>3, <2>4 DEF Panel!Calls
<1>2. /\ [c EXCEPT !.live = FALSE] \in [kind : Panel!FieldActions, id : Nat, field : SecretFields,
                                        live : BOOLEAN, session : Nat]
      /\ [c EXCEPT !.live = FALSE].kind = c.kind /\ [c EXCEPT !.live = FALSE].id = c.id
      /\ [c EXCEPT !.live = FALSE].session = c.session /\ ~[c EXCEPT !.live = FALSE].live
  BY <1>1
<1>3. QED
  BY <1>2 DEF Panel!Calls

\* The searches on their way.
SearchCalls == {c \in calls : c.kind = "search"}

\* A new generation takes the right to answer from every field call.
LEMMA PanelGeneration ==
  ASSUME Panel!TypeOK
  PROVE  /\ Panel!NewGeneration \in SUBSET Panel!Calls
         /\ \A c \in Panel!NewGeneration :
              /\ \E d \in calls : c.id = d.id /\ c.session = d.session
              /\ c.kind \in {"copy", "view"} => ~c.live
         /\ {c \in Panel!NewGeneration : c.kind = "search"} = SearchCalls
<1>1. \A c \in Panel!FieldCalls :
        LET d == [c EXCEPT !.live = FALSE] IN
        d \in Panel!Calls /\ d.kind = c.kind /\ d.id = c.id /\ d.session = c.session /\ ~d.live
  BY PanelOvertakes DEF Panel!FieldCalls, Panel!TypeOK
<1>2. calls \in SUBSET Panel!Calls
  BY DEF Panel!TypeOK
<1>3. \A c \in Panel!Overtaken(Panel!FieldCalls) :
        /\ c \in Panel!Calls /\ c.kind \in {"copy", "view"} /\ ~c.live
        /\ \E d \in calls : c.id = d.id /\ c.session = d.session
  BY <1>1, ZenonT(60) DEF Panel!Overtaken, Panel!FieldCalls
<1>4. QED
  BY <1>2, <1>3 DEF Panel!NewGeneration, Panel!FieldCalls, SearchCalls

\* And from every picture.
LEMMA PanelOvertakenReads ==
  ASSUME NEW S \in SUBSET [of : Nat, live : BOOLEAN]
  PROVE  /\ Panel!Overtaken(S) \in SUBSET [of : Nat, live : BOOLEAN]
         /\ \A r \in Panel!Overtaken(S) : ~r.live
<1>1. \A r \in S :
        /\ [r EXCEPT !.live = FALSE] \in [of : Nat, live : BOOLEAN]
        /\ ~[r EXCEPT !.live = FALSE].live
  OBVIOUS
<1>2. QED
  BY <1>1 DEF Panel!Overtaken

\* The invariant but for the searches.
PanelCore == /\ Panel!TypeOK /\ Panel!NothingLeft /\ Panel!RevealsExpire /\ Panel!DraftIsRecent
        /\ Panel!LiveIsOfThisPanel

\* The numbers and sessions of calls go the same way, whatever is answered or begun.
PanelCallsInOrder ==
  /\ \A c \in calls : c.id <= begun /\ c.session <= opened
  /\ \A c, d \in calls : c.id < d.id => c.session <= d.session

LEMMA PanelOrder ==
  ASSUME Panel!TypeOK, calls' \in SUBSET Panel!Calls,
         opened' \in Nat, opened' >= opened, begun' \in {begun, begun + 1},
         \A c \in calls' : \/ \E d \in calls : c.id = d.id /\ c.session = d.session
                           \/ begun' = begun + 1 /\ c.id = begun' /\ c.session = opened'
  PROVE  PanelCallsInOrder' /\ begun' \in Nat
<1>1. begun \in Nat /\ opened \in Nat /\ PanelCallsInOrder /\ calls \in SUBSET Panel!Calls
  BY DEF Panel!TypeOK, PanelCallsInOrder
<1>2. begun' \in Nat /\ begun' >= begun
  BY <1>1
<1>3. \A c \in calls : c.id \in Nat /\ c.session \in Nat
  BY <1>1, PanelCallFields
<1>4. \A c \in calls' : c.id <= begun' /\ c.session <= opened'
  BY <1>1, <1>2, <1>3 DEF PanelCallsInOrder
<1>5. ASSUME NEW c \in calls', NEW d \in calls', c.id < d.id PROVE c.session <= d.session
  <2>1. CASE begun' = begun + 1 /\ d.id = begun' /\ d.session = opened'
    BY <1>4, <2>1
  <2>2. CASE \E e \in calls : d.id = e.id /\ d.session = e.session
    <3>1. PICK e \in calls : d.id = e.id /\ d.session = e.session
      BY <2>2
    <3>2. CASE \E f \in calls : c.id = f.id /\ c.session = f.session
      BY <1>1, <1>5, <3>1, <3>2 DEF PanelCallsInOrder
    <3>3. CASE begun' = begun + 1 /\ c.id = begun'
      BY <1>1, <1>3, <1>5, <3>1, <3>3 DEF PanelCallsInOrder
    <3>4. QED
      BY <3>2, <3>3
  <2>3. QED
    BY <2>1, <2>2
<1>6. QED
  BY <1>2, <1>4, <1>5 DEF PanelCallsInOrder

\* While the search screen is shown and no search is due, what a search depends on was the same.
LEMMA PanelSearches ==
  ASSUME PanelCore, Panel!SearchesCatchUp, PanelCore', Panel!Rerendered,
         SearchCalls' = SearchCalls, heard' >= heard, panel'.results.of \in {None,
         panel.results.of}
  PROVE  Panel!SearchesCatchUp'
<1> SUFFICES ASSUME panel'.screen = "search", ~due'
             PROVE  /\ \A c \in calls' : c.kind = "search" /\ Panel!MaySucceed(c)'
                                         /\ c.query # panel'.query => Panel!Later(c)'
                    /\ panel'.results.of \in {None, panel'.query}
                         \/ \E d \in calls' : d.kind = "search" /\ d.query = panel'.query
  BY DEF Panel!SearchesCatchUp
<1>1. panel'.status.unlocked
  BY DEF PanelCore, Panel!NothingLeft, Panel!unlocked
<1>2. panel.screen = "search" /\ ~due /\ panel'.query = panel.query
  BY <1>1 DEF Panel!Rerendered, Panel!SearchDependsOn
<1>3. \A c \in calls' : c.kind = "search" => c \in calls
  BY DEF SearchCalls
<1>4. \A c \in calls : c.kind = "search" => c \in calls'
  BY DEF SearchCalls
<1>5. \A c \in calls : Panel!MaySucceed(c)' => Panel!MaySucceed(c)
  BY PanelCallFields DEF Panel!MaySucceed, PanelCore, Panel!TypeOK
<1>6. ASSUME NEW c \in calls', c.kind = "search", Panel!MaySucceed(c)', c.query # panel'.query
      PROVE  Panel!Later(c)'
  <2>1. Panel!Later(c)
    BY <1>2, <1>3, <1>5, <1>6 DEF Panel!SearchesCatchUp
  <2>2. QED
    BY <1>2, <1>4, <2>1 DEF Panel!Later
<1>7. QED
  BY <1>2, <1>4, <1>6 DEF Panel!SearchesCatchUp

\* At rest the results are of the query.
LEMMA PanelResults == Panel!SearchesCatchUp => Panel!ResultsOfTheQuery
  BY DEF Panel!SearchesCatchUp, Panel!ResultsOfTheQuery

\* The panel is empty at first.
LEMMA PanelInitIInv == Panel!Init => Panel!IInv
<1> SUFFICES ASSUME Panel!Init PROVE Panel!IInv
  OBVIOUS
<1> DEFINE c == [kind |-> "status", id |-> 1, session |-> opened, ends |-> FALSE]
<1>1. /\ opened \in {1, 2} /\ heard = 0 /\ calls = {c} /\ begun = 1
      /\ c \in [kind : {"status"}, id : Nat, session : Nat, ends : BOOLEAN]
      /\ c.kind = "status" /\ c.id = 1 /\ c.session = opened
  BY DEF Panel!Init
<1> HIDE DEF c
<1>2. c \in Panel!Calls
  BY <1>1 DEF Panel!Calls
<1>3. panel \in Panel!Panels
  BY PanelFacts DEF Panel!Init, Panel!Panels, Panel!Locked, Panel!NoResults
<1>4. Panel!TypeOK
  <2>1. /\ focused = FALSE /\ due = FALSE /\ pasted = 0 /\ cleared = 0
        /\ reads = {} /\ timers = {} /\ asked = {}
    BY DEF Panel!Init
  <2>2. /\ \A d \in calls : d.id = 1 /\ d.session = opened
        /\ calls \in SUBSET Panel!Calls
    BY <1>1, <1>2
  <2>3. opened \in Nat /\ heard <= opened /\ begun \in Nat
    BY <1>1
  <2>4. /\ \A d \in calls : d.id <= begun /\ d.session <= opened
        /\ \A d, e \in calls : d.id < e.id => d.session <= e.session
    BY <1>1, <2>2, <2>3
  <2>5. {begun, pasted, cleared, opened, heard} \subseteq Nat /\ cleared <= pasted
    BY <1>1, <2>1, <2>3
  <2>6. /\ focused \in BOOLEAN /\ due \in BOOLEAN /\ asked \in SUBSET SecretFields
        /\ reads \in SUBSET [of : Nat, live : BOOLEAN]
        /\ timers \in SUBSET [id : Nat, field : SecretFields]
    BY <2>1
  <2>7. QED
    BY <1>3, <2>2, <2>3, <2>4, <2>5, <2>6 DEF Panel!TypeOK
<1>5. Panel!NothingLeft /\ Panel!RevealsExpire /\ Panel!DraftIsRecent /\ Panel!LiveIsOfThisPanel
  BY <1>1 DEF Panel!Init, Panel!NothingLeft, Panel!RevealsExpire, Panel!DraftIsRecent,
     Panel!LiveIsOfThisPanel, Panel!FieldCalls
<1>6. Panel!SearchesCatchUp
  BY DEF Panel!Init, Panel!SearchesCatchUp
<1>7. QED
  BY <1>4, <1>5, <1>6, PanelResults DEF Panel!IInv

\* A panel with nothing in it.
PanelBare == /\ panel.screen = "home" /\ panel.revealed = {} /\ panel.request = None
        /\ panel.text = 0 /\ panel.image = 0 /\ panel.name = Blank

\* Emptying a panel leaves no secret and no draft in it.
LEMMA PanelEmptied ==
  ASSUME NEW p \in Panel!Panels
  PROVE  /\ Panel!Emptied(p) \in Panel!Panels
         /\ Panel!Emptied(p).screen = "home" /\ Panel!Emptied(p).revealed = {}
         /\ Panel!Emptied(p).request = None /\ Panel!Emptied(p).text = 0
         /\ Panel!Emptied(p).image = 0 /\ Panel!Emptied(p).name = Blank
         /\ Panel!Emptied(p).results = p.results
  BY PanelFacts DEF Panel!Emptied, Panel!Panels

\* The panel is emptied, and nothing that is under way may fill it again.
LEMMA PanelClears ==
  ASSUME PanelCore, due' \in BOOLEAN, focused' \in BOOLEAN, panel' \in Panel!Panels, PanelBare',
         calls' \in SUBSET Panel!NewGeneration, reads' = Panel!Overtaken(reads),
         asked' = {}, cleared' = pasted, UNCHANGED <<timers, opened, begun, pasted>>,
         heard' \in Nat, heard' <= opened
  PROVE  PanelCore'
<1>1. Panel!TypeOK
  BY DEF PanelCore
<1>2. /\ calls' \in SUBSET Panel!Calls
      /\ \A c \in calls' : /\ \E d \in calls : c.id = d.id /\ c.session = d.session
                           /\ c.kind \in {"copy", "view"} => ~c.live
  BY <1>1, PanelGeneration
<1>3. /\ reads' \in SUBSET [of : Nat, live : BOOLEAN] /\ \A r \in reads' : ~r.live
  BY <1>1, PanelOvertakenReads DEF Panel!TypeOK
<1>4. PanelCallsInOrder' /\ begun' \in Nat
  BY <1>1, <1>2, PanelOrder DEF Panel!TypeOK
<1>5. Panel!TypeOK'
  BY <1>1, <1>2, <1>3, <1>4 DEF Panel!TypeOK, PanelCallsInOrder
<1>6. QED
  BY <1>2, <1>3, <1>5
  DEF PanelCore, PanelBare, Panel!NothingLeft, Panel!RevealsExpire, Panel!DraftIsRecent,
      Panel!LiveIsOfThisPanel, Panel!FieldCalls

\* What a step does to the searches, if it is none of theirs.
OffSearch ==
  SearchCalls' = SearchCalls /\ heard' >= heard /\ panel'.results.of \in {None, panel.results.of}

\* One lemma for each operation.
LEMMA PanelBlurs ==
  ASSUME PanelCore, due' \in BOOLEAN, Panel!Blur \/ Panel!goHome PROVE PanelCore' /\ OffSearch
<1>1. /\ Panel!clearSensitivePanelState /\ focused' \in BOOLEAN
      /\ UNCHANGED <<timers, opened, heard, visits, begun, pasted>>
  BY DEF Panel!Blur, Panel!goHome
<1>2. Panel!TypeOK
  BY DEF PanelCore
<1>3. /\ panel' \in Panel!Panels /\ PanelBare' /\ panel'.results = panel.results
  BY <1>1, <1>2, PanelEmptied DEF Panel!TypeOK, Panel!clearSensitivePanelState, PanelBare
<1>4. PanelCore'
  BY <1>1, <1>2, <1>3, PanelClears DEF Panel!TypeOK, Panel!clearSensitivePanelState
<1>5. OffSearch
  BY <1>1, <1>2, <1>3, PanelGeneration
  DEF OffSearch, SearchCalls, Panel!TypeOK, Panel!clearSensitivePanelState
<1>6. QED
  BY <1>4, <1>5

\* A new call is after all others, and in the session of now.
LEMMA PanelBegins ==
  ASSUME PanelCore, NEW c \in Panel!Calls, NEW S \in SUBSET calls, calls' = S \cup {c},
         begun' = begun + 1, c.id = begun', opened' \in Nat, opened' >= opened,
         c.session = opened'
  PROVE  PanelCallsInOrder' /\ begun' \in Nat /\ calls' \in SUBSET Panel!Calls
<1>1. Panel!TypeOK /\ calls \in SUBSET Panel!Calls
  BY DEF PanelCore, Panel!TypeOK
<1>2. QED
  BY <1>1, PanelOrder

\* Calls that go leave the others in order.
LEMMA PanelEnds ==
  ASSUME PanelCore, NEW c, calls' = calls \ {c}, begun' = begun, opened' = opened
  PROVE  PanelCallsInOrder' /\ calls' \in SUBSET Panel!Calls
<1>1. Panel!TypeOK /\ calls \in SUBSET Panel!Calls /\ opened \in Nat
  BY DEF PanelCore, Panel!TypeOK
<1>2. QED
  BY <1>1, PanelOrder

\* A request for the status is a call.
LEMMA PanelAsks ==
  ASSUME PanelCore, NEW ends \in BOOLEAN, NEW c, c = Panel!AskStatus(ends)
  PROVE  c \in Panel!Calls /\ c.kind = "status" /\ c.id = begun + 1 /\ c.session = opened
<1>1. begun \in Nat /\ opened \in Nat
  BY DEF PanelCore, Panel!TypeOK
<1>2. /\ c \in [kind : {"status"}, id : Nat, session : Nat, ends : BOOLEAN]
      /\ c.kind = "status" /\ c.id = begun + 1 /\ c.session = opened
  BY <1>1 DEF Panel!AskStatus
<1>3. QED
  BY <1>2 DEF Panel!Calls

\* The panel comes to the front.
LEMMA PanelFocus ==
  ASSUME PanelCore, due' \in BOOLEAN, Panel!Focus PROVE PanelCore' /\ OffSearch
<1> DEFINE c == Panel!AskStatus(FALSE)
<1>1. /\ focused' = TRUE /\ ~focused /\ begun' = begun + 1 /\ calls' = calls \cup {c}
      /\ UNCHANGED <<panel, reads, timers, opened, heard, pasted, asked, cleared>>
  BY DEF Panel!Focus
<1>2. c \in Panel!Calls /\ c.kind = "status" /\ c.id = begun + 1 /\ c.session = opened
  BY PanelAsks DEF PanelCore, Panel!TypeOK
<1> HIDE DEF c
<1>3. PanelCallsInOrder' /\ begun' \in Nat /\ calls' \in SUBSET Panel!Calls
  <2>1. opened' \in Nat /\ opened' >= opened /\ c.session = opened' /\ calls \in SUBSET calls
    BY <1>1, <1>2 DEF PanelCore, Panel!TypeOK
  <2>2. QED
    BY <1>1, <1>2, <2>1, PanelBegins
<1>4. Panel!TypeOK'
  BY <1>1, <1>3 DEF PanelCore, Panel!TypeOK, PanelCallsInOrder
<1>5. QED
  BY <1>1, <1>2, <1>4
  DEF PanelCore, OffSearch, SearchCalls, Panel!TypeOK, Panel!NothingLeft,
      Panel!RevealsExpire,
      Panel!DraftIsRecent, Panel!LiveIsOfThisPanel, Panel!FieldCalls, Panel!unlocked

\* The vault is locked or opened somewhere else.
LEMMA PanelLocks ==
  ASSUME PanelCore, due' \in BOOLEAN, Panel!LockOrUnlock PROVE PanelCore' /\ OffSearch
<1>1. /\ opened' = opened + 1
      /\ UNCHANGED <<focused, panel, reads, calls, timers, heard, begun, pasted, asked, cleared>>
  BY DEF Panel!LockOrUnlock
<1>2. Panel!TypeOK
  BY DEF PanelCore
<1>3. PanelCallsInOrder' /\ begun' \in Nat /\ opened' \in Nat
  BY <1>1, <1>2, PanelOrder DEF Panel!TypeOK
<1>4. Panel!TypeOK'
  BY <1>1, <1>2, <1>3 DEF Panel!TypeOK, PanelCallsInOrder
<1>5. QED
  BY <1>1, <1>4
  DEF PanelCore, OffSearch, SearchCalls, Panel!TypeOK, Panel!NothingLeft,
      Panel!RevealsExpire,
      Panel!DraftIsRecent, Panel!LiveIsOfThisPanel, Panel!FieldCalls, Panel!unlocked

\* An answer is of a session that has been.
LEMMA PanelHears ==
  ASSUME PanelCore, NEW c \in calls, Panel!Ends(c)
  PROVE  heard' \in Nat /\ heard' <= opened /\ heard' >= heard /\ heard' >= c.session
<1>1. heard \in Nat /\ opened \in Nat /\ heard <= opened /\ c \in Panel!Calls /\ c.session <= opened
  BY DEF PanelCore, Panel!TypeOK
<1>2. c.session \in Nat
  BY <1>1, PanelCallFields
<1>3. QED
  BY <1>1, <1>2 DEF Panel!Ends

\* The status says the vault is open, or it empties the panel.
LEMMA PanelStatusAnswered ==
  ASSUME PanelCore, due' \in BOOLEAN, NEW c \in calls, Panel!StatusAnswered(c)
  PROVE  PanelCore' /\ OffSearch
<1>1. PICK pin \in BOOLEAN :
        LET status == IF Panel!Open(c.session) THEN [unlocked |-> TRUE, pin |-> pin]
                      ELSE Panel!Locked
            p == [panel EXCEPT !.status = status, !.busy = @ /\ ~c.ends]
        IN IF status.unlocked
           THEN panel' = p /\ calls' = calls \ {c} /\ UNCHANGED <<reads, asked, cleared>>
           ELSE /\ panel' = [Panel!Emptied(p) EXCEPT !.results = Panel!NoResults]
                /\ calls' = Panel!NewGeneration \ {c} /\ reads' = Panel!Overtaken(reads)
                /\ asked' = {} /\ cleared' = pasted
  BY DEF Panel!StatusAnswered
<1> DEFINE status == IF Panel!Open(c.session) THEN [unlocked |-> TRUE, pin |-> pin]
                     ELSE Panel!Locked
           p == [panel EXCEPT !.status = status, !.busy = @ /\ ~c.ends]
<1>2. /\ c.kind = "status" /\ Panel!Ends(c)
      /\ UNCHANGED <<focused, timers, opened, visits, begun, pasted>>
  BY DEF Panel!StatusAnswered
<1>3. Panel!TypeOK /\ panel \in Panel!Panels /\ focused \in BOOLEAN
  BY DEF PanelCore, Panel!TypeOK
<1>4. status \in [unlocked : BOOLEAN, pin : BOOLEAN]
  BY DEF Panel!Locked
<1> HIDE DEF status
<1>5. /\ p \in Panel!Panels /\ p.status = status /\ p.screen = panel.screen
      /\ p.revealed = panel.revealed /\ p.request = panel.request /\ p.text = panel.text
      /\ p.image = panel.image /\ p.name = panel.name /\ p.results = panel.results
  BY <1>3, <1>4 DEF Panel!Panels
<1> HIDE DEF p
<1>6. heard' \in Nat /\ heard' <= opened /\ heard' >= heard
  BY <1>2, PanelHears
<1>7. CASE status.unlocked
  <2>1. panel' = p /\ calls' = calls \ {c} /\ UNCHANGED <<reads, asked, cleared>>
    BY <1>1, <1>7 DEF p, status
  <2>2. PanelCallsInOrder' /\ calls' \in SUBSET Panel!Calls
    BY <1>2, <2>1, PanelEnds
  <2>3. Panel!TypeOK'
    BY <1>2, <1>3, <1>5, <1>6, <2>1, <2>2 DEF Panel!TypeOK, PanelCallsInOrder
  <2>4. QED
    BY <1>2, <1>5, <1>6, <1>7, <2>1, <2>3
    DEF PanelCore, OffSearch, SearchCalls, Panel!NothingLeft, Panel!RevealsExpire,
        Panel!DraftIsRecent, Panel!LiveIsOfThisPanel, Panel!FieldCalls, Panel!unlocked
<1>8. CASE ~status.unlocked
  <2>1. /\ panel' = [Panel!Emptied(p) EXCEPT !.results = Panel!NoResults]
        /\ calls' = Panel!NewGeneration \ {c} /\ reads' = Panel!Overtaken(reads)
        /\ asked' = {} /\ cleared' = pasted
    BY <1>1, <1>8 DEF p, status
  <2>2. Panel!Emptied(p) \in Panel!Panels
    BY <1>5, PanelEmptied
  <2>3. panel' \in Panel!Panels /\ panel'.results.of = None
    BY <2>1, <2>2 DEF Panel!Panels, Panel!NoResults
  <2>4. PanelBare'
    BY <1>5, <2>1, <2>2, PanelEmptied DEF PanelBare, Panel!Panels
  <2>5. PanelCore'
    BY <1>2, <1>3, <1>6, <2>1, <2>3, <2>4, PanelClears
  <2>6. SearchCalls' = SearchCalls
    BY <1>2, <1>3, <2>1, PanelGeneration DEF SearchCalls
  <2>7. QED
    BY <1>6, <2>3, <2>5, <2>6 DEF OffSearch
<1>9. QED
  BY <1>7, <1>8

\* The lock, or an action that opens the application.
LEMMA PanelActs ==
  ASSUME PanelCore, due' \in BOOLEAN, NEW action \in {"lock", "openApp"},
         Panel!runPanelAction(action)
  PROVE  PanelCore' /\ OffSearch
<1> DEFINE c == [kind |-> action, id |-> begun', session |-> opened]
           p == [panel EXCEPT !.action = TRUE]
<1>1. /\ panel' = p /\ begun' = begun + 1 /\ calls' = calls \cup {c}
      /\ UNCHANGED <<focused, reads, timers, opened, heard, pasted, asked, cleared>>
  BY DEF Panel!runPanelAction
<1>2. Panel!TypeOK /\ panel \in Panel!Panels /\ begun' \in Nat /\ opened \in Nat
  BY <1>1 DEF PanelCore, Panel!TypeOK
<1>3. c \in Panel!Calls /\ c.kind = action /\ c.id = begun' /\ c.session = opened
  <2>1. c \in [kind : {"lock", "openApp"}, id : Nat, session : Nat]
    BY <1>2
  <2>2. QED
    BY <2>1 DEF Panel!Calls
<1> HIDE DEF c
<1>4. /\ p \in Panel!Panels /\ p.status = panel.status /\ p.screen = panel.screen
      /\ p.revealed = panel.revealed /\ p.request = panel.request /\ p.text = panel.text
      /\ p.image = panel.image /\ p.name = panel.name /\ p.results = panel.results
  BY <1>2 DEF Panel!Panels
<1> HIDE DEF p
<1>5. PanelCallsInOrder' /\ calls' \in SUBSET Panel!Calls
  BY <1>1, <1>2, <1>3, PanelBegins
<1>6. Panel!TypeOK'
  BY <1>1, <1>2, <1>4, <1>5 DEF Panel!TypeOK, PanelCallsInOrder
<1>7. QED
  BY <1>1, <1>2, <1>3, <1>4, <1>6
  DEF PanelCore, OffSearch, SearchCalls, Panel!TypeOK, Panel!NothingLeft,
      Panel!RevealsExpire,
      Panel!DraftIsRecent, Panel!LiveIsOfThisPanel, Panel!FieldCalls, Panel!unlocked

\* After the lock the status is asked for.
LEMMA PanelActionAnswered ==
  ASSUME PanelCore, due' \in BOOLEAN, NEW c \in calls, Panel!ActionAnswered(c)
  PROVE  PanelCore' /\ OffSearch
<1> DEFINE d == [Panel!AskStatus(FALSE) EXCEPT !.session = opened']
           p == [panel EXCEPT !.action = FALSE]
<1>1. /\ c.kind \in {"lock", "openApp"} /\ opened' \in {opened, opened + 1} /\ heard' = opened'
      /\ panel' = p /\ begun' = begun + 1 /\ calls' = (calls \ {c}) \cup {d}
      /\ UNCHANGED <<focused, reads, timers, pasted, asked, cleared>>
  BY DEF Panel!ActionAnswered
<1>2. /\ Panel!TypeOK /\ panel \in Panel!Panels /\ opened' \in Nat /\ opened' >= opened
      /\ begun \in Nat
      /\ heard' \in Nat /\ heard' >= heard /\ heard' <= opened'
  BY <1>1 DEF PanelCore, Panel!TypeOK
<1>3. d \in Panel!Calls /\ d.kind = "status" /\ d.id = begun' /\ d.session = opened'
  <2>1. /\ d \in [kind : {"status"}, id : Nat, session : Nat, ends : BOOLEAN]
        /\ d.kind = "status" /\ d.id = begun' /\ d.session = opened'
    <3>1. begun' \in Nat /\ opened' \in Nat
      BY <1>1, <1>2
    <3> DEFINE e == Panel!AskStatus(FALSE)
    <3>2. /\ e \in [kind : {"status"}, id : Nat, session : Nat, ends : BOOLEAN]
          /\ e.kind = "status" /\ e.id = begun'
      BY <1>1, <1>2, PanelAsks DEF Panel!AskStatus, PanelCore, Panel!TypeOK
    <3> HIDE DEF e
    <3>3. d = [e EXCEPT !.session = opened']
      BY DEF e
    <3> HIDE DEF d
    <3>4. QED
      BY <3>1, <3>2, <3>3
  <2>2. QED
    BY <2>1 DEF Panel!Calls
<1> HIDE DEF d
<1>4. /\ p \in Panel!Panels /\ p.status = panel.status /\ p.screen = panel.screen
      /\ p.revealed = panel.revealed /\ p.request = panel.request /\ p.text = panel.text
      /\ p.image = panel.image /\ p.name = panel.name /\ p.results = panel.results
  BY <1>2 DEF Panel!Panels
<1> HIDE DEF p
<1>5. PanelCallsInOrder' /\ calls' \in SUBSET Panel!Calls /\ begun' \in Nat
  BY <1>1, <1>2, <1>3, PanelBegins
<1>6. Panel!TypeOK'
  BY <1>1, <1>2, <1>4, <1>5 DEF Panel!TypeOK, PanelCallsInOrder
<1>7. QED
  BY <1>1, <1>2, <1>3, <1>4, <1>6
  DEF PanelCore, OffSearch, SearchCalls, Panel!TypeOK, Panel!NothingLeft,
      Panel!RevealsExpire,
      Panel!DraftIsRecent, Panel!LiveIsOfThisPanel, Panel!FieldCalls, Panel!unlocked

\* What the user does on the panel in front, and what it calls for none.
LEMMA PanelShows ==
  ASSUME PanelCore, due' \in BOOLEAN, NEW p \in Panel!Panels, Panel!Shows(p),
         p.status = panel.status,
         p.results = panel.results,
         p.revealed \in SUBSET panel.revealed,
         Panel!unlocked \/ panel' = panel \/ panel.screen # "home",
         UNCHANGED <<calls, begun>>, pasted' \in Nat, cleared' \in Nat, cleared' <= pasted',
         reads' \in SUBSET [of : Nat, live : BOOLEAN],
         \A r \in reads' : r.live => Panel!unlocked /\ cleared' < r.of /\ r.of <= pasted',
         {p.text, p.image} \subseteq {0} \cup cleared' + 1..pasted'
  PROVE  PanelCore' /\ OffSearch
<1>1. /\ panel' = p /\ focused /\ UNCHANGED <<focused, timers, opened, heard, asked>>
  BY DEF Panel!Shows
<1>2. Panel!unlocked \/ panel' = panel
  BY <1>1 DEF PanelCore, Panel!NothingLeft
<1>3. Panel!TypeOK'
  BY <1>1 DEF PanelCore, Panel!TypeOK
<1>4. Panel!NothingLeft'
  BY <1>1, <1>2 DEF PanelCore, Panel!NothingLeft, Panel!unlocked
<1>5. Panel!RevealsExpire' /\ Panel!DraftIsRecent'
  BY <1>1 DEF PanelCore, Panel!RevealsExpire, Panel!DraftIsRecent
<1>6. Panel!LiveIsOfThisPanel'
  BY <1>1 DEF PanelCore, Panel!LiveIsOfThisPanel, Panel!FieldCalls, Panel!unlocked
<1>7. OffSearch
  BY <1>1 DEF OffSearch, SearchCalls, PanelCore, Panel!TypeOK
<1>8. QED
  BY <1>3, <1>4, <1>5, <1>6, <1>7 DEF PanelCore

\* The same, and no reading either.
LEMMA PanelShowsOnly ==
  ASSUME PanelCore, due' \in BOOLEAN, NEW p \in Panel!Panels, Panel!Shows(p),
         p.status = panel.status,
         p.results = panel.results, p.revealed \in SUBSET panel.revealed,
         Panel!unlocked \/ panel' = panel \/ panel.screen # "home",
         p.text = panel.text, p.image = panel.image,
         UNCHANGED <<reads, calls, begun, pasted, cleared>>
  PROVE  PanelCore' /\ OffSearch
<1>1. {panel.text, panel.image} \subseteq {0} \cup cleared' + 1..pasted'
  BY DEF PanelCore, Panel!DraftIsRecent
<1>2. /\ pasted' \in Nat /\ cleared' \in Nat /\ cleared' <= pasted'
      /\ reads' \in SUBSET [of : Nat, live : BOOLEAN]
      /\ \A r \in reads' : r.live => Panel!unlocked /\ cleared' < r.of /\ r.of <= pasted'
  BY DEF PanelCore, Panel!TypeOK, Panel!LiveIsOfThisPanel
<1>3. QED
  BY <1>1, <1>2, PanelShows

\* The search screen, its letters and the PIN.
LEMMA PanelSmallSteps ==
  ASSUME PanelCore, due' \in BOOLEAN,
         \/ Panel!OpenSearch \/ \E q \in Queries : Panel!TypeQuery(q) \/ Panel!TypeName(q)
         \/ Panel!EditRequest
  PROVE  PanelCore' /\ OffSearch
<1>1. panel \in Panel!Panels
  BY DEF PanelCore, Panel!TypeOK
<1>2. CASE Panel!OpenSearch
  <2>1. [panel EXCEPT !.screen = "search"] \in Panel!Panels
    BY <1>1 DEF Panel!Panels
  <2>2. QED
    BY <1>1, <1>2, <2>1, PanelShowsOnly DEF Panel!OpenSearch, Panel!Panels
<1>3. ASSUME NEW q \in Queries, Panel!TypeQuery(q) PROVE PanelCore' /\ OffSearch
  <2>1. [panel EXCEPT !.query = q] \in Panel!Panels
    BY <1>1 DEF Panel!Panels
  <2>2. QED
    BY <1>1, <1>3, <2>1, PanelShowsOnly DEF Panel!TypeQuery, Panel!Panels
<1>4. ASSUME NEW q \in Queries, Panel!TypeName(q) PROVE PanelCore' /\ OffSearch
  <2>1. [panel EXCEPT !.name = q] \in Panel!Panels
    BY <1>1 DEF Panel!Panels
  <2>2. panel.screen # "home"
    BY <1>4 DEF Panel!TypeName
  <2>3. QED
    BY <1>1, <1>4, <2>1, <2>2, PanelShowsOnly DEF Panel!TypeName, Panel!Panels
<1>5. CASE Panel!EditRequest
  <2>1. PICK request \in {None, [panel.request EXCEPT !.pin = TRUE]} :
          Panel!Shows([panel EXCEPT !.request = request])
    BY <1>5 DEF Panel!EditRequest
  <2>2. panel.request \in Panel!Requests /\ Panel!unlocked
    BY <1>1, <1>5 DEF Panel!EditRequest, Panel!Searching, Panel!Panels
  <2>3. request \in Panel!Requests \cup {None}
    BY <2>1, <2>2 DEF Panel!Requests
  <2>4. [panel EXCEPT !.request = request] \in Panel!Panels
    BY <1>1, <2>3 DEF Panel!Panels
  <2>5. QED
    BY <1>1, <1>5, <2>1, <2>2, <2>4, PanelShowsOnly DEF Panel!EditRequest, Panel!Panels
<1>6. QED
  BY <1>2, <1>3, <1>4, <1>5

\* A field is asked for.
LEMMA PanelRunField ==
  ASSUME PanelCore, due' \in BOOLEAN, NEW a \in {"copy", "view"}, NEW f \in SecretFields,
         Panel!unlocked, Panel!runFieldAction(panel, a, f)
  PROVE  PanelCore' /\ OffSearch
<1> DEFINE c == [kind |-> a, id |-> begun', field |-> f, live |-> TRUE, session |-> opened]
           d == [action |-> a, field |-> f]
           p == [panel EXCEPT !.pending = d]
<1>1. /\ panel' = p /\ begun' = begun + 1 /\ calls' = calls \cup {c} /\ asked' = asked \cup {f}
      /\ focused /\ UNCHANGED <<focused, reads, timers, opened, heard, pasted, cleared>>
  BY DEF Panel!runFieldAction
<1>2. Panel!TypeOK /\ panel \in Panel!Panels /\ begun' \in Nat /\ opened \in Nat
  BY <1>1 DEF PanelCore, Panel!TypeOK
<1>3. c \in Panel!Calls /\ c.kind = a /\ c.id = begun' /\ c.session = opened /\ c.field = f
  <2>1. c \in [kind : Panel!FieldActions, id : Nat, field : SecretFields, live : BOOLEAN,
               session : Nat]
    BY <1>2 DEF Panel!FieldActions
  <2>2. QED
    BY <2>1 DEF Panel!Calls
<1> HIDE DEF c
<1>4. d \in Panel!Pendings
  BY DEF Panel!Pendings, Panel!FieldActions
<1> HIDE DEF d
<1>5. /\ p \in Panel!Panels /\ p.status = panel.status /\ p.screen = panel.screen
      /\ p.revealed = panel.revealed /\ p.request = panel.request /\ p.text = panel.text
      /\ p.image = panel.image /\ p.name = panel.name /\ p.results = panel.results
  BY <1>2, <1>4 DEF Panel!Panels
<1> HIDE DEF p
<1>6. PanelCallsInOrder' /\ calls' \in SUBSET Panel!Calls
  BY <1>1, <1>2, <1>3, PanelBegins
<1>7. Panel!TypeOK'
  BY <1>1, <1>2, <1>5, <1>6 DEF Panel!TypeOK, PanelCallsInOrder
<1>8. QED
  BY <1>1, <1>2, <1>3, <1>5, <1>7
  DEF PanelCore, OffSearch, SearchCalls, Panel!TypeOK, Panel!NothingLeft,
      Panel!RevealsExpire,
      Panel!DraftIsRecent, Panel!LiveIsOfThisPanel, Panel!FieldCalls, Panel!unlocked

\* It is asked for at once or with the PIN.
LEMMA PanelRequests ==
  ASSUME PanelCore, due' \in BOOLEAN, NEW a \in {"copy", "view"}, NEW f \in SecretFields,
         Panel!requestFieldAction(a, f)
  PROVE  PanelCore' /\ OffSearch
<1>1. panel \in Panel!Panels /\ Panel!unlocked
  BY DEF PanelCore, Panel!TypeOK, Panel!requestFieldAction, Panel!Searching
<1> DEFINE p == [panel EXCEPT !.revealed = @ \ {f}]
           r == [action |-> a, field |-> f, pin |-> FALSE]
           q == [panel EXCEPT !.request = r]
<1>2. CASE Panel!Shows(p) /\ UNCHANGED <<reads, calls, begun, pasted, cleared>>
  <2>1. /\ p \in Panel!Panels /\ p.status = panel.status /\ p.results = panel.results
        /\ p.revealed = panel.revealed \ {f} /\ p.text = panel.text /\ p.image = panel.image
    BY <1>1 DEF Panel!Panels
  <2> HIDE DEF p
  <2>2. QED
    BY <1>1, <1>2, <2>1, PanelShowsOnly
<1>3. CASE Panel!Shows(q) /\ UNCHANGED <<reads, calls, begun, pasted, cleared>>
  <2>1. r \in Panel!Requests
    BY DEF Panel!Requests, Panel!FieldActions
  <2> HIDE DEF r
  <2>2. /\ q \in Panel!Panels /\ q.status = panel.status /\ q.results = panel.results
        /\ q.revealed = panel.revealed /\ q.text = panel.text /\ q.image = panel.image
    BY <1>1, <2>1 DEF Panel!Panels
  <2> HIDE DEF q
  <2>3. QED
    BY <1>1, <1>3, <2>2, PanelShowsOnly
<1>4. CASE Panel!runFieldAction(panel, a, f)
  BY <1>1, <1>4, PanelRunField
<1>5. QED
  BY <1>2, <1>3, <1>4 DEF Panel!requestFieldAction

\* The PIN was typed.
LEMMA PanelRunRequest ==
  ASSUME PanelCore, due' \in BOOLEAN, Panel!RunRequest PROVE PanelCore' /\ OffSearch
<1>1. panel.request \in Panel!Requests /\ Panel!unlocked
  BY DEF PanelCore, Panel!TypeOK, Panel!RunRequest, Panel!Searching, Panel!Panels
<1>2. panel.request.action \in {"copy", "view"} /\ panel.request.field \in SecretFields
  BY <1>1 DEF Panel!Requests, Panel!FieldActions
<1>3. QED
  BY <1>1, <1>2, PanelRunField DEF Panel!RunRequest

\* A value that is shown was asked for on this panel, and its timer runs.
LEMMA PanelFieldAnswered ==
  ASSUME PanelCore, due' \in BOOLEAN, NEW c \in calls, Panel!FieldAnswered(c)
  PROVE  PanelCore' /\ OffSearch
<1> DEFINE p == IF panel.pending = [action |-> c.kind, field |-> c.field]
                THEN [panel EXCEPT !.pending = None] ELSE panel
           q == [p EXCEPT !.request = None]
           r == [p EXCEPT !.request = None, !.revealed = @ \cup {c.field}]
           t == [id |-> c.id, field |-> c.field]
<1>1. /\ c.kind \in {"copy", "view"} /\ calls' = calls \ {c} /\ Panel!Ends(c)
      /\ UNCHANGED <<focused, reads, opened, begun, pasted, asked, cleared>>
      /\ \/ panel' = p /\ timers' = timers
         \/ c.live /\ panel' = q /\ timers' = timers
         \/ c.live /\ panel' = r /\ timers' = timers \cup {t}
  BY DEF Panel!FieldAnswered
<1>2. /\ Panel!TypeOK /\ panel \in Panel!Panels /\ c \in Panel!Calls
      /\ c.field \in SecretFields /\ c.id \in Nat
  BY <1>1, PanelCallFields DEF PanelCore, Panel!TypeOK
<1>3. /\ p \in Panel!Panels /\ p.status = panel.status /\ p.screen = panel.screen
      /\ p.revealed = panel.revealed /\ p.request = panel.request /\ p.text = panel.text
      /\ p.image = panel.image /\ p.name = panel.name /\ p.results = panel.results
  BY <1>2 DEF Panel!Panels
<1> HIDE DEF p
<1>4. /\ q \in Panel!Panels /\ q.status = panel.status /\ q.screen = panel.screen
      /\ q.revealed = panel.revealed /\ q.request = None /\ q.text = panel.text
      /\ q.image = panel.image /\ q.name = panel.name /\ q.results = panel.results
  BY <1>3 DEF Panel!Panels
<1>5. /\ r \in Panel!Panels /\ r.status = panel.status /\ r.screen = panel.screen
      /\ r.revealed = panel.revealed \cup {c.field} /\ r.request = None /\ r.text = panel.text
      /\ r.image = panel.image /\ r.name = panel.name /\ r.results = panel.results
  BY <1>2, <1>3 DEF Panel!Panels
<1>6. t \in [id : Nat, field : SecretFields] /\ t.field = c.field
  BY <1>2
<1> HIDE DEF q, r, t
<1>7. heard' \in Nat /\ heard' <= opened /\ heard' >= heard
  BY <1>1, PanelHears
<1>8. PanelCallsInOrder' /\ calls' \in SUBSET Panel!Calls
  BY <1>1, PanelEnds
<1>9. c.live => focused /\ Panel!unlocked /\ c.field \in asked
  BY <1>1 DEF PanelCore, Panel!LiveIsOfThisPanel, Panel!FieldCalls
<1>10. panel' \in Panel!Panels /\ timers' \in SUBSET [id : Nat, field : SecretFields]
  BY <1>1, <1>2, <1>3, <1>4, <1>5, <1>6 DEF Panel!TypeOK
<1>11. Panel!TypeOK'
  BY <1>1, <1>2, <1>7, <1>8, <1>10 DEF Panel!TypeOK, PanelCallsInOrder
<1>12. Panel!NothingLeft' /\ Panel!DraftIsRecent'
  BY <1>1, <1>3, <1>4, <1>5, <1>9
  DEF PanelCore, Panel!NothingLeft, Panel!DraftIsRecent, Panel!unlocked
<1>13. Panel!RevealsExpire'
  BY <1>1, <1>3, <1>4, <1>5, <1>6, <1>9 DEF PanelCore, Panel!RevealsExpire
<1>14. Panel!LiveIsOfThisPanel'
  BY <1>1, <1>3, <1>4, <1>5 DEF PanelCore, Panel!LiveIsOfThisPanel, Panel!FieldCalls,
     Panel!unlocked
<1>15. OffSearch
  BY <1>1, <1>3, <1>4, <1>5, <1>7 DEF OffSearch, SearchCalls
<1>16. QED
  BY <1>11, <1>12, <1>13, <1>14, <1>15 DEF PanelCore

\* A timer hides its field, whoever set it.
LEMMA PanelTimerFires ==
  ASSUME PanelCore, due' \in BOOLEAN, NEW t \in timers, Panel!TimerFires(t)
  PROVE  PanelCore' /\ OffSearch
<1> DEFINE p == [panel EXCEPT !.revealed = @ \ {t.field}]
<1>1. /\ timers' = timers \ {t} /\ panel' = p
      /\ UNCHANGED <<focused, reads, calls, opened, heard, begun, pasted, asked, cleared>>
  BY DEF Panel!TimerFires
<1>2. Panel!TypeOK /\ panel \in Panel!Panels
  BY DEF PanelCore, Panel!TypeOK
<1>3. /\ p \in Panel!Panels /\ p.status = panel.status /\ p.screen = panel.screen
      /\ p.revealed = panel.revealed \ {t.field} /\ p.request = panel.request
      /\ p.text = panel.text /\ p.image = panel.image /\ p.name = panel.name
      /\ p.results = panel.results
  BY <1>2 DEF Panel!Panels
<1> HIDE DEF p
<1>4. Panel!TypeOK'
  BY <1>1, <1>2, <1>3 DEF Panel!TypeOK
<1>5. Panel!RevealsExpire'
  BY <1>1, <1>3 DEF PanelCore, Panel!RevealsExpire
<1>6. QED
  BY <1>1, <1>2, <1>3, <1>4, <1>5
  DEF PanelCore, OffSearch, SearchCalls, Panel!TypeOK, Panel!NothingLeft,
      Panel!DraftIsRecent,
      Panel!LiveIsOfThisPanel, Panel!FieldCalls, Panel!unlocked

\* A picture that is taken was pasted into this draft.
LEMMA PanelImageRead ==
  ASSUME PanelCore, due' \in BOOLEAN, NEW r \in reads, Panel!ImageRead(r)
  PROVE  PanelCore' /\ OffSearch
<1> DEFINE p == [panel EXCEPT !.image = r.of, !.saved = FALSE]
<1>1. /\ reads' = reads \ {r}
      /\ panel' = panel \/ (r.live /\ panel' = p)
      /\ UNCHANGED <<focused, calls, timers, opened, heard, begun, pasted, asked, cleared>>
  BY DEF Panel!ImageRead, Panel!isCurrent
<1>2. Panel!TypeOK /\ panel \in Panel!Panels /\ r.of \in Nat /\ pasted \in Nat /\ cleared \in Nat
  BY DEF PanelCore, Panel!TypeOK
<1>3. /\ p \in Panel!Panels /\ p.status = panel.status /\ p.screen = panel.screen
      /\ p.revealed = panel.revealed /\ p.request = panel.request
      /\ p.text = panel.text /\ p.image = r.of /\ p.name = panel.name
      /\ p.results = panel.results
  BY <1>2 DEF Panel!Panels
<1> HIDE DEF p
<1>4. r.live => focused /\ Panel!unlocked /\ r.of \in cleared + 1..pasted
  BY <1>2 DEF PanelCore, Panel!LiveIsOfThisPanel
<1>5. Panel!TypeOK'
  BY <1>1, <1>2, <1>3 DEF Panel!TypeOK
<1>6. Panel!DraftIsRecent'
  BY <1>1, <1>3, <1>4 DEF PanelCore, Panel!DraftIsRecent
<1>7. QED
  BY <1>1, <1>2, <1>3, <1>4, <1>5, <1>6
  DEF PanelCore, OffSearch, SearchCalls, Panel!TypeOK, Panel!NothingLeft,
      Panel!RevealsExpire,
      Panel!LiveIsOfThisPanel, Panel!FieldCalls, Panel!unlocked

\* A draft that is gone leaves no text.
LEMMA PanelNoDraft ==
  ASSUME NEW p \in Panel!Panels
  PROVE  LET d == Panel!NoDraft(p) IN
         /\ d \in Panel!Panels /\ d.status = p.status /\ d.screen = p.screen
         /\ d.revealed = p.revealed /\ d.request = p.request /\ d.text = 0 /\ d.image = 0
         /\ d.name = Blank /\ d.results = p.results
  BY PanelFacts DEF Panel!NoDraft, Panel!Panels

\* Drafts begin, change and are cleared.
LEMMA PanelDrafts ==
  ASSUME PanelCore, due' \in BOOLEAN,
         \/ Panel!ClearDraft \/ Panel!PasteText \/ Panel!handleImagePaste
         \/ \E m \in {"text", "image"} : Panel!openQuickAdd(m) \/ Panel!ChooseMode(m)
  PROVE  PanelCore' /\ OffSearch
<1>1. /\ panel \in Panel!Panels /\ pasted \in Nat /\ cleared \in Nat /\ pasted + 1 \in Nat
      /\ cleared <= pasted
      /\ reads \in SUBSET [of : Nat, live : BOOLEAN]
      /\ Panel!Overtaken(reads) \in SUBSET [of : Nat, live : BOOLEAN]
      /\ \A r \in Panel!Overtaken(reads) : ~r.live
  BY PanelOvertakenReads DEF PanelCore, Panel!TypeOK
<1>2. /\ {panel.text, panel.image} \subseteq {0} \cup cleared + 1..pasted
      /\ panel.screen # "home" => focused /\ Panel!unlocked
      /\ \A r \in reads : r.live => Panel!unlocked /\ cleared < r.of /\ r.of <= pasted
  BY DEF PanelCore, Panel!DraftIsRecent, Panel!LiveIsOfThisPanel, Panel!NothingLeft
<1>3. ASSUME NEW m \in {"text", "image"}, Panel!openQuickAdd(m) PROVE PanelCore' /\ OffSearch
  <2> DEFINE d == Panel!NoDraft(panel)
             p == [d EXCEPT !.mode = m, !.screen = "add"]
  <2>1. /\ Panel!Shows(p) /\ reads' = Panel!Overtaken(reads) /\ cleared' = pasted
        /\ Panel!unlocked /\ UNCHANGED <<calls, begun, pasted>>
    BY <1>3 DEF Panel!openQuickAdd
  <2>2. d \in Panel!Panels /\ d.status = panel.status /\ d.revealed = panel.revealed
        /\ d.text = 0 /\ d.image = 0 /\ d.results = panel.results
    BY <1>1, PanelNoDraft
  <2> HIDE DEF d
  <2>3. p \in Panel!Panels /\ p.status = panel.status /\ p.revealed = panel.revealed
        /\ p.text = 0 /\ p.image = 0 /\ p.results = panel.results
    BY <2>2 DEF Panel!Panels
  <2> HIDE DEF p
  <2>4. QED
    BY <1>1, <2>1, <2>3, PanelShows
<1>4. CASE Panel!ClearDraft
  <2> DEFINE d == Panel!NoDraft(panel)
  <2>1. /\ Panel!Shows(d) /\ reads' = Panel!Overtaken(reads) /\ cleared' = pasted
        /\ panel.screen # "home" /\ UNCHANGED <<calls, begun, pasted>>
    BY <1>4 DEF Panel!ClearDraft
  <2>2. d \in Panel!Panels /\ d.status = panel.status /\ d.revealed = panel.revealed
        /\ d.text = 0 /\ d.image = 0 /\ d.results = panel.results
    BY <1>1, PanelNoDraft
  <2> HIDE DEF d
  <2>3. QED
    BY <1>1, <2>1, <2>2, PanelShows
<1>5. ASSUME NEW m \in {"text", "image"}, Panel!ChooseMode(m) PROVE PanelCore' /\ OffSearch
  <2> DEFINE p == [panel EXCEPT !.mode = m, !.saved = FALSE, !.image = IF m = "text" THEN 0 ELSE @]
  <2>1. /\ Panel!Shows(p) /\ reads' = Panel!Overtaken(reads)
        /\ panel.screen # "home" /\ UNCHANGED <<calls, begun, pasted, cleared>>
    BY <1>5 DEF Panel!ChooseMode
  <2>2. p \in Panel!Panels /\ p.status = panel.status /\ p.revealed = panel.revealed
        /\ p.text = panel.text /\ p.image \in {0, panel.image} /\ p.results = panel.results
    BY <1>1, ZenonT(60) DEF Panel!Panels
  <2> HIDE DEF p
  <2>3. QED
    BY <1>1, <1>2, <2>1, <2>2, PanelShows
<1>6. CASE Panel!PasteText
  <2> DEFINE p == [panel EXCEPT !.text = pasted', !.saved = FALSE]
  <2>1. /\ Panel!Shows(p) /\ pasted' = pasted + 1
        /\ panel.screen # "home" /\ UNCHANGED <<reads, calls, begun, cleared>>
    BY <1>6 DEF Panel!PasteText
  <2>2. p \in Panel!Panels /\ p.status = panel.status /\ p.revealed = panel.revealed
        /\ p.text = pasted' /\ p.image = panel.image /\ p.results = panel.results
    BY <1>1, <2>1 DEF Panel!Panels
  <2> HIDE DEF p
  <2>3. cleared <= pasted
    BY DEF PanelCore, Panel!TypeOK
  <2>4. {p.text, p.image} \subseteq {0} \cup cleared' + 1..pasted'
    BY <1>1, <1>2, <2>1, <2>2, <2>3
  <2>5. \A r \in reads' : r.live => Panel!unlocked /\ cleared' < r.of /\ r.of <= pasted'
    BY <1>1, <1>2, <2>1
  <2>6. QED
    BY <1>1, <1>2, <2>1, <2>2, <2>4, <2>5, PanelShows
<1>7. CASE Panel!handleImagePaste
  <2> DEFINE n == [of |-> pasted', live |-> TRUE]
  <2>1. /\ Panel!Shows(panel) /\ pasted' = pasted + 1 /\ reads' = Panel!Overtaken(reads) \cup {n}
        /\ panel.screen # "home" /\ UNCHANGED <<calls, begun, cleared>>
    BY <1>7 DEF Panel!handleImagePaste
  <2>2. n \in [of : Nat, live : BOOLEAN] /\ n.of = pasted'
    BY <1>1, <2>1
  <2> HIDE DEF n
  <2>3. {panel.text, panel.image} \subseteq {0} \cup cleared' + 1..pasted'
    BY <1>1, <1>2, <2>1
  <2>4. /\ reads' \in SUBSET [of : Nat, live : BOOLEAN]
        /\ \A r \in reads' : r.live => Panel!unlocked /\ cleared' < r.of /\ r.of <= pasted'
    BY <1>1, <1>2, <2>1, <2>2
  <2>5. QED
    BY <1>1, <1>2, <2>1, <2>3, <2>4, PanelShows
<1>8. QED
  BY <1>3, <1>4, <1>5, <1>6, <1>7

\* A draft is sent.
LEMMA PanelSaves ==
  ASSUME PanelCore, due' \in BOOLEAN, Panel!saveQuickAdd PROVE PanelCore' /\ OffSearch
<1> DEFINE p == [panel EXCEPT !.busy = TRUE, !.saved = FALSE]
           o == IF panel.mode = "text" THEN panel.text ELSE panel.image
           c == [kind |-> "create", id |-> begun', name |-> panel.name, of |-> o,
                 session |-> opened]
<1>1. /\ panel' = p /\ begun' = begun + 1 /\ calls' = calls \cup {c} /\ focused /\ Panel!unlocked
      /\ UNCHANGED <<focused, reads, timers, opened, heard, pasted, asked, cleared>>
  BY DEF Panel!saveQuickAdd, Panel!Shows
<1>2. /\ Panel!TypeOK /\ panel \in Panel!Panels /\ begun' \in Nat /\ opened \in Nat
      /\ o \in Nat /\ panel.name \in Queries
  BY <1>1 DEF PanelCore, Panel!TypeOK, Panel!Panels
<1> HIDE DEF o
<1>3. c \in Panel!Calls /\ c.kind = "create" /\ c.id = begun' /\ c.session = opened
  <2>1. c \in [kind : {"create"}, id : Nat, name : Queries, of : Nat, session : Nat]
    BY <1>2
  <2>2. QED
    BY <2>1 DEF Panel!Calls
<1> HIDE DEF c
<1>4. /\ p \in Panel!Panels /\ p.status = panel.status /\ p.screen = panel.screen
      /\ p.revealed = panel.revealed /\ p.request = panel.request /\ p.text = panel.text
      /\ p.image = panel.image /\ p.name = panel.name /\ p.results = panel.results
  BY <1>2 DEF Panel!Panels
<1> HIDE DEF p
<1>5. PanelCallsInOrder' /\ calls' \in SUBSET Panel!Calls
  BY <1>1, <1>2, <1>3, PanelBegins
<1>6. Panel!TypeOK'
  BY <1>1, <1>2, <1>4, <1>5 DEF Panel!TypeOK, PanelCallsInOrder
<1>7. QED
  BY <1>1, <1>2, <1>3, <1>4, <1>6
  DEF PanelCore, OffSearch, SearchCalls, Panel!TypeOK, Panel!NothingLeft,
      Panel!RevealsExpire,
      Panel!DraftIsRecent, Panel!LiveIsOfThisPanel, Panel!FieldCalls, Panel!unlocked

\* It was saved, or not.
LEMMA PanelCreateAnswered ==
  ASSUME PanelCore, due' \in BOOLEAN, NEW c \in calls, Panel!CreateAnswered(c)
  PROVE  PanelCore' /\ OffSearch
<1>1. /\ c.kind = "create" /\ Panel!Ends(c)
      /\ UNCHANGED <<focused, reads, timers, opened, pasted, asked, cleared>>
  BY DEF Panel!CreateAnswered
<1>2. /\ Panel!TypeOK /\ panel \in Panel!Panels /\ c.name \in Queries
      /\ opened \in Nat /\ opened >= opened /\ calls \ {c} \in SUBSET calls
  BY <1>1, PanelCallFields DEF PanelCore, Panel!TypeOK
<1>3. heard' \in Nat /\ heard' <= opened /\ heard' >= heard
  BY <1>1, PanelHears
<1> DEFINE p == [panel EXCEPT !.busy = FALSE]
           d == Panel!NoDraft(panel)
           q == [d EXCEPT !.saved = TRUE, !.query = c.name]
           a == Panel!AskStatus(TRUE)
<1>4. CASE panel' = p /\ calls' = calls \ {c} /\ begun' = begun
  <2>1. /\ p \in Panel!Panels /\ p.status = panel.status /\ p.screen = panel.screen
        /\ p.revealed = panel.revealed /\ p.request = panel.request /\ p.text = panel.text
        /\ p.image = panel.image /\ p.name = panel.name /\ p.results = panel.results
    BY <1>2 DEF Panel!Panels
  <2> HIDE DEF p
  <2>2. PanelCallsInOrder' /\ calls' \in SUBSET Panel!Calls
    BY <1>1, <1>4, PanelEnds
  <2>3. Panel!TypeOK'
    BY <1>1, <1>2, <1>3, <1>4, <2>1, <2>2 DEF Panel!TypeOK, PanelCallsInOrder
  <2>4. QED
    BY <1>1, <1>3, <1>4, <2>1, <2>3
    DEF PanelCore, OffSearch, SearchCalls, Panel!NothingLeft, Panel!RevealsExpire,
        Panel!DraftIsRecent, Panel!LiveIsOfThisPanel, Panel!FieldCalls, Panel!unlocked
<1>5. CASE panel' = q /\ begun' = begun + 1 /\ calls' = (calls \ {c}) \cup {a}
  <2>1. /\ d \in Panel!Panels /\ d.status = panel.status /\ d.screen = panel.screen
        /\ d.revealed = panel.revealed /\ d.request = panel.request /\ d.text = 0
        /\ d.image = 0 /\ d.name = Blank /\ d.results = panel.results
    BY <1>2, PanelNoDraft
  <2> HIDE DEF d
  <2>2. /\ q \in Panel!Panels /\ q.status = panel.status /\ q.screen = panel.screen
        /\ q.revealed = panel.revealed /\ q.request = panel.request /\ q.text = 0
        /\ q.image = 0 /\ q.name = Blank /\ q.results = panel.results
    BY <1>2, <2>1 DEF Panel!Panels
  <2> HIDE DEF q
  <2>3. a \in Panel!Calls /\ a.kind = "status" /\ a.id = begun' /\ a.session = opened
    BY <1>5, PanelAsks
  <2> HIDE DEF a
  <2>4. PanelCallsInOrder' /\ calls' \in SUBSET Panel!Calls /\ begun' \in Nat
    BY <1>1, <1>2, <1>5, <2>3, PanelBegins
  <2>5. Panel!TypeOK'
    BY <1>1, <1>2, <1>3, <1>5, <2>2, <2>4 DEF Panel!TypeOK, PanelCallsInOrder
  <2>6. QED
    BY <1>1, <1>3, <1>5, <2>2, <2>3, <2>5
    DEF PanelCore, OffSearch, SearchCalls, Panel!NothingLeft, Panel!RevealsExpire,
        Panel!DraftIsRecent, Panel!LiveIsOfThisPanel, Panel!FieldCalls, Panel!unlocked
<1>6. QED
  BY <1>4, <1>5 DEF Panel!CreateAnswered

\* The search that is sent is of the query in the field and the last.
LEMMA PanelSearchTimer ==
  ASSUME PanelCore, Panel!SearchTimer PROVE PanelCore' /\ Panel!SearchesCatchUp'
<1> DEFINE c == [kind |-> "search", id |-> begun', query |-> panel.query, session |-> opened]
<1>1. /\ due' = FALSE /\ begun' = begun + 1 /\ calls' = calls \cup {c}
      /\ UNCHANGED <<focused, panel, reads, timers, opened, heard, pasted, asked, cleared>>
  BY DEF Panel!SearchTimer
<1>2. /\ Panel!TypeOK /\ panel.query \in Queries /\ begun \in Nat /\ begun' \in Nat
      /\ opened \in Nat
  BY <1>1 DEF PanelCore, Panel!TypeOK, Panel!Panels
<1>3. /\ c \in Panel!Calls /\ c.kind = "search" /\ c.id = begun' /\ c.session = opened
      /\ c.query = panel.query
  <2>1. c \in [kind : {"search"}, id : Nat, query : Queries, session : Nat]
    BY <1>2
  <2>2. QED
    BY <2>1 DEF Panel!Calls
<1> HIDE DEF c
<1>4. PanelCallsInOrder' /\ calls' \in SUBSET Panel!Calls
  BY <1>1, <1>2, <1>3, PanelBegins
<1>5. Panel!TypeOK'
  BY <1>1, <1>2, <1>4 DEF Panel!TypeOK, PanelCallsInOrder
<1>6. PanelCore'
  BY <1>1, <1>3, <1>5
  DEF PanelCore, Panel!NothingLeft, Panel!RevealsExpire,
      Panel!DraftIsRecent, Panel!LiveIsOfThisPanel, Panel!FieldCalls, Panel!unlocked
<1>7. ASSUME NEW d \in calls', d.query # panel'.query PROVE Panel!Later(d)'
  <2>1. d \in calls /\ d.id \in Nat /\ d.id <= begun
    BY <1>1, <1>2, <1>3, <1>7, PanelCallFields DEF Panel!TypeOK
  <2>2. QED
    BY <1>1, <1>2, <1>3, <2>1 DEF Panel!Later
<1>8. \E d \in calls' : d.kind = "search" /\ d.query = panel'.query
  BY <1>1, <1>3
<1>9. QED
  BY <1>6, <1>7, <1>8 DEF Panel!SearchesCatchUp

\* Searches of one session are answered in their order, and those of an earlier one by nothing.
LEMMA PanelSearchAnswered ==
  ASSUME PanelCore, Panel!SearchesCatchUp, Panel!Rerendered, due' \in BOOLEAN, NEW c \in calls,
         Panel!SearchAnswered(c)
  PROVE  PanelCore' /\ Panel!SearchesCatchUp'
<1>1. PICK found : /\ panel' = [panel EXCEPT !.results = found]
                   /\ \/ found = Panel!NoResults
                      \/ /\ Panel!MaySucceed(c)
                         /\ found = [of |-> c.query, session |-> c.session]
  BY DEF Panel!SearchAnswered
<1>2. /\ c.kind = "search" /\ Panel!Ready(c) /\ Panel!Ends(c) /\ calls' = calls \ {c}
      /\ UNCHANGED <<focused, reads, timers, opened, begun, pasted, asked, cleared>>
  BY DEF Panel!SearchAnswered
<1>3. /\ Panel!TypeOK /\ panel \in Panel!Panels /\ c \in Panel!Calls /\ c.query \in Queries
      /\ c.session \in Nat /\ c.id \in Nat
  BY <1>2, PanelCallFields DEF PanelCore, Panel!TypeOK
<1>4. heard' \in Nat /\ heard' <= opened /\ heard' >= heard /\ heard' >= c.session
  BY <1>2, PanelHears
<1>5. /\ found \in [of : Queries \cup {None}, session : Nat]
      /\ found.of = None \/ (Panel!MaySucceed(c) /\ found.of = c.query)
  BY <1>1, <1>3 DEF Panel!NoResults
<1>6. /\ panel' \in Panel!Panels /\ panel'.status = panel.status /\ panel'.screen = panel.screen
      /\ panel'.revealed = panel.revealed /\ panel'.request = panel.request
      /\ panel'.text = panel.text /\ panel'.image = panel.image /\ panel'.name = panel.name
      /\ panel'.query = panel.query /\ panel'.results = found
  BY <1>1, <1>3, <1>5 DEF Panel!Panels
<1>7. PanelCallsInOrder' /\ calls' \in SUBSET Panel!Calls
  BY <1>2, PanelEnds
<1>8. Panel!TypeOK'
  BY <1>2, <1>3, <1>4, <1>6, <1>7 DEF Panel!TypeOK, PanelCallsInOrder
<1>9. PanelCore'
  BY <1>2, <1>6, <1>8
  DEF PanelCore, Panel!NothingLeft, Panel!RevealsExpire,
      Panel!DraftIsRecent, Panel!LiveIsOfThisPanel, Panel!FieldCalls, Panel!unlocked
<1>10. due' = due
  BY <1>6 DEF Panel!Rerendered, Panel!SearchDependsOn
<1>11. ASSUME panel.screen = "search", ~due, NEW e \in calls', e.kind = "search",
              Panel!MaySucceed(e)', e.query # panel.query
       PROVE  Panel!Later(e)'
  <2>1. /\ e \in calls /\ e.id \in Nat /\ e.session \in Nat
        /\ heard' <= e.session /\ Panel!Open(e.session)
    BY <1>2, <1>3, <1>11, PanelCallFields DEF Panel!MaySucceed, Panel!TypeOK
  <2>2. Panel!MaySucceed(e)
    BY <1>4, <2>1, <1>3 DEF Panel!MaySucceed, Panel!TypeOK
  <2>3. PICK d \in calls : d.kind = "search" /\ d.id > e.id /\ d.query = panel.query
    BY <1>11, <2>1, <2>2 DEF Panel!SearchesCatchUp, Panel!Later
  <2>4. d # c
    <3> SUFFICES ASSUME d = c PROVE FALSE
      OBVIOUS
    <3>1. e.session <= c.session
      BY <1>3, <2>1, <2>3 DEF Panel!TypeOK
    <3>2. e.session = c.session
      BY <1>3, <1>4, <2>1, <3>1
    <3>3. c.id <= e.id
      BY <1>2, <1>11, <2>1, <3>2 DEF Panel!Ready
    <3>4. QED
      BY <1>3, <2>1, <2>3, <3>3
  <2>5. QED
    BY <1>2, <1>6, <2>3, <2>4 DEF Panel!Later
<1>12. ASSUME panel.screen = "search", ~due
       PROVE  \/ panel'.results.of \in {None, panel'.query}
              \/ \E d \in calls' : d.kind = "search" /\ d.query = panel'.query
  <2>1. CASE found.of = None \/ c.query = panel.query
    BY <1>5, <1>6, <2>1
  <2>2. CASE Panel!MaySucceed(c) /\ c.query # panel.query
    <3>1. PICK d \in calls : d.kind = "search" /\ d.id > c.id /\ d.query = panel.query
      BY <1>2, <1>12, <2>2 DEF Panel!SearchesCatchUp, Panel!Later
    <3>2. QED
      BY <1>2, <1>3, <1>6, <3>1
  <2>3. QED
    BY <1>5, <2>1, <2>2
<1>13. QED
  BY <1>6, <1>9, <1>10, <1>11, <1>12 DEF Panel!SearchesCatchUp

\* Whatever the user, the main process and the timers do, and in whatever order.
LEMMA PanelNextIInv == Panel!IInv /\ [Panel!Next]_panelVars => Panel!IInv'
<1>1. Panel!IInv <=> PanelCore /\ Panel!SearchesCatchUp
  BY PanelResults DEF Panel!IInv, PanelCore
<1>2. Panel!IInv' <=> PanelCore' /\ Panel!SearchesCatchUp'
  BY <1>1, PTL
<1> SUFFICES ASSUME PanelCore, Panel!SearchesCatchUp, [Panel!Next]_panelVars
             PROVE  PanelCore' /\ Panel!SearchesCatchUp'
  BY <1>1, <1>2
<1>3. CASE UNCHANGED panelVars
  BY <1>3 DEF panelVars, PanelCore, Panel!TypeOK, Panel!NothingLeft, Panel!RevealsExpire,
     Panel!DraftIsRecent, Panel!LiveIsOfThisPanel, Panel!FieldCalls, Panel!SearchesCatchUp,
     Panel!Later, Panel!MaySucceed, Panel!unlocked
<1>4. CASE Panel!SearchTimer
  BY <1>4, PanelSearchTimer
<1>5. ASSUME Panel!Rerendered, Panel!UserStep \/ Panel!Answer \/ Panel!LockOrUnlock
      PROVE  PanelCore' /\ Panel!SearchesCatchUp'
  <2>1. due' \in BOOLEAN
    BY <1>5 DEF Panel!Rerendered, PanelCore, Panel!TypeOK
  <2>2. ASSUME PanelCore', OffSearch PROVE PanelCore' /\ Panel!SearchesCatchUp'
    BY <1>5, <2>2, PanelSearches DEF OffSearch
  <2>3. CASE Panel!LockOrUnlock
    BY <2>1, <2>2, <2>3, PanelLocks
  <2>4. CASE Panel!UserStep
    BY <2>1, <2>2, <2>4, PanelFocus, PanelBlurs, PanelSmallSteps, PanelRunRequest,
       PanelRequests,
       PanelDrafts, PanelSaves, PanelActs
    DEF Panel!UserStep
  <2>5. CASE Panel!Answer
    BY <1>5, <2>1, <2>2, <2>5, PanelStatusAnswered, PanelActionAnswered,
       PanelSearchAnswered,
       PanelFieldAnswered, PanelCreateAnswered, PanelImageRead, PanelTimerFires
    DEF Panel!Answer
  <2>6. QED
    BY <1>5, <2>3, <2>4, <2>5
<1>6. QED
  BY <1>3, <1>4, <1>5 DEF Panel!Next

-----------------------------------------------------------------------------
(* The row of a field. *)

\* What the assumptions on the constants say.
LEMMA RevealFacts ==
  /\ None \notin Reveal!Attempts /\ None \notin Reveal!Rows /\ None \notin Reveal!Values
  /\ MaxSessions \in Nat \ {0} /\ MaxAsked \in Nat /\ MaxChanges \in Nat
  BY RevealAssumption

\* Nothing is shown at first.
LEMMA RevealInitIInv == Reveal!Init => Reveal!IInv
<1> SUFFICES ASSUME Reveal!Init PROVE Reveal!IInv
  OBVIOUS
<1>1. Reveal!TypeOK
  <2>1. /\ 1 \in 1..MaxSessions /\ 0 \in 0..MaxAsked /\ 0 \in 0..MaxChanges
        /\ 0 \in 0..0 /\ {} \in SUBSET Reveal!Attempts
    BY RevealFacts
  <2>2. QED
    BY <2>1 DEF Reveal!Init, Reveal!TypeOK
<1>2. QED
  BY <1>1
  DEF Reveal!Init, Reveal!IInv, Reveal!ValueExpires, Reveal!ValueIsOfThisVisit,
      Reveal!NothingKept, Reveal!LiveIsOfThisPage, Reveal!value

\* Leaving the page or hiding the value takes the right to answer from every attempt.
LEMMA RevealOvertakenFacts ==
  ASSUME Reveal!TypeOK
  PROVE  /\ Reveal!OvertakenAll \in SUBSET Reveal!Attempts
         /\ \A c \in Reveal!OvertakenAll : ~c.live
         /\ Reveal!Overtaken(timer) \in Reveal!Attempts \cup {None}
<1>1. \A c \in attempts : /\ Reveal!Overtaken(c) = [c EXCEPT !.live = FALSE]
                          /\ Reveal!Overtaken(c) \in Reveal!Attempts /\ ~Reveal!Overtaken(c).live
  BY RevealFacts DEF Reveal!TypeOK, Reveal!Overtaken, Reveal!Attempts
<1>2. Reveal!Overtaken(timer) \in Reveal!Attempts \cup {None}
  BY RevealFacts DEF Reveal!TypeOK, Reveal!Overtaken, Reveal!Attempts
<1>3. QED
  BY <1>1, <1>2 DEF Reveal!OvertakenAll

\* An answer, or none, of an attempt that is over with it.
LEMMA RevealResolvesIInv ==
  ASSUME Reveal!IInv, NEW c \in attempts,
         NEW r \in {None, [identity |-> c.identity, of |-> c.number, session |-> c.session]},
         Reveal!Resolves(c, r), r # None => c.session = guard
  PROVE  Reveal!IInv'
<1> USE DEF Reveal!IInv
<1>1. c \in Reveal!Attempts /\ attempts \in SUBSET Reveal!Attempts
  BY DEF Reveal!TypeOK
<1>2. r # None => r \in Reveal!Values
  BY <1>1 DEF Reveal!Attempts, Reveal!Values
<1>3. Reveal!TypeOK'
  BY <1>1, <1>2 DEF Reveal!Resolves, Reveal!TypeOK
<1>4. Reveal!LiveIsOfThisPage'
  BY DEF Reveal!Resolves, Reveal!LiveIsOfThisPage
<1>5. CASE ~(row # None /\ r # None /\ Reveal!isCurrent(c, row.identity) /\ ~hidden)
  BY <1>3, <1>4, <1>5
  DEF Reveal!Resolves, Reveal!ValueExpires, Reveal!ValueIsOfThisVisit, Reveal!NothingKept,
      Reveal!value, Reveal!isCurrent
<1>6. CASE row # None /\ r # None /\ Reveal!isCurrent(c, row.identity) /\ ~hidden
  <2>1. revealed' = r /\ timer' = c /\ row' = row /\ guard' = guard /\ revoked' = revoked
    BY <1>6 DEF Reveal!Resolves
  <2>2. r.identity = c.identity /\ r.of = c.number /\ r.session = guard
    BY <1>6
  <2>3. c.identity = row.identity /\ c.live /\ c.number > revoked
    BY <1>6 DEF Reveal!isCurrent, Reveal!LiveIsOfThisPage
  <2>4. QED
    BY <1>1, <1>3, <1>4, <1>6, <2>1, <2>2, <2>3, RevealFacts
    DEF Reveal!ValueExpires, Reveal!ValueIsOfThisVisit, Reveal!NothingKept, Reveal!value,
        Reveal!isCurrent
<1>7. QED
  BY <1>5, <1>6

\* Whatever the order of clicks, renderings, effects, answers, timeouts and locks.
LEMMA RevealNextIInv == Reveal!IInv /\ [Reveal!Next]_revealVars => Reveal!IInv'
<1> SUFFICES ASSUME Reveal!IInv, [Reveal!Next]_revealVars PROVE Reveal!IInv'
  OBVIOUS
<1> USE RevealFacts, RevealOvertakenFacts
    DEF Reveal!IInv, Reveal!TypeOK, Reveal!ValueExpires, Reveal!ValueIsOfThisVisit,
        Reveal!NothingKept, Reveal!LiveIsOfThisPage, Reveal!value, Reveal!isCurrent
<1>1. ASSUME NEW i \in Identities, Reveal!Mount(i) PROVE Reveal!IInv'
  BY <1>1 DEF Reveal!Mount, Reveal!Rows
<1>2. ASSUME NEW i \in Identities, Reveal!Rerender(i) PROVE Reveal!IInv'
  <2>1. Reveal!TypeOK' /\ Reveal!LiveIsOfThisPage'
    BY <1>2 DEF Reveal!Rerender, Reveal!Rows
  <2>2. Reveal!value' = None
    BY <1>2 DEF Reveal!Rerender, Reveal!Rows
  <2>3. row' # None /\ ~row'.settled
    <3>1. row' = [identity |-> i, settled |-> FALSE]
      BY <1>2 DEF Reveal!Rerender
    <3>2. row' \in Reveal!Rows
      BY <3>1, Zenon DEF Reveal!Rows
    <3>3. QED
      BY <3>1, <3>2
  <2>4. QED
    BY <2>1, <2>2, <2>3
<1>3. CASE Reveal!RunEffect
  BY <1>3 DEF Reveal!RunEffect, Reveal!clear, Reveal!mask, Reveal!Rows
<1>4. CASE Reveal!Unmount \/ Reveal!Blur
  BY <1>4 DEF Reveal!Unmount, Reveal!Blur, Reveal!leave, Reveal!clear, Reveal!mask
<1>5. CASE Reveal!Hide
  BY <1>5 DEF Reveal!Hide, Reveal!clear, Reveal!mask
<1>6. CASE Reveal!Show
  BY <1>6 DEF Reveal!Show
<1>7. CASE Reveal!TimerFires
  BY <1>7 DEF Reveal!TimerFires, Reveal!clear, Reveal!mask
<1>8. CASE Reveal!HideValue
  BY <1>8 DEF Reveal!HideValue, Reveal!clear, Reveal!mask
<1>9. CASE Reveal!reveal
  <2> DEFINE c == [number |-> clicks + 1, identity |-> row.identity, live |-> TRUE,
                   session |-> guard, at |-> "confirm"]
  <2>1. /\ row # None /\ clicks' = clicks + 1 /\ clicks < MaxAsked /\ revealed' = None
        /\ timer' = None /\ attempts' = Reveal!OvertakenAll \cup {c}
        /\ UNCHANGED <<row, hidden, guard, changes, revoked>>
    BY <1>9 DEF Reveal!reveal, Reveal!maskFirst, Reveal!mask
  <2>2. c \in Reveal!Attempts
    BY <2>1 DEF Reveal!Attempts, Reveal!Rows
  <2>3. c.number > revoked
    BY <2>1
  <2> HIDE DEF c
  <2>4. Reveal!TypeOK'
    BY <2>1, <2>2
  <2>5. Reveal!LiveIsOfThisPage'
    BY <2>1, <2>3
  <2>6. QED
    BY <2>1, <2>4, <2>5
<1>10. ASSUME NEW c \in attempts, Reveal!Confirm(c) PROVE Reveal!IInv'
  BY <1>10 DEF Reveal!Confirm, Reveal!Attempts
<1>11. ASSUME NEW c \in attempts, Reveal!Refuse(c) \/ Reveal!Answer(c) PROVE Reveal!IInv'
  BY <1>11, RevealResolvesIInv DEF Reveal!Refuse, Reveal!Answer
<1>12. CASE Reveal!Lock
  BY <1>12 DEF Reveal!Lock, Reveal!clear, Reveal!mask
<1>13. CASE UNCHANGED revealVars
  BY <1>13 DEF revealVars
<1>14. QED
  BY <1>1, <1>2, <1>3, <1>4, <1>5, <1>6, <1>7, <1>8, <1>9, <1>10, <1>11, <1>12, <1>13
  DEF Reveal!Next

-----------------------------------------------------------------------------
\* The steps of the composed behaviours that are not of one part leave it alone.
LEMMA DialogsImportInv == ImportInv /\ [DialogsNext]_allVars => ImportInv'
<1> SUFFICES ASSUME ImportInv, [DialogsNext]_allVars, part' = "import" PROVE Import!IInv'
  BY DEF ImportInv
<1>1. part = "import" /\ Import!IInv
  BY DEF DialogsNext, allVars, ImportInv
<1>2. [Import!Next]_importVars
  BY <1>1, Zenon DEF DialogsNext, allVars
<1>3. QED
  BY <1>1, <1>2, ImportNextIInv

\* And so with the panel and the row of a field.
LEMMA DialogsScreensInv == ScreensInv /\ [DialogsNext]_allVars => ScreensInv'
<1> SUFFICES ASSUME ScreensInv, [DialogsNext]_allVars
             PROVE  /\ part' = "panel" => Panel!IInv'
                    /\ part' = "reveal" => Reveal!IInv'
  BY DEF ScreensInv
<1>1. ASSUME part' = "panel" PROVE Panel!IInv'
  <2>1. part = "panel" /\ Panel!IInv
    BY <1>1 DEF DialogsNext, allVars, ScreensInv
  <2>2. [Panel!Next]_panelVars
    BY <2>1, Zenon DEF DialogsNext, allVars
  <2>3. QED
    BY <2>1, <2>2, PanelNextIInv
<1>2. ASSUME part' = "reveal" PROVE Reveal!IInv'
  <2>1. part = "reveal" /\ Reveal!IInv
    BY <1>2 DEF DialogsNext, allVars, ScreensInv
  <2>2. [Reveal!Next]_revealVars
    BY <2>1, Zenon DEF DialogsNext, allVars
  <2>3. QED
    BY <2>1, <2>2, RevealNextIInv
<1>3. QED
  BY <1>1, <1>2

\* Whatever is typed, read, decrypted, imported, closed and expires meanwhile, the preview
\* is of what was given last (ImportModal.tsx:335, 424, 452), and the main process keeps the
\* plaintext of that preview only (vaultExportIpc.ts): for any number of texts, calls and
\* dialogs.
THEOREM ImportIsSafe == DialogsSpec => []ImportInv
<1>1. DialogsInit => ImportInv
  BY ImportInitIInv, Zenon DEF DialogsInit, ImportInv
<1>2. QED
  BY <1>1, DialogsImportInv, PTL DEF DialogsSpec

\* Whatever answer, picture or timer comes late, the panel of the menu bar shows no value
\* and no draft from before it was cleared (MenuBarPanel.tsx:157, 331, 385), and its results
\* are those of the query in the field (MenuBarPanel.tsx:240); a row shows the value of its
\* own field, of this visit and session (useTransientReveal.ts:90): for any fields, queries,
\* numbers of calls and sessions.
THEOREM ScreensAreClean == DialogsSpec => []ScreensInv
<1>1. DialogsInit => ScreensInv
  BY PanelInitIInv, RevealInitIInv, Zenon DEF DialogsInit, ScreensInv
<1>2. QED
  BY <1>1, DialogsScreensInv, PTL DEF DialogsSpec
==============================================================================
