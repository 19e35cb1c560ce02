-------------------------- MODULE VaultMutationsProofs --------------------------
(* Proofs about VaultMutations, for any vaults, commands, switches, batches and *)
(* writers, any limits of the receipts and markers, and any number of retries   *)
(* and sessions.                                                                *)
EXTENDS VaultMutations, SequenceTheorems, FiniteSetTheorems, TLAPS

CallRecords ==
  [at : {"idle", "sent", "begun", "read", "queued", "committed", "done"},
   epoch : Nat, rotate : BOOLEAN, vault : Vaults \cup {None}, under : SUBSET Vaults,
   answer : {"none", "success", "stale", "failed"}, data : Snapshots \cup {None}]

RequestRecords ==
  [at : {"unused", "waiting", "sent", "done"}, vault : Vaults \cup {None},
   revision : Nat, scope : Nat, target : Vaults \cup {None}]

\* The call x becomes c, and moves in the lines accordingly.
LineStep(x, c) ==
  \/ inbox' = inbox /\ queue' = queue /\ call[x].at \notin {"sent", "queued"}
       /\ c.at \notin {"sent", "queued"}
  \/ inbox' = inbox /\ queue' = Append(queue, x) /\ call[x].at \notin {"sent", "queued"}
       /\ c.at = "queued"
  \/ inbox' = Append(inbox, x) /\ queue' = queue /\ call[x].at \notin {"sent", "queued"}
       /\ c.at = "sent"
  \/ Arrives(x) /\ queue' = Append(queue, x) /\ c.at = "queued"
  \/ Arrives(x) /\ queue' = queue /\ c.at \notin {"sent", "queued"}
  \/ AtHead(x) /\ queue' = Tail(queue) /\ inbox' = inbox /\ c.at \notin {"sent", "queued"}

\* The document of a gains e at its end, and no other changes.
Gains(a, e) ==
  \A v \in Vaults : \A k \in 1..Len(log'[v]) :
    \/ k \in 1..Len(log[v]) /\ log'[v][k] = log[v][k]
    \/ v = a /\ k = Len(log[v]) + 1 /\ k = Len(log'[v]) /\ log'[v][k] = e

-----------------------------------------------------------------------------
\* Sequences without repetition.
LEMMA SeqFacts ==
  ASSUME NEW S, NEW s \in Seq(S)
  PROVE  /\ Len(s) \in Nat /\ DOMAIN s = 1..Len(s)
         /\ ToSet(s) = {s[i] : i \in 1..Len(s)} /\ ToSet(s) \subseteq S
         /\ IsInjective(s) <=> \A i, j \in 1..Len(s) : s[i] = s[j] => i = j
<1>1. /\ Len(s) \in Nat /\ DOMAIN s = 1..Len(s)
      /\ \A i \in 1..Len(s) : s[i] \in S
  BY LenProperties, ElementOfSeq
<1>2. QED
  BY <1>1 DEF ToSet, IsInjective

LEMMA AppendFacts ==
  ASSUME NEW S, NEW s \in Seq(S), NEW e \in S
  PROVE  /\ Append(s, e) \in Seq(S) /\ Len(Append(s, e)) = Len(s) + 1
         /\ \A i \in 1..Len(s) : Append(s, e)[i] = s[i]
         /\ Append(s, e)[Len(s) + 1] = e
         /\ ToSet(Append(s, e)) = ToSet(s) \cup {e}
         /\ IsInjective(s) /\ e \notin ToSet(s) => IsInjective(Append(s, e))
         /\ \A y, x : Earlier(s, y, x) => Earlier(Append(s, e), y, x)
         /\ \A y \in ToSet(s) : Earlier(Append(s, e), y, e)
<1> DEFINE t == Append(s, e)
<1>1. /\ t \in Seq(S) /\ Len(t) = Len(s) + 1 /\ Len(s) \in Nat
      /\ \A i \in 1..Len(s) : t[i] = s[i]
      /\ t[Len(s) + 1] = e
  BY AppendProperties, LenProperties
<1> HIDE DEF t
<1>2. 1..Len(t) = 1..Len(s) \cup {Len(s) + 1}
  BY <1>1
<1>3. /\ ToSet(s) = {s[i] : i \in 1..Len(s)} /\ ToSet(t) = {t[i] : i \in 1..Len(t)}
      /\ IsInjective(s) <=> \A i, j \in 1..Len(s) : s[i] = s[j] => i = j
      /\ IsInjective(t) <=> \A i, j \in 1..Len(t) : t[i] = t[j] => i = j
  BY <1>1, SeqFacts
<1>4. ToSet(t) = ToSet(s) \cup {e}
  BY <1>1, <1>2, <1>3
<1>5. IsInjective(s) /\ e \notin ToSet(s) => IsInjective(t)
  BY <1>1, <1>2, <1>3
<1>6. ASSUME NEW y, NEW x, Earlier(s, y, x) PROVE Earlier(t, y, x)
  BY <1>1, <1>2, <1>6 DEF Earlier
<1>7. ASSUME NEW y \in ToSet(s) PROVE Earlier(t, y, e)
  <2>1. PICK p \in 1..Len(s) : s[p] = y
    BY <1>3
  <2>2. p \in 1..Len(t) /\ Len(s) + 1 \in 1..Len(t) /\ p < Len(s) + 1
    BY <1>1, <1>2
  <2>3. QED
    BY <1>1, <2>1, <2>2 DEF Earlier
<1>8. QED
  BY <1>1, <1>4, <1>5, <1>6, <1>7 DEF t

LEMMA TailFacts ==
  ASSUME NEW S, NEW s \in Seq(S), s # <<>>, IsInjective(s)
  PROVE  /\ Tail(s) \in Seq(S) /\ Head(s) \in S /\ IsInjective(Tail(s))
         /\ ToSet(Tail(s)) = ToSet(s) \ {Head(s)} /\ Head(s) \in ToSet(s)
         /\ \A y : ~Earlier(s, y, Head(s))
         /\ \A y \in ToSet(s) \ {Head(s)} : Earlier(s, Head(s), y)
         /\ \A y, x : Earlier(s, y, x) /\ y # Head(s) => Earlier(Tail(s), y, x)
<1> DEFINE t == Tail(s)
<1>1. /\ t \in Seq(S) /\ Head(s) \in S /\ Len(t) = Len(s) - 1
      /\ \A i \in 1..Len(t) : t[i] = s[i + 1]
      /\ Len(s) \in Nat \ {0} /\ Head(s) = s[1]
  BY HeadTailProperties, EmptySeq
<1> HIDE DEF t
<1>2. /\ ToSet(s) = {s[i] : i \in 1..Len(s)} /\ ToSet(t) = {t[i] : i \in 1..Len(t)}
      /\ \A i, j \in 1..Len(s) : s[i] = s[j] => i = j
      /\ IsInjective(t) <=> \A i, j \in 1..Len(t) : t[i] = t[j] => i = j
  <2>1. /\ ToSet(s) = {s[i] : i \in 1..Len(s)}
        /\ \A i, j \in 1..Len(s) : s[i] = s[j] => i = j
    BY SeqFacts
  <2>2. /\ ToSet(t) = {t[i] : i \in 1..Len(t)}
        /\ IsInjective(t) <=> \A i, j \in 1..Len(t) : t[i] = t[j] => i = j
    BY <1>1, SeqFacts
  <2>3. QED
    BY <2>1, <2>2
<1>3. /\ \A i \in 1..Len(t) : i + 1 \in 1..Len(s) /\ i + 1 # 1
      /\ \A i \in 1..Len(s) : i # 1 => i - 1 \in 1..Len(t) /\ t[i - 1] = s[i]
      /\ 1 \in 1..Len(s)
  BY <1>1
<1>4. IsInjective(t)
  <2>1. SUFFICES ASSUME NEW i \in 1..Len(t), NEW j \in 1..Len(t), t[i] = t[j] PROVE i = j
    BY <1>2
  <2>2. i + 1 = j + 1
    BY <1>1, <1>2, <1>3, <2>1
  <2>3. QED
    BY <2>2
<1>5. ToSet(t) = ToSet(s) \ {Head(s)} /\ Head(s) \in ToSet(s)
  <2>1. ASSUME NEW e \in ToSet(t) PROVE e \in ToSet(s) \ {Head(s)}
    BY <1>1, <1>2, <1>3, <2>1
  <2>2. ASSUME NEW e \in ToSet(s) \ {Head(s)} PROVE e \in ToSet(t)
    BY <1>1, <1>2, <1>3, <2>2
  <2>3. Head(s) \in ToSet(s)
    BY <1>1, <1>2, <1>3
  <2>4. QED
    BY <2>1, <2>2, <2>3
<1>6. ASSUME NEW y PROVE ~Earlier(s, y, Head(s))
  <2>1. SUFFICES ASSUME NEW p \in 1..Len(s), NEW q \in 1..Len(s), p < q, s[q] = Head(s)
                 PROVE  FALSE
    BY DEF Earlier
  <2>2. q = 1
    BY <1>1, <1>2, <1>3, <2>1
  <2>3. QED
    BY <2>1, <2>2
<1>7. ASSUME NEW y \in ToSet(s) \ {Head(s)} PROVE Earlier(s, Head(s), y)
  <2>1. PICK q \in 1..Len(s) : s[q] = y /\ q # 1
    BY <1>1, <1>2, <1>7
  <2>2. 1 < q
    BY <2>1
  <2>3. QED
    BY <1>1, <1>3, <2>1, <2>2 DEF Earlier
<1>8. ASSUME NEW y, NEW x, Earlier(s, y, x), y # Head(s) PROVE Earlier(t, y, x)
  <2>1. PICK p \in 1..Len(s), q \in 1..Len(s) : p < q /\ s[p] = y /\ s[q] = x
    BY <1>8 DEF Earlier
  <2>2. p # 1 /\ q # 1
    BY <1>1, <1>8, <2>1
  <2>3. p - 1 \in 1..Len(t) /\ q - 1 \in 1..Len(t) /\ t[p - 1] = y /\ t[q - 1] = x
    BY <1>3, <2>1, <2>2
  <2>4. p - 1 < q - 1
    BY <2>1
  <2>5. QED
    BY <2>3, <2>4 DEF Earlier
<1>9. QED
  BY <1>1, <1>4, <1>5, <1>6, <1>7, <1>8 DEF t

\* An element of a sequence is in it, and stands behind others of it.
LEMMA EarlierFacts ==
  ASSUME NEW S, NEW s \in Seq(S), NEW y, NEW x, Earlier(s, y, x)
  PROVE  y \in ToSet(s) /\ x \in ToSet(s)
BY SeqFacts DEF Earlier

-----------------------------------------------------------------------------
LEMMA CallsFacts ==
  /\ \A r \in Requests : <<r, 1>> \in Calls /\ <<r, 2>> \in Calls
  /\ \A e \in Batches \cup Writers : <<e, 1>> \in Calls
  /\ \A x \in Calls : x[1] \in Requests \/ x[1] \in Batches \cup Writers
  /\ \A x \in Calls : x[1] \in Requests => x = <<x[1], 1>> \/ x = <<x[1], 2>>
  /\ \A x \in Calls : x[1] \in Batches \cup Writers => x = <<x[1], 1>>
BY LimitsAssumption DEF Calls, Requests

LEMMA KindFacts ==
  /\ Commands \subseteq Requests /\ Switches \subseteq Requests
  /\ Requests = Commands \cup Switches
  /\ Commands \cap Switches = {} /\ Requests \cap (Batches \cup Writers) = {}
  /\ Commands \cap Batches = {} /\ Commands \cap Writers = {} /\ Batches \cap Writers = {}
BY LimitsAssumption DEF Requests

\* Where a call moves in the lines, and what is ahead of what afterwards.
LEMMA LinesMove ==
  ASSUME TypeOK, LinesAgree, NEW x \in Calls, NEW c \in CallRecords,
         call' = [call EXCEPT ![x] = c], LineStep(x, c),
         c.at = "done" \/ c.answer = "none"
  PROVE  /\ inbox' \in Seq(Calls) /\ queue' \in Seq(Calls) /\ LinesAgree'
         /\ \A a, b \in Calls : Ahead(a, b) /\ InLine(a)' /\ InLine(b)' => Ahead(a, b)'
<1>1. /\ inbox \in Seq(Calls) /\ queue \in Seq(Calls) /\ call \in [Calls -> CallRecords]
      /\ IsInjective(inbox) /\ IsInjective(queue)
      /\ \A y \in Calls :
           /\ call[y].at = "sent" <=> y \in ToSet(inbox)
           /\ call[y].at = "queued" <=> y \in ToSet(queue)
           /\ call[y].at # "done" => call[y].answer = "none"
  BY DEF TypeOK, LinesAgree, CallRecords
<1>2. call'[x] = c /\ \A y \in Calls \ {x} : call'[y] = call[y]
  BY <1>1
<1>3. \A y \in Calls : call'[y].at # "done" => call'[y].answer = "none"
  BY <1>1, <1>2
<1>4. CASE inbox' = inbox /\ queue' = queue
           /\ call[x].at \notin {"sent", "queued"} /\ c.at \notin {"sent", "queued"}
  <2>1. LinesAgree'
    BY <1>1, <1>2, <1>3, <1>4 DEF LinesAgree
  <2>2. QED
    BY <1>1, <1>4, <2>1 DEF Ahead
<1>5. CASE inbox' = inbox /\ queue' = Append(queue, x)
           /\ call[x].at \notin {"sent", "queued"} /\ c.at = "queued"
  <2>1. /\ queue' \in Seq(Calls) /\ ToSet(queue') = ToSet(queue) \cup {x}
        /\ IsInjective(queue')
        /\ \A a, b : Earlier(queue, a, b) => Earlier(queue', a, b)
    BY <1>1, <1>5, AppendFacts
  <2>2. LinesAgree'
    BY <1>1, <1>2, <1>3, <1>5, <2>1 DEF LinesAgree
  <2>3. QED
    BY <1>1, <1>5, <2>1, <2>2 DEF Ahead
<1>6. CASE inbox' = Append(inbox, x) /\ queue' = queue
           /\ call[x].at \notin {"sent", "queued"} /\ c.at = "sent"
  <2>1. /\ inbox' \in Seq(Calls) /\ ToSet(inbox') = ToSet(inbox) \cup {x}
        /\ IsInjective(inbox')
        /\ \A a, b : Earlier(inbox, a, b) => Earlier(inbox', a, b)
    BY <1>1, <1>6, AppendFacts
  <2>2. LinesAgree'
    BY <1>1, <1>2, <1>3, <1>6, <2>1 DEF LinesAgree
  <2>3. QED
    BY <1>1, <1>6, <2>1, <2>2 DEF Ahead
<1>7. CASE Arrives(x)
  <2>1. inbox # <<>> /\ Head(inbox) = x /\ inbox' = Tail(inbox)
    BY <1>7 DEF Arrives
  <2>2. /\ inbox' \in Seq(Calls) /\ IsInjective(inbox')
        /\ ToSet(inbox') = ToSet(inbox) \ {x} /\ x \in ToSet(inbox)
        /\ \A a : ~Earlier(inbox, a, x)
        /\ \A a, b : Earlier(inbox, a, b) /\ a # x => Earlier(inbox', a, b)
    BY <1>1, <2>1, TailFacts
  <2>3. call[x].at = "sent" /\ x \notin ToSet(queue)
    BY <1>1, <2>2
  <2>4. CASE queue' = Append(queue, x) /\ c.at = "queued"
    <3>1. /\ queue' \in Seq(Calls) /\ ToSet(queue') = ToSet(queue) \cup {x}
          /\ IsInjective(queue')
          /\ \A a, b : Earlier(queue, a, b) => Earlier(queue', a, b)
          /\ \A a \in ToSet(queue) : Earlier(queue', a, x)
      BY <1>1, <2>3, <2>4, AppendFacts
    <3>2. LinesAgree'
      BY <1>1, <1>2, <1>3, <2>2, <2>3, <2>4, <3>1 DEF LinesAgree
    <3>3. ASSUME NEW a \in Calls, NEW b \in Calls, Ahead(a, b) PROVE Ahead(a, b)'
      <4>1. CASE a \in ToSet(queue) /\ b \in ToSet(inbox)
        BY <2>2, <3>1, <4>1 DEF Ahead
      <4>2. CASE Earlier(queue, a, b)
        BY <3>1, <4>2 DEF Ahead
      <4>3. CASE Earlier(inbox, a, b)
        <5>1. b # x /\ b \in ToSet(inbox)
          BY <1>1, <2>2, <4>3, EarlierFacts
        <5>2. CASE a = x
          BY <2>2, <3>1, <5>1, <5>2 DEF Ahead
        <5>3. CASE a # x
          BY <2>2, <4>3, <5>3 DEF Ahead
        <5>4. QED
          BY <5>2, <5>3
      <4>4. QED
        BY <3>3, <4>1, <4>2, <4>3 DEF Ahead
    <3>4. QED
      BY <2>2, <3>1, <3>2, <3>3
  <2>5. CASE queue' = queue /\ c.at \notin {"sent", "queued"}
    <3>1. LinesAgree'
      BY <1>1, <1>2, <1>3, <2>2, <2>3, <2>5 DEF LinesAgree
    <3>2. ASSUME NEW a \in Calls, NEW b \in Calls, Ahead(a, b), a # x, b # x PROVE Ahead(a, b)'
      BY <2>2, <2>5, <3>2 DEF Ahead
    <3>3. ~InLine(x)'
      BY <1>2, <2>5 DEF InLine
    <3>4. QED
      BY <1>1, <2>2, <2>5, <3>1, <3>2, <3>3
  <2>6. QED
    <3>1. call[x].at = "sent" /\ inbox' # inbox
      BY <1>1, <2>2
    <3>2. \/ c.at = "queued" /\ queue' = Append(queue, x)
          \/ queue' = queue /\ c.at \notin {"sent", "queued"}
      BY <3>1 DEF LineStep
    <3>3. QED
      BY <2>4, <2>5, <3>2
<1>8. CASE AtHead(x) /\ queue' = Tail(queue) /\ inbox' = inbox /\ c.at \notin {"sent", "queued"}
  <2>1. queue # <<>> /\ Head(queue) = x
    BY <1>8 DEF AtHead
  <2>2. /\ queue' \in Seq(Calls) /\ IsInjective(queue')
        /\ ToSet(queue') = ToSet(queue) \ {x} /\ x \in ToSet(queue)
        /\ \A a, b : Earlier(queue, a, b) /\ a # x => Earlier(queue', a, b)
    BY <1>1, <1>8, <2>1, TailFacts
  <2>3. LinesAgree'
    BY <1>1, <1>2, <1>3, <1>8, <2>2 DEF LinesAgree
  <2>4. ASSUME NEW a \in Calls, NEW b \in Calls, Ahead(a, b), a # x, b # x PROVE Ahead(a, b)'
    BY <1>8, <2>2, <2>4 DEF Ahead
  <2>5. ~InLine(x)'
    BY <1>2, <1>8 DEF InLine
  <2>6. QED
    BY <1>1, <1>8, <2>2, <2>3, <2>4, <2>5
<1>9. QED
  BY <1>4, <1>5, <1>6, <1>7, <1>8 DEF LineStep

\* Nothing is ahead of the head of the queue; whatever else is in line is behind it.
LEMMA HeadFacts ==
  ASSUME TypeOK, LinesAgree, NEW x \in Calls, AtHead(x)
  PROVE  /\ call[x].at = "queued" /\ \A y \in Calls : ~Ahead(y, x)
         /\ \A y \in Calls \ {x} : InLine(y) => Ahead(x, y)
<1>1. /\ inbox \in Seq(Calls) /\ queue \in Seq(Calls) /\ IsInjective(queue)
      /\ \A y \in Calls :
           /\ call[y].at = "sent" <=> y \in ToSet(inbox)
           /\ call[y].at = "queued" <=> y \in ToSet(queue)
  BY DEF TypeOK, LinesAgree
<1>2. /\ x \in ToSet(queue) /\ \A y : ~Earlier(queue, y, x)
      /\ \A y \in ToSet(queue) \ {x} : Earlier(queue, x, y)
  BY <1>1, TailFacts DEF AtHead
<1>3. x \notin ToSet(inbox) /\ \A y : ~Earlier(inbox, y, x)
  BY <1>1, <1>2, EarlierFacts
<1>4. QED
  BY <1>1, <1>2, <1>3 DEF Ahead, InLine

\* A call that is sent stands behind all that are in line.
LEMMA LastFacts ==
  ASSUME TypeOK, LinesAgree, NEW x \in Calls, inbox' = Append(inbox, x), queue' = queue
  PROVE  \A y \in Calls : InLine(y) => Ahead(y, x)'
<1>1. /\ inbox \in Seq(Calls)
      /\ \A y \in Calls :
           /\ call[y].at = "sent" <=> y \in ToSet(inbox)
           /\ call[y].at = "queued" <=> y \in ToSet(queue)
  BY DEF TypeOK, LinesAgree
<1>2. /\ ToSet(inbox') = ToSet(inbox) \cup {x}
      /\ \A y \in ToSet(inbox) : Earlier(inbox', y, x)
  BY <1>1, AppendFacts
<1>3. QED
  BY <1>1, <1>2 DEF Ahead, InLine
-----------------------------------------------------------------------------
\* The parts of IInv, for steps that leave some of them alone.

LEMMA TypeFacts ==
  ASSUME TypeOK
  PROVE  /\ log \in [Vaults -> Seq(Changes)] /\ call \in [Calls -> CallRecords]
         /\ request \in [Requests -> RequestRecords] /\ waiting \in Seq(Commands)
         /\ \A v \in Vaults : Len(log[v]) \in Nat /\ ToSet(log[v]) \subseteq Changes
         /\ \A v \in Vaults : ToSet(log[v]) = {log[v][k] : k \in 1..Len(log[v])}
<1>1. /\ log \in [Vaults -> Seq(Changes)] /\ call \in [Calls -> CallRecords]
      /\ request \in [Requests -> RequestRecords] /\ waiting \in Seq(Commands)
  BY DEF TypeOK, CallRecords, RequestRecords
<1>2. QED
  BY <1>1, SeqFacts

\* No command enters a line or a document, and none may be retried that might not before.
LEMMA RetriesKeep ==
  ASSUME IInv, log' \in [Vaults -> Seq(Changes)],
         \A x \in Commands \X {1, 2} : InLine(x)' => InLine(x),
         \A c \in Commands : MayRetry(c)' => MayRetry(c),
         \A a, b \in Calls : Ahead(a, b) /\ InLine(a)' /\ InLine(b)' => Ahead(a, b)',
         \A v \in Vaults : \A k \in 1..Len(log'[v]) :
           log'[v][k] \in Commands => k \in 1..Len(log[v]) /\ log[v][k] = log'[v][k]
  PROVE  RetriesFollow'
<1> SUFFICES ASSUME NEW c \in Commands
             PROVE  /\ InLine(<<c, 1>>)' =>
                         /\ ~Applied(c)'
                         /\ InLine(<<c, 2>>)' => Ahead(<<c, 1>>, <<c, 2>>)'
                         /\ MayRetry(c)' \/ InLine(<<c, 2>>)' =>
                              \A y \in (Commands \ {c}) \X {1, 2} : InLine(y)' =>
                                Ahead(y, <<c, 1>>)' \/ (InLine(<<c, 2>>)' /\ Ahead(<<c, 2>>, y)')
                    /\ Applied(c)' /\ (MayRetry(c)' \/ InLine(<<c, 2>>)') =>
                         /\ \A v \in Vaults : \A j, k \in 1..Len(log'[v]) :
                              j < k /\ log'[v][j] = c => log'[v][k] \notin Commands
                         /\ \A y \in (Commands \ {c}) \X {1, 2} : InLine(y)' =>
                              InLine(<<c, 2>>)' /\ Ahead(<<c, 2>>, y)'
  BY DEF RetriesFollow
<1>1. /\ <<c, 1>> \in Calls /\ <<c, 2>> \in Calls
      /\ \A y \in (Commands \ {c}) \X {1, 2} : y \in Calls /\ y \in Commands \X {1, 2}
      /\ <<c, 1>> \in Commands \X {1, 2} /\ <<c, 2>> \in Commands \X {1, 2}
  BY DEF Calls, Requests
<1>2. Applied(c)' => Applied(c)
  <2>1. SUFFICES ASSUME NEW v \in Vaults, c \in ToSet(log'[v]) PROVE c \in ToSet(log[v])
    BY DEF Applied
  <2>2. ToSet(log'[v]) = {log'[v][k] : k \in 1..Len(log'[v])}
    BY SeqFacts
  <2>3. ToSet(log[v]) = {log[v][k] : k \in 1..Len(log[v])}
    BY TypeFacts DEF IInv
  <2>4. QED
    BY <2>1, <2>2, <2>3
<1>3. MayRetry(c) => ~InLine(<<c, 2>>)
  BY DEF MayRetry, InLine
<1>4. ASSUME InLine(<<c, 1>>)'
      PROVE  /\ ~Applied(c)'
             /\ InLine(<<c, 2>>)' => Ahead(<<c, 1>>, <<c, 2>>)'
             /\ MayRetry(c)' \/ InLine(<<c, 2>>)' =>
                  \A y \in (Commands \ {c}) \X {1, 2} : InLine(y)' =>
                    Ahead(y, <<c, 1>>)' \/ (InLine(<<c, 2>>)' /\ Ahead(<<c, 2>>, y)')
  <2>1. /\ InLine(<<c, 1>>) /\ ~Applied(c)
        /\ InLine(<<c, 2>>) => Ahead(<<c, 1>>, <<c, 2>>)
        /\ MayRetry(c) \/ InLine(<<c, 2>>) =>
             \A y \in (Commands \ {c}) \X {1, 2} : InLine(y) =>
               Ahead(y, <<c, 1>>) \/ (InLine(<<c, 2>>) /\ Ahead(<<c, 2>>, y))
    BY <1>1, <1>4 DEF IInv, RetriesFollow
  <2>2. InLine(<<c, 2>>)' => Ahead(<<c, 1>>, <<c, 2>>)'
    BY <1>1, <1>4, <2>1
  <2>3. ASSUME MayRetry(c)' \/ InLine(<<c, 2>>)',
               NEW y \in (Commands \ {c}) \X {1, 2}, InLine(y)'
        PROVE  Ahead(y, <<c, 1>>)' \/ (InLine(<<c, 2>>)' /\ Ahead(<<c, 2>>, y)')
    <3>1. Ahead(y, <<c, 1>>) \/ (InLine(<<c, 2>>) /\ Ahead(<<c, 2>>, y))
      BY <1>1, <2>1, <2>3
    <3>2. InLine(<<c, 2>>) => InLine(<<c, 2>>)'
      BY <1>3, <2>3
    <3>3. QED
      BY <1>1, <1>4, <2>3, <3>1, <3>2
  <2>4. QED
    BY <1>2, <2>1, <2>2, <2>3
<1>5. ASSUME Applied(c)', MayRetry(c)' \/ InLine(<<c, 2>>)'
      PROVE  /\ \A v \in Vaults : \A j, k \in 1..Len(log'[v]) :
                  j < k /\ log'[v][j] = c => log'[v][k] \notin Commands
             /\ \A y \in (Commands \ {c}) \X {1, 2} : InLine(y)' =>
                  InLine(<<c, 2>>)' /\ Ahead(<<c, 2>>, y)'
  <2>1. /\ \A v \in Vaults : \A j, k \in 1..Len(log[v]) :
             j < k /\ log[v][j] = c => log[v][k] \notin Commands
        /\ \A y \in (Commands \ {c}) \X {1, 2} : InLine(y) =>
             InLine(<<c, 2>>) /\ Ahead(<<c, 2>>, y)
    BY <1>1, <1>2, <1>5 DEF IInv, RetriesFollow
  <2>2. \A y \in (Commands \ {c}) \X {1, 2} : InLine(y)' =>
          InLine(<<c, 2>>)' /\ Ahead(<<c, 2>>, y)'
    BY <1>1, <1>3, <1>5, <2>1
  <2>3. QED
    BY <2>1, <2>2
<1>6. QED
  BY <1>4, <1>5

\* One call goes on, and no command is applied.
LEMMA OneCallFacts ==
  ASSUME IInv, NEW x \in Calls, NEW c \in CallRecords, call' = [call EXCEPT ![x] = c],
         LineStep(x, c), c.at = "done" \/ c.answer = "none", c.at # "idle",
         call[x].at # "done", x[1] \in Requests => call[x].at # "idle",
         x[1] \in Commands /\ c.at \in {"sent", "queued"} => InLine(x),
         UNCHANGED renderer, log' \in [Vaults -> Seq(Changes)],
         \A v \in Vaults : \A k \in 1..Len(log'[v]) :
           log'[v][k] \in Commands => k \in 1..Len(log[v]) /\ log[v][k] = log'[v][k],
         \A e \in Batches \cup Writers :
           Applied(e)' => Applied(e) \/ (x = <<e, 1>> /\ c.at = "done")
  PROVE  /\ inbox' \in Seq(Calls) /\ queue' \in Seq(Calls) /\ call' \in [Calls -> CallRecords]
         /\ call'[x] = c /\ \A y \in Calls \ {x} : call'[y] = call[y]
         /\ LinesAgree' /\ AppliedAsAsked' /\ OneOut' /\ RetriesFollow'
<1>1. /\ call' \in [Calls -> CallRecords]
      /\ call'[x] = c /\ \A y \in Calls \ {x} : call'[y] = call[y]
  BY TypeFacts DEF IInv
<1>2. /\ inbox' \in Seq(Calls) /\ queue' \in Seq(Calls) /\ LinesAgree'
      /\ \A a, b \in Calls : Ahead(a, b) /\ InLine(a)' /\ InLine(b)' => Ahead(a, b)'
  BY LinesMove DEF IInv
<1>3. view' = view /\ scope' = scope /\ waiting' = waiting /\ request' = request
  BY DEF renderer
<1>4. OneOut'
  BY <1>3 DEF IInv, OneOut, Sends, IsCurrent
<1>5. RetriesFollow'
  <2>1. \A y \in Commands \X {1, 2} : y \in Calls
    BY DEF Calls, Requests
  <2>2. ASSUME NEW y \in Commands \X {1, 2}, InLine(y)' PROVE InLine(y)
    <3>1. CASE y = x
      <4>1. x[1] \in Commands /\ c.at \in {"sent", "queued"}
        BY <1>1, <2>2, <3>1 DEF InLine
      <4>2. QED
        BY <3>1, <4>1
    <3>2. CASE y # x
      BY <1>1, <2>1, <2>2, <3>2 DEF InLine
    <3>3. QED
      BY <3>1, <3>2
  <2>3. ASSUME NEW d \in Commands, MayRetry(d)' PROVE MayRetry(d)
    <3>1. <<d, 2>> \in Calls /\ <<d, 2>> # x
      BY <1>1, <2>3, CallsFacts, KindFacts DEF MayRetry
    <3>2. QED
      BY <1>1, <1>3, <2>3, <3>1 DEF MayRetry, Sends, IsCurrent
  <2>4. QED
    BY <1>2, <2>2, <2>3, RetriesKeep
<1>6. AppliedAsAsked'
  <2>1. ASSUME NEW r \in Requests, request[r].at \in {"unused", "waiting"}
        PROVE  call'[<<r, 1>>].at = "idle" /\ call'[<<r, 2>>].at = "idle" /\ ~Applied(r)'
    <3>1. /\ <<r, 1>> \in Calls /\ <<r, 2>> \in Calls
          /\ call[<<r, 1>>].at = "idle" /\ call[<<r, 2>>].at = "idle" /\ ~Applied(r)
      BY <2>1, CallsFacts DEF IInv, AppliedAsAsked
    <3>2. <<r, 1>> # x /\ <<r, 2>> # x
      <4>1. ASSUME x = <<r, 1>> \/ x = <<r, 2>> PROVE FALSE
        <5>1. x[1] \in Requests /\ call[x].at = "idle"
          BY <3>1, <4>1
        <5>2. QED
          BY <5>1
      <4>2. QED
        BY <4>1
    <3>3. ~Applied(r)'
      <4>1. SUFFICES ASSUME NEW v \in Vaults, r \in ToSet(log'[v]) PROVE FALSE
        BY DEF Applied
      <4>2. ToSet(log'[v]) = {log'[v][k] : k \in 1..Len(log'[v])} /\ ToSet(log'[v]) \subseteq Changes
        BY SeqFacts
      <4>3. r \in Commands
        BY <4>1, <4>2, KindFacts DEF Changes
      <4>4. r \in ToSet(log[v])
        <5>1. PICK k \in 1..Len(log'[v]) : log'[v][k] = r
          BY <4>1, <4>2
        <5>2. k \in 1..Len(log[v]) /\ log[v][k] = r
          BY <4>3, <5>1
        <5>3. QED
          BY <5>2, TypeFacts DEF IInv
      <4>5. QED
        BY <3>1, <4>4 DEF Applied
    <3>4. QED
      BY <1>1, <3>1, <3>2, <3>3
  <2>2. ASSUME NEW e \in Batches \cup Writers, Applied(e)' PROVE call'[<<e, 1>>].at = "done"
    <3>1. <<e, 1>> \in Calls
      BY CallsFacts
    <3>2. CASE Applied(e)
      <4>1. call[<<e, 1>>].at = "done"
        BY <3>2 DEF IInv, AppliedAsAsked
      <4>2. QED
        BY <1>1, <3>1, <4>1
    <3>3. CASE x = <<e, 1>> /\ c.at = "done"
      BY <1>1, <3>3
    <3>4. QED
      BY <2>2, <3>2, <3>3
  <2>3. \A v \in Vaults : \A k \in 1..Len(log'[v]) :
          log'[v][k] \in Commands => request[log'[v][k]].revision <= k
    BY DEF IInv, AppliedAsAsked
  <2>4. QED
    BY <1>3, <2>1, <2>2, <2>3 DEF AppliedAsAsked
<1>7. QED
  BY <1>1, <1>2, <1>4, <1>5, <1>6

\* The documents stay.
LEMMA DocumentsKeep ==
  ASSUME IInv, log' = log, request' = request
  PROVE  /\ AppliedOnce' /\ AppliedOnWhatItsAuthorSaw'
         /\ log' \in [Vaults -> Seq(Changes)]
         /\ \A v \in Vaults : \A k \in 1..Len(log'[v]) :
              log'[v][k] \in Commands => k \in 1..Len(log[v]) /\ log[v][k] = log'[v][k]
         /\ \A e : Applied(e)' => Applied(e)
BY TypeFacts DEF IInv, AppliedOnce, AppliedOnWhatItsAuthorSaw, Applied

\* One call goes on in a session and a collection that stay.
LEMMA ScopedKeep ==
  ASSUME IInv, NEW x \in Calls, NEW c \in CallRecords, call' = [call EXCEPT ![x] = c],
         UNCHANGED <<epoch, collection, request>>, c.epoch <= epoch,
         x[1] \in Switches => ~(c.at = "queued" /\ c.rotate),
         c.at \in {"begun", "queued"} /\ c.epoch = epoch =>
           /\ Active \in {c.vault} \cup c.under
           /\ \A y \in Calls \ {x} : Rotating(y) => request[y[1]].target \in c.under
  PROVE  Scoped'
<1>1. call'[x] = c /\ \A y \in Calls \ {x} : call'[y] = call[y]
  BY TypeFacts DEF IInv
<1>2. \A y \in Calls : Rotating(y)' => y # x /\ Rotating(y)
  BY <1>1 DEF Rotating
<1>3. Active' = Active
  BY DEF Active
<1>4. ASSUME NEW z \in Calls
      PROVE  /\ call'[z].epoch <= epoch
             /\ call'[z].at \in {"begun", "queued"} /\ call'[z].epoch = epoch =>
                  /\ Active \in {call'[z].vault} \cup call'[z].under
                  /\ \A y \in Calls \ {z} : Rotating(y)' => request[y[1]].target \in call'[z].under
  <2>1. CASE z = x
    BY <1>1, <1>2, <2>1
  <2>2. CASE z # x
    BY <1>1, <1>2, <2>2 DEF IInv, Scoped
  <2>3. QED
    BY <2>1, <2>2
<1>5. QED
  BY <1>3, <1>4 DEF Scoped

LEMMA SwitchesKeep ==
  ASSUME IInv, NEW x \in Calls, NEW c \in CallRecords, call' = [call EXCEPT ![x] = c],
         UNCHANGED <<collection, request>>,
         x[1] \in Switches /\ c.at \notin {"idle", "done"} =>
           /\ call[x].at \notin {"idle", "done"}
           /\ c.at \in {"read", "queued"} /\ ~c.rotate =>
                Active = request[x[1]].target \/ (call[x].at \in {"read", "queued"} /\ ~call[x].rotate)
  PROVE  SwitchesRotate'
<1>1. call'[x] = c /\ \A y \in Calls \ {x} : call'[y] = call[y]
  BY TypeFacts DEF IInv
<1>2. ASSUME NEW s \in Switches, NEW y \in {s} \X {1, 2}
      PROVE  /\ call'[y].at \notin {"idle", "done"} => request[s].target \in Vaults
             /\ call'[y].at \in {"read", "queued"} /\ ~call'[y].rotate
                  /\ request[s].revision = collection.revision => Active = request[s].target
  <2>1. y \in Calls /\ y[1] = s
    BY DEF Calls, Requests
  <2>2. /\ call[y].at \notin {"idle", "done"} => request[s].target \in Vaults
        /\ call[y].at \in {"read", "queued"} /\ ~call[y].rotate
             /\ request[s].revision = collection.revision => Active = request[s].target
    BY DEF IInv, SwitchesRotate
  <2>3. CASE y = x
    BY <1>1, <2>1, <2>2, <2>3
  <2>4. CASE y # x
    BY <1>1, <2>1, <2>2, <2>4
  <2>5. QED
    BY <2>3, <2>4
<1>3. QED
  BY <1>2 DEF IInv, SwitchesRotate, Active
-----------------------------------------------------------------------------
\* The renderer.

\* Requests go on, maybe as the main process locks or unlocks.
LEMMA BoundaryIInv ==
  ASSUME IInv, TypeOK', UNCHANGED <<disk, inbox, queue, call>>, epoch' \in {epoch, epoch + 1}, OneOut',
         \A c \in Commands : Sends(c)' => Sends(c),
         \A r \in Requests :
           \/ /\ request'[r].vault = request[r].vault /\ request'[r].revision = request[r].revision
              /\ request'[r].target = request[r].target
              /\ request'[r].at \in {request[r].at, "done"}
           \/ r \in Commands /\ request[r].at = "unused" /\ request'[r].at = "waiting"
  PROVE  IInv'
<1>1. /\ log' = log /\ collection' = collection
      /\ inbox' = inbox /\ queue' = queue /\ call' = call
  BY DEF disk
<1>2. TypeOK
  BY DEF IInv
<1>3. LinesAgree' /\ AppliedOnce'
  BY <1>1 DEF IInv, LinesAgree, AppliedOnce
<1>4. AppliedAsAsked' /\ AppliedOnWhatItsAuthorSaw'
  <2>1. \A r \in Requests : request'[r].at \in {"unused", "waiting"} =>
          request[r].at \in {"unused", "waiting"}
    OBVIOUS
  <2>2. ASSUME NEW v \in Vaults, NEW k \in 1..Len(log[v]), log[v][k] \in Commands
        PROVE  /\ request'[log[v][k]].vault = request[log[v][k]].vault
               /\ request'[log[v][k]].revision = request[log[v][k]].revision
    <3>1. log[v][k] \in Requests /\ Applied(log[v][k])
      BY <1>2, <2>2, KindFacts, TypeFacts DEF Applied
    <3>2. request[log[v][k]].at \notin {"unused", "waiting"}
      BY <3>1 DEF IInv, AppliedAsAsked
    <3>3. QED
      BY <3>1, <3>2
  <2>3. AppliedAsAsked'
    BY <1>1, <2>1, <2>2 DEF IInv, AppliedAsAsked, Applied
  <2>4. AppliedOnWhatItsAuthorSaw'
    BY <1>1, <2>2 DEF IInv, AppliedOnWhatItsAuthorSaw
  <2>5. QED
    BY <2>3, <2>4
<1>5. RetriesFollow'
  <2>1. log' \in [Vaults -> Seq(Changes)]
    BY <1>1, <1>2 DEF TypeOK
  <2>2. \A x \in Commands \X {1, 2} : InLine(x)' => InLine(x)
    BY <1>1 DEF InLine
  <2>3. \A c \in Commands : MayRetry(c)' => MayRetry(c)
    BY <1>1 DEF MayRetry
  <2>4. \A a, b \in Calls : Ahead(a, b) => Ahead(a, b)'
    BY <1>1 DEF Ahead
  <2>5. QED
    BY <1>1, <2>1, <2>2, <2>3, <2>4, RetriesKeep
<1>6. \A s \in Switches : /\ request'[s].revision = request[s].revision
                          /\ request'[s].target = request[s].target
                          /\ request'[s].at \in {request[s].at, "done"}
  BY KindFacts
<1>7. SwitchesRotate'
  BY <1>1, <1>6 DEF IInv, SwitchesRotate, Active
<1>8. Scoped'
  <2>1. CASE epoch' = epoch
    BY <1>1, <1>6, <2>1 DEF IInv, Scoped, Rotating, Active
  <2>2. CASE epoch' = epoch + 1
    <3>1. epoch \in Nat /\ \A x \in Calls : call[x].epoch \in Nat /\ call[x].epoch <= epoch
      BY <1>2, TypeFacts DEF IInv, TypeOK, Scoped, CallRecords
    <3>2. \A x \in Calls : call[x].epoch <= epoch' /\ call[x].epoch # epoch'
      BY <2>2, <3>1
    <3>3. QED
      BY <1>1, <3>2 DEF Scoped
  <2>3. QED
    BY <2>1, <2>2
<1>9. QED
  BY <1>3, <1>4, <1>5, <1>7, <1>8 DEF IInv

LEMMA RendererIInv ==
  ASSUME IInv, TypeOK', UNCHANGED <<disk, main>>, OneOut',
         \A c \in Commands : Sends(c)' => Sends(c),
         \A r \in Requests :
           \/ /\ request'[r].vault = request[r].vault /\ request'[r].revision = request[r].revision
              /\ request'[r].target = request[r].target
              /\ request'[r].at \in {request[r].at, "done"}
           \/ r \in Commands /\ request[r].at = "unused" /\ request'[r].at = "waiting"
  PROVE  IInv'
<1>1. UNCHANGED <<disk, inbox, queue, call>> /\ epoch' \in {epoch, epoch + 1}
  BY DEF main
<1>2. QED
  BY <1>1, BoundaryIInv

\* The renderer's session ends.
LEMMA RescopeIInv ==
  ASSUME IInv, NEW data \in Snapshots \cup {None}, Rescope(data), NEW w \in SUBSET Requests,
         request' = Dropped(w), UNCHANGED <<disk, inbox, queue, call>>,
         unlocked' \in BOOLEAN, epoch' \in {epoch, epoch + 1}
  PROVE  IInv'
<1>1. /\ TypeOK /\ scope' = scope + 1 /\ waiting' = <<>> /\ view' = data
      /\ scope \in Nat /\ request \in [Requests -> RequestRecords]
  BY TypeFacts DEF IInv, Rescope, TypeOK
<1>2. request' = [r \in Requests |-> IF request[r].at = "waiting" \/ r \in w
                                     THEN [request[r] EXCEPT !.at = "done"] ELSE request[r]]
  BY DEF Dropped
<1>3. \A r \in Requests : /\ request'[r] \in RequestRecords
                          /\ request'[r].scope = request[r].scope
                          /\ request'[r].vault = request[r].vault
                          /\ request'[r].revision = request[r].revision
                          /\ request'[r].target = request[r].target
                          /\ request'[r].at \in {request[r].at, "done"}
  <2>1. ASSUME NEW r \in Requests
        PROVE  /\ request'[r] \in RequestRecords
               /\ request'[r].scope = request[r].scope /\ request'[r].vault = request[r].vault
               /\ request'[r].revision = request[r].revision
               /\ request'[r].target = request[r].target
               /\ request'[r].at \in {request[r].at, "done"}
    <3>1. PICK n : n = [request[r] EXCEPT !.at = "done"]
      OBVIOUS
    <3>2. request'[r] = n \/ request'[r] = request[r]
      BY <1>2, <3>1
    <3>3. /\ n \in RequestRecords /\ n.at = "done" /\ n.scope = request[r].scope
          /\ n.vault = request[r].vault /\ n.revision = request[r].revision
          /\ n.target = request[r].target
      BY <1>1, <3>1 DEF RequestRecords
    <3>4. QED
      BY <1>1, <3>2, <3>3
  <2>2. QED
    BY <2>1
<1>4. request' \in [Requests -> RequestRecords]
  BY <1>2, <1>3
<1>5. TypeOK'
  <2>1. <<>> \in Seq(Commands) /\ scope + 1 \in Nat /\ epoch' \in Nat
    BY <1>1, EmptySeq DEF TypeOK
  <2>2. QED
    BY <1>1, <1>4, <2>1 DEF TypeOK, RequestRecords, disk
<1>6. \A r \in Requests : request'[r].scope <= scope' /\ request'[r].scope # scope'
  <2>1. ASSUME NEW r \in Requests PROVE request'[r].scope <= scope' /\ request'[r].scope # scope'
    <3>1. request[r].scope <= scope /\ request[r].scope \in Nat
      BY <1>1 DEF IInv, OneOut, RequestRecords
    <3>2. QED
      BY <1>1, <1>3, <3>1
  <2>2. QED
    BY <2>1
<1>7. OneOut' /\ \A c \in Commands : ~Sends(c)'
  BY <1>6, KindFacts DEF OneOut, Sends, IsCurrent
<1>8. QED
  BY <1>3, <1>5, <1>7, BoundaryIInv

LEMMA ScreenFacts ==
  ASSUME IInv, UNCHANGED main
  PROVE  UNCHANGED <<inbox, queue, call>> /\ unlocked' \in BOOLEAN /\ epoch' \in {epoch, epoch + 1}
BY DEF IInv, TypeOK, main

LEMMA AuthorIInv == ASSUME IInv, NEW c \in Commands, Author(c) PROVE IInv'
<1>1. /\ TypeOK /\ request \in [Requests -> RequestRecords] /\ waiting \in Seq(Commands)
      /\ c \in Requests /\ view \in Snapshots \cup {None} /\ scope \in Nat
  BY TypeFacts, KindFacts DEF IInv, TypeOK
<1>2. PICK r \in 1..view.revision :
        request' = [request EXCEPT ![c] = [@ EXCEPT !.at = "waiting", !.vault = view.vault,
                                                    !.revision = r, !.scope = scope]]
  BY DEF Author
<1>3. /\ request[c].at = "unused" /\ view # None /\ waiting' = Append(waiting, c)
      /\ UNCHANGED <<disk, main, view, scope>>
  BY DEF Author
<1>4. view.vault \in Vaults /\ r \in Nat
  BY <1>1, <1>3 DEF Snapshots
<1>5. PICK n : n = [request[c] EXCEPT !.at = "waiting", !.vault = view.vault,
                                      !.revision = r, !.scope = scope]
  OBVIOUS
<1>6. n \in RequestRecords /\ n.at = "waiting" /\ n.scope = scope
  BY <1>1, <1>4, <1>5 DEF RequestRecords
<1>7. /\ request' \in [Requests -> RequestRecords] /\ request'[c] = n
      /\ \A d \in Requests \ {c} : request'[d] = request[d]
  BY <1>1, <1>2, <1>5, <1>6
<1>8. TypeOK'
  BY <1>1, <1>3, <1>7, AppendProperties DEF TypeOK, RequestRecords, disk, main
<1>9. ASSUME NEW d \in Commands, Sends(d)' PROVE Sends(d) /\ d # c
  BY <1>3, <1>6, <1>7, <1>9, KindFacts DEF Sends, IsCurrent
<1>10. OneOut'
  <2>1. ASSUME NEW d \in Commands, Sends(d)' PROVE waiting' # <<>> /\ Head(waiting') = d
    <3>1. waiting # <<>> /\ Head(waiting) = d
      BY <1>9, <2>1 DEF IInv, OneOut
    <3>2. /\ Len(waiting) \in Nat \ {0} /\ Head(waiting) = waiting[1]
          /\ Len(waiting') = Len(waiting) + 1 /\ waiting' \in Seq(Commands)
          /\ \A i \in 1..Len(waiting) : waiting'[i] = waiting[i]
      BY <1>1, <1>3, <3>1, AppendFacts, EmptySeq
    <3>3. waiting' # <<>> /\ Head(waiting') = waiting'[1]
      BY <3>2, EmptySeq
    <3>4. QED
      BY <3>1, <3>2, <3>3
  <2>2. \A d \in Requests : request'[d].scope <= scope
    BY <1>1, <1>6, <1>7 DEF IInv, OneOut
  <2>3. QED
    BY <1>3, <2>1, <2>2 DEF OneOut
<1>11. QED
  BY <1>3, <1>6, <1>7, <1>8, <1>9, <1>10, RendererIInv

\* A request is answered, and leaves the command queue.
LEMMA AnsweredIInv ==
  ASSUME IInv, NEW r \in Requests, request' = [request EXCEPT ![r].at = "done"],
         waiting' = Leave(r), UNCHANGED <<disk, main, scope>>,
         view' \in Snapshots \cup {None}, view' # None => view # None
  PROVE  IInv'
<1>1. /\ TypeOK /\ request \in [Requests -> RequestRecords] /\ waiting \in Seq(Commands)
  BY TypeFacts DEF IInv, TypeOK
<1>2. PICK n : n = [request[r] EXCEPT !.at = "done"]
  OBVIOUS
<1>3. /\ n \in RequestRecords /\ n.at = "done" /\ n.scope = request[r].scope
      /\ n.vault = request[r].vault /\ n.revision = request[r].revision
      /\ n.target = request[r].target
  BY <1>1, <1>2 DEF RequestRecords
<1>4. /\ request' \in [Requests -> RequestRecords] /\ request'[r] = n
      /\ \A d \in Requests \ {r} : request'[d] = request[d]
  BY <1>1, <1>2, <1>3
<1>5. waiting' \in Seq(Commands)
  BY <1>1, HeadTailProperties DEF Leave
<1>6. TypeOK'
  BY <1>1, <1>4, <1>5 DEF TypeOK, RequestRecords, disk, main
<1>7. ASSUME NEW d \in Commands, Sends(d)' PROVE Sends(d) /\ d # r
  BY <1>3, <1>4, <1>7, KindFacts DEF Sends, IsCurrent
<1>8. OneOut'
  <2>1. ASSUME NEW d \in Commands, Sends(d)' PROVE waiting' # <<>> /\ Head(waiting') = d
    BY <1>7, <2>1 DEF IInv, OneOut, Leave
  <2>2. \A d \in Requests : request'[d].scope <= scope
    BY <1>3, <1>4 DEF IInv, OneOut
  <2>3. QED
    BY <2>1, <2>2 DEF OneOut
<1>9. QED
  BY <1>3, <1>4, <1>6, <1>7, <1>8, RendererIInv

LEMMA ReceiveCommandIInv == ASSUME IInv, NEW c \in Commands, ReceiveCommand(c) PROVE IInv'
<1>1. /\ call \in [Calls -> CallRecords] /\ view \in Snapshots \cup {None}
      /\ Attempt(c) \in Calls /\ c \in Requests
  BY TypeFacts, CallsFacts, KindFacts DEF IInv, TypeOK, Attempt
<1>2. call[Attempt(c)].data \in Snapshots \cup {None}
  BY <1>1 DEF CallRecords
<1>3. view' \in Snapshots \cup {None} /\ (view' # None => view # None)
  BY <1>1, <1>2 DEF ReceiveCommand, Newer
<1>4. QED
  BY <1>1, <1>3, AnsweredIInv DEF ReceiveCommand

LEMMA ReceiveSwitchIInv == ASSUME IInv, NEW s \in Switches, ReceiveSwitch(s) PROVE IInv'
<1>1. /\ call \in [Calls -> CallRecords] /\ view \in Snapshots \cup {None}
      /\ Attempt(s) \in Calls /\ s \in Requests /\ waiting \in Seq(Commands)
  BY TypeFacts, CallsFacts, KindFacts DEF IInv, TypeOK, Attempt
<1>2. call[Attempt(s)].data \in Snapshots \cup {None}
  BY <1>1 DEF CallRecords
<1>3. CASE Rescope(call[Attempt(s)].data) /\ request' = Dropped({s}) /\ UNCHANGED <<disk, main>>
  BY <1>1, <1>2, <1>3, ScreenFacts, RescopeIInv
<1>4. CASE request' = [request EXCEPT ![s].at = "done"] /\ UNCHANGED <<view, scope, waiting>>
           /\ UNCHANGED <<disk, main>>
  <2>1. Leave(s) = waiting
    <3>1. waiting # <<>> => Head(waiting) \in Commands
      BY <1>1, HeadTailProperties
    <3>2. QED
      BY <3>1, KindFacts DEF Leave
  <2>2. QED
    BY <1>1, <1>4, <2>1, AnsweredIInv
<1>5. QED
  BY <1>3, <1>4 DEF ReceiveSwitch

LEMMA HearChangeIInv == ASSUME IInv, HearChange PROVE IInv'
<1>1. PICK r \in (view.revision + 1)..Revision(view.vault) : view' = [view EXCEPT !.revision = r]
  BY DEF HearChange
<1>2. /\ TypeOK /\ view # None /\ UNCHANGED <<disk, main, scope, waiting, request>>
  BY DEF HearChange, IInv
<1>3. view \in Snapshots
  BY <1>2 DEF TypeOK
<1>4. view.revision \in Nat /\ view.vault \in Vaults /\ Revision(view.vault) \in Nat
  BY <1>2, <1>3, TypeFacts DEF Snapshots, Revision
<1>5. view' \in Snapshots
  BY <1>1, <1>3, <1>4 DEF Snapshots
<1>6. TypeOK'
  BY <1>2, <1>5 DEF TypeOK, disk, main
<1>7. \A c \in Commands : Sends(c)' => Sends(c)
  BY <1>2 DEF Sends, IsCurrent
<1>8. OneOut'
  BY <1>2, <1>7 DEF IInv, OneOut
<1>9. QED
  BY <1>2, <1>6, <1>7, <1>8, RendererIInv

LEMMA HearSwitchIInv == ASSUME IInv, HearSwitch PROVE IInv'
<1>1. PICK r \in 1..Revision(Active) : Rescope([vault |-> Active, revision |-> r])
  BY DEF HearSwitch
<1>2. Active \in Vaults /\ Revision(Active) \in Nat
  BY TypeFacts DEF IInv, TypeOK, Active, Revision
<1>3. [vault |-> Active, revision |-> r] \in Snapshots
  BY <1>1, <1>2 DEF Snapshots
<1>4. QED
  BY <1>1, <1>3, ScreenFacts, RescopeIInv DEF HearSwitch

LEMMA EndViewIInv == ASSUME IInv, EndView PROVE IInv'
BY ScreenFacts, RescopeIInv DEF EndView
-----------------------------------------------------------------------------
\* Invocations.

LEMMA InvokeFacts ==
  ASSUME IInv, NEW x \in Calls, call[x].at = "idle", Invoke(x),
         UNCHANGED <<disk, view, scope, waiting>>,
         \A y \in Calls : y[1] \in Switches /\ call[y].at # "idle" =>
           request'[y[1]].target = request[y[1]].target
  PROVE  /\ inbox' \in Seq(Calls) /\ queue' \in Seq(Calls) /\ call' \in [Calls -> CallRecords]
         /\ call'[x].at = "sent" /\ \A y \in Calls \ {x} : call'[y] = call[y]
         /\ \A a, b \in Calls : Ahead(a, b) /\ InLine(a)' /\ InLine(b)' => Ahead(a, b)'
         /\ \A y \in Calls : InLine(y) => Ahead(y, x)'
         /\ \A y \in Calls : InLine(y)' <=> InLine(y) \/ y = x
         /\ LinesAgree' /\ AppliedOnce' /\ Scoped'
<1>1. /\ inbox' = Append(inbox, x) /\ call' = [call EXCEPT ![x].at = "sent"]
      /\ unlocked' = unlocked /\ epoch' = epoch /\ queue' = queue
      /\ log' = log /\ collection' = collection
  BY DEF Invoke, disk
<1>2. /\ TypeOK /\ LinesAgree /\ call \in [Calls -> CallRecords]
  BY TypeFacts DEF IInv
<1>3. PICK c : c = [call[x] EXCEPT !.at = "sent"]
  OBVIOUS
<1>4. /\ c \in CallRecords /\ c.at = "sent" /\ c.answer = call[x].answer
      /\ c.epoch = call[x].epoch
  BY <1>2, <1>3 DEF CallRecords
<1>5. call' = [call EXCEPT ![x] = c]
  BY <1>1, <1>3
<1>6. /\ call' \in [Calls -> CallRecords]
      /\ call'[x] = c /\ \A y \in Calls \ {x} : call'[y] = call[y]
  BY <1>2, <1>4, <1>5
<1>7. LineStep(x, c) /\ c.answer = "none"
  BY <1>1, <1>2, <1>4 DEF LineStep, LinesAgree
<1>8. /\ inbox' \in Seq(Calls) /\ queue' \in Seq(Calls) /\ LinesAgree'
      /\ \A a, b \in Calls : Ahead(a, b) /\ InLine(a)' /\ InLine(b)' => Ahead(a, b)'
  BY <1>2, <1>4, <1>5, <1>7, LinesMove
<1>9. \A y \in Calls : InLine(y) => Ahead(y, x)'
  BY <1>1, <1>2, LastFacts
<1>10. \A y \in Calls : InLine(y)' <=> InLine(y) \/ y = x
  BY <1>4, <1>6 DEF InLine
<1>11. AppliedOnce'
  BY <1>1 DEF IInv, AppliedOnce
<1>12. Scoped'
  <2>1. \A y \in Calls : Rotating(y)' => Rotating(y) /\ request'[y[1]].target = request[y[1]].target
    BY <1>1, <1>4, <1>6 DEF Rotating
  <2>2. Active' = Active
    BY <1>1 DEF Active
  <2>3. ASSUME NEW z \in Calls
        PROVE  /\ call'[z].epoch <= epoch
               /\ call'[z].at \in {"begun", "queued"} /\ call'[z].epoch = epoch =>
                    /\ Active \in {call'[z].vault} \cup call'[z].under
                    /\ \A y \in Calls \ {z} : Rotating(y)' => request'[y[1]].target \in call'[z].under
    <3>1. CASE z = x
      BY <1>4, <1>6, <3>1 DEF IInv, Scoped
    <3>2. CASE z # x
      BY <1>6, <2>1, <3>2 DEF IInv, Scoped
    <3>3. QED
      BY <3>1, <3>2
  <2>4. QED
    BY <1>1, <2>2, <2>3 DEF Scoped
<1>13. QED
  BY <1>4, <1>6, <1>8, <1>9, <1>10, <1>11, <1>12

\* The attempts of a command, as one is invoked.
LEMMA InvokeRetries ==
  ASSUME IInv, NEW c \in Commands, NEW x \in {<<c, 1>>, <<c, 2>>}, log' = log,
         call'[x].at = "sent", \A y \in Calls \ {x} : call'[y] = call[y],
         \A a, b \in Calls : Ahead(a, b) /\ InLine(a)' /\ InLine(b)' => Ahead(a, b)',
         \A y \in Calls : InLine(y) => Ahead(y, x)',
         \A y \in Calls : InLine(y)' <=> InLine(y) \/ y = x,
         \A d \in Commands \ {c} : ~MayRetry(d)',
         x = <<c, 1>> => ~Applied(c) /\ call[<<c, 2>>].at = "idle",
         x = <<c, 2>> => MayRetry(c)
  PROVE  RetriesFollow'
<1> SUFFICES ASSUME NEW d \in Commands
             PROVE  /\ InLine(<<d, 1>>)' =>
                         /\ ~Applied(d)'
                         /\ InLine(<<d, 2>>)' => Ahead(<<d, 1>>, <<d, 2>>)'
                         /\ MayRetry(d)' \/ InLine(<<d, 2>>)' =>
                              \A y \in (Commands \ {d}) \X {1, 2} : InLine(y)' =>
                                Ahead(y, <<d, 1>>)' \/ (InLine(<<d, 2>>)' /\ Ahead(<<d, 2>>, y)')
                    /\ Applied(d)' /\ (MayRetry(d)' \/ InLine(<<d, 2>>)') =>
                         /\ \A v \in Vaults : \A j, k \in 1..Len(log'[v]) :
                              j < k /\ log'[v][j] = d => log'[v][k] \notin Commands
                         /\ \A y \in (Commands \ {d}) \X {1, 2} : InLine(y)' =>
                              InLine(<<d, 2>>)' /\ Ahead(<<d, 2>>, y)'
  BY DEF RetriesFollow
<1>1. /\ <<d, 1>> \in Calls /\ <<d, 2>> \in Calls /\ x \in Calls
      /\ <<c, 1>> \in Calls /\ <<c, 2>> \in Calls
      /\ \A y \in (Commands \ {d}) \X {1, 2} : y \in Calls
      /\ \A y \in (Commands \ {d}) \X {1, 2} : y[1] # d
  BY DEF Calls, Requests
<1>2. Applied(d)' <=> Applied(d)
  BY DEF Applied
<1>3. /\ InLine(<<d, 1>>) =>
           /\ ~Applied(d)
           /\ InLine(<<d, 2>>) => Ahead(<<d, 1>>, <<d, 2>>)
           /\ MayRetry(d) \/ InLine(<<d, 2>>) =>
                \A y \in (Commands \ {d}) \X {1, 2} : InLine(y) =>
                  Ahead(y, <<d, 1>>) \/ (InLine(<<d, 2>>) /\ Ahead(<<d, 2>>, y))
      /\ Applied(d) /\ (MayRetry(d) \/ InLine(<<d, 2>>)) =>
           /\ \A v \in Vaults : \A j, k \in 1..Len(log[v]) :
                j < k /\ log[v][j] = d => log[v][k] \notin Commands
           /\ \A y \in (Commands \ {d}) \X {1, 2} : InLine(y) =>
                InLine(<<d, 2>>) /\ Ahead(<<d, 2>>, y)
  BY DEF IInv, RetriesFollow
<1>4. CASE d # c
  <2>1. /\ ~MayRetry(d)' /\ <<d, 1>> # x /\ <<d, 2>> # x
        /\ InLine(<<d, 1>>)' <=> InLine(<<d, 1>>)
        /\ InLine(<<d, 2>>)' <=> InLine(<<d, 2>>)
    BY <1>1, <1>4
  <2>2. ASSUME InLine(<<d, 1>>)', InLine(<<d, 2>>)',
               NEW y \in (Commands \ {d}) \X {1, 2}, InLine(y)'
        PROVE  Ahead(y, <<d, 1>>)' \/ Ahead(<<d, 2>>, y)'
    <3>1. CASE y = x
      BY <1>1, <2>1, <2>2, <3>1
    <3>2. CASE y # x
      BY <1>1, <1>3, <2>1, <2>2, <3>2
    <3>3. QED
      BY <3>1, <3>2
  <2>3. ASSUME Applied(d), InLine(<<d, 2>>)',
               NEW y \in (Commands \ {d}) \X {1, 2}, InLine(y)'
        PROVE  Ahead(<<d, 2>>, y)'
    <3>1. CASE y = x
      BY <1>1, <2>1, <2>3, <3>1
    <3>2. CASE y # x
      BY <1>1, <1>3, <2>1, <2>3, <3>2
    <3>3. QED
      BY <3>1, <3>2
  <2>4. InLine(<<d, 1>>)' =>
          ~Applied(d)' /\ (InLine(<<d, 2>>)' => Ahead(<<d, 1>>, <<d, 2>>)')
    BY <1>1, <1>2, <1>3, <2>1
  <2>5. Applied(d)' /\ InLine(<<d, 2>>)' =>
          \A v \in Vaults : \A j, k \in 1..Len(log'[v]) :
            j < k /\ log'[v][j] = d => log'[v][k] \notin Commands
    BY <1>2, <1>3, <2>1
  <2>6. QED
    BY <1>2, <2>1, <2>2, <2>3, <2>4, <2>5
<1>5. CASE d = c /\ x = <<c, 1>>
  <2>1. /\ ~Applied(d)' /\ ~InLine(<<d, 2>>)'
    BY <1>1, <1>2, <1>5 DEF InLine
  <2>2. ASSUME NEW y \in (Commands \ {d}) \X {1, 2}, InLine(y)' PROVE Ahead(y, <<d, 1>>)'
    BY <1>1, <1>5, <2>2
  <2>3. QED
    BY <2>1, <2>2
<1>6. CASE d = c /\ x = <<c, 2>>
  <2>1. MayRetry(d) /\ InLine(<<d, 2>>)' /\ ~InLine(<<d, 2>>)
    BY <1>1, <1>6 DEF MayRetry, InLine
  <2>2. InLine(<<d, 1>>)' => InLine(<<d, 1>>)
    BY <1>1, <1>6
  <2>3. ASSUME InLine(<<d, 1>>)' PROVE ~Applied(d)' /\ Ahead(<<d, 1>>, <<d, 2>>)'
    BY <1>1, <1>2, <1>3, <1>6, <2>2, <2>3
  <2>4. ASSUME InLine(<<d, 1>>)', NEW y \in (Commands \ {d}) \X {1, 2}, InLine(y)'
        PROVE  Ahead(y, <<d, 1>>)'
    <3>1. InLine(y)
      BY <1>1, <1>6, <2>4
    <3>2. Ahead(y, <<d, 1>>)
      BY <1>3, <2>1, <2>2, <2>4, <3>1
    <3>3. QED
      BY <1>1, <2>4, <3>2
  <2>5. ASSUME Applied(d)
        PROVE  /\ \A v \in Vaults : \A j, k \in 1..Len(log'[v]) :
                    j < k /\ log'[v][j] = d => log'[v][k] \notin Commands
               /\ \A y \in (Commands \ {d}) \X {1, 2} : ~InLine(y)'
    BY <1>1, <1>3, <1>6, <2>1, <2>5
  <2>6. QED
    BY <1>2, <2>1, <2>3, <2>4, <2>5
<1>7. QED
  BY <1>4, <1>5, <1>6

LEMMA SendIInv == ASSUME IInv, NEW c \in Commands, Send(c) PROVE IInv'
<1>1. /\ request[c].at = "waiting" /\ waiting # <<>> /\ Head(waiting) = c
      /\ request' = [request EXCEPT ![c].at = "sent"] /\ Invoke(<<c, 1>>)
      /\ log' = log /\ collection' = collection
      /\ unlocked' = unlocked /\ epoch' = epoch /\ queue' = queue
      /\ view' = view /\ scope' = scope /\ waiting' = waiting
  BY DEF Send, Invoke, disk
<1>2. /\ TypeOK /\ request \in [Requests -> RequestRecords] /\ c \in Requests
      /\ <<c, 1>> \in Calls /\ <<c, 2>> \in Calls
  BY TypeFacts, KindFacts, CallsFacts DEF IInv
<1>3. PICK n : n = [request[c] EXCEPT !.at = "sent"]
  OBVIOUS
<1>4. /\ n \in RequestRecords /\ n.at = "sent" /\ n.scope = request[c].scope
      /\ n.vault = request[c].vault /\ n.revision = request[c].revision
      /\ n.target = request[c].target
  BY <1>2, <1>3 DEF RequestRecords
<1>5. /\ request' \in [Requests -> RequestRecords] /\ request'[c] = n
      /\ \A d \in Requests \ {c} : request'[d] = request[d]
  BY <1>1, <1>2, <1>3, <1>4
<1>6. /\ call[<<c, 1>>].at = "idle" /\ call[<<c, 2>>].at = "idle" /\ ~Applied(c)
  BY <1>1, <1>2 DEF IInv, AppliedAsAsked
<1>7. \A r \in Requests : /\ request'[r].vault = request[r].vault
                          /\ request'[r].revision = request[r].revision
                          /\ request'[r].target = request[r].target
                          /\ request'[r].scope = request[r].scope
  BY <1>4, <1>5
<1>8. /\ inbox' \in Seq(Calls) /\ queue' \in Seq(Calls) /\ call' \in [Calls -> CallRecords]
      /\ call'[<<c, 1>>].at = "sent" /\ \A y \in Calls \ {<<c, 1>>} : call'[y] = call[y]
      /\ \A a, b \in Calls : Ahead(a, b) /\ InLine(a)' /\ InLine(b)' => Ahead(a, b)'
      /\ \A y \in Calls : InLine(y) => Ahead(y, <<c, 1>>)'
      /\ \A y \in Calls : InLine(y)' <=> InLine(y) \/ y = <<c, 1>>
      /\ LinesAgree' /\ AppliedOnce' /\ Scoped'
  <2>1. \A y \in Calls : y[1] \in Switches /\ call[y].at # "idle" =>
          request'[y[1]].target = request[y[1]].target
    BY <1>7, KindFacts
  <2>2. UNCHANGED <<disk, view, scope, waiting>>
    BY DEF Send
  <2>3. QED
    BY <1>1, <1>2, <1>6, <2>1, <2>2, InvokeFacts
<1>9. TypeOK'
  BY <1>1, <1>2, <1>5, <1>8 DEF TypeOK, CallRecords, RequestRecords
<1>10. \A v \in Vaults : \A k \in 1..Len(log[v]) : log[v][k] \in Commands => log[v][k] \in Requests
  BY KindFacts
<1>11. AppliedOnWhatItsAuthorSaw'
  BY <1>1, <1>7, <1>10 DEF IInv, AppliedOnWhatItsAuthorSaw
<1>12. AppliedAsAsked'
  <2>1. ASSUME NEW r \in Requests, request'[r].at \in {"unused", "waiting"}
        PROVE  call'[<<r, 1>>].at = "idle" /\ call'[<<r, 2>>].at = "idle" /\ ~Applied(r)'
    <3>1. r # c /\ request[r].at \in {"unused", "waiting"}
      BY <1>4, <1>5, <2>1
    <3>2. call[<<r, 1>>].at = "idle" /\ call[<<r, 2>>].at = "idle" /\ ~Applied(r)
      BY <3>1 DEF IInv, AppliedAsAsked
    <3>3. <<r, 1>> \in Calls \ {<<c, 1>>} /\ <<r, 2>> \in Calls \ {<<c, 1>>}
      BY <3>1, CallsFacts
    <3>4. QED
      BY <1>1, <1>8, <3>2, <3>3 DEF Applied
  <2>2. ASSUME NEW e \in Batches \cup Writers, Applied(e)' PROVE call'[<<e, 1>>].at = "done"
    <3>1. call[<<e, 1>>].at = "done"
      BY <1>1, <2>2 DEF IInv, AppliedAsAsked, Applied
    <3>2. <<e, 1>> \in Calls \ {<<c, 1>>}
      BY CallsFacts, KindFacts
    <3>3. QED
      BY <1>8, <3>1, <3>2
  <2>3. \A v \in Vaults : \A k \in 1..Len(log'[v]) :
          log'[v][k] \in Commands => request'[log'[v][k]].revision <= k
    BY <1>1, <1>7, <1>10 DEF IInv, AppliedAsAsked
  <2>4. QED
    BY <2>1, <2>2, <2>3 DEF AppliedAsAsked
<1>13. \A d \in Commands \ {c} : ~Sends(d)'
  <2>1. ASSUME NEW d \in Commands \ {c}, Sends(d)' PROVE FALSE
    <3>1. Sends(d)
      BY <1>1, <1>5, <2>1, KindFacts DEF Sends, IsCurrent
    <3>2. QED
      BY <1>1, <3>1 DEF IInv, OneOut
  <2>2. QED
    BY <2>1
<1>14. OneOut'
  BY <1>1, <1>7, <1>13 DEF IInv, OneOut
<1>15. RetriesFollow'
  <2>1. \A d \in Commands \ {c} : ~MayRetry(d)'
    BY <1>13 DEF MayRetry
  <2>2. <<c, 1>> # <<c, 2>> /\ <<c, 1>> \in {<<c, 1>>, <<c, 2>>}
    OBVIOUS
  <2>3. QED
    BY <1>1, <1>6, <1>8, <2>1, <2>2, InvokeRetries
<1>16. SwitchesRotate'
  <2>1. \A s \in Switches : s \in Requests \ {c}
    BY KindFacts
  <2>2. \A s \in Switches : \A x \in {s} \X {1, 2} : x \in Calls \ {<<c, 1>>}
    BY KindFacts DEF Calls
  <2>3. QED
    <3>1. collection' = collection /\ Active' = Active
      BY <1>1 DEF Active
    <3>2. ASSUME NEW s \in Switches
          PROVE  request'[s] = request[s] /\ \A x \in {s} \X {1, 2} : call'[x] = call[x]
      BY <1>5, <1>8, <2>1, <2>2
    <3>3. QED
      BY <3>1, <3>2 DEF IInv, SwitchesRotate
<1>17. QED
  BY <1>8, <1>9, <1>11, <1>12, <1>14, <1>15, <1>16 DEF IInv

\* An invocation of a switch leaves the commands' attempts alone.
LEMMA SwitchRetries ==
  ASSUME IInv, NEW s \in Switches, NEW x \in {<<s, 1>>, <<s, 2>>},
         log' = log, UNCHANGED <<view, scope>>,
         \A d \in Requests \ {s} : request'[d] = request[d],
         \A y \in Calls \ {x} : call'[y] = call[y],
         \A a, b \in Calls : Ahead(a, b) /\ InLine(a)' /\ InLine(b)' => Ahead(a, b)'
  PROVE  RetriesFollow'
<1>1. \A c \in Commands : c \in Requests \ {s} /\ <<c, 2>> \in Calls \ {x}
  <2>1. \A c \in Commands : c \in Requests /\ c # s /\ <<c, 2>> \in Calls
    BY KindFacts, CallsFacts
  <2>2. \A c \in Commands : <<c, 2>> # <<s, 1>> /\ <<c, 2>> # <<s, 2>>
    BY <2>1
  <2>3. QED
    BY <2>1, <2>2
<1>2. \A y \in Commands \X {1, 2} : y \in Calls \ {x}
  BY KindFacts DEF Calls
<1>3. \A y \in Commands \X {1, 2} : InLine(y)' => InLine(y)
  BY <1>2 DEF InLine
<1>4. \A c \in Commands : MayRetry(c)' => MayRetry(c)
  BY <1>1 DEF MayRetry, Sends, IsCurrent
<1>5. log' \in [Vaults -> Seq(Changes)]
  BY TypeFacts DEF IInv
<1>6. QED
  BY <1>3, <1>4, <1>5, RetriesKeep

LEMMA RequestSwitchIInv ==
  ASSUME IInv, NEW s \in Switches, NEW v \in Vaults, RequestSwitch(s, v) PROVE IInv'
<1>1. /\ request[s].at = "unused" /\ view # None /\ Invoke(<<s, 1>>)
      /\ request' = [request EXCEPT ![s] =
           [at |-> "sent", vault |-> view.vault, revision |-> collection.revision,
            scope |-> scope, target |-> v]]
      /\ log' = log /\ collection' = collection
      /\ unlocked' = unlocked /\ epoch' = epoch /\ queue' = queue
      /\ view' = view /\ scope' = scope /\ waiting' = waiting
  BY DEF RequestSwitch, Invoke, disk
<1>2. /\ TypeOK /\ request \in [Requests -> RequestRecords] /\ s \in Requests
      /\ <<s, 1>> \in Calls /\ <<s, 2>> \in Calls /\ view \in Snapshots
      /\ collection.revision \in Nat /\ scope \in Nat
  BY <1>1, TypeFacts, KindFacts, CallsFacts DEF IInv, TypeOK
<1>3. PICK n : n = [at |-> "sent", vault |-> view.vault, revision |-> collection.revision,
                    scope |-> scope, target |-> v]
  OBVIOUS
<1>4. n \in RequestRecords /\ n.target = v /\ n.revision = collection.revision
      /\ n.at = "sent" /\ n.scope = scope
  BY <1>2, <1>3 DEF RequestRecords, Snapshots
<1>5. /\ request' \in [Requests -> RequestRecords] /\ request'[s] = n
      /\ \A d \in Requests \ {s} : request'[d] = request[d]
  BY <1>1, <1>2, <1>3, <1>4
<1>6. call[<<s, 1>>].at = "idle" /\ call[<<s, 2>>].at = "idle"
  BY <1>1, <1>2 DEF IInv, AppliedAsAsked
<1>7. /\ inbox' \in Seq(Calls) /\ queue' \in Seq(Calls) /\ call' \in [Calls -> CallRecords]
      /\ call'[<<s, 1>>].at = "sent" /\ \A y \in Calls \ {<<s, 1>>} : call'[y] = call[y]
      /\ \A a, b \in Calls : Ahead(a, b) /\ InLine(a)' /\ InLine(b)' => Ahead(a, b)'
      /\ LinesAgree' /\ AppliedOnce' /\ Scoped'
  <2>1. \A y \in Calls : y[1] \in Switches /\ call[y].at # "idle" => y[1] # s
    BY <1>2, <1>6, CallsFacts
  <2>2. \A y \in Calls : y[1] \in Switches /\ call[y].at # "idle" =>
          request'[y[1]].target = request[y[1]].target
    BY <1>5, <2>1, KindFacts
  <2>3. UNCHANGED <<disk, view, scope, waiting>>
    BY DEF RequestSwitch
  <2>4. QED
    BY <1>1, <1>2, <1>6, <2>2, <2>3, InvokeFacts
<1>8. TypeOK'
  BY <1>1, <1>2, <1>5, <1>7 DEF TypeOK, CallRecords, RequestRecords
<1>9. \A c \in Commands : c \in Requests \ {s} /\ request'[c] = request[c]
  BY <1>5, KindFacts
<1>10. AppliedOnWhatItsAuthorSaw' /\ OneOut'
  <2>1. \A r \in Requests : request'[r].scope <= scope
    BY <1>2, <1>4, <1>5 DEF IInv, OneOut
  <2>2. \A c \in Commands : Sends(c)' => Sends(c)
    BY <1>1, <1>9 DEF Sends, IsCurrent
  <2>3. OneOut'
    BY <1>1, <2>1, <2>2 DEF IInv, OneOut
  <2>4. QED
    BY <1>1, <1>9, <2>3 DEF IInv, AppliedOnWhatItsAuthorSaw
<1>11. AppliedAsAsked'
  <2>1. ASSUME NEW r \in Requests, request'[r].at \in {"unused", "waiting"}
        PROVE  call'[<<r, 1>>].at = "idle" /\ call'[<<r, 2>>].at = "idle" /\ ~Applied(r)'
    <3>1. r # s /\ request[r].at \in {"unused", "waiting"}
      BY <1>4, <1>5, <2>1
    <3>2. call[<<r, 1>>].at = "idle" /\ call[<<r, 2>>].at = "idle" /\ ~Applied(r)
      BY <3>1 DEF IInv, AppliedAsAsked
    <3>3. <<r, 1>> \in Calls \ {<<s, 1>>} /\ <<r, 2>> \in Calls \ {<<s, 1>>}
      BY <3>1, CallsFacts
    <3>4. QED
      BY <1>1, <1>7, <3>2, <3>3 DEF Applied
  <2>2. ASSUME NEW e \in Batches \cup Writers, Applied(e)' PROVE call'[<<e, 1>>].at = "done"
    <3>1. call[<<e, 1>>].at = "done"
      BY <1>1, <2>2 DEF IInv, AppliedAsAsked, Applied
    <3>2. <<e, 1>> \in Calls \ {<<s, 1>>}
      BY CallsFacts, KindFacts, <1>2
    <3>3. QED
      BY <1>7, <3>1, <3>2
  <2>3. \A u \in Vaults : \A k \in 1..Len(log'[u]) :
          log'[u][k] \in Commands => request'[log'[u][k]].revision <= k
    BY <1>1, <1>9 DEF IInv, AppliedAsAsked
  <2>4. QED
    BY <2>1, <2>2, <2>3 DEF AppliedAsAsked
<1>12. RetriesFollow'
  BY <1>1, <1>5, <1>7, SwitchRetries
<1>13. SwitchesRotate'
  <2>1. ASSUME NEW t \in Switches
        PROVE  /\ request'[t].revision <= collection.revision
               /\ request'[t].at = "sent" => request'[t].target \in Vaults
               /\ \A x \in {t} \X {1, 2} :
                    /\ call'[x].at \notin {"idle", "done"} => request'[t].target \in Vaults
                    /\ call'[x].at \in {"read", "queued"} /\ ~call'[x].rotate
                         /\ request'[t].revision = collection.revision => Active = request'[t].target
    <3>1. CASE t = s
      <4>1. \A x \in {s} \X {1, 2} : x = <<s, 1>> \/ x = <<s, 2>>
        OBVIOUS
      <4>2. call'[<<s, 1>>].at = "sent" /\ call'[<<s, 2>>].at = "idle"
        BY <1>2, <1>6, <1>7
      <4>3. QED
        BY <1>2, <1>4, <1>5, <3>1, <4>1, <4>2
    <3>2. CASE t # s
      <4>1. \A x \in {t} \X {1, 2} : x \in Calls \ {<<s, 1>>}
        BY <3>2, KindFacts DEF Calls
      <4>2. request'[t] = request[t]
        BY <1>5, <3>2, KindFacts
      <4>3. QED
        BY <1>7, <4>1, <4>2 DEF IInv, SwitchesRotate
    <3>3. QED
      BY <3>1, <3>2
  <2>2. QED
    BY <1>1, <2>1 DEF SwitchesRotate, Active
<1>14. QED
  BY <1>7, <1>8, <1>10, <1>11, <1>12, <1>13 DEF IInv

LEMMA LoseAnswerIInv == ASSUME IInv, NEW r \in Requests, LoseAnswer(r) PROVE IInv'
<1>1. /\ request[r].at = "sent" /\ log' = log /\ collection' = collection
      /\ view' = view /\ scope' = scope /\ UNCHANGED <<disk, view, scope>>
  BY DEF LoseAnswer, disk
<1>2. /\ TypeOK /\ <<r, 1>> \in Calls /\ <<r, 2>> \in Calls /\ view \in Snapshots \cup {None}
  BY CallsFacts DEF IInv, TypeOK
<1>3. CASE /\ Attempt(r) = <<r, 1>> /\ IsCurrent(r)
           /\ Invoke(<<r, 2>>) /\ waiting' = waiting /\ request' = request
  <2>1. call[<<r, 2>>].at = "idle"
    BY <1>3 DEF Attempt
  <2>2. /\ inbox' \in Seq(Calls) /\ queue' \in Seq(Calls) /\ call' \in [Calls -> CallRecords]
        /\ call'[<<r, 2>>].at = "sent" /\ \A y \in Calls \ {<<r, 2>>} : call'[y] = call[y]
        /\ \A a, b \in Calls : Ahead(a, b) /\ InLine(a)' /\ InLine(b)' => Ahead(a, b)'
        /\ \A y \in Calls : InLine(y) => Ahead(y, <<r, 2>>)'
        /\ \A y \in Calls : InLine(y)' <=> InLine(y) \/ y = <<r, 2>>
        /\ LinesAgree' /\ AppliedOnce' /\ Scoped'
    BY <1>1, <1>2, <1>3, <2>1, InvokeFacts
  <2>3. TypeOK'
    BY <1>1, <1>2, <1>3, <2>2 DEF TypeOK, CallRecords, RequestRecords, Invoke
  <2>4. AppliedOnWhatItsAuthorSaw' /\ OneOut'
    BY <1>1, <1>3 DEF IInv, AppliedOnWhatItsAuthorSaw, OneOut, Sends, IsCurrent
  <2>5. AppliedAsAsked'
    <3>1. ASSUME NEW d \in Requests, request[d].at \in {"unused", "waiting"}
          PROVE  call'[<<d, 1>>].at = "idle" /\ call'[<<d, 2>>].at = "idle"
      <4>1. d # r /\ <<d, 1>> \in Calls \ {<<r, 2>>} /\ <<d, 2>> \in Calls \ {<<r, 2>>}
        BY <1>1, <3>1, CallsFacts
      <4>2. call[<<d, 1>>].at = "idle" /\ call[<<d, 2>>].at = "idle"
        BY <3>1 DEF IInv, AppliedAsAsked
      <4>3. QED
        BY <2>2, <4>1, <4>2
    <3>2. \A e \in Batches \cup Writers : call'[<<e, 1>>] = call[<<e, 1>>]
      <4>1. \A e \in Batches \cup Writers : <<e, 1>> \in Calls /\ e # r
        BY CallsFacts, KindFacts
      <4>2. \A e \in Batches \cup Writers : <<e, 1>> \in Calls \ {<<r, 2>>}
        BY <4>1
      <4>3. QED
        BY <2>2, <4>2
    <3>3. QED
      BY <1>1, <1>3, <3>1, <3>2 DEF IInv, AppliedAsAsked, Applied
  <2>6. RetriesFollow'
    <3>1. CASE r \in Commands
      <4>1. MayRetry(r)
        BY <1>1, <1>3, <2>1 DEF MayRetry, Sends
      <4>2. ASSUME NEW d \in Commands \ {r} PROVE ~MayRetry(d)'
        <5>1. waiting # <<>> => Head(waiting) # d
          BY <3>1, <4>1, <4>2 DEF IInv, OneOut, MayRetry
        <5>2. ~Sends(d)
          BY <3>1, <4>1, <5>1 DEF IInv, OneOut
        <5>3. QED
          BY <1>1, <1>3, <5>2 DEF MayRetry, Sends, IsCurrent
      <4>3. <<r, 1>> # <<r, 2>> /\ <<r, 2>> \in {<<r, 1>>, <<r, 2>>}
        OBVIOUS
      <4>4. QED
        BY <1>1, <2>2, <3>1, <4>1, <4>2, <4>3, InvokeRetries
    <3>2. CASE r \in Switches
      BY <1>1, <1>3, <2>2, <3>2, SwitchRetries
    <3>3. QED
      BY <3>1, <3>2, KindFacts
  <2>7. SwitchesRotate'
    <3>1. ASSUME NEW t \in Switches, NEW x \in {t} \X {1, 2}
          PROVE  /\ call'[x].at \notin {"idle", "done"} => request[t].target \in Vaults
                 /\ call'[x].at \in {"read", "queued"} /\ ~call'[x].rotate
                      /\ request[t].revision = collection.revision => Active = request[t].target
      <4>1. x \in Calls
        BY KindFacts DEF Calls
      <4>2. CASE x = <<r, 2>>
        BY <1>1, <2>2, <4>2 DEF IInv, SwitchesRotate
      <4>3. CASE x # <<r, 2>>
        BY <2>2, <4>1, <4>3 DEF IInv, SwitchesRotate
      <4>4. QED
        BY <4>2, <4>3
    <3>2. QED
      BY <1>1, <1>3, <3>1 DEF IInv, SwitchesRotate, Active
  <2>8. QED
    BY <2>2, <2>3, <2>4, <2>5, <2>6, <2>7 DEF IInv
<1>4. CASE /\ request' = [request EXCEPT ![r].at = "done"]
           /\ waiting' = Leave(r) /\ UNCHANGED main
  BY <1>1, <1>2, <1>4, AnsweredIInv
<1>5. QED
  BY <1>3, <1>4 DEF LoseAnswer
-----------------------------------------------------------------------------
\* The main process.

\* One call goes on, and nothing is committed.
LEMMA OneCallIInv ==
  ASSUME IInv, NEW x \in Calls, NEW c \in CallRecords, call' = [call EXCEPT ![x] = c],
         LineStep(x, c), c.at = "done" \/ c.answer = "none", c.at # "idle",
         call[x].at # "done", x[1] \in Requests => call[x].at # "idle",
         x[1] \in Commands /\ c.at \in {"sent", "queued"} => InLine(x),
         UNCHANGED <<disk, renderer>>, unlocked' \in BOOLEAN, epoch' \in Nat,
         SwitchesRotate', Scoped'
  PROVE  IInv'
<1>1. /\ log' = log /\ collection' = collection /\ request' = request /\ view' = view
      /\ scope' = scope /\ waiting' = waiting /\ UNCHANGED renderer
  BY DEF disk, renderer
<1>2. /\ AppliedOnce' /\ AppliedOnWhatItsAuthorSaw'
      /\ log' \in [Vaults -> Seq(Changes)]
      /\ \A v \in Vaults : \A k \in 1..Len(log'[v]) :
           log'[v][k] \in Commands => k \in 1..Len(log[v]) /\ log[v][k] = log'[v][k]
      /\ \A e : Applied(e)' => Applied(e)
  BY <1>1, DocumentsKeep
<1>3. /\ inbox' \in Seq(Calls) /\ queue' \in Seq(Calls) /\ call' \in [Calls -> CallRecords]
      /\ LinesAgree' /\ AppliedAsAsked' /\ OneOut' /\ RetriesFollow'
  BY <1>1, <1>2, OneCallFacts
<1>4. TypeOK'
  BY <1>1, <1>3 DEF IInv, TypeOK, CallRecords
<1>5. QED
  BY <1>2, <1>3, <1>4 DEF IInv

\* The same, in a session that stays.
LEMMA QuietIInv ==
  ASSUME IInv, NEW x \in Calls, NEW c \in CallRecords, call' = [call EXCEPT ![x] = c],
         LineStep(x, c), c.at = "done" \/ c.answer = "none", c.at # "idle",
         call[x].at # "done", x[1] \in Requests => call[x].at # "idle",
         x[1] \in Commands /\ c.at \in {"sent", "queued"} => InLine(x),
         UNCHANGED <<disk, renderer>>, unlocked' = unlocked, epoch' = epoch,
         c.epoch <= epoch, x[1] \in Switches => ~(c.at = "queued" /\ c.rotate),
         c.at \in {"begun", "queued"} /\ c.epoch = epoch =>
           /\ Active \in {c.vault} \cup c.under
           /\ \A y \in Calls \ {x} : Rotating(y) => request[y[1]].target \in c.under,
         x[1] \in Switches /\ c.at \notin {"idle", "done"} =>
           /\ call[x].at \notin {"idle", "done"}
           /\ c.at \in {"read", "queued"} /\ ~c.rotate =>
                Active = request[x[1]].target \/ (call[x].at \in {"read", "queued"} /\ ~call[x].rotate)
  PROVE  IInv'
<1>1. UNCHANGED <<epoch, collection, request>>
  BY DEF disk, renderer
<1>2. Scoped'
  BY <1>1, ScopedKeep
<1>3. SwitchesRotate'
  BY <1>1, SwitchesKeep
<1>4. unlocked' \in BOOLEAN /\ epoch' \in Nat
  BY DEF IInv, TypeOK
<1>5. QED
  BY <1>2, <1>3, <1>4, OneCallIInv

\* A session boundary: no other call is current any more.
LEMMA ScopedMoves ==
  ASSUME IInv, NEW x \in Calls, NEW c \in CallRecords, call' = [call EXCEPT ![x] = c],
         epoch' = epoch + 1, collection' = collection,
         c.epoch <= epoch + 1, c.epoch = epoch + 1 => Active = c.vault
  PROVE  Scoped'
<1>1. /\ call \in [Calls -> CallRecords] /\ epoch \in Nat /\ Active' = Active
  BY TypeFacts DEF IInv, TypeOK, Active
<1>2. call'[x] = c /\ \A y \in Calls \ {x} : call'[y] = call[y]
  BY <1>1
<1>3. \A y \in Calls \ {x} : call'[y].epoch \in Nat /\ call'[y].epoch <= epoch
  BY <1>1, <1>2 DEF IInv, Scoped, CallRecords
<1>4. \A y \in Calls \ {x} : call'[y].epoch # epoch + 1 /\ call'[y].epoch <= epoch + 1
  BY <1>1, <1>3
<1>5. QED
  BY <1>1, <1>2, <1>4 DEF Scoped, Rotating

\* What the main process notes of a call as it takes it up.
LEMMA AdmittedFacts ==
  ASSUME IInv, NEW x \in Calls, NEW stage \in {"begun", "queued"}, NEW now \in Nat,
         Admitted(x, stage, now)
  PROVE  \E c \in CallRecords :
           /\ call' = [call EXCEPT ![x] = c] /\ c.at = stage /\ c.epoch = now
           /\ c.vault = Active /\ c.rotate = call[x].rotate /\ c.answer = call[x].answer
           /\ \A y \in Calls : Rotating(y) => request[y[1]].target \in c.under
<1>1. /\ TypeOK /\ LinesAgree /\ call \in [Calls -> CallRecords] /\ Active \in Vaults
      /\ queue \in Seq(Calls)
  BY TypeFacts DEF IInv, TypeOK, Active
<1>2. PICK U : U = {request[y[1]].target : y \in
       {z \in ToSet(queue) : z[1] \in Switches /\ call[z].rotate /\ call[z].epoch = epoch}}
  OBVIOUS
<1>3. U \subseteq Vaults
  <2>1. ASSUME NEW z \in ToSet(queue), z[1] \in Switches PROVE request[z[1]].target \in Vaults
    <3>1. z \in Calls /\ call[z].at = "queued"
      BY <1>1, <2>1, SeqFacts DEF LinesAgree
    <3>2. z \in {z[1]} \X {1, 2}
      BY <2>1, <3>1, CallsFacts, KindFacts
    <3>3. QED
      BY <2>1, <3>1, <3>2 DEF IInv, SwitchesRotate
  <2>2. QED
    BY <1>2, <2>1
<1>4. ASSUME NEW y \in Calls, Rotating(y) PROVE request[y[1]].target \in U
  <2>1. y \in ToSet(queue)
    BY <1>1, <1>4 DEF LinesAgree, Rotating
  <2>2. QED
    BY <1>2, <1>4, <2>1 DEF Rotating
<1>5. PICK c : c = [call[x] EXCEPT !.at = stage, !.epoch = now, !.vault = Active, !.under = U]
  OBVIOUS
<1>6. /\ c \in CallRecords /\ c.at = stage /\ c.epoch = now /\ c.vault = Active
      /\ c.rotate = call[x].rotate /\ c.answer = call[x].answer /\ c.under = U
  <2>1. call[x] \in CallRecords /\ Active \in Vaults \cup {None} /\ U \in SUBSET Vaults
    BY <1>1, <1>3
  <2>2. QED
    BY <1>5, <2>1 DEF CallRecords
<1>7. call' = [call EXCEPT ![x] = c]
  BY <1>1, <1>2, <1>5 DEF Admitted
<1>8. QED
  BY <1>4, <1>6, <1>7

LEMMA AnsweredFacts ==
  ASSUME NEW x \in Calls, NEW answer \in {"none", "success", "stale", "failed"},
         NEW data \in Snapshots \cup {None}, Answered(x, answer, data)
  PROVE  \E c \in CallRecords :
           /\ call' = [call EXCEPT ![x] = c]
           /\ c.at = "done" /\ c.epoch = 0 /\ c.answer = answer
<1>1. PICK c : c = [NoCall EXCEPT !.at = "done", !.answer = answer, !.data = data]
  OBVIOUS
<1>2. c \in CallRecords /\ c.at = "done" /\ c.epoch = 0 /\ c.answer = answer
  BY <1>1 DEF NoCall, CallRecords
<1>3. QED
  BY <1>1, <1>2 DEF Answered

\* A call that is in line or on its way is answered, in a session that stays.
LEMMA AnswerIInv ==
  ASSUME IInv, NEW x \in Calls, NEW answer \in {"none", "success", "stale", "failed"},
         NEW data \in Snapshots \cup {None}, Answered(x, answer, data),
         call[x].at \notin {"idle", "done"}, UNCHANGED <<disk, renderer, unlocked, epoch>>,
         \/ Arrives(x) /\ queue' = queue
         \/ AtHead(x) /\ queue' = Tail(queue) /\ inbox' = inbox
         \/ inbox' = inbox /\ queue' = queue /\ call[x].at \notin {"sent", "queued"}
  PROVE  IInv'
<1>1. PICK c \in CallRecords : /\ call' = [call EXCEPT ![x] = c]
                               /\ c.at = "done" /\ c.epoch = 0 /\ c.answer = answer
  BY AnsweredFacts
<1>2. LineStep(x, c) /\ 0 <= epoch
  BY <1>1 DEF LineStep, IInv, TypeOK
<1>3. QED
  BY <1>1, <1>2, QuietIInv

LEMMA ArrivesFacts ==
  ASSUME IInv, NEW x \in Calls, Arrives(x)
  PROVE  call[x].at = "sent" /\ InLine(x)
BY TailFacts DEF IInv, TypeOK, LinesAgree, Arrives, InLine

LEMMA HeadAt ==
  ASSUME IInv, NEW x \in Calls, AtHead(x)
  PROVE  call[x].at = "queued" /\ InLine(x) /\ call[x].answer = "none"
BY HeadFacts DEF IInv, LinesAgree, InLine

LEMMA AdmitIInv == ASSUME IInv, NEW x \in Calls, Admit(x) PROVE IInv'
<1>1. /\ x[1] \in Commands /\ Arrives(x) /\ UNCHANGED <<disk, unlocked, epoch, renderer>>
      /\ call[x].at = "sent" /\ InLine(x) /\ call[x].answer = "none" /\ epoch \in Nat
  BY ArrivesFacts DEF Admit, IInv, LinesAgree, TypeOK
<1>2. CASE queue' = Append(queue, x) /\ Admitted(x, "queued", epoch)
  <2>1. PICK c \in CallRecords :
           /\ call' = [call EXCEPT ![x] = c] /\ c.at = "queued" /\ c.epoch = epoch
           /\ c.vault = Active /\ c.rotate = call[x].rotate /\ c.answer = call[x].answer
           /\ \A y \in Calls : Rotating(y) => request[y[1]].target \in c.under
    BY <1>1, <1>2, AdmittedFacts
  <2>2. LineStep(x, c)
    BY <1>1, <1>2, <2>1 DEF LineStep
  <2>3. x[1] \notin Switches /\ c.epoch <= epoch
    BY <1>1, <2>1, KindFacts
  <2>4. QED
    BY <1>1, <2>1, <2>2, <2>3, QuietIInv
<1>3. CASE Answered(x, "failed", None) /\ queue' = queue
  BY <1>1, <1>3, AnswerIInv
<1>4. QED
  BY <1>2, <1>3 DEF Admit, Enqueue

LEMMA FlushIInv == ASSUME IInv, NEW x \in Calls, Flush(x) PROVE IInv'
<1>1. /\ x[1] \in Batches /\ call[x].at = "idle" /\ queue' = Append(queue, x)
      /\ Admitted(x, "queued", epoch) /\ UNCHANGED <<disk, unlocked, epoch, inbox, renderer>>
      /\ call[x].answer = "none" /\ epoch \in Nat
  BY DEF Flush, Enqueue, IInv, LinesAgree, TypeOK
<1>2. PICK c \in CallRecords :
         /\ call' = [call EXCEPT ![x] = c] /\ c.at = "queued" /\ c.epoch = epoch
         /\ c.vault = Active /\ c.rotate = call[x].rotate /\ c.answer = call[x].answer
         /\ \A y \in Calls : Rotating(y) => request[y[1]].target \in c.under
  BY <1>1, AdmittedFacts
<1>3. LineStep(x, c)
  BY <1>1, <1>2 DEF LineStep
<1>4. x[1] \notin Requests /\ x[1] \notin Commands /\ x[1] \notin Switches /\ c.epoch <= epoch
  BY <1>1, <1>2, KindFacts
<1>5. QED
  BY <1>1, <1>2, <1>3, <1>4, QuietIInv

LEMMA BeginWriteIInv == ASSUME IInv, NEW x \in Calls, BeginWrite(x) PROVE IInv'
<1>1. /\ x[1] \in Writers /\ call[x].at = "idle" /\ queue' = queue
      /\ Admitted(x, "begun", epoch) /\ UNCHANGED <<disk, unlocked, epoch, inbox, renderer>>
      /\ call[x].answer = "none" /\ epoch \in Nat
  BY DEF BeginWrite, IInv, LinesAgree, TypeOK
<1>2. PICK c \in CallRecords :
         /\ call' = [call EXCEPT ![x] = c] /\ c.at = "begun" /\ c.epoch = epoch
         /\ c.vault = Active /\ c.rotate = call[x].rotate /\ c.answer = call[x].answer
         /\ \A y \in Calls : Rotating(y) => request[y[1]].target \in c.under
  BY <1>1, AdmittedFacts
<1>3. LineStep(x, c)
  BY <1>1, <1>2 DEF LineStep
<1>4. x[1] \notin Requests /\ x[1] \notin Commands /\ x[1] \notin Switches /\ c.epoch <= epoch
  BY <1>1, <1>2, KindFacts
<1>5. QED
  BY <1>1, <1>2, <1>3, <1>4, QuietIInv
LEMMA WriteIInv == ASSUME IInv, NEW x \in Calls, Write(x) PROVE IInv'
<1>1. /\ x[1] \in Writers /\ call[x].at = "begun"
      /\ UNCHANGED <<disk, unlocked, epoch, inbox, renderer>> /\ inbox' = inbox
      /\ x[1] \notin Requests /\ x[1] \notin Commands /\ x[1] \notin Switches
  BY KindFacts DEF Write
<1>2. CASE AssertCurrent(x) /\ call' = [call EXCEPT ![x].at = "queued"] /\ queue' = Append(queue, x)
  <2>1. PICK c : c = [call[x] EXCEPT !.at = "queued"]
    OBVIOUS
  <2>2. /\ c \in CallRecords /\ c.at = "queued" /\ c.answer = call[x].answer
        /\ c.epoch = call[x].epoch /\ c.vault = call[x].vault /\ c.under = call[x].under
    BY <2>1, TypeFacts DEF IInv, CallRecords
  <2>3. call' = [call EXCEPT ![x] = c]
    BY <1>2, <2>1
  <2>4. LineStep(x, c) /\ c.answer = "none"
    BY <1>1, <1>2, <2>2 DEF LineStep, IInv, LinesAgree
  <2>5. /\ c.epoch <= epoch
        /\ c.epoch = epoch =>
             /\ Active \in {c.vault} \cup c.under
             /\ \A y \in Calls \ {x} : Rotating(y) => request[y[1]].target \in c.under
    BY <1>1, <2>2 DEF IInv, Scoped
  <2>6. QED
    BY <1>1, <2>2, <2>3, <2>4, <2>5, QuietIInv
<1>3. CASE Answered(x, "failed", None) /\ queue' = queue
  BY <1>1, <1>3, AnswerIInv
<1>4. QED
  BY <1>2, <1>3 DEF Write

LEMMA ReadSelectionIInv == ASSUME IInv, NEW x \in Calls, ReadSelection(x) PROVE IInv'
<1>1. /\ x[1] \in Switches /\ Arrives(x)
      /\ UNCHANGED <<disk, unlocked, epoch, renderer>> /\ queue' = queue
      /\ call[x].at = "sent" /\ call[x].answer = "none" /\ x[1] \notin Commands
  BY KindFacts, ArrivesFacts DEF ReadSelection, IInv, LinesAgree
<1>2. CASE call' = [call EXCEPT ![x].at = "read", ![x].rotate = request[x[1]].target # Active]
  <2>1. PICK c : c = [call[x] EXCEPT !.at = "read", !.rotate = request[x[1]].target # Active]
    OBVIOUS
  <2>2. /\ c \in CallRecords /\ c.at = "read" /\ c.answer = call[x].answer
        /\ c.epoch = call[x].epoch /\ (~c.rotate => Active = request[x[1]].target)
    BY <2>1, TypeFacts DEF IInv, CallRecords
  <2>3. call' = [call EXCEPT ![x] = c]
    BY <1>2, <2>1
  <2>4. LineStep(x, c) /\ c.answer = "none" /\ c.epoch <= epoch
    BY <1>1, <1>2, <2>2 DEF LineStep, IInv, Scoped
  <2>5. QED
    BY <1>1, <2>2, <2>3, <2>4, QuietIInv
<1>3. CASE Answered(x, "failed", None)
  BY <1>1, <1>3, AnswerIInv
<1>4. QED
  BY <1>2, <1>3 DEF ReadSelection

LEMMA AdmitSwitchIInv == ASSUME IInv, NEW x \in Calls, AdmitSwitch(x) PROVE IInv'
<1>1. /\ x[1] \in Switches /\ call[x].at = "read" /\ UNCHANGED <<disk, unlocked, inbox, renderer>>
      /\ call[x].answer = "none" /\ x[1] \notin Commands /\ epoch \in Nat
      /\ inbox' = inbox /\ unlocked' = unlocked /\ unlocked' \in BOOLEAN
  BY KindFacts DEF AdmitSwitch, IInv, LinesAgree, TypeOK
<1>2. CASE epoch' = Rotated(x) /\ Enqueue(x, epoch')
  <2>1. epoch' \in Nat
    BY <1>1, <1>2 DEF Rotated
  <2>2. PICK c \in CallRecords :
           /\ call' = [call EXCEPT ![x] = c] /\ c.at = "queued" /\ c.epoch = epoch'
           /\ c.vault = Active /\ c.rotate = call[x].rotate /\ c.answer = call[x].answer
           /\ \A y \in Calls : Rotating(y) => request[y[1]].target \in c.under
    BY <1>2, <2>1, AdmittedFacts DEF Enqueue
  <2>3. LineStep(x, c)
    BY <1>1, <1>2, <2>2 DEF LineStep, Enqueue
  <2>4. CASE ~call[x].rotate
    <3>1. epoch' = epoch
      BY <1>2, <2>4 DEF Rotated
    <3>2. c.epoch <= epoch
      BY <1>1, <2>2, <3>1
    <3>3. QED
      BY <1>1, <2>2, <2>3, <2>4, <3>1, <3>2, QuietIInv
  <2>5. CASE call[x].rotate
    <3>1. epoch' = epoch + 1 /\ c.epoch <= epoch + 1
      BY <1>1, <1>2, <2>2, <2>5 DEF Rotated
    <3>2. collection' = collection /\ request' = request
      BY <1>1 DEF disk, renderer
    <3>3. Scoped'
      BY <2>2, <3>1, <3>2, ScopedMoves
    <3>4. SwitchesRotate'
      BY <1>1, <2>2, <2>5, <3>2, SwitchesKeep
    <3>5. QED
      BY <1>1, <2>1, <2>2, <2>3, <3>3, <3>4, OneCallIInv
  <2>6. QED
    BY <2>4, <2>5
<1>3. CASE Answered(x, "failed", None) /\ epoch' = epoch /\ queue' = queue
  BY <1>1, <1>3, AnswerIInv
<1>4. QED
  BY <1>2, <1>3 DEF AdmitSwitch

LEMMA FailIInv == ASSUME IInv, NEW x \in Calls, Fail(x) PROVE IInv'
BY HeadAt, AnswerIInv DEF Fail

LEMMA SettleSwitchIInv == ASSUME IInv, NEW x \in Calls, SettleSwitch(x) PROVE IInv'
<1>1. /\ x[1] \in Switches /\ call[x].at = "committed"
      /\ UNCHANGED <<disk, queue, inbox, renderer>> /\ inbox' = inbox /\ queue' = queue
      /\ epoch \in Nat /\ collection' = collection /\ request' = request
  BY DEF SettleSwitch, IInv, TypeOK, disk, renderer
<1>2. CASE Answered(x, "success", Snapshot(request[x[1]].target)) /\ UNCHANGED <<unlocked, epoch>>
  <2>1. request[x[1]].target \in Vaults
    <3>1. x \in {x[1]} \X {1, 2}
      BY <1>1, CallsFacts, KindFacts
    <3>2. QED
      BY <1>1, <3>1 DEF IInv, SwitchesRotate
  <2>2. Snapshot(request[x[1]].target) \in Snapshots
    BY <2>1, TypeFacts DEF IInv, Snapshot, Snapshots, Revision
  <2>3. QED
    BY <1>1, <1>2, <2>2, AnswerIInv
<1>3. CASE Answered(x, "failed", None) /\ UNCHANGED <<unlocked, epoch>>
  BY <1>1, <1>3, AnswerIInv
<1>4. CASE Answered(x, "failed", None) /\ epoch' = epoch + 1 /\ unlocked' = FALSE
  <2>1. PICK c \in CallRecords : /\ call' = [call EXCEPT ![x] = c]
                                 /\ c.at = "done" /\ c.epoch = 0 /\ c.answer = "failed"
    BY <1>4, AnsweredFacts
  <2>2. LineStep(x, c) /\ c.epoch <= epoch + 1 /\ c.epoch # epoch + 1
    BY <1>1, <2>1 DEF LineStep
  <2>3. Scoped'
    BY <1>1, <1>4, <2>1, <2>2, ScopedMoves
  <2>4. SwitchesRotate'
    BY <1>1, <2>1, SwitchesKeep
  <2>5. x[1] \notin Commands /\ epoch' \in Nat /\ unlocked' \in BOOLEAN
    <3>1. x[1] \notin Commands /\ epoch' \in Nat
      BY <1>1, <1>4, KindFacts
    <3>2. unlocked' \in BOOLEAN
      BY <1>4
    <3>3. QED
      BY <3>1, <3>2
  <2>6. QED
    BY <1>1, <2>1, <2>2, <2>3, <2>4, <2>5, OneCallIInv
<1>5. QED
  BY <1>2, <1>3, <1>4 DEF SettleSwitch
LEMMA CommitWriteIInv == ASSUME IInv, NEW x \in Calls, CommitWrite(x) PROVE IInv'
<1>1. PICK e, a : e = x[1] /\ a = Active
  OBVIOUS
<1>2. /\ AtHead(x) /\ e \in Batches \cup Writers /\ queue' = Tail(queue)
      /\ log' = [log EXCEPT ![a] = Append(@, e)] /\ Answered(x, "success", None)
      /\ UNCHANGED <<collection, unlocked, epoch, inbox, renderer>> /\ inbox' = inbox
      /\ collection' = collection /\ request' = request /\ UNCHANGED renderer
      /\ view' = view /\ scope' = scope /\ waiting' = waiting
  BY <1>1 DEF CommitWrite, renderer
<1>3. /\ log \in [Vaults -> Seq(Changes)] /\ a \in Vaults /\ e \in Changes
      /\ e \notin Commands /\ e \notin Requests /\ x = <<e, 1>> /\ call[x].at = "queued"
      /\ e \notin Switches
  BY <1>1, <1>2, TypeFacts, HeadAt, KindFacts, CallsFacts DEF IInv, TypeOK, Changes, Active
<1>4. ~Applied(e)
  BY <1>2, <1>3 DEF IInv, AppliedAsAsked
<1>5. PICK t : t = Append(log[a], e)
  OBVIOUS
<1>6. /\ t \in Seq(Changes) /\ Len(t) = Len(log[a]) + 1 /\ Len(log[a]) \in Nat
      /\ \A k \in 1..Len(log[a]) : t[k] = log[a][k]
      /\ t[Len(log[a]) + 1] = e /\ ToSet(t) = ToSet(log[a]) \cup {e}
  BY <1>3, <1>5, AppendFacts, TypeFacts DEF IInv
<1>7. /\ log' \in [Vaults -> Seq(Changes)] /\ log'[a] = t
      /\ \A v \in Vaults \ {a} : log'[v] = log[v]
  BY <1>2, <1>3, <1>5, <1>6
<1>8. \A v \in Vaults : \A k \in 1..Len(log'[v]) :
        \/ k \in 1..Len(log[v]) /\ log'[v][k] = log[v][k]
        \/ v = a /\ k = Len(log[v]) + 1 /\ log'[v][k] = e
  <2>1. ASSUME NEW v \in Vaults, NEW k \in 1..Len(log'[v])
        PROVE  \/ k \in 1..Len(log[v]) /\ log'[v][k] = log[v][k]
               \/ v = a /\ k = Len(log[v]) + 1 /\ log'[v][k] = e
    <3>1. CASE v = a
      <4>1. k \in 1..Len(log[a]) \/ k = Len(log[a]) + 1
        BY <1>6, <1>7, <2>1, <3>1
      <4>2. QED
        BY <1>6, <1>7, <3>1, <4>1
    <3>2. CASE v # a
      BY <1>7, <2>1, <3>2
    <3>3. QED
      BY <3>1, <3>2
  <2>2. QED
    BY <2>1
<1>9. PICK c \in CallRecords : /\ call' = [call EXCEPT ![x] = c]
                               /\ c.at = "done" /\ c.epoch = 0 /\ c.answer = "success"
  BY <1>2, AnsweredFacts
<1>10. LineStep(x, c) /\ c.epoch <= epoch
  BY <1>2, <1>9 DEF LineStep, IInv, TypeOK
<1>11. \A d \in Batches \cup Writers : Applied(d)' => Applied(d) \/ (x = <<d, 1>> /\ c.at = "done")
  BY <1>3, <1>6, <1>7, <1>9 DEF Applied
<1>12. \A v \in Vaults : \A k \in 1..Len(log'[v]) :
         log'[v][k] \in Commands => k \in 1..Len(log[v]) /\ log[v][k] = log'[v][k]
  BY <1>3, <1>8
<1>13. /\ inbox' \in Seq(Calls) /\ queue' \in Seq(Calls) /\ call' \in [Calls -> CallRecords]
       /\ LinesAgree' /\ AppliedAsAsked' /\ OneOut' /\ RetriesFollow'
  BY <1>1, <1>2, <1>3, <1>7, <1>9, <1>10, <1>11, <1>12, OneCallFacts
<1>14. AppliedOnce'
  <2>1. ASSUME NEW v \in Vaults, NEW j \in 1..Len(log'[v]), NEW k \in 1..Len(log'[v]),
               log'[v][j] = log'[v][k]
        PROVE  j = k
    <3>1. \A i \in 1..Len(log[v]) : log[v][i] # e
      BY <1>4, TypeFacts DEF IInv, Applied
    <3>2. \/ j \in 1..Len(log[v]) /\ log'[v][j] = log[v][j]
          \/ j = Len(log[v]) + 1 /\ log'[v][j] = e
      BY <1>8
    <3>3. \/ k \in 1..Len(log[v]) /\ log'[v][k] = log[v][k]
          \/ k = Len(log[v]) + 1 /\ log'[v][k] = e
      BY <1>8
    <3>4. QED
      BY <2>1, <3>1, <3>2, <3>3 DEF IInv, AppliedOnce
  <2>2. QED
    BY <2>1 DEF AppliedOnce
<1>15. AppliedOnWhatItsAuthorSaw'
  <2>1. ASSUME NEW v \in Vaults, NEW k \in 1..Len(log'[v]), log'[v][k] \in Commands,
               request[log'[v][k]].vault = v, NEW j \in 1..(k - 1),
               request[log'[v][k]].revision <= j
        PROVE  log'[v][j] \in Batches
    <3>1. k \in 1..Len(log[v]) /\ log[v][k] = log'[v][k] /\ Len(log[v]) \in Nat
      BY <1>12, <2>1, TypeFacts DEF IInv
    <3>2. log[v][j] \in Batches
      BY <2>1, <3>1 DEF IInv, AppliedOnWhatItsAuthorSaw
    <3>3. j \in 1..Len(log[v]) /\ j \in 1..Len(log'[v]) /\ j # Len(log[v]) + 1
      BY <1>6, <1>7, <3>1
    <3>4. log'[v][j] = log[v][j]
      BY <1>8, <3>3
    <3>5. QED
      BY <3>2, <3>4
  <2>2. QED
    BY <1>2, <2>1 DEF AppliedOnWhatItsAuthorSaw
<1>16. Scoped' /\ SwitchesRotate'
  <2>1. UNCHANGED <<epoch, collection, request>>
    BY <1>2
  <2>2. Scoped'
    BY <1>9, <1>10, <2>1, ScopedKeep
  <2>3. SwitchesRotate'
    BY <1>9, <2>1, SwitchesKeep
  <2>4. QED
    BY <2>2, <2>3
<1>17. TypeOK'
  BY <1>2, <1>7, <1>13 DEF IInv, TypeOK, CallRecords
<1>18. QED
  BY <1>13, <1>14, <1>15, <1>16, <1>17 DEF IInv
LEMMA TrimmedFacts ==
  ASSUME NEW s \in Seq(Switches)
  PROVE  Trimmed(s) \in Seq(Switches)
<1>1. Len(s) \in Nat /\ ReceiptLimit \in Nat \ {0}
  BY LenProperties, LimitsAssumption
<1>2. PICK m : m = IF Len(s) > ReceiptLimit THEN Len(s) - ReceiptLimit + 1 ELSE 1
  OBVIOUS
<1>3. m \in 1..(Len(s) + 1) /\ Len(s) \in (m - 1)..Len(s)
  BY <1>1, <1>2
<1>4. SubSeq(s, m, Len(s)) \in Seq(Switches)
  BY <1>1, <1>3, SubSeqProperties
<1>5. QED
  BY <1>2, <1>4 DEF Trimmed

LEMMA CommitSwitchIInv == ASSUME IInv, NEW x \in Calls, CommitSwitch(x) PROVE IInv'
<1>1. PICK s : s = x[1]
  OBVIOUS
<1>2. /\ AtHead(x) /\ s \in Switches /\ call[x].epoch = epoch /\ queue' = Tail(queue)
      /\ UNCHANGED <<log, unlocked, epoch, inbox, renderer>> /\ UNCHANGED renderer
      /\ inbox' = inbox /\ log' = log /\ unlocked' = unlocked /\ epoch' = epoch
      /\ call[x].at = "queued" /\ call[x].answer = "none" /\ s \notin Commands
      /\ request' = request /\ view' = view /\ scope' = scope /\ waiting' = waiting
  BY <1>1, HeadAt, KindFacts DEF CommitSwitch, AssertCurrent, renderer
<1>3. x \in {s} \X {1, 2} /\ collection \in [active : Vaults, revision : Nat, receipts : Seq(Switches)]
  BY <1>1, <1>2, CallsFacts, KindFacts DEF IInv, TypeOK
<1>4. /\ request[s].target \in Vaults /\ request[s].revision <= collection.revision
      /\ ~call[x].rotate /\ request[s].revision = collection.revision => Active = request[s].target
  BY <1>2, <1>3 DEF IInv, SwitchesRotate
<1>5. CASE Answered(x, "stale", None) /\ collection' = collection
  BY <1>2, <1>5, AnswerIInv DEF disk
<1>6. CASE call' = [call EXCEPT ![x].at = "committed"]
  <2>1. PICK c : c = [call[x] EXCEPT !.at = "committed"]
    OBVIOUS
  <2>2. /\ c \in CallRecords /\ c.at = "committed" /\ c.answer = "none" /\ c.epoch = epoch
    BY <1>2, <2>1, TypeFacts DEF IInv, CallRecords
  <2>3. /\ call' = [call EXCEPT ![x] = c] /\ LineStep(x, c) /\ epoch \in Nat
    BY <1>2, <1>6, <2>1, <2>2 DEF LineStep, IInv, TypeOK
  <2>4. CASE collection' = collection
    <3>1. UNCHANGED <<disk, renderer>> /\ c.epoch <= epoch
      BY <1>2, <2>2, <2>3, <2>4 DEF disk
    <3>2. QED
      BY <1>1, <1>2, <2>2, <2>3, <3>1, QuietIInv
  <2>5. CASE /\ Expected(s)
             /\ collection' = [active   |-> request[s].target,
                               revision |-> collection.revision
                                            + (IF request[s].target = Active THEN 0 ELSE 1),
                               receipts |-> Trimmed(Append(collection.receipts, s))]
    <3>1. /\ call' \in [Calls -> CallRecords]
          /\ call'[x] = c /\ \A y \in Calls \ {x} : call'[y] = call[y]
      BY <2>2, <2>3, TypeFacts DEF IInv
    <3>2. /\ collection' \in [active : Vaults, revision : Nat, receipts : Seq(Switches)]
          /\ collection'.active = request[s].target
          /\ collection'.revision \in {collection.revision, collection.revision + 1}
          /\ Active # request[s].target => collection'.revision = collection.revision + 1
          /\ collection.revision \in Nat
      <4>1. Trimmed(Append(collection.receipts, s)) \in Seq(Switches)
        BY <1>2, <1>3, AppendProperties, TrimmedFacts
      <4>2. QED
        BY <1>3, <1>4, <2>5, <4>1
    <3>3. Active' = request[s].target
      BY <3>2 DEF Active
    <3>4. \A y \in Calls : Rotating(y)' => Rotating(y) /\ y # x
      BY <1>2, <2>2, <3>1 DEF Rotating
    <3>5. Scoped'
      <4>1. ASSUME NEW z \in Calls
            PROVE  /\ call'[z].epoch <= epoch
                   /\ call'[z].at \in {"begun", "queued"} /\ call'[z].epoch = epoch =>
                        /\ Active' \in {call'[z].vault} \cup call'[z].under
                        /\ \A y \in Calls \ {z} : Rotating(y)' => request[y[1]].target \in call'[z].under
        <5>1. CASE z = x
          BY <2>2, <2>3, <3>1, <5>1
        <5>2. CASE z # x
          <6>1. /\ call[z].epoch <= epoch
                /\ call[z].at \in {"begun", "queued"} /\ call[z].epoch = epoch =>
                     /\ Active \in {call[z].vault} \cup call[z].under
                     /\ \A y \in Calls \ {z} : Rotating(y) => request[y[1]].target \in call[z].under
            BY DEF IInv, Scoped
          <6>2. CASE call[x].rotate
            <7>1. Rotating(x)
              BY <1>1, <1>2, <6>2 DEF Rotating
            <7>2. QED
              BY <1>1, <3>1, <3>3, <3>4, <5>2, <6>1, <7>1
          <6>3. CASE ~call[x].rotate
            BY <1>4, <2>5, <3>1, <3>3, <3>4, <5>2, <6>1, <6>3 DEF Expected
          <6>4. QED
            BY <6>2, <6>3
        <5>3. QED
          BY <5>1, <5>2
      <4>2. QED
        BY <1>2, <4>1 DEF Scoped
    <3>6. SwitchesRotate'
      <4>1. ASSUME NEW t \in Switches
            PROVE  /\ request[t].revision <= collection'.revision
                   /\ request[t].at = "sent" => request[t].target \in Vaults
                   /\ \A y \in {t} \X {1, 2} :
                        /\ call'[y].at \notin {"idle", "done"} => request[t].target \in Vaults
                        /\ call'[y].at \in {"read", "queued"} /\ ~call'[y].rotate
                             /\ request[t].revision = collection'.revision => Active' = request[t].target
        <5>1. request[t].revision \in Nat
          BY TypeFacts, KindFacts DEF IInv, RequestRecords
        <5>2. /\ request[t].revision <= collection.revision
              /\ request[t].at = "sent" => request[t].target \in Vaults
          BY DEF IInv, SwitchesRotate
        <5>3. request[t].revision <= collection'.revision
          BY <3>2, <5>1, <5>2
        <5>4. request[t].revision = collection'.revision =>
                request[t].revision = collection.revision /\ Active' = Active
          BY <3>2, <3>3, <5>1, <5>2
        <5>5. ASSUME NEW y \in {t} \X {1, 2}
              PROVE  /\ call'[y].at \notin {"idle", "done"} => request[t].target \in Vaults
                     /\ call'[y].at \in {"read", "queued"} /\ ~call'[y].rotate
                          /\ request[t].revision = collection'.revision => Active' = request[t].target
          <6>1. y \in Calls /\ y[1] = t
            BY KindFacts DEF Calls
          <6>2. /\ call[y].at \notin {"idle", "done"} => request[t].target \in Vaults
                /\ call[y].at \in {"read", "queued"} /\ ~call[y].rotate
                     /\ request[t].revision = collection.revision => Active = request[t].target
            BY DEF IInv, SwitchesRotate
          <6>3. CASE y = x
            BY <1>1, <1>4, <2>2, <3>1, <6>1, <6>3
          <6>4. CASE y # x
            BY <3>1, <5>4, <6>1, <6>2, <6>4
          <6>5. QED
            BY <6>3, <6>4
        <5>6. QED
          BY <5>2, <5>3, <5>5
      <4>2. QED
        BY <1>2, <4>1 DEF SwitchesRotate
    <3>7. /\ AppliedOnce' /\ AppliedOnWhatItsAuthorSaw'
          /\ log' \in [Vaults -> Seq(Changes)]
          /\ \A v \in Vaults : \A k \in 1..Len(log'[v]) :
               log'[v][k] \in Commands => k \in 1..Len(log[v]) /\ log[v][k] = log'[v][k]
          /\ \A e : Applied(e)' => Applied(e)
      BY <1>2, DocumentsKeep
    <3>8. /\ inbox' \in Seq(Calls) /\ queue' \in Seq(Calls)
          /\ LinesAgree' /\ AppliedAsAsked' /\ OneOut' /\ RetriesFollow'
      BY <1>1, <1>2, <2>2, <2>3, <3>7, OneCallFacts
    <3>9. TypeOK'
      BY <1>2, <3>1, <3>2, <3>7, <3>8 DEF IInv, TypeOK, CallRecords
    <3>10. QED
      BY <3>5, <3>6, <3>7, <3>8, <3>9 DEF IInv
  <2>6. QED
    BY <1>1, <1>6, <2>4, <2>5 DEF CommitSwitch, Answered, NoCall
<1>7. QED
  BY <1>1, <1>5, <1>6 DEF CommitSwitch

LEMMA LockIInv == ASSUME IInv, Lock PROVE IInv'
<1>1. /\ UNCHANGED <<disk, inbox, queue, call>> /\ epoch' = epoch + 1 /\ unlocked' = FALSE
      /\ log' = log /\ collection' = collection
      /\ request' = request /\ view' = view /\ scope' = scope /\ waiting' = waiting
  BY DEF Lock, disk, renderer
<1>2. TypeOK'
  <2>1. epoch' \in Nat
    BY <1>1 DEF IInv, TypeOK
  <2>2. unlocked' \in BOOLEAN
    BY <1>1
  <2>3. QED
    BY <1>1, <2>1, <2>2 DEF IInv, TypeOK
<1>3. OneOut' /\ \A c \in Commands : Sends(c)' => Sends(c)
  BY <1>1 DEF IInv, OneOut, Sends, IsCurrent
<1>4. QED
  BY <1>1, <1>2, <1>3, BoundaryIInv

LEMMA UnlockIInv == ASSUME IInv, Unlock PROVE IInv'
<1>1. /\ UNCHANGED <<disk, inbox, queue, call>> /\ epoch' \in {epoch, epoch + 1}
      /\ Rescope(Snapshot(Active)) /\ request' = Dropped({}) /\ unlocked' = TRUE
  BY DEF Unlock
<1>2. unlocked' \in BOOLEAN
  BY <1>1
<1>3. Snapshot(Active) \in Snapshots
  BY TypeFacts DEF IInv, TypeOK, Active, Snapshot, Snapshots, Revision
<1>4. QED
  BY <1>1, <1>2, <1>3, RescopeIInv
\* A document that a command may change does not hold it yet, and no command has
\* changed it since the revision its author saw.
LEMMA FreshFacts ==
  ASSUME IInv, NEW c \in Commands, NEW v \in Vaults, Found(c, v) = "fresh"
  PROVE  /\ c \notin ToSet(log[v]) /\ request[c].revision <= Len(log[v]) + 1
         /\ \A j \in 1..Len(log[v]) : request[c].revision <= j => log[v][j] \in Batches
<1>1. /\ Len(log[v]) \in Nat /\ request[c].revision \in Nat
      /\ ToSet(log[v]) = {log[v][k] : k \in 1..Len(log[v])}
  BY TypeFacts, KindFacts DEF IInv, RequestRecords
<1>2. \/ request[c].revision = Len(log[v]) + 1
      \/ isUsageOnlyRevisionRange(v, request[c].revision)
  BY DEF Found, Revision
<1>3. request[c].revision <= Len(log[v]) + 1
  BY <1>1, <1>2 DEF isUsageOnlyRevisionRange, Revision
<1>4. ASSUME NEW j \in 1..Len(log[v]), request[c].revision <= j PROVE log[v][j] \in Batches
  <2>1. isUsageOnlyRevisionRange(v, request[c].revision)
    BY <1>1, <1>2, <1>4
  <2>2. j + 1 \in (request[c].revision + 1)..(Len(log[v]) + 1)
    BY <1>1, <1>4
  <2>3. j + 1 \in UsageRevisions(v)
    BY <2>1, <2>2 DEF isUsageOnlyRevisionRange, Revision
  <2>4. PICK k \in 1..Len(log[v]) : j + 1 = k + 1 /\ log[v][k] \in Batches
    BY <2>3 DEF UsageRevisions, Recent
  <2>5. j = k
    BY <1>1, <2>4
  <2>6. QED
    BY <2>4, <2>5
<1>5. ASSUME NEW k \in 1..Len(log[v]), log[v][k] = c PROVE FALSE
  <2>1. request[c].revision <= k
    BY <1>5 DEF IInv, AppliedAsAsked
  <2>2. QED
    BY <1>4, <1>5, <2>1, KindFacts
<1>6. QED
  BY <1>1, <1>3, <1>4, <1>5

\* The attempts of a command, as one is applied.
LEMMA ApplyRetries ==
  ASSUME IInv, NEW c \in Commands, NEW x \in Calls, x[1] = c, AtHead(x), NEW a \in Vaults,
         c \notin ToSet(log[a]), UNCHANGED renderer,
         call'[x].at = "done", \A y \in Calls \ {x} : call'[y] = call[y],
         \A p, q \in Calls : Ahead(p, q) /\ InLine(p)' /\ InLine(q)' => Ahead(p, q)',
         log' \in [Vaults -> Seq(Changes)], Gains(a, c)
  PROVE  RetriesFollow'
<1>0. /\ \A v \in Vaults : Len(log'[v]) \in Nat /\ ToSet(log'[v]) = {log'[v][k] : k \in 1..Len(log'[v])}
      /\ \A v \in Vaults : \A k \in 1..Len(log'[v]) :
           \/ k \in 1..Len(log[v]) /\ log'[v][k] = log[v][k]
           \/ v = a /\ k = Len(log[v]) + 1 /\ k = Len(log'[v]) /\ log'[v][k] = c
  BY SeqFacts DEF Gains
<1> SUFFICES ASSUME NEW d \in Commands
             PROVE  /\ InLine(<<d, 1>>)' =>
                         /\ ~Applied(d)'
                         /\ InLine(<<d, 2>>)' => Ahead(<<d, 1>>, <<d, 2>>)'
                         /\ MayRetry(d)' \/ InLine(<<d, 2>>)' =>
                              \A y \in (Commands \ {d}) \X {1, 2} : InLine(y)' =>
                                Ahead(y, <<d, 1>>)' \/ (InLine(<<d, 2>>)' /\ Ahead(<<d, 2>>, y)')
                    /\ Applied(d)' /\ (MayRetry(d)' \/ InLine(<<d, 2>>)') =>
                         /\ \A v \in Vaults : \A j, k \in 1..Len(log'[v]) :
                              j < k /\ log'[v][j] = d => log'[v][k] \notin Commands
                         /\ \A y \in (Commands \ {d}) \X {1, 2} : InLine(y)' =>
                              InLine(<<d, 2>>)' /\ Ahead(<<d, 2>>, y)'
  BY DEF RetriesFollow
<1>1. /\ <<d, 1>> \in Calls /\ <<d, 2>> \in Calls
      /\ \A y \in (Commands \ {d}) \X {1, 2} : y \in Calls /\ y[1] \in Commands \ {d}
      /\ x = <<c, 1>> \/ x = <<c, 2>>
      /\ x \in {c} \X {1, 2}
  BY CallsFacts, KindFacts DEF Calls, Requests
<1>2. /\ InLine(<<d, 1>>) =>
           /\ ~Applied(d)
           /\ InLine(<<d, 2>>) => Ahead(<<d, 1>>, <<d, 2>>)
           /\ MayRetry(d) \/ InLine(<<d, 2>>) =>
                \A y \in (Commands \ {d}) \X {1, 2} : InLine(y) =>
                  Ahead(y, <<d, 1>>) \/ (InLine(<<d, 2>>) /\ Ahead(<<d, 2>>, y))
      /\ Applied(d) /\ (MayRetry(d) \/ InLine(<<d, 2>>)) =>
           /\ \A v \in Vaults : \A j, k \in 1..Len(log[v]) :
                j < k /\ log[v][j] = d => log[v][k] \notin Commands
           /\ \A y \in (Commands \ {d}) \X {1, 2} : InLine(y) =>
                InLine(<<d, 2>>) /\ Ahead(<<d, 2>>, y)
  BY DEF IInv, RetriesFollow
<1>3. /\ InLine(x) /\ ~InLine(x)' /\ \A y \in Calls : ~Ahead(y, x)
      /\ \A y \in Calls : InLine(y)' <=> InLine(y) /\ y # x
  BY HeadFacts, HeadAt DEF IInv, InLine
<1>4. MayRetry(d)' => MayRetry(d)
  <2>1. MayRetry(d)' => <<d, 2>> # x
    BY DEF MayRetry
  <2>2. QED
    BY <1>1, <2>1 DEF MayRetry, Sends, IsCurrent, renderer
<1>5. MayRetry(d) => ~InLine(<<d, 2>>)
  BY DEF MayRetry, InLine
<1>6. ASSUME Applied(d)', d # c PROVE Applied(d)
  <2>1. PICK v \in Vaults : d \in ToSet(log'[v])
    BY <1>6 DEF Applied
  <2>2. \E k \in 1..Len(log[v]) : log[v][k] = d
    BY <1>0, <1>6, <2>1
  <2>3. QED
    BY <2>1, <2>2, TypeFacts DEF IInv, Applied
<1>7. CASE d # c
  <2>1. <<d, 1>> # x /\ <<d, 2>> # x
    BY <1>7
  <2>2. ASSUME Applied(d)', MayRetry(d)' \/ InLine(<<d, 2>>)' PROVE FALSE
    <3>1. Applied(d) /\ (MayRetry(d) \/ InLine(<<d, 2>>))
      BY <1>1, <1>3, <1>4, <1>6, <1>7, <2>2
    <3>2. x \in (Commands \ {d}) \X {1, 2}
      BY <1>1, <1>7
    <3>3. QED
      BY <1>1, <1>2, <1>3, <3>1, <3>2
  <2>3. ASSUME InLine(<<d, 1>>)', MayRetry(d)' \/ InLine(<<d, 2>>)',
               NEW y \in (Commands \ {d}) \X {1, 2}, InLine(y)'
        PROVE  Ahead(y, <<d, 1>>)' \/ (InLine(<<d, 2>>)' /\ Ahead(<<d, 2>>, y)')
    <3>1. Ahead(y, <<d, 1>>) \/ (InLine(<<d, 2>>) /\ Ahead(<<d, 2>>, y))
      BY <1>1, <1>2, <1>3, <1>4, <2>3
    <3>2. InLine(<<d, 2>>) => InLine(<<d, 2>>)'
      BY <1>1, <1>3, <2>1
    <3>3. QED
      BY <1>1, <2>3, <3>1, <3>2
  <2>4. InLine(<<d, 1>>)' =>
          ~Applied(d)' /\ (InLine(<<d, 2>>)' => Ahead(<<d, 1>>, <<d, 2>>)')
    BY <1>1, <1>2, <1>3, <1>6, <1>7
  <2>5. QED
    BY <2>2, <2>3, <2>4
<1>8. CASE d = c /\ x = <<c, 1>>
  <2>1. InLine(<<d, 1>>) /\ ~Applied(d) /\ ~InLine(<<d, 1>>)'
    BY <1>2, <1>3, <1>8
  <2>2. InLine(<<d, 2>>)' <=> InLine(<<d, 2>>)
    <3>1. <<d, 2>> # x
      BY <1>8
    <3>2. QED
      BY <1>1, <1>3, <3>1
  <2>3. ASSUME MayRetry(d)' \/ InLine(<<d, 2>>)',
               NEW y \in (Commands \ {d}) \X {1, 2}, InLine(y)'
        PROVE  InLine(<<d, 2>>)' /\ Ahead(<<d, 2>>, y)'
    <3>1. /\ y \in Calls /\ InLine(y) /\ ~Ahead(y, <<d, 1>>)
          /\ MayRetry(d) \/ InLine(<<d, 2>>)
      <4>1. /\ y \in Calls /\ InLine(y)
            /\ MayRetry(d) \/ InLine(<<d, 2>>)
        BY <1>1, <1>3, <1>4, <2>2, <2>3
      <4>2. ~Ahead(y, <<d, 1>>)
        BY <1>3, <1>8, <4>1
      <4>3. QED
        BY <4>1, <4>2
    <3>2. InLine(<<d, 2>>) /\ Ahead(<<d, 2>>, y)
      BY <1>2, <2>1, <2>3, <3>1
    <3>3. QED
      BY <1>1, <2>2, <2>3, <3>1, <3>2
  <2>4. ASSUME NEW v \in Vaults, NEW j \in 1..Len(log'[v]), NEW k \in 1..Len(log'[v]),
               j < k, log'[v][j] = d
        PROVE  FALSE
    <3>1. \A i \in 1..Len(log[v]) : log[v][i] # d
      BY <2>1, TypeFacts DEF IInv, Applied
    <3>2. j = Len(log'[v])
      BY <1>0, <2>4, <3>1
    <3>3. QED
      BY <1>0, <2>4, <3>2
  <2>5. QED
    BY <2>1, <2>3, <2>4
<1>9. CASE d = c /\ x = <<c, 2>>
  <2>1. ~InLine(<<d, 2>>)' /\ InLine(<<d, 2>>)
    BY <1>3, <1>9
  <2>2. ~MayRetry(d)'
    BY <1>4, <1>5, <2>1
  <2>3. ~InLine(<<d, 1>>)'
    <3>1. ASSUME InLine(<<d, 1>>)' PROVE FALSE
      <4>1. <<d, 1>> \in Calls /\ InLine(<<d, 1>>)
        BY <1>1, <1>3, <3>1
      <4>2. Ahead(<<d, 1>>, x)
        BY <1>2, <1>9, <2>1, <4>1
      <4>3. QED
        BY <1>3, <4>1, <4>2
    <3>2. QED
      BY <3>1
  <2>4. QED
    BY <2>1, <2>2, <2>3
<1>10. QED
  BY <1>1, <1>7, <1>8, <1>9

LEMMA CommitCommandIInv == ASSUME IInv, NEW x \in Calls, CommitCommand(x) PROVE IInv'
<1>1. PICK c, a, f : c = x[1] /\ a = Active /\ f = Found(c, Active)
  OBVIOUS
<1>2. /\ AtHead(x) /\ c \in Commands /\ queue' = Tail(queue)
      /\ log' = IF f = "fresh" THEN [log EXCEPT ![a] = Append(@, c)] ELSE log
      /\ Answered(x, IF f = "stale" THEN "stale" ELSE "success",
                  [vault |-> a, revision |-> Len(log'[a]) + 1])
      /\ UNCHANGED <<collection, unlocked, epoch, inbox, renderer>> /\ inbox' = inbox
      /\ collection' = collection /\ request' = request /\ UNCHANGED renderer
      /\ view' = view /\ scope' = scope /\ waiting' = waiting
      /\ unlocked' = unlocked /\ epoch' = epoch
  <2>1. Active' = Active
    BY DEF CommitCommand, Active
  <2>2. QED
    BY <1>1, <2>1 DEF CommitCommand, renderer
<1>3. /\ TypeOK /\ LinesAgree /\ log \in [Vaults -> Seq(Changes)] /\ a \in Vaults /\ c \in Changes
      /\ c \in Requests /\ c \notin Switches /\ call[x].at = "queued" /\ InLine(x)
      /\ c \notin Batches \cup Writers
  BY <1>1, <1>2, TypeFacts, HeadAt, KindFacts DEF IInv, TypeOK, Changes, Active
<1>4. CASE f # "fresh"
  <2>1. log' = log /\ UNCHANGED disk
    BY <1>2, <1>4 DEF disk
  <2>2. [vault |-> a, revision |-> Len(log'[a]) + 1] \in Snapshots
    BY <1>3, <2>1, TypeFacts DEF Snapshots
  <2>3. (IF f = "stale" THEN "stale" ELSE "success") \in {"none", "success", "stale", "failed"}
    OBVIOUS
  <2>4. QED
    BY <1>2, <1>3, <2>1, <2>2, <2>3, AnswerIInv
<1>5. CASE f = "fresh"
  <2>1. /\ c \notin ToSet(log[a]) /\ request[c].revision <= Len(log[a]) + 1
        /\ \A j \in 1..Len(log[a]) : request[c].revision <= j => log[a][j] \in Batches
    BY <1>1, <1>2, <1>3, <1>5, FreshFacts
  <2>2. PICK t : t = Append(log[a], c)
    OBVIOUS
  <2>3. /\ t \in Seq(Changes) /\ Len(t) = Len(log[a]) + 1 /\ Len(log[a]) \in Nat
        /\ \A k \in 1..Len(log[a]) : t[k] = log[a][k]
        /\ t[Len(log[a]) + 1] = c /\ ToSet(t) = ToSet(log[a]) \cup {c}
    BY <1>3, <2>2, AppendFacts, TypeFacts DEF IInv
  <2>4. /\ log' \in [Vaults -> Seq(Changes)] /\ log'[a] = t
        /\ \A v \in Vaults \ {a} : log'[v] = log[v]
    BY <1>2, <1>3, <1>5, <2>2, <2>3
  <2>5. \A v \in Vaults : \A k \in 1..Len(log'[v]) :
          \/ k \in 1..Len(log[v]) /\ log'[v][k] = log[v][k]
          \/ v = a /\ k = Len(log[v]) + 1 /\ k = Len(log'[v]) /\ log'[v][k] = c
    <3>1. ASSUME NEW v \in Vaults, NEW k \in 1..Len(log'[v])
          PROVE  \/ k \in 1..Len(log[v]) /\ log'[v][k] = log[v][k]
                 \/ v = a /\ k = Len(log[v]) + 1 /\ k = Len(log'[v]) /\ log'[v][k] = c
      <4>1. CASE v = a
        <5>1. k \in 1..Len(log[a]) \/ k = Len(log[a]) + 1
          BY <2>3, <2>4, <3>1, <4>1
        <5>2. QED
          BY <2>3, <2>4, <4>1, <5>1
      <4>2. CASE v # a
        BY <2>4, <3>1, <4>2
      <4>3. QED
        BY <4>1, <4>2
    <3>2. QED
      BY <3>1
  <2>6. \A v \in Vaults : Len(log'[v]) \in Nat /\ ToSet(log'[v]) = {log'[v][k] : k \in 1..Len(log'[v])}
    BY <2>4, SeqFacts
  <2>7. PICK data : data = [vault |-> a, revision |-> Len(log'[a]) + 1]
    OBVIOUS
  <2>8. data \in Snapshots
    BY <1>3, <2>6, <2>7 DEF Snapshots
  <2>9. Answered(x, "success", data)
    BY <1>2, <1>5, <2>7
  <2>10. PICK r \in CallRecords : /\ call' = [call EXCEPT ![x] = r]
                                  /\ r.at = "done" /\ r.epoch = 0 /\ r.answer = "success"
    BY <2>8, <2>9, AnsweredFacts
  <2>11. /\ LineStep(x, r) /\ r.epoch <= epoch
         /\ call' \in [Calls -> CallRecords]
         /\ call'[x] = r /\ \A y \in Calls \ {x} : call'[y] = call[y]
    BY <1>2, <2>10, TypeFacts DEF LineStep, IInv, TypeOK
  <2>12. /\ inbox' \in Seq(Calls) /\ queue' \in Seq(Calls) /\ LinesAgree'
         /\ \A p, q \in Calls : Ahead(p, q) /\ InLine(p)' /\ InLine(q)' => Ahead(p, q)'
    BY <1>3, <2>10, <2>11, LinesMove
  <2>13. RetriesFollow'
    <3>1. call'[x].at = "done" /\ x[1] = c /\ AtHead(x) /\ UNCHANGED renderer
      BY <1>1, <1>2, <2>10, <2>11
    <3>2. c \in Commands /\ a \in Vaults /\ c \notin ToSet(log[a])
      BY <1>2, <1>3, <2>1
    <3>3. \A y \in Calls \ {x} : call'[y] = call[y]
      BY <2>11
    <3>4. \A p, q \in Calls : Ahead(p, q) /\ InLine(p)' /\ InLine(q)' => Ahead(p, q)'
      BY <2>12
    <3>5. Gains(a, c)
      BY <2>5 DEF Gains
    <3>6. QED
      BY <2>4, <3>1, <3>2, <3>3, <3>4, <3>5, ApplyRetries
  <2>14. OneOut'
    BY <1>2 DEF IInv, OneOut, Sends, IsCurrent
  <2>15. \A e : Applied(e)' => Applied(e) \/ e = c
    <3>1. ASSUME NEW e, NEW v \in Vaults, e \in ToSet(log'[v]) PROVE e \in ToSet(log[v]) \/ e = c
      BY <2>3, <2>4, <3>1
    <3>2. QED
      BY <3>1 DEF Applied
  <2>16. AppliedAsAsked'
    <3>1. request[c].at \notin {"unused", "waiting"}
      <4>1. x = <<c, 1>> \/ x = <<c, 2>>
        BY <1>1, <1>3, CallsFacts
      <4>2. QED
        BY <1>3, <4>1 DEF IInv, AppliedAsAsked
    <3>2. ASSUME NEW d \in Requests, request[d].at \in {"unused", "waiting"}
          PROVE  call'[<<d, 1>>].at = "idle" /\ call'[<<d, 2>>].at = "idle" /\ ~Applied(d)'
      <4>1. d # c /\ call[<<d, 1>>].at = "idle" /\ call[<<d, 2>>].at = "idle" /\ ~Applied(d)
        BY <3>1, <3>2 DEF IInv, AppliedAsAsked
      <4>2. <<d, 1>> \in Calls \ {x} /\ <<d, 2>> \in Calls \ {x}
        BY <1>1, <4>1, CallsFacts
      <4>3. QED
        BY <2>11, <2>15, <4>1, <4>2
    <3>3. ASSUME NEW e \in Batches \cup Writers, Applied(e)' PROVE call'[<<e, 1>>].at = "done"
      <4>1. e # c /\ call[<<e, 1>>].at = "done"
        BY <1>3, <2>15, <3>3 DEF IInv, AppliedAsAsked
      <4>2. <<e, 1>> \in Calls \ {x}
        BY <1>1, <4>1, CallsFacts
      <4>3. QED
        BY <2>11, <4>1, <4>2
    <3>4. ASSUME NEW v \in Vaults, NEW k \in 1..Len(log'[v]), log'[v][k] \in Commands
          PROVE  request[log'[v][k]].revision <= k
      <4>1. CASE k \in 1..Len(log[v]) /\ log'[v][k] = log[v][k]
        BY <3>4, <4>1 DEF IInv, AppliedAsAsked
      <4>2. CASE v = a /\ k = Len(log[v]) + 1 /\ log'[v][k] = c
        BY <2>1, <4>2
      <4>3. QED
        BY <2>5, <4>1, <4>2
    <3>5. QED
      BY <1>2, <3>2, <3>3, <3>4 DEF AppliedAsAsked
  <2>17. AppliedOnce'
    <3>1. ASSUME NEW v \in Vaults, NEW j \in 1..Len(log'[v]), NEW k \in 1..Len(log'[v]),
                 log'[v][j] = log'[v][k]
          PROVE  j = k
      <4>1. v = a => \A i \in 1..Len(log[v]) : log[v][i] # c
        BY <2>1, TypeFacts DEF IInv
      <4>2. \/ j \in 1..Len(log[v]) /\ log'[v][j] = log[v][j]
            \/ v = a /\ j = Len(log[v]) + 1 /\ log'[v][j] = c
        BY <2>5
      <4>3. \/ k \in 1..Len(log[v]) /\ log'[v][k] = log[v][k]
            \/ v = a /\ k = Len(log[v]) + 1 /\ log'[v][k] = c
        BY <2>5
      <4>4. QED
        BY <3>1, <4>1, <4>2, <4>3 DEF IInv, AppliedOnce
    <3>2. QED
      BY <3>1 DEF AppliedOnce
  <2>18. AppliedOnWhatItsAuthorSaw'
    <3>1. ASSUME NEW v \in Vaults, NEW k \in 1..Len(log'[v]), log'[v][k] \in Commands,
                 request[log'[v][k]].vault = v, NEW j \in 1..(k - 1),
                 request[log'[v][k]].revision <= j
          PROVE  log'[v][j] \in Batches
      <4>1. Len(log[v]) \in Nat /\ Len(log'[v]) \in Nat
        BY <2>6, TypeFacts DEF IInv
      <4>2. CASE k \in 1..Len(log[v]) /\ log'[v][k] = log[v][k]
        <5>1. log[v][j] \in Batches
          BY <3>1, <4>2 DEF IInv, AppliedOnWhatItsAuthorSaw
        <5>2. j \in 1..Len(log[v]) /\ j \in 1..Len(log'[v]) /\ j # Len(log[v]) + 1
          BY <3>1, <4>1, <4>2
        <5>3. log'[v][j] = log[v][j]
          BY <2>5, <5>2
        <5>4. QED
          BY <5>1, <5>3
      <4>3. CASE v = a /\ k = Len(log[v]) + 1 /\ log'[v][k] = c
        <5>1. j \in 1..Len(log[v]) /\ j \in 1..Len(log'[v]) /\ j # Len(log[v]) + 1
          BY <3>1, <4>1, <4>3
        <5>2. log'[v][j] = log[v][j]
          BY <2>5, <5>1
        <5>3. log[v][j] \in Batches
          BY <2>1, <3>1, <4>3, <5>1
        <5>4. QED
          BY <5>2, <5>3
      <4>4. QED
        BY <2>5, <4>2, <4>3
    <3>2. QED
      BY <1>2, <3>1 DEF AppliedOnWhatItsAuthorSaw
  <2>19. Scoped' /\ SwitchesRotate'
    <3>1. UNCHANGED <<epoch, collection, request>>
      BY <1>2
    <3>2. Scoped'
      BY <1>1, <1>3, <2>10, <2>11, <3>1, ScopedKeep
    <3>3. SwitchesRotate'
      BY <1>1, <1>3, <2>10, <3>1, SwitchesKeep
    <3>4. QED
      BY <3>2, <3>3
  <2>20. TypeOK'
    BY <1>2, <2>4, <2>11, <2>12 DEF IInv, TypeOK, CallRecords
  <2>21. QED
    BY <2>12, <2>13, <2>14, <2>16, <2>17, <2>18, <2>19, <2>20 DEF IInv
<1>6. QED
  BY <1>4, <1>5
-----------------------------------------------------------------------------
LEMMA EmptyFacts == ToSet(<<>>) = {} /\ IsInjective(<<>>)
<1>1. PICK s : s = <<>>
  OBVIOUS
<1>2. s \in Seq({}) /\ Len(s) = 0
  BY <1>1, EmptySeq
<1>3. /\ ToSet(s) = {s[i] : i \in 1..Len(s)}
      /\ IsInjective(s) <=> \A i, j \in 1..Len(s) : s[i] = s[j] => i = j
  <2>1. ToSet(s) = {s[i] : i \in 1..Len(s)}
    BY <1>2, SeqFacts
  <2>2. IsInjective(s) <=> \A i, j \in 1..Len(s) : s[i] = s[j] => i = j
    BY <1>2, SeqFacts
  <2>3. QED
    BY <2>1, <2>2
<1>4. 1..Len(s) = {}
  BY <1>2
<1>5. ToSet(s) = {} /\ IsInjective(s)
  BY <1>3, <1>4
<1>6. QED
  BY <1>1, <1>5

LEMMA InitIInv == Init => IInv
<1> SUFFICES ASSUME Init PROVE IInv
  OBVIOUS
<1>1. /\ log = [v \in Vaults |-> <<>>] /\ unlocked = FALSE /\ epoch = 0
      /\ inbox = <<>> /\ queue = <<>> /\ view = None /\ scope = 0 /\ waiting = <<>>
  BY DEF Init
<1>2. PICK v \in Vaults : collection = [active |-> v, revision |-> 1, receipts |-> <<>>]
  BY DEF Init
<1>3. PICK cast \in Casts :
        /\ call = [x \in Calls |->
             IF x[1] \in cast \/ x[2] = 2 THEN NoCall ELSE [NoCall EXCEPT !.at = "done"]]
        /\ request = [r \in Requests |->
             [at |-> IF r \in cast THEN "unused" ELSE "done", vault |-> None,
              revision |-> 0, scope |-> 0, target |-> None]]
  BY DEF Init
<1>4. \A x \in Calls :
        /\ call[x] \in CallRecords /\ call[x].at \in {"idle", "done"} /\ call[x].epoch = 0
        /\ call[x].answer = "none" /\ (x[1] \in cast \/ x[2] = 2 => call[x].at = "idle")
  <2>1. /\ NoCall \in CallRecords /\ NoCall.at = "idle" /\ NoCall.epoch = 0 /\ NoCall.answer = "none"
    BY DEF NoCall, CallRecords
  <2>2. PICK n : n = [NoCall EXCEPT !.at = "done"]
    OBVIOUS
  <2>3. n \in CallRecords /\ n.at = "done" /\ n.epoch = 0 /\ n.answer = "none"
    BY <2>2 DEF NoCall, CallRecords
  <2>4. \A x \in Calls : call[x] = IF x[1] \in cast \/ x[2] = 2 THEN NoCall ELSE n
    BY <1>3, <2>2
  <2>5. QED
    BY <2>1, <2>3, <2>4
<1>5. \A r \in Requests :
        /\ request[r] \in RequestRecords /\ request[r].at \in {"unused", "done"}
        /\ request[r].scope = 0 /\ request[r].revision = 0
        /\ (request[r].at = "unused" => r \in cast)
  BY <1>3 DEF RequestRecords
<1>6. /\ call \in [Calls -> CallRecords] /\ request \in [Requests -> RequestRecords]
  BY <1>3, <1>4, <1>5
<1>7. \A u \in Vaults : /\ log[u] \in Seq(Changes) /\ Len(log[u]) = 0 /\ ToSet(log[u]) = {}
                        /\ 1..Len(log[u]) = {}
  <2>1. /\ <<>> \in Seq(Changes) /\ Len(<<>>) = 0 /\ 1..0 = {}
    BY EmptySeq
  <2>2. ToSet(<<>>) = {}
    BY EmptyFacts
  <2>3. QED
    BY <1>1, <2>1, <2>2
<1>8. TypeOK
  <2>1. /\ <<>> \in Seq(Calls) /\ <<>> \in Seq(Commands) /\ <<>> \in Seq(Switches)
    BY EmptySeq
  <2>2. log \in [Vaults -> Seq(Changes)]
    BY <1>1, <1>7
  <2>3. collection \in [active : Vaults, revision : Nat, receipts : Seq(Switches)]
    BY <1>2, <2>1
  <2>4. unlocked \in BOOLEAN
    BY <1>1
  <2>5. epoch \in Nat /\ scope \in Nat
    BY <1>1
  <2>6. /\ inbox \in Seq(Calls) /\ queue \in Seq(Calls) /\ waiting \in Seq(Commands)
        /\ view \in Snapshots \cup {None}
    BY <1>1, <2>1
  <2>7. QED
    BY <1>6, <2>2, <2>3, <2>4, <2>5, <2>6 DEF TypeOK, CallRecords, RequestRecords
<1>9. AppliedOnce /\ AppliedOnWhatItsAuthorSaw
  BY <1>7 DEF AppliedOnce, AppliedOnWhatItsAuthorSaw
<1>10. LinesAgree
  BY <1>1, <1>4, EmptyFacts DEF LinesAgree
<1>11. \A e : ~Applied(e)
  BY <1>7 DEF Applied
<1>12. AppliedAsAsked
  <2>1. ASSUME NEW r \in Requests, request[r].at \in {"unused", "waiting"}
        PROVE  call[<<r, 1>>].at = "idle" /\ call[<<r, 2>>].at = "idle"
    <3>1. r \in cast
      BY <1>5, <2>1
    <3>2. QED
      BY <1>4, <3>1, CallsFacts
  <2>2. QED
    BY <1>7, <1>11, <2>1 DEF AppliedAsAsked
<1>13. OneOut /\ RetriesFollow
  <2>1. \A r \in Requests : request[r].at # "sent" /\ request[r].scope <= scope
    BY <1>1, <1>5
  <2>2. \A x \in Calls : ~InLine(x)
    BY <1>4 DEF InLine
  <2>3. \A c \in Commands : ~InLine(<<c, 1>>)
    BY <2>2, CallsFacts, KindFacts
  <2>4. QED
    BY <1>11, <2>1, <2>3, KindFacts DEF OneOut, RetriesFollow, Sends
<1>14. SwitchesRotate
  <2>1. \A s \in Switches : \A x \in {s} \X {1, 2} : call[x].at \in {"idle", "done"}
    BY <1>4, KindFacts DEF Calls
  <2>2. \A s \in Switches : request[s].revision <= collection.revision /\ request[s].at # "sent"
    BY <1>2, <1>5, KindFacts
  <2>3. QED
    BY <2>1, <2>2 DEF SwitchesRotate
<1>15. Scoped
  BY <1>1, <1>4 DEF Scoped
<1>16. QED
  BY <1>8, <1>9, <1>10, <1>12, <1>13, <1>14, <1>15 DEF IInv

LEMMA NextIInv == IInv /\ [Next]_vars => IInv'
<1> SUFFICES ASSUME IInv, [Next]_vars PROVE IInv'
  OBVIOUS
<1>1. CASE RendererStep
  <2>1. CASE \E c \in Commands : Author(c) \/ Send(c) \/ ReceiveCommand(c)
    BY <2>1, AuthorIInv, SendIInv, ReceiveCommandIInv
  <2>2. CASE \E s \in Switches : ReceiveSwitch(s) \/ \E v \in Vaults : RequestSwitch(s, v)
    BY <2>2, ReceiveSwitchIInv, RequestSwitchIInv
  <2>3. CASE \E r \in Requests : LoseAnswer(r)
    BY <2>3, LoseAnswerIInv
  <2>4. CASE HearChange \/ HearSwitch \/ EndView
    BY <2>4, HearChangeIInv, HearSwitchIInv, EndViewIInv
  <2>5. QED
    BY <1>1, <2>1, <2>2, <2>3, <2>4 DEF RendererStep
<1>2. CASE MainStep
  <2>1. PICK x \in Calls :
          Admit(x) \/ Flush(x) \/ BeginWrite(x) \/ Write(x) \/ ReadSelection(x)
          \/ AdmitSwitch(x) \/ Fail(x) \/ CommitCommand(x) \/ CommitWrite(x)
          \/ CommitSwitch(x) \/ SettleSwitch(x)
    BY <1>2 DEF MainStep
  <2>2. CASE Admit(x) \/ Flush(x) \/ BeginWrite(x) \/ Write(x)
    BY <2>2, AdmitIInv, FlushIInv, BeginWriteIInv, WriteIInv
  <2>3. CASE ReadSelection(x) \/ AdmitSwitch(x) \/ CommitSwitch(x) \/ SettleSwitch(x)
    BY <2>3, ReadSelectionIInv, AdmitSwitchIInv, CommitSwitchIInv, SettleSwitchIInv
  <2>4. CASE Fail(x) \/ CommitCommand(x) \/ CommitWrite(x)
    BY <2>4, FailIInv, CommitCommandIInv, CommitWriteIInv
  <2>5. QED
    BY <2>1, <2>2, <2>3, <2>4
<1>3. CASE Lock \/ Unlock
  BY <1>3, LockIInv, UnlockIInv
<1>4. CASE UNCHANGED vars
  <2>1. UNCHANGED <<disk, main>> /\ UNCHANGED renderer /\ TypeOK'
    BY <1>4 DEF vars, IInv, TypeOK, disk, main, renderer
  <2>2. /\ request' = request /\ OneOut' /\ \A c \in Commands : Sends(c)' => Sends(c)
    BY <2>1 DEF renderer, IInv, OneOut, Sends, IsCurrent
  <2>3. QED
    BY <2>1, <2>2, RendererIInv
<1>5. QED
  BY <1>1, <1>2, <1>3, <1>4 DEF Next

\* The invariant of the queue, the documents and the switches: no document holds a
\* command twice, and one that lands in its author's vault changes what its author saw.
THEOREM MutationsInvariant == Spec => []IInv
<1>1. Init => IInv
  BY InitIInv
<1>2. IInv /\ [Next]_vars => IInv'
  BY NextIInv
<1>3. QED
  BY <1>1, <1>2, PTL DEF Spec
\* A step of a call leaves the others alone.
LEMMA OthersStay ==
  ASSUME IInv, NEW y \in Calls,
         \/ Admit(y) \/ Flush(y) \/ BeginWrite(y) \/ Write(y) \/ ReadSelection(y)
         \/ AdmitSwitch(y) \/ Fail(y) \/ CommitCommand(y) \/ CommitWrite(y)
         \/ CommitSwitch(y) \/ SettleSwitch(y)
  PROVE  \A z \in Calls \ {y} : call'[z] = call[z]
<1>1. call \in [Calls -> CallRecords]
  BY TypeFacts DEF IInv
<1>2. ASSUME NEW stage, NEW now, Admitted(y, stage, now)
      PROVE  \A z \in Calls \ {y} : call'[z] = call[z]
  BY <1>1, <1>2 DEF Admitted
<1>3. ASSUME NEW answer, NEW data, Answered(y, answer, data)
      PROVE  \A z \in Calls \ {y} : call'[z] = call[z]
  BY <1>1, <1>3 DEF Answered
<1>4. CASE Admit(y) \/ Flush(y) \/ BeginWrite(y) \/ AdmitSwitch(y)
  BY <1>2, <1>3, <1>4 DEF Admit, Flush, BeginWrite, AdmitSwitch, Enqueue
<1>5. CASE Write(y) \/ ReadSelection(y) \/ CommitSwitch(y)
  BY <1>1, <1>3, <1>5 DEF Write, ReadSelection, CommitSwitch
<1>6. CASE Fail(y) \/ CommitCommand(y) \/ CommitWrite(y) \/ SettleSwitch(y)
  BY <1>3, <1>6 DEF Fail, CommitCommand, CommitWrite, SettleSwitch
<1>7. QED
  BY <1>4, <1>5, <1>6

\* Only the mutate handler's operation answers a queued command with "stale".
LEMMA StaleAnswers ==
  ASSUME IInv, Next, NEW x \in Calls, x[1] \in Commands, call[x].at = "queued",
         call'[x].answer = "stale"
  PROVE  CommitCommand(x)
<1>1. call[x].answer = "none" /\ call \in [Calls -> CallRecords]
  BY TypeFacts DEF IInv, LinesAgree
<1>2. call' # call
  BY <1>1
<1>3. ASSUME NEW y, Invoke(y) PROVE FALSE
  <2>1. call' = [call EXCEPT ![y].at = "sent"]
    BY <1>3 DEF Invoke
  <2>2. call'[x].answer = call[x].answer
    BY <1>1, <2>1 DEF CallRecords
  <2>3. QED
    BY <1>1, <2>2
<1>4. ~RendererStep
  BY <1>2, <1>3 DEF RendererStep, Author, Send, ReceiveCommand, ReceiveSwitch, RequestSwitch,
                    LoseAnswer, HearChange, HearSwitch, EndView, main
<1>5. ~(Lock \/ Unlock)
  BY <1>2 DEF Lock, Unlock
<1>6. PICK y \in Calls :
        Admit(y) \/ Flush(y) \/ BeginWrite(y) \/ Write(y) \/ ReadSelection(y)
        \/ AdmitSwitch(y) \/ Fail(y) \/ CommitCommand(y) \/ CommitWrite(y)
        \/ CommitSwitch(y) \/ SettleSwitch(y)
  BY <1>4, <1>5 DEF Next, MainStep
<1>7. y = x
  <2>1. y # x => call'[x] = call[x]
    BY <1>6, OthersStay
  <2>2. QED
    BY <1>1, <2>1
<1>8. ~(Flush(x) \/ BeginWrite(x) \/ Write(x) \/ ReadSelection(x) \/ AdmitSwitch(x)
        \/ CommitWrite(x) \/ CommitSwitch(x) \/ SettleSwitch(x))
  BY KindFacts DEF Flush, BeginWrite, Write, ReadSelection, AdmitSwitch, CommitWrite,
                   CommitSwitch, SettleSwitch
<1>9. ~Admit(x)
  BY ArrivesFacts DEF Admit
<1>10. ~Fail(x)
  <2>1. ASSUME Answered(x, "failed", None) PROVE FALSE
    BY <1>1, <2>1 DEF Answered, NoCall
  <2>2. QED
    BY <2>1 DEF Fail
<1>11. QED
  BY <1>6, <1>7, <1>8, <1>9, <1>10

\* The answer "changed meanwhile" to a command (vaultDataIpc.ts, mutate) means that no
\* attempt of it was applied to the active vault: a retry finds the first one's receipt.
THEOREM StaleAnswersAreTrue == Spec => StaleMeansNotApplied
<1> DEFINE A == \A x \in Calls :
                  x[1] \in Commands /\ call'[x].answer = "stale" /\ call[x].at = "queued" =>
                    x[1] \notin ToSet(log[Active])
<1>1. IInv /\ [Next]_vars => [A]_vars
  <2> SUFFICES ASSUME IInv, Next, NEW x \in Calls, NEW c \in Commands, x[1] = c,
                      call'[x].answer = "stale", call[x].at = "queued",
                      c \in ToSet(log[Active])
               PROVE  FALSE
    OBVIOUS
  <2>1. CommitCommand(x)
    BY StaleAnswers
  <2>2. Found(c, Active) = "stale"
    <3>1. PICK f : f = Found(c, Active)
      OBVIOUS
    <3>2. PICK data : Answered(x, IF f = "stale" THEN "stale" ELSE "success", data)
      BY <2>1, <3>1 DEF CommitCommand
    <3>3. call'[x].answer = IF f = "stale" THEN "stale" ELSE "success"
      BY <3>2, TypeFacts DEF IInv, Answered, NoCall
    <3>4. QED
      BY <3>1, <3>3
  <2>3. c \notin Receipts(Active)
    BY <2>2 DEF Found
  <2>4. Active \in Vaults
    BY DEF IInv, TypeOK, Active
  <2>5. /\ Len(log[Active]) \in Nat
        /\ ToSet(log[Active]) = {log[Active][k] : k \in 1..Len(log[Active])}
    BY <2>4, TypeFacts DEF IInv
  <2>6. PICK k \in 1..Len(log[Active]) : log[Active][k] = c
    BY <2>5
  <2>7. Applied(c)
    BY <2>4 DEF Applied
  <2>8. x = <<c, 2>> /\ InLine(<<c, 2>>)
    <3>1. x = <<c, 1>> \/ x = <<c, 2>>
      BY CallsFacts, KindFacts
    <3>2. InLine(x)
      BY DEF InLine
    <3>3. QED
      BY <2>7, <3>1, <3>2 DEF IInv, RetriesFollow
  <2>9. \A i \in (k + 1)..Len(log[Active]) : log[Active][i] \notin Commands
    <3>1. \A i \in 1..Len(log[Active]) : k < i => log[Active][i] \notin Commands
      BY <2>4, <2>6, <2>7, <2>8 DEF IInv, RetriesFollow
    <3>2. QED
      BY <2>5, <3>1
  <2>10. {i \in (k + 1)..Len(log[Active]) : log[Active][i] \in Commands} = {}
    BY <2>9
  <2>11. Cardinality({i \in (k + 1)..Len(log[Active]) : log[Active][i] \in Commands}) < ReceiptLimit
    <3>1. Cardinality({}) = 0
      BY FS_EmptySet
    <3>2. 0 < ReceiptLimit
      BY LimitsAssumption
    <3>3. QED
      BY <2>10, <3>1, <3>2
  <2>12. c \in Receipts(Active)
    BY <2>6, <2>11 DEF Receipts, Recent
  <2>13. QED
    BY <2>3, <2>12
<1>2. QED
  BY <1>1, MutationsInvariant, PTL DEF Spec, StaleMeansNotApplied

\* A call commits to the vault that was active when it was admitted, or to one whose
\* switch was under way then (vaultSessionKey.ts, vaultCollectionIpc.ts).
THEOREM CommitsAreScoped == Spec => ScopedCommits
<1> DEFINE A == \A x \in Calls :
                  log' # log /\ AtHead(x) => Active \in {call[x].vault} \cup call[x].under
<1>1. IInv /\ [Next]_vars => [A]_vars
  <2> SUFFICES ASSUME IInv, Next, NEW x \in Calls, log' # log, AtHead(x)
               PROVE  Active \in {call[x].vault} \cup call[x].under
    OBVIOUS
  <2>1. ~RendererStep
    BY DEF RendererStep, Author, Send, ReceiveCommand, ReceiveSwitch, RequestSwitch,
           LoseAnswer, HearChange, HearSwitch, EndView, disk
  <2>2. ~(Lock \/ Unlock)
    BY DEF Lock, Unlock, disk
  <2>3. PICK y \in Calls :
          Admit(y) \/ Flush(y) \/ BeginWrite(y) \/ Write(y) \/ ReadSelection(y)
          \/ AdmitSwitch(y) \/ Fail(y) \/ CommitCommand(y) \/ CommitWrite(y)
          \/ CommitSwitch(y) \/ SettleSwitch(y)
    BY <2>1, <2>2 DEF Next, MainStep
  <2>4. CommitCommand(y) \/ CommitWrite(y)
    BY <2>3 DEF Admit, Flush, BeginWrite, Write, ReadSelection, AdmitSwitch, Fail,
                CommitSwitch, SettleSwitch, disk
  <2>5. AtHead(y) /\ AssertCurrent(y)
    BY <2>4 DEF CommitCommand, CommitWrite
  <2>6. y = x
    BY <2>5 DEF AtHead
  <2>7. call[x].at = "queued" /\ call[x].epoch = epoch
    BY <2>5, <2>6, HeadAt DEF AssertCurrent
  <2>8. QED
    BY <2>7 DEF IInv, Scoped
<1>2. QED
  BY <1>1, MutationsInvariant, PTL DEF Spec, ScopedCommits
=============================================================================
