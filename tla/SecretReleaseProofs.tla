-------------------------- MODULE SecretReleaseProofs --------------------------
(* Proofs about SecretRelease, for any handlers, windows, values, scenarios and *)
(* bounds.                                                                      *)
EXTENDS SecretRelease, SequenceTheorems, TLAPS

CallRecords ==
  [at : Stages, kind : Kinds \cup {None}, id : 0..MaxCalls, epoch : 0..MaxEpoch,
   seen : 0..MaxRevision, value : Values \cup {Nothing}, window : Windows \cup {None},
   token : 0..MaxCalls]

Waits == {"authorize", "record"}

\* The entry e is in the log or on its way there, or the guard blocks for the session.
Arrives(e) ==
  \/ e \in log
  \/ \E j \in 1..Len(pending) :
       pending[j] = e /\ \A i \in 1..Len(pending) : pending[i] = Unlocking => i < j
  \/ blocked /\ \A i \in 1..Len(pending) : pending[i] # Unlocking

\* What IInv says of a call c and the exports.
InOrder(c) ==
  /\ c.at \in {"dialog", "write", "rename", "written"} => c.kind \in Exports
  /\ c.at = "authorize" => c.kind \in {"plain", "image"}
  /\ c.at = "record" => c.kind \in {"copy", "reveal"} \cup Exports
  /\ c.at \in {"write", "rename", "written", "record"} /\ c.kind \in {"plain", "image"} =>
       <<c.id, "authorized">> \in log

-----------------------------------------------------------------------------
LEMMA PendingFacts ==
  ASSUME TypeOK
  PROVE  /\ Len(pending) \in Nat /\ DOMAIN pending = 1..Len(pending)
         /\ Range(pending) = {pending[i] : i \in 1..Len(pending)}
         /\ \A i \in 1..Len(pending) : pending[i] \in Entries
<1>1. /\ Len(pending) \in Nat /\ DOMAIN pending = 1..Len(pending)
      /\ \A i \in 1..Len(pending) : pending[i] \in Entries
  BY LenProperties, ElementOfSeq DEF TypeOK
<1>2. QED
  BY <1>1 DEF Range

LEMMA OneCall ==
  ASSUME TypeOK, NEW h \in Handlers, NEW c \in CallRecords, call' = [call EXCEPT ![h] = c]
  PROVE  /\ call' \in [Handlers -> CallRecords] /\ call'[h] = c
         /\ \A g \in Handlers \ {h} : call'[g] = call[g]
BY DEF TypeOK, CallRecords

LEMMA CallFacts ==
  ASSUME TypeOK
  PROVE  /\ \A h \in Handlers : call[h] \in CallRecords
         /\ NoCall \in CallRecords /\ NoCall.at = "idle" /\ NoCall.kind = None
         /\ Calls \subseteq Nat /\ 0 \notin Calls /\ 1..calls \subseteq Calls
<1>1. /\ MaxCalls \in Nat \ {0} /\ MaxEpoch \in Nat \ {0} /\ MaxRevision \in Nat \ {0}
      /\ calls \in 0..MaxCalls
  BY BoundsAssumption DEF TypeOK
<1>2. NoCall \in CallRecords /\ NoCall.at = "idle" /\ NoCall.kind = None
  BY <1>1 DEF NoCall, CallRecords, Stages
<1>3. Calls \subseteq Nat /\ 0 \notin Calls /\ 1..calls \subseteq Calls
  BY <1>1 DEF Calls
<1>4. QED
  BY <1>2, <1>3 DEF TypeOK, CallRecords

LEMMA EntryFacts ==
  ASSUME NEW n \in Calls,
         NEW what \in {"copied", "revealed", "authorized", "exported", "imported"}
  PROVE  <<n, what>> \in Entries /\ <<n, what>> # Unlocking
BY BoundsAssumption DEF Entries, Unlocking, Calls

LEMMA AwaitedFacts ==
  ASSUME TypeOK, NEW h \in Handlers, call[h].id \in Calls
  PROVE  Awaited(h) \in Entries /\ Awaited(h) # Unlocking
<1>1. \E what \in {"copied", "revealed", "authorized", "exported", "imported"} :
        Awaited(h) = <<call[h].id, what>>
  BY DEF Awaited
<1>2. QED
  BY <1>1, EntryFacts

\* The queue has passed the entry of a call and the guard is open: it is in the log.
LEMMA FlushedFacts ==
  ASSUME IInv, NEW h \in Handlers, call[h].at \in Waits, Flushed(h), ~blocked
  PROVE  Awaited(h) \in log
<1>1. /\ TypeOK /\ Arrives(Awaited(h))
  BY DEF IInv, EntriesArrive, Arrives, Waits
<1>2. \A j \in 1..Len(pending) : pending[j] # Awaited(h)
  <2>1. Awaited(h)[1] = call[h].id
    BY DEF Awaited
  <2>2. \A j \in 1..Len(pending) : pending[j] \in Range(pending)
    BY <1>1, PendingFacts
  <2>3. QED
    BY <2>1, <2>2 DEF Flushed
<1>3. QED
  BY <1>1, <1>2 DEF Arrives

-----------------------------------------------------------------------------
\* How the queue of the audit log moves.

\* A call records its entry while the guard is open: nothing that may lift the guard
\* comes after it.
LEMMA RecordFacts ==
  ASSUME TypeOK, NEW e \in Entries, e # Unlocking, pending' = Append(pending, e),
         log' = log, blocked' = blocked
  PROVE  /\ pending' \in Seq(Entries)
         /\ \A x : Arrives(x) => Arrives(x)'
         /\ Arrives(e)'
<1>1. /\ pending' \in Seq(Entries) /\ Len(pending) \in Nat
      /\ Len(pending') = Len(pending) + 1
      /\ \A i \in 1..Len(pending) : pending'[i] = pending[i]
      /\ pending'[Len(pending) + 1] = e
  BY PendingFacts, AppendProperties DEF TypeOK
<1>2. \A i \in 1..Len(pending') :
        i \in 1..Len(pending) \/ (i = Len(pending) + 1 /\ pending'[i] # Unlocking)
  BY <1>1
<1>3. \A i \in 1..Len(pending) : i \in 1..Len(pending')
  BY <1>1
<1>4. ASSUME NEW x, Arrives(x) PROVE Arrives(x)'
  <2>1. CASE x \in log
    BY <2>1 DEF Arrives
  <2>2. ASSUME NEW j \in 1..Len(pending), pending[j] = x,
               \A i \in 1..Len(pending) : pending[i] = Unlocking => i < j
        PROVE  Arrives(x)'
    <3>1. \A i \in 1..Len(pending') : pending'[i] = Unlocking => i < j
      BY <1>1, <1>2, <2>2
    <3>2. j \in 1..Len(pending') /\ pending'[j] = x
      BY <1>1, <1>3, <2>2
    <3>3. QED
      BY <3>1, <3>2 DEF Arrives
  <2>3. CASE blocked /\ \A i \in 1..Len(pending) : pending[i] # Unlocking
    BY <1>1, <1>2, <2>3 DEF Arrives
  <2>4. QED
    BY <1>4, <2>1, <2>2, <2>3 DEF Arrives
<1>5. Arrives(e)'
  <2>1. Len(pending) + 1 \in 1..Len(pending')
    BY <1>1
  <2>2. \A i \in 1..Len(pending') : pending'[i] = Unlocking => i < Len(pending) + 1
    BY <1>1, <1>2
  <2>3. QED
    BY <1>1, <2>1, <2>2 DEF Arrives
<1>6. QED
  BY <1>1, <1>4, <1>5

\* The first entry is appended, suppressed or fails.
LEMMA DequeueFacts ==
  ASSUME TypeOK, pending # <<>>, pending' = Tail(pending), log \subseteq log',
         NEW e, Arrives(e), e # Unlocking,
         \/ Head(pending) \in log' /\ (blocked => Head(pending) = Unlocking)
         \/ blocked /\ Head(pending) # Unlocking /\ blocked'
         \/ blocked' /\ (blocked => Head(pending) = Unlocking)
  PROVE  Arrives(e)'
<1>1. /\ Tail(pending) \in Seq(Entries) /\ Len(pending') = Len(pending) - 1
      /\ \A i \in 1..Len(pending') : pending'[i] = pending[i + 1]
      /\ Len(pending) \in Nat /\ Len(pending) > 0 /\ Head(pending) = pending[1]
  BY PendingFacts, HeadTailProperties, EmptySeq DEF TypeOK
<1>2. \A i \in 1..Len(pending') : i + 1 \in 1..Len(pending) /\ pending'[i] = pending[i + 1]
  BY <1>1
<1>3. CASE e \in log
  BY <1>3 DEF Arrives
<1>4. ASSUME NEW j \in 1..Len(pending), pending[j] = e,
             \A i \in 1..Len(pending) : pending[i] = Unlocking => i < j
      PROVE  Arrives(e)'
  <2>1. CASE j = 1
    <3>1. \A i \in 1..Len(pending') : pending'[i] # Unlocking
      BY <1>1, <1>2, <1>4, <2>1
    <3>2. Head(pending) = e
      BY <1>1, <1>4, <2>1
    <3>3. QED
      BY <3>1, <3>2 DEF Arrives
  <2>2. CASE j # 1
    <3>1. j - 1 \in 1..Len(pending') /\ pending'[j - 1] = e
      BY <1>1, <1>4, <2>2
    <3>2. \A i \in 1..Len(pending') : pending'[i] = Unlocking => i < j - 1
      BY <1>1, <1>2, <1>4
    <3>3. QED
      BY <3>1, <3>2 DEF Arrives
  <2>3. QED
    BY <2>1, <2>2
<1>5. CASE blocked /\ \A i \in 1..Len(pending) : pending[i] # Unlocking
  <2>1. \A i \in 1..Len(pending') : pending'[i] # Unlocking
    BY <1>2, <1>5
  <2>2. Head(pending) # Unlocking
    BY <1>1, <1>5
  <2>3. CASE blocked'
    BY <2>1, <2>3 DEF Arrives
  <2>4. CASE ~blocked'
    BY <1>5, <2>2, <2>4
  <2>5. QED
    BY <2>3, <2>4
<1>6. QED
  BY <1>3, <1>4, <1>5 DEF Arrives

-----------------------------------------------------------------------------
\* What a step does to the calls, one part of IInv at a time.

\* The files and the log, for calls as they are after a step.
LEMMA ArrivesIInv ==
  ASSUME IInv,
         \A e \in Entries \ {Unlocking} : Arrives(e) => Arrives(e)',
         \A h \in Handlers : call'[h].at \in Waits =>
           \/ Arrives(Awaited(h))'
           \/ call[h].at \in Waits /\ Awaited(h)' = Awaited(h)
  PROVE  EntriesArrive'
<1>1. SUFFICES ASSUME NEW h \in Handlers, call'[h].at \in Waits
               PROVE  Arrives(Awaited(h))'
  BY DEF EntriesArrive, Arrives, Waits
<1>2. CASE call[h].at \in Waits /\ Awaited(h)' = Awaited(h)
  <2>1. PICK e : e = Awaited(h)
    OBVIOUS
  <2>2. Arrives(e)
    BY <1>2, <2>1 DEF IInv, EntriesArrive, Arrives, Waits
  <2>3. call[h].id \in Calls
    BY <1>2, CallFacts DEF IInv, CallsApart, Waits
  <2>4. e \in Entries \ {Unlocking}
    BY <2>1, <2>3, AwaitedFacts DEF IInv
  <2>5. Arrives(e)' /\ e = Awaited(h)'
    BY <1>2, <2>1, <2>2, <2>4
  <2>6. QED
    BY <2>5 DEF Arrives
<1>3. QED
  BY <1>1, <1>2

\* A call goes on, at another stage.
LEMMA MovesIInv ==
  ASSUME IInv, TypeOK', NEW h \in Handlers, call[h].at # "idle", NEW c \in CallRecords,
         call' = [call EXCEPT ![h] = c], c.at \notin {"idle", "commit"},
         c.id = call[h].id, c.kind = call[h].kind, c.window = call[h].window,
         UNCHANGED <<keyring, calls, log, shown, imports, answer>>,
         \A e \in Entries \ {Unlocking} : Arrives(e) => Arrives(e)',
         c.at \in Waits => Arrives(Awaited(h))',
         InOrder(c),
         \/ files' = files /\ (call[h].at \in {"written", "record"} => c.at \in {"written", "record"})
         \/ /\ files' = files \cup {<<c.id, c.kind>>} /\ c.at = "written"
            /\ c.kind \in {"plain", "image"} => <<c.id, "authorized">> \in log
  PROVE  IInv'
<1>1. /\ TypeOK /\ call'[h] = c /\ \A g \in Handlers \ {h} : call'[g] = call[g]
  BY OneCall DEF IInv
<1>2. /\ call[h].id \in 1..calls /\ call[h].id \in Calls /\ answer[call[h].id] = "none"
      /\ session.at # "closed"
  BY CallFacts DEF IInv, CallsApart
<1>3. /\ session' = session /\ calls' = calls /\ log' = log /\ shown' = shown
      /\ answer' = answer /\ attempt' = attempt /\ preview' = preview /\ held' = held
      /\ imported' = imported
  BY DEF keyring, imports
<1>4. CallsApart'
  BY <1>1, <1>2, <1>3 DEF IInv, CallsApart
<1>5. EntriesArrive'
  <2>1. \A g \in Handlers \ {h} : Awaited(g)' = Awaited(g)
    BY <1>1 DEF Awaited
  <2>2. QED
    BY <1>1, <2>1, ArrivesIInv
<1>6. ExportsInOrder'
  <2>1. \A g \in Handlers : InOrder(call[g])'
    BY <1>1, <1>3 DEF IInv, ExportsInOrder, InOrder
  <2>2. ASSUME NEW n \in Calls, NEW k \in Exports, <<n, k>> \in files'
        PROVE  /\ n <= calls
               /\ \A g \in Handlers : call'[g].at # "idle" /\ call'[g].id = n =>
                    call'[g].kind = k /\ call'[g].at \in {"written", "record"}
    <3>1. CASE <<n, k>> \in files /\ n = c.id
      BY <1>1, <1>2, <2>2, <3>1 DEF IInv, ExportsInOrder, CallsApart
    <3>2. CASE <<n, k>> \in files /\ n # c.id
      BY <1>1, <2>2, <3>2 DEF IInv, ExportsInOrder
    <3>3. CASE <<n, k>> \notin files
      <4>1. n = c.id /\ k = c.kind /\ c.at = "written"
        BY <2>2, <3>3
      <4>2. QED
        BY <1>1, <1>2, <4>1, CallFacts DEF IInv, CallsApart
    <3>4. QED
      BY <3>1, <3>2, <3>3
  <2>3. QED
    BY <1>3, <2>1, <2>2 DEF ExportsInOrder, InOrder
<1>7. TokensApart'
  <2>1. ASSUME NEW g \in Handlers
        PROVE  /\ call'[g].at # "idle" =>
                    /\ preview[call'[g].id] = None
                    /\ call'[g].kind = "preview" => call'[g].window \in Windows
               /\ call'[g].at = "commit" => g # h /\ call'[g] = call[g]
    <3>1. CASE g = h
      <4>1. /\ preview[call[h].id] = None
            /\ call[h].kind = "preview" => call[h].window \in Windows
        BY DEF IInv, TokensApart
      <4>2. QED
        BY <1>1, <3>1, <4>1
    <3>2. CASE g # h
      BY <1>1, <3>2 DEF IInv, TokensApart
    <3>3. QED
      BY <3>1, <3>2
  <2>2. QED
    BY <1>3, <2>1 DEF IInv, TokensApart
<1>8. ReleasesAreRecorded'
  <2>1. ASSUME NEW n \in Calls, NEW k \in {"plain", "image"}, <<n, k>> \in files'
        PROVE  <<n, "authorized">> \in log
    <3>1. CASE <<n, k>> \in files
      BY <3>1 DEF IInv, ReleasesAreRecorded
    <3>2. CASE <<n, k>> \notin files
      BY <2>1, <3>2
    <3>3. QED
      BY <3>1, <3>2
  <2>2. QED
    BY <1>3, <2>1 DEF IInv, ReleasesAreRecorded
<1>9. AnswersTellOfFiles'
  <2>1. ASSUME NEW n \in Calls, NEW k \in Exports, <<n, k>> \in files'
        PROVE  /\ answer[n] # "failed"
               /\ answer[n] = "ok" => <<n, "exported">> \in log
    BY <1>2, <2>1 DEF IInv, AnswersTellOfFiles
  <2>2. QED
    BY <1>3, <2>1 DEF AnswersTellOfFiles
<1>10. ImportsArePreviewed'
  BY <1>3 DEF IInv, ImportsArePreviewed, Of
<1>11. QED
  BY <1>4, <1>5, <1>6, <1>7, <1>8, <1>9, <1>10 DEF IInv

-----------------------------------------------------------------------------
\* A call ends: its part of everything but the imports.
LEMMA EndsFacts ==
  ASSUME IInv, NEW h \in Handlers, call[h].at # "idle",
         NEW a \in {"ok", "failed", "committed"}, Ends(h, a),
         UNCHANGED <<session, calls, files, log>>,
         shown' = shown \/ (shown' = shown \cup {call[h].id} /\ <<call[h].id, "revealed">> \in log),
         \A e \in Entries \ {Unlocking} : Arrives(e) => Arrives(e)',
         \A n \in Calls : n > calls => preview'[n] = None,
         call[h].at \in {"written", "record"} /\ call[h].kind \in Exports =>
           a # "failed" /\ (a = "ok" => <<call[h].id, "exported">> \in log)
  PROVE  /\ call' \in [Handlers -> CallRecords] /\ call'[h] = NoCall
         /\ \A g \in Handlers \ {h} : call'[g] = call[g]
         /\ answer' \in [Calls -> {"none", "ok", "failed", "committed"}]
         /\ CallsApart' /\ EntriesArrive' /\ ExportsInOrder' /\ ReleasesAreRecorded'
         /\ AnswersTellOfFiles'
<1>1. /\ TypeOK /\ call' \in [Handlers -> CallRecords] /\ call'[h] = NoCall
      /\ \A g \in Handlers \ {h} : call'[g] = call[g]
      /\ NoCall.at = "idle" /\ NoCall.kind = None
  BY OneCall, CallFacts DEF IInv, Ends
<1>2. /\ call[h].id \in 1..calls /\ call[h].id \in Calls /\ answer[call[h].id] = "none"
      /\ session.at # "closed" /\ calls \in Nat
  <2>1. calls \in Nat
    BY BoundsAssumption DEF IInv, TypeOK
  <2>2. QED
    BY <2>1, CallFacts DEF IInv, CallsApart
<1>3. /\ answer' \in [Calls -> {"none", "ok", "failed", "committed"}]
      /\ answer'[call[h].id] = a
      /\ \A n \in Calls \ {call[h].id} : answer'[n] = answer[n]
  BY <1>1, <1>2 DEF Ends, TypeOK
<1>4. CallsApart'
  <2>1. ASSUME NEW g \in Handlers, call'[g].at # "idle"
        PROVE  /\ call'[g].id \in 1..calls /\ answer'[call'[g].id] = "none"
               /\ \A f \in Handlers : call'[f].at # "idle" /\ call'[f].id = call'[g].id => f = g
    <3>1. g # h /\ call'[g] = call[g]
      BY <1>1, <2>1
    <3>2. call[g].id # call[h].id /\ call[g].id \in Calls
      BY <2>1, <3>1, CallFacts DEF IInv, CallsApart
    <3>3. QED
      BY <1>1, <1>3, <2>1, <3>1, <3>2 DEF IInv, CallsApart
  <2>2. ASSUME NEW n \in Calls, n > calls PROVE answer'[n] = "none"
    BY <1>2, <1>3, <2>2, CallFacts DEF IInv, CallsApart
  <2>3. session' = session /\ calls' = calls
    OBVIOUS
  <2>4. ASSUME NEW g \in Handlers, call'[g].at # "idle" PROVE session.at # "closed"
    BY <1>2
  <2>5. QED
    BY <2>1, <2>2, <2>3, <2>4 DEF CallsApart
<1>5. EntriesArrive'
  <2>1. \A g \in Handlers \ {h} : Awaited(g)' = Awaited(g)
    BY <1>1 DEF Awaited
  <2>2. QED
    BY <1>1, <2>1, ArrivesIInv DEF Waits
<1>6. ExportsInOrder'
  <2>1. \A g \in Handlers : InOrder(call[g])'
    BY <1>1 DEF IInv, ExportsInOrder, InOrder
  <2>2. ASSUME NEW n \in Calls, NEW k \in Exports, <<n, k>> \in files
        PROVE  /\ n <= calls
               /\ \A g \in Handlers : call'[g].at # "idle" /\ call'[g].id = n =>
                    call'[g].kind = k /\ call'[g].at \in {"written", "record"}
    BY <1>1, <2>2 DEF IInv, ExportsInOrder
  <2>3. QED
    BY <2>1, <2>2 DEF ExportsInOrder, InOrder
<1>7. ReleasesAreRecorded'
  BY DEF IInv, ReleasesAreRecorded
<1>8. AnswersTellOfFiles'
  <2>1. ASSUME NEW n \in Calls, NEW k \in Exports, <<n, k>> \in files
        PROVE  /\ answer'[n] # "failed"
               /\ answer'[n] = "ok" => <<n, "exported">> \in log
    <3>1. CASE n = call[h].id
      <4>1. call[h].kind = k /\ call[h].at \in {"written", "record"}
        BY <2>1, <3>1 DEF IInv, ExportsInOrder
      <4>2. QED
        BY <1>3, <3>1, <4>1
    <3>2. CASE n # call[h].id
      BY <1>3, <2>1, <3>2 DEF IInv, AnswersTellOfFiles
    <3>3. QED
      BY <3>1, <3>2
  <2>2. QED
    BY <2>1 DEF AnswersTellOfFiles
<1>9. QED
  BY <1>1, <1>3, <1>4, <1>5, <1>6, <1>7, <1>8

LEMMA EndsIInv ==
  ASSUME IInv, NEW h \in Handlers, call[h].at # "idle",
         NEW a \in {"ok", "failed", "committed"}, Ends(h, a),
         UNCHANGED <<keyring, calls, files, audit, imports>>, TypeOK',
         shown' = shown \/ (shown' = shown \cup {call[h].id} /\ <<call[h].id, "revealed">> \in log),
         call[h].at \in {"written", "record"} /\ call[h].kind \in Exports =>
           a # "failed" /\ (a = "ok" => <<call[h].id, "exported">> \in log)
  PROVE  IInv'
<1>1. /\ session' = session /\ log' = log /\ pending' = pending /\ blocked' = blocked
      /\ attempt' = attempt /\ preview' = preview /\ held' = held /\ imported' = imported
  BY DEF keyring, audit, imports
<1>2. \A n \in Calls : n > calls => preview'[n] = None
  BY <1>1 DEF IInv, CallsApart
<1>3. \A e \in Entries \ {Unlocking} : Arrives(e) => Arrives(e)'
  BY <1>1 DEF Arrives
<1>4. /\ call'[h] = NoCall
      /\ \A g \in Handlers \ {h} : call'[g] = call[g]
      /\ CallsApart' /\ EntriesArrive' /\ ExportsInOrder' /\ ReleasesAreRecorded'
      /\ AnswersTellOfFiles'
  BY <1>1, <1>2, <1>3, EndsFacts
<1>5. TokensApart'
  <2>1. \A g \in Handlers : call'[g].at # "idle" => g # h /\ call'[g] = call[g]
    BY <1>4, CallFacts DEF IInv
  <2>2. QED
    BY <1>1, <2>1 DEF IInv, TokensApart
<1>6. ImportsArePreviewed'
  BY <1>1 DEF IInv, ImportsArePreviewed, Of
<1>7. QED
  BY <1>4, <1>5, <1>6 DEF IInv

-----------------------------------------------------------------------------
\* A call begins, or is refused at once.
LEMMA AdmitFacts ==
  ASSUME IInv, NEW h \in Handlers, call[h].at = "idle", session.at = "open",
         calls < scenario.calls, NEW c \in CallRecords, c.at \in {"read", "decrypt", "commit"},
         Admit(h, c), UNCHANGED <<session, audit, files, shown, preview>>
  PROVE  LET d == [c EXCEPT !.id = calls + 1, !.epoch = session.epoch]
         IN /\ d \in CallRecords /\ d.id = calls + 1 /\ d.epoch = session.epoch
            /\ d.at = c.at /\ d.kind = c.kind /\ d.window = c.window /\ d.seen = c.seen
            /\ d.token = c.token
            /\ call' \in [Handlers -> CallRecords] /\ call'[h] = d
            /\ \A g \in Handlers \ {h} : call'[g] = call[g]
            /\ calls' \in 0..MaxCalls /\ calls' = calls + 1 /\ calls + 1 \in Calls
            /\ preview[calls + 1] = None
            /\ CallsApart' /\ EntriesArrive' /\ ExportsInOrder' /\ ReleasesAreRecorded'
            /\ AnswersTellOfFiles'
<1> DEFINE d == [c EXCEPT !.id = calls + 1, !.epoch = session.epoch]
<1>1. /\ TypeOK /\ calls \in Nat /\ calls + 1 \in 0..MaxCalls /\ calls + 1 \in Calls
      /\ session.epoch \in 0..MaxEpoch
  <2>1. TypeOK /\ calls \in 0..MaxCalls /\ MaxCalls \in Nat /\ scenario.calls \in 0..MaxCalls
    BY BoundsAssumption DEF IInv, TypeOK
  <2>2. session.epoch \in 0..MaxEpoch
    BY <2>1 DEF TypeOK
  <2>3. QED
    BY <2>1, <2>2 DEF Calls
<1>2. /\ d \in CallRecords /\ d.id = calls + 1 /\ d.epoch = session.epoch
      /\ d.at = c.at /\ d.kind = c.kind /\ d.window = c.window /\ d.seen = c.seen
      /\ d.token = c.token
  <2>1. PICK n \in 0..MaxCalls : n = calls + 1
    BY <1>1
  <2>2. QED
    BY <1>1, <2>1 DEF CallRecords
<1>3. call' = [call EXCEPT ![h] = d] /\ calls' = calls + 1 /\ answer' = answer
  BY DEF Admit
<1> HIDE DEF d
<1>4. /\ call' \in [Handlers -> CallRecords] /\ call'[h] = d
      /\ \A g \in Handlers \ {h} : call'[g] = call[g]
  BY <1>1, <1>2, <1>3, OneCall
<1>5. /\ session' = session /\ log' = log /\ pending' = pending /\ blocked' = blocked
      /\ files' = files /\ shown' = shown /\ preview' = preview
  BY DEF audit
<1>6. preview[calls + 1] = None /\ answer[calls + 1] = "none"
  BY <1>1 DEF IInv, CallsApart
<1>7. CallsApart'
  <2>1. ASSUME NEW g \in Handlers, call'[g].at # "idle"
        PROVE  /\ call'[g].id \in 1..(calls + 1) /\ answer[call'[g].id] = "none"
               /\ \A f \in Handlers : call'[f].at # "idle" /\ call'[f].id = call'[g].id => f = g
    <3>1. \A f \in Handlers \ {h} : call'[f].at # "idle" =>
            call'[f] = call[f] /\ call[f].id \in 1..calls /\ call[f].id # calls + 1
      BY <1>1, <1>4 DEF IInv, CallsApart
    <3>2. CASE g = h
      BY <1>1, <1>2, <1>4, <1>6, <3>1, <3>2
    <3>3. CASE g # h
      <4>1. call[g].id \in 1..(calls + 1) /\ call'[g] = call[g] /\ call'[g].id # d.id
        BY <1>1, <1>2, <2>1, <3>1, <3>3
      <4>2. QED
        BY <1>2, <1>4, <2>1, <3>1, <3>3, <4>1 DEF IInv, CallsApart
    <3>4. QED
      BY <3>2, <3>3
  <2>2. ASSUME NEW n \in Calls, n > calls + 1 PROVE answer[n] = "none" /\ preview[n] = None
    <3>1. n > calls
      BY <1>1, <2>2, CallFacts
    <3>2. QED
      BY <3>1 DEF IInv, CallsApart
  <2>3. QED
    BY <1>3, <1>5, <2>1, <2>2 DEF CallsApart
<1>8. EntriesArrive'
  <2>1. \A g \in Handlers \ {h} : Awaited(g)' = Awaited(g)
    BY <1>4 DEF Awaited
  <2>2. \A e \in Entries \ {Unlocking} : Arrives(e) => Arrives(e)'
    BY <1>5 DEF Arrives
  <2>3. call'[h].at \notin Waits
    BY <1>2, <1>4 DEF Waits
  <2>4. QED
    BY <1>4, <2>1, <2>2, <2>3, ArrivesIInv
<1>9. ExportsInOrder'
  <2>1. \A g \in Handlers : InOrder(call[g])'
    BY <1>2, <1>4, <1>5 DEF IInv, ExportsInOrder, InOrder
  <2>2. ASSUME NEW n \in Calls, NEW k \in Exports, <<n, k>> \in files
        PROVE  /\ n <= calls + 1
               /\ \A g \in Handlers : call'[g].at # "idle" /\ call'[g].id = n =>
                    call'[g].kind = k /\ call'[g].at \in {"written", "record"}
    <3>1. n <= calls /\ n \in Nat
      BY <2>2, CallFacts, <1>1 DEF IInv, ExportsInOrder
    <3>2. n # calls + 1 /\ n <= calls + 1
      BY <1>1, <3>1
    <3>3. QED
      BY <1>2, <1>4, <2>2, <3>2 DEF IInv, ExportsInOrder
  <2>3. QED
    BY <1>3, <1>5, <2>1, <2>2 DEF ExportsInOrder, InOrder
<1>10. ReleasesAreRecorded' /\ AnswersTellOfFiles'
  BY <1>3, <1>5 DEF IInv, ReleasesAreRecorded, AnswersTellOfFiles
<1>11. QED
  BY <1>1, <1>2, <1>3, <1>4, <1>6, <1>7, <1>8, <1>9, <1>10 DEF d

LEMMA RejectFacts ==
  ASSUME IInv, calls < scenario.calls, Rejects,
         UNCHANGED <<session, audit, files, shown, preview>>
  PROVE  /\ calls' \in 0..MaxCalls /\ calls' = calls + 1 /\ call' = call
         /\ answer' \in [Calls -> {"none", "ok", "failed", "committed"}]
         /\ CallsApart' /\ EntriesArrive' /\ ExportsInOrder' /\ ReleasesAreRecorded'
         /\ AnswersTellOfFiles'
<1>1. TypeOK /\ calls \in Nat /\ calls + 1 \in 0..MaxCalls /\ calls + 1 \in Calls
  <2>1. TypeOK /\ calls \in 0..MaxCalls /\ MaxCalls \in Nat /\ scenario.calls \in 0..MaxCalls
    BY BoundsAssumption DEF IInv, TypeOK
  <2>2. QED
    BY <2>1 DEF Calls
<1>2. /\ session' = session /\ log' = log /\ pending' = pending /\ blocked' = blocked
      /\ files' = files /\ shown' = shown /\ preview' = preview
      /\ call' = call /\ calls' = calls + 1
  BY DEF audit, Rejects
<1>3. /\ answer' \in [Calls -> {"none", "ok", "failed", "committed"}]
      /\ \A n \in Calls \ {calls + 1} : answer'[n] = answer[n]
  BY <1>1 DEF Rejects, TypeOK
<1>4. \A n \in Calls : (n > calls + 1 => n > calls) /\ (n <= calls => n # calls + 1 /\ n <= calls + 1)
  BY <1>1, CallFacts
<1>5. CallsApart'
  <2>1. ASSUME NEW g \in Handlers, call[g].at # "idle"
        PROVE  call[g].id \in 1..(calls + 1) /\ answer'[call[g].id] = "none"
    <3>1. call[g].id \in 1..calls /\ call[g].id \in Calls /\ answer[call[g].id] = "none"
      BY <1>1, <2>1, CallFacts DEF IInv, CallsApart
    <3>2. QED
      BY <1>1, <1>3, <3>1
  <2>2. ASSUME NEW n \in Calls, n > calls + 1 PROVE answer'[n] = "none" /\ preview[n] = None
    BY <1>1, <1>3, <1>4, <2>2, CallFacts DEF IInv, CallsApart
  <2>3. \A g \in Handlers : call[g].at # "idle" =>
          /\ session.at # "closed"
          /\ \A f \in Handlers : call[f].at # "idle" /\ call[f].id = call[g].id => f = g
    BY DEF IInv, CallsApart
  <2>4. QED
    BY <1>2, <2>1, <2>2, <2>3 DEF CallsApart
<1>6. EntriesArrive'
  <2>1. \A g \in Handlers : Awaited(g)' = Awaited(g)
    BY <1>2 DEF Awaited
  <2>2. \A e \in Entries \ {Unlocking} : Arrives(e) => Arrives(e)'
    BY <1>2 DEF Arrives
  <2>3. QED
    BY <1>2, <2>1, <2>2, ArrivesIInv
<1>7. ExportsInOrder'
  BY <1>2, <1>4 DEF IInv, ExportsInOrder
<1>8. ReleasesAreRecorded'
  BY <1>2 DEF IInv, ReleasesAreRecorded
<1>9. AnswersTellOfFiles'
  <2>1. ASSUME NEW n \in Calls, NEW k \in Exports, <<n, k>> \in files
        PROVE  answer'[n] = answer[n]
    <3>1. n <= calls
      BY <2>1 DEF IInv, ExportsInOrder
    <3>2. QED
      BY <1>3, <1>4, <3>1
  <2>2. QED
    BY <1>2, <2>1 DEF IInv, AnswersTellOfFiles
<1>10. QED
  BY <1>1, <1>2, <1>3, <1>5, <1>6, <1>7, <1>8, <1>9

-----------------------------------------------------------------------------
\* The previews that are retained are among those there were.
LEMMA HeldFacts ==
  ASSUME IInv, preview' = preview, imported' = imported, held' \subseteq held,
         \A t \in held' : attempt'[preview[t].window] >= t
  PROVE  ImportsArePreviewed'
<1>1. \A t \in held' : t \in held /\ Of(preview[t].window) = {t}
  BY DEF IInv, ImportsArePreviewed
<1>2. ASSUME NEW t \in held' PROVE {s \in held' : preview[s].window = preview[t].window} = {t}
  BY <1>1 DEF Of
<1>3. \A i \in imported :
        /\ preview[i.token] = [window |-> i.window, epoch |-> i.epoch, seen |-> i.on]
        /\ i.token \notin held'
        /\ \A j \in imported : j.token = i.token => j = i
  BY DEF IInv, ImportsArePreviewed
<1>4. QED
  BY <1>2, <1>3 DEF ImportsArePreviewed, Of

\* A step that is no call's: what the calls wait for goes on arriving.
LEMMA ArrivesAround ==
  ASSUME IInv, call' = call, \A e \in Entries \ {Unlocking} : Arrives(e) => Arrives(e)'
  PROVE  EntriesArrive'
<1>1. \A h \in Handlers : Awaited(h)' = Awaited(h)
  BY DEF Awaited
<1>2. QED
  BY <1>1, ArrivesIInv

LEMMA AroundIInv ==
  ASSUME IInv, TypeOK', EntriesArrive',
         UNCHANGED <<call, calls, files, shown, answer, preview, imported>>, log \subseteq log',
         session'.at = "closed" => \A h \in Handlers : call[h].at = "idle",
         held' \subseteq held, \A t \in held' : attempt'[preview[t].window] >= t
  PROVE  IInv'
<1>1. CallsApart'
  BY DEF IInv, CallsApart
<1>2. ExportsInOrder'
  BY DEF IInv, ExportsInOrder
<1>3. TokensApart'
  <2>1. \A t \in held' : t <= calls /\ preview[t] # None
    BY DEF IInv, TokensApart
  <2>2. QED
    BY <2>1 DEF IInv, TokensApart
<1>4. ReleasesAreRecorded' /\ AnswersTellOfFiles'
  BY DEF IInv, ReleasesAreRecorded, AnswersTellOfFiles
<1>5. ImportsArePreviewed'
  BY HeldFacts
<1>6. QED
  BY <1>1, <1>2, <1>3, <1>4, <1>5 DEF IInv

-----------------------------------------------------------------------------
LEMMA InitIInv == Init => IInv
<1> SUFFICES ASSUME Init PROVE IInv
  OBVIOUS
<1>1. /\ <<>> \in Seq(Entries) /\ Len(<<>>) = 0
  BY EmptySeq
<1>2. /\ MaxCalls \in Nat \ {0} /\ MaxEpoch \in Nat \ {0} /\ MaxRevision \in Nat \ {0}
      /\ MaxFaults \in Nat /\ MaxCrashes \in Nat
  BY BoundsAssumption
<1>3. NoCall \in CallRecords /\ NoCall.at = "idle"
  BY <1>2 DEF NoCall, CallRecords, Stages
<1>4. TypeOK
  <2>1. pending \in Seq(Entries) /\ log \subseteq Entries
    BY <1>1 DEF Init
  <2>2. call \in [Handlers -> CallRecords]
    BY <1>3 DEF Init
  <2>3. /\ session \in [at : {"open", "closing", "closed"}, epoch : 0..MaxEpoch]
        /\ revision \in 1..MaxRevision /\ calls \in 0..MaxCalls
        /\ faults \in 0..MaxFaults /\ crashes \in 0..MaxCrashes
    BY <1>2 DEF Init
  <2>4. /\ attempt \in [Windows -> 0..MaxCalls] /\ timers \in [Values -> Nat]
        /\ preview \in [Calls -> Previews \cup {None}]
        /\ answer \in [Calls -> {"none", "ok", "failed", "committed"}]
    BY <1>2 DEF Init
  <2>5. /\ scenario \in Scenarios /\ blocked \in BOOLEAN /\ alarm \in BOOLEAN
        /\ clip \in Values \cup Users \cup {Nothing}
        /\ files \subseteq Calls \X Exports /\ shown \subseteq Calls /\ held \subseteq Calls
        /\ imported \subseteq [token : Calls, window : Windows, epoch : 0..MaxEpoch,
                               on : 1..MaxRevision]
    BY DEF Init
  <2>6. QED
    BY <2>1, <2>2, <2>3, <2>4, <2>5 DEF TypeOK, CallRecords
<1>5. \A h \in Handlers : call[h].at = "idle"
  BY <1>3 DEF Init
<1>6. CallsApart /\ EntriesArrive /\ ExportsInOrder /\ TokensApart
  BY <1>5 DEF Init, CallsApart, EntriesArrive, ExportsInOrder, TokensApart
<1>7. ReleasesAreRecorded /\ AnswersTellOfFiles /\ ImportsArePreviewed
  BY DEF Init, ReleasesAreRecorded, AnswersTellOfFiles, ImportsArePreviewed
<1>8. QED
  BY <1>4, <1>6, <1>7 DEF IInv

-----------------------------------------------------------------------------
\* The stages of a call.

\* Stages that wait for no entry.
LEMMA PlainMoveIInv ==
  ASSUME IInv, NEW h \in Handlers, call[h].at # "idle", NEW c \in CallRecords,
         call' = [call EXCEPT ![h] = c], c.at \notin {"idle", "commit"} \cup Waits,
         c.id = call[h].id, c.kind = call[h].kind, c.window = call[h].window,
         UNCHANGED <<keyring, calls, audit, clip, timers, shown, imports, answer, limits>>,
         InOrder(c),
         \/ files' = files /\ call[h].at \notin {"written", "record"}
         \/ /\ files' = files \cup {<<c.id, c.kind>>} /\ c.at = "written" /\ c.kind \in Exports
  PROVE  IInv'
<1>1. /\ TypeOK /\ call' \in [Handlers -> CallRecords] /\ call[h].id \in Calls
      /\ log' = log /\ pending' = pending /\ blocked' = blocked
  BY OneCall, CallFacts DEF IInv, CallsApart, audit
<1>2. files' \subseteq Calls \X Exports
  BY <1>1 DEF TypeOK
<1>3. TypeOK'
  BY <1>1, <1>2 DEF TypeOK, CallRecords, keyring, audit, imports, limits
<1>4. \A e \in Entries \ {Unlocking} : Arrives(e) => Arrives(e)'
  BY <1>1 DEF Arrives
<1>5. c.at = "written" /\ c.kind \in {"plain", "image"} => <<c.id, "authorized">> \in log
  BY DEF InOrder
<1>6. QED
  BY <1>1, <1>3, <1>4, <1>5, MovesIInv

\* A call asks for an entry and waits for it.
LEMMA RecordMoveIInv ==
  ASSUME IInv, NEW h \in Handlers, call[h].at # "idle", NEW stage \in Waits,
         Moves(h, stage), NEW what \in {"copied", "revealed", "authorized", "exported"},
         Records(h, what), clip' \in Values \cup Users \cup {Nothing},
         what = CASE stage = "authorize"    -> "authorized"
                  [] call[h].kind = "copy"   -> "copied"
                  [] call[h].kind = "reveal" -> "revealed"
                  [] OTHER                   -> "exported",
         UNCHANGED <<keyring, calls, timers, files, shown, imports, limits>>,
         InOrder([call[h] EXCEPT !.at = stage]),
         call[h].at \in {"written", "record"} => stage = "record"
  PROVE  IInv'
<1> DEFINE c == [call[h] EXCEPT !.at = stage]
<1>1. /\ c \in CallRecords /\ c.at = stage /\ c.id = call[h].id /\ c.kind = call[h].kind
      /\ c.window = call[h].window
  BY CallFacts DEF IInv, CallRecords, Stages, Waits
<1>2. call' = [call EXCEPT ![h] = c] /\ answer' = answer
  BY DEF Moves
<1>3. PICK e \in Entries : e = <<call[h].id, what>> /\ e # Unlocking
  BY CallFacts, EntryFacts DEF IInv, CallsApart
<1>4. pending' = Append(pending, e) /\ log' = log /\ blocked' = blocked /\ alarm' = alarm
  BY <1>3 DEF Records
<1> HIDE DEF c
<1>5. /\ pending' \in Seq(Entries)
      /\ \A x : Arrives(x) => Arrives(x)'
      /\ Arrives(e)'
  BY <1>3, <1>4, RecordFacts DEF IInv
<1>6. /\ TypeOK /\ call' \in [Handlers -> CallRecords] /\ call'[h] = c
  BY <1>1, <1>2, OneCall DEF IInv
<1>7. Awaited(h)' = e
  BY <1>1, <1>3, <1>6 DEF Awaited, Waits
<1>8. TypeOK'
  BY <1>2, <1>4, <1>5, <1>6 DEF TypeOK, CallRecords, keyring, imports, limits
<1>9. Arrives(Awaited(h))'
  BY <1>5, <1>7 DEF Arrives
<1>10. InOrder(c) /\ c.at \notin {"idle", "commit"}
  BY <1>1 DEF c, Waits
<1>11. QED
  BY <1>1, <1>2, <1>4, <1>5, <1>8, <1>9, <1>10, MovesIInv DEF Waits

\* A call that ends beside the imports.
LEMMA PlainEndIInv ==
  ASSUME IInv, NEW h \in Handlers, call[h].at # "idle",
         NEW a \in {"ok", "failed", "committed"}, Ends(h, a),
         UNCHANGED <<keyring, calls, files, audit, imports, scenario, crashes>>,
         clip' \in Values \cup Users \cup {Nothing}, timers' \in [Values -> Nat],
         faults' \in 0..MaxFaults,
         shown' = shown \/ (shown' = shown \cup {call[h].id} /\ <<call[h].id, "revealed">> \in log),
         call[h].at \in {"written", "record"} /\ call[h].kind \in Exports =>
           a # "failed" /\ (a = "ok" => <<call[h].id, "exported">> \in log)
  PROVE  IInv'
<1>1. /\ TypeOK /\ call[h].id \in Calls /\ NoCall \in CallRecords
  BY CallFacts DEF IInv, CallsApart
<1>2. /\ call' \in [Handlers -> CallRecords]
      /\ answer' \in [Calls -> {"none", "ok", "failed", "committed"}]
  BY <1>1, OneCall DEF Ends, TypeOK
<1>3. shown' \subseteq Calls
  BY <1>1 DEF TypeOK
<1>4. TypeOK'
  BY <1>1, <1>2, <1>3 DEF TypeOK, CallRecords, keyring, audit, imports
<1>5. QED
  BY <1>4, EndsIInv

-----------------------------------------------------------------------------
\* The operations of a call.

LEMMA ReadIInv == ASSUME IInv, NEW h \in Handlers, Read(h) PROVE IInv'
<1>1. PICK stage \in {"dialog", "pin", "ready"} :
        /\ call' = [call EXCEPT ![h].at = stage, ![h].seen = revision]
        /\ stage = "dialog" => call[h].kind \in Exports
  BY DEF Read
<1>2. PICK c : c = [call[h] EXCEPT !.at = stage, !.seen = revision]
  OBVIOUS
<1>3. revision \in 0..MaxRevision
  BY BoundsAssumption DEF IInv, TypeOK
<1>4. call[h] \in CallRecords
  BY CallFacts DEF IInv
<1>5. /\ c \in CallRecords /\ c.at = stage /\ c.id = call[h].id /\ c.kind = call[h].kind
      /\ c.window = call[h].window
  BY <1>2, <1>3, <1>4 DEF CallRecords, Stages
<1>6. call' = [call EXCEPT ![h] = c]
  BY <1>1, <1>2, <1>4 DEF IInv, TypeOK, CallRecords
<1>7. InOrder(c)
  BY <1>1, <1>5 DEF InOrder
<1>8. QED
  BY <1>5, <1>6, <1>7, PlainMoveIInv DEF Read, Waits

\* A stage of a call that moves on its own.
LEMMA StageFacts ==
  ASSUME IInv, NEW h \in Handlers, NEW stage \in Stages, Moves(h, stage)
  PROVE  \E c \in CallRecords :
           /\ c = [call[h] EXCEPT !.at = stage] /\ call' = [call EXCEPT ![h] = c]
           /\ c.at = stage /\ c.id = call[h].id /\ c.kind = call[h].kind
           /\ c.window = call[h].window
<1>1. call[h] \in CallRecords
  BY CallFacts DEF IInv
<1>2. PICK c : c = [call[h] EXCEPT !.at = stage]
  OBVIOUS
<1>3. /\ c \in CallRecords /\ c.at = stage /\ c.id = call[h].id /\ c.kind = call[h].kind
      /\ c.window = call[h].window
  BY <1>1, <1>2 DEF CallRecords
<1>4. call' = [call EXCEPT ![h] = c]
  BY <1>2 DEF Moves
<1>5. QED
  BY <1>2, <1>3, <1>4

LEMMA RightPinIInv == ASSUME IInv, NEW h \in Handlers, RightPin(h) PROVE IInv'
<1>1. "ready" \in Stages
  BY DEF Stages
<1>2. PICK c \in CallRecords :
        /\ call' = [call EXCEPT ![h] = c] /\ c.at = "ready" /\ c.id = call[h].id
        /\ c.kind = call[h].kind /\ c.window = call[h].window
  BY <1>1, StageFacts DEF RightPin
<1>3. InOrder(c)
  BY <1>2 DEF InOrder
<1>4. QED
  BY <1>2, <1>3, PlainMoveIInv DEF RightPin, Moves, Waits

LEMMA DecryptIInv == ASSUME IInv, NEW h \in Handlers, Decrypt(h) PROVE IInv'
<1>1. "read" \in Stages
  BY DEF Stages
<1>2. PICK c \in CallRecords :
        /\ call' = [call EXCEPT ![h] = c] /\ c.at = "read" /\ c.id = call[h].id
        /\ c.kind = call[h].kind /\ c.window = call[h].window
  BY <1>1, StageFacts DEF Decrypt
<1>3. InOrder(c)
  BY <1>2 DEF InOrder
<1>4. QED
  BY <1>2, <1>3, PlainMoveIInv DEF Decrypt, Moves, Waits

LEMMA GiveUpIInv == ASSUME IInv, NEW h \in Handlers, GiveUp(h) PROVE IInv'
<1>1. /\ call[h].at \notin {"idle", "written", "record"} /\ Ends(h, "failed")
      /\ UNCHANGED <<keyring, calls, files, audit, imports, scenario, crashes, shown>>
      /\ clip' = clip /\ timers' = timers /\ faults' = faults
  BY DEF GiveUp, limits
<1>2. /\ clip \in Values \cup Users \cup {Nothing} /\ timers \in [Values -> Nat]
      /\ faults \in 0..MaxFaults
  BY DEF IInv, TypeOK
<1>3. QED
  BY <1>1, <1>2, PlainEndIInv

LEMMA CopyIInv == ASSUME IInv, NEW h \in Handlers, Copy(h) PROVE IInv'
<1>1. /\ call[h] \in CallRecords /\ clip \in Values \cup Users \cup {Nothing}
      /\ timers \in [Values -> Nat] /\ faults \in 0..MaxFaults
  BY CallFacts DEF IInv, TypeOK
<1>2. call[h].value \in Values \cup {Nothing}
  BY <1>1 DEF CallRecords
<1>3. /\ call[h].at = "ready" /\ call[h].kind = "copy"
      /\ UNCHANGED <<keyring, calls, timers, files, shown, imports, limits>>
  BY DEF Copy
<1>4. CASE Records(h, "copied") /\ clip' = call[h].value /\ Moves(h, "record")
  <2>1. InOrder([call[h] EXCEPT !.at = "record"])
    BY <1>1, <1>3 DEF InOrder, CallRecords
  <2>2. QED
    BY <1>2, <1>3, <1>4, <2>1, RecordMoveIInv DEF Waits
<1>5. CASE clip' = Nothing /\ Ends(h, "failed") /\ UNCHANGED audit
  BY <1>1, <1>3, <1>5, PlainEndIInv DEF limits
<1>6. QED
  BY <1>4, <1>5 DEF Copy

LEMMA CopySucceedsIInv == ASSUME IInv, NEW h \in Handlers, CopySucceeds(h) PROVE IInv'
<1>1. /\ clip \in Values \cup Users \cup {Nothing} /\ timers \in [Values -> Nat]
      /\ faults \in 0..MaxFaults
  BY DEF IInv, TypeOK
<1>2. /\ call[h].at = "record" /\ call[h].kind = "copy" /\ Ends(h, "ok")
      /\ timers' = [v \in Values |-> IF v = call[h].value THEN timers[v] + 1 ELSE timers[v]]
      /\ UNCHANGED <<keyring, calls, audit, clip, files, shown, imports, limits>>
  BY DEF CopySucceeds
<1>3. timers' \in [Values -> Nat]
  BY <1>1, <1>2
<1>4. QED
  BY <1>1, <1>2, <1>3, PlainEndIInv DEF Exports, limits

LEMMA CopyFailsIInv == ASSUME IInv, NEW h \in Handlers, CopyFails(h) PROVE IInv'
<1>1. /\ clip \in Values \cup Users \cup {Nothing} /\ timers \in [Values -> Nat]
      /\ faults \in 0..MaxFaults
  BY DEF IInv, TypeOK
<1>2. /\ call[h].at = "record" /\ call[h].kind = "copy" /\ Ends(h, "failed")
      /\ clip' \in {Nothing, clip}
      /\ UNCHANGED <<keyring, calls, audit, timers, files, shown, imports, limits>>
  BY DEF CopyFails
<1>3. QED
  BY <1>1, <1>2, PlainEndIInv DEF Exports, limits

LEMMA RevealIInv == ASSUME IInv, NEW h \in Handlers, Reveal(h) PROVE IInv'
<1>1. call[h] \in CallRecords /\ clip \in Values \cup Users \cup {Nothing}
  BY CallFacts DEF IInv, TypeOK
<1>2. /\ call[h].at = "ready" /\ call[h].kind = "reveal" /\ clip' = clip
      /\ Records(h, "revealed") /\ Moves(h, "record")
      /\ UNCHANGED <<keyring, calls, timers, files, shown, imports, limits>>
  BY DEF Reveal
<1>3. InOrder([call[h] EXCEPT !.at = "record"])
  BY <1>1, <1>2 DEF InOrder, CallRecords
<1>4. QED
  BY <1>1, <1>2, <1>3, RecordMoveIInv DEF Waits

LEMMA RevealAnswersIInv == ASSUME IInv, NEW h \in Handlers, RevealAnswers(h) PROVE IInv'
<1>1. /\ clip \in Values \cup Users \cup {Nothing} /\ timers \in [Values -> Nat]
      /\ faults \in 0..MaxFaults
  BY DEF IInv, TypeOK
<1>2. /\ call[h].at = "record" /\ call[h].kind = "reveal"
      /\ UNCHANGED <<keyring, calls, audit, clip, timers, files, imports, limits>>
  BY DEF RevealAnswers
<1>3. CASE Kept(h) /\ Ends(h, "ok") /\ shown' = shown \cup {call[h].id}
  <2>1. Awaited(h) \in log
    BY <1>2, <1>3, FlushedFacts DEF RevealAnswers, Kept, Waits
  <2>2. <<call[h].id, "revealed">> \in log
    BY <1>2, <2>1 DEF Awaited
  <2>3. QED
    BY <1>1, <1>2, <1>3, <2>2, PlainEndIInv DEF Exports, limits
<1>4. CASE Ends(h, "failed") /\ UNCHANGED shown
  BY <1>1, <1>2, <1>4, PlainEndIInv DEF Exports, limits
<1>5. QED
  BY <1>3, <1>4 DEF RevealAnswers
LEMMA ChooseIInv == ASSUME IInv, NEW h \in Handlers, Choose(h) PROVE IInv'
<1>1. /\ call[h] \in CallRecords /\ clip \in Values \cup Users \cup {Nothing}
  BY CallFacts DEF IInv, TypeOK
<1>2. /\ call[h].at = "dialog" /\ call[h].kind \in Exports
      /\ UNCHANGED <<keyring, calls, clip, timers, files, shown, imports, limits>>
  BY DEF Choose, IInv, ExportsInOrder
<1>3. CASE call[h].kind = "sealed" /\ Moves(h, "write") /\ UNCHANGED audit
  <2>1. "write" \in Stages
    BY DEF Stages
  <2>2. PICK c \in CallRecords :
          /\ call' = [call EXCEPT ![h] = c] /\ c.at = "write" /\ c.id = call[h].id
          /\ c.kind = call[h].kind /\ c.window = call[h].window
    BY <1>3, <2>1, StageFacts
  <2>3. InOrder(c)
    BY <1>2, <1>3, <2>2 DEF InOrder
  <2>4. QED
    BY <1>2, <1>3, <2>2, <2>3, PlainMoveIInv DEF Moves, Waits
<1>4. CASE call[h].kind # "sealed" /\ Records(h, "authorized") /\ Moves(h, "authorize")
  <2>1. InOrder([call[h] EXCEPT !.at = "authorize"])
    BY <1>1, <1>2, <1>4 DEF InOrder, CallRecords, Exports
  <2>2. "authorize" \in Waits /\ call[h].at # "idle" /\ clip' \in Values \cup Users \cup {Nothing}
    BY <1>1, <1>2 DEF Waits
  <2>3. "authorized" = CASE "authorize" = "authorize"  -> "authorized"
                         [] call[h].kind = "copy"   -> "copied"
                         [] call[h].kind = "reveal" -> "revealed"
                         [] OTHER                   -> "exported"
    BY <1>2 DEF Exports
  <2>4. QED
    BY <1>2, <1>4, <2>1, <2>2, <2>3, RecordMoveIInv
<1>5. QED
  BY <1>3, <1>4 DEF Choose

LEMMA AuthorizedIInv == ASSUME IInv, NEW h \in Handlers, Authorized(h) PROVE IInv'
<1>1. /\ clip \in Values \cup Users \cup {Nothing} /\ timers \in [Values -> Nat]
      /\ faults \in 0..MaxFaults
  BY DEF IInv, TypeOK
<1>2. /\ call[h].at = "authorize" /\ call[h].kind \in {"plain", "image"}
      /\ UNCHANGED <<keyring, calls, audit, clip, timers, files, shown, imports, limits>>
  BY DEF Authorized, IInv, ExportsInOrder
<1>3. CASE Kept(h) /\ Moves(h, "write")
  <2>1. Awaited(h) \in log
    BY <1>2, <1>3, FlushedFacts DEF Authorized, Kept, Waits
  <2>2. <<call[h].id, "authorized">> \in log
    BY <1>2, <2>1 DEF Awaited
  <2>3. "write" \in Stages
    BY DEF Stages
  <2>4. PICK c \in CallRecords :
          /\ call' = [call EXCEPT ![h] = c] /\ c.at = "write" /\ c.id = call[h].id
          /\ c.kind = call[h].kind /\ c.window = call[h].window
    BY <1>3, <2>3, StageFacts
  <2>5. InOrder(c)
    BY <1>2, <2>2, <2>4 DEF InOrder, Exports
  <2>6. QED
    BY <1>2, <1>3, <2>4, <2>5, PlainMoveIInv DEF Moves, Waits
<1>4. CASE Ends(h, "failed")
  BY <1>1, <1>2, <1>4, PlainEndIInv DEF limits
<1>5. QED
  BY <1>3, <1>4 DEF Authorized

LEMMA BeforeCommitIInv == ASSUME IInv, NEW h \in Handlers, BeforeCommit(h) PROVE IInv'
<1>1. /\ clip \in Values \cup Users \cup {Nothing} /\ timers \in [Values -> Nat]
      /\ faults \in 0..MaxFaults
  BY DEF IInv, TypeOK
<1>2. /\ call[h].at = "write" /\ InOrder(call[h])
      /\ UNCHANGED <<keyring, calls, audit, clip, timers, files, shown, imports, limits>>
  BY DEF BeforeCommit, IInv, ExportsInOrder, InOrder
<1>3. CASE Moves(h, "rename")
  <2>1. "rename" \in Stages
    BY DEF Stages
  <2>2. PICK c \in CallRecords :
          /\ call' = [call EXCEPT ![h] = c] /\ c.at = "rename" /\ c.id = call[h].id
          /\ c.kind = call[h].kind /\ c.window = call[h].window
    BY <1>3, <2>1, StageFacts
  <2>3. InOrder(c)
    BY <1>2, <2>2 DEF InOrder
  <2>4. QED
    BY <1>2, <1>3, <2>2, <2>3, PlainMoveIInv DEF Moves, Waits
<1>4. CASE Ends(h, "failed")
  BY <1>1, <1>2, <1>4, PlainEndIInv DEF limits
<1>5. QED
  BY <1>3, <1>4 DEF BeforeCommit

LEMMA RenameIInv == ASSUME IInv, NEW h \in Handlers, Rename(h) PROVE IInv'
<1>1. /\ call[h].at = "rename" /\ InOrder(call[h]) /\ Moves(h, "written")
      /\ files' = files \cup {<<call[h].id, call[h].kind>>}
      /\ UNCHANGED <<keyring, calls, audit, clip, timers, shown, imports, limits>>
  BY DEF Rename, IInv, ExportsInOrder, InOrder
<1>2. "written" \in Stages
  BY DEF Stages
<1>3. PICK c \in CallRecords :
        /\ call' = [call EXCEPT ![h] = c] /\ c.at = "written" /\ c.id = call[h].id
        /\ c.kind = call[h].kind /\ c.window = call[h].window
  BY <1>1, <1>2, StageFacts
<1>4. InOrder(c) /\ c.kind \in Exports
  BY <1>1, <1>3 DEF InOrder
<1>5. QED
  BY <1>1, <1>3, <1>4, PlainMoveIInv DEF Moves, Waits

LEMMA WriteFailsIInv == ASSUME IInv, NEW h \in Handlers, WriteFails(h) PROVE IInv'
<1>1. /\ clip \in Values \cup Users \cup {Nothing} /\ timers \in [Values -> Nat]
      /\ faults \in 0..MaxFaults /\ scenario.faults \in 0..MaxFaults /\ MaxFaults \in Nat
  BY BoundsAssumption DEF IInv, TypeOK
<1>2. /\ call[h].at \in {"write", "rename"} /\ Ends(h, "failed")
      /\ faults < scenario.faults /\ faults' = faults + 1
      /\ UNCHANGED <<keyring, calls, audit, clip, timers, files, shown, imports, scenario,
                     crashes>>
  BY DEF WriteFails, Fault
<1>3. faults' \in 0..MaxFaults
  BY <1>1, <1>2
<1>4. QED
  BY <1>1, <1>2, <1>3, PlainEndIInv

LEMMA WrittenIInv == ASSUME IInv, NEW h \in Handlers, Written(h) PROVE IInv'
<1>1. /\ clip \in Values \cup Users \cup {Nothing} /\ timers \in [Values -> Nat]
      /\ faults \in 0..MaxFaults /\ call[h] \in CallRecords
  BY CallFacts DEF IInv, TypeOK
<1>2. /\ call[h].at = "written" /\ call[h].kind \in Exports /\ InOrder(call[h])
      /\ UNCHANGED <<keyring, calls, clip, timers, files, shown, imports, limits>>
  BY DEF Written, IInv, ExportsInOrder, InOrder
<1>3. CASE Records(h, "exported") /\ Moves(h, "record")
  <2>1. InOrder([call[h] EXCEPT !.at = "record"])
    BY <1>1, <1>2 DEF InOrder, CallRecords
  <2>2. QED
    BY <1>1, <1>2, <1>3, <2>1, RecordMoveIInv DEF Waits, Exports
<1>4. CASE Ends(h, "committed") /\ UNCHANGED audit
  BY <1>1, <1>2, <1>4, PlainEndIInv DEF limits
<1>5. QED
  BY <1>3, <1>4 DEF Written

LEMMA ExportAnswersIInv == ASSUME IInv, NEW h \in Handlers, ExportAnswers(h) PROVE IInv'
<1>1. /\ clip \in Values \cup Users \cup {Nothing} /\ timers \in [Values -> Nat]
      /\ faults \in 0..MaxFaults
  BY DEF IInv, TypeOK
<1>2. /\ call[h].at = "record" /\ call[h].kind \in Exports /\ Flushed(h)
      /\ UNCHANGED <<keyring, calls, audit, clip, timers, files, shown, imports, limits>>
  BY DEF ExportAnswers
<1>3. CASE blocked
  BY <1>1, <1>2, <1>3, PlainEndIInv DEF ExportAnswers, limits
<1>4. CASE ~blocked
  <2>1. Awaited(h) \in log
    BY <1>2, <1>4, FlushedFacts DEF Waits
  <2>2. <<call[h].id, "exported">> \in log
    BY <1>2, <2>1 DEF Awaited, Exports
  <2>3. Ends(h, "ok")
    BY <1>4 DEF ExportAnswers
  <2>4. QED
    BY <1>1, <1>2, <2>2, <2>3, PlainEndIInv DEF limits
<1>5. QED
  BY <1>3, <1>4
-----------------------------------------------------------------------------
\* The import.

\* A preview that was spent is a preview, and no call's own.
LEMMA SpentFacts ==
  ASSUME IInv
  PROVE  \A i \in imported : i.token \in Calls /\ preview[i.token] # None
<1>1. SUFFICES ASSUME NEW i \in imported
               PROVE  i.token \in Calls /\ preview[i.token] # None
  OBVIOUS
<1>2. i \in [token : Calls, window : Windows, epoch : 0..MaxEpoch, on : 1..MaxRevision]
  BY DEF IInv, TypeOK
<1>3. preview[i.token] = [window |-> i.window, epoch |-> i.epoch, seen |-> i.on]
  BY DEF IInv, ImportsArePreviewed
<1>4. [window |-> i.window, epoch |-> i.epoch, seen |-> i.on] \in Previews
  BY <1>2 DEF Previews
<1>5. QED
  BY <1>2, <1>3, <1>4, NamesAssumption

LEMMA PreviewIInv == ASSUME IInv, NEW h \in Handlers, Preview(h) PROVE IInv'
<1>1. /\ TypeOK /\ call[h] \in CallRecords /\ clip \in Values \cup Users \cup {Nothing}
      /\ timers \in [Values -> Nat] /\ faults \in 0..MaxFaults
  BY CallFacts DEF IInv, TypeOK
<1>2. /\ call[h].at = "read" /\ call[h].kind = "preview"
      /\ UNCHANGED <<keyring, calls, audit, clip, timers, files, shown, attempt, imported, limits>>
  BY DEF Preview
<1>3. CASE Ends(h, "failed") /\ UNCHANGED <<preview, held>>
  BY <1>1, <1>2, <1>3, PlainEndIInv DEF limits, imports
<1>4. CASE attempt[call[h].window] = call[h].id /\ Ends(h, "ok")
           /\ preview' = [preview EXCEPT ![call[h].id] =
                [window |-> call[h].window, epoch |-> call[h].epoch, seen |-> revision]]
           /\ held' = (held \ Of(call[h].window)) \cup {call[h].id}
  <2>1. PICK n : n = call[h].id
    OBVIOUS
  <2>2. PICK w : w = call[h].window
    OBVIOUS
  <2>3. PICK p : p = [window |-> w, epoch |-> call[h].epoch, seen |-> revision]
    OBVIOUS
  <2>4. /\ n \in Calls /\ n \in 1..calls /\ preview[n] = None /\ w \in Windows
    BY <1>2, <2>1, <2>2, CallFacts DEF IInv, CallsApart, TokensApart
  <2>5. p \in Previews /\ p # None /\ p.window = w
    BY <1>1, <2>2, <2>3, <2>4, NamesAssumption DEF Previews, TypeOK, CallRecords
  <2>6. /\ preview' \in [Calls -> Previews \cup {None}] /\ preview'[n] = p
        /\ \A t \in Calls \ {n} : preview'[t] = preview[t]
    BY <1>1, <1>4, <2>1, <2>2, <2>3, <2>4, <2>5 DEF TypeOK
  <2>7. /\ held' = (held \ Of(w)) \cup {n} /\ attempt[w] = n /\ held \subseteq Calls
    BY <1>1, <1>4, <2>1, <2>2 DEF TypeOK
  <2>8. /\ session' = session /\ calls' = calls /\ log' = log /\ pending' = pending
        /\ blocked' = blocked /\ files' = files /\ shown' = shown /\ attempt' = attempt
        /\ imported' = imported
    BY <1>2 DEF keyring, audit
  <2>9. calls \in Nat /\ \A t \in Calls : t > calls => t # n
    BY <1>1, <2>4, CallFacts, BoundsAssumption DEF TypeOK
  <2>10. \A t \in Calls : t > calls => preview'[t] = None
    BY <2>6, <2>9 DEF IInv, CallsApart
  <2>11. \A e \in Entries \ {Unlocking} : Arrives(e) => Arrives(e)'
    BY <2>8 DEF Arrives
  <2>12. /\ call' \in [Handlers -> CallRecords] /\ call'[h] = NoCall
         /\ \A g \in Handlers \ {h} : call'[g] = call[g]
         /\ answer' \in [Calls -> {"none", "ok", "failed", "committed"}]
         /\ CallsApart' /\ EntriesArrive' /\ ExportsInOrder' /\ ReleasesAreRecorded'
         /\ AnswersTellOfFiles'
    BY <1>2, <1>4, <2>8, <2>10, <2>11, EndsFacts
  <2>13. TypeOK'
    BY <1>1, <1>2, <2>4, <2>6, <2>7, <2>12
    DEF TypeOK, CallRecords, keyring, audit, limits
  <2>14. \A g \in Handlers : call'[g].at # "idle" =>
           g # h /\ call'[g] = call[g] /\ call[g].id \in Calls /\ call[g].id # n
    BY <1>2, <2>1, <2>12, CallFacts DEF IInv, CallsApart
  <2>15. TokensApart'
    <3>1. \A t \in held' : t <= calls /\ preview'[t] # None
      BY <2>4, <2>5, <2>6, <2>7 DEF IInv, TokensApart
    <3>2. ASSUME NEW g \in Handlers, call'[g].at # "idle"
          PROVE  /\ preview'[call'[g].id] = None
                 /\ call'[g].kind = "preview" => call'[g].window \in Windows
      <4>1. /\ call'[g] = call[g] /\ call[g].at # "idle"
            /\ preview'[call[g].id] = preview[call[g].id]
        BY <2>6, <2>14, <3>2
      <4>2. QED
        BY <4>1 DEF IInv, TokensApart
    <3>3. ASSUME NEW g \in Handlers, call'[g].at = "commit"
          PROVE  /\ call'[g].token \in Calls \ held'
                 /\ preview'[call'[g].token] = preview[call[g].token]
                 /\ call'[g] = call[g]
      <4>1. call'[g] = call[g] /\ call[g].token \in Calls \ held /\ call[g].token # n
        BY <2>4, <2>14, <3>3 DEF IInv, TokensApart
      <4>2. QED
        BY <2>6, <2>7, <4>1
    <3>4. QED
      BY <2>8, <3>1, <3>2, <3>3 DEF IInv, TokensApart
  <2>16. ImportsArePreviewed'
    <3>1. ASSUME NEW t \in held'
          PROVE  /\ attempt[preview'[t].window] >= t
                 /\ {x \in held' : preview'[x].window = preview'[t].window} = {t}
      <4>1. \A x \in held : x # n
        BY <2>4 DEF IInv, TokensApart
      <4>2. \A x \in held' \ {n} :
              x \in held /\ preview'[x] = preview[x] /\ preview[x].window # w
        BY <2>6, <2>7 DEF Of
      <4>3. CASE t = n
        <5>1. n >= n
          BY <2>4, CallFacts, <1>1
        <5>2. QED
          BY <2>5, <2>6, <2>7, <4>2, <4>3, <5>1
      <4>4. CASE t # n
        <5>1. t \in held /\ preview'[t] = preview[t] /\ preview[t].window # w
          BY <4>2, <4>4
        <5>2. attempt[preview[t].window] >= t /\ Of(preview[t].window) = {t}
          BY <5>1 DEF IInv, ImportsArePreviewed
        <5>3. ASSUME NEW x \in held', preview'[x].window = preview'[t].window PROVE x = t
          <6>1. x # n
            BY <2>5, <2>6, <5>1, <5>3
          <6>2. x \in Of(preview[t].window)
            BY <4>2, <5>1, <5>3, <6>1 DEF Of
          <6>3. QED
            BY <5>2, <6>2
        <5>4. QED
          BY <5>1, <5>2, <5>3
      <4>5. QED
        BY <4>3, <4>4
    <3>2. ASSUME NEW i \in imported
          PROVE  preview'[i.token] = preview[i.token] /\ i.token \notin held'
      <4>1. i.token \in Calls /\ i.token # n /\ i.token \notin held
        BY <2>4, SpentFacts DEF IInv, ImportsArePreviewed
      <4>2. QED
        BY <2>6, <2>7, <4>1
    <3>3. QED
      BY <2>8, <3>1, <3>2 DEF IInv, ImportsArePreviewed, Of
  <2>17. QED
    BY <2>12, <2>13, <2>15, <2>16 DEF IInv
<1>5. QED
  BY <1>3, <1>4 DEF Preview

LEMMA CommitImportIInv == ASSUME IInv, NEW h \in Handlers, CommitImport(h) PROVE IInv'
<1>1. /\ TypeOK /\ call[h] \in CallRecords /\ revision \in 1..MaxRevision
      /\ scenario.revisions \in 1..MaxRevision /\ MaxRevision \in Nat
      /\ session.epoch \in 0..MaxEpoch
  BY CallFacts, BoundsAssumption DEF IInv, TypeOK
<1>2. /\ call[h].at = "commit" /\ call[h].epoch = session.epoch /\ call[h].seen = revision
      /\ revision < scenario.revisions /\ revision' = revision + 1
      /\ pending' = Append(pending, <<call[h].id, "imported">>)
      /\ log' = log /\ blocked' = blocked /\ alarm' = alarm /\ Ends(h, "ok")
      /\ UNCHANGED <<session, calls, clip, timers, files, shown, attempt, preview, held, limits>>
  BY DEF CommitImport, Fits, AssertCurrent, Records
<1>3. PICK i : i = [token |-> call[h].token, window |-> call[h].window,
                    epoch |-> session.epoch, on |-> revision]
  OBVIOUS
<1>4. imported' = imported \cup {i}
  BY <1>3 DEF CommitImport
<1>5. /\ i.token \in Calls \ held /\ preview[i.token] # None /\ i.token = call[h].token
      /\ preview[i.token] = [window |-> i.window, epoch |-> i.epoch, seen |-> i.on]
      /\ \A j \in imported : j.token # i.token
      /\ \A g \in Handlers : call[g].at = "commit" /\ call[g].token = i.token => g = h
  BY <1>2, <1>3 DEF IInv, TokensApart
<1>6. i \in [token : Calls, window : Windows, epoch : 0..MaxEpoch, on : 1..MaxRevision]
  <2>1. preview[i.token] \in Previews
    BY <1>1, <1>5 DEF TypeOK
  <2>2. i.window \in Windows
    BY <1>5, <2>1 DEF Previews
  <2>3. QED
    BY <1>1, <1>3, <1>5, <2>2
<1>7. PICK e \in Entries : e = <<call[h].id, "imported">> /\ e # Unlocking
  BY <1>2, CallFacts, EntryFacts DEF IInv, CallsApart
<1>8. pending' \in Seq(Entries) /\ \A x : Arrives(x) => Arrives(x)'
  BY <1>1, <1>2, <1>7, RecordFacts
<1>9. \A n \in Calls : n > calls => preview'[n] = None
  BY <1>2 DEF IInv, CallsApart
<1>10. /\ call' \in [Handlers -> CallRecords] /\ call'[h] = NoCall
       /\ \A g \in Handlers \ {h} : call'[g] = call[g]
       /\ answer' \in [Calls -> {"none", "ok", "failed", "committed"}]
       /\ CallsApart' /\ EntriesArrive' /\ ExportsInOrder' /\ ReleasesAreRecorded'
       /\ AnswersTellOfFiles'
  BY <1>2, <1>8, <1>9, EndsFacts
<1>11. TypeOK'
  <2>1. revision' \in 1..MaxRevision
    BY <1>1, <1>2
  <2>2. imported' \subseteq [token : Calls, window : Windows, epoch : 0..MaxEpoch,
                             on : 1..MaxRevision]
    BY <1>1, <1>4, <1>6 DEF TypeOK
  <2>3. QED
    BY <1>1, <1>2, <1>8, <1>10, <2>1, <2>2 DEF TypeOK, CallRecords, limits
<1>12. TokensApart'
  <2>1. \A g \in Handlers : call'[g].at # "idle" => g # h /\ call'[g] = call[g]
    BY <1>10, CallFacts DEF IInv
  <2>2. \A g \in Handlers : call'[g].at = "commit" => call[g].token # i.token
    BY <1>5, <2>1
  <2>3. QED
    BY <1>2, <1>4, <2>1, <2>2 DEF IInv, TokensApart
<1>13. ImportsArePreviewed'
  BY <1>2, <1>4, <1>5 DEF IInv, ImportsArePreviewed, Of
<1>14. QED
  BY <1>10, <1>11, <1>12, <1>13 DEF IInv
-----------------------------------------------------------------------------
\* The beginning of a call.

\* What is retained was made by an earlier call.
LEMMA RetainedFacts ==
  ASSUME IInv
  PROVE  \A t \in held : t <= calls /\ t <= calls + 1 /\ preview[t] # None
<1>1. calls \in Nat
  BY BoundsAssumption DEF IInv, TypeOK
<1>2. \A t \in held : t \in Nat
  BY CallFacts DEF IInv, TypeOK
<1>3. \A t \in held : t <= calls /\ preview[t] # None
  BY DEF IInv, TokensApart
<1>4. QED
  BY <1>1, <1>2, <1>3

\* Tokens, for a call that is no import.
LEMMA TokensFacts ==
  ASSUME IInv, NEW h \in Handlers, NEW d, call'[h] = d,
         \A g \in Handlers \ {h} : call'[g] = call[g],
         d.at # "commit", d.kind = "preview" => d.window \in Windows,
         calls' = calls + 1, preview[d.id] = None,
         UNCHANGED <<preview, held, imported>>
  PROVE  TokensApart'
<1>1. \A t \in held : t <= calls + 1 /\ preview[t] # None
  BY RetainedFacts
<1>2. ASSUME NEW g \in Handlers, call'[g].at # "idle"
      PROVE  /\ preview[call'[g].id] = None
             /\ call'[g].kind = "preview" => call'[g].window \in Windows
  <2>1. CASE g = h
    BY <2>1
  <2>2. CASE g # h
    BY <1>2, <2>2 DEF IInv, TokensApart
  <2>3. QED
    BY <2>1, <2>2
<1>3. \A g \in Handlers : call'[g].at = "commit" => g # h /\ call'[g] = call[g]
  OBVIOUS
<1>4. QED
  BY <1>1, <1>2, <1>3 DEF IInv, TokensApart

\* A call that is refused at once keeps what is retained, or less.
LEMMA RejectIInv ==
  ASSUME IInv, calls < scenario.calls, Rejects,
         UNCHANGED <<keyring, audit, clip, timers, files, shown, preview, imported, limits>>,
         held' \subseteq held, attempt' \in [Windows -> 0..MaxCalls],
         \A t \in held' : attempt'[preview[t].window] >= t
  PROVE  IInv'
<1>1. TypeOK /\ session' = session
  BY DEF IInv, keyring
<1>2. /\ calls' \in 0..MaxCalls /\ calls' = calls + 1 /\ call' = call
      /\ answer' \in [Calls -> {"none", "ok", "failed", "committed"}]
      /\ CallsApart' /\ EntriesArrive' /\ ExportsInOrder' /\ ReleasesAreRecorded'
      /\ AnswersTellOfFiles'
  BY <1>1, RejectFacts
<1>3. TypeOK'
  BY <1>1, <1>2 DEF TypeOK, keyring, audit, limits
<1>4. TokensApart'
  <2>1. \A t \in held : t <= calls + 1 /\ preview[t] # None
    BY RetainedFacts
  <2>2. QED
    BY <1>2, <2>1 DEF IInv, TokensApart
<1>5. ImportsArePreviewed'
  BY HeldFacts
<1>6. QED
  BY <1>2, <1>3, <1>4, <1>5 DEF IInv

LEMMA BeginIInv ==
  ASSUME IInv, NEW h \in Handlers, NEW kind \in Kinds, NEW v \in Values \cup {Nothing},
         Begin(h, kind, v)
  PROVE  IInv'
<1>1. PICK c : c = [NoCall EXCEPT !.at = "read", !.kind = kind, !.value = v]
  OBVIOUS
<1>2. c \in CallRecords /\ c.at = "read" /\ c.kind = kind
  BY <1>1, CallFacts DEF IInv, CallRecords, Stages
<1>3. /\ call[h].at = "idle" /\ session.at = "open" /\ calls < scenario.calls
      /\ kind # "preview" /\ Admit(h, c)
      /\ UNCHANGED <<keyring, audit, clip, timers, files, shown, imports, limits>>
  BY <1>1 DEF Begin, MayBegin
<1>4. /\ session' = session /\ preview' = preview /\ held' = held /\ imported' = imported
      /\ attempt' = attempt
  BY <1>3 DEF keyring, imports
<1>5. PICK d : d = [c EXCEPT !.id = calls + 1, !.epoch = session.epoch]
  OBVIOUS
<1>6. /\ d \in CallRecords /\ d.id = calls + 1 /\ d.at = c.at /\ d.kind = c.kind
      /\ call' \in [Handlers -> CallRecords] /\ call'[h] = d
      /\ \A g \in Handlers \ {h} : call'[g] = call[g]
      /\ calls' \in 0..MaxCalls /\ calls' = calls + 1 /\ preview[calls + 1] = None
      /\ CallsApart' /\ EntriesArrive' /\ ExportsInOrder' /\ ReleasesAreRecorded'
      /\ AnswersTellOfFiles'
  BY <1>2, <1>3, <1>4, <1>5, AdmitFacts
<1>7. answer' = answer
  BY <1>3 DEF Admit
<1>8. TypeOK'
  BY <1>3, <1>6, <1>7 DEF IInv, TypeOK, CallRecords, keyring, audit, imports, limits
<1>9. TokensApart'
  BY <1>2, <1>3, <1>4, <1>6, TokensFacts
<1>10. ImportsArePreviewed'
  BY <1>4 DEF IInv, ImportsArePreviewed, Of
<1>11. QED
  BY <1>6, <1>8, <1>9, <1>10 DEF IInv

LEMMA BeginPreviewIInv ==
  ASSUME IInv, NEW h \in Handlers, NEW w \in Windows, BeginPreview(h, w)
  PROVE  IInv'
<1>1. /\ call[h].at = "idle" /\ calls < scenario.calls
      /\ attempt' = [attempt EXCEPT ![w] = calls + 1]
      /\ UNCHANGED <<keyring, audit, clip, timers, files, shown, preview, held, imported, limits>>
  BY DEF BeginPreview, MayBegin
<1>2. /\ TypeOK /\ calls \in Nat /\ calls + 1 \in 0..MaxCalls /\ held \subseteq Nat
  <2>1. TypeOK /\ calls \in 0..MaxCalls /\ MaxCalls \in Nat /\ scenario.calls \in 0..MaxCalls
    BY BoundsAssumption DEF IInv, TypeOK
  <2>2. held \subseteq Nat
    BY CallFacts DEF IInv, TypeOK
  <2>3. QED
    BY <1>1, <2>1, <2>2
<1>3. attempt' \in [Windows -> 0..MaxCalls]
  BY <1>1, <1>2 DEF TypeOK
<1>4. \A t \in held : attempt'[preview[t].window] >= t
  <2>1. ASSUME NEW t \in held PROVE attempt'[preview[t].window] >= t
    <3>1. t <= calls /\ attempt[preview[t].window] >= t /\ preview[t] \in Previews
      BY <1>2 DEF IInv, ImportsArePreviewed, TokensApart, TypeOK
    <3>2. preview[t].window \in Windows /\ t \in Nat
      BY <1>2, <3>1 DEF Previews
    <3>3. QED
      BY <1>1, <1>2, <3>1, <3>2 DEF TypeOK
  <2>2. QED
    BY <2>1
<1>5. CASE session.at = "open"
           /\ Admit(h, [NoCall EXCEPT !.at = "decrypt", !.kind = "preview", !.window = w])
  <2>1. PICK c : c = [NoCall EXCEPT !.at = "decrypt", !.kind = "preview", !.window = w]
    OBVIOUS
  <2>2. c \in CallRecords /\ c.at = "decrypt" /\ c.kind = "preview" /\ c.window = w
    BY <2>1, CallFacts DEF IInv, CallRecords, Stages, Kinds
  <2>3. /\ session' = session /\ preview' = preview /\ held' = held /\ imported' = imported
    BY <1>1 DEF keyring
  <2>4. PICK d : d = [c EXCEPT !.id = calls + 1, !.epoch = session.epoch]
    OBVIOUS
  <2>5. /\ d \in CallRecords /\ d.id = calls + 1 /\ d.at = c.at /\ d.kind = c.kind
        /\ d.window = c.window
        /\ call' \in [Handlers -> CallRecords] /\ call'[h] = d
        /\ \A g \in Handlers \ {h} : call'[g] = call[g]
        /\ calls' \in 0..MaxCalls /\ calls' = calls + 1 /\ preview[calls + 1] = None
        /\ CallsApart' /\ EntriesArrive' /\ ExportsInOrder' /\ ReleasesAreRecorded'
        /\ AnswersTellOfFiles'
    <3>1. Admit(h, c) /\ UNCHANGED <<session, audit, files, shown, preview>>
      BY <1>1, <1>5, <2>1, <2>3
    <3> HIDE DEF IInv
    <3>2. QED
      BY <1>1, <1>5, <2>2, <2>4, <3>1, AdmitFacts
  <2>6. answer' = answer
    BY <1>5 DEF Admit
  <2>7. TypeOK'
    BY <1>1, <1>2, <1>3, <2>5, <2>6 DEF TypeOK, CallRecords, keyring, audit, limits
  <2>8. TokensApart'
    BY <2>2, <2>3, <2>5, TokensFacts
  <2>9. ImportsArePreviewed'
    BY <1>4, <2>3, HeldFacts
  <2>10. QED
    BY <2>5, <2>7, <2>8, <2>9 DEF IInv
<1>6. CASE Rejects
  BY <1>1, <1>3, <1>4, <1>6, RejectIInv
<1>7. QED
  BY <1>5, <1>6 DEF BeginPreview

LEMMA BeginImportIInv ==
  ASSUME IInv, NEW h \in Handlers, NEW w \in Windows, NEW t \in Calls, NEW r \in 1..revision,
         BeginImport(h, w, t, r)
  PROVE  IInv'
<1>1. /\ call[h].at = "idle" /\ calls < scenario.calls /\ preview[t] # None
      /\ session.at = "open" /\ held' = held \ ({t} \cap Of(w)) /\ held' \subseteq held
      /\ UNCHANGED <<keyring, audit, clip, timers, files, shown, attempt, preview, imported, limits>>
  BY DEF BeginImport, MayBegin
<1>2. TypeOK /\ revision \in 1..MaxRevision /\ r \in 0..MaxRevision /\ t \in 0..MaxCalls
  <2>1. TypeOK /\ revision \in 1..MaxRevision /\ MaxRevision \in Nat
    BY BoundsAssumption DEF IInv, TypeOK
  <2>2. t \in 0..MaxCalls
    BY BoundsAssumption DEF Calls
  <2>3. QED
    BY <2>1, <2>2
<1>3. \A x \in held' : attempt'[preview[x].window] >= x
  BY <1>1 DEF IInv, ImportsArePreviewed
<1>4. CASE t \in Of(w) /\ preview[t].epoch = session.epoch /\ r = preview[t].seen
  <2>1. PICK c : c = [NoCall EXCEPT !.at = "commit", !.kind = "import", !.window = w,
                                    !.token = t, !.seen = r]
    OBVIOUS
  <2>2. /\ c \in CallRecords /\ c.at = "commit" /\ c.kind = "import" /\ c.window = w
        /\ c.token = t /\ c.seen = r
    BY <1>2, <2>1, CallFacts DEF CallRecords, Stages, Kinds
  <2>3. Admit(h, c)
    BY <1>4, <2>1 DEF BeginImport
  <2>4. session' = session /\ preview' = preview /\ imported' = imported
    BY <1>1 DEF keyring
  <2>5. PICK d : d = [c EXCEPT !.id = calls + 1, !.epoch = session.epoch]
    OBVIOUS
  <2>6. /\ d \in CallRecords /\ d.id = calls + 1 /\ d.epoch = session.epoch
        /\ d.at = c.at /\ d.kind = c.kind
        /\ d.window = c.window /\ d.seen = c.seen /\ d.token = c.token
        /\ call' \in [Handlers -> CallRecords] /\ call'[h] = d
        /\ \A g \in Handlers \ {h} : call'[g] = call[g]
        /\ calls' \in 0..MaxCalls /\ calls' = calls + 1 /\ preview[calls + 1] = None
        /\ CallsApart' /\ EntriesArrive' /\ ExportsInOrder' /\ ReleasesAreRecorded'
        /\ AnswersTellOfFiles'
    BY <1>1, <2>2, <2>3, <2>4, <2>5, AdmitFacts
  <2>7. answer' = answer
    BY <2>3 DEF Admit
  <2>8. held' \subseteq Calls
    BY <1>1, <1>2 DEF TypeOK
  <2>9. TypeOK'
    BY <1>1, <1>2, <2>6, <2>7, <2>8 DEF TypeOK, CallRecords, keyring, audit, limits
  <2>10. t \in held /\ t \notin held' /\ preview[t].window = w
    BY <1>1, <1>4 DEF Of
  <2>11. preview[t] = [window |-> w, epoch |-> session.epoch, seen |-> r]
    <3>1. preview[t] \in Previews
      BY <1>1, <1>2 DEF TypeOK
    <3>2. QED
      BY <1>4, <2>10, <3>1 DEF Previews
  <2>12. TokensApart'
    <3>1. \A x \in held' : x <= calls + 1 /\ preview[x] # None
      BY <1>1, RetainedFacts
    <3>2. ASSUME NEW g \in Handlers, call'[g].at # "idle"
          PROVE  /\ preview[call'[g].id] = None
                 /\ call'[g].kind = "preview" => call'[g].window \in Windows
      <4>1. CASE g = h
        BY <2>2, <2>6, <4>1
      <4>2. CASE g # h
        <5>1. call'[g] = call[g]
          BY <2>6, <4>2
        <5>2. QED
          BY <3>2, <5>1 DEF IInv, TokensApart
      <4>3. QED
        BY <4>1, <4>2
    <3>3. ASSUME NEW g \in Handlers, call'[g].at = "commit"
          PROVE  /\ call'[g].token \in Calls \ held' /\ preview[call'[g].token] # None
                 /\ preview[call'[g].token] =
                      [window |-> call'[g].window, epoch |-> call'[g].epoch,
                       seen |-> call'[g].seen]
                 /\ \A i \in imported : i.token # call'[g].token
                 /\ \A f \in Handlers :
                      call'[f].at = "commit" /\ call'[f].token = call'[g].token => f = g
      <4>1. \A f \in Handlers \ {h} : call'[f].at = "commit" =>
              call'[f] = call[f] /\ call[f].token \in Calls \ held /\ call[f].token # t
        <5>1. \A f \in Handlers : call[f].at = "commit" => call[f].token \in Calls \ held
          BY DEF IInv, TokensApart
        <5>2. QED
          BY <2>6, <2>10, <5>1
      <4>2. CASE g = h
        <5>1. call'[g].token = t /\ \A i \in imported : i.token # t
          BY <2>2, <2>6, <2>10, <4>2 DEF IInv, ImportsArePreviewed
        <5>2. QED
          BY <1>1, <2>2, <2>6, <2>10, <2>11, <4>1, <4>2, <5>1
      <4>3. CASE g # h
        <5>1. /\ call'[g] = call[g] /\ call[g].at = "commit" /\ call[g].token # t
              /\ call'[h].token = t
          BY <2>2, <2>6, <3>3, <4>1, <4>3
        <5>2. QED
          BY <1>1, <2>6, <4>1, <5>1 DEF IInv, TokensApart
      <4>4. QED
        BY <4>2, <4>3
    <3>4. QED
      BY <2>4, <2>6, <3>1, <3>2, <3>3 DEF TokensApart
  <2>13. ImportsArePreviewed'
    BY <1>1, <1>3, <2>4, HeldFacts
  <2>14. QED
    BY <2>6, <2>9, <2>12, <2>13 DEF IInv
<1>5. CASE Rejects
  <2>1. attempt' \in [Windows -> 0..MaxCalls]
    BY <1>1, <1>2 DEF TypeOK
  <2>2. QED
    BY <1>1, <1>3, <1>5, <2>1, RejectIInv
<1>6. QED
  BY <1>4, <1>5 DEF BeginImport
-----------------------------------------------------------------------------
\* What goes on around the calls.

\* Steps of the clipboard and the keyring, and commits of other commands.
LEMMA KeyringIInv ==
  ASSUME IInv, UNCHANGED <<call, calls, pending, log, blocked, files, shown, imports, answer>>,
         session' \in [at : {"open", "closing", "closed"}, epoch : 0..MaxEpoch],
         revision' \in 1..MaxRevision, alarm' \in BOOLEAN,
         clip' \in Values \cup Users \cup {Nothing}, timers' \in [Values -> Nat],
         scenario' = scenario, faults' = faults, crashes' = crashes,
         session'.at = "closed" => \A h \in Handlers : call[h].at = "idle"
  PROVE  IInv'
<1>1. attempt' = attempt /\ preview' = preview /\ held' = held /\ imported' = imported
  BY DEF imports
<1>2. TypeOK'
  BY <1>1 DEF IInv, TypeOK
<1>3. EntriesArrive'
  BY ArrivesAround DEF Arrives
<1>4. \A t \in held' : attempt'[preview[t].window] >= t
  BY <1>1 DEF IInv, ImportsArePreviewed
<1>5. QED
  BY <1>1, <1>2, <1>3, <1>4, AroundIInv

LEMMA NowFacts ==
  ASSUME IInv
  PROVE  /\ session \in [at : {"open", "closing", "closed"}, epoch : 0..MaxEpoch]
         /\ revision \in 1..MaxRevision /\ alarm \in BOOLEAN
         /\ clip \in Values \cup Users \cup {Nothing} /\ timers \in [Values -> Nat]
         /\ session.at = "closed" => \A h \in Handlers : call[h].at = "idle"
BY DEF IInv, TypeOK, CallsApart

LEMMA BoundaryFacts ==
  ASSUME IInv, NEW at \in {"open", "closing", "closed"}, Boundary(at)
  PROVE  /\ session' \in [at : {"open", "closing", "closed"}, epoch : 0..MaxEpoch]
         /\ session'.at = at
<1>1. /\ session.epoch \in 0..MaxEpoch /\ scenario.epochs \in 0..MaxEpoch /\ MaxEpoch \in Nat
  BY BoundsAssumption DEF IInv, TypeOK
<1>2. session.epoch + 1 \in 0..MaxEpoch
  BY <1>1 DEF Boundary
<1>3. QED
  BY <1>2 DEF Boundary

LEMMA FireIInv == ASSUME IInv, NEW v \in Values, Fire(v) PROVE IInv'
<1>1. /\ timers[v] > 0 /\ timers' = [timers EXCEPT ![v] = @ - 1] /\ clip' \in {clip, Nothing}
      /\ UNCHANGED <<keyring, call, calls, audit, files, shown, imports, answer, limits>>
  BY DEF Fire
<1>2. timers[v] \in Nat
  BY NowFacts
<1>3. timers[v] - 1 \in Nat
  BY <1>1, <1>2
<1>4. timers' \in [Values -> Nat]
  BY <1>1, <1>3, NowFacts
<1>5. QED
  BY <1>1, <1>4, NowFacts, KeyringIInv DEF keyring, audit, limits

LEMMA UserCopiesIInv == ASSUME IInv, UserCopies PROVE IInv'
BY NowFacts, KeyringIInv DEF UserCopies, keyring, audit, limits

LEMMA EditIInv == ASSUME IInv, Edit PROVE IInv'
<1>1. scenario.revisions \in 1..MaxRevision /\ MaxRevision \in Nat
  BY BoundsAssumption DEF IInv, TypeOK
<1>2. revision' \in 1..MaxRevision
  BY <1>1, NowFacts DEF Edit
<1>3. QED
  BY <1>2, NowFacts, KeyringIInv DEF Edit, audit, limits

LEMMA LockIInv == ASSUME IInv, Lock PROVE IInv'
<1>1. Boundary("closing") /\ Around /\ UNCHANGED <<audit, limits>>
  BY DEF Lock
<1>2. /\ session' \in [at : {"open", "closing", "closed"}, epoch : 0..MaxEpoch]
      /\ session'.at = "closing"
  BY <1>1, BoundaryFacts
<1>3. QED
  BY <1>1, <1>2, NowFacts, KeyringIInv DEF Around, audit, limits

LEMMA RotateScopeIInv == ASSUME IInv, RotateScope PROVE IInv'
<1>1. Boundary("open") /\ Around /\ UNCHANGED <<audit, limits>>
  BY DEF RotateScope
<1>2. /\ session' \in [at : {"open", "closing", "closed"}, epoch : 0..MaxEpoch]
      /\ session'.at = "open"
  BY <1>1, BoundaryFacts
<1>3. QED
  BY <1>1, <1>2, NowFacts, KeyringIInv DEF Around, audit, limits

LEMMA LockReturnsIInv == ASSUME IInv, LockReturns PROVE IInv'
<1>1. /\ session' = [session EXCEPT !.at = "closed"]
      /\ \A h \in Handlers : call[h].at = "idle"
      /\ Around /\ UNCHANGED <<audit, limits>>
  BY DEF LockReturns
<1>2. session' \in [at : {"open", "closing", "closed"}, epoch : 0..MaxEpoch]
  BY <1>1, NowFacts
<1>3. QED
  BY <1>1, <1>2, NowFacts, KeyringIInv DEF Around, audit, limits

LEMMA GuardLocksIInv == ASSUME IInv, GuardLocks PROVE IInv'
<1>1. alarm' = FALSE /\ Around /\ UNCHANGED <<pending, log, blocked, limits>>
  BY DEF GuardLocks
<1>2. /\ session' \in [at : {"open", "closing", "closed"}, epoch : 0..MaxEpoch]
      /\ session' = session \/ session'.at = "closing"
  <2>1. CASE Boundary("closing")
    BY <2>1, BoundaryFacts
  <2>2. CASE UNCHANGED session
    BY <2>2, NowFacts
  <2>3. QED
    BY <2>1, <2>2 DEF GuardLocks
<1>3. session'.at = "closed" => \A h \in Handlers : call[h].at = "idle"
  BY <1>2, NowFacts
<1>4. QED
  BY <1>1, <1>2, <1>3, NowFacts, KeyringIInv DEF Around, limits

LEMMA UnlockIInv == ASSUME IInv, Unlock PROVE IInv'
<1>1. /\ session.at = "closed" /\ Boundary("open") /\ pending' = Append(pending, Unlocking)
      /\ UNCHANGED <<revision, call, calls, clip, timers, files, shown, imports, answer, log,
                     blocked, alarm, limits>>
  BY DEF Unlock, Around
<1>2. /\ session' \in [at : {"open", "closing", "closed"}, epoch : 0..MaxEpoch]
      /\ session'.at = "open"
  BY <1>1, BoundaryFacts
<1>3. attempt' = attempt /\ preview' = preview /\ held' = held /\ imported' = imported
  BY <1>1 DEF imports
<1>4. pending' \in Seq(Entries)
  <2>1. Unlocking \in Entries /\ pending \in Seq(Entries)
    BY DEF Entries, IInv, TypeOK
  <2>2. QED
    BY <1>1, <2>1, AppendProperties
<1>5. TypeOK'
  BY <1>1, <1>2, <1>3, <1>4 DEF IInv, TypeOK, limits
<1>6. EntriesArrive'
  BY <1>1, NowFacts DEF EntriesArrive
<1>7. \A t \in held' : attempt'[preview[t].window] >= t
  BY <1>3 DEF IInv, ImportsArePreviewed
<1>8. QED
  BY <1>1, <1>2, <1>3, <1>5, <1>6, <1>7, AroundIInv

\* A step of the audit queue.
LEMMA DequeueIInv ==
  ASSUME IInv, Around, session' = session, pending # <<>>, pending' = Tail(pending),
         log \subseteq log', log' \subseteq log \cup {Head(pending)},
         blocked' \in BOOLEAN, alarm' \in BOOLEAN, faults' \in 0..MaxFaults,
         scenario' = scenario, crashes' = crashes,
         \/ Head(pending) \in log' /\ (blocked => Head(pending) = Unlocking)
         \/ blocked /\ Head(pending) # Unlocking /\ blocked'
         \/ blocked' /\ (blocked => Head(pending) = Unlocking)
  PROVE  IInv'
<1>1. /\ attempt' = attempt /\ preview' = preview /\ held' = held /\ imported' = imported
      /\ UNCHANGED <<revision, call, calls, clip, timers, files, shown, answer>>
  BY DEF Around, imports
<1>2. TypeOK /\ pending \in Seq(Entries)
  BY DEF IInv, TypeOK
<1>3. pending' \in Seq(Entries) /\ Head(pending) \in Entries
  BY <1>2, HeadTailProperties
<1>4. TypeOK'
  BY <1>1, <1>2, <1>3 DEF TypeOK
<1>5. EntriesArrive'
  BY <1>1, <1>2, DequeueFacts, ArrivesAround
<1>6. \A t \in held' : attempt'[preview[t].window] >= t
  BY <1>1 DEF IInv, ImportsArePreviewed
<1>7. QED
  BY <1>1, <1>4, <1>5, <1>6, NowFacts, AroundIInv

LEMMA AppendEntryIInv == ASSUME IInv, AppendEntry PROVE IInv'
<1>1. /\ pending # <<>> /\ pending' = Tail(pending)
      /\ Around /\ UNCHANGED <<session, alarm, limits>>
  BY DEF AppendEntry
<1>2. /\ blocked \in BOOLEAN /\ alarm \in BOOLEAN /\ faults \in 0..MaxFaults
  BY DEF IInv, TypeOK
<1>3. CASE blocked /\ Head(pending) # Unlocking
  <2>1. log' = log /\ blocked' = blocked
    BY <1>3 DEF AppendEntry
  <2>2. QED
    BY <1>1, <1>2, <1>3, <2>1, DequeueIInv DEF limits
<1>4. CASE ~(blocked /\ Head(pending) # Unlocking)
  <2>1. log' = log \cup {Head(pending)} /\ blocked' = FALSE
    BY <1>4 DEF AppendEntry
  <2>2. QED
    BY <1>1, <1>2, <1>4, <2>1, DequeueIInv DEF limits
<1>5. QED
  BY <1>3, <1>4

LEMMA AppendFailsIInv == ASSUME IInv, AppendFails PROVE IInv'
<1>1. /\ pending # <<>> /\ pending' = Tail(pending) /\ blocked' = TRUE /\ alarm' = TRUE
      /\ (blocked => Head(pending) = Unlocking)
      /\ faults < scenario.faults /\ faults' = faults + 1 /\ UNCHANGED <<scenario, crashes>>
      /\ Around /\ UNCHANGED <<session, log>>
  BY DEF AppendFails, Fault
<1>2. faults \in 0..MaxFaults /\ scenario.faults \in 0..MaxFaults /\ MaxFaults \in Nat
  BY BoundsAssumption DEF IInv, TypeOK
<1>3. faults' \in 0..MaxFaults
  BY <1>1, <1>2
<1>4. QED
  BY <1>1, <1>3, DequeueIInv

\* A preview is dropped.
LEMMA DropIInv ==
  ASSUME IInv, held' \subseteq held, attempt' \in [Windows -> 0..MaxCalls],
         \A t \in held' : attempt'[preview[t].window] >= t,
         UNCHANGED <<keyring, call, calls, audit, clip, timers, files, shown, preview, imported,
                     answer, limits>>
  PROVE  IInv'
<1>1. /\ session' = session /\ log' = log /\ pending' = pending /\ blocked' = blocked
  BY DEF keyring, audit
<1>2. TypeOK'
  BY DEF IInv, TypeOK, keyring, audit, limits
<1>3. EntriesArrive'
  BY <1>1, ArrivesAround DEF Arrives
<1>4. QED
  BY <1>1, <1>2, <1>3, NowFacts, AroundIInv

LEMMA ForgetIInv == ASSUME IInv, NEW t \in Calls, Forget(t) PROVE IInv'
<1>1. /\ held' \subseteq held /\ attempt' = attempt
      /\ UNCHANGED <<keyring, call, calls, audit, clip, timers, files, shown, preview, imported,
                     answer, limits>>
  BY DEF Forget
<1>2. /\ attempt \in [Windows -> 0..MaxCalls]
      /\ \A x \in held' : attempt'[preview[x].window] >= x
  BY <1>1 DEF IInv, TypeOK, ImportsArePreviewed
<1>3. QED
  BY <1>1, <1>2, DropIInv

LEMMA WindowClosesIInv == ASSUME IInv, NEW w \in Windows, WindowCloses(w) PROVE IInv'
<1>1. /\ attempt' = [attempt EXCEPT ![w] = 0] /\ held' = held \ Of(w)
      /\ UNCHANGED <<keyring, call, calls, audit, clip, timers, files, shown, preview, imported,
                     answer, limits>>
  BY DEF WindowCloses
<1>2. attempt \in [Windows -> 0..MaxCalls] /\ 0 \in 0..MaxCalls
  BY BoundsAssumption DEF IInv, TypeOK
<1>3. \A t \in held' : t \in held /\ preview[t].window # w
  BY <1>1 DEF Of
<1>4. \A t \in held' : attempt'[preview[t].window] >= t
  <2>1. \A t \in held : preview[t].window \in Windows /\ attempt[preview[t].window] >= t
    <3>1. \A t \in held : preview[t] \in Previews
      BY DEF IInv, TypeOK, TokensApart
    <3>2. QED
      BY <3>1 DEF Previews, IInv, ImportsArePreviewed
  <2>2. QED
    BY <1>1, <1>2, <1>3, <2>1
<1>5. attempt' \in [Windows -> 0..MaxCalls]
  BY <1>1, <1>2
<1>6. QED
  BY <1>1, <1>4, <1>5, DropIInv

LEMMA CrashIInv == ASSUME IInv, Crash PROVE IInv'
<1>1. /\ crashes < scenario.crashes /\ crashes' = crashes + 1 /\ Boundary("closed")
      /\ call' = [h \in Handlers |-> NoCall]
      /\ pending' = <<>> /\ blocked' = FALSE /\ alarm' = FALSE
      /\ timers' = [v \in Values |-> 0]
      /\ attempt' = [w \in Windows |-> 0] /\ held' = {}
      /\ UNCHANGED <<revision, calls, log, clip, files, shown, preview, imported, answer,
                     scenario, faults>>
  BY DEF Crash
<1>2. /\ TypeOK /\ crashes \in 0..MaxCrashes /\ scenario.crashes \in 0..MaxCrashes
      /\ MaxCrashes \in Nat /\ MaxCalls \in Nat
  BY BoundsAssumption DEF IInv, TypeOK
<1>3. crashes' \in 0..MaxCrashes
  BY <1>1, <1>2
<1>4. call' \in [Handlers -> CallRecords] /\ \A h \in Handlers : call'[h].at = "idle"
  BY <1>1, <1>2, CallFacts
<1>5. pending' \in Seq(Entries) /\ 0 \in 0..MaxCalls
  BY <1>1, <1>2, EmptySeq
<1>6. session' \in [at : {"open", "closing", "closed"}, epoch : 0..MaxEpoch]
  BY <1>1, BoundaryFacts
<1>7. attempt' \in [Windows -> 0..MaxCalls] /\ timers' \in [Values -> Nat]
  BY <1>1, <1>5
<1>8. TypeOK'
  BY <1>1, <1>2, <1>3, <1>4, <1>5, <1>6, <1>7 DEF TypeOK, CallRecords
<1>9. CallsApart' /\ EntriesArrive' /\ ExportsInOrder' /\ TokensApart'
  <2>1. CallsApart'
    BY <1>1, <1>4 DEF IInv, CallsApart
  <2>2. EntriesArrive'
    BY <1>4 DEF EntriesArrive
  <2>3. ExportsInOrder'
    BY <1>1, <1>4 DEF IInv, ExportsInOrder
  <2>4. TokensApart'
    BY <1>1, <1>4 DEF TokensApart
  <2>5. QED
    BY <2>1, <2>2, <2>3, <2>4
<1>10. ReleasesAreRecorded' /\ AnswersTellOfFiles'
  BY <1>1 DEF IInv, ReleasesAreRecorded, AnswersTellOfFiles
<1>11. ImportsArePreviewed'
  BY <1>1 DEF IInv, ImportsArePreviewed
<1>12. QED
  BY <1>8, <1>9, <1>10, <1>11 DEF IInv

-----------------------------------------------------------------------------
LEMMA StepIInv == ASSUME IInv, NEW h \in Handlers, Step(h) PROVE IInv'
<1>1. CASE Proceed(h)
  BY <1>1, CopyIInv, CopySucceedsIInv, CopyFailsIInv, RevealIInv, RevealAnswersIInv,
     AuthorizedIInv, BeforeCommitIInv, RenameIInv, WrittenIInv, ExportAnswersIInv DEF Proceed
<1>2. CASE \/ \E kind \in Kinds, v \in Values \cup {Nothing} : Begin(h, kind, v)
           \/ Read(h) \/ RightPin(h) \/ GiveUp(h) \/ Choose(h) \/ WriteFails(h)
  BY <1>2, BeginIInv, ReadIInv, RightPinIInv, GiveUpIInv, ChooseIInv, WriteFailsIInv
<1>3. CASE \/ \E w \in Windows : BeginPreview(h, w)
           \/ Decrypt(h) \/ Preview(h)
           \/ \E w \in Windows, t \in Calls, r \in 1..revision : BeginImport(h, w, t, r)
           \/ CommitImport(h)
  BY <1>3, BeginPreviewIInv, DecryptIInv, PreviewIInv, BeginImportIInv, CommitImportIInv
<1>4. QED
  BY <1>1, <1>2, <1>3 DEF Step

LEMMA NextIInv == IInv /\ [Next]_vars => IInv'
<1> SUFFICES ASSUME IInv, [Next]_vars PROVE IInv'
  OBVIOUS
<1>1. CASE \E h \in Handlers : Step(h)
  BY <1>1, StepIInv
<1>2. CASE \E v \in Values : Fire(v)
  BY <1>2, FireIInv
<1>3. CASE \E t \in Calls : Forget(t) \/ Monitor(t)
  BY <1>3, ForgetIInv DEF Monitor
<1>4. CASE \E w \in Windows : WindowCloses(w)
  BY <1>4, WindowClosesIInv
<1>5. CASE UserCopies \/ Lock \/ LockReturns \/ Unlock \/ RotateScope \/ Edit
  BY <1>5, UserCopiesIInv, LockIInv, LockReturnsIInv, UnlockIInv, RotateScopeIInv, EditIInv
<1>6. CASE AppendEntry \/ AppendFails \/ GuardLocks \/ Crash
  BY <1>6, AppendEntryIInv, AppendFailsIInv, GuardLocksIInv, CrashIInv
<1>7. CASE UNCHANGED vars
  BY <1>7, NowFacts, KeyringIInv DEF vars, keyring, audit, limits
<1>8. QED
  BY <1>1, <1>2, <1>3, <1>4, <1>5, <1>6, <1>7 DEF Next

(* A revealed value and a plaintext file are on record first, an answer tells  *)
(* whether the file is there, and an import spends one preview of its session: *)
(* for any number of calls, with failures of the log, locks and crashes.       *)
THEOREM ReleaseInvariant == Spec => []IInv
<1>1. IInv /\ [Next]_vars => IInv'
  BY NextIInv
<1>2. QED
  BY <1>1, InitIInv, PTL DEF Spec

-----------------------------------------------------------------------------
LEMMA StepSparesUsers ==
  ASSUME IInv, NEW h \in Handlers, Step(h), clip \in Users
  PROVE  clip' = clip \/ Copy(h)
<1>1. clip # call[h].value
  <2>1. call[h].value \in Values \cup {Nothing}
    BY CallFacts DEF IInv, CallRecords
  <2>2. QED
    BY <2>1, NamesAssumption
<1>2. CASE Proceed(h)
  <2>1. CASE CopyFails(h)
    BY <1>1, <2>1 DEF CopyFails
  <2>2. CASE Copy(h) \/ CopySucceeds(h) \/ Reveal(h) \/ RevealAnswers(h)
    BY <2>2 DEF CopySucceeds, Reveal, RevealAnswers
  <2>3. CASE Authorized(h) \/ BeforeCommit(h) \/ Rename(h) \/ Written(h) \/ ExportAnswers(h)
    BY <2>3 DEF Authorized, BeforeCommit, Rename, Written, ExportAnswers
  <2>4. QED
    BY <1>2, <2>1, <2>2, <2>3 DEF Proceed
<1>3. CASE \/ \E kind \in Kinds, v \in Values \cup {Nothing} : Begin(h, kind, v)
           \/ Read(h) \/ RightPin(h) \/ GiveUp(h) \/ Choose(h) \/ WriteFails(h)
  BY <1>3 DEF Begin, Read, RightPin, GiveUp, Choose, WriteFails
<1>4. CASE \/ \E w \in Windows : BeginPreview(h, w)
           \/ Decrypt(h) \/ Preview(h)
           \/ \E w \in Windows, t \in Calls, r \in 1..revision : BeginImport(h, w, t, r)
           \/ CommitImport(h)
  BY <1>4 DEF BeginPreview, Decrypt, Preview, BeginImport, CommitImport
<1>5. QED
  BY <1>2, <1>3, <1>4 DEF Step

LEMMA NextSparesUsers ==
  IInv /\ [Next]_vars => (clip' # clip /\ clip \in Users => \E h \in Handlers : Copy(h))
<1> SUFFICES ASSUME IInv, [Next]_vars, clip' # clip, clip \in Users
             PROVE  \E h \in Handlers : Copy(h)
  OBVIOUS
<1>1. \A h \in Handlers : Step(h) => Copy(h)
  BY StepSparesUsers
<1>2. \A v \in Values : ~Fire(v)
  BY NamesAssumption DEF Fire
<1>3. ~(\E t \in Calls : Forget(t) \/ Monitor(t)) /\ ~(\E w \in Windows : WindowCloses(w))
  BY DEF Forget, Monitor, WindowCloses
<1>4. ~(UserCopies \/ Lock \/ LockReturns \/ Unlock \/ RotateScope \/ Edit)
  BY DEF UserCopies, Lock, LockReturns, Unlock, RotateScope, Edit, Around
<1>5. ~(AppendEntry \/ AppendFails \/ GuardLocks \/ Crash)
  BY DEF AppendEntry, AppendFails, GuardLocks, Crash, Around
<1>6. ~(UNCHANGED vars)
  BY DEF vars
<1>7. QED
  BY <1>1, <1>2, <1>3, <1>4, <1>5, <1>6 DEF Next

(* Only a copy of a secret replaces what the user copied: timers and failed   *)
(* copies compare the fingerprint of the clipboard first.                     *)
THEOREM UsersAreSpared == Spec => ClearsOnlySecrets
<1>1. IInv /\ [Next]_vars
        => [clip' # clip /\ clip \in Users => \E h \in Handlers : Copy(h)]_vars
  BY NextSparesUsers
<1>2. QED
  BY <1>1, ReleaseInvariant, PTL DEF Spec, ClearsOnlySecrets
=============================================================================
