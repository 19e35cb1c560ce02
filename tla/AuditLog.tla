------------------------------- MODULE AuditLog -------------------------------
(***************************************************************************)
(* The audit log of audit.ts: a file of hash-chained events, an            *)
(* authenticated anchor beside it that names the durable prefix, and the   *)
(* archive files that full segments are rotated into.  Appends are         *)
(* serialized; reads (readVerifiedAuditLog) wait for the append running    *)
(* when they are called and run beside the later ones.  A step is one      *)
(* operation on one file.                                                  *)
(*                                                                         *)
(* An event is its number and the number of the event its hash covers.     *)
(* The anchor's MAC and the hashes in its segments fix their content, so a *)
(* segment is the sequence of its events.                                  *)
(***************************************************************************)
EXTENDS Naturals, Sequences, SequencesExt

CONSTANTS Appender, Readers, None,
          MaxArchives,    \* maxArchiveSegments, at least one
          MaxEvents,      \* bound: events that are appended
          MaxFaults,      \* bound: crashes and failed file operations
          Settings        \* what a behaviour may be run with

VARIABLES
  setting,   \* limit: events that fit in a segment (maxSegmentBytes); the bounds of
             \* the behaviour: the readers, the events and the faults
  active,    \* the log file: its events, and what follows the last newline
  anchor,    \* the anchor file, or None
  archive,   \* by last event: an archive file
  cache,     \* the anchor kept in memory with the files it was read from, or None
  actor,     \* what the appender and each reader are doing
  issued,    \* number of events issued
  acked,     \* history: events whose append returned
  dropped,   \* history: events retention removed
  faults

files  == <<active, anchor, archive>>
bounds == <<setting, faults>>
vars  == <<files, cache, actor, issued, acked, dropped, bounds>>

Actors == {Appender} \cup Readers

Ids     == 0..MaxEvents
Event   == [id : 1..MaxEvents, prev : Ids]
Segment == Seq(Event)
Anchor  == [archives : Seq(Segment), active : Segment, start : Ids, pending : BOOLEAN]
\* What follows the last newline: nothing, a record without it, or part of one.
Log     == [events : Segment, tail : {"", "bare", "torn"}]

Idle == [at |-> "idle", anchor |-> None, log |-> None, event |-> None, since |-> {}]

TypeOK ==
  /\ setting \in Settings
  /\ active \in Log
  /\ anchor \in Anchor \cup {None}
  /\ anchor # None => Len(anchor.archives) <= MaxArchives
  /\ archive \in [1..MaxEvents -> Segment \cup {None}]
  /\ cache \in [anchor : Anchor, active : Log, file : Anchor] \cup {None}
  /\ actor \in [Actors ->
       [at : {"idle", "open", "anchor", "pending", "truncate", "final", "archives",
              "active", "quarantine", "newline", "adopt", "cache", "place", "rotate",
              "archive", "journal", "shrink", "rotated", "append", "publish", "return"},
        anchor : Anchor \cup {None}, log : Log \cup {None},
        event : Event \cup {None}, since : SUBSET (1..MaxEvents)]]
  /\ issued \in Ids /\ faults \in 0..MaxFaults
  /\ acked \subseteq 1..issued /\ dropped \subseteq 1..issued

EmptyLog    == [events |-> <<>>, tail |-> ""]
EmptyAnchor == [archives |-> <<>>, active |-> <<>>, start |-> 0, pending |-> FALSE]
\* An archive file that was created but not written whole.
Partial     == <<>>

Init ==
  /\ setting \in Settings
  /\ active = EmptyLog /\ anchor = None
  /\ archive = [i \in 1..MaxEvents |-> None]
  /\ cache = None
  /\ actor = [a \in Actors |-> Idle]
  /\ issued = 0 /\ acked = {} /\ dropped = {} /\ faults = 0

-----------------------------------------------------------------------------
Numbers(s) == {s[i].id : i \in 1..Len(s)}

\* The hash of the last event of a segment, or the one it starts from.
LastHash(s, start) == IF s = <<>> THEN start ELSE s[Len(s)].id

\* verifyAuditChain: every event covers the hash of the one before it.
Chained(s, start) ==
  \A i \in 1..Len(s) : s[i].prev = (IF i = 1 THEN start ELSE s[i - 1].id)

Archived(a) == FlattenSeq(a.archives)
TailHash(a) == LastHash(Archived(a) \o a.active, a.start)

ArchiveName(s) == s[Len(s)].id
MatchesFile(s) == archive[ArchiveName(s)] = s

Goes(a, at)   == actor' = [actor EXCEPT ![a].at = at]
Returns(a)    == actor' = [actor EXCEPT ![a] = Idle]
Local(a)      == actor[a].anchor
Writes(a, new, at) ==
  anchor' = new /\ actor' = [actor EXCEPT ![a].anchor = new, ![a].at = at]

-----------------------------------------------------------------------------
\* Beginning

\* The next event reaches the head of the queue of appends.
BeginAppend ==
  /\ actor[Appender].at = "idle" /\ issued < setting.events
  /\ issued' = issued + 1
  /\ Goes(Appender, "open")
  /\ UNCHANGED <<files, cache, acked, dropped, bounds>>

\* A read starts when no append that it found is running any more.  The event of the
\* unlock comes before it, so there is an anchor.
Read(r) ==
  /\ actor[r].at = "idle" /\ actor[Appender].at = "idle" /\ anchor # None
  /\ actor' = [actor EXCEPT ![r].at = "anchor", ![r].since = acked]
  /\ UNCHANGED <<files, cache, issued, acked, dropped, bounds>>

CacheHolds == cache # None /\ cache.active = active /\ cache.file = anchor

\* An append takes the anchor in memory if no file changed since.
LoadAppendState ==
  /\ actor[Appender].at = "open"
  /\ actor' = [actor EXCEPT ![Appender].at = IF CacheHolds THEN "place" ELSE "anchor",
                            ![Appender].anchor = IF CacheHolds THEN cache.anchor ELSE None]
  /\ UNCHANGED <<files, cache, issued, acked, dropped, bounds>>

-----------------------------------------------------------------------------
\* Loading and verifying, for an append or a read

\* Without an anchor the log is adopted from its start.
ReadAnchor(a) ==
  /\ actor[a].at = "anchor"
  /\ LET found == IF anchor = None THEN EmptyAnchor ELSE anchor IN
     actor' = [actor EXCEPT ![a].anchor = found,
                            ![a].at = IF found.pending THEN "pending" ELSE "archives"]
  /\ UNCHANGED <<files, cache, issued, acked, dropped, bounds>>

\* The log still holds the segment that was being rotated, or nothing.
Journaled(s) == MatchesFile(s) /\ active \in {EmptyLog, [events |-> s, tail |-> ""]}

FinishPending(a) ==
  /\ actor[a].at = "pending" /\ Journaled(Local(a).active)
  /\ Goes(a, IF active = EmptyLog THEN "final" ELSE "truncate")
  /\ UNCHANGED <<files, cache, issued, acked, dropped, bounds>>

Truncate(a) ==
  /\ actor[a].at \in {"truncate", "shrink"}
  /\ active' = EmptyLog
  /\ Goes(a, IF actor[a].at = "truncate" THEN "final" ELSE "rotated")
  /\ UNCHANGED <<anchor, archive, cache, issued, acked, dropped, bounds>>

Rotated(a) == [a EXCEPT !.archives = Append(@, a.active), !.active = <<>>, !.pending = FALSE]

Excess(a)  == IF Len(a.archives) > MaxArchives THEN Len(a.archives) - MaxArchives ELSE 0
Trimmed(a) == SubSeq(a.archives, 1, Excess(a))
trimArchives(a) ==
  [a EXCEPT !.archives = SubSeq(@, Excess(a) + 1, Len(@)),
            !.start = LastHash(FlattenSeq(Trimmed(a)), @)]

\* The anchor without the oldest archives commits the rotation; their files go next.
FinalizeRotation(a) ==
  /\ actor[a].at \in {"final", "rotated"}
  /\ LET rotated == Rotated(Local(a)) IN
     /\ Writes(a, trimArchives(rotated), IF actor[a].at = "final" THEN "archives" ELSE "append")
     /\ dropped' = dropped \cup Numbers(FlattenSeq(Trimmed(rotated)))
     /\ archive' = [i \in DOMAIN archive |->
          IF \E s \in ToSet(Trimmed(rotated)) : ArchiveName(s) = i THEN None ELSE archive[i]]
  /\ UNCHANGED <<active, cache, issued, acked, bounds>>

ReadArchives(a) ==
  /\ actor[a].at = "archives"
  /\ \A s \in ToSet(Local(a).archives) : MatchesFile(s)
  /\ Goes(a, "active")
  /\ UNCHANGED <<files, cache, issued, acked, dropped, bounds>>

\* The log holds the authenticated prefix, and all that is retained is one chain.
Continues(anchored) ==
  /\ IsPrefix(anchored.active, active.events)
  /\ Chained(Archived(anchored) \o active.events, anchored.start)

ReadActive(a) ==
  /\ actor[a].at = "active" /\ Continues(Local(a))
  /\ actor' = [actor EXCEPT ![a].log = active,
       ![a].at = CASE active.tail = "torn" -> "quarantine"
                   [] active.tail = "bare" -> "newline"
                   [] active.tail = "" /\ active.events = Local(a).active /\ anchor # None -> "cache"
                   [] OTHER -> "adopt"]
  /\ UNCHANGED <<files, cache, issued, acked, dropped, bounds>>

\* The torn tail is copied aside and the log is cut where the reading found it: a
\* log that is shorter by now is filled with zeros.
QuarantineTail(a) ==
  /\ actor[a].at = "quarantine"
  /\ LET end == Len(actor[a].log.events) IN
     active' = IF Len(active.events) < end THEN [active EXCEPT !.tail = "torn"]
               ELSE [events |-> SubSeq(active.events, 1, end), tail |-> ""]
  /\ Goes(a, IF actor[a].log.events = Local(a).active /\ anchor # None THEN "cache" ELSE "adopt")
  /\ UNCHANGED <<anchor, archive, cache, issued, acked, dropped, bounds>>

EndLine(a) ==
  /\ actor[a].at = "newline"
  /\ active' = [active EXCEPT !.tail = IF @ = "torn" THEN "torn" ELSE ""]
  /\ Goes(a, "adopt")
  /\ UNCHANGED <<anchor, archive, cache, issued, acked, dropped, bounds>>

\* Mutant of Adopt: the anchor takes in the suffix and the result does not.
AdoptAnchorOnly(a) ==
  /\ actor[a].at = "adopt"
  /\ anchor' = [Local(a) EXCEPT !.active = actor[a].log.events]
  /\ Goes(a, "cache")
  /\ UNCHANGED <<active, archive, cache, issued, acked, dropped, bounds>>

\* The anchor takes in what was found after its prefix.
Adopt(a) ==
  /\ actor[a].at = "adopt"
  /\ Writes(a, [Local(a) EXCEPT !.active = actor[a].log.events], "cache")
  /\ UNCHANGED <<active, archive, cache, issued, acked, dropped, bounds>>

Found(a) == Numbers(Archived(Local(a)) \o Local(a).active)

\* The result is kept with the files as they are now; a read returns it.
CacheLoaded(a) ==
  /\ actor[a].at = "cache"
  /\ cache' = [anchor |-> Local(a), active |-> active, file |-> anchor]
  /\ IF a = Appender THEN Goes(a, "place") ELSE Returns(a)
  /\ UNCHANGED <<files, issued, acked, dropped, bounds>>

\* Verification fails: a file is not what the anchor says.
LoadFails(a) ==
  /\ \/ actor[a].at = "pending" /\ ~Journaled(Local(a).active)
     \/ actor[a].at = "archives" /\ \E s \in ToSet(Local(a).archives) : ~MatchesFile(s)
     \/ actor[a].at = "active" /\ ~Continues(Local(a))
  /\ Returns(a)
  /\ UNCHANGED <<files, cache, issued, acked, dropped, bounds>>

-----------------------------------------------------------------------------
\* Appending

Full(a) == a.active # <<>> /\ Len(a.active) + 1 > setting.limit

Place ==
  /\ actor[Appender].at = "place"
  /\ actor' = [actor EXCEPT
       ![Appender].event = [id |-> issued, prev |-> TailHash(Local(Appender))],
       ![Appender].at = IF Full(Local(Appender)) THEN "rotate" ELSE "append"]
  /\ UNCHANGED <<files, cache, issued, acked, dropped, bounds>>

\* A full segment is copied to its archive; one that is there must be the same.
Rotatable(s) == active = [events |-> s, tail |-> ""] /\ archive[ArchiveName(s)] \in {None, s}

OpenArchive ==
  LET full == Local(Appender).active IN
  /\ actor[Appender].at = "rotate" /\ Rotatable(full)
  /\ archive' = IF archive[ArchiveName(full)] = None
                THEN [archive EXCEPT ![ArchiveName(full)] = Partial] ELSE archive
  /\ Goes(Appender, IF archive[ArchiveName(full)] = None THEN "archive" ELSE "journal")
  /\ UNCHANGED <<active, anchor, cache, issued, acked, dropped, bounds>>

RotateFails ==
  /\ actor[Appender].at = "rotate" /\ ~Rotatable(Local(Appender).active)
  /\ Returns(Appender)
  /\ UNCHANGED <<files, cache, issued, acked, dropped, bounds>>

WriteArchive ==
  LET full == Local(Appender).active IN
  /\ actor[Appender].at = "archive"
  /\ archive' = [archive EXCEPT ![ArchiveName(full)] = full]
  /\ Goes(Appender, "journal")
  /\ UNCHANGED <<active, anchor, cache, issued, acked, dropped, bounds>>

\* Mutant of Journal: the log is cut without it.
JournalNothing ==
  /\ actor[Appender].at = "journal"
  /\ Goes(Appender, "shrink")
  /\ UNCHANGED <<files, cache, issued, acked, dropped, bounds>>

\* The anchor names the rotation before the log is cut.
Journal ==
  /\ actor[Appender].at = "journal"
  /\ Writes(Appender, [Local(Appender) EXCEPT !.pending = TRUE], "shrink")
  /\ UNCHANGED <<active, archive, cache, issued, acked, dropped, bounds>>

\* A line behind a torn or an unended one cannot be told from it.
WithLine(log, e) ==
  IF log.tail = "" THEN [log EXCEPT !.events = Append(@, e)] ELSE [log EXCEPT !.tail = "torn"]

AppendLine ==
  /\ actor[Appender].at = "append"
  /\ active' = WithLine(active, actor[Appender].event)
  /\ Goes(Appender, "publish")
  /\ UNCHANGED <<anchor, archive, cache, issued, acked, dropped, bounds>>

PublishAnchor ==
  /\ actor[Appender].at = "publish"
  /\ Writes(Appender, [Local(Appender) EXCEPT !.active = Append(@, actor[Appender].event)], "return")
  /\ UNCHANGED <<active, archive, cache, issued, acked, dropped, bounds>>

AppendReturns ==
  /\ actor[Appender].at = "return"
  /\ cache' = [anchor |-> Local(Appender), active |-> active, file |-> anchor]
  /\ acked' = acked \cup {actor[Appender].event.id}
  /\ Returns(Appender)
  /\ UNCHANGED <<files, issued, dropped, bounds>>

-----------------------------------------------------------------------------
\* What an append that is cut short may leave of its line.
CutShort(e) ==
  {active, [active EXCEPT !.tail = "torn"]}
    \cup {[WithLine(active, e) EXCEPT !.tail = t] : t \in {"", "bare"}}

\* A file operation fails, or the process ends: nothing of it is in place, or part
\* of the line.  An archive that was opened stays as it is.
Interrupted ==
  IF actor[Appender].at = "append" THEN active' \in CutShort(actor[Appender].event)
  ELSE UNCHANGED active

Fails(a) ==
  /\ actor[a].at # "idle" /\ faults < setting.faults
  /\ faults' = faults + 1
  /\ IF a = Appender THEN Interrupted ELSE UNCHANGED active
  /\ cache' = IF a = Appender /\ actor[a].at \in {"append", "publish", "return"}
              THEN None ELSE cache
  /\ Returns(a)
  /\ UNCHANGED <<setting, anchor, archive, issued, acked, dropped>>

Crash ==
  /\ faults < setting.faults
  /\ faults' = faults + 1
  /\ Interrupted
  /\ cache' = None
  /\ actor' = [a \in Actors |-> Idle]
  /\ UNCHANGED <<setting, anchor, archive, issued, acked, dropped>>

Load(a) ==
  \/ ReadAnchor(a) \/ FinishPending(a) \/ Truncate(a) \/ FinalizeRotation(a)
  \/ ReadArchives(a) \/ ReadActive(a) \/ QuarantineTail(a) \/ EndLine(a) \/ Adopt(a)
  \/ CacheLoaded(a) \/ LoadFails(a)

Next ==
  \/ BeginAppend \/ LoadAppendState \/ Place \/ OpenArchive \/ RotateFails \/ WriteArchive
  \/ Journal \/ AppendLine \/ PublishAnchor \/ AppendReturns \/ Crash
  \/ \E a \in Actors : Load(a) \/ Fails(a)
  \/ \E r \in setting.readers : Read(r)

Spec == Init /\ [][Next]_vars

-----------------------------------------------------------------------------
Quiet == \A a \in Actors : actor[a].at = "idle"

\* The events the anchor and the log give access to.
Kept ==
  Numbers(active.events)
    \cup (IF anchor = None THEN {} ELSE
            Numbers(Archived(anchor)) \cup (IF anchor.pending THEN Numbers(anchor.active) ELSE {}))

\* An append that returned is on disk until retention removes it, whatever is
\* interrupted afterwards.
AcknowledgedKept == acked \subseteq Kept \cup dropped

\* At rest the log verifies: no interruption makes it look tampered with.  A reader
\* beside an append can, see HashChained.
AlwaysVerifies ==
  Quiet /\ anchor # None /\ setting.readers = {} =>
    IF anchor.pending
    THEN Journaled(anchor.active)
    ELSE /\ \A s \in ToSet(anchor.archives) : MatchesFile(s)
         /\ Continues(anchor)

\* At rest the next append can rotate a full segment, unless the copy of that segment
\* was cut short before.
RotationResumes ==
  Quiet /\ anchor # None /\ ~anchor.pending /\ active.tail = "" /\ active.events # <<>> =>
    archive[ArchiveName(active.events)] \in {None, Partial, active.events}

\* What a crash or a failed write leaves is a log that loads and goes on.
IInv == TypeOK /\ AcknowledgedKept /\ AlwaysVerifies /\ RotationResumes

\* "Audit records are stored locally with a hash chain" (docs/security-architecture.md:71):
\* the records at rest form one.
HashChained ==
  Quiet /\ anchor # None /\ ~anchor.pending =>
    Chained(Archived(anchor) \o active.events, anchor.start)

\* A read that succeeds returns every event whose append had returned when it began.
ReadsAcknowledged ==
  \A r \in Readers : actor[r].at = "cache" /\ actor'[r].at = "idle" /\ faults' = faults =>
    actor[r].since \subseteq Found(r) \cup dropped
=============================================================================
