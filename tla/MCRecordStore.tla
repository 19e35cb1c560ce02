---------------------------- MODULE MCRecordStore ----------------------------
(* Small instances of RecordStore.                                            *)
EXTENDS RecordStore

CONSTANTS v1, v2, r1, r2, r3, a1, o1, o2

TwoVaults   == {v1, v2}
ThreeRecords == {r1, r2, r3}
OneAttachment == {a1}
TwoOperations == {o1, o2}
OneOperation  == {o1}
SmallVault  == {r1}
NewVault    == ThreeRecords
Documents   == {ThreeRecords, {r3, a1}}
Wider       == {{r1}, {r1, r2, r3}, {r2}}

First(format, c) ==
  [format |-> format, active |-> v1, revision |-> IF format = "collection" THEN 1 ELSE 0,
   content |-> [v \in Vaults |-> IF v = v1 THEN c ELSE None], archived |-> {},
   receipts |-> <<>>, applied |-> <<>>]

Second(c, d, archived) ==
  [First("collection", c) EXCEPT !.content[v2] = d, !.archived = archived]

From(s, b) == [store |-> s, backup |-> b]

\* A document of each old format, with a backup of the oldest; and two vaults that share
\* files, all of which are referenced, or of which one is archived.
AnyStart ==
  LET old == First("inline", {r3, a1})
  IN {From(First("inline", ThreeRecords), old), From(First("records", {r3, a1}), old),
      From(Second({r3, a1}, ThreeRecords, {}), None),
      From([Second(ThreeRecords, {r3, a1}, {v2}) EXCEPT !.revision = 2], None)}
OneStart  == {From(First("collection", ThreeRecords), None)}
NoFiles   == {}
Symmetric == Permutations(Operations)
Alike     == Permutations(Operations) \cup Permutations({r1, r2})
=============================================================================
