--------------------------- MODULE MCProjectAccess ---------------------------
(* Two projects and two folders, one inside the other: one project to create *)
(* and two selections, or a selection and an export, or two projects to move. *)
EXTENDS ProjectAccess
CONSTANTS r1, f1, f2, p1, p2, va, vb
MCRenderers == {r1}
MCFolders   == {f1, f2}
MCProjects  == {p1, p2}
MCVaults    == {va, vb}
MCHome      == [p \in MCProjects |-> va]
MCInside    == {<<f2, f1>>}

From(first, grantsLeft, exportsLeft) ==
  [path |-> [p \in MCProjects |-> IF p = p1 THEN first ELSE f1],
   left |-> [grants |-> grantsLeft, exports |-> exportsLeft]]
MCStarts    == {From(NoProject, 2, 0), From(NoProject, 1, 1), From(f1, 1, 0)}
=============================================================================
