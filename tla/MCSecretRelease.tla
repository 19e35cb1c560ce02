---------------------------- MODULE MCSecretRelease ----------------------------
(* Small instances of SecretRelease: copies and reveals, exports, and       *)
(* imports, each over locks, unlocks, failing entries and a crash.          *)
EXTENDS SecretRelease, TLC

CONSTANTS h1, h2, w1, w2, v1, User

TwoHandlers == {h1, h2}
TwoWindows  == {w1, w2}
OneValue    == {v1}
TheUser     == {User}

Over(kinds, n, epochs, edits, failures, deaths) ==
  [kinds |-> kinds, calls |-> n, epochs |-> epochs, revisions |-> edits + 1,
   faults |-> failures, crashes |-> deaths]

Clipboards == Over({"copy", "reveal"}, 2, 3, 0, 1, 1)
Files      == Over(Exports, 2, 3, 1, 1, 1)
Imports    == Over({"preview", "import"}, 3, 2, 2, 0, 0)
AllScenarios == {Clipboards, Files, Imports}
===============================================================================
