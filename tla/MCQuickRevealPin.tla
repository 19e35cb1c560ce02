---------------------------- MODULE MCQuickRevealPin ----------------------------
(* Small instances of QuickRevealPin: two handlers beside resets and failures, *)
(* one handler over restarts, and the cases in which a count is lost.          *)
EXTENDS QuickRevealPin, TLC

CONSTANTS c1, c2

TwoCallers == {c1, c2}
CallerSymmetry == Permutations(TwoCallers)

Bounds(who, begins, clears, failures, deaths) ==
  [callers |-> who, checks |-> begins, resets |-> clears, faults |-> failures,
   restarts |-> deaths]

Beside   == Bounds(TwoCallers, 5, 2, 2, 0)
Restarts == {Bounds({c}, 6, 1, 0, 3) : c \in TwoCallers}

BesideAndRestarts == {Beside} \cup Restarts
OnlyReset         == {Bounds({c1}, 3, 1, 0, 0)}
OnlyTwoResets     == {Bounds({c1}, 3, 2, 0, 0)}
OnlySaveFailure   == {Bounds({c1}, 4, 0, 1, 1)}
=============================================================================
