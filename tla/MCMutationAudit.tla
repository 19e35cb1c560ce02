--------------------------- MODULE MCMutationAudit ---------------------------
(* Small instances of MutationAudit.                                          *)
EXTENDS MutationAudit

CONSTANTS m1, m2

TwoMutations == {m1, m2}
OneOrTwo     == {1, 2}
OnlyTwo      == {2}
=============================================================================
