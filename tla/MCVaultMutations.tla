-------------------------- MODULE MCVaultMutations --------------------------
(* Small instances of VaultMutations.                                         *)
EXTENDS VaultMutations

CONSTANTS v1, v2, c1, c2, s1, s2, b1, b2, w1

TwoVaults == {v1, v2}
OneCommand  == {c1}
TwoCommands == {c1, c2}
TwoSwitches == {s1, s2}
OneSwitch   == {s1}
TwoBatches  == {b1, b2}
OneWriter   == {w1}
EditCast    == TwoCommands \cup TwoBatches \cup OneWriter
SwitchCasts == {TwoSwitches \cup {c} : c \in TwoCommands}
                 \cup {{s, c} \cup OneWriter : s \in TwoSwitches, c \in TwoCommands}
AllCasts    == {EditCast} \cup SwitchCasts
RaceCast    == {OneSwitch \cup OneCommand}
AllSymmetry == Permutations(TwoCommands) \cup Permutations(TwoBatches)
                 \cup Permutations(TwoVaults) \cup Permutations(TwoSwitches)
=============================================================================
