--------------------------- MODULE MCVaultCommands ---------------------------
EXTENDS VaultCommands
CONSTANTS fa, fb, s1, s2, x1, x2, k1, k2, p1, p2, g1, e1, n1
MCFolders   == {Root, fa, fb}
MCSecrets   == {s1, s2}
MCFields    == {x1, x2}
MCLabels    == {k1, k2}
MCProviders == {p1, p2}
MCGroups    == {g1}
MCProjects  == {e1}
MCNames     == {n1}
MCForms     == {[x \in MCFields |-> k1], [x \in MCFields |-> IF x = x1 THEN k1 ELSE k2],
                [x \in MCFields |-> IF x = x1 THEN k2 ELSE None]}
MCFamilies  == {{"folder", "delete"}, {"secret", "mapping", "delete"},
                {"secret", "delete", "pin"}, {"provider", "mapping"},
                {"provider", "pin"}, {"mapping", "pin"}}
=============================================================================
