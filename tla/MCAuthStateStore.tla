-------------------------- MODULE MCAuthStateStore --------------------------
(* Small instances of AuthStateStore: two clients, two values per file kind, *)
(* one request or two of each kind, and the layouts a vault directory may be *)
(* found in.                                                                 *)
EXTENDS AuthStateStore, TLC

CONSTANTS c1, c2, v1, v2, w1, w2, k1, k2

MCClients == {c1, c2}
MCVaults  == {v1, v2}
MCCreds   == {w1, w2}
MCKits    == {k1, k2}
MCSymmetry == Permutations(MCClients)

Ask(kind, vault, cred, kit) == [kind |-> kind, vault |-> vault, cred |-> cred, kit |-> kit]

MCRequests ==
  {Ask("create", v1, w1, k1), Ask("credentials", None, w2, None),
   Ask("recovery", None, None, k2), Ask("recovery", None, None, None),
   Ask("both", None, w2, k2), Ask("restore", v2, w2, None),
   Ask("restore", v2, w2, k2), Ask("update", v2, None, None)}

Empty      == [vault |-> None, cred |-> None]
Legacy     == [vault |-> v1, cred |-> w1]
TornLegacy == [vault |-> None, cred |-> w1]

EmptyLayouts  == {Empty}
LegacyLayouts == {Legacy}
AllLayouts    == {Empty, Legacy, TornLegacy}
=============================================================================
