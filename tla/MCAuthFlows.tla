---------------------------- MODULE MCAuthFlows ----------------------------
(* Small instances of AuthFlows: two concurrent calls over an installation,  *)
(* or over an empty directory with two foreign backups.                      *)
EXTENDS AuthFlows, TLC

CONSTANTS c1, c2

MCClients == {c1, c2}
Symmetry  == Permutations(MCClients)

Own ==
  [vault |-> 1, cred |-> [key |-> 1, password |-> 1, outdated |-> TRUE],
   kit |-> [id |-> 1, key |-> 1]]

Backups(n) ==
  [vault |-> n, cred |-> [key |-> n, password |-> n, outdated |-> FALSE],
   kit |-> [id |-> n, key |-> n]]

TwoForeign == {Backups(101), Backups(102)}

(* Flows over an installation: all but the revocation of the kit, all but  *)
(* Touch ID, and both with what reads or replaces a kit; the first-run     *)
(* ones would stop at their first read there.  Those of a first run; and   *)
(* two first-run restores with the use of a kit.  One new secret, two and  *)
(* three.                                                                  *)
Over(flows)  == [flows |-> flows, installed |-> Own, foreign |-> {}, made |-> 2]
FirstRun     == [flows |-> {"setup", "restoreKit", "unlock", "touchid"},
                 installed |-> None, foreign |-> TwoForeign, made |-> 1]
TwoFirstRuns == [flows |-> {"restoreKit", "recover"},
                 installed |-> None, foreign |-> TwoForeign, made |-> 0]

KitAndTouchId == {"touchid", "revoke", "unlock", "verify", "rotate"}
OwnFlows      == {AllFlows \ {"setup", "restoreKit", "revoke"},
                  AllFlows \ {"setup", "restoreKit", "touchid"}, KitAndTouchId}

AllScenarios  == {Over(flows) : flows \in OwnFlows} \cup {FirstRun, TwoFirstRuns}
=============================================================================
