---------------------------- MODULE MCSignIn ----------------------------
(* The two sides of the session, each over a sketch of the other: a        *)
(* behaviour is one of the flows of the main process (AuthFlows) or one of *)
(* the renderer beside the session of the main process (RendererSession).  *)
EXTENDS MCAuthFlows

CONSTANTS MaxVaults, Settings

VARIABLES side, setting, inbox, wire, main, open, keySession, invalidating, tails, leaving,
          over, active, rev, revision, receipts, guardEpoch, unlocked, screen, view, coll, used

rendererVars ==
  <<setting, inbox, wire, main, open, keySession, invalidating, tails, leaving, over, active,
    rev, revision, receipts, guardEpoch, unlocked, screen, view, coll, used>>
bothVars == <<side, vars, rendererVars>>

R == INSTANCE RendererSession WITH session <- keySession, epoch <- guardEpoch

ASSUME RendererAssumption ==
  /\ MaxVaults \in Nat \ {0}
  /\ None \notin R!Views /\ None \notin R!Collections
  /\ Settings \subseteq [R!Kinds -> Nat]

With(unlock, idle, signOuts, edit, command, change, fault) ==
  [unlock |-> unlock, idle |-> idle, signOut |-> signOuts, edit |-> edit,
   command |-> command, change |-> change, fault |-> fault]

Sessions  == {With(3, 2, 0, 1, 1, 0, 0), With(2, 1, 2, 0, 0, 0, 0)}
Switching == {With(1, 1, 0, 0, 0, 2, 0), With(2, 0, 0, 0, 0, 2, 0), With(2, 1, 0, 0, 0, 1, 0),
              With(2, 0, 0, 0, 0, 1, 1), With(1, 0, 0, 1, 1, 1, 0)}
SentAgain == {With(1, 0, 0, 0, 0, 2, 1)}
SessionsAndSwitches == Sessions \cup Switching \cup SentAgain

NoScenario     == {}
FailedSignOut  == {With(2, 1, 2, 0, 1, 0, 0)}
LostAnswer     == {With(1, 0, 0, 1, 0, 1, 1)}
TwoChanges     == {With(1, 0, 0, 1, 0, 2, 0)}

BothInit ==
  \/ /\ side = "main" /\ Init
     /\ setting = None /\ inbox = None /\ wire = None /\ main = None /\ open = None
     /\ keySession = None /\ invalidating = None /\ tails = None /\ leaving = None
     /\ over = None /\ active = None /\ rev = None /\ revision = None /\ receipts = None
     /\ guardEpoch = None /\ unlocked = None /\ screen = None /\ view = None
     /\ coll = None /\ used = None
  \/ /\ side = "renderer" /\ R!Init
     /\ installed = None /\ backup = None /\ keychain = None /\ sessionKey = None
     /\ epoch = None /\ locking = None /\ queue = None /\ flow = None /\ made = None
     /\ revoked = None /\ retired = None /\ before = None /\ mixed = None /\ scenario = None

BothNext ==
  /\ side' = side
  /\ \/ side = "main" /\ Next /\ UNCHANGED rendererVars
     \/ side = "renderer" /\ R!Next /\ UNCHANGED vars

BothSpec == BothInit /\ [][BothNext]_bothVars

\* AuthFlows' invariant, of a behaviour of the flows (auth.ts).
FlowsInv == side = "main" => IInv

\* AuthFlows' action properties: what is replaced stays replaced but for the two stale
\* paths, and what was answered, a sign-out too, holds (auth.ts:408-410).
FlowsReplaced == [][side = "main" => ReplacedStaysReplaced]_bothVars
FlowsAnswer   == [][side = "main" => AnswersHold]_bothVars

\* RendererSession's invariant: at rest the renderer and the main process agree
\* (vaultContext.tsx).
RendererInv == side = "renderer" => R!IInv

\* RendererSession's action property: in an epoch the renderer shows one vault and goes
\* back to no earlier document, and to an earlier list only by the answer of a change that
\* was sent again (vaultContext.tsx:210).
RendererGoesOn == [][side = "renderer" => R!NothingGoesBack]_bothVars

\* Without the exception: it does not hold.
ListNeverGoesBack ==
  [][side = "renderer" /\ guardEpoch' = guardEpoch => R!ListStays]_bothVars
=========================================================================
