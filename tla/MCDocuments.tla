----------------------------- MODULE MCDocuments -----------------------------
(* The two ways into a document, which share nothing here: a behaviour is one  *)
(* of sequences of commands, or one of a form over hidden values.              *)
EXTENDS MCVaultCommands

CONSTANTS va, vb, im1, im2, Blank, Redacted, ImageKey, CertificateKey,
          FormValues, FormTyped, FormImages, FormKeys, FormTypes, FormTemplate,
          FormDocuments, FormCasts

TwoValues == {va, vb}
OneTyped  == {vb}
TwoImages == {im1, im2}
FourTypes == {"password", "secureNote", "image", "certificate"}

F(id, k, b, v) == [id |-> id, key |-> k, sensitive |-> b, value |-> v]
D(t, fs, n) == [type |-> t, fields |-> fs, notes |-> n, policy |-> TRUE,
                certificate |-> IF t = "certificate" THEN "PEM" ELSE None]
V(a, b) == [s \in MCSecrets |-> IF s = s1 THEN a ELSE b]

Templates ==
  [t \in FourTypes |->
     CASE t = "password"    -> <<F(None, k1, FALSE, Blank), F(None, k2, TRUE, Blank)>>
       [] t = "secureNote"  -> <<F(None, k1, TRUE, Blank)>>
       [] t = "image"       -> <<F(None, ImageKey, TRUE, Blank)>>
       [] t = "certificate" -> <<F(None, CertificateKey, TRUE, Blank)>>]

\* Two fields of one name, without ids, as earlier versions wrote them.
Legacy  == D("password", <<F(None, k1, TRUE, va), F(None, k1, TRUE, vb)>>, va)
Note    == D("secureNote", <<F(None, k1, FALSE, va)>>, vb)
Picture == D("image", <<F(<<"field", 0>>, ImageKey, TRUE, im1)>>, Blank)
Cert    == D("certificate", <<F(<<"field", 0>>, CertificateKey, TRUE, va)>>, Blank)

TwoDocuments == [old |-> V(Legacy, Note), new |-> V(Picture, Cert)]

Cast(from, steps, e, s, w) ==
  [from |-> from, steps |-> steps, edits |-> e, saves |-> s, writes |-> w]
NineCasts ==
  {Cast("old", {"field"}, 3, 1, 0), Cast("old", {"field", "list"}, 2, 1, 0),
   Cast("old", {"field", "type"}, 2, 1, 0), Cast("old", {"field", "select"}, 1, 1, 0),
   Cast("old", {"field", "others"}, 1, 1, 1), Cast("old", {"field", "page"}, 1, 2, 0),
   Cast("new", {"page", "others"}, 0, 2, 2), Cast("new", {"type", "image"}, 3, 1, 0),
   Cast("new", {"type", "certificate"}, 3, 1, 0)}

VARIABLES part, stored, revision, usage, ids, view, form, reads, queue, saves, writes, cast

formVars == <<stored, revision, usage, ids, view, form, reads, queue, saves, writes, cast>>
allVars  == <<part, vars, formVars>>

Form == INSTANCE SecretForm
          WITH Values <- FormValues, Typed <- FormTyped, Images <- FormImages,
               Keys <- FormKeys, Types <- FormTypes, Template <- FormTemplate,
               Documents <- FormDocuments, Casts <- FormCasts

DocumentsInit ==
  \/ /\ part = "commands" /\ Init
     /\ stored = None /\ revision = None /\ usage = None /\ ids = None /\ view = None
     /\ form = None /\ reads = None /\ queue = None /\ saves = None /\ writes = None
     /\ cast = None
  \/ /\ part = "form" /\ Form!Init
     /\ parent = None /\ order = None /\ fields = None /\ link = None /\ providers = None
     /\ group = None /\ groups = None /\ projects = None /\ entries = None /\ bound = None
     /\ pins = None /\ bootstrapped = None /\ family = None

DocumentsNext ==
  /\ part' = part
  /\ \/ part = "commands" /\ Next /\ UNCHANGED formVars
     \/ part = "form" /\ Form!Next /\ UNCHANGED vars

DocumentsSpec == DocumentsInit /\ [][DocumentsNext]_allVars

\* VaultCommands' invariant, of a behaviour of commands (vaultCommandMutations.ts).
CommandsInv == part = "commands" => IInv

\* VaultCommands' action properties, of a behaviour of commands: no command costs a
\* mapping, a pin or a link it should keep (vaultCommandMutations.ts:1244), and none
\* rearranges what it does not move (vaultCommandMutations.ts:868).
CommandsKeep ==
  /\ [][part = "commands" => MappingsFollowFields]_allVars
  /\ [][part = "commands" => OrderIsKept]_allVars

\* SecretForm's invariant, of a behaviour of the form (AddSecretModal.open.tsx).
FormInv == part = "form" => Form!IInv

\* SecretForm's action properties, of a behaviour of the form: a save is what its author
\* meant (vaultRedaction.ts:119), and is refused only for what its author did.
FormSaves ==
  /\ [][part = "form" => Form!SavesAreMeant]_allVars
  /\ [][part = "form" => Form!RefusesForAReason]_allVars
=============================================================================
