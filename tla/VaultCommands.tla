----------------------------- MODULE VaultCommands -----------------------------
(***************************************************************************)
(* The semantic commands of the renderer, applied by the main process to   *)
(* the stored document (vaultCommandMutations.ts), the menu-bar panel's    *)
(* addition to it (menuPanelIpc.ts), and what the canonical validator asks *)
(* of the result (shared/vaultValidation.ts).                              *)
(*                                                                         *)
(* A document is its tree of folders and secrets (parent, order), the      *)
(* fields of the secrets, the providers and their groups, the projects     *)
(* with their mappings of environment names to fields, and the dashboard   *)
(* pins.  Names, values and times are left out.  The nested folders of the *)
(* code cannot hold a cycle; the parents here can, so that the tree is a   *)
(* property and not a shape.                                               *)
(***************************************************************************)
EXTENDS Naturals, FiniteSets, SequencesExt

CONSTANTS Root, Folders, Secrets, Fields, Labels, Providers, Groups, Projects,
          Names,     \* environment variables
          Forms,     \* what a new secret may hold: fields with their labels
          None,
          Families,  \* bound: the kinds of command one behaviour uses
          MaxPins    \* bound: dashboard pins at a time

ASSUME CommandsAssumption ==
  /\ Root \in Folders /\ Folders \cap Secrets = {}
  /\ None \notin Folders \cup Labels \cup Fields \cup Providers \cup Groups
  /\ Forms \subseteq [Fields -> Labels \cup {None}] /\ MaxPins \in Nat

VARIABLES
  parent, order,        \* the tree: the folder of an item, and its itemOrder
  fields, link,         \* of a secret: the label by field id, the provider
  providers, group,     \* in their order, and the group of each
  groups,
  projects, entries,    \* the mappings of a project and its environments
  bound,                \* the provider of a project's cloud environment
  pins,                 \* localDashboardPinnedOrder
  bootstrapped,         \* localDefaultFoldersCreated
  family                \* the kinds of command of this behaviour

tree      == <<parent, order>>
secrets   == <<fields, link>>
services  == <<providers, group, groups>>
mappings  == <<projects, entries, bound>>
vars == <<tree, secrets, services, mappings, pins, bootstrapped, family>>

Items  == Folders \cup Secrets
Lists  == {"project", "environment"}
Entry  == [list : Lists, name : Names, secret : Secrets, field : Fields \cup {None},
           label : Labels]
Pin    == [kind : {"secret"}, id : Secrets] \cup [kind : {"plain"}, id : Secrets]
          \cup [kind : {"project"}, id : Projects] \cup [kind : {"service"}, id : Providers]

(* Documents of earlier versions: no order of items, a pin without a kind, *)
(* a mapping without a field id.                                           *)
Init ==
  \E f0 \in Folders \ {Root}, s0 \in Secrets, e0 \in Projects, n \in Names, k \in Labels :
  \E form \in {g \in Forms : \E x \in Fields : g[x] = k} :
    /\ parent = [i \in Items |-> IF i \in {f0, s0} THEN Root ELSE None]
    /\ order = [f \in Folders |-> <<>>]
    /\ fields = [s \in Secrets |-> IF s = s0 THEN form ELSE [x \in Fields |-> None]]
    /\ link = [s \in Secrets |-> None]
    /\ providers = <<>> /\ group = [p \in Providers |-> None] /\ groups = {}
    /\ projects = {e0} /\ bound = [e \in Projects |-> None]
    /\ entries = [e \in Projects |-> IF e # e0 THEN {} ELSE
                    {[list |-> "project", name |-> n, secret |-> s0,
                      field |-> None, label |-> k]}]
    /\ pins = {[kind |-> "plain", id |-> s0]} /\ bootstrapped = FALSE
    /\ family \in Families

-------------------------------------------------------------------------------
(* The tree *)

Present(i)   == i = Root \/ parent[i] # None
Contents(f)  == {i \in Items : parent[i] = f}
Fresh        == {i \in Items : ~Present(i)}

(* An item and the folders around it. *)
Around(i) ==
  LET up[n \in 0..Cardinality(Folders)] ==
        IF n = 0 THEN {i} ELSE up[n - 1] \cup ({parent[j] : j \in up[n - 1]} \ {None})
  IN  up[Cardinality(Folders)]
Within(f) == {i \in Items : Present(i) /\ f \in Around(i)}

(* orderedFolderItems: the listed items that are there, then the others as *)
(* the document has them, folders first.                                   *)
Written == SetToSeq(Folders) \o SetToSeq(Secrets)
Listed(f)  == SelectSeq(order[f], LAMBDA i : i \in Contents(f))
OrderedAsWritten(f) == SelectSeq(Written, LAMBDA i : i \in Contents(f)) \* itemOrder is dropped
Ordered(f) == Listed(f) \o SelectSeq(Written,
                LAMBDA i : i \in Contents(f) \ ToSet(order[f]))

Without(s, is) == SelectSeq(s, LAMBDA i : i \notin is)
Appended(f, s) == [order EXCEPT ![f] = Ordered(f) \o s]

(* moveVaultTreeItem, insertTreeItem: next to a target of the folder, or   *)
(* at its end.                                                             *)
Placed(s, i, position, target) ==
  LET rest == Without(s, {i})
      at   == IF position = "inside" THEN Len(rest) + 1
              ELSE (CHOOSE n \in DOMAIN rest : rest[n] = target)
                   + (IF position = "after" THEN 1 ELSE 0)
  IN  InsertAt(rest, at, i)

-------------------------------------------------------------------------------
(* References *)

Matches(form, k) == {x \in Fields : form[x] = k}

(* normalizeLegacyProjectEntries: a mapping without a field id takes the   *)
(* one field of its label, if there is one.                                *)
Normal ==
  [e \in Projects |->
    {IF m.field = None /\ Cardinality(Matches(fields[m.secret], m.label)) = 1
     THEN [m EXCEPT !.field = CHOOSE x \in Matches(fields[m.secret], m.label) : TRUE]
     ELSE m : m \in entries[e]}]

(* hydrateEnvEntries: what a mapping the renderer sends may name, and the  *)
(* form it is stored in.                                                   *)
Resolves(m, forms) ==
  IF m.field # None THEN forms[m.secret][m.field] = m.label
  ELSE Cardinality(Matches(forms[m.secret], m.label)) = 1
Hydrated(m, forms) ==
  IF m.field # None THEN m
  ELSE [m EXCEPT !.field = CHOOSE x \in Matches(forms[m.secret], m.label) : TRUE]

(* removeSecretReferencesMany *)
ForgetMappings(ss) == [e \in Projects |-> {m \in Normal[e] : m.secret \notin ss}]
ForgetPinsOfKind(ss) == {p \in pins : ~(p.kind = "secret" /\ p.id \in ss)} \* not the old pins
ForgetPins(ss)     == {p \in pins : ~(p.kind \in {"secret", "plain"} /\ p.id \in ss)}

ReconciledByLabel(s, form) ==              \* a renamed label loses its mappings
  [e \in Projects |-> {m \in Normal[e] : m.secret = s => form[m.field] = m.label}]
(* reconcileSecretFieldReferences: a mapping follows its field's label and *)
(* goes with its field.                                                    *)
Reconciled(s, form) ==
  [e \in Projects |->
    {IF m.secret = s THEN [m EXCEPT !.label = form[m.field]] ELSE m :
       m \in {n \in Normal[e] : n.secret = s => form[n.field] # None}}]
Ambiguous(s) == \E e \in Projects : \E m \in Normal[e] : m.secret = s /\ m.field = None

Uses(kind) == kind \in family
-------------------------------------------------------------------------------
(* Folders *)

bootstrapDefaults(fs) ==
  /\ Uses("folder") /\ fs \subseteq Fresh
  /\ IF bootstrapped THEN UNCHANGED <<parent, order>>
     ELSE /\ parent' = [i \in Items |-> IF i \in fs THEN Root ELSE parent[i]]
          /\ order' = IF fs = {} THEN order ELSE Appended(Root, SetToSeq(fs))
  /\ bootstrapped' = TRUE /\ entries' = Normal
  /\ UNCHANGED <<secrets, services, projects, bound, pins, family>>

createFolder(f, p) ==
  /\ Uses("folder") /\ f \in Fresh /\ Present(p)
  /\ parent' = [parent EXCEPT ![f] = p] /\ order' = Appended(p, <<f>>)
  /\ entries' = Normal
  /\ UNCHANGED <<secrets, services, projects, bound, pins, bootstrapped, family>>

(* removeFolder and removeSecretFromFolder, with the references to what    *)
(* they take away.                                                         *)
Removed(is) ==
  /\ parent' = [i \in Items |-> IF i \in is THEN None ELSE parent[i]]
  /\ fields' = [s \in Secrets |-> IF s \in is THEN [x \in Fields |-> None] ELSE fields[s]]
  /\ link' = [s \in Secrets |-> IF s \in is THEN None ELSE link[s]]
  /\ entries' = ForgetMappings(is \cap Secrets) /\ pins' = ForgetPins(is \cap Secrets)
  /\ UNCHANGED <<services, projects, bound, bootstrapped, family>>

deleteFolder(f) ==
  /\ Uses("delete") /\ Present(f) /\ f # Root
  /\ order' = [g \in Folders |-> IF g \in Within(f) \/ ~Present(g) THEN <<>>
                                 ELSE Without(Ordered(g), {f})]
  /\ Removed(Within(f))

(* cloneFolderTree: every folder and secret under a new id, in the order   *)
(* of the original; a clone has no provider link.                          *)
Clones(is) ==
  {c \in [is -> Fresh] : /\ IsInjective(c)
                         /\ \A i \in is : c[i] \in Folders <=> i \in Folders}
Original(c, i) == CHOOSE j \in DOMAIN c : c[j] = i

duplicateFolder(f, c) ==
  /\ Uses("folder") /\ Present(f) /\ f # Root
  /\ parent' = [i \in Items |->
       IF i = c[f] THEN parent[f]
       ELSE IF i \in Range(c) THEN c[parent[Original(c, i)]] ELSE parent[i]]
  /\ order' = [g \in Folders |->
       IF g = parent[f] THEN Placed(Ordered(g), c[f], "after", f)
       ELSE IF g \in Range(c)
       THEN LET o == Ordered(Original(c, g)) IN [n \in DOMAIN o |-> c[o[n]]]
       ELSE order[g]]
  /\ fields' = [s \in Secrets |-> IF s \in Range(c) THEN fields[Original(c, s)] ELSE fields[s]]
  /\ entries' = Normal
  /\ UNCHANGED <<link, services, projects, bound, pins, bootstrapped, family>>

(* An imported folder, with the secrets that were selected.  When they are *)
(* none of it the document stays as it is.                                 *)
importFolder(f, p, ss, form) ==
  /\ Uses("folder") /\ Present(p) /\ f \in Fresh /\ ss \subseteq Fresh
  /\ parent' = [i \in Items |-> IF i = f THEN p ELSE IF i \in ss THEN f ELSE parent[i]]
  /\ order' = [Appended(p, <<f>>) EXCEPT ![f] = SetToSeq(ss)]
  /\ fields' = [s \in Secrets |-> IF s \in ss THEN form ELSE fields[s]]
  /\ entries' = Normal
  /\ UNCHANGED <<link, services, projects, bound, pins, bootstrapped, family>>

(* A folder never moves into itself or into what it holds. *)
MayMove(i, f) == i # Root /\ Present(i) /\ Present(f) /\ i \notin Around(f)

moveTreeItem(i, f, position, target) ==
  /\ Uses("folder") /\ MayMove(i, f)
  /\ position = "inside" => target = i
  /\ position # "inside" => target \in Contents(f) \ {i}
  /\ parent' = [parent EXCEPT ![i] = f]
  /\ order' = [g \in Folders |->
       IF g = f THEN Placed(Ordered(f), i, position, target)
       ELSE IF g = parent[i] \/ (i \in Folders /\ Present(g) /\ g \notin Within(i))
       THEN Without(Ordered(g), {i})
       ELSE order[g]]
  /\ entries' = Normal
  /\ UNCHANGED <<secrets, services, projects, bound, pins, bootstrapped, family>>

sortFolder(f, o) ==
  /\ Uses("folder") /\ Present(f)
  /\ order' = [order EXCEPT ![f] = o] /\ entries' = Normal
  /\ UNCHANGED <<parent, secrets, services, projects, bound, pins, bootstrapped, family>>

-------------------------------------------------------------------------------
(* Secrets *)

Created(f, ss, form) ==
  /\ Present(f) /\ ss \subseteq Fresh
  /\ parent' = [i \in Items |-> IF i \in ss THEN f ELSE parent[i]]
  /\ order' = Appended(f, SetToSeq(ss))
  /\ fields' = [s \in Secrets |-> IF s \in ss THEN form ELSE fields[s]]

createSecrets(f, ss, form) ==
  /\ Uses("secret") /\ Created(f, ss, form) /\ entries' = Normal
  /\ UNCHANGED <<link, services, projects, bound, pins, bootstrapped, family>>

(* The menu-bar panel's note or image, in the first folder of its default  *)
(* name or in the root.  It is no command: old mappings stay as they are.  *)
quickCreateSecret(f, s, form) ==
  /\ Uses("secret") /\ Created(f, {s}, form)
  /\ UNCHANGED <<link, services, mappings, pins, bootstrapped, family>>

(* The project's own mappings of the names that are mapped again go.       *)
createSecretsAndMap(f, s, form, e, m) ==
  /\ Uses("secret") /\ Created(f, {s}, form) /\ e \in projects
  /\ m.list = "project" /\ Resolves(m, fields')
  /\ entries' = [Normal EXCEPT ![e] =
       {n \in @ : ~(n.list = "project" /\ n.name = m.name)} \cup {Hydrated(m, fields')}]
  /\ UNCHANGED <<link, services, projects, bound, pins, bootstrapped, family>>

Updated(f, s, form) ==
  /\ parent[s] = f /\ ~Ambiguous(s)
  /\ fields' = [fields EXCEPT ![s] = form] /\ entries' = Reconciled(s, form)

updateSecret(f, s, form) ==
  /\ Uses("secret") /\ Updated(f, s, form)
  /\ UNCHANGED <<tree, link, services, projects, bound, pins, bootstrapped, family>>

setSecretProviderLink(f, s, p) ==
  /\ Uses("provider") /\ parent[s] = f /\ p \in ToSet(providers) \cup {None}
  /\ link' = [link EXCEPT ![s] = p] /\ entries' = Normal
  /\ UNCHANGED <<tree, fields, services, projects, bound, pins, bootstrapped, family>>

deleteSecret(f, s) ==
  /\ Uses("delete") /\ parent[s] = f
  /\ order' = [order EXCEPT ![f] = Without(Ordered(f), {s})]
  /\ Removed({s})

-------------------------------------------------------------------------------
(* Providers and their groups.  The validator refuses a group there is not.*)

(* By its category a provider goes to a group there is, or to a new one.   *)
createProvider(p, g) ==
  /\ Uses("provider") /\ ~Contains(providers, p)
  /\ providers' = Append(providers, p) /\ group' = [group EXCEPT ![p] = g]
  /\ groups' = groups \cup ({g} \ {None}) /\ entries' = Normal
  /\ UNCHANGED <<tree, secrets, projects, bound, pins, bootstrapped, family>>

Regrouped(p, g) ==
  /\ Contains(providers, p) /\ g \in groups \cup {None}
  /\ group' = [group EXCEPT ![p] = g] /\ UNCHANGED <<providers, groups>>

updateProvider(p, g) ==
  /\ Uses("provider") /\ Regrouped(p, g) /\ entries' = Normal
  /\ UNCHANGED <<tree, secrets, projects, bound, pins, bootstrapped, family>>

updateProviderWithSecret(p, g, f, s, form) ==
  /\ Uses("provider") /\ Regrouped(p, g) /\ Updated(f, s, form)
  /\ UNCHANGED <<tree, link, projects, bound, pins, bootstrapped, family>>

(* removeProviderReferences: links, environments and pins. *)
Unlinked(p) == [s \in Secrets |-> IF link[s] = p THEN None ELSE link[s]]
Unbound(p)  == [e \in Projects |-> IF bound[e] = p THEN None ELSE bound[e]]
Unpinned(p) == {q \in pins : ~(q.kind = "service" /\ q.id = p)}

deleteProvider(p) ==
  /\ Uses("provider") /\ Contains(providers, p)
  /\ providers' = Without(providers, {p}) /\ group' = [group EXCEPT ![p] = None]
  /\ link' = Unlinked(p) /\ bound' = Unbound(p) /\ pins' = Unpinned(p)
  /\ entries' = Normal
  /\ UNCHANGED <<tree, fields, groups, projects, bootstrapped, family>>

createProviderGroup(g) ==
  /\ Uses("provider") /\ g \notin groups /\ groups' = groups \cup {g} /\ entries' = Normal
  /\ UNCHANGED <<tree, secrets, providers, group, projects, bound, pins, bootstrapped, family>>

Ungrouped(g) == [p \in Providers |-> IF group[p] = g THEN None ELSE group[p]]

deleteProviderGroup(g) ==
  /\ Uses("provider") /\ g \in groups
  /\ groups' = groups \ {g} /\ group' = Ungrouped(g) /\ entries' = Normal
  /\ UNCHANGED <<tree, secrets, providers, projects, bound, pins, bootstrapped, family>>

(* insertProvider: next to a provider of the group, or after its last one. *)
moveProvider(p, g, position, target) ==
  /\ Uses("provider") /\ Contains(providers, p) /\ g \in groups \cup {None}
  /\ position = "inside" => target = p
  /\ position # "inside" => /\ target # p /\ Contains(providers, target)
                            /\ group[target] = g
  /\ LET rest == Without(providers, {p})
         same == {n \in DOMAIN rest : group[rest[n]] = g}
         at   == IF position # "inside"
                 THEN (CHOOSE n \in DOMAIN rest : rest[n] = target)
                      + (IF position = "after" THEN 1 ELSE 0)
                 ELSE IF same = {} THEN Len(rest) + 1 ELSE Max(same) + 1
     IN  providers' = InsertAt(rest, at, p)
  /\ group' = [group EXCEPT ![p] = g] /\ entries' = Normal
  /\ UNCHANGED <<tree, secrets, groups, projects, bound, pins, bootstrapped, family>>

-------------------------------------------------------------------------------
(* Projects and preferences.  The validator refuses a provider, a pinned   *)
(* item or a repeated name that it does not find in order.                 *)

Mappable(ms) ==
  /\ \A m \in ms : Resolves(m, fields)
  /\ \A m, n \in ms : (m.list = n.list /\ m.name = n.name) => m = n

Stored(es, ms, p) ==
  /\ Uses("mapping") /\ Mappable(ms) /\ p \in ToSet(providers) \cup {None}
  /\ entries' = [e \in Projects |->
                    IF e \in es THEN {Hydrated(m, fields) : m \in ms} ELSE Normal[e]]
  /\ bound' = [e \in Projects |-> IF e \in es THEN p ELSE bound[e]]
  /\ UNCHANGED <<tree, secrets, services, pins, bootstrapped, family>>

createEnvProject(e, ms, p) ==
  e \notin projects /\ Stored({e}, ms, p) /\ projects' = projects \cup {e}

(* One project or several at once, all of them or none.                    *)
updateEnvProjects(es, ms, p) ==
  es \subseteq projects /\ Stored(es, ms, p) /\ UNCHANGED projects

deleteEnvProject(e) ==
  /\ Uses("mapping") /\ e \in projects
  /\ projects' = projects \ {e} /\ entries' = [Normal EXCEPT ![e] = {}]
  /\ bound' = [bound EXCEPT ![e] = None]
  /\ pins' = {p \in pins : ~(p.kind = "project" /\ p.id = e)}
  /\ UNCHANGED <<tree, secrets, services, bootstrapped, family>>

Known(p) == CASE p.kind = "project" -> p.id \in projects
              [] p.kind = "service" -> Contains(providers, p.id)
              [] OTHER              -> Present(p.id)

patchPreferences(p) ==
  /\ Uses("pin") /\ pins' \in {pins \ {p}, pins \cup {p}}
  /\ \A q \in pins' : Known(q) /\ Cardinality(pins') <= MaxPins
  /\ entries' = Normal
  /\ UNCHANGED <<tree, secrets, services, projects, bound, bootstrapped, family>>

-------------------------------------------------------------------------------
Positions == {"inside", "before", "after"}

FolderCommand ==
  \/ \E fs \in SUBSET (Folders \ {Root}) : bootstrapDefaults(fs)
  \/ \E f, p \in Folders :
       \/ createFolder(f, p)
       \/ \E ss \in SUBSET Secrets, form \in Forms : importFolder(f, p, ss, form)
  \/ \E f \in Folders \ {Root} :
       \/ deleteFolder(f)
       \/ Present(f) /\ \E c \in Clones(Within(f)) : duplicateFolder(f, c)
  \/ \E f \in Folders, i, j \in Items, position \in Positions :
       moveTreeItem(i, f, position, j)
  \/ \E f \in Folders : \E o \in SetToSeqs(Contents(f)) : sortFolder(f, o)

SecretCommand ==
  \E f \in Folders :
    \/ \E ss \in SUBSET Secrets \ {{}}, form \in Forms : createSecrets(f, ss, form)
    \/ \E s \in Secrets :
         \/ deleteSecret(f, s)
         \/ \E form \in Forms : quickCreateSecret(f, s, form) \/ updateSecret(f, s, form)
         \/ \E form \in Forms, e \in Projects, m \in Entry :
              createSecretsAndMap(f, s, form, e, m)
         \/ \E p \in Providers \cup {None} : setSecretProviderLink(f, s, p)

ProviderCommand ==
  \/ \E p \in Providers, g \in Groups \cup {None} :
       \/ createProvider(p, g) \/ updateProvider(p, g)
       \/ \E q \in Providers, position \in Positions : moveProvider(p, g, position, q)
       \/ \E f \in Folders, s \in Secrets, form \in Forms :
            updateProviderWithSecret(p, g, f, s, form)
  \/ \E p \in Providers : deleteProvider(p)
  \/ \E g \in Groups : createProviderGroup(g) \/ deleteProviderGroup(g)

(* At most two mappings are sent at a time, of fields that are there.      *)
Mappings ==
  LET named == {m \in Entry : Resolves(m, fields)}
  IN  {{}} \cup {{m, n} : m, n \in named}

ProjectCommand ==
  /\ Uses("mapping")
  /\ \/ \E ms \in Mappings, p \in Providers \cup {None} :
          \/ \E e \in Projects : createEnvProject(e, ms, p)
          \/ \E es \in SUBSET Projects \ {{}} : updateEnvProjects(es, ms, p)
     \/ \E e \in Projects : deleteEnvProject(e)

Next ==
  \/ FolderCommand \/ SecretCommand \/ ProviderCommand \/ ProjectCommand
  \/ \E p \in Pin : patchPreferences(p)

Spec == Init /\ [][Next]_vars

-------------------------------------------------------------------------------
TypeOK ==
  /\ parent \in [Items -> Folders \cup {None}] /\ order \in [Folders -> Seq(Items)]
  /\ fields \in [Secrets -> [Fields -> Labels \cup {None}]]
  /\ link \in [Secrets -> Providers \cup {None}]
  /\ providers \in Seq(Providers) /\ groups \subseteq Groups
  /\ group \in [Providers -> Groups \cup {None}]
  /\ projects \subseteq Projects /\ entries \in [Projects -> SUBSET Entry]
  /\ bound \in [Projects -> Providers \cup {None}]
  /\ pins \subseteq Pin /\ bootstrapped \in BOOLEAN /\ family \in Families

(* One tree from the root, and an order that names what its folder holds,  *)
(* once.                                                                   *)
validateFolderTree ==
  /\ parent[Root] = None
  /\ \A i \in Items : Present(i) => Root \in Around(i)
  /\ \A f \in Folders : IsInjective(order[f]) /\ ToSet(order[f]) \subseteq Contents(f)

(* Nothing refers to what is not there.                                   *)
validateReferences ==
  /\ \A s \in Secrets : link[s] # None => Present(s) /\ Contains(providers, link[s])
  /\ \A p \in Providers : group[p] \in groups \cup {None}
  /\ \A e \in Projects :
       /\ bound[e] # None => Contains(providers, bound[e])
       /\ \A m \in entries[e] :
            /\ e \in projects /\ Present(m.secret)
            /\ IF m.field = None THEN Matches(fields[m.secret], m.label) # {}
               ELSE fields[m.secret][m.field] = m.label
       /\ \A m, n \in entries[e] : (m.list = n.list /\ m.name = n.name) => m = n
  /\ IsInjective(providers) /\ \A p \in pins : Known(p)

(* The commands alone, before the validator sees their result, take a      *)
(* valid document to a valid one.  Otherwise the validator refuses every   *)
(* later command on what one left behind, and the vault cannot be edited,  *)
(* or even deleted from, any more (vaultCommandMutations.ts:50-61).        *)
IInv == TypeOK /\ validateFolderTree /\ validateReferences

(* A mapping to a field that is still there survives every command but one *)
(* that edits the project itself or maps the name again: a move, a rename  *)
(* of the field's label, a delete of something else, a change of providers *)
(* or groups never costs a mapping (vaultCommandMutations.ts:1192-1285).   *)
Kept(m, ms) == \E n \in ms : /\ n.list = m.list /\ n.name = m.name
                             /\ n.secret = m.secret /\ n.field = m.field
MappingsFollowFields ==
  \A e \in projects \cap projects' : \A m \in entries[e] :
     \/ m.field = None \/ fields'[m.secret][m.field] = None \/ Kept(m, entries'[e])
     \/ UNCHANGED <<tree, secrets, services, pins>>
     \/ /\ Fresh' # Fresh
        /\ \E n \in entries'[e] : n.list = m.list /\ n.name = m.name

(* The renderer's orderedFolderItems: as the main process has it, but with *)
(* the secrets first among the items that no order lists.                  *)
SecretsFirst == SetToSeq(Secrets) \o SetToSeq(Folders)
Restricted(s, is) == SelectSeq(s, LAMBDA i : i \in is)
Shown(f) == Listed(f) \o Restricted(SecretsFirst, Contents(f) \ ToSet(order[f]))

ShownKept(f) ==
  LET both == Contents(f) \cap Contents(f)'
  IN  Restricted(Shown(f), both) = Restricted(Shown(f)', both)

(* What comes to a folder or leaves it never rearranges what the renderer  *)
(* shows of the rest, in a folder whose order is complete: every command   *)
(* writes the order it computes, of every folder it goes through, back to  *)
(* the document (vaultCommandMutations.ts:868-892, lib/vaultTree.ts:36-61).*)
OrderIsKept ==
  parent' # parent =>
    \A f \in Folders : Contents(f) \subseteq ToSet(order[f]) => ShownKept(f)

(* Nor in a folder of an earlier version, which lists nothing.  It does:   *)
(* the renderer puts its secrets first and the main process its folders.   *)
OldOrderIsKept == [][parent' # parent => \A f \in Folders : ShownKept(f)]_vars
=============================================================================
