----------------------------- MODULE ProjectAccess -----------------------------
(***************************************************************************)
(* Local project folders: the grants a native picker leaves                *)
(* (projectCapabilities.ts), the vault commands that spend them            *)
(* (projectMutationAuthorization.ts) and the export of a project's secrets *)
(* to the .env file of its stored folder (projectIpc.ts, envFile.ts), with *)
(* locks, unlocks, vault switches and the user's own edits in between.     *)
(*                                                                         *)
(* A scope (epoch) is one bound key: unlock, lock and rotation begin       *)
(* another.  A project stores one local path.  A dialog, a lookup in the   *)
(* file system and a write are steps of their own; what runs between two   *)
(* awaits is one step.                                                     *)
(***************************************************************************)
EXTENDS Naturals, Integers, FiniteSets, SequencesExt

CONSTANTS Renderers, Folders, Projects, Vaults, None, NoProject,
          Create,        \* CREATE_PROJECT_GRANT_TARGET
          Home,          \* the vault of each project
          Starts,        \* by behaviour: the paths of an earlier session, and
                         \* bound: the selections and exports left
          Inside,        \* pairs <<folder, parent>>
          Limit,         \* MAX_CAPABILITIES_PER_RENDERER
          MaxEpoch,      \* bound: session boundaries of a behaviour
          MaxCommits,    \* bound: commands committed
          MaxOpen        \* bound: calls in progress at a time

ASSUME ProjectAssumption ==
  /\ Home \in [Projects -> Vaults] /\ Inside \subseteq Folders \X Folders
  /\ Starts \subseteq [path : [Projects -> Folders \cup {None, NoProject}],
                       left : [grants : Nat, exports : Nat]]
  /\ Limit \in Nat \ {0} /\ MaxOpen \in Nat
  /\ MaxEpoch \in Nat /\ MaxCommits \in Nat
  /\ IsFiniteSet(Renderers) /\ IsFiniteSet(Folders)
  /\ None \notin Folders \cup Vaults /\ NoProject \notin Folders \cup {None}
  /\ Create \notin Projects

VARIABLES
  unlocked, epoch, active,
  vaultRevision,  \* as published to the handlers
  revision, path, \* the documents on disk
  grants,         \* by renderer, the oldest first
  pick,           \* a folder dialog, or None
  discovery,      \* a search for projects under a folder, or None
  change,         \* the vault command in the storage queue, or None
  strays,         \* lookups that outlive the command that failed
  switching,      \* a vault switch, or None
  export,         \* an .env export, or None
  dotenv, ignored, \* by folder: who wrote .env, and whether git ignores it
  shown,          \* history: the paths as last published
  balance,        \* history: selections of a key not yet spent on a path
  left            \* the selections and exports that are left

session == <<unlocked, epoch, active, vaultRevision, switching>>
disk    == <<revision, path, shown>>
files   == <<dotenv, ignored>>
count   == <<balance, left>>
vars    == <<session, disk, files, grants, pick, discovery, change, strays,
             export, count>>

Targets  == Projects \cup {Create}
PathKeys == [purpose : {"project-local-path"}, target : Targets, folder : Folders]
ScanKeys == [purpose : {"scan-parent"}, target : {Create}, folder : Folders]
Keys     == PathKeys \cup ScanKeys
PathKey(t, f) == [purpose |-> "project-local-path", target |-> t, folder |-> f]
ScanKey(f)    == [purpose |-> "scan-parent", target |-> Create, folder |-> f]

Init ==
  /\ unlocked = FALSE /\ epoch = 0 /\ active \in {Home[p] : p \in Projects}
  /\ vaultRevision = 0 /\ revision = [v \in Vaults |-> 1]
  /\ \E s \in Starts : path = s.path /\ left = s.left
  /\ grants = [r \in Renderers |-> <<>>]
  /\ pick = None /\ discovery = None /\ change = None /\ strays = {}
  /\ switching = None /\ export = None
  /\ dotenv = [f \in Folders |-> None] /\ ignored = [f \in Folders |-> FALSE]
  /\ shown = path /\ balance = [k \in PathKeys |-> 0]

(* The handle, or the key, of scope e is the current one. *)
Current(e) == unlocked /\ epoch = e

-------------------------------------------------------------------------------
(* projectCapabilities.ts *)

(* A key granted again keeps its place; over the limit the oldest goes. *)
Granted(s, k) ==
  LET t == IF Contains(s, k) THEN s ELSE Append(s, k)
  IN  IF Len(t) > Limit THEN Tail(t) ELSE t

GrantedAll(s, ks) == FoldSet(LAMBDA k, t : Granted(t, k), s, ks)

SpentNever(s, k) == s                                 \* the grant is not consumed
Spent(s, k) == RemoveFirst(s, k)

Grant(r, ks) ==
  /\ grants' = [grants EXCEPT ![r] = GrantedAll(@, ks)]
  /\ balance' = [k \in PathKeys |-> balance[k] + (IF k \in ks THEN 1 ELSE 0)]
  /\ left' = [left EXCEPT !.grants = @ - 1]

Spend(r, k) == grants' = [grants EXCEPT ![r] = Spent(@, k)]

revokeAll == grants' = [r \in Renderers |-> <<>>]

revokeRenderer(r) ==
  /\ grants[r] # <<>> /\ grants' = [grants EXCEPT ![r] = <<>>]
  /\ UNCHANGED <<session, disk, files, pick, discovery, change, strays, export, count>>

Expire(r, k) ==
  /\ Contains(grants[r], k) /\ Spend(r, k)
  /\ UNCHANGED <<session, disk, files, pick, discovery, change, strays, export, count>>

InProgress ==
  LET calls == <<pick, discovery, change, switching, export>>
  IN Cardinality({i \in DOMAIN calls : calls[i] # None})
MayStart == unlocked /\ InProgress < MaxOpen

(* A switch is in the storage queue as soon as the key has rotated: what   *)
(* begins after the rotation reads the document after the switch.          *)
SwitchQueued == switching # None /\ switching.at = "rotated"
MayRead == MayStart /\ change = None /\ ~SwitchQueued

-------------------------------------------------------------------------------
(* pickFolder, for a new project or one there is: the key is compared      *)
(* after the dialog, the grant follows the lookup of the folder.           *)

PickFolder(r, k) ==
  /\ MayStart /\ pick = None /\ (k.target # Create => path[k.target] # NoProject)
  /\ pick' = [renderer |-> r, key |-> k, epoch |-> epoch, at |-> "dialog"]
  /\ UNCHANGED <<session, disk, files, grants, discovery, change, strays, export, count>>

Picked ==
  /\ pick # None /\ pick.at = "dialog"
  /\ \/ Current(pick.epoch) /\ pick' = [pick EXCEPT !.at = "lookup"]
     \/ pick' = None
  /\ UNCHANGED <<session, disk, files, grants, discovery, change, strays, export, count>>

GrantFolder ==
  /\ pick # None /\ pick.at = "lookup" /\ left.grants > 0
  /\ \/ Grant(pick.renderer, {pick.key})
     \/ UNCHANGED <<grants, count>>
  /\ pick' = None
  /\ UNCHANGED <<session, disk, files, discovery, change, strays, export>>

(* discover: the folders found under a granted parent are granted for a    *)
(* new project, unless the session or the vault changed meanwhile; the     *)
(* step is the read that follows the lookup of the parent.                 *)
Discover(r, f) ==
  /\ MayRead /\ discovery = None
  /\ Contains(grants[r], ScanKey(f)) /\ vaultRevision = revision[active]
  /\ discovery' = [renderer |-> r, parent |-> f, epoch |-> epoch,
                   revision |-> vaultRevision]
  /\ UNCHANGED <<session, disk, files, grants, pick, change, strays, export, count>>

Discovered ==
  /\ discovery # None /\ left.grants > 0
  /\ Current(discovery.epoch) /\ vaultRevision = discovery.revision
  /\ Grant(discovery.renderer,
           {PathKey(Create, f) : f \in {g \in Folders : <<g, discovery.parent>> \in Inside}})
  /\ discovery' = None
  /\ UNCHANGED <<session, disk, files, pick, change, strays, export>>

DiscoverFails ==
  /\ discovery # None /\ discovery' = None
  /\ UNCHANGED <<session, disk, files, grants, pick, change, strays, export, count>>

-------------------------------------------------------------------------------
(* env-project.create, update and update-many, and any other command (that *)
(* sets no path): in the storage queue, under a handle of its session.     *)

Sets(p, f)  == [project |-> p, folder |-> f]
Mine        == {p \in Projects : Home[p] = active}

(* The paths a command may set: one new project, or several existing ones. *)
Creations == {{Sets(p, f)} : p \in {q \in Mine : path[q] = NoProject}, f \in Folders}
Updates   == UNION {{{Sets(p, to[p]) : p \in moved} : to \in [moved -> Folders]} :
                      moved \in SUBSET {p \in Mine : path[p] # NoProject}}

(* A path the project already stores needs no grant. *)
Wanted(kind, sets) ==
  {PathKey(IF kind = "create" THEN Create ELSE s.project, s.folder) :
     s \in {t \in sets : path[t.project] # t.folder}}

Command(r, kind, sets) ==
  /\ MayRead /\ FoldFunction(+, 0, revision) < Cardinality(Vaults) + MaxCommits
  /\ change' = [renderer |-> r, epoch |-> epoch, vault |-> active, sets |-> sets,
                keys |-> Wanted(kind, sets), look |-> Wanted(kind, sets), spend |-> {},
                at |-> "authorize"]
  /\ UNCHANGED <<session, disk, files, grants, pick, discovery, strays, export, count>>

(* requireProjectFolder without consume, then with it: each finds the      *)
(* folder and its key, or the command fails and the others go on.          *)
Fails(k) ==
  /\ change' = None
  /\ strays' = strays \cup {[renderer |-> change.renderer, key |-> j] :
                              j \in (change.look \cup change.spend) \ {k}}
  /\ UNCHANGED grants

Look(k) ==
  /\ change # None /\ k \in change.look
  /\ \/ /\ Contains(grants[change.renderer], k)
        /\ change' = [change EXCEPT !.look = @ \ {k}, !.spend = @ \cup {k}]
        /\ UNCHANGED <<grants, strays>>
     \/ Fails(k)
  /\ UNCHANGED <<session, disk, files, pick, discovery, export, count>>

Consume(k) ==
  /\ change # None /\ k \in change.spend
  /\ \/ /\ Contains(grants[change.renderer], k) /\ Spend(change.renderer, k)
        /\ change' = [change EXCEPT !.spend = @ \ {k}]
        /\ UNCHANGED strays
     \/ Fails(k)
  /\ UNCHANGED <<session, disk, files, pick, discovery, export, count>>

(* A lookup whose command is gone still spends the grant it finds. *)
Stray(s) ==
  /\ s \in strays /\ strays' = strays \ {s}
  /\ \/ Spend(s.renderer, s.key)
     \/ UNCHANGED grants
  /\ UNCHANGED <<session, disk, files, pick, discovery, change, export, count>>

Authorized ==
  /\ change # None /\ change.at = "authorize" /\ change.look = {} /\ change.spend = {}
  /\ Current(change.epoch)
  /\ change' = [change EXCEPT !.at = "commit"]
  /\ UNCHANGED <<session, disk, files, grants, pick, discovery, strays, export, count>>

Commit ==
  /\ change # None /\ change.at = "commit"
  /\ path' = [p \in Projects |->
                IF \E s \in change.sets : s.project = p
                THEN (CHOOSE s \in change.sets : s.project = p).folder ELSE path[p]]
  /\ revision' = [revision EXCEPT ![change.vault] = @ + 1]
  /\ balance' = [k \in PathKeys |-> balance[k] - (IF k \in change.keys THEN 1 ELSE 0)]
  /\ change' = [change EXCEPT !.at = "publish"]
  /\ UNCHANGED <<session, shown, files, grants, pick, discovery, strays, export, left>>

Publish ==
  /\ change # None /\ change.at = "publish"
  /\ vaultRevision' = revision[change.vault] /\ shown' = path /\ change' = None
  /\ UNCHANGED <<unlocked, epoch, active, switching, revision, path, files, grants,
                 pick, discovery, strays, export, count>>

CommandFails ==
  /\ change # None /\ change.at \in {"authorize", "commit"}
  /\ change.look = {} /\ change.spend = {}
  /\ change' = None
  /\ UNCHANGED <<session, disk, files, grants, pick, discovery, strays, export, count>>

-------------------------------------------------------------------------------
(* exportEnv and writeProjectEnvFile.  Every commit is authorized again:   *)
(* the handle is current and the revision the one that was confirmed.      *)

ApprovedByRevision == vaultRevision = export.revision \* no handle is checked
Approved == Current(export.epoch) /\ vaultRevision = export.revision

(* The document names the folder, never the renderer; a lock during its    *)
(* read ends the export.                                                   *)
ExportEnv(p, overwrite, ignore) ==
  /\ MayRead /\ export = None /\ left.exports > 0
  /\ left' = [left EXCEPT !.exports = @ - 1]
  /\ vaultRevision = revision[active] /\ Home[p] = active /\ path[p] \in Folders
  /\ export' = [epoch |-> epoch, revision |-> vaultRevision, project |-> p,
                folder |-> path[p], overwrite |-> overwrite, ignore |-> ignore,
                existed |-> FALSE, at |-> "confirm"]
  /\ UNCHANGED <<session, disk, files, grants, pick, discovery, change, strays, balance>>

(* The dialog and Touch ID. *)
ExportConfirmed ==
  /\ export # None /\ export.at = "confirm" /\ Approved
  /\ export' = [export EXCEPT !.at = "audit"]
  /\ UNCHANGED <<session, disk, files, grants, pick, discovery, change, strays, count>>

(* The durable entry is written, then the handle checked; git does not     *)
(* track the file, and it is not there or may be replaced.                 *)
ExportLooks ==
  /\ export # None /\ export.at = "audit" /\ Approved
  /\ (dotenv[export.folder] = None \/ export.overwrite)
  /\ export' = [export EXCEPT !.at = IF export.ignore THEN "ignore" ELSE "write",
                              !.existed = dotenv[export.folder] # None]
  /\ UNCHANGED <<session, disk, files, grants, pick, discovery, change, strays, count>>

ExportIgnores ==
  /\ export # None /\ export.at = "ignore" /\ (ignored[export.folder] \/ Approved)
  /\ ignored' = [ignored EXCEPT ![export.folder] = TRUE]
  /\ export' = [export EXCEPT !.at = "write"]
  /\ UNCHANGED <<session, disk, dotenv, grants, pick, discovery, change, strays, count>>

LinkableAlways     == TRUE                            \* renamed over the user's file

(* A new file is linked, which fails when one appeared meanwhile; an       *)
(* approved replacement is renamed over whatever is there.                 *)
Linkable == export.existed \/ dotenv[export.folder] = None

ExportWrites ==
  /\ export # None /\ export.at = "write" /\ Approved /\ Linkable
  /\ dotenv' = [dotenv EXCEPT ![export.folder] = "vaultage"]
  /\ export' = None
  /\ UNCHANGED <<session, disk, ignored, grants, pick, discovery, change, strays, count>>

(* Refused, cancelled or failed at any point. *)
ExportEnds ==
  /\ export # None /\ export' = None
  /\ UNCHANGED <<session, disk, files, grants, pick, discovery, change, strays, count>>

(* The user's edits, which tell only from the file an export is about; the *)
(* line in .gitignore is left alone.                                       *)
UserEdits(who) ==
  /\ export # None /\ dotenv[export.folder] # who
  /\ dotenv' = [dotenv EXCEPT ![export.folder] = who]
  /\ UNCHANGED <<session, disk, ignored, grants, pick, discovery, change, strays,
                 export, count>>

-------------------------------------------------------------------------------
(* index.ts: a lock waits for the handles out before the key may return. *)

Unlock ==
  /\ ~unlocked /\ epoch < MaxEpoch
  /\ change = None /\ export = None /\ switching = None
  /\ unlocked' = TRUE /\ epoch' = epoch + 1
  /\ vaultRevision' = revision[active] /\ shown' = path
  /\ UNCHANGED <<active, switching, revision, path, files, grants, pick, discovery,
                 change, strays, export, count>>

Lock ==
  /\ unlocked' = FALSE /\ revokeAll
  /\ UNCHANGED <<epoch, active, vaultRevision, switching, disk, files, pick, discovery,
                 change, strays, export, count>>

(* beforeVaultScopeChange, then the switch in the storage queue. *)
Rotate ==
  /\ MayStart /\ switching = None /\ epoch < MaxEpoch
  /\ epoch' = epoch + 1 /\ revokeAll
  /\ switching' = [epoch |-> epoch + 1, at |-> "rotated"]
  /\ UNCHANGED <<unlocked, active, vaultRevision, disk, files, pick, discovery, change,
                 strays, export, count>>

SwitchVault(v) ==
  /\ switching # None /\ switching.at = "rotated" /\ change = None
  /\ Current(switching.epoch) /\ v # active
  /\ active' = v /\ switching' = [switching EXCEPT !.at = "publish"]
  /\ UNCHANGED <<unlocked, epoch, vaultRevision, disk, files, grants, pick, discovery,
                 change, strays, export, count>>

PublishSwitch ==
  /\ switching # None /\ switching.at = "publish" /\ change = None
  /\ switching' = None /\ vaultRevision' = revision[active]
  /\ UNCHANGED <<unlocked, epoch, active, disk, files, grants, pick, discovery, change,
                 strays, export, count>>

SwitchFails ==
  /\ switching # None /\ switching' = None
  /\ UNCHANGED <<unlocked, epoch, active, vaultRevision, disk, files, grants, pick,
                 discovery, change, strays, export, count>>

-------------------------------------------------------------------------------
Next ==
  \/ \E r \in Renderers :
       \/ revokeRenderer(r)
       \/ \E k \in Keys : Expire(r, k) \/ PickFolder(r, k)
       \/ \E f \in Folders : Discover(r, f)
       \/ \E ss \in Creations : Command(r, "create", ss)
       \/ \E ss \in Updates : Command(r, "update", ss)
  \/ Picked \/ GrantFolder
  \/ Discovered \/ DiscoverFails
  \/ \E k \in PathKeys : Look(k) \/ Consume(k)
  \/ \E s \in strays : Stray(s)
  \/ Authorized \/ Commit \/ Publish \/ CommandFails
  \/ \E p \in Projects, o, i \in BOOLEAN : ExportEnv(p, o, i)
  \/ ExportConfirmed \/ ExportLooks \/ ExportIgnores \/ ExportWrites
  \/ ExportEnds
  \/ \E who \in {None, "user"} : UserEdits(who)
  \/ Unlock \/ Lock \/ Rotate \/ SwitchFails \/ PublishSwitch
  \/ \E v \in Vaults : SwitchVault(v)

Spec == Init /\ [][Next]_vars

-------------------------------------------------------------------------------
Picks == [renderer : Renderers, key : Keys, epoch : Nat, at : {"dialog", "lookup"}]
Discoveries == [renderer : Renderers, parent : Folders, epoch : Nat, revision : Nat]
Settings == [project : Projects, folder : Folders]
Changes == [renderer : Renderers, epoch : Nat, vault : Vaults, sets : SUBSET Settings,
            keys : SUBSET PathKeys, look : SUBSET PathKeys, spend : SUBSET PathKeys,
            at : {"authorize", "commit", "publish"}]
Exports == [epoch : Nat, revision : Nat, project : Projects, folder : Folders,
            overwrite : BOOLEAN, ignore : BOOLEAN, existed : BOOLEAN,
            at : {"confirm", "audit", "ignore", "write"}]

ASSUME NoneAssumption ==
  /\ None \notin Picks \cup Discoveries \cup Changes \cup Exports
  /\ None \notin {"user", "vaultage"}

TypeOK ==
  /\ unlocked \in BOOLEAN /\ epoch \in Nat /\ active \in Vaults /\ vaultRevision \in Nat
  /\ revision \in [Vaults -> Nat]
  /\ path \in [Projects -> Folders \cup {None, NoProject}]
  /\ shown \in [Projects -> Folders \cup {None, NoProject}]
  /\ grants \in [Renderers -> Seq(Keys)]
  /\ pick \in Picks \cup {None} /\ discovery \in Discoveries \cup {None}
  /\ change \in Changes \cup {None} /\ export \in Exports \cup {None}
  /\ strays \subseteq [renderer : Renderers, key : PathKeys]
  /\ switching \in [epoch : Nat, at : {"rotated", "publish"}] \cup {None}
  /\ dotenv \in [Folders -> {None, "user", "vaultage"}]
  /\ ignored \in [Folders -> BOOLEAN] /\ balance \in [PathKeys -> Int]
  /\ left \in [grants : Nat, exports : Nat]

(* No folder reaches the document by one selection twice: each time a      *)
(* command stores a path, the user picked that folder for that project, or *)
(* for a new one, and no command stored it on that selection before,       *)
(* whatever expires, is evicted or revoked, and whatever another command,  *)
(* or the rest of one that failed, looks up at the time                    *)
(* (projectMutationAuthorization.ts:23-28, projectCapabilities.ts:119-138).*)
(* Every grant, and every one a command has spent and not yet committed,   *)
(* stands for a selection of its own, so the balance never runs out.       *)
Holds(k) == Cardinality({r \in Renderers : Contains(grants[r], k)})
Taken(k) == IF change # None /\ change.at # "publish"
                 /\ k \in change.keys \ (change.look \cup change.spend)
            THEN 1 ELSE 0
Accounted ==
  /\ \A r \in Renderers : IsInjective(grants[r]) /\ Len(grants[r]) <= Limit
  /\ \A k \in PathKeys : balance[k] >= Holds(k) + Taken(k)


(* What the proofs need besides: a document that is not published yet is   *)
(* the one a command has just stored; a command is of the active vault,    *)
(* and holds all its grants when it commits.                               *)
ShownIsStored == (change = None \/ change.at # "publish") => shown = path
CommandsOfTheActive ==
  change # None =>
    /\ change.vault = active
    /\ change.at # "authorize" => change.look = {} /\ change.spend = {}

(* While the scope of an export lasts, its vault stays the active one; its *)
(* revision stands for the folder that was stored, and that was shown.     *)
ExportsOfOneRevision ==
  export # None /\ Current(export.epoch) =>
    /\ ~(SwitchQueued /\ Current(switching.epoch))
    /\ export.revision <= revision[active]
    /\ export.revision = revision[active] => path[export.project] = export.folder
    /\ export.revision = vaultRevision => shown[export.project] = export.folder
ExportsPrepared ==
  export # None =>
    /\ export.epoch <= epoch /\ (export.existed => export.overwrite)
    /\ export.at = "write" /\ export.ignore => ignored[export.folder]

IInv == /\ TypeOK /\ Accounted /\ ShownIsStored /\ CommandsOfTheActive
        /\ ExportsOfOneRevision /\ ExportsPrepared

Writes(f) == dotenv'[f] # dotenv[f] /\ dotenv'[f] = "vaultage"

(* Secrets are written only while the session that confirmed the export is *)
(* open, into the folder that the last acknowledged document names for the *)
(* project, though the user may lock, switch vaults or move the project    *)
(* during each of the waits (projectIpc.ts:249-261).                       *)
ExportsWhereAcknowledged ==
  \A f \in Folders : Writes(f) =>
    /\ Current(export.epoch)
    /\ shown[export.project] = f /\ export.folder = f

(* A file the user put there is replaced only by an export that was        *)
(* approved to replace one, and the git rule asked for is in place before  *)
(* the secrets are (envFile.ts:81-99, 233-247).                            *)
ReplacesOnlyApproved ==
  \A f \in Folders : Writes(f) =>
    /\ dotenv[f] = "user" => export.overwrite
    /\ export.ignore => ignored[f]

(* A lock ends every grant of the session (index.ts:629).                  *)
GrantsEndWithTheirSession == ~unlocked => \A r \in Renderers : grants[r] = <<>>
=============================================================================
