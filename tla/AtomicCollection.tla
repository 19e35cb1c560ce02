--------------------------- MODULE AtomicCollection ---------------------------
(***************************************************************************)
(* What the vault collection promises its callers: a set of vaults, each   *)
(* with its whole content, one of them active, where every operation takes *)
(* effect at once or not at all and touches only the vault it names.       *)
(***************************************************************************)
EXTENDS FiniteSets

CONSTANTS Vaults, Contents, Default, None

VARIABLES content,   \* by vault: its content, or None
          active, archived,
          saved      \* the last backup, or None

vars == <<content, active, archived, saved>>

Present == {v \in Vaults : content[v] # None}

Init ==
  /\ content \in [Vaults -> Contents \cup {None}]
  /\ active \in Present
  /\ archived \in SUBSET (Present \ {active})
  /\ saved \in {None} \cup [content : [Vaults -> Contents \cup {None}],
                            active : Vaults, archived : SUBSET Vaults]

\* A document update changes the active vault.
Edit(c) ==
  /\ content' = [content EXCEPT ![active] = c]
  /\ UNCHANGED <<active, archived, saved>>

\* A new vault is selected.
Create(v) ==
  /\ v \notin Present
  /\ content' = [content EXCEPT ![v] = Default]
  /\ active' = v
  /\ UNCHANGED <<archived, saved>>

Switch(v) ==
  /\ v \in Present \ archived
  /\ active' = v
  /\ UNCHANGED <<content, archived, saved>>

Archive(v) ==
  /\ v \in Present \ {active}
  /\ archived' = archived \cup {v}
  /\ UNCHANGED <<content, active, saved>>

Unarchive(v) ==
  /\ v \in archived
  /\ archived' = archived \ {v}
  /\ UNCHANGED <<content, active, saved>>

Delete(v) ==
  /\ v \in archived
  /\ content' = [content EXCEPT ![v] = None]
  /\ archived' = archived \ {v}
  /\ UNCHANGED <<active, saved>>

Backup ==
  /\ saved' = [content |-> content, active |-> active, archived |-> archived]
  /\ UNCHANGED <<content, active, archived>>

Restore ==
  /\ saved # None
  /\ content' = saved.content /\ active' = saved.active /\ archived' = saved.archived
  /\ UNCHANGED saved

Next ==
  \/ \E c \in Contents : Edit(c)
  \/ \E v \in Vaults : Create(v) \/ Switch(v) \/ Archive(v) \/ Unarchive(v) \/ Delete(v)
  \/ Backup \/ Restore

Spec == Init /\ [][Next]_vars
=============================================================================
