------------------------------ MODULE SecretForm ------------------------------
(***************************************************************************)
(* The editing of a secret whose values the renderer never has: the main   *)
(* process puts a placeholder in the place of every sensitive value        *)
(* (vaultRedaction.ts), a form is opened on the redacted copy, edited, and *)
(* saved whole (AddSecretModal.open.tsx, SecretDetail.open.tsx), and the   *)
(* main process puts the values back (vaultCommandMutations.ts).  Images   *)
(* and certificates come into the form by reads that take their time.      *)
(*                                                                         *)
(* A field of the form also carries what it stands for, and a request what *)
(* its author meant by it: history variables that no code has.             *)
(***************************************************************************)
EXTENDS Naturals, FiniteSets, SequencesExt, FiniteSetsExt

CONSTANTS Secrets, Values, Images, Keys,
          Typed,        \* bound: the values that are entered
          Blank,        \* the empty text: a value, a key or notes
          Redacted,     \* REDACTED_SECRET_VALUE
          ImageKey, CertificateKey,
          None,
          Types,        \* of secrets; among them "secureNote", "image", "certificate"
          Template,     \* SECRET_TEMPLATES: by type, the fields of a new secret
          Documents,    \* by name: what a behaviour may start from, a document by secret
          Casts         \* bound: the start of one behaviour, its kinds of step, the edits
                        \* of a form, the saves and the commits of others

VARIABLES
  stored,    \* by secret: its document, or None once deleted
  revision,
  usage,     \* the revisions that only counted uses
  ids,       \* the number of field ids given out
  view,      \* the snapshot the renderer has
  form,      \* the open form, or None
  reads,     \* the files being read for it
  queue,     \* saves on their way, in order
  saves, writes,
  cast       \* the bounds of this behaviour

vault == <<stored, revision, usage, ids>>
vars  == <<vault, view, form, reads, queue, saves, writes, cast>>

-----------------------------------------------------------------------------
(* Redaction and its inverse. *)

\* Fields of earlier versions have no id: the n-th of a key gets one made of the two.
WithIds(s, fields) ==
  [i \in DOMAIN fields |->
     [fields[i] EXCEPT !.id =
        IF @ # None THEN @
        ELSE <<s, fields[i].key, Cardinality({j \in 1..i : fields[j].key = fields[i].key})>>]]

Redact(s, d) ==
  LET note == d.type = "secureNote"
  IN [d EXCEPT !.notes = IF note /\ @ # Blank THEN Redacted ELSE @,
               !.fields = [i \in DOMAIN @ |->
                  LET f == WithIds(s, @)[i]
                  IN [f EXCEPT !.sensitive = note \/ @,
                               !.value = IF (note \/ f.sensitive) /\ @ # Blank
                                         THEN Redacted ELSE @]]]

\* Mutant of Behind: the fields are found by their place, not by their id.
BehindByKey(d, fieldId) == {Head(d.fields).value}

\* What a placeholder of a field with this id stands for in d.
Behind(d, fieldId) == {f.value : f \in {g \in ToSet(d.fields) : g.id = fieldId}}

Unresolved(incoming, current) ==
  \E f \in ToSet(incoming.fields) :
     /\ f.value = Redacted
     /\ \/ ~(f.sensitive \/ incoming.type = "secureNote")
        \/ f.id = None
        \/ Behind(current, f.id) = {}

Merge(incoming, current) ==
  [incoming EXCEPT !.notes = IF @ = Redacted THEN current.notes ELSE @,
                   !.fields = [i \in DOMAIN @ |->
                      [@[i] EXCEPT !.sensitive = @ \/ incoming.type = "secureNote",
                                   !.value = IF @ = Redacted
                                             THEN CHOOSE v \in Behind(current, incoming.fields[i].id) : TRUE
                                             ELSE @]]]

\* Mutant of ensureSecretFieldIds: the new fields of one save get one id.
OneFieldId(fields) ==
  [i \in DOMAIN fields |-> [fields[i] EXCEPT !.id = IF @ # None THEN @ ELSE <<"field", ids + 1>>]]

\* A field that has no id yet is given a new one.
ensureSecretFieldIds(fields) ==
  [i \in DOMAIN fields |->
     [fields[i] EXCEPT !.id =
        IF @ # None THEN @
        ELSE <<"field", ids + Cardinality({j \in 1..i : fields[j].id = None})>>]]

\* What the canonical validator asks of a secret.
Valid(d) ==
  /\ \A f \in ToSet(d.fields) : f.key # Blank /\ f.value # Redacted
  /\ \A i, j \in DOMAIN d.fields : d.fields[i].id = d.fields[j].id => i = j
  /\ d.notes # Redacted
  /\ (d.certificate # None) = (d.type = "certificate")
  /\ d.type = "image" =>
       \E i \in DOMAIN d.fields :
         /\ d.fields[i].key = ImageKey /\ d.fields[i].sensitive
         /\ d.fields[i].value \in Images \cup {Blank}
         /\ \A j \in DOMAIN d.fields : d.fields[j].key = ImageKey => i = j

\* A secret as its owner knows it: without ids.
Plain(d) ==
  [d EXCEPT !.fields = [i \in DOMAIN @ |-> [key |-> @[i].key, sensitive |-> @[i].sensitive,
                                            value |-> @[i].value]]]

\* All that a hidden value's owner gives up: a secure note hides every field.
Meant(d) ==
  [Plain(d) EXCEPT !.fields = [i \in DOMAIN @ |->
     [@[i] EXCEPT !.sensitive = @ \/ d.type = "secureNote"]]]

Normal(docs) ==
  [s \in Secrets |-> IF docs[s] = None THEN None
                     ELSE [docs[s] EXCEPT !.fields = WithIds(s, @)]]

-----------------------------------------------------------------------------
Init ==
  /\ cast \in Casts /\ stored = Documents[cast.from]
  /\ revision = 1 /\ usage = {} /\ ids = 0
  /\ view = [docs |-> stored, revision |-> 1]
  /\ form = None /\ reads = {} /\ queue = <<>>
  /\ saves = 0 /\ writes = 0

(* The form. *)

\* A field as the form shows it, and what it stands for.
Field(id, key, sensitive, value, means) ==
  [id |-> id, key |-> key, sensitive |-> sensitive, value |-> value, means |-> means]

FromTemplate(t) ==
  [i \in DOMAIN Template[t] |->
     Field(None, Template[t][i].key, Template[t][i].sensitive, Blank, Blank)]

Shown(s) == Redact(s, view.docs[s])

Open(s) ==
  /\ form = None /\ view.docs[s] # None
  /\ form' = [secret |-> s, target |-> s, revision |-> view.revision,
              type |-> Shown(s).type, notes |-> Shown(s).notes,
              notesMean |-> view.docs[s].notes, certificate |-> Shown(s).certificate,
              fields |-> [i \in DOMAIN Shown(s).fields |->
                 LET f == Shown(s).fields[i]
                 IN Field(f.id, f.key, f.sensitive, f.value, view.docs[s].fields[i].value)],
              gate |-> 0, picked |-> 0, cleared |-> 0, finished |-> 0,
              edits |-> 0, saving |-> 0]
  /\ UNCHANGED <<vault, view, reads, queue, saves, writes>>

\* The form is f after one more edit of the user's.
Edited(f) ==
  /\ form.edits < cast.edits
  /\ form' = [f EXCEPT !.edits = @ + 1]
  /\ UNCHANGED <<vault, view, queue, saves, writes>>

updateField(i, f) ==
  form.type # "image" /\ UNCHANGED reads /\ Edited([form EXCEPT !.fields[i] = f])

TypeValue(i, v) == updateField(i, [form.fields[i] EXCEPT !.value = v, !.means = v])
RenameKey(i, k) == updateField(i, [form.fields[i] EXCEPT !.key = k])
SetSensitive(i) == updateField(i, [form.fields[i] EXCEPT !.sensitive = ~@])

AddField ==
  /\ form.type # "image" /\ UNCHANGED reads
  /\ Edited([form EXCEPT !.fields = Append(@, Field(None, Blank, TRUE, Blank, Blank))])

removeField(i) ==
  /\ form.type # "image" /\ Len(form.fields) > 1 /\ UNCHANGED reads
  /\ Edited([form EXCEPT !.fields = RemoveAt(@, i)])

SetNotes(v) ==
  UNCHANGED reads /\ Edited([form EXCEPT !.notes = v, !.notesMean = v])

\* Mutant: a change of type keeps what a reading of another type brings.
GateKept == form.gate

\* The reads begun before are not current any more.
Invalidated == form.gate + 1

\* Of a type that does not keep them, the fields are the template's; a hidden value is
\* kept with its field.
changeType(t) ==
  /\ UNCHANGED reads
  /\ Edited([form EXCEPT
       !.type = t, !.gate = Invalidated, !.cleared = form.gate + 1, !.picked = 0,
       !.fields = IF form.type # "image" /\ t # "image" THEN @ ELSE FromTemplate(t),
       !.certificate = IF t # "certificate" THEN None
                       ELSE IF view.docs[form.target].certificate # None
                       THEN view.docs[form.target].certificate ELSE "PEM"])

ImageField(v) ==
  LET old == {i \in DOMAIN form.fields : form.fields[i].key = ImageKey}
      id  == IF old = {} THEN None ELSE form.fields[Min(old)].id
  IN << Field(id, ImageKey, TRUE, v, v) >>

clearImageData ==
  /\ form.type = "image" /\ UNCHANGED reads
  /\ \E f \in ToSet(form.fields) : f.key = ImageKey /\ f.value # Blank
  /\ Edited([form EXCEPT !.gate = Invalidated, !.cleared = form.gate + 1, !.picked = 0,
                         !.fields = ImageField(Blank)])

PasteImage(v) ==
  /\ form.type = "image"
  /\ reads' = reads \cup {[kind |-> "image", at |-> form.gate + 1, value |-> v]}
  /\ Edited([form EXCEPT !.gate = @ + 1])

\* Mutant of isCurrent: every read that ends is taken.
isCurrentAlways(r) == TRUE

isCurrent(r) == r.at = form.gate

\* A read ends, well or not; only the latest one's image is taken.
ImageRead(r) ==
  /\ r.kind = "image" /\ reads' = reads \ {r}
  /\ \/ /\ isCurrent(r)
        /\ form' = [form EXCEPT !.fields = ImageField(r.value), !.picked = r.at,
                                !.finished = Max({@, r.at})]
     \/ UNCHANGED form
  /\ UNCHANGED <<vault, view, queue, saves, writes>>

\* A panel's button waits for its own read; a new panel comes with a new choice of type.
PreviewCertificate(v) ==
  /\ form.certificate # None
  /\ reads' = reads \cup {[kind |-> "certificate", at |-> form.edits, value |-> v]}
  /\ Edited(form)

\* Its answer goes into the form that is there, of whatever type it is by now.
CertificateRead(r) ==
  /\ r.kind = "certificate" /\ reads' = reads \ {r}
  /\ LET at == {i \in DOMAIN form.fields : form.fields[i].key = CertificateKey}
         f  == Field(None, CertificateKey, TRUE, r.value, r.value)
     IN \/ form' = [form EXCEPT !.certificate = "PEM",
                      !.fields = IF at = {} THEN Append(@, f)
                                 ELSE [@ EXCEPT ![Min(at)] = [f EXCEPT !.id = form.fields[Min(at)].id]]]
        \/ UNCHANGED form
  /\ UNCHANGED <<vault, view, queue, saves, writes>>

\* Another secret is selected under the open form.
SelectSecret(s) ==
  /\ view.docs[s] # None /\ s # form.target /\ UNCHANGED reads
  /\ Edited([form EXCEPT !.target = s])

Close ==
  /\ form # None /\ form' = None /\ reads' = {}
  /\ UNCHANGED <<vault, view, queue, saves, writes>>

-----------------------------------------------------------------------------
(* Saves. *)

\* Mutant of Authored: the form is saved to whatever secret is selected.
AuthoredByAny(f) == TRUE

\* The form is of the secret it was opened on.
Authored(f) == f.target = f.secret

\* A save of secret s: of the form, which was opened on secret `opened`, or of the page.
Asked(s, opened, at, doc, means) ==
  /\ saves < cast.saves /\ saves' = saves + 1
  /\ queue' = Append(queue,
       [at |-> "sent", save |-> saves', secret |-> s, opened |-> opened, form |-> form # None,
        revision |-> at,
        doc |-> doc, means |-> means, data |-> None])

\* A field without a name is dropped.
Clean(fields) == SelectSeq(fields, LAMBDA f : f.key # Blank)

HasImage(fields) ==
  LET at == {i \in DOMAIN fields : fields[i].key = ImageKey}
  IN at # {} /\ fields[Min(at)].value # Blank

Save ==
  /\ form # None /\ form.saving = 0
  /\ Clean(form.fields) # <<>>
  /\ form.type = "image" => HasImage(form.fields)
  /\ Authored(form)
  /\ LET said  == [Shown(form.target) EXCEPT !.type = form.type, !.notes = form.notes,
                                            !.certificate = form.certificate]
         clean == Clean(form.fields)
         doc   == [said EXCEPT !.fields = [i \in DOMAIN clean |->
                     [id |-> clean[i].id, key |-> clean[i].key,
                      sensitive |-> clean[i].sensitive, value |-> clean[i].value]]]
     IN Asked(form.target, form.secret, form.revision, doc,
              Meant([said EXCEPT !.notes = form.notesMean,
                       !.fields = [i \in DOMAIN clean |->
                                     [clean[i] EXCEPT !.value = clean[i].means]]]))
  /\ form' = [form EXCEPT !.saving = saves']
  /\ UNCHANGED <<vault, view, reads, writes>>

\* The detail page saves the secret whole, as it shows it, for one change of its own.
TogglePolicy(s) ==
  /\ form = None /\ view.docs[s] # None
  /\ Asked(s, s, view.revision, [Shown(s) EXCEPT !.policy = ~@],
           Meant([view.docs[s] EXCEPT !.policy = ~@]))
  /\ UNCHANGED <<vault, view, form, reads, writes>>

\* Somebody else changed the vault since, and did not just count a use.
Stale(r) == ~((r.revision + 1)..revision \subseteq usage)

Refused(r) ==
  LET now == Normal(stored)[r.secret]
      new == [Merge(r.doc, now) EXCEPT !.fields = ensureSecretFieldIds(@)]
  IN now = None \/ Unresolved(r.doc, now) \/ ~Valid(new)

Unnamed(r) == Cardinality({i \in DOMAIN r.doc.fields : r.doc.fields[i].id = None})

Judged(answer, docs, at) ==
  queue' = [queue EXCEPT ![1].at = answer, ![1].data = [docs |-> docs, revision |-> at]]

\* The oldest save reaches the main process, which answers it with the vault as it is.
updateSecret ==
  /\ queue # <<>> /\ Head(queue).at = "sent"
  /\ LET r == Head(queue)
     IN \/ Stale(r) /\ Judged("stale", stored, revision) /\ UNCHANGED vault
        \/ /\ ~Stale(r) /\ Refused(r)
           /\ Judged("refused", view.docs, view.revision) /\ UNCHANGED vault
        \/ /\ ~Stale(r) /\ ~Refused(r)
           /\ stored' = [Normal(stored) EXCEPT ![r.secret] =
                [Merge(r.doc, @) EXCEPT !.fields = ensureSecretFieldIds(@)]]
           /\ revision' = revision + 1 /\ ids' = ids + Unnamed(r) /\ UNCHANGED usage
           /\ Judged("saved", stored', revision')
  /\ UNCHANGED <<view, form, reads, saves, writes>>

\* The renderer takes a snapshot that is newer; a form of a secret that is gone goes.
Shows(data, f) ==
  /\ view' = IF data.revision > view.revision THEN data ELSE view
  /\ LET stays == f # None /\ view'.docs[f.target] # None
     IN /\ form' = IF stays THEN f ELSE None
        /\ reads' = IF stays THEN reads ELSE {}

\* The answer of a form's save closes the form that is open, be it another by now, or
\* lets its own be saved again.
Answer ==
  /\ queue # <<>> /\ Head(queue).at # "sent"
  /\ queue' = Tail(queue)
  /\ LET r == Head(queue)
     IN Shows(r.data,
          IF form = None \/ (r.at = "saved" /\ r.form) THEN None
          ELSE IF form.saving = r.save THEN [form EXCEPT !.saving = 0] ELSE form)
  /\ UNCHANGED <<vault, saves, writes>>

\* A change is published.
Published ==
  /\ view.revision < revision
  /\ Shows([docs |-> stored, revision |-> revision], form)
  /\ UNCHANGED <<vault, queue, saves, writes>>

(* Other writers: another window, the menu-bar panel, the counting of uses. *)
Wrote ==
  /\ writes < cast.writes /\ writes' = writes + 1 /\ revision' = revision + 1
  /\ UNCHANGED <<ids, view, form, reads, queue, saves>>

ChangeElsewhere(s, v) ==
  /\ stored[s] # None /\ UNCHANGED usage
  /\ v \in Images \equiv stored[s].type = "image"
  /\ stored' = [Normal(stored) EXCEPT ![s].fields[1].value = v]
  /\ Wrote

DeleteElsewhere(s) ==
  /\ stored[s] # None /\ UNCHANGED usage
  /\ stored' = [Normal(stored) EXCEPT ![s] = None]
  /\ Wrote

CountUse == usage' = usage \cup {revision + 1} /\ UNCHANGED stored /\ Wrote

FieldStep ==
  \E i \in DOMAIN form.fields :
     \/ \E v \in Typed \cup {Blank} : TypeValue(i, v)
     \/ \E k \in Keys \cup {Blank} : RenameKey(i, k)
     \/ SetSensitive(i)

ListStep ==
  \/ AddField
  \/ \E i \in DOMAIN form.fields : removeField(i)
  \/ \E v \in Typed : SetNotes(v)

ImageStep ==
  \/ \E v \in Images : PasteImage(v)
  \/ clearImageData
  \/ \E r \in reads : ImageRead(r)

CertificateStep ==
  \/ \E v \in Typed : PreviewCertificate(v)
  \/ \E r \in reads : CertificateRead(r)

FormStep ==
  /\ form # None
  /\ \/ "field" \in cast.steps /\ FieldStep
     \/ "list" \in cast.steps /\ ListStep
     \/ "type" \in cast.steps /\ \E t \in Types : changeType(t)
     \/ "image" \in cast.steps /\ ImageStep
     \/ "certificate" \in cast.steps /\ CertificateStep
     \/ "select" \in cast.steps /\ \E s \in Secrets : SelectSecret(s)

OtherStep ==
  /\ "others" \in cast.steps
  /\ \/ \E s \in Secrets : DeleteElsewhere(s)
     \/ \E s \in Secrets, v \in Typed \cup Images : ChangeElsewhere(s, v)
     \/ CountUse

Next ==
  /\ UNCHANGED cast
  /\ \/ \E s \in Secrets : Open(s)
     \/ FormStep \/ OtherStep
     \/ "page" \in cast.steps /\ \E s \in Secrets : TogglePolicy(s)
     \/ Close \/ Save \/ updateSecret \/ Answer \/ Published

Spec == Init /\ [][Next]_vars

-----------------------------------------------------------------------------
(* Properties. *)

Texts  == Values \cup Images \cup {Blank, Redacted}
Marks  == {"PEM", None}
Policy == BOOLEAN

IsDocument(d) ==
  /\ d.type \in Types /\ d.notes \in Texts /\ d.certificate \in Marks /\ d.policy \in Policy
  /\ \A f \in ToSet(d.fields) : f.key \in Keys \cup {ImageKey, CertificateKey, Blank}
                              /\ f.sensitive \in BOOLEAN /\ f.value \in Texts

\* The state is well typed.
TypeOK ==
  /\ revision \in Nat /\ usage \subseteq 1..revision /\ ids \in Nat
  /\ \A s \in Secrets : stored[s] # None => IsDocument(stored[s])
  /\ view.revision \in 1..revision
  /\ form # None => /\ form.secret \in Secrets /\ form.target \in Secrets
                    /\ form.type \in Types /\ form.saving \in 0..cast.saves
  /\ form = None => reads = {}
  /\ \A i \in DOMAIN queue :
       IsDocument(queue[i].doc) /\ queue[i].at \in {"sent", "stale", "refused", "saved"}

\* The image in a form is the one picked last: no reading that was begun before it, or
\* before the image was removed or the type changed, puts its own there
\* (AddSecretModal.open.tsx:136, imageIngestSecurity.ts:87).
ImageIsTheLastPicked ==
  form # None /\ form.picked # 0 => form.picked > form.cleared /\ form.picked >= form.finished

IInv == TypeOK /\ ImageIsTheLastPicked

Decided(answer) ==
  queue # <<>> /\ Head(queue).at = "sent" /\ queue' # <<>> /\ Head(queue').at = answer

\* A save puts into the secret that the form was opened on what its author meant: each
\* value typed, each value left hidden as it was when the form was opened, under its
\* name as it is now.  No other secret changes (vaultRedaction.ts:119, 137).
SavesAreMeant ==
  Decided("saved") =>
    \A s \in Secrets :
      IF s = Head(queue).opened
      THEN stored'[s] # None /\ Plain(stored'[s]) = Head(queue).means
      ELSE Normal(stored)[s] = stored'[s]

\* A save that nobody overtook is refused for what its author did only: a hidden value
\* was made public unseen, or the answer of a certificate came into another type.
RefusesForAReason ==
  Decided("refused") =>
    LET d == Head(queue).doc
    IN \/ \E f \in ToSet(d.fields) : f.value = Redacted /\ ~f.sensitive
       \/ d.type # "certificate" /\ d.certificate # None
==============================================================================
