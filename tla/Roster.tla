-------------------------------- MODULE Roster -------------------------------
(***************************************************************************)
(* The member records and the scripts of web/scripts that write them: the  *)
(* import of the curated dataset, the photos and the standing taken from   *)
(* the group's old team page, the full names and the PhD roster.  A script *)
(* reads all members once, walks through its source and writes one record  *)
(* at a time, while people go on editing profiles in the admin panel.      *)
(* A name is a sequence of words; the flags that say which contacts are    *)
(* shown, and the provenance of a contact, are left out.                   *)
(***************************************************************************)
EXTENDS Integers, Sequences, FiniteSets, FiniteSetsExt

CONSTANTS
    Fold,           \* Fold[w]: the word w in lower case and without accents
    Seed,           \* the members the seed dump brings
    Dataset,        \* data/mlkd-members-update.json, in its order
    Team,           \* the cards of the team page, in its order
    Pins,           \* Pins[f]: the member legacy-photo-aliases.mjs pins file f to
    Lists,          \* the entries of the two alunos-*.md that have a contact
    Doctors,        \* the entries of alunos-doutoramento.md
    IncludeWeak,    \* MEMBER_PHOTOS_INCLUDE_WEAK
    Spellings,      \* Spellings[q]: the names people may give to person q
    MaxMembers,     \* bound: member records
    MaxUpsets       \* bound: edits people make, writes and fetches that fail
                    \* and scripts that die, all together

VARIABLES
    members,        \* members[i]: the record with id i; ids are given in order
    media,          \* media[m]: the upload m, who it shows and who made it
    job,            \* the script that is running
    faults, edits,  \* how many of each there have been
    settled,        \* scripts with a whole run since the last other write (history)
    lost            \* uploads that a failure, a crash or a person set aside (history)

vars == <<members, media, job, faults, edits, settled, lost>>

Roles == {"faculty", "researcher", "postdoc", "phd", "msc"}
Statuses == {"active", "completed"}
Kinds == {"email", "linkedin"}
None == 0
Ambiguous == -1
Scripts == {"import", "photos", "names", "status", "phd"}

(* normalizeName and firstLastKey.                                         *)
Key(name) == [k \in DOMAIN name |-> Fold[name[k]]]
FirstLastKey(name) ==
    IF Len(name) < 2 THEN Key(name) ELSE <<Fold[name[1]], Fold[name[Len(name)]]>>

NoContact == [k \in Kinds |-> ""]

(* A slug is made from the name when the record is created and stays.      *)
Record(person, name, role, status, contact, orcid) ==
    [person |-> person, name |-> name, slug |-> Key(name), role |-> role,
     status |-> status, contact |-> contact, orcid |-> orcid, photo |-> None]

NoJob == [script |-> "none", snap |-> <<>>, at |-> 1, done |-> {}, target |-> None,
          upload |-> None, failed |-> FALSE, disturbed |-> FALSE]

(* What the sources and the records hold.                                  *)
Values == {"", "own"} \cup STRING
People == DOMAIN Spellings
PersonNames == Seq(DOMAIN Fold)
Uploads == [by: {"script", "person"}, shows: People]
Records ==
    [person: People, name: PersonNames, slug: Seq({Fold[w] : w \in DOMAIN Fold}), role: Roles,
     status: Statuses, contact: [Kinds -> Values], orcid: Values, photo: Nat]
Entries ==
    [person: People, names: Seq(PersonNames) \ {<<>>}, kind: Kinds, value: Values,
     role: Roles \cup {"", "alumni"}, status: Statuses \cup {""}, orcid: Values,
     verified: BOOLEAN, replace: BOOLEAN]
Cards == [person: People, names: Seq(PersonNames), file: STRING, status: Statuses \cup {""}]
Listings == [name: PersonNames, kind: Kinds, value: Values]
Doctorates == [person: People, name: PersonNames, section: STRING]
SlugsDiffer(M) == \A i, j \in DOMAIN M : M[i].slug = M[j].slug => i = j

ASSUME RosterAssumption ==
    /\ MaxMembers \in Nat /\ MaxUpsets \in Nat
    /\ IncludeWeak \in BOOLEAN
    /\ Spellings \in [People -> SUBSET PersonNames]
    /\ Seed \in Seq(Records) /\ SlugsDiffer(Seed) /\ Len(Seed) <= MaxMembers
    /\ \A i \in DOMAIN Seed : Seed[i].photo = None
    /\ Dataset \in Seq(Entries) /\ Team \in Seq(Cards)
    /\ Lists \in Seq(Listings) /\ Doctors \in Seq(Doctorates)

Ids == DOMAIN members

TypeOK ==
    /\ members \in Seq(Records) /\ Len(members) <= MaxMembers /\ SlugsDiffer(members)
    /\ \A i \in Ids : members[i].photo \in DOMAIN media \cup {None}
    /\ media \in Seq(Uploads)
    /\ job \in [script: Scripts \cup {"none"}, snap: Seq(Records), at: Nat \ {0},
                done: SUBSET Ids, target: Ids \cup {None}, upload: DOMAIN media \cup {None},
                failed: BOOLEAN, disturbed: BOOLEAN]
    /\ faults \in Nat /\ edits \in Nat /\ faults + edits <= MaxUpsets
    /\ settled \subseteq Scripts
    /\ lost \subseteq DOMAIN media

Init ==
    /\ members = Seed
    /\ media = <<>>
    /\ job = NoJob
    /\ faults = 0 /\ edits = 0
    /\ settled = {}
    /\ lost = {}

----------------------------------------------------------------------------
(* Finding a person's record in a snapshot S of the members.  find lists   *)
(* the newest first, and an index built by Map.set keeps the last one of a *)
(* key: the oldest record.                                                 *)
WithName(S, name) == {i \in DOMAIN S : Key(S[i].name) = Key(name)}
WithFirstLast(S, name) == {i \in DOMAIN S : FirstLastKey(S[i].name) = FirstLastKey(name)}
Oldest(ids) == IF ids = {} THEN None ELSE Min(ids)
TheOnly(ids) == IF Cardinality(ids) = 1 THEN Min(ids) ELSE None

(* member-importer.mjs: an identifier, the e-mail, then the names in order *)
(* by their exact key and once more by first and last word.                *)
ByNames(found) ==
    LET hits == {k \in DOMAIN found : found[k] # {}} IN
    IF hits = {} THEN None
    ELSE IF Cardinality(found[Min(hits)]) = 1 THEN Min(found[Min(hits)]) ELSE Ambiguous
MatchEntry(e, S) ==
    LET byId == IF e.orcid = "" THEN None
                ELSE Oldest({i \in DOMAIN S : S[i].orcid = e.orcid})
        byEmail == IF e.kind # "email" THEN None
                   ELSE Oldest({i \in DOMAIN S : S[i].contact["email"] = e.value})
        exact == ByNames([k \in DOMAIN e.names |-> WithName(S, e.names[k])])
    IN IF byId # None THEN byId
       ELSE IF byEmail # None THEN byEmail
       ELSE IF exact # None THEN exact
       ELSE ByNames([k \in DOMAIN e.names |-> WithFirstLast(S, e.names[k])])

AliasedMemberName(file) == IF file \in DOMAIN Pins THEN Pins[file] ELSE <<>>

(* Mutant of MatchCard: the pins are not looked at.                        *)
MatchCardUnpinned(c, S) ==
    LET exact == {k \in DOMAIN c.names : WithName(S, c.names[k]) # {}} IN
    [id |-> IF exact = {} THEN None ELSE Oldest(WithName(S, c.names[Min(exact)])), weak |-> FALSE]

(* member-matcher.mjs: the exact key of the name shown or of the one in    *)
(* the photo's file name, then first and last word where no two share them.*)
FirstHit(ids) ==
    LET hits == {k \in DOMAIN ids : ids[k] # None} IN
    IF hits = {} THEN None ELSE ids[Min(hits)]
MatchCard(c, S) ==
    LET exact == FirstHit([k \in DOMAIN c.names |-> Oldest(WithName(S, c.names[k]))])
        weak == FirstHit([k \in DOMAIN c.names |-> TheOnly(WithFirstLast(S, c.names[k]))])
        pinned == AliasedMemberName(c.file)
    IN IF pinned # <<>>
       THEN [id |-> Oldest(WithName(S, pinned)), weak |-> FALSE]
       ELSE IF exact # None THEN [id |-> exact, weak |-> FALSE]
       ELSE [id |-> weak, weak |-> weak # None]

----------------------------------------------------------------------------
(* validateDataset: a dataset that names somebody twice imports nothing.   *)
DatasetIsValid ==
    \A k, l \in DOMAIN Dataset : Key(Dataset[k].names[1]) = Key(Dataset[l].names[1]) => k = l

Source(s) ==
    CASE s = "import" -> IF DatasetIsValid THEN Dataset ELSE <<>>
      [] s \in {"photos", "status"} -> Team
      [] s = "names" -> Lists
      [] s = "phd" -> Doctors

Start(s) ==
    /\ job.script = "none"
    /\ job' = [NoJob EXCEPT !.script = s, !.snap = members]
    /\ UNCHANGED <<members, media, faults, edits, settled, lost>>

Entry == Source(job.script)[job.at]
Onward == [job EXCEPT !.at = @ + 1]
Running(s) ==
    /\ job.script = s
    /\ job.upload = None
    /\ job.at <= Len(Source(s))

(* The run is over: it is whole when nothing failed or moved meanwhile.    *)
Finish ==
    /\ job.script # "none"
    /\ job.at > Len(Source(job.script))
    /\ job' = NoJob
    /\ settled' = IF job.failed \/ job.disturbed THEN settled ELSE settled \cup {job.script}
    /\ UNCHANGED <<members, media, faults, edits, lost>>

Skip ==
    /\ job' = Onward
    /\ UNCHANGED <<members, media, faults, edits, settled, lost>>

(* Mutant of Accepts: slugs need not differ.                               *)
AcceptsAnySlug(i, r) ==
    /\ r.role \in Roles /\ r.status \in Statuses
    /\ \A j \in Ids \ {i} : r.orcid # "" => members[j].orcid # r.orcid

(* What Payload refuses: a value that is no option, a slug or an           *)
(* identifier that another record has.                                     *)
Accepts(i, r) ==
    /\ r.role \in Roles /\ r.status \in Statuses
    /\ \A j \in Ids \ {i} :
        /\ members[j].slug # r.slug
        /\ r.orcid # "" => members[j].orcid # r.orcid

Store(i, r, j) ==
    \/ /\ Accepts(i, r)
       /\ members' = [k \in Ids \cup {i} |-> IF k = i THEN r ELSE members[k]]
       /\ settled' = IF members' = members THEN settled ELSE {}
       /\ job' = j
       /\ UNCHANGED <<media, faults, edits, lost>>
    \/ /\ ~Accepts(i, r)
       /\ job' = [j EXCEPT !.failed = TRUE]
       /\ UNCHANGED <<members, media, faults, edits, settled, lost>>
NextId == Cardinality(Ids) + 1
Add(r, j) == NextId <= MaxMembers /\ Store(NextId, r, j)

----------------------------------------------------------------------------
(* import-members.mjs, one entry.  A field that is empty is filled; role   *)
(* and standing are the dataset's; another value held is a conflict, and   *)
(* an entry with a conflict writes nothing.                                *)
Conflicts(held, new) == held # "" /\ new # "" /\ held # new
Identifier(e) == IF e.verified THEN e.orcid ELSE ""
Standing(e) == IF e.status = "" THEN "active" ELSE e.status

(* Mutant of HasConflict: what the dataset says is written over all.       *)
HasConflictNever(r, e) == FALSE

HasConflict(r, e) ==
    \/ Conflicts(r.orcid, Identifier(e))
    \/ e.kind \in Kinds /\ ~e.replace /\ Conflicts(r.contact[e.kind], e.value)

CreatePayload(e) ==
    Record(e.person, e.names[1], IF e.role = "" THEN "msc" ELSE e.role, Standing(e),
           [k \in Kinds |-> IF k = e.kind THEN e.value ELSE ""], Identifier(e))

(* The fields to write are chosen by looking at the snapshot, seen; they   *)
(* are laid over the record as it is by now.                               *)
UpdatePayload(r, seen, e) ==
    [r EXCEPT
        !.role = IF e.role \in {"", seen.role} THEN @ ELSE e.role,
        !.status = IF Standing(e) = seen.status THEN @ ELSE Standing(e),
        !.orcid = IF Identifier(e) # "" /\ seen.orcid = "" THEN Identifier(e) ELSE @,
        !.contact = [k \in Kinds |-> IF k = e.kind /\ e.value # "" /\ seen.contact[k] # e.value
                                     THEN e.value ELSE @[k]]]

ImportEntry ==
    /\ Running("import")
    /\ LET e == Entry
           i == MatchEntry(e, job.snap)
       IN \/ i = Ambiguous /\ Skip
          \/ i = None /\ Add(CreatePayload(e), Onward)
          \/ i > None /\ HasConflict(job.snap[i], e) /\ Skip
          \/ /\ i > None /\ ~HasConflict(job.snap[i], e)
             /\ Store(i, UpdatePayload(members[i], job.snap[i], e), Onward)

(* import-member-photos.mjs, one card: the file is fetched and stored as   *)
(* an upload, and a second write makes it the member's photo.              *)
PhotoTarget(c, S) ==
    LET m == MatchCard(c, S) IN
    IF m.id = None \/ (m.weak /\ ~IncludeWeak) THEN None ELSE m.id

(* Mutant of TakesPhoto: a person's second card uploads once more.         *)
TakesPhotoAgain(i) == i # None /\ job.snap[i].photo = None

TakesPhoto(i) == i # None /\ i \notin job.done /\ job.snap[i].photo = None

PhotoUpload ==
    /\ Running("photos")
    /\ LET i == PhotoTarget(Entry, job.snap) IN
       \/ ~TakesPhoto(i) /\ Skip
       \/ /\ TakesPhoto(i)
          /\ media' = Append(media, [by |-> "script", shows |-> Entry.person])
          /\ job' = [job EXCEPT !.target = i, !.upload = Len(media) + 1]
          /\ UNCHANGED <<members, faults, edits, settled, lost>>

PhotoLink ==
    /\ job.upload # None
    /\ LET i == job.target
           old == members[i].photo
       IN /\ members' = [members EXCEPT ![i].photo = job.upload]
          /\ lost' = lost \cup ({old} \cap {m \in DOMAIN media : media[m].by = "person"})
          /\ settled' = {}
          /\ job' = [Onward EXCEPT !.done = @ \cup {i}, !.target = None, !.upload = None]
          /\ UNCHANGED <<media, faults, edits>>

(* apply-legacy-status.mjs, one card.                                      *)
StatusEntry ==
    /\ Running("status")
    /\ LET c == Entry
           i == MatchCard(c, job.snap).id
           seen == [Onward EXCEPT !.done = @ \cup {i}]
           marks == c.status = "completed" /\ job.snap[i].status # "completed"
       IN \/ (c.status = "" \/ i = None \/ i \in job.done) /\ Skip
          \/ /\ c.status # "" /\ i # None /\ i \notin job.done
             /\ Store(i, IF marks THEN [members[i] EXCEPT !.status = "completed"] ELSE members[i],
                      seen)

(* apply-roster-names.mjs, one entry.  The record is found by a contact    *)
(* that one member has, and a name only grows.                             *)
Words(name) == {Fold[name[k]] : k \in DOMAIN name}

(* Mutant of Grows: whichever spelling the list has replaces the name.     *)
GrowsOrShrinks(old, new) == Words(old) \subseteq Words(new) \/ Words(new) \subseteq Words(old)

Grows(old, new) == Len(new) >= Len(old) /\ Words(old) \subseteq Words(new)
NameEntry ==
    /\ Running("names")
    /\ LET e == Entry
           i == TheOnly({m \in DOMAIN job.snap : job.snap[m].contact[e.kind] = e.value})
           seen == [Onward EXCEPT !.done = @ \cup {i}]
           renames == Grows(job.snap[i].name, e.name)
       IN \/ (i = None \/ (i # None /\ job.snap[i].name = e.name) \/ i \in job.done) /\ Skip
          \/ /\ i # None /\ job.snap[i].name # e.name /\ i \notin job.done
             /\ Store(i, IF renames THEN [members[i] EXCEPT !.name = e.name] ELSE members[i], seen)

(* apply-phd-roster.mjs, one entry.  No stored role is alumni any more     *)
(* (Members.ts), so a doctor who has a record keeps it as it is.           *)
Restored(r) ==
    IF r.role = "alumni" THEN [r EXCEPT !.role = "phd", !.status = "completed"] ELSE r
DoctorEntry ==
    /\ Running("phd")
    /\ LET e == Entry
           i == Oldest(WithName(job.snap, e.name))
       IN \/ e.section # "finished" /\ Skip
          \/ /\ e.section = "finished" /\ i = None
             /\ Add(Record(e.person, e.name, "phd", "completed", NoContact, ""), Onward)
          \/ e.section = "finished" /\ i # None /\ Store(i, Restored(members[i]), Onward)

----------------------------------------------------------------------------
(* A write or a fetch that throws: reported, and the next entry is taken.  *)
(* A script can also be killed anywhere, and the name script, which has no *)
(* try, dies of the same error.                                            *)
SetAside == IF job.upload = None THEN {} ELSE {job.upload}
Fault(next) ==
    /\ job.script # "none"
    /\ faults + edits < MaxUpsets
    /\ faults' = faults + 1
    /\ lost' = lost \cup SetAside
    /\ job' = next
    /\ UNCHANGED <<members, media, edits, settled>>
EntryFails ==
    /\ job.script \notin {"none", "names"}
    /\ job.at <= Len(Source(job.script))
    /\ Fault([Onward EXCEPT !.failed = TRUE, !.target = None, !.upload = None])
ScriptDies == Fault(NoJob)

(* People, in the admin panel: an editor, or the member of the profile.    *)
Edit(i, r) ==
    /\ faults + edits < MaxUpsets
    /\ edits' = edits + 1
    /\ members' = [members EXCEPT ![i] = r]
    /\ settled' = {}
    /\ job' = [job EXCEPT !.disturbed = job.script # "none"]
    /\ UNCHANGED faults
Rename(i, n) ==
    /\ n # members[i].name
    /\ Edit(i, [members[i] EXCEPT !.name = n])
    /\ UNCHANGED <<media, lost>>
ChangeStatus(i, s) ==
    /\ s # members[i].status
    /\ Edit(i, [members[i] EXCEPT !.status = s])
    /\ UNCHANGED <<media, lost>>
ChangeContact(i, k, v) ==
    /\ v # members[i].contact[k]
    /\ Edit(i, [members[i] EXCEPT !.contact[k] = v])
    /\ UNCHANGED <<media, lost>>
ChoosePhoto(i) ==
    /\ Edit(i, [members[i] EXCEPT !.photo = Len(media) + 1])
    /\ media' = Append(media, [by |-> "person", shows |-> members[i].person])
    /\ lost' = lost \cup ({members[i].photo} \ {None})

PanelEdit ==
    \E i \in Ids :
        \/ \E n \in Spellings[members[i].person] : Rename(i, n)
        \/ \E s \in Statuses : ChangeStatus(i, s)
        \/ \E k \in Kinds : ChangeContact(i, k, "own")
        \/ ChoosePhoto(i)

Script ==
    \/ ImportEntry \/ PhotoUpload \/ PhotoLink \/ StatusEntry \/ NameEntry \/ DoctorEntry
    \/ Finish

Next ==
    \/ \E s \in Scripts : Start(s)
    \/ Script
    \/ EntryFails \/ ScriptDies
    \/ PanelEdit

Spec == Init /\ [][Next]_vars

----------------------------------------------------------------------------
(* Properties.                                                             *)

(* A whole run of a script that follows a whole run of it, with no write   *)
(* between the two by anybody else, changes nothing: no second record, no  *)
(* second upload, no name that swings between two spellings.  (The         *)
(* "Idempotent" of the scripts' headers.)                                  *)
RerunChangesNothing ==
    [][job.script \in settled /\ edits' = edits => UNCHANGED <<members, media>>]_vars

(* The face on a profile that a script put there is its owner's, although  *)
(* cards are abbreviated, misspelt, listed twice or shared by namesakes    *)
(* (legacy-photo-aliases.mjs, member-matcher.mjs).                         *)
RightFace ==
    \A i \in Ids : members[i].photo # None => media[members[i].photo].shows = members[i].person

(* That is as true as the sources are telling.  Owns: the dump or the      *)
(* dataset gives person p the contact of entry c.  Called: the names a     *)
(* record of p can come to bear, in the dump, the dataset, the PhD roster, *)
(* the panel and the lists, where an entry is p's if its contact is.       *)
Owns(p, c) ==
    \/ \E i \in DOMAIN Seed : Seed[i].person = p /\ Seed[i].contact[c.kind] = c.value
    \/ \E k \in DOMAIN Dataset :
          Dataset[k].person = p /\ Dataset[k].kind = c.kind /\ Dataset[k].value = c.value
Of(p, source) == {k \in DOMAIN source : source[k].person = p}
Called(p) ==
    Spellings[p]
        \cup {Seed[i].name : i \in Of(p, Seed)}
        \cup {Dataset[k].names[1] : k \in Of(p, Dataset)}
        \cup {Doctors[k].name : k \in Of(p, Doctors)}
        \cup {Lists[k].name : k \in {l \in DOMAIN Lists : Owns(p, Lists[l])}}

(* An entry whose contact a list goes by has no name and no identifier of  *)
(* anybody who has not that contact; a card has no name of anybody else,   *)
(* and of a pinned one that is asked of the pin.                           *)
IsListed(e) == \E k \in DOMAIN Lists : Lists[k].kind = e.kind /\ Lists[k].value = e.value
EntryTells(e) ==
    /\ \A p \in People : ~Owns(p, e) =>
          /\ \A n \in Called(p), k \in DOMAIN e.names : FirstLastKey(n) # FirstLastKey(e.names[k])
          /\ \A i \in Of(p, Seed) : e.orcid # "" => Seed[i].orcid # e.orcid
    /\ \A k \in DOMAIN Dataset : e.orcid # "" /\ Dataset[k].orcid = e.orcid => Dataset[k] = e
CardTells(c) ==
    \A p \in People \ {c.person} : \A n \in Called(p) :
        IF AliasedMemberName(c.file) # <<>> THEN Key(n) # Key(AliasedMemberName(c.file))
        ELSE \A k \in DOMAIN c.names :
                /\ Key(n) # Key(c.names[k])
                /\ IncludeWeak => FirstLastKey(n) # FirstLastKey(c.names[k])
SourcesTell ==
    /\ \A k \in DOMAIN Lists : Lists[k].value \notin {"", "own"}
    /\ \A k \in DOMAIN Dataset : IsListed(Dataset[k]) => EntryTells(Dataset[k])
    /\ \A k \in DOMAIN Team : CardTells(Team[k])

(* No upload is left over: each is somebody's photo or about to be, unless *)
(* its second write failed or died, or a person took it off.               *)
UploadsAreUsed ==
    \A m \in DOMAIN media :
        m \in lost \/ m = job.upload \/ \E i \in Ids : members[i].photo = m

(* The import never writes over a contact or an identifier the record held *)
(* when the import read it, unless the entry asks for that; what a person  *)
(* changed in the meantime is a different matter.                          *)
HeldValuesStand ==
    [][job.script = "import" /\ edits' = edits =>
        \A i \in DOMAIN job.snap :
            LET seen == job.snap[i] IN
            /\ seen.orcid # "" => members'[i].orcid = members[i].orcid
            /\ \A k \in Kinds : seen.contact[k] # "" /\ members'[i].contact[k] # members[i].contact[k]
                   => Entry.replace]_vars

(* Scripts may be run again in any order: as long as no person edits and   *)
(* nothing breaks, no entry is refused.  (README.md: "Every step is        *)
(* idempotent, so re-running is safe"; a step that fails ends data:setup.) *)
RerunsSucceed == job.failed => faults + edits > 0
============================================================================
