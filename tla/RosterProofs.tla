---------------------------- MODULE RosterProofs ----------------------------
(* Theorems about Roster, for any people, sources, bounds and number of     *)
(* runs of the scripts.                                                     *)
EXTENDS Roster, DataLemmas

----------------------------------------------------------------------------
(* Whoever is found is in the snapshot.                                    *)
LEMMA IndexTyping ==
    ASSUME NEW S \in Seq(Records), NEW ids \in SUBSET DOMAIN S
    PROVE  /\ ids \subseteq Nat
           /\ ids # {} => Min(ids) \in ids
           /\ Oldest(ids) \in DOMAIN S \cup {None}
           /\ TheOnly(ids) \in DOMAIN S \cup {None}
<1>1. ids \subseteq Nat
  OBVIOUS
<1>2. ids # {} => Min(ids) \in ids
  BY <1>1, MinIsLeast
<1>3. Cardinality(ids) = 1 => ids # {}
  <2>1. ids = {} => Cardinality(ids) = 0
    BY FS_EmptySet
  <2> QED BY <2>1
<1> QED BY <1>1, <1>2, <1>3 DEF Oldest, TheOnly

LEMMA NamesTyping ==
    ASSUME NEW S \in Seq(Records), NEW f, DOMAIN f \subseteq Nat,
           \A k \in DOMAIN f : f[k] \subseteq DOMAIN S
    PROVE  ByNames(f) \in DOMAIN S \cup {None, Ambiguous}
<1> DEFINE hits == {k \in DOMAIN f : f[k] # {}}
<1>1. CASE hits = {}
  BY <1>1 DEF ByNames
<1>2. CASE hits # {}
  <2>1. Min(hits) \in hits
    <3>1. hits \subseteq Nat
      OBVIOUS
    <3> HIDE DEF hits
    <3> QED BY <1>2, <3>1, MinIsLeast
  <2> DEFINE ids == f[Min(hits)]
  <2>2. ids \in SUBSET DOMAIN S /\ ids # {}
    BY <2>1
  <2>3. Min(ids) \in DOMAIN S
    <3> HIDE DEF ids
    <3> QED BY <2>2, IndexTyping
  <2> QED BY <1>2, <2>3 DEF ByNames
<1> QED BY <1>1, <1>2

LEMMA HitTyping ==
    ASSUME NEW S \in Seq(Records), NEW f, DOMAIN f \subseteq Nat,
           \A k \in DOMAIN f : f[k] \in DOMAIN S \cup {None}
    PROVE  FirstHit(f) \in DOMAIN S \cup {None}
<1> DEFINE hits == {k \in DOMAIN f : f[k] # None}
<1>1. CASE hits = {}
  BY <1>1 DEF FirstHit
<1>2. CASE hits # {}
  <2>1. Min(hits) \in hits
    <3>1. hits \subseteq Nat
      OBVIOUS
    <3> HIDE DEF hits
    <3> QED BY <1>2, <3>1, MinIsLeast
  <2> QED BY <1>2, <2>1 DEF FirstHit
<1> QED BY <1>1, <1>2

LEMMA NameSetsTyping ==
    ASSUME NEW S \in Seq(Records), NEW n
    PROVE  WithName(S, n) \in SUBSET DOMAIN S /\ WithFirstLast(S, n) \in SUBSET DOMAIN S
BY DEF WithName, WithFirstLast

LEMMA MatchEntryTyping ==
    ASSUME NEW S \in Seq(Records), NEW e \in Entries
    PROVE  MatchEntry(e, S) \in DOMAIN S \cup {None, Ambiguous}
<1> DEFINE byId == IF e.orcid = "" THEN None ELSE Oldest({i \in DOMAIN S : S[i].orcid = e.orcid})
           byEmail == IF e.kind # "email" THEN None
                      ELSE Oldest({i \in DOMAIN S : S[i].contact["email"] = e.value})
           exact == ByNames([k \in DOMAIN e.names |-> WithName(S, e.names[k])])
           rough == ByNames([k \in DOMAIN e.names |-> WithFirstLast(S, e.names[k])])
<1>1. byId \in DOMAIN S \cup {None} /\ byEmail \in DOMAIN S \cup {None}
  BY IndexTyping
<1>2. DOMAIN e.names \subseteq Nat
  <2>1. e.names \in Seq(PersonNames)
    BY DEF Entries
  <2> QED BY <2>1
<1>3. exact \in DOMAIN S \cup {None, Ambiguous}
  BY <1>2, NamesTyping, NameSetsTyping
<1>4. rough \in DOMAIN S \cup {None, Ambiguous}
  BY <1>2, NamesTyping, NameSetsTyping
<1>5. MatchEntry(e, S) = IF byId # None THEN byId
                         ELSE IF byEmail # None THEN byEmail
                         ELSE IF exact # None THEN exact ELSE rough
  BY DEF MatchEntry
<1> HIDE DEF byId, byEmail, exact, rough
<1> QED BY <1>1, <1>3, <1>4, <1>5

LEMMA MatchCardTyping ==
    ASSUME NEW S \in Seq(Records), NEW c \in Cards
    PROVE  MatchCard(c, S).id \in DOMAIN S \cup {None}
           /\ PhotoTarget(c, S) \in DOMAIN S \cup {None}
<1> DEFINE pinned == AliasedMemberName(c.file)
           exact == FirstHit([k \in DOMAIN c.names |-> Oldest(WithName(S, c.names[k]))])
           weak == FirstHit([k \in DOMAIN c.names |-> TheOnly(WithFirstLast(S, c.names[k]))])
<1>1. DOMAIN c.names \subseteq Nat
  <2>1. c.names \in Seq(PersonNames)
    BY DEF Cards
  <2> QED BY <2>1
<1>2. exact \in DOMAIN S \cup {None}
  <2>1. \A k \in DOMAIN c.names : Oldest(WithName(S, c.names[k])) \in DOMAIN S \cup {None}
    BY IndexTyping, NameSetsTyping
  <2> QED BY <1>1, <2>1, HitTyping
<1>3. weak \in DOMAIN S \cup {None}
  <2>1. \A k \in DOMAIN c.names : TheOnly(WithFirstLast(S, c.names[k])) \in DOMAIN S \cup {None}
    BY IndexTyping, NameSetsTyping
  <2> QED BY <1>1, <2>1, HitTyping
<1>4. Oldest(WithName(S, pinned)) \in DOMAIN S \cup {None}
  BY IndexTyping, NameSetsTyping
<1>5. MatchCard(c, S).id \in {Oldest(WithName(S, pinned)), exact, weak}
  BY DEF MatchCard
<1> HIDE DEF pinned, exact, weak
<1>6. MatchCard(c, S).id \in DOMAIN S \cup {None}
  BY <1>2, <1>3, <1>4, <1>5
<1> QED BY <1>6 DEF PhotoTarget

----------------------------------------------------------------------------
(* Typing.                                                                 *)
MembersOK == members \in Seq(Records) /\ Len(members) <= MaxMembers /\ SlugsDiffer(members)
MediaOK ==
    /\ media \in Seq(Uploads)
    /\ \A i \in Ids : members[i].photo \in DOMAIN media \cup {None}
    /\ lost \subseteq DOMAIN media
JobOK(j, ids, uploads) ==
    j \in [script: Scripts \cup {"none"}, snap: Seq(Records), at: Nat \ {0},
           done: SUBSET ids, target: ids \cup {None}, upload: uploads \cup {None},
           failed: BOOLEAN, disturbed: BOOLEAN]
CountsOK == faults \in Nat /\ edits \in Nat /\ faults + edits <= MaxUpsets
SettledOK == settled \subseteq Scripts

LEMMA TypeParts ==
    /\ TypeOK <=> MembersOK /\ MediaOK /\ JobOK(job, Ids, DOMAIN media) /\ CountsOK /\ SettledOK
    /\ MembersOK' /\ MediaOK' /\ JobOK(job', Ids', DOMAIN media') /\ CountsOK' /\ SettledOK' => TypeOK'
BY DEF TypeOK, MembersOK, MediaOK, JobOK, CountsOK, SettledOK

LEMMA IdsAreNumbers ==
    ASSUME MembersOK
    PROVE  Ids = 1..Len(members) /\ Len(members) \in Nat /\ NextId = Len(members) + 1
<1>1. Ids = 1..Len(members) /\ Len(members) \in Nat
  BY DEF MembersOK, Ids
<1>2. Cardinality(1..Len(members)) = Len(members)
  <2>1. Cardinality(1..Len(members)) = IF 1 > Len(members) THEN 0 ELSE Len(members) - 1 + 1
    BY <1>1, FS_Interval
  <2> QED BY <1>1, <2>1
<1> QED BY <1>1, <1>2 DEF NextId

(* What a script offers to write: Payload judges the role.                 *)
Offers ==
    [person: People, name: PersonNames, slug: Seq({Fold[w] : w \in DOMAIN Fold}),
     role: Roles \cup {"", "alumni"}, status: Statuses, contact: [Kinds -> Values],
     orcid: Values, photo: Nat]

LEMMA StoreTyping ==
    ASSUME TypeOK, NEW i, i \in Ids \/ (i = NextId /\ NextId <= MaxMembers),
           NEW r \in Offers, r.photo \in DOMAIN media \cup {None}, NEW j, Store(i, r, j)
    PROVE  /\ MembersOK' /\ MediaOK' /\ CountsOK' /\ SettledOK'
           /\ Ids \subseteq Ids' /\ media' = media /\ lost' = lost /\ faults' = faults /\ edits' = edits
           /\ job' = j \/ job' = [j EXCEPT !.failed = TRUE]
           /\ \A k \in Ids \ {i} : members'[k] = members[k]
           /\ i \in Ids => members'[i] \in {members[i], r}
<1>1. MembersOK /\ MediaOK /\ CountsOK /\ SettledOK
  BY TypeParts
<1>2. Ids = 1..Len(members) /\ Len(members) \in Nat /\ NextId = Len(members) + 1
  BY <1>1, IdsAreNumbers
<1>3. CASE Accepts(i, r) /\ members' = [k \in Ids \cup {i} |-> IF k = i THEN r ELSE members[k]]
           /\ settled' = (IF members' = members THEN settled ELSE {})
           /\ job' = j /\ UNCHANGED <<media, faults, edits, lost>>
  <2>1. r \in Records
    BY <1>3 DEF Accepts, Offers, Records
  <2> DEFINE n == IF i \in Ids THEN Len(members) ELSE Len(members) + 1
  <2>2. n \in Nat /\ Ids \cup {i} = 1..n /\ n <= MaxMembers
    BY <1>1, <1>2 DEF MembersOK
  <2>3. \A k \in 1..n : k # i => k \in Ids /\ members[k] \in Records
    BY <1>1, <1>2, <2>2 DEF MembersOK, Ids
  <2>4. members' \in [1..n -> Records]
    BY <1>3, <2>1, <2>2, <2>3
  <2>5. members' \in Seq(Records) /\ Len(members') = n /\ Ids' = 1..n
    <3> HIDE DEF n
    <3>1. members' \in Seq(Records)
      BY <2>2, <2>4, SeqDef
    <3>2. DOMAIN members' = 1..n
      BY <2>4
    <3> QED BY <2>2, <3>1, <3>2 DEF Ids
  <2>6. SlugsDiffer(members')
    <3> SUFFICES ASSUME NEW a \in 1..n, NEW b \in 1..n, members'[a].slug = members'[b].slug, a # b
                 PROVE  FALSE
      BY <2>5 DEF SlugsDiffer, Ids
    <3>1. \A k \in 1..n : members'[k] = IF k = i THEN r ELSE members[k]
      BY <1>3, <2>2
    <3>2. CASE a # i /\ b # i
      BY <1>1, <2>3, <3>1, <3>2 DEF MembersOK, SlugsDiffer, Ids
    <3>3. CASE a = i \/ b = i
      BY <1>3, <2>3, <3>1, <3>3 DEF Accepts
    <3> QED BY <3>2, <3>3
  <2>7. \A k \in Ids \cup {i} : members'[k] = IF k = i THEN r ELSE members[k]
    BY <1>3
  <2>8. MembersOK'
    BY <2>2, <2>5, <2>6 DEF MembersOK
  <2>9. MediaOK'
    BY <1>1, <1>3, <2>2, <2>5, <2>7 DEF MediaOK
  <2>10. Ids \subseteq Ids'
    BY <2>2, <2>5
  <2> QED BY <1>1, <1>3, <2>7, <2>8, <2>9, <2>10 DEF CountsOK, SettledOK
<1>4. CASE job' = [j EXCEPT !.failed = TRUE] /\ UNCHANGED <<members, media, faults, edits, settled, lost>>
  BY <1>1, <1>4 DEF MembersOK, MediaOK, CountsOK, SettledOK, Ids
<1> QED BY <1>3, <1>4 DEF Store

(* A job is over its snapshot, and an upload waits for its second write in *)
(* the photo script only.                                                  *)
ListedOK(j, ids) ==
    /\ DOMAIN j.snap \subseteq ids
    /\ j.upload # None => j.script = "photos" /\ j.target \in DOMAIN j.snap
Listed == ListedOK(job, Ids)

LEMMA SourceTyping ==
    ASSUME job.at \in DOMAIN Source(job.script)
    PROVE  /\ job.script = "import" => Entry \in Entries
           /\ job.script \in {"photos", "status"} => Entry \in Cards
           /\ job.script = "names" => Entry \in Listings
           /\ job.script = "phd" => Entry \in Doctorates
<1>1. ASSUME NEW S, Source(job.script) \in Seq(S)
      PROVE  Entry \in S
  BY <1>1 DEF Entry
<1>2. Dataset \in Seq(Entries) /\ <<>> \in Seq(Entries)
  BY RosterAssumption
<1>3. job.script = "import" => Source(job.script) \in Seq(Entries)
  BY <1>2 DEF Source
<1>4. job.script \in {"photos", "status"} => Source(job.script) \in Seq(Cards)
  BY RosterAssumption DEF Source
<1>5. job.script = "names" => Source(job.script) \in Seq(Listings)
  BY RosterAssumption DEF Source
<1>6. job.script = "phd" => Source(job.script) \in Seq(Doctorates)
  BY RosterAssumption DEF Source
<1> QED BY <1>1, <1>3, <1>4, <1>5, <1>6

(* What an entry of a script does, whichever the script: nothing, a new    *)
(* record, or one record written, whose photo stays.                       *)
Past == {Onward} \cup {[Onward EXCEPT !.done = @ \cup {k}] : k \in Ids}
Written ==
    \/ Skip
    \/ \E r \in Offers : Add(r, Onward) /\ r.photo = None
    \/ \E i \in Ids, r \in Offers, j \in Past : r.photo = members[i].photo /\ Store(i, r, j)

LEMMA OfferTyping ==
    ASSUME NEW r \in Records
    PROVE  /\ r \in Offers
           /\ \A s \in Statuses : [r EXCEPT !.status = s] \in Offers
           /\ \A n \in PersonNames : [r EXCEPT !.name = n] \in Offers
           /\ \A s \in Statuses : [r EXCEPT !.role = "phd", !.status = s] \in Offers
           /\ \A a \in Roles \cup {"", "alumni"}, s \in Statuses, v \in Values, c \in [Kinds -> Values] :
                [r EXCEPT !.role = a, !.status = s, !.orcid = v, !.contact = c] \in Offers
BY DEF Records, Offers, Roles

LEMMA NewOfferTyping ==
    ASSUME NEW p \in People, NEW n \in PersonNames, NEW a \in Roles \cup {"alumni"},
           NEW s \in Statuses, NEW c \in [Kinds -> Values], NEW v \in Values
    PROVE  Record(p, n, a, s, c, v) \in Offers /\ Record(p, n, a, s, c, v).photo = None
<1>1. Key(n) \in Seq({Fold[w] : w \in DOMAIN Fold})
  <2> DEFINE T == {Fold[w] : w \in DOMAIN Fold}
  <2>1. n \in Seq(DOMAIN Fold)
    BY DEF PersonNames
  <2>2. Key(n) \in [DOMAIN n -> T]
    BY <2>1 DEF Key
  <2>3. Key(n) \in Seq(T)
    <3> HIDE DEF T
    <3> QED BY <2>1, <2>2, FunctionIsSeq
  <2> QED BY <2>3
<1> QED BY <1>1 DEF Record, Offers, None

LEMMA ImportWrites ==
    ASSUME TypeOK, Listed, ImportEntry
    PROVE  \/ Skip
           \/ \E r \in Offers : Add(r, Onward) /\ r.photo = None
           \/ \E i \in DOMAIN job.snap :
                /\ i \in Ids /\ ~HasConflict(job.snap[i], Entry)
                /\ UpdatePayload(members[i], job.snap[i], Entry) \in Offers
                /\ UpdatePayload(members[i], job.snap[i], Entry).photo = members[i].photo
                /\ Store(i, UpdatePayload(members[i], job.snap[i], Entry), Onward)
<1>1. MembersOK /\ JobOK(job, Ids, DOMAIN media)
  BY TypeParts
<1>2. job.at \in DOMAIN Source(job.script) /\ job.script = "import"
  BY <1>1 DEF ImportEntry, Running, JobOK, Source
<1> DEFINE e == Entry
           i == MatchEntry(e, job.snap)
<1>3. e \in Entries
  BY <1>2, SourceTyping
<1>4. i \in DOMAIN job.snap \cup {None, Ambiguous} /\ DOMAIN job.snap \subseteq Nat \ {0}
  BY <1>1, <1>3, MatchEntryTyping DEF JobOK
<1>5. Standing(e) \in Statuses /\ Identifier(e) \in Values
  BY <1>3 DEF Standing, Identifier, Entries, Statuses, Values
<1>6. CreatePayload(e) \in Offers /\ CreatePayload(e).photo = None
  <2> DEFINE c == [k \in Kinds |-> IF k = e.kind THEN e.value ELSE ""]
             a == IF e.role = "" THEN "msc" ELSE e.role
  <2>1. c \in [Kinds -> Values] /\ a \in Roles \cup {"alumni"}
    BY <1>3 DEF Entries, Values, Roles
  <2>2. e.person \in People /\ e.names[1] \in PersonNames
    <3>1. e.names \in Seq(PersonNames) /\ e.names # <<>>
      BY <1>3 DEF Entries
    <3>2. 1 \in DOMAIN e.names
      BY <3>1
    <3>3. e.names[1] \in PersonNames
      BY <3>1, <3>2
    <3> QED BY <1>3, <3>3 DEF Entries
  <2> HIDE DEF c, a, e
  <2>3. Record(e.person, e.names[1], a, Standing(e), c, Identifier(e)) \in Offers
        /\ Record(e.person, e.names[1], a, Standing(e), c, Identifier(e)).photo = None
    BY <1>5, <2>1, <2>2, NewOfferTyping
  <2> QED BY <2>3 DEF CreatePayload, c, a
<1>7. CASE i \in DOMAIN job.snap
  <2> DEFINE seen == job.snap[i]
             r == members[i]
             a == IF e.role \in {"", seen.role} THEN r.role ELSE e.role
             s == IF Standing(e) = seen.status THEN r.status ELSE Standing(e)
             v == IF Identifier(e) # "" /\ seen.orcid = "" THEN Identifier(e) ELSE r.orcid
             c == [k \in Kinds |-> IF k = e.kind /\ e.value # "" /\ seen.contact[k] # e.value
                                   THEN e.value ELSE r.contact[k]]
  <2>1. i \in Ids /\ r \in Records
    BY <1>1, <1>7 DEF Listed, ListedOK, MembersOK, Ids
  <2>2. a \in Roles \cup {"", "alumni"}
    BY <1>3, <2>1 DEF Entries, Records
  <2>3. s \in Statuses /\ v \in Values
    BY <1>5, <2>1 DEF Records
  <2>4. c \in [Kinds -> Values]
    BY <1>3, <2>1 DEF Entries, Records
  <2>5. UpdatePayload(r, seen, e) = [r EXCEPT !.role = a, !.status = s, !.orcid = v, !.contact = c]
    BY <2>1 DEF UpdatePayload, Records
  <2> HIDE DEF a, s, v, c, r
  <2>6. [r EXCEPT !.role = a, !.status = s, !.orcid = v, !.contact = c] \in Offers
    BY <2>1, <2>2, <2>3, <2>4, OfferTyping
  <2>7. [r EXCEPT !.role = a, !.status = s, !.orcid = v, !.contact = c].photo = r.photo
    BY <2>1 DEF Records
  <2>8. UpdatePayload(r, seen, e) \in Offers /\ UpdatePayload(r, seen, e).photo = r.photo
    BY <2>5, <2>6, <2>7
  <2>9. i # Ambiguous /\ i # None
    BY <1>4, <1>7 DEF Ambiguous, None
  <2>10. Skip \/ (~HasConflict(seen, e) /\ Store(i, UpdatePayload(members[i], seen, e), Onward))
    BY <2>9 DEF ImportEntry
  <2> QED BY <1>7, <2>1, <2>8, <2>10 DEF r
<1>8. CASE i = None
  BY <1>6, <1>8 DEF ImportEntry, None, Ambiguous
<1>9. CASE i = Ambiguous
  BY <1>9 DEF ImportEntry, None, Ambiguous
<1> QED BY <1>4, <1>7, <1>8, <1>9

LEMMA InSource ==
    ASSUME TypeOK, NEW s \in Scripts, Running(s)
    PROVE  job.script = s /\ job.at \in DOMAIN Source(job.script)
<1>1. JobOK(job, Ids, DOMAIN media) /\ job.script = s
  BY TypeParts DEF Running
<1>2. Source(s) \in {Dataset, <<>>, Team, Lists, Doctors}
  BY DEF Source, Scripts
<1>3. ASSUME NEW S, Source(s) \in Seq(S)
      PROVE  job.at \in DOMAIN Source(s)
  BY <1>1, <1>3 DEF Running, JobOK
<1>4. <<>> \in Seq(Entries)
  OBVIOUS
<1> QED BY <1>1, <1>2, <1>3, <1>4, RosterAssumption

LEMMA StatusWrites == ASSUME TypeOK, Listed, StatusEntry PROVE Written
<1>1. MembersOK /\ JobOK(job, Ids, DOMAIN media)
  BY TypeParts
<1>2. Entry \in Cards
  <2>1. job.at \in DOMAIN Source(job.script) /\ job.script = "status"
    BY InSource DEF StatusEntry, Scripts
  <2> QED BY <2>1, SourceTyping
<1> DEFINE i == MatchCard(Entry, job.snap).id
           marks == Entry.status = "completed" /\ job.snap[i].status # "completed"
           r == IF marks THEN [members[i] EXCEPT !.status = "completed"] ELSE members[i]
           seen == [Onward EXCEPT !.done = @ \cup {i}]
<1>3. i \in DOMAIN job.snap \cup {None}
  BY <1>1, <1>2, MatchCardTyping DEF JobOK
<1>4. Skip \/ (i # None /\ Store(i, r, seen))
  BY DEF StatusEntry
<1> HIDE DEF i
<1>5. CASE i # None /\ Store(i, r, seen)
  <2>1. i \in Ids /\ members[i] \in Records
    BY <1>1, <1>3, <1>5 DEF Listed, ListedOK, MembersOK, Ids
  <2>2. [members[i] EXCEPT !.status = "completed"] \in Offers /\ members[i] \in Offers
    BY <2>1, OfferTyping DEF Statuses
  <2>3. [members[i] EXCEPT !.status = "completed"].photo = members[i].photo
    BY <2>1 DEF Records
  <2>4. r \in Offers /\ r.photo = members[i].photo /\ seen \in Past
    BY <2>1, <2>2, <2>3 DEF Past
  <2> QED BY <1>5, <2>1, <2>4 DEF Written
<1> QED BY <1>4, <1>5 DEF Written

LEMMA NameWrites == ASSUME TypeOK, Listed, NameEntry PROVE Written
<1>1. MembersOK /\ JobOK(job, Ids, DOMAIN media)
  BY TypeParts
<1>2. Entry \in Listings
  <2>1. job.at \in DOMAIN Source(job.script) /\ job.script = "names"
    BY InSource DEF NameEntry, Scripts
  <2> QED BY <2>1, SourceTyping
<1> DEFINE found == {m \in DOMAIN job.snap : job.snap[m].contact[Entry.kind] = Entry.value}
           i == TheOnly(found)
           r == IF Grows(job.snap[i].name, Entry.name) THEN [members[i] EXCEPT !.name = Entry.name]
                ELSE members[i]
           seen == [Onward EXCEPT !.done = @ \cup {i}]
<1>3. i \in DOMAIN job.snap \cup {None}
  <2>1. job.snap \in Seq(Records) /\ found \in SUBSET DOMAIN job.snap
    BY <1>1 DEF JobOK
  <2> HIDE DEF found
  <2> QED BY <2>1, IndexTyping
<1>4. Skip \/ (i # None /\ Store(i, r, seen))
  BY DEF NameEntry
<1> HIDE DEF i
<1>5. CASE i # None /\ Store(i, r, seen)
  <2>1. i \in Ids /\ members[i] \in Records
    BY <1>1, <1>3, <1>5 DEF Listed, ListedOK, MembersOK, Ids
  <2>2. [members[i] EXCEPT !.name = Entry.name] \in Offers /\ members[i] \in Offers
    BY <1>2, <2>1, OfferTyping DEF Listings
  <2>3. [members[i] EXCEPT !.name = Entry.name].photo = members[i].photo
    BY <2>1 DEF Records
  <2>4. r \in Offers /\ r.photo = members[i].photo /\ seen \in Past
    BY <2>1, <2>2, <2>3 DEF Past
  <2> QED BY <1>5, <2>1, <2>4 DEF Written
<1> QED BY <1>4, <1>5 DEF Written

LEMMA DoctorWrites == ASSUME TypeOK, Listed, DoctorEntry PROVE Written
<1>1. MembersOK /\ JobOK(job, Ids, DOMAIN media)
  BY TypeParts
<1>2. Entry \in Doctorates
  <2>1. job.at \in DOMAIN Source(job.script) /\ job.script = "phd"
    BY InSource DEF DoctorEntry, Scripts
  <2> QED BY <2>1, SourceTyping
<1> DEFINE i == Oldest(WithName(job.snap, Entry.name))
           new == Record(Entry.person, Entry.name, "phd", "completed", NoContact, "")
<1>3. i \in DOMAIN job.snap \cup {None}
  BY <1>1, IndexTyping, NameSetsTyping DEF JobOK
<1>4. new \in Offers /\ new.photo = None
  <2>1. NoContact \in [Kinds -> Values] /\ "" \in Values
    BY DEF NoContact, Values
  <2>2. Entry.person \in People /\ Entry.name \in PersonNames
    BY <1>2 DEF Doctorates
  <2>3. "phd" \in Roles \cup {"alumni"} /\ "completed" \in Statuses
    BY DEF Roles, Statuses
  <2> QED BY <2>1, <2>2, <2>3, NewOfferTyping
<1>5. Skip \/ Add(new, Onward) \/ (i # None /\ Store(i, Restored(members[i]), Onward))
  BY DEF DoctorEntry
<1> HIDE DEF i, new
<1>6. CASE i # None /\ Store(i, Restored(members[i]), Onward)
  <2>1. i \in Ids /\ members[i] \in Records
    BY <1>1, <1>3, <1>6 DEF Listed, ListedOK, MembersOK, Ids
  <2>2. Restored(members[i]) = members[i] /\ members[i] \in Offers
    BY <2>1, OfferTyping DEF Restored, Records, Roles
  <2> QED BY <1>6, <2>1, <2>2 DEF Written, Past
<1> QED BY <1>4, <1>5, <1>6 DEF Written

LEMMA EntryWrites ==
    ASSUME TypeOK, Listed, ImportEntry \/ StatusEntry \/ NameEntry \/ DoctorEntry
    PROVE  Written /\ job.script \notin {"none", "photos"}
<1>1. job.script \notin {"none", "photos"}
  BY DEF ImportEntry, StatusEntry, NameEntry, DoctorEntry, Running
<1>2. ImportEntry => Written
  BY ImportWrites DEF Written, Past
<1> QED BY <1>1, <1>2, StatusWrites, NameWrites, DoctorWrites

----------------------------------------------------------------------------
(* A step keeps the types and the listing.                                 *)
LEMMA JobTyping ==
    ASSUME MembersOK, JobOK(job, Ids, DOMAIN media), NEW j \in Past \cup {[p EXCEPT !.failed = TRUE] : p \in Past}
    PROVE  /\ JobOK(j, Ids, DOMAIN media)
           /\ j.snap = job.snap /\ j.script = job.script
           /\ j.target = job.target /\ j.upload = job.upload
<1>1. JobOK(Onward, Ids, DOMAIN media) /\ Onward.snap = job.snap /\ Onward.script = job.script
      /\ Onward.target = job.target /\ Onward.upload = job.upload
  BY DEF Onward, JobOK
<1>2. ASSUME NEW p \in Past
      PROVE  /\ JobOK(p, Ids, DOMAIN media) /\ p.snap = job.snap /\ p.script = job.script
             /\ p.target = job.target /\ p.upload = job.upload
  <2>1. CASE p = Onward
    BY <1>1, <2>1
  <2>2. CASE \E k \in Ids : p = [Onward EXCEPT !.done = @ \cup {k}]
    <3>1. PICK k \in Ids : p = [Onward EXCEPT !.done = @ \cup {k}]
      BY <2>2
    <3> QED BY <1>1, <3>1 DEF JobOK
  <2> QED BY <2>1, <2>2 DEF Past
<1>3. ASSUME NEW p \in Past, j = [p EXCEPT !.failed = TRUE]
      PROVE  /\ JobOK(j, Ids, DOMAIN media) /\ j.snap = job.snap /\ j.script = job.script
             /\ j.target = job.target /\ j.upload = job.upload
  BY <1>2, <1>3 DEF JobOK
<1> QED BY <1>2, <1>3

LEMMA JobWidens ==
    ASSUME NEW j, NEW I, NEW D, NEW J, NEW E, JobOK(j, I, D), I \subseteq J, D \subseteq E
    PROVE  JobOK(j, J, E)
BY DEF JobOK

LEMMA SkipKeeps ==
    ASSUME TypeOK, Listed, Skip
    PROVE  TypeOK' /\ Listed'
<1>1. MembersOK /\ MediaOK /\ JobOK(job, Ids, DOMAIN media) /\ CountsOK /\ SettledOK
  BY TypeParts
<1>2. JobOK(job', Ids, DOMAIN media) /\ job'.snap = job.snap /\ job'.script = job.script
      /\ job'.target = job.target /\ job'.upload = job.upload
  BY <1>1, JobTyping DEF Skip, Past
<1>3. MembersOK' /\ MediaOK' /\ JobOK(job', Ids', DOMAIN media') /\ CountsOK' /\ SettledOK'
  BY <1>1, <1>2 DEF Skip, MembersOK, MediaOK, CountsOK, SettledOK, Ids
<1>4. Listed'
  BY <1>2 DEF Skip, Listed, ListedOK, Ids
<1> QED BY <1>3, <1>4, TypeParts

LEMMA StoreKeeps ==
    ASSUME TypeOK, Listed, NEW i, i \in Ids \/ (i = NextId /\ NextId <= MaxMembers),
           NEW r \in Offers, r.photo \in DOMAIN media \cup {None}, NEW j \in Past, Store(i, r, j)
    PROVE  TypeOK' /\ Listed'
<1>1. MembersOK /\ MediaOK /\ JobOK(job, Ids, DOMAIN media)
  BY TypeParts
<1>2. /\ MembersOK' /\ MediaOK' /\ CountsOK' /\ SettledOK'
      /\ Ids \subseteq Ids' /\ media' = media
      /\ job' = j \/ job' = [j EXCEPT !.failed = TRUE]
  BY StoreTyping
<1>3. JobOK(job', Ids, DOMAIN media) /\ job'.snap = job.snap /\ job'.script = job.script
      /\ job'.target = job.target /\ job'.upload = job.upload
  BY <1>1, <1>2, JobTyping
<1>4. JobOK(job', Ids', DOMAIN media')
  BY <1>2, <1>3, JobWidens
<1>5. Listed'
  BY <1>2, <1>3 DEF Listed, ListedOK
<1> QED BY <1>2, <1>4, <1>5, TypeParts

LEMMA WrittenKeeps ==
    ASSUME TypeOK, Listed, Written
    PROVE  TypeOK' /\ Listed'
<1>1. CASE Skip
  BY <1>1, SkipKeeps
<1>2. CASE \E r \in Offers : Add(r, Onward) /\ r.photo = None
  <2>1. PICK r \in Offers : Add(r, Onward) /\ r.photo = None
    BY <1>2
  <2> QED BY <2>1, StoreKeeps DEF Add, Past
<1>3. ASSUME NEW i \in Ids, NEW r \in Offers, NEW j \in Past, r.photo = members[i].photo, Store(i, r, j)
      PROVE  TypeOK' /\ Listed'
  <2>1. MediaOK
    BY TypeParts
  <2> QED BY <1>3, <2>1, StoreKeeps DEF MediaOK
<1> QED BY <1>1, <1>2, <1>3 DEF Written

(* Uploads are appended.                                                   *)
LEMMA MediaGrows ==
    ASSUME MediaOK, NEW u \in Uploads
    PROVE  /\ Append(media, u) \in Seq(Uploads)
           /\ DOMAIN Append(media, u) = DOMAIN media \cup {Len(media) + 1}
           /\ Len(media) + 1 \notin DOMAIN media
           /\ Append(media, u)[Len(media) + 1] = u
           /\ \A m \in DOMAIN media : Append(media, u)[m] = media[m]
<1>1. media \in Seq(Uploads)
  BY DEF MediaOK
<1> QED BY <1>1

LEMMA PhotoTakes ==
    ASSUME TypeOK, Listed, Running("photos"), NEW i, i = PhotoTarget(Entry, job.snap), TakesPhoto(i)
    PROVE  /\ i \in DOMAIN job.snap /\ i \in Ids /\ i \notin job.done
           /\ job.snap[i].photo = None /\ Entry \in Cards
           /\ job.script = "photos" /\ job.upload = None
<1>1. JobOK(job, Ids, DOMAIN media)
  BY TypeParts
<1>2. Entry \in Cards
  BY InSource, SourceTyping DEF Scripts
<1>3. i \in DOMAIN job.snap \cup {None}
  BY <1>1, <1>2, MatchCardTyping DEF JobOK
<1> QED BY <1>2, <1>3 DEF TakesPhoto, Running, Listed, ListedOK

LEMMA PhotoUploadKeeps ==
    ASSUME TypeOK, Listed, PhotoUpload
    PROVE  TypeOK' /\ Listed'
<1>1. MembersOK /\ MediaOK /\ JobOK(job, Ids, DOMAIN media) /\ CountsOK /\ SettledOK
  BY TypeParts
<1> DEFINE i == PhotoTarget(Entry, job.snap)
           u == [by |-> "script", shows |-> Entry.person]
<1>2. CASE Skip
  BY <1>2, SkipKeeps
<1>3. CASE /\ TakesPhoto(i)
           /\ media' = Append(media, u)
           /\ job' = [job EXCEPT !.target = i, !.upload = Len(media) + 1]
           /\ UNCHANGED <<members, faults, edits, settled, lost>>
  <2>1. /\ i \in DOMAIN job.snap /\ i \in Ids /\ Entry \in Cards
        /\ job.script = "photos"
    BY <1>3, PhotoTakes DEF PhotoUpload
  <2>2. u \in Uploads
    BY <2>1 DEF Uploads, Cards
  <2> HIDE DEF i, u
  <2>3. /\ media' \in Seq(Uploads) /\ DOMAIN media' = DOMAIN media \cup {Len(media) + 1}
    BY <1>1, <1>3, <2>2, MediaGrows
  <2>4. MembersOK' /\ CountsOK' /\ SettledOK' /\ Ids' = Ids
    BY <1>1, <1>3 DEF MembersOK, CountsOK, SettledOK, Ids
  <2>5. MediaOK'
    BY <1>1, <1>3, <2>3 DEF MediaOK, Ids
  <2>6. JobOK(job', Ids', DOMAIN media')
    BY <1>1, <1>3, <2>1, <2>3, <2>4 DEF JobOK
  <2>7. job'.snap = job.snap /\ job'.script = job.script /\ job'.target = i
    BY <1>1, <1>3 DEF JobOK
  <2>8. Listed'
    BY <2>1, <2>4, <2>7 DEF Listed, ListedOK
  <2> QED BY <2>4, <2>5, <2>6, <2>8, TypeParts
<1> QED BY <1>2, <1>3 DEF PhotoUpload

(* A record replaced by one with the same slug.                            *)
LEMMA ReplacedMember ==
    ASSUME MembersOK, NEW i \in Ids, NEW r \in Records, r.slug = members[i].slug,
           members' = [members EXCEPT ![i] = r]
    PROVE  MembersOK' /\ Ids' = Ids
<1>1. /\ members' \in Seq(Records) /\ DOMAIN members' = DOMAIN members
      /\ Len(members') = Len(members)
  BY ReplacedIsSeq DEF MembersOK, Ids
<1>2. \A k \in Ids : members'[k].slug = members[k].slug
  BY <1>1 DEF Ids
<1>3. SlugsDiffer(members')
  BY <1>1, <1>2 DEF MembersOK, SlugsDiffer, Ids
<1> QED BY <1>1, <1>3 DEF MembersOK, Ids

LEMMA PhotoLinkKeeps ==
    ASSUME TypeOK, Listed, PhotoLink
    PROVE  TypeOK' /\ Listed'
<1>1. MembersOK /\ MediaOK /\ JobOK(job, Ids, DOMAIN media) /\ CountsOK /\ SettledOK
  BY TypeParts
<1> DEFINE i == job.target
           r == [members[i] EXCEPT !.photo = job.upload]
<1>2. i \in Ids /\ job.upload \in DOMAIN media
  BY <1>1 DEF PhotoLink, Listed, ListedOK, JobOK
<1>3. members[i] \in Records /\ DOMAIN media \subseteq Nat
  BY <1>1, <1>2 DEF MembersOK, MediaOK, Ids
<1>4. r \in Records /\ r.slug = members[i].slug /\ r.photo = job.upload
  BY <1>2, <1>3 DEF Records
<1>5. members' = [members EXCEPT ![i] = r]
  BY DEF PhotoLink
<1> HIDE DEF r
<1>6. MembersOK' /\ Ids' = Ids
  BY <1>1, <1>2, <1>4, <1>5, ReplacedMember
<1>7. MediaOK'
  <2>1. \A k \in Ids : members'[k].photo \in DOMAIN media \cup {None}
    BY <1>1, <1>2, <1>4, <1>5 DEF MediaOK, Ids
  <2>2. media' = media /\ lost' \subseteq DOMAIN media
    BY <1>1 DEF PhotoLink, MediaOK
  <2> QED BY <1>1, <1>6, <2>1, <2>2 DEF MediaOK
<1>8. CountsOK' /\ SettledOK' /\ media' = media
  BY <1>1 DEF PhotoLink, CountsOK, SettledOK
<1>9. /\ JobOK(job', Ids, DOMAIN media)
      /\ job'.snap = job.snap /\ job'.script = job.script /\ job'.upload = None
  <2>1. JobOK(Onward, Ids, DOMAIN media) /\ Onward.snap = job.snap /\ Onward.script = job.script
    BY <1>1, JobTyping DEF Past
  <2>2. job' = [Onward EXCEPT !.done = @ \cup {i}, !.target = None, !.upload = None]
    BY DEF PhotoLink
  <2> HIDE DEF i
  <2> QED BY <1>2, <2>1, <2>2 DEF JobOK
<1>10. Listed'
  BY <1>6, <1>9 DEF Listed, ListedOK
<1> QED BY <1>6, <1>7, <1>8, <1>9, <1>10, TypeParts

(* A script that starts, ends, fails at an entry or dies.                  *)
LEMMA JobStepKeeps ==
    ASSUME TypeOK, Listed, UNCHANGED <<members, media>>, CountsOK', SettledOK',
           lost' \subseteq DOMAIN media, JobOK(job', Ids, DOMAIN media), ListedOK(job', Ids)
    PROVE  TypeOK' /\ Listed'
<1>1. MembersOK /\ MediaOK
  BY TypeParts
<1>2. MembersOK' /\ MediaOK' /\ Ids' = Ids
  BY <1>1 DEF MembersOK, MediaOK, Ids
<1> QED BY <1>2, TypeParts DEF Listed

LEMMA NoJobTyping == JobOK(NoJob, Ids, DOMAIN media) /\ ListedOK(NoJob, Ids)
BY DEF NoJob, JobOK, ListedOK, None

LEMMA StartKeeps ==
    ASSUME TypeOK, Listed, NEW s \in Scripts, Start(s)
    PROVE  TypeOK' /\ Listed'
<1>1. MembersOK /\ MediaOK /\ CountsOK /\ SettledOK
  BY TypeParts
<1>2. job' = [NoJob EXCEPT !.script = s, !.snap = members]
  BY DEF Start
<1>3. job'.snap = members /\ job'.upload = None
  BY <1>2 DEF NoJob
<1>4. JobOK(job', Ids, DOMAIN media)
  <2>1. members \in Seq(Records)
    BY <1>1 DEF MembersOK
  <2>2. JobOK(NoJob, Ids, DOMAIN media)
    BY NoJobTyping
  <2> HIDE DEF NoJob
  <2> QED BY <1>2, <2>1, <2>2 DEF JobOK
<1>5. ListedOK(job', Ids)
  BY <1>3 DEF ListedOK, Ids
<1> QED BY <1>1, <1>4, <1>5, JobStepKeeps DEF Start, CountsOK, SettledOK, MediaOK

LEMMA FinishKeeps ==
    ASSUME TypeOK, Listed, Finish
    PROVE  TypeOK' /\ Listed'
<1>1. MediaOK /\ JobOK(job, Ids, DOMAIN media) /\ CountsOK /\ SettledOK
  BY TypeParts
<1>2. JobOK(job', Ids, DOMAIN media) /\ ListedOK(job', Ids)
  BY NoJobTyping DEF Finish
<1>3. SettledOK'
  BY <1>1 DEF Finish, SettledOK, JobOK
<1> QED BY <1>1, <1>2, <1>3, JobStepKeeps DEF Finish, CountsOK, MediaOK

LEMMA FaultKeeps ==
    ASSUME TypeOK, Listed, NEW j, JobOK(j, Ids, DOMAIN media), ListedOK(j, Ids), Fault(j)
    PROVE  TypeOK' /\ Listed'
<1>1. MediaOK /\ JobOK(job, Ids, DOMAIN media) /\ CountsOK /\ SettledOK
  BY TypeParts
<1>2. CountsOK' /\ SettledOK'
  BY <1>1, RosterAssumption DEF Fault, CountsOK, SettledOK
<1>3. lost' \subseteq DOMAIN media
  BY <1>1 DEF Fault, SetAside, MediaOK, JobOK
<1> QED BY <1>2, <1>3, JobStepKeeps DEF Fault

LEMMA FailureKeeps ==
    ASSUME TypeOK, Listed, EntryFails \/ ScriptDies
    PROVE  TypeOK' /\ Listed'
<1>1. MembersOK /\ JobOK(job, Ids, DOMAIN media)
  BY TypeParts
<1>2. CASE ScriptDies
  BY <1>2, NoJobTyping, FaultKeeps DEF ScriptDies
<1>3. CASE EntryFails
  <2> DEFINE j == [Onward EXCEPT !.failed = TRUE, !.target = None, !.upload = None]
  <2>1. JobOK(Onward, Ids, DOMAIN media) /\ Onward.snap = job.snap /\ Onward.script = job.script
    BY <1>1, JobTyping DEF Past
  <2>2. JobOK(j, Ids, DOMAIN media) /\ j.snap = job.snap /\ j.upload = None
    BY <2>1 DEF JobOK
  <2>3. ListedOK(j, Ids)
    BY <2>2 DEF Listed, ListedOK
  <2>4. Fault(j)
    BY <1>3 DEF EntryFails
  <2> HIDE DEF j
  <2> QED BY <2>2, <2>3, <2>4, FaultKeeps
<1> QED BY <1>2, <1>3

(* People.                                                                 *)
LEMMA EditKeeps ==
    ASSUME TypeOK, Listed, NEW i \in Ids, NEW r \in Records, r.slug = members[i].slug, Edit(i, r),
           media' \in Seq(Uploads), DOMAIN media \subseteq DOMAIN media',
           r.photo \in DOMAIN media' \cup {None}, lost' \subseteq DOMAIN media'
    PROVE  TypeOK' /\ Listed'
<1>1. MembersOK /\ MediaOK /\ JobOK(job, Ids, DOMAIN media) /\ CountsOK /\ SettledOK
  BY TypeParts
<1>2. members' = [members EXCEPT ![i] = r]
  BY DEF Edit
<1>3. MembersOK' /\ Ids' = Ids
  BY <1>1, <1>2, ReplacedMember
<1>4. \A k \in Ids : members'[k].photo \in DOMAIN media' \cup {None}
  BY <1>1, <1>2 DEF MediaOK, Ids
<1>5. MediaOK'
  BY <1>3, <1>4 DEF MediaOK
<1>6. CountsOK' /\ SettledOK'
  BY <1>1, RosterAssumption DEF Edit, CountsOK, SettledOK
<1>7. JobOK(job', Ids, DOMAIN media) /\ job'.snap = job.snap /\ job'.script = job.script
      /\ job'.target = job.target /\ job'.upload = job.upload
  <2>1. job' = [job EXCEPT !.disturbed = job.script # "none"]
    BY DEF Edit
  <2> QED BY <1>1, <2>1 DEF JobOK
<1>8. JobOK(job', Ids', DOMAIN media')
  BY <1>3, <1>7, JobWidens
<1>9. Listed'
  BY <1>3, <1>7 DEF Listed, ListedOK
<1> QED BY <1>3, <1>5, <1>6, <1>8, <1>9, TypeParts

(* A panel edit writes one record of somebody: the photo stays, or is an   *)
(* upload made for it.                                                     *)
LEMMA PanelWrites ==
    ASSUME TypeOK, PanelEdit
    PROVE  \E i \in Ids, r \in Records :
               /\ r.slug = members[i].slug /\ Edit(i, r)
               /\ \/ r.photo = members[i].photo /\ UNCHANGED <<media, lost>>
                  \/ ChoosePhoto(i) /\ r.photo = Len(media) + 1
<1>1. MembersOK /\ MediaOK
  BY TypeParts
<1>2. PICK i \in Ids :
        \/ \E n \in Spellings[members[i].person] : Rename(i, n)
        \/ \E s \in Statuses : ChangeStatus(i, s)
        \/ \E k \in Kinds : ChangeContact(i, k, "own")
        \/ ChoosePhoto(i)
  BY DEF PanelEdit
<1> DEFINE q == members[i]
<1>3. q \in Records /\ media \in Seq(Uploads)
  BY <1>1 DEF MembersOK, MediaOK, Ids
<1>4. ASSUME NEW n \in Spellings[q.person], Rename(i, n)
      PROVE  \E r \in Records : /\ r.slug = q.slug /\ Edit(i, r)
                                 /\ r.photo = q.photo /\ UNCHANGED <<media, lost>>
  <2>1. n \in PersonNames
    <3>1. q.person \in People
      BY <1>3 DEF Records
    <3> HIDE DEF q
    <3> QED BY <3>1, RosterAssumption
  <2> DEFINE r == [q EXCEPT !.name = n]
  <2>2. r \in Records /\ r.slug = q.slug /\ r.photo = q.photo
    BY <1>3, <2>1 DEF Records
  <2>3. Edit(i, r) /\ UNCHANGED <<media, lost>>
    BY <1>4 DEF Rename
  <2> HIDE DEF r
  <2> QED BY <2>2, <2>3
<1>5. ASSUME NEW s \in Statuses, ChangeStatus(i, s)
      PROVE  \E r \in Records : /\ r.slug = q.slug /\ Edit(i, r)
                                 /\ r.photo = q.photo /\ UNCHANGED <<media, lost>>
  <2> DEFINE r == [q EXCEPT !.status = s]
  <2>2. r \in Records /\ r.slug = q.slug /\ r.photo = q.photo
    BY <1>3 DEF Records
  <2>3. Edit(i, r) /\ UNCHANGED <<media, lost>>
    BY <1>5 DEF ChangeStatus
  <2> HIDE DEF r
  <2> QED BY <2>2, <2>3
<1>6. ASSUME NEW k \in Kinds, ChangeContact(i, k, "own")
      PROVE  \E r \in Records : /\ r.slug = q.slug /\ Edit(i, r)
                                 /\ r.photo = q.photo /\ UNCHANGED <<media, lost>>
  <2> DEFINE r == [q EXCEPT !.contact[k] = "own"]
  <2>1. "own" \in Values
    BY DEF Values
  <2>2. r \in Records /\ r.slug = q.slug /\ r.photo = q.photo
    BY <1>3, <2>1 DEF Records
  <2>3. Edit(i, r) /\ UNCHANGED <<media, lost>>
    BY <1>6 DEF ChangeContact
  <2> HIDE DEF r
  <2> QED BY <2>2, <2>3
<1>7. ASSUME ChoosePhoto(i)
      PROVE  \E r \in Records : /\ r.slug = q.slug /\ Edit(i, r) /\ r.photo = Len(media) + 1
  <2> DEFINE r == [q EXCEPT !.photo = Len(media) + 1]
  <2>1. Len(media) + 1 \in Nat
    BY <1>3
  <2>2. r \in Records /\ r.slug = q.slug /\ r.photo = Len(media) + 1
    BY <1>3, <2>1 DEF Records
  <2>3. Edit(i, r)
    BY <1>7 DEF ChoosePhoto
  <2> HIDE DEF r
  <2> QED BY <2>2, <2>3
<1> QED BY <1>2, <1>4, <1>5, <1>6, <1>7

LEMMA PanelKeeps ==
    ASSUME TypeOK, Listed, PanelEdit
    PROVE  TypeOK' /\ Listed'
<1>1. MembersOK /\ MediaOK
  BY TypeParts
<1>2. PICK i \in Ids, r \in Records :
        /\ r.slug = members[i].slug /\ Edit(i, r)
        /\ \/ r.photo = members[i].photo /\ UNCHANGED <<media, lost>>
           \/ ChoosePhoto(i) /\ r.photo = Len(media) + 1
  BY PanelWrites
<1>3. CASE r.photo = members[i].photo /\ UNCHANGED <<media, lost>>
  BY <1>1, <1>2, <1>3, EditKeeps DEF MediaOK
<1>4. CASE ChoosePhoto(i) /\ r.photo = Len(media) + 1
  <2> DEFINE u == [by |-> "person", shows |-> members[i].person]
  <2>1. u \in Uploads
    <3>1. members[i] \in Records
      BY <1>1 DEF MembersOK, Ids
    <3>2. members[i].person \in People
      BY <3>1 DEF Records
    <3> QED BY <3>2 DEF Uploads
  <2>2. media' = Append(media, u)
    BY <1>4 DEF ChoosePhoto
  <2> HIDE DEF u
  <2>3. media' \in Seq(Uploads) /\ DOMAIN media' = DOMAIN media \cup {Len(media) + 1}
    BY <1>1, <2>1, <2>2, MediaGrows
  <2>4. lost' \subseteq DOMAIN media
    BY <1>1, <1>4 DEF ChoosePhoto, MediaOK
  <2> QED BY <1>2, <1>4, <2>3, <2>4, EditKeeps
<1> QED BY <1>2, <1>3, <1>4

(* Every step, in the shapes the invariants are looked at.                 *)
LEMMA Steps ==
    ASSUME TypeOK, Listed, Next
    PROVE  \/ Written /\ job.script \notin {"none", "photos"}
           \/ PhotoUpload \/ PhotoLink \/ Finish \/ EntryFails \/ ScriptDies \/ PanelEdit
           \/ \E s \in Scripts : Start(s)
BY EntryWrites DEF Next, Script

LEMMA StepKeeps ==
    ASSUME TypeOK, Listed, [Next]_vars
    PROVE  TypeOK' /\ Listed'
<1>1. CASE UNCHANGED vars
  BY <1>1 DEF vars, TypeOK, Listed, ListedOK, Ids
<1>2. CASE Next
  BY <1>2, Steps, WrittenKeeps, PhotoUploadKeeps, PhotoLinkKeeps, FinishKeeps, FailureKeeps,
     PanelKeeps, StartKeeps
<1> QED BY <1>1, <1>2

LEMMA InitIsTyped == Init => TypeOK /\ Listed
<1> SUFFICES ASSUME Init PROVE TypeOK /\ Listed
  OBVIOUS
<1>1. MembersOK /\ MediaOK
  BY RosterAssumption DEF Init, MembersOK, MediaOK, Ids
<1>2. JobOK(job, Ids, DOMAIN media) /\ Listed
  BY NoJobTyping DEF Init, Listed
<1>3. CountsOK /\ SettledOK
  BY RosterAssumption DEF Init, CountsOK, SettledOK
<1> QED BY <1>1, <1>2, <1>3, TypeParts

(* Every variable keeps its type; in particular every record stays one     *)
(* Payload would have accepted, with a slug of its own and a photo that is *)
(* in the media library, whatever the scripts meet and whoever edits.      *)
THEOREM TypeCorrect == Spec => []TypeOK
<1>1. TypeOK /\ Listed /\ [Next]_vars => (TypeOK /\ Listed)'
  BY StepKeeps
<1> QED BY <1>1, InitIsTyped, PTL DEF Spec

----------------------------------------------------------------------------
(* What a record held.                                                     *)
Stands(i) ==
    /\ job.snap[i].orcid # "" => members'[i].orcid = members[i].orcid
    /\ \A k \in Kinds :
        job.snap[i].contact[k] # "" /\ members'[i].contact[k] # members[i].contact[k]
            => Entry.replace

LEMMA UpdateStands ==
    ASSUME TypeOK, Listed, NEW i \in DOMAIN job.snap, ~HasConflict(job.snap[i], Entry),
           members'[i] \in {members[i], UpdatePayload(members[i], job.snap[i], Entry)}
    PROVE  Stands(i)
<1>1. members[i] \in Records
  <2>1. MembersOK /\ i \in Ids
    BY TypeParts DEF Listed, ListedOK
  <2> QED BY <2>1 DEF MembersOK, Ids
<1>2. CASE members'[i] = members[i]
  BY <1>2 DEF Stands
<1>3. CASE members'[i] = UpdatePayload(members[i], job.snap[i], Entry)
  <2> DEFINE r == members[i]
             seen == job.snap[i]
             e == Entry
             u == UpdatePayload(r, seen, e)
  <2>1. u.orcid = IF Identifier(e) # "" /\ seen.orcid = "" THEN Identifier(e) ELSE r.orcid
    BY <1>1 DEF UpdatePayload, Records
  <2>2. u.contact = [k \in Kinds |-> IF k = e.kind /\ e.value # "" /\ seen.contact[k] # e.value
                                     THEN e.value ELSE r.contact[k]]
    BY <1>1 DEF UpdatePayload, Records
  <2>3. ASSUME NEW k \in Kinds, seen.contact[k] # "", u.contact[k] # r.contact[k]
        PROVE  e.replace
    <3>1. k = e.kind /\ e.value # "" /\ seen.contact[k] # e.value
      <4> HIDE DEF u, r, seen, e
      <4> QED BY <2>2, <2>3
    <3>2. e.kind \in Kinds /\ Conflicts(seen.contact[e.kind], e.value)
      BY <2>3, <3>1 DEF Conflicts
    <3> QED BY <3>2 DEF HasConflict
  <2> QED BY <1>3, <2>1, <2>3 DEF Stands
<1> QED BY <1>2, <1>3

LEMMA ImportStands ==
    ASSUME TypeOK, Listed, ImportEntry, NEW i \in DOMAIN job.snap
    PROVE  Stands(i)
<1>1. MediaOK /\ MembersOK /\ i \in Ids
  BY TypeParts DEF Listed, ListedOK
<1>2. CASE Skip
  BY <1>2 DEF Skip, Stands
<1>3. CASE \E r \in Offers : Add(r, Onward) /\ r.photo = None
  <2>1. PICK r \in Offers : Add(r, Onward) /\ r.photo = None
    BY <1>3
  <2>2. NextId # i
    BY <1>1, IdsAreNumbers
  <2>3. members'[i] = members[i]
    BY <1>1, <2>1, <2>2, StoreTyping DEF Add
  <2> QED BY <2>3 DEF Stands
<1>4. CASE \E k \in DOMAIN job.snap :
             /\ k \in Ids /\ ~HasConflict(job.snap[k], Entry)
             /\ UpdatePayload(members[k], job.snap[k], Entry) \in Offers
             /\ UpdatePayload(members[k], job.snap[k], Entry).photo = members[k].photo
             /\ Store(k, UpdatePayload(members[k], job.snap[k], Entry), Onward)
  <2>1. PICK k \in DOMAIN job.snap :
             /\ k \in Ids /\ ~HasConflict(job.snap[k], Entry)
             /\ UpdatePayload(members[k], job.snap[k], Entry) \in Offers
             /\ UpdatePayload(members[k], job.snap[k], Entry).photo = members[k].photo
             /\ Store(k, UpdatePayload(members[k], job.snap[k], Entry), Onward)
    BY <1>4
  <2> DEFINE r == UpdatePayload(members[k], job.snap[k], Entry)
  <2>2. r \in Offers /\ r.photo \in DOMAIN media \cup {None} /\ Store(k, r, Onward)
    BY <1>1, <2>1 DEF MediaOK
  <2>3. /\ \A l \in Ids \ {k} : members'[l] = members[l]
        /\ members'[k] \in {members[k], r}
    <3> HIDE DEF r
    <3> QED BY <2>1, <2>2, StoreTyping
  <2>4. CASE i = k
    BY <2>1, <2>3, <2>4, UpdateStands
  <2>5. CASE i # k
    <3>1. members'[i] = members[i]
      BY <1>1, <2>3, <2>5
    <3> QED BY <3>1 DEF Stands
  <2> QED BY <2>4, <2>5
<1> QED BY <1>2, <1>3, <1>4, ImportWrites

(* An import that finds a contact or an identifier in a record leaves it   *)
(* there, for any dataset and any members, unless its entry says replace:  *)
(* what was judged on the snapshot is what is written over, field by field.*)
THEOREM HeldValuesKept == Spec => HeldValuesStand
<1>1. TypeOK /\ Listed /\ [Next]_vars => (TypeOK /\ Listed)'
  BY StepKeeps
<1>2. ASSUME TypeOK, Listed, [Next]_vars
      PROVE  [job.script = "import" /\ edits' = edits => \A i \in DOMAIN job.snap : Stands(i)]_vars
  <2> SUFFICES ASSUME Next, job.script = "import", edits' = edits, NEW i \in DOMAIN job.snap
               PROVE  Stands(i)
    BY <1>2
  <2>1. CASE ImportEntry
    BY <1>2, <2>1, ImportStands
  <2>2. CASE StatusEntry \/ NameEntry \/ DoctorEntry \/ PhotoUpload
    BY <2>2 DEF StatusEntry, NameEntry, DoctorEntry, PhotoUpload, Running
  <2>3. CASE PhotoLink
    BY <1>2, <2>3 DEF PhotoLink, Listed, ListedOK
  <2>4. CASE Finish \/ EntryFails \/ ScriptDies
    <3>1. members' = members
      BY <2>4 DEF Finish, EntryFails, ScriptDies, Fault
    <3> QED BY <3>1 DEF Stands
  <2>5. CASE PanelEdit
    <3>1. edits' = edits + 1
      BY <2>5 DEF PanelEdit, Rename, ChangeStatus, ChangeContact, ChoosePhoto, Edit
    <3>2. edits \in Nat
      BY <1>2 DEF TypeOK
    <3> QED BY <3>1, <3>2
  <2>6. CASE \E s \in Scripts : Start(s)
    BY <2>6 DEF Start
  <2> QED BY <2>1, <2>2, <2>3, <2>4, <2>5, <2>6 DEF Next, Script
<1>3. HeldValuesStand <=>
      [][job.script = "import" /\ edits' = edits => \A i \in DOMAIN job.snap : Stands(i)]_vars
  BY DEF HeldValuesStand, Stands
<1> QED BY <1>1, <1>2, <1>3, InitIsTyped, PTL DEF Spec

----------------------------------------------------------------------------
(* Uploads.  A member without a photo in the snapshot whom the script has  *)
(* not done has none by now, or one somebody chose; and an upload on its   *)
(* way is for such a member, at an entry that is not finished.             *)
ByPerson(m) == m # None => media[m].by = "person"
Open(i) == job.script = "photos" /\ job.snap[i].photo = None /\ i \notin job.done
NoneTaken == \A i \in DOMAIN job.snap : Open(i) => ByPerson(members[i].photo)
InFlight == job.upload # None => Open(job.target) /\ job.at <= Len(Source(job.script))
UploadInv == TypeOK /\ Listed /\ NoneTaken /\ InFlight /\ UploadsAreUsed

(* A step that lets no photo go.                                           *)
LEMMA PhotosStay ==
    ASSUME UploadsAreUsed, Ids \subseteq Ids', media' = media, lost \subseteq lost',
           \A i \in Ids : members'[i].photo = members[i].photo,
           job'.upload = job.upload \/ job.upload = None \/ job.upload \in lost'
    PROVE  0 \notin DOMAIN media => UploadsAreUsed'
BY DEF UploadsAreUsed, None

LEMMA MediaCounts == ASSUME TypeOK PROVE 0 \notin DOMAIN media /\ lost \subseteq DOMAIN media
BY DEF TypeOK

(* Entries of the other scripts, and entries the photo script skips.       *)
LEMMA WrittenPhotos ==
    ASSUME TypeOK, Listed, Written
    PROVE  /\ Ids \subseteq Ids' /\ media' = media /\ lost' = lost
           /\ \A i \in Ids : members'[i].photo = members[i].photo
           /\ job'.script = job.script /\ job'.snap = job.snap /\ job'.upload = job.upload
<1>1. MembersOK /\ MediaOK /\ JobOK(job, Ids, DOMAIN media)
  BY TypeParts
<1>2. CASE Skip
  BY <1>1, <1>2, JobTyping DEF Skip, Past, Ids
<1>3. ASSUME NEW i, i \in Ids \/ (i = NextId /\ NextId <= MaxMembers), NEW r \in Offers,
             NEW j \in Past, Store(i, r, j), i \in Ids => r.photo = members[i].photo,
             r.photo \in DOMAIN media \cup {None}
      PROVE  /\ Ids \subseteq Ids' /\ media' = media /\ lost' = lost
             /\ \A k \in Ids : members'[k].photo = members[k].photo
             /\ job'.script = job.script /\ job'.snap = job.snap /\ job'.upload = job.upload
  <2>1. /\ Ids \subseteq Ids' /\ media' = media /\ lost' = lost
        /\ job' = j \/ job' = [j EXCEPT !.failed = TRUE]
        /\ \A k \in Ids \ {i} : members'[k] = members[k]
        /\ i \in Ids => members'[i] \in {members[i], r}
    BY <1>3, StoreTyping
  <2>2. job'.script = job.script /\ job'.snap = job.snap /\ job'.upload = job.upload
    BY <1>1, <2>1, JobTyping
  <2>3. \A k \in Ids : members'[k].photo = members[k].photo
    BY <1>3, <2>1
  <2> QED BY <2>1, <2>2, <2>3
<1>4. CASE \E r \in Offers : Add(r, Onward) /\ r.photo = None
  <2>1. PICK r \in Offers : Add(r, Onward) /\ r.photo = None
    BY <1>4
  <2>2. NextId \notin Ids
    BY <1>1, IdsAreNumbers
  <2> QED BY <1>3, <2>1, <2>2 DEF Add, Past
<1>5. CASE \E i \in Ids, r \in Offers, j \in Past : r.photo = members[i].photo /\ Store(i, r, j)
  BY <1>1, <1>3, <1>5 DEF MediaOK
<1> QED BY <1>2, <1>4, <1>5 DEF Written

LEMMA WrittenUses ==
    ASSUME UploadInv, Written, job.script # "photos"
    PROVE  NoneTaken' /\ InFlight' /\ UploadsAreUsed'
<1>1. TypeOK /\ Listed /\ UploadsAreUsed
  BY DEF UploadInv
<1>2. /\ Ids \subseteq Ids' /\ media' = media /\ lost' = lost
      /\ \A i \in Ids : members'[i].photo = members[i].photo
      /\ job'.script = job.script /\ job'.upload = job.upload
  BY <1>1, WrittenPhotos
<1>3. UploadsAreUsed'
  BY <1>1, <1>2, PhotosStay, MediaCounts
<1>4. job'.upload = None
  BY <1>1, <1>2 DEF Listed, ListedOK
<1> QED BY <1>2, <1>3, <1>4 DEF NoneTaken, InFlight, Open

LEMMA UploadUses ==
    ASSUME UploadInv, PhotoUpload
    PROVE  NoneTaken' /\ InFlight' /\ UploadsAreUsed'
<1>1. /\ TypeOK /\ Listed /\ NoneTaken /\ UploadsAreUsed
      /\ job.script = "photos" /\ job.upload = None /\ job.at <= Len(Source("photos"))
  BY DEF UploadInv, PhotoUpload, Running
<1>2. MediaOK /\ JobOK(job, Ids, DOMAIN media)
  BY <1>1, TypeParts
<1> DEFINE i == PhotoTarget(Entry, job.snap)
           u == [by |-> "script", shows |-> Entry.person]
<1>3. CASE Skip
  <2>1. Written
    BY <1>3 DEF Written
  <2>2. /\ Ids \subseteq Ids' /\ media' = media /\ lost' = lost
        /\ \A k \in Ids : members'[k].photo = members[k].photo
        /\ job'.snap = job.snap /\ job'.upload = job.upload
    BY <1>1, <2>1, WrittenPhotos
  <2>3. UploadsAreUsed'
    BY <1>1, <2>2, PhotosStay, MediaCounts
  <2>4. job'.done = job.done
    BY <1>2, <1>3 DEF Skip, Onward, JobOK
  <2>5. NoneTaken'
    BY <1>1, <2>2, <2>4 DEF NoneTaken, Open, ByPerson, Listed, ListedOK
  <2> QED BY <1>1, <2>2, <2>3, <2>5 DEF InFlight
<1>4. CASE /\ TakesPhoto(i)
           /\ media' = Append(media, u)
           /\ job' = [job EXCEPT !.target = i, !.upload = Len(media) + 1]
           /\ UNCHANGED <<members, faults, edits, settled, lost>>
  <2>1. i \in DOMAIN job.snap /\ job.snap[i].photo = None /\ i \notin job.done /\ Entry \in Cards
    BY <1>1, <1>4, PhotoTakes DEF PhotoUpload
  <2>2. u \in Uploads
    BY <2>1 DEF Uploads, Cards
  <2> HIDE DEF i, u
  <2>3. /\ DOMAIN media' = DOMAIN media \cup {Len(media) + 1}
        /\ \A m \in DOMAIN media : media'[m] = media[m]
    BY <1>2, <1>4, <2>2, MediaGrows
  <2>4. /\ job'.target = i /\ job'.upload = Len(media) + 1 /\ job'.at = job.at
        /\ job'.script = "photos" /\ job'.snap = job.snap /\ job'.done = job.done
    BY <1>1, <1>2, <1>4 DEF JobOK
  <2>5. InFlight'
    BY <1>1, <2>1, <2>4 DEF InFlight, Open, Source
  <2>6. NoneTaken'
    <3> SUFFICES ASSUME NEW k \in DOMAIN job.snap, Open(k)
                 PROVE  ByPerson(members[k].photo)'
      BY <1>1, <2>4 DEF NoneTaken, Open
    <3>1. ByPerson(members[k].photo)
      BY <1>1 DEF NoneTaken
    <3>2. k \in Ids /\ members' = members
      BY <1>1, <1>4 DEF Listed, ListedOK
    <3>3. members[k].photo \in DOMAIN media \cup {None}
      BY <1>2, <3>2 DEF MediaOK
    <3> QED BY <2>3, <3>1, <3>2, <3>3 DEF ByPerson
  <2>7. UploadsAreUsed'
    <3> SUFFICES ASSUME NEW m \in DOMAIN media'
                 PROVE  m \in lost' \/ m = job'.upload \/ \E k \in Ids' : members'[k].photo = m
      BY DEF UploadsAreUsed
    <3>1. CASE m = Len(media) + 1
      BY <2>4, <3>1
    <3>2. CASE m \in DOMAIN media
      BY <1>1, <1>4, <3>2, MediaCounts DEF UploadsAreUsed, Ids, None
    <3> QED BY <2>3, <3>1, <3>2
  <2> QED BY <2>5, <2>6, <2>7
<1> QED BY <1>3, <1>4 DEF PhotoUpload

LEMMA LinkUses ==
    ASSUME UploadInv, PhotoLink
    PROVE  NoneTaken' /\ InFlight' /\ UploadsAreUsed'
<1>1. /\ TypeOK /\ Listed /\ NoneTaken /\ InFlight /\ UploadsAreUsed /\ job.upload # None
  BY DEF UploadInv, PhotoLink
<1>2. MembersOK /\ MediaOK /\ JobOK(job, Ids, DOMAIN media)
  BY <1>1, TypeParts
<1> DEFINE i == job.target
           old == members[i].photo
<1>3. i \in DOMAIN job.snap /\ i \in Ids /\ Open(i) /\ job.upload \in DOMAIN media
  BY <1>1, <1>2 DEF Listed, ListedOK, InFlight, JobOK
<1>4. /\ members' = [members EXCEPT ![i].photo = job.upload] /\ media' = media
      /\ lost' = lost \cup ({old} \cap {m \in DOMAIN media : media[m].by = "person"})
      /\ job' = [Onward EXCEPT !.done = @ \cup {i}, !.target = None, !.upload = None]
  BY DEF PhotoLink
<1>5. /\ job'.script = job.script /\ job'.snap = job.snap /\ job'.done = job.done \cup {i}
      /\ job'.upload = None
  BY <1>2, <1>4 DEF Onward, JobOK
<1>6. /\ Ids' = Ids /\ members'[i].photo = job.upload
      /\ \A k \in Ids \ {i} : members'[k] = members[k]
  <2>1. members[i] \in Records
    BY <1>2, <1>3 DEF MembersOK, Ids
  <2> HIDE DEF i
  <2> QED BY <1>3, <1>4, <2>1 DEF Ids, Records
<1>7. NoneTaken'
  <2> SUFFICES ASSUME NEW k \in DOMAIN job.snap, Open(k)'
               PROVE  ByPerson(members[k].photo)'
    BY <1>5 DEF NoneTaken
  <2>1. Open(k) /\ k # i
    BY <1>5 DEF Open
  <2>2. k \in Ids
    BY <1>1 DEF Listed, ListedOK
  <2>3. ByPerson(members[k].photo)
    BY <1>1, <2>1 DEF NoneTaken
  <2> QED BY <1>4, <1>6, <2>1, <2>2, <2>3 DEF ByPerson
<1>8. old = None \/ old \in lost'
  <2>1. ByPerson(old)
    BY <1>1, <1>3 DEF NoneTaken
  <2>2. old \in DOMAIN media \cup {None}
    BY <1>2, <1>3 DEF MediaOK
  <2> QED BY <1>4, <2>1, <2>2 DEF ByPerson
<1>9. UploadsAreUsed'
  <2> SUFFICES ASSUME NEW m \in DOMAIN media
               PROVE  m \in lost' \/ \E k \in Ids : members'[k].photo = m
    BY <1>4, <1>6 DEF UploadsAreUsed
  <2>1. m # None
    BY <1>1, MediaCounts DEF None
  <2>2. CASE m \in lost \/ m = job.upload
    BY <1>3, <1>4, <1>6, <2>2
  <2>3. CASE \E k \in Ids : members[k].photo = m
    <3>1. PICK k \in Ids : members[k].photo = m
      BY <2>3
    <3>2. CASE k = i
      BY <1>8, <2>1, <3>1, <3>2
    <3>3. CASE k # i
      BY <1>6, <3>1, <3>3
    <3> QED BY <3>2, <3>3
  <2> QED BY <1>1, <2>2, <2>3 DEF UploadsAreUsed
<1> QED BY <1>5, <1>7, <1>9 DEF InFlight

(* A job that starts, ends or loses its entry.                             *)
LEMMA JobUses ==
    ASSUME UploadInv, UNCHANGED <<members, media>>, lost \subseteq lost', job'.upload = None,
           job.upload = None \/ job.upload \in lost'
    PROVE  InFlight' /\ UploadsAreUsed'
<1>1. TypeOK /\ UploadsAreUsed /\ Ids' = Ids
  BY DEF UploadInv, Ids
<1>2. UploadsAreUsed'
  BY <1>1, PhotosStay, MediaCounts
<1> QED BY <1>2 DEF InFlight

LEMMA JobStepUses ==
    ASSUME UploadInv, (\E s \in Scripts : Start(s)) \/ Finish \/ EntryFails \/ ScriptDies
    PROVE  NoneTaken' /\ InFlight' /\ UploadsAreUsed'
<1>1. TypeOK /\ NoneTaken /\ InFlight /\ Listed
  BY DEF UploadInv
<1>2. MembersOK /\ JobOK(job, Ids, DOMAIN media)
  BY <1>1, TypeParts
<1>3. CASE \E s \in Scripts : Start(s)
  <2>1. job.upload = None
    BY <1>1, <1>3 DEF Start, Listed, ListedOK
  <2>2. job'.snap = members /\ job'.upload = None /\ job'.done = {}
    BY <1>3 DEF Start, NoJob
  <2>3. UNCHANGED <<members, media, lost>>
    BY <1>3 DEF Start
  <2>4. NoneTaken'
    BY <2>2, <2>3 DEF NoneTaken, Open, ByPerson
  <2> QED BY <2>1, <2>2, <2>3, <2>4, JobUses
<1>4. CASE Finish
  <2>1. job.upload = None
    <3> SUFFICES ASSUME job.upload # None PROVE FALSE
      OBVIOUS
    <3>1. job.script = "photos" /\ job.at <= Len(Source(job.script))
      BY <1>1 DEF InFlight, Open
    <3>2. Len(Source("photos")) \in Nat /\ job.at \in Nat
      <4>1. Source("photos") = Team
        BY DEF Source
      <4> QED BY <1>2, <4>1, RosterAssumption DEF JobOK
    <3> QED BY <1>4, <3>1, <3>2 DEF Finish
  <2>2. job'.script = "none" /\ job'.upload = None
    BY <1>4 DEF Finish, NoJob
  <2>3. UNCHANGED <<members, media, lost>>
    BY <1>4 DEF Finish
  <2> QED BY <2>1, <2>2, <2>3, JobUses DEF NoneTaken, Open
<1>5. CASE ScriptDies
  <2>1. job'.script = "none" /\ job'.upload = None
    BY <1>5 DEF ScriptDies, Fault, NoJob
  <2>2. UNCHANGED <<members, media>> /\ lost' = lost \cup SetAside
    BY <1>5 DEF ScriptDies, Fault
  <2> QED BY <2>1, <2>2, JobUses DEF NoneTaken, Open, SetAside
<1>6. CASE EntryFails
  <2>1. /\ job'.script = job.script /\ job'.snap = job.snap /\ job'.done = job.done
        /\ job'.upload = None
    BY <1>2, <1>6 DEF EntryFails, Fault, Onward, JobOK
  <2>2. UNCHANGED <<members, media>> /\ lost' = lost \cup SetAside
    BY <1>6 DEF EntryFails, Fault
  <2>3. NoneTaken'
    BY <1>1, <2>1, <2>2 DEF NoneTaken, Open, ByPerson
  <2> QED BY <2>1, <2>2, <2>3, JobUses DEF SetAside
<1> QED BY <1>3, <1>4, <1>5, <1>6

LEMMA PanelUses ==
    ASSUME UploadInv, PanelEdit
    PROVE  NoneTaken' /\ InFlight' /\ UploadsAreUsed'
<1>1. /\ TypeOK /\ Listed /\ NoneTaken /\ InFlight /\ UploadsAreUsed
  BY DEF UploadInv
<1>2. MembersOK /\ MediaOK /\ JobOK(job, Ids, DOMAIN media)
  BY <1>1, TypeParts
<1>3. PICK i \in Ids, r \in Records :
        /\ r.slug = members[i].slug /\ Edit(i, r)
        /\ \/ r.photo = members[i].photo /\ UNCHANGED <<media, lost>>
           \/ ChoosePhoto(i) /\ r.photo = Len(media) + 1
  BY <1>1, PanelWrites
<1>4. members' = [members EXCEPT ![i] = r] /\ job' = [job EXCEPT !.disturbed = job.script # "none"]
  BY <1>3 DEF Edit
<1>5. /\ Ids' = Ids /\ members'[i] = r
      /\ \A k \in Ids \ {i} : members'[k] = members[k]
  BY <1>2, <1>3, <1>4 DEF Ids
<1>6. /\ job'.script = job.script /\ job'.snap = job.snap /\ job'.done = job.done
      /\ job'.target = job.target /\ job'.upload = job.upload /\ job'.at = job.at
  BY <1>2, <1>4 DEF JobOK
<1>7. InFlight'
  BY <1>1, <1>6 DEF InFlight, Open
<1>8. CASE r.photo = members[i].photo /\ UNCHANGED <<media, lost>>
  <2>1. \A k \in Ids : members'[k].photo = members[k].photo
    BY <1>5, <1>8
  <2>2. UploadsAreUsed'
    BY <1>1, <1>5, <1>6, <1>8, <2>1, PhotosStay, MediaCounts
  <2>3. NoneTaken'
    BY <1>1, <1>6, <1>8, <2>1 DEF NoneTaken, Open, ByPerson, Listed, ListedOK
  <2> QED BY <1>7, <2>2, <2>3
<1>9. CASE ChoosePhoto(i) /\ r.photo = Len(media) + 1
  <2> DEFINE u == [by |-> "person", shows |-> members[i].person]
  <2>1. u \in Uploads
    <3>1. members[i] \in Records
      BY <1>2 DEF MembersOK, Ids
    <3>2. members[i].person \in People
      BY <3>1 DEF Records
    <3> QED BY <3>2 DEF Uploads
  <2>2. media' = Append(media, u) /\ lost' = lost \cup ({members[i].photo} \ {None}) /\ u.by = "person"
    BY <1>9 DEF ChoosePhoto
  <2> HIDE DEF u
  <2>3. /\ DOMAIN media' = DOMAIN media \cup {Len(media) + 1}
        /\ media'[Len(media) + 1] = u
        /\ \A m \in DOMAIN media : media'[m] = media[m]
    BY <1>2, <2>1, <2>2, MediaGrows
  <2>4. NoneTaken'
    <3> SUFFICES ASSUME NEW k \in DOMAIN job.snap, Open(k)
                 PROVE  ByPerson(members[k].photo)'
      BY <1>6 DEF NoneTaken, Open
    <3>1. k \in Ids /\ ByPerson(members[k].photo)
      BY <1>1 DEF NoneTaken, Listed, ListedOK
    <3>2. members[k].photo \in DOMAIN media \cup {None}
      BY <1>2, <3>1 DEF MediaOK
    <3>3. CASE k = i
      BY <1>5, <1>9, <2>2, <2>3, <3>3 DEF ByPerson
    <3>4. CASE k # i
      BY <1>5, <2>3, <3>1, <3>2, <3>4 DEF ByPerson
    <3> QED BY <3>3, <3>4
  <2>5. UploadsAreUsed'
    <3> SUFFICES ASSUME NEW m \in DOMAIN media'
                 PROVE  m \in lost' \/ m = job'.upload \/ \E k \in Ids' : members'[k].photo = m
      BY DEF UploadsAreUsed
    <3>1. CASE m = Len(media) + 1
      BY <1>5, <1>9, <3>1
    <3>2. CASE m \in DOMAIN media
      <4>1. m # None
        BY <1>1, <3>2, MediaCounts DEF None
      <4>2. CASE \E k \in Ids : members[k].photo = m
        <5>1. PICK k \in Ids : members[k].photo = m
          BY <4>2
        <5>2. CASE k = i
          BY <2>2, <4>1, <5>1, <5>2
        <5>3. CASE k # i
          BY <1>5, <5>1, <5>3
        <5> QED BY <5>2, <5>3
      <4> QED BY <1>1, <1>6, <2>2, <3>2, <4>2 DEF UploadsAreUsed
    <3> QED BY <2>3, <3>1, <3>2
  <2> QED BY <1>7, <2>4, <2>5
<1> QED BY <1>3, <1>8, <1>9

LEMMA UploadStep ==
    ASSUME UploadInv, [Next]_vars
    PROVE  UploadInv'
<1>1. TypeOK /\ Listed
  BY DEF UploadInv
<1>2. TypeOK' /\ Listed'
  BY <1>1, StepKeeps
<1>3. CASE UNCHANGED vars
  BY <1>2, <1>3 DEF UploadInv, vars, NoneTaken, InFlight, Open, ByPerson, UploadsAreUsed, Ids, Source
<1>4. CASE Next
  <2>1. NoneTaken' /\ InFlight' /\ UploadsAreUsed'
    BY <1>1, <1>4, Steps, WrittenUses, UploadUses, LinkUses, JobStepUses, PanelUses
  <2> QED BY <1>2, <2>1 DEF UploadInv
<1> QED BY <1>3, <1>4

(* No upload of a card is forgotten: for any cards, members and number of  *)
(* runs, each is a profile's photo or on its way to one, unless a failure  *)
(* between the two writes or a person set it aside.  The argument is that  *)
(* the second write never finds a photo a script put there.                *)
THEOREM NoUploadForgotten == Spec => []UploadsAreUsed
<1>1. Init => UploadInv
  <2> SUFFICES ASSUME Init PROVE UploadInv
    OBVIOUS
  <2>1. TypeOK /\ Listed
    BY InitIsTyped
  <2> QED BY <2>1 DEF UploadInv, Init, NoJob, NoneTaken, InFlight, Open, UploadsAreUsed, None
<1>2. UploadInv /\ [Next]_vars => UploadInv'
  BY UploadStep
<1>3. UploadInv => UploadsAreUsed
  BY DEF UploadInv
<1> QED BY <1>1, <1>2, <1>3, PTL DEF Spec
----------------------------------------------------------------------------
(* The right face.  Two names of one key have one first and last word.     *)
LEMMA SameKeys ==
    ASSUME NEW a \in PersonNames, NEW b \in PersonNames, Key(a) = Key(b)
    PROVE  FirstLastKey(a) = FirstLastKey(b)
<1>1. a \in Seq(DOMAIN Fold) /\ b \in Seq(DOMAIN Fold)
  BY DEF PersonNames
<1>2. DOMAIN a = DOMAIN b /\ \A k \in DOMAIN a : Fold[a[k]] = Fold[b[k]]
  <2>1. DOMAIN a = DOMAIN b
    BY DEF Key
  <2>2. ASSUME NEW k \in DOMAIN a PROVE Fold[a[k]] = Fold[b[k]]
    <3>1. Key(a)[k] = Fold[a[k]] /\ Key(b)[k] = Fold[b[k]]
      BY <2>1 DEF Key
    <3> QED BY <3>1
  <2> QED BY <2>1, <2>2
<1>3. /\ Len(a) \in Nat /\ Len(b) \in Nat
      /\ DOMAIN a = 1..Len(a) /\ DOMAIN b = 1..Len(b)
  BY <1>1
<1>4. Len(a) = Len(b)
  <2>1. CASE Len(a) < Len(b)
    <3>1. Len(b) \in DOMAIN b /\ Len(b) \notin DOMAIN a
      BY <1>3, <2>1
    <3> QED BY <1>2, <3>1
  <2>2. CASE Len(b) < Len(a)
    <3>1. Len(a) \in DOMAIN a /\ Len(a) \notin DOMAIN b
      BY <1>3, <2>2
    <3> QED BY <1>2, <3>1
  <2>3. \A m, n \in Nat : m < n \/ n < m \/ m = n
    OBVIOUS
  <2>4. Len(a) < Len(b) \/ Len(b) < Len(a) \/ Len(a) = Len(b)
    BY <1>3, <2>3
  <2> QED BY <2>1, <2>2, <2>4
<1>5. CASE Len(a) < 2
  BY <1>4, <1>5 DEF FirstLastKey
<1>6. CASE ~(Len(a) < 2)
  <2>1. 1 \in DOMAIN a /\ Len(a) \in DOMAIN a
    BY <1>3, <1>6
  <2>2. Fold[a[1]] = Fold[b[1]] /\ Fold[a[Len(a)]] = Fold[b[Len(b)]]
    BY <1>2, <1>4, <2>1
  <2> QED BY <1>4, <1>6, <2>2 DEF FirstLastKey
<1> QED BY <1>5, <1>6

LEMMA OneByNames ==
    ASSUME NEW f, DOMAIN f \subseteq Nat, \A k \in DOMAIN f : f[k] \subseteq Nat,
           ByNames(f) \notin {None, Ambiguous}
    PROVE  \E k \in DOMAIN f : ByNames(f) \in f[k]
<1> DEFINE hits == {k \in DOMAIN f : f[k] # {}}
<1>1. hits # {}
  BY DEF ByNames
<1>2. Min(hits) \in hits
  <2>1. hits \subseteq Nat
    OBVIOUS
  <2> HIDE DEF hits
  <2> QED BY <1>1, <2>1, MinIsLeast
<1>3. ByNames(f) = Min(f[Min(hits)])
  BY <1>1 DEF ByNames
<1>4. Min(f[Min(hits)]) \in f[Min(hits)]
  BY <1>2, MinIsLeast
<1> QED BY <1>2, <1>3, <1>4

LEMMA OneByHit ==
    ASSUME NEW f, DOMAIN f \subseteq Nat, FirstHit(f) # None
    PROVE  \E k \in DOMAIN f : FirstHit(f) = f[k]
<1> DEFINE hits == {k \in DOMAIN f : f[k] # None}
<1>1. hits # {}
  BY DEF FirstHit
<1>2. Min(hits) \in hits
  <2>1. hits \subseteq Nat
    OBVIOUS
  <2> HIDE DEF hits
  <2> QED BY <1>1, <2>1, MinIsLeast
<1> QED BY <1>1, <1>2 DEF FirstHit

LEMMA Chosen ==
    ASSUME NEW S \in Seq(Records), NEW ids \in SUBSET DOMAIN S
    PROVE  /\ 0 \notin DOMAIN S
           /\ Oldest(ids) # None => Oldest(ids) \in ids
           /\ TheOnly(ids) # None => TheOnly(ids) \in ids
<1>1. 0 \notin DOMAIN S
  OBVIOUS
<1>2. ids # {} => Min(ids) \in ids
  BY IndexTyping
<1>3. Cardinality(ids) = 1 => ids # {}
  <2>1. ids = {} => Cardinality(ids) = 0
    BY FS_EmptySet
  <2> QED BY <2>1
<1> QED BY <1>1, <1>2, <1>3 DEF Oldest, TheOnly

(* A record whose name its person is called, and which has a contact that  *)
(* a list goes by, or the identifier of an entry with one, only if it is   *)
(* its person's.                                                           *)
Known(r) ==
    /\ r.name \in Called(r.person)
    /\ \A k \in DOMAIN Lists :
          r.contact[Lists[k].kind] = Lists[k].value => Owns(r.person, Lists[k])
    /\ \A k \in DOMAIN Dataset :
          IsListed(Dataset[k]) /\ Dataset[k].orcid # "" /\ r.orcid = Dataset[k].orcid
              => Owns(r.person, Dataset[k])

LEMMA OwnsContact ==
    ASSUME NEW p, NEW c, NEW d, c.kind = d.kind, c.value = d.value, Owns(p, c)
    PROVE  Owns(p, d)
BY DEF Owns

(* Whomever the import finds for an entry with a listed contact has it.    *)
LEMMA EntryFindsOwner ==
    ASSUME NEW S \in Seq(Records), \A k \in DOMAIN S : Known(S[k]),
           NEW q \in DOMAIN Dataset, Dataset[q] \in Entries,
           IsListed(Dataset[q]), EntryTells(Dataset[q]),
           NEW i \in DOMAIN S, i = MatchEntry(Dataset[q], S)
    PROVE  Owns(S[i].person, Dataset[q])
<1> DEFINE e == Dataset[q]
           ids == {k \in DOMAIN S : S[k].orcid = e.orcid}
           mails == {k \in DOMAIN S : S[k].contact["email"] = e.value}
           full == [k \in DOMAIN e.names |-> WithName(S, e.names[k])]
           rough == [k \in DOMAIN e.names |-> WithFirstLast(S, e.names[k])]
<1>1. i \notin {None, Ambiguous} /\ 0 \notin DOMAIN S
  BY DEF None, Ambiguous
<1>2. /\ e.names \in Seq(PersonNames) /\ DOMAIN e.names \subseteq Nat
      /\ \A k \in DOMAIN e.names : e.names[k] \in PersonNames
  <2>1. e.names \in Seq(PersonNames)
    BY DEF Entries
  <2> QED BY <2>1
<1>3. S[i] \in Records /\ S[i].person \in People /\ S[i].name \in PersonNames /\ Known(S[i])
  <2>1. S[i] \in Records
    OBVIOUS
  <2> QED BY <2>1 DEF Records
<1>4. \/ e.orcid # "" /\ i = Oldest(ids)
      \/ e.kind = "email" /\ i = Oldest(mails)
      \/ i = ByNames(full)
      \/ i = ByNames(rough)
  BY <1>1 DEF MatchEntry
<1>5. CASE e.orcid # "" /\ i = Oldest(ids)
  <2>1. i \in ids
    <3>1. ids \in SUBSET DOMAIN S
      OBVIOUS
    <3> HIDE DEF ids
    <3> QED BY <1>1, <1>5, <3>1, Chosen
  <2> QED BY <1>3, <1>5, <2>1 DEF Known
<1>6. CASE e.kind = "email" /\ i = Oldest(mails)
  <2>1. i \in mails
    <3>1. mails \in SUBSET DOMAIN S
      OBVIOUS
    <3> HIDE DEF mails
    <3> QED BY <1>1, <1>6, <3>1, Chosen
  <2>2. PICK k \in DOMAIN Lists : Lists[k].kind = e.kind /\ Lists[k].value = e.value
    BY DEF IsListed
  <2>3. Owns(S[i].person, Lists[k])
    BY <1>3, <1>6, <2>1, <2>2 DEF Known
  <2> HIDE DEF e
  <2>4. Owns(S[i].person, e)
    BY <2>2, <2>3, OwnsContact
  <2> QED BY <2>4 DEF e
<1>7. CASE i = ByNames(full) \/ i = ByNames(rough)
  <2>1. \E k \in DOMAIN e.names : FirstLastKey(S[i].name) = FirstLastKey(e.names[k])
    <3>1. CASE i = ByNames(full)
      <4>1. PICK k \in DOMAIN full : i \in full[k]
        <5>1. DOMAIN full \subseteq Nat /\ \A k \in DOMAIN full : full[k] \subseteq Nat
          BY <1>2 DEF WithName
        <5> HIDE DEF full
        <5> QED BY <1>1, <3>1, <5>1, OneByNames
      <4>2. Key(S[i].name) = Key(e.names[k])
        BY <4>1 DEF WithName
      <4> QED BY <1>2, <1>3, <4>1, <4>2, SameKeys
    <3>2. CASE i = ByNames(rough)
      <4>1. PICK k \in DOMAIN rough : i \in rough[k]
        <5>1. DOMAIN rough \subseteq Nat /\ \A k \in DOMAIN rough : rough[k] \subseteq Nat
          BY <1>2 DEF WithFirstLast
        <5> HIDE DEF rough
        <5> QED BY <1>1, <3>2, <5>1, OneByNames
      <4> QED BY <4>1 DEF WithFirstLast
    <3> QED BY <1>7, <3>1, <3>2
  <2> QED BY <1>3, <2>1 DEF Known, EntryTells
<1> QED BY <1>4, <1>5, <1>6, <1>7

(* Whomever a card's photo goes to is the person on the card.              *)
LEMMA CardFindsPerson ==
    ASSUME NEW S \in Seq(Records), \A k \in DOMAIN S : Known(S[k]), NEW c \in Cards, CardTells(c),
           NEW i \in DOMAIN S, i = PhotoTarget(c, S)
    PROVE  S[i].person = c.person
<1> DEFINE pinned == AliasedMemberName(c.file)
           full == [k \in DOMAIN c.names |-> Oldest(WithName(S, c.names[k]))]
           rough == [k \in DOMAIN c.names |-> TheOnly(WithFirstLast(S, c.names[k]))]
<1>1. i # None
  BY DEF None
<1>2. DOMAIN c.names \subseteq Nat
  <2>1. c.names \in Seq(PersonNames)
    BY DEF Cards
  <2> QED BY <2>1
<1>3. S[i] \in Records /\ S[i].person \in People /\ Known(S[i])
  <2>1. S[i] \in Records
    OBVIOUS
  <2> QED BY <2>1 DEF Records
<1>4. S[i].name \in Called(S[i].person)
  BY <1>3 DEF Known
<1>5. \/ pinned # <<>> /\ i = Oldest(WithName(S, pinned))
      \/ pinned = <<>> /\ i = FirstHit(full)
      \/ pinned = <<>> /\ IncludeWeak /\ i = FirstHit(rough)
  BY <1>1, RosterAssumption DEF PhotoTarget, MatchCard
<1>6. CASE pinned # <<>> /\ i = Oldest(WithName(S, pinned))
  <2>1. Key(S[i].name) = Key(pinned)
    BY <1>1, <1>6, Chosen, NameSetsTyping DEF WithName
  <2> QED BY <1>3, <1>4, <1>6, <2>1 DEF CardTells
<1>7. CASE pinned = <<>> /\ i = FirstHit(full)
  <2>1. PICK k \in DOMAIN full : i = full[k]
    <3>1. DOMAIN full \subseteq Nat
      BY <1>2
    <3> HIDE DEF full
    <3> QED BY <1>1, <1>7, <3>1, OneByHit
  <2>2. Key(S[i].name) = Key(c.names[k])
    BY <1>1, <2>1, Chosen, NameSetsTyping DEF WithName
  <2> QED BY <1>3, <1>4, <1>7, <2>1, <2>2 DEF CardTells
<1>8. CASE pinned = <<>> /\ IncludeWeak /\ i = FirstHit(rough)
  <2>1. PICK k \in DOMAIN rough : i = rough[k]
    <3>1. DOMAIN rough \subseteq Nat
      BY <1>2
    <3> HIDE DEF rough
    <3> QED BY <1>1, <1>8, <3>1, OneByHit
  <2>2. FirstLastKey(S[i].name) = FirstLastKey(c.names[k])
    BY <1>1, <2>1, Chosen, NameSetsTyping DEF WithFirstLast
  <2> QED BY <1>3, <1>4, <1>8, <2>1, <2>2 DEF CardTells
<1> QED BY <1>5, <1>6, <1>7, <1>8
AllKnown ==
    /\ \A i \in Ids : Known(members[i])
    /\ \A i \in DOMAIN job.snap :
          Known(job.snap[i]) /\ job.snap[i].person = members[i].person
Carried == job.upload # None => media[job.upload].shows = members[job.target].person
FaceInv == TypeOK /\ Listed /\ AllKnown /\ Carried /\ RightFace

(* What an entry writes is known of its person.                            *)
Faithful ==
    \/ Skip
    \/ \E r : Add(r, Onward) /\ r.photo = None /\ Known(r)
    \/ \E r : \E i \in Ids, j \in Past :
          /\ r.photo = members[i].photo /\ r.person = members[i].person
          /\ Known(r) /\ Store(i, r, j)

LEMMA ListTyping == \A k \in DOMAIN Lists : Lists[k].kind \in Kinds
<1>1. Lists \in Seq(Listings)
  BY RosterAssumption
<1>2. \A k \in DOMAIN Lists : Lists[k] \in Listings
  BY <1>1
<1> QED BY <1>2 DEF Listings

LEMMA NewIsKnown ==
    ASSUME SourcesTell, NEW q \in DOMAIN Dataset
    PROVE  Known(CreatePayload(Dataset[q]))
<1> DEFINE e == Dataset[q]
           c == [k \in Kinds |-> IF k = e.kind THEN e.value ELSE ""]
           r == CreatePayload(e)
<1>1. /\ r.person = e.person /\ r.name = e.names[1] /\ r.contact = c
      /\ r.orcid = Identifier(e) /\ r.photo = None
  BY DEF CreatePayload, Record
<1> HIDE DEF r
<1>2. r.name \in Called(r.person)
  <2>1. q \in Of(e.person, Dataset)
    BY DEF Of
  <2>2. e.names[1] \in {Dataset[k].names[1] : k \in Of(e.person, Dataset)}
    BY <2>1
  <2> QED BY <1>1, <2>2 DEF Called
<1>3. ASSUME NEW k \in DOMAIN Lists, r.contact[Lists[k].kind] = Lists[k].value
      PROVE  Owns(r.person, Lists[k])
  <2>1. Lists[k].kind \in Kinds /\ Lists[k].value # ""
    BY ListTyping DEF SourcesTell
  <2>2. Lists[k].kind = e.kind /\ Lists[k].value = e.value
    BY <1>1, <1>3, <2>1
  <2> QED BY <1>1, <2>2 DEF Owns
<1>4. ASSUME NEW k \in DOMAIN Dataset, IsListed(Dataset[k]), Dataset[k].orcid # "",
             r.orcid = Dataset[k].orcid
      PROVE  Owns(r.person, Dataset[k])
  <2>1. e.orcid = Dataset[k].orcid
    BY <1>1, <1>4 DEF Identifier
  <2>2. e = Dataset[k]
    BY <1>4, <2>1 DEF SourcesTell, EntryTells
  <2> QED BY <1>1, <2>2 DEF Owns
<1>5. Known(r)
  BY <1>2, <1>3, <1>4 DEF Known
<1> QED BY <1>5 DEF r

LEMMA UpdateIsKnown ==
    ASSUME SourcesTell, NEW q \in DOMAIN Dataset, NEW r \in Records, NEW seen \in Records,
           Known(r), r.person = seen.person,
           IsListed(Dataset[q]) => Owns(r.person, Dataset[q])
    PROVE  LET u == UpdatePayload(r, seen, Dataset[q]) IN
           Known(u) /\ u.person = r.person /\ u.photo = r.photo
<1> DEFINE e == Dataset[q]
           u == UpdatePayload(r, seen, e)
           v == IF Identifier(e) # "" /\ seen.orcid = "" THEN Identifier(e) ELSE r.orcid
           c == [k \in Kinds |-> IF k = e.kind /\ e.value # "" /\ seen.contact[k] # e.value
                                 THEN e.value ELSE r.contact[k]]
<1>1. /\ u.person = r.person /\ u.name = r.name /\ u.photo = r.photo
      /\ u.orcid = v /\ u.contact = c
  BY DEF UpdatePayload, Records
<1> HIDE DEF u, c
<1>2. u.name \in Called(u.person)
  BY <1>1 DEF Known
<1>3. ASSUME NEW k \in DOMAIN Lists, u.contact[Lists[k].kind] = Lists[k].value
      PROVE  Owns(u.person, Lists[k])
  <2>1. Lists[k].kind \in Kinds
    BY ListTyping
  <2>2. \/ r.contact[Lists[k].kind] = Lists[k].value
        \/ Lists[k].kind = e.kind /\ Lists[k].value = e.value
    BY <1>1, <1>3, <2>1 DEF c
  <2>3. CASE r.contact[Lists[k].kind] = Lists[k].value
    BY <1>1, <2>3 DEF Known
  <2>4. CASE Lists[k].kind = e.kind /\ Lists[k].value = e.value
    <3>1. IsListed(e)
      BY <2>4 DEF IsListed
    <3>2. Owns(r.person, e)
      BY <3>1
    <3> HIDE DEF e
    <3> QED BY <1>1, <2>4, <3>2, OwnsContact
  <2> QED BY <2>2, <2>3, <2>4
<1>4. ASSUME NEW k \in DOMAIN Dataset, IsListed(Dataset[k]), Dataset[k].orcid # "",
             u.orcid = Dataset[k].orcid
      PROVE  Owns(u.person, Dataset[k])
  <2>1. CASE u.orcid = r.orcid
    BY <1>1, <1>4, <2>1 DEF Known
  <2>2. CASE u.orcid = Identifier(e)
    <3>1. e.orcid = Dataset[k].orcid
      BY <1>4, <2>2 DEF Identifier
    <3>2. e = Dataset[k]
      BY <1>4, <3>1 DEF SourcesTell, EntryTells
    <3> QED BY <1>1, <1>4, <3>2
  <2> QED BY <1>1, <2>1, <2>2
<1>5. Known(u)
  BY <1>2, <1>3, <1>4 DEF Known
<1> QED BY <1>1, <1>5 DEF u

LEMMA ImportIsFaithful ==
    ASSUME SourcesTell, TypeOK, Listed, AllKnown, ImportEntry
    PROVE  Faithful
<1> DEFINE e == Entry
           i == MatchEntry(e, job.snap)
<1>1. MembersOK /\ JobOK(job, Ids, DOMAIN media)
  BY TypeParts
<1>2. job.at \in DOMAIN Source(job.script) /\ job.script = "import"
  BY <1>1 DEF ImportEntry, Running, JobOK, Source
<1>3. e \in Entries
  BY <1>2, SourceTyping
<1>4. job.at \in DOMAIN Dataset /\ e = Dataset[job.at]
  BY <1>2 DEF Source, Entry
<1>5. i \in DOMAIN job.snap \cup {None, Ambiguous} /\ job.snap \in Seq(Records)
  BY <1>1, <1>3, MatchEntryTyping DEF JobOK
<1>6. \/ Skip
      \/ i = None /\ Add(CreatePayload(e), Onward)
      \/ i \notin {None, Ambiguous} /\ Store(i, UpdatePayload(members[i], job.snap[i], e), Onward)
  BY DEF ImportEntry, None, Ambiguous
<1>7. CASE Add(CreatePayload(e), Onward)
  <2>1. Known(CreatePayload(e)) /\ CreatePayload(e).photo = None
    BY <1>4, NewIsKnown DEF CreatePayload, Record
  <2> QED BY <1>7, <2>1 DEF Faithful
<1>8. CASE i \notin {None, Ambiguous} /\ Store(i, UpdatePayload(members[i], job.snap[i], e), Onward)
  <2>1. i \in DOMAIN job.snap /\ i \in Ids
    BY <1>5, <1>8 DEF Listed, ListedOK
  <2>2. members[i] \in Records /\ job.snap[i] \in Records
    BY <1>1, <1>5, <2>1 DEF MembersOK, Ids
  <2>3. /\ Known(members[i]) /\ members[i].person = job.snap[i].person
        /\ \A k \in DOMAIN job.snap : Known(job.snap[k])
    BY <2>1 DEF AllKnown
  <2>4. ASSUME IsListed(e) PROVE Owns(members[i].person, e)
    <3>1. EntryTells(e)
      BY <1>4, <2>4 DEF SourcesTell
    <3>2. Owns(job.snap[i].person, e)
      BY <1>3, <1>4, <1>5, <2>1, <2>3, <2>4, <3>1, EntryFindsOwner
    <3> QED BY <2>3, <3>2
  <2> DEFINE u == UpdatePayload(members[i], job.snap[i], e)
  <2>5. Known(u) /\ u.person = members[i].person /\ u.photo = members[i].photo
    BY <1>4, <2>2, <2>3, <2>4, UpdateIsKnown
  <2> HIDE DEF u
  <2>6. Store(i, u, Onward)
    BY <1>8 DEF u
  <2> HIDE DEF i
  <2> QED BY <2>1, <2>5, <2>6 DEF Faithful, Past
<1> QED BY <1>6, <1>7, <1>8 DEF Faithful

LEMMA StatusIsFaithful ==
    ASSUME TypeOK, Listed, AllKnown, StatusEntry
    PROVE  Faithful
<1>1. MembersOK /\ JobOK(job, Ids, DOMAIN media)
  BY TypeParts
<1>2. Entry \in Cards
  <2>1. job.at \in DOMAIN Source(job.script) /\ job.script = "status"
    BY InSource DEF StatusEntry, Scripts
  <2> QED BY <2>1, SourceTyping
<1> DEFINE i == MatchCard(Entry, job.snap).id
           marks == Entry.status = "completed" /\ job.snap[i].status # "completed"
           r == IF marks THEN [members[i] EXCEPT !.status = "completed"] ELSE members[i]
           seen == [Onward EXCEPT !.done = @ \cup {i}]
<1>3. i \in DOMAIN job.snap \cup {None}
  BY <1>1, <1>2, MatchCardTyping DEF JobOK
<1>4. Skip \/ (i # None /\ Store(i, r, seen))
  BY DEF StatusEntry
<1> HIDE DEF i
<1>5. CASE i # None /\ Store(i, r, seen)
  <2>1. i \in Ids /\ members[i] \in Records /\ Known(members[i])
    BY <1>1, <1>3, <1>5 DEF Listed, ListedOK, MembersOK, Ids, AllKnown
  <2>2. /\ r.photo = members[i].photo /\ r.person = members[i].person /\ r.name = members[i].name
        /\ r.contact = members[i].contact /\ r.orcid = members[i].orcid
    BY <2>1 DEF Records
  <2> HIDE DEF r
  <2>3. Known(r)
    BY <2>1, <2>2 DEF Known
  <2> QED BY <1>5, <2>1, <2>2, <2>3 DEF Faithful, Past
<1> QED BY <1>4, <1>5 DEF Faithful

LEMMA NameIsFaithful ==
    ASSUME TypeOK, Listed, AllKnown, NameEntry
    PROVE  Faithful
<1>1. MembersOK /\ JobOK(job, Ids, DOMAIN media)
  BY TypeParts
<1>2. job.at \in DOMAIN Lists /\ Entry = Lists[job.at]
  <2>1. job.at \in DOMAIN Source(job.script) /\ job.script = "names"
    BY InSource DEF NameEntry, Scripts
  <2> QED BY <2>1 DEF Source, Entry
<1> DEFINE found == {m \in DOMAIN job.snap : job.snap[m].contact[Entry.kind] = Entry.value}
           i == TheOnly(found)
           r == IF Grows(job.snap[i].name, Entry.name) THEN [members[i] EXCEPT !.name = Entry.name]
                ELSE members[i]
           seen == [Onward EXCEPT !.done = @ \cup {i}]
<1>3. Skip \/ (i # None /\ Store(i, r, seen))
  BY DEF NameEntry
<1>4. CASE i # None /\ Store(i, r, seen)
  <2>1. i \in found
    <3>1. job.snap \in Seq(Records) /\ found \in SUBSET DOMAIN job.snap
      BY <1>1 DEF JobOK
    <3> HIDE DEF found
    <3> QED BY <1>4, <3>1, Chosen
  <2> HIDE DEF i
  <2>2. i \in Ids /\ members[i] \in Records /\ Known(members[i])
    BY <1>1, <2>1 DEF Listed, ListedOK, MembersOK, Ids, AllKnown
  <2>3. Known(job.snap[i]) /\ job.snap[i].person = members[i].person
    BY <2>1 DEF AllKnown
  <2>4. Owns(members[i].person, Lists[job.at])
    BY <1>2, <2>1, <2>3 DEF Known
  <2>5. Entry.name \in Called(members[i].person)
    BY <1>2, <2>4 DEF Called
  <2>6. /\ r.photo = members[i].photo /\ r.person = members[i].person
        /\ r.name \in {members[i].name, Entry.name}
        /\ r.contact = members[i].contact /\ r.orcid = members[i].orcid
    BY <2>2 DEF Records
  <2> HIDE DEF r
  <2>7. Known(r)
    BY <2>2, <2>5, <2>6 DEF Known
  <2> QED BY <1>4, <2>2, <2>6, <2>7 DEF Faithful, Past
<1> QED BY <1>3, <1>4 DEF Faithful

LEMMA DoctorIsFaithful ==
    ASSUME SourcesTell, TypeOK, Listed, AllKnown, DoctorEntry
    PROVE  Faithful
<1>1. MembersOK /\ JobOK(job, Ids, DOMAIN media)
  BY TypeParts
<1>2. job.at \in DOMAIN Doctors /\ Entry = Doctors[job.at]
  <2>1. job.at \in DOMAIN Source(job.script) /\ job.script = "phd"
    BY InSource DEF DoctorEntry, Scripts
  <2> QED BY <2>1 DEF Source, Entry
<1> DEFINE i == Oldest(WithName(job.snap, Entry.name))
           new == Record(Entry.person, Entry.name, "phd", "completed", NoContact, "")
<1>3. i \in DOMAIN job.snap \cup {None}
  BY <1>1, IndexTyping, NameSetsTyping DEF JobOK
<1>4. Known(new) /\ new.photo = None
  <2>1. /\ new.person = Entry.person /\ new.name = Entry.name /\ new.contact = NoContact
        /\ new.orcid = "" /\ new.photo = None
    BY DEF Record
  <2> HIDE DEF new
  <2>2. new.name \in Called(new.person)
    BY <1>2, <2>1 DEF Called, Of
  <2>3. \A k \in DOMAIN Lists : new.contact[Lists[k].kind] # Lists[k].value
    BY <2>1, ListTyping DEF NoContact, SourcesTell
  <2> QED BY <2>1, <2>2, <2>3 DEF Known
<1>5. Skip \/ Add(new, Onward) \/ (i # None /\ Store(i, Restored(members[i]), Onward))
  BY DEF DoctorEntry
<1> HIDE DEF i, new
<1>6. CASE i # None /\ Store(i, Restored(members[i]), Onward)
  <2>1. i \in Ids /\ members[i] \in Records /\ Known(members[i])
    BY <1>1, <1>3, <1>6 DEF Listed, ListedOK, MembersOK, Ids, AllKnown
  <2>2. Restored(members[i]) = members[i]
    BY <2>1 DEF Restored, Records, Roles
  <2> QED BY <1>6, <2>1, <2>2 DEF Faithful, Past
<1> QED BY <1>4, <1>5, <1>6 DEF Faithful
(* What known records are made into is known.                              *)
LEMMA KnownStays ==
    ASSUME NEW r, NEW s, Known(r), s.person = r.person, s.name = r.name,
           s.contact = r.contact, s.orcid = r.orcid
    PROVE  Known(s)
BY DEF Known

LEMMA Stored ==
    ASSUME NEW i, NEW r, NEW j, Store(i, r, j)
    PROVE  \A k \in Ids' : (k = i /\ members'[k] = r) \/ (k \in Ids /\ members'[k] = members[k])
<1>1. CASE members' = [k \in Ids \cup {i} |-> IF k = i THEN r ELSE members[k]]
  BY <1>1 DEF Ids
<1>2. CASE members' = members
  BY <1>2 DEF Ids
<1> QED BY <1>1, <1>2 DEF Store

LEMMA FaithfulFaces ==
    ASSUME FaceInv, Faithful, Written, job.script # "photos"
    PROVE  AllKnown' /\ Carried' /\ RightFace'
<1>1. TypeOK /\ Listed /\ AllKnown /\ RightFace
  BY DEF FaceInv
<1>2. MembersOK /\ JobOK(job, Ids, DOMAIN media)
  BY <1>1, TypeParts
<1>3. /\ Ids \subseteq Ids' /\ media' = media
      /\ job'.snap = job.snap /\ job'.upload = job.upload
  BY <1>1, WrittenPhotos
<1>4. job'.upload = None
  BY <1>1, <1>3 DEF Listed, ListedOK
<1> SUFFICES /\ \A k \in Ids' : Known(members'[k])
             /\ \A k \in Ids : members'[k].person = members[k].person
             /\ \A k \in Ids' : members'[k].photo # None =>
                    k \in Ids /\ members'[k].photo = members[k].photo
  BY <1>1, <1>3, <1>4 DEF AllKnown, Carried, RightFace, Listed, ListedOK
<1>5. CASE Skip
  BY <1>1, <1>5 DEF Skip, AllKnown, Ids
<1>6. CASE \E r : Add(r, Onward) /\ r.photo = None /\ Known(r)
  <2>1. PICK r : Add(r, Onward) /\ r.photo = None /\ Known(r)
    BY <1>6
  <2>2. NextId \notin Ids
    BY <1>2, IdsAreNumbers
  <2>3. \A k \in Ids' : (k = NextId /\ members'[k] = r) \/ (k \in Ids /\ members'[k] = members[k])
    BY <2>1, Stored DEF Add
  <2> QED BY <1>1, <1>3, <2>1, <2>2, <2>3 DEF AllKnown
<1>7. CASE \E r : \E i \in Ids, j \in Past :
             /\ r.photo = members[i].photo /\ r.person = members[i].person
             /\ Known(r) /\ Store(i, r, j)
  <2>1. PICK r : \E i \in Ids, j \in Past :
             /\ r.photo = members[i].photo /\ r.person = members[i].person
             /\ Known(r) /\ Store(i, r, j)
    BY <1>7
  <2>2. PICK i \in Ids, j \in Past :
             /\ r.photo = members[i].photo /\ r.person = members[i].person
             /\ Known(r) /\ Store(i, r, j)
    BY <2>1
  <2>3. \A k \in Ids' : (k = i /\ members'[k] = r) \/ (k \in Ids /\ members'[k] = members[k])
    BY <2>2, Stored
  <2> QED BY <1>1, <1>3, <2>2, <2>3 DEF AllKnown
<1> QED BY <1>5, <1>6, <1>7 DEF Faithful

LEMMA UploadFaces ==
    ASSUME SourcesTell, FaceInv, PhotoUpload
    PROVE  AllKnown' /\ Carried' /\ RightFace'
<1>1. /\ TypeOK /\ Listed /\ AllKnown /\ RightFace
      /\ job.script = "photos" /\ job.upload = None
  BY DEF FaceInv, PhotoUpload, Running
<1>2. MembersOK /\ MediaOK /\ JobOK(job, Ids, DOMAIN media)
  BY <1>1, TypeParts
<1> DEFINE i == PhotoTarget(Entry, job.snap)
           u == [by |-> "script", shows |-> Entry.person]
<1>3. CASE Skip
  <2>1. job'.snap = job.snap /\ job'.upload = job.upload
    BY <1>2, <1>3 DEF Skip, Onward, JobOK
  <2> QED BY <1>1, <1>3, <2>1 DEF Skip, AllKnown, Carried, RightFace, Ids
<1>4. CASE /\ TakesPhoto(i)
           /\ media' = Append(media, u)
           /\ job' = [job EXCEPT !.target = i, !.upload = Len(media) + 1]
           /\ UNCHANGED <<members, faults, edits, settled, lost>>
  <2>1. i \in DOMAIN job.snap /\ i \in Ids /\ Entry \in Cards
    BY <1>1, <1>4, PhotoTakes DEF PhotoUpload
  <2>2. u \in Uploads
    BY <2>1 DEF Uploads, Cards
  <2>3. CardTells(Entry)
    <3>1. job.at \in DOMAIN Source(job.script)
      BY <1>1, InSource DEF PhotoUpload, Scripts
    <3>2. job.at \in DOMAIN Team /\ Entry = Team[job.at]
      BY <1>1, <3>1 DEF Source, Entry
    <3> QED BY <3>2 DEF SourcesTell
  <2>4. job.snap[i].person = Entry.person
    <3>1. job.snap \in Seq(Records) /\ \A k \in DOMAIN job.snap : Known(job.snap[k])
      BY <1>1, <1>2 DEF JobOK, AllKnown
    <3> QED BY <2>1, <2>3, <3>1, CardFindsPerson
  <2>5. members[i].person = Entry.person
    BY <1>1, <2>1, <2>4 DEF AllKnown
  <2> HIDE DEF i
  <2>6. u.shows = members[i].person
    BY <2>5
  <2> HIDE DEF u
  <2>7. /\ media'[Len(media) + 1] = u
        /\ \A m \in DOMAIN media : media'[m] = media[m]
    BY <1>2, <1>4, <2>2, MediaGrows
  <2>8. job'.target = i /\ job'.upload = Len(media) + 1 /\ job'.snap = job.snap
    BY <1>2, <1>4 DEF JobOK
  <2>9. RightFace'
    <3> SUFFICES ASSUME NEW k \in Ids, members[k].photo # None
                 PROVE  media'[members[k].photo].shows = members[k].person
      BY <1>4 DEF RightFace, Ids
    <3>1. members[k].photo \in DOMAIN media
      BY <1>2 DEF MediaOK
    <3> QED BY <1>1, <2>7, <3>1 DEF RightFace
  <2>10. AllKnown' /\ Carried'
    BY <1>1, <1>4, <2>6, <2>7, <2>8 DEF AllKnown, Carried, Ids
  <2> QED BY <2>9, <2>10
<1> QED BY <1>3, <1>4 DEF PhotoUpload

LEMMA LinkFaces ==
    ASSUME FaceInv, PhotoLink
    PROVE  AllKnown' /\ Carried' /\ RightFace'
<1>1. TypeOK /\ Listed /\ AllKnown /\ Carried /\ RightFace /\ job.upload # None
  BY DEF FaceInv, PhotoLink
<1>2. MembersOK /\ JobOK(job, Ids, DOMAIN media)
  BY <1>1, TypeParts
<1> DEFINE i == job.target
           r == [members[i] EXCEPT !.photo = job.upload]
<1>3. i \in Ids /\ members[i] \in Records /\ media[job.upload].shows = members[i].person
  BY <1>1, <1>2 DEF Listed, ListedOK, MembersOK, Ids, Carried
<1>4. /\ r.person = members[i].person /\ r.photo = job.upload /\ r.name = members[i].name
      /\ r.contact = members[i].contact /\ r.orcid = members[i].orcid
  BY <1>3 DEF Records
<1>5. members' = [members EXCEPT ![i] = r] /\ media' = media
  BY DEF PhotoLink
<1>6. job'.snap = job.snap /\ job'.upload = None
  <2>1. job' = [Onward EXCEPT !.done = @ \cup {i}, !.target = None, !.upload = None]
    BY DEF PhotoLink
  <2> HIDE DEF i
  <2> QED BY <1>2, <2>1 DEF Onward, JobOK
<1> HIDE DEF r, i
<1>7. Known(r)
  BY <1>1, <1>3, <1>4, KnownStays DEF AllKnown
<1>8. Ids' = Ids /\ members'[i] = r /\ \A k \in Ids \ {i} : members'[k] = members[k]
  BY <1>3, <1>5 DEF Ids
<1>9. AllKnown'
  BY <1>1, <1>4, <1>6, <1>7, <1>8 DEF AllKnown, Listed, ListedOK
<1>10. RightFace'
  BY <1>1, <1>3, <1>4, <1>5, <1>8 DEF RightFace
<1> QED BY <1>6, <1>9, <1>10 DEF Carried

LEMMA JobFaces ==
    ASSUME FaceInv, (\E s \in Scripts : Start(s)) \/ Finish \/ EntryFails \/ ScriptDies
    PROVE  AllKnown' /\ Carried' /\ RightFace'
<1>1. TypeOK /\ AllKnown /\ RightFace /\ Listed
  BY DEF FaceInv
<1>2. JobOK(job, Ids, DOMAIN media)
  BY <1>1, TypeParts
<1>3. members' = members /\ media' = media
  BY DEF Start, Finish, EntryFails, ScriptDies, Fault
<1>4. RightFace' /\ Ids' = Ids
  BY <1>1, <1>3 DEF RightFace, Ids
<1>5. job'.upload = None /\ job'.snap \in {members, <<>>, job.snap}
  <2>1. CASE \E s \in Scripts : Start(s)
    BY <2>1 DEF Start, NoJob
  <2>2. CASE Finish \/ ScriptDies
    BY <2>2 DEF Finish, ScriptDies, Fault, NoJob
  <2>3. CASE EntryFails
    BY <1>2, <2>3 DEF EntryFails, Fault, Onward, JobOK
  <2> QED BY <2>1, <2>2, <2>3
<1>6. AllKnown'
  <2>1. CASE job'.snap = members
    BY <1>1, <1>3, <1>4, <2>1 DEF AllKnown, Ids
  <2>2. CASE job'.snap = <<>>
    BY <1>1, <1>3, <1>4, <2>2 DEF AllKnown
  <2>3. CASE job'.snap = job.snap
    BY <1>1, <1>3, <1>4, <2>3 DEF AllKnown
  <2> QED BY <1>5, <2>1, <2>2, <2>3
<1> QED BY <1>4, <1>5, <1>6 DEF Carried

LEMMA PanelFaces ==
    ASSUME SourcesTell, FaceInv, PanelEdit
    PROVE  AllKnown' /\ Carried' /\ RightFace'
<1>1. TypeOK /\ Listed /\ AllKnown /\ Carried /\ RightFace
  BY DEF FaceInv
<1>2. MembersOK /\ MediaOK /\ JobOK(job, Ids, DOMAIN media)
  BY <1>1, TypeParts
<1>3. PICK i \in Ids :
        \/ \E n \in Spellings[members[i].person] : Rename(i, n)
        \/ \E s \in Statuses : ChangeStatus(i, s)
        \/ \E k \in Kinds : ChangeContact(i, k, "own")
        \/ ChoosePhoto(i)
  BY DEF PanelEdit
<1> DEFINE q == members[i]
           u == [by |-> "person", shows |-> q.person]
<1>4. q \in Records /\ Known(q) /\ media \in Seq(Uploads)
  BY <1>1, <1>2 DEF MembersOK, MediaOK, Ids, AllKnown
<1>5. u \in Uploads /\ u.shows = q.person
  <2>1. q.person \in People
    BY <1>4 DEF Records
  <2> QED BY <2>1 DEF Uploads
<1>6. \E r : /\ Edit(i, r) /\ Known(r) /\ r.person = q.person
             /\ \/ r.photo = q.photo /\ media' = media
                \/ r.photo = Len(media) + 1 /\ media' = Append(media, u)
  <2>1. CASE \E n \in Spellings[q.person] : Rename(i, n)
    <3>1. PICK n \in Spellings[q.person] : Rename(i, n)
      BY <2>1
    <3> DEFINE r == [q EXCEPT !.name = n]
    <3>2. /\ r.person = q.person /\ r.name = n /\ r.photo = q.photo
          /\ r.contact = q.contact /\ r.orcid = q.orcid
      BY <1>4 DEF Records
    <3>3. Edit(i, r) /\ media' = media
      BY <3>1 DEF Rename
    <3> HIDE DEF r
    <3>4. Known(r)
      BY <1>4, <3>2 DEF Known, Called
    <3> QED BY <3>2, <3>3, <3>4
  <2>2. CASE \E s \in Statuses : ChangeStatus(i, s)
    <3>1. PICK s \in Statuses : ChangeStatus(i, s)
      BY <2>2
    <3> DEFINE r == [q EXCEPT !.status = s]
    <3>2. /\ r.person = q.person /\ r.name = q.name /\ r.photo = q.photo
          /\ r.contact = q.contact /\ r.orcid = q.orcid
      BY <1>4 DEF Records
    <3>3. Edit(i, r) /\ media' = media
      BY <3>1 DEF ChangeStatus
    <3> HIDE DEF r, q
    <3>4. Known(r)
      BY <1>4, <3>2, KnownStays
    <3> QED BY <3>2, <3>3, <3>4
  <2>3. CASE \E k \in Kinds : ChangeContact(i, k, "own")
    <3>1. PICK k \in Kinds : ChangeContact(i, k, "own")
      BY <2>3
    <3> DEFINE r == [q EXCEPT !.contact[k] = "own"]
    <3>2. /\ r.person = q.person /\ r.name = q.name /\ r.photo = q.photo
          /\ r.contact = [q.contact EXCEPT ![k] = "own"] /\ r.orcid = q.orcid
      BY <1>4 DEF Records
    <3>3. Edit(i, r) /\ media' = media
      BY <3>1 DEF ChangeContact
    <3>4. \A l \in DOMAIN Lists :
            /\ Lists[l].kind \in Kinds
            /\ r.contact[Lists[l].kind] \in {q.contact[Lists[l].kind], "own"}
            /\ Lists[l].value # "own"
      <4>1. q.contact \in [Kinds -> Values]
        BY <1>4 DEF Records
      <4> HIDE DEF r, q
      <4> QED BY <3>2, <4>1, ListTyping DEF SourcesTell
    <3> HIDE DEF r
    <3>5. Known(r)
      BY <1>4, <3>2, <3>4 DEF Known
    <3> QED BY <3>2, <3>3, <3>5
  <2>4. CASE ChoosePhoto(i)
    <3> DEFINE r == [q EXCEPT !.photo = Len(media) + 1]
    <3>2. /\ r.person = q.person /\ r.name = q.name /\ r.photo = Len(media) + 1
          /\ r.contact = q.contact /\ r.orcid = q.orcid
      BY <1>4 DEF Records
    <3>3. Edit(i, r) /\ media' = Append(media, u)
      BY <2>4 DEF ChoosePhoto
    <3> HIDE DEF r, q
    <3>4. Known(r)
      BY <1>4, <3>2, KnownStays
    <3> QED BY <3>2, <3>3, <3>4
  <2> QED BY <1>3, <2>1, <2>2, <2>3, <2>4
<1>7. PICK r : /\ Edit(i, r) /\ Known(r) /\ r.person = q.person
               /\ \/ r.photo = q.photo /\ media' = media
                  \/ r.photo = Len(media) + 1 /\ media' = Append(media, u)
  BY <1>6
<1>8. /\ job'.snap = job.snap /\ job'.target = job.target /\ job'.upload = job.upload
  <2>1. job' = [job EXCEPT !.disturbed = job.script # "none"]
    BY <1>7 DEF Edit
  <2> QED BY <1>2, <2>1 DEF JobOK
<1>9. Ids' = Ids /\ members'[i] = r /\ \A k \in Ids \ {i} : members'[k] = members[k]
  BY <1>7 DEF Edit, Ids
<1> HIDE DEF u
<1>10. /\ \A m \in DOMAIN media : media'[m] = media[m]
       /\ media' = Append(media, u) => media'[Len(media) + 1] = u
  BY <1>2, <1>5, <1>7, MediaGrows
<1>11. AllKnown'
  BY <1>1, <1>7, <1>8, <1>9 DEF AllKnown, Listed, ListedOK
<1>12. RightFace'
  <2> SUFFICES ASSUME NEW k \in Ids, members'[k].photo # None
               PROVE  media'[members'[k].photo].shows = members'[k].person
    BY <1>9 DEF RightFace
  <2>1. members[k].photo \in DOMAIN media \cup {None}
    BY <1>2 DEF MediaOK
  <2>2. CASE members'[k].photo = members[k].photo /\ members'[k].person = members[k].person
    BY <1>1, <1>10, <2>1, <2>2 DEF RightFace
  <2>3. CASE k = i /\ r.photo = Len(media) + 1 /\ media' = Append(media, u)
    BY <1>5, <1>7, <1>9, <1>10, <2>3
  <2> QED BY <1>7, <1>9, <2>2, <2>3
<1>13. Carried'
  <2> SUFFICES ASSUME job.upload # None
               PROVE  media'[job.upload].shows = members'[job.target].person
    BY <1>8 DEF Carried
  <2>1. job.upload \in DOMAIN media /\ job.target \in Ids
    BY <1>1, <1>2 DEF JobOK, Listed, ListedOK
  <2>2. members'[job.target].person = members[job.target].person
    BY <1>7, <1>9, <2>1
  <2> QED BY <1>1, <1>10, <2>1, <2>2 DEF Carried
<1> QED BY <1>11, <1>12, <1>13

LEMMA FaceStep ==
    ASSUME SourcesTell, FaceInv, [Next]_vars
    PROVE  FaceInv'
<1>1. TypeOK /\ Listed /\ AllKnown
  BY DEF FaceInv
<1>2. TypeOK' /\ Listed'
  BY <1>1, StepKeeps
<1>3. CASE UNCHANGED vars
  BY <1>2, <1>3 DEF FaceInv, vars, AllKnown, Carried, RightFace, Ids
<1>4. CASE Next
  <2>1. CASE ImportEntry \/ StatusEntry \/ NameEntry \/ DoctorEntry
    <3>1. Faithful
      BY <1>1, <2>1, ImportIsFaithful, StatusIsFaithful, NameIsFaithful, DoctorIsFaithful
    <3>2. Written /\ job.script # "photos"
      BY <1>1, <2>1, EntryWrites
    <3> QED BY <1>2, <3>1, <3>2, FaithfulFaces DEF FaceInv
  <2>2. AllKnown' /\ Carried' /\ RightFace' => FaceInv'
    BY <1>2 DEF FaceInv
  <2> QED BY <1>4, <2>1, <2>2, UploadFaces, LinkFaces, JobFaces, PanelFaces DEF Next, Script
<1> QED BY <1>3, <1>4

(* A face a script put on a profile is its owner's, if the sources tell:   *)
(* for any people, cards, lists and dataset, however often the scripts run *)
(* and whatever fails or is edited in between.  What a record is called    *)
(* and which contact it has are followed through every script, because the *)
(* lists find a record by its contact and the cards by its name.           *)
THEOREM FacesRight ==
    ASSUME SourcesTell
    PROVE  Spec => []RightFace
<1>1. Init => FaceInv
  <2> SUFFICES ASSUME Init PROVE FaceInv
    OBVIOUS
  <2>1. TypeOK /\ Listed
    BY InitIsTyped
  <2>2. members = Seed /\ job.snap = <<>> /\ job.upload = None
    BY DEF Init, NoJob
  <2>3. ASSUME NEW i \in DOMAIN Seed PROVE Known(Seed[i])
    <3>1. i \in Of(Seed[i].person, Seed)
      BY DEF Of
    <3>2. Seed[i].name \in {Seed[k].name : k \in Of(Seed[i].person, Seed)}
      BY <3>1
    <3>3. Seed[i].name \in Called(Seed[i].person)
      BY <3>2 DEF Called
    <3>4. \A k \in DOMAIN Lists :
            Seed[i].contact[Lists[k].kind] = Lists[k].value => Owns(Seed[i].person, Lists[k])
      BY DEF Owns
    <3>5. ASSUME NEW k \in DOMAIN Dataset, IsListed(Dataset[k]), Dataset[k].orcid # "",
                 Seed[i].orcid = Dataset[k].orcid
          PROVE  Owns(Seed[i].person, Dataset[k])
      <4>1. Seed[i] \in Records
        BY RosterAssumption
      <4>2. Seed[i].person \in People
        BY <4>1 DEF Records
      <4> QED BY <3>1, <3>5, <4>2 DEF SourcesTell, EntryTells
    <3> QED BY <3>3, <3>4, <3>5 DEF Known
  <2>4. AllKnown /\ Carried
    BY <2>2, <2>3 DEF AllKnown, Carried, Ids
  <2>5. RightFace
    BY <2>2, RosterAssumption DEF RightFace, Ids
  <2> QED BY <2>1, <2>4, <2>5 DEF FaceInv
<1>2. FaceInv /\ [Next]_vars => FaceInv'
  BY FaceStep
<1>3. FaceInv => RightFace
  BY DEF FaceInv
<1> QED BY <1>1, <1>2, <1>3, PTL DEF Spec
=============================================================================
