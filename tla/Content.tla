------------------------------- MODULE Content -------------------------------
(***************************************************************************)
(* Dissertations, projects, events and research themes, and the scripts of *)
(* web/scripts that fill them from the group's old site: one at a time, a  *)
(* record at a time, while editors go on working in the admin panel.  A    *)
(* page that reads short of the expected count stops its script before the *)
(* first write.  Titles stand for their slugs; a name is a sequence of     *)
(* words, in lower case and without accents; a text is a word for who      *)
(* wrote it.                                                               *)
(***************************************************************************)
EXTENDS Integers, Sequences, FiniteSets, FiniteSetsExt, SequencesExt

CONSTANTS
    Members,        \* Members[m]: name and person of member m, oldest first
    Aliases,        \* Aliases[m]: the names the publication linker has for m
    Theses,         \* the entries of the three dissertation pages
    Grants,         \* the entries of the projects page
    Meetings,       \* the entries of the events page
    Texts,          \* the projects lib/project-descriptions.mjs describes
    Wanted,         \* the names of THEMES in apply-research-themes.mjs
    Fixtures,       \* the titles prune-seed-fixtures.mjs removes
    Seed,           \* the documents the seed dump brings
    NewTitles,      \* the titles editors may give to a document
    MaxDocs,        \* bound: documents ever created
    MaxUpsets       \* bound: edits, failing writes, short pages and deaths together

VARIABLES
    docs,           \* docs[i]: the document with id i, or Gone
    job,            \* the script that is running
    upsets,         \* how many there have been
    held            \* <<i, t>>: i has linked theme t ever since the script read (history)

vars == <<docs, job, upsets, held>>

Collections == {"thesis", "project", "event", "theme"}
Scripts == {"theses", "grants", "meetings", "texts", "themes", "fixtures"}

(* A fresh document.  In people, of is the person the name means (history).*)
Doc(coll, title) ==
    [coll |-> coll, title |-> title, slug |-> title, at |-> "", stage |-> "",
     people |-> <<>>, members |-> {}, desc |-> "", themes |-> {}]
Gone == Doc("gone", "")

NoJob == [script |-> "none", rows |-> <<>>, snap |-> <<>>, at |-> 1, target |-> -1,
          failed |-> FALSE, disturbed |-> FALSE]

None == 0
Unread == -1

IsList(s) == s \in Seq(ToSet(s))

Of(D, coll) == {i \in DOMAIN D : D[i].coll = coll}
Titled(D, coll, title) == {i \in Of(D, coll) : D[i].title = title}
(* find lists the newest document first.                                   *)
Newest(ids) == IF ids = {} THEN None ELSE Max(ids)
(* A Map filled from that list keeps the last one of a key.                *)
Oldest(ids) == IF ids = {} THEN None ELSE Min(ids)

Linked(D) == {link \in (DOMAIN D) \X Of(D, "theme") : link[2] \in D[link[1]].themes}

(* A document, and what the database keeps true of them together: links    *)
(* lead to themes and members that are there, slugs are unique.            *)
DocOK(d) ==
    /\ DOMAIN d = DOMAIN Gone
    /\ d.coll \in Collections \cup {"gone"}
    /\ d.coll = "gone" => d = Gone
    /\ d.coll = "project" => d.title # ""
    /\ d.members \subseteq DOMAIN Members
DocsOK(D) ==
    /\ IsList(D)
    /\ \A i \in DOMAIN D : DocOK(D[i]) /\ D[i].themes \subseteq Of(D, "theme")
    /\ \A c \in Collections : \A i, j \in Of(D, c) : D[i].slug = D[j].slug => i = j

(* The parsers give lists and pass over entries without a title, which the *)
(* collections require; the dump is of a database that was running.        *)
ASSUME ContentAssumption ==
    /\ IsList(Members) /\ IsList(Theses) /\ IsList(Grants) /\ IsList(Meetings)
    /\ IsList(Texts) /\ IsList(Wanted) /\ IsList(Fixtures)
    /\ \A k \in DOMAIN Grants : Grants[k].title # ""
    /\ DocsOK(Seed) /\ "" \notin NewTitles
    /\ MaxDocs \in Nat /\ MaxUpsets \in Nat

ContentTypeOK ==
    /\ DocsOK(docs)
    /\ job.script \in Scripts \cup {"none"}
    /\ job.target \in {None, Unread} \cup DOMAIN docs
    /\ upsets \in 0..MaxUpsets
    /\ held \subseteq Linked(docs)

Init ==
    /\ docs = Seed
    /\ job = NoJob
    /\ upsets = 0
    /\ held = {}

----------------------------------------------------------------------------
(* Who a name on a page is.                                                *)
FirstLast(name) == IF Len(name) > 1 THEN <<name[1], name[Len(name)]>> ELSE name

(* Mutant of MatchInvestigator: a family name is enough.                   *)
MatchByFamilyName(name) ==
    Newest({m \in DOMAIN Members : Members[m].name[Len(Members[m].name)] = name[Len(name)]})

(* import-dissertations.mjs: the exact name, else the first and last word, *)
(* of which the index keeps the member that was listed first.              *)
Resembling(name) == {m \in DOMAIN Members : FirstLast(Members[m].name) = FirstLast(name)}
ResolveMember(name) ==
    LET exact == {m \in DOMAIN Members : Members[m].name = name} IN
    IF exact # {} THEN Oldest(exact)
    ELSE Newest(Resembling(name))

(* import-projects.mjs: a name only one member answers to, as it is        *)
(* written and then by its first and last word.                            *)
Claimants(name) == {m \in DOMAIN Members : name \in Aliases[m]}
MatchInvestigator(name) ==
    IF Cardinality(Claimants(name)) = 1 THEN Oldest(Claimants(name))
    ELSE IF Cardinality(Claimants(FirstLast(name))) = 1 THEN Oldest(Claimants(FirstLast(name)))
    ELSE None

Credit(p, member) == [name |-> p.name, of |-> p.person, member |-> member]

----------------------------------------------------------------------------
(* What a row of a page becomes.                                           *)

(* Fields the page does not state keep their value; themes are not named.  *)
ThesisData(r, d) ==
    [d EXCEPT !.title = r.title, !.stage = r.stage,
              !.people = [k \in DOMAIN r.people |->
                             Credit(r.people[k], ResolveMember(r.people[k].name))],
              !.desc = IF r.desc = "" THEN @ ELSE r.desc]

(* Mutant of GrantData: the investigator is linked by updates too.         *)
GrantDataWithMembers(r, d) ==
    [d EXCEPT !.title = r.title, !.stage = IF r.kind = "" THEN @ ELSE r.kind,
              !.members = {MatchInvestigator(r.lead.name)} \ {None}]

(* Only the fields the old page owns.                                      *)
GrantData(r, d) == [d EXCEPT !.title = r.title, !.stage = IF r.kind = "" THEN @ ELSE r.kind]

NewGrant(r) ==
    LET lead == MatchInvestigator(r.lead.name) IN
    [GrantData(r, [Doc("project", r.title) EXCEPT !.stage = "national"])
        EXCEPT !.people = <<Credit(r.lead, lead)>>, !.members = {lead} \ {None}]

MeetingData(r, d) == [d EXCEPT !.title = r.title, !.at = r.at]

(* The file's text, and a theme's title and text.                          *)
Described(d) == [d EXCEPT !.desc = "file"]
ThemeData(r, d) == [d EXCEPT !.title = r.title, !.desc = "script"]

Data(r, d) ==
    CASE job.script = "theses" -> ThesisData(r, d)
      [] job.script = "grants" -> IF d.title = "" THEN NewGrant(r) ELSE GrantData(r, d)
      [] job.script = "meetings" -> MeetingData(r, d)
      [] job.script = "texts" -> Described(d)
      [] job.script = "themes" -> ThemeData(r, d)

CollOf == [theses |-> "thesis", grants |-> "project", meetings |-> "event", texts |-> "project",
           themes |-> "theme", fixtures |-> "thesis"]

(* The numbers in T in order, and the entries of a list at those places.   *)
Ascending(T) ==
    CHOOSE s \in [1..Cardinality(T) -> T] : \A j, k \in DOMAIN s : j < k => s[j] < s[k]
Entries(s, T) == [k \in 1..Cardinality(T) |-> s[Ascending(T)[k]]]

(* Entries switched off in the page's stylesheet are skipped, meetings     *)
(* without a readable date are reported only.                              *)
Published == Entries(Theses, {k \in DOMAIN Theses : ~Theses[k].hidden})
Dated == Entries(Meetings, {k \in DOMAIN Meetings : Meetings[k].at # ""})

(* apply-research-themes.mjs: first the themes that are there and not      *)
(* wanted, then the wanted ones.                                           *)
ThemeRows ==
    LET old == {t \in Of(docs, "theme") : docs[t].title \notin ToSet(Wanted)}
        newest(k) == Ascending(old)[Cardinality(old) + 1 - k] IN
    [k \in 1..Cardinality(old) |-> [title |-> docs[newest(k)].title, id |-> newest(k)]]
    \o [k \in DOMAIN Wanted |-> [title |-> Wanted[k], id |-> None]]

Rows(s) ==
    CASE s = "theses" -> Published
      [] s = "grants" -> Grants
      [] s = "meetings" -> Dated
      [] s = "texts" -> Texts
      [] s = "themes" -> ThemeRows
      [] s = "fixtures" -> Fixtures

----------------------------------------------------------------------------
(* A script.                                                               *)
Unless(s) == upsets < MaxUpsets /\ upsets' = upsets + s

(* It fetches its page, counts the entries and reads what it reads once.   *)
Start(s) ==
    /\ job.script = "none"
    /\ job' = [NoJob EXCEPT !.script = s, !.rows = Rows(s), !.snap = docs]
    /\ held' = Linked(docs)
    /\ UNCHANGED <<docs, upsets>>

(* A page that has changed fails its count; the others read no page.       *)
PageReadsShort(s) ==
    /\ job.script = "none" /\ s \in {"theses", "grants", "meetings"}
    /\ Unless(1)
    /\ UNCHANGED <<docs, job, held>>

Row == job.rows[job.at]
Writing == job.script # "none" /\ job.at <= Len(job.rows)
Onward(failed) == [job EXCEPT !.at = @ + 1, !.target = Unread, !.failed = @ \/ failed]

(* Mutant of SameMeeting: the title is enough.                             *)
SameMeetingByTitle(r) == Newest(Titled(docs, "event", r.title))

(* The record a row stands for, None when there is none: the importers ask *)
(* the database for each row, the other two use what they read once.       *)
SameThesis(r) == Newest(Titled(docs, "thesis", r.title))
SameGrant(r) == Newest(Titled(docs, "project", r.title))
SameMeeting(r) == Newest({i \in Titled(docs, "event", r.title) : docs[i].at = r.at})
ReadProject(r) == Oldest(Titled(job.snap, "project", r.title))
ReadTheme(r) == IF r.id # None THEN r.id ELSE Newest(Titled(job.snap, "theme", r.title))
Fixture(r) == Newest(Titled(docs, "thesis", r.title))
Target(r) ==
    CASE job.script = "theses" -> SameThesis(r)
      [] job.script = "grants" -> SameGrant(r)
      [] job.script = "meetings" -> SameMeeting(r)
      [] job.script = "texts" -> ReadProject(r)
      [] job.script = "themes" -> ReadTheme(r)
      [] job.script = "fixtures" -> Fixture(r)

(* Mutant of IsShared: only a fixture that is gone is left alone.          *)
IsAbsent(r) == Titled(docs, "thesis", r.title) = {}

(* What is left alone: a project that is absent or described, a theme      *)
(* something links to, a fixture that is gone or shares its title.         *)
IsSettled(r) == LET i == ReadProject(r) IN IF i = None THEN TRUE ELSE job.snap[i].desc # ""
IsInUse(r) == r.id # None /\ \E i \in DOMAIN docs : r.id \in docs[i].themes
IsShared(r) == Cardinality(Titled(docs, "thesis", r.title)) # 1
Spared(r) ==
    \/ job.script = "texts" /\ IsSettled(r)
    \/ job.script = "themes" /\ IsInUse(r)
    \/ job.script = "fixtures" /\ IsShared(r)

Look ==
    /\ Writing /\ job.target = Unread
    /\ job' = IF Spared(Row) THEN Onward(FALSE) ELSE [job EXCEPT !.target = Target(Row)]
    /\ UNCHANGED <<docs, upsets, held>>

Removes == job.script = "fixtures" \/ (job.script = "themes" /\ Row.id # None)

(* What the write makes of the documents.                                  *)
Result ==
    LET made == [Doc(CollOf[job.script], "") EXCEPT !.slug = Row.title] IN
    IF Removes THEN [i \in DOMAIN docs |->
                        IF i = job.target THEN Gone
                        ELSE [docs[i] EXCEPT !.themes = @ \ {job.target}]]
    ELSE IF job.target = None
         THEN Append(docs, [Data(Row, made) EXCEPT !.slug = Row.title])
    ELSE [docs EXCEPT ![job.target] = Data(Row, @)]

(* Mutant of Refused: slugs are not unique.                                *)
RefusedIfGone == job.target # None /\ docs[job.target] = Gone

(* A record that is gone is not found; a new one needs a slug of its own.  *)
Refused ==
    IF job.target = None
    THEN \E i \in Of(docs, CollOf[job.script]) : docs[i].slug = Row.title
    ELSE docs[job.target] = Gone

(* A failure is reported and the next row taken; import-projects.mjs does  *)
(* not catch it and ends.  Only what the database had no reason to refuse  *)
(* counts as failed (history).                                             *)
Failing(failed) == IF job.script = "grants" THEN NoJob ELSE Onward(failed)

Write ==
    /\ Writing /\ job.target # Unread
    /\ \/ /\ Refused
          /\ job' = Failing(FALSE)
          /\ UNCHANGED <<docs, upsets, held>>
       \/ /\ ~Refused
          /\ job.target = None => Len(docs) < MaxDocs
          /\ docs' = Result
          /\ held' = held \cap Linked(docs')
          /\ job' = Onward(FALSE)
          /\ UNCHANGED upsets
       \/ /\ Unless(1)
          /\ job' = Failing(TRUE)
          /\ UNCHANGED <<docs, held>>

Finish ==
    /\ job.script # "none" /\ job.at > Len(job.rows)
    /\ job' = NoJob
    /\ held' = {}
    /\ UNCHANGED <<docs, upsets>>

ScriptDies ==
    /\ Writing
    /\ Unless(1)
    /\ job' = NoJob
    /\ held' = {}
    /\ UNCHANGED docs

Script ==
    \/ \E s \in Scripts : Start(s) \/ PageReadsShort(s)
    \/ Look \/ Write \/ Finish \/ ScriptDies

----------------------------------------------------------------------------
(* Editors.                                                                *)
Edit(i, d) ==
    /\ Unless(1)
    /\ docs' = [docs EXCEPT ![i] = d]
    /\ held' = held \cap Linked(docs')
    /\ job' = IF job.script = "none" THEN job ELSE [job EXCEPT !.disturbed = TRUE]

Describe(i) ==
    docs[i].coll \in {"thesis", "project"} /\ Edit(i, [docs[i] EXCEPT !.desc = "human"])
Retitle(i) ==
    /\ docs[i].coll # "gone"
    /\ \E t \in NewTitles :
        Titled(docs, docs[i].coll, t) = {} /\ Edit(i, [docs[i] EXCEPT !.title = t])
Join(i) ==
    /\ docs[i].coll = "project"
    /\ \E m \in DOMAIN Members \ docs[i].members :
        Edit(i, [docs[i] EXCEPT !.members = @ \cup {m}])
LinkTheme(i) ==
    /\ docs[i].coll \in {"thesis", "project"}
    /\ \E t \in Of(docs, "theme") \ docs[i].themes :
        Edit(i, [docs[i] EXCEPT !.themes = @ \cup {t}])
UnlinkTheme(i) ==
    \E t \in docs[i].themes : Edit(i, [docs[i] EXCEPT !.themes = @ \ {t}])
Delete(i) ==
    /\ docs[i].coll \notin {"gone", "theme"}
    /\ Edit(i, Gone)

Editor ==
    \E i \in DOMAIN docs :
        Describe(i) \/ Retitle(i) \/ Join(i) \/ LinkTheme(i) \/ UnlinkTheme(i) \/ Delete(i)

Next == Script \/ Editor

Spec == Init /\ [][Next]_vars

----------------------------------------------------------------------------
(* A profile an import put on a thesis or a project is the profile of the  *)
(* person the old page names.  Dissertations are let off where a name is   *)
(* abbreviated and two members share its first and last word: resolveMember*)
(* takes one of them, where matchInvestigator takes none.                  *)
InFull(name) == \E m \in DOMAIN Members : Members[m].name = name
Unshared(name) == Cardinality(Resembling(name)) <= 1
RightPeople(d) ==
    \A k \in DOMAIN d.people :
        LET c == d.people[k] IN
        c.member # None /\ (d.coll = "project" \/ InFull(c.name) \/ Unshared(c.name))
            => Members[c.member].person = c.of
PeopleAreRight == \A i \in DOMAIN docs : RightPeople(docs[i])

(* That is as true as the pages are telling: a dissertation's full name of *)
(* a member, or the first and last word of one alone, is that member, and  *)
(* so is an alias of one alone a project's investigator.                   *)
ThesisTells(p) ==
    \A m \in DOMAIN Members :
        Members[m].name = p.name \/ Resembling(p.name) = {m} => Members[m].person = p.person
GrantTells(p) ==
    \A m \in DOMAIN Members :
        Claimants(p.name) = {m} \/ Claimants(FirstLast(p.name)) = {m}
            => Members[m].person = p.person
PagesTell ==
    /\ \A i \in DOMAIN Seed : RightPeople(Seed[i])
    /\ \A k \in DOMAIN Theses : \A n \in DOMAIN Theses[k].people : ThesisTells(Theses[k].people[n])
    /\ \A k \in DOMAIN Grants : GrantTells(Grants[k].lead)

(* What editors had written when a script read it outlives the script: the *)
(* description and the members of a project, and the themes of anything as *)
(* long as the theme is there ("stay whatever an editor set here").        *)
EditorsWorkStands ==
    [][\A i \in DOMAIN job.snap :
          LET was == docs[i] is == docs'[i] IN
          job'.disturbed = job.disturbed /\ upsets' = upsets /\ was # Gone /\ is # Gone =>
             /\ was.coll = "project" =>
                   /\ was.members \subseteq is.members
                   /\ was.desc # "" /\ was.desc = job.snap[i].desc => is.desc = was.desc
             /\ was.themes \cap Of(docs', "theme") \subseteq is.themes]_vars

(* A script removes nothing that something depends on: no theme that a     *)
(* document has linked ever since the script began, and no dissertation    *)
(* but a fixture whose title is its own: it had the title when the script  *)
(* began, unless an editor has been giving documents fixtures' titles.     *)
FixtureTitles == {Fixtures[k].title : k \in DOMAIN Fixtures}
EditorNamesFixtures == job.disturbed /\ NewTitles \cap FixtureTitles # {}
DeletionsAreSafe ==
    [][\A i \in DOMAIN docs :
          upsets' = upsets /\ docs[i] # Gone /\ docs'[i] = Gone =>
             /\ \A d \in DOMAIN docs : <<d, i>> \notin held
             /\ docs[i].coll = "thesis" =>
                   /\ job.snap[i].title \in FixtureTitles \/ EditorNamesFixtures
                   /\ Titled(docs, "thesis", docs[i].title) = {i}]_vars

(* What an import nobody interferes with owes its page, at every row.  A   *)
(* row it has taken has a record that shows it; a record that shows a row  *)
(* is not given to another, so that the occasions on which one paper was   *)
(* discussed stay apart; and the script ends at the last row.  The one     *)
(* excuse is a slug: some other document has it, a renamed one, or the     *)
(* same paper's record of another date, which import-events.mjs matches    *)
(* apart but gives the same slug.  A dissertation two pages list has the   *)
(* stage of one of them.                                                   *)
Shows(d, r) ==
    /\ d.coll = CollOf[job.script] /\ d.title = r.title
    /\ job.script = "theses" => \E q \in ToSet(job.rows) : q.title = r.title /\ q.stage = d.stage
    /\ job.script = "meetings" => d.at = r.at
IsShown(D, r) == \E i \in DOMAIN D : Shows(D[i], r)
IsTaken(r) ==
    \E i \in Of(docs, CollOf[job.script]) :
        /\ docs[i].slug = r.title
        /\ \/ i \in DOMAIN job.snap /\ job.snap[i].title # r.title
           \/ job.script = "meetings" /\ docs[i].title = r.title /\ docs[i].at # r.at
IsRemoval(r) == job.script = "themes" /\ r.id # None
ImportIsComplete ==
    [][job.script \in {"theses", "grants", "meetings", "themes"}
       /\ ~job.failed /\ ~job.disturbed /\ upsets' = upsets =>
          /\ \A k \in DOMAIN job.rows : k < job.at =>
                LET r == job.rows[k] IN IsRemoval(r) \/ IsShown(docs, r) \/ IsTaken(r)
          /\ \A r \in ToSet(job.rows) :
                ~IsRemoval(r) /\ IsShown(docs, r) => IsShown(docs', r)
          /\ job'.script = "none" /\ job.at <= Len(job.rows) => IsTaken(Row)]_vars

=============================================================================
