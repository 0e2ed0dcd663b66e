------------------------------ MODULE Catalogue ------------------------------
(***************************************************************************)
(* The publication records as a library: what identifies a work, who its   *)
(* authors are, and which of two records of one paper is kept.  Three      *)
(* scripts of web/scripts link author rows to members and merge            *)
(* duplicates, from a list they read once; the ingest of ai/app goes on    *)
(* matching works by OpenAlex id and DOI, and editors go on correcting.    *)
(* A name is a sequence of words; a text is a model value; venue and links *)
(* follow the rule of the abstract and are left out.  Summaries and the    *)
(* history of decisions are EditorialRecord's.                             *)
(***************************************************************************)
EXTENDS Integers, Sequences, FiniteSets, FiniteSetsExt

CONSTANTS
    Names,          \* Names[m]: the name of member m, in lower case, no accents
    Extra,          \* Extra[m]: the full name and aliases the dataset adds
    Initial,        \* Initial[w]: the first letter of the word w
    Aliases,        \* AUTHOR_ALIASES: [member |-> name, alias |-> name]
    Seed,           \* the records to begin with
    Works,          \* what OpenAlex says, in the order an ingest meets it
    Length,         \* Length[t]: how long the text t is
    Chrome,         \* texts that are the furniture of an index page
    MaxYearGap,
    Picks,          \* bound: the members an editor may link, None to unlink
    MaxRecords,     \* bound: records
    MaxUpsets       \* bound: corrections by editors, failures, deaths

VARIABLES
    pub,            \* pub[i]: the record with id i; ids are given in order
    job,            \* the script that is running
    ingest,         \* the ingest that is running
    into,           \* into[i]: the record i was merged into (its reviewNote),
                    \* until an editor decides otherwise
    upsets

vars == <<pub, job, ingest, into, upsets>>

None == 0
NoText == "none"
Members == DOMAIN Names
Scripts == {"link", "alias", "merge"}
Statuses == {"pending_review", "published", "rejected"}
Ids == DOMAIN pub

NoJob == [script |-> "none", snap |-> <<>>, todo |-> {}, alias |-> 1,
          keep |-> None, park |-> None, touched |-> {}, failed |-> FALSE]
NoIngest == [pc |-> "off", at |-> 1, hit |-> None]

(* Identifiers are unique where they are set, and every record has a slug  *)
(* of its own.                                                             *)
Distinct(P) ==
    \A i, j \in DOMAIN P : i # j =>
        /\ P[i].slug # P[j].slug
        /\ P[i].oa = "" \/ P[i].oa # P[j].oa
        /\ P[i].doi = "" \/ P[i].doi # P[j].doi

(* The records: a row is linked, and then one knows how, or it is not.     *)
Means == {"script", "merge", "hand"}
Rows == {r \in [name: Seq(STRING), by: Members \cup {None}, member: Members \cup {None},
                via: Means \cup {""}] : r.via = "" <=> r.member = None}
WorkRecords ==
    [title: STRING, year: Nat, preprint: BOOLEAN, oa: STRING, doi: STRING,
     abstract: DOMAIN Length, cites: Nat, authors: Seq(Rows)]
Publications ==
    [title: STRING, slug: Seq(STRING), year: Nat, preprint: BOOLEAN, oa: STRING, doi: STRING,
     abstract: DOMAIN Length, cites: Nat, authors: Seq(Rows), status: Statuses]

ASSUME CatalogueAssumption ==
    /\ MaxYearGap \in Nat /\ MaxRecords \in Nat /\ MaxUpsets \in Nat
    /\ Names \in Seq(Seq(STRING)) /\ Picks \subseteq Members \cup {None}
    /\ Aliases \in Seq([member: Seq(STRING), alias: Seq(STRING)])
    /\ Length \in [DOMAIN Length -> Nat] /\ {NoText, "own"} \subseteq DOMAIN Length
    /\ Seed \in Seq(Publications) /\ Distinct(Seed) /\ Len(Seed) <= MaxRecords
    /\ Works \in Seq(WorkRecords) /\ Works # <<>>

TypeOK ==
    /\ pub \in Seq(Publications) /\ Len(pub) <= MaxRecords /\ Distinct(pub)
    /\ job \in [script: Scripts \cup {"none"}, snap: Seq(Publications), todo: {job.todo},
                alias: Nat \ {0}, keep: Ids \cup {None}, park: Ids \cup {None},
                touched: SUBSET Ids, failed: BOOLEAN]
    /\ job.todo \subseteq IF job.script = "merge" THEN SUBSET Ids ELSE Ids
    /\ ingest \in [pc: {"off", "find", "write"}, at: DOMAIN Works, hit: Ids \cup {None}]
    /\ into \in [1..MaxRecords -> Ids \cup {None}]
    /\ upsets \in 0..MaxUpsets

Init ==
    /\ pub = Seed
    /\ job = NoJob
    /\ ingest = NoIngest
    /\ into = [i \in 1..MaxRecords |-> None]
    /\ upsets = 0

----------------------------------------------------------------------------
(* Whose name an author row carries.  authorAliases: a name as it is, and  *)
(* with its second and third words left out or cut to their initials.      *)
Shortened(n) ==
    LET last == n[Len(n)]
        short(k) == Initial[n[k]]
    IN IF Len(n) < 2 THEN {}
       ELSE {<<n[1], last>>}
            \cup (IF Len(n) < 3 THEN {} ELSE {<<n[1], n[2], last>>, <<n[1], short(2), last>>})
            \cup (IF Len(n) < 4 THEN {} ELSE {<<n[1], n[2], n[3], last>>,
                                              <<n[1], short(2), short(3), last>>})
AuthorAliases(m) == UNION {{n} \cup Shortened(n) : n \in {Names[m]} \cup Extra[m]}
Claimants(n) == {m \in Members : n \in AuthorAliases(m)}

(* Mutant of MatchAuthor: the first of several members is taken.           *)
MatchAuthorAny(n) == IF Claimants(n) = {} THEN None ELSE Min(Claimants(n))

(* matchAuthorToMember: only when one member alone claims the name.        *)
MatchAuthor(n) == IF Cardinality(Claimants(n)) = 1 THEN Min(Claimants(n)) ELSE None

LinkedTo(row, m, via) == [row EXCEPT !.member = m, !.via = via]

(* Mutant of LinkRow: a link that is there is made again.                  *)
LinkRowAnew(row) ==
    IF MatchAuthor(row.name) = None THEN row ELSE LinkedTo(row, MatchAuthor(row.name), "script")

LinkRow(row) ==
    IF row.member # None \/ MatchAuthor(row.name) = None THEN row
    ELSE LinkedTo(row, MatchAuthor(row.name), "script")
LinkAuthors(authors) == [r \in DOMAIN authors |-> LinkRow(authors[r])]

(* linkAliasInAuthors, for a member whose name nobody shares.              *)
Bearers(n) == {m \in Members : Names[m] = n}
MemberNamed(n) == IF Cardinality(Bearers(n)) = 1 THEN Min(Bearers(n)) ELSE None
LinkAliasInAuthors(authors, alias, m) ==
    [r \in DOMAIN authors |->
        IF authors[r].member # None \/ authors[r].name # alias THEN authors[r]
        ELSE LinkedTo(authors[r], m, "script")]

----------------------------------------------------------------------------
(* Two records of one paper: publication-dedupe.mjs.                       *)
SurnameOf(n) == n[Len(n)]
Surnames(authors) ==
    [s \in {SurnameOf(authors[r].name) : r \in DOMAIN authors} |->
        Cardinality({r \in DOMAIN authors : SurnameOf(authors[r].name) = s})]
IsSameWork(a, b) ==
    /\ a.authors # <<>> /\ b.authors # <<>>
    /\ Surnames(a.authors) = Surnames(b.authors)
    /\ a.year = 0 \/ b.year = 0 \/ a.year - b.year \in -MaxYearGap..MaxYearGap

(* pickWinner: the tests in their order; the id, which settles a tie, is   *)
(* the lower the better.                                                   *)
Scores(i, p) ==
    <<IF p.preprint THEN 0 ELSE 1, p.cites, IF p.doi = "" THEN 0 ELSE 1, Length[p.abstract], -i>>
Outranks(s, t) == \E k \in DOMAIN s : s[k] > t[k] /\ \A l \in 1..(k - 1) : s[l] = t[l]
PickWinner(i, j, S) == IF Outranks(Scores(i, S[i]), Scores(j, S[j])) THEN i ELSE j

(* mergeFields: what the winner lacks, and the higher count.               *)
MergedAbstract(w, l) ==
    IF w.abstract = NoText \/ (w.abstract \in Chrome /\ l.abstract \notin Chrome \cup {NoText})
    THEN l.abstract ELSE w.abstract
MergedCites(w, l) == IF l.cites > w.cites THEN l.cites ELSE w.cites

(* mergeAuthorLinks: by surname, and of two rows with one the last.        *)
LinkedBySurname(authors, s) ==
    LET rows == {r \in DOMAIN authors : authors[r].member # None /\ SurnameOf(authors[r].name) = s}
    IN IF rows = {} THEN None ELSE authors[Max(rows)].member

(* Mutant of MergeAuthorLinks: the links of the other record are let go.   *)
MergeAuthorLinksNot(kept, dropped) == kept

MergeAuthorLinks(kept, dropped) ==
    [r \in DOMAIN kept |->
        LET m == LinkedBySurname(dropped, SurnameOf(kept[r].name)) IN
        IF kept[r].member # None \/ m = None THEN kept[r] ELSE LinkedTo(kept[r], m, "merge")]

(* Mutant of IsDedupeCandidate: a parked record is judged again.           *)
IsDedupeCandidateAlways(p) == TRUE

IsDedupeCandidate(p) == p.status # "rejected"

(* The titles two records share; three are left to a person.               *)
Group(S, t) == {i \in DOMAIN S : S[i].title = t /\ IsDedupeCandidate(S[i])}
Pairs(S) ==
    {Group(S, S[i].title) : i \in {j \in DOMAIN S : Cardinality(Group(S, S[j].title)) = 2}}
DuplicatePairs(S) == {g \in Pairs(S) : \A i, j \in g : i # j => IsSameWork(S[i], S[j])}

----------------------------------------------------------------------------
(* The scripts.  Each reads its list when it starts; the alias script      *)
(* reads one for every alias.                                              *)
Start(s) ==
    /\ job.script = "none"
    /\ job' = [NoJob EXCEPT !.script = s, !.snap = pub,
                            !.todo = CASE s = "link" -> Ids
                                       [] s = "alias" -> {}
                                       [] s = "merge" -> DuplicatePairs(pub)]
    /\ UNCHANGED <<pub, ingest, into, upsets>>

Writing(i, r) == pub' = [pub EXCEPT ![i] = r]

(* link-publication-members.mjs, newest record first.                      *)
LinkRecord ==
    /\ job.script = "link" /\ job.todo # {}
    /\ LET i == Max(job.todo)
           next == LinkAuthors(job.snap[i].authors)
       IN /\ job' = [job EXCEPT !.todo = @ \ {i}]
          /\ IF next = job.snap[i].authors THEN UNCHANGED pub
             ELSE Writing(i, [pub[i] EXCEPT !.authors = next])
    /\ UNCHANGED <<ingest, into, upsets>>

(* link-author-aliases.mjs: the records with the alias, then one by one.   *)
AliasFind ==
    /\ job.script = "alias" /\ job.todo = {} /\ job.alias <= Len(Aliases)
    /\ LET a == Aliases[job.alias]
           hits == {i \in Ids : \E r \in DOMAIN pub[i].authors : pub[i].authors[r].name = a.alias}
       IN job' = IF MemberNamed(a.member) = None \/ hits = {}
                 THEN [job EXCEPT !.alias = @ + 1]
                 ELSE [job EXCEPT !.snap = pub, !.todo = hits, !.touched = {}]
    /\ UNCHANGED <<pub, ingest, into, upsets>>
AliasWrite ==
    /\ job.script = "alias" /\ job.todo # {}
    /\ LET i == Max(job.todo)
           a == Aliases[job.alias]
           next == LinkAliasInAuthors(job.snap[i].authors, a.alias, MemberNamed(a.member))
       IN /\ job' = [job EXCEPT !.todo = @ \ {i}, !.alias = IF job.todo = {i} THEN @ + 1 ELSE @]
          /\ IF next = job.snap[i].authors THEN UNCHANGED pub
             ELSE Writing(i, [pub[i] EXCEPT !.authors = next])
    /\ UNCHANGED <<ingest, into, upsets>>

(* merge-duplicate-publications.mjs: the one record is filled up ...       *)
KeepPatched(r, w, l) ==
    LET links == MergeAuthorLinks(w.authors, l.authors) IN
    [r EXCEPT !.abstract = IF MergedAbstract(w, l) = w.abstract THEN @ ELSE MergedAbstract(w, l),
              !.cites = IF MergedCites(w, l) = w.cites THEN @ ELSE MergedCites(w, l),
              !.authors = IF links = w.authors THEN @ ELSE links]
MergeKeep ==
    /\ job.script = "merge" /\ job.keep = None
    /\ \E g \in job.todo : \E w, l \in g :
        /\ w # l /\ PickWinner(w, l, job.snap) = w
        /\ job' = [job EXCEPT !.todo = @ \ {g}, !.keep = w, !.park = l]
        /\ Writing(w, KeepPatched(pub[w], job.snap[w], job.snap[l]))
    /\ UNCHANGED <<ingest, into, upsets>>

(* Mutant of MergePark: it is parked when there was something to copy.     *)
MergeParkIfPatched ==
    /\ job.script = "merge" /\ job.keep # None
    /\ LET w == job.snap[job.keep] IN
       IF KeepPatched(w, w, job.snap[job.park]) = w THEN UNCHANGED <<pub, into>>
       ELSE /\ Writing(job.park, [pub[job.park] EXCEPT !.status = "rejected"])
            /\ into' = [into EXCEPT ![job.park] = job.keep]
    /\ job' = [job EXCEPT !.keep = None, !.park = None]
    /\ UNCHANGED <<ingest, upsets>>

(* ... and the other one is parked, with a note.                           *)
MergePark ==
    /\ job.script = "merge" /\ job.keep # None
    /\ Writing(job.park, [pub[job.park] EXCEPT !.status = "rejected"])
    /\ into' = [into EXCEPT ![job.park] = job.keep]
    /\ job' = [job EXCEPT !.keep = None, !.park = None]
    /\ UNCHANGED <<ingest, upsets>>

Finish ==
    /\ job.script # "none" /\ job.todo = {} /\ job.keep = None
    /\ job.script = "alias" => job.alias > Len(Aliases)
    /\ job' = NoJob
    /\ UNCHANGED <<pub, ingest, into, upsets>>

(* An update that throws: reported, and the pair is left as it is; the     *)
(* alias script has no try and dies.  Any script can be killed.            *)
Upset == upsets < MaxUpsets /\ upsets' = upsets + 1
WriteFails ==
    /\ job.script \in {"link", "merge"} /\ (job.todo # {} \/ job.keep # None)
    /\ Upset
    /\ \/ /\ job.keep # None
          /\ job' = [job EXCEPT !.keep = None, !.park = None, !.failed = TRUE]
       \/ /\ job.keep = None
          /\ \E x \in job.todo : job' = [job EXCEPT !.todo = @ \ {x}, !.failed = TRUE]
    /\ UNCHANGED <<pub, ingest, into>>
ScriptDies ==
    /\ job.script # "none"
    /\ Upset
    /\ job' = NoJob
    /\ UNCHANGED <<pub, ingest, into>>

----------------------------------------------------------------------------
(* ingest.run: works are looked up and written one by one, a work two      *)
(* members share only once.                                                *)
Work == Works[ingest.at]
SeenBefore == \E k \in 1..(ingest.at - 1) : Works[k].oa = Work.oa
Matches(p, w) == (w.oa # "" /\ p.oa = w.oa) \/ (w.doi # "" /\ p.doi = w.doi)

(* find with limit 1 gives the newest.                                     *)
Newest(ids) == IF ids = {} THEN None ELSE Max(ids)

IngestStart ==
    /\ ingest.pc = "off"
    /\ ingest' = [NoIngest EXCEPT !.pc = "find"]
    /\ UNCHANGED <<pub, job, into, upsets>>
NextWork == IF ingest.at = Len(Works) THEN NoIngest
            ELSE [ingest EXCEPT !.pc = "find", !.at = @ + 1, !.hit = None]
IngestFind ==
    /\ ingest.pc = "find"
    /\ ingest' = IF SeenBefore THEN NextWork
                 ELSE [ingest EXCEPT !.pc = "write",
                                     !.hit = Newest({i \in Ids : Matches(pub[i], Work)})]
    /\ UNCHANGED <<pub, job, into, upsets>>

Touch(i) == job' = [job EXCEPT !.touched = IF job.script = "none" THEN @ ELSE @ \cup {i}]

(* Mutant of SafeUpdate: the status goes along.                            *)
SafeUpdateStatus(p, w) ==
    [p EXCEPT !.cites = w.cites, !.abstract = w.abstract, !.authors = w.authors,
              !.status = "pending_review"]

SafeUpdate(p, w) ==
    [p EXCEPT !.cites = w.cites, !.abstract = w.abstract, !.authors = w.authors]
IngestUpdate ==
    /\ ingest.pc = "write" /\ ingest.hit # None
    /\ Writing(ingest.hit, SafeUpdate(pub[ingest.hit], Work))
    /\ Touch(ingest.hit)
    /\ ingest' = NextWork
    /\ UNCHANGED <<into, upsets>>

(* Mutant of Draft: a status that is no option of the field.               *)
DraftUnlisted(w, slug) ==
    [title |-> w.title, slug |-> slug, year |-> w.year, preprint |-> w.preprint, oa |-> w.oa,
     doi |-> w.doi, abstract |-> w.abstract, cites |-> w.cites, authors |-> w.authors,
     status |-> "draft"]

(* A title that is taken gives the slug another ending, once.              *)
Draft(w, slug) ==
    [title |-> w.title, slug |-> slug, year |-> w.year, preprint |-> w.preprint, oa |-> w.oa,
     doi |-> w.doi, abstract |-> w.abstract, cites |-> w.cites, authors |-> w.authors,
     status |-> "pending_review"]
Suffix(w) == IF w.oa # "" THEN w.oa ELSE w.doi
TitleSlug(w) ==
    IF \E i \in Ids : pub[i].slug = <<w.title>> THEN <<w.title, Suffix(w)>> ELSE <<w.title>>
IngestCreate ==
    /\ ingest.pc = "write" /\ ingest.hit = None
    /\ Len(pub) < MaxRecords
    /\ LET longer == Append(pub, Draft(Work, TitleSlug(Work))) IN
       IF Distinct(longer) THEN pub' = longer /\ ingest' = NextWork
       ELSE UNCHANGED pub /\ ingest' = NoIngest
    /\ UNCHANGED <<job, into, upsets>>

(* A request that fails ends the whole ingest.                             *)
IngestDies ==
    /\ ingest.pc # "off"
    /\ Upset
    /\ ingest' = NoIngest
    /\ UNCHANGED <<pub, job, into>>

----------------------------------------------------------------------------
(* Editors.                                                                *)
Edit(i, r) ==
    /\ r # pub[i]
    /\ Upset
    /\ Writing(i, r)
    /\ Touch(i)
    /\ UNCHANGED ingest
LinkByHand(i, r, m) ==
    /\ Edit(i, [pub[i] EXCEPT !.authors[r] =
                 IF m = None THEN [@ EXCEPT !.member = None, !.via = ""] ELSE LinkedTo(@, m, "hand")])
    /\ UNCHANGED into
RewriteAbstract(i) == Edit(i, [pub[i] EXCEPT !.abstract = "own"]) /\ UNCHANGED into
(* What an editor decides about a parked record is no longer the merge's.  *)
Decide(i, s) ==
    Edit(i, [pub[i] EXCEPT !.status = s]) /\ into' = [into EXCEPT ![i] = None]

Editor ==
    \E i \in Ids :
        \/ \E r \in DOMAIN pub[i].authors, m \in Picks : LinkByHand(i, r, m)
        \/ RewriteAbstract(i)
        \/ \E s \in {"published", "rejected"} : Decide(i, s)

Script ==
    \/ LinkRecord \/ AliasFind \/ AliasWrite \/ MergeKeep \/ MergePark
    \/ Finish \/ WriteFails \/ ScriptDies
Ingest == IngestStart \/ IngestFind \/ IngestUpdate \/ IngestCreate \/ IngestDies

Next ==
    \/ \E s \in Scripts : Start(s)
    \/ Script
    \/ Ingest
    \/ Editor

Spec == Init /\ [][Next]_vars

----------------------------------------------------------------------------
(* Properties.                                                             *)

(* A link a script has made by comparing names is right: the row's author  *)
(* is the member, however short the name and whoever shares it.            *)
LinksAreRight ==
    \A i \in Ids : \A r \in DOMAIN pub[i].authors :
        pub[i].authors[r].via = "script" => pub[i].authors[r].member = pub[i].authors[r].by

(* That is as true as the names are telling: in the records there are and  *)
(* the works that come, a name one member alone claims is that member's,   *)
(* and so is an alias that is listed for a member.                         *)
Telling(row) ==
    /\ row.via = "script" => row.member = row.by
    /\ \A m \in Members :
        \/ Claimants(row.name) = {m}
        \/ \E k \in DOMAIN Aliases : Aliases[k].alias = row.name /\ Bearers(Aliases[k].member) = {m}
        => row.by = m
AllTelling(P) == \A i \in DOMAIN P : \A r \in DOMAIN P[i].authors : Telling(P[i].authors[r])
NamesTell == AllTelling(Seed) /\ AllTelling(Works)

(* No script changes or drops a link that was there when it read the       *)
(* record, unless somebody else wrote the record after that.               *)
SeenLinksStand ==
    [][\A i \in Ids :
        job.script # "none" /\ i \in DOMAIN job.snap \ job.touched /\ job'.touched = job.touched =>
            \A r \in DOMAIN pub[i].authors :
                pub[i].authors[r].member # None => pub'[i].authors[r] = pub[i].authors[r]]_vars

(* However often merges run, are broken off or fail, and whatever is       *)
(* ingested in between, they never park a paper away entirely: following   *)
(* "Merged into" from a parked record leads to one they did not park.      *)
MergesEndInARecord ==
    \A S \in SUBSET Ids : S # {} => \E i \in S : into[i] \notin S

(* What a record holds is not lost when it is parked: the one it was       *)
(* merged into has an abstract if it had one, no fewer citations, and a    *)
(* link for every author whose row was linked here.                        *)
MergeLosesNothing ==
    [][\A l \in Ids : into'[l] \notin {None, into[l]} /\ {l, into'[l]} \cap job.touched = {} =>
        LET k == into'[l] IN
        /\ pub[l].abstract # NoText => pub[k].abstract # NoText
        /\ pub[k].cites >= pub[l].cites
        /\ \A r \in DOMAIN pub[l].authors : pub[l].authors[r].member # None =>
            \A q \in DOMAIN pub[k].authors :
                SurnameOf(pub[k].authors[q].name) = SurnameOf(pub[l].authors[r].name)
                    => pub[k].authors[q].member # None]_vars

(* A merge run in which nothing failed and nobody else wrote leaves no     *)
(* pair it would merge: in particular the one an earlier run was killed on.*)
MergeIsComplete ==
    [][job.script = "merge" /\ job'.script = "none" /\ upsets' = upsets /\ ~job.failed
       /\ job.touched = {} /\ Ids = DOMAIN job.snap
       => DuplicatePairs(pub) = {}]_vars

(* What was merged stays merged: no ingest brings a parked record back.    *)
ParkedStaysParked ==
    [][\A i \in Ids : into[i] # None /\ upsets' = upsets => pub'[i].status = pub[i].status]_vars
==============================================================================
