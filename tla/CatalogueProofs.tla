--------------------------- MODULE CatalogueProofs ---------------------------
(* Theorems about Catalogue, for any members, records, works and bounds.    *)
EXTENDS Catalogue, DataLemmas

----------------------------------------------------------------------------
(* Typing.                                                                 *)
LEMMA MembersAreNumbers ==
    Members \subseteq Nat \ {0}
BY CatalogueAssumption DEF Members

LEMMA MatchTyping ==
    ASSUME NEW n
    PROVE  /\ MatchAuthor(n) \in Members \cup {None}
           /\ MemberNamed(n) \in Members \cup {None}
<1>1. Claimants(n) \subseteq Nat /\ Claimants(n) \subseteq Members
  BY MembersAreNumbers DEF Claimants
<1>2. MatchAuthor(n) \in Members \cup {None}
  BY <1>1, OnlyOne DEF MatchAuthor
<1> DEFINE ms == {m \in Members : Names[m] = n}
<1>3. ms \subseteq Nat /\ ms \subseteq Members
  BY MembersAreNumbers
<1>4. Cardinality(ms) = 1 => Min(ms) \in ms
  <2> HIDE DEF ms
  <2> QED BY <1>3, OnlyOne
<1>5. MemberNamed(n) \in Members \cup {None}
  BY <1>3, <1>4 DEF MemberNamed, Bearers
<1> QED BY <1>2, <1>5

LEMMA LinkedTyping ==
    ASSUME NEW row \in Rows, NEW m \in Members, NEW via \in Means
    PROVE  LinkedTo(row, m, via) \in Rows
BY MembersAreNumbers DEF LinkedTo, Rows, Means, None

LEMMA LinkTyping ==
    ASSUME NEW a \in Seq(Rows)
    PROVE  LinkAuthors(a) \in Seq(Rows) /\ DOMAIN LinkAuthors(a) = DOMAIN a
<1>1. ASSUME NEW r \in DOMAIN a
      PROVE  LinkRow(a[r]) \in Rows
  <2>1. a[r] \in Rows
    OBVIOUS
  <2>2. "script" \in Means
    BY DEF Means
  <2> QED BY <2>1, <2>2, MatchTyping, LinkedTyping DEF LinkRow
<1>2. LinkAuthors(a) \in [DOMAIN a -> Rows]
  BY <1>1 DEF LinkAuthors
<1> QED BY <1>2, FunctionIsSeq

LEMMA AliasTyping ==
    ASSUME NEW a \in Seq(Rows), NEW alias, NEW m \in Members
    PROVE  /\ LinkAliasInAuthors(a, alias, m) \in Seq(Rows)
           /\ DOMAIN LinkAliasInAuthors(a, alias, m) = DOMAIN a
<1>1. ASSUME NEW r \in DOMAIN a
      PROVE  a[r] \in Rows /\ LinkedTo(a[r], m, "script") \in Rows
  <2>1. "script" \in Means /\ a[r] \in Rows
    BY DEF Means
  <2> QED BY <2>1, LinkedTyping
<1>2. LinkAliasInAuthors(a, alias, m) \in [DOMAIN a -> Rows]
  BY <1>1 DEF LinkAliasInAuthors
<1> QED BY <1>2, FunctionIsSeq

(* The link found for a surname is one of the rows that carry it.          *)
LEMMA SurnameLink ==
    ASSUME NEW a \in Seq(Rows), NEW s
    PROVE  /\ LinkedBySurname(a, s) \in Members \cup {None}
           /\ \A r \in DOMAIN a : a[r].member # None /\ SurnameOf(a[r].name) = s
                => LinkedBySurname(a, s) # None
<1> DEFINE rows == {r \in DOMAIN a : a[r].member # None /\ SurnameOf(a[r].name) = s}
<1>1. rows \subseteq 0..Len(a) /\ Len(a) \in Nat
  OBVIOUS
<1>2. CASE rows = {}
  BY <1>2 DEF LinkedBySurname
<1>3. CASE rows # {}
  <2>1. Max(rows) \in rows
    <3> HIDE DEF rows
    <3> QED BY <1>1, <1>3, MaxIsGreatest
  <2>2. LinkedBySurname(a, s) = a[Max(rows)].member
    BY <1>3 DEF LinkedBySurname
  <2>3. a[Max(rows)] \in Rows /\ a[Max(rows)].member # None
    BY <2>1
  <2> QED BY <2>2, <2>3 DEF Rows
<1> QED BY <1>2, <1>3

LEMMA MergedLinksTyping ==
    ASSUME NEW a \in Seq(Rows), NEW b \in Seq(Rows)
    PROVE  /\ MergeAuthorLinks(a, b) \in Seq(Rows)
           /\ DOMAIN MergeAuthorLinks(a, b) = DOMAIN a
<1>1. ASSUME NEW r \in DOMAIN a
      PROVE  LET m == LinkedBySurname(b, SurnameOf(a[r].name)) IN
             (IF a[r].member # None \/ m = None THEN a[r] ELSE LinkedTo(a[r], m, "merge")) \in Rows
  <2>1. a[r] \in Rows /\ "merge" \in Means
    BY DEF Means
  <2> QED BY <2>1, SurnameLink, LinkedTyping
<1>2. MergeAuthorLinks(a, b) \in [DOMAIN a -> Rows]
  BY <1>1 DEF MergeAuthorLinks
<1> QED BY <1>2, FunctionIsSeq

(* What identifies a record stays when a field of it is written.           *)
SameKeys(p, q) == p.slug = q.slug /\ p.oa = q.oa /\ p.doi = q.doi
Patch(p, q) == q \in Publications /\ SameKeys(p, q)

LEMMA PatchTyping ==
    ASSUME NEW p \in Publications, NEW a \in Seq(Rows), NEW t \in DOMAIN Length,
           NEW c \in Nat, NEW s \in Statuses
    PROVE  /\ Patch(p, [p EXCEPT !.authors = a])
           /\ Patch(p, [p EXCEPT !.abstract = t])
           /\ Patch(p, [p EXCEPT !.status = s])
           /\ Patch(p, [p EXCEPT !.cites = c, !.abstract = t, !.authors = a])
           /\ Patch(p, [p EXCEPT !.abstract = t, !.cites = c, !.authors = a])
<1> DEFINE Texts == DOMAIN Length
           Lists == Seq(Rows)
           Slugs == Seq(STRING)
<1>1. Publications =
        [title: STRING, slug: Slugs, year: Nat, preprint: BOOLEAN, oa: STRING, doi: STRING,
         abstract: Texts, cites: Nat, authors: Lists, status: Statuses]
  BY DEF Publications
<1>2. a \in Lists /\ t \in Texts
  OBVIOUS
<1> HIDE DEF Texts, Lists, Slugs
<1>3. Patch(p, [p EXCEPT !.authors = a])
  BY <1>1, <1>2 DEF Patch, SameKeys
<1>4. Patch(p, [p EXCEPT !.abstract = t])
  BY <1>1, <1>2 DEF Patch, SameKeys
<1>5. Patch(p, [p EXCEPT !.status = s])
  BY <1>1, <1>2 DEF Patch, SameKeys
<1>6. Patch(p, [p EXCEPT !.cites = c, !.abstract = t, !.authors = a])
  BY <1>1, <1>2 DEF Patch, SameKeys
<1>7. Patch(p, [p EXCEPT !.abstract = t, !.cites = c, !.authors = a])
  BY <1>1, <1>2 DEF Patch, SameKeys
<1> QED BY <1>3, <1>4, <1>5, <1>6, <1>7

LEMMA WriteTyping ==
    ASSUME TypeOK, NEW i \in Ids, NEW r, Patch(pub[i], r), Writing(i, r)
    PROVE  /\ pub' \in Seq(Publications) /\ Len(pub') <= MaxRecords /\ Distinct(pub')
           /\ Ids' = Ids /\ pub[i] \in Publications
<1>1. pub \in Seq(Publications) /\ r \in Publications /\ i \in DOMAIN pub
  BY DEF TypeOK, Patch, Ids
<1>2. /\ pub' \in Seq(Publications) /\ Len(pub') = Len(pub) /\ DOMAIN pub' = DOMAIN pub
  BY <1>1, ReplacedIsSeq DEF Writing
<1>3. \A j \in DOMAIN pub' : SameKeys(pub'[j], pub[j])
  BY <1>1 DEF Writing, Patch, SameKeys
<1>4. Distinct(pub')
  <2>1. Distinct(pub)
    BY DEF TypeOK
  <2> SUFFICES ASSUME NEW j \in DOMAIN pub, NEW k \in DOMAIN pub, j # k
               PROVE  /\ pub'[j].slug # pub'[k].slug
                      /\ pub'[j].oa = "" \/ pub'[j].oa # pub'[k].oa
                      /\ pub'[j].doi = "" \/ pub'[j].doi # pub'[k].doi
    BY <1>2 DEF Distinct
  <2>2. SameKeys(pub'[j], pub[j]) /\ SameKeys(pub'[k], pub[k])
    BY <1>2, <1>3
  <2>3. /\ pub[j].slug # pub[k].slug
        /\ pub[j].oa = "" \/ pub[j].oa # pub[k].oa
        /\ pub[j].doi = "" \/ pub[j].doi # pub[k].doi
    BY <2>1 DEF Distinct
  <2> QED BY <2>2, <2>3 DEF SameKeys
<1> QED BY <1>1, <1>2, <1>4 DEF TypeOK, Ids

LEMMA UpdateTyping ==
    ASSUME NEW p \in Publications, NEW w \in WorkRecords \cup Publications
    PROVE  Patch(p, SafeUpdate(p, w))
<1>1. w.abstract \in DOMAIN Length /\ w.cites \in Nat /\ w.authors \in Seq(Rows)
  BY DEF WorkRecords, Publications
<1>2. "rejected" \in Statuses
  BY DEF Statuses
<1> QED BY <1>1, <1>2, PatchTyping DEF SafeUpdate

LEMMA KeepTyping ==
    ASSUME NEW p \in Publications, NEW w \in Publications, NEW l \in Publications
    PROVE  Patch(p, KeepPatched(p, w, l))
<1>1. \A q \in Publications :
        q.abstract \in DOMAIN Length /\ q.cites \in Nat /\ q.authors \in Seq(Rows)
  BY DEF Publications
<1> DEFINE a == MergedAbstract(w, l)
           c == MergedCites(w, l)
           links == MergeAuthorLinks(w.authors, l.authors)
           t1 == IF a = w.abstract THEN p.abstract ELSE a
           c1 == IF c = w.cites THEN p.cites ELSE c
           l1 == IF links = w.authors THEN p.authors ELSE links
<1>2. a \in DOMAIN Length /\ c \in Nat
  BY <1>1 DEF MergedAbstract, MergedCites
<1>3. links \in Seq(Rows)
  BY <1>1, MergedLinksTyping
<1>4. t1 \in DOMAIN Length /\ c1 \in Nat /\ l1 \in Seq(Rows)
  BY <1>1, <1>2, <1>3
<1>5. KeepPatched(p, w, l) = [p EXCEPT !.abstract = t1, !.cites = c1, !.authors = l1]
  BY DEF KeepPatched, Publications
<1>6. "rejected" \in Statuses
  BY DEF Statuses
<1> HIDE DEF a, c, links, t1, c1, l1
<1>7. Patch(p, [p EXCEPT !.abstract = t1, !.cites = c1, !.authors = l1])
  BY <1>4, <1>6, PatchTyping
<1> QED BY <1>5, <1>7

(* TypeOK in parts.                                                        *)
PubOK == pub \in Seq(Publications) /\ Len(pub) <= MaxRecords /\ Distinct(pub)
JobOK(j, ids) ==
    /\ j \in [script: Scripts \cup {"none"}, snap: Seq(Publications), todo: {j.todo},
              alias: Nat \ {0}, keep: ids \cup {None}, park: ids \cup {None},
              touched: SUBSET ids, failed: BOOLEAN]
    /\ j.todo \subseteq IF j.script = "merge" THEN SUBSET ids ELSE ids
IngestOK(g, ids) == g \in [pc: {"off", "find", "write"}, at: DOMAIN Works, hit: ids \cup {None}]
IntoOK(f, ids) == f \in [1..MaxRecords -> ids \cup {None}]
UpsetsOK == upsets \in 0..MaxUpsets

LEMMA TypeParts ==
    /\ TypeOK <=> /\ PubOK /\ JobOK(job, Ids) /\ IngestOK(ingest, Ids) /\ IntoOK(into, Ids)
                  /\ UpsetsOK
    /\ PubOK' /\ JobOK(job', Ids') /\ IngestOK(ingest', Ids') /\ IntoOK(into', Ids')
       /\ UpsetsOK' => TypeOK'
BY DEF TypeOK, PubOK, JobOK, IngestOK, IntoOK, UpsetsOK

LEMMA IdsAreNumbers ==
    ASSUME PubOK
    PROVE  Ids = 1..Len(pub) /\ Len(pub) \in 0..MaxRecords /\ Ids \subseteq Nat \ {0}
           /\ Ids \subseteq 1..MaxRecords
BY CatalogueAssumption DEF PubOK, Ids

LEMMA BlankTyping ==
    ASSUME NEW ids
    PROVE  JobOK(NoJob, ids) /\ IngestOK(NoIngest, ids)
<1>1. 1 \in DOMAIN Works
  BY CatalogueAssumption
<1>2. <<>> \in Seq(Publications)
  OBVIOUS
<1> QED BY <1>1, <1>2 DEF JobOK, IngestOK, NoJob, NoIngest, Scripts, None

LEMMA NextWorkTyping ==
    ASSUME NEW ids, IngestOK(ingest, ids)
    PROVE  IngestOK(NextWork, ids)
<1>1. ingest.at \in DOMAIN Works /\ Works \in Seq(WorkRecords)
  BY CatalogueAssumption DEF IngestOK
<1>2. ingest.at # Len(Works) => ingest.at + 1 \in DOMAIN Works
  BY <1>1
<1> QED BY <1>2, BlankTyping DEF NextWork, IngestOK, None

LEMMA TypeInit == Init => TypeOK
<1> SUFFICES ASSUME Init PROVE TypeOK
  OBVIOUS
<1>1. PubOK
  BY CatalogueAssumption DEF Init, PubOK
<1>2. IntoOK(into, Ids)
  BY DEF Init, IntoOK
<1>3. UpsetsOK
  BY CatalogueAssumption DEF Init, UpsetsOK
<1> QED BY <1>1, <1>2, <1>3, BlankTyping, TypeParts DEF Init

(* A write by a script: the records keep their ids and keys.               *)
LEMMA WritingTyping ==
    ASSUME TypeOK, NEW i \in Ids, NEW r, Patch(pub[i], r), Writing(i, r)
    PROVE  PubOK' /\ Ids' = Ids
BY WriteTyping DEF PubOK

(* The snapshot's records are records, and its ids are ids.                *)
LEMMA EditorTyping ==
    ASSUME TypeOK, Editor
    PROVE  TypeOK'
<1>1. PubOK /\ JobOK(job, Ids) /\ IngestOK(ingest, Ids) /\ IntoOK(into, Ids) /\ UpsetsOK
  BY TypeParts
<1>2. ASSUME NEW i \in Ids, NEW r, Patch(pub[i], r), Edit(i, r),
             into' = into \/ into' = [into EXCEPT ![i] = None]
      PROVE  TypeOK'
  <2>1. PubOK' /\ Ids' = Ids
    BY <1>2, WritingTyping DEF Edit
  <2>2. JobOK(job', Ids)
    BY <1>1, <1>2 DEF Edit, Touch, JobOK
  <2>3. IngestOK(ingest', Ids)
    BY <1>1, <1>2 DEF Edit
  <2>4. IntoOK(into', Ids)
    BY <1>1, <1>2 DEF IntoOK, None
  <2>5. UpsetsOK'
    BY <1>1, <1>2, CatalogueAssumption DEF Edit, Upset, UpsetsOK
  <2> QED BY <2>1, <2>2, <2>3, <2>4, <2>5, TypeParts
<1>3. \A i \in Ids : pub[i] \in Publications
  BY <1>1 DEF PubOK, Ids
<1>4. "rejected" \in Statuses /\ "own" \in DOMAIN Length
  BY CatalogueAssumption DEF Statuses
<1>5. ASSUME NEW i \in Ids, NEW r \in DOMAIN pub[i].authors, NEW m \in Picks, LinkByHand(i, r, m)
      PROVE  TypeOK'
  <2> DEFINE row == pub[i].authors[r]
             new == IF m = None THEN [row EXCEPT !.member = None, !.via = ""]
                    ELSE LinkedTo(row, m, "hand")
             q == [pub[i] EXCEPT !.authors = [pub[i].authors EXCEPT ![r] = new]]
  <2>1. pub[i] \in Publications /\ pub[i].authors \in Seq(Rows) /\ row \in Rows
    BY <1>3 DEF Publications
  <2>2. new \in Rows
    <3>1. CASE m = None
      BY <3>1, <2>1 DEF Rows, Means, None
    <3>2. CASE m # None
      <4>1. m \in Members /\ "hand" \in Means
        BY <3>2, CatalogueAssumption DEF Means
      <4>2. LinkedTo(row, m, "hand") \in Rows
        BY <4>1, <2>1, LinkedTyping
      <4> QED BY <3>2, <4>2
    <3> QED BY <3>1, <3>2
  <2>3. [pub[i].authors EXCEPT ![r] = new] \in Seq(Rows)
    <3> HIDE DEF new
    <3> QED BY <2>1, <2>2, ReplacedIsSeq
  <2>4. Patch(pub[i], q)
    <3> HIDE DEF new
    <3> QED BY <2>1, <2>3, <1>4, PatchTyping DEF Publications
  <2>5. Edit(i, q) /\ into' = into
    BY <1>5, <2>1 DEF LinkByHand, Publications
  <2> QED BY <2>4, <2>5, <1>2
<1>6. ASSUME NEW i \in Ids, RewriteAbstract(i)
      PROVE  TypeOK'
  <2>1. Patch(pub[i], [pub[i] EXCEPT !.abstract = "own"])
    BY <1>3, <1>4, PatchTyping DEF Publications
  <2> QED BY <1>6, <2>1, <1>2 DEF RewriteAbstract
<1>7. ASSUME NEW i \in Ids, NEW s \in {"published", "rejected"}, Decide(i, s)
      PROVE  TypeOK'
  <2>1. s \in Statuses
    BY DEF Statuses
  <2>2. Patch(pub[i], [pub[i] EXCEPT !.status = s])
    BY <1>3, <2>1, PatchTyping DEF Publications
  <2> QED BY <1>7, <2>2, <1>2 DEF Decide
<1> QED BY <1>5, <1>6, <1>7 DEF Editor

LEMMA IdsGrow ==
    ASSUME NEW ids, NEW more, ids \subseteq more, NEW j, NEW g, NEW f
    PROVE  /\ JobOK(j, ids) => JobOK(j, more)
           /\ IngestOK(g, ids) => IngestOK(g, more)
           /\ IntoOK(f, ids) => IntoOK(f, more)
<1>1. JobOK(j, ids) => JobOK(j, more)
  <2> SUFFICES ASSUME JobOK(j, ids) PROVE JobOK(j, more)
    OBVIOUS
  <2>1. j.todo \subseteq IF j.script = "merge" THEN SUBSET more ELSE more
    BY DEF JobOK
  <2> QED BY <2>1 DEF JobOK
<1> QED BY <1>1 DEF IngestOK, IntoOK

LEMMA DraftTyping ==
    ASSUME PubOK, NEW w \in WorkRecords
    PROVE  Draft(w, TitleSlug(w)) \in Publications
<1>1. w.title \in STRING /\ Suffix(w) \in STRING
  BY DEF Suffix, WorkRecords
<1>2. TitleSlug(w) \in Seq(STRING)
  BY <1>1, ShortSeqs DEF TitleSlug
<1>3. "pending_review" \in Statuses
  BY DEF Statuses
<1> QED BY <1>2, <1>3 DEF Draft, WorkRecords, Publications

LEMMA NewestTyping ==
    ASSUME NEW n \in Nat, NEW T, T \subseteq 1..n
    PROVE  Newest(T) \in T \cup {None}
<1>1. CASE T = {}
  BY <1>1 DEF Newest
<1>2. CASE T # {}
  <2>1. T \subseteq 0..n
    OBVIOUS
  <2> QED BY <1>2, <2>1, MaxIsGreatest DEF Newest
<1> QED BY <1>1, <1>2

LEMMA IngestTyping ==
    ASSUME TypeOK, Ingest
    PROVE  TypeOK' /\ Ids \subseteq Ids'
<1>1. PubOK /\ JobOK(job, Ids) /\ IngestOK(ingest, Ids) /\ IntoOK(into, Ids) /\ UpsetsOK
  BY TypeParts
<1>2. ingest.at \in DOMAIN Works /\ Work \in WorkRecords
  BY <1>1, CatalogueAssumption DEF IngestOK, Work
<1>3. CASE IngestStart
  BY <1>1, <1>3, BlankTyping, TypeParts DEF IngestStart, IngestOK, NoIngest, PubOK, UpsetsOK, Ids
<1>4. CASE IngestFind
  <2> DEFINE ids == {i \in Ids : Matches(pub[i], Work)}
  <2>1. Newest(ids) \in Ids \cup {None}
    BY <1>1, IdsAreNumbers, NewestTyping
  <2>2. IngestOK([ingest EXCEPT !.pc = "write", !.hit = Newest(ids)], Ids)
    <3> HIDE DEF ids
    <3> QED BY <1>1, <2>1 DEF IngestOK
  <2>3. IngestOK(ingest', Ids)
    <3>1. CASE SeenBefore
      BY <1>1, <1>4, <3>1, NextWorkTyping DEF IngestFind
    <3>2. CASE ~SeenBefore
      BY <1>4, <2>2, <3>2 DEF IngestFind
    <3> QED BY <3>1, <3>2
  <2> QED BY <1>1, <1>4, <2>3, TypeParts DEF IngestFind, PubOK, UpsetsOK, Ids
<1>5. CASE IngestUpdate
  <2>1. ingest.hit \in Ids
    BY <1>1, <1>5 DEF IngestUpdate, IngestOK
  <2>2. pub[ingest.hit] \in Publications
    BY <1>1, <2>1 DEF PubOK, Ids
  <2>3. PubOK' /\ Ids' = Ids
    BY <1>2, <1>5, <2>1, <2>2, UpdateTyping, WritingTyping DEF IngestUpdate
  <2>4. JobOK(job', Ids)
    BY <1>1, <1>5, <2>1 DEF IngestUpdate, Touch, JobOK
  <2>5. IngestOK(ingest', Ids)
    BY <1>1, <1>5, NextWorkTyping DEF IngestUpdate
  <2> QED BY <1>1, <1>5, <2>3, <2>4, <2>5, TypeParts DEF IngestUpdate, UpsetsOK
<1>6. CASE IngestCreate
  <2> DEFINE d == Draft(Work, TitleSlug(Work))
  <2>1. d \in Publications
    BY <1>1, <1>2, DraftTyping
  <2>2. CASE Distinct(Append(pub, d))
    <3>1. pub' = Append(pub, d) /\ ingest' = NextWork /\ Len(pub) < MaxRecords
      BY <1>6, <2>2 DEF IngestCreate
    <3>2. /\ pub' \in Seq(Publications) /\ Len(pub') = Len(pub) + 1 /\ Len(pub) \in Nat
          /\ DOMAIN pub = 1..Len(pub) /\ DOMAIN pub' = 1..(Len(pub) + 1)
      <4> HIDE DEF d
      <4> QED BY <1>1, <2>1, <3>1 DEF PubOK
    <3>3. PubOK' /\ Ids \subseteq Ids'
      BY <2>2, <3>1, <3>2, CatalogueAssumption DEF PubOK, Ids
    <3>4. JobOK(job', Ids') /\ IngestOK(ingest', Ids') /\ IntoOK(into', Ids')
      BY <1>1, <1>6, <3>1, <3>3, IdsGrow, NextWorkTyping DEF IngestCreate
    <3> QED BY <1>1, <1>6, <3>3, <3>4, TypeParts DEF IngestCreate, UpsetsOK
  <2>3. CASE ~Distinct(Append(pub, d))
    <3>1. pub' = pub /\ ingest' = NoIngest
      BY <1>6, <2>3 DEF IngestCreate
    <3> QED BY <1>1, <1>6, <3>1, BlankTyping, TypeParts DEF IngestCreate, PubOK, UpsetsOK, Ids
  <2> QED BY <2>2, <2>3
<1>7. CASE IngestDies
  <2>1. UpsetsOK'
    BY <1>1, <1>7, CatalogueAssumption DEF IngestDies, Upset, UpsetsOK
  <2> QED BY <1>1, <1>7, <2>1, BlankTyping, TypeParts DEF IngestDies, PubOK, Ids
<1> QED BY <1>3, <1>4, <1>5, <1>6, <1>7 DEF Ingest

----------------------------------------------------------------------------
(* Pairs of duplicates: two records, and one of them outranks the other.   *)
LEMMA GroupIsTitled ==
    ASSUME NEW S, NEW g \in Pairs(S), NEW i \in g
    PROVE  g = Group(S, S[i].title) /\ i \in DOMAIN S /\ IsDedupeCandidate(S[i])
BY DEF Pairs, Group

LEMMA PairsAreTwo ==
    ASSUME NEW S \in Seq(Publications), NEW g \in Pairs(S)
    PROVE  g \subseteq DOMAIN S /\ \E i, j \in g : i # j /\ g = {i, j}
<1>1. PICK k \in DOMAIN S : g = Group(S, S[k].title) /\ Cardinality(g) = 2
  BY DEF Pairs
<1>2. g \subseteq DOMAIN S
  BY <1>1 DEF Group
<1>3. IsFiniteSet(g)
  <2>1. DOMAIN S = 1..Len(S) /\ Len(S) \in Nat
    OBVIOUS
  <2>2. IsFiniteSet(1..Len(S))
    BY <2>1, FS_Interval
  <2> QED BY <1>2, <2>1, <2>2, FS_Subset
<1> QED BY <1>1, <1>2, <1>3, TwoOfThem

(* Of two different lists of five scores one outranks the other, and the   *)
(* other does not outrank it.                                              *)
LEMMA OneOutranks ==
    ASSUME NEW s, NEW t, DOMAIN s = 1..5, DOMAIN t = 1..5,
           \A k \in 1..5 : s[k] \in Int /\ t[k] \in Int, s[5] # t[5]
    PROVE  Outranks(s, t) <=> ~Outranks(t, s)
<1> DEFINE D == {k \in 1..5 : s[k] # t[k]}
<1>1. D \subseteq Nat /\ D # {}
  OBVIOUS
<1>2. PICK k \in D : \A l \in D : k <= l
  <2> HIDE DEF D
  <2> QED BY <1>1, LeastNatural
<1>3. k \in 1..5 /\ s[k] # t[k] /\ \A l \in 1..(k - 1) : s[l] = t[l]
  BY <1>2
<1> HIDE DEF D
<1>4. CASE s[k] > t[k]
  <2>1. Outranks(s, t)
    BY <1>3, <1>4 DEF Outranks
  <2>2. ~Outranks(t, s)
    BY <1>3, <1>4 DEF Outranks
  <2> QED BY <2>1, <2>2
<1>5. CASE t[k] > s[k]
  <2>1. Outranks(t, s)
    BY <1>3, <1>5 DEF Outranks
  <2>2. ~Outranks(s, t)
    BY <1>3, <1>5 DEF Outranks
  <2> QED BY <2>1, <2>2
<1>6. s[k] > t[k] \/ t[k] > s[k]
  BY <1>3
<1> QED BY <1>4, <1>5, <1>6

(* Which of two records a merge keeps does not depend on the order in      *)
(* which it is given them: pickWinner, whose tests end with the id.        *)
THEOREM WinnerIsDecided ==
    ASSUME NEW S \in Seq(Publications), NEW i \in DOMAIN S, NEW j \in DOMAIN S, i # j
    PROVE  PickWinner(i, j, S) = PickWinner(j, i, S) /\ PickWinner(i, j, S) \in {i, j}
<1> DEFINE s == Scores(i, S[i])
           t == Scores(j, S[j])
<1>1. S[i] \in Publications /\ S[j] \in Publications /\ i \in Int /\ j \in Int
  OBVIOUS
<1>2. \A p \in Publications : p.cites \in Nat /\ Length[p.abstract] \in Nat
  BY CatalogueAssumption DEF Publications
<1>3. /\ DOMAIN s = 1..5 /\ DOMAIN t = 1..5
      /\ \A k \in 1..5 : s[k] \in Int /\ t[k] \in Int
      /\ s[5] # t[5]
  BY <1>1, <1>2 DEF Scores
<1>4. PickWinner(i, j, S) = (IF Outranks(s, t) THEN i ELSE j)
      /\ PickWinner(j, i, S) = (IF Outranks(t, s) THEN j ELSE i)
  BY DEF PickWinner
<1> HIDE DEF s, t
<1>5. Outranks(s, t) <=> ~Outranks(t, s)
  BY <1>3, OneOutranks
<1> QED BY <1>4, <1>5

----------------------------------------------------------------------------
(* A script's plan: what it has still to write comes from its listing, and *)
(* a merge has at most one pair in hand, one no longer to do.              *)
Listed ==
    /\ DOMAIN job.snap \subseteq Ids
    /\ job.script \in {"link", "alias"} => job.todo \subseteq DOMAIN job.snap
    /\ job.script = "alias" /\ job.todo # {} =>
        job.alias \in DOMAIN Aliases /\ MemberNamed(Aliases[job.alias].member) # None
    /\ job.script = "merge" => job.todo \subseteq DuplicatePairs(job.snap)
    /\ job.keep # None =>
        /\ job.script = "merge" /\ job.keep # job.park
        /\ {job.keep, job.park} \in DuplicatePairs(job.snap) \ job.todo

LEMMA NothingListed ==
    ASSUME job' = NoJob, NEW ids, Ids' = ids
    PROVE  Listed'
BY DEF Listed, NoJob, None

(* Whoever leaves the script alone leaves its plan alone.                  *)
LEMMA PlanStands ==
    ASSUME Listed, Ids \subseteq Ids',
           job' = job \/ (\E i : Touch(i)), TypeOK
    PROVE  Listed'
<1>1. /\ job'.snap = job.snap /\ job'.script = job.script /\ job'.todo = job.todo
      /\ job'.alias = job.alias /\ job'.keep = job.keep /\ job'.park = job.park
  BY DEF Touch, TypeOK
<1> QED BY <1>1 DEF Listed

LEMMA StartTyping ==
    ASSUME TypeOK, NEW s \in Scripts, Start(s)
    PROVE  TypeOK' /\ Listed' /\ Ids' = Ids
<1>1. PubOK /\ JobOK(job, Ids) /\ IngestOK(ingest, Ids) /\ IntoOK(into, Ids) /\ UpsetsOK
  BY TypeParts
<1> DEFINE todo == CASE s = "link" -> Ids
                     [] s = "alias" -> {}
                     [] s = "merge" -> DuplicatePairs(pub)
<1>2. /\ job' = [NoJob EXCEPT !.script = s, !.snap = pub, !.todo = todo]
      /\ pub' = pub /\ ingest' = ingest /\ into' = into /\ upsets' = upsets
  BY DEF Start
<1>3. /\ job'.script = s /\ job'.snap = pub /\ job'.todo = todo /\ job'.keep = None
      /\ job'.park = None /\ job'.touched = {} /\ job'.alias = 1 /\ job'.failed = FALSE
  BY <1>2 DEF NoJob
<1>4. /\ s = "link" => todo = Ids
      /\ s = "alias" => todo = {}
      /\ s = "merge" => todo = DuplicatePairs(pub)
  BY DEF Scripts
<1>5. DuplicatePairs(pub) \subseteq SUBSET Ids
  BY <1>1, PairsAreTwo DEF DuplicatePairs, PubOK, Ids
<1> HIDE DEF todo
<1>6. JobOK(job', Ids)
  <2>1. todo \subseteq IF s = "merge" THEN SUBSET Ids ELSE Ids
    BY <1>4, <1>5 DEF Scripts
  <2>2. pub \in Seq(Publications)
    BY <1>1 DEF PubOK
  <2>3. job' = [script |-> s, snap |-> pub, todo |-> todo, alias |-> 1, keep |-> None,
                park |-> None, touched |-> {}, failed |-> FALSE]
    BY <1>2 DEF NoJob
  <2> QED BY <2>1, <2>2, <2>3 DEF JobOK
<1>7. Listed'
  BY <1>2, <1>3, <1>4 DEF Listed, Ids, Scripts
<1> QED BY <1>1, <1>2, <1>6, <1>7, TypeParts DEF PubOK, UpsetsOK, Ids

(* What the scripts write patches the record.                              *)
LEMMA LinkWrites ==
    ASSUME TypeOK, Listed, LinkRecord
    PROVE  \E i \in job.todo :
             /\ i \in DOMAIN job.snap /\ i \in Ids
             /\ job' = [job EXCEPT !.todo = @ \ {i}]
             /\ \/ pub' = pub
                \/ LET next == LinkAuthors(job.snap[i].authors)
                       r == [pub[i] EXCEPT !.authors = next] IN
                   Patch(pub[i], r) /\ Writing(i, r)
<1> DEFINE i == Max(job.todo)
<1>1. PubOK /\ JobOK(job, Ids)
  BY TypeParts
<1>2. job.todo \subseteq 0..Len(pub) /\ Len(pub) \in Nat /\ job.todo # {}
  BY <1>1, IdsAreNumbers DEF LinkRecord, JobOK
<1>3. i \in job.todo
  BY <1>2, MaxIsGreatest
<1>4. i \in DOMAIN job.snap /\ i \in Ids
  BY <1>3 DEF Listed, LinkRecord
<1>5. pub[i] \in Publications /\ job.snap[i] \in Publications
  BY <1>1, <1>4 DEF PubOK, Ids, JobOK
<1>6. LinkAuthors(job.snap[i].authors) \in Seq(Rows)
  BY <1>5, LinkTyping DEF Publications
<1>7. Patch(pub[i], [pub[i] EXCEPT !.authors = LinkAuthors(job.snap[i].authors)])
  <2>1. pub[i].abstract \in DOMAIN Length /\ pub[i].cites \in Nat /\ pub[i].status \in Statuses
    BY <1>5 DEF Publications
  <2> HIDE DEF i
  <2> QED BY <1>5, <1>6, <2>1, PatchTyping
<1> QED BY <1>3, <1>4, <1>7 DEF LinkRecord

LEMMA AliasWrites ==
    ASSUME TypeOK, Listed, AliasWrite
    PROVE  \E i \in job.todo :
             /\ i \in DOMAIN job.snap /\ i \in Ids /\ job.alias \in DOMAIN Aliases
             /\ job' = [job EXCEPT !.todo = @ \ {i},
                                   !.alias = IF job.todo = {i} THEN @ + 1 ELSE @]
             /\ \/ pub' = pub
                \/ LET a == Aliases[job.alias]
                       next == LinkAliasInAuthors(job.snap[i].authors, a.alias, MemberNamed(a.member))
                       r == [pub[i] EXCEPT !.authors = next] IN
                   Patch(pub[i], r) /\ Writing(i, r)
<1> DEFINE i == Max(job.todo)
           a == Aliases[job.alias]
           next == LinkAliasInAuthors(job.snap[i].authors, a.alias, MemberNamed(a.member))
<1>1. PubOK /\ JobOK(job, Ids)
  BY TypeParts
<1>2. job.todo \subseteq 0..Len(pub) /\ Len(pub) \in Nat /\ job.todo # {}
  BY <1>1, IdsAreNumbers DEF AliasWrite, JobOK
<1>3. i \in job.todo
  BY <1>2, MaxIsGreatest
<1>4. i \in DOMAIN job.snap /\ i \in Ids /\ job.alias \in DOMAIN Aliases
  BY <1>3 DEF Listed, AliasWrite
<1>5. pub[i] \in Publications /\ job.snap[i] \in Publications
  BY <1>1, <1>4 DEF PubOK, Ids, JobOK
<1>6. MemberNamed(a.member) \in Members
  BY <1>2, MatchTyping DEF Listed, AliasWrite
<1>7. next \in Seq(Rows)
  BY <1>5, <1>6, AliasTyping DEF Publications
<1>8. Patch(pub[i], [pub[i] EXCEPT !.authors = next])
  <2>1. pub[i].abstract \in DOMAIN Length /\ pub[i].cites \in Nat /\ pub[i].status \in Statuses
    BY <1>5 DEF Publications
  <2> HIDE DEF i, next
  <2> QED BY <1>5, <1>7, <2>1, PatchTyping
<1> QED BY <1>3, <1>4, <1>8 DEF AliasWrite

LEMMA MergeWrites ==
    ASSUME TypeOK, Listed, MergeKeep
    PROVE  \E g \in job.todo : \E w, l \in g :
             /\ g \in DuplicatePairs(job.snap) /\ g = {w, l} /\ w # l
             /\ g \subseteq DOMAIN job.snap /\ g \subseteq Ids
             /\ job' = [job EXCEPT !.todo = @ \ {g}, !.keep = w, !.park = l]
             /\ LET r == KeepPatched(pub[w], job.snap[w], job.snap[l]) IN
                Patch(pub[w], r) /\ Writing(w, r)
<1>1. PubOK /\ JobOK(job, Ids)
  BY TypeParts
<1>2. PICK g \in job.todo : \E w, l \in g :
        /\ w # l
        /\ job' = [job EXCEPT !.todo = @ \ {g}, !.keep = w, !.park = l]
        /\ Writing(w, KeepPatched(pub[w], job.snap[w], job.snap[l]))
  BY DEF MergeKeep
<1>3. PICK w, l \in g :
        /\ w # l
        /\ job' = [job EXCEPT !.todo = @ \ {g}, !.keep = w, !.park = l]
        /\ Writing(w, KeepPatched(pub[w], job.snap[w], job.snap[l]))
  BY <1>2
<1>4. g \in DuplicatePairs(job.snap) /\ g \in Pairs(job.snap)
  BY DEF Listed, MergeKeep, DuplicatePairs
<1>5. job.snap \in Seq(Publications)
  BY <1>1 DEF JobOK
<1>6. g \subseteq DOMAIN job.snap /\ g \subseteq Ids /\ g = {w, l}
  BY <1>3, <1>4, <1>5, PairsAreTwo DEF Listed
<1>7. pub[w] \in Publications /\ job.snap[w] \in Publications /\ job.snap[l] \in Publications
  BY <1>1, <1>5, <1>6 DEF PubOK, Ids
<1> QED BY <1>3, <1>4, <1>6, <1>7, KeepTyping

(* A job that has only less to do, or none at all, is as well formed.      *)
LEMMA LessToDo ==
    ASSUME TypeOK, Listed, NEW x, NEW n \in Nat \ {0},
           NEW todo, todo = job.todo \ {x}, todo # {} => n = job.alias,
           job' = [job EXCEPT !.todo = todo, !.alias = n],
           job.keep = None, Ids' = Ids
    PROVE  JobOK(job', Ids) /\ Listed'
<1>1. JobOK(job, Ids)
  BY TypeParts
<1>2. /\ job'.snap = job.snap /\ job'.script = job.script /\ job'.todo = todo
      /\ job'.alias = n /\ job'.keep = None
  BY <1>1 DEF JobOK
<1>3. JobOK(job', Ids)
  <2>1. todo \subseteq IF job.script = "merge" THEN SUBSET Ids ELSE Ids
    BY <1>1 DEF JobOK
  <2> QED BY <1>1, <1>2, <2>1 DEF JobOK
<1>4. Listed'
  BY <1>2 DEF Listed
<1> QED BY <1>3, <1>4

LEMMA ScriptTyping ==
    ASSUME TypeOK, Listed, Script
    PROVE  TypeOK' /\ Listed' /\ Ids' = Ids
<1>1. PubOK /\ JobOK(job, Ids) /\ IngestOK(ingest, Ids) /\ IntoOK(into, Ids) /\ UpsetsOK
  BY TypeParts
<1>2. CASE LinkRecord
  <2>1. PICK i \in job.todo :
          /\ i \in Ids /\ job' = [job EXCEPT !.todo = @ \ {i}]
          /\ pub' = pub \/ \E r : Patch(pub[i], r) /\ Writing(i, r)
    BY <1>2, LinkWrites
  <2>2. PubOK' /\ Ids' = Ids
    BY <1>1, <2>1, WritingTyping DEF PubOK, Ids
  <2>3. JobOK(job', Ids) /\ Listed'
    <3>1. job' = [job EXCEPT !.todo = job.todo \ {i}, !.alias = job.alias]
      BY <1>1, <2>1 DEF JobOK
    <3>2. job.alias \in Nat \ {0} /\ job.keep = None
      BY <1>1, <1>2 DEF JobOK, Listed, LinkRecord
    <3> QED BY <2>2, <3>1, <3>2, LessToDo
  <2> QED BY <1>1, <1>2, <2>2, <2>3, TypeParts DEF LinkRecord, UpsetsOK
<1>3. CASE AliasFind
  <2> DEFINE a == Aliases[job.alias]
             hits == {i \in Ids : \E r \in DOMAIN pub[i].authors : pub[i].authors[r].name = a.alias}
  <2>1. \/ job' = [job EXCEPT !.alias = @ + 1]
        \/ /\ MemberNamed(a.member) # None
           /\ job' = [job EXCEPT !.snap = pub, !.todo = hits, !.touched = {}]
    BY <1>3 DEF AliasFind
  <2>2. job.script = "alias" /\ job.todo = {} /\ job.alias \in DOMAIN Aliases
    BY <1>1, <1>3, CatalogueAssumption DEF AliasFind, JobOK
  <2>3. hits \subseteq Ids
    OBVIOUS
  <2>4. pub' = pub /\ ingest' = ingest /\ into' = into /\ upsets' = upsets /\ Ids' = Ids
    BY <1>3 DEF AliasFind, Ids
  <2> HIDE DEF hits
  <2>5. JobOK(job', Ids)
    <3>1. CASE job' = [job EXCEPT !.alias = @ + 1]
      BY <1>1, <3>1 DEF JobOK
    <3>2. CASE job' = [job EXCEPT !.snap = pub, !.todo = hits, !.touched = {}]
      BY <1>1, <2>2, <2>3, <3>2 DEF JobOK, PubOK
    <3> QED BY <2>1, <3>1, <3>2
  <2>6. Listed'
    <3>1. CASE job' = [job EXCEPT !.alias = @ + 1]
      BY <1>1, <2>2, <2>4, <3>1 DEF Listed, JobOK
    <3>2. CASE /\ MemberNamed(a.member) # None
               /\ job' = [job EXCEPT !.snap = pub, !.todo = hits, !.touched = {}]
      <4>1. /\ job'.snap = pub /\ job'.todo = hits /\ job'.keep = job.keep
            /\ job'.alias = job.alias /\ job'.script = "alias"
        BY <1>1, <2>2, <3>2 DEF JobOK
      <4>2. job.keep = None
        BY <2>2 DEF Listed
      <4> QED BY <2>2, <2>3, <2>4, <3>2, <4>1, <4>2 DEF Listed, Ids
    <3> QED BY <2>1, <3>1, <3>2
  <2> QED BY <1>1, <2>4, <2>5, <2>6, TypeParts DEF PubOK, UpsetsOK
<1>4. CASE AliasWrite
  <2>1. PICK i \in job.todo :
          /\ i \in Ids
          /\ job' = [job EXCEPT !.todo = @ \ {i}, !.alias = IF job.todo = {i} THEN @ + 1 ELSE @]
          /\ pub' = pub \/ \E r : Patch(pub[i], r) /\ Writing(i, r)
    BY <1>4, AliasWrites
  <2>2. PubOK' /\ Ids' = Ids
    BY <1>1, <2>1, WritingTyping DEF PubOK, Ids
  <2>3. JobOK(job', Ids) /\ Listed'
    <3> DEFINE n == IF job.todo = {i} THEN job.alias + 1 ELSE job.alias
               todo == job.todo \ {i}
    <3>1. job' = [job EXCEPT !.todo = todo, !.alias = n]
      BY <1>1, <2>1 DEF JobOK
    <3>2. n \in Nat \ {0} /\ job.keep = None /\ (todo # {} => n = job.alias)
      BY <1>1, <1>4, <2>1 DEF JobOK, Listed, AliasWrite
    <3> HIDE DEF n
    <3> QED BY <2>2, <3>1, <3>2, LessToDo
  <2> QED BY <1>1, <1>4, <2>2, <2>3, TypeParts DEF AliasWrite, UpsetsOK
<1>5. CASE MergeKeep
  <2>1. PICK g \in job.todo : \E w, l \in g :
             /\ g \in DuplicatePairs(job.snap) /\ g = {w, l} /\ w # l /\ g \subseteq Ids
             /\ job' = [job EXCEPT !.todo = @ \ {g}, !.keep = w, !.park = l]
             /\ \E r : Patch(pub[w], r) /\ Writing(w, r)
    BY <1>5, MergeWrites
  <2>2. PICK w, l \in g :
             /\ g \in DuplicatePairs(job.snap) /\ g = {w, l} /\ w # l /\ g \subseteq Ids
             /\ job' = [job EXCEPT !.todo = @ \ {g}, !.keep = w, !.park = l]
             /\ \E r : Patch(pub[w], r) /\ Writing(w, r)
    BY <2>1
  <2>3. PubOK' /\ Ids' = Ids
    BY <2>2, WritingTyping
  <2>4. /\ job'.snap = job.snap /\ job'.script = job.script /\ job'.todo = job.todo \ {g}
        /\ job'.keep = w /\ job'.park = l /\ job'.alias = job.alias
    BY <1>1, <2>2 DEF JobOK
  <2>5. JobOK(job', Ids)
    <3>1. job.todo \ {g} \subseteq IF job.script = "merge" THEN SUBSET Ids ELSE Ids
      BY <1>1 DEF JobOK
    <3> QED BY <1>1, <2>2, <2>4, <3>1 DEF JobOK
  <2>6. Listed'
    BY <1>5, <2>2, <2>3, <2>4 DEF Listed, MergeKeep
  <2> QED BY <1>1, <1>5, <2>3, <2>5, <2>6, TypeParts DEF MergeKeep, UpsetsOK
<1>6. CASE MergePark
  <2>1. /\ job' = [job EXCEPT !.keep = None, !.park = None]
        /\ Writing(job.park, [pub[job.park] EXCEPT !.status = "rejected"])
        /\ into' = [into EXCEPT ![job.park] = job.keep]
        /\ job.keep # None /\ ingest' = ingest /\ upsets' = upsets
    BY <1>6 DEF MergePark
  <2>2. job.park \in Ids /\ job.keep \in Ids
    <3>1. {job.keep, job.park} \in Pairs(job.snap) /\ job.snap \in Seq(Publications)
      BY <1>1, <2>1 DEF Listed, DuplicatePairs, JobOK
    <3>2. {job.keep, job.park} \subseteq DOMAIN job.snap
      BY <3>1, PairsAreTwo
    <3> QED BY <3>2 DEF Listed
  <2>3. "rejected" \in Statuses
    BY DEF Statuses
  <2>4. pub[job.park] \in Publications
    BY <1>1, <2>2 DEF PubOK, Ids
  <2>5. Patch(pub[job.park], [pub[job.park] EXCEPT !.status = "rejected"])
    BY <2>3, <2>4, PatchTyping DEF Publications
  <2>6. PubOK' /\ Ids' = Ids
    BY <2>1, <2>2, <2>5, WritingTyping
  <2>7. JobOK(job', Ids)
    BY <1>1, <2>1 DEF JobOK
  <2>8. Listed'
    BY <1>1, <2>1, <2>6 DEF Listed, JobOK
  <2>9. IntoOK(into', Ids)
    BY <1>1, <2>1, <2>2 DEF IntoOK
  <2> QED BY <1>1, <2>1, <2>6, <2>7, <2>8, <2>9, TypeParts DEF UpsetsOK
<1>7. CASE Finish
  BY <1>1, <1>7, BlankTyping, NothingListed, TypeParts DEF Finish, PubOK, UpsetsOK, Ids
<1>8. CASE ScriptDies
  <2>1. UpsetsOK'
    BY <1>1, <1>8, CatalogueAssumption DEF ScriptDies, Upset, UpsetsOK
  <2> QED BY <1>1, <1>8, <2>1, BlankTyping, NothingListed, TypeParts DEF ScriptDies, PubOK, Ids
<1>9. CASE WriteFails
  <2>0. upsets < MaxUpsets /\ upsets' = upsets + 1
    BY <1>9 DEF WriteFails, Upset
  <2>1. UpsetsOK' /\ pub' = pub /\ ingest' = ingest /\ into' = into /\ Ids' = Ids
    <3>1. UpsetsOK'
      BY <1>1, <2>0, CatalogueAssumption DEF UpsetsOK
    <3> QED BY <1>9, <3>1 DEF WriteFails, Ids
  <2>2. \/ job' = [job EXCEPT !.keep = None, !.park = None, !.failed = TRUE]
        \/ job.keep = None /\ \E x \in job.todo : job' = [job EXCEPT !.todo = @ \ {x}, !.failed = TRUE]
    BY <1>9 DEF WriteFails
  <2>3. CASE job' = [job EXCEPT !.keep = None, !.park = None, !.failed = TRUE]
    <3>1. JobOK(job', Ids) /\ Listed'
      BY <1>1, <2>1, <2>3 DEF JobOK, Listed
    <3> QED BY <1>1, <2>1, <3>1, TypeParts DEF PubOK
  <2>4. CASE job.keep = None /\ \E x \in job.todo : job' = [job EXCEPT !.todo = @ \ {x}, !.failed = TRUE]
    <3>1. PICK x \in job.todo : job' = [job EXCEPT !.todo = @ \ {x}, !.failed = TRUE]
      BY <2>4
    <3>2. /\ job'.todo = job.todo \ {x} /\ job'.snap = job.snap /\ job'.script = job.script
          /\ job'.keep = None /\ job'.alias = job.alias
      BY <1>1, <2>4, <3>1 DEF JobOK
    <3>3. JobOK(job', Ids)
      <4>1. job.todo \ {x} \subseteq IF job.script = "merge" THEN SUBSET Ids ELSE Ids
        BY <1>1 DEF JobOK
      <4> QED BY <1>1, <3>1, <3>2, <4>1 DEF JobOK
    <3>4. Listed'
      BY <2>1, <3>2 DEF Listed
    <3> QED BY <1>1, <2>1, <3>3, <3>4, TypeParts DEF PubOK
  <2> QED BY <2>2, <2>3, <2>4
<1> QED BY <1>2, <1>3, <1>4, <1>5, <1>6, <1>7, <1>8, <1>9 DEF Script

LEMMA Steps ==
    ASSUME TypeOK, Listed, [Next]_vars
    PROVE  TypeOK' /\ Listed' /\ Ids \subseteq Ids'
<1>1. ASSUME NEW s \in Scripts, Start(s)
      PROVE  TypeOK' /\ Listed' /\ Ids \subseteq Ids'
  BY <1>1, StartTyping
<1>2. CASE Script
  BY <1>2, ScriptTyping
<1>3. CASE Ingest
  <2>1. job' = job \/ \E i : Touch(i)
    BY <1>3 DEF Ingest, IngestStart, IngestFind, IngestUpdate, IngestCreate, IngestDies
  <2> QED BY <1>3, <2>1, IngestTyping, PlanStands
<1>4. CASE Editor
  <2>1. PICK i, r : i \in Ids /\ Edit(i, r)
    BY <1>4 DEF Editor, LinkByHand, RewriteAbstract, Decide
  <2>2. Touch(i) /\ Ids' = Ids
    BY <2>1 DEF Edit, Writing, Ids, TypeOK
  <2> QED BY <1>4, <2>2, EditorTyping, PlanStands
<1>5. CASE UNCHANGED vars
  BY <1>5, TypeParts DEF vars, Listed, PubOK, UpsetsOK, Ids
<1> QED BY <1>1, <1>2, <1>3, <1>4, <1>5 DEF Next

(* Every variable of the catalogue keeps its type, and no two records share *)
(* a slug, an OpenAlex id or a DOI: for any list of records, works and      *)
(* members and any number of upsets.                                        *)
THEOREM TypeCorrect == Spec => []TypeOK
<1>1. Init => TypeOK /\ Listed
  BY TypeInit DEF Init, NoJob, Listed, None
<1>2. TypeOK /\ Listed /\ [Next]_vars => (TypeOK /\ Listed)'
  BY Steps
<1> QED BY <1>1, <1>2, PTL DEF Spec

----------------------------------------------------------------------------
(* Merges.  A status moves only when a pair is parked or an editor decides. *)
StatusStands(i) == pub'[i].status = pub[i].status

LEMMA StatusMoves ==
    ASSUME TypeOK, Listed, [Next]_vars
    PROVE  \/ MergePark
           \/ \E i \in Ids, s \in {"published", "rejected"} : Decide(i, s)
           \/ into' = into /\ \A i \in Ids : StatusStands(i)
<1>1. PubOK /\ JobOK(job, Ids) /\ IngestOK(ingest, Ids)
  BY TypeParts
<1>2. \A i \in Ids : pub[i] \in Publications
  BY <1>1 DEF PubOK, Ids
<1>3. ASSUME NEW i \in Ids, NEW r, Writing(i, r), r.status = pub[i].status
      PROVE  \A j \in Ids : StatusStands(j)
  BY <1>1, <1>3 DEF Writing, StatusStands, Ids, PubOK
<1>4. \A p \in Publications : \A a : [p EXCEPT !.authors = a].status = p.status
  BY DEF Publications
<1>5. CASE LinkRecord
  <2>1. into' = into
    BY <1>5 DEF LinkRecord
  <2>2. PICK i \in Ids : pub' = pub \/ \E a : Writing(i, [pub[i] EXCEPT !.authors = a])
    BY <1>5, LinkWrites
  <2> QED BY <1>2, <1>3, <1>4, <2>1, <2>2 DEF StatusStands
<1>6. CASE AliasWrite
  <2>1. into' = into
    BY <1>6 DEF AliasWrite
  <2>2. PICK i \in Ids : pub' = pub \/ \E a : Writing(i, [pub[i] EXCEPT !.authors = a])
    BY <1>6, AliasWrites
  <2> QED BY <1>2, <1>3, <1>4, <2>1, <2>2 DEF StatusStands
<1>7. CASE MergeKeep
  <2>1. into' = into
    BY <1>7 DEF MergeKeep
  <2>2. PICK w, l : w \in Ids /\ Writing(w, KeepPatched(pub[w], job.snap[w], job.snap[l]))
    BY <1>7, MergeWrites
  <2>3. KeepPatched(pub[w], job.snap[w], job.snap[l]).status = pub[w].status
    BY <1>2 DEF KeepPatched, Publications
  <2> QED BY <1>3, <2>1, <2>2, <2>3
<1>8. CASE IngestUpdate
  <2>1. ingest.hit \in Ids
    BY <1>1, <1>8 DEF IngestUpdate, IngestOK
  <2>2. SafeUpdate(pub[ingest.hit], Work).status = pub[ingest.hit].status
    BY <1>2, <2>1 DEF SafeUpdate, Publications
  <2> QED BY <1>3, <1>8, <2>1, <2>2 DEF IngestUpdate
<1>9. CASE IngestCreate
  BY <1>1, <1>9 DEF IngestCreate, StatusStands, Ids, PubOK
<1>10. ASSUME NEW i \in Ids, NEW r \in DOMAIN pub[i].authors, NEW m \in Picks, LinkByHand(i, r, m)
       PROVE  into' = into /\ \A j \in Ids : StatusStands(j)
  <2>1. PICK q : Writing(i, q) /\ q.status = pub[i].status
    BY <1>2, <1>10 DEF LinkByHand, Edit, Publications
  <2> QED BY <1>3, <1>10, <2>1 DEF LinkByHand
<1>11. ASSUME NEW i \in Ids, RewriteAbstract(i)
       PROVE  into' = into /\ \A j \in Ids : StatusStands(j)
  <2>1. PICK q : Writing(i, q) /\ q.status = pub[i].status
    BY <1>2, <1>11 DEF RewriteAbstract, Edit, Publications
  <2> QED BY <1>3, <1>11, <2>1 DEF RewriteAbstract
<1>12. CASE UNCHANGED <<pub, into>>
  BY <1>12 DEF StatusStands
<1>13. CASE Editor
  BY <1>10, <1>11, <1>13 DEF Editor
<1>14. CASE \/ \E s \in Scripts : Start(s)
            \/ AliasFind \/ Finish \/ WriteFails \/ ScriptDies
            \/ IngestStart \/ IngestFind \/ IngestDies \/ UNCHANGED vars
  BY <1>12, <1>14 DEF Start, AliasFind, Finish, WriteFails, ScriptDies,
                      IngestStart, IngestFind, IngestDies, vars
<1>15. CASE Script
  BY <1>5, <1>6, <1>7, <1>14, <1>15 DEF Script
<1>16. CASE Ingest
  BY <1>8, <1>9, <1>14, <1>16 DEF Ingest
<1> QED
  BY <1>13, <1>14, <1>15, <1>16 DEF Next

(* What a merge parked is rejected and stays so until an editor decides;   *)
(* and no record of a pair still to merge has been merged away.            *)
Parked == \A i \in 1..MaxRecords : into[i] # None => i \in Ids /\ pub[i].status = "rejected"
InHand(j) == IF j.keep = None THEN {} ELSE {{j.keep, j.park}}
Waiting(j) == j.script = "merge" => \A g \in j.todo \cup InHand(j) : \A i \in g : into[i] = None
MergeInv == TypeOK /\ Listed /\ Parked /\ Waiting(job) /\ MergesEndInARecord

(* Pairs come to a merge's hands from its own listing only.                *)
LEMMA TodoShrinks ==
    ASSUME TypeOK, Listed, [Next]_vars, job'.script = "merge"
    PROVE  \/ job.script = "merge" /\ job'.todo \cup InHand(job') \subseteq job.todo \cup InHand(job)
           \/ job'.todo \cup InHand(job') = DuplicatePairs(pub)
<1>1. JobOK(job, Ids)
  BY TypeParts
<1>2. ASSUME NEW s \in Scripts, Start(s)
      PROVE  job'.todo \cup InHand(job') = DuplicatePairs(pub)
  <2> DEFINE todo == CASE s = "link" -> Ids
                       [] s = "alias" -> {}
                       [] s = "merge" -> DuplicatePairs(pub)
  <2>1. job'.script = s /\ job'.keep = None /\ job'.todo = todo
    BY <1>2 DEF Start, NoJob
  <2>2. s = "merge"
    BY <2>1
  <2>3. todo = DuplicatePairs(pub)
    BY <2>2
  <2> QED BY <2>1, <2>3 DEF InHand
<1>3. CASE MergeKeep
  <2>1. PICK g \in job.todo : \E w, l \in g :
          g = {w, l} /\ job' = [job EXCEPT !.todo = @ \ {g}, !.keep = w, !.park = l]
    BY <1>3, MergeWrites
  <2>2. PICK w, l \in g :
          g = {w, l} /\ job' = [job EXCEPT !.todo = @ \ {g}, !.keep = w, !.park = l]
    BY <2>1
  <2>3. job'.todo = job.todo \ {g} /\ job'.keep = w /\ job'.park = l
    BY <1>1, <2>2 DEF JobOK
  <2> QED BY <1>3, <2>2, <2>3 DEF InHand, MergeKeep
<1>4. CASE LinkRecord \/ AliasFind \/ AliasWrite
  BY <1>1, <1>4 DEF LinkRecord, AliasFind, AliasWrite, JobOK
<1>5. CASE MergePark
  BY <1>1, <1>5 DEF MergePark, JobOK, InHand
<1>6. CASE Finish \/ ScriptDies
  BY <1>6 DEF Finish, ScriptDies, NoJob
<1>7. CASE WriteFails
  <2>1. job'.script = job.script /\ job'.todo \subseteq job.todo
        /\ job'.keep \in {None, job.keep} /\ job'.park \in {None, job.park}
        /\ (job'.keep = job.keep => job'.park = job.park \/ job.keep = None)
    BY <1>1, <1>7 DEF WriteFails, JobOK
  <2> QED BY <2>1 DEF InHand
<1>8. CASE job' = job \/ \E i : Touch(i)
  <2>1. job'.script = job.script /\ job'.todo = job.todo /\ job'.keep = job.keep /\ job'.park = job.park
    BY <1>1, <1>8 DEF Touch, JobOK
  <2> QED BY <2>1 DEF InHand
<1>9. CASE Script
  BY <1>3, <1>4, <1>5, <1>6, <1>7, <1>9 DEF Script
<1>10. CASE Ingest
  BY <1>8, <1>10 DEF Ingest, IngestStart, IngestFind, IngestUpdate, IngestCreate, IngestDies
<1>11. CASE Editor
  BY <1>8, <1>11 DEF Editor, LinkByHand, RewriteAbstract, Decide, Edit
<1> QED BY <1>2, <1>8, <1>9, <1>10, <1>11 DEF Next, vars

LEMMA MergeStep ==
    ASSUME MergeInv, [Next]_vars
    PROVE  MergeInv'
<1>1. PubOK /\ JobOK(job, Ids) /\ IntoOK(into, Ids)
  BY TypeParts DEF MergeInv
<1>2. TypeOK' /\ Listed' /\ Ids \subseteq Ids'
  BY Steps DEF MergeInv
<1>3. Ids \subseteq 1..MaxRecords /\ Ids \subseteq Nat \ {0} /\ Ids' \subseteq Nat \ {0}
      /\ Ids' \subseteq 1..MaxRecords
  <2>1. pub' \in Seq(Publications) /\ Len(pub') <= MaxRecords
    BY <1>2 DEF TypeOK
  <2>2. Ids' \subseteq Nat \ {0} /\ Ids' \subseteq 1..MaxRecords
    BY <2>1, CatalogueAssumption DEF Ids
  <2> QED BY <1>1, <2>2, IdsAreNumbers
(* The pairs at hand were not merged away when the step was taken.         *)
<1>4. job'.script = "merge" => \A g \in job'.todo \cup InHand(job') : \A i \in g : into[i] = None
  <2> SUFFICES ASSUME job'.script = "merge", NEW g \in job'.todo \cup InHand(job'), NEW i \in g
               PROVE  into[i] = None
    OBVIOUS
  <2>1. CASE job.script = "merge" /\ g \in job.todo \cup InHand(job)
    BY <2>1 DEF MergeInv, Waiting
  <2>2. CASE g \in DuplicatePairs(pub)
    <3>1. i \in DOMAIN pub /\ IsDedupeCandidate(pub[i])
      BY <2>2, GroupIsTitled DEF DuplicatePairs
    <3> QED BY <1>3, <3>1 DEF MergeInv, Parked, IsDedupeCandidate, Ids
  <2> QED BY <2>1, <2>2, TodoShrinks DEF MergeInv
<1>5. CASE into' = into /\ \A i \in Ids : StatusStands(i)
  <2>1. Parked'
    BY <1>2, <1>5 DEF MergeInv, Parked, StatusStands
  <2>2. Waiting(job)'
    BY <1>4, <1>5 DEF Waiting
  <2>3. MergesEndInARecord'
    <3> SUFFICES ASSUME NEW S \in SUBSET Ids', S # {}
                 PROVE  \E i \in S : into[i] \notin S
      BY <1>5 DEF MergesEndInARecord
    <3>1. CASE S \subseteq Ids
      BY <3>1 DEF MergeInv, MergesEndInARecord
    <3>2. CASE ~(S \subseteq Ids)
      <4>1. PICK i \in S : i \notin Ids
        BY <3>2
      <4>2. into[i] = None
        BY <1>3, <4>1 DEF MergeInv, Parked
      <4> QED BY <1>3, <4>1, <4>2 DEF None
    <3> QED BY <3>1, <3>2
  <2> QED BY <1>2, <2>1, <2>2, <2>3 DEF MergeInv
<1>6. ASSUME NEW i \in Ids, NEW s \in {"published", "rejected"}, Decide(i, s)
      PROVE  MergeInv'
  <2>1. into' = [into EXCEPT ![i] = None] /\ Ids' = Ids
        /\ \A j \in Ids \ {i} : pub'[j].status = pub[j].status
    BY <1>1, <1>6 DEF Decide, Edit, Writing, Ids, PubOK
  <2>2. \A j \in 1..MaxRecords : into'[j] = IF j = i THEN None ELSE into[j]
    BY <1>1, <2>1 DEF IntoOK
  <2>3. Parked'
    BY <2>1, <2>2 DEF MergeInv, Parked
  <2>4. Waiting(job)'
    <3>1. \A j : into[j] = None => into'[j] = None
      BY <2>1
    <3> QED BY <1>4, <3>1 DEF Waiting
  <2>5. MergesEndInARecord'
    BY <1>3, <2>1, <2>2 DEF MergeInv, MergesEndInARecord, None
  <2> QED BY <1>2, <2>3, <2>4, <2>5 DEF MergeInv
<1>7. CASE MergePark
  <2> DEFINE w == job.keep
             l == job.park
             g == {w, l}
  <2>1. /\ job' = [job EXCEPT !.keep = None, !.park = None]
        /\ Writing(l, [pub[l] EXCEPT !.status = "rejected"])
        /\ into' = [into EXCEPT ![l] = w]
        /\ w # None /\ job.script = "merge"
    BY <1>7 DEF MergePark
  <2>2. job.snap \in Seq(Publications)
    BY <1>1 DEF JobOK
  <2>3. g \in DuplicatePairs(job.snap) /\ g \notin job.todo /\ w # l
    BY <2>1 DEF MergeInv, Listed
  <2>4. w \in Ids /\ l \in Ids
    BY <2>2, <2>3, PairsAreTwo DEF MergeInv, Listed, DuplicatePairs
  <2>5. \A i \in 1..MaxRecords : into'[i] = IF i = l THEN w ELSE into[i]
    BY <1>1, <2>1 DEF IntoOK
  <2>6. into[w] = None /\ into[l] = None
    BY <2>1 DEF MergeInv, Waiting, InHand
  <2>7. Parked'
    <3>1. pub[l] \in Publications
      BY <1>1, <2>4 DEF PubOK, Ids
    <3>2. pub'[l].status = "rejected" /\ \A i \in Ids \ {l} : pub'[i] = pub[i]
      BY <1>1, <2>1, <2>4, <3>1 DEF Writing, PubOK, Ids, Publications
    <3> QED BY <1>2, <2>4, <2>5, <3>2 DEF MergeInv, Parked
  <2>8. Waiting(job)'
    <3>1. job'.todo = job.todo /\ job'.keep = None /\ job'.script = "merge"
      BY <1>1, <2>1 DEF JobOK
    <3>2. ASSUME NEW h \in job.todo, NEW i \in h
          PROVE  into'[i] = None
      <4>1. h \in DuplicatePairs(job.snap) /\ h \in Pairs(job.snap) /\ g \in Pairs(job.snap)
        BY <2>1, <2>3 DEF MergeInv, Listed, DuplicatePairs
      <4>2. i # l
        BY <2>3, <4>1, GroupIsTitled
      <4>3. into[i] = None /\ i \in Ids
        BY <2>1, <2>2, <4>1, PairsAreTwo DEF MergeInv, Waiting, Listed
      <4> QED BY <1>3, <2>5, <4>2, <4>3
    <3> QED BY <3>1, <3>2 DEF Waiting, InHand
  <2>9. MergesEndInARecord'
    <3>1. Ids' = Ids
      BY <1>1, <2>1 DEF Writing, Ids, PubOK
    <3> SUFFICES ASSUME NEW S \in SUBSET Ids, S # {}
                 PROVE  \E i \in S : into'[i] \notin S
      BY <3>1 DEF MergesEndInARecord
    <3>2. CASE w \in S
      BY <1>3, <2>3, <2>4, <2>5, <2>6, <3>2 DEF None
    <3>3. CASE w \notin S /\ l \in S
      BY <1>3, <2>4, <2>5, <3>3
    <3>4. CASE w \notin S /\ l \notin S
      BY <1>3, <2>5, <3>4 DEF MergeInv, MergesEndInARecord
    <3> QED BY <3>2, <3>3, <3>4
  <2> QED BY <1>2, <2>7, <2>8, <2>9 DEF MergeInv
<1> QED BY <1>5, <1>6, <1>7, StatusMoves DEF MergeInv

LEMMA MergeInit == Init => MergeInv
<1> SUFFICES ASSUME Init PROVE MergeInv
  OBVIOUS
<1>1. TypeOK /\ Listed
  BY TypeInit DEF Init, NoJob, Listed, None
<1>2. Ids \subseteq Nat \ {0} /\ Ids \subseteq 1..MaxRecords
  BY <1>1, TypeParts, IdsAreNumbers
<1>3. Parked /\ Waiting(job)
  BY DEF Init, Parked, Waiting, NoJob
<1>4. MergesEndInARecord
  BY <1>2 DEF Init, MergesEndInARecord, None
<1> QED BY <1>1, <1>3, <1>4 DEF MergeInv

(* However merges run, are broken off, fail and are repeated, and whatever *)
(* is ingested and decided in between, no set of records is merged into    *)
(* itself: every chain of "Merged into" ends in a record they kept.        *)
THEOREM MergesEnd == Spec => []MergesEndInARecord
<1>1. MergeInv => MergesEndInARecord
  BY DEF MergeInv
<1> QED BY <1>1, MergeInit, MergeStep, PTL DEF Spec

(* No ingest, link or merge changes the status of a record merged away.    *)
THEOREM ParkedStays == Spec => ParkedStaysParked
<1>1. ASSUME MergeInv, [Next]_vars
      PROVE  \A i \in Ids : into[i] # None /\ upsets' = upsets => pub'[i].status = pub[i].status
  <2>1. PubOK /\ UpsetsOK /\ JobOK(job, Ids)
    BY <1>1, TypeParts DEF MergeInv
  <2>2. ASSUME NEW i \in Ids, NEW s, Decide(i, s)
        PROVE  upsets' # upsets
    BY <2>1, <2>2 DEF Decide, Edit, Upset, UpsetsOK
  <2>3. CASE MergePark
    <3> SUFFICES ASSUME NEW i \in Ids, into[i] # None
                 PROVE  pub'[i].status = pub[i].status
      OBVIOUS
    <3>1. into[job.park] = None /\ Writing(job.park, [pub[job.park] EXCEPT !.status = "rejected"])
      BY <1>1, <2>3 DEF MergeInv, Waiting, InHand, MergePark
    <3> QED BY <2>1, <3>1 DEF Writing, PubOK, Ids
  <2> QED BY <1>1, <2>2, <2>3, StatusMoves DEF MergeInv, StatusStands
<1>2. MergeInv /\ [Next]_vars =>
        [\A i \in Ids : into[i] # None /\ upsets' = upsets => pub'[i].status = pub[i].status]_vars
  BY <1>1
<1> QED BY <1>2, MergeInit, MergeStep, PTL DEF Spec, ParkedStaysParked

----------------------------------------------------------------------------
(* What a script has still to write is as it was when it was listed,       *)
(* unless somebody else wrote it; the pair in hand is, too, but for what   *)
(* the merge copied.                                                       *)
Pending == IF job.script = "merge" THEN UNION job.todo ELSE job.todo
Seen == \A i \in Pending \ job.touched : pub[i] = job.snap[i]
Copied ==
    job.keep # None =>
        /\ job.park \notin job.touched => pub[job.park] = job.snap[job.park]
        /\ job.keep \notin job.touched =>
            pub[job.keep] = KeepPatched(job.snap[job.keep], job.snap[job.keep], job.snap[job.park])
SeenInv ==
    /\ TypeOK /\ Listed /\ Seen /\ Copied
    /\ job.script = "none" => job.todo = {}

LEMMA WritesOne ==
    ASSUME TypeOK, NEW i \in Ids, NEW r, Writing(i, r)
    PROVE  pub'[i] = r /\ (\A j \in Ids \ {i} : pub'[j] = pub[j]) /\ Ids' = Ids
BY DEF TypeOK, Writing, Ids

LEMMA PendingIsListed ==
    ASSUME TypeOK, Listed
    PROVE  job.script # "none" => Pending \subseteq DOMAIN job.snap /\ Pending \subseteq Ids
<1>1. JobOK(job, Ids)
  BY TypeParts
<1>2. CASE job.script = "merge"
  <2>1. \A g \in job.todo : g \subseteq DOMAIN job.snap
    BY <1>1, <1>2, PairsAreTwo DEF Listed, DuplicatePairs, JobOK
  <2> QED BY <1>2, <2>1 DEF Pending, Listed
<1>3. CASE job.script \in {"link", "alias"}
  BY <1>3 DEF Pending, Listed
<1> QED BY <1>1, <1>2, <1>3 DEF JobOK, Scripts

(* Two pairs of one listing share no record.                               *)
LEMMA PairsAreApart ==
    ASSUME NEW S, NEW g \in DuplicatePairs(S), NEW h \in DuplicatePairs(S), g # h
    PROVE  g \cap h = {}
BY GroupIsTitled DEF DuplicatePairs

(* A write by somebody else marks the record.                              *)
LEMMA OthersMark ==
    ASSUME SeenInv, NEW i \in Ids, Touch(i), \A j \in Ids \ {i} : pub'[j] = pub[j],
           TypeOK', Listed'
    PROVE  SeenInv'
<1>1. JobOK(job, Ids)
  BY TypeParts DEF SeenInv
<1>2. /\ job'.script = job.script /\ job'.todo = job.todo /\ job'.snap = job.snap
      /\ job'.keep = job.keep /\ job'.park = job.park
      /\ job'.touched = IF job.script = "none" THEN job.touched ELSE job.touched \cup {i}
  BY <1>1 DEF Touch, JobOK
<1>3. CASE job.script = "none"
  <2>1. job.todo = {} /\ job.keep = None
    BY <1>3 DEF SeenInv, Listed
  <2> QED BY <1>2, <1>3, <2>1 DEF SeenInv, Seen, Pending, Copied
<1>4. CASE job.script # "none"
  <2>1. Pending \subseteq Ids
    BY <1>4, PendingIsListed DEF SeenInv
  <2>2. job.keep \in Ids \cup {None} /\ job.park \in Ids \cup {None}
    BY <1>1 DEF JobOK
  <2>3. job.keep # None => job.keep \in Ids /\ job.park \in Ids
    <3>1. job.keep # None => {job.keep, job.park} \in Pairs(job.snap) /\ job.snap \in Seq(Publications)
      BY <1>1 DEF SeenInv, Listed, DuplicatePairs, JobOK
    <3> QED BY <3>1, PairsAreTwo DEF SeenInv, Listed
  <2>4. Seen'
    BY <1>2, <1>4, <2>1 DEF SeenInv, Seen, Pending
  <2>5. Copied'
    BY <1>2, <1>4, <2>3 DEF SeenInv, Copied
  <2> QED BY <1>2, <1>4, <2>4, <2>5 DEF SeenInv
<1> QED BY <1>3, <1>4

(* A record a script has written is no longer pending.                     *)
LEMMA SeenStep ==
    ASSUME SeenInv, [Next]_vars
    PROVE  SeenInv'
<1>1. PubOK /\ JobOK(job, Ids) /\ IngestOK(ingest, Ids) /\ TypeOK /\ Listed
  BY TypeParts DEF SeenInv
<1>2. TypeOK' /\ Listed' /\ Ids \subseteq Ids'
  BY Steps DEF SeenInv
<1>3. ASSUME NEW s \in Scripts, Start(s)
      PROVE  SeenInv'
  <2>1. job'.script = s /\ job'.snap = pub /\ job'.keep = None /\ pub' = pub
    BY <1>3 DEF Start, NoJob
  <2>2. s # "none"
    BY DEF Scripts
  <2> QED BY <1>2, <2>1, <2>2 DEF SeenInv, Seen, Copied
<1>4. CASE LinkRecord
  <2>1. PICK i \in job.todo :
          /\ i \in Ids /\ job' = [job EXCEPT !.todo = @ \ {i}]
          /\ pub' = pub \/ \E r : Writing(i, r)
    BY <1>1, <1>4, LinkWrites
  <2>2. \A j \in Ids \ {i} : pub'[j] = pub[j]
    BY <1>1, <2>1, WritesOne
  <2>3. /\ job'.script = "link" /\ job.script = "link" /\ job'.todo = job.todo \ {i}
        /\ job'.snap = job.snap /\ job'.touched = job.touched /\ job'.keep = None
    BY <1>1, <1>4, <2>1 DEF JobOK, LinkRecord, Listed
  <2>4. job.todo \subseteq Ids
    BY <2>3, <1>1 DEF Listed
  <2> QED BY <1>2, <2>2, <2>3, <2>4 DEF SeenInv, Seen, Pending, Copied
<1>5. CASE AliasFind
  <2>1. job.script = "alias" /\ job.todo = {} /\ job.keep = None /\ pub' = pub
    BY <1>1, <1>5 DEF AliasFind, Listed
  <2>2. /\ job'.script = "alias" /\ job'.keep = None
        /\ job'.snap = pub \/ job'.todo = {}
    BY <1>1, <1>5, <2>1 DEF AliasFind, JobOK
  <2> QED BY <1>2, <2>1, <2>2 DEF SeenInv, Seen, Pending, Copied
<1>6. CASE AliasWrite
  <2>1. PICK i \in job.todo :
          /\ i \in Ids
          /\ job' = [job EXCEPT !.todo = @ \ {i}, !.alias = IF job.todo = {i} THEN @ + 1 ELSE @]
          /\ pub' = pub \/ \E r : Writing(i, r)
    BY <1>1, <1>6, AliasWrites
  <2>2. \A j \in Ids \ {i} : pub'[j] = pub[j]
    BY <1>1, <2>1, WritesOne
  <2>3. /\ job'.script = "alias" /\ job.script = "alias" /\ job'.todo = job.todo \ {i}
        /\ job'.snap = job.snap /\ job'.touched = job.touched /\ job'.keep = None
    BY <1>1, <1>6, <2>1 DEF JobOK, AliasWrite, Listed
  <2>4. job.todo \subseteq Ids
    BY <2>3, <1>1 DEF Listed
  <2> QED BY <1>2, <2>2, <2>3, <2>4 DEF SeenInv, Seen, Pending, Copied
<1>7. CASE MergeKeep
  <2>1. PICK g \in job.todo : \E w, l \in g :
          /\ g \in DuplicatePairs(job.snap) /\ g = {w, l} /\ w # l /\ g \subseteq Ids
          /\ job' = [job EXCEPT !.todo = @ \ {g}, !.keep = w, !.park = l]
          /\ Writing(w, KeepPatched(pub[w], job.snap[w], job.snap[l]))
    BY <1>1, <1>7, MergeWrites
  <2>2. PICK w, l \in g :
          /\ g \in DuplicatePairs(job.snap) /\ g = {w, l} /\ w # l /\ g \subseteq Ids
          /\ job' = [job EXCEPT !.todo = @ \ {g}, !.keep = w, !.park = l]
          /\ Writing(w, KeepPatched(pub[w], job.snap[w], job.snap[l]))
    BY <2>1
  <2>3. pub'[w] = KeepPatched(pub[w], job.snap[w], job.snap[l])
        /\ \A j \in Ids \ {w} : pub'[j] = pub[j]
    BY <1>1, <2>2, WritesOne
  <2>4. /\ job'.script = "merge" /\ job.script = "merge" /\ job'.todo = job.todo \ {g}
        /\ job'.snap = job.snap /\ job'.touched = job.touched /\ job'.keep = w /\ job'.park = l
    BY <1>1, <1>7, <2>2 DEF JobOK, MergeKeep
  <2>5. Pending \subseteq Ids /\ g \subseteq Pending /\ Pending' \subseteq Pending
    BY <1>1, <2>4, PendingIsListed DEF Pending
  <2>6. w \notin Pending'
    <3>1. \A h \in job.todo \ {g} : g \cap h = {}
      BY <1>1, <2>2, <2>4, PairsAreApart DEF Listed
    <3> QED BY <2>2, <2>4, <3>1 DEF Pending
  <2>7. Seen'
    BY <2>3, <2>4, <2>5, <2>6 DEF SeenInv, Seen
  <2>8. Copied'
    BY <2>2, <2>3, <2>4, <2>5 DEF SeenInv, Seen, Copied
  <2> QED BY <1>2, <2>4, <2>7, <2>8 DEF SeenInv
<1>8. CASE MergePark
  <2> DEFINE g == {job.keep, job.park}
  <2>1. /\ job' = [job EXCEPT !.keep = None, !.park = None] /\ job.script = "merge"
        /\ Writing(job.park, [pub[job.park] EXCEPT !.status = "rejected"])
    BY <1>8 DEF MergePark
  <2>2. g \in DuplicatePairs(job.snap) \ job.todo
    BY <1>1, <1>8 DEF Listed, MergePark
  <2>3. job.park \in Ids
    BY <1>1, <2>2, PairsAreTwo DEF Listed, DuplicatePairs, JobOK
  <2>4. \A j \in Ids \ {job.park} : pub'[j] = pub[j]
    BY <1>1, <2>1, <2>3, WritesOne
  <2>5. /\ job'.script = "merge" /\ job'.todo = job.todo
        /\ job'.snap = job.snap /\ job'.touched = job.touched /\ job'.keep = None
    BY <1>1, <2>1 DEF JobOK
  <2>6. Pending' = Pending /\ Pending \subseteq Ids
    BY <1>1, <2>1, <2>5, PendingIsListed DEF Pending
  <2>7. job.park \notin Pending
    <3>1. \A h \in job.todo : g \cap h = {}
      BY <1>1, <2>1, <2>2, PairsAreApart DEF Listed
    <3> QED BY <2>1, <3>1 DEF Pending
  <2> QED BY <1>2, <2>4, <2>5, <2>6, <2>7 DEF SeenInv, Seen, Copied
<1>9. CASE Finish \/ ScriptDies
  <2>1. job' = NoJob
    BY <1>9 DEF Finish, ScriptDies
  <2> QED BY <1>2, <2>1 DEF SeenInv, Seen, Pending, Copied, NoJob
<1>10. CASE WriteFails
  <2>1. /\ job'.script = job.script /\ job'.todo \subseteq job.todo /\ pub' = pub
        /\ job'.snap = job.snap /\ job'.touched = job.touched /\ job'.keep = None
        /\ job.script # "none"
    <3>1. \/ job' = [job EXCEPT !.keep = None, !.park = None, !.failed = TRUE]
          \/ job.keep = None /\ \E x \in job.todo : job' = [job EXCEPT !.todo = @ \ {x}, !.failed = TRUE]
      BY <1>10 DEF WriteFails
    <3>2. pub' = pub /\ job.script \in {"link", "merge"}
      BY <1>10 DEF WriteFails
    <3>3. CASE job' = [job EXCEPT !.keep = None, !.park = None, !.failed = TRUE]
      BY <1>1, <3>2, <3>3 DEF JobOK
    <3>4. ASSUME job.keep = None, NEW x \in job.todo,
                 job' = [job EXCEPT !.todo = @ \ {x}, !.failed = TRUE]
          PROVE  /\ job'.script = job.script /\ job'.todo \subseteq job.todo
                 /\ job'.snap = job.snap /\ job'.touched = job.touched /\ job'.keep = None
      BY <1>1, <3>4 DEF JobOK
    <3> QED BY <3>1, <3>2, <3>3, <3>4
  <2> QED BY <1>2, <2>1 DEF SeenInv, Seen, Pending, Copied
<1>11. CASE IngestUpdate
  <2>1. ingest.hit \in Ids /\ Touch(ingest.hit)
    BY <1>1, <1>11 DEF IngestUpdate, IngestOK
  <2>2. \A j \in Ids \ {ingest.hit} : pub'[j] = pub[j]
    BY <1>1, <1>11, <2>1, WritesOne DEF IngestUpdate
  <2> QED BY <1>2, <2>1, <2>2, OthersMark
<1>12. CASE Editor
  <2>1. PICK i, r : i \in Ids /\ Edit(i, r)
    BY <1>12 DEF Editor, LinkByHand, RewriteAbstract, Decide
  <2>2. Touch(i) /\ \A j \in Ids \ {i} : pub'[j] = pub[j]
    BY <1>1, <2>1, WritesOne DEF Edit
  <2> QED BY <1>2, <2>1, <2>2, OthersMark
<1>13. CASE job' = job /\ \A j \in Ids : pub'[j] = pub[j]
  <2>1. job.keep # None => job.keep \in Ids /\ job.park \in Ids
    BY <1>1, PairsAreTwo DEF Listed, DuplicatePairs, JobOK
  <2>2. Pending' = Pending /\ (job.script # "none" => Pending \subseteq Ids)
    BY <1>1, <1>13, PendingIsListed DEF Pending
  <2>3. Seen'
    <3>1. CASE job.script = "none"
      BY <1>13, <2>2, <3>1 DEF SeenInv, Seen, Pending
    <3>2. CASE job.script # "none"
      BY <1>13, <2>2, <3>2 DEF SeenInv, Seen
    <3> QED BY <3>1, <3>2
  <2>4. Copied'
    BY <1>13, <2>1 DEF SeenInv, Copied
  <2> QED BY <1>2, <1>13, <2>3, <2>4 DEF SeenInv
<1>14. CASE IngestStart \/ IngestFind \/ IngestCreate \/ IngestDies \/ UNCHANGED vars
  <2>1. job' = job /\ \A j \in Ids : pub'[j] = pub[j]
    BY <1>1, <1>14 DEF IngestStart, IngestFind, IngestCreate, IngestDies, vars, Ids, PubOK
  <2> QED BY <1>13, <2>1
<1> QED
  BY <1>3, <1>4, <1>5, <1>6, <1>7, <1>8, <1>9, <1>10, <1>11, <1>12, <1>14 DEF Next, Script, Ingest

LEMMA SeenInit == Init => SeenInv
BY TypeInit DEF Init, NoJob, SeenInv, Listed, Seen, Pending, Copied, None

(* The linkers and the merge only add links.                               *)
LinksStand(old, new) ==
    DOMAIN old \subseteq DOMAIN new /\ \A r \in DOMAIN old : old[r].member # None => new[r] = old[r]

LEMMA LinkersOnlyAdd ==
    ASSUME NEW a \in Seq(Rows), NEW b \in Seq(Rows), NEW alias, NEW m
    PROVE  /\ LinksStand(a, LinkAuthors(a))
           /\ LinksStand(a, LinkAliasInAuthors(a, alias, m))
           /\ LinksStand(a, MergeAuthorLinks(a, b))
BY DEF LinksStand, LinkAuthors, LinkRow, LinkAliasInAuthors, MergeAuthorLinks

(* No script changes or drops a link that was there when it read the       *)
(* record, unless somebody else wrote the record after that.               *)
THEOREM SeenLinksAreKept == Spec => SeenLinksStand
<1> DEFINE Stands ==
        \A i \in Ids :
            job.script # "none" /\ i \in DOMAIN job.snap \ job.touched /\ job'.touched = job.touched =>
                \A r \in DOMAIN pub[i].authors :
                    pub[i].authors[r].member # None => pub'[i].authors[r] = pub[i].authors[r]
<1>1. ASSUME SeenInv, [Next]_vars
      PROVE  Stands
  <2>1. PubOK /\ JobOK(job, Ids) /\ IngestOK(ingest, Ids) /\ TypeOK /\ Listed
    BY <1>1, TypeParts DEF SeenInv
  <2> SUFFICES ASSUME NEW i \in Ids, job.script # "none", i \in DOMAIN job.snap \ job.touched,
                      job'.touched = job.touched
               PROVE  LinksStand(pub[i].authors, pub'[i].authors)
    BY DEF LinksStand
  <2>2. pub[i] \in Publications /\ pub[i].authors \in Seq(Rows)
    <3>1. pub[i] \in Publications
      BY <2>1 DEF PubOK, Ids
    <3> QED BY <3>1 DEF Publications
  <2>3. CASE pub'[i].authors = pub[i].authors
    BY <2>3 DEF LinksStand
  <2>4. CASE LinkRecord
    <3>1. PICK j, r :
            /\ j \in job.todo \cap Ids /\ r = [pub[j] EXCEPT !.authors = LinkAuthors(job.snap[j].authors)]
            /\ pub' = pub \/ Writing(j, r)
      BY <2>1, <2>4, LinkWrites
    <3>2. i = j => pub[i] = job.snap[i]
      BY <1>1, <2>4, <3>1 DEF LinkRecord, SeenInv, Seen, Pending
    <3>3. i = j => pub'[i].authors \in {pub[i].authors, LinkAuthors(pub[i].authors)}
      BY <2>1, <2>2, <3>1, <3>2, WritesOne DEF Publications
    <3>4. i # j => pub'[i] = pub[i]
      BY <2>1, <3>1, WritesOne
    <3> QED BY <2>2, <2>3, <3>3, <3>4, LinkersOnlyAdd
  <2>5. CASE AliasWrite
    <3> DEFINE a == Aliases[job.alias]
               To(x) == LinkAliasInAuthors(x, a.alias, MemberNamed(a.member))
    <3>1. PICK j, r :
            /\ j \in job.todo \cap Ids /\ r = [pub[j] EXCEPT !.authors = To(job.snap[j].authors)]
            /\ pub' = pub \/ Writing(j, r)
      BY <2>1, <2>5, AliasWrites
    <3>2. i = j => pub[i] = job.snap[i]
      BY <1>1, <2>5, <3>1 DEF AliasWrite, SeenInv, Seen, Pending
    <3>3. i = j => pub'[i].authors \in {pub[i].authors, To(pub[i].authors)}
      BY <2>1, <2>2, <3>1, <3>2, WritesOne DEF Publications
    <3>4. i # j => pub'[i] = pub[i]
      BY <2>1, <3>1, WritesOne
    <3> QED BY <2>2, <2>3, <3>3, <3>4, LinkersOnlyAdd
  <2>6. CASE MergeKeep
    <3>1. PICK g \in job.todo : \E w, l \in g :
            /\ w \in Ids /\ l \in DOMAIN job.snap
            /\ Writing(w, KeepPatched(pub[w], job.snap[w], job.snap[l]))
      BY <2>1, <2>6, MergeWrites
    <3>2. PICK w, l \in g :
            /\ w \in Ids /\ l \in DOMAIN job.snap
            /\ Writing(w, KeepPatched(pub[w], job.snap[w], job.snap[l]))
      BY <3>1
    <3>3. i = w => pub[i] = job.snap[i]
      BY <1>1, <2>6 DEF MergeKeep, SeenInv, Seen, Pending
    <3>4. job.snap[l].authors \in Seq(Rows)
      <4>1. job.snap[l] \in Publications
        BY <2>1, <3>2 DEF JobOK
      <4> QED BY <4>1 DEF Publications
    <3>5. i = w => pub'[i].authors \in {pub[i].authors, MergeAuthorLinks(pub[i].authors, job.snap[l].authors)}
      <4>1. i = w => pub'[i] = KeepPatched(pub[i], pub[i], job.snap[l])
        BY <2>1, <3>2, <3>3, WritesOne
      <4> QED BY <2>2, <4>1 DEF KeepPatched, Publications
    <3>6. i # w => pub'[i] = pub[i]
      BY <2>1, <3>2, WritesOne
    <3> QED BY <2>2, <2>3, <3>4, <3>5, <3>6, LinkersOnlyAdd
  <2>7. CASE MergePark
    <3>1. job.park \in Ids
      BY <2>1, <2>7, PairsAreTwo DEF MergePark, Listed, DuplicatePairs, JobOK
    <3>2. pub'[i].authors = pub[i].authors
      BY <2>1, <2>2, <2>7, <3>1, WritesOne DEF MergePark, Publications
    <3> QED BY <2>3, <3>2
  <2>8. ASSUME NEW j \in Ids, NEW r, Writing(j, r), Touch(j)
        PROVE  pub'[i] = pub[i]
    <3>1. j \in job.touched
      BY <2>1, <2>8 DEF Touch, JobOK
    <3> QED BY <2>1, <2>8, <3>1, WritesOne
  <2>9. CASE IngestUpdate
    BY <2>1, <2>3, <2>8, <2>9 DEF IngestUpdate, IngestOK
  <2>10. CASE Editor
    <3>1. PICK j, r : j \in Ids /\ Edit(j, r)
      BY <2>10 DEF Editor, LinkByHand, RewriteAbstract, Decide
    <3> QED BY <2>3, <2>8, <3>1 DEF Edit
  <2>11. CASE IngestCreate
    BY <2>1, <2>3, <2>11 DEF IngestCreate, PubOK, Ids
  <2>12. CASE UNCHANGED pub
    BY <2>3, <2>12
  <2>13. CASE \/ \E s \in Scripts : Start(s)
              \/ AliasFind \/ Finish \/ WriteFails \/ ScriptDies
              \/ IngestStart \/ IngestFind \/ IngestDies \/ UNCHANGED vars
    BY <2>12, <2>13 DEF Start, AliasFind, Finish, WriteFails, ScriptDies,
                        IngestStart, IngestFind, IngestDies, vars
  <2> QED
    BY <1>1, <2>4, <2>5, <2>6, <2>7, <2>9, <2>10, <2>11, <2>13 DEF Next, Script, Ingest
<1>2. SeenInv /\ [Next]_vars => [Stands]_vars
  BY <1>1
<1> QED BY <1>2, SeenInit, SeenStep, PTL DEF Spec, SeenLinksStand

(* What a merge copies is at least what the other record had.              *)
LEMMA CopyIsEnough ==
    ASSUME NEW w \in Publications, NEW l \in Publications
    PROVE  LET k == KeepPatched(w, w, l) IN
           /\ l.abstract # NoText => k.abstract # NoText
           /\ k.cites >= l.cites
           /\ \A r \in DOMAIN l.authors : l.authors[r].member # None =>
                \A q \in DOMAIN k.authors :
                    SurnameOf(k.authors[q].name) = SurnameOf(l.authors[r].name)
                        => k.authors[q].member # None
<1> DEFINE k == KeepPatched(w, w, l)
<1>1. w.authors \in Seq(Rows) /\ l.authors \in Seq(Rows) /\ w.cites \in Nat /\ l.cites \in Nat
  BY DEF Publications
<1>2. /\ k.abstract = MergedAbstract(w, l) /\ k.cites = MergedCites(w, l)
      /\ k.authors = MergeAuthorLinks(w.authors, l.authors)
  BY DEF KeepPatched, Publications
<1>3. l.abstract # NoText => k.abstract # NoText
  BY <1>2 DEF MergedAbstract
<1>4. k.cites >= l.cites
  BY <1>1, <1>2 DEF MergedCites
<1>5. ASSUME NEW r \in DOMAIN l.authors, l.authors[r].member # None,
             NEW q \in DOMAIN k.authors,
             SurnameOf(k.authors[q].name) = SurnameOf(l.authors[r].name)
      PROVE  k.authors[q].member # None
  <2> DEFINE row == w.authors[q]
             m == LinkedBySurname(l.authors, SurnameOf(row.name))
  <2>1. DOMAIN k.authors = DOMAIN w.authors /\ row \in Rows
    BY <1>1, <1>2, MergedLinksTyping
  <2>2. k.authors[q] = IF row.member # None \/ m = None THEN row ELSE LinkedTo(row, m, "merge")
    BY <1>2, <2>1, <1>5 DEF MergeAuthorLinks
  <2>3. LinkedTo(row, m, "merge").name = row.name /\ LinkedTo(row, m, "merge").member = m
    BY <2>1 DEF LinkedTo, Rows
  <2>4. SurnameOf(row.name) = SurnameOf(l.authors[r].name)
    BY <1>5, <2>2, <2>3
  <2>5. m # None
    BY <1>1, <1>5, <2>4, SurnameLink
  <2> QED BY <2>2, <2>3, <2>5
<1> QED BY <1>3, <1>4, <1>5

(* What a record holds is not lost when it is merged away: of two records  *)
(* nobody else wrote meanwhile, the one kept has an abstract if the other  *)
(* had one, no fewer citations, and a link for every author linked there.  *)
THEOREM NothingIsLost == Spec => MergeLosesNothing
<1> DEFINE Holds ==
        \A l \in Ids : into'[l] \notin {None, into[l]} /\ {l, into'[l]} \cap job.touched = {} =>
            LET k == into'[l] IN
            /\ pub[l].abstract # NoText => pub[k].abstract # NoText
            /\ pub[k].cites >= pub[l].cites
            /\ \A r \in DOMAIN pub[l].authors : pub[l].authors[r].member # None =>
                \A q \in DOMAIN pub[k].authors :
                    SurnameOf(pub[k].authors[q].name) = SurnameOf(pub[l].authors[r].name)
                        => pub[k].authors[q].member # None
<1>1. ASSUME SeenInv, [Next]_vars
      PROVE  Holds
  <2>1. PubOK /\ JobOK(job, Ids) /\ IntoOK(into, Ids) /\ TypeOK /\ Listed
    BY <1>1, TypeParts DEF SeenInv
  <2> SUFFICES ASSUME NEW l \in Ids, into'[l] \notin {None, into[l]},
                      {l, into'[l]} \cap job.touched = {}
               PROVE  \E a, b \in Publications :
                        pub[l] = b /\ pub[into'[l]] = KeepPatched(a, a, b)
    BY CopyIsEnough
  <2>2. l \in 1..MaxRecords
    BY <2>1, IdsAreNumbers
  <2>3. \A i \in Ids : \A s : ~Decide(i, s)
    BY <2>1, <2>2 DEF Decide, IntoOK
  <2>4. MergePark
    BY <1>1, <2>1, <2>3, StatusMoves
  <2>5. into' = [into EXCEPT ![job.park] = job.keep] /\ job.keep # None
    BY <2>4 DEF MergePark
  <2>6. l = job.park /\ into'[l] = job.keep
    BY <2>1, <2>2, <2>5 DEF IntoOK
  <2>7. /\ job.keep \in DOMAIN job.snap /\ job.park \in DOMAIN job.snap
        /\ job.snap \in Seq(Publications)
    BY <2>1, <2>5, PairsAreTwo DEF Listed, DuplicatePairs, JobOK
  <2>8. job.snap[job.keep] \in Publications /\ job.snap[job.park] \in Publications
    BY <2>7
  <2> QED BY <1>1, <2>5, <2>6, <2>8 DEF SeenInv, Copied
<1>2. SeenInv /\ [Next]_vars => [Holds]_vars
  BY <1>1
<1> QED BY <1>2, SeenInit, SeenStep, PTL DEF Spec, MergeLosesNothing

----------------------------------------------------------------------------
(* Completeness of a merge.  As long as it is alone, nothing failed and no *)
(* record came in, the records are those it listed but for what it copied  *)
(* and parked: their titles, years and authors' names stand (Merging), and *)
(* of every pair that is done one record is parked or about to be (Merged).*)
SameAuthors(a, b) == DOMAIN a = DOMAIN b /\ \A r \in DOMAIN a : a[r].name = b[r].name
SameIdentity(p, q) == p.title = q.title /\ p.year = q.year /\ SameAuthors(p.authors, q.authors)
Alone(j, ids) == j.script = "merge" /\ ~j.failed /\ j.touched = {} /\ ids = DOMAIN j.snap
PairedIn(i, S) == \E g \in DuplicatePairs(S) : i \in g
Merging(P, j) ==
    \A i \in DOMAIN j.snap :
        /\ SameIdentity(P[i], j.snap[i])
        /\ P[i].status = j.snap[i].status \/ (P[i].status = "rejected" /\ PairedIn(i, j.snap))
Merged(P, j) ==
    \A g \in DuplicatePairs(j.snap) \ j.todo :
        \/ \E i \in g : P[i].status = "rejected"
        \/ j.keep # None /\ g = {j.keep, j.park}
MergingInv == TypeOK /\ Listed /\ (Alone(job, Ids) => Merging(pub, job) /\ Merged(pub, job))

(* Links may come and go: the authors of a record are who they are.        *)
LEMMA MergedAuthors ==
    ASSUME NEW a \in Seq(Rows), NEW b \in Seq(Rows)
    PROVE  SameAuthors(MergeAuthorLinks(a, b), a)
<1>1. DOMAIN MergeAuthorLinks(a, b) = DOMAIN a
  BY DEF MergeAuthorLinks
<1>2. ASSUME NEW r \in DOMAIN a
      PROVE  MergeAuthorLinks(a, b)[r].name = a[r].name
  <2>1. a[r] \in Rows
    OBVIOUS
  <2>2. \A m : LinkedTo(a[r], m, "merge").name = a[r].name
    BY <2>1 DEF LinkedTo, Rows
  <2> QED BY <2>2 DEF MergeAuthorLinks
<1> QED BY <1>1, <1>2 DEF SameAuthors

LEMMA KeptIdentity ==
    ASSUME NEW r \in Publications, NEW w \in Publications, NEW l \in Publications,
           SameIdentity(r, w)
    PROVE  SameIdentity(KeepPatched(r, w, l), w) /\ KeepPatched(r, w, l).status = r.status
<1> DEFINE k == KeepPatched(r, w, l)
           links == MergeAuthorLinks(w.authors, l.authors)
<1>1. k.title = r.title /\ k.year = r.year /\ k.status = r.status
      /\ k.authors = IF links = w.authors THEN r.authors ELSE links
  BY DEF KeepPatched, Publications
<1>2. w.authors \in Seq(Rows) /\ l.authors \in Seq(Rows)
  BY DEF Publications
<1>3. SameAuthors(links, w.authors)
  BY <1>2, MergedAuthors
<1> HIDE DEF k, links
<1> QED BY <1>1, <1>3 DEF SameIdentity, k

(* Two records that are the same work still are when their authors'        *)
(* links have changed.                                                     *)
LEMMA SameSurnames ==
    ASSUME NEW a, NEW b, SameAuthors(a, b)
    PROVE  Surnames(a) = Surnames(b)
<1>1. \A s : {r \in DOMAIN a : SurnameOf(a[r].name) = s} = {r \in DOMAIN b : SurnameOf(b[r].name) = s}
  BY DEF SameAuthors
<1>2. {SurnameOf(a[r].name) : r \in DOMAIN a} = {SurnameOf(b[r].name) : r \in DOMAIN b}
  BY DEF SameAuthors
<1> QED BY <1>1, <1>2 DEF Surnames

LEMMA StillSameWork ==
    ASSUME NEW p \in Publications, NEW q \in Publications, NEW a \in Publications,
           NEW b \in Publications, SameIdentity(p, a), SameIdentity(q, b), IsSameWork(p, q)
    PROVE  IsSameWork(a, b)
<1>1. Surnames(p.authors) = Surnames(a.authors) /\ Surnames(q.authors) = Surnames(b.authors)
  BY SameSurnames DEF SameIdentity
<1>2. /\ p.authors \in Seq(Rows) /\ a.authors \in Seq(Rows)
      /\ q.authors \in Seq(Rows) /\ b.authors \in Seq(Rows)
  BY DEF Publications
<1>3. \A x, y \in Seq(Rows) : SameAuthors(x, y) /\ x # <<>> => y # <<>>
  BY DEF SameAuthors
<1>4. a.authors # <<>> /\ b.authors # <<>>
  BY <1>2, <1>3 DEF SameIdentity, IsSameWork
<1> QED BY <1>1, <1>4 DEF SameIdentity, IsSameWork

(* Nobody has a place among the records listed who was not listed.         *)
LEMMA WriteKeepsMerging ==
    ASSUME TypeOK, Listed, Merging(pub, job), NEW i \in Ids, NEW r, Writing(i, r),
           NEW j, j.snap = job.snap,
           i \in DOMAIN job.snap => SameIdentity(r, job.snap[i]),
           r.status = pub[i].status \/ (r.status = "rejected" /\ PairedIn(i, job.snap))
    PROVE  Merging(pub', j)
<1>1. pub'[i] = r /\ \A k \in Ids \ {i} : pub'[k] = pub[k]
  BY WritesOne
<1>2. DOMAIN job.snap \subseteq Ids
  BY DEF Listed
<1>3. ASSUME NEW k \in DOMAIN job.snap
      PROVE  /\ SameIdentity(pub'[k], job.snap[k])
             /\ \/ pub'[k].status = job.snap[k].status
                \/ pub'[k].status = "rejected" /\ PairedIn(k, job.snap)
  <2>1. CASE k = i
    BY <1>1, <2>1 DEF Merging
  <2>2. CASE k # i
    BY <1>1, <1>2, <2>2 DEF Merging
  <2> QED BY <2>1, <2>2
<1> QED BY <1>3 DEF Merging

LEMMA MergingStep ==
    ASSUME MergingInv, [Next]_vars
    PROVE  MergingInv'
<1>1. PubOK /\ JobOK(job, Ids) /\ IngestOK(ingest, Ids) /\ TypeOK /\ Listed
  BY TypeParts DEF MergingInv
<1>2. TypeOK' /\ Listed' /\ Ids \subseteq Ids'
  BY Steps DEF MergingInv
<1> DEFINE Goal == Alone(job', Ids') => Merging(pub', job') /\ Merged(pub', job')
<1>3. SUFFICES Goal
  BY <1>2 DEF MergingInv
<1>4. ASSUME NEW s \in Scripts, Start(s)
      PROVE  Goal
  <2> DEFINE todo == CASE s = "link" -> Ids
                       [] s = "alias" -> {}
                       [] s = "merge" -> DuplicatePairs(pub)
  <2>1. job'.script = s /\ job'.snap = pub /\ job'.todo = todo /\ pub' = pub
    BY <1>4 DEF Start, NoJob
  <2>2. s = "merge" => job'.todo = DuplicatePairs(job'.snap)
    <3>1. s = "merge" => todo = DuplicatePairs(pub)
      OBVIOUS
    <3> QED BY <2>1, <3>1
  <2>3. Merging(pub', job')
    BY <2>1 DEF Merging, SameIdentity, SameAuthors
  <2>4. s = "merge" => Merged(pub', job')
    BY <2>2 DEF Merged
  <2> QED BY <2>1, <2>3, <2>4 DEF Alone
<1>5. CASE MergeKeep
  <2> SUFFICES ASSUME Alone(job', Ids') PROVE Merging(pub', job') /\ Merged(pub', job')
    OBVIOUS
  <2>1. PICK g \in job.todo : \E w, l \in g :
          /\ g \in DuplicatePairs(job.snap) /\ g = {w, l} /\ w # l
          /\ g \subseteq DOMAIN job.snap /\ g \subseteq Ids
          /\ job' = [job EXCEPT !.todo = @ \ {g}, !.keep = w, !.park = l]
          /\ Writing(w, KeepPatched(pub[w], job.snap[w], job.snap[l]))
    BY <1>1, <1>5, MergeWrites
  <2>2. PICK w, l \in g :
          /\ g \in DuplicatePairs(job.snap) /\ g = {w, l} /\ w # l
          /\ g \subseteq DOMAIN job.snap /\ g \subseteq Ids
          /\ job' = [job EXCEPT !.todo = @ \ {g}, !.keep = w, !.park = l]
          /\ Writing(w, KeepPatched(pub[w], job.snap[w], job.snap[l]))
    BY <2>1
  <2> DEFINE r == KeepPatched(pub[w], job.snap[w], job.snap[l])
  <2>3. /\ job'.script = job.script /\ job'.todo = job.todo \ {g} /\ job'.failed = job.failed
        /\ job'.snap = job.snap /\ job'.touched = job.touched /\ job'.keep = w /\ job'.park = l
    BY <1>1, <2>2 DEF JobOK
  <2>4. pub'[w] = r /\ (\A k \in Ids \ {w} : pub'[k] = pub[k]) /\ Ids' = Ids
    BY <1>1, <2>2, WritesOne
  <2>5. Alone(job, Ids)
    BY <2>3, <2>4 DEF Alone
  <2>6. Merging(pub, job) /\ Merged(pub, job)
    BY <2>5 DEF MergingInv
  <2>7. pub[w] \in Publications /\ job.snap[w] \in Publications /\ job.snap[l] \in Publications
    BY <1>1, <2>2 DEF PubOK, Ids, JobOK
  <2>8. SameIdentity(r, job.snap[w]) /\ r.status = pub[w].status
    BY <2>2, <2>6, <2>7, KeptIdentity DEF Merging
  <2>9. Merging(pub', job')
    <3> HIDE DEF r
    <3>1. Writing(w, r) /\ w \in Ids
      BY <2>2 DEF r
    <3> QED BY <1>1, <2>3, <2>6, <2>8, <3>1, WriteKeepsMerging
  <2>10. ASSUME NEW h \in DuplicatePairs(job.snap) \ job'.todo
         PROVE  \/ \E i \in h : pub'[i].status = "rejected"
                \/ job'.keep # None /\ h = {job'.keep, job'.park}
    <3>1. CASE h = g
      <4>1. w # None
        BY <2>2, <1>1, IdsAreNumbers DEF None
      <4> QED BY <2>2, <2>3, <3>1, <4>1
    <3>2. CASE h # g
      <4>1. h \notin job.todo /\ job.keep = None
        BY <1>5, <2>3, <3>2 DEF MergeKeep
      <4>2. PICK i \in h : pub[i].status = "rejected"
        BY <2>6, <4>1 DEF Merged
      <4>3. i \in Ids
        BY <1>1, PairsAreTwo DEF DuplicatePairs, JobOK, Listed
      <4>4. pub'[i].status = "rejected"
        BY <2>4, <2>8, <4>2, <4>3
      <4> QED BY <4>4
    <3> QED BY <3>1, <3>2
  <2>11. Merged(pub', job')
    BY <2>3, <2>10 DEF Merged
  <2> QED BY <2>9, <2>11
<1>6. CASE MergePark
  <2> SUFFICES ASSUME Alone(job', Ids') PROVE Merging(pub', job') /\ Merged(pub', job')
    OBVIOUS
  <2> DEFINE g == {job.keep, job.park}
             r == [pub[job.park] EXCEPT !.status = "rejected"]
  <2>1. /\ job' = [job EXCEPT !.keep = None, !.park = None] /\ job.keep # None
        /\ Writing(job.park, r)
    BY <1>6 DEF MergePark
  <2>2. g \in DuplicatePairs(job.snap) \ job.todo
    BY <1>1, <2>1 DEF Listed
  <2>3. job.park \in Ids /\ job.park \in DOMAIN job.snap
    BY <1>1, <2>2, PairsAreTwo DEF Listed, DuplicatePairs, JobOK
  <2>4. /\ job'.script = job.script /\ job'.todo = job.todo /\ job'.failed = job.failed
        /\ job'.snap = job.snap /\ job'.touched = job.touched /\ job'.keep = None
    BY <1>1, <2>1 DEF JobOK
  <2>5. pub'[job.park] = r /\ (\A k \in Ids \ {job.park} : pub'[k] = pub[k]) /\ Ids' = Ids
    BY <1>1, <2>1, <2>3, WritesOne
  <2>6. Alone(job, Ids)
    BY <2>4, <2>5 DEF Alone
  <2>7. Merging(pub, job) /\ Merged(pub, job)
    BY <2>6 DEF MergingInv
  <2>8. pub[job.park] \in Publications
    BY <1>1, <2>3 DEF PubOK, Ids
  <2>9. r.title = pub[job.park].title /\ r.year = pub[job.park].year
        /\ r.authors = pub[job.park].authors /\ r.status = "rejected"
    BY <2>8 DEF Publications
  <2>10. SameIdentity(r, job.snap[job.park])
    BY <2>3, <2>7, <2>9 DEF Merging, SameIdentity
  <2>11. PairedIn(job.park, job.snap)
    BY <2>2 DEF PairedIn
  <2>12. Merging(pub', job')
    <3> HIDE DEF r, g
    <3> QED BY <1>1, <2>1, <2>3, <2>4, <2>7, <2>9, <2>10, <2>11, WriteKeepsMerging
  <2>13. ASSUME NEW h \in DuplicatePairs(job.snap) \ job.todo
         PROVE  \E i \in h : pub'[i].status = "rejected"
    <3>1. CASE h = g
      BY <2>5, <2>9, <3>1
    <3>2. CASE h # g
      <4>1. PICK i \in h : pub[i].status = "rejected"
        BY <2>7, <3>2 DEF Merged
      <4>2. i \in Ids
        BY <1>1, PairsAreTwo DEF DuplicatePairs, JobOK, Listed
      <4>3. pub'[i].status = "rejected"
        BY <2>5, <2>9, <4>1, <4>2
      <4> QED BY <4>3
    <3> QED BY <3>1, <3>2
  <2>14. Merged(pub', job')
    BY <2>4, <2>13 DEF Merged
  <2> QED BY <2>12, <2>14
<1>7. CASE Finish \/ ScriptDies
  BY <1>7 DEF Finish, ScriptDies, NoJob, Alone
<1>8. CASE WriteFails
  <2>1. job'.failed = TRUE
    <3>1. \/ job' = [job EXCEPT !.keep = None, !.park = None, !.failed = TRUE]
          \/ \E x \in job.todo : job' = [job EXCEPT !.todo = @ \ {x}, !.failed = TRUE]
      BY <1>8 DEF WriteFails
    <3> QED BY <1>1, <3>1 DEF JobOK
  <2> QED BY <2>1 DEF Alone
<1>9. CASE LinkRecord \/ AliasFind \/ AliasWrite
  BY <1>1, <1>9 DEF LinkRecord, AliasFind, AliasWrite, JobOK, Alone
<1>10. ASSUME NEW i \in Ids, Touch(i)
       PROVE  Goal
  <2>1. job'.script = job.script
        /\ job'.touched = IF job.script = "none" THEN job.touched ELSE job.touched \cup {i}
    BY <1>1, <1>10 DEF Touch, JobOK
  <2> QED BY <2>1 DEF Alone
<1>11. CASE IngestUpdate
  BY <1>1, <1>10, <1>11 DEF IngestUpdate, IngestOK
<1>12. CASE Editor
  <2>1. PICK i, r : i \in Ids /\ Edit(i, r)
    BY <1>12 DEF Editor, LinkByHand, RewriteAbstract, Decide
  <2> QED BY <1>10, <2>1 DEF Edit
<1>13. CASE job' = job /\ pub' = pub
  <2>1. Ids' = Ids
    BY <1>13 DEF Ids
  <2> QED BY <1>13, <2>1 DEF MergingInv
<1>14. CASE IngestCreate
  <2>1. job' = job
    BY <1>14 DEF IngestCreate
  <2>2. pub' = pub \/ \E d : pub' = Append(pub, d)
    BY <1>14 DEF IngestCreate
  <2>3. ASSUME NEW d, pub' = Append(pub, d)
        PROVE  Len(pub) + 1 \in Ids' /\ Len(pub) + 1 \notin DOMAIN job.snap
    <3>1. Ids = 1..Len(pub) /\ Len(pub) \in Nat
      BY <1>1, IdsAreNumbers
    <3>2. Len(pub) + 1 \in Ids'
      BY <1>1, <2>3, <3>1 DEF Ids, PubOK
    <3> QED BY <1>1, <3>1, <3>2 DEF Listed
  <2> QED BY <1>13, <2>1, <2>2, <2>3 DEF Alone
<1>15. CASE IngestStart \/ IngestFind \/ IngestDies \/ UNCHANGED vars
  BY <1>13, <1>15 DEF IngestStart, IngestFind, IngestDies, vars
<1> QED
  BY <1>4, <1>5, <1>6, <1>7, <1>8, <1>9, <1>11, <1>12, <1>14, <1>15 DEF Next, Script, Ingest

LEMMA MergingInit == Init => MergingInv
BY TypeInit DEF Init, NoJob, MergingInv, Alone, Listed, None

(* When no pair is left to do, no pair of the records is one.              *)
LEMMA NothingLeft ==
    ASSUME TypeOK, Listed, Alone(job, Ids), Merging(pub, job), Merged(pub, job),
           job.todo = {}, job.keep = None, NEW g \in DuplicatePairs(pub)
    PROVE  FALSE
<1>1. PubOK /\ JobOK(job, Ids) /\ Ids = DOMAIN job.snap
  BY TypeParts DEF Alone
<1>2. pub \in Seq(Publications) /\ job.snap \in Seq(Publications) /\ g \in Pairs(pub)
  BY <1>1 DEF PubOK, JobOK, DuplicatePairs
<1>3. PICK i, j \in g : i # j /\ g = {i, j}
  BY <1>2, PairsAreTwo
<1> DEFINE t == pub[i].title
<1>4. g = Group(pub, t)
  BY <1>2, GroupIsTitled
<1>5. \A x \in Ids : pub[x].title = job.snap[x].title
  BY <1>1 DEF Merging, SameIdentity
<1>6. \A x \in g : x \in Ids /\ pub[x].title = t /\ pub[x].status # "rejected"
  BY <1>4 DEF Group, IsDedupeCandidate, Ids
<1>7. \A x \in g : job.snap[x].title = t /\ job.snap[x].status # "rejected"
  BY <1>1, <1>5, <1>6 DEF Merging
<1>8. g \subseteq Group(job.snap, t)
  BY <1>1, <1>6, <1>7 DEF Group, IsDedupeCandidate
<1>9. ASSUME NEW x \in Group(job.snap, t)
      PROVE  x \in g
  <2>1. x \in Ids /\ pub[x].title = t /\ job.snap[x].status # "rejected" /\ job.snap[x].title = t
    BY <1>1, <1>5, <1>9 DEF Group, IsDedupeCandidate
  <2>2. CASE pub[x].status # "rejected"
    BY <1>4, <2>1, <2>2 DEF Group, IsDedupeCandidate, Ids
  <2>3. CASE pub[x].status = "rejected"
    <3>1. PICK h \in DuplicatePairs(job.snap) : x \in h
      BY <1>1, <2>1, <2>3 DEF Merging, PairedIn
    <3>2. h \in Pairs(job.snap)
      BY DEF DuplicatePairs
    <3>3. h = Group(job.snap, t)
      BY <2>1, <3>1, <3>2, GroupIsTitled
    <3>4. PICK k, l \in h : h = {k, l}
      BY <1>2, <3>2, PairsAreTwo
    <3>5. x # i /\ x # j
      BY <1>6, <2>3
    <3> QED BY <1>3, <1>8, <3>1, <3>3, <3>4, <3>5
  <2> QED BY <2>2, <2>3
<1>10. g = Group(job.snap, t)
  BY <1>8, <1>9
<1>11. Cardinality(g) = 2
  BY <1>2 DEF Pairs
<1>12. g \in Pairs(job.snap)
  <2>1. i \in DOMAIN job.snap /\ job.snap[i].title = t
    BY <1>1, <1>6, <1>7
  <2> HIDE DEF t
  <2> QED BY <1>10, <1>11, <2>1 DEF Pairs
<1>13. ASSUME NEW x \in g, NEW y \in g, x # y
       PROVE  IsSameWork(job.snap[x], job.snap[y])
  <2>1. IsSameWork(pub[x], pub[y])
    BY <1>13 DEF DuplicatePairs
  <2>2. SameIdentity(pub[x], job.snap[x]) /\ SameIdentity(pub[y], job.snap[y])
    BY <1>1, <1>6 DEF Merging
  <2>3. /\ pub[x] \in Publications /\ pub[y] \in Publications
        /\ job.snap[x] \in Publications /\ job.snap[y] \in Publications
    BY <1>1, <1>2, <1>6 DEF Ids
  <2> QED BY <2>1, <2>2, <2>3, StillSameWork
<1>14. g \in DuplicatePairs(job.snap)
  BY <1>12, <1>13 DEF DuplicatePairs
<1>15. \E x \in g : pub[x].status = "rejected"
  BY <1>14 DEF Merged
<1> QED BY <1>6, <1>15

(* A merge run in which nothing failed and nobody else wrote leaves no     *)
(* pair it would merge, however many records and pairs there are, and      *)
(* whatever earlier runs were killed on.                                   *)
THEOREM MergesAreComplete == Spec => MergeIsComplete
<1> DEFINE Complete ==
             job.script = "merge" /\ job'.script = "none" /\ upsets' = upsets /\ ~job.failed
             /\ job.touched = {} /\ Ids = DOMAIN job.snap => DuplicatePairs(pub) = {}
<1>1. ASSUME MergingInv, [Next]_vars
      PROVE  Complete
  <2> SUFFICES ASSUME job.script = "merge", job'.script = "none", upsets' = upsets, ~job.failed,
                      job.touched = {}, Ids = DOMAIN job.snap
               PROVE  DuplicatePairs(pub) = {}
    OBVIOUS
  <2>1. JobOK(job, Ids) /\ upsets \in Nat /\ TypeOK /\ Listed
    BY <1>1, TypeParts, CatalogueAssumption DEF MergingInv, UpsetsOK
  <2>2. ~WriteFails /\ ~ScriptDies
    <3>1. ~Upset
      BY <2>1 DEF Upset
    <3> QED BY <3>1 DEF WriteFails, ScriptDies
  <2>3. ~\E s \in Scripts : Start(s)
    BY DEF Start
  <2>4. ~(job'.script = job.script)
    OBVIOUS
  <2>5. ~MergeKeep /\ ~MergePark /\ ~LinkRecord /\ ~AliasFind /\ ~AliasWrite
    <3>1. ~LinkRecord /\ ~AliasFind /\ ~AliasWrite
      BY DEF LinkRecord, AliasFind, AliasWrite
    <3>2. ~MergePark
      BY <2>1, <2>4 DEF MergePark, JobOK
    <3>3. ~MergeKeep
      <4> SUFFICES ASSUME MergeKeep PROVE FALSE
        OBVIOUS
      <4>1. PICK g \in job.todo : \E w, l \in g :
              job' = [job EXCEPT !.todo = @ \ {g}, !.keep = w, !.park = l]
        BY <2>1, MergeWrites
      <4>2. PICK w, l \in g : job' = [job EXCEPT !.todo = @ \ {g}, !.keep = w, !.park = l]
        BY <4>1
      <4> QED BY <2>1, <2>4, <4>2 DEF JobOK
    <3> QED BY <3>1, <3>2, <3>3
  <2>6. ~(job' = job \/ \E i : Touch(i))
    BY <2>1, <2>4 DEF Touch, JobOK
  <2>7. ~Ingest
    BY <2>6 DEF Ingest, IngestStart, IngestFind, IngestUpdate, IngestCreate, IngestDies
  <2>8. ~Editor
    BY <2>6 DEF Editor, LinkByHand, RewriteAbstract, Decide, Edit
  <2>9. Finish
    BY <1>1, <2>2, <2>3, <2>5, <2>6, <2>7, <2>8 DEF Next, Script, vars
  <2>10. job.todo = {} /\ job.keep = None
    BY <2>9 DEF Finish
  <2>11. Alone(job, Ids)
    BY DEF Alone
  <2>12. Merging(pub, job) /\ Merged(pub, job)
    BY <1>1, <2>11 DEF MergingInv
  <2> QED BY <2>1, <2>10, <2>11, <2>12, NothingLeft
<1>2. MergingInv /\ [Next]_vars => [Complete]_vars
  BY <1>1
<1> QED BY <1>2, MergingInit, MergingStep, PTL DEF Spec, MergeIsComplete

----------------------------------------------------------------------------
(* Links made by name.  A name decides, and no script changes a name or    *)
(* whose it is: rows stay telling wherever they are kept.                  *)
LEMMA MembersAreFew ==
    ASSUME NEW S, S \subseteq Members, Cardinality(S) = 1
    PROVE  S = {Min(S)} /\ Min(S) \in Members
<1>1. Members = 1..Len(Names) /\ Len(Names) \in Nat
  BY CatalogueAssumption DEF Members
<1>2. IsFiniteSet(S)
  <2>1. IsFiniteSet(1..Len(Names)) /\ S \subseteq 1..Len(Names)
    BY <1>1, FS_Interval
  <2> QED BY <2>1, FS_Subset
<1>3. Min(S) \in S
  BY MembersAreNumbers, OnlyOne
<1> QED BY <1>2, <1>3, OneElement

LEMMA LinkTells ==
    ASSUME NEW row \in Rows, Telling(row)
    PROVE  /\ Telling(LinkRow(row))
           /\ \A m : Telling(LinkedTo(row, m, "merge")) /\ Telling(LinkedTo(row, m, "hand"))
           /\ Telling([row EXCEPT !.member = None, !.via = ""])
           /\ \A k \in DOMAIN Aliases :
                Aliases[k].alias = row.name /\ MemberNamed(Aliases[k].member) # None
                    => Telling(LinkedTo(row, MemberNamed(Aliases[k].member), "script"))
<1> DEFINE Names1(n) == \A m \in Members :
                \/ Claimants(n) = {m}
                \/ \E k \in DOMAIN Aliases : Aliases[k].alias = n /\ Bearers(Aliases[k].member) = {m}
                => row.by = m
<1>1. Names1(row.name)
  BY DEF Telling
<1>2. \A m, via : LET l == LinkedTo(row, m, via) IN
         l.name = row.name /\ l.by = row.by /\ l.member = m /\ l.via = via
  BY DEF LinkedTo, Rows
<1>3. LET l == [row EXCEPT !.member = None, !.via = ""] IN
         l.name = row.name /\ l.by = row.by /\ l.via = ""
  BY DEF Rows
<1>4. ASSUME NEW l, l.name = row.name, l.by = row.by, l.via = "script" => l.member = l.by
      PROVE  Telling(l)
  BY <1>1, <1>4 DEF Telling
<1> HIDE DEF Names1
<1>5. \A m : Telling(LinkedTo(row, m, "merge")) /\ Telling(LinkedTo(row, m, "hand"))
  BY <1>2, <1>4
<1>6. Telling([row EXCEPT !.member = None, !.via = ""])
  BY <1>3, <1>4
<1>7. ASSUME MatchAuthor(row.name) # None
      PROVE  MatchAuthor(row.name) = row.by
  <2>1. Cardinality(Claimants(row.name)) = 1 /\ MatchAuthor(row.name) = Min(Claimants(row.name))
    BY <1>7 DEF MatchAuthor
  <2>2. Claimants(row.name) \subseteq Members
    BY DEF Claimants
  <2> QED BY <1>1, <2>1, <2>2, MembersAreFew DEF Names1
<1>8. Telling(LinkRow(row))
  <2>1. CASE row.member # None \/ MatchAuthor(row.name) = None
    BY <2>1 DEF LinkRow
  <2>2. CASE ~(row.member # None \/ MatchAuthor(row.name) = None)
    <3>1. LinkRow(row) = LinkedTo(row, MatchAuthor(row.name), "script")
      BY <2>2 DEF LinkRow
    <3> QED BY <1>2, <1>4, <1>7, <2>2, <3>1
  <2> QED BY <2>1, <2>2
<1>9. ASSUME NEW k \in DOMAIN Aliases, Aliases[k].alias = row.name,
             MemberNamed(Aliases[k].member) # None
      PROVE  Telling(LinkedTo(row, MemberNamed(Aliases[k].member), "script"))
  <2> DEFINE n == Aliases[k].member
  <2>1. Cardinality(Bearers(n)) = 1 /\ MemberNamed(n) = Min(Bearers(n))
    BY <1>9 DEF MemberNamed
  <2>2. Bearers(n) \subseteq Members
    BY DEF Bearers
  <2>3. MemberNamed(n) = row.by
    BY <1>1, <1>9, <2>1, <2>2, MembersAreFew DEF Names1
  <2> QED BY <1>2, <1>4, <2>3
<1> QED BY <1>5, <1>6, <1>8, <1>9

RowsTell(a) == \A r \in DOMAIN a : Telling(a[r])

LEMMA AuthorsTell ==
    ASSUME NEW a \in Seq(Rows), RowsTell(a)
    PROVE  /\ RowsTell(LinkAuthors(a))
           /\ \A b \in Seq(Rows) : RowsTell(MergeAuthorLinks(a, b))
           /\ \A k \in DOMAIN Aliases : MemberNamed(Aliases[k].member) # None =>
                RowsTell(LinkAliasInAuthors(a, Aliases[k].alias, MemberNamed(Aliases[k].member)))
<1>1. \A r \in DOMAIN a : a[r] \in Rows /\ Telling(a[r])
  BY DEF RowsTell
<1>2. RowsTell(LinkAuthors(a))
  BY <1>1, LinkTells DEF RowsTell, LinkAuthors
<1>3. ASSUME NEW b \in Seq(Rows)
      PROVE  RowsTell(MergeAuthorLinks(a, b))
  <2>1. \A r \in DOMAIN a : \A m : Telling(LinkedTo(a[r], m, "merge"))
    BY <1>1, LinkTells
  <2> QED BY <1>1, <2>1 DEF RowsTell, MergeAuthorLinks
<1>4. ASSUME NEW k \in DOMAIN Aliases, MemberNamed(Aliases[k].member) # None
      PROVE  RowsTell(LinkAliasInAuthors(a, Aliases[k].alias, MemberNamed(Aliases[k].member)))
  <2>1. ASSUME NEW r \in DOMAIN a, a[r].name = Aliases[k].alias
        PROVE  Telling(LinkedTo(a[r], MemberNamed(Aliases[k].member), "script"))
    BY <1>1, <1>4, <2>1, LinkTells
  <2> QED BY <1>1, <2>1 DEF RowsTell, LinkAliasInAuthors
<1> QED BY <1>2, <1>3, <1>4

TellInv == TypeOK /\ Listed /\ AllTelling(pub) /\ AllTelling(job.snap)

LEMMA TellingWrite ==
    ASSUME TypeOK, AllTelling(pub), NEW i \in Ids, NEW r, Writing(i, r), RowsTell(r.authors)
    PROVE  AllTelling(pub')
<1>1. pub'[i] = r /\ (\A j \in Ids \ {i} : pub'[j] = pub[j]) /\ DOMAIN pub' = Ids
  BY WritesOne DEF Ids
<1>2. ASSUME NEW j \in Ids
      PROVE  \A q \in DOMAIN pub'[j].authors : Telling(pub'[j].authors[q])
  <2>1. CASE j = i
    BY <1>1, <2>1 DEF RowsTell
  <2>2. CASE j # i
    BY <1>1, <2>2 DEF AllTelling, Ids
  <2> QED BY <2>1, <2>2
<1> QED BY <1>1, <1>2 DEF AllTelling

LEMMA TellStep ==
    ASSUME NamesTell, TellInv, [Next]_vars
    PROVE  TellInv'
<1>1. /\ PubOK /\ JobOK(job, Ids) /\ IngestOK(ingest, Ids) /\ TypeOK /\ Listed
      /\ AllTelling(pub) /\ AllTelling(job.snap)
  BY TypeParts DEF TellInv
<1>2. TypeOK' /\ Listed'
  BY Steps DEF TellInv
<1>3. SUFFICES AllTelling(pub') /\ AllTelling(job'.snap)
  BY <1>2 DEF TellInv
<1>4. ASSUME NEW i \in Ids
      PROVE  pub[i] \in Publications /\ pub[i].authors \in Seq(Rows) /\ RowsTell(pub[i].authors)
  <2>1. pub[i] \in Publications
    BY <1>1 DEF PubOK, Ids
  <2>2. pub[i].authors \in Seq(Rows)
    BY <2>1 DEF Publications
  <2>3. RowsTell(pub[i].authors)
    BY <1>1 DEF AllTelling, RowsTell, Ids
  <2> QED BY <2>1, <2>2, <2>3
<1>5. ASSUME NEW i \in DOMAIN job.snap
      PROVE  job.snap[i].authors \in Seq(Rows) /\ RowsTell(job.snap[i].authors)
  <2>1. job.snap[i] \in Publications
    BY <1>1 DEF JobOK
  <2>2. job.snap[i].authors \in Seq(Rows)
    BY <2>1 DEF Publications
  <2>3. RowsTell(job.snap[i].authors)
    BY <1>1 DEF AllTelling, RowsTell
  <2> QED BY <2>2, <2>3
<1>6. \A p \in Publications : \A a : [p EXCEPT !.authors = a].authors = a
  BY DEF Publications
<1>7. Work \in WorkRecords /\ RowsTell(Work.authors)
  BY <1>1, CatalogueAssumption DEF IngestOK, Work, NamesTell, AllTelling, RowsTell
<1>8. AllTelling(<<>>)
  BY DEF AllTelling
<1>9. ASSUME NEW s \in Scripts, Start(s)
      PROVE  AllTelling(pub') /\ AllTelling(job'.snap)
  <2>1. job'.snap = pub /\ pub' = pub
    BY <1>9 DEF Start, NoJob
  <2> QED BY <1>1, <2>1
<1>10. CASE LinkRecord
  <2>1. PICK i \in job.todo :
          /\ i \in Ids /\ i \in DOMAIN job.snap /\ job' = [job EXCEPT !.todo = @ \ {i}]
          /\ \/ pub' = pub
             \/ Writing(i, [pub[i] EXCEPT !.authors = LinkAuthors(job.snap[i].authors)])
    BY <1>1, <1>10, LinkWrites
  <2>2. job'.snap = job.snap
    BY <1>1, <2>1 DEF JobOK
  <2>3. RowsTell(LinkAuthors(job.snap[i].authors))
    BY <1>5, <2>1, AuthorsTell
  <2> QED BY <1>1, <1>4, <1>6, <2>1, <2>2, <2>3, TellingWrite
<1>11. CASE AliasFind
  <2>1. pub' = pub /\ (job'.snap = pub \/ job'.snap = job.snap)
    BY <1>1, <1>11 DEF AliasFind, JobOK
  <2> QED BY <1>1, <2>1
<1>12. CASE AliasWrite
  <2> DEFINE a == Aliases[job.alias]
             next(i) == LinkAliasInAuthors(job.snap[i].authors, a.alias, MemberNamed(a.member))
  <2>1. PICK i \in job.todo :
          /\ i \in Ids /\ i \in DOMAIN job.snap /\ job.alias \in DOMAIN Aliases
          /\ job' = [job EXCEPT !.todo = @ \ {i}, !.alias = IF job.todo = {i} THEN @ + 1 ELSE @]
          /\ pub' = pub \/ Writing(i, [pub[i] EXCEPT !.authors = next(i)])
    BY <1>1, <1>12, AliasWrites
  <2>2. job'.snap = job.snap
    BY <1>1, <2>1 DEF JobOK
  <2>3. MemberNamed(a.member) # None
    BY <1>1, <1>12 DEF AliasWrite, Listed
  <2>4. RowsTell(next(i))
    BY <1>5, <2>1, <2>3, AuthorsTell
  <2>5. CASE pub' = pub
    BY <1>1, <2>2, <2>5
  <2>6. CASE Writing(i, [pub[i] EXCEPT !.authors = next(i)])
    <3> HIDE DEF next
    <3>1. [pub[i] EXCEPT !.authors = next(i)].authors = next(i)
      BY <1>4, <1>6, <2>1
    <3> QED BY <1>1, <2>1, <2>2, <2>4, <2>6, <3>1, TellingWrite
  <2> QED BY <2>1, <2>5, <2>6
<1>13. CASE MergeKeep
  <2>1. PICK g \in job.todo : \E w, l \in g :
          /\ g = {w, l} /\ g \subseteq DOMAIN job.snap /\ g \subseteq Ids
          /\ job' = [job EXCEPT !.todo = @ \ {g}, !.keep = w, !.park = l]
          /\ Writing(w, KeepPatched(pub[w], job.snap[w], job.snap[l]))
    BY <1>1, <1>13, MergeWrites
  <2>2. PICK w, l \in g :
          /\ g = {w, l} /\ g \subseteq DOMAIN job.snap /\ g \subseteq Ids
          /\ job' = [job EXCEPT !.todo = @ \ {g}, !.keep = w, !.park = l]
          /\ Writing(w, KeepPatched(pub[w], job.snap[w], job.snap[l]))
    BY <2>1
  <2> DEFINE r == KeepPatched(pub[w], job.snap[w], job.snap[l])
             links == MergeAuthorLinks(job.snap[w].authors, job.snap[l].authors)
  <2>3. job'.snap = job.snap
    BY <1>1, <2>2 DEF JobOK
  <2>4. r.authors = pub[w].authors \/ r.authors = links
    <3>1. pub[w] \in Publications
      BY <1>4, <2>2
    <3> QED BY <3>1 DEF KeepPatched, Publications
  <2>5. RowsTell(links)
    BY <1>5, <2>2, AuthorsTell
  <2>6. RowsTell(r.authors)
    <3> HIDE DEF r, links
    <3> QED BY <1>4, <2>2, <2>4, <2>5
  <2>7. w \in Ids /\ Writing(w, r)
    BY <2>2
  <2> HIDE DEF r
  <2> QED BY <1>1, <2>3, <2>6, <2>7, TellingWrite
<1>14. CASE MergePark
  <2>1. /\ job' = [job EXCEPT !.keep = None, !.park = None] /\ job.keep # None
        /\ Writing(job.park, [pub[job.park] EXCEPT !.status = "rejected"])
    BY <1>14 DEF MergePark
  <2>2. job.park \in Ids
    BY <1>1, <2>1, PairsAreTwo DEF Listed, DuplicatePairs, JobOK
  <2>3. job'.snap = job.snap
    BY <1>1, <2>1 DEF JobOK
  <2>4. [pub[job.park] EXCEPT !.status = "rejected"].authors = pub[job.park].authors
    BY <1>4, <2>2 DEF Publications
  <2> QED BY <1>1, <1>4, <2>1, <2>2, <2>3, <2>4, TellingWrite
<1>15. CASE Finish \/ ScriptDies
  <2>1. job'.snap = <<>> /\ pub' = pub
    BY <1>15 DEF Finish, ScriptDies, NoJob
  <2> QED BY <1>1, <1>8, <2>1
<1>16. CASE WriteFails
  <2>1. /\ pub' = pub
        /\ \/ job' = [job EXCEPT !.keep = None, !.park = None, !.failed = TRUE]
           \/ \E x \in job.todo : job' = [job EXCEPT !.todo = @ \ {x}, !.failed = TRUE]
    BY <1>16 DEF WriteFails
  <2>2. job'.snap = job.snap
    BY <1>1, <2>1 DEF JobOK
  <2> QED BY <1>1, <2>1, <2>2
<1>17. CASE job' = job /\ pub' = pub
  BY <1>1, <1>17
<1>18. ASSUME NEW i \in Ids, NEW r, Touch(i), Writing(i, r), RowsTell(r.authors)
       PROVE  AllTelling(pub') /\ AllTelling(job'.snap)
  <2>1. job'.snap = job.snap
    BY <1>1, <1>18 DEF Touch, JobOK
  <2> QED BY <1>1, <1>18, <2>1, TellingWrite
<1>19. CASE IngestUpdate
  <2> DEFINE r == SafeUpdate(pub[ingest.hit], Work)
  <2>1. ingest.hit \in Ids /\ Touch(ingest.hit) /\ Writing(ingest.hit, r)
    BY <1>1, <1>19 DEF IngestUpdate, IngestOK
  <2>2. r.authors = Work.authors
    BY <1>4, <2>1 DEF SafeUpdate, Publications
  <2> HIDE DEF r
  <2> QED BY <1>7, <1>18, <2>1, <2>2
<1>20. CASE IngestCreate
  <2> DEFINE d == Draft(Work, TitleSlug(Work))
  <2>1. job' = job /\ (pub' = pub \/ pub' = Append(pub, d))
    BY <1>20 DEF IngestCreate
  <2>2. d.authors = Work.authors
    BY DEF Draft
  <2>3. pub \in Seq(Publications)
    BY <1>1 DEF PubOK
  <2> HIDE DEF d
  <2>4. ASSUME pub' = Append(pub, d)
        PROVE  AllTelling(pub')
    <3>1. /\ DOMAIN pub' = DOMAIN pub \cup {Len(pub) + 1} /\ pub'[Len(pub) + 1] = d
          /\ \A j \in DOMAIN pub : pub'[j] = pub[j]
      BY <2>3, <2>4
    <3> QED BY <1>1, <1>7, <2>2, <3>1 DEF AllTelling, RowsTell
  <2> QED BY <1>1, <2>1, <2>4
<1>21. ASSUME NEW i \in Ids, NEW r \in DOMAIN pub[i].authors, NEW m \in Picks, LinkByHand(i, r, m)
       PROVE  AllTelling(pub') /\ AllTelling(job'.snap)
  <2> DEFINE row == pub[i].authors[r]
             new == IF m = None THEN [row EXCEPT !.member = None, !.via = ""]
                    ELSE LinkedTo(row, m, "hand")
             a == [pub[i].authors EXCEPT ![r] = new]
  <2>1. row \in Rows /\ Telling(row)
    BY <1>4 DEF RowsTell
  <2>2. Telling(new)
    BY <2>1, LinkTells
  <2>3. RowsTell(a)
    <3> HIDE DEF new
    <3> QED BY <1>4, <2>2 DEF RowsTell
  <2>4. Touch(i) /\ Writing(i, [pub[i] EXCEPT !.authors = a])
    BY <1>4, <1>21 DEF LinkByHand, Edit, Publications
  <2>5. [pub[i] EXCEPT !.authors = a].authors = a
    BY <1>4, <1>6
  <2> HIDE DEF a
  <2> QED BY <1>18, <2>3, <2>4, <2>5
<1>22. ASSUME NEW i \in Ids, RewriteAbstract(i) \/ \E s : Decide(i, s)
       PROVE  AllTelling(pub') /\ AllTelling(job'.snap)
  <2>1. /\ [pub[i] EXCEPT !.abstract = "own"].authors = pub[i].authors
        /\ \A s : [pub[i] EXCEPT !.status = s].authors = pub[i].authors
    BY <1>4 DEF Publications
  <2>2. PICK q : Touch(i) /\ Writing(i, q) /\ q.authors = pub[i].authors
    BY <1>22, <2>1 DEF RewriteAbstract, Decide, Edit
  <2> QED BY <1>4, <1>18, <2>2
<1>23. CASE Editor
  BY <1>21, <1>22, <1>23 DEF Editor
<1>24. CASE IngestStart \/ IngestFind \/ IngestDies \/ UNCHANGED vars
  BY <1>17, <1>24 DEF IngestStart, IngestFind, IngestDies, vars
<1> QED
  BY <1>9, <1>10, <1>11, <1>12, <1>13, <1>14, <1>15, <1>16, <1>19, <1>20, <1>23, <1>24
  DEF Next, Script, Ingest

(* A link a script has made by comparing names is right, if the names      *)
(* tell: whatever is linked by hand, merged and ingested in between, no    *)
(* other way leads to a wrong link.                                        *)
THEOREM LinksRight ==
    ASSUME NamesTell
    PROVE  Spec => []LinksAreRight
<1>1. Init => TellInv
  BY TypeInit DEF Init, NoJob, TellInv, Listed, None, NamesTell, AllTelling
<1>2. TellInv /\ [Next]_vars => TellInv'
  BY TellStep
<1>3. TellInv => LinksAreRight
  BY DEF TellInv, AllTelling, Telling, LinksAreRight, Ids
<1> QED BY <1>1, <1>2, <1>3, PTL DEF Spec

==============================================================================
