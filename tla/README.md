# A verification of the MLKD research portal

The portal is a Payload CMS and public site (`src/web`, Next.js, Postgres), an AI service
(`src/ai`, FastAPI, its own tables in the same Postgres), and command-line pipelines and
scripts that talk to both. People edit in the admin; pipelines draft, summarise, embed and
draw. Almost every defect that matters here is between two of them: a value read over REST,
minutes of work on it, and a write that trusts it.

This directory holds TLA+ models of that core, the TLC runs that check them on small
instances, and TLAPS proofs for every size.

## Files

| file | what it is |
|---|---|
| `EditorialPromise.tla` | abstract: a status moves only by a decision that was asked for |
| `EditorialRecord.tla` | one publication record and everything that writes to it |
| `EditorialRecordProofs.tla` | the theorems about it |
| `ProviderChain.tla` | the chain of model providers, shared by request threads |
| `ProviderChainProofs.tla` | the theorems about it |
| `TopicMap.tla` | the semantic index and the topic map drawn from it |
| `TopicMapProofs.tla` | the theorems about it |
| `Roster.tla` | the member records and the scripts that fill them |
| `Catalogue.tla` | works, authors, duplicates: linking, merging, ingest |
| `Content.tla` | dissertations, projects, events, themes and their importers |
| `Portal.tla` | the public site: pages, lists, links, the map's view |
| `Panels.tla` | what the browser runs on top: admin widgets, chat, import form, with `Portal` in the same tab |
| `CatalogueProofs.tla`, `RosterProofs.tla`, `ContentProofs.tla` | the theorems about those three |
| `SiteProofs.tla` | the theorems about `Panels` and the `Portal` in it |
| `DataLemmas.tla` | lemmas about least elements, sequences, cardinalities and pages that these use |
| `MC*.tla`, `*.cfg` | instances for TLC, one cfg for each question |
| `PROJECT.json` | components, runs, mutants, the map from definitions to lines, findings, hazards, theorems |

Check one run with `tlc -config EditorialDecisions.cfg MCEditorialRecord.tla`, the proofs with
`tlapm EditorialRecordProofs.tla` (and so for the other modules of proofs).

## Inventory

Paths are below `src/`.

**Editorial record** (`web/src/collections/Publications.ts`, `fields/editorial.ts`, two hooks).
State: status, reviewer, `reviewHistory`, abstract, `aiSummary` with its label
`aiSummaryStatus`. Operations: create, save, delete; `recordEditorialDecision` rewrites the
history before a write, `autoProcessPublication` calls the AI service after it, without
waiting. Correct when the status moves only by an editor's decision, the trail says what was
decided, and no pipeline makes a label lie about its text. Hard: the hook works on the document as
loaded, so overlapping saves lose entries; text and label are two fields, and only a description
asks an editor to set the second with the first (`Publications.ts:169`).

**Summary pipelines** (`ai/app/api/routes.py` process_publication, `ai/app/pipelines/summarize.py`).
Read a record, generate (a model or the extractive draft), PATCH. Correct when human text
survives, and one failure does not stop a batch. Hard: the label is checked minutes before
the write; a timed-out PATCH may still land.

**Ingest** (`ai/app/pipelines/ingest.py`, `ai/app/payload_api.py`, the admin's import form).
Resolve an OpenAlex work, look it up by openalexId or DOI, PATCH the safe fields or POST a
draft. Correct when nothing is published without a human and one work is one record. Hard:
find and write are apart; two identifiers can match two records; the form previews one
resolution and creates by another.

**Provider chain** (`ai/app/llm`). State: the table of cooldowns of the process, unlocked. A
request lists candidates, asks them in turn, and degrades to an offline answer on any
`LLMError`. Correct when the order is kept, a refused provider rests, and every request ends
in an answer. Hard: threads share the table.

**Semantic index and topic map** (`ai/app/embeddings.py`, `pipelines/embed.py`, `cluster.py`).
State: `publication_embeddings` (with a hash of the text), `entity_embeddings`, `topic_map`.
Operations: embed run (list, hash, write, prune, redraw), embedding of one record after a save,
redrawing by hand. Correct when the index is the published corpus and the map is the index.
Hard: pages of a list that changes, last-writer-wins vectors, one commit for every statement.

**Chat, search, RAG** (`ai/app/chat.py`, `search.py`, `rag/`, `routes.py`). State: two sliding
windows per visitor, and a cache of settings. Read-only on content. Correct when answers rest on
published evidence and a visitor over budget is degraded, not refused. Hard: the windows are not
locked; a failed settings read is cached.

**Members** (`web/scripts/import-members.mjs`, `import-member-photos.mjs`, `apply-legacy-status.mjs`,
`apply-roster-names.mjs`, `apply-phd-roster.mjs`, `web/src/collections/Members.ts`). State: a profile
with name, slug, role, standing, contacts, identifiers, photo. Each script lists the members once,
matches its source to them by identifiers and names, and writes one at a time. Correct when nobody gets
another's data, what people wrote stands, and running it all again changes nothing. Hard: namesakes,
names that grow, a slug that does not, two writes for a photo.

**Works and authors** (`web/scripts/link-*.mjs`, `merge-duplicate-publications.mjs`, and the ingest).
State: identifiers, slug, author rows with their links, citations. Correct when a link is right, a merge
loses nothing and never parks a paper away, one work has one record. Hard: two updates for one merge, author
lists written as read, two identifiers that match two records, names members share.

**Other content** (`web/scripts/import-dissertations.mjs`, `import-projects.mjs`,
`import-project-descriptions.mjs`, `import-events.mjs`, `apply-research-themes.mjs`,
`prune-seed-fixtures.mjs`). Correct when the page comes in whole, editors keep what they wrote, and a
deletion takes nothing that is used. Hard: matching by title, look and write apart, one slug for
two occasions of one title.

**Public site** (`web/src/app/(frontend)`, `components`, `lib`). State: none but the tab's. A page is
several queries; lists are filtered and cut into pages; rows, cards, chips and the map link further. Correct
when it shows what is public, its links lead somewhere and its lists are whole. Hard: editors act between
the queries; every page must remember the filter.

**Browser widgets** (`web/src/components/admin`, `ChatWidget.tsx`, `web/src/app/api`). State: what a widget
shows, the form, the talk, requests under way. An admin widget lives as long as its page, the chat as long as the
root layout (`layout.tsx:201`). A route passes a request on and gives up after a time limit;
the AI service may go on. Correct when no widget waits for ever and the import form creates what was approved.
Hard: answers out of order, effects after the route has given up.

**Everything else** – migrations, generated types, dictionary, metrics, deployment – keeps no state of its own
or has no behaviour.

How they interact: editors and scripts save through Payload's hooks; the second hook calls the AI
service over HTTP; the AI service and the pipelines read and write records over Payload's REST
API with `X-Skip-Autoprocess`; index and map are tables only the AI service touches; the
site asks the AI service for search, chat and map, and filters by `published`.

## The models

### EditorialRecord

`row[p]` is the stored document, reduced to status, history, abstract and summary. A summary is who
wrote it and from which abstract; that is all its properties tell apart. Text and label are two
fields no hook ties together: `EditSummary` saves either or both, so a human's text may stand under
any label and a draft may be called edited; `apart` marks a summary whose last save by hand was not
the one the description asks for. A save with a
status is two actions: `BeginSave` (Payload loads the document and runs
`recordEditorialDecision`) and `CommitSave` (the write, then `autoProcessPublication`), or
`FailSave`. Saves without a status are one action, for no hook of theirs reads anything old.
A PATCH writes the fields it carries and, when the hook set it, the history; an admin form that
sends every field of a page loaded long ago is not modelled. `job[j]` is a
`/process/publication` request, `batch` the run of `summarize`, `ingest` one
`upsert_publication`; each has its read and its write apart. `late` holds PATCHes
whose client gave up (`payload_api` times out) and that the CMS may still carry out.
The dedupe script parks a paper by a save with `rejected`: it is one of the `Editors`.
Reviewer, note and time of a decision are left out; ids of deleted records are not reused.
`edits` counts the saves by hand that leave a label other than "none". `edits`, `seen`, `overlapped`
and `apart` are history.

Abstract specification: `EditorialPromise`, with `Statuses` and `Asked` as refinement mapping;
`StatusIsDecidedByEditors` is the claim that `EditorialRecord` implements it.

### ProviderChain

`req[t]` is the request of thread `t`: it scans the order provider by provider (`PassOver`, `NoModel`,
`Take`, `Skip`, and `SeeExpired`/`Expire`, the two halves of `_is_cooling`), then asks
(`Ask`, `Answer`, `Fail`, `Refuse`, `StartCooldown`). `entries` are the keys of `_cooling`,
`ticks` what is left of each cooldown, so time needs no bound. The environment
(`settings`) is chosen once: `get_settings` is cached for the life of the process. A probe
(`for_health`) stops at the first candidate. The retries inside litellm are part of one call.

### TopicMap

`vector[p]` and `point[p]` are the texts a row of `publication_embeddings` and of `topic_map`
was made from: two texts are equal exactly when their hashes are, and the picture drawn from
vectors is determined by them (`random_state`). A run reads pages as they are at that moment
(`OnPage`, newest first, Payload's default order), compares hashes, commits row by row, prunes in
one statement, and redraws by one DELETE and one INSERT per point: `db.connect()` is in autocommit
mode. `request[p]` is the embedding half of `/process/publication`; `due` holds calls on their way
(two for one record count once, and one record has one request at a time). UMAP, HDBSCAN and the
labels are left out: they decide where a point is, not whether it is there. `left`, `joined`,
`alone`, `picture`, `undisturbed` are history.

### Roster

`members[i]` and `media` are what the scripts and people write; `job` is the script that is running, with
`snap`, the list it read. A source row is taken in one step (`ImportEntry`, `StatusEntry`, `NameEntry`,
`DoctorEntry`), because the code awaits one update for it, but the photo importer takes two (`PhotoUpload`,
`PhotoLink`). Fields to write are chosen from `snap` and laid over the record of now, as a PATCH is. Names are
sequences of words, so that full, abbreviated and accented forms can differ. `person` and `shows` are history:
who a record or a face really is.

### Catalogue

`pub[i]` is the record as a work: identifiers, slug, authors, citations, abstract, status. The linker writes
author lists from one listing (`LinkRecord`), the alias script lists for every alias (`AliasFind`, `AliasWrite`),
a merge is `MergeKeep` and `MergePark`. `ingest` walks through `Works`, finding and writing apart. The scripts'
`matchMember`-like functions, `isSameWork`, `pickWinner`, `mergeFields` and `mergeAuthorLinks` are operators with
the code's names. `into`, `by`, `via` and `touched` are history. Two titles are equal or not: normalising them is
left out. It shares the upsert with `EditorialRecord`, which has its races on one record and no identifiers.

### Content

`docs[i]` is a document of any of the four collections. All six scripts have one shape, and the model uses it: take
a row, look (`Look`: find, or the list read at the start, or a count of links), write (`Write`). What differs are
operators: the row's data, its record, what is spared. A page that reads short stops its script. A write is refused
for a slug that is taken (`Refused`) or fails by an upset; either is reported and the next row taken, but
`import-projects.mjs` ends there. Only the second counts as `failed`, so a refusal excuses nothing by itself:
`ImportIsComplete` asks at every row that all rows taken so far are shown, and names the two slugs that may keep one out, that
of a renamed document and that of the same paper's record of another date. `held` is
history: theme links that have been there since the script began.

### Portal and Panels

`tab` is one browser tab. An address is typed (`Type`: also the search form and the sources of a chat answer, which load
a document) or a link followed (`Follow`). Opening a page reads the record it is about (`Asked`; the contacts of a
person's page are those of that first read), the other queries follow in a second
step (`Drawn`), and an editor may act between the two. A page is what it shows and where it links: `works`,
`contacts`, `links`. An address is a page, a record and filters. Lists, pagers, chips, rows and cards are operators
under their components' names. The answer of the AI service to a search is any set of public hits; the fallback over
the CMS is computed. The topic map's view is an interval on one axis, with the handlers' arithmetic.

`Panels` extends `Portal` with the widgets of the page in the tab and `requests`: sent, served, delivered to the
widget or given up by its route. A creation and a snippet go on being served after that. Opening another page
unmounts the widgets of the last one and drops what they waited for. The chat is in the site's root layout: it is on every
public page (`Framed`), also while the next one is read after a link (`kept`), and keeps its messages and its request over
any number of links; typing an address and going to the panel, which has a root layout of its own, end it. It is
modelled as switched on (`enableChatbot`). `since`, `allowed` and `calm` are history.

## What the runs show

| run | bounds | shows |
|---|---|---|
| `EditorialDecisions` | 1 paper, 2 sessions, 1 job, history of 2, no labelled save by hand | the refinement, the exact and append-only trail |
| `SummaryPipelines` | 2 papers (1 handled), 1 job, batch, 1 late write, 1 hand edit | labels honest but where an editor set text and label apart, edits that could be seen survive, a batch reaches every record |
| `EditedSummary` | the same kind of instance | **violated**: a hand edit made during generation is lost |
| `ProviderChain` | 2 threads, 2 providers, 8 deployments, cooldown of 1 tick | order, blame, fallback switch, termination |
| `CrashingRequest` | 2 threads | **violated**: `del` of an entry another thread deleted |
| `TopicMap` | 2 papers on pages of 1, 2 texts, 2 saves, no redrawing | exact undisturbed runs, prunes, settling |
| `OverlappingRuns` | 2 operators, 2 papers, 1 save, 1 crash | one picture unless redrawings overlap or break off |
| `Roster` | 4 people, 5 scripts, 1 edit, failure or crash | right faces, no upload left over, reruns change nothing, held values stand |
| `SetupRerun` | the same people, no edit and no failure | **violated**: a renamed member is refused when he is imported again |
| `Catalogue` | 2 records and 3 works of one paper, 1 edit, failure or crash | right links, merges that lose nothing, end in a record and are completed by the next run |
| `Content` | a seed of 8 documents, a paper on 3 dates, 6 scripts, 1 edit, failure, short page or crash | right people, editors' work stands, safe deletions, rows kept out by a taken slug only |
| `Site` | 4 works on pages of 1, 2 members, 2 theses, 2 news, 1 edit, 2 requests | nothing hidden is shown, links lead, lists are whole, the form creates what it previewed, widgets come back |

The violated runs state what a comment or a document of the repository says; `PROJECT.json`
quotes the lines. Every other property has a mutant, a definition named next to the one it
replaces, that TLC finds violating it.

Why the bounds are enough. The races are between two writers of one record (two sessions, a
session and a pipeline) or two threads of one process; a second record is there for the
batch and for a page boundary. Two hand edits instead of one add no case:
a pipeline compares only whether the record was edited since it read it. A history of two shows
a lost and a rewritten entry. Two saves during an embed run let a request read an old text,
the run store the new one, and the request overwrite it. A page of one puts a boundary between two
papers. In `TopicMap.cfg` `MinRows` is out of reach, so no map is drawn there; it is drawn in
`OverlappingRuns`. In `Roster`,
`Catalogue` and `Content` one upset is enough: every property speaks of a script that read
before and writes after one change, and two changes of one field are one. Four people hold the cases the pins and
matchers were written for (namesakes, a short name, an accent, a growing name); three works of one paper let a merge
meet what an ingest brought. Of the three dates of one paper in `Content` the first two are in the seed, the second under a slug of its
own, as an editor enters it; the third is refused, and comes in after the first is deleted. In `Site` pages of one give a list of two a pager, and two requests are two
lookups that overlap, a lookup and a creation, or a chat and another after links; `ListsAreWhole` is about the list of the moment, whichever page the
tab is on. Where a cfg says CHECK_DEADLOCK FALSE the system may stop: editors do, and every process may be idle, or
the bound on records is reached.

Fairness. Nothing makes an editor save or an operator start a pipeline. A run that was started
goes on: `WF(BatchStep)`, `WF(RunStep(r))`. A request in a thread goes on, and a
provider call ends by its timeout: `WF(Step(t))`. In `Panels` a route answers or gives up: `WF(Deliver or
GiveUp)`, since each fetch to the AI service has an `AbortSignal.timeout`. `IndexSettles` assumes in its statement,
and not as fairness, that embed runs are started again and again: they are started by
hand. Saves and crashes are bounded there, which is its "if people stop saving".

### Known disagreements without a run

Three runs show a disagreement between code and documentation. The others we know of are stated by the exception
in a property that passes:

- A request asks a provider that was refused after the request listed its candidates
  (`ai/app/llm/service.py:91`; the comment at 261 says it is skipped). `EarlierProvidersHadTheirTurn` speaks of order only.
- `embed.run` leaves the map as it is though a vector came by `/process/publication` (`pipelines/embed.py:39`;
  `cluster.py:7-8`). `MapIsOnePicture` speaks of one moment, not of the latest.
- `find_all` can miss a live paper when the list moves, and the pruner deletes its vector (`payload_api.py:59`;
  `embeddings.py:203-206`). This is the condition of `LivePrunedOnlyWhenListMoved`.
- The page of a news item shows related works that are not published
  (`web/src/app/(frontend)/news/[slug]/page.tsx:48`; `lib/queries.ts:3-5`: "so no page forgets it").
  `NothingHiddenIsShown` and `LinksLead` let this page off.
- `resolveMember` links one of two members who share first and last name (`web/scripts/import-dissertations.mjs:81`;
  the comment above says the name stays unresolved). `PeopleAreRight` lets these names off.
- The import form creates whatever identifier is typed by then (`ImportPublicationForm.tsx:116`). This is the condition
  `calm` of `CreatesWhatWasPreviewed`.
- A meeting "is matched on title *and* date", so that two occasions of one paper are not one record
  (`web/scripts/import-events.mjs:14-15`). But the slug comes from the title alone and is unique (`collections/Events.ts:23`,
  `fields/slug.ts:15`): the second occasion is refused, is only an error in the report, and is never imported
  while the first stands under that slug. This is an excuse in `ImportIsComplete` (`IsTaken`); without it TLC finds the property violated.
- Summaries are protected by their label alone, which nobody sets for the editor (`Publications.ts:169`): a text written by hand
  and left under "none" is replaced by the next run. `SeenEditsSurvive` speaks of labelled summaries.
- When the AI service refuses the maintenance report, the health panel says the embeddings are ready
  (`web/src/app/api/health/admin/route.ts:211-227`): modelled in `EmbeddingCheck`, restricted by no property.

## What is proved

`EditorialRecordProofs` proves, from `RecordAssumption` only (bounds are naturals, the choices are
states, the non-texts are no texts), for any records, sessions, jobs and limits:

- `TypeCorrect`: `Spec => []TypeOK`.
- `LabelsHonest`, for any saves of text, label or both by hand: honest unless the last of them set the two `apart`.
  `LabelsAreHonest` is not inductive: a job may be about to write a text it read.
  `SourcesAreReal` adds that what jobs, batch and late writes carry came from a real abstract.
- `SeenEditsAreKept`, an action property. A summary is `Protected` when it is labelled "edited", or is a human's text
  labelled "generated". The invariant `Fresh`: a process that has read a record no later than its last labelled save has
  counted fewer saves than there are, or finds it unprotected; so at the write either nothing is protected or the reader is stale.
- `TrailExact`, `TrailAppendOnly`. The invariant has three parts: `TrailEnds` (the trail of a stored record ends
  in its status, unless saves overlapped), `SavesAreAlone` (without overlap a record
  has one save under way), `SavesAreCurrent` (and that save carries the present history, extended).
- `PromiseIsKept`: initial states map to initial states, and each action to a step of the
  promise or to a stutter; `TypeOK` is the only invariant it needs.

`ProviderChainProofs`, from `ChainAssumption` (the fallback list repeats no provider, the
reserved words name none), for any providers, deployments, threads and cooldown:

- `TypeCorrect`, `BlameIsFair`, `FallbackIsASwitch` from one invariant, `ChainInv`. It says of each
  request that a thread waiting for an answer has a candidate, one deleting an entry a provider
  (`Held`); that as long as nothing was found or skipped every keyed provider is still to be
  looked at (`Blame`); that without fallback the first failure is the last (`Solo`).
- `OrderIsKept`. The scan shrinks while it fills the candidates, so the invariant `Turn` speaks of
  both: what is left is a suffix of the order and everything in front of it is accounted for
  (`Scanned`), and whoever is missing in front of a candidate is done with (`InTurn`). It rests on
  `OrderDistinct`: moving the chosen provider to the front leaves no provider twice.

`TopicMapProofs`, from `MapAssumption` (records are finitely many numbers, a page holds at least one),
for any papers, texts, runs, page size and bounds:

- `TypeCorrect`.
- `MapIsWhole`. `PictureInv`: as long as nothing overlapped or broke off, one run at most is
  redrawing and the table holds exactly what it has drawn.
- `UndisturbedExact`. `ExactInv` follows the run through its stages: the pages taken so far cover
  the list up to a place (`FirstPages`), then the whole list, then the rows written so far. The
  arithmetic of pages is `PlaceOnList` and `PagesInARow`.
- `PruneSparesTheListed`. `MetInv`: a paper that was listed all along, while nobody else left, was on
  an earlier page or is still to come; it needs `PlaceMonotone`: a list that grows moves nobody up.

`CatalogueProofs`, from `CatalogueAssumption` (the shape of the records, works, names and aliases; no two records
the catalogue starts with share a slug or an identifier), for any number of records, papers, members and upsets:

- `TypeCorrect`; with the type, no two records ever share a slug, an OpenAlex id or a DOI.
- `MergesEnd`. `MergeInv` adds that a record merged away is rejected (`Parked`) and that no pair a merge has still to
  look at holds one (`Waiting`): so a merge points from a record to one that is still kept, and closes no circle.
- `ParkedStays`, from the same invariant: no script or ingest touches the status of a parked record.
- `SeenLinksAreKept`, `NothingIsLost`. `SeenInv`: a record that is still to do and that nobody else wrote is as it was
  listed, and after `MergeKeep` the one kept holds the merged authors, abstract and citations (`Copied`). What a
  script writes over a list it read leaves the links of that list alone (`LinksStand`).
- `MergesAreComplete`. `MergingInv`, as long as the merge is alone and nothing failed: the records are those it listed, but
  for what it copied and parked (`Merging`), and of every pair that is done one record is parked or about to be
  (`Merged`). It holds for groups of any size and after any merge that was killed between its two writes.
- `LinksRight`, under `NamesTell`: a row whose name only one member answers to, or that the aliases give to one, was written of
  that member, in the records the catalogue starts with and in the index. `TellInv` carries this through links, merges and ingests, because a merge
  and an ingest only move rows and a link by hand is not a script's. Without such a hypothesis the property is false:
  no comparison of names is right about a stranger with a member's name.
- `WinnerIsDecided`, about `pickWinner` alone: the order in which it is given two records does not matter.

`RosterProofs`, from `RosterAssumption` (the shape of the sources; the members the roster starts with have no photo
and slugs that differ), for any people, sources and upsets:

- `TypeCorrect`, together with `Listed`: the script that runs works on members that exist.
- `HeldValuesKept`: fields are chosen against the list the import read, and the exceptions of `HeldValuesStand` are
  just those.
- `NoUploadForgotten`. `UploadInv` follows the photo importer between its two writes: an upload in flight belongs to a
  member it has not done (`InFlight`), and such a member had no photo when listed, so what is there now was chosen by
  a person (`NoneTaken`): no upload of the script's own is replaced.
- `FacesRight`, under `SourcesTell`: a card bears no name that a record of somebody else can come to bear (of a pinned
  card this is asked of the pin), and a dataset entry whose contact the lists go by bears no name or identifier of
  somebody without that contact. Names and contacts depend on each other: a contact an import puts on the wrong record
  makes the name script rename that record, and the photo importer then goes by the name. So `FaceInv` follows names,
  contacts and identifiers of every record and of the running script's list (`Known`), and the upload under way
  (`Carried`).

`ContentProofs`, from `ContentAssumption` (the sources are lists, projects have titles, the seed dump is a database
Payload accepted: slugs differ, theme links lead somewhere), for any pages, documents and upsets:

- `TypeCorrect`. `IInv` is the type with what a script knows of its own list: the job (`JobOK`), its rows (`RowsOK`), the
  document it writes next (`TargetOK`) and the fixtures it may delete (`FixturesOK`).
- `EditsOutliveScripts`, `RemovalsAreSafe`: what `Look` saw of its target is still so at the write, or is one of the cases
  the two properties let off: a theme about to be removed is linked by nothing that was linked all along, a fixture has
  its title alone, a project to be described had no text (`TargetOK`).
- `ImportsAreComplete`, for any pages and seeds. `SteadyOK`, as long as nothing failed by itself and nobody edited: documents
  have the titles they were read with, and new ones the slug of theirs (`NamesOK`); the target is the record that matches
  the row, and with no target there is none (`FoundOK`); every row taken is shown or its slug is taken (`Done`). A write changes no
  title and no date that was matched, and of a dissertation on two pages only the stage.
- `PeopleRight`, under `PagesTell`: a full name of a member, or the first and last word of one alone, is that member, and
  so is an alias of one alone on a project. `PeopleInv` adds that the rows of a job are the page's.

`SiteProofs`, about `Panels` with the whole of `Portal`, from `PortalAssumption` (the CMS starts with works and keeps its
foreign keys, visitors type addresses, a page holds at least one row) and `PanelsAssumption` (the import finds works for texts that are not empty: `routes.py:619` asks for three
characters):

- `HiddenStaysHidden`. `Reading` says that whatever is public while a page is read belongs to what was public since it was
  asked for, and so does the work a work's page is about; then every page of the site is looked through
  (`PagesShowPublic`).
- `LinksLeadSomewhere`, whatever is edited meanwhile: every page's links are looked through (`PagesLead`), and what is
  withdrawn after it was listed belongs to what was public since the page was asked for (`Reading`).
- `ListsStayWhole`: the pager of a page names pages that exist and leads to all of them in steps; each match is on the
  page of its quotient (`PageOf`) and on no other (`OnePage`), for any number of rows to a page.
- `SiteIsTyped`. `SiteInv`: the view stays on the canvas under the handlers' arithmetic (`ChartOK`), the page is made of
  documents that exist (`CmsOK`), a request whose answer is waited for is of a widget of the page (`PanelsOK`) or of the chat
  while its layout is in the tab, and whoever waits, the chat over any number of links included, has such a request (`WaitOK`).
- `PreviewIsKept`. `ImportInv`: what a lookup said of a key (the first record that has it, or that none of those it saw
  does) stays true, since works are only added and keep their keys (`Honest`, `Grown`); a calm form shows, and has
  under way, lookups of the identifier in it only (`Shown`, `Sound`).

Three theorems have a hypothesis beside the assumptions of their module: `NamesTell`, `SourcesTell` and `PagesTell`. They
are about the names in the data and not about the code; each is stated in the module it speaks of and is evaluated by TLC
on the instance that is checked (`MCCatalogue`, `MCRoster`, `MCContent`), where namesakes, short names and pins occur.

Only model-checked: the liveness properties (`BatchReachesEveryRecord`, `RequestsEnd`, `IndexSettles`,
`PanelsComeBack`), which the prover does not do; `RerunChangesNothing`, which is not true of every dataset (two entries
that contradict each other about one person swing at every run, as `SetupRerun` shows of a name) and which no hypothesis
shorter than the runs themselves makes true; and the three properties that are violated.

## Plan

Order by weight; every module is written without RECURSIVE operators.

1. Done: `EditorialRecord` with its abstract specification, `ProviderChain` and `TopicMap`, each with its proofs.
2. Done: breadth, with `Roster`, `Catalogue`, `Content`, `Portal` and `Panels`.
3. Done: proofs of every safety property the runs check, but for `RerunChangesNothing`.
4. Next: refinement of the index by an abstract one (a set of texts that follows the corpus).
5. `Chat`: budgets per visitor without a lock, evidence gate, one retry, degradation, settings cache;
   composed with `ProviderChain` through its outcomes.

## Not modelled

Payload's validation, access rules and REST layer; OpenAlex; litellm; the numbers of embeddings,
clusters and ranks; the wording of summaries, prompts, pages and reports; the parsing of the old site's HTML beyond
the rows it gives; budgets, evidence gate and settings cache of the chat; bios and the RAG service; generated types,
dictionary, migrations, metrics and deployment. The rows of `PROJECT.json` give the reason for each.
