------------------------------- MODULE Portal -------------------------------
(***************************************************************************)
(* The public site: one browser tab in which addresses are typed and links *)
(* followed, while editors change what the CMS holds.  A page is made in   *)
(* two steps, the record it is about and then everything else, and what it *)
(* shows is what those queries returned.  An address names the record its  *)
(* slug belongs to; year, kind, level and at are its filters and its page  *)
(* number.  Typing loads a document anew; a link from one public page to   *)
(* another leaves the root layout, and what runs in it, where they are.    *)
(***************************************************************************)
EXTENDS Integers, Sequences, FiniteSets, FiniteSetsExt, SequencesExt

CONSTANTS
    Library,        \* the works the site starts with
    Mapped,         \* those the stored topic map has a point for
    Members,        \* Members[m]: slug and the contacts the record holds
    Theses,         \* Theses[d]: slug, level and the members it names
    News,           \* News[k]: slug and the works it relates to
    Teams,          \* Teams[j]: the members of project j
    Matched,        \* Matched[t]: the records of type t that hold a word of the query
    Typed,          \* the addresses a visitor may type
    PerPage,        \* bound: PER_PAGE of every list (50, 25, 25)
    Related,        \* bound: citations listed on a page (10)
    Recent,         \* bound: works on the home page (5)
    HitLimit,       \* bound: hits of a search (30)
    Searched,       \* bound: works the fallback reads (100)
    Neighbours,     \* bound: points a mini map needs (4)
    Wide,           \* the width of the map (960)
    Closest,        \* the narrowest view of it (960 / 8)
    Focused,        \* the view a highlighted work gets (960 / 5)
    MaxEdits        \* bound: changes editors make

VARIABLES
    works,          \* the publications of the CMS
    toggles,        \* toggles[m][f]: whether member m shows contact f
    stages,         \* the stage of every dissertation
    openJobs,       \* the positions that are open
    points,         \* the works the stored topic map has a point for
    tab,            \* the page in the browser
    edits           \* how many changes there have been

cms == <<works, toggles, stages, openJobs, points>>
portalVars == <<works, toggles, stages, openJobs, points, tab, edits>>

Kinds == {"journal", "conference", "workshop", "book", "preprint", "other"}
Stages == <<"open", "ongoing", "finished">>
Levels == {"msc", "phd"}
Contacts == {"linkedin", "personal", "email"}
Types == <<"publications", "members", "projects", "dissertations", "software", "news", "events">>
Listings == {"works", "person", "theses"}
Admin == {"dashboard", "library", "document"}
None == 0

(* What the CMS holds of a work, and the addresses there are.              *)
Works ==
    [key: STRING, slug: STRING, year: Nat, kind: Kinds, refs: SUBSET STRING,
     authors: SUBSET DOMAIN Members, status: {"published", "pending_review", "hidden"},
     snippet: BOOLEAN]
Statics == {"home", "works", "people", "map", "theses", "news", "events", "jobs", "search",
            "projects", "software", "sitemap"}
Pages == Statics \cup Admin \cup {"work", "person", "thesis", "newsitem"}

(* Those under the root layout of the site; the map of the site is XML.    *)
Public(page) == page \notin Admin \cup {"sitemap"}
Routes == [page: Pages, id: Nat, year: Nat, kind: STRING, level: STRING, at: Int]

(* Those the site writes itself: filters it knows, pages from the first.   *)
Addresses ==
    [page: Pages, id: Nat, year: Nat, kind: Kinds \cup ToSet(Stages) \cup ToSet(Types) \cup {""},
     level: Levels \cup {""}, at: Nat \ {0}]

(* Relations lead to records of the database, which keeps its foreign      *)
(* keys; the sizes are those of the constants above.                       *)
ASSUME PortalAssumption ==
    /\ Library \in Seq(Works) /\ Mapped \subseteq DOMAIN Library
    /\ Typed \subseteq Routes
    /\ \A list \in {Members, Theses, News, Teams} : list \in Seq(ToSet(list))
    /\ \A d \in DOMAIN Theses : Theses[d].people \subseteq DOMAIN Members
    /\ \A j \in DOMAIN Teams : Teams[j] \subseteq DOMAIN Members
    /\ \A k \in DOMAIN News : News[k].related \subseteq DOMAIN Library
    /\ PerPage \in Nat \ {0} /\ MaxEdits \in Nat
    /\ Wide \in Nat /\ Closest \in 1..Wide /\ Focused \in Closest..Wide

Published == {p \in DOMAIN works : works[p].status = "published"}

(* lib/member.ts and PersonLinks.tsx: a contact needs a value and a toggle *)
(* that is not off; the email address needs one that is on.                *)
Visible(m, f) ==
    /\ f \in Members[m].contacts
    /\ IF f = "email" THEN toggles[m][f] = "on" ELSE toggles[m][f] # "off"
Shared == {s \in (DOMAIN Members) \X Contacts : Visible(s[1], s[2])}

----------------------------------------------------------------------------
(* Addresses.                                                              *)
Route(page, id) ==
    [page |-> page, id |-> id, year |-> 0, kind |-> "", level |-> "", at |-> 1]

(* The links of the root layout's header, its logo and its way in.         *)
Header ==
    {Route(s, None) : s \in {"home", "people", "works", "theses", "map", "news", "events",
                              "jobs", "search", "dashboard"}}

Filters(page) ==
    CASE page = "works" -> Kinds
      [] page = "theses" -> ToSet(Stages)
      [] page = "search" -> ToSet(Types)
      [] OTHER -> {}

(* A query string the page does not know is as good as none.               *)
Clean(r) ==
    [r EXCEPT !.year = IF @ \in 1000..9999 THEN @ ELSE 0,
              !.kind = IF @ \in Filters(r.page) THEN @ ELSE "",
              !.level = IF @ \in Levels THEN @ ELSE "",
              !.at = IF @ < 1 THEN 1 ELSE @]

FindPublication(p) == p \in Published /\ works[p].slug # ""
FindMember(m) == m \in DOMAIN Members /\ Members[m].slug # ""
FindDissertation(d) == d \in DOMAIN Theses /\ Theses[d].slug # ""
FindNews(k) == k \in DOMAIN News /\ News[k].slug # ""

Found(r) ==
    \/ r.page \in Statics \cup Admin
    \/ r.page = "work" /\ FindPublication(r.id)
    \/ r.page = "person" /\ FindMember(r.id)
    \/ r.page = "thesis" /\ FindDissertation(r.id)
    \/ r.page = "newsitem" /\ FindNews(r.id)

----------------------------------------------------------------------------
(* Lists: what matches the filters, in order, a page of it.                *)

(* Of a set in an order: n members, after those with fewer than skip       *)
(* before them.                                                            *)
Slice(set, Before(_, _), skip, n) ==
    {x \in set : Cardinality({y \in set : Before(y, x)}) \in skip..(skip + n - 1)}
FirstOf(set, Before(_, _), n) == Slice(set, Before, 0, n)
Latest(i, j) == i > j

StageRank(s) == CHOOSE i \in DOMAIN Stages : Stages[i] = s

Matching(r) ==
    IF r.page = "theses"
    THEN {d \in DOMAIN Theses : /\ r.kind \in {"", stages[d]}
                                /\ r.level \in {"", Theses[d].level}}
    ELSE IF r.page = "person" THEN {p \in Published : r.id \in works[p].authors}
    ELSE {p \in Published : r.year \in {0, works[p].year} /\ r.kind \in {"", works[p].kind}}

Newer(p, q) ==
    \/ works[p].year > works[q].year
    \/ works[p].year = works[q].year /\ p > q
Earlier(d, e) ==
    \/ StageRank(stages[d]) < StageRank(stages[e])
    \/ stages[d] = stages[e] /\ d > e

TotalPages(r) == (Cardinality(Matching(r)) + PerPage - 1) \div PerPage
Listed(r) ==
    LET skip == (r.at - 1) * PerPage IN
    IF r.page = "theses" THEN Slice(Matching(r), Earlier, skip, PerPage)
    ELSE Slice(Matching(r), Newer, skip, PerPage)

(* The numbers around the current one, and always the first and the last.  *)
PageWindow(current, total) ==
    {i \in (current - 1)..(current + 1) : i >= 2 /\ i <= total - 1} \cup {1, total}

(* Mutant of HrefWith: a link to another page drops the filters.           *)
HrefWithPage(r, at) == [Route(r.page, r.id) EXCEPT !.at = at]

(* Every page link keeps the filters.                                      *)
HrefWith(r, at) == [r EXCEPT !.at = at]

Pager(r) ==
    LET total == TotalPages(r)
        arrows == {n \in {r.at - 1, r.at + 1} : 1 <= n /\ (n < r.at \/ r.at < total)}
    IN  IF total <= 1 THEN {}
        ELSE {HrefWith(r, n) : n \in PageWindow(r.at, total) \cup arrows}

(* The bars of the histogram and the chips, from the whole published set.  *)
Facets(r) ==
    LET years == {works[p].year : p \in Published} IN
    {[r EXCEPT !.year = y, !.at = 1] : y \in IF years = {} THEN {} ELSE years \cup {0}}
    \cup {[r EXCEPT !.kind = k, !.at = 1] : k \in {works[p].kind : p \in Published} \cup {""}}
Chips(r) ==
    {[r EXCEPT !.kind = s, !.at = 1] : s \in ToSet(Stages) \cup {""}}
    \cup {[r EXCEPT !.level = v, !.at = 1] : v \in Levels \cup {""}}

----------------------------------------------------------------------------
(* Rows and cards, as the addresses they link to.                          *)
People(ms) == {Route("person", m) : m \in {x \in ms : Members[x].slug # ""}}

(* Mutant of PubRow: a work without a slug is linked like any other.       *)
PubRowAlways(ps, deep, tints) ==
    {Route("work", p) : p \in ps}
    \cup (IF deep THEN People(UNION {works[p].authors : p \in ps}) ELSE {})
    \cup {Route("map", p) : p \in ps \cap tints}

(* A work that has no slug stays plain text, and so do the authors of a    *)
(* row whose members were not populated (depth 0).                         *)
PubRow(ps, deep, tints) ==
    {Route("work", p) : p \in {x \in ps : works[x].slug # ""}}
    \cup (IF deep THEN People(UNION {works[p].authors : p \in ps}) ELSE {})
    \cup {Route("map", p) : p \in ps \cap tints}

DissertationRow(ds) ==
    {Route("thesis", d) : d \in {x \in ds : Theses[x].slug # ""}}
    \cup People(UNION {Theses[d].people : d \in ds})
NewsCard(ks) == {Route("newsitem", k) : k \in {x \in ks : News[x].slug # ""}}
PersonCard(ms) == People(ms)
MemberAvatarStack(ms) ==
    People(ms) \cup IF \E m \in ms : Members[m].slug = "" THEN {Route("people", None)} ELSE {}

(* ENTITY_LINK of the search page: without a slug, the list of its kind.   *)
EntityLink(h) ==
    CASE h.type = "publications" ->
            IF works[h.id].slug # "" THEN Route("work", h.id) ELSE Route("works", None)
      [] h.type = "members" ->
            IF Members[h.id].slug # "" THEN Route("person", h.id) ELSE Route("people", None)
      [] h.type = "dissertations" ->
            IF Theses[h.id].slug # "" THEN Route("thesis", h.id) ELSE Route("theses", None)
      [] h.type = "news" ->
            IF News[h.id].slug # "" THEN Route("newsitem", h.id) ELSE Route("news", None)
      [] OTHER -> Route(h.type, None)

----------------------------------------------------------------------------
(* Search: the answer of the AI service, or words looked up in the CMS.    *)
Of(type) ==
    CASE type = "publications" -> Published
      [] type = "members" -> DOMAIN Members
      [] type = "projects" -> DOMAIN Teams
      [] type = "dissertations" -> DOMAIN Theses
      [] type = "news" -> DOMAIN News
      [] OTHER -> {}
Hit(type, id) == [type |-> type, id |-> id]

(* /search/all finds what it has vectors of, and drops what is not public. *)
Answers(kind) ==
    LET all == UNION {{Hit(t, i) : i \in Of(t)} :
                         t \in IF kind = "" THEN ToSet(Types) ELSE {kind}}
    IN  {hits \in SUBSET all : Cardinality(hits) <= HitLimit}

(* The collections one after the other, the matches of each, cut at the    *)
(* number of hits.                                                         *)
TypeRank(t) == CHOOSE i \in DOMAIN Types : Types[i] = t
Precedes(h, g) ==
    \/ TypeRank(h.type) < TypeRank(g.type)
    \/ h.type = g.type /\ h.id < g.id
TextualFallback(kind) ==
    LET Read(t) == IF t = "publications" THEN FirstOf(Published, Newer, Searched) ELSE Of(t)
        matches == UNION {{Hit(t, i) : i \in Read(t) \cap Matched[t]} : t \in ToSet(Types)}
    IN  FirstOf({h \in matches : kind \in {"", h.type}}, Precedes, HitLimit)

----------------------------------------------------------------------------
(* Pages: the works and contacts they show, and the addresses they link.   *)
Page(shown, contacts, links) == [works |-> shown, contacts |-> contacts, links |-> links]
Blank == Page({}, {}, {})

HomePage(tints) ==
    LET recent == FirstOf(Published, Newer, Recent) IN
    Page(recent, {},
         PubRow(recent, FALSE, tints) \cup NewsCard(FirstOf(DOMAIN News, Latest, 2))
         \cup {Route("works", None), Route("news", None)}
         \cup {IF openJobs # {} THEN Route("jobs", None)
               ELSE [Route("theses", None) EXCEPT !.kind = "open"]})

WorksPage(r, tints) ==
    Page(Listed(r), {}, PubRow(Listed(r), TRUE, tints) \cup Facets(r) \cup Pager(r))

(* Mutant of Citations: references are looked up among all works.          *)
CitationsOfAny(pub) ==
    {p \in DOMAIN works : works[p].key \in pub.refs}
    \cup {p \in Published : pub.key \in works[p].refs}

(* The works of the group that this one cites, and those that cite it.     *)
Citations(pub) ==
    FirstOf({p \in Published : works[p].key \in pub.refs}, Latest, Related)
    \cup FirstOf({p \in Published : pub.key \in works[p].refs}, Latest, Related)

(* The points of /map: what the stored map holds of the published works.   *)
Points == points \cap Published
MiniMap(p, answered) ==
    IF answered /\ Cardinality(Points) >= Neighbours /\ p \in Points
    THEN {Route("map", p)} ELSE {}

PublicationPage(p, pub, answered) ==
    Page({p} \cup Citations(pub), {},
         People(pub.authors) \cup MiniMap(p, answered) \cup PubRow(Citations(pub), FALSE, {})
         \cup {Route("works", None)})

(* The contacts are those of the member as the page first found it.        *)
PersonPage(r, own) ==
    Page(Listed(r), own,
         PubRow(Listed(r), TRUE, {}) \cup Pager(r) \cup {Route("people", None)}
         \cup DissertationRow({d \in DOMAIN Theses : r.id \in Theses[d].people}))

(* The cards show LinkedIn; the structured data every link but the email.  *)
PeoplePage == Page({}, {s \in Shared : s[2] # "email"}, PersonCard(DOMAIN Members))

DissertationsPage(r) == Page({}, {}, DissertationRow(Listed(r)) \cup Chips(r) \cup Pager(r))
DissertationPage(d) == Page({}, {}, People(Theses[d].people) \cup {Route("theses", None)})
NewsPage == Page({}, {}, NewsCard(DOMAIN News))

(* The related works are what populating the item brings, whatever their   *)
(* status; their authors are not populated.                                *)
NewsItemPage(k) ==
    Page(News[k].related, {}, PubRow(News[k].related, FALSE, {}) \cup {Route("news", None)})

OpenPositionsPage ==
    Page({}, {}, IF openJobs # {} THEN {} ELSE {[Route("theses", None) EXCEPT !.kind = "open"]})
ProjectsPage == Page({}, {}, UNION {MemberAvatarStack(Teams[j]) : j \in DOMAIN Teams})
SearchPage(hits) ==
    Page({h.id : h \in {x \in hits : x.type = "publications"}}, {}, {EntityLink(h) : h \in hits})

MapPage(answered) ==
    IF answered
    THEN Page(Points, {}, {Route("work", p) : p \in {x \in Points : works[x].slug # ""}})
    ELSE Blank

(* Neither itself nor a section that holds nothing.                        *)
Unlisted == {"sitemap"} \cup {s \in {"projects", "software"} : Of(s) = {}}
Sitemap ==
    Page(Published, {},
         PubRow(Published, FALSE, {}) \cup NewsCard(DOMAIN News) \cup People(DOMAIN Members)
         \cup {Route("thesis", d) : d \in {x \in DOMAIN Theses : Theses[x].slug # ""}}
         \cup {Route(s, None) : s \in Statics \ Unlisted})

Made(r, pub, own, tints, hits, answered) ==
    CASE r.page = "home" -> HomePage(tints)
      [] r.page = "works" -> WorksPage(r, tints)
      [] r.page = "work" -> PublicationPage(r.id, pub, answered)
      [] r.page = "people" -> PeoplePage
      [] r.page = "person" -> PersonPage(r, own)
      [] r.page = "theses" -> DissertationsPage(r)
      [] r.page = "thesis" -> DissertationPage(r.id)
      [] r.page = "news" -> NewsPage
      [] r.page = "newsitem" -> NewsItemPage(r.id)
      [] r.page = "jobs" -> OpenPositionsPage
      [] r.page = "projects" -> ProjectsPage
      [] r.page = "search" -> SearchPage(hits)
      [] r.page = "map" -> MapPage(answered)
      [] r.page = "sitemap" -> Sitemap
      [] OTHER -> Blank

----------------------------------------------------------------------------
(* The topic map's chart: the part of the canvas in view, on one axis.     *)
Whole == [x |-> 0, w |-> Wide]
NoDrag == [from |-> -1, start |-> Whole, moved |-> FALSE]

Within(x, w) == Min({Wide - w, Max({0, x})})

(* Mutant of Panned: the drag may leave the canvas.                        *)
PannedFree(start, dx) == [x |-> start.x - (dx * start.w) \div Wide, w |-> start.w]

Panned(start, dx) == [x |-> Within(start.x - (dx * start.w) \div Wide, start.w), w |-> start.w]

(* The point under the pointer stays where it is, as far as the edges let. *)
ZoomedAt(view, c, w) ==
    LET next == Min({Wide, Max({Closest, w})}) IN
    [x |-> Within(view.x + (c * (view.w - next)) \div Wide, next), w |-> next]

(* Arriving from a link of a work: centred on its place, when it has one.  *)
FirstView(r, answered, place) ==
    IF r.page = "map" /\ answered /\ r.id \in Points
    THEN [x |-> Within(place - Focused \div 2, Focused), w |-> Focused]
    ELSE Whole

----------------------------------------------------------------------------
(* The tab.  In pub and own, what the page has read first: its work, the   *)
(* contacts of its member.  In kept, whether the root layout stays while   *)
(* the page is read.  In since and allowed, the works and contacts that    *)
(* were public at some moment since the page was asked for (history).      *)
NoWork == [key |-> "", slug |-> "", year |-> 0, kind |-> "", refs |-> {}, authors |-> {},
           status |-> "", snippet |-> FALSE]

Asked(r, kept) ==
    [route |-> r, step |-> IF Found(r) THEN "reading" ELSE "missing", kept |-> kept /\ Found(r),
     pub |-> IF r.page = "work" /\ Found(r) THEN works[r.id] ELSE NoWork,
     own |-> IF r.page = "person" THEN {s \in Shared : s[1] = r.id} ELSE {},
     since |-> Published, allowed |-> Shared,
     page |-> Blank, view |-> Whole, drag |-> NoDrag]

PortalInit ==
    /\ works = Library
    /\ toggles = [m \in DOMAIN Members |-> [f \in Contacts |-> "unset"]]
    /\ stages = [d \in DOMAIN Theses |-> "open"]
    /\ openJobs = {}
    /\ points = Mapped
    /\ tab = Asked(Route("home", None), FALSE)
    /\ edits = 0

(* The root layout is in the tab, and with it the header and the chat.     *)
Framed == Public(tab.route.page) /\ (tab.step # "reading" \/ tab.kept)

(* Typing an address, or what loads it like one: the form of the search,   *)
(* the sources of an answer of the chat.                                   *)
Type(r) ==
    /\ r \in Typed
    /\ tab' = Asked(Clean(r), FALSE)
    /\ UNCHANGED <<works, toggles, stages, openJobs, points, edits>>

(* Following a link; the chart swallows a click while the pointer that     *)
(* dragged it is still down.  The panel has a root layout of its own.      *)
Follow(r) ==
    /\ (tab.step = "made" /\ r \in tab.page.links) \/ (Framed /\ r \in Header)
    /\ ~ tab.drag.moved
    /\ tab' = Asked(Clean(r), Framed /\ Public(r.page))
    /\ UNCHANGED <<works, toggles, stages, openJobs, points, edits>>

(* The remaining queries; the AI service may not answer in time.  Place is *)
(* where the stored map draws the work it is opened for.                   *)
Assemble(tints, hits, answered, place) ==
    /\ tab.step = "reading"
    /\ tab' = [tab EXCEPT !.step = "made", !.kept = FALSE,
                          !.page = Made(tab.route, tab.pub, tab.own, tints, hits, answered),
                          !.view = FirstView(tab.route, answered, place)]
    /\ UNCHANGED <<works, toggles, stages, openJobs, points, edits>>

Drawn ==
    \/ /\ tab.route.page \in {"work", "map"}
       /\ \E answered \in BOOLEAN, place \in 0..Wide : Assemble({}, {}, answered, place)
    \/ /\ tab.route.page \in {"home", "works"}
       /\ \E tints \in {{}, points} : Assemble(tints, {}, TRUE, 0)
    \/ /\ tab.route.page = "search"
       /\ \E hits \in Answers(tab.route.kind) \cup {TextualFallback(tab.route.kind)} :
            Assemble({}, hits, TRUE, 0)
    \/ /\ tab.route.page \notin {"work", "map", "home", "works", "search"}
       /\ Assemble({}, {}, TRUE, 0)

OnChart == tab.route.page = "map" /\ tab.step = "made" /\ tab.page.works # {}
Gesture(view, drag) ==
    /\ OnChart
    /\ tab' = [tab EXCEPT !.view = view, !.drag = drag]
    /\ UNCHANGED <<works, toggles, stages, openJobs, points, edits>>

Wheel(c) ==
    \/ Gesture(ZoomedAt(tab.view, c, tab.view.w \div 2), tab.drag)
    \/ Gesture(ZoomedAt(tab.view, c, tab.view.w * 2), tab.drag)
(* The buttons pass the middle of the view where a pointer is expected.    *)
ZoomButton ==
    \/ \E w \in {tab.view.w \div 2, tab.view.w * 2} :
         Gesture(ZoomedAt(tab.view, tab.view.x + tab.view.w \div 2, w), tab.drag)
    \/ tab.view.w < Wide /\ Gesture(Whole, tab.drag)
PointerDown(c) ==
    Gesture(tab.view, [from |-> c, start |-> tab.view, moved |-> FALSE])
PointerMove(c) ==
    /\ tab.drag.from >= 0
    /\ Gesture(Panned(tab.drag.start, c - tab.drag.from),
               [tab.drag EXCEPT !.moved = @ \/ c # tab.drag.from])
PointerUp == tab.drag.from >= 0 /\ Gesture(tab.view, NoDrag)

----------------------------------------------------------------------------
(* Editors, and the clustering that redraws the map.                       *)
Noticed ==
    tab' = [tab EXCEPT !.since = IF tab.step = "reading" THEN @ \cup Published' ELSE @,
                       !.allowed = IF tab.step = "reading" THEN @ \cup Shared' ELSE @]
Edited == edits < MaxEdits /\ edits' = edits + 1

Publish(p) ==
    /\ Edited
    /\ p \notin Published
    /\ works' = [works EXCEPT ![p].status = "published"]
    /\ UNCHANGED <<toggles, stages, openJobs, points>>
    /\ Noticed
Withdraw(p) ==
    /\ Edited
    /\ p \in Published
    /\ works' = [works EXCEPT ![p].status = "hidden"]
    /\ UNCHANGED <<toggles, stages, openJobs, points>>
    /\ Noticed
Toggle(m, f, v) ==
    /\ Edited
    /\ f \in Members[m].contacts /\ v # toggles[m][f]
    /\ toggles' = [toggles EXCEPT ![m][f] = v]
    /\ UNCHANGED <<works, stages, openJobs, points>>
    /\ Noticed
SetStage(d, s) ==
    /\ Edited
    /\ stages[d] # s
    /\ stages' = [stages EXCEPT ![d] = s]
    /\ UNCHANGED <<works, toggles, openJobs, points>>
    /\ Noticed
SetJobs(jobs) ==
    /\ Edited
    /\ openJobs # jobs
    /\ openJobs' = jobs
    /\ UNCHANGED <<works, toggles, stages, points>>
    /\ Noticed
Redraw ==
    /\ Edited
    /\ points # Published
    /\ points' = Published
    /\ UNCHANGED <<works, toggles, stages, openJobs>>
    /\ Noticed

(* Everything but opening a page.                                          *)
Browse ==
    \/ Drawn
    \/ \E c \in {0, Wide} : Wheel(c) \/ PointerDown(c) \/ PointerMove(c)
    \/ ZoomButton
    \/ PointerUp
    \/ \E p \in DOMAIN works : Publish(p) \/ Withdraw(p)
    \/ \E m \in DOMAIN Members, f \in Contacts, v \in {"on", "off"} : Toggle(m, f, v)
    \/ \E d \in DOMAIN Theses, s \in ToSet(Stages) : SetStage(d, s)
    \/ \E jobs \in {{}, {1}} : SetJobs(jobs)
    \/ Redraw

----------------------------------------------------------------------------
(* Addresses are those of the site, a page is made of what exists, and the *)
(* view of the map lies on its canvas whatever the visitor drags or zooms. *)
OnCanvas(view) == view.w \in Closest..Wide /\ view.x \in 0..(Wide - view.w)
PortalTypeOK ==
    /\ works \in Seq(Works)
    /\ toggles \in [DOMAIN Members -> [Contacts -> {"on", "off", "unset"}]]
    /\ stages \in [DOMAIN Theses -> ToSet(Stages)]
    /\ points \subseteq DOMAIN works
    /\ tab.step \in {"reading", "made", "missing"}
    /\ tab.page.works \subseteq DOMAIN works
    /\ tab.page.links \cup {tab.route} \subseteq Addresses
    /\ OnCanvas(tab.view) /\ OnCanvas(tab.drag.start) /\ tab.drag.from \in -1..Wide
    /\ edits \in 0..MaxEdits

(* A work or a contact on a page was public at some moment since the page  *)
(* was asked for: every query of web/src/app goes through published(),     *)
(* every contact through visible().  The page of a news item is let off:   *)
(* it shows its related works whatever their status.                       *)
NothingHiddenIsShown ==
    tab.route.page # "newsitem" =>
        tab.page.works \subseteq tab.since /\ tab.page.contacts \subseteq tab.allowed

(* Every link of a page leads to a page: the rows, cards, citations,       *)
(* search hits and the sitemap agree with the query of the page they lead  *)
(* to.  A link may be dead only when its work, published at some moment    *)
(* since the page was asked for, has been withdrawn after it was listed.   *)
(* (The related works of a news item are linked whatever their status.)    *)
LinksLead ==
    tab.route.page # "newsitem" =>
        \A l \in tab.page.links :
            Found(l) \/ (l.page = "work" /\ l.id \in tab.since /\ works[l.id].slug # "")

(* From any page of a list the pager leads, with the same filters, to all  *)
(* its pages and nowhere else; together they show every match, and each of *)
(* them on one page only.                                                  *)
ListsAreWhole ==
    LET r == tab.route
        pages == {[r EXCEPT !.at = n] : n \in 1..TotalPages(r)}
    IN  (r.page \in Listings /\ r \in pages) =>
            /\ \A q \in pages : Pager(q) \subseteq pages
            /\ \A S \in SUBSET pages : (r \in S /\ \A q \in S : Pager(q) \subseteq S) => S = pages
            /\ UNION {Listed(q) : q \in pages} = Matching(r)
            /\ \A q, p \in pages : q # p => Listed(q) \cap Listed(p) = {}
=============================================================================
