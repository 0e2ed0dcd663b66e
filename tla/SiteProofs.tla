----------------------------- MODULE SiteProofs ------------------------------
(* Theorems about Panels and the Portal it contains: for any content of the *)
(* CMS, any addresses a visitor types, any page sizes and any number of     *)
(* edits and requests.                                                      *)
EXTENDS Panels, DataLemmas

----------------------------------------------------------------------------
(* What a page shows, and where its links lead.                            *)
LEMMA SomeOfThem ==
    ASSUME NEW S, NEW n
    PROVE  FirstOf(S, Newer, n) \subseteq S /\ FirstOf(S, Latest, n) \subseteq S
           /\ FirstOf(S, Precedes, n) \subseteq S
BY DEF FirstOf, Slice

LEMMA ListedMatch == ASSUME NEW r PROVE Listed(r) \subseteq Matching(r)
BY DEF Listed, Slice

LEMMA ListedArePublished ==
    ASSUME NEW r, r.page \in {"works", "person"}
    PROVE  Listed(r) \subseteq Published
<1>1. Matching(r) \subseteq Published
  BY DEF Matching
<1> QED BY <1>1, ListedMatch

(* A hit is a record of its type, whoever found it.                        *)
Hits(kind) == {{}} \cup Answers(kind) \cup {TextualFallback(kind)}

LEMMA HitsExist ==
    ASSUME NEW kind, NEW hits \in Hits(kind), NEW h \in hits
    PROVE  h = Hit(h.type, h.id) /\ h.id \in Of(h.type)
<1>1. ASSUME NEW t, NEW i \in Of(t), h = Hit(t, i)
      PROVE  h = Hit(h.type, h.id) /\ h.id \in Of(h.type)
  BY <1>1 DEF Hit
<1>2. CASE hits \in Answers(kind)
  <2>1. hits \subseteq UNION {{Hit(t, i) : i \in Of(t)} :
                                 t \in IF kind = "" THEN ToSet(Types) ELSE {kind}}
    BY <1>2 DEF Answers
  <2>2. PICK t : \E i \in Of(t) : h = Hit(t, i)
    BY <2>1
  <2> QED BY <1>1, <2>2
<1>3. CASE hits = TextualFallback(kind)
  <2> DEFINE Read(t) == IF t = "publications" THEN FirstOf(Published, Newer, Searched) ELSE Of(t)
             matches == UNION {{Hit(t, i) : i \in Read(t) \cap Matched[t]} : t \in ToSet(Types)}
             chosen == {g \in matches : kind \in {"", g.type}}
  <2>1. hits = FirstOf(chosen, Precedes, HitLimit)
    BY <1>3 DEF TextualFallback
  <2>2. h \in matches
    <3> HIDE DEF matches
    <3> QED BY <2>1, SomeOfThem
  <2>3. PICK t \in ToSet(Types) : \E i \in Read(t) \cap Matched[t] : h = Hit(t, i)
    BY <2>2
  <2>4. Read(t) \subseteq Of(t)
    BY SomeOfThem DEF Of
  <2> HIDE DEF Read
  <2> QED BY <1>1, <2>3, <2>4
<1> QED BY <1>2, <1>3 DEF Hits

(* Every page but a news item is made of works that are published, the one *)
(* it is about aside, and of contacts that are shared, or that it read     *)
(* first.                                                                  *)
LEMMA PagesShowPublic ==
    ASSUME NEW r, r.page # "newsitem", NEW pub, NEW own, NEW tints, NEW answered,
           NEW hits \in Hits(r.kind)
    PROVE  LET page == Made(r, pub, own, tints, hits, answered) IN
           /\ page.works \subseteq Published \cup (IF r.page = "work" THEN {r.id} ELSE {})
           /\ page.contacts \subseteq Shared \cup own
<1> DEFINE page == Made(r, pub, own, tints, hits, answered)
<1>1. CASE r.page = "home"
  <2>1. page.works = FirstOf(Published, Newer, Recent) /\ page.contacts = {}
    BY <1>1 DEF Made, HomePage, Page
  <2> QED BY <2>1, SomeOfThem
<1>2. CASE r.page = "works"
  <2>1. page.works = Listed(r) /\ page.contacts = {}
    BY <1>2 DEF Made, WorksPage, Page
  <2> QED BY <1>2, <2>1, ListedArePublished
<1>3. CASE r.page = "work"
  <2>1. page.works = {r.id} \cup Citations(pub) /\ page.contacts = {}
    BY <1>3 DEF Made, PublicationPage, Page
  <2>2. Citations(pub) \subseteq Published
    BY SomeOfThem DEF Citations
  <2> QED BY <1>3, <2>1, <2>2
<1>4. CASE r.page = "person"
  <2>1. page.works = Listed(r) /\ page.contacts = own
    BY <1>4 DEF Made, PersonPage, Page
  <2> QED BY <1>4, <2>1, ListedArePublished
<1>5. CASE r.page = "people"
  BY <1>5 DEF Made, PeoplePage, Page
<1>6. CASE r.page = "search"
  <2>1. page.works = {h.id : h \in {x \in hits : x.type = "publications"}} /\ page.contacts = {}
    BY <1>6 DEF Made, SearchPage, Page
  <2>2. ASSUME NEW h \in hits, h.type = "publications"
        PROVE  h.id \in Published
    BY <2>2, HitsExist DEF Of
  <2> QED BY <2>1, <2>2
<1>7. CASE r.page = "map"
  BY <1>7 DEF Made, MapPage, Page, Blank, Points
<1>8. CASE r.page = "sitemap"
  BY <1>8 DEF Made, Sitemap, Page
<1>9. CASE r.page \in {"theses", "thesis", "news", "jobs", "projects"}
  BY <1>9 DEF Made, DissertationsPage, DissertationPage, NewsPage, OpenPositionsPage,
              ProjectsPage, Page
<1>10. CASE r.page \notin {"home", "works", "work", "person", "people", "search", "map", "sitemap",
                           "theses", "thesis", "news", "jobs", "projects"}
  BY <1>10 DEF Made, Blank, Page
<1> QED BY <1>1, <1>2, <1>3, <1>4, <1>5, <1>6, <1>7, <1>8, <1>9, <1>10

----------------------------------------------------------------------------
(* The tab is a record, whatever the step, and no work ever goes; an edit  *)
(* changes what is public and is noticed.                                  *)
TabShape ==
    DOMAIN tab = {"route", "step", "kept", "pub", "own", "since", "allowed", "page", "view", "drag"}
Shape == works \in Seq(Works) /\ Len(Library) \in 0..Len(works) /\ TabShape

(* What a step of the portal may do to the tab.                            *)
Turns ==        \* another page is asked for
    \E r : Type(r) \/ Follow(r)
Makes ==        \* the page asked for is there
    /\ tab.step = "reading"
    /\ \E tints, answered : \E place \in 0..Wide, hits \in Hits(tab.route.kind) :
        tab' = [tab EXCEPT !.step = "made", !.kept = FALSE,
                           !.page = Made(tab.route, tab.pub, tab.own, tints, hits, answered),
                           !.view = FirstView(tab.route, answered, place)]
    /\ UNCHANGED <<works, toggles>>
Dragged ==      \* the chart is dragged or zoomed
    \/ \E c \in {0, Wide} : Wheel(c) \/ PointerDown(c) \/ PointerMove(c)
    \/ ZoomButton
    \/ PointerUp
Moves ==
    /\ Dragged
    /\ \E v, d : tab' = [tab EXCEPT !.view = v, !.drag = d]
    /\ UNCHANGED <<works, toggles>>
Changes ==      \* an editor
    /\ Noticed
    /\ works' \in Seq(Works) /\ Len(works') = Len(works)
    /\ \A p \in DOMAIN works : works'[p].key = works[p].key /\ works'[p].slug = works[p].slug
Serves ==       \* a request of a widget
    /\ UNCHANGED <<tab, toggles>>
    /\ works' \in Seq(Works) /\ Len(works) <= Len(works')
    /\ \A p \in DOMAIN works : works'[p].status = works[p].status /\ works'[p].key = works[p].key
                               /\ works'[p].slug = works[p].slug
    /\ \A p \in DOMAIN works' \ DOMAIN works : works'[p].status = "pending_review"

LEMMA WorkRecord ==
    ASSUME NEW w \in Works
    PROVE  /\ \A v \in {"published", "pending_review", "hidden"} :
                LET x == [w EXCEPT !.status = v] IN x \in Works /\ x.slug = w.slug /\ x.key = w.key
           /\ LET x == [w EXCEPT !.snippet = TRUE] IN
                x \in Works /\ x.slug = w.slug /\ x.key = w.key /\ x.status = w.status
           /\ LET x == [w EXCEPT !.authors = {}] IN
                x \in Works /\ x.slug = w.slug /\ x.key = w.key /\ x.status = w.status
BY DEF Works

LEMMA WorkAt ==
    ASSUME works \in Seq(Works), NEW p \in DOMAIN works
    PROVE  /\ works[p] \in Works /\ works[p].authors \subseteq DOMAIN Members
           /\ works[p].year \in Nat /\ works[p].kind \in Kinds /\ p \in Nat \ {0}
<1>1. works[p] \in Works
  OBVIOUS
<1>2. p \in Nat \ {0}
  OBVIOUS
<1> QED BY <1>1, <1>2 DEF Works

LEMMA Rewritten ==
    ASSUME works \in Seq(Works), NEW p \in DOMAIN works, NEW w \in Works,
           works' = [works EXCEPT ![p] = w]
    PROVE  /\ works' \in Seq(Works) /\ Len(works') = Len(works) /\ DOMAIN works' = DOMAIN works
           /\ works'[p] = w /\ \A q \in DOMAIN works \ {p} : works'[q] = works[q]
<1>1. works' \in Seq(Works) /\ Len(works') = Len(works) /\ DOMAIN works' = DOMAIN works
  BY ReplacedIsSeq
<1> QED BY <1>1

LEMMA EditsChange ==
    ASSUME Shape, NEW p \in DOMAIN works, Publish(p) \/ Withdraw(p)
    PROVE  Changes
<1>1. works[p] \in Works
  BY DEF Shape
<1>2. PICK v \in {"published", "hidden"} : works' = [works EXCEPT ![p].status = v]
  BY DEF Publish, Withdraw
<1> DEFINE w == [works[p] EXCEPT !.status = v]
<1>3. /\ w \in Works /\ works' = [works EXCEPT ![p] = w]
      /\ w.key = works[p].key /\ w.slug = works[p].slug
  BY <1>1, <1>2, WorkRecord
<1> HIDE DEF w
<1>4. /\ works' \in Seq(Works) /\ Len(works') = Len(works)
      /\ \A q \in DOMAIN works : works'[q].key = works[q].key /\ works'[q].slug = works[q].slug
  BY <1>3, Rewritten DEF Shape
<1> QED BY <1>4 DEF Changes, Publish, Withdraw

LEMMA ZeroIsOn == 0 \in 0..Wide
BY PortalAssumption

LEMMA BrowseSteps ==
    ASSUME Shape, Browse
    PROVE  Makes \/ Moves \/ Changes
<1>1. CASE Drawn
  <2>1. \E tints, answered : \E place \in 0..Wide, hits \in Hits(tab.route.kind) :
          Assemble(tints, hits, answered, place)
    <3> DEFINE H == Answers(tab.route.kind) \cup {TextualFallback(tab.route.kind)}
    <3>1. \/ \E tints, answered : \E place \in 0..Wide : Assemble(tints, {}, answered, place)
          \/ \E hits \in H : Assemble({}, hits, TRUE, 0)
      <4>1. CASE \E answered \in BOOLEAN, place \in 0..Wide : Assemble({}, {}, answered, place)
        BY <4>1
      <4>2. CASE (\E tints \in {{}, points} : Assemble(tints, {}, TRUE, 0))
                 \/ Assemble({}, {}, TRUE, 0)
        BY <4>2, ZeroIsOn
      <4>3. CASE \E hits \in H : Assemble({}, hits, TRUE, 0)
        BY <4>3
      <4> HIDE DEF H
      <4> QED BY <1>1, <4>1, <4>2, <4>3 DEF Drawn, H
    <3> QED BY <3>1, ZeroIsOn DEF Hits
  <2>2. PICK tints, answered : \E place \in 0..Wide, hits \in Hits(tab.route.kind) :
          Assemble(tints, hits, answered, place)
    BY <2>1
  <2>3. PICK place \in 0..Wide, hits \in Hits(tab.route.kind) :
          Assemble(tints, hits, answered, place)
    BY <2>2
  <2> QED BY <2>3, Zenon DEF Assemble, Makes
<1>2. CASE Dragged
  <2>1. \E v, d : Gesture(v, d)
    BY <1>2 DEF Dragged, Wheel, PointerDown, PointerMove, ZoomButton, PointerUp
  <2> QED BY <1>2, <2>1 DEF Gesture, Moves
<1>3. CASE \E p \in DOMAIN works : Publish(p) \/ Withdraw(p)
  BY <1>3, EditsChange
<1>4. CASE \/ \E m \in DOMAIN Members, f \in Contacts, v \in {"on", "off"} : Toggle(m, f, v)
           \/ \E d \in DOMAIN Theses, s \in ToSet(Stages) : SetStage(d, s)
           \/ \E jobs \in {{}, {1}} : SetJobs(jobs)
           \/ Redraw
  BY <1>4 DEF Toggle, SetStage, SetJobs, Redraw, Changes, Shape
<1> QED BY <1>1, <1>2, <1>3, <1>4 DEF Browse, Dragged

LEMMA ServeSteps ==
    ASSUME Shape, NEW q \in requests, Serve(q)
    PROVE  Serves
<1>1. CASE \/ ServeHealth(q) \/ ServeCoverage(q) \/ ServeMaintenance(q) \/ ServeRag(q)
           \/ ServeChat(q) \/ ServeLookup(q)
  <2>1. UNCHANGED portalVars
    BY <1>1 DEF ServeHealth, ServeCoverage, ServeMaintenance, ServeRag, Reported, ServeChat,
                ServeLookup
  <2> QED BY <2>1 DEF portalVars, Serves, Shape
<1>2. CASE ServeSnippet(q)
  <2>1. CASE works' = works
    BY <1>2, <2>1 DEF ServeSnippet, Serves, Shape
  <2>2. CASE q.arg \in DOMAIN works /\ works' = [works EXCEPT ![q.arg].snippet = TRUE]
    <3> DEFINE p == q.arg
               w == [works[p] EXCEPT !.snippet = TRUE]
    <3>1. works[p] \in Works
      BY <2>2 DEF Shape
    <3>2. /\ w \in Works /\ works' = [works EXCEPT ![p] = w]
          /\ w.status = works[p].status /\ w.key = works[p].key /\ w.slug = works[p].slug
      BY <2>2, <3>1, WorkRecord
    <3> HIDE DEF w, p
    <3>3. /\ works' \in Seq(Works) /\ Len(works') = Len(works) /\ DOMAIN works' = DOMAIN works
          /\ works'[p] = w /\ \A k \in DOMAIN works \ {p} : works'[k] = works[k]
      BY <2>2, <3>2, Rewritten DEF Shape, p
    <3>4. tab' = tab /\ toggles' = toggles /\ Len(works) <= Len(works')
      BY <1>2, <3>3 DEF ServeSnippet, Shape
    <3> QED BY <3>2, <3>3, <3>4 DEF Serves
  <2> QED BY <1>2, <2>1, <2>2 DEF ServeSnippet
<1>3. CASE ServeCreate(q)
  <2>1. tab' = tab /\ toggles' = toggles
    BY <1>3 DEF ServeCreate
  <2>2. CASE works' = works
    BY <2>1, <2>2 DEF Serves, Shape
  <2>3. CASE q.arg \in Resolved /\ Known(q.arg) = None /\ works' = Append(works, Imported(q.arg))
    <3>1. Imported(q.arg) \in Works /\ Imported(q.arg).status = "pending_review"
      <4>1. q.arg \in STRING
        BY <2>3, PanelsAssumption
      <4> QED BY <4>1 DEF Kinds, Works, Imported
    <3> HIDE DEF Imported
    <3>2. /\ works' \in Seq(Works) /\ Len(works') = Len(works) + 1
          /\ \A p \in DOMAIN works : works'[p] = works[p]
          /\ DOMAIN works' \ DOMAIN works = {Len(works) + 1} /\ works'[Len(works) + 1] = Imported(q.arg)
          /\ Len(works) \in Nat
      BY <2>3, <3>1 DEF Shape
    <3> QED BY <2>1, <3>1, <3>2 DEF Serves
  <2>4. CASE Known(q.arg) # None /\ works' = [works EXCEPT ![Known(q.arg)].authors = {}]
    <3> DEFINE p == Known(q.arg)
               w == [works[p] EXCEPT !.authors = {}]
    <3>1. p \in DOMAIN works
      <4> DEFINE ids == {k \in DOMAIN works : works[k].key = q.arg}
      <4>1. ids # {} /\ p = Min(ids)
        BY <2>4 DEF Known
      <4>2. ids \subseteq Nat
        BY DEF Shape
      <4>3. Min(ids) \in ids
        <5> HIDE DEF ids
        <5> QED BY <4>1, <4>2, MinIsLeast
      <4> QED BY <4>1, <4>3
    <3>2. works[p] \in Works
      BY <3>1 DEF Shape
    <3>3. /\ w \in Works /\ works' = [works EXCEPT ![p] = w]
          /\ w.status = works[p].status /\ w.key = works[p].key /\ w.slug = works[p].slug
      BY <2>4, <3>2, WorkRecord
    <3> HIDE DEF w, p
    <3>4. /\ works' \in Seq(Works) /\ Len(works') = Len(works) /\ DOMAIN works' = DOMAIN works
          /\ works'[p] = w /\ \A k \in DOMAIN works \ {p} : works'[k] = works[k]
      BY <3>1, <3>3, Rewritten DEF Shape
    <3>5. Len(works) <= Len(works')
      BY <3>4 DEF Shape
    <3> QED BY <2>1, <3>3, <3>4, <3>5 DEF Serves
  <2> QED BY <1>3, <2>2, <2>3, <2>4 DEF ServeCreate
<1> QED BY <1>1, <1>2, <1>3 DEF Serve

LEMMA Steps ==
    ASSUME Shape, Next
    PROVE  Turns \/ Makes \/ Moves \/ Changes \/ Serves
<1>1. CASE \E r \in Typed \cup Header \cup tab.page.links : Visit(r)
  BY <1>1 DEF Visit, Turns
<1>2. CASE Browse
  BY <1>2, BrowseSteps
<1>3. CASE \E q \in requests : Serve(q)
  BY <1>3, ServeSteps
<1>4. CASE \/ LoadHealth \/ LoadCoverage \/ LoadMaintenance
           \/ Ask \/ Generate \/ Say \/ Lookup \/ Create \/ ImportAnother
           \/ \E k \in Keys : EditIdentifier(k)
           \/ \E q \in requests : Deliver(q) \/ GiveUp(q)
  <2>1. UNCHANGED portalVars
    BY <1>4 DEF LoadHealth, LoadCoverage, LoadMaintenance, Load, Ask, Generate, Say, Lookup,
                Create, ImportAnother, EditIdentifier, Deliver, GiveUp, Result
  <2> QED BY <2>1 DEF portalVars, Serves, Shape
<1> QED BY <1>1, <1>2, <1>3, <1>4 DEF Next

LEMMA ShapeStep ==
    ASSUME Shape, [Next]_vars
    PROVE  Shape'
<1>1. CASE UNCHANGED vars
  BY <1>1 DEF vars, portalVars, Shape, TabShape
<1>2. CASE Turns
  BY <1>2 DEF Turns, Type, Follow, Asked, Shape, TabShape
<1>3. CASE Makes \/ Moves
  BY <1>3 DEF Makes, Moves, Shape, TabShape
<1>4. CASE Changes \/ Serves
  <2>1. TabShape'
    BY <1>4 DEF Changes, Noticed, Serves, Shape, TabShape
  <2>2. works' \in Seq(Works) /\ Len(works) <= Len(works')
    BY <1>4 DEF Changes, Serves, Shape
  <2> QED BY <2>1, <2>2 DEF Shape
<1> QED BY <1>1, <1>2, <1>3, <1>4, Steps

LEMMA InitShape == Init => Shape
BY PortalAssumption DEF Init, PortalInit, Asked, Shape, TabShape

----------------------------------------------------------------------------
(* Nothing hidden is shown.  While a page is read, what is public belongs  *)
(* to what was public since it was asked for, and so do the work and the   *)
(* contacts that the first query found.                                    *)
Reading ==
    tab.step = "reading" =>
        /\ Published \subseteq tab.since /\ Shared \cup tab.own \subseteq tab.allowed
        /\ tab.route.page = "work" => tab.route.id \in tab.since
HiddenInv == Shape /\ Reading /\ NothingHiddenIsShown

LEMMA AskedIsHonest ==
    ASSUME NEW r, NEW kept, NEW t, t = Asked(r, kept)
    PROVE  /\ t.page = Blank /\ t.since = Published /\ t.allowed = Shared
           /\ t.own \subseteq Shared
           /\ t.step = "reading" /\ t.route.page = "work" => t.route.id \in Published
<1>1. /\ t.route = r /\ t.page = Blank /\ t.since = Published /\ t.allowed = Shared
      /\ t.own \subseteq Shared
      /\ t.step = IF Found(r) THEN "reading" ELSE "missing"
  BY DEF Asked
<1>2. Found(r) /\ r.page = "work" => r.id \in Published
  BY DEF Found, FindPublication, Statics, Admin
<1> QED BY <1>1, <1>2

LEMMA ServedIsPublic == ASSUME Shape, Serves PROVE Published' = Published /\ Shared' = Shared
<1>1. Shared' = Shared
  BY DEF Serves, Shared, Visible
<1>2. DOMAIN works \subseteq DOMAIN works'
  BY DEF Serves, Shape
<1>3. Published' = Published
  BY <1>2 DEF Serves, Published
<1> QED BY <1>1, <1>3

LEMMA HiddenStep ==
    ASSUME HiddenInv, [Next]_vars
    PROVE  HiddenInv'
<1>1. Shape /\ TabShape /\ Reading /\ NothingHiddenIsShown
  BY DEF HiddenInv, Shape
<1> SUFFICES Reading' /\ NothingHiddenIsShown'
  BY <1>1, ShapeStep DEF HiddenInv
<1>2. CASE UNCHANGED vars
  <2>1. Published' = Published /\ Shared' = Shared /\ tab' = tab
    BY <1>2 DEF vars, portalVars, Published, Shared, Visible
  <2> QED BY <1>1, <2>1 DEF Reading, NothingHiddenIsShown
<1>3. CASE Turns
  <2>1. PICK r, kept : tab' = Asked(Clean(r), kept) /\ UNCHANGED <<works, toggles>>
    BY <1>3 DEF Turns, Type, Follow
  <2>2. /\ tab'.page = Blank /\ tab'.since = Published /\ tab'.allowed = Shared
        /\ tab'.own \subseteq Shared
        /\ tab'.step = "reading" /\ tab'.route.page = "work" => tab'.route.id \in Published
    BY <2>1, AskedIsHonest
  <2>3. Published' = Published /\ Shared' = Shared
    BY <2>1 DEF Published, Shared, Visible
  <2> QED BY <2>2, <2>3 DEF Reading, NothingHiddenIsShown, Blank, Page
<1>4. CASE Makes
  <2>1. PICK tints, answered : \E place \in 0..Wide, hits \in Hits(tab.route.kind) :
          tab' = [tab EXCEPT !.step = "made", !.kept = FALSE,
                             !.page = Made(tab.route, tab.pub, tab.own, tints, hits, answered),
                             !.view = FirstView(tab.route, answered, place)]
    BY <1>4 DEF Makes
  <2>2. PICK place \in 0..Wide, hits \in Hits(tab.route.kind) :
          tab' = [tab EXCEPT !.step = "made", !.kept = FALSE,
                             !.page = Made(tab.route, tab.pub, tab.own, tints, hits, answered),
                             !.view = FirstView(tab.route, answered, place)]
    BY <2>1
  <2> DEFINE page == Made(tab.route, tab.pub, tab.own, tints, hits, answered)
  <2>3. tab.route.page # "newsitem" =>
          /\ page.works \subseteq Published \cup (IF tab.route.page = "work" THEN {tab.route.id} ELSE {})
          /\ page.contacts \subseteq Shared \cup tab.own
    BY PagesShowPublic
  <2> HIDE DEF page
  <2>4. /\ tab'.route = tab.route /\ tab'.since = tab.since /\ tab'.allowed = tab.allowed
        /\ tab'.step = "made" /\ tab'.page = page
    BY <1>1, <2>2 DEF TabShape, page
  <2>5. tab.step = "reading"
    BY <1>4 DEF Makes
  <2> QED BY <1>1, <2>3, <2>4, <2>5 DEF Reading, NothingHiddenIsShown
<1>5. CASE Moves
  <2>1. /\ tab'.route = tab.route /\ tab'.since = tab.since /\ tab'.allowed = tab.allowed
        /\ tab'.step = tab.step /\ tab'.page = tab.page /\ tab'.own = tab.own
    BY <1>1, <1>5 DEF Moves, TabShape
  <2>2. Published' = Published /\ Shared' = Shared
    BY <1>5 DEF Moves, Published, Shared, Visible
  <2> QED BY <1>1, <2>1, <2>2 DEF Reading, NothingHiddenIsShown
<1>6. CASE Changes
  <2>1. /\ tab'.route = tab.route /\ tab'.step = tab.step /\ tab'.page = tab.page
        /\ tab'.own = tab.own
        /\ tab'.since = IF tab.step = "reading" THEN tab.since \cup Published' ELSE tab.since
        /\ tab'.allowed = IF tab.step = "reading" THEN tab.allowed \cup Shared' ELSE tab.allowed
    BY <1>1, <1>6 DEF Changes, Noticed, TabShape
  <2> QED BY <1>1, <2>1 DEF Reading, NothingHiddenIsShown
<1>7. CASE Serves
  <2>1. Published' = Published /\ Shared' = Shared
    BY <1>1, <1>7, ServedIsPublic
  <2>2. tab' = tab
    BY <1>7 DEF Serves
  <2> QED BY <1>1, <2>1, <2>2 DEF Reading, NothingHiddenIsShown
<1> QED BY <1>1, <1>2, <1>3, <1>4, <1>5, <1>6, <1>7, Steps

LEMMA InitHidden == ASSUME Init PROVE HiddenInv
<1>1. tab = Asked(Route("home", None), FALSE)
  BY DEF Init, PortalInit
<1>2. /\ tab.page = Blank /\ tab.since = Published /\ tab.allowed = Shared
      /\ tab.own \subseteq Shared
      /\ tab.step = "reading" /\ tab.route.page = "work" => tab.route.id \in Published
  BY <1>1, AskedIsHonest
<1> QED BY <1>2, InitShape DEF HiddenInv, Reading, NothingHiddenIsShown, Blank, Page

(* Whatever the CMS holds, whoever edits it meanwhile and whatever address *)
(* is typed, no page of the site (a news item's related works aside) shows *)
(* a work that was not published or a contact that was not shared at some  *)
(* moment since the page was asked for.                                    *)
THEOREM HiddenStaysHidden == Spec => []NothingHiddenIsShown
<1>1. Init => HiddenInv
  BY InitHidden
<1>2. HiddenInv /\ [Next]_vars => HiddenInv'
  BY HiddenStep
<1>3. HiddenInv => NothingHiddenIsShown
  BY DEF HiddenInv
<1> QED BY <1>1, <1>2, <1>3, PTL DEF Spec

----------------------------------------------------------------------------
(* Links.  Each is an address of the site, and where it leads is there.    *)
(* Changing one of its fields keeps the page and record it is of.          *)
Shaped(l) == DOMAIN l = {"page", "id", "year", "kind", "level", "at"}
Words == Kinds \cup ToSet(Stages) \cup ToSet(Types) \cup {""}
At(l, n) == [l EXCEPT !.at = n]
InYear(l, y) == [l EXCEPT !.year = y]
OfKind(l, k) == [l EXCEPT !.kind = k]
OfLevel(l, v) == [l EXCEPT !.level = v]
SamePlace(l, m) == m \in Addresses /\ m.page = l.page /\ m.id = l.id

LEMMA FirstNumber == 1 \in Nat \ {0}
OBVIOUS

LEMMA AddressParts ==
    ASSUME NEW l \in Addresses
    PROVE  /\ l.page \in Pages /\ l.id \in Nat /\ l.year \in Nat /\ l.kind \in Words
           /\ l.level \in Levels \cup {""} /\ l.at \in Nat \ {0} /\ Shaped(l)
BY DEF Addresses, Words, Shaped

LEMMA Amended ==
    ASSUME NEW l \in Addresses
    PROVE  /\ \A n \in Nat \ {0} : SamePlace(l, At(l, n))
           /\ \A y \in Nat : SamePlace(l, InYear(l, y))
           /\ \A k \in Words : SamePlace(l, OfKind(l, k))
           /\ \A v \in Levels \cup {""} : SamePlace(l, OfLevel(l, v))
<1>1. ASSUME NEW n \in Nat \ {0} PROVE SamePlace(l, At(l, n))
  BY DEF Addresses, SamePlace, At
<1>2. ASSUME NEW y \in Nat PROVE SamePlace(l, InYear(l, y))
  BY DEF Addresses, SamePlace, InYear
<1>3. ASSUME NEW k \in Words PROVE SamePlace(l, OfKind(l, k))
  BY DEF Addresses, Words, SamePlace, OfKind
<1>4. ASSUME NEW v \in Levels \cup {""} PROVE SamePlace(l, OfLevel(l, v))
  BY DEF Addresses, SamePlace, OfLevel
<1> QED BY <1>1, <1>2, <1>3, <1>4

LEMMA Refiltered ==
    ASSUME NEW l \in Addresses, NEW y \in Nat, NEW k \in Words, NEW v \in Levels \cup {""}
    PROVE  /\ SamePlace(l, [l EXCEPT !.year = y, !.at = 1])
           /\ SamePlace(l, [l EXCEPT !.kind = k, !.at = 1])
           /\ SamePlace(l, [l EXCEPT !.level = v, !.at = 1])
<1>1. /\ [l EXCEPT !.year = y, !.at = 1] = At(InYear(l, y), 1)
      /\ [l EXCEPT !.kind = k, !.at = 1] = At(OfKind(l, k), 1)
      /\ [l EXCEPT !.level = v, !.at = 1] = At(OfLevel(l, v), 1)
  BY DEF At, InYear, OfKind, OfLevel
<1>2. ASSUME NEW m, SamePlace(l, m) PROVE SamePlace(l, At(m, 1))
  <2>1. m \in Addresses /\ 1 \in Nat \ {0}
    BY <1>2, FirstNumber DEF SamePlace
  <2>2. SamePlace(m, At(m, 1))
    BY <2>1, Amended
  <2> QED BY <1>2, <2>2 DEF SamePlace
<1>3. SamePlace(l, InYear(l, y)) /\ SamePlace(l, OfKind(l, k)) /\ SamePlace(l, OfLevel(l, v))
  BY Amended
<1> HIDE DEF SamePlace
<1>4. /\ SamePlace(l, At(InYear(l, y), 1)) /\ SamePlace(l, At(OfKind(l, k), 1))
      /\ SamePlace(l, At(OfLevel(l, v), 1))
  BY <1>2, <1>3
<1> QED BY <1>1, <1>4

LEMMA RouteFields ==
    ASSUME NEW page \in Pages, NEW id \in Nat
    PROVE  Route(page, id) \in Addresses /\ Route(page, id).page = page /\ Route(page, id).id = id
BY DEF Addresses, Route

Leads(l) == l \in Addresses /\ Found(l)
Lead(S) == \A l \in S : Leads(l)

LEMMA Leading ==
    ASSUME NEW l \in Addresses,
           \/ l.page \in Statics
           \/ l.page = "work" /\ FindPublication(l.id)
           \/ l.page = "person" /\ FindMember(l.id)
           \/ l.page = "thesis" /\ FindDissertation(l.id)
           \/ l.page = "newsitem" /\ FindNews(l.id)
    PROVE  Leads(l)
BY DEF Leads, Found

LEMMA ListsAreNumbered ==
    /\ DOMAIN Members \subseteq Nat /\ DOMAIN Theses \subseteq Nat /\ DOMAIN News \subseteq Nat
    /\ DOMAIN Teams \subseteq Nat
<1>1. /\ Members \in Seq(ToSet(Members)) /\ Theses \in Seq(ToSet(Theses))
      /\ News \in Seq(ToSet(News)) /\ Teams \in Seq(ToSet(Teams))
  BY PortalAssumption
<1> HIDE DEF ToSet
<1> QED BY <1>1

LEMMA RoutesLead ==
    ASSUME Shape, NEW id
    PROVE  /\ FindPublication(id) => Leads(Route("work", id))
           /\ FindMember(id) => Leads(Route("person", id))
           /\ FindDissertation(id) => Leads(Route("thesis", id))
           /\ FindNews(id) => Leads(Route("newsitem", id))
<1>1. {"work", "person", "thesis", "newsitem"} \subseteq Pages
  BY DEF Pages
<1>2. FindPublication(id) => Leads(Route("work", id))
  <2>1. FindPublication(id) => id \in Nat
    BY WorkAt DEF FindPublication, Published, Shape
  <2> QED BY <1>1, <2>1, RouteFields, Leading
<1>3. FindMember(id) => Leads(Route("person", id))
  <2>1. FindMember(id) => id \in Nat
    BY ListsAreNumbered DEF FindMember
  <2> QED BY <1>1, <2>1, RouteFields, Leading
<1>4. FindDissertation(id) => Leads(Route("thesis", id))
  <2>1. FindDissertation(id) => id \in Nat
    BY ListsAreNumbered DEF FindDissertation
  <2> QED BY <1>1, <2>1, RouteFields, Leading
<1>5. FindNews(id) => Leads(Route("newsitem", id))
  <2>1. FindNews(id) => id \in Nat
    BY ListsAreNumbered DEF FindNews
  <2> QED BY <1>1, <2>1, RouteFields, Leading
<1> QED BY <1>2, <1>3, <1>4, <1>5

LEMMA StaticsLead ==
    ASSUME NEW page \in Statics, NEW id \in Nat
    PROVE  Leads(Route(page, id))
<1>1. page \in Pages
  BY DEF Pages
<1> QED BY <1>1, RouteFields, Leading

LEMMA NoneIsNumber == None \in Nat
BY DEF None

LEMMA OpenTheses == SamePlace(Route("theses", None), [Route("theses", None) EXCEPT !.kind = "open"])
<1>1. "open" \in Words /\ "theses" \in Pages /\ None \in Nat
  BY DEF ToSet, Words, Stages, Pages, Statics, None
<1>2. Route("theses", None) \in Addresses
  BY <1>1, RouteFields
<1> QED BY <1>1, <1>2, Amended DEF OfKind

LEMMA PeopleLead == ASSUME Shape, NEW ms, ms \subseteq DOMAIN Members PROVE Lead(People(ms))
<1> SUFFICES ASSUME NEW m \in ms, Members[m].slug # "" PROVE Leads(Route("person", m))
  BY DEF People, Lead
<1> QED BY RoutesLead DEF FindMember

LEMMA WorksLead ==
    ASSUME Shape, NEW ps, ps \subseteq Published
    PROVE  Lead({Route("work", p) : p \in {x \in ps : works[x].slug # ""}})
<1> SUFFICES ASSUME NEW p \in ps, works[p].slug # "" PROVE Leads(Route("work", p))
  BY DEF Lead
<1> QED BY RoutesLead DEF FindPublication

LEMMA RowsLead ==
    ASSUME Shape, NEW ps, ps \subseteq Published, NEW deep \in BOOLEAN, NEW tints
    PROVE  Lead(PubRow(ps, deep, tints))
<1>1. Lead({Route("map", p) : p \in ps \cap tints})
  <2> SUFFICES ASSUME NEW p \in ps PROVE Leads(Route("map", p))
    BY DEF Lead
  <2>1. p \in Nat
    BY WorkAt DEF Published, Shape
  <2> QED BY <2>1, StaticsLead DEF Statics
<1>2. Lead(IF deep THEN People(UNION {works[p].authors : p \in ps}) ELSE {})
  <2>1. \A p \in ps : works[p].authors \subseteq DOMAIN Members
    BY WorkAt DEF Published, Shape
  <2>2. CASE deep
    BY <2>1, <2>2, PeopleLead
  <2>3. CASE ~ deep
    BY <2>3 DEF Lead
  <2> QED BY <2>2, <2>3
<1> QED BY <1>1, <1>2, WorksLead DEF PubRow, Lead

LEMMA OthersLead ==
    ASSUME Shape, NEW ds, NEW ks, NEW ms, ds \subseteq DOMAIN Theses, ks \subseteq DOMAIN News,
           ms \subseteq DOMAIN Members
    PROVE  Lead(DissertationRow(ds)) /\ Lead(NewsCard(ks)) /\ Lead(MemberAvatarStack(ms))
<1>1. Lead({Route("thesis", d) : d \in {x \in ds : Theses[x].slug # ""}})
  <2> SUFFICES ASSUME NEW d \in ds, Theses[d].slug # "" PROVE Leads(Route("thesis", d))
    BY DEF Lead
  <2> QED BY RoutesLead DEF FindDissertation
<1>2. Lead(NewsCard(ks))
  <2> SUFFICES ASSUME NEW k \in ks, News[k].slug # "" PROVE Leads(Route("newsitem", k))
    BY DEF Lead, NewsCard
  <2> QED BY RoutesLead DEF FindNews
<1>3. Leads(Route("people", None))
  BY StaticsLead, NoneIsNumber DEF Statics
<1>4. Lead(MemberAvatarStack(ms))
  BY <1>3, PeopleLead DEF Lead, MemberAvatarStack
<1>5. UNION {Theses[d].people : d \in ds} \subseteq DOMAIN Members
  BY PortalAssumption
<1> QED BY <1>1, <1>2, <1>4, <1>5, PeopleLead DEF Lead, DissertationRow

LEMMA ListsAreFinite ==
    ASSUME works \in Seq(Works), NEW r
    PROVE  /\ IsFiniteSet(Matching(r)) /\ Cardinality(Matching(r)) \in Nat
           /\ TotalPages(r) \in Nat
<1>1. Theses \in Seq(ToSet(Theses))
  BY PortalAssumption
<1>2. IsFiniteSet(DOMAIN works) /\ IsFiniteSet(DOMAIN Theses)
  BY <1>1, FS_Interval
<1>3. Matching(r) \subseteq DOMAIN works \/ Matching(r) \subseteq DOMAIN Theses
  BY DEF Matching, Published
<1>4. IsFiniteSet(Matching(r)) /\ Cardinality(Matching(r)) \in Nat
  BY <1>2, <1>3, FS_Subset, FS_CardinalityType
<1>5. PerPage \in Nat \ {0}
  BY PortalAssumption
<1> QED BY <1>4, <1>5 DEF TotalPages

LEMMA ListLinksLead ==
    ASSUME Shape, NEW r \in Addresses, Found(r)
    PROVE  Lead(Pager(r)) /\ Lead(Facets(r)) /\ Lead(Chips(r))
<1>1. ASSUME NEW l, SamePlace(r, l) PROVE Leads(l)
  BY <1>1 DEF Found, Leads, SamePlace
<1>2. ASSUME NEW l \in Pager(r) PROVE Leads(l)
  <2>1. TotalPages(r) \in Nat /\ r.at \in Nat \ {0}
    BY AddressParts, ListsAreFinite DEF Shape
  <2>2. PICK n : /\ l = At(r, n) /\ TotalPages(r) > 1
                 /\ n \in PageWindow(r.at, TotalPages(r)) \cup
                          {i \in {r.at - 1, r.at + 1} : 1 <= i /\ (i < r.at \/ r.at < TotalPages(r))}
    BY <1>2, <2>1 DEF Pager, HrefWith, At
  <2>3. n \in Nat \ {0}
    BY <2>1, <2>2 DEF PageWindow
  <2> QED BY <1>1, <2>2, <2>3, Amended
<1>3. ASSUME NEW l \in Facets(r) PROVE Leads(l)
  <2>1. \A p \in Published : works[p].year \in Nat /\ works[p].kind \in Words
    BY WorkAt DEF Published, Shape, Words
  <2>2. 0 \in Nat /\ "" \in Words
    BY DEF Words
  <2>3. \/ \E y \in {works[p].year : p \in Published} \cup {0} : l = [r EXCEPT !.year = y, !.at = 1]
        \/ \E k \in {works[p].kind : p \in Published} \cup {""} : l = [r EXCEPT !.kind = k, !.at = 1]
    BY <1>3 DEF Facets
  <2>4. \/ \E y \in Nat : l = [r EXCEPT !.year = y, !.at = 1]
        \/ \E k \in Words : l = [r EXCEPT !.kind = k, !.at = 1]
    BY <2>1, <2>2, <2>3
  <2>5. SamePlace(r, l)
    BY <2>2, <2>4, Refiltered
  <2> QED BY <1>1, <2>5
<1>4. ASSUME NEW l \in Chips(r) PROVE Leads(l)
  <2>1. \/ \E k \in Words : l = [r EXCEPT !.kind = k, !.at = 1]
        \/ \E v \in Levels \cup {""} : l = [r EXCEPT !.level = v, !.at = 1]
    BY <1>4 DEF Chips, Words
  <2>2. 0 \in Nat /\ "" \in Words
    BY DEF Words
  <2>3. SamePlace(r, l)
    BY <2>1, <2>2, Refiltered
  <2> QED BY <1>1, <2>3
<1> QED BY <1>2, <1>3, <1>4 DEF Lead

LEMMA HitsLead ==
    ASSUME Shape, NEW kind, NEW hits \in Hits(kind), NEW h \in hits
    PROVE  Leads(EntityLink(h))
<1>1. h.id \in Of(h.type)
  BY HitsExist
<1>2. CASE h.type = "publications"
  <2>1. h.id \in Published
    BY <1>1, <1>2 DEF Of
  <2>2. EntityLink(h) = IF works[h.id].slug # "" THEN Route("work", h.id) ELSE Route("works", None)
    BY <1>2 DEF EntityLink
  <2> QED BY <2>1, <2>2, RoutesLead, StaticsLead, NoneIsNumber DEF FindPublication, Statics
<1>3. CASE h.type = "members"
  <2>1. EntityLink(h) = IF Members[h.id].slug # "" THEN Route("person", h.id)
                        ELSE Route("people", None)
    BY <1>3 DEF EntityLink
  <2> QED BY <1>1, <1>3, <2>1, RoutesLead, StaticsLead, NoneIsNumber DEF FindMember, Statics, Of
<1>4. CASE h.type = "dissertations"
  <2>1. EntityLink(h) = IF Theses[h.id].slug # "" THEN Route("thesis", h.id)
                        ELSE Route("theses", None)
    BY <1>4 DEF EntityLink
  <2> QED BY <1>1, <1>4, <2>1, RoutesLead, StaticsLead, NoneIsNumber DEF FindDissertation, Statics, Of
<1>5. CASE h.type = "news"
  <2>1. EntityLink(h) = IF News[h.id].slug # "" THEN Route("newsitem", h.id)
                        ELSE Route("news", None)
    BY <1>5 DEF EntityLink
  <2> QED BY <1>1, <1>5, <2>1, RoutesLead, StaticsLead, NoneIsNumber DEF FindNews, Statics, Of
<1>6. CASE h.type \notin {"publications", "members", "dissertations", "news"}
  <2>1. h.type = "projects"
    BY <1>1, <1>6 DEF Of
  <2>2. EntityLink(h) = Route("projects", None)
    BY <2>1 DEF EntityLink
  <2> QED BY <2>2, StaticsLead, NoneIsNumber DEF Statics
<1> QED BY <1>2, <1>3, <1>4, <1>5, <1>6

LEMMA PagesLead ==
    ASSUME Shape, NEW r \in Addresses, r.page \in {"person", "thesis"} => Found(r),
           r.page # "newsitem", NEW pub, pub.authors \subseteq DOMAIN Members, NEW own,
           NEW tints, NEW answered, NEW hits \in Hits(r.kind)
    PROVE  Lead(Made(r, pub, own, tints, hits, answered).links)
<1> DEFINE links == Made(r, pub, own, tints, hits, answered).links
<1>1. \A s \in Statics : Lead({Route(s, None)})
  BY StaticsLead, NoneIsNumber DEF Lead
<1>2. Lead({[Route("theses", None) EXCEPT !.kind = "open"]})
  <2> DEFINE l == [Route("theses", None) EXCEPT !.kind = "open"]
  <2>1. l \in Addresses /\ l.page = "theses"
    BY OpenTheses, RouteFields, NoneIsNumber DEF SamePlace, Pages, Statics
  <2>2. Leads(l)
    <3> HIDE DEF l
    <3> QED BY <2>1, Leading DEF Statics
  <2> QED BY <2>2 DEF Lead
<1>3. ASSUME r.page = "home" PROVE Lead(links)
  <2> DEFINE recent == FirstOf(Published, Newer, Recent)
  <2>1. links = PubRow(recent, FALSE, tints) \cup NewsCard(FirstOf(DOMAIN News, Latest, 2))
                \cup {Route("works", None), Route("news", None)}
                \cup {IF openJobs # {} THEN Route("jobs", None)
                      ELSE [Route("theses", None) EXCEPT !.kind = "open"]}
    BY <1>3 DEF Made, HomePage, Page
  <2>2. recent \subseteq Published
    BY SomeOfThem
  <2> HIDE DEF recent, links
  <2>3. Lead(PubRow(recent, FALSE, tints)) /\ Lead(NewsCard(FirstOf(DOMAIN News, Latest, 2)))
    BY <2>2, RowsLead, OthersLead, SomeOfThem
  <2> QED BY <1>1, <1>2, <2>1, <2>3 DEF Lead, Statics
<1>4. ASSUME r.page = "works" PROVE Lead(links)
  <2>1. links = PubRow(Listed(r), TRUE, tints) \cup Facets(r) \cup Pager(r)
    BY <1>4 DEF Made, WorksPage, Page
  <2>2. Found(r)
    BY <1>4 DEF Found, Statics
  <2>3. Lead(PubRow(Listed(r), TRUE, tints))
    <3>1. Listed(r) \subseteq Published
      BY <1>4, ListedArePublished
    <3> QED BY <3>1, RowsLead
  <2> HIDE DEF links
  <2> QED BY <2>1, <2>2, <2>3, ListLinksLead DEF Lead
<1>5. ASSUME r.page = "work" PROVE Lead(links)
  <2>1. links = People(pub.authors) \cup MiniMap(r.id, answered) \cup PubRow(Citations(pub), FALSE, {})
                \cup {Route("works", None)}
    BY <1>5 DEF Made, PublicationPage, Page
  <2>2. Citations(pub) \subseteq Published
    BY SomeOfThem DEF Citations
  <2>3. Lead(PubRow(Citations(pub), FALSE, {}))
    BY <2>2, RowsLead
  <2>4. Lead(MiniMap(r.id, answered))
    <3>1. r.id \in Nat
      BY AddressParts
    <3> QED BY <3>1, StaticsLead DEF MiniMap, Lead, Statics
  <2> HIDE DEF links
  <2> QED BY <1>1, <2>1, <2>3, <2>4, PeopleLead DEF Lead, Statics
<1>6. ASSUME r.page = "person" PROVE Lead(links)
  <2>1. links = PubRow(Listed(r), TRUE, {}) \cup Pager(r) \cup {Route("people", None)}
                \cup DissertationRow({d \in DOMAIN Theses : r.id \in Theses[d].people})
    BY <1>6 DEF Made, PersonPage, Page
  <2>2. Lead(PubRow(Listed(r), TRUE, {}))
    <3>1. Listed(r) \subseteq Published
      BY <1>6, ListedArePublished
    <3> QED BY <3>1, RowsLead
  <2>3. Lead(Pager(r))
    BY <1>6, ListLinksLead
  <2> HIDE DEF links
  <2> QED BY <1>1, <2>1, <2>2, <2>3, OthersLead DEF Lead, Statics
<1>7. ASSUME r.page = "people" PROVE Lead(links)
  BY <1>7, PeopleLead DEF Made, PeoplePage, Page, PersonCard
<1>8. ASSUME r.page = "theses" PROVE Lead(links)
  <2>1. links = DissertationRow(Listed(r)) \cup Chips(r) \cup Pager(r)
    BY <1>8 DEF Made, DissertationsPage, Page
  <2>2. Found(r)
    BY <1>8 DEF Found, Statics
  <2>3. Listed(r) \subseteq DOMAIN Theses
    BY <1>8, ListedMatch DEF Matching
  <2> HIDE DEF links
  <2> QED BY <2>1, <2>2, <2>3, ListLinksLead, OthersLead DEF Lead
<1>9. ASSUME r.page = "thesis" PROVE Lead(links)
  <2>1. links = People(Theses[r.id].people) \cup {Route("theses", None)}
    BY <1>9 DEF Made, DissertationPage, Page
  <2>2. Theses[r.id].people \subseteq DOMAIN Members
    BY <1>9, PortalAssumption DEF Found, FindDissertation, Statics, Admin
  <2> HIDE DEF links
  <2> QED BY <1>1, <2>1, <2>2, PeopleLead DEF Lead, Statics
<1>10. ASSUME r.page = "news" PROVE Lead(links)
  BY <1>10, OthersLead DEF Made, NewsPage, Page
<1>11. ASSUME r.page = "jobs" PROVE Lead(links)
  BY <1>2, <1>11 DEF Made, OpenPositionsPage, Page, Lead
<1>12. ASSUME r.page = "projects" PROVE Lead(links)
  <2>1. links = UNION {MemberAvatarStack(Teams[j]) : j \in DOMAIN Teams}
    BY <1>12 DEF Made, ProjectsPage, Page
  <2>2. \A j \in DOMAIN Teams : Teams[j] \subseteq DOMAIN Members
    BY PortalAssumption
  <2> HIDE DEF links
  <2> QED BY <2>1, <2>2, OthersLead DEF Lead
<1>13. ASSUME r.page = "search" PROVE Lead(links)
  <2>1. links = {EntityLink(h) : h \in hits}
    BY <1>13 DEF Made, SearchPage, Page
  <2> HIDE DEF links
  <2> QED BY <2>1, HitsLead DEF Lead
<1>14. ASSUME r.page = "map" PROVE Lead(links)
  <2>1. links \subseteq {Route("work", p) : p \in {x \in Points : works[x].slug # ""}}
    BY <1>14 DEF Made, MapPage, Page, Blank
  <2>2. Points \subseteq Published
    BY DEF Points
  <2> HIDE DEF links
  <2> QED BY <2>1, <2>2, WorksLead DEF Lead
<1>15. ASSUME r.page = "sitemap" PROVE Lead(links)
  <2>1. links = PubRow(Published, FALSE, {}) \cup NewsCard(DOMAIN News) \cup People(DOMAIN Members)
                \cup {Route("thesis", d) : d \in {x \in DOMAIN Theses : Theses[x].slug # ""}}
                \cup {Route(s, None) : s \in Statics \ Unlisted}
    BY <1>15 DEF Made, Sitemap, Page
  <2>2. Lead({Route("thesis", d) : d \in {x \in DOMAIN Theses : Theses[x].slug # ""}})
    <3> SUFFICES ASSUME NEW d \in DOMAIN Theses, Theses[d].slug # "" PROVE Leads(Route("thesis", d))
      BY DEF Lead
    <3> QED BY RoutesLead DEF FindDissertation
  <2>3. Lead(PubRow(Published, FALSE, {}))
    BY RowsLead
  <2>4. Lead({Route(s, None) : s \in Statics \ Unlisted})
    BY StaticsLead, NoneIsNumber DEF Lead
  <2> HIDE DEF links
  <2> QED BY <2>1, <2>2, <2>3, <2>4, OthersLead, PeopleLead DEF Lead
<1>16. ASSUME r.page \notin {"home", "works", "work", "people", "person", "theses", "thesis", "news",
                             "jobs", "projects", "search", "map", "sitemap"}
       PROVE  Lead(links)
  BY <1>16 DEF Made, Blank, Page, Lead
<1> QED BY <1>3, <1>4, <1>5, <1>6, <1>7, <1>8, <1>9, <1>10, <1>11, <1>12, <1>13, <1>14, <1>15, <1>16
LEMMA RelatedAreWorks ==
    ASSUME Shape, NEW k \in DOMAIN News
    PROVE  News[k].related \subseteq DOMAIN works
<1>1. DOMAIN Library = 1..Len(Library) /\ News[k].related \subseteq DOMAIN Library
  BY PortalAssumption
<1>2. DOMAIN works = 1..Len(works) /\ Len(Library) \in 0..Len(works) /\ Len(works) \in Nat
  BY DEF Shape
<1> QED BY <1>1, <1>2

LEMMA NewsItemLinks ==
    ASSUME Shape, NEW r, r.page = "newsitem", r.id \in DOMAIN News, NEW pub, NEW own,
           NEW tints, NEW answered, NEW hits
    PROVE  LET page == Made(r, pub, own, tints, hits, answered) IN
           page.links \subseteq Addresses /\ page.works \subseteq DOMAIN works
<1> DEFINE page == Made(r, pub, own, tints, hits, answered)
<1>1. page.links = PubRow(News[r.id].related, FALSE, {}) \cup {Route("news", None)}
      /\ page.works = News[r.id].related
  BY DEF Made, NewsItemPage, Page
<1> HIDE DEF page
<1>2. News[r.id].related \subseteq DOMAIN works
  BY RelatedAreWorks
<1>3. ASSUME NEW l \in PubRow(News[r.id].related, FALSE, {}) PROVE l \in Addresses
  <2>1. PICK p \in News[r.id].related : l = Route("work", p)
    BY <1>3 DEF PubRow
  <2>2. p \in Nat
    BY <1>2, WorkAt DEF Shape
  <2> QED BY <2>1, <2>2, RouteFields DEF Pages
<1>4. Route("news", None) \in Addresses
  BY RouteFields, NoneIsNumber DEF Pages, Statics
<1> QED BY <1>1, <1>2, <1>3, <1>4 DEF page

(* The tab is at an address, its links are addresses and its works exist;  *)
(* a page that is read is that of a record there is.                       *)
Exists(r) ==
    /\ r.page = "work" => r.id \in DOMAIN works
    /\ r.page \in {"person", "thesis"} => Found(r)
    /\ r.page = "newsitem" => r.id \in DOMAIN News
AtAddress ==
    /\ tab.route \in Addresses /\ tab.page.links \subseteq Addresses
    /\ tab.page.works \subseteq DOMAIN works
    /\ tab.step = "reading" => Exists(tab.route)
    /\ tab.pub.authors \subseteq DOMAIN Members

(* A link to a work is to one that was listed while it was published; any  *)
(* other leads where it leads for good.                                    *)
LinkOK(l) ==
    IF l.page = "work" THEN l.id \in tab.since \cap DOMAIN works /\ works[l.id].slug # ""
    ELSE Found(l)
LinksOK == tab.route.page # "newsitem" => \A l \in tab.page.links : LinkOK(l)
LinkInv == HiddenInv /\ AtAddress /\ LinksOK

LEMMA FoundIsOK ==
    ASSUME Published \subseteq tab.since, NEW l, Found(l)
    PROVE  LinkOK(l)
BY DEF LinkOK, Found, FindPublication, Published, Statics, Admin

LEMMA StaysOK ==
    ASSUME DOMAIN works \subseteq DOMAIN works', tab.since \subseteq tab'.since,
           \A p \in DOMAIN works : works'[p].slug = works[p].slug, NEW l, LinkOK(l)
    PROVE  LinkOK(l)'
<1>1. CASE l.page = "work"
  <2>1. l.id \in tab.since \cap DOMAIN works /\ works[l.id].slug # ""
    BY <1>1 DEF LinkOK
  <2>2. l.id \in tab'.since \cap DOMAIN works' /\ works'[l.id].slug # ""
    BY <2>1
  <2> QED BY <1>1, <2>2 DEF LinkOK
<1>2. CASE l.page # "work"
  BY <1>2 DEF LinkOK, Found, FindMember, FindDissertation, FindNews
<1> QED BY <1>1, <1>2

LEMMA FoundExists == ASSUME NEW r, Found(r) PROVE Exists(r)
BY DEF Exists, Found, FindPublication, FindNews, Published, Statics, Admin

LEMMA WorksStay == ASSUME Shape, [Next]_vars PROVE DOMAIN works \subseteq DOMAIN works'
<1>1. CASE UNCHANGED works
  BY <1>1
<1>2. CASE Changes \/ Serves
  BY <1>2 DEF Changes, Serves, Shape
<1> QED BY <1>1, <1>2, Steps DEF vars, portalVars, Turns, Type, Follow, Makes, Moves

LEMMA ExistsStays ==
    ASSUME DOMAIN works \subseteq DOMAIN works', NEW r, Exists(r)
    PROVE  Exists(r)'
BY DEF Exists, Found, FindMember, FindDissertation, Statics, Admin

LEMMA CleanIsAddress == ASSUME NEW r \in Routes \cup Addresses PROVE Clean(r) \in Addresses
<1> DEFINE year == IF r.year \in 1000..9999 THEN r.year ELSE 0
           kind == IF r.kind \in Filters(r.page) THEN r.kind ELSE ""
           level == IF r.level \in Levels THEN r.level ELSE ""
           at == IF r.at < 1 THEN 1 ELSE r.at
           c == [r EXCEPT !.year = year, !.kind = kind, !.level = level, !.at = at]
<1>1. /\ r.page \in Pages /\ r.id \in Nat /\ r.year \in Nat /\ r.at \in Int /\ Shaped(r)
  <2>1. CASE r \in Routes
    BY <2>1 DEF Routes, Shaped
  <2>2. CASE r \in Addresses
    <3>1. r.at \in Nat \ {0}
      BY <2>2, AddressParts
    <3>2. r.at \in Int
      BY <3>1
    <3> QED BY <2>2, <3>2, AddressParts
  <2> QED BY <2>1, <2>2
<1>2. Clean(r) = c
  BY DEF Clean
<1>3. Filters(r.page) \subseteq Words
  BY DEF Filters, Words
<1>4. year \in Nat /\ level \in Levels \cup {""} /\ at \in Nat \ {0}
  <2>1. year \in Nat
    BY <1>1
  <2>2. level \in Levels \cup {""}
    OBVIOUS
  <2>3. at \in Nat \ {0}
    BY <1>1
  <2> HIDE DEF year, level, at
  <2> QED BY <2>1, <2>2, <2>3
<1>5. kind \in Words
  BY <1>3 DEF Words
<1> HIDE DEF year, kind, level, at
<1>6. c \in Addresses
  BY <1>1, <1>4, <1>5 DEF Addresses, Words, Shaped
<1> QED BY <1>2, <1>6

LEMMA OpensAddress ==
    ASSUME AtAddress, NEW r, Type(r) \/ Follow(r)
    PROVE  /\ r \in Routes \cup Addresses /\ Clean(r) \in Addresses /\ UNCHANGED works
           /\ \E kept : tab' = Asked(Clean(r), kept)
<1>1. r \in Typed => r \in Routes
  BY PortalAssumption
<1>2. r \in Header => r \in Addresses
  <2> SUFFICES ASSUME NEW page \in Statics \cup Admin PROVE Route(page, None) \in Addresses
    BY DEF Header, Statics, Admin
  <2> QED BY RouteFields, NoneIsNumber DEF Pages
<1>3. r \in Routes \cup Addresses
  BY <1>1, <1>2 DEF Type, Follow, AtAddress
<1> QED BY <1>3, CleanIsAddress DEF Type, Follow

LEMMA AskedAuthors == ASSUME Shape, NEW r, NEW kept PROVE Asked(r, kept).pub.authors \subseteq DOMAIN Members
<1>1. r.page = "work" /\ Found(r) => r.id \in DOMAIN works
  BY DEF Found, FindPublication, Published, Statics, Admin
<1>2. Asked(r, kept).pub = IF r.page = "work" /\ Found(r) THEN works[r.id] ELSE NoWork
  <2> HIDE DEF Found, NoWork, Whole, NoDrag, Published, Shared
  <2> QED BY DEF Asked
<1>3. CASE r.page = "work" /\ Found(r)
  BY <1>1, <1>2, <1>3, WorkAt DEF Shape
<1>4. CASE ~ (r.page = "work" /\ Found(r))
  <2>1. Asked(r, kept).pub = NoWork
    BY <1>2, <1>4, Zenon
  <2>2. NoWork.authors = {}
    BY DEF NoWork
  <2> QED BY <2>1, <2>2
<1> QED BY <1>3, <1>4

LEMMA LinkStep == ASSUME LinkInv, [Next]_vars PROVE LinkInv'
<1>1. HiddenInv /\ Shape /\ TabShape /\ Reading /\ AtAddress /\ LinksOK
  BY DEF LinkInv, HiddenInv, Shape
<1>2. DOMAIN works \subseteq DOMAIN works'
  BY <1>1, WorksStay
<1> SUFFICES AtAddress' /\ LinksOK'
  BY <1>1, HiddenStep DEF LinkInv
<1>3. ASSUME tab'.route = tab.route, tab'.page = tab.page, tab'.step = tab.step,
             tab'.pub = tab.pub, tab.since \subseteq tab'.since,
             \A p \in DOMAIN works : works'[p].slug = works[p].slug
      PROVE  AtAddress' /\ LinksOK'
  <2>1. AtAddress'
    BY <1>1, <1>2, <1>3, ExistsStays DEF AtAddress
  <2>2. LinksOK'
    BY <1>1, <1>2, <1>3, StaysOK DEF LinksOK
  <2> QED BY <2>1, <2>2
<1>4. CASE Turns
  <2>1. PICK r : Type(r) \/ Follow(r)
    BY <1>4 DEF Turns
  <2>2. PICK kept : tab' = Asked(Clean(r), kept)
    BY <1>1, <2>1, OpensAddress
  <2>3. Clean(r) \in Addresses /\ UNCHANGED works
    BY <1>1, <2>1, OpensAddress
  <2>4. /\ tab'.route = Clean(r) /\ tab'.page.links = {} /\ tab'.page.works = {}
        /\ tab'.step = "reading" => Found(Clean(r))
    BY <2>2 DEF Asked, Blank, Page
  <2>5. tab'.pub.authors \subseteq DOMAIN Members
    BY <1>1, <2>2, AskedAuthors
  <2>6. AtAddress'
    BY <1>2, <2>3, <2>4, <2>5, FoundExists, ExistsStays DEF AtAddress
  <2> QED BY <2>4, <2>6 DEF LinksOK
<1>5. CASE Makes
  <2>1. PICK tints, answered : \E place \in 0..Wide, hits \in Hits(tab.route.kind) :
          tab' = [tab EXCEPT !.step = "made", !.kept = FALSE,
                             !.page = Made(tab.route, tab.pub, tab.own, tints, hits, answered),
                             !.view = FirstView(tab.route, answered, place)]
    BY <1>5 DEF Makes
  <2>2. PICK place \in 0..Wide, hits \in Hits(tab.route.kind) :
          tab' = [tab EXCEPT !.step = "made", !.kept = FALSE,
                             !.page = Made(tab.route, tab.pub, tab.own, tints, hits, answered),
                             !.view = FirstView(tab.route, answered, place)]
    BY <2>1
  <2> DEFINE page == Made(tab.route, tab.pub, tab.own, tints, hits, answered)
  <2>3. tab.step = "reading" /\ UNCHANGED works
    BY <1>5 DEF Makes
  <2>4. /\ tab.route \in Addresses /\ Exists(tab.route)
        /\ tab.pub.authors \subseteq DOMAIN Members
    BY <1>1, <2>3 DEF AtAddress
  <2>5. tab.route.page # "newsitem" => Lead(page.links)
    BY <1>1, <2>4, PagesLead DEF Exists
  <2>6. page.links \subseteq Addresses /\ page.works \subseteq DOMAIN works
    <3>1. CASE tab.route.page = "newsitem"
      BY <1>1, <2>4, <3>1, NewsItemLinks DEF Exists
    <3>2. CASE tab.route.page # "newsitem"
      <4>1. page.works \subseteq Published
                                \cup (IF tab.route.page = "work" THEN {tab.route.id} ELSE {})
        BY <3>2, PagesShowPublic
      <4>2. page.works \subseteq DOMAIN works
        <5> HIDE DEF page
        <5> QED BY <2>4, <4>1 DEF Exists, Published
      <4>3. page.links \subseteq Addresses
        <5> HIDE DEF page
        <5> QED BY <2>5, <3>2 DEF Lead, Leads
      <4> QED BY <4>2, <4>3
    <3> QED BY <3>1, <3>2
  <2> HIDE DEF page
  <2>7. tab'.route = tab.route /\ tab'.step = "made" /\ tab'.page = page /\ tab'.pub = tab.pub
    BY <1>1, <2>2 DEF TabShape, page
  <2>8. AtAddress'
    BY <1>2, <2>4, <2>6, <2>7 DEF AtAddress
  <2>9. tab.route.page # "newsitem" => \A l \in page.links : LinkOK(l)'
    <3>1. Published \subseteq tab.since /\ tab'.since = tab.since
      BY <1>1, <2>2, <2>3 DEF Reading, TabShape
    <3> QED BY <1>2, <2>3, <2>5, <3>1, FoundIsOK, StaysOK DEF Lead, Leads
  <2> QED BY <2>7, <2>8, <2>9 DEF LinksOK
<1>6. CASE Moves
  <2>1. /\ tab'.route = tab.route /\ tab'.step = tab.step /\ tab'.page = tab.page
        /\ tab'.pub = tab.pub /\ tab'.since = tab.since /\ UNCHANGED works
    BY <1>1, <1>6 DEF Moves, TabShape
  <2> QED BY <1>3, <2>1
<1>7. CASE Changes
  <2>1. /\ tab'.route = tab.route /\ tab'.step = tab.step /\ tab'.page = tab.page
        /\ tab'.pub = tab.pub /\ tab.since \subseteq tab'.since
    BY <1>1, <1>7 DEF Changes, Noticed, TabShape
  <2> QED BY <1>3, <1>7, <2>1 DEF Changes
<1>8. CASE Serves \/ UNCHANGED vars
  BY <1>3, <1>8 DEF Serves, vars, portalVars
<1> QED BY <1>1, <1>4, <1>5, <1>6, <1>7, <1>8, Steps

LEMMA InitLinks == ASSUME Init PROVE LinkInv
<1>1. tab = Asked(Route("home", None), FALSE) /\ Shape /\ HiddenInv
  BY InitShape, InitHidden DEF Init, PortalInit
<1>2. tab.route = Route("home", None) /\ tab.page.links = {} /\ tab.page.works = {}
  BY <1>1 DEF Asked, Blank, Page
<1>3. tab.route \in Addresses /\ Exists(tab.route)
  BY <1>2, RouteFields, NoneIsNumber DEF Pages, Statics, Exists
<1> QED BY <1>1, <1>2, <1>3, AskedAuthors DEF LinkInv, AtAddress, LinksOK

(* Rows and cards, the citations, the hits of either search, the pager and *)
(* the filters with whatever they hold, and the site map link to pages     *)
(* that are there; one of a work may go only after the page with the link  *)
(* was asked for, whoever publishes and withdraws while it is being made.  *)
THEOREM LinksLeadSomewhere == Spec => []LinksLead
<1>1. Init => LinkInv
  BY InitLinks
<1>2. LinkInv /\ [Next]_vars => LinkInv'
  BY LinkStep
<1>3. LinkInv => LinksLead
  BY DEF LinkInv, LinksOK, LinkOK, LinksLead
<1> QED BY <1>1, <1>2, <1>3, PTL DEF Spec

----------------------------------------------------------------------------
(* The import form.  Works are only added, and keep their keys.            *)
Grown(W, V) ==
    /\ W \in Seq(Works) /\ V \in Seq(Works) /\ Len(W) <= Len(V)
    /\ \A p \in DOMAIN W : V[p].key = W[p].key

LEMMA WorksGrow == ASSUME Shape, [Next]_vars PROVE Grown(works, works')
<1>1. CASE UNCHANGED works
  BY <1>1 DEF Shape, Grown
<1>2. CASE Changes \/ Serves
  BY <1>2 DEF Changes, Serves, Shape, Grown
<1> QED BY <1>1, <1>2, Steps DEF vars, portalVars, Turns, Type, Follow, Makes, Moves

(* What a lookup answered stays true: the first work of the key, or that   *)
(* no work it had seen has the key.                                        *)
Honest(W, key, first, seen) ==
    /\ seen \in 0..Len(W)
    /\ first = None => \A p \in 1..seen : W[p].key # key
    /\ first # None => /\ first \in DOMAIN W /\ W[first].key = key
                       /\ \A p \in 1..(first - 1) : W[p].key # key

LEMMA HonestStays ==
    ASSUME NEW W, NEW V, Grown(W, V), NEW key, NEW first, NEW seen, Honest(W, key, first, seen)
    PROVE  Honest(V, key, first, seen)
BY DEF Grown, Honest, None

LEMMA KnownIsHonest ==
    ASSUME works \in Seq(Works), NEW key
    PROVE  Honest(works, key, Known(key), Len(works))
<1> DEFINE ids == {p \in DOMAIN works : works[p].key = key}
<1>1. CASE ids = {}
  BY <1>1 DEF Known, Honest, None
<1>2. CASE ids # {}
  <2>1. Known(key) = Min(ids)
    BY <1>2 DEF Known
  <2>2. ids \subseteq Nat
    OBVIOUS
  <2>3. Min(ids) \in ids /\ \A p \in ids : Min(ids) <= p
    <3> HIDE DEF ids
    <3> QED BY <1>2, <2>2, MinIsLeast
  <2> DEFINE known == Known(key)
  <2>4. /\ known \in DOMAIN works /\ works[known].key = key
        /\ \A p \in DOMAIN works : works[p].key = key => known <= p
    BY <2>1, <2>3
  <2>5. DOMAIN works = 1..Len(works) /\ Len(works) \in Nat
    OBVIOUS
  <2> HIDE DEF known, ids
  <2>6. Honest(works, key, known, Len(works))
    BY <2>4, <2>5 DEF Honest, None
  <2> QED BY <2>6 DEF known
<1> QED BY <1>1, <1>2

LEMMA HonestAgree ==
    ASSUME NEW W \in Seq(Works), NEW key, NEW first, NEW seen, NEW known,
           Honest(W, key, first, seen), Honest(W, key, known, Len(W)), known # None
    PROVE  known = first \/ known > seen
BY DEF Honest, None

(* The form shows what a lookup answered; while it is calm, that is the    *)
(* identifier in it, and so is what any lookup under way asks for.         *)
Warned(W, v) == Honest(W, v.key, v.duplicate, v.seen)
Shown(W, f) ==
    /\ DOMAIN f = DOMAIN EmptyForm
    /\ Warned(W, f.preview)
    /\ f.calm => \/ f.preview = NoPreview \/ f.preview.key = f.identifier
                 \/ f.identifier = ""
LookedUp(W, f, q) ==
    q.for = "lookup" =>
        /\ q.result = "found" => Honest(W, q.arg, q.id, q.seen)
        /\ (q.live /\ f.calm) => (q.arg = f.identifier \/ f.identifier = "")
Imports(W, q) ==
    q.for = "create" =>
        /\ Warned(W, q.preview)
        /\ q.calm => (q.arg = q.preview.key \/ q.arg = "")
        /\ (q.result = "created" /\ q.calm) =>
             /\ q.arg = q.preview.key
             /\ q.fresh \/ q.id = q.preview.duplicate \/ q.id > q.preview.seen
Sound(W, f, q) ==
    /\ DOMAIN q = {"n", "for", "arg", "step", "result", "id", "seen", "fresh", "live", "preview",
                   "calm"}
    /\ LookedUp(W, f, q) /\ Imports(W, q)
ImportInv == Shape /\ Shown(works, form) /\ \A q \in requests : Sound(works, form, q)

(* A form whose identifier is no longer the same is no longer calm.        *)
Tamer(f, g) == g.calm => (f.calm /\ g.identifier = f.identifier) \/ g.identifier = ""

LEMMA SoundStays ==
    ASSUME NEW W, NEW V, Grown(W, V), NEW f, NEW g, Tamer(f, g), NEW q, Sound(W, f, q)
    PROVE  Sound(V, g, q) /\ Sound(V, g, [q EXCEPT !.live = FALSE])
<1>1. Imports(W, q) => Imports(V, q)
  BY HonestStays DEF Imports, Warned
<1>2. LookedUp(W, f, q) => LookedUp(V, g, q)
  BY HonestStays DEF LookedUp, Tamer
<1>3. Sound(V, g, q)
  BY <1>1, <1>2 DEF Sound
<1> DEFINE r == [q EXCEPT !.live = FALSE]
<1>4. /\ DOMAIN r = DOMAIN q /\ r.for = q.for /\ r.result = q.result /\ r.arg = q.arg
      /\ r.id = q.id /\ r.seen = q.seen /\ r.live = FALSE /\ r.preview = q.preview
      /\ r.calm = q.calm /\ r.fresh = q.fresh
  BY DEF Sound
<1> HIDE DEF r
<1>5. Sound(V, g, r)
  BY <1>3, <1>4 DEF Sound, LookedUp, Imports
<1> QED BY <1>3, <1>5 DEF r

LEMMA NoneIsHonest == ASSUME NEW W, NEW V, Grown(W, V) PROVE Warned(V, NoPreview)
<1>1. Len(V) \in Nat
  BY DEF Grown
<1>2. Honest(V, "", None, 0)
  BY <1>1 DEF Honest
<1> QED BY <1>2 DEF Warned, NoPreview

LEMMA ShownStays ==
    ASSUME NEW W, NEW V, Grown(W, V), NEW f, NEW g, Shown(W, f), DOMAIN g = DOMAIN f,
           \/ g.preview = f.preview /\ Tamer(f, g)
           \/ g.preview = NoPreview
    PROVE  Shown(V, g)
<1>1. Warned(V, NoPreview)
  BY NoneIsHonest
<1>2. Warned(V, f.preview)
  BY HonestStays DEF Shown, Warned
<1> QED BY <1>1, <1>2 DEF Shown, Tamer

(* What a widget sends.                                                    *)
LEMMA SentIsSound ==
    ASSUME NEW W, NEW V, Grown(W, V), Shown(W, form), NEW g, NEW for, NEW arg,
           \/ for \notin {"lookup", "create"}
           \/ for = "lookup" /\ arg = g.identifier
           \/ for = "create" /\ arg = form.identifier /\ form.preview # NoPreview
    PROVE  Sound(V, g, Request(for, arg))
<1> DEFINE r == Request(for, arg)
<1>1. /\ r.for = for /\ r.arg = arg /\ r.result = "none" /\ r.preview = form.preview
      /\ r.calm = form.calm
      /\ DOMAIN r = {"n", "for", "arg", "step", "result", "id", "seen", "fresh", "live", "preview",
                     "calm"}
  BY DEF Request
<1>2. Warned(V, form.preview)
  BY HonestStays DEF Shown, Warned
<1> HIDE DEF r
<1>3. LookedUp(V, g, r)
  BY <1>1 DEF LookedUp
<1>4. Imports(V, r)
  BY <1>1, <1>2 DEF Imports, Shown
<1> QED BY <1>1, <1>3, <1>4 DEF Sound, r

(* A result reaches the form.                                              *)
LEMMA ResultShown ==
    ASSUME ImportInv, NEW q \in requests, q.live, NEW result, Result(q, result),
           result \in {q.result, "failed"}
    PROVE  Shown(works, form') /\ Tamer(form, form')
<1>1. Shown(works, form) /\ LookedUp(works, form, q) /\ Imports(works, q)
  BY DEF ImportInv, Sound
<1>2. CASE form' = form
  BY <1>1, <1>2 DEF Tamer
<1>3. CASE /\ q.for = "lookup" /\ result = "found"
           /\ form' = [form EXCEPT !.loading = "",
                                   !.preview = [key |-> q.arg, duplicate |-> q.id, seen |-> q.seen]]
  <2>1. /\ DOMAIN form' = DOMAIN form /\ form'.identifier = form.identifier
        /\ form'.calm = form.calm /\ form'.preview.key = q.arg
        /\ form'.preview.duplicate = q.id /\ form'.preview.seen = q.seen
    BY <1>1, <1>3 DEF Shown, EmptyForm
  <2>2. Honest(works, q.arg, q.id, q.seen)
    BY <1>1, <1>3 DEF LookedUp
  <2>3. form.calm => q.arg = form.identifier \/ form.identifier = ""
    BY <1>1, <1>3 DEF LookedUp
  <2> QED BY <1>1, <2>1, <2>2, <2>3 DEF Shown, Warned, Tamer
<1>4. CASE \/ form' = [form EXCEPT !.loading = "", !.notFound = TRUE]
           \/ form' = [form EXCEPT !.loading = "", !.error = TRUE]
           \/ form' = [form EXCEPT !.loading = "", !.created = q.id]
  <2>1. /\ DOMAIN form' = DOMAIN form /\ form'.identifier = form.identifier
        /\ form'.calm = form.calm /\ form'.preview = form.preview
    BY <1>1, <1>4 DEF Shown, EmptyForm
  <2> QED BY <1>1, <2>1 DEF Shown, Tamer
<1>5. CASE q.for = "lookup"
  <2>1. form' = FormAfterLookup(q, result)
    BY <1>5 DEF Result
  <2> QED BY <1>3, <1>4, <1>5, <2>1 DEF FormAfterLookup
<1>6. CASE q.for = "create"
  <2>1. form' = FormAfterCreate(q, result)
    BY <1>6 DEF Result
  <2> QED BY <1>4, <2>1 DEF FormAfterCreate
<1>7. CASE q.for \notin {"lookup", "create"}
  BY <1>2, <1>7 DEF Result
<1> QED BY <1>5, <1>6, <1>7

(* The service answers: what it says of a work is so.                      *)
LEMMA ServedIsSound ==
    ASSUME ImportInv, Grown(works, works'), NEW q \in requests, Serve(q)
    PROVE  /\ form' = form
           /\ \A r \in requests' : r \in requests \/ Sound(works', form, r)
<1>1. Sound(works, form, q)
  BY DEF ImportInv
<1>2. Sound(works', form, q)
  BY <1>1, SoundStays DEF Tamer
<1>3. ASSUME NEW result, q.for \notin {"lookup", "create"} \/ result \notin {"found", "created"}
      PROVE  Sound(works', form, [[q EXCEPT !.result = result] EXCEPT !.step = "served"])
  <2> DEFINE x == [[q EXCEPT !.result = result] EXCEPT !.step = "served"]
  <2>1. /\ DOMAIN x = DOMAIN q /\ x.for = q.for /\ x.arg = q.arg /\ x.live = q.live
        /\ x.preview = q.preview /\ x.calm = q.calm /\ x.result = result
    BY <1>1 DEF Sound
  <2> HIDE DEF x
  <2>2. Sound(works', form, x)
    BY <1>2, <1>3, <2>1 DEF Sound, LookedUp, Imports
  <2> QED BY <2>2 DEF x
<1>4. ASSUME q.for = "lookup", works' = works
      PROVE  Sound(works', form,
                   [[q EXCEPT !.result = "found", !.id = Known(q.arg), !.seen = Len(works)]
                       EXCEPT !.step = "served"])
  <2> DEFINE x == [[q EXCEPT !.result = "found", !.id = Known(q.arg), !.seen = Len(works)]
                       EXCEPT !.step = "served"]
  <2>1. /\ DOMAIN x = DOMAIN q /\ x.for = q.for /\ x.arg = q.arg /\ x.live = q.live
        /\ x.id = Known(q.arg) /\ x.seen = Len(works)
    BY <1>1 DEF Sound
  <2>2. Honest(works, q.arg, Known(q.arg), Len(works))
    BY KnownIsHonest DEF ImportInv, Shape
  <2> HIDE DEF x
  <2>3. Sound(works', form, x)
    BY <1>1, <1>4, <2>1, <2>2 DEF Sound, LookedUp, Imports
  <2> QED BY <2>3 DEF x
<1>5. ASSUME NEW p, p = Known(q.arg), NEW id, id = IF p = None THEN Len(works) + 1 ELSE p,
             q.for = "create", q.arg \in Resolved
      PROVE  Sound(works', form,
                   [[q EXCEPT !.result = "created", !.fresh = p = None, !.id = id]
                       EXCEPT !.step = "served"])
  <2> DEFINE x == [[q EXCEPT !.result = "created", !.fresh = p = None, !.id = id]
                       EXCEPT !.step = "served"]
  <2>1. /\ DOMAIN x = DOMAIN q /\ x.for = q.for /\ x.arg = q.arg /\ x.preview = q.preview
        /\ x.calm = q.calm /\ x.id = id /\ (x.fresh <=> p = None)
    BY <1>1 DEF Sound
  <2> HIDE DEF x
  <2>2. q.arg # ""
    BY <1>5, PanelsAssumption
  <2>3. Honest(works, q.arg, p, Len(works)) /\ works \in Seq(Works)
    BY <1>5, KnownIsHonest DEF ImportInv, Shape
  <2>4. Honest(works, q.preview.key, q.preview.duplicate, q.preview.seen)
    BY <1>1, <1>5 DEF Sound, Imports, Warned
  <2>5. q.calm => q.arg = q.preview.key
    BY <1>1, <1>5, <2>2 DEF Sound, Imports
  <2>6. (q.calm /\ p # None) => p = q.preview.duplicate \/ p > q.preview.seen
    BY <2>3, <2>4, <2>5, HonestAgree
  <2>7. Imports(works', q)
    BY <1>2 DEF Sound
  <2>8. Sound(works', form, x)
    BY <1>1, <1>5, <2>1, <2>5, <2>6, <2>7 DEF Sound, LookedUp, Imports
  <2> QED BY <2>8 DEF x
<1>6. CASE \/ ServeHealth(q) \/ ServeCoverage(q) \/ ServeMaintenance(q) \/ ServeRag(q)
           \/ ServeChat(q)
  <2>1. PICK result : Served(q, [q EXCEPT !.result = result])
    BY <1>6 DEF ServeHealth, ServeCoverage, ServeMaintenance, ServeRag, Reported, ServeChat
  <2>2. q.for \notin {"lookup", "create"} /\ form' = form
    BY <1>6 DEF ServeHealth, ServeCoverage, ServeMaintenance, ServeRag, Reported, ServeChat
  <2> QED BY <1>3, <2>1, <2>2 DEF Served
<1>7. CASE ServeSnippet(q)
  <2>1. q.for = "snippet" /\ form' = form
    BY <1>7 DEF ServeSnippet
  <2>2. PICK result : Served(q, [q EXCEPT !.result = result])
    BY <1>7 DEF ServeSnippet
  <2> QED BY <1>3, <2>1, <2>2 DEF Served
<1>8. CASE ServeLookup(q)
  <2>1. works' = works /\ form' = form /\ q.for = "lookup"
    BY <1>8 DEF ServeLookup, portalVars
  <2>2. CASE Served(q, [q EXCEPT !.result = "found", !.id = Known(q.arg), !.seen = Len(works)])
    BY <1>4, <2>1, <2>2 DEF Served
  <2>3. CASE \E result \in {"absent", "failed"} : Served(q, [q EXCEPT !.result = result])
    BY <1>3, <2>1, <2>3 DEF Served
  <2> QED BY <1>8, <2>2, <2>3 DEF ServeLookup
<1>9. CASE ServeCreate(q)
  <2>1. form' = form /\ q.for = "create"
    BY <1>9 DEF ServeCreate
  <2>2. CASE Served(q, [q EXCEPT !.result = "failed"])
    BY <1>3, <2>1, <2>2 DEF Served
  <2> DEFINE p == Known(q.arg)
             id == IF p = None THEN Len(works) + 1 ELSE p
  <2> DEFINE x == [[q EXCEPT !.result = "created", !.fresh = p = None, !.id = id]
                       EXCEPT !.step = "served"]
  <2>3. CASE /\ q.arg \in Resolved
             /\ Served(q, [q EXCEPT !.result = "created", !.fresh = p = None, !.id = id])
    <3>1. Sound(works', form, x)
      BY <1>5, <2>1, <2>3
    <3>2. requests' \subseteq (requests \cup {x})
      BY <2>3 DEF Served
    <3> HIDE DEF x
    <3> QED BY <2>1, <3>1, <3>2
  <2> HIDE DEF p, id
  <2>4. \/ Served(q, [q EXCEPT !.result = "failed"])
        \/ /\ q.arg \in Resolved
           /\ Served(q, [q EXCEPT !.result = "created", !.fresh = p = None, !.id = id])
    BY <1>9 DEF ServeCreate, p, id
  <2> QED BY <2>2, <2>3, <2>4
<1> QED BY <1>6, <1>7, <1>8, <1>9 DEF Serve

LEMMA ImportStep == ASSUME ImportInv, [Next]_vars PROVE ImportInv'
<1>1. Grown(works, works') /\ Shape'
  BY WorksGrow, ShapeStep DEF ImportInv
<1>2. Shown(works, form) /\ \A q \in requests : Sound(works, form, q)
  BY DEF ImportInv
<1> SUFFICES Shown(works', form') /\ \A q \in requests' : Sound(works', form', q)
  BY <1>1 DEF ImportInv
<1>3. ASSUME /\ DOMAIN form' = DOMAIN form /\ Tamer(form, form')
             /\ form'.preview = form.preview \/ form'.preview = NoPreview,
             \A q \in requests' : \/ q \in requests
                                  \/ \E r \in requests : q = [r EXCEPT !.live = FALSE]
                                  \/ Sound(works', form', q)
      PROVE  Shown(works', form') /\ \A q \in requests' : Sound(works', form', q)
  BY <1>1, <1>2, <1>3, ShownStays, SoundStays
<1>4. CASE UNCHANGED <<form, requests>>
  BY <1>3, <1>4 DEF Tamer
<1>5. CASE \/ LoadHealth \/ LoadCoverage \/ LoadMaintenance \/ Ask \/ Generate \/ Say
  <2>1. PICK for, arg : /\ for \in Widgets \cup {"chat"}
                        /\ requests' = requests \cup {Request(for, arg)}
    BY <1>5 DEF LoadHealth, LoadCoverage, LoadMaintenance, Load, Ask, Generate, Say, Send,
                Widgets, Loaders
  <2>2. form' = form
    BY <1>5 DEF LoadHealth, LoadCoverage, LoadMaintenance, Load, Ask, Generate, Say
  <2>3. Sound(works', form', Request(for, arg))
    BY <1>1, <1>2, <2>1, SentIsSound DEF Widgets, Loaders
  <2> QED BY <1>3, <2>1, <2>2, <2>3 DEF Tamer
<1>6. ASSUME NEW k, EditIdentifier(k)
      PROVE  Shown(works', form') /\ \A q \in requests' : Sound(works', form', q)
  <2>1. /\ DOMAIN form' = DOMAIN form /\ form'.preview = form.preview /\ form'.calm = FALSE
        /\ requests' = requests
    BY <1>2, <1>6 DEF EditIdentifier, Shown, EmptyForm
  <2> QED BY <1>3, <2>1 DEF Tamer
<1>7. CASE Lookup
  <2>1. /\ DOMAIN form' = DOMAIN EmptyForm /\ form'.preview = NoPreview
        /\ form'.calm = (LookupsLive = {}) /\ form'.identifier = form.identifier
        /\ requests' = requests \cup {Request("lookup", form.identifier)}
    BY <1>7 DEF Lookup, Reset, EmptyForm, Send
  <2>2. Sound(works', form', Request("lookup", form.identifier))
    BY <1>1, <1>2, <2>1, SentIsSound
  <2>3. Shown(works', form')
    <3>1. Warned(works', NoPreview)
      BY <1>1, NoneIsHonest
    <3> QED BY <2>1, <3>1 DEF Shown
  <2>4. ASSUME NEW q \in requests PROVE Sound(works', form', q)
    <3>1. Sound(works', form, q)
      BY <1>1, <1>2, SoundStays DEF Tamer
    <3>2. form'.calm => ~ (q.for = "lookup" /\ q.live)
      BY <2>1 DEF LookupsLive
    <3> QED BY <3>1, <3>2 DEF Sound, LookedUp
  <2> QED BY <2>1, <2>2, <2>3, <2>4
<1>8. CASE Create
  <2>1. /\ DOMAIN form' = DOMAIN form /\ form'.preview = form.preview
        /\ form'.calm = form.calm /\ form'.identifier = form.identifier
        /\ requests' = requests \cup {Request("create", form.identifier)}
        /\ form.preview # NoPreview
    BY <1>2, <1>8 DEF Create, Shown, EmptyForm, Send
  <2>2. Sound(works', form', Request("create", form.identifier))
    BY <1>1, <1>2, <2>1, SentIsSound
  <2> QED BY <1>3, <2>1, <2>2 DEF Tamer
<1>9. CASE ImportAnother
  <2>1. /\ DOMAIN form' = DOMAIN form /\ form'.preview = NoPreview /\ form'.identifier = ""
        /\ requests' = requests
    BY <1>2, <1>9 DEF ImportAnother, Reset, EmptyForm, Shown
  <2> QED BY <1>3, <2>1 DEF Tamer
<1>10. ASSUME NEW r, Visit(r)
       PROVE  Shown(works', form') /\ \A q \in requests' : Sound(works', form', q)
  <2>1. PICK kept : Mounted(r.page, kept)
    BY <1>10 DEF Visit
  <2>2. /\ DOMAIN form' = DOMAIN form /\ form'.preview = NoPreview /\ form'.identifier = ""
    BY <1>2, <2>1 DEF Mounted, EmptyForm, Shown
  <2>3. \A q \in requests' : q \in requests \/ \E x \in requests : q = [x EXCEPT !.live = FALSE]
    BY <2>1 DEF Mounted
  <2> QED BY <1>3, <2>2, <2>3 DEF Tamer
<1>11. ASSUME NEW q \in requests, Serve(q)
       PROVE  Shown(works', form') /\ \A x \in requests' : Sound(works', form', x)
  <2>1. form' = form /\ \A x \in requests' : x \in requests \/ Sound(works', form, x)
    BY <1>1, <1>11, ServedIsSound
  <2> QED BY <1>3, <2>1 DEF Tamer
<1>12. ASSUME NEW q \in requests, Deliver(q) \/ GiveUp(q)
       PROVE  Shown(works', form') /\ \A x \in requests' : Sound(works', form', x)
  <2>1. \A x \in requests' : x \in requests \/ \E r \in requests : x = [r EXCEPT !.live = FALSE]
    BY <1>12 DEF Deliver, GiveUp, Forget, GivenUp
  <2>2. works' = works /\ Shown(works, form') /\ Tamer(form, form')
    <3>1. q.live /\ \E result \in {q.result, "failed"} : Result(q, result)
      BY <1>12 DEF Deliver, GiveUp
    <3> QED BY <3>1, ResultShown DEF Result, portalVars
  <2> QED BY <1>1, <1>2, <2>1, <2>2, SoundStays
<1>13. CASE UNCHANGED vars
  BY <1>4, <1>13 DEF vars, panelVars
<1>14. CASE Browse /\ UNCHANGED panelVars
  BY <1>4, <1>14 DEF panelVars
<1> QED BY <1>5, <1>6, <1>7, <1>8, <1>9, <1>10, <1>11, <1>12, <1>13, <1>14 DEF Next

(* What the editor saw before pressing Create is what is imported, or it   *)
(* came to the catalogue after the lookup: for any identifiers, works and  *)
(* requests, with answers late, out of order or given up.                  *)
THEOREM PreviewIsKept == Spec => []CreatesWhatWasPreviewed
<1>1. Init => ImportInv
  <2> SUFFICES ASSUME Init PROVE ImportInv
    OBVIOUS
  <2>1. Shape /\ form = EmptyForm /\ requests = {}
    BY InitShape DEF Init, PanelsInit
  <2>2. Warned(works, NoPreview)
    <3>1. Grown(works, works)
      BY <2>1 DEF Grown, Shape
    <3> QED BY <3>1, NoneIsHonest
  <2> QED BY <2>1, <2>2 DEF ImportInv, Shown, EmptyForm
<1>2. ImportInv /\ [Next]_vars => ImportInv'
  BY ImportStep
<1>3. ImportInv => CreatesWhatWasPreviewed
  BY DEF ImportInv, Sound, Imports, CreatesWhatWasPreviewed
<1> QED BY <1>1, <1>2, <1>3, PTL DEF Spec

----------------------------------------------------------------------------
(* Lists.  The pages of one differ in their number only; a row is on the   *)
(* page its place in the order falls into.                                 *)
StagesOK == stages \in [DOMAIN Theses -> ToSet(Stages)]
ListInv == LinkInv /\ StagesOK

PagesOf(r) == {At(r, n) : n \in 1..TotalPages(r)}

LEMMA AtPage ==
    ASSUME NEW r, Shaped(r), NEW n
    PROVE  /\ Shaped(At(r, n)) /\ At(r, n).at = n /\ At(r, n).page = r.page
           /\ Matching(At(r, n)) = Matching(r) /\ TotalPages(At(r, n)) = TotalPages(r)
           /\ \A m : At(At(r, n), m) = At(r, m)
<1> DEFINE q == At(r, n)
<1>1. /\ Shaped(q) /\ q.at = n /\ q.page = r.page /\ q.id = r.id /\ q.year = r.year
      /\ q.kind = r.kind /\ q.level = r.level
  BY DEF Shaped, At
<1>2. \A m : At(q, m) = At(r, m)
  BY DEF Shaped, At
<1> HIDE DEF q
<1>3. Matching(q) = Matching(r)
  BY <1>1 DEF Matching
<1>4. TotalPages(q) = TotalPages(r)
  BY <1>3 DEF TotalPages
<1> QED BY <1>1, <1>2, <1>3, <1>4 DEF q

(* No row comes before itself, whatever the order of its list.             *)
LEMMA NeverBeforeItself ==
    ASSUME works \in Seq(Works), StagesOK
    PROVE  /\ \A p \in DOMAIN works : ~ Newer(p, p)
           /\ \A d \in DOMAIN Theses : ~ Earlier(d, d)
<1>1. ASSUME NEW p \in DOMAIN works PROVE ~ Newer(p, p)
  BY WorkAt DEF Newer
<1>2. ASSUME NEW d \in DOMAIN Theses PROVE ~ Earlier(d, d)
  <2>1. stages[d] \in ToSet(Stages)
    BY DEF StagesOK
  <2>2. \E i \in DOMAIN Stages : Stages[i] = stages[d]
    BY <2>1 DEF ToSet
  <2>3. StageRank(stages[d]) \in DOMAIN Stages
    BY <2>2 DEF StageRank
  <2>4. StageRank(stages[d]) \in Int
    BY <2>3 DEF Stages
  <2>5. d \in Int
    BY PortalAssumption
  <2> QED BY <2>4, <2>5 DEF Earlier
<1> QED BY <1>1, <1>2

(* The place of a row in its list.                                         *)
Place(r, x) ==
    Cardinality({y \in Matching(r) : IF r.page = "theses" THEN Earlier(y, x) ELSE Newer(y, x)})

LEMMA Placed ==
    ASSUME works \in Seq(Works), StagesOK, NEW r, r.page \in Listings
    PROVE  /\ \A x \in Matching(r) : Place(r, x) \in 0..(Cardinality(Matching(r)) - 1)
           /\ \A x : x \in Listed(r) <=>
                x \in Matching(r)
                /\ Place(r, x) \in ((r.at - 1) * PerPage)..((r.at - 1) * PerPage + PerPage - 1)
<1>1. ASSUME NEW x \in Matching(r)
      PROVE  Place(r, x) \in 0..(Cardinality(Matching(r)) - 1)
  <2> DEFINE B == {y \in Matching(r) : IF r.page = "theses" THEN Earlier(y, x) ELSE Newer(y, x)}
  <2>1. CASE r.page = "theses"
    <3>1. x \in DOMAIN Theses
      BY <1>1, <2>1 DEF Matching
    <3>2. x \notin B
      BY <2>1, <3>1, NeverBeforeItself
    <3> QED BY <3>2, Fewer, ListsAreFinite DEF Place
  <2>2. CASE r.page # "theses"
    <3>1. x \in DOMAIN works
      BY <1>1, <2>2 DEF Matching, Published
    <3>2. x \notin B
      BY <2>2, <3>1, NeverBeforeItself
    <3> QED BY <3>2, Fewer, ListsAreFinite DEF Place
  <2> QED BY <2>1, <2>2
<1>2. CASE r.page = "theses"
  BY <1>1, <1>2 DEF Listed, Slice, Place
<1>3. CASE r.page # "theses"
  BY <1>1, <1>3 DEF Listed, Slice, Place
<1> QED BY <1>1, <1>2, <1>3

(* The pager of a page links the pages beside it and the first one, and    *)
(* never one that is not there.                                            *)
LEMMA PagerLinks ==
    ASSUME NEW r, Shaped(r), NEW total \in Nat, total = TotalPages(r), r.at \in 1..total
    PROVE  /\ \A q \in Pager(r) : \E i \in 1..total : q = At(r, i)
           /\ total > 1 => At(r, 1) \in Pager(r)
           /\ r.at < total => At(r, r.at + 1) \in Pager(r)
<1> DEFINE arrows == {n \in {r.at - 1, r.at + 1} : 1 <= n /\ (n < r.at \/ r.at < total)}
           numbers == PageWindow(r.at, total) \cup arrows
<1>1. Pager(r) = IF total <= 1 THEN {} ELSE {At(r, n) : n \in numbers}
  BY DEF Pager, HrefWith, At
<1>2. numbers \subseteq 1..total \/ total <= 1
  BY DEF PageWindow
<1>3. 1 \in numbers
  BY DEF PageWindow
<1>4. r.at < total => r.at + 1 \in numbers
  OBVIOUS
<1> HIDE DEF numbers
<1> QED BY <1>1, <1>2, <1>3, <1>4

LEMMA PagerStays ==
    ASSUME works \in Seq(Works), NEW r, Shaped(r), NEW q \in PagesOf(r)
    PROVE  Pager(q) \subseteq PagesOf(r)
<1> DEFINE total == TotalPages(r)
<1>1. total \in Nat
  BY ListsAreFinite
<1> HIDE DEF total
<1>2. PICK n \in 1..total : q = At(r, n)
  BY DEF PagesOf, total
<1>3. /\ Shaped(q) /\ q.at = n /\ TotalPages(q) = total
      /\ \A m : At(q, m) = At(r, m)
  BY <1>2, AtPage DEF total
<1>4. \A x \in Pager(q) : \E i \in 1..total : x = At(q, i)
  BY <1>1, <1>3, PagerLinks
<1> QED BY <1>3, <1>4 DEF PagesOf, total

(* Following it leads everywhere: to the first page, and to the next.      *)
LEMMA PagerReaches ==
    ASSUME works \in Seq(Works), NEW r, Shaped(r), NEW S, S \subseteq PagesOf(r), S # {},
           \A q \in S : Pager(q) \subseteq S
    PROVE  S = PagesOf(r)
<1> DEFINE total == TotalPages(r)
           Left == {n \in 1..total : At(r, n) \notin S}
<1>1. total \in Nat
  BY ListsAreFinite
<1>2. \A n \in 1..total : /\ Shaped(At(r, n)) /\ At(r, n).at = n /\ TotalPages(At(r, n)) = total
                          /\ \A m : At(At(r, n), m) = At(r, m)
  BY AtPage
<1>3. PagesOf(r) = {At(r, n) : n \in 1..total}
  BY DEF PagesOf
<1> HIDE DEF total
<1>4. ASSUME NEW n \in 1..total, At(r, n) \in S
      PROVE  (total > 1 => At(r, 1) \in S) /\ (n < total => At(r, n + 1) \in S)
  <2>1. Pager(At(r, n)) \subseteq S
    BY <1>4
  <2>2. /\ total > 1 => At(At(r, n), 1) \in Pager(At(r, n))
        /\ n < total => At(At(r, n), n + 1) \in Pager(At(r, n))
    BY <1>1, <1>2, PagerLinks
  <2> QED BY <1>2, <2>1, <2>2
<1>5. PICK k \in 1..total : At(r, k) \in S
  BY <1>3
<1>6. At(r, 1) \in S
  BY <1>1, <1>4, <1>5
<1>7. Left = {}
  <2> SUFFICES ASSUME Left # {} PROVE FALSE
    OBVIOUS
  <2>1. PICK n \in Left : \A m \in Left : n <= m
    <3>1. Left \subseteq Nat
      BY <1>1
    <3> HIDE DEF Left
    <3> QED BY <3>1, LeastNatural
  <2>2. n # 1 /\ n \in 1..total /\ At(r, n) \notin S
    BY <1>6, <2>1
  <2>3. n - 1 \in 1..total /\ n - 1 < total /\ (n - 1) + 1 = n
    BY <1>1, <2>2
  <2>4. At(r, n - 1) \in S
    BY <2>1, <2>3
  <2> QED BY <1>4, <2>2, <2>3, <2>4
<1> QED BY <1>3, <1>7

LEMMA PagesShareRows ==
    ASSUME works \in Seq(Works), StagesOK, NEW r, Shaped(r), r.page \in Listings
    PROVE  /\ UNION {Listed(q) : q \in PagesOf(r)} = Matching(r)
           /\ \A q, p \in PagesOf(r) : q # p => Listed(q) \cap Listed(p) = {}
<1> DEFINE total == TotalPages(r)
           count == Cardinality(Matching(r))
<1>1. /\ total \in Nat /\ count \in Nat /\ PerPage \in Nat \ {0}
      /\ total = (count + PerPage - 1) \div PerPage
  BY ListsAreFinite, PortalAssumption DEF TotalPages
<1>2. \A n \in 1..total : /\ At(r, n).at = n /\ Matching(At(r, n)) = Matching(r) /\ At(r, n).page = r.page
  BY AtPage
<1>3. \A n \in 1..total : \A x : Place(At(r, n), x) = Place(r, x)
  BY <1>2 DEF Place
<1>4. \A n \in 1..total : At(r, n).page \in Listings
  BY <1>2
<1>5. PagesOf(r) = {At(r, n) : n \in 1..total}
  BY DEF PagesOf
<1> HIDE DEF total, count
<1>6. ASSUME NEW n \in 1..total, NEW x
      PROVE  x \in Listed(At(r, n)) <=>
               x \in Matching(r) /\ Place(r, x) \in ((n - 1) * PerPage)..((n - 1) * PerPage + PerPage - 1)
  BY <1>2, <1>3, <1>4, Placed
<1>7. \A x \in Matching(r) : Place(r, x) \in 0..(count - 1)
  BY Placed DEF count
<1>8. ASSUME NEW x \in Matching(r) PROVE \E n \in 1..total : x \in Listed(At(r, n))
  BY <1>1, <1>6, <1>7, PageOf
<1>9. ASSUME NEW n \in 1..total, NEW m \in 1..total, n # m
      PROVE  Listed(At(r, n)) \cap Listed(At(r, m)) = {}
  <2> SUFFICES ASSUME NEW x \in Listed(At(r, n)), x \in Listed(At(r, m)) PROVE FALSE
    OBVIOUS
  <2> DEFINE k == Place(r, x)
  <2>1. /\ x \in Matching(r) /\ k \in ((n - 1) * PerPage)..((n - 1) * PerPage + PerPage - 1)
        /\ k \in ((m - 1) * PerPage)..((m - 1) * PerPage + PerPage - 1)
    BY <1>6
  <2>2. k \in Int
    BY <1>1, <1>7, <2>1
  <2> HIDE DEF k
  <2>3. n \in Nat \ {0} /\ m \in Nat \ {0}
    BY <1>1
  <2> QED BY <1>1, <1>9, <2>1, <2>2, <2>3, OnePage
<1>10. \A n \in 1..total : Listed(At(r, n)) \subseteq Matching(r)
  BY <1>6
<1> QED BY <1>5, <1>8, <1>9, <1>10

LEMMA ListsHold == ASSUME Shape, StagesOK, Shaped(tab.route) PROVE ListsAreWhole
<1> DEFINE r == tab.route
<1> SUFFICES ASSUME r.page \in Listings, r \in PagesOf(r)
             PROVE  /\ \A q \in PagesOf(r) : Pager(q) \subseteq PagesOf(r)
                    /\ \A S \in SUBSET PagesOf(r) :
                         (r \in S /\ \A q \in S : Pager(q) \subseteq S) => S = PagesOf(r)
                    /\ UNION {Listed(q) : q \in PagesOf(r)} = Matching(r)
                    /\ \A q, p \in PagesOf(r) : q # p => Listed(q) \cap Listed(p) = {}
  BY DEF ListsAreWhole, PagesOf, At
<1> HIDE DEF r
<1>1. works \in Seq(Works) /\ Shaped(r)
  BY DEF Shape, r
<1>2. \A q \in PagesOf(r) : Pager(q) \subseteq PagesOf(r)
  BY <1>1, PagerStays
<1>3. ASSUME NEW S \in SUBSET PagesOf(r), r \in S, \A q \in S : Pager(q) \subseteq S
      PROVE  S = PagesOf(r)
  BY <1>1, <1>3, PagerReaches
<1>4. /\ UNION {Listed(q) : q \in PagesOf(r)} = Matching(r)
      /\ \A q, p \in PagesOf(r) : q # p => Listed(q) \cap Listed(p) = {}
  BY <1>1, PagesShareRows
<1> QED BY <1>2, <1>3, <1>4

(* Only an editor changes a stage, to one of the three.                    *)
LEMMA StagesStep == ASSUME StagesOK, [Next]_vars PROVE StagesOK'
<1>1. CASE UNCHANGED stages
  BY <1>1 DEF StagesOK
<1>2. CASE \E d \in DOMAIN Theses, s \in ToSet(Stages) : SetStage(d, s)
  <2>1. PICK d \in DOMAIN Theses, s \in ToSet(Stages) : stages' = [stages EXCEPT ![d] = s]
    BY <1>2 DEF SetStage
  <2> HIDE DEF ToSet
  <2> QED BY <2>1 DEF StagesOK
<1>3. CASE \E q \in requests : Serve(q) \/ Deliver(q) \/ GiveUp(q)
  <2>1. UNCHANGED stages
    BY <1>3 DEF Serve, ServeHealth, ServeCoverage, ServeMaintenance, ServeRag, Reported, ServeChat,
                ServeLookup, ServeSnippet, ServeCreate, Deliver, GiveUp, Result, portalVars
  <2> QED BY <1>1, <2>1
<1>4. CASE UNCHANGED portalVars
  BY <1>1, <1>4 DEF portalVars
<1>5. CASE \/ LoadHealth \/ LoadCoverage \/ LoadMaintenance
           \/ Ask \/ Generate \/ Say \/ Lookup \/ Create \/ ImportAnother
           \/ \E k \in Keys : EditIdentifier(k)
  BY <1>4, <1>5 DEF LoadHealth, LoadCoverage, LoadMaintenance, Load, Ask, Generate, Say, Lookup,
                    Create, ImportAnother, EditIdentifier
<1>6. CASE Browse
  <2>1. CASE Drawn
    BY <1>1, <2>1 DEF Drawn, Assemble
  <2>2. CASE (\E c \in {0, Wide} : Wheel(c) \/ PointerDown(c) \/ PointerMove(c))
             \/ ZoomButton \/ PointerUp
    BY <1>1, <2>2 DEF Wheel, PointerDown, PointerMove, ZoomButton, PointerUp, Gesture
  <2>3. CASE \/ \E p \in DOMAIN works : Publish(p) \/ Withdraw(p)
             \/ \E m \in DOMAIN Members, f \in Contacts, v \in {"on", "off"} : Toggle(m, f, v)
             \/ \E jobs \in {{}, {1}} : SetJobs(jobs)
             \/ Redraw
    BY <1>1, <2>3 DEF Publish, Withdraw, Toggle, SetJobs, Redraw
  <2> QED BY <1>2, <1>6, <2>1, <2>2, <2>3 DEF Browse
<1>7. CASE \E r \in Typed \cup Header \cup tab.page.links : Visit(r)
  BY <1>1, <1>7 DEF Visit, Type, Follow
<1> QED BY <1>3, <1>4, <1>5, <1>6, <1>7 DEF Next, vars

(* Whatever the list, its filters and the size of a page, the pager of any *)
(* of its pages leads to all of them and nowhere else, every match is on   *)
(* one of them and none is on two.                                         *)
THEOREM ListsStayWhole == Spec => []ListsAreWhole
<1>1. Init => ListInv
  <2> SUFFICES ASSUME Init PROVE ListInv
    OBVIOUS
  <2>1. LinkInv
    BY InitLinks
  <2>2. stages = [d \in DOMAIN Theses |-> "open"]
    BY DEF Init, PortalInit
  <2>3. "open" \in ToSet(Stages)
    BY DEF ToSet, Stages
  <2> HIDE DEF ToSet
  <2> QED BY <2>1, <2>2, <2>3 DEF ListInv, StagesOK
<1>2. ListInv /\ [Next]_vars => ListInv'
  <2> SUFFICES ASSUME ListInv, [Next]_vars PROVE ListInv'
    OBVIOUS
  <2>1. LinkInv /\ StagesOK
    BY DEF ListInv
  <2>2. LinkInv'
    BY <2>1, LinkStep
  <2>3. StagesOK'
    BY <2>1, StagesStep
  <2> QED BY <2>2, <2>3 DEF ListInv
<1>3. ListInv => ListsAreWhole
  BY ListsHold, AddressParts DEF ListInv, LinkInv, HiddenInv, AtAddress
<1> QED BY <1>1, <1>2, <1>3, PTL DEF Spec

----------------------------------------------------------------------------
(* Types.  The chart: whatever is asked of it, the view stays on canvas.   *)
LEMMA LeastOfTwo ==
    ASSUME NEW a \in Int, NEW b \in Int
    PROVE  Min({a, b}) \in {a, b} /\ Min({a, b}) <= a /\ Min({a, b}) <= b
<1>1. \E x \in {a, b} : \A y \in {a, b} : x <= y
  <2>1. CASE a <= b
    BY <2>1
  <2>2. CASE b <= a
    BY <2>2
  <2> QED BY <2>1, <2>2
<1>2. Min({a, b}) \in {a, b} /\ \A y \in {a, b} : Min({a, b}) <= y
  BY <1>1 DEF Min
<1> QED BY <1>2

LEMMA GreatestOfTwo ==
    ASSUME NEW a \in Int, NEW b \in Int
    PROVE  Max({a, b}) \in {a, b} /\ Max({a, b}) >= a /\ Max({a, b}) >= b
<1>1. \E x \in {a, b} : \A y \in {a, b} : x >= y
  <2>1. CASE a >= b
    BY <2>1
  <2>2. CASE b >= a
    BY <2>2
  <2> QED BY <2>1, <2>2
<1>2. Max({a, b}) \in {a, b} /\ \A y \in {a, b} : Max({a, b}) >= y
  BY <1>1 DEF Max
<1> QED BY <1>2

LEMMA MapSizes == Wide \in Nat \ {0} /\ Closest \in 1..Wide /\ Focused \in Closest..Wide
BY PortalAssumption

LEMMA WithinIsOn ==
    ASSUME NEW w \in Closest..Wide, NEW x \in Int
    PROVE  Within(x, w) \in 0..(Wide - w)
<1> DEFINE low == Max({0, x})
<1>1. low \in {0, x} /\ low >= 0 /\ low >= x
  BY GreatestOfTwo
<1>2. w \in Int /\ Wide \in Int /\ Wide - w \in Int /\ Wide - w >= 0
  BY MapSizes
<1>3. low \in Int
  BY <1>1
<1> HIDE DEF low
<1>4. Min({Wide - w, low}) \in {Wide - w, low} /\ Min({Wide - w, low}) <= Wide - w
  BY <1>2, <1>3, LeastOfTwo
<1>5. Within(x, w) = Min({Wide - w, low})
  BY DEF Within, low
<1> QED BY <1>1, <1>2, <1>3, <1>4, <1>5

LEMMA WholeIsOn == OnCanvas(Whole) /\ OnCanvas(NoDrag.start) /\ NoDrag.from \in -1..Wide
BY MapSizes DEF OnCanvas, Whole, NoDrag

LEMMA ViewIsInts ==
    ASSUME NEW view, OnCanvas(view)
    PROVE  view.x \in Int /\ view.w \in Int /\ view.w \in Closest..Wide
BY MapSizes DEF OnCanvas

LEMMA ViewsAreOn ==
    ASSUME NEW view, OnCanvas(view), NEW c \in Int, NEW w \in Int
    PROVE  OnCanvas(ZoomedAt(view, c, w)) /\ OnCanvas(Panned(view, c))
<1>1. view.x \in Int /\ view.w \in Int /\ view.w \in Closest..Wide /\ Wide \in Nat \ {0}
  BY ViewIsInts, MapSizes
<1>2. OnCanvas(Panned(view, c))
  <2> DEFINE x == view.x - (c * view.w) \div Wide
  <2>1. c * view.w \in Int
    BY <1>1
  <2>2. x \in Int
    BY <1>1, <2>1
  <2> HIDE DEF x
  <2>3. Within(x, view.w) \in 0..(Wide - view.w)
    BY <1>1, <2>2, WithinIsOn
  <2>4. Panned(view, c) = [x |-> Within(x, view.w), w |-> view.w]
    BY DEF Panned, x
  <2> QED BY <1>1, <2>3, <2>4 DEF OnCanvas
<1>3. OnCanvas(ZoomedAt(view, c, w))
  <2> DEFINE far == Max({Closest, w})
             next == Min({Wide, far})
             x == view.x + (c * (view.w - next)) \div Wide
  <2>1. Closest \in Int /\ Closest <= Wide
    BY MapSizes
  <2>2. far \in {Closest, w} /\ far >= Closest /\ far \in Int
    BY <2>1, GreatestOfTwo
  <2> HIDE DEF far
  <2>3. next \in {Wide, far} /\ next <= Wide
    BY <1>1, <2>2, LeastOfTwo
  <2>4. next \in Closest..Wide /\ next \in Int
    BY <1>1, <2>1, <2>2, <2>3
  <2> HIDE DEF next
  <2>5. c * (view.w - next) \in Int
    BY <1>1, <2>4
  <2>6. x \in Int
    BY <1>1, <2>5
  <2> HIDE DEF x
  <2>7. Within(x, next) \in 0..(Wide - next)
    BY <2>4, <2>6, WithinIsOn
  <2>8. ZoomedAt(view, c, w) = [x |-> Within(x, next), w |-> next]
    BY DEF ZoomedAt, x, next, far
  <2> QED BY <2>4, <2>7, <2>8 DEF OnCanvas
<1> QED BY <1>2, <1>3

LEMMA FirstViewIsOn ==
    ASSUME NEW r, NEW answered, NEW place \in 0..Wide
    PROVE  OnCanvas(FirstView(r, answered, place))
<1> DEFINE x == place - Focused \div 2
           near == [x |-> Within(x, Focused), w |-> Focused]
<1>1. x \in Int /\ Focused \in Closest..Wide
  BY MapSizes
<1> HIDE DEF x
<1>2. OnCanvas(near)
  BY <1>1, WithinIsOn DEF OnCanvas
<1>3. FirstView(r, answered, place) \in {near, Whole}
  BY DEF FirstView, x
<1> QED BY <1>2, <1>3, WholeIsOn

DragOK(d) == DOMAIN d = {"from", "start", "moved"} /\ d.from \in -1..Wide /\ OnCanvas(d.start)
ChartOK == OnCanvas(tab.view) /\ DragOK(tab.drag)

LEMMA DraggedIsOn ==
    ASSUME TabShape, ChartOK, Dragged
    PROVE  ChartOK'
<1>1. OnCanvas(tab.view) /\ DragOK(tab.drag) /\ OnCanvas(tab.drag.start)
  BY DEF ChartOK, DragOK
<1>2. Wide \in Int /\ Wide \div 2 \in Int /\ tab.view.x \in Int /\ tab.view.w \in Int
      /\ tab.view.w \div 2 \in Int /\ tab.view.w * 2 \in Int /\ tab.drag.from \in Int
  BY <1>1, ViewIsInts, MapSizes DEF DragOK
<1>3. DragOK(NoDrag)
  BY WholeIsOn DEF DragOK, NoDrag
<1>4. ASSUME NEW v, NEW d, OnCanvas(v), DragOK(d), Gesture(v, d)
      PROVE  ChartOK'
  <2>1. tab'.view = v /\ tab'.drag = d
    BY <1>4 DEF Gesture, TabShape
  <2> QED BY <1>4, <2>1 DEF ChartOK
<1>5. ASSUME NEW c \in {0, Wide}, Wheel(c) PROVE ChartOK'
  <2>1. c \in Int
    BY <1>2
  <2>2. OnCanvas(ZoomedAt(tab.view, c, tab.view.w \div 2))
        /\ OnCanvas(ZoomedAt(tab.view, c, tab.view.w * 2))
    BY <1>1, <1>2, <2>1, ViewsAreOn
  <2> QED BY <1>1, <1>4, <1>5, <2>2 DEF Wheel
<1>6. ASSUME NEW c \in {0, Wide}, PointerDown(c) PROVE ChartOK'
  <2> DEFINE d == [from |-> c, start |-> tab.view, moved |-> FALSE]
  <2>1. c \in -1..Wide
    BY MapSizes
  <2>2. DragOK(d)
    BY <1>1, <2>1 DEF DragOK
  <2> HIDE DEF d
  <2> QED BY <1>1, <1>4, <1>6, <2>2 DEF PointerDown, d
<1>7. ASSUME NEW c \in {0, Wide}, PointerMove(c) PROVE ChartOK'
  <2> DEFINE d == [tab.drag EXCEPT !.moved = @ \/ c # tab.drag.from]
             v == Panned(tab.drag.start, c - tab.drag.from)
  <2>1. DragOK(d)
    BY <1>1 DEF DragOK
  <2>2. c - tab.drag.from \in Int
    BY <1>2
  <2>3. OnCanvas(v)
    BY <1>1, <1>2, <2>2, ViewsAreOn
  <2> HIDE DEF d, v
  <2> QED BY <1>4, <1>7, <2>1, <2>3 DEF PointerMove, d, v
<1>8. CASE ZoomButton
  <2> DEFINE c == tab.view.x + tab.view.w \div 2
  <2>1. c \in Int
    BY <1>2
  <2> HIDE DEF c
  <2>2. \A w \in {tab.view.w \div 2, tab.view.w * 2} : OnCanvas(ZoomedAt(tab.view, c, w))
    BY <1>1, <1>2, <2>1, ViewsAreOn
  <2> QED BY <1>1, <1>4, <1>8, <2>2, WholeIsOn DEF ZoomButton, c
<1>9. CASE PointerUp
  BY <1>1, <1>3, <1>4, <1>9 DEF PointerUp
<1> QED BY <1>5, <1>6, <1>7, <1>8, <1>9 DEF Dragged

LEMMA ChartStep == ASSUME Shape, ChartOK, [Next]_vars PROVE ChartOK'
<1>1. TabShape
  BY DEF Shape
<1>2. CASE UNCHANGED tab
  BY <1>2 DEF ChartOK
<1>3. CASE Turns
  <2>1. tab'.view = Whole /\ tab'.drag = NoDrag
    BY <1>3 DEF Turns, Type, Follow, Asked
  <2> QED BY <2>1, WholeIsOn DEF ChartOK, DragOK, NoDrag
<1>4. CASE Makes
  <2>1. PICK tints, answered : \E place \in 0..Wide, hits \in Hits(tab.route.kind) :
          tab' = [tab EXCEPT !.step = "made", !.kept = FALSE,
                             !.page = Made(tab.route, tab.pub, tab.own, tints, hits, answered),
                             !.view = FirstView(tab.route, answered, place)]
    BY <1>4 DEF Makes
  <2>2. PICK place \in 0..Wide : tab'.view = FirstView(tab.route, answered, place)
    BY <1>1, <2>1 DEF TabShape
  <2>3. tab'.drag = tab.drag
    BY <1>1, <2>1 DEF TabShape
  <2> QED BY <2>2, <2>3, FirstViewIsOn DEF ChartOK
<1>5. CASE Moves
  BY <1>1, <1>5, DraggedIsOn DEF Moves
<1>6. CASE Changes \/ Serves
  <2>1. tab'.view = tab.view /\ tab'.drag = tab.drag
    BY <1>1, <1>6 DEF Changes, Noticed, Serves, TabShape
  <2> QED BY <2>1 DEF ChartOK
<1> QED BY <1>2, <1>3, <1>4, <1>5, <1>6, Steps DEF vars, portalVars

----------------------------------------------------------------------------
(* What the CMS holds.                                                     *)
TogglesOK == toggles \in [DOMAIN Members -> [Contacts -> {"on", "off", "unset"}]]
CmsOK == TogglesOK /\ points \subseteq DOMAIN works /\ edits \in 0..MaxEdits
StepOK == tab.step \in {"reading", "made", "missing"}

LEMMA MapStays ==
    ASSUME Shape, points \subseteq DOMAIN works, [Next]_vars
    PROVE  points' \subseteq DOMAIN works'
<1>1. DOMAIN works \subseteq DOMAIN works'
  BY WorksStay
<1>2. points' = points \/ points' = Published
  <2>1. CASE Browse
    BY <2>1 DEF Browse, Drawn, Assemble, Wheel, PointerDown, PointerMove, ZoomButton, PointerUp,
                Gesture, Publish, Withdraw, Toggle, SetJobs, SetStage, Redraw
  <2>2. CASE \E q \in requests : Serve(q) \/ Deliver(q) \/ GiveUp(q)
    BY <2>2 DEF Serve, ServeHealth, ServeCoverage, ServeMaintenance, ServeRag, Reported, ServeChat,
                ServeLookup, ServeSnippet, ServeCreate, Deliver, GiveUp, Result, portalVars
  <2>3. CASE \/ LoadHealth \/ LoadCoverage \/ LoadMaintenance
             \/ Ask \/ Generate \/ Say \/ Lookup \/ Create \/ ImportAnother
             \/ \E k \in Keys : EditIdentifier(k)
    BY <2>3 DEF LoadHealth, LoadCoverage, LoadMaintenance, Load, Ask, Generate, Say, Lookup,
                Create, ImportAnother, EditIdentifier, portalVars
  <2>4. CASE \E r \in Typed \cup Header \cup tab.page.links : Visit(r)
    BY <2>4 DEF Visit, Type, Follow
  <2> QED BY <2>1, <2>2, <2>3, <2>4 DEF Next, vars, portalVars
<1> QED BY <1>1, <1>2 DEF Published

LEMMA TogglesStay == ASSUME TogglesOK, [Next]_vars PROVE TogglesOK'
<1>1. CASE UNCHANGED toggles
  BY <1>1 DEF TogglesOK
<1>2. ASSUME NEW m \in DOMAIN Members, NEW f \in Contacts, NEW v \in {"on", "off"}, Toggle(m, f, v)
      PROVE  TogglesOK'
  <2>1. toggles' = [toggles EXCEPT ![m][f] = v]
    BY <1>2 DEF Toggle
  <2> QED BY <2>1 DEF TogglesOK
<1>3. CASE Browse
  <2>1. \/ UNCHANGED toggles
        \/ \E m \in DOMAIN Members, f \in Contacts, v \in {"on", "off"} : Toggle(m, f, v)
    BY <1>3 DEF Browse, Drawn, Assemble, Wheel, PointerDown, PointerMove, ZoomButton, PointerUp,
                Gesture, Publish, Withdraw, SetJobs, SetStage, Redraw
  <2> QED BY <1>1, <1>2, <2>1
<1>4. CASE \E q \in requests : Serve(q) \/ Deliver(q) \/ GiveUp(q)
  BY <1>1, <1>4 DEF Serve, ServeHealth, ServeCoverage, ServeMaintenance, ServeRag, Reported,
      ServeChat, ServeLookup, ServeSnippet, ServeCreate, Deliver, GiveUp, Result, portalVars
<1>5. CASE \/ LoadHealth \/ LoadCoverage \/ LoadMaintenance
           \/ Ask \/ Generate \/ Say \/ Lookup \/ Create \/ ImportAnother
           \/ \E k \in Keys : EditIdentifier(k)
  BY <1>1, <1>5 DEF LoadHealth, LoadCoverage, LoadMaintenance, Load, Ask, Generate, Say, Lookup,
      Create, ImportAnother, EditIdentifier, portalVars
<1>6. CASE \E r \in Typed \cup Header \cup tab.page.links : Visit(r)
  BY <1>1, <1>6 DEF Visit, Type, Follow
<1> QED BY <1>1, <1>3, <1>4, <1>5, <1>6 DEF Next, vars, portalVars

LEMMA EditsAreCounted == ASSUME edits \in 0..MaxEdits, [Next]_vars PROVE edits' \in 0..MaxEdits
<1>1. UNCHANGED edits \/ Edited
  <2>1. CASE Browse
    BY <2>1 DEF Browse, Drawn, Assemble, Wheel, PointerDown, PointerMove, ZoomButton, PointerUp,
                Gesture, Publish, Withdraw, Toggle, SetJobs, SetStage, Redraw
  <2>2. CASE \E q \in requests : Serve(q) \/ Deliver(q) \/ GiveUp(q)
    BY <2>2 DEF Serve, ServeHealth, ServeCoverage, ServeMaintenance, ServeRag, Reported, ServeChat,
                ServeLookup, ServeSnippet, ServeCreate, Deliver, GiveUp, Result, portalVars
  <2>3. CASE \/ LoadHealth \/ LoadCoverage \/ LoadMaintenance
             \/ Ask \/ Generate \/ Say \/ Lookup \/ Create \/ ImportAnother
             \/ \E k \in Keys : EditIdentifier(k)
    BY <2>3 DEF LoadHealth, LoadCoverage, LoadMaintenance, Load, Ask, Generate, Say, Lookup,
                Create, ImportAnother, EditIdentifier, portalVars
  <2>4. CASE \E r \in Typed \cup Header \cup tab.page.links : Visit(r)
    BY <2>4 DEF Visit, Type, Follow
  <2> QED BY <2>1, <2>2, <2>3, <2>4 DEF Next, vars, portalVars
<1>2. MaxEdits \in Nat
  BY PortalAssumption
<1> QED BY <1>1, <1>2 DEF Edited

LEMMA StepStays == ASSUME Shape, StepOK, [Next]_vars PROVE StepOK'
<1>1. TabShape
  BY DEF Shape
<1>2. CASE UNCHANGED tab
  BY <1>2 DEF StepOK
<1>3. CASE Turns
  BY <1>3 DEF Turns, Type, Follow, Asked, StepOK
<1>4. CASE Makes
  BY <1>1, <1>4 DEF Makes, TabShape, StepOK
<1>5. CASE Moves
  BY <1>1, <1>5 DEF Moves, TabShape, StepOK
<1>6. CASE Changes \/ Serves
  BY <1>1, <1>6 DEF Changes, Noticed, Serves, TabShape, StepOK
<1> QED BY <1>2, <1>3, <1>4, <1>5, <1>6, Steps DEF vars, portalVars

----------------------------------------------------------------------------
(* The widgets.  W is the set of works, page and step those of the tab.    *)
PanelOK(panel) == DOMAIN panel = {"phase", "report"} /\ panel.phase \in {"idle", "busy", "error"}
WidgetsOK(ps, page) == DOMAIN ps = On(page) /\ \A w \in DOMAIN ps : PanelOK(ps[w])
FormOK(f, W) ==
    /\ DOMAIN f = DOMAIN EmptyForm
    /\ f.loading \in {"", "lookup", "create"} /\ f.created \in {None} \cup W
AtHome(for, page, step) ==
    \/ for \in On(page)
    \/ for \in {"lookup", "create"} /\ page = "library" /\ step = "made"
    \/ for = "chat"
RequestOK(q, W, page, step) ==
    /\ DOMAIN q = {"n", "for", "arg", "step", "result", "id", "seen", "fresh", "live", "preview",
                   "calm"}
    /\ (q.for = "create" /\ q.result = "created") => q.id \in W
    /\ q.live => AtHome(q.for, page, step)
PanelsOK ==
    /\ WidgetsOK(panels, tab.route.page) /\ FormOK(form, DOMAIN works)
    /\ \A q \in requests : RequestOK(q, DOMAIN works, tab.route.page, tab.step)
    /\ asked \in 0..MaxAsked

(* The page keeps its widgets, whatever happens in the tab but leaving it. *)
Stays == /\ tab'.route = tab.route /\ (tab.step = "made" => tab'.step = "made")
         /\ DOMAIN works \subseteq DOMAIN works'

LEMMA RequestStays ==
    ASSUME NEW W, NEW V, W \subseteq V, NEW page, NEW s, NEW t, s = "made" => t = "made",
           NEW q, RequestOK(q, W, page, s)
    PROVE  RequestOK(q, V, page, t)
BY DEF RequestOK, AtHome

LEMMA RequestEnds ==
    ASSUME NEW W, NEW V, W \subseteq V, NEW page, NEW s, NEW other, NEW t,
           NEW q, RequestOK(q, W, page, s)
    PROVE  RequestOK([q EXCEPT !.live = FALSE], V, other, t)
<1> DEFINE r == [q EXCEPT !.live = FALSE]
<1>1. /\ DOMAIN r = DOMAIN q /\ r.for = q.for /\ r.result = q.result /\ r.id = q.id
      /\ r.live = FALSE
  BY DEF RequestOK
<1> HIDE DEF r
<1>2. RequestOK(r, V, other, t)
  BY <1>1 DEF RequestOK
<1> QED BY <1>2 DEF r

LEMMA RequestSent ==
    ASSUME NEW for, NEW arg, NEW W, NEW page, NEW s, AtHome(for, page, s)
    PROVE  RequestOK(Request(for, arg), W, page, s)
<1> DEFINE r == Request(for, arg)
<1>1. /\ r.for = for /\ r.result = "none"
      /\ DOMAIN r = {"n", "for", "arg", "step", "result", "id", "seen", "fresh", "live", "preview",
                     "calm"}
  BY DEF Request
<1> HIDE DEF r
<1>2. RequestOK(r, W, page, s)
  BY <1>1 DEF RequestOK
<1> QED BY <1>2 DEF r

LEMMA RequestServed ==
    ASSUME NEW W, NEW V, W \subseteq V, NEW page, NEW s, NEW t, s = "made" => t = "made",
           NEW q, RequestOK(q, W, page, s), NEW result, NEW id, NEW seen, NEW fresh,
           q.for = "create" /\ result = "created" => id \in V
    PROVE  /\ (q.for # "create" \/ result # "created") =>
                RequestOK([[q EXCEPT !.result = result] EXCEPT !.step = "served"], V, page, t)
           /\ q.for # "create" =>
                RequestOK([[q EXCEPT !.result = result, !.id = id, !.seen = seen]
                             EXCEPT !.step = "served"], V, page, t)
           /\ RequestOK([[q EXCEPT !.result = result, !.fresh = fresh, !.id = id]
                             EXCEPT !.step = "served"], V, page, t)
<1>1. ASSUME NEW r, DOMAIN r = DOMAIN q, r.for = q.for, r.result = result, r.live = q.live,
             q.for = "create" /\ result = "created" => r.id \in V
      PROVE  RequestOK(r, V, page, t)
  BY <1>1, RequestStays DEF RequestOK
<1>2. ASSUME q.for # "create" \/ result # "created"
      PROVE  RequestOK([[q EXCEPT !.result = result] EXCEPT !.step = "served"], V, page, t)
  <2> DEFINE r == [[q EXCEPT !.result = result] EXCEPT !.step = "served"]
  <2>1. DOMAIN r = DOMAIN q /\ r.for = q.for /\ r.result = result /\ r.live = q.live
    BY DEF RequestOK
  <2> HIDE DEF r
  <2>2. RequestOK(r, V, page, t)
    BY <1>1, <1>2, <2>1
  <2> QED BY <2>2 DEF r
<1>3. ASSUME q.for # "create"
      PROVE  RequestOK([[q EXCEPT !.result = result, !.id = id, !.seen = seen]
                          EXCEPT !.step = "served"], V, page, t)
  <2> DEFINE r == [[q EXCEPT !.result = result, !.id = id, !.seen = seen] EXCEPT !.step = "served"]
  <2>1. DOMAIN r = DOMAIN q /\ r.for = q.for /\ r.result = result /\ r.live = q.live
    BY DEF RequestOK
  <2> HIDE DEF r
  <2>2. RequestOK(r, V, page, t)
    BY <1>1, <1>3, <2>1
  <2> QED BY <2>2 DEF r
<1>4. RequestOK([[q EXCEPT !.result = result, !.fresh = fresh, !.id = id]
                   EXCEPT !.step = "served"], V, page, t)
  <2> DEFINE r == [[q EXCEPT !.result = result, !.fresh = fresh, !.id = id]
                     EXCEPT !.step = "served"]
  <2>1. DOMAIN r = DOMAIN q /\ r.for = q.for /\ r.result = result /\ r.live = q.live /\ r.id = id
    BY DEF RequestOK
  <2> HIDE DEF r
  <2>2. RequestOK(r, V, page, t)
    BY <1>1, <2>1
  <2> QED BY <2>2 DEF r
<1> QED BY <1>2, <1>3, <1>4

(* A known identifier is that of a work.                                   *)
LEMMA KnownIsWork ==
    ASSUME works \in Seq(Works), NEW key, Known(key) # None
    PROVE  Known(key) \in DOMAIN works
<1> DEFINE ids == {k \in DOMAIN works : works[k].key = key}
<1>1. ids # {} /\ Known(key) = Min(ids) /\ ids \subseteq Nat
  BY DEF Known
<1> HIDE DEF ids
<1>2. Min(ids) \in ids
  BY <1>1, MinIsLeast
<1> QED BY <1>1, <1>2 DEF ids

LEMMA PanelsServed ==
    ASSUME Shape, PanelsOK, Stays, NEW q \in requests, Serve(q)
    PROVE  PanelsOK'
<1> DEFINE W == DOMAIN works
           V == DOMAIN works'
           page == tab.route.page
           s == tab.step
           t == tab'.step
<1>1. RequestOK(q, W, page, s) /\ W \subseteq V /\ (s = "made" => t = "made")
  BY DEF PanelsOK, Stays
<1>2. UNCHANGED <<panels, form, asked>>
  BY DEF Serve, ServeHealth, ServeCoverage, ServeMaintenance, ServeRag, Reported, ServeChat,
         ServeLookup, ServeSnippet, ServeCreate
<1>3. ASSUME NEW x, Served(q, x), RequestOK([x EXCEPT !.step = "served"], V, page, t)
      PROVE  PanelsOK'
  <2>1. \A r \in requests : RequestOK(r, V, page, t)
    BY RequestStays DEF PanelsOK, Stays
  <2>2. \A r \in requests' : RequestOK(r, V, page, t)
    BY <1>3, <2>1 DEF Served
  <2>3. WidgetsOK(panels', page) /\ FormOK(form', V) /\ asked' \in 0..MaxAsked
    BY <1>1, <1>2 DEF PanelsOK, FormOK
  <2> QED BY <2>2, <2>3 DEF PanelsOK, Stays
<1> HIDE DEF W, V, page, s, t
<1>4. CASE \/ ServeHealth(q) \/ ServeCoverage(q) \/ ServeMaintenance(q) \/ ServeRag(q)
           \/ ServeChat(q) \/ ServeSnippet(q)
  <2>1. q.for # "create" /\ \E result : Served(q, [q EXCEPT !.result = result])
    BY <1>4 DEF ServeHealth, ServeCoverage, ServeMaintenance, ServeRag, Reported, ServeChat,
                ServeSnippet
  <2>2. PICK result : Served(q, [q EXCEPT !.result = result])
    BY <2>1
  <2>3. RequestOK([[q EXCEPT !.result = result] EXCEPT !.step = "served"], V, page, t)
    BY <1>1, <2>1, RequestServed
  <2> QED BY <1>3, <2>2, <2>3
<1>5. CASE ServeLookup(q)
  <2>1. q.for = "lookup"
    BY <1>5 DEF ServeLookup
  <2>2. CASE Served(q, [q EXCEPT !.result = "found", !.id = Known(q.arg), !.seen = Len(works)])
    <3>1. RequestOK([[q EXCEPT !.result = "found", !.id = Known(q.arg), !.seen = Len(works)]
                       EXCEPT !.step = "served"], V, page, t)
      BY <1>1, <2>1, RequestServed
    <3> QED BY <1>3, <2>2, <3>1
  <2>3. ASSUME NEW result \in {"absent", "failed"}, Served(q, [q EXCEPT !.result = result])
        PROVE  PanelsOK'
    <3>1. RequestOK([[q EXCEPT !.result = result] EXCEPT !.step = "served"], V, page, t)
      BY <1>1, <2>1, RequestServed
    <3> QED BY <1>3, <2>3, <3>1
  <2> QED BY <1>5, <2>2, <2>3 DEF ServeLookup
<1>6. CASE ServeCreate(q)
  <2> DEFINE p == Known(q.arg)
             id == IF p = None THEN Len(works) + 1 ELSE p
  <2>1. CASE Served(q, [q EXCEPT !.result = "failed"])
    <3>1. RequestOK([[q EXCEPT !.result = "failed"] EXCEPT !.step = "served"], V, page, t)
      BY <1>1, RequestServed
    <3> QED BY <1>3, <2>1, <3>1
  <2>2. CASE /\ works' = IF p = None THEN Append(works, Imported(q.arg))
                         ELSE [works EXCEPT ![p].authors = {}]
             /\ Served(q, [q EXCEPT !.result = "created", !.fresh = p = None, !.id = id])
    <3>1. id \in V
      <4>1. CASE p = None
        <5>1. works' = Append(works, Imported(q.arg)) /\ id = Len(works) + 1
          BY <2>2, <4>1
        <5>2. V = 1..(Len(works) + 1)
          BY <5>1 DEF Shape, V
        <5> QED BY <5>1, <5>2 DEF Shape
      <4>2. CASE p # None
        BY <1>1, <4>2, KnownIsWork DEF Shape, W
      <4> QED BY <4>1, <4>2
    <3> HIDE DEF p, id
    <3>2. RequestOK([[q EXCEPT !.result = "created", !.fresh = p = None, !.id = id]
                       EXCEPT !.step = "served"], V, page, t)
      BY <1>1, <3>1, RequestServed
    <3> QED BY <1>3, <2>2, <3>2
  <2> HIDE DEF p, id
  <2> QED BY <1>6, <2>1, <2>2 DEF ServeCreate, p, id
<1> QED BY <1>4, <1>5, <1>6 DEF Serve

LEMMA TabStays ==
    ASSUME Shape, \/ Makes \/ Moves \/ Changes \/ Serves
                  \/ UNCHANGED <<works, tab>>
    PROVE  Stays
<1>1. TabShape
  BY DEF Shape
<1>2. tab'.route = tab.route /\ (tab.step = "made" => tab'.step = "made")
  <2>1. CASE Makes
    BY <1>1, <2>1 DEF Makes, TabShape
  <2>2. CASE Moves
    BY <1>1, <2>2 DEF Moves, TabShape
  <2>3. CASE Changes \/ Serves
    BY <1>1, <2>3 DEF Changes, Noticed, Serves, TabShape
  <2>4. CASE UNCHANGED <<works, tab>>
    BY <2>4
  <2> QED BY <2>1, <2>2, <2>3, <2>4
<1>3. DOMAIN works \subseteq DOMAIN works'
  <2>1. CASE UNCHANGED works
    BY <2>1
  <2>2. CASE Changes \/ Serves
    BY <2>2 DEF Changes, Serves, Shape
  <2> QED BY <2>1, <2>2 DEF Makes, Moves
<1> QED BY <1>2, <1>3 DEF Stays

LEMMA PanelsStay ==
    ASSUME PanelsOK, Stays, WidgetsOK(panels', tab.route.page), FormOK(form', DOMAIN works'),
           asked' \in 0..MaxAsked,
           \A q \in requests' : q \in requests
                                \/ RequestOK(q, DOMAIN works', tab'.route.page, tab'.step)
    PROVE  PanelsOK'
<1>1. \A q \in requests' : RequestOK(q, DOMAIN works', tab'.route.page, tab'.step)
  BY RequestStays DEF PanelsOK, Stays
<1>2. tab'.route.page = tab.route.page
  BY DEF Stays
<1> QED BY <1>1, <1>2 DEF PanelsOK

LEMMA FormStays == ASSUME Stays, NEW f, FormOK(f, DOMAIN works) PROVE FormOK(f, DOMAIN works')
BY DEF Stays, FormOK

(* A widget sends a request from the page it is on.                        *)
LEMMA PanelsAsk ==
    ASSUME Shape, PanelsOK, UNCHANGED portalVars, NEW for, NEW arg, Send(Request(for, arg)),
           AtHome(for, tab.route.page, tab.step),
           WidgetsOK(panels', tab.route.page), FormOK(form', DOMAIN works)
    PROVE  PanelsOK'
<1>1. Stays /\ works' = works /\ tab' = tab
  BY TabStays DEF portalVars
<1>2. asked \in Nat /\ asked < MaxAsked /\ MaxAsked \in Nat /\ asked' = asked + 1
  <2>1. MaxAsked \in Nat /\ asked \in 0..MaxAsked
    BY PanelsAssumption DEF PanelsOK
  <2>2. asked < MaxAsked /\ asked' = asked + 1
    BY DEF Send
  <2> QED BY <2>1, <2>2
<1>3. RequestOK(Request(for, arg), DOMAIN works, tab.route.page, tab.step)
  BY RequestSent
<1>4. requests' = requests \cup {Request(for, arg)}
  BY DEF Send
<1>5. asked' \in 0..MaxAsked
  BY <1>2
<1> QED BY <1>1, <1>3, <1>4, <1>5, PanelsStay

LEMMA PanelBusy ==
    ASSUME NEW page, WidgetsOK(panels, page), NEW w \in On(page)
    PROVE  /\ WidgetsOK([panels EXCEPT ![w].phase = "busy"], page)
           /\ \A panel : PanelOK(panel) => WidgetsOK([panels EXCEPT ![w] = panel], page)
<1>1. w \in DOMAIN panels /\ PanelOK(panels[w])
  BY DEF WidgetsOK
<1>2. ASSUME NEW panel, PanelOK(panel) PROVE WidgetsOK([panels EXCEPT ![w] = panel], page)
  BY <1>2 DEF WidgetsOK
<1>3. PanelOK([panels[w] EXCEPT !.phase = "busy"])
  BY <1>1 DEF PanelOK
<1>4. [panels EXCEPT ![w].phase = "busy"] = [panels EXCEPT ![w] = [panels[w] EXCEPT !.phase = "busy"]]
  OBVIOUS
<1> QED BY <1>2, <1>3, <1>4

LEMMA PanelSettled ==
    ASSUME NEW panel, PanelOK(panel), NEW result
    PROVE  PanelOK(Settled(panel, result))
BY DEF PanelOK, Settled

LEMMA ResultFits ==
    ASSUME PanelsOK, NEW q \in requests, NEW result, result \in {q.result, "failed"},
           Result(q, result)
    PROVE  WidgetsOK(panels', tab.route.page) /\ FormOK(form', DOMAIN works)
<1>1. /\ WidgetsOK(panels, tab.route.page) /\ FormOK(form, DOMAIN works)
      /\ RequestOK(q, DOMAIN works, tab.route.page, tab.step)
  BY DEF PanelsOK
<1>2. WidgetsOK(panels', tab.route.page)
  <2>1. CASE panels' = panels
    BY <1>1, <2>1
  <2>2. CASE q.for \in DOMAIN panels /\ panels' = [panels EXCEPT ![q.for] = Settled(@, result)]
    <3>1. PanelOK(panels[q.for]) /\ q.for \in On(tab.route.page)
      BY <1>1, <2>2 DEF WidgetsOK
    <3>2. PanelOK(Settled(panels[q.for], result))
      BY <3>1, PanelSettled
    <3> QED BY <1>1, <2>2, <3>1, <3>2, PanelBusy
  <2> QED BY <2>1, <2>2 DEF Result
<1>3. FormOK(form', DOMAIN works)
  <2>1. CASE form' = form
    BY <1>1, <2>1
  <2>2. ASSUME NEW v,
               \/ form' = [form EXCEPT !.loading = "", !.preview = v]
               \/ form' = [form EXCEPT !.loading = "", !.notFound = TRUE]
               \/ form' = [form EXCEPT !.loading = "", !.error = TRUE]
        PROVE  FormOK(form', DOMAIN works)
    <3>1. /\ DOMAIN form' = DOMAIN form /\ form'.loading = "" /\ form'.created = form.created
      BY <1>1, <2>2 DEF FormOK, EmptyForm
    <3> QED BY <1>1, <3>1 DEF FormOK
  <2>3. CASE q.for = "create" /\ result = "created"
             /\ form' = [form EXCEPT !.loading = "", !.created = q.id]
    <3>1. /\ DOMAIN form' = DOMAIN form /\ form'.loading = "" /\ form'.created = q.id
      BY <1>1, <2>3 DEF FormOK, EmptyForm
    <3>2. q.id \in DOMAIN works
      BY <1>1, <2>3 DEF RequestOK
    <3> QED BY <1>1, <3>1, <3>2 DEF FormOK
  <2>4. CASE q.for = "lookup"
    <3>1. form' = FormAfterLookup(q, result)
      BY <2>4 DEF Result
    <3> QED BY <2>2, <3>1 DEF FormAfterLookup
  <2>5. CASE q.for = "create"
    <3>1. form' = FormAfterCreate(q, result)
      BY <2>5 DEF Result
    <3> QED BY <2>2, <2>3, <2>5, <3>1 DEF FormAfterCreate
  <2>6. CASE q.for \notin {"lookup", "create"}
    BY <2>1, <2>6 DEF Result
  <2> QED BY <2>4, <2>5, <2>6
<1> QED BY <1>2, <1>3

LEMMA CleanKeepsPage == ASSUME NEW r \in Routes \cup Addresses PROVE Clean(r).page = r.page
<1>1. Shaped(r)
  BY AddressParts DEF Routes, Shaped
<1> QED BY <1>1 DEF Clean, Shaped

LEMMA PanelsMounted ==
    ASSUME LinkInv, PanelsOK, NEW r, Visit(r)
    PROVE  PanelsOK'
<1>1. PICK kept : Mounted(r.page, kept)
  BY DEF Visit
<1>2. /\ r \in Routes \cup Addresses /\ works' = works
      /\ \E k : tab' = Asked(Clean(r), k)
  BY OpensAddress DEF Visit, LinkInv
<1>3. tab'.route.page = r.page
  <2>1. tab'.route = Clean(r)
    BY <1>2 DEF Asked
  <2> QED BY <1>2, <2>1, CleanKeepsPage
<1>4. WidgetsOK(panels', r.page)
  BY <1>1 DEF Mounted, WidgetsOK, Idle, PanelOK
<1>5. FormOK(form', DOMAIN works')
  <2>1. form' = EmptyForm
    BY <1>1 DEF Mounted
  <2> QED BY <2>1 DEF FormOK, EmptyForm
<1>6. \A q \in requests' : RequestOK(q, DOMAIN works', tab'.route.page, tab'.step)
  <2> SUFFICES ASSUME NEW q \in requests'
               PROVE  RequestOK(q, DOMAIN works', tab'.route.page, tab'.step)
    OBVIOUS
  <2>1. CASE \E x \in requests : q = [x EXCEPT !.live = FALSE]
    <3>1. PICK x \in requests : q = [x EXCEPT !.live = FALSE]
      BY <2>1
    <3>2. RequestOK(x, DOMAIN works, tab.route.page, tab.step)
      BY DEF PanelsOK
    <3> QED BY <1>2, <3>1, <3>2, RequestEnds
  <2>2. CASE q \in requests /\ q.for = "chat"
    BY <2>2 DEF PanelsOK, RequestOK, AtHome
  <2> QED BY <1>1, <2>1, <2>2 DEF Mounted
<1>7. asked' \in 0..MaxAsked
  BY <1>1 DEF Mounted, PanelsOK
<1> QED BY <1>3, <1>4, <1>5, <1>6, <1>7 DEF PanelsOK

LEMMA PanelsStep ==
    ASSUME LinkInv, PanelsOK, [Next]_vars
    PROVE  PanelsOK'
<1> DEFINE page == tab.route.page
           W == DOMAIN works
<1>1. Shape /\ WidgetsOK(panels, page) /\ FormOK(form, W) /\ asked \in 0..MaxAsked
  BY DEF LinkInv, HiddenInv, PanelsOK
<1>2. ASSUME Stays, UNCHANGED panelVars PROVE PanelsOK'
  BY <1>1, <1>2, PanelsStay, FormStays DEF panelVars
<1>3. ASSUME NEW w \in Loaders, Load(w) PROVE PanelsOK'
  <2>1. /\ page = "dashboard" /\ UNCHANGED <<portalVars, form>> /\ Send(Request(w, ""))
        /\ panels' = [panels EXCEPT ![w].phase = "busy"]
    BY <1>3 DEF Load, Showing
  <2>2. w \in On(page)
    BY <2>1 DEF On
  <2>3. AtHome(w, page, tab.step)
    BY <2>2 DEF AtHome
  <2>4. WidgetsOK(panels', page)
    BY <1>1, <2>1, <2>2, PanelBusy
  <2> QED BY <1>1, <2>1, <2>3, <2>4, PanelsAsk
<1>4. ASSUME NEW w, NEW arg, w \in On(page), Send(Request(w, arg)),
             panels' = [panels EXCEPT ![w] = [phase |-> "busy", report |-> "none"]],
             UNCHANGED <<portalVars, form>>
      PROVE  PanelsOK'
  <2>1. PanelOK([phase |-> "busy", report |-> "none"])
    BY DEF PanelOK
  <2>2. WidgetsOK(panels', page)
    BY <1>1, <1>4, <2>1, PanelBusy
  <2>3. AtHome(w, page, tab.step)
    BY <1>4 DEF AtHome
  <2> QED BY <1>1, <1>4, <2>2, <2>3, PanelsAsk
<1>5. CASE Ask
  <2>1. "rag" \in On(page)
    BY <1>5 DEF Ask, Showing, On
  <2> QED BY <1>4, <1>5, <2>1 DEF Ask
<1>6. CASE Generate
  <2>1. "snippet" \in On(page)
    BY <1>6 DEF Generate, Showing, On
  <2> QED BY <1>4, <1>6, <2>1 DEF Generate
<1>7. ASSUME NEW for, NEW arg, Send(Request(for, arg)), UNCHANGED <<portalVars, panels>>,
             AtHome(for, page, tab.step), FormOK(form', W)
      PROVE  PanelsOK'
  BY <1>1, <1>7, PanelsAsk
<1>8. CASE Say
  <2>1. AtHome("chat", page, tab.step) /\ form' = form
    BY <1>8 DEF Say, AtHome
  <2> QED BY <1>1, <1>7, <1>8, <2>1 DEF Say
<1>9. CASE Lookup
  <2>1. AtHome("lookup", page, tab.step)
    BY <1>9 DEF Lookup, Showing, AtHome
  <2>2. FormOK(form', W)
    BY <1>9 DEF Lookup, Reset, EmptyForm, FormOK
  <2> QED BY <1>7, <1>9, <2>1, <2>2 DEF Lookup
<1>10. CASE Create
  <2>1. AtHome("create", page, tab.step)
    BY <1>10 DEF Create, Showing, AtHome
  <2>2. FormOK(form', W)
    BY <1>1, <1>10 DEF Create, EmptyForm, FormOK
  <2> QED BY <1>7, <1>10, <2>1, <2>2 DEF Create
<1>11. CASE ImportAnother \/ \E k \in Keys : EditIdentifier(k)
  <2>1. UNCHANGED <<portalVars, panels, requests, asked>>
    BY <1>11 DEF ImportAnother, EditIdentifier
  <2>2. FormOK(form', W)
    BY <1>1, <1>11 DEF ImportAnother, EditIdentifier, Reset, EmptyForm, FormOK
  <2>3. Stays
    BY <1>1, <2>1, TabStays DEF portalVars
  <2> QED BY <1>1, <2>1, <2>2, <2>3, PanelsStay, FormStays
<1>12. ASSUME NEW q \in requests, Serve(q) PROVE PanelsOK'
  BY <1>1, <1>12, ServeSteps, TabStays, PanelsServed
<1>13. ASSUME NEW q \in requests, Deliver(q) \/ GiveUp(q) PROVE PanelsOK'
  <2>1. PICK result \in {q.result, "failed"} : Result(q, result)
    BY <1>13 DEF Deliver, GiveUp
  <2>2. WidgetsOK(panels', page) /\ FormOK(form', W)
    BY <2>1, ResultFits
  <2>3. UNCHANGED <<portalVars, asked>>
    BY <2>1 DEF Result
  <2>4. Stays
    BY <1>1, <2>3, TabStays DEF portalVars
  <2>5. \A x \in requests' : x \in requests \/ x = [q EXCEPT !.live = FALSE]
    BY <1>13 DEF Deliver, GiveUp, Forget, GivenUp
  <2>6. RequestOK([q EXCEPT !.live = FALSE], DOMAIN works', tab'.route.page, tab'.step)
    <3>1. RequestOK(q, W, page, tab.step) /\ W \subseteq DOMAIN works'
      BY <2>4 DEF PanelsOK, Stays
    <3> QED BY <3>1, RequestEnds
  <2>7. FormOK(form', DOMAIN works')
    BY <2>2, <2>4, FormStays
  <2> QED BY <1>1, <2>2, <2>3, <2>4, <2>5, <2>6, <2>7, PanelsStay
<1>14. CASE Browse /\ UNCHANGED panelVars
  BY <1>1, <1>2, <1>14, BrowseSteps, TabStays
<1>15. CASE UNCHANGED vars
  BY <1>1, <1>2, <1>15, TabStays DEF vars, portalVars
<1>16. CASE \E r \in Typed \cup Header \cup tab.page.links : Visit(r)
  BY <1>16, PanelsMounted
<1>17. CASE LoadHealth \/ LoadCoverage \/ LoadMaintenance
  BY <1>3, <1>17 DEF LoadHealth, LoadCoverage, LoadMaintenance, Loaders
<1> QED BY <1>5, <1>6, <1>8, <1>9, <1>10, <1>11, <1>12, <1>13, <1>14, <1>15, <1>16, <1>17 DEF Next

----------------------------------------------------------------------------
(* Nobody waits for nothing.                                               *)
BusyIn(ps, w) == w \in DOMAIN ps /\ ps[w].phase = "busy"
Awaited(qs, kinds) == \E q \in qs : q.live /\ q.for \in kinds
Waits(messages) == messages # <<>> /\ Last(messages) = "user"
WaitOK ==
    /\ talk \in Seq({"user", "assistant"})
    /\ \A w \in Widgets : BusyIn(panels, w) => Awaited(requests, {w})
    /\ form.loading # "" => Awaited(requests, {"lookup", "create"})
    /\ Waits(talk) => Awaited(requests, {"chat"})
    /\ Awaited(requests, {"chat"}) => Framed

LEMMA FrameStays ==
    ASSUME Shape, Makes \/ Moves \/ Changes \/ Serves \/ UNCHANGED tab, Framed
    PROVE  Framed'
<1>1. TabShape
  BY DEF Shape
<1>2. tab'.route = tab.route
      /\ (tab'.step # "reading" \/ (tab'.step = tab.step /\ tab'.kept = tab.kept))
  BY <1>1 DEF Makes, Moves, Changes, Noticed, Serves, TabShape
<1> QED BY <1>2 DEF Framed

(* A step that ends the wait of some, and no one else's.                   *)
LEMMA WaitersStay ==
    ASSUME WaitOK, Framed => Framed', NEW done, talk' \in Seq({"user", "assistant"}),
           \A q \in requests : q.live /\ q.for \notin done =>
                \E r \in requests' : r.live /\ r.for = q.for,
           \A w \in Widgets :
                BusyIn(panels', w) => Awaited(requests', {w}) \/ (BusyIn(panels, w) /\ w \notin done),
           form'.loading # "" => \/ Awaited(requests', {"lookup", "create"})
                                \/ (form.loading # "" /\ {"lookup", "create"} \cap done = {}),
           Waits(talk') => Awaited(requests', {"chat"}) \/ (Waits(talk) /\ "chat" \notin done),
           Awaited(requests', {"chat"}) => Awaited(requests, {"chat"}) \/ Framed'
    PROVE  WaitOK'
<1>1. ASSUME NEW kinds, kinds \cap done = {}, Awaited(requests, kinds)
      PROVE  Awaited(requests', kinds)
  BY <1>1 DEF Awaited
<1>2. \A w \in Widgets : BusyIn(panels', w) => Awaited(requests', {w})
  <2> SUFFICES ASSUME NEW w \in Widgets, BusyIn(panels, w), w \notin done PROVE Awaited(requests', {w})
    OBVIOUS
  <2>1. Awaited(requests, {w}) /\ {w} \cap done = {}
    BY DEF WaitOK
  <2> QED BY <1>1, <2>1
<1>3. form'.loading # "" => Awaited(requests', {"lookup", "create"})
  BY <1>1 DEF WaitOK
<1>4. Waits(talk') => Awaited(requests', {"chat"})
  <2> SUFFICES ASSUME Waits(talk), "chat" \notin done PROVE Awaited(requests', {"chat"})
    OBVIOUS
  <2>1. Awaited(requests, {"chat"}) /\ {"chat"} \cap done = {}
    BY DEF WaitOK
  <2> QED BY <1>1, <2>1
<1>5. Awaited(requests', {"chat"}) => Framed'
  BY DEF WaitOK
<1> QED BY <1>2, <1>3, <1>4, <1>5 DEF WaitOK

(* Whoever sends a request has one to wait for.                            *)
LEMMA WaitersAsk ==
    ASSUME WaitOK, UNCHANGED tab, NEW for, NEW arg, Send(Request(for, arg)),
           for = "chat" => Framed, talk' \in Seq({"user", "assistant"}),
           \A w \in Widgets : BusyIn(panels', w) => BusyIn(panels, w) \/ w = for,
           form'.loading # "" => form.loading # "" \/ for \in {"lookup", "create"},
           Waits(talk') => Waits(talk) \/ for = "chat"
    PROVE  WaitOK'
<1>1. requests' = requests \cup {Request(for, arg)}
  BY DEF Send
<1>2. Request(for, arg).live /\ Request(for, arg).for = for
  BY DEF Request
<1>3. \A kinds : for \in kinds => Awaited(requests', kinds)
  BY <1>1, <1>2 DEF Awaited
<1>4. Awaited(requests', {"chat"}) => Awaited(requests, {"chat"}) \/ Framed'
  BY <1>1, <1>2 DEF Awaited, Framed
<1>5. Framed => Framed'
  BY DEF Framed
<1> QED BY <1>1, <1>3, <1>4, <1>5, WaitersStay

LEMMA AppendTalk ==
    ASSUME talk \in Seq({"user", "assistant"}), NEW who \in {"user", "assistant"}
    PROVE  LET t == Append(talk, who) IN
           t \in Seq({"user", "assistant"}) /\ Last(t) = who
BY DEF Last

LEMMA WaitersServed ==
    ASSUME PanelsOK, WaitOK, NEW q \in requests, Serve(q)
    PROVE  WaitOK'
<1>1. UNCHANGED <<tab, panels, form, talk>>
  BY DEF Serve, ServeHealth, ServeCoverage, ServeMaintenance, ServeRag, Reported, ServeChat,
         ServeLookup, ServeSnippet, ServeCreate, portalVars
<1>2. PICK r : Served(q, r) /\ r.live = q.live /\ r.for = q.for /\ {"for", "live"} \subseteq DOMAIN r
  <2>1. DOMAIN q = {"n", "for", "arg", "step", "result", "id", "seen", "fresh", "live",
                    "preview", "calm"}
    BY DEF PanelsOK, RequestOK
  <2> DEFINE A(result) == [q EXCEPT !.result = result]
             B(id, seen) == [q EXCEPT !.result = "found", !.id = id, !.seen = seen]
             C(id, fresh) == [q EXCEPT !.result = "created", !.fresh = fresh, !.id = id]
             Same(r) == r.live = q.live /\ r.for = q.for /\ {"for", "live"} \subseteq DOMAIN r
  <2>2. /\ \A result : Same(A(result))
        /\ \A id, seen : Same(B(id, seen))
        /\ \A id, fresh : Same(C(id, fresh))
    BY <2>1
  <2>3. CASE ServeLookup(q)
    <3>1. (\E result : Served(q, A(result))) \/ \E id, seen : Served(q, B(id, seen))
      BY <2>3 DEF ServeLookup
    <3> HIDE DEF A, B, Same
    <3> QED BY <2>2, <3>1 DEF Same
  <2>4. CASE ServeCreate(q)
    <3>1. (\E result : Served(q, A(result))) \/ \E id, fresh : Served(q, C(id, fresh))
      BY <2>4 DEF ServeCreate
    <3> HIDE DEF A, C, Same
    <3> QED BY <2>2, <3>1 DEF Same
  <2>5. CASE \/ ServeHealth(q) \/ ServeCoverage(q) \/ ServeMaintenance(q) \/ ServeRag(q)
             \/ ServeChat(q) \/ ServeSnippet(q)
    <3>1. \E result : Served(q, A(result))
      BY <2>5 DEF ServeHealth, ServeCoverage, ServeMaintenance, ServeRag, Reported, ServeChat,
                  ServeSnippet
    <3> HIDE DEF A, Same
    <3> QED BY <2>2, <3>1 DEF Same
  <2> QED BY <2>3, <2>4, <2>5 DEF Serve
<1> DEFINE x == [r EXCEPT !.step = "served"]
<1>3. x.live = q.live /\ x.for = q.for
  BY <1>2
<1>4. requests' = (requests \ {q}) \cup (IF q.live THEN {x} ELSE {})
  BY <1>2 DEF Served
<1> HIDE DEF x
<1>5. \A y \in requests : y.live => \E z \in requests' : z.live /\ z.for = y.for
  BY <1>3, <1>4
<1>6. Awaited(requests', {"chat"}) => Awaited(requests, {"chat"})
  BY <1>3, <1>4 DEF Awaited
<1>7. \A w : BusyIn(panels', w) => BusyIn(panels, w)
  BY <1>1 DEF BusyIn
<1>8. /\ Framed => Framed'
      /\ Waits(talk') => Waits(talk)
      /\ talk' \in Seq({"user", "assistant"})
  BY <1>1 DEF Framed, Waits, WaitOK
<1> DEFINE done == {}
<1>9. \A y \in requests : y.live /\ y.for \notin done => \E z \in requests' : z.live /\ z.for = y.for
  BY <1>5
<1>10. /\ \A w \in Widgets : BusyIn(panels', w) => BusyIn(panels, w) /\ w \notin done
       /\ form'.loading # "" => form.loading # "" /\ {"lookup", "create"} \cap done = {}
       /\ Waits(talk') => Waits(talk) /\ "chat" \notin done
  BY <1>1, <1>7, <1>8
<1> HIDE DEF done
<1> QED BY <1>6, <1>8, <1>9, <1>10, WaitersStay

(* An answer, good or bad, ends the wait of the one it is for.             *)
LEMMA WaitersAnswered ==
    ASSUME PanelsOK, WaitOK, NEW q \in requests, Deliver(q) \/ GiveUp(q)
    PROVE  WaitOK'
<1>1. PICK result : Result(q, result)
  BY DEF Deliver, GiveUp
<1>2. WidgetsOK(panels, tab.route.page) /\ DOMAIN form = DOMAIN EmptyForm
  BY DEF PanelsOK, FormOK
<1>3. DOMAIN q = {"n", "for", "arg", "step", "result", "id", "seen", "fresh", "live", "preview",
                  "calm"}
  BY DEF PanelsOK, RequestOK
<1>4. requests \ {q} \subseteq requests' /\ \A r \in requests' : r.live => r \in requests
  BY <1>3 DEF Deliver, GiveUp, Forget, GivenUp
<1>5. \A w : BusyIn(panels', w) => BusyIn(panels, w) /\ w # q.for
  <2>1. CASE q.for \notin DOMAIN panels
    BY <1>1, <2>1 DEF Result, BusyIn
  <2>2. CASE q.for \in DOMAIN panels
    <3>1. panels' = [panels EXCEPT ![q.for] = Settled(@, result)] /\ PanelOK(panels[q.for])
      BY <1>1, <1>2, <2>2 DEF Result, WidgetsOK
    <3>2. Settled(panels[q.for], result).phase # "busy"
      BY <3>1 DEF Settled, PanelOK
    <3> QED BY <2>2, <3>1, <3>2 DEF BusyIn
  <2> QED BY <2>1, <2>2
<1>6. form'.loading = IF q.for \in {"lookup", "create"} THEN "" ELSE form.loading
  <2>1. CASE q.for = "lookup"
    <3>1. form' = FormAfterLookup(q, result)
      BY <1>1, <2>1 DEF Result
    <3> QED BY <1>2, <2>1, <3>1 DEF FormAfterLookup, EmptyForm
  <2>2. CASE q.for = "create"
    <3>1. form' = FormAfterCreate(q, result)
      BY <1>1, <2>2 DEF Result
    <3> QED BY <1>2, <2>2, <3>1 DEF FormAfterCreate, EmptyForm
  <2>3. CASE q.for \notin {"lookup", "create"}
    BY <1>1, <2>3 DEF Result
  <2> QED BY <2>1, <2>2, <2>3
<1>7. talk' \in Seq({"user", "assistant"}) /\ (Waits(talk') => Waits(talk) /\ q.for # "chat")
  <2>1. CASE q.for = "chat"
    <3>1. talk' = Append(talk, "assistant")
      BY <1>1, <2>1 DEF Result
    <3>2. talk' \in Seq({"user", "assistant"}) /\ Last(talk') = "assistant"
      BY <3>1, AppendTalk DEF WaitOK
    <3> QED BY <3>2 DEF Waits
  <2>2. CASE q.for # "chat"
    BY <1>1, <2>2 DEF Result, Waits, WaitOK
  <2> QED BY <2>1, <2>2
<1>8. (Framed => Framed') /\ (Awaited(requests', {"chat"}) => Awaited(requests, {"chat"}))
  BY <1>1, <1>4 DEF Result, portalVars, Framed, Awaited
<1> DEFINE done == {q.for}
<1>9. \A y \in requests : y.live /\ y.for \notin done => \E z \in requests' : z.live /\ z.for = y.for
  BY <1>4
<1>10. /\ \A w \in Widgets : BusyIn(panels', w) => BusyIn(panels, w) /\ w \notin done
       /\ form'.loading # "" => form.loading # "" /\ {"lookup", "create"} \cap done = {}
       /\ Waits(talk') => Waits(talk) /\ "chat" \notin done
  BY <1>5, <1>6, <1>7
<1> HIDE DEF done
<1> QED BY <1>7, <1>8, <1>9, <1>10, WaitersStay

(* A page comes with idle widgets; the chat waits on where it stays.       *)
LEMMA WaitersMounted ==
    ASSUME LinkInv, PanelsOK, WaitOK, NEW r, Visit(r)
    PROVE  WaitOK'
<1>1. PICK kept \in BOOLEAN : Mounted(r.page, kept) /\ (kept => Framed /\ Public(r.page) /\ Follow(r))
  BY DEF Visit
<1>2. /\ panels' = [w \in On(r.page) |-> Idle] /\ form' = EmptyForm
      /\ talk' = IF kept THEN talk ELSE <<>>
  BY <1>1 DEF Mounted
<1>3. \A w : ~ BusyIn(panels', w)
  BY <1>2 DEF BusyIn, Idle
<1>4. form'.loading = ""
  BY <1>2 DEF EmptyForm
<1>5. \A q \in requests' : q.live => kept /\ q \in requests /\ q.for = "chat"
  <2>1. ASSUME NEW x \in requests PROVE ~ [x EXCEPT !.live = FALSE].live
    BY <2>1 DEF PanelsOK, RequestOK
  <2> QED BY <1>1, <2>1 DEF Mounted
<1>6. talk' \in Seq({"user", "assistant"}) /\ (Waits(talk') => Awaited(requests', {"chat"}))
  <2>1. CASE kept
    <3>1. \A q \in requests : q.for = "chat" => q \in requests'
      BY <1>1, <2>1 DEF Mounted
    <3> QED BY <1>2, <2>1, <3>1 DEF WaitOK, Waits, Awaited
  <2>2. CASE ~ kept
    BY <1>2, <2>2 DEF Waits
  <2> QED BY <2>1, <2>2
<1>7. Awaited(requests', {"chat"}) => Framed'
  <2> SUFFICES ASSUME kept PROVE Framed'
    BY <1>5 DEF Awaited
  <2>1. Framed /\ Public(r.page) /\ tab' = Asked(Clean(r), Framed /\ Public(r.page))
    BY <1>1 DEF Follow
  <2>2. /\ tab'.route = Clean(r)
        /\ tab'.step = IF Found(Clean(r)) THEN "reading" ELSE "missing"
        /\ tab'.kept = (Framed /\ Public(r.page) /\ Found(Clean(r)))
    BY <2>1 DEF Asked
  <2>3. Clean(r).page = r.page
    BY OpensAddress, CleanKeepsPage DEF Visit, LinkInv
  <2> QED BY <2>1, <2>2, <2>3 DEF Framed
<1> QED BY <1>3, <1>4, <1>6, <1>7 DEF WaitOK

LEMMA WaitStep ==
    ASSUME LinkInv, PanelsOK, WaitOK, [Next]_vars
    PROVE  WaitOK'
<1>1. Shape /\ talk \in Seq({"user", "assistant"}) /\ WidgetsOK(panels, tab.route.page)
      /\ DOMAIN form = DOMAIN EmptyForm
  BY DEF LinkInv, HiddenInv, PanelsOK, FormOK, WaitOK
<1>2. ASSUME UNCHANGED <<panels, talk, requests>>, form'.loading = form.loading, Framed => Framed'
      PROVE  WaitOK'
  BY <1>2 DEF WaitOK, BusyIn, Awaited, Waits
<1>3. CASE UNCHANGED vars \/ (Browse /\ UNCHANGED panelVars)
  <2>1. Framed => Framed'
    BY <1>1, <1>3, BrowseSteps, FrameStays DEF vars, portalVars
  <2> QED BY <1>2, <1>3, <2>1 DEF vars, panelVars
<1>4. CASE ImportAnother \/ \E k \in Keys : EditIdentifier(k)
  <2>1. form'.loading = form.loading
    BY <1>1, <1>4 DEF ImportAnother, EditIdentifier, Reset, EmptyForm
  <2>2. UNCHANGED <<tab, panels, talk, requests>>
    BY <1>4 DEF ImportAnother, EditIdentifier, portalVars
  <2> QED BY <1>2, <2>1, <2>2 DEF Framed
<1>5. CASE LoadHealth \/ LoadCoverage \/ LoadMaintenance \/ Ask \/ Generate
  <2>1. PICK w, arg :
          /\ w \in Widgets
          /\ Send(Request(w, arg)) /\ UNCHANGED <<portalVars, form, talk>>
          /\ \/ panels' = [panels EXCEPT ![w].phase = "busy"]
             \/ panels' = [panels EXCEPT ![w] = [phase |-> "busy", report |-> "none"]]
    BY <1>5 DEF LoadHealth, LoadCoverage, LoadMaintenance, Load, Ask, Generate, Widgets, Loaders
  <2>2. \A v : BusyIn(panels', v) => BusyIn(panels, v) \/ v = w
    BY <2>1 DEF BusyIn
  <2>3. w # "chat" /\ UNCHANGED <<tab, form, talk>> /\ (Waits(talk') => Waits(talk))
    BY <2>1 DEF Widgets, Loaders, portalVars, Waits
  <2> QED BY <1>1, <2>1, <2>2, <2>3, WaitersAsk
<1>6. CASE Say
  <2>1. talk' \in Seq({"user", "assistant"})
    BY <1>1, <1>6, AppendTalk DEF Say
  <2>2. \A w : BusyIn(panels', w) => BusyIn(panels, w)
    BY <1>6 DEF Say, BusyIn
  <2> QED BY <1>6, <2>1, <2>2, WaitersAsk DEF Say, portalVars, Unanswered, Waits
<1>7. CASE Lookup \/ Create
  <2>1. PICK for, arg :
          for \in {"lookup", "create"} /\ Send(Request(for, arg)) /\ UNCHANGED <<portalVars, panels, talk>>
    BY <1>7 DEF Lookup, Create
  <2>2. UNCHANGED <<tab, panels, talk>>
    BY <2>1 DEF portalVars
  <2>3. /\ \A w : BusyIn(panels', w) => BusyIn(panels, w)
        /\ Waits(talk') => Waits(talk)
        /\ talk' \in Seq({"user", "assistant"})
    BY <1>1, <2>2 DEF BusyIn, Waits
  <2> QED BY <2>1, <2>2, <2>3, WaitersAsk
<1>8. CASE \E q \in requests : Serve(q) \/ Deliver(q) \/ GiveUp(q)
  BY <1>8, WaitersServed, WaitersAnswered
<1>9. CASE \E r \in Typed \cup Header \cup tab.page.links : Visit(r)
  BY <1>9, WaitersMounted
<1> QED BY <1>3, <1>4, <1>5, <1>6, <1>7, <1>8, <1>9 DEF Next

----------------------------------------------------------------------------
SiteInv == ListInv /\ ChartOK /\ CmsOK /\ StepOK /\ PanelsOK /\ WaitOK

LEMMA InitSite == ASSUME Init PROVE SiteInv
<1>1. LinkInv /\ Shape
  BY InitLinks, InitShape
<1>2. StagesOK
  <2>1. "open" \in ToSet(Stages)
    BY DEF ToSet, Stages
  <2> HIDE DEF ToSet
  <2> QED BY <2>1 DEF Init, PortalInit, StagesOK
<1>3. tab = Asked(Route("home", None), FALSE) /\ points = Mapped /\ works = Library /\ edits = 0
      /\ toggles = [m \in DOMAIN Members |-> [f \in Contacts |-> "unset"]]
  BY DEF Init, PortalInit
<1>4. ChartOK
  <2>1. tab.view = Whole /\ tab.drag = NoDrag
    BY <1>3 DEF Asked
  <2> QED BY <2>1, WholeIsOn DEF ChartOK, DragOK, NoDrag
<1>5. CmsOK
  <2>1. MaxEdits \in Nat
    BY PortalAssumption
  <2>2. points \subseteq DOMAIN works
    BY <1>3, PortalAssumption
  <2> QED BY <1>3, <2>1, <2>2 DEF CmsOK, TogglesOK
<1>6. StepOK
  BY <1>3 DEF Asked, StepOK
<1>7. PanelsOK
  <2>1. tab.route.page = "home"
    BY <1>3 DEF Asked, Route
  <2>2. DOMAIN panels = {} /\ form = EmptyForm /\ requests = {} /\ asked = 0
    BY DEF Init, PanelsInit
  <2>3. FormOK(form, DOMAIN works)
    BY <2>2 DEF FormOK, EmptyForm
  <2>4. WidgetsOK(panels, tab.route.page)
    BY <2>1, <2>2 DEF WidgetsOK, On
  <2>5. asked \in 0..MaxAsked
    <3>1. MaxAsked \in Nat
      BY PanelsAssumption
    <3> QED BY <2>2, <3>1
  <2> QED BY <2>2, <2>3, <2>4, <2>5 DEF PanelsOK
<1>8. WaitOK
  <2>1. panels = [w \in {} |-> Idle] /\ form = EmptyForm /\ talk = <<>> /\ requests = {}
    BY DEF Init, PanelsInit
  <2>2. ~ Waits(talk) /\ talk \in Seq({"user", "assistant"})
    BY <2>1 DEF Waits
  <2>3. /\ \A w : ~ BusyIn(panels, w)
        /\ \A kinds : ~ Awaited(requests, kinds)
    BY <2>1 DEF BusyIn, Awaited
  <2>4. form.loading = ""
    BY <2>1 DEF EmptyForm
  <2> QED BY <2>2, <2>3, <2>4 DEF WaitOK
<1> QED BY <1>1, <1>2, <1>4, <1>5, <1>6, <1>7, <1>8 DEF SiteInv, ListInv

LEMMA SiteStep == ASSUME SiteInv, [Next]_vars PROVE SiteInv'
<1>1. LinkInv /\ Shape /\ StagesOK /\ ChartOK /\ CmsOK /\ StepOK /\ PanelsOK
      /\ WaitOK
  BY DEF SiteInv, ListInv, LinkInv, HiddenInv
<1>2. ListInv'
  BY <1>1, LinkStep, StagesStep DEF ListInv
<1>3. ChartOK' /\ StepOK' /\ PanelsOK' /\ WaitOK'
  BY <1>1, ChartStep, StepStays, PanelsStep, WaitStep
<1>4. CmsOK'
  BY <1>1, MapStays, TogglesStay, EditsAreCounted DEF CmsOK
<1> QED BY <1>2, <1>3, <1>4 DEF SiteInv

(* Type correctness of the portal and its widgets: every address of the    *)
(* tab and of its links is one of the site's, pages are made of records    *)
(* that exist, and the map stays on its canvas.  A request whose answer is *)
(* still waited for belongs to a widget of the page in the tab, or to the  *)
(* chat of the root layout, over any number of pages; and whatever waits   *)
(* has such a request, with any number of them late, lost or given up.     *)
THEOREM SiteIsTyped == Spec => []SiteTypeOK
<1>1. Init => SiteInv
  BY InitSite
<1>2. SiteInv /\ [Next]_vars => SiteInv'
  BY SiteStep
<1>3. SiteInv => SiteTypeOK
  <2> SUFFICES ASSUME SiteInv PROVE SiteTypeOK
    OBVIOUS
  <2>1. PortalTypeOK
    BY DEF SiteInv, ListInv, LinkInv, HiddenInv, Shape, AtAddress, StagesOK, ChartOK, DragOK, CmsOK, TogglesOK,
           StepOK, PortalTypeOK
  <2>2. \A q \in requests : q.live => AtHome(q.for, tab.route.page, tab.step)
    BY DEF SiteInv, PanelsOK, RequestOK
  <2>3. /\ DOMAIN panels = On(tab.route.page)
        /\ \A w \in DOMAIN panels : panels[w].phase \in {"idle", "busy", "error"}
        /\ form.loading \in {"", "lookup", "create"}
        /\ form.created \in {None} \cup DOMAIN works
        /\ asked \in 0..MaxAsked
    BY DEF SiteInv, PanelsOK, WidgetsOK, PanelOK, FormOK
  <2>4. WaitOK /\ \A q \in requests : q.live /\ q.for = "chat" => Framed
    BY DEF SiteInv, WaitOK, Awaited
  <2>5. /\ \A w \in Widgets : Busy(w) => WaitedFor({w})
        /\ form.loading # "" => WaitedFor({"lookup", "create"})
        /\ Unanswered => WaitedFor({"chat"})
    BY <2>4 DEF WaitOK, BusyIn, Busy, Awaited, WaitedFor, Waits, Unanswered
  <2> QED BY <2>1, <2>2, <2>3, <2>4, <2>5 DEF SiteTypeOK, AtHome, Showing
<1> QED BY <1>1, <1>2, <1>3, PTL DEF Spec
=============================================================================
