------------------------------- MODULE Panels -------------------------------
(***************************************************************************)
(* What the browser runs: the widgets of the admin panel and the public    *)
(* chat, the routes under /api that pass their requests to the AI service, *)
(* and the public site of Portal in the same tab.  A widget of the panel   *)
(* lives as long as the page it is on, the chat as long as the site's root *)
(* layout, over any number of pages; a request sent goes on in the AI      *)
(* service after the route has given it up, and after the tab has left.    *)
(***************************************************************************)
EXTENDS Portal

CONSTANTS
    Keys,           \* the identifiers an editor may type
    Resolved,       \* those the import finds a work for
    MaxAsked        \* bound: requests widgets ever send

(* An empty identifier resolves to nothing.                                *)
ASSUME PanelsAssumption == Resolved \subseteq STRING \ {""} /\ MaxAsked \in Nat

VARIABLES
    panels,         \* panels[w]: what widget w of the page shows
    form,           \* the import form
    talk,           \* the messages of the chat
    requests,       \* what has been sent and is not forgotten
    asked           \* how many requests there have been

panelVars == <<panels, form, talk, requests, asked>>
vars == <<portalVars, panelVars>>

Loaders == {"health", "coverage", "maintenance"}
Widgets == Loaders \cup {"rag", "snippet"}

On(page) ==
    CASE page = "dashboard" -> Loaders \cup {"rag"}
      [] page = "document" -> {"snippet"}
      [] OTHER -> {}

Idle == [phase |-> "idle", report |-> "none"]
NoPreview == [key |-> "", duplicate |-> None, seen |-> 0]
(* In calm: the identifier is still the one last looked up, and no two     *)
(* lookups have been under way together (history).                         *)
EmptyForm == [identifier |-> "", loading |-> "", preview |-> NoPreview, notFound |-> FALSE,
              created |-> None, error |-> FALSE, calm |-> TRUE]

(* A request: who asked for what, how far the service is, whether the      *)
(* widget still waits; and what the editor had on screen and the service   *)
(* had seen when it answered a lookup (history).                           *)
Request(for, arg) ==
    [n |-> asked, for |-> for, arg |-> arg, step |-> "sent", result |-> "none", id |-> None,
     seen |-> 0, fresh |-> FALSE, live |-> TRUE, preview |-> form.preview, calm |-> form.calm]

Send(q) ==
    /\ asked < MaxAsked
    /\ asked' = asked + 1
    /\ requests' = requests \cup {q}

PanelsInit ==
    /\ panels = [w \in {} |-> Idle]
    /\ form = EmptyForm
    /\ talk = <<>>
    /\ requests = {}
    /\ asked = 0

Init == PortalInit /\ PanelsInit

Showing(page) == tab.route.page = page /\ tab.step = "made"

----------------------------------------------------------------------------
(* The widgets ask.                                                        *)

(* HealthDashboard, CoveragePanel, MaintenancePanel: once when they mount  *)
(* and whenever their button is pressed; the last report stays meanwhile.  *)
Load(w) ==
    /\ Showing("dashboard")
    /\ panels[w].phase # "busy"
    /\ panels' = [panels EXCEPT ![w].phase = "busy"]
    /\ Send(Request(w, ""))
    /\ UNCHANGED <<portalVars, form, talk>>
LoadHealth == Load("health")
LoadCoverage == Load("coverage")
LoadMaintenance == Load("maintenance")

(* The RAG workbench clears its last answer, the snippet button its text.  *)
Ask ==
    /\ Showing("dashboard")
    /\ panels["rag"].phase # "busy"
    /\ panels' = [panels EXCEPT !["rag"] = [phase |-> "busy", report |-> "none"]]
    /\ Send(Request("rag", ""))
    /\ UNCHANGED <<portalVars, form, talk>>

Generate ==
    /\ Showing("document")
    /\ panels["snippet"].phase # "busy"
    /\ panels' = [panels EXCEPT !["snippet"] = [phase |-> "busy", report |-> "none"]]
    /\ Send(Request("snippet", tab.route.id))
    /\ UNCHANGED <<portalVars, form, talk>>

(* The chat, on every page of the site and while the next one is read: of  *)
(* the messages, who they are from.                                        *)
Unanswered == talk # <<>> /\ Last(talk) = "user"
Say ==
    /\ Framed
    /\ ~ Unanswered
    /\ talk' = Append(talk, "user")
    /\ Send(Request("chat", ""))
    /\ UNCHANGED <<portalVars, panels, form>>

(* The import form.  Editing the identifier leaves the preview on screen.  *)
EditIdentifier(k) ==
    /\ Showing("library")
    /\ form.identifier # k
    /\ form' = [form EXCEPT !.identifier = k, !.calm = FALSE]
    /\ UNCHANGED <<portalVars, panels, talk, requests, asked>>

LookupsLive == {q \in requests : q.for = "lookup" /\ q.live}

Reset == [EmptyForm EXCEPT !.identifier = form.identifier, !.loading = form.loading]

(* The button waits for the request under way; the Enter key does not.     *)
Lookup ==
    /\ Showing("library")
    /\ form.identifier # ""
    /\ form' = [Reset EXCEPT !.loading = "lookup", !.calm = LookupsLive = {}]
    /\ Send(Request("lookup", form.identifier))
    /\ UNCHANGED <<portalVars, panels, talk>>

Create ==
    /\ Showing("library")
    /\ form.preview # NoPreview /\ form.created = None /\ form.loading = ""
    /\ form' = [form EXCEPT !.loading = "create", !.error = FALSE]
    /\ Send(Request("create", form.identifier))
    /\ UNCHANGED <<portalVars, panels, talk>>

ImportAnother ==
    /\ Showing("library")
    /\ form.created # None
    /\ form' = [Reset EXCEPT !.identifier = ""]
    /\ UNCHANGED <<portalVars, panels, talk, requests, asked>>

----------------------------------------------------------------------------
(* The AI service works on a request; the answer waits for the route, if   *)
(* the route still waits for it.                                           *)
Served(q, r) ==
    requests' = (requests \ {q}) \cup (IF q.live THEN {[r EXCEPT !.step = "served"]} ELSE {})

(* The overall status of the health report is the worst of its checks: of  *)
(* the database, the core data, the AI service, the language model and the *)
(* embeddings, none of which the maintenance report counts when the        *)
(* service refuses to give it.                                             *)
Severity(status) ==
    CASE status = "ready" -> 0 [] status = "error" -> 2 [] OTHER -> 1
Worst(checks) ==
    FoldLeft(LAMBDA worst, c : IF Severity(c) > Severity(worst) THEN c ELSE worst,
             "ready", checks)
DataCheck(readable) ==
    IF ~ readable THEN "error"
    ELSE IF DOMAIN Members = {} \/ Published = {} THEN "warning" ELSE "ready"
EmbeddingCheck(reply) ==
    CASE reply = "report" -> IF Published \subseteq points THEN "ready" ELSE "warning"
      [] reply = "refused" -> "ready"
      [] OTHER -> "unknown"
HealthReport(readable, ai, llm, reply) ==
    Worst(<<DataCheck(readable), IF ai THEN "ready" ELSE "error", llm, EmbeddingCheck(reply)>>)

ServeHealth(q) ==
    /\ q.for = "health" /\ q.step = "sent"
    /\ \E readable, ai \in BOOLEAN, reply \in {"report", "refused", "none"},
          llm \in {"ready", "not_configured", "warning", "unknown"} :
        Served(q, [q EXCEPT !.result = HealthReport(readable, ai, llm, reply)])
    /\ UNCHANGED <<portalVars, panels, form, talk, asked>>

(* The coverage and maintenance reports and the RAG answer change nothing. *)
Reported(q, for) ==
    /\ q.for = for /\ q.step = "sent"
    /\ \E result \in {"report", "failed"} : Served(q, [q EXCEPT !.result = result])
    /\ UNCHANGED <<portalVars, panels, form, talk, asked>>
ServeCoverage(q) == Reported(q, "coverage")
ServeMaintenance(q) == Reported(q, "maintenance")
ServeRag(q) == Reported(q, "rag")

(* The chat's answer or its error, a message either way.                   *)
ServeChat(q) ==
    /\ q.for = "chat" /\ q.step = "sent"
    /\ Served(q, [q EXCEPT !.result = "report"])
    /\ UNCHANGED <<portalVars, panels, form, talk, asked>>

(* The snippet is saved to the record before it is shown.                  *)
ServeSnippet(q) ==
    /\ q.for = "snippet" /\ q.step = "sent"
    /\ \/ /\ q.arg \in DOMAIN works
          /\ works' = [works EXCEPT ![q.arg].snippet = TRUE]
          /\ Served(q, [q EXCEPT !.result = "report"])
       \/ works' = works /\ Served(q, [q EXCEPT !.result = "failed"])
    /\ UNCHANGED <<toggles, stages, openJobs, points, edits, tab, panels, form, talk, asked>>

Known(key) ==
    LET ids == {p \in DOMAIN works : works[p].key = key} IN
    IF ids = {} THEN None ELSE Min(ids)

ServeLookup(q) ==
    /\ q.for = "lookup" /\ q.step = "sent"
    /\ \/ /\ q.arg \in Resolved
          /\ Served(q, [q EXCEPT !.result = "found", !.id = Known(q.arg),
                                 !.seen = Len(works)])
       \/ q.arg \notin Resolved /\ Served(q, [q EXCEPT !.result = "absent"])
       \/ Served(q, [q EXCEPT !.result = "failed"])
    /\ UNCHANGED <<portalVars, panels, form, talk, asked>>

(* ingest_create resolves the identifier again: a work that is new becomes *)
(* a draft for the editors, one that is known keeps its status.            *)
Imported(key) ==
    [key |-> key, slug |-> key, year |-> 2024, kind |-> "other", refs |-> {}, authors |-> {},
     status |-> "pending_review", snippet |-> FALSE]
ServeCreate(q) ==
    /\ q.for = "create" /\ q.step = "sent"
    /\ \/ /\ q.arg \in Resolved
          /\ LET p == Known(q.arg) IN
             /\ works' = IF p = None THEN Append(works, Imported(q.arg))
                         ELSE [works EXCEPT ![p].authors = {}]
             /\ Served(q, [q EXCEPT !.result = "created", !.fresh = p = None,
                                    !.id = IF p = None THEN Len(works) + 1 ELSE p])
       \/ works' = works /\ Served(q, [q EXCEPT !.result = "failed"])
    /\ UNCHANGED <<toggles, stages, openJobs, points, edits, tab, panels, form, talk, asked>>

----------------------------------------------------------------------------
(* The answer reaches the widget that waits for it, or the route has given *)
(* it up: an error either way for what failed.                             *)
Forget(q) == requests' = requests \ {q}
GivenUp(q) ==
    requests' = (requests \ {q})
                \cup (IF q.step = "sent" /\ q.for \in {"create", "snippet"}
                      THEN {[q EXCEPT !.live = FALSE]} ELSE {})

(* Mutant of Settled: only a good answer ends the wait.                    *)
SettledIfGood(panel, result) ==
    IF result = "failed" THEN panel ELSE [phase |-> "idle", report |-> result]

Settled(panel, result) ==
    IF result = "failed" THEN [panel EXCEPT !.phase = "error"]
    ELSE [phase |-> "idle", report |-> result]

(* Mutant of FormAfterLookup: the warning that the work exists gets lost.  *)
FormAfterLookupUnwarned(q, result) ==
    CASE result = "found" ->
            [form EXCEPT !.loading = "",
                         !.preview = [key |-> q.arg, duplicate |-> None, seen |-> q.seen]]
      [] result = "absent" -> [form EXCEPT !.loading = "", !.notFound = TRUE]
      [] OTHER -> [form EXCEPT !.loading = "", !.error = TRUE]

FormAfterLookup(q, result) ==
    CASE result = "found" ->
            [form EXCEPT !.loading = "",
                         !.preview = [key |-> q.arg, duplicate |-> q.id, seen |-> q.seen]]
      [] result = "absent" -> [form EXCEPT !.loading = "", !.notFound = TRUE]
      [] OTHER -> [form EXCEPT !.loading = "", !.error = TRUE]

FormAfterCreate(q, result) ==
    IF result = "created" THEN [form EXCEPT !.loading = "", !.created = q.id]
    ELSE [form EXCEPT !.loading = "", !.error = TRUE]

(* What the widget makes of a result; a route that gives up counts as one. *)
Result(q, result) ==
    /\ panels' = IF q.for \in DOMAIN panels
                 THEN [panels EXCEPT ![q.for] = Settled(@, result)] ELSE panels
    /\ form' = CASE q.for = "lookup" -> FormAfterLookup(q, result)
                 [] q.for = "create" -> FormAfterCreate(q, result)
                 [] OTHER -> form
    /\ talk' = IF q.for = "chat" THEN Append(talk, "assistant") ELSE talk
    /\ UNCHANGED <<portalVars, asked>>

Deliver(q) == q.live /\ q.step = "served" /\ Result(q, q.result) /\ Forget(q)
GiveUp(q) == q.live /\ Result(q, "failed") /\ GivenUp(q)

----------------------------------------------------------------------------
(* Opening a page mounts its widgets and drops those of the last one; the  *)
(* chat goes with the root layout.                                         *)
Mounted(page, kept) ==
    /\ panels' = [w \in On(page) |-> Idle]
    /\ form' = EmptyForm
    /\ talk' = IF kept THEN talk ELSE <<>>
    /\ requests' = {[q EXCEPT !.live = FALSE] :
                       q \in {x \in requests : x.step = "sent" /\ x.for \in {"create", "snippet"}}}
                   \cup {q \in requests : kept /\ q.for = "chat"}
    /\ asked' = asked

Visit(r) ==
    \/ Type(r) /\ Mounted(r.page, FALSE)
    \/ Follow(r) /\ Mounted(r.page, Framed /\ Public(r.page))

Serve(q) ==
    \/ ServeHealth(q) \/ ServeCoverage(q) \/ ServeMaintenance(q) \/ ServeRag(q)
    \/ ServeChat(q) \/ ServeSnippet(q) \/ ServeLookup(q) \/ ServeCreate(q)

Next ==
    \/ \E r \in Typed \cup Header \cup tab.page.links : Visit(r)
    \/ Browse /\ UNCHANGED panelVars
    \/ LoadHealth \/ LoadCoverage \/ LoadMaintenance
    \/ Ask \/ Generate \/ Say \/ Lookup \/ Create \/ ImportAnother
    \/ \E k \in Keys : EditIdentifier(k)
    \/ \E q \in requests : Serve(q) \/ Deliver(q) \/ GiveUp(q)

(* Every request of a route is cut off by AbortSignal.timeout.             *)
Spec == Init /\ [][Next]_vars /\ WF_vars(\E q \in requests : Deliver(q) \/ GiveUp(q))

----------------------------------------------------------------------------
(* The pages, the widgets in the tab and the requests of them.  Nobody     *)
(* waits for nothing: a panel, a form or a chat that waits has a request   *)
(* under way that will end its wait, however they overlap.                 *)
Busy(w) == w \in DOMAIN panels /\ panels[w].phase = "busy"
WaitedFor(kinds) == \E q \in requests : q.live /\ q.for \in kinds
SiteTypeOK ==
    /\ PortalTypeOK
    /\ DOMAIN panels = On(tab.route.page)
    /\ \A w \in DOMAIN panels : panels[w].phase \in {"idle", "busy", "error"}
    /\ form.loading \in {"", "lookup", "create"}
    /\ form.created \in {None} \cup DOMAIN works
    /\ asked \in 0..MaxAsked
    /\ \A q \in requests : q.live =>
        \/ q.for \in On(tab.route.page)
        \/ q.for \in {"lookup", "create"} /\ Showing("library")
        \/ q.for = "chat" /\ Framed
    /\ \A w \in Widgets : Busy(w) => WaitedFor({w})
    /\ form.loading # "" => WaitedFor({"lookup", "create"})
    /\ Unanswered => WaitedFor({"chat"})

(* When the identifier has not been touched since it was looked up and     *)
(* lookups have not overlapped, creating imports the work of the preview,  *)
(* and updates a record without having warned of it only if that record    *)
(* has come since the lookup was answered.                                 *)
CreatesWhatWasPreviewed ==
    \A q \in requests : (q.for = "create" /\ q.result = "created" /\ q.calm) =>
        /\ q.arg = q.preview.key
        /\ q.fresh \/ q.id = q.preview.duplicate \/ q.id > q.preview.seen

(* Whoever waits comes back, with an answer or with an error: every branch *)
(* of a handler ends the wait.  A widget of the panel may go with its page *)
(* instead, and the chat with the whole document, never by a link.  (As    *)
(* requests are bounded, one that waits for ever keeps Waiting for ever.)  *)
Waiting == (\E w \in Widgets : Busy(w)) \/ form.loading # "" \/ Unanswered
PanelsComeBack == Waiting ~> ~ Waiting
=============================================================================
