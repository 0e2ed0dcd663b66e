--------------------------- MODULE EditorialRecord ---------------------------
(***************************************************************************)
(* The life of a publication record in the CMS (web/src/collections/       *)
(* Publications.ts) under everything that writes to it at the same time:   *)
(*   - editors saving it in the admin, with the two hooks of the           *)
(*     collection (recordEditorialDecision before the write,               *)
(*     autoProcessPublication after it);                                   *)
(*   - background jobs of the AI service started by the second hook        *)
(*     (POST /process/publication);                                        *)
(*   - the batch summarizer (app.pipelines.summarize);                     *)
(*   - OpenAlex ingest (payload_api.upsert_publication).                   *)
(* Every pipeline reads the record over REST, works for seconds to minutes *)
(* (an LLM call), and writes back: the read and the write are two actions. *)
(***************************************************************************)
EXTENDS Naturals, Sequences, FiniteSets

CONSTANTS
    Pubs,           \* record ids
    Editors,        \* admin/editor sessions; the dedupe script parks as one
    Jobs,           \* slots for concurrent /process/publication requests
    Abstracts,      \* the different (non-blank) abstract texts
    Choices,        \* the states editors move papers to
    Handled,        \* bound: the records editors work on (the pipelines see all)
    Limit,          \* rows one summarize run asks for (find's limit)
    MaxHistory,     \* bound: entries of a decision history
    MaxEdits,       \* bound: saves that give a summary a label by hand
    MaxLate         \* bound: pipeline writes that outlive their caller

VARIABLES
    row,            \* row[p]: the stored document
    request,        \* request[e]: the save of editor e between hook and write
    job,            \* job[j]: one /process/publication request
    batch,          \* the run of the batch summarizer
    ingest,         \* the upsert the ingest is in the middle of
    late,           \* writes whose HTTP client gave up, still to land
    edits,          \* edits[p]: saves so far that gave p's summary a label (history variable)
    overlapped      \* overlapped[p]: two saves of p were under way at once (history variable)

vars == <<row, request, job, batch, ingest, late, edits, overlapped>>

EditorialStates ==
    {"imported", "pending_review", "approved", "published", "rejected", "failed"}

(* A value that is no text: a missing abstract, and one of whitespace only. *)
NoText == "none"
Blank == "blank"
AnyAbstract == Abstracts \cup {NoText, Blank}

ASSUME RecordAssumption ==
    /\ Choices \subseteq EditorialStates
    /\ Handled \subseteq Pubs
    /\ Limit \in Nat \ {0}
    /\ MaxHistory \in Nat /\ MaxEdits \in Nat /\ MaxLate \in Nat
    /\ "none" \notin Pubs
    /\ NoText \notin Abstracts /\ Blank \notin Abstracts

----------------------------------------------------------------------------
(* Documents *)

(* reviewHistory: one entry per decision; of its fields only the status    *)
(* matters here (who decided is the process that holds the request).       *)
History == Seq(EditorialStates)

(* The aiSummary group and its label aiSummaryStatus, two fields that no   *)
(* hook ties together; "from" is the abstract a pipeline summarised.  In   *)
(* apart: they were last saved by hand, and not as the group's description *)
(* asks, the label "edited" together with a new text (history).            *)
Labels == {"none", "generated", "edited"}
Summary == [label : Labels, author : {"nobody", "ai", "human"}, from : AnyAbstract,
            apart : BOOLEAN]
NoSummary == [label |-> "none", author |-> "nobody", from |-> NoText, apart |-> FALSE]
AiSummary(a) == [label |-> "generated", author |-> "ai", from |-> a, apart |-> FALSE]

(* A save by hand: the text rewritten or not, under any label.             *)
Rewritten(sum) == [sum EXCEPT !.author = "human", !.from = NoText]
ByHand(sum, rewritten, label) ==
    [(IF rewritten THEN Rewritten(sum) ELSE sum)
        EXCEPT !.label = label,
               !.apart = label # "none" /\ ~ (rewritten /\ label = "edited")]

Row == [status : EditorialStates \cup {"absent", "deleted"},
        history : History,
        abstract : AnyAbstract,
        summary : Summary]
NoRow == [status |-> "absent", history |-> << >>, abstract |-> NoText, summary |-> NoSummary]

Stored(r) == r.status \in EditorialStates
HasText(r) == r.abstract \in Abstracts

(* Mutants of Decided: the old history left out, the old status recorded.  *)
DecidedFromScratch(r, s) == IF s = r.status THEN r.history ELSE <<s>>
DecidedOldStatus(r, s) == IF s = r.status THEN r.history ELSE Append(r.history, r.status)

(* recordEditorialDecision: a save that changes the status carries the     *)
(* history its hook read, with one more entry.                             *)
Decided(r, s) == IF s = r.status THEN r.history ELSE Append(r.history, s)

(* A new record through the same hook: originalDoc is undefined.           *)
NewRow(s, a, sum) == [status |-> s, history |-> <<s>>, abstract |-> a, summary |-> sum]

----------------------------------------------------------------------------
(* Processes *)

NoRequest == [pub |-> "none", status |-> "none", recorded |-> FALSE, history |-> << >>]
NoJob == [pc |-> "idle", pub |-> "none", from |-> NoText, seen |-> 0]
NoUpsert == [pc |-> "idle", pub |-> "none", abstract |-> NoText, draft |-> FALSE]
NoBatch == [todo |-> {}, done |-> {}, failed |-> {},
            from |-> [p \in Pubs |-> NoText], seen |-> [p \in Pubs |-> 0]]

Requests == [pub : Pubs, status : EditorialStates, recorded : BOOLEAN, history : History]
JobStates == [pc : {"called", "writing"}, pub : Pubs, from : AnyAbstract, seen : Nat]
Upserts == [pc : {"found", "missing"}, pub : Pubs, abstract : Abstracts \cup {NoText}, draft : BOOLEAN]
Batches == [todo : SUBSET Pubs, done : SUBSET Pubs, failed : SUBSET Pubs,
            from : [Pubs -> AnyAbstract], seen : [Pubs -> Nat]]
LateWrites == [pub : Pubs, from : AnyAbstract, seen : Nat]

TypeOK ==
    /\ row \in [Pubs -> Row]
    /\ request \in [Editors -> Requests \cup {NoRequest}]
    /\ job \in [Jobs -> JobStates \cup {NoJob}]
    /\ batch \in Batches
    /\ ingest \in Upserts \cup {NoUpsert}
    /\ late \subseteq LateWrites
    /\ edits \in [Pubs -> Nat]
    /\ overlapped \in [Pubs -> BOOLEAN]

Init ==
    /\ row = [p \in Pubs |-> NoRow]
    /\ request = [e \in Editors |-> NoRequest]
    /\ job = [j \in Jobs |-> NoJob]
    /\ batch = NoBatch
    /\ ingest = NoUpsert
    /\ late = {}
    /\ edits = [p \in Pubs |-> 0]
    /\ overlapped = [p \in Pubs |-> FALSE]

----------------------------------------------------------------------------
(* Editors *)

(* autoProcessPublication's conditions: any abstract text at all, and the  *)
(* document as just written still labelled "none".                         *)
WantsProcessing(r) == r.abstract # NoText /\ r.summary.label = "none"

(* The fire-and-forget call: at most one job starts, and none when the AI  *)
(* service is not configured, down or busy (the error is only logged).     *)
AutoProcess(p, r) ==
    \/ UNCHANGED job
    \/ /\ WantsProcessing(r)
       /\ \E j \in Jobs :
            /\ job[j] = NoJob
            /\ job' = [job EXCEPT ![j] = [NoJob EXCEPT !.pc = "called", !.pub = p]]

Store(p, r) ==
    /\ row' = [row EXCEPT ![p] = r]
    /\ AutoProcess(p, r)

(* An editor creates a record by hand; its status is the form's.           *)
CreateByHand(p, s, a) ==
    /\ row[p] = NoRow
    /\ Store(p, NewRow(s, a, NoSummary))
    /\ UNCHANGED <<request, batch, ingest, late, edits, overlapped>>

(* An editor's save that carries a status: Payload loads the original      *)
(* document and runs the beforeChange hook on it ...                       *)
BeginSave(e, p, s) ==
    /\ request[e] = NoRequest
    /\ Stored(row[p])
    /\ s # row[p].status => Len(row[p].history) < MaxHistory
    /\ request' = [request EXCEPT ![e] =
                     [pub |-> p, status |-> s, recorded |-> s # row[p].status,
                      history |-> Decided(row[p], s)]]
    /\ overlapped' = [overlapped EXCEPT ![p] = @ \/ \E f \in Editors : request[f].pub = p]
    /\ UNCHANGED <<row, job, batch, ingest, late, edits>>

(* ... then writes the fields of the save, and the history only if the     *)
(* hook put it there, and runs the afterChange hook on the result.         *)
Saved(r, q) == [r EXCEPT !.status = q.status,
                         !.history = IF q.recorded THEN q.history ELSE @]

CommitSave(e, p) ==
    /\ request[e].pub = p
    /\ Stored(row[p])
    /\ Store(p, Saved(row[p], request[e]))
    /\ request' = [request EXCEPT ![e] = NoRequest]
    /\ UNCHANGED <<batch, ingest, late, edits, overlapped>>

(* The save fails: validation, the database, or the record was deleted.    *)
FailSave(e) ==
    /\ request[e] # NoRequest
    /\ request' = [request EXCEPT ![e] = NoRequest]
    /\ UNCHANGED <<row, job, batch, ingest, late, edits, overlapped>>

(* Saves that carry no status.  An editor rewrites the summary, sets its   *)
(* label (back to "none" to have it generated again), or both at once; the *)
(* field's description asks for both, nothing enforces it.                 *)
EditSummary(p, rewritten, label) ==
    /\ Stored(row[p])
    /\ rewritten \/ label # row[p].summary.label
    /\ label # "none" => edits[p] < MaxEdits
    /\ Store(p, [row[p] EXCEPT !.summary = ByHand(@, rewritten, label)])
    /\ edits' = [edits EXCEPT ![p] = IF label = "none" THEN @ ELSE @ + 1]
    /\ UNCHANGED <<request, batch, ingest, late, overlapped>>

(* An editor changes the abstract.                                         *)
EditAbstract(p, a) ==
    /\ Stored(row[p])
    /\ row[p].abstract # a
    /\ Store(p, [row[p] EXCEPT !.abstract = a])
    /\ UNCHANGED <<request, batch, ingest, late, edits, overlapped>>

DeleteRecord(p) ==
    /\ Stored(row[p])
    /\ row' = [row EXCEPT ![p] = [NoRow EXCEPT !.status = "deleted"]]
    /\ UNCHANGED <<request, job, batch, ingest, late, edits, overlapped>>

----------------------------------------------------------------------------
(* What a summary pipeline writes: the summary and its label, nothing      *)
(* else.  The label is not read again before the write, and the request is *)
(* tagged X-Skip-Autoprocess, so the afterChange hook does nothing.        *)
WriteGenerated(p, a) ==
    row' = [row EXCEPT ![p].summary = AiSummary(a)]

(* What the caller of payload_api.update can see of a PATCH that times out *)
(* or breaks: the write may be lost, applied, or still on its way.         *)
BrokenWrite(p, a, seen) ==
    \/ UNCHANGED <<row, late>>
    \/ Stored(row[p]) /\ WriteGenerated(p, a) /\ UNCHANGED late
    \/ /\ Cardinality(late) < MaxLate
       /\ late' = late \cup {[pub |-> p, from |-> a, seen |-> seen]}
       /\ UNCHANGED row

LateWriteLands(w) ==
    /\ late' = late \ {w}
    /\ IF Stored(row[w.pub]) THEN WriteGenerated(w.pub, w.from) ELSE UNCHANGED row
    /\ UNCHANGED <<request, job, batch, ingest, edits, overlapped>>

(* Mutant of Summarisable: the label is not looked at.                     *)
SummarisableAnyLabel(r) == HasText(r)

(* process_publication: reads the record, and goes on to the summary only  *)
(* when the feature is on and the record it read has text and no summary.  *)
(* A record that is gone is a 404.                                         *)
Summarisable(r) == HasText(r) /\ r.summary.label = "none"

JobRead(j) ==
    /\ job[j].pc = "called"
    /\ LET p == job[j].pub IN
       job' = [job EXCEPT ![j] =
                 IF Stored(row[p]) /\ Summarisable(row[p])
                 THEN [pc |-> "writing", pub |-> p, from |-> row[p].abstract, seen |-> edits[p]]
                 ELSE NoJob]
    /\ UNCHANGED <<row, request, batch, ingest, late, edits, overlapped>>

(* The answer of the model (or the extractive draft) is written back.      *)
JobWrite(j) ==
    /\ job[j].pc = "writing"
    /\ Stored(row[job[j].pub])
    /\ WriteGenerated(job[j].pub, job[j].from)
    /\ job' = [job EXCEPT ![j] = NoJob]
    /\ UNCHANGED <<request, batch, ingest, late, edits, overlapped>>

(* enableSummaries is off, the service restarts, or the PATCH breaks.      *)
JobDies(j) ==
    /\ job[j] # NoJob
    /\ IF job[j].pc = "writing"
       THEN BrokenWrite(job[j].pub, job[j].from, job[j].seen)
       ELSE UNCHANGED <<row, late>>
    /\ job' = [job EXCEPT ![j] = NoJob]
    /\ UNCHANGED <<request, batch, ingest, edits, overlapped>>

----------------------------------------------------------------------------
(* summarize.run: one query for records labelled "none" with an abstract   *)
(* (at most Limit of them), then one write after another, minutes apart.   *)
Candidates == {p \in Pubs : Stored(row[p]) /\ row[p].summary.label = "none"
                                           /\ row[p].abstract # NoText}

BatchStart(found) ==
    /\ batch.todo = {}
    /\ found \subseteq Candidates
    /\ Cardinality(found) = IF Cardinality(Candidates) < Limit THEN Cardinality(Candidates) ELSE Limit
    /\ batch' = [todo |-> {p \in found : HasText(row[p])}, done |-> {}, failed |-> {},
                 from |-> [p \in Pubs |-> IF p \in found /\ HasText(row[p]) THEN row[p].abstract ELSE NoText],
                 seen |-> [p \in Pubs |-> IF p \in found /\ HasText(row[p]) THEN edits[p] ELSE 0]]
    /\ UNCHANGED <<row, request, job, ingest, late, edits, overlapped>>

(* The record is behind the loop; what was read of it is not used again.   *)
Passed(b, p) == [b EXCEPT !.todo = @ \ {p}, !.from[p] = NoText, !.seen[p] = 0]

BatchWrite(p) ==
    /\ p \in batch.todo
    /\ Stored(row[p])
    /\ WriteGenerated(p, batch.from[p])
    /\ batch' = [Passed(batch, p) EXCEPT !.done = @ \cup {p}]
    /\ UNCHANGED <<request, job, ingest, late, edits, overlapped>>


(* Mutant of Skipped: the exception leaves the loop.                       *)
SkippedRest(b, p) == [NoBatch EXCEPT !.done = b.done, !.failed = b.failed \cup {p}]

(* An exception for one record is logged and counted, and the loop goes on. *)
Skipped(b, p) == [Passed(b, p) EXCEPT !.failed = @ \cup {p}]

BatchError(p) ==
    /\ p \in batch.todo
    /\ BrokenWrite(p, batch.from[p], batch.seen[p])
    /\ batch' = Skipped(batch, p)
    /\ UNCHANGED <<request, job, ingest, edits, overlapped>>

BatchStep == \E p \in Pubs : BatchWrite(p) \/ BatchError(p)

----------------------------------------------------------------------------
(* upsert_publication: look the paper up, then PATCH or POST.  A work of   *)
(* the author run carries an extractive summary when it has an abstract; a *)
(* work imported from the admin form does not (draft = FALSE).             *)
UpsertFind(p, a, withDraft) ==
    /\ ingest = NoUpsert
    /\ row[p].status # "deleted"
    /\ ingest' = [pc |-> IF Stored(row[p]) THEN "found" ELSE "missing",
                  pub |-> p, abstract |-> a, draft |-> withDraft]
    /\ UNCHANGED <<row, request, job, batch, late, edits, overlapped>>

(* Mutants of SafeUpdate: status, or the label of the new draft, let through. *)
SafeUpdateStatus(r, a) == [r EXCEPT !.abstract = a, !.status = "pending_review"]
SafeUpdateLabel(r, a) == [r EXCEPT !.abstract = a, !.summary.label = "generated"]

(* The fields upsert_publication lets through on update; neither status    *)
(* nor summary is among them.                                              *)
SafeUpdate(r, a) == [r EXCEPT !.abstract = a]

UpsertUpdate ==
    /\ ingest.pc = "found"
    /\ Stored(row[ingest.pub])
    /\ row' = [row EXCEPT ![ingest.pub] = SafeUpdate(@, ingest.abstract)]
    /\ ingest' = NoUpsert
    /\ UNCHANGED <<request, job, batch, late, edits, overlapped>>

(* Mutant of DraftStatus: a state the select field does not list.          *)
DraftStatusUnlisted == "draft"

(* The status of a record the ingest creates.                              *)
DraftStatus == "pending_review"

UpsertCreate ==
    /\ ingest.pc = "missing"
    /\ row[ingest.pub] = NoRow
    /\ row' = [row EXCEPT ![ingest.pub] =
                 NewRow(DraftStatus, ingest.abstract,
                        IF ingest.draft /\ ingest.abstract # NoText
                        THEN AiSummary(ingest.abstract) ELSE NoSummary)]
    /\ ingest' = NoUpsert
    /\ UNCHANGED <<request, job, batch, late, edits, overlapped>>

(* The record appeared or vanished since the lookup (400, 404), or the     *)
(* request failed: the exception ends the ingest.                          *)
UpsertFails ==
    /\ ingest # NoUpsert
    /\ ingest' = NoUpsert
    /\ UNCHANGED <<row, request, job, batch, late, edits, overlapped>>

----------------------------------------------------------------------------
EditorStep ==
    \/ \E e \in Editors, p \in Handled, s \in Choices : BeginSave(e, p, s)
    \/ \E p \in Handled, s \in Choices, a \in AnyAbstract : CreateByHand(p, s, a)
    \/ \E e \in Editors, p \in Handled : CommitSave(e, p)
    \/ \E e \in Editors : FailSave(e)
    \/ \E p \in Handled, rewritten \in BOOLEAN, label \in Labels :
          EditSummary(p, rewritten, label)
    \/ \E p \in Handled : DeleteRecord(p)
    \/ \E p \in Handled, a \in AnyAbstract : EditAbstract(p, a)

PipelineStep ==
    \/ \E j \in Jobs : JobRead(j) \/ JobWrite(j) \/ JobDies(j)
    \/ \E found \in SUBSET Pubs : BatchStart(found)
    \/ BatchStep
    \/ \E w \in late : LateWriteLands(w)
    \/ \E p \in Pubs, a \in Abstracts \cup {NoText}, d \in BOOLEAN : UpsertFind(p, a, d)
    \/ UpsertUpdate \/ UpsertCreate \/ UpsertFails

Next == EditorStep \/ PipelineStep

(* The steps of a run that has started are the program's own; starting one *)
(* and everything editors do is up to people.                              *)
Spec == Init /\ [][Next]_vars /\ WF_vars(BatchStep)

----------------------------------------------------------------------------
(* Properties *)

(* The label the site shows next to a text tells who wrote it, however     *)
(* saves, jobs, batch and late writes interleave: "generated" is on texts  *)
(* of the pipelines and "edited" on texts of people, unless the last save  *)
(* of the two was by hand and set them apart.  And whatever its label, a   *)
(* text of a pipeline is about an abstract that really had words.          *)
LabelsAreHonest ==
    \A p \in Pubs :
        LET sum == row[p].summary IN
        /\ sum.author = "ai" => sum.from \in Abstracts
        /\ ~sum.apart /\ sum.label = "generated" => sum.author = "ai"
        /\ ~sum.apart /\ sum.label = "edited" => sum.author = "human"

(* The trail of decisions is exact as long as two saves of the record are  *)
(* never under way at once: its last entry is the current status.  (With   *)
(* overlap, recordEditorialDecision rebuilds it from a stale originalDoc.) *)
TrailIsExact ==
    \A p \in Pubs : Stored(row[p]) /\ ~overlapped[p] =>
        /\ row[p].history # << >>
        /\ row[p].history[Len(row[p].history)] = row[p].status

(* Under the same condition the trail is append-only: no step of anybody   *)
(* rewrites or drops an entry of a stored record.                          *)
Extends(new, old) ==
    Len(old) <= Len(new) /\ \A i \in 1..Len(old) : new[i] = old[i]
TrailIsAppendOnly ==
    [][\A p \in Pubs : Stored(row[p]) /\ row'[p].status # "deleted" /\ ~overlapped[p] =>
          Extends(row'[p].history, row[p].history)]_vars

(* A summary is protected by its label: "edited" on any text, and any      *)
(* label but "none" on a text of a person.                                 *)
Protected(sum) == sum.label = "edited" \/ (sum.label = "generated" /\ sum.author = "human")

(* A pipeline replaces a protected summary only when it read the record    *)
(* before the save that protected it: what it could have seen is never     *)
(* touched.  (A text saved under the label "none" asks to be replaced.)    *)
HoldsStale(p) ==
    \/ \E j \in Jobs : job[j].pc = "writing" /\ job[j].pub = p /\ job[j].seen < edits[p]
    \/ p \in batch.todo /\ batch.seen[p] < edits[p]
    \/ \E w \in late : w.pub = p /\ w.seen < edits[p]
SeenEditsSurvive ==
    [][\A p \in Pubs :
          /\ Protected(row[p].summary) /\ row'[p].summary # row[p].summary
          /\ row'[p].summary.label = "generated" /\ edits'[p] = edits[p]
          => HoldsStale(p)]_vars

(* What the documentation says instead: a summary edited by hand and       *)
(* labelled so is never overwritten by a pipeline.                         *)
EditedIsNeverOverwritten ==
    [][\A p \in Pubs :
          row[p].summary.label = "edited" /\ row[p].summary.author = "human"
          => row'[p].summary.author # "ai"]_vars

(* The editorial promise, refined: what is asked for is the save between   *)
(* its hook and its write.                                                 *)
Statuses == [p \in Pubs |-> row[p].status]
Asked == [e \in Editors |-> [pub |-> request[e].pub, status |-> request[e].status]]
Editorial == INSTANCE EditorialPromise WITH
    States <- EditorialStates, status <- Statuses, asked <- Asked
StatusIsDecidedByEditors == Editorial!Promise

(* One record that fails does not cost the others their summary: every     *)
(* record a batch run picked up is written or counted as failed itself.    *)
BatchReachesEveryRecord ==
    \A p \in Pubs : p \in batch.todo ~> p \in batch.done \cup batch.failed
=============================================================================
