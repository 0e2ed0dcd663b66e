------------------------ MODULE EditorialRecordProofs ------------------------
(* Theorems about EditorialRecord, for any number of records, editors,     *)
(* jobs, abstracts and for any bounds.                                     *)
EXTENDS EditorialRecord, TLAPS

(* Whatever document a save stores, the afterChange hook leaves the jobs   *)
(* well formed.                                                            *)
LEMMA StoreTyping ==
    ASSUME TypeOK, NEW p \in Pubs, NEW r \in Row, Store(p, r)
    PROVE  /\ row' \in [Pubs -> Row]
           /\ job' \in [Jobs -> JobStates \cup {NoJob}]
<1>1. row' \in [Pubs -> Row]
  BY DEF TypeOK, Store
<1>2. [NoJob EXCEPT !.pc = "called", !.pub = p] \in JobStates
  BY DEF NoJob, JobStates, AnyAbstract
<1>3. job' \in [Jobs -> JobStates \cup {NoJob}]
  BY <1>2 DEF TypeOK, Store, AutoProcess
<1> QED
  BY <1>1, <1>3

(* The documents the actions build are documents.                          *)
LEMMA RowTyping ==
    ASSUME NEW r \in Row, Stored(r)
    PROVE  /\ \A s \in EditorialStates : Decided(r, s) \in History
           /\ \A q \in Requests : Saved(r, q) \in Row
           /\ \A w \in BOOLEAN, l \in Labels :
                 [r EXCEPT !.summary = ByHand(@, w, l)] \in Row
           /\ \A a \in AnyAbstract : /\ [r EXCEPT !.abstract = a] \in Row
                                     /\ [r EXCEPT !.summary = AiSummary(a)] \in Row
                                     /\ SafeUpdate(r, a) \in Row
<1> USE DEF Row, Stored, Summary, History
<1>1. \A s \in EditorialStates : Decided(r, s) \in History
  BY DEF Decided
<1>2. \A q \in Requests : Saved(r, q) \in Row
  BY DEF Saved, Requests
<1>3. Rewritten(r.summary) \in Summary
  BY DEF Rewritten, AnyAbstract
<1>4. \A w \in BOOLEAN, l \in Labels : [r EXCEPT !.summary = ByHand(@, w, l)] \in Row
  BY <1>3 DEF ByHand
<1>5. \A a \in AnyAbstract : /\ [r EXCEPT !.abstract = a] \in Row
                             /\ [r EXCEPT !.summary = AiSummary(a)] \in Row
                             /\ SafeUpdate(r, a) \in Row
  BY DEF AiSummary, SafeUpdate, Labels
<1> QED
  BY <1>1, <1>2, <1>4, <1>5

LEMMA NewRowTyping ==
    /\ NoRow \in Row
    /\ [NoRow EXCEPT !.status = "deleted"] \in Row
    /\ \A s \in EditorialStates, a \in AnyAbstract :
          /\ NewRow(s, a, NoSummary) \in Row
          /\ NewRow(s, a, AiSummary(a)) \in Row
<1>1. << >> \in History /\ \A s \in EditorialStates : <<s>> \in History
  BY DEF History
<1>2. NoText \in AnyAbstract
  BY DEF AnyAbstract
<1>3. NoSummary \in Summary /\ \A a \in AnyAbstract : AiSummary(a) \in Summary
  BY <1>2 DEF NoSummary, AiSummary, Summary, Labels
<1>4. NoRow \in Row /\ [NoRow EXCEPT !.status = "deleted"] \in Row
  BY <1>1, <1>2, <1>3 DEF NoRow, Row
<1>5. \A s \in EditorialStates, a \in AnyAbstract :
          /\ NewRow(s, a, NoSummary) \in Row
          /\ NewRow(s, a, AiSummary(a)) \in Row
  BY <1>1, <1>3 DEF NewRow, Row
<1> QED
  BY <1>4, <1>5

(* A generated summary stored on a stored record keeps the rows typed.     *)
LEMMA WriteTyping ==
    ASSUME TypeOK, NEW p \in Pubs, NEW a \in AnyAbstract, Stored(row[p]), WriteGenerated(p, a)
    PROVE  row' \in [Pubs -> Row]
BY RowTyping DEF TypeOK, WriteGenerated

LEMMA BrokenWriteTyping ==
    ASSUME TypeOK, NEW p \in Pubs, NEW a \in AnyAbstract, NEW n \in Nat, BrokenWrite(p, a, n)
    PROVE  row' \in [Pubs -> Row] /\ late' \subseteq LateWrites
<1>1. CASE UNCHANGED <<row, late>>
  BY <1>1 DEF TypeOK
<1>2. CASE Stored(row[p]) /\ WriteGenerated(p, a) /\ UNCHANGED late
  BY <1>2, WriteTyping DEF TypeOK
<1>3. CASE /\ late' = late \cup {[pub |-> p, from |-> a, seen |-> n]}
           /\ UNCHANGED row
  BY <1>3 DEF TypeOK, LateWrites
<1> QED
  BY <1>1, <1>2, <1>3 DEF BrokenWrite

LEMMA EditorTyping ==
    ASSUME TypeOK, EditorStep
    PROVE  TypeOK'
<1> USE RecordAssumption
<1>1. ASSUME NEW e \in Editors, NEW p \in Handled, NEW s \in Choices, BeginSave(e, p, s)
      PROVE  TypeOK'
  <2>1. p \in Pubs /\ s \in EditorialStates
    OBVIOUS
  <2>2. Decided(row[p], s) \in History
    BY <1>1, <2>1, RowTyping DEF TypeOK, BeginSave
  <2>3. [pub |-> p, status |-> s, recorded |-> s # row[p].status,
         history |-> Decided(row[p], s)] \in Requests
    BY <2>1, <2>2 DEF Requests
  <2> QED
    BY <1>1, <2>1, <2>3 DEF TypeOK, BeginSave
<1>2. ASSUME NEW p \in Handled, NEW s \in Choices, NEW a \in AnyAbstract, CreateByHand(p, s, a)
      PROVE  TypeOK'
  <2>1. NewRow(s, a, NoSummary) \in Row
    BY NewRowTyping
  <2> QED
    BY <1>2, <2>1, StoreTyping DEF TypeOK, CreateByHand
<1>3. ASSUME NEW e \in Editors, NEW p \in Handled, CommitSave(e, p)
      PROVE  TypeOK'
  <2>1. request[e] \in Requests
    BY <1>3 DEF TypeOK, CommitSave, NoRequest
  <2>2. Saved(row[p], request[e]) \in Row
    BY <1>3, <2>1, RowTyping DEF TypeOK, CommitSave
  <2> QED
    BY <1>3, <2>2, StoreTyping DEF TypeOK, CommitSave
<1>4. ASSUME NEW e \in Editors, FailSave(e)
      PROVE  TypeOK'
  BY <1>4 DEF TypeOK, FailSave
<1>5. ASSUME NEW p \in Handled, NEW w \in BOOLEAN, NEW l \in Labels, EditSummary(p, w, l)
      PROVE  TypeOK'
  <2>1. [row[p] EXCEPT !.summary = ByHand(@, w, l)] \in Row
    BY <1>5, RowTyping DEF TypeOK, EditSummary
  <2>2. edits' \in [Pubs -> Nat]
    BY <1>5 DEF TypeOK, EditSummary
  <2> QED
    BY <1>5, <2>1, <2>2, StoreTyping DEF TypeOK, EditSummary
<1>7. ASSUME NEW p \in Handled, DeleteRecord(p)
      PROVE  TypeOK'
  BY <1>7, NewRowTyping DEF TypeOK, DeleteRecord
<1>8. ASSUME NEW p \in Handled, NEW a \in AnyAbstract, EditAbstract(p, a)
      PROVE  TypeOK'
  BY <1>8, RowTyping, StoreTyping DEF TypeOK, EditAbstract
<1> QED
  BY <1>1, <1>2, <1>3, <1>4, <1>5, <1>7, <1>8 DEF EditorStep

LEMMA PipelineTyping ==
    ASSUME TypeOK, PipelineStep
    PROVE  TypeOK'
<1> USE RecordAssumption
<1>1. ASSUME NEW j \in Jobs, JobRead(j)
      PROVE  TypeOK'
  <2>1. job[j] \in JobStates
    BY <1>1 DEF TypeOK, JobRead, NoJob
  <2>2. [pc |-> "writing", pub |-> job[j].pub, from |-> row[job[j].pub].abstract,
         seen |-> edits[job[j].pub]] \in JobStates
    BY <2>1 DEF TypeOK, JobStates, Row
  <2> QED
    BY <1>1, <2>2 DEF TypeOK, JobRead
<1>2. ASSUME NEW j \in Jobs, JobWrite(j)
      PROVE  TypeOK'
  <2>1. job[j] \in JobStates
    BY <1>2 DEF TypeOK, JobWrite, NoJob
  <2>2. row' \in [Pubs -> Row]
    BY <1>2, <2>1, WriteTyping DEF JobWrite, JobStates
  <2> QED
    BY <1>2, <2>2 DEF TypeOK, JobWrite
<1>3. ASSUME NEW j \in Jobs, JobDies(j)
      PROVE  TypeOK'
  <2>1. job[j] \in JobStates
    BY <1>3 DEF TypeOK, JobDies
  <2>2. row' \in [Pubs -> Row] /\ late' \subseteq LateWrites
    BY <1>3, <2>1, BrokenWriteTyping DEF JobDies, JobStates, TypeOK
  <2> QED
    BY <1>3, <2>2 DEF TypeOK, JobDies
<1>4. ASSUME NEW found \in SUBSET Pubs, BatchStart(found)
      PROVE  TypeOK'
  <2>1. batch' \in Batches
    BY <1>4 DEF TypeOK, BatchStart, Batches, Row, HasText, AnyAbstract
  <2> QED
    BY <1>4, <2>1 DEF TypeOK, BatchStart
<1>5. ASSUME NEW p \in Pubs, BatchWrite(p)
      PROVE  TypeOK'
  <2>1. row' \in [Pubs -> Row]
    BY <1>5, WriteTyping DEF TypeOK, BatchWrite, Batches
  <2>2. batch' \in Batches
    BY <1>5 DEF TypeOK, BatchWrite, Batches, Passed, AnyAbstract
  <2> QED
    BY <1>5, <2>1, <2>2 DEF TypeOK, BatchWrite
<1>6. ASSUME NEW p \in Pubs, BatchError(p)
      PROVE  TypeOK'
  <2>1. row' \in [Pubs -> Row] /\ late' \subseteq LateWrites
    BY <1>6, BrokenWriteTyping DEF TypeOK, BatchError, Batches
  <2>2. batch' \in Batches
    BY <1>6 DEF TypeOK, BatchError, Batches, Skipped, Passed, AnyAbstract
  <2> QED
    BY <1>6, <2>1, <2>2 DEF TypeOK, BatchError
<1>7. ASSUME NEW w \in late, LateWriteLands(w)
      PROVE  TypeOK'
  <2>1. w \in LateWrites
    BY DEF TypeOK
  <2>2. row' \in [Pubs -> Row]
    BY <1>7, <2>1, WriteTyping DEF TypeOK, LateWriteLands, LateWrites
  <2> QED
    BY <1>7, <2>2 DEF TypeOK, LateWriteLands
<1>8. ASSUME NEW p \in Pubs, NEW a \in Abstracts \cup {NoText}, NEW d \in BOOLEAN,
             UpsertFind(p, a, d)
      PROVE  TypeOK'
  BY <1>8 DEF TypeOK, UpsertFind, Upserts
<1>9. ASSUME UpsertUpdate
      PROVE  TypeOK'
  <2>1. ingest \in Upserts
    BY <1>9 DEF TypeOK, UpsertUpdate, NoUpsert
  <2>2. SafeUpdate(row[ingest.pub], ingest.abstract) \in Row
    BY <1>9, <2>1, RowTyping DEF TypeOK, UpsertUpdate, Upserts, AnyAbstract
  <2> QED
    BY <1>9, <2>1, <2>2 DEF TypeOK, UpsertUpdate, Upserts
<1>10. ASSUME UpsertCreate
       PROVE  TypeOK'
  <2>1. ingest \in Upserts
    BY <1>10 DEF TypeOK, UpsertCreate, NoUpsert
  <2>2. DraftStatus \in EditorialStates /\ ingest.abstract \in AnyAbstract
    BY <2>1 DEF DraftStatus, EditorialStates, Upserts, AnyAbstract
  <2>3. NewRow(DraftStatus, ingest.abstract,
               IF ingest.draft /\ ingest.abstract # NoText
               THEN AiSummary(ingest.abstract) ELSE NoSummary) \in Row
    BY <2>2, NewRowTyping
  <2> QED
    BY <1>10, <2>3 DEF TypeOK, UpsertCreate
<1>11. ASSUME UpsertFails
       PROVE  TypeOK'
  BY <1>11 DEF TypeOK, UpsertFails
<1> QED
  BY <1>1, <1>2, <1>3, <1>4, <1>5, <1>6, <1>7, <1>8, <1>9, <1>10, <1>11
  DEF PipelineStep, BatchStep

(* The collection, its requests and its pipelines always hold the values   *)
(* the fields allow: the status is one of the select's options, and so on. *)
THEOREM TypeCorrect == Spec => []TypeOK
<1>1. Init => TypeOK
  <2> SUFFICES ASSUME Init PROVE TypeOK
    OBVIOUS
  <2>1. NoBatch \in Batches
    BY DEF NoBatch, Batches, AnyAbstract
  <2> QED
    BY <2>1, NewRowTyping DEF Init, TypeOK
<1>2. TypeOK /\ [Next]_vars => TypeOK'
  <2> SUFFICES ASSUME TypeOK, [Next]_vars PROVE TypeOK'
    OBVIOUS
  <2>1. CASE UNCHANGED vars
    BY <2>1 DEF vars, TypeOK
  <2> QED
    BY <2>1, EditorTyping, PipelineTyping DEF Next
<1> QED
  BY <1>1, <1>2, PTL DEF Spec

----------------------------------------------------------------------------
(* Labels.  What a pipeline holds between its read and its write is a real *)
(* abstract, so what it will label "generated" is about one.               *)
SourcesAreReal ==
    /\ \A j \in Jobs : job[j].pc = "writing" => job[j].from \in Abstracts
    /\ \A p \in batch.todo : batch.from[p] \in Abstracts
    /\ \A w \in late : w.from \in Abstracts

LabelInv == SourcesAreReal /\ LabelsAreHonest

(* A save's afterChange hook starts jobs, it does not touch their sources. *)
LEMMA AutoProcessKeepsSources ==
    ASSUME TypeOK, SourcesAreReal, NEW p \in Pubs, NEW r, AutoProcess(p, r)
    PROVE  \A j \in Jobs : job'[j].pc = "writing" => job'[j].from \in Abstracts
BY DEF TypeOK, SourcesAreReal, AutoProcess, NoJob

LEMMA WriteKeepsLabels ==
    ASSUME TypeOK, LabelsAreHonest, NEW p \in Pubs, NEW a \in Abstracts, WriteGenerated(p, a)
    PROVE  LabelsAreHonest'
BY DEF TypeOK, Row, LabelsAreHonest, WriteGenerated, AiSummary

LEMMA BrokenWriteKeepsLabels ==
    ASSUME TypeOK, LabelInv, NEW p \in Pubs, NEW a \in Abstracts, NEW n \in Nat,
           BrokenWrite(p, a, n)
    PROVE  LabelsAreHonest' /\ \A w \in late' : w.from \in Abstracts
<1>1. CASE UNCHANGED <<row, late>>
  BY <1>1 DEF LabelInv, SourcesAreReal, LabelsAreHonest
<1>2. CASE Stored(row[p]) /\ WriteGenerated(p, a) /\ UNCHANGED late
  BY <1>2, WriteKeepsLabels DEF LabelInv, SourcesAreReal
<1>3. CASE /\ late' = late \cup {[pub |-> p, from |-> a, seen |-> n]}
           /\ UNCHANGED row
  BY <1>3 DEF LabelInv, SourcesAreReal, LabelsAreHonest
<1> QED
  BY <1>1, <1>2, <1>3 DEF BrokenWrite

(* A save by hand either says what it did or is marked as one that did not. *)
Honest(sum) ==
    /\ sum.author = "ai" => sum.from \in Abstracts
    /\ ~sum.apart /\ sum.label = "generated" => sum.author = "ai"
    /\ ~sum.apart /\ sum.label = "edited" => sum.author = "human"

LEMMA HandKeepsHonest ==
    ASSUME NEW sum \in Summary, Honest(sum), NEW w \in BOOLEAN, NEW l \in Labels
    PROVE  Honest(ByHand(sum, w, l))
BY DEF Honest, ByHand, Rewritten, Summary, Labels

LEMMA EditorKeepsLabels ==
    ASSUME TypeOK, LabelInv, EditorStep
    PROVE  LabelInv'
<1> USE RecordAssumption DEF LabelInv
<1>1. ASSUME NEW e \in Editors, NEW p \in Handled, NEW s \in Choices, BeginSave(e, p, s)
      PROVE  LabelInv'
  BY <1>1 DEF BeginSave, SourcesAreReal, LabelsAreHonest
<1>2. ASSUME NEW p \in Handled, NEW s \in Choices, NEW a \in AnyAbstract, CreateByHand(p, s, a)
      PROVE  LabelInv'
  <2>1. SourcesAreReal'
    BY <1>2, AutoProcessKeepsSources DEF CreateByHand, Store, SourcesAreReal
  <2>2. LabelsAreHonest'
    BY <1>2 DEF CreateByHand, Store, TypeOK, LabelsAreHonest, NewRow, NoSummary
  <2> QED
    BY <2>1, <2>2
<1>3. ASSUME NEW e \in Editors, NEW p \in Handled, CommitSave(e, p)
      PROVE  LabelInv'
  <2>1. SourcesAreReal'
    BY <1>3, AutoProcessKeepsSources DEF CommitSave, Store, SourcesAreReal
  <2>2. LabelsAreHonest'
    BY <1>3 DEF CommitSave, Store, TypeOK, Row, LabelsAreHonest, Saved
  <2> QED
    BY <2>1, <2>2
<1>4. ASSUME NEW e \in Editors, FailSave(e)
      PROVE  LabelInv'
  BY <1>4 DEF FailSave, SourcesAreReal, LabelsAreHonest
<1>5. ASSUME NEW p \in Handled, NEW w \in BOOLEAN, NEW l \in Labels, EditSummary(p, w, l)
      PROVE  LabelInv'
  <2>1. SourcesAreReal'
    BY <1>5, AutoProcessKeepsSources DEF EditSummary, Store, SourcesAreReal
  <2>2. LabelsAreHonest'
    <3>1. p \in Pubs /\ row[p].summary \in Summary /\ Honest(row[p].summary)
      BY DEF TypeOK, Row, LabelsAreHonest, Honest
    <3>2. Honest(ByHand(row[p].summary, w, l))
      BY <3>1, HandKeepsHonest
    <3>3. row' = [row EXCEPT ![p] = [row[p] EXCEPT !.summary = ByHand(row[p].summary, w, l)]]
      BY <1>5 DEF EditSummary, Store
    <3>4. /\ row'[p].summary = ByHand(row[p].summary, w, l)
          /\ \A q \in Pubs \ {p} : row'[q] = row[q]
      BY <3>1, <3>3 DEF TypeOK, Row
    <3> QED
      BY <3>1, <3>2, <3>4 DEF LabelsAreHonest, Honest
  <2> QED
    BY <2>1, <2>2
<1>7. ASSUME NEW p \in Handled, DeleteRecord(p)
      PROVE  LabelInv'
  BY <1>7 DEF DeleteRecord, TypeOK, SourcesAreReal, LabelsAreHonest, NoRow, NoSummary
<1>8. ASSUME NEW p \in Handled, NEW a \in AnyAbstract, EditAbstract(p, a)
      PROVE  LabelInv'
  <2>1. SourcesAreReal'
    BY <1>8, AutoProcessKeepsSources DEF EditAbstract, Store, SourcesAreReal
  <2>2. LabelsAreHonest'
    BY <1>8 DEF EditAbstract, Store, TypeOK, Row, LabelsAreHonest
  <2> QED
    BY <2>1, <2>2
<1> QED
  BY <1>1, <1>2, <1>3, <1>4, <1>5, <1>7, <1>8 DEF EditorStep

LEMMA PipelineKeepsLabels ==
    ASSUME TypeOK, LabelInv, PipelineStep
    PROVE  LabelInv'
<1> USE RecordAssumption DEF LabelInv
<1>1. ASSUME NEW j \in Jobs, JobRead(j)
      PROVE  LabelInv'
  BY <1>1 DEF JobRead, TypeOK, SourcesAreReal, LabelsAreHonest, Summarisable, HasText, NoJob
<1>2. ASSUME NEW j \in Jobs, JobWrite(j)
      PROVE  LabelInv'
  <2>1. job[j].pub \in Pubs /\ job[j].from \in Abstracts
    BY <1>2 DEF JobWrite, TypeOK, JobStates, NoJob, SourcesAreReal
  <2>2. LabelsAreHonest'
    BY <1>2, <2>1, WriteKeepsLabels DEF JobWrite
  <2>3. SourcesAreReal'
    BY <1>2 DEF JobWrite, TypeOK, SourcesAreReal, NoJob
  <2> QED
    BY <2>2, <2>3
<1>3. ASSUME NEW j \in Jobs, JobDies(j)
      PROVE  LabelInv'
  <2>1. LabelsAreHonest' /\ \A w \in late' : w.from \in Abstracts
    <3>1. CASE job[j].pc = "writing"
      <4>1. job[j].pub \in Pubs /\ job[j].from \in Abstracts /\ job[j].seen \in Nat
        BY <1>3, <3>1 DEF JobDies, TypeOK, JobStates, NoJob, SourcesAreReal
      <4> QED
        BY <1>3, <3>1, <4>1, BrokenWriteKeepsLabels DEF JobDies
    <3>2. CASE job[j].pc # "writing"
      BY <1>3, <3>2 DEF JobDies, SourcesAreReal, LabelsAreHonest
    <3> QED
      BY <3>1, <3>2
  <2>2. SourcesAreReal'
    BY <1>3, <2>1 DEF JobDies, TypeOK, SourcesAreReal, NoJob
  <2> QED
    BY <2>1, <2>2
<1>4. ASSUME NEW found \in SUBSET Pubs, BatchStart(found)
      PROVE  LabelInv'
  BY <1>4 DEF BatchStart, TypeOK, SourcesAreReal, LabelsAreHonest, HasText
<1>5. ASSUME NEW p \in Pubs, BatchWrite(p)
      PROVE  LabelInv'
  <2>1. LabelsAreHonest'
    BY <1>5, WriteKeepsLabels DEF BatchWrite, SourcesAreReal
  <2>2. SourcesAreReal'
    BY <1>5 DEF BatchWrite, TypeOK, Batches, Passed, SourcesAreReal
  <2> QED
    BY <2>1, <2>2
<1>6. ASSUME NEW p \in Pubs, BatchError(p)
      PROVE  LabelInv'
  <2>1. LabelsAreHonest' /\ \A w \in late' : w.from \in Abstracts
    BY <1>6, BrokenWriteKeepsLabels DEF BatchError, TypeOK, Batches, SourcesAreReal
  <2>2. SourcesAreReal'
    BY <1>6, <2>1 DEF BatchError, TypeOK, Batches, Skipped, Passed, SourcesAreReal
  <2> QED
    BY <2>1, <2>2
<1>7. ASSUME NEW w \in late, LateWriteLands(w)
      PROVE  LabelInv'
  <2>1. w.pub \in Pubs /\ w.from \in Abstracts
    BY DEF TypeOK, LateWrites, SourcesAreReal
  <2>2. LabelsAreHonest'
    BY <1>7, <2>1, WriteKeepsLabels DEF LateWriteLands, LabelsAreHonest
  <2>3. SourcesAreReal'
    BY <1>7 DEF LateWriteLands, SourcesAreReal
  <2> QED
    BY <2>2, <2>3
<1>8. ASSUME NEW p \in Pubs, NEW a \in Abstracts \cup {NoText}, NEW d \in BOOLEAN,
             UpsertFind(p, a, d)
      PROVE  LabelInv'
  BY <1>8 DEF UpsertFind, SourcesAreReal, LabelsAreHonest
<1>9. ASSUME UpsertUpdate
      PROVE  LabelInv'
  BY <1>9 DEF UpsertUpdate, TypeOK, Row, SafeUpdate, SourcesAreReal, LabelsAreHonest
<1>10. ASSUME UpsertCreate
       PROVE  LabelInv'
  <2>1. ingest.abstract # NoText => ingest.abstract \in Abstracts
    BY <1>10 DEF UpsertCreate, TypeOK, Upserts, NoUpsert
  <2> QED
    BY <1>10, <2>1 DEF UpsertCreate, TypeOK, SourcesAreReal, LabelsAreHonest,
                       NewRow, NoSummary, AiSummary
<1>11. ASSUME UpsertFails
       PROVE  LabelInv'
  BY <1>11 DEF UpsertFails, SourcesAreReal, LabelsAreHonest
<1> QED
  BY <1>1, <1>2, <1>3, <1>4, <1>5, <1>6, <1>7, <1>8, <1>9, <1>10, <1>11
  DEF PipelineStep, BatchStep

(* Whatever the pipelines, upserts and late writes do, the label next to a *)
(* summary lies about who wrote it only where an editor's last save set    *)
(* the two apart; and a pipeline's text is about a real abstract.          *)
THEOREM LabelsHonest == Spec => []LabelsAreHonest
<1>1. Init => LabelInv
  BY DEF Init, LabelInv, SourcesAreReal, LabelsAreHonest, NoRow, NoSummary, NoJob, NoBatch
<1>2. TypeOK /\ LabelInv /\ [Next]_vars => LabelInv'
  <2> SUFFICES ASSUME TypeOK, LabelInv, [Next]_vars PROVE LabelInv'
    OBVIOUS
  <2>1. CASE UNCHANGED vars
    BY <2>1 DEF vars, LabelInv, SourcesAreReal, LabelsAreHonest
  <2> QED
    BY <2>1, EditorKeepsLabels, PipelineKeepsLabels DEF Next
<1>3. LabelInv => LabelsAreHonest
  BY DEF LabelInv
<1> QED
  BY <1>1, <1>2, <1>3, TypeCorrect, PTL DEF Spec
----------------------------------------------------------------------------
(* Edits.  A pipeline that holds what it read when the last labelled save  *)
(* was already there read the label "none", and none has come since.       *)
Fresh(p, seen) ==
    /\ seen <= edits[p]
    /\ seen = edits[p] => ~Protected(row[p].summary)

SnapshotInv ==
    /\ \A j \in Jobs : job[j].pc = "writing" => Fresh(job[j].pub, job[j].seen)
    /\ \A p \in batch.todo : Fresh(p, batch.seen[p])
    /\ \A w \in late : Fresh(w.pub, w.seen)

(* The same after the step, for a snapshot taken before it.                *)
FreshNext(p, seen) ==
    /\ seen <= edits'[p]
    /\ seen = edits'[p] => ~Protected(row'[p].summary)

(* A step that protects no summary without counting a labelled save, and   *)
(* never uncounts one, keeps every snapshot as fresh as it was.            *)
Harmless ==
    \A p \in Pubs :
        /\ edits'[p] \in Nat /\ edits[p] <= edits'[p]
        /\ Protected(row'[p].summary) /\ ~Protected(row[p].summary)
              => edits[p] < edits'[p]

LEMMA HarmlessKeepsFresh ==
    ASSUME TypeOK, Harmless
    PROVE  \A p \in Pubs, n \in Nat : Fresh(p, n) => FreshNext(p, n)
<1> SUFFICES ASSUME NEW p \in Pubs, NEW n \in Nat, Fresh(p, n)
             PROVE  FreshNext(p, n)
  OBVIOUS
<1>1. edits[p] \in Nat /\ edits'[p] \in Nat /\ edits[p] <= edits'[p] /\ n <= edits[p]
  BY DEF TypeOK, Harmless, Fresh
<1>2. CASE n = edits'[p]
  <2>1. n = edits[p] /\ ~(edits[p] < edits'[p])
    BY <1>1, <1>2
  <2>2. ~Protected(row[p].summary)
    BY <2>1 DEF Fresh
  <2>3. ~Protected(row'[p].summary)
    BY <2>1, <2>2 DEF Harmless
  <2> QED
    BY <1>1, <1>2, <2>3 DEF FreshNext
<1>3. CASE n # edits'[p]
  BY <1>1, <1>3 DEF FreshNext
<1> QED
  BY <1>2, <1>3

LEMMA WriteIsHarmless ==
    ASSUME TypeOK, NEW p \in Pubs, NEW a, WriteGenerated(p, a), UNCHANGED edits
    PROVE  Harmless
BY DEF TypeOK, Row, WriteGenerated, AiSummary, Harmless, Protected

LEMMA AutoProcessKeepsFresh ==
    ASSUME TypeOK, Harmless, SnapshotInv, NEW p \in Pubs, NEW r, AutoProcess(p, r)
    PROVE  \A j \in Jobs : job'[j].pc = "writing" => FreshNext(job'[j].pub, job'[j].seen)
<1> SUFFICES ASSUME NEW j \in Jobs, job'[j].pc = "writing"
             PROVE  FreshNext(job'[j].pub, job'[j].seen)
  OBVIOUS
<1>1. job'[j] = job[j]
  BY DEF AutoProcess, TypeOK, NoJob
<1>2. job[j] \in JobStates
  BY <1>1 DEF TypeOK, NoJob
<1> QED
  BY <1>1, <1>2, HarmlessKeepsFresh DEF SnapshotInv, JobStates

LEMMA EditorIsHarmless ==
    ASSUME TypeOK, EditorStep
    PROVE  Harmless
<1> USE RecordAssumption
<1>1. ASSUME NEW e \in Editors, NEW p \in Handled, NEW s \in Choices, BeginSave(e, p, s)
      PROVE  Harmless
  BY <1>1 DEF BeginSave, TypeOK, Harmless
<1>2. ASSUME NEW p \in Handled, NEW s \in Choices, NEW a \in AnyAbstract, CreateByHand(p, s, a)
      PROVE  Harmless
  BY <1>2 DEF CreateByHand, Store, TypeOK, Harmless, NewRow, NoSummary, Protected
<1>3. ASSUME NEW e \in Editors, NEW p \in Handled, CommitSave(e, p)
      PROVE  Harmless
  BY <1>3 DEF CommitSave, Store, TypeOK, Row, Harmless, Saved
<1>4. ASSUME NEW e \in Editors, FailSave(e)
      PROVE  Harmless
  BY <1>4 DEF FailSave, TypeOK, Harmless
<1>5. ASSUME NEW p \in Handled, NEW w \in BOOLEAN, NEW l \in Labels, EditSummary(p, w, l)
      PROVE  Harmless
  <2>1. /\ row'[p].summary = ByHand(row[p].summary, w, l)
        /\ \A q \in Pubs \ {p} : row'[q] = row[q]
    BY <1>5 DEF EditSummary, Store, TypeOK, Row
  <2>2. l = "none" => ~Protected(row'[p].summary)
    BY <2>1 DEF ByHand, Rewritten, TypeOK, Row, Summary, Protected
  <2> QED
    BY <1>5, <2>1, <2>2 DEF EditSummary, TypeOK, Harmless
<1>7. ASSUME NEW p \in Handled, DeleteRecord(p)
      PROVE  Harmless
  BY <1>7 DEF DeleteRecord, TypeOK, Harmless, NoRow, NoSummary, Protected
<1>8. ASSUME NEW p \in Handled, NEW a \in AnyAbstract, EditAbstract(p, a)
      PROVE  Harmless
  BY <1>8 DEF EditAbstract, Store, TypeOK, Row, Harmless
<1> QED
  BY <1>1, <1>2, <1>3, <1>4, <1>5, <1>7, <1>8 DEF EditorStep

LEMMA EditorKeepsSnapshots ==
    ASSUME TypeOK, SnapshotInv, EditorStep
    PROVE  SnapshotInv'
<1> USE RecordAssumption
<1>1. Harmless
  BY EditorIsHarmless
<1>2. UNCHANGED <<batch, late>>
  BY DEF EditorStep, BeginSave, CreateByHand, CommitSave, FailSave, EditSummary,
         DeleteRecord, EditAbstract
<1>3. UNCHANGED job \/ \E p \in Pubs : AutoProcess(p, row'[p])
  <2>1. ASSUME NEW p \in Pubs, NEW r, Store(p, r)
        PROVE  AutoProcess(p, row'[p])
    BY <2>1 DEF Store, TypeOK
  <2> QED
    BY <2>1 DEF EditorStep, BeginSave, CreateByHand, CommitSave, FailSave, EditSummary,
                DeleteRecord, EditAbstract
<1>4. \A j \in Jobs : job'[j].pc = "writing" => FreshNext(job'[j].pub, job'[j].seen)
  <2>1. CASE UNCHANGED job
    <3>1. \A j \in Jobs : job[j].pc = "writing" => job[j].pub \in Pubs /\ job[j].seen \in Nat
      BY DEF TypeOK, JobStates, NoJob
    <3> QED
      BY <2>1, <3>1, <1>1, HarmlessKeepsFresh DEF SnapshotInv
  <2>2. ASSUME NEW p \in Pubs, AutoProcess(p, row'[p])
        PROVE  \A j \in Jobs : job'[j].pc = "writing" => FreshNext(job'[j].pub, job'[j].seen)
    BY <2>2, <1>1, AutoProcessKeepsFresh
  <2> QED
    BY <1>3, <2>1, <2>2
<1>5. \A p \in batch'.todo : FreshNext(p, batch'.seen[p])
  BY <1>1, <1>2, HarmlessKeepsFresh DEF SnapshotInv, TypeOK, Batches
<1>6. \A w \in late' : FreshNext(w.pub, w.seen)
  BY <1>1, <1>2, HarmlessKeepsFresh DEF SnapshotInv, TypeOK, LateWrites
<1> QED
  BY <1>4, <1>5, <1>6 DEF SnapshotInv, Fresh, FreshNext

LEMMA BrokenWriteKeepsLate ==
    ASSUME TypeOK, SnapshotInv, NEW p \in Pubs, NEW a, NEW n \in Nat, Fresh(p, n),
           BrokenWrite(p, a, n), UNCHANGED edits
    PROVE  Harmless /\ \A w \in late' : FreshNext(w.pub, w.seen)
<1>1. Harmless
  <2>1. CASE UNCHANGED row
    BY <2>1 DEF TypeOK, Harmless
  <2>2. CASE WriteGenerated(p, a)
    BY <2>2, WriteIsHarmless
  <2> QED
    BY <2>1, <2>2 DEF BrokenWrite
<1>2. \A w \in late' : w \in late \/ (w.pub = p /\ w.seen = n)
  BY DEF BrokenWrite
<1>3. \A w \in late : Fresh(w.pub, w.seen) /\ w.pub \in Pubs /\ w.seen \in Nat
  BY DEF SnapshotInv, TypeOK, LateWrites
<1> QED
  BY <1>1, <1>2, <1>3, HarmlessKeepsFresh

(* What the pipelines' own steps do to the snapshots, source by source.    *)
LEMMA OldSnapshots ==
    ASSUME TypeOK, SnapshotInv, Harmless
    PROVE  /\ \A j \in Jobs : job[j].pc = "writing" => FreshNext(job[j].pub, job[j].seen)
           /\ \A p \in batch.todo : FreshNext(p, batch.seen[p])
           /\ \A w \in late : FreshNext(w.pub, w.seen)
<1>1. \A j \in Jobs : job[j].pc = "writing" => job[j].pub \in Pubs /\ job[j].seen \in Nat
  BY DEF TypeOK, JobStates, NoJob
<1>2. \A p \in batch.todo : p \in Pubs /\ batch.seen[p] \in Nat
  BY DEF TypeOK, Batches
<1>3. \A w \in late : w.pub \in Pubs /\ w.seen \in Nat
  BY DEF TypeOK, LateWrites
<1> QED
  BY <1>1, <1>2, <1>3, HarmlessKeepsFresh DEF SnapshotInv
LEMMA PipelineKeepsSnapshots ==
    ASSUME TypeOK, SnapshotInv, PipelineStep
    PROVE  SnapshotInv'
<1> USE RecordAssumption
<1>1. ASSUME NEW j \in Jobs, JobRead(j)
      PROVE  SnapshotInv'
  <2>1. Harmless
    BY <1>1 DEF JobRead, TypeOK, Harmless
  <2>2. \A i \in Jobs : job'[i].pc = "writing" => FreshNext(job'[i].pub, job'[i].seen)
    <3> SUFFICES ASSUME NEW i \in Jobs, job'[i].pc = "writing"
                 PROVE  FreshNext(job'[i].pub, job'[i].seen)
      OBVIOUS
    <3>1. CASE i # j
      BY <1>1, <2>1, <3>1, OldSnapshots DEF JobRead, TypeOK
    <3>2. CASE i = j
      <4>1. job[j].pub \in Pubs
        BY <1>1 DEF JobRead, TypeOK, JobStates, NoJob
      <4>2. /\ Summarisable(row[job[j].pub])
            /\ job'[j].pub = job[j].pub /\ job'[j].seen = edits[job[j].pub]
        BY <1>1, <3>2 DEF JobRead, TypeOK, NoJob
      <4> QED
        BY <1>1, <3>2, <4>1, <4>2 DEF JobRead, TypeOK, Summarisable, FreshNext, Protected
    <3> QED
      BY <3>1, <3>2
  <2> QED
    BY <1>1, <2>1, <2>2, OldSnapshots DEF JobRead, SnapshotInv, Fresh, FreshNext
<1>2. ASSUME NEW j \in Jobs, JobWrite(j)
      PROVE  SnapshotInv'
  <2>1. Harmless
    BY <1>2, WriteIsHarmless DEF JobWrite, TypeOK, JobStates, NoJob
  <2>2. \A i \in Jobs : job'[i].pc = "writing" => job'[i] = job[i]
    BY <1>2 DEF JobWrite, TypeOK, NoJob
  <2> QED
    BY <1>2, <2>1, <2>2, OldSnapshots DEF JobWrite, SnapshotInv, Fresh, FreshNext
<1>3. ASSUME NEW j \in Jobs, JobDies(j)
      PROVE  SnapshotInv'
  <2>1. Harmless /\ \A w \in late' : FreshNext(w.pub, w.seen)
    <3>1. CASE job[j].pc = "writing"
      <4>1. job[j].pub \in Pubs /\ job[j].seen \in Nat /\ Fresh(job[j].pub, job[j].seen)
        BY <1>3, <3>1 DEF TypeOK, JobStates, NoJob, SnapshotInv
      <4> QED
        BY <1>3, <3>1, <4>1, BrokenWriteKeepsLate DEF JobDies
    <3>2. CASE job[j].pc # "writing"
      <4>1. Harmless
        BY <1>3, <3>2 DEF JobDies, TypeOK, Harmless
      <4> QED
        BY <1>3, <3>2, <4>1, OldSnapshots DEF JobDies
    <3> QED
      BY <3>1, <3>2
  <2>2. \A i \in Jobs : job'[i].pc = "writing" => job'[i] = job[i]
    BY <1>3 DEF JobDies, TypeOK, NoJob
  <2> QED
    BY <1>3, <2>1, <2>2, OldSnapshots DEF JobDies, SnapshotInv, Fresh, FreshNext
<1>4. ASSUME NEW found \in SUBSET Pubs, BatchStart(found)
      PROVE  SnapshotInv'
  <2>1. Harmless
    BY <1>4 DEF BatchStart, TypeOK, Harmless
  <2>2. \A p \in batch'.todo : FreshNext(p, batch'.seen[p])
    BY <1>4 DEF BatchStart, Candidates, TypeOK, FreshNext, Protected
  <2> QED
    BY <1>4, <2>1, <2>2, OldSnapshots DEF BatchStart, SnapshotInv, Fresh, FreshNext
<1>5. ASSUME NEW p \in Pubs, BatchWrite(p)
      PROVE  SnapshotInv'
  <2>1. Harmless
    BY <1>5, WriteIsHarmless DEF BatchWrite
  <2>2. \A q \in batch'.todo : q \in batch.todo /\ batch'.seen[q] = batch.seen[q]
    BY <1>5 DEF BatchWrite, TypeOK, Batches, Passed
  <2> QED
    BY <1>5, <2>1, <2>2, OldSnapshots DEF BatchWrite, SnapshotInv, Fresh, FreshNext
<1>6. ASSUME NEW p \in Pubs, BatchError(p)
      PROVE  SnapshotInv'
  <2>1. batch.seen[p] \in Nat /\ Fresh(p, batch.seen[p])
    BY <1>6 DEF BatchError, TypeOK, Batches, SnapshotInv
  <2>2. Harmless /\ \A w \in late' : FreshNext(w.pub, w.seen)
    BY <1>6, <2>1, BrokenWriteKeepsLate DEF BatchError
  <2>3. \A q \in batch'.todo : q \in batch.todo /\ batch'.seen[q] = batch.seen[q]
    BY <1>6 DEF BatchError, TypeOK, Batches, Skipped, Passed
  <2> QED
    BY <1>6, <2>2, <2>3, OldSnapshots DEF BatchError, SnapshotInv, Fresh, FreshNext
<1>7. ASSUME NEW w \in late, LateWriteLands(w)
      PROVE  SnapshotInv'
  <2>1. Harmless
    <3>1. CASE WriteGenerated(w.pub, w.from)
      BY <1>7, <3>1, WriteIsHarmless DEF LateWriteLands, TypeOK, LateWrites
    <3>2. CASE UNCHANGED row
      BY <1>7, <3>2 DEF LateWriteLands, TypeOK, Harmless
    <3> QED
      BY <1>7, <3>1, <3>2 DEF LateWriteLands
  <2> QED
    BY <1>7, <2>1, OldSnapshots DEF LateWriteLands, SnapshotInv, Fresh, FreshNext
<1>8. ASSUME UNCHANGED <<job, batch, late>>, Harmless
      PROVE  SnapshotInv'
  BY <1>8, OldSnapshots DEF SnapshotInv, Fresh, FreshNext
<1>9. ASSUME NEW p \in Pubs, NEW a \in Abstracts \cup {NoText}, NEW d \in BOOLEAN,
             UpsertFind(p, a, d)
      PROVE  SnapshotInv'
  BY <1>8, <1>9 DEF UpsertFind, TypeOK, Harmless
<1>10. ASSUME UpsertUpdate
       PROVE  SnapshotInv'
  BY <1>8, <1>10 DEF UpsertUpdate, SafeUpdate, TypeOK, Row, Harmless
<1>11. ASSUME UpsertCreate
       PROVE  SnapshotInv'
  BY <1>8, <1>11 DEF UpsertCreate, TypeOK, Harmless, NewRow, NoSummary, AiSummary, Protected
<1>12. ASSUME UpsertFails
       PROVE  SnapshotInv'
  BY <1>8, <1>12 DEF UpsertFails, TypeOK, Harmless
<1> QED
  BY <1>1, <1>2, <1>3, <1>4, <1>5, <1>6, <1>7, <1>9, <1>10, <1>11, <1>12
  DEF PipelineStep, BatchStep

(* What makes a protected summary another one under "generated".           *)
Regenerates(p) ==
    /\ Protected(row[p].summary) /\ row'[p].summary # row[p].summary
    /\ row'[p].summary.label = "generated" /\ edits'[p] = edits[p]

(* No save by hand does: one that leaves that label is counted.            *)
LEMMA EditorsDoNotGenerate ==
    ASSUME TypeOK, EditorStep, NEW p \in Pubs
    PROVE  ~Regenerates(p)
<1> SUFFICES ASSUME row'[p].summary # row[p].summary, row'[p].summary.label = "generated",
                    edits'[p] = edits[p]
             PROVE  FALSE
  BY DEF Regenerates
<1> USE RecordAssumption DEF TypeOK, Row
<1>1. ASSUME NEW e \in Editors, NEW q \in Handled, CommitSave(e, q)
      PROVE  FALSE
  BY <1>1 DEF CommitSave, Store, Saved
<1>2. ASSUME NEW q \in Handled, NEW s \in Choices, NEW a \in AnyAbstract, CreateByHand(q, s, a)
      PROVE  FALSE
  BY <1>2 DEF CreateByHand, Store, NewRow, NoSummary
<1>3. ASSUME NEW q \in Handled, NEW w \in BOOLEAN, NEW l \in Labels, EditSummary(q, w, l)
      PROVE  FALSE
  <2>1. q = p /\ row'[p].summary = ByHand(row[p].summary, w, l)
    BY <1>3 DEF EditSummary, Store
  <2>2. row'[p].summary.label = l
    BY <2>1 DEF ByHand, Rewritten, Summary
  <2> QED
    BY <1>3, <2>1, <2>2 DEF EditSummary
<1>4. ASSUME NEW q \in Handled, NEW a \in AnyAbstract, EditAbstract(q, a)
      PROVE  FALSE
  BY <1>4 DEF EditAbstract, Store
<1>5. ASSUME NEW q \in Handled, DeleteRecord(q)
      PROVE  FALSE
  BY <1>5 DEF DeleteRecord, NoRow, NoSummary
<1>6. CASE UNCHANGED row
  BY <1>6
<1> QED
  BY <1>1, <1>2, <1>3, <1>4, <1>5, <1>6 DEF EditorStep, BeginSave, FailSave

LEMMA StaleOverwritesOnly ==
    ASSUME TypeOK, SnapshotInv, PipelineStep, NEW p \in Pubs, Regenerates(p)
    PROVE  HoldsStale(p)
<1>0. Protected(row[p].summary) /\ row'[p].summary # row[p].summary /\ row' # row
  BY DEF Regenerates
<1>1. ASSUME NEW q \in Pubs, NEW a, NEW n \in Nat, WriteGenerated(q, a) \/ BrokenWrite(q, a, n),
             Fresh(q, n)
      PROVE  p = q /\ n < edits[p]
  BY <1>0, <1>1 DEF WriteGenerated, BrokenWrite, Fresh, TypeOK
<1>2. ASSUME NEW j \in Jobs, JobWrite(j) \/ JobDies(j)
      PROVE  HoldsStale(p)
  <2>1. job[j].pc = "writing" /\ job[j].pub \in Pubs /\ job[j].seen \in Nat
    BY <1>0, <1>2 DEF JobWrite, JobDies, TypeOK, JobStates, NoJob
  <2> QED
    BY <1>1, <1>2, <2>1 DEF JobWrite, JobDies, SnapshotInv, HoldsStale
<1>3. ASSUME NEW q \in Pubs, BatchWrite(q) \/ BatchError(q)
      PROVE  HoldsStale(p)
  BY <1>0, <1>1, <1>3 DEF BatchWrite, BatchError, TypeOK, Batches, SnapshotInv, HoldsStale
<1>4. ASSUME NEW w \in late, LateWriteLands(w)
      PROVE  HoldsStale(p)
  BY <1>0, <1>1, <1>4 DEF LateWriteLands, TypeOK, LateWrites, SnapshotInv, HoldsStale
<1>5. ~UpsertUpdate
  BY <1>0 DEF UpsertUpdate, SafeUpdate, TypeOK, Row
<1>6. ~UpsertCreate
  BY <1>0 DEF UpsertCreate, TypeOK, Row, NoRow, NoSummary, Protected
<1> QED
  BY <1>0, <1>2, <1>3, <1>4, <1>5, <1>6
  DEF PipelineStep, BatchStep, JobRead, BatchStart, UpsertFind, UpsertFails

(* A summary that its label protects is never replaced by a pipeline that  *)
(* could have seen it: only what was read before the save that protected   *)
(* it, whether that save wrote text, label or both, can still land on it.  *)
THEOREM SeenEditsAreKept == Spec => SeenEditsSurvive
<1>1. Init => SnapshotInv
  BY DEF Init, SnapshotInv, NoJob, NoBatch
<1>2. TypeOK /\ SnapshotInv /\ [Next]_vars => SnapshotInv'
  <2> SUFFICES ASSUME TypeOK, SnapshotInv, [Next]_vars PROVE SnapshotInv'
    OBVIOUS
  <2>1. CASE UNCHANGED vars
    BY <2>1 DEF vars, SnapshotInv, Fresh
  <2> QED
    BY <2>1, EditorKeepsSnapshots, PipelineKeepsSnapshots DEF Next
<1>3. TypeOK /\ SnapshotInv /\ [Next]_vars
        => [\A p \in Pubs : Regenerates(p) => HoldsStale(p)]_vars
  BY EditorsDoNotGenerate, StaleOverwritesOnly DEF Next
<1> QED
  BY <1>1, <1>2, <1>3, TypeCorrect, PTL DEF Spec, SeenEditsSurvive, Regenerates

----------------------------------------------------------------------------
(* The trail of decisions.  As long as its saves do not overlap, a record  *)
(* has at most one save under way, and what that save will write is what   *)
(* the hook would compute from the record as it is now.                    *)
TrailEnds ==
    \A p \in Pubs : Stored(row[p]) /\ ~overlapped[p] =>
        /\ row[p].history # << >>
        /\ row[p].history[Len(row[p].history)] = row[p].status

SavesAreAlone ==
    \A e, f \in Editors :
        /\ request[e].pub \in Pubs /\ request[f].pub = request[e].pub
        /\ ~overlapped[request[e].pub]
        => e = f

SavesAreCurrent ==
    \A e \in Editors :
        request[e].pub \in Pubs =>
          /\ row[request[e].pub].status # "absent"
          /\ Stored(row[request[e].pub]) /\ ~overlapped[request[e].pub] =>
               /\ request[e].recorded = (request[e].status # row[request[e].pub].status)
               /\ request[e].history = Decided(row[request[e].pub], request[e].status)

TrailInv == TrailEnds /\ SavesAreAlone /\ SavesAreCurrent

(* Steps that leave status, history and requests alone.                    *)
TrailUntouched ==
    /\ \A p \in Pubs : row'[p].status = row[p].status /\ row'[p].history = row[p].history
    /\ UNCHANGED <<request, overlapped>>

LEMMA UntouchedKeepsTrail ==
    ASSUME TypeOK, TrailInv, TrailUntouched
    PROVE  TrailInv'
<1>1. TrailEnds'
  BY DEF TrailInv, TrailEnds, TrailUntouched, Stored
<1>2. SavesAreAlone'
  BY DEF TrailInv, SavesAreAlone, TrailUntouched
<1>3. SavesAreCurrent'
  BY DEF TrailInv, SavesAreCurrent, TrailUntouched, Stored, Decided
<1> QED
  BY <1>1, <1>2, <1>3 DEF TrailInv

(* A decision appends at most one entry, and the last is the new status.   *)
LEMMA DecisionEndsTrail ==
    ASSUME NEW r \in Row, NEW s \in EditorialStates, Stored(r),
           r.history # << >>, r.history[Len(r.history)] = r.status
    PROVE  /\ Decided(r, s) # << >>
           /\ Decided(r, s)[Len(Decided(r, s))] = s
BY DEF Row, History, Stored, Decided

LEMMA DecisionExtends ==
    ASSUME NEW r \in Row, NEW s \in EditorialStates
    PROVE  Extends(r.history, r.history) /\ Extends(Decided(r, s), r.history)
<1>1. r.history \in Seq(EditorialStates)
  BY DEF Row, History
<1>2. Extends(r.history, r.history)
  BY <1>1 DEF Extends
<1>3. Extends(Append(r.history, s), r.history)
  BY <1>1 DEF Extends
<1> QED
  BY <1>2, <1>3 DEF Decided

(* A record that appears has the one entry its hook writes.                *)
LEMMA NewRecordKeepsTrail ==
    ASSUME TypeOK, TrailInv, NEW p \in Pubs, NEW s \in EditorialStates, NEW a, NEW sum,
           row[p] = NoRow, row' = [row EXCEPT ![p] = NewRow(s, a, sum)],
           UNCHANGED <<request, overlapped>>
    PROVE  TrailInv'
<1>1. /\ row'[p].status = s /\ row'[p].history = <<s>>
      /\ \A q \in Pubs : q # p => row'[q] = row[q]
  BY DEF TypeOK, NewRow
<1>2. \A e \in Editors : request[e].pub # p
  BY DEF TrailInv, SavesAreCurrent, NoRow
<1>3. TrailEnds'
  <2>1. <<s>> # << >> /\ <<s>>[Len(<<s>>)] = s
    OBVIOUS
  <2> QED
    BY <1>1, <2>1 DEF TrailInv, TrailEnds, Stored
<1>4. SavesAreAlone'
  BY DEF TrailInv, SavesAreAlone
<1>5. SavesAreCurrent'
  BY <1>1, <1>2 DEF TrailInv, SavesAreCurrent
<1> QED
  BY <1>3, <1>4, <1>5 DEF TrailInv

LEMMA BeginKeepsTrail ==
    ASSUME TypeOK, TrailInv, NEW e \in Editors, NEW p \in Pubs, NEW s \in EditorialStates,
           BeginSave(e, p, s)
    PROVE  TrailInv'
<1> USE RecordAssumption
<1>1. /\ request'[e] = [pub |-> p, status |-> s, recorded |-> s # row[p].status,
                        history |-> Decided(row[p], s)]
      /\ \A f \in Editors : f # e => request'[f] = request[f]
  BY DEF BeginSave, TypeOK
<1>2. /\ \A q \in Pubs : overlapped[q] => overlapped'[q]
      /\ ~overlapped'[p] => \A f \in Editors : request[f].pub # p
  BY DEF BeginSave, TypeOK
<1>3. TrailEnds'
  BY <1>2 DEF BeginSave, TrailInv, TrailEnds
<1>4. SavesAreAlone'
  BY <1>1, <1>2 DEF TrailInv, SavesAreAlone
<1>5. SavesAreCurrent'
  <2>1. row[p].status # "absent"
    BY DEF BeginSave, Stored, EditorialStates
  <2> QED
    BY <1>1, <1>2, <2>1 DEF BeginSave, TrailInv, SavesAreCurrent
<1> QED
  BY <1>3, <1>4, <1>5 DEF TrailInv

(* What a save that is alone writes.                                       *)
LEMMA AloneSaveIsCurrent ==
    ASSUME TypeOK, TrailInv, NEW e \in Editors, NEW p \in Pubs, CommitSave(e, p)
    PROVE  /\ request[e].status \in EditorialStates
           /\ row'[p].status = request[e].status
           /\ \A q \in Pubs : q # p => row'[q] = row[q]
           /\ ~overlapped[p] => row'[p].history = Decided(row[p], request[e].status)
<1>1. request[e] \in Requests
  BY RecordAssumption DEF TypeOK, CommitSave, NoRequest
<1>2. row' = [row EXCEPT ![p] = Saved(row[p], request[e])] /\ row[p] \in Row
  BY DEF CommitSave, Store, TypeOK
<1>3. /\ Saved(row[p], request[e]).status = request[e].status
      /\ Saved(row[p], request[e]).history
           = IF request[e].recorded THEN request[e].history ELSE row[p].history
  BY <1>2 DEF Saved, Row
<1>4. ASSUME ~overlapped[p]
      PROVE  Saved(row[p], request[e]).history = Decided(row[p], request[e].status)
  BY <1>3, <1>4 DEF CommitSave, TrailInv, SavesAreCurrent, Decided
<1> QED
  BY <1>1, <1>2, <1>3, <1>4 DEF TypeOK, Requests

LEMMA CommitKeepsTrail ==
    ASSUME TypeOK, TrailInv, NEW e \in Editors, NEW p \in Pubs, CommitSave(e, p)
    PROVE  TrailInv'
<1> USE RecordAssumption
<1>1. /\ request[e].status \in EditorialStates
      /\ row'[p].status = request[e].status
      /\ \A q \in Pubs : q # p => row'[q] = row[q]
      /\ ~overlapped[p] => row'[p].history = Decided(row[p], request[e].status)
  BY AloneSaveIsCurrent
<1>2. /\ request'[e] = NoRequest
      /\ \A f \in Editors : f # e => request'[f] = request[f]
      /\ overlapped' = overlapped
  BY DEF CommitSave, TypeOK
<1>3. TrailEnds'
  <2>1. ASSUME ~overlapped[p]
        PROVE  row'[p].history # << >> /\ row'[p].history[Len(row'[p].history)] = row'[p].status
    <3>1. row[p] \in Row /\ Stored(row[p])
      BY DEF TypeOK, CommitSave
    <3>2. row[p].history # << >> /\ row[p].history[Len(row[p].history)] = row[p].status
      BY <2>1, <3>1 DEF TrailInv, TrailEnds
    <3> QED
      BY <1>1, <2>1, <3>1, <3>2, DecisionEndsTrail
  <2> QED
    BY <1>1, <1>2, <2>1 DEF TrailInv, TrailEnds
<1>4. SavesAreAlone'
  BY <1>2 DEF TrailInv, SavesAreAlone, NoRequest
<1>5. SavesAreCurrent'
  <2> SUFFICES ASSUME NEW f \in Editors, request'[f].pub \in Pubs
               PROVE  /\ row'[request'[f].pub].status # "absent"
                      /\ Stored(row'[request'[f].pub]) /\ ~overlapped'[request'[f].pub] =>
                           /\ request'[f].recorded
                                = (request'[f].status # row'[request'[f].pub].status)
                           /\ request'[f].history
                                = Decided(row'[request'[f].pub], request'[f].status)
    BY DEF SavesAreCurrent
  <2>1. f # e /\ request'[f] = request[f]
    BY <1>2 DEF NoRequest
  <2>2. CASE request[f].pub = p
    <3>1. overlapped[p]
      BY <2>1, <2>2 DEF TrailInv, SavesAreAlone, CommitSave
    <3>2. row'[p].status # "absent"
      BY <1>1 DEF EditorialStates
    <3> QED
      BY <1>2, <2>1, <2>2, <3>1, <3>2
  <2>3. CASE request[f].pub # p
    BY <1>1, <1>2, <2>1, <2>3 DEF TrailInv, SavesAreCurrent
  <2> QED
    BY <2>2, <2>3
<1> QED
  BY <1>3, <1>4, <1>5 DEF TrailInv

LEMMA EditorKeepsTrail ==
    ASSUME TypeOK, TrailInv, EditorStep
    PROVE  TrailInv'
<1> USE RecordAssumption
<1>1. ASSUME NEW e \in Editors, NEW p \in Handled, NEW s \in Choices, BeginSave(e, p, s)
      PROVE  TrailInv'
  BY <1>1, BeginKeepsTrail
<1>2. ASSUME NEW p \in Handled, NEW s \in Choices, NEW a \in AnyAbstract, CreateByHand(p, s, a)
      PROVE  TrailInv'
  BY <1>2, NewRecordKeepsTrail DEF CreateByHand, Store
<1>3. ASSUME NEW e \in Editors, NEW p \in Handled, CommitSave(e, p)
      PROVE  TrailInv'
  BY <1>3, CommitKeepsTrail
<1>4. ASSUME NEW e \in Editors, FailSave(e)
      PROVE  TrailInv'
  <2>1. /\ request'[e] = NoRequest
        /\ \A f \in Editors : f # e => request'[f] = request[f]
        /\ UNCHANGED <<row, overlapped>>
    BY <1>4 DEF FailSave, TypeOK
  <2>2. TrailEnds'
    BY <2>1 DEF TrailInv, TrailEnds
  <2>3. SavesAreAlone'
    BY <2>1 DEF TrailInv, SavesAreAlone, NoRequest
  <2>4. SavesAreCurrent'
    BY <2>1 DEF TrailInv, SavesAreCurrent, NoRequest
  <2> QED
    BY <2>2, <2>3, <2>4 DEF TrailInv
<1>5. ASSUME NEW p \in Handled, NEW w \in BOOLEAN, NEW l \in Labels, EditSummary(p, w, l)
      PROVE  TrailInv'
  BY <1>5, UntouchedKeepsTrail DEF EditSummary, Store, TypeOK, Row, TrailUntouched
<1>7. ASSUME NEW p \in Handled, DeleteRecord(p)
      PROVE  TrailInv'
  <2>1. /\ row'[p].status = "deleted"
        /\ \A q \in Pubs : q # p => row'[q] = row[q]
        /\ UNCHANGED <<request, overlapped>>
    BY <1>7 DEF DeleteRecord, TypeOK, NoRow
  <2>2. ~Stored(row'[p])
    BY <2>1 DEF Stored, EditorialStates
  <2>3. TrailEnds'
    BY <2>1, <2>2 DEF TrailInv, TrailEnds
  <2>4. SavesAreAlone'
    BY <2>1 DEF TrailInv, SavesAreAlone
  <2>5. SavesAreCurrent'
    BY <2>1, <2>2 DEF TrailInv, SavesAreCurrent
  <2> QED
    BY <2>3, <2>4, <2>5 DEF TrailInv
<1>8. ASSUME NEW p \in Handled, NEW a \in AnyAbstract, EditAbstract(p, a)
      PROVE  TrailInv'
  BY <1>8, UntouchedKeepsTrail DEF EditAbstract, Store, TypeOK, Row, TrailUntouched
<1> QED
  BY <1>1, <1>2, <1>3, <1>4, <1>5, <1>7, <1>8 DEF EditorStep

(* Pipelines decide nothing: they leave the trail alone, or start a record. *)
LEMMA PipelinesDoNotDecide ==
    ASSUME TypeOK, PipelineStep
    PROVE  TrailUntouched \/ UpsertCreate
<1>1. ASSUME NEW q \in Pubs, NEW a, NEW n, WriteGenerated(q, a) \/ BrokenWrite(q, a, n)
      PROVE  \A p \in Pubs : row'[p].status = row[p].status /\ row'[p].history = row[p].history
  BY <1>1 DEF WriteGenerated, BrokenWrite, TypeOK, Row
<1>2. ASSUME NEW j \in Jobs, JobRead(j) \/ JobWrite(j) \/ JobDies(j)
      PROVE  TrailUntouched
  <2>1. job[j].pc = "writing" => job[j].pub \in Pubs
    BY DEF TypeOK, JobStates, NoJob
  <2> QED
    BY <1>1, <1>2, <2>1 DEF JobRead, JobWrite, JobDies, TrailUntouched
<1>3. ASSUME NEW q \in Pubs, BatchWrite(q) \/ BatchError(q)
      PROVE  TrailUntouched
  BY <1>1, <1>3 DEF BatchWrite, BatchError, TrailUntouched
<1>4. ASSUME NEW w \in late, LateWriteLands(w)
      PROVE  TrailUntouched
  BY <1>1, <1>4 DEF LateWriteLands, TrailUntouched, TypeOK, LateWrites
<1>5. ASSUME UpsertUpdate
      PROVE  TrailUntouched
  BY <1>5 DEF UpsertUpdate, SafeUpdate, TypeOK, Row, TrailUntouched
<1>6. ASSUME UNCHANGED <<row, request, overlapped>>
      PROVE  TrailUntouched
  BY <1>6 DEF TrailUntouched
<1> QED
  BY <1>2, <1>3, <1>4, <1>5, <1>6 DEF PipelineStep, BatchStep, BatchStart, UpsertFind, UpsertFails

LEMMA PipelineKeepsTrail ==
    ASSUME TypeOK, TrailInv, PipelineStep
    PROVE  TrailInv'
<1>1. CASE TrailUntouched
  BY <1>1, UntouchedKeepsTrail
<1>2. CASE UpsertCreate
  <2>1. ingest.pub \in Pubs
    BY <1>2 DEF UpsertCreate, TypeOK, Upserts, NoUpsert
  <2>2. DraftStatus \in EditorialStates
    BY DEF DraftStatus, EditorialStates
  <2> QED
    BY <1>2, <2>1, <2>2, NewRecordKeepsTrail DEF UpsertCreate
<1> QED
  BY <1>1, <1>2, PipelinesDoNotDecide

LEMMA TrailInvariant == Spec => []TrailInv
<1>1. Init => TrailInv
  <2>1. Init => \A p \in Pubs : ~Stored(row[p])
    BY DEF Init, NoRow, Stored, EditorialStates
  <2> QED
    BY <2>1, RecordAssumption
    DEF Init, TrailInv, TrailEnds, SavesAreAlone, SavesAreCurrent, NoRequest
<1>2. TypeOK /\ TrailInv /\ [Next]_vars => TrailInv'
  <2> SUFFICES ASSUME TypeOK, TrailInv, [Next]_vars PROVE TrailInv'
    OBVIOUS
  <2>1. CASE UNCHANGED vars
    BY <2>1, UntouchedKeepsTrail DEF vars, TrailUntouched
  <2> QED
    BY <2>1, EditorKeepsTrail, PipelineKeepsTrail DEF Next
<1> QED
  BY <1>1, <1>2, TypeCorrect, PTL DEF Spec

(* The last entry of the trail is the status of the record, as long as its *)
(* saves never overlapped.                                                 *)
THEOREM TrailExact == Spec => []TrailIsExact
<1>1. TrailInv => TrailIsExact
  BY DEF TrailInv, TrailEnds, TrailIsExact
<1> QED
  BY <1>1, TrailInvariant, PTL

LEMMA StepExtendsTrail ==
    ASSUME TypeOK, TrailInv, Next, NEW p \in Pubs,
           Stored(row[p]), row'[p].status # "deleted", ~overlapped[p]
    PROVE  Extends(row'[p].history, row[p].history)
<1> USE RecordAssumption
<1>1. row[p] \in Row
  BY DEF TypeOK
<1>2. CASE row'[p].history = row[p].history
  BY <1>1, <1>2, DecisionExtends, RecordAssumption DEF EditorialStates
<1>3. ASSUME NEW e \in Editors, NEW q \in Handled, CommitSave(e, q)
      PROVE  Extends(row'[p].history, row[p].history)
  <2>1. q \in Pubs
    OBVIOUS
  <2>2. CASE p = q
    BY <1>1, <1>3, <2>1, <2>2, AloneSaveIsCurrent, DecisionExtends
  <2>3. CASE p # q
    BY <1>2, <1>3, <2>1, <2>3, AloneSaveIsCurrent
  <2> QED
    BY <2>2, <2>3
<1>4. ASSUME NEW q \in Handled, NEW w \in BOOLEAN, NEW l \in Labels,
             EditSummary(q, w, l) \/ DeleteRecord(q)
      PROVE  row'[p].history = row[p].history
  <2>1. CASE q # p
    BY <1>4, <2>1 DEF EditSummary, DeleteRecord, Store, TypeOK
  <2>2. CASE q = p
    <3>1. ~DeleteRecord(p)
      BY DEF DeleteRecord, TypeOK, NoRow
    <3>2. EditSummary(p, w, l) => row'[p].history = row[p].history
      BY <1>1 DEF EditSummary, Store, TypeOK, Row
    <3> QED
      BY <1>4, <2>2, <3>1, <3>2
  <2> QED
    BY <2>1, <2>2
<1>5. ASSUME NEW q \in Handled, NEW a \in AnyAbstract, EditAbstract(q, a)
      PROVE  row'[p].history = row[p].history
  BY <1>5 DEF EditAbstract, Store, TypeOK, Row
<1>6. ASSUME NEW q \in Handled, NEW s \in Choices, NEW a \in AnyAbstract, CreateByHand(q, s, a)
      PROVE  row'[p].history = row[p].history
  <2>1. q # p
    BY <1>6 DEF CreateByHand, NoRow, Stored, EditorialStates
  <2> QED
    BY <1>6, <2>1 DEF CreateByHand, Store, TypeOK
<1>7. CASE EditorStep
  <2>1. ASSUME NEW q \in Handled, DeleteRecord(q)
        PROVE  row'[p].history = row[p].history
    BY <1>4, <2>1 DEF Labels
  <2> QED
    BY <1>2, <1>3, <1>4, <1>5, <1>6, <1>7, <2>1 DEF EditorStep, BeginSave, FailSave
<1>8. CASE PipelineStep
  <2>1. UpsertCreate => row'[p] = row[p]
    BY DEF UpsertCreate, NoRow, Stored, EditorialStates, TypeOK
  <2> QED
    BY <1>2, <1>8, <2>1, PipelinesDoNotDecide DEF TrailUntouched
<1> QED
  BY <1>7, <1>8 DEF Next

(* No step of anybody rewrites or drops a decision of such a record.       *)
THEOREM TrailAppendOnly == Spec => TrailIsAppendOnly
<1>1. TypeOK /\ TrailInv /\ [Next]_vars
        => [\A p \in Pubs : Stored(row[p]) /\ row'[p].status # "deleted" /\ ~overlapped[p] =>
              Extends(row'[p].history, row[p].history)]_vars
  BY StepExtendsTrail
<1> QED
  BY <1>1, TypeCorrect, TrailInvariant, PTL DEF Spec, TrailIsAppendOnly

----------------------------------------------------------------------------
(* The editorial promise.  The pipelines and the saves without a status    *)
(* leave the abstract state alone; every other step is one of the promise. *)

LEMMA PromiseInitially == Init => Editorial!PromiseInit
BY DEF Init, Statuses, Asked, NoRow, NoRequest, Editorial!PromiseInit, Editorial!NoAsk

LEMMA UntouchedIsStutter ==
    ASSUME TrailUntouched
    PROVE  UNCHANGED <<Statuses, Asked>>
BY DEF TrailUntouched, Statuses, Asked

LEMMA RequestAsks ==
    ASSUME TypeOK, NEW e \in Editors
    PROVE  request[e] = NoRequest <=> Asked[e] = Editorial!NoAsk
<1>1. request[e] # NoRequest => request[e].pub # "none"
  BY RecordAssumption DEF TypeOK, Requests
<1> QED
  BY <1>1 DEF Asked, NoRequest, Editorial!NoAsk

LEMMA StatusOfRow ==
    ASSUME NEW p \in Pubs
    PROVE  /\ Statuses[p] = row[p].status
           /\ Stored(row[p]) <=> Editorial!Live(p)
BY DEF Statuses, Stored, Editorial!Live

(* What a changed row or request is to the promise.                        *)
LEMMA StatusesAfter ==
    ASSUME TypeOK, NEW p \in Pubs, \A q \in Pubs \ {p} : row'[q].status = row[q].status
    PROVE  Statuses' = [Statuses EXCEPT ![p] = row'[p].status]
BY DEF TypeOK, Statuses

LEMMA AskedAfter ==
    ASSUME TypeOK, NEW e \in Editors, NEW q, request' = [request EXCEPT ![e] = q]
    PROVE  Asked' = [Asked EXCEPT ![e] = [pub |-> q.pub, status |-> q.status]]
BY DEF TypeOK, Asked

LEMMA EditorsKeepPromise ==
    ASSUME TypeOK, EditorStep
    PROVE  Editorial!PromiseNext \/ UNCHANGED <<Statuses, Asked>>
<1> USE RecordAssumption
<1>1. ASSUME NEW e \in Editors, NEW p \in Handled, NEW s \in Choices, BeginSave(e, p, s)
      PROVE  Editorial!Ask(e, p, s)
  <2>1. Asked' = [Asked EXCEPT ![e] = [pub |-> p, status |-> s]]
    BY <1>1, AskedAfter DEF BeginSave
  <2>2. Statuses' = Statuses
    BY <1>1 DEF BeginSave, Statuses
  <2> QED
    BY <1>1, <2>1, <2>2, RequestAsks, StatusOfRow
    DEF BeginSave, Editorial!Ask
<1>2. ASSUME NEW p \in Handled, NEW s \in Choices, NEW a \in AnyAbstract, CreateByHand(p, s, a)
      PROVE  Editorial!Author(p, s)
  <2>0. row' = [row EXCEPT ![p] = NewRow(s, a, NoSummary)] /\ p \in Pubs
    BY <1>2 DEF CreateByHand, Store
  <2>1. Statuses' = [Statuses EXCEPT ![p] = s]
    BY <2>0, StatusesAfter DEF NewRow, TypeOK
  <2>2. Statuses[p] = "absent" /\ Asked' = Asked
    BY <1>2, StatusOfRow DEF CreateByHand, NoRow, Asked
  <2> QED
    BY <2>1, <2>2 DEF Editorial!Author
<1>3. ASSUME NEW e \in Editors, NEW p \in Handled, CommitSave(e, p)
      PROVE  request[e].status \in EditorialStates
             /\ Editorial!Decide(e, p, request[e].status)
  <2>1. request[e] \in Requests
    BY <1>3 DEF TypeOK, CommitSave, NoRequest
  <2>0. row' = [row EXCEPT ![p] = Saved(row[p], request[e])] /\ p \in Pubs
    BY <1>3 DEF CommitSave, Store
  <2>2. Statuses' = [Statuses EXCEPT ![p] = request[e].status]
    BY <2>0, StatusesAfter DEF Saved, TypeOK, Row
  <2>3. Asked' = [Asked EXCEPT ![e] = Editorial!NoAsk]
    BY <1>3, AskedAfter DEF CommitSave, NoRequest, Editorial!NoAsk
  <2>4. Asked[e] = [pub |-> p, status |-> request[e].status]
    BY <1>3 DEF CommitSave, Asked
  <2>5. Editorial!Live(p)
    BY <1>3, <2>0, StatusOfRow DEF CommitSave
  <2>6. request[e].status \in EditorialStates
    BY <2>1 DEF Requests
  <2> QED
    BY <2>2, <2>3, <2>4, <2>5, <2>6 DEF Editorial!Decide
<1>4. ASSUME NEW e \in Editors, FailSave(e)
      PROVE  Editorial!Decline(e)
  <2>1. Asked' = [Asked EXCEPT ![e] = Editorial!NoAsk]
    BY <1>4, AskedAfter DEF FailSave, NoRequest, Editorial!NoAsk
  <2>2. Statuses' = Statuses
    BY <1>4 DEF FailSave, Statuses
  <2> QED
    BY <1>4, <2>1, <2>2, RequestAsks DEF FailSave, Editorial!Decline
<1>5. ASSUME NEW p \in Handled, NEW w \in BOOLEAN, NEW l \in Labels, EditSummary(p, w, l)
      PROVE  TrailUntouched
  BY <1>5 DEF EditSummary, Store, TypeOK, Row, TrailUntouched
<1>7. ASSUME NEW p \in Handled, DeleteRecord(p)
      PROVE  Editorial!Remove(p)
  <2>0. row' = [row EXCEPT ![p] = [NoRow EXCEPT !.status = "deleted"]] /\ p \in Pubs
    BY <1>7 DEF DeleteRecord
  <2>1. Statuses' = [Statuses EXCEPT ![p] = "deleted"]
    BY <2>0, StatusesAfter DEF NoRow, TypeOK
  <2>2. Editorial!Live(p) /\ Asked' = Asked
    BY <1>7, StatusOfRow DEF DeleteRecord, Asked
  <2> QED
    BY <2>1, <2>2 DEF Editorial!Remove
<1>8. ASSUME NEW p \in Handled, NEW a \in AnyAbstract, EditAbstract(p, a)
      PROVE  TrailUntouched
  BY <1>8 DEF EditAbstract, Store, TypeOK, Row, TrailUntouched
<1>9. Handled \subseteq Pubs /\ Choices \subseteq EditorialStates
  OBVIOUS
<1> QED
  BY <1>1, <1>2, <1>3, <1>4, <1>5, <1>7, <1>8, <1>9, UntouchedIsStutter
  DEF EditorStep, Editorial!PromiseNext

LEMMA PipelinesKeepPromise ==
    ASSUME TypeOK, PipelineStep
    PROVE  Editorial!PromiseNext \/ UNCHANGED <<Statuses, Asked>>
<1>1. ASSUME UpsertCreate
      PROVE  Editorial!Draft(ingest.pub) /\ ingest.pub \in Pubs
  <2>1. ingest.pub \in Pubs
    BY <1>1 DEF UpsertCreate, TypeOK, Upserts, NoUpsert
  <2>0. /\ row'[ingest.pub].status = "pending_review"
        /\ \A q \in Pubs \ {ingest.pub} : row'[q].status = row[q].status
    BY <1>1, <2>1 DEF UpsertCreate, NewRow, DraftStatus, TypeOK
  <2>2. Statuses' = [Statuses EXCEPT ![ingest.pub] = "pending_review"]
    BY <2>0, <2>1, StatusesAfter
  <2>3. Statuses[ingest.pub] = "absent" /\ Asked' = Asked
    BY <1>1, <2>1, StatusOfRow DEF UpsertCreate, NoRow, Asked
  <2> QED
    BY <2>1, <2>2, <2>3 DEF Editorial!Draft
<1> QED
  BY <1>1, PipelinesDoNotDecide, UntouchedIsStutter DEF Editorial!PromiseNext

(* The system keeps the promise: papers enter as drafts or by an editor's  *)
(* hand, and their status moves only when a save an editor asked for is    *)
(* carried out, whatever the pipelines do meanwhile.                       *)
THEOREM PromiseIsKept == Spec => StatusIsDecidedByEditors
<1>1. TypeOK /\ [Next]_vars
        => [Editorial!PromiseNext]_<<Statuses, Asked>>
  <2> SUFFICES ASSUME TypeOK, [Next]_vars
               PROVE  Editorial!PromiseNext \/ UNCHANGED <<Statuses, Asked>>
    OBVIOUS
  <2>1. CASE UNCHANGED vars
    BY <2>1 DEF vars, Statuses, Asked
  <2> QED
    BY <2>1, EditorsKeepPromise, PipelinesKeepPromise DEF Next
<1> QED
  BY <1>1, PromiseInitially, TypeCorrect, PTL
  DEF Spec, StatusIsDecidedByEditors, Editorial!Promise
=============================================================================
