------------------------------ MODULE TopicMap -------------------------------
(***************************************************************************)
(* The semantic index of the publications and the topic map drawn from it  *)
(* (ai/app/pipelines/embed.py and cluster.py, ai/app/embeddings.py).       *)
(* An embed run lists the published papers page by page over REST, writes  *)
(* the vectors whose text changed, prunes all the others and, when vectors *)
(* changed, redraws the map.  Meanwhile editors save, publish and delete   *)
(* papers, and each save may start a /process/publication request that     *)
(* embeds one paper by itself.  db.connect() is in autocommit mode: every  *)
(* statement is a transaction of its own, and the map is redrawn by one    *)
(* DELETE and one INSERT per point.                                        *)
(***************************************************************************)
EXTENDS Naturals, FiniteSets

CONSTANTS
    Pubs,           \* record ids, 1..n; Payload lists the newest first
    Texts,          \* the different texts (title and abstract) of a paper
    Runs,           \* operators' shells, each running one pipeline at a time
    PageSize,       \* documents of one page of find_all
    MinRows,        \* vectors below which cluster.run refuses to draw
    MaxSaves,       \* bound: saves of editors
    MaxCrashes      \* bound: runs killed or ended by an exception

VARIABLES
    text,           \* text[p]: the stored text of p, NoText when there is no record
    published,      \* the records in status published
    due,            \* records whose /process/publication request is on its way
    request,        \* request[p]: that request between its read and its write
    vector,         \* vector[p]: the text publication_embeddings[p] was made from
    point,          \* point[p]: the same for topic_map
    run,            \* run[r]: the pipeline run of r
    saves, crashes, \* the counters of the two bounds
    picture,        \* the last redrawing that was completed (history variable)
    undisturbed     \* no two redrawings since it overlapped or broke off (history variable)

corpus == <<text, published, due, saves>>
map == <<point, picture, undisturbed>>
vars == <<corpus, request, vector, map, run, crashes>>

(* No record yet, and a record that was deleted: ids are not given twice.  *)
NoText == "none"
Gone == "gone"
Anything == Texts \cup {NoText}
Nothing == [p \in Pubs |-> NoText]

ASSUME MapAssumption ==
    /\ Pubs \subseteq Nat /\ IsFiniteSet(Pubs)
    /\ {NoText, Gone} \cap Texts = {}
    /\ PageSize \in Nat \ {0} /\ MinRows \in Nat
    /\ MaxSaves \in Nat /\ MaxCrashes \in Nat

Exists == {p \in Pubs : text[p] \in Texts}

(* What the index should hold: the published papers, each by its text.     *)
Wanted == [p \in Pubs |-> IF p \in published THEN text[p] ELSE NoText]

NoRequest == [pc |-> "idle", text |-> NoText]
RequestStates == [pc : {"idle", "embedding", "storing"}, text : Anything]

(* docs: what the run has listed, and then the vectors the map is drawn    *)
(* from; todo: rows it has still to write.  The last three are history:    *)
(* records that left or joined the list since the run began, and whether   *)
(* anybody else changed the papers or their vectors.                       *)
NoRun == [pc |-> "idle", page |-> 1, recluster |-> FALSE, changed |-> FALSE,
          docs |-> Nothing, todo |-> {}, left |-> {}, joined |-> {}, alone |-> TRUE]
RunStates ==
    [pc : {"idle", "listing", "hashing", "storing", "pruning", "reading", "clearing", "drawing"},
     page : Nat \ {0}, recluster : BOOLEAN, changed : BOOLEAN,
     docs : [Pubs -> Anything], todo : SUBSET Pubs,
     left : SUBSET Pubs, joined : SUBSET Pubs, alone : BOOLEAN]

TypeOK ==
    /\ text \in [Pubs -> Anything \cup {Gone}]
    /\ published \subseteq Exists
    /\ due \subseteq Pubs
    /\ request \in [Pubs -> RequestStates]
    /\ vector \in [Pubs -> Anything]
    /\ point \in [Pubs -> Anything]
    /\ run \in [Runs -> RunStates]
    /\ saves \in 0..MaxSaves /\ crashes \in 0..MaxCrashes
    /\ picture \in [Pubs -> Anything]
    /\ undisturbed \in BOOLEAN

(* Ids are given out in order: p is the next one.                          *)
IsNext(p) == \A q \in Pubs : text[q] = NoText <=> q >= p

(* Papers the importers brought in; nothing has been embedded yet.         *)
Init ==
    /\ text \in [Pubs -> Anything]
    /\ \A p, q \in Pubs : q < p /\ text[q] = NoText => text[p] = NoText
    /\ published \in SUBSET Exists
    /\ due = {}
    /\ request = [p \in Pubs |-> NoRequest]
    /\ vector = Nothing
    /\ point = Nothing
    /\ run = [r \in Runs |-> NoRun]
    /\ saves = 0 /\ crashes = 0
    /\ picture = Nothing
    /\ undisturbed = TRUE

(* History: what a change of the list or of the vectors means to the runs  *)
(* under way.                                                              *)
Noticed(q, gone, new) ==
    IF q.pc = "idle" THEN q
    ELSE [q EXCEPT !.left = @ \cup gone, !.joined = @ \cup new, !.alone = FALSE]
OthersNotice(gone, new) == run' = [r \in Runs |-> Noticed(run[r], gone, new)]

----------------------------------------------------------------------------
(* Editors, and the pipelines that write records for the ingest.  The hook *)
(* calls the AI service or not; what decides that is in EditorialRecord.   *)
Save(p) ==
    /\ saves < MaxSaves
    /\ saves' = saves + 1
    /\ due' \in {due, due \cup {p}}
    /\ OthersNotice(published \ published', published' \ published)
    /\ UNCHANGED <<request, vector, map, crashes>>

Create(p, t) ==
    /\ IsNext(p)
    /\ text' = [text EXCEPT ![p] = t]
    /\ published' \in {published, published \cup {p}}
    /\ Save(p)

Write(p, t) ==
    /\ p \in Exists
    /\ t # text[p]
    /\ text' = [text EXCEPT ![p] = t]
    /\ UNCHANGED published
    /\ Save(p)

Publish(p) ==
    /\ p \in Exists \ published
    /\ published' = published \cup {p}
    /\ UNCHANGED text
    /\ Save(p)

Unpublish(p) ==
    /\ p \in published
    /\ published' = published \ {p}
    /\ UNCHANGED text
    /\ Save(p)

(* Mutant of Delisted: a deleted record stays on the list.                 *)
DelistedNot(p) == published

(* A deleted record is on no list any more.                                *)
Delisted(p) == published \ {p}

Delete(p) ==
    /\ p \in Exists
    /\ saves < MaxSaves
    /\ text' = [text EXCEPT ![p] = Gone]
    /\ published' = Delisted(p)
    /\ saves' = saves + 1
    /\ OthersNotice(published \cap {p}, {})
    /\ UNCHANGED <<due, request, vector, map, crashes>>

----------------------------------------------------------------------------
(* process_publication, its embedding half: any status is embedded.  The   *)
(* record is read before the summary is written by a language model, and   *)
(* the vector is stored after it.                                          *)
RequestReads(p) ==
    /\ p \in due
    /\ request[p] = NoRequest
    /\ due' = due \ {p}
    /\ request' = [request EXCEPT ![p] =
                     IF p \in Exists THEN [pc |-> "embedding", text |-> text[p]] ELSE @]
    /\ UNCHANGED <<text, published, saves, vector, map, run, crashes>>

(* upsert_publication_embeddings for the one paper: its hash is compared,  *)
(* the text embedded, the row written, last writer wins.                   *)
RequestHashes(p) ==
    /\ request[p].pc = "embedding"
    /\ request' = [request EXCEPT ![p] =
                     IF vector[p] = @.text THEN NoRequest ELSE [@ EXCEPT !.pc = "storing"]]
    /\ UNCHANGED <<corpus, vector, map, run, crashes>>

RequestStores(p) ==
    /\ request[p].pc = "storing"
    /\ vector' = [vector EXCEPT ![p] = request[p].text]
    /\ request' = [request EXCEPT ![p] = NoRequest]
    /\ OthersNotice({}, {})
    /\ UNCHANGED <<corpus, map, crashes>>

(* The summary fails, the database does, or the service restarts.          *)
RequestDies(p) ==
    /\ request[p] # NoRequest
    /\ request' = [request EXCEPT ![p] = NoRequest]
    /\ UNCHANGED <<corpus, vector, map, run, crashes>>

----------------------------------------------------------------------------
(* An embed run.  --no-cluster gives recluster = FALSE.                    *)
At(r, pc) == run[r].pc = pc
Goes(r, q) == run' = [run EXCEPT ![r] = q]
Stops(r) == Goes(r, NoRun)

StartRun(r, recluster) ==
    /\ At(r, "idle")
    /\ Goes(r, [NoRun EXCEPT !.pc = "listing", !.recluster = recluster])
    /\ UNCHANGED <<corpus, request, vector, map, crashes>>

(* find_all: page after page, cut out of the list as it is at that moment, *)
(* until the answer says there is no next page.                            *)
Newer(p) == Cardinality({q \in published : q > p})
OnPage(n) == {p \in published : (n - 1) * PageSize <= Newer(p) /\ Newer(p) < n * PageSize}
HasNextPage(n) == Cardinality(published) > n * PageSize

(* Mutant of Listing: the first page is taken for the whole list.          *)
ListingOnce(q) ==
    [q EXCEPT !.docs = [p \in Pubs |-> IF p \in OnPage(1) THEN text[p] ELSE @[p]],
              !.pc = "hashing"]

Listing(q) ==
    [q EXCEPT !.docs = [p \in Pubs |-> IF p \in OnPage(q.page) THEN text[p] ELSE @[p]],
              !.page = IF HasNextPage(q.page) THEN @ + 1 ELSE @,
              !.pc = IF HasNextPage(q.page) THEN "listing" ELSE "hashing"]

ReadPage(r) ==
    /\ At(r, "listing")
    /\ Goes(r, Listing(run[r]))
    /\ UNCHANGED <<corpus, request, vector, map, crashes>>

Listed(q) == {p \in Pubs : q.docs[p] # NoText}

(* Mutant of Changed: any vector at all will do.                           *)
ChangedNew(q) == {p \in Listed(q) : vector[p] = NoText}

(* upsert_publication_embeddings: the papers whose hash is not the stored  *)
(* one ...                                                                 *)
Changed(q) == {p \in Listed(q) : vector[p] # q.docs[p]}

ReadHashes(r) ==
    /\ At(r, "hashing")
    /\ Goes(r, [run[r] EXCEPT !.todo = Changed(run[r]),
                              !.changed = Changed(run[r]) # {},
                              !.pc = IF Changed(run[r]) = {} THEN "pruning" ELSE "storing"])
    /\ UNCHANGED <<corpus, request, vector, map, crashes>>

(* ... are embedded, and their rows written one by one.                    *)
StoreVector(r, p) ==
    /\ At(r, "storing")
    /\ p \in run[r].todo
    /\ vector' = [vector EXCEPT ![p] = run[r].docs[p]]
    /\ run' = [s \in Runs |->
                 IF s = r THEN [run[r] EXCEPT !.todo = @ \ {p},
                                             !.pc = IF run[r].todo = {p} THEN "pruning" ELSE @]
                 ELSE Noticed(run[s], {}, {})]
    /\ UNCHANGED <<corpus, request, map, crashes>>

(* Mutant of Orphans: only the vectors of deleted records are pruned.      *)
OrphansDeleted(q) == {p \in Pubs : vector[p] # NoText /\ p \notin Exists}

(* One DELETE of every row that was not listed.  Without --no-cluster the  *)
(* map follows, but only if this run wrote or deleted a row.               *)
Orphans(q) == {p \in Pubs : vector[p] # NoText /\ p \notin Listed(q)}
Redraws(q) == q.recluster /\ (q.changed \/ Orphans(q) # {})

Prune(r) ==
    /\ At(r, "pruning")
    /\ vector' = [p \in Pubs |-> IF p \in Orphans(run[r]) THEN NoText ELSE vector[p]]
    /\ run' = [s \in Runs |->
                 IF s # r THEN IF vector' = vector THEN run[s] ELSE Noticed(run[s], {}, {})
                 ELSE IF Redraws(run[r]) THEN [NoRun EXCEPT !.pc = "reading"] ELSE NoRun]
    /\ UNCHANGED <<corpus, request, map, crashes>>

----------------------------------------------------------------------------
(* cluster.run, after an embed run or by hand.  Too few vectors are only   *)
(* warned about.                                                           *)
StartCluster(r) ==
    /\ At(r, "idle")
    /\ Goes(r, [NoRun EXCEPT !.pc = "reading"])
    /\ UNCHANGED <<corpus, request, vector, map, crashes>>

Rows == {p \in Pubs : vector[p] # NoText}

ReadVectors(r) ==
    /\ At(r, "reading")
    /\ IF Cardinality(Rows) < MinRows THEN Stops(r)
       ELSE Goes(r, [NoRun EXCEPT !.pc = "clearing", !.docs = vector])
    /\ UNCHANGED <<corpus, request, vector, map, crashes>>

Drawing(r) == At(r, "drawing")

(* Mutant of Cleared: only the rows about to be written are deleted.       *)
ClearedListed(q) == [p \in Pubs |-> IF p \in Listed(q) THEN NoText ELSE point[p]]

(* DELETE FROM topic_map.                                                  *)
Cleared(q) == Nothing

ClearMap(r) ==
    /\ At(r, "clearing")
    /\ point' = Cleared(run[r])
    /\ undisturbed' = ~ \E s \in Runs : Drawing(s)
    /\ IF Listed(run[r]) = {}
       THEN Stops(r) /\ picture' = Nothing
       ELSE Goes(r, [run[r] EXCEPT !.pc = "drawing", !.todo = Listed(run[r])]) /\ UNCHANGED picture
    /\ UNCHANGED <<corpus, request, vector, crashes>>

(* One INSERT per point; a row that is there already ends the run with a   *)
(* violated primary key.                                                   *)
DrawPoint(r, p) ==
    /\ Drawing(r)
    /\ p \in run[r].todo
    /\ point[p] = NoText
    /\ point' = [point EXCEPT ![p] = run[r].docs[p]]
    /\ IF run[r].todo = {p} THEN Stops(r) /\ picture' = run[r].docs
       ELSE Goes(r, [run[r] EXCEPT !.todo = @ \ {p}]) /\ UNCHANGED picture
    /\ UNCHANGED <<corpus, request, vector, undisturbed, crashes>>

DuplicateKey(r, p) ==
    /\ Drawing(r)
    /\ p \in run[r].todo
    /\ point[p] # NoText
    /\ Stops(r)
    /\ undisturbed' = FALSE
    /\ UNCHANGED <<corpus, request, vector, point, picture, crashes>>

(* A run is killed, or an exception ends it (in cluster.run, called from   *)
(* embed.run, it is caught there and logged).                              *)
RunDies(r) ==
    /\ ~At(r, "idle")
    /\ crashes < MaxCrashes
    /\ crashes' = crashes + 1
    /\ Stops(r)
    /\ undisturbed' = (undisturbed /\ ~Drawing(r))
    /\ UNCHANGED <<corpus, request, vector, point, picture>>

----------------------------------------------------------------------------
EditorStep ==
    \E p \in Pubs :
        \/ \E t \in Texts : Create(p, t) \/ Write(p, t)
        \/ Publish(p) \/ Unpublish(p) \/ Delete(p)

RequestStep == \E p \in Pubs :
    RequestReads(p) \/ RequestHashes(p) \/ RequestStores(p) \/ RequestDies(p)

(* What a run does by itself once it has been started.                     *)
RunStep(r) ==
    \/ ReadPage(r) \/ ReadHashes(r) \/ Prune(r) \/ ReadVectors(r) \/ ClearMap(r)
    \/ \E p \in Pubs : StoreVector(r, p) \/ DrawPoint(r, p) \/ DuplicateKey(r, p)

Operator(r) == StartCluster(r) \/ \E f \in BOOLEAN : StartRun(r, f)

Next ==
    \/ EditorStep
    \/ RequestStep
    \/ \E r \in Runs : Operator(r) \/ RunStep(r) \/ RunDies(r)

(* A run that was started goes on; nobody has to save, and nobody has to   *)
(* start one.                                                              *)
Spec == Init /\ [][Next]_vars /\ \A r \in Runs : WF_vars(RunStep(r))

----------------------------------------------------------------------------
(* Properties *)

(* A run that nobody got in the way of leaves the index exact: when it has *)
(* pruned, every published paper has the vector of its text and nothing    *)
(* else has one (embed.run, from the listing to the DELETE).               *)
Prunes(r) == At(r, "pruning") /\ Prune(r)
UndisturbedRunIsExact ==
    [][\A r \in Runs : Prunes(r) /\ run[r].alone => vector' = Wanted]_vars

(* The vector of a published paper is deleted by mistake only if another   *)
(* record left the list while the run was under way, which moves the pages *)
(* up, or if the paper itself joined it too late: papers published in      *)
(* between repeat entries of the list, but hide none (prune after          *)
(* payload_api.find_all).                                                  *)
LivePrunedOnlyWhenListMoved ==
    [][\A r \in Runs, p \in Pubs :
          Prunes(r) /\ p \in published /\ vector[p] # NoText /\ vector'[p] = NoText =>
             run[r].left \ {p} # {} \/ p \in run[r].joined]_vars

(* Between redrawings the map is one complete picture of the vectors of    *)
(* one moment, never a mixture of two, as long as no redrawing broke off   *)
(* or overlapped another (cluster.run's DELETE and INSERTs).               *)
MapIsOnePicture ==
    undisturbed /\ (\A r \in Runs : ~Drawing(r)) => point = picture

(* However requests, runs and saves raced before: if people stop saving    *)
(* and embed runs are started again and again, the index becomes exact and *)
(* stays so.                                                               *)
IndexSettles ==
    (\A r \in Runs : []<>At(r, "listing")) => <>[](vector = Wanted)
=============================================================================
