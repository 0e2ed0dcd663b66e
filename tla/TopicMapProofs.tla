--------------------------- MODULE TopicMapProofs ----------------------------
(* Theorems about TopicMap, for any number of records, texts and operators, *)
(* any page size and any bounds.                                           *)
EXTENDS TopicMap, FiniteSetTheorems, TLAPS

(* History marks leave a run well formed.                                  *)
LEMMA NoticeTyping ==
    ASSUME run \in [Runs -> RunStates], NEW gone \in SUBSET Pubs, NEW new \in SUBSET Pubs
    PROVE  /\ \A r \in Runs : Noticed(run[r], gone, new) \in RunStates
           /\ OthersNotice(gone, new) => run' \in [Runs -> RunStates]
<1>1. \A r \in Runs : Noticed(run[r], gone, new) \in RunStates
  BY DEF Noticed, RunStates
<1> QED
  BY <1>1 DEF OthersNotice

LEMMA BlankTyping ==
    /\ Nothing \in [Pubs -> Anything]
    /\ NoRun \in RunStates
    /\ NoRequest \in RequestStates
BY DEF Nothing, Anything, NoRun, RunStates, NoRequest, RequestStates

LEMMA GoesTyping ==
    ASSUME TypeOK, NEW r \in Runs, NEW q \in RunStates, Goes(r, q)
    PROVE  run' \in [Runs -> RunStates]
BY DEF TypeOK, Goes

LEMMA StopsTyping ==
    ASSUME TypeOK, NEW r \in Runs, Stops(r)
    PROVE  run' \in [Runs -> RunStates]
BY BlankTyping, GoesTyping DEF Stops

LEMMA EditorTyping ==
    ASSUME TypeOK, EditorStep
    PROVE  TypeOK'
<1> USE MapAssumption DEF Exists
<1>1. ASSUME NEW p \in Pubs, NEW t \in Texts, Create(p, t)
      PROVE  TypeOK'
  <2>1. text[p] = NoText
    BY <1>1 DEF TypeOK, Create, IsNext
  <2>2. text' \in [Pubs -> Anything \cup {Gone}] /\ text'[p] \in Texts
    BY <1>1 DEF TypeOK, Create, Anything
  <2>3. published' \subseteq Exists' /\ published' \subseteq Pubs
    BY <1>1, <2>1, <2>2 DEF TypeOK, Create
  <2>4. run' \in [Runs -> RunStates]
    BY <1>1, <2>3, NoticeTyping DEF TypeOK, Create, Save
  <2> QED
    BY <1>1, <2>2, <2>3, <2>4 DEF TypeOK, Create, Save, map
<1>2. ASSUME NEW p \in Pubs, NEW t \in Texts, Write(p, t)
      PROVE  TypeOK'
  <2>1. text' \in [Pubs -> Anything \cup {Gone}] /\ published' \subseteq Exists'
    BY <1>2 DEF TypeOK, Write, Anything
  <2>2. run' \in [Runs -> RunStates]
    BY <1>2, NoticeTyping DEF TypeOK, Write, Save
  <2> QED
    BY <1>2, <2>1, <2>2 DEF TypeOK, Write, Save, map
<1>3. ASSUME NEW p \in Pubs, Publish(p)
      PROVE  TypeOK'
  <2>1. run' \in [Runs -> RunStates]
    BY <1>3, NoticeTyping DEF TypeOK, Publish, Save
  <2> QED
    BY <1>3, <2>1 DEF TypeOK, Publish, Save, map
<1>4. ASSUME NEW p \in Pubs, Unpublish(p)
      PROVE  TypeOK'
  <2>1. run' \in [Runs -> RunStates]
    BY <1>4, NoticeTyping DEF TypeOK, Unpublish, Save
  <2> QED
    BY <1>4, <2>1 DEF TypeOK, Unpublish, Save, map
<1>5. ASSUME NEW p \in Pubs, Delete(p)
      PROVE  TypeOK'
  <2>1. text' \in [Pubs -> Anything \cup {Gone}] /\ published' \subseteq Exists'
    BY <1>5 DEF TypeOK, Delete, Delisted
  <2>2. run' \in [Runs -> RunStates]
    BY <1>5, NoticeTyping DEF TypeOK, Delete
  <2> QED
    BY <1>5, <2>1, <2>2 DEF TypeOK, Delete, map
<1> QED
  BY <1>1, <1>2, <1>3, <1>4, <1>5 DEF EditorStep

LEMMA RequestTyping ==
    ASSUME TypeOK, RequestStep
    PROVE  TypeOK'
<1> USE DEF corpus, map, Exists
<1>1. ASSUME NEW p \in Pubs, RequestReads(p)
      PROVE  TypeOK'
  <2>1. p \in Exists => [pc |-> "embedding", text |-> text[p]] \in RequestStates
    BY DEF TypeOK, RequestStates, Anything
  <2> QED
    BY <1>1, <2>1 DEF TypeOK, RequestReads
<1>2. ASSUME NEW p \in Pubs, RequestHashes(p)
      PROVE  TypeOK'
  <2>1. [request[p] EXCEPT !.pc = "storing"] \in RequestStates
    BY DEF TypeOK, RequestStates
  <2> QED
    BY <1>2, <2>1, BlankTyping DEF TypeOK, RequestHashes
<1>3. ASSUME NEW p \in Pubs, RequestStores(p)
      PROVE  TypeOK'
  <2>1. request[p].text \in Anything
    BY DEF TypeOK, RequestStates
  <2>2. run' \in [Runs -> RunStates]
    BY <1>3, NoticeTyping DEF TypeOK, RequestStores
  <2> QED
    BY <1>3, <2>1, <2>2, BlankTyping DEF TypeOK, RequestStores
<1>4. ASSUME NEW p \in Pubs, RequestDies(p)
      PROVE  TypeOK'
  BY <1>4, BlankTyping DEF TypeOK, RequestDies
<1> QED
  BY <1>1, <1>2, <1>3, <1>4 DEF RequestStep

LEMMA RunTyping ==
    ASSUME TypeOK, NEW r \in Runs, Operator(r) \/ RunStep(r) \/ RunDies(r)
    PROVE  TypeOK'
<1> USE DEF corpus, map, Exists
<1>0. run[r] \in RunStates
  BY DEF TypeOK
<1>1. ASSUME NEW f \in BOOLEAN, StartRun(r, f)
      PROVE  TypeOK'
  <2>1. [NoRun EXCEPT !.pc = "listing", !.recluster = f] \in RunStates
    BY BlankTyping DEF RunStates
  <2> QED
    BY <1>1, <2>1, GoesTyping DEF TypeOK, StartRun
<1>2. CASE StartCluster(r)
  <2>1. [NoRun EXCEPT !.pc = "reading"] \in RunStates
    BY BlankTyping DEF RunStates
  <2> QED
    BY <1>2, <2>1, GoesTyping DEF TypeOK, StartCluster
<1>3. CASE ReadPage(r)
  <2>1. [p \in Pubs |-> IF p \in OnPage(run[r].page) THEN text[p] ELSE run[r].docs[p]]
          \in [Pubs -> Anything]
    BY <1>0 DEF TypeOK, RunStates, OnPage, Anything
  <2>2. run[r].page + 1 \in Nat \ {0}
    BY <1>0 DEF RunStates
  <2>3. Listing(run[r]) \in RunStates
    BY <1>0, <2>1, <2>2 DEF Listing, RunStates
  <2> QED
    BY <1>3, <2>3, GoesTyping DEF TypeOK, ReadPage
<1>4. CASE ReadHashes(r)
  <2>1. Changed(run[r]) \in SUBSET Pubs
    BY DEF Changed, Listed
  <2>2. [run[r] EXCEPT !.todo = Changed(run[r]),
                       !.changed = Changed(run[r]) # {},
                       !.pc = IF Changed(run[r]) = {} THEN "pruning" ELSE "storing"] \in RunStates
    BY <1>0, <2>1 DEF RunStates
  <2> QED
    BY <1>4, <2>2, GoesTyping DEF TypeOK, ReadHashes
<1>5. ASSUME NEW p \in Pubs, StoreVector(r, p)
      PROVE  TypeOK'
  <2>1. run[r].docs[p] \in Anything
    BY <1>0 DEF RunStates
  <2>2. [run[r] EXCEPT !.todo = @ \ {p},
                       !.pc = IF run[r].todo = {p} THEN "pruning" ELSE @] \in RunStates
    BY <1>0 DEF RunStates
  <2>3. run' \in [Runs -> RunStates]
    BY <1>5, <2>2, NoticeTyping DEF TypeOK, StoreVector
  <2> QED
    BY <1>5, <2>1, <2>3 DEF TypeOK, StoreVector
<1>6. CASE Prune(r)
  <2>1. vector' \in [Pubs -> Anything]
    BY <1>6 DEF TypeOK, Prune, Anything
  <2>2. [NoRun EXCEPT !.pc = "reading"] \in RunStates
    BY BlankTyping DEF RunStates
  <2>3. run' \in [Runs -> RunStates]
    BY <1>6, <2>2, BlankTyping, NoticeTyping DEF TypeOK, Prune
  <2> QED
    BY <1>6, <2>1, <2>3 DEF TypeOK, Prune
<1>7. CASE ReadVectors(r)
  <2>1. [NoRun EXCEPT !.pc = "clearing", !.docs = vector] \in RunStates
    BY BlankTyping DEF TypeOK, RunStates
  <2> QED
    BY <1>7, <2>1, GoesTyping, StopsTyping DEF TypeOK, ReadVectors
<1>8. CASE ClearMap(r)
  <2>1. [run[r] EXCEPT !.pc = "drawing", !.todo = Listed(run[r])] \in RunStates
    BY <1>0 DEF RunStates, Listed
  <2>2. run' \in [Runs -> RunStates]
    BY <1>8, <2>1, GoesTyping, StopsTyping DEF ClearMap
  <2> QED
    BY <1>8, <2>2, BlankTyping DEF TypeOK, ClearMap, Cleared
<1>9. ASSUME NEW p \in Pubs, DrawPoint(r, p)
      PROVE  TypeOK'
  <2>1. run[r].docs \in [Pubs -> Anything]
    BY <1>0 DEF RunStates
  <2>2. [run[r] EXCEPT !.todo = @ \ {p}] \in RunStates
    BY <1>0 DEF RunStates
  <2>3. run' \in [Runs -> RunStates]
    BY <1>9, <2>2, GoesTyping, StopsTyping DEF DrawPoint
  <2> QED
    BY <1>9, <2>1, <2>3 DEF TypeOK, DrawPoint
<1>10. ASSUME NEW p \in Pubs, DuplicateKey(r, p)
       PROVE  TypeOK'
  BY <1>10, StopsTyping DEF TypeOK, DuplicateKey
<1>11. CASE RunDies(r)
  <2>1. crashes' \in 0..MaxCrashes
    BY <1>11, MapAssumption DEF TypeOK, RunDies
  <2> QED
    BY <1>11, <2>1, StopsTyping DEF TypeOK, RunDies
<1> QED
  BY <1>1, <1>2, <1>3, <1>4, <1>5, <1>6, <1>7, <1>8, <1>9, <1>10, <1>11
  DEF Operator, RunStep

LEMMA InitTyping == Init => TypeOK
<1> SUFFICES ASSUME Init PROVE TypeOK
  OBVIOUS
<1>1. saves \in 0..MaxSaves /\ crashes \in 0..MaxCrashes
  BY MapAssumption DEF Init
<1> QED
  BY <1>1, BlankTyping DEF Init, TypeOK

LEMMA NextTyping == TypeOK /\ [Next]_vars => TypeOK'
<1> SUFFICES ASSUME TypeOK, [Next]_vars PROVE TypeOK'
  OBVIOUS
<1>1. CASE Next
  BY <1>1, EditorTyping, RequestTyping, RunTyping DEF Next
<1>2. CASE UNCHANGED vars
  BY <1>2 DEF vars, corpus, map, TypeOK, Exists
<1> QED
  BY <1>1, <1>2

(* Every variable keeps its type; in particular no record that does not    *)
(* exist is on the list of published ones.                                 *)
THEOREM TypeCorrect == Spec => []TypeOK
<1> QED
  BY InitTyping, NextTyping, PTL DEF Spec

----------------------------------------------------------------------------
(* The map *)

(* What a run that is redrawing has drawn so far.                          *)
HalfDrawn(q) == [p \in Pubs |-> IF p \in q.todo THEN NoText ELSE q.docs[p]]

(* While nothing overlapped or broke off, one run at most is redrawing, the *)
(* table holds exactly what it has drawn, and otherwise the last picture.  *)
PictureInv ==
    undisturbed =>
        /\ \A r, s \in Runs : Drawing(r) /\ Drawing(s) => r = s
        /\ \A r \in Runs : Drawing(r) => /\ run[r].todo # {}
                                        /\ point = HalfDrawn(run[r])
        /\ (\A r \in Runs : ~Drawing(r)) => point = picture

(* A step that neither touches the map nor starts, ends or advances a      *)
(* redrawing.                                                              *)
KeepsDrawing(q, r) ==
    /\ q.pc = "drawing" <=> run[r].pc = "drawing"
    /\ run[r].pc = "drawing" => q.todo = run[r].todo /\ q.docs = run[r].docs
LeavesMap ==
    /\ UNCHANGED map
    /\ \A r \in Runs : KeepsDrawing(run'[r], r)

LEMMA LeavesMapKeeps ==
    ASSUME PictureInv, LeavesMap
    PROVE  PictureInv'
<1>1. /\ point' = point /\ picture' = picture /\ undisturbed' = undisturbed
      /\ \A r \in Runs : Drawing(r)' <=> Drawing(r)
  BY DEF LeavesMap, KeepsDrawing, map, Drawing, At
<1>2. \A r \in Runs : Drawing(r) => /\ run'[r].todo = run[r].todo
                                    /\ HalfDrawn(run[r])' = HalfDrawn(run[r])
  BY DEF LeavesMap, KeepsDrawing, Drawing, At, HalfDrawn
<1> QED
  BY <1>1, <1>2 DEF PictureInv

LEMMA NoticeLeavesRuns ==
    ASSUME TypeOK, NEW gone \in SUBSET Pubs, NEW new \in SUBSET Pubs, NEW r \in Runs
    PROVE  /\ Noticed(run[r], gone, new).pc = run[r].pc
           /\ Noticed(run[r], gone, new).todo = run[r].todo
           /\ Noticed(run[r], gone, new).docs = run[r].docs
           /\ Noticed(run[r], gone, new).page = run[r].page
           /\ run[r].pc # "idle" =>
                /\ Noticed(run[r], gone, new).left = run[r].left \cup gone
                /\ Noticed(run[r], gone, new).joined = run[r].joined \cup new
                /\ Noticed(run[r], gone, new).alone = FALSE
BY DEF TypeOK, RunStates, Noticed

LEMMA NoticeKeepsDrawing ==
    ASSUME TypeOK, NEW gone \in SUBSET Pubs, NEW new \in SUBSET Pubs, NEW r \in Runs
    PROVE  KeepsDrawing(Noticed(run[r], gone, new), r)
BY NoticeLeavesRuns DEF KeepsDrawing

(* What every editor's step does to the runs: one way or the other they    *)
(* notice it.                                                              *)
LEMMA EditorNotice ==
    ASSUME TypeOK, EditorStep
    PROVE  /\ published' \subseteq Pubs
           /\ OthersNotice(published \ published', published' \ published)
           /\ UNCHANGED <<vector, map>>
<1>1. ASSUME NEW p \in Pubs, Delete(p)
      PROVE  published \ published' = published \cap {p} /\ published' \ published = {}
  BY <1>1 DEF Delete, Delisted
<1> QED
  BY <1>1 DEF EditorStep, Create, Write, Publish, Unpublish, Delete, Delisted, Save, TypeOK, Exists

LEMMA EditorLeavesMap ==
    ASSUME TypeOK, EditorStep
    PROVE  LeavesMap
<1> DEFINE gone == published \ published'
           new == published' \ published
<1>1. gone \in SUBSET Pubs /\ new \in SUBSET Pubs
  BY EditorNotice DEF TypeOK, Exists
<1>2. OthersNotice(gone, new) /\ UNCHANGED map
  BY EditorNotice
<1> HIDE DEF gone, new
<1>3. ASSUME NEW r \in Runs
      PROVE  KeepsDrawing(run'[r], r)
  <2>1. run'[r] = Noticed(run[r], gone, new)
    BY <1>2 DEF OthersNotice
  <2> QED
    BY <1>1, <2>1, NoticeKeepsDrawing
<1> QED
  BY <1>2, <1>3 DEF LeavesMap

LEMMA RequestLeavesMap ==
    ASSUME TypeOK, RequestStep
    PROVE  LeavesMap
<1>1. ASSUME NEW p \in Pubs, RequestStores(p)
      PROVE  LeavesMap
  <2>1. ASSUME NEW r \in Runs
        PROVE  KeepsDrawing(run'[r], r)
    <3>1. run'[r] = Noticed(run[r], {}, {})
      BY <1>1 DEF RequestStores, OthersNotice
    <3>2. {} \in SUBSET Pubs
      OBVIOUS
    <3> QED
      BY <3>1, <3>2, NoticeKeepsDrawing
  <2> QED
    BY <1>1, <2>1 DEF RequestStores, LeavesMap
<1>2. ASSUME NEW p \in Pubs, RequestReads(p) \/ RequestHashes(p) \/ RequestDies(p)
      PROVE  LeavesMap
  BY <1>2 DEF RequestReads, RequestHashes, RequestDies, LeavesMap, KeepsDrawing
<1> QED
  BY <1>1, <1>2 DEF RequestStep

(* The steps of a run up to the redrawing: only the run itself moves, or   *)
(* the others notice a vector it wrote.                                    *)
LEMMA EarlyRunLeavesMap ==
    ASSUME TypeOK, NEW r \in Runs,
           \/ Operator(r) \/ ReadPage(r) \/ ReadHashes(r) \/ Prune(r) \/ ReadVectors(r)
           \/ \E p \in Pubs : StoreVector(r, p)
    PROVE  LeavesMap
<1>0. {} \in SUBSET Pubs
  OBVIOUS
<1>1. CASE Operator(r)
  BY <1>1 DEF TypeOK, Operator, StartCluster, StartRun, Goes, NoRun, LeavesMap, KeepsDrawing, At
<1>2. CASE ReadPage(r)
  <2>1. Listing(run[r]).pc # "drawing"
    BY DEF TypeOK, RunStates, Listing
  <2> QED
    BY <1>2, <2>1 DEF TypeOK, ReadPage, Goes, LeavesMap, KeepsDrawing, At
<1>3. CASE ReadHashes(r)
  BY <1>3 DEF TypeOK, RunStates, ReadHashes, Goes, LeavesMap, KeepsDrawing, At
<1>4. CASE Prune(r)
  <2>1. ASSUME NEW s \in Runs
        PROVE  KeepsDrawing(run'[s], s)
    <3>1. CASE s = r
      BY <1>4, <3>1 DEF Prune, NoRun, KeepsDrawing, At
    <3>2. CASE s # r
      <4>1. run'[s] = run[s] \/ run'[s] = Noticed(run[s], {}, {})
        BY <1>4, <3>2 DEF Prune
      <4>2. KeepsDrawing(run[s], s)
        BY DEF KeepsDrawing
      <4>3. KeepsDrawing(Noticed(run[s], {}, {}), s)
        BY <1>0, NoticeKeepsDrawing
      <4> QED
        BY <4>1, <4>2, <4>3
    <3> QED
      BY <3>1, <3>2
  <2> QED
    BY <1>4, <2>1 DEF Prune, LeavesMap
<1>5. CASE ReadVectors(r)
  <2>1. /\ run'[r].pc # "drawing" /\ run[r].pc # "drawing"
        /\ \A s \in Runs \ {r} : run'[s] = run[s]
    <3>1. NoRun.pc = "idle" /\ [NoRun EXCEPT !.pc = "clearing", !.docs = vector].pc = "clearing"
      BY DEF NoRun
    <3> HIDE DEF NoRun
    <3>2. CASE Stops(r)
      BY <1>5, <3>1, <3>2 DEF TypeOK, ReadVectors, Goes, Stops, At
    <3>3. CASE Goes(r, [NoRun EXCEPT !.pc = "clearing", !.docs = vector])
      BY <1>5, <3>1, <3>3 DEF TypeOK, ReadVectors, Goes, At
    <3> QED
      BY <1>5, <3>2, <3>3 DEF ReadVectors
  <2>2. \A s \in Runs : KeepsDrawing(run'[s], s)
    BY <2>1 DEF KeepsDrawing
  <2>3. UNCHANGED map
    BY <1>5 DEF ReadVectors, Stops, Goes
  <2> QED
    BY <2>2, <2>3 DEF LeavesMap
<1>6. ASSUME NEW p \in Pubs, StoreVector(r, p)
      PROVE  LeavesMap
  <2>1. ASSUME NEW s \in Runs
        PROVE  KeepsDrawing(run'[s], s)
    <3>1. CASE s = r
      <4>1. run[r].pc = "storing" /\ run[r] \in RunStates
        BY <1>6 DEF StoreVector, TypeOK, At
      <4>2. run'[r] = [run[r] EXCEPT !.todo = @ \ {p},
                                    !.pc = IF run[r].todo = {p} THEN "pruning" ELSE @]
        BY <1>6 DEF StoreVector
      <4>3. run'[r].pc # "drawing"
        BY <4>1, <4>2 DEF RunStates
      <4> QED
        BY <3>1, <4>1, <4>3 DEF KeepsDrawing
    <3>2. CASE s # r
      <4>1. run'[s] = Noticed(run[s], {}, {})
        BY <1>6, <3>2 DEF StoreVector
      <4> QED
        BY <1>0, <4>1, NoticeKeepsDrawing
    <3> QED
      BY <3>1, <3>2
  <2> QED
    BY <1>6, <2>1 DEF StoreVector, LeavesMap
<1> QED
  BY <1>1, <1>2, <1>3, <1>4, <1>5, <1>6

LEMMA ClearKeepsPicture ==
    ASSUME TypeOK, PictureInv, NEW r \in Runs, ClearMap(r)
    PROVE  PictureInv'
<1> SUFFICES ASSUME undisturbed' PROVE PictureInv'
  BY DEF PictureInv
<1>1. \A s \in Runs : ~Drawing(s)
  BY DEF ClearMap
<1>2. \A s \in Runs \ {r} : run'[s] = run[s]
  BY DEF ClearMap, Goes, Stops, TypeOK
<1>3. \A s \in Runs \ {r} : ~Drawing(s)'
  BY <1>1, <1>2 DEF Drawing, At
<1>4. CASE Listed(run[r]) = {}
  <2>1. run'[r].pc = "idle" /\ picture' = point'
    BY <1>4 DEF ClearMap, Cleared, Stops, Goes, TypeOK, NoRun
  <2> QED
    BY <1>3, <2>1 DEF PictureInv, Drawing, At
<1>5. CASE Listed(run[r]) # {}
  <2>1. run'[r] = [run[r] EXCEPT !.pc = "drawing", !.todo = Listed(run[r])]
    BY <1>5 DEF ClearMap, Goes, TypeOK
  <2>2. run'[r].pc = "drawing" /\ run'[r].todo = Listed(run[r]) /\ run'[r].docs = run[r].docs
    BY <2>1 DEF TypeOK, RunStates
  <2>3. HalfDrawn(run[r])' = point'
    BY <2>2 DEF HalfDrawn, Listed, ClearMap, Cleared, Nothing
  <2> QED
    BY <1>3, <1>5, <2>2, <2>3 DEF PictureInv, Drawing, At
<1> QED
  BY <1>4, <1>5

LEMMA DrawKeepsPicture ==
    ASSUME TypeOK, PictureInv, NEW r \in Runs, NEW p \in Pubs, DrawPoint(r, p)
    PROVE  PictureInv'
<1> SUFFICES ASSUME undisturbed' PROVE PictureInv'
  BY DEF PictureInv
<1>1. undisturbed /\ Drawing(r) /\ p \in run[r].todo
  BY DEF DrawPoint
<1>2. /\ point = HalfDrawn(run[r])
      /\ \A s \in Runs \ {r} : ~Drawing(s)
  BY <1>1 DEF PictureInv
<1>3. \A s \in Runs \ {r} : run'[s] = run[s]
  BY DEF DrawPoint, Goes, Stops, TypeOK
<1>4. \A s \in Runs \ {r} : ~Drawing(s)'
  BY <1>2, <1>3 DEF Drawing, At
<1>5. point' = [point EXCEPT ![p] = run[r].docs[p]]
  BY DEF DrawPoint
<1>6. point \in [Pubs -> Anything] /\ run[r].docs \in [Pubs -> Anything]
  BY DEF TypeOK, RunStates
<1>7. CASE run[r].todo = {p}
  <2>1. run'[r].pc = "idle" /\ picture' = run[r].docs
    BY <1>7 DEF DrawPoint, Stops, Goes, TypeOK, NoRun
  <2>2. point' = run[r].docs
    BY <1>2, <1>5, <1>6, <1>7 DEF HalfDrawn
  <2> QED
    BY <1>4, <2>1, <2>2 DEF PictureInv, Drawing, At
<1>8. CASE run[r].todo # {p}
  <2>1. run'[r] = [run[r] EXCEPT !.todo = @ \ {p}]
    BY <1>8 DEF DrawPoint, Goes, TypeOK
  <2>2. run'[r].pc = "drawing" /\ run'[r].todo = run[r].todo \ {p} /\ run'[r].docs = run[r].docs
    BY <1>1, <2>1 DEF TypeOK, RunStates, Drawing, At
  <2>3. point' = HalfDrawn(run[r])'
    BY <1>2, <1>5, <1>6, <2>2 DEF HalfDrawn
  <2>4. run'[r].todo # {}
    BY <1>1, <1>8, <2>2
  <2> QED
    BY <1>4, <2>2, <2>3, <2>4 DEF PictureInv, Drawing, At
<1> QED
  BY <1>7, <1>8

LEMMA DeathKeepsPicture ==
    ASSUME TypeOK, PictureInv, NEW r \in Runs, RunDies(r)
    PROVE  PictureInv'
<1>1. CASE Drawing(r)
  BY <1>1 DEF RunDies, PictureInv
<1>2. CASE ~Drawing(r)
  <2>1. UNCHANGED map
    BY <1>2 DEF RunDies, map, TypeOK
  <2>2. \A s \in Runs : KeepsDrawing(run'[s], s)
    BY <1>2 DEF RunDies, Stops, Goes, TypeOK, NoRun, KeepsDrawing, Drawing, At
  <2> QED
    BY <2>1, <2>2, LeavesMapKeeps DEF LeavesMap
<1> QED
  BY <1>1, <1>2

LEMMA PictureInductive ==
    ASSUME TypeOK, PictureInv, [Next]_vars
    PROVE  PictureInv'
<1>1. CASE EditorStep
  BY <1>1, EditorLeavesMap, LeavesMapKeeps
<1>2. CASE RequestStep
  BY <1>2, RequestLeavesMap, LeavesMapKeeps
<1>3. ASSUME NEW r \in Runs, Operator(r) \/ RunStep(r) \/ RunDies(r)
      PROVE  PictureInv'
  <2>1. ASSUME NEW p \in Pubs, DuplicateKey(r, p)
        PROVE  PictureInv'
    BY <2>1 DEF DuplicateKey, PictureInv
  <2> QED
    BY <1>3, <2>1, EarlyRunLeavesMap, LeavesMapKeeps, ClearKeepsPicture, DrawKeepsPicture,
       DeathKeepsPicture DEF RunStep
<1>4. CASE UNCHANGED vars
  BY <1>4, LeavesMapKeeps DEF vars, LeavesMap, KeepsDrawing
<1> QED
  BY <1>1, <1>2, <1>3, <1>4 DEF Next

(* As long as no redrawing broke off or overlapped another, the map seen   *)
(* between redrawings is one complete picture (cluster.run).               *)
THEOREM MapIsWhole == Spec => []MapIsOnePicture
<1>1. Init => PictureInv
  BY DEF Init, PictureInv, Drawing, At, NoRun
<1>2. PictureInv => MapIsOnePicture
  BY DEF PictureInv, MapIsOnePicture
<1> QED
  BY <1>1, <1>2, InitTyping, NextTyping, PictureInductive, PTL DEF Spec

----------------------------------------------------------------------------
(* The list and its pages *)

(* The place of a record in the list is a number, and the list is as long  *)
(* as there are places.                                                    *)
LEMMA PlaceOnList ==
    ASSUME TypeOK
    PROVE  /\ Cardinality(published) \in Nat
           /\ \A p \in Pubs : Newer(p) \in Nat
           /\ \A p \in published : Newer(p) < Cardinality(published)
<1>1. published \subseteq Pubs /\ IsFiniteSet(Pubs) /\ Pubs \subseteq Nat
  BY MapAssumption DEF TypeOK, Exists
<1>2. IsFiniteSet(published) /\ Cardinality(published) \in Nat
  BY <1>1, FS_Subset, FS_CardinalityType
<1>3. ASSUME NEW p \in Pubs
      PROVE  Newer(p) \in Nat /\ (p \in published => Newer(p) < Cardinality(published))
  <2> DEFINE above == {q \in published : q > p}
  <2>1. above \in SUBSET published /\ (p \in published => above # published)
    BY <1>1
  <2>2. IsFiniteSet(above) /\ Cardinality(above) <= Cardinality(published)
    BY <1>2, <2>1, FS_Subset
  <2>3. Cardinality(above) = Cardinality(published) => above = published
    BY <1>2, <2>1, FS_Subset
  <2>4. Cardinality(above) \in Nat
    BY <2>2, FS_CardinalityType
  <2> HIDE DEF above
  <2>5. p \in published => Cardinality(above) < Cardinality(published)
    BY <1>2, <2>1, <2>2, <2>3, <2>4
  <2> QED
    BY <2>4, <2>5 DEF Newer, above
<1> QED
  BY <1>1, <1>2, <1>3

(* A longer list moves nobody up.                                          *)
LEMMA PlaceMonotone ==
    ASSUME TypeOK, published' \subseteq Pubs, published \subseteq published', NEW p \in Pubs
    PROVE  Newer(p)' \in Nat /\ Newer(p) <= Newer(p)'
<1>1. IsFiniteSet(published')
  BY MapAssumption, FS_Subset
<1>2. {q \in published' : q > p} \in SUBSET published'
  OBVIOUS
<1>3. IsFiniteSet({q \in published' : q > p})
  BY <1>1, <1>2, FS_Subset
<1>4. {q \in published : q > p} \in SUBSET {q \in published' : q > p}
  OBVIOUS
<1> QED
  BY <1>3, <1>4, FS_Subset, FS_CardinalityType DEF Newer

(* A page continues where the page before it ended, and the last one ends  *)
(* the list.                                                               *)
LEMMA PagesInARow ==
    ASSUME TypeOK, NEW r \in Runs
    PROVE  LET n == run[r].page IN
           /\ \A p \in published : p \in OnPage(n) \/ Newer(p) < (n - 1) * PageSize
                                      <=> Newer(p) < n * PageSize
           /\ ~HasNextPage(n) => \A p \in published : Newer(p) < n * PageSize
<1> DEFINE n == run[r].page
<1>1. n \in Nat \ {0} /\ PageSize \in Nat \ {0}
  BY MapAssumption DEF TypeOK, RunStates
<1>2. (n - 1) * PageSize \in Int /\ n * PageSize \in Int /\ (n - 1) * PageSize < n * PageSize
  <2> HIDE DEF n
  <2>1. (n - 1) * PageSize = n * PageSize - PageSize
    BY <1>1
  <2> QED
    BY <1>1, <2>1
<1> HIDE DEF n
<1>3. \A p \in published : Newer(p) \in Nat
  BY PlaceOnList DEF TypeOK, Exists
<1>4. \A p \in published : p \in OnPage(n) \/ Newer(p) < (n - 1) * PageSize
                              <=> Newer(p) < n * PageSize
  BY <1>2, <1>3 DEF OnPage
<1>5. ~HasNextPage(n) => \A p \in published : Newer(p) < n * PageSize
  BY <1>2, <1>3, PlaceOnList DEF HasNextPage
<1> QED
  BY <1>4, <1>5 DEF n

----------------------------------------------------------------------------
(* An undisturbed run *)

(* What a run that nobody got in the way of knows at each of its stages:   *)
(* the pages taken so far, the whole list, the rows written so far.        *)
FirstPages(n) == [p \in Pubs |-> IF p \in published /\ Newer(p) < n * PageSize
                                 THEN text[p] ELSE NoText]
Exact(q) ==
    q.alone =>
        /\ q.pc = "listing" => q.docs = FirstPages(q.page - 1)
        /\ q.pc \in {"hashing", "storing", "pruning"} => q.docs = Wanted
        /\ q.pc \in {"storing", "pruning"} => \A p \in Listed(q) \ q.todo : vector[p] = q.docs[p]
        /\ q.pc = "pruning" => q.todo = {}
ExactInv == \A r \in Runs : Exact(run[r])

(* A run that noticed somebody, and one that is not embedding, claim       *)
(* nothing.                                                                *)
LEMMA DisturbedClaimsNothing ==
    ASSUME TypeOK, NEW r \in Runs, NEW gone \in SUBSET Pubs, NEW new \in SUBSET Pubs,
           run'[r] = Noticed(run[r], gone, new)
    PROVE  Exact(run[r])'
<1>1. CASE run[r].pc = "idle"
  <2>1. run'[r].pc = "idle"
    BY <1>1 DEF Noticed
  <2> QED
    BY <2>1 DEF Exact
<1>2. CASE run[r].pc # "idle"
  <2>1. run'[r].alone = FALSE
    BY <1>2 DEF Noticed, TypeOK, RunStates
  <2> QED
    BY <2>1 DEF Exact
<1> QED
  BY <1>1, <1>2

LEMMA OtherPhasesClaimNothing ==
    ASSUME NEW r \in Runs, run'[r].pc \in {"idle", "reading", "clearing", "drawing"}
    PROVE  Exact(run[r])'
BY DEF Exact

(* What a run claims is about the papers, the vectors and itself.          *)
LEMMA SameClaim ==
    ASSUME NEW r \in Runs, Exact(run[r]), run'[r] = run[r],
           UNCHANGED <<text, published, vector>>
    PROVE  Exact(run[r])'
<1>1. \A p \in Pubs : Newer(p)' = Newer(p)
  BY DEF Newer
<1>2. /\ FirstPages(run[r].page - 1)' = FirstPages(run[r].page - 1) /\ Wanted' = Wanted
      /\ Listed(run[r])' = Listed(run[r])
  BY <1>1 DEF FirstPages, Wanted, Listed
<1> QED
  BY <1>2 DEF Exact

LEMMA EditorsKeepExact ==
    ASSUME TypeOK, EditorStep
    PROVE  ExactInv'
<1> DEFINE gone == published \ published'
           new == published' \ published
<1>1. gone \in SUBSET Pubs /\ new \in SUBSET Pubs /\ OthersNotice(gone, new)
  BY EditorNotice DEF TypeOK, Exists
<1> HIDE DEF gone, new
<1>2. \A r \in Runs : run'[r] = Noticed(run[r], gone, new)
  BY <1>1 DEF OthersNotice
<1> QED
  BY <1>1, <1>2, DisturbedClaimsNothing DEF ExactInv

LEMMA RequestsKeepExact ==
    ASSUME TypeOK, ExactInv, RequestStep
    PROVE  ExactInv'
<1>1. ASSUME NEW p \in Pubs, RequestStores(p)
      PROVE  ExactInv'
  <2>1. \A r \in Runs : run'[r] = Noticed(run[r], {}, {})
    BY <1>1 DEF RequestStores, OthersNotice
  <2>2. {} \in SUBSET Pubs
    OBVIOUS
  <2> QED
    BY <2>1, <2>2, DisturbedClaimsNothing DEF ExactInv
<1>2. ASSUME NEW p \in Pubs, RequestReads(p) \/ RequestHashes(p) \/ RequestDies(p)
      PROVE  ExactInv'
  <2>1. UNCHANGED <<text, published, vector, run>>
    BY <1>2 DEF RequestReads, RequestHashes, RequestDies, corpus
  <2> QED
    BY <2>1, SameClaim DEF ExactInv
<1> QED
  BY <1>1, <1>2 DEF RequestStep

LEMMA StartIsExact ==
    ASSUME TypeOK, NEW r \in Runs, NEW f \in BOOLEAN, StartRun(r, f)
    PROVE  Exact(run[r])'
<1>1. run'[r] = [NoRun EXCEPT !.pc = "listing", !.recluster = f]
  BY DEF StartRun, Goes, TypeOK
<1>2. run'[r].pc = "listing" /\ run'[r].page = 1 /\ run'[r].docs = Nothing
  BY <1>1 DEF NoRun
<1>3. UNCHANGED <<text, published>>
  BY DEF StartRun, corpus
<1>4. \A p \in Pubs : ~(Newer(p) < (1 - 1) * PageSize)
  BY PlaceOnList, MapAssumption
<1>5. \A p \in Pubs : Newer(p)' = Newer(p)
  BY <1>3 DEF Newer
<1>6. FirstPages(1 - 1)' = Nothing
  BY <1>3, <1>4, <1>5 DEF FirstPages, Nothing
<1> QED
  BY <1>2, <1>6 DEF Exact

LEMMA PageIsExact ==
    ASSUME TypeOK, NEW r \in Runs, Exact(run[r]), ReadPage(r)
    PROVE  Exact(run[r])'
<1> DEFINE n == run[r].page
<1>1. run[r] \in RunStates /\ run[r].pc = "listing"
  BY DEF TypeOK, ReadPage, At
<1>2. run'[r] = Listing(run[r]) /\ UNCHANGED <<text, published, vector>>
  BY DEF ReadPage, Goes, TypeOK, corpus
<1>3. /\ run'[r].alone = run[r].alone
      /\ run'[r].docs = [p \in Pubs |-> IF p \in OnPage(n) THEN text[p] ELSE run[r].docs[p]]
      /\ run'[r].pc = IF HasNextPage(n) THEN "listing" ELSE "hashing"
      /\ HasNextPage(n) => run'[r].page = n + 1
  BY <1>1, <1>2 DEF Listing, RunStates
<1> SUFFICES ASSUME run[r].alone PROVE Exact(run[r])'
  BY <1>3 DEF Exact
<1>4. run[r].docs = FirstPages(n - 1)
  BY <1>1 DEF Exact
<1>5. run'[r].docs = FirstPages(n)
  BY <1>3, <1>4, PagesInARow DEF FirstPages, OnPage
<1>6. \A p \in Pubs : Newer(p)' = Newer(p)
  BY <1>2 DEF Newer
<1>7. CASE HasNextPage(n)
  <2>1. n \in Nat
    BY <1>1 DEF RunStates
  <2>2. run'[r].page - 1 = n
    BY <1>3, <1>7, <2>1
  <2> HIDE DEF n
  <2>3. \A p \in Pubs : Newer(p)' < (run'[r].page - 1) * PageSize <=> Newer(p) < n * PageSize
    BY <1>6, <2>2
  <2>4. run'[r].docs = [p \in Pubs |->
                          IF p \in published' /\ Newer(p)' < (run'[r].page - 1) * PageSize
                          THEN text'[p] ELSE NoText]
    BY <1>2, <1>5, <2>3 DEF FirstPages
  <2>5. run'[r].docs = FirstPages(run[r].page - 1)'
    BY <2>4 DEF FirstPages
  <2> QED
    BY <1>3, <1>7, <2>5 DEF Exact
<1>8. CASE ~HasNextPage(n)
  <2>1. run'[r].docs = Wanted'
    <3>1. \A p \in published : Newer(p) < n * PageSize
      BY <1>8, PagesInARow
    <3> QED
      BY <1>2, <1>5, <3>1 DEF Wanted, FirstPages
  <2> QED
    BY <1>3, <1>8, <2>1 DEF Exact
<1> QED
  BY <1>7, <1>8

LEMMA HashesAreExact ==
    ASSUME TypeOK, NEW r \in Runs, Exact(run[r]), ReadHashes(r)
    PROVE  Exact(run[r])'
<1>1. run[r] \in RunStates /\ run[r].pc = "hashing"
  BY DEF TypeOK, ReadHashes, At
<1>2. UNCHANGED <<text, published, vector>>
  BY DEF ReadHashes, corpus
<1>3. run'[r] = [run[r] EXCEPT !.todo = Changed(run[r]),
                              !.changed = Changed(run[r]) # {},
                              !.pc = IF Changed(run[r]) = {} THEN "pruning" ELSE "storing"]
  BY DEF ReadHashes, Goes, TypeOK
<1>4. /\ run'[r].alone = run[r].alone /\ run'[r].docs = run[r].docs
      /\ run'[r].todo = Changed(run[r])
      /\ run'[r].pc = IF Changed(run[r]) = {} THEN "pruning" ELSE "storing"
  BY <1>1, <1>3 DEF RunStates
<1>5. Wanted' = Wanted /\ Listed(run[r])' = Listed(run[r])
  BY <1>2, <1>4 DEF Wanted, Listed
<1>6. \A p \in Listed(run[r]) \ Changed(run[r]) : vector[p] = run[r].docs[p]
  BY DEF Changed
<1> QED
  BY <1>1, <1>2, <1>4, <1>5, <1>6 DEF Exact

LEMMA StoreIsExact ==
    ASSUME TypeOK, NEW r \in Runs, Exact(run[r]), NEW p \in Pubs, StoreVector(r, p)
    PROVE  Exact(run[r])'
<1>1. run[r] \in RunStates /\ run[r].pc = "storing" /\ p \in run[r].todo
  BY DEF TypeOK, StoreVector, At
<1>2. UNCHANGED <<text, published>> /\ vector' = [vector EXCEPT ![p] = run[r].docs[p]]
  BY DEF StoreVector, corpus
<1>3. run'[r] = [run[r] EXCEPT !.todo = @ \ {p},
                              !.pc = IF run[r].todo = {p} THEN "pruning" ELSE @]
  BY DEF StoreVector
<1>4. /\ run'[r].alone = run[r].alone /\ run'[r].docs = run[r].docs
      /\ run'[r].todo = run[r].todo \ {p}
      /\ run'[r].pc = IF run[r].todo = {p} THEN "pruning" ELSE "storing"
  BY <1>1, <1>3 DEF RunStates
<1>5. Wanted' = Wanted /\ Listed(run[r])' = Listed(run[r])
  BY <1>2, <1>4 DEF Wanted, Listed
<1>6. ASSUME run[r].alone, NEW s \in Listed(run[r]) \ (run[r].todo \ {p})
      PROVE  vector'[s] = run[r].docs[s]
  BY <1>1, <1>2, <1>6 DEF Exact, TypeOK, Listed
<1> QED
  BY <1>1, <1>4, <1>5, <1>6 DEF Exact

LEMMA RunsKeepExact ==
    ASSUME TypeOK, ExactInv, NEW r \in Runs, Operator(r) \/ RunStep(r) \/ RunDies(r)
    PROVE  ExactInv'
<1>0. Exact(run[r]) /\ {} \in SUBSET Pubs
  BY DEF ExactInv
<1>1. ASSUME NEW q, Goes(r, q), UNCHANGED <<text, published, vector>>, Exact(run[r])'
      PROVE  ExactInv'
  <2>1. \A s \in Runs \ {r} : run'[s] = run[s]
    BY <1>1 DEF Goes, TypeOK
  <2> QED
    BY <1>1, <2>1, SameClaim DEF ExactInv
<1>2. ASSUME NEW q, Goes(r, q), UNCHANGED <<text, published, vector>>,
             q.pc \in {"idle", "reading", "clearing", "drawing"}
      PROVE  ExactInv'
  <2>1. run'[r] = q
    BY <1>2 DEF Goes, TypeOK
  <2> QED
    BY <1>1, <1>2, <2>1, OtherPhasesClaimNothing
<1>3. ASSUME NEW f \in BOOLEAN, StartRun(r, f)
      PROVE  ExactInv'
  BY <1>1, <1>3, StartIsExact DEF StartRun, corpus
<1>4. CASE StartCluster(r)
  <2>1. [NoRun EXCEPT !.pc = "reading"].pc = "reading"
    BY DEF NoRun
  <2> QED
    BY <1>2, <1>4, <2>1 DEF StartCluster, corpus
<1>5. CASE ReadPage(r)
  BY <1>0, <1>1, <1>5, PageIsExact DEF ReadPage, corpus
<1>6. CASE ReadHashes(r)
  BY <1>0, <1>1, <1>6, HashesAreExact DEF ReadHashes, corpus
<1>7. ASSUME NEW p \in Pubs, StoreVector(r, p)
      PROVE  ExactInv'
  <2>1. \A s \in Runs \ {r} : run'[s] = Noticed(run[s], {}, {})
    BY <1>7 DEF StoreVector
  <2> QED
    BY <1>0, <1>7, <2>1, StoreIsExact, DisturbedClaimsNothing DEF ExactInv
<1>8. CASE Prune(r)
  <2>1. run'[r] = NoRun \/ run'[r] = [NoRun EXCEPT !.pc = "reading"]
    BY <1>8 DEF Prune
  <2>2. run'[r].pc \in {"idle", "reading"}
    BY <2>1 DEF NoRun
  <2>3. ASSUME NEW s \in Runs \ {r}
        PROVE  Exact(run[s])'
    <3>1. CASE vector' = vector
      <4>1. run'[s] = run[s] /\ UNCHANGED <<text, published, vector>>
        BY <1>8, <3>1 DEF Prune, corpus
      <4> QED
        BY <4>1, SameClaim DEF ExactInv
    <3>2. CASE vector' # vector
      <4>1. run'[s] = Noticed(run[s], {}, {})
        BY <1>8, <3>2 DEF Prune
      <4> QED
        BY <1>0, <4>1, DisturbedClaimsNothing
    <3> QED
      BY <3>1, <3>2
  <2> QED
    BY <2>2, <2>3, OtherPhasesClaimNothing DEF ExactInv
<1>9. NoRun.pc = "idle" /\ [NoRun EXCEPT !.pc = "clearing", !.docs = vector].pc = "clearing"
  BY DEF NoRun
<1>10. CASE Stops(r) /\ UNCHANGED <<text, published, vector>>
  BY <1>2, <1>9, <1>10 DEF Stops
<1>11. CASE ReadVectors(r)
  <2>1. CASE Stops(r)
    BY <1>10, <1>11, <2>1 DEF ReadVectors, corpus
  <2>2. CASE Goes(r, [NoRun EXCEPT !.pc = "clearing", !.docs = vector])
    BY <1>2, <1>9, <1>11, <2>2 DEF ReadVectors, corpus
  <2> QED
    BY <1>11, <2>1, <2>2 DEF ReadVectors
<1>12. CASE ClearMap(r)
  <2>1. [run[r] EXCEPT !.pc = "drawing", !.todo = Listed(run[r])].pc = "drawing"
    BY DEF TypeOK, RunStates
  <2>2. CASE Stops(r)
    BY <1>10, <1>12, <2>2 DEF ClearMap, corpus
  <2>3. CASE Goes(r, [run[r] EXCEPT !.pc = "drawing", !.todo = Listed(run[r])])
    BY <1>2, <1>12, <2>1, <2>3 DEF ClearMap, corpus
  <2> QED
    BY <1>12, <2>2, <2>3 DEF ClearMap
<1>13. ASSUME NEW p \in Pubs, DrawPoint(r, p)
       PROVE  ExactInv'
  <2>1. [run[r] EXCEPT !.todo = @ \ {p}].pc = "drawing"
    BY <1>13 DEF TypeOK, RunStates, DrawPoint, Drawing, At
  <2>2. CASE Stops(r)
    BY <1>10, <1>13, <2>2 DEF DrawPoint, corpus
  <2>3. CASE Goes(r, [run[r] EXCEPT !.todo = @ \ {p}])
    BY <1>2, <1>13, <2>1, <2>3 DEF DrawPoint, corpus
  <2> QED
    BY <1>13, <2>2, <2>3 DEF DrawPoint
<1>14. ASSUME NEW p \in Pubs, DuplicateKey(r, p)
       PROVE  ExactInv'
  BY <1>10, <1>14 DEF DuplicateKey, corpus
<1>15. CASE RunDies(r)
  BY <1>10, <1>15 DEF RunDies, corpus
<1> QED
  BY <1>3, <1>4, <1>5, <1>6, <1>7, <1>8, <1>11, <1>12, <1>13, <1>14, <1>15
  DEF Operator, RunStep

LEMMA ExactInvariant == Spec => []ExactInv
<1>1. Init => ExactInv
  BY DEF Init, ExactInv, Exact, NoRun
<1>2. ASSUME TypeOK, ExactInv, [Next]_vars
      PROVE  ExactInv'
  <2>1. CASE UNCHANGED vars
    BY <1>2, <2>1, SameClaim DEF vars, corpus, ExactInv
  <2> QED
    BY <1>2, <2>1, EditorsKeepExact, RequestsKeepExact, RunsKeepExact DEF Next
<1> QED
  BY <1>1, <1>2, TypeCorrect, PTL DEF Spec

(* What a run that knows the whole list leaves behind when it prunes.      *)
LEMMA PruneLeavesWanted ==
    ASSUME TypeOK, NEW r \in Runs, Exact(run[r]), run[r].alone, Prunes(r)
    PROVE  vector' = Wanted
<1>1. run[r].pc = "pruning"
  BY DEF Prunes, Prune, At
<1>2. /\ run[r].docs = Wanted
      /\ \A p \in Listed(run[r]) : vector[p] = Wanted[p]
  BY <1>1 DEF Exact
<1>3. vector' = [p \in Pubs |-> IF p \in Orphans(run[r]) THEN NoText ELSE vector[p]]
  BY DEF Prunes, Prune
<1>4. ASSUME NEW p \in Pubs
      PROVE  (IF p \in Orphans(run[r]) THEN NoText ELSE vector[p]) = Wanted[p]
  BY <1>2 DEF Orphans, Listed
<1> QED
  BY <1>3, <1>4 DEF Wanted

(* An embed run that nobody got in the way of leaves the index exact,      *)
(* however many pages, papers and rows there are (embed.run).              *)
THEOREM UndisturbedExact == Spec => UndisturbedRunIsExact
<1>1. TypeOK /\ ExactInv /\ [Next]_vars
        => [\A r \in Runs : Prunes(r) /\ run[r].alone => vector' = Wanted]_vars
  BY PruneLeavesWanted DEF ExactInv
<1> QED
  BY <1>1, TypeCorrect, ExactInvariant, PTL DEF Spec, UndisturbedRunIsExact

----------------------------------------------------------------------------
(* Papers a disturbed run cannot miss *)

(* A paper that was on the list all along, while nobody else left it, has  *)
(* been taken with an earlier page or is still to come.                    *)
Met(q, p) ==
    p \notin q.joined /\ q.left \ {p} = {} =>
        /\ q.pc = "listing" => p \in Listed(q) \/ ~(Newer(p) < (q.page - 1) * PageSize)
        /\ q.pc \in {"hashing", "storing", "pruning"} => p \in Listed(q)
MetInv == \A r \in Runs, p \in published : Met(run[r], p)

(* What a paper's place promises is about the list and the run itself.     *)
LEMMA SamePlace ==
    ASSUME NEW r \in Runs, NEW p \in Pubs, Met(run[r], p), run'[r] = run[r],
           UNCHANGED published
    PROVE  Met(run[r], p)'
<1>1. Newer(p)' = Newer(p) /\ Listed(run[r])' = Listed(run[r])
  BY DEF Newer, Listed
<1> QED
  BY <1>1 DEF Met

LEMMA OtherPhasesMetAll ==
    ASSUME NEW r \in Runs, NEW p \in Pubs, run'[r].pc \in {"idle", "reading", "clearing", "drawing"}
    PROVE  Met(run[r], p)'
BY DEF Met

(* Noticing a change of the list: who is on it now and did not join was on *)
(* it before, and if nobody else left, the list only grew.                 *)
LEMMA NoticeKeepsMet ==
    ASSUME TypeOK, MetInv, published' \subseteq Pubs, NEW r \in Runs, NEW p \in published',
           run'[r] = Noticed(run[r], published \ published', published' \ published)
    PROVE  Met(run[r], p)'
<1>1. CASE run[r].pc = "idle"
  <2>1. run'[r].pc = "idle"
    BY <1>1 DEF Noticed
  <2> QED
    BY <2>1 DEF Met
<1>2. CASE run[r].pc # "idle"
  <2>1. /\ run'[r].pc = run[r].pc /\ run'[r].page = run[r].page /\ run'[r].docs = run[r].docs
        /\ run'[r].left = run[r].left \cup (published \ published')
        /\ run'[r].joined = run[r].joined \cup (published' \ published)
    BY <1>2 DEF Noticed, TypeOK, RunStates
  <2> SUFFICES ASSUME p \notin run'[r].joined, run'[r].left \ {p} = {}
               PROVE  Met(run[r], p)'
    BY DEF Met
  <2>2. p \in published /\ published \subseteq published'
    BY <2>1
  <2>3. Met(run[r], p) /\ p \notin run[r].joined /\ run[r].left \ {p} = {}
    BY <2>1, <2>2 DEF MetInv
  <2>4. Newer(p) \in Nat /\ Newer(p)' \in Nat /\ Newer(p) <= Newer(p)'
    BY <2>2, PlaceOnList, PlaceMonotone
  <2>5. (run[r].page - 1) * PageSize \in Int
    BY MapAssumption DEF TypeOK, RunStates
  <2>6. ~(Newer(p) < (run[r].page - 1) * PageSize)
          => ~(Newer(p)' < (run'[r].page - 1) * PageSize)
    BY <2>1, <2>4, <2>5
  <2>7. Listed(run[r])' = Listed(run[r])
    BY <2>1 DEF Listed
  <2> QED
    BY <2>1, <2>3, <2>6, <2>7 DEF Met
<1> QED
  BY <1>1, <1>2

(* A vector written by somebody else is noticed too, with an unchanged     *)
(* list.                                                                   *)
LEMMA VectorKeepsMet ==
    ASSUME TypeOK, MetInv, UNCHANGED published, NEW r \in Runs, NEW p \in published,
           run'[r] = Noticed(run[r], {}, {})
    PROVE  Met(run[r], p)'
<1>1. published \ published' = {} /\ published' \ published = {} /\ published' \subseteq Pubs
  BY DEF TypeOK, Exists
<1> QED
  BY <1>1, NoticeKeepsMet

LEMMA PageKeepsMet ==
    ASSUME TypeOK, NEW r \in Runs, NEW p \in published, Met(run[r], p), ReadPage(r)
    PROVE  Met(run[r], p)'
<1> DEFINE n == run[r].page
<1>1. run[r] \in RunStates /\ run[r].pc = "listing" /\ p \in Pubs
  BY DEF TypeOK, ReadPage, At, Exists
<1>2. run'[r] = Listing(run[r]) /\ UNCHANGED <<text, published>>
  BY DEF ReadPage, Goes, TypeOK, corpus
<1>3. /\ run'[r].left = run[r].left /\ run'[r].joined = run[r].joined
      /\ run'[r].docs = [s \in Pubs |-> IF s \in OnPage(n) THEN text[s] ELSE run[r].docs[s]]
      /\ run'[r].pc = IF HasNextPage(n) THEN "listing" ELSE "hashing"
      /\ HasNextPage(n) => run'[r].page = n + 1
  BY <1>1, <1>2 DEF Listing, RunStates
<1> SUFFICES ASSUME p \notin run[r].joined, run[r].left \ {p} = {}
             PROVE  Met(run[r], p)'
  BY <1>3 DEF Met
<1>4. text[p] # NoText
  BY MapAssumption DEF TypeOK, Exists
<1>5. p \in OnPage(n) \/ p \in Listed(run[r]) => p \in Listed(run[r])'
  BY <1>1, <1>3, <1>4 DEF Listed
<1>6. p \in Listed(run[r]) \/ ~(Newer(p) < (n - 1) * PageSize)
  BY <1>1 DEF Met
<1>7. Newer(p) < n * PageSize => p \in Listed(run[r])'
  BY <1>5, <1>6, PagesInARow
<1>8. Newer(p)' = Newer(p)
  BY <1>2 DEF Newer
<1>9. CASE HasNextPage(n)
  <2>1. n \in Nat
    BY <1>1 DEF RunStates
  <2>2. run'[r].page - 1 = n
    BY <1>3, <1>9, <2>1
  <2> QED
    BY <1>3, <1>7, <1>8, <1>9, <2>2 DEF Met
<1>10. CASE ~HasNextPage(n)
  <2>1. Newer(p) < n * PageSize
    BY <1>10, PagesInARow
  <2> QED
    BY <1>3, <1>7, <1>10, <2>1 DEF Met
<1> QED
  BY <1>9, <1>10

LEMMA RunsKeepMet ==
    ASSUME TypeOK, MetInv, NEW r \in Runs, Operator(r) \/ RunStep(r) \/ RunDies(r)
    PROVE  MetInv'
<1>0. published \subseteq Pubs
  BY DEF TypeOK, Exists
<1>1. ASSUME NEW q, Goes(r, q), UNCHANGED published, \A p \in published : Met(run[r], p)'
      PROVE  MetInv'
  <2>1. \A s \in Runs \ {r} : run'[s] = run[s]
    BY <1>1 DEF Goes, TypeOK
  <2> QED
    BY <1>0, <1>1, <2>1, SamePlace DEF MetInv
<1>2. ASSUME NEW q, Goes(r, q), UNCHANGED published,
             q.pc \in {"idle", "reading", "clearing", "drawing"}
      PROVE  MetInv'
  <2>1. run'[r] = q
    BY <1>2 DEF Goes, TypeOK
  <2> QED
    BY <1>0, <1>1, <1>2, <2>1, OtherPhasesMetAll
<1>3. ASSUME NEW f \in BOOLEAN, StartRun(r, f)
      PROVE  MetInv'
  <2> DEFINE q == [NoRun EXCEPT !.pc = "listing", !.recluster = f]
  <2>1. Goes(r, q) /\ UNCHANGED published
    BY <1>3 DEF StartRun, corpus
  <2>2. run'[r].pc = "listing" /\ run'[r].page = 1
    BY <2>1 DEF Goes, TypeOK, NoRun
  <2>3. \A p \in published : Newer(p)' \in Nat
    BY <1>0, <2>1, PlaceOnList DEF Newer
  <2>4. \A p \in published : ~(Newer(p)' < (1 - 1) * PageSize)
    BY <2>3, MapAssumption
  <2>5. \A p \in published : Met(run[r], p)'
    BY <2>2, <2>4 DEF Met
  <2> HIDE DEF q
  <2> QED
    BY <1>1, <2>1, <2>5
<1>4. CASE StartCluster(r)
  <2>1. [NoRun EXCEPT !.pc = "reading"].pc = "reading"
    BY DEF NoRun
  <2> QED
    BY <1>2, <1>4, <2>1 DEF StartCluster, corpus
<1>5. CASE ReadPage(r)
  BY <1>1, <1>5, PageKeepsMet DEF ReadPage, corpus, MetInv
<1>6. CASE ReadHashes(r)
  <2> DEFINE q == [run[r] EXCEPT !.todo = Changed(run[r]),
                                 !.changed = Changed(run[r]) # {},
                                 !.pc = IF Changed(run[r]) = {} THEN "pruning" ELSE "storing"]
  <2>1. Goes(r, q) /\ UNCHANGED published /\ run[r].pc = "hashing" /\ run[r] \in RunStates
    BY <1>6 DEF ReadHashes, corpus, At, TypeOK
  <2>2. /\ q.pc \in {"storing", "pruning"} /\ q.docs = run[r].docs
        /\ q.left = run[r].left /\ q.joined = run[r].joined
    BY <2>1 DEF RunStates
  <2> HIDE DEF q
  <2>3. run'[r] = q
    BY <2>1 DEF Goes, TypeOK
  <2>4. Listed(run[r])' = Listed(run[r])
    BY <2>2, <2>3 DEF Listed
  <2>5. \A p \in published : Met(run[r], p)'
    BY <2>1, <2>2, <2>3, <2>4 DEF Met, MetInv
  <2> QED
    BY <1>1, <2>1, <2>5
<1>7. ASSUME NEW v \in Pubs, StoreVector(r, v)
      PROVE  MetInv'
  <2>1. \A s \in Runs \ {r} : run'[s] = Noticed(run[s], {}, {})
    BY <1>7 DEF StoreVector
  <2>2. UNCHANGED published /\ run[r].pc = "storing" /\ run[r] \in RunStates
    BY <1>7 DEF StoreVector, corpus, At, TypeOK
  <2>3. run'[r] = [run[r] EXCEPT !.todo = @ \ {v},
                                !.pc = IF run[r].todo = {v} THEN "pruning" ELSE @]
    BY <1>7 DEF StoreVector
  <2>4. /\ run'[r].pc \in {"storing", "pruning"} /\ run'[r].docs = run[r].docs
        /\ run'[r].left = run[r].left /\ run'[r].joined = run[r].joined
    BY <2>2, <2>3 DEF RunStates
  <2>5. Listed(run[r])' = Listed(run[r])
    BY <2>4 DEF Listed
  <2>6. \A p \in published : Met(run[r], p)'
    BY <2>2, <2>4, <2>5 DEF Met, MetInv
  <2> QED
    BY <2>1, <2>2, <2>6, VectorKeepsMet DEF MetInv
<1>8. CASE Prune(r)
  <2>1. run'[r] = NoRun \/ run'[r] = [NoRun EXCEPT !.pc = "reading"]
    BY <1>8 DEF Prune
  <2>2. run'[r].pc \in {"idle", "reading"} /\ UNCHANGED published
    BY <1>8, <2>1 DEF NoRun, Prune, corpus
  <2>3. ASSUME NEW s \in Runs \ {r}, NEW p \in published
        PROVE  Met(run[s], p)'
    <3>1. run'[s] = run[s] \/ run'[s] = Noticed(run[s], {}, {})
      BY <1>8 DEF Prune
    <3>2. Met(run[s], p) /\ p \in Pubs
      BY <1>0 DEF MetInv
    <3> QED
      BY <2>2, <3>1, <3>2, SamePlace, VectorKeepsMet
  <2> QED
    BY <1>0, <2>2, <2>3, OtherPhasesMetAll DEF MetInv
<1>9. NoRun.pc = "idle" /\ [NoRun EXCEPT !.pc = "clearing", !.docs = vector].pc = "clearing"
  BY DEF NoRun
<1>10. CASE Stops(r) /\ UNCHANGED published
  BY <1>2, <1>9, <1>10 DEF Stops
<1>11. CASE ReadVectors(r)
  <2>1. CASE Stops(r)
    BY <1>10, <1>11, <2>1 DEF ReadVectors, corpus
  <2>2. CASE Goes(r, [NoRun EXCEPT !.pc = "clearing", !.docs = vector])
    BY <1>2, <1>9, <1>11, <2>2 DEF ReadVectors, corpus
  <2> QED
    BY <1>11, <2>1, <2>2 DEF ReadVectors
<1>12. CASE ClearMap(r)
  <2>1. [run[r] EXCEPT !.pc = "drawing", !.todo = Listed(run[r])].pc = "drawing"
    BY DEF TypeOK, RunStates
  <2>2. CASE Stops(r)
    BY <1>10, <1>12, <2>2 DEF ClearMap, corpus
  <2>3. CASE Goes(r, [run[r] EXCEPT !.pc = "drawing", !.todo = Listed(run[r])])
    BY <1>2, <1>12, <2>1, <2>3 DEF ClearMap, corpus
  <2> QED
    BY <1>12, <2>2, <2>3 DEF ClearMap
<1>13. ASSUME NEW p \in Pubs, DrawPoint(r, p)
       PROVE  MetInv'
  <2>1. [run[r] EXCEPT !.todo = @ \ {p}].pc = "drawing"
    BY <1>13 DEF TypeOK, RunStates, DrawPoint, Drawing, At
  <2>2. CASE Stops(r)
    BY <1>10, <1>13, <2>2 DEF DrawPoint, corpus
  <2>3. CASE Goes(r, [run[r] EXCEPT !.todo = @ \ {p}])
    BY <1>2, <1>13, <2>1, <2>3 DEF DrawPoint, corpus
  <2> QED
    BY <1>13, <2>2, <2>3 DEF DrawPoint
<1>14. ASSUME NEW p \in Pubs, DuplicateKey(r, p)
       PROVE  MetInv'
  BY <1>10, <1>14 DEF DuplicateKey, corpus
<1>15. CASE RunDies(r)
  BY <1>10, <1>15 DEF RunDies, corpus
<1> QED
  BY <1>3, <1>4, <1>5, <1>6, <1>7, <1>8, <1>11, <1>12, <1>13, <1>14, <1>15
  DEF Operator, RunStep

LEMMA MetInvariant == Spec => []MetInv
<1>1. Init => MetInv
  BY DEF Init, MetInv, Met, NoRun
<1>2. ASSUME TypeOK, MetInv, [Next]_vars
      PROVE  MetInv'
  <2>0. published \subseteq Pubs
    BY <1>2 DEF TypeOK, Exists
  <2>1. CASE UNCHANGED vars
    BY <1>2, <2>0, <2>1, SamePlace DEF vars, corpus, MetInv
  <2>2. CASE EditorStep
    <3>1. /\ published' \subseteq Pubs
          /\ \A r \in Runs : run'[r] = Noticed(run[r], published \ published', published' \ published)
      BY <1>2, <2>2, EditorNotice DEF OthersNotice
    <3> QED
      BY <1>2, <3>1, NoticeKeepsMet DEF MetInv
  <2>3. ASSUME NEW p \in Pubs, RequestStores(p)
        PROVE  MetInv'
    <3>1. UNCHANGED published /\ \A r \in Runs : run'[r] = Noticed(run[r], {}, {})
      BY <2>3 DEF RequestStores, OthersNotice, corpus
    <3> QED
      BY <1>2, <3>1, VectorKeepsMet DEF MetInv
  <2>4. ASSUME NEW p \in Pubs, RequestReads(p) \/ RequestHashes(p) \/ RequestDies(p)
        PROVE  MetInv'
    <3>1. UNCHANGED <<published, run>>
      BY <2>4 DEF RequestReads, RequestHashes, RequestDies, corpus
    <3> QED
      BY <1>2, <2>0, <3>1, SamePlace DEF MetInv
  <2> QED
    BY <1>2, <2>1, <2>2, <2>3, <2>4, RunsKeepMet DEF Next, RequestStep
<1> QED
  BY <1>1, <1>2, TypeCorrect, PTL DEF Spec

(* A live paper loses its vector to a run only if somebody else left the   *)
(* list meanwhile, or it joined the list itself (embed.run's prune after   *)
(* payload_api.find_all).                                                  *)
THEOREM PruneSparesTheListed == Spec => LivePrunedOnlyWhenListMoved
<1>1. ASSUME MetInv, NEW r \in Runs, NEW p \in Pubs,
             Prunes(r), p \in published, vector[p] # NoText, vector'[p] = NoText
      PROVE  run[r].left \ {p} # {} \/ p \in run[r].joined
  <2>1. p \in Orphans(run[r]) /\ run[r].pc = "pruning"
    BY <1>1 DEF Prunes, Prune, At
  <2> QED
    BY <1>1, <2>1 DEF Orphans, MetInv, Met
<1>2. MetInv /\ [Next]_vars
        => [\A r \in Runs, p \in Pubs :
              Prunes(r) /\ p \in published /\ vector[p] # NoText /\ vector'[p] = NoText =>
                 run[r].left \ {p} # {} \/ p \in run[r].joined]_vars
  BY <1>1
<1> QED
  BY <1>2, MetInvariant, PTL DEF Spec, LivePrunedOnlyWhenListMoved
=============================================================================
