--------------------------- MODULE KbIndexProofs ---------------------------
(***************************************************************************)
(* Proofs about KbIndex for every set of documents, contents, models,      *)
(* chunking configurations, syncs and workers, with or without faults.     *)
(***************************************************************************)
EXTENDS KbIndex, TLAPS

-----------------------------------------------------------------------------
(* Type correctness *)

\* A sync registers only files it has listed: the version it wants of any
\* other file would have no content.
LeftIsListed ==
    \A s \in Syncs : sync[s].pc \in {"scan", "deleting", "upsert", "enqueue"} =>
        \A d \in sync[s].left : sync[s].listing[d] # NoFile

TypeInv == TypeOK /\ LeftIsListed

LEMMA InitType == Init => TypeOK
BY KbAssumption DEF Init, TypeOK, SyncStates, IngestStates, SyncPcs, IngestPcs

\* Moving the program counter of a sync keeps its type.
LEMMA SyncGotoType ==
    ASSUME TypeOK, NEW s \in Syncs, NEW p \in SyncPcs, SyncGoto(s, p)
    PROVE  sync' \in [Syncs -> SyncStates]
<1>1. [sync[s] EXCEPT !.pc = p] \in SyncStates
  BY DEF TypeOK, SyncStates
<1> QED
  BY <1>1 DEF SyncGoto, TypeOK

\* So does a return.
LEMMA SyncReturnsType ==
    ASSUME TypeOK, NEW s \in Syncs, NEW p \in {"done", "failed"}, SyncReturns(s, p)
    PROVE  sync' \in [Syncs -> SyncStates]
<1>1. [sync[s] EXCEPT !.pc = p, !.recut = FALSE, !.reindex = FALSE,
                      !.listing = [d \in Docs |-> NoFile],
                      !.gone = {}, !.removed = {}, !.left = {}, !.held = {}] \in SyncStates
  BY ZenonT(40) DEF TypeOK, SyncStates, SyncPcs
<1> QED
  BY <1>1 DEF SyncReturns, TypeOK

\* Every step of a sync keeps the types.
LEMMA SyncStepType ==
    ASSUME TypeInv, NEW s \in Syncs, SyncStep(s) \/ SyncFails(s)
    PROVE  TypeOK'
<1> USE DEF TypeInv
<1>0. sync[s] \in SyncStates
  BY DEF TypeOK
<1>1. CASE SyncStart(s)
  <2>1. PICK m \in Models, k \in Cuts :
          sync' = [sync EXCEPT ![s] =
                    [@ EXCEPT !.pc = "chunking", !.model = m, !.cut = k,
                              !.recut = (kbCut # k), !.reindex = (kbModel # m \/ kbCut # k),
                              !.listing = folder]]
    BY <1>1 DEF SyncStart
  <2>2. [sync[s] EXCEPT !.pc = "chunking", !.model = m, !.cut = k,
                        !.recut = (kbCut # k), !.reindex = (kbModel # m \/ kbCut # k),
                        !.listing = folder] \in SyncStates
    BY <1>0 DEF TypeOK, SyncStates, SyncPcs
  <2>3. sync' \in [Syncs -> SyncStates]
    BY <2>1, <2>2 DEF TypeOK
  <2> QED
    BY <1>1, <2>3 DEF SyncStart, TypeOK, kbVars
<1>2. CASE SyncChunking(s)
  <2>1. sync' \in [Syncs -> SyncStates]
    BY <1>2, SyncGotoType DEF SyncChunking, SyncPcs
  <2>2. kbCut' \in Cuts
    BY <1>0, <1>2 DEF SyncChunking, TypeOK, SyncStates
  <2> QED
    BY <1>2, <2>1, <2>2 DEF SyncChunking, TypeOK
<1>3. CASE SyncIndexing(s)
  <2>1. sync' \in [Syncs -> SyncStates]
    BY <1>3, SyncGotoType DEF SyncIndexing, SyncPcs
  <2>2. kbModel' \in Models
    BY <1>0, <1>3 DEF SyncIndexing, SyncStates
  <2> QED
    BY <1>3, <2>1, <2>2 DEF SyncIndexing, TypeOK
<1>4. CASE SyncMarking(s)
  <2>1. sync' \in [Syncs -> SyncStates]
    BY <1>4, SyncGotoType DEF SyncMarking, SyncPcs
  <2>2. \A d \in Docs : \A r \in row[d] :
          [r EXCEPT !.status = "pending", !.ident = sync[s].model] \in Rows
    <3> SUFFICES ASSUME NEW r \in Rows
                 PROVE  [r EXCEPT !.status = "pending", !.ident = sync[s].model] \in Rows
      BY DEF TypeOK
    <3>1. sync[s].model \in Models
      BY <1>0 DEF SyncStates
    <3> QED
      BY <3>1 DEF Rows
  <2>3. row' \in [Docs -> SUBSET Rows]
    BY <1>4, <2>2 DEF SyncMarking
  <2> QED
    BY <1>4, <2>1, <2>3 DEF SyncMarking, TypeOK, kbVars
<1>5. CASE SyncListing(s)
  <2> DEFINE gone == {d \in Docs : row[d] # {} /\ sync[s].listing[d] = NoFile}
  <2>1. [sync[s] EXCEPT !.pc = "scan", !.gone = gone, !.left = Listed(s)] \in SyncStates
    BY <1>0 DEF SyncStates, SyncPcs, Listed
  <2>2. sync' \in [Syncs -> SyncStates]
    BY <1>5, <2>1 DEF SyncListing, TypeOK
  <2> QED
    BY <1>5, <2>2 DEF SyncListing, TypeOK, kbVars
<1>6. ASSUME NEW d \in Docs, SyncRemove(s, d) PROVE TypeOK'
  <2>1. [sync[s] EXCEPT !.pc = "deleting", !.gone = sync[s].gone \ {d}, !.removed = {d}] \in SyncStates
    BY <1>0 DEF SyncStates, SyncPcs
  <2>2. sync' \in [Syncs -> SyncStates]
    BY <1>6, <2>1 DEF SyncRemove, TypeOK
  <2> QED
    BY <1>6, <2>2 DEF SyncRemove, TypeOK, kbVars
<1>7. ASSUME NEW d \in Docs, SyncDelete(s, d) PROVE TypeOK'
  <2>1. [sync[s] EXCEPT !.pc = "scan", !.removed = {}] \in SyncStates
    BY <1>0 DEF SyncStates, SyncPcs
  <2>2. sync' \in [Syncs -> SyncStates]
    BY <1>7, <2>1 DEF SyncDelete, TypeOK
  <2> QED
    BY <1>7, <2>2 DEF SyncDelete, DeleteDocument, TypeOK, kbVars
<1>8. ASSUME NEW d \in Docs, SyncLook(s, d) PROVE TypeOK'
  <2>1. sync' \in [Syncs -> SyncStates]
    <3>1. CASE sync' = [sync EXCEPT ![s].left = @ \ {d}]
      <4>1. [sync[s] EXCEPT !.left = @ \ {d}] \in SyncStates
        BY <1>0 DEF SyncStates
      <4> QED
        BY <3>1, <4>1 DEF TypeOK
    <3>2. CASE SyncReturns(s, "failed")
      BY <3>2, SyncReturnsType
    <3> DEFINE t == [doc |-> d, print |-> Wanted(s, d), ident |-> sync[s].model, content |-> folder[d]]
    <3>3. CASE /\ folder[d] # NoFile
               /\ sync' = [sync EXCEPT ![s] =
                             [@ EXCEPT !.pc = "upsert", !.left = sync[s].left \ {d}, !.held = {t}]]
      <4>1. sync[s].listing[d] \in Contents
        BY <1>0, <1>8 DEF SyncLook, LeftIsListed, SyncStates
      <4>2. t \in Payloads
        BY <1>0, <3>3, <4>1 DEF TypeOK, SyncStates, Wanted, Payloads, Prints
      <4>3. [sync[s] EXCEPT !.pc = "upsert", !.left = sync[s].left \ {d}, !.held = {t}] \in SyncStates
        BY <1>0, <4>2 DEF SyncStates, SyncPcs
      <4> QED
        BY <3>3, <4>3 DEF TypeOK
    <3> QED
      BY <1>8, <3>1, <3>2, <3>3 DEF SyncLook
  <2> QED
    BY <1>8, <2>1 DEF SyncLook, TypeOK, kbVars
<1>9. ASSUME NEW t \in sync[s].held, SyncUpsert(s, t) PROVE TypeOK'
  <2>1. sync' \in [Syncs -> SyncStates]
    BY <1>9, SyncGotoType DEF SyncUpsert, SyncPcs
  <2>2. t \in Payloads
    BY <1>0 DEF SyncStates
  <2>3. [print |-> t.print, ident |-> t.ident, status |-> "pending"] \in Rows
    BY <2>2 DEF Payloads, Rows
  <2>4. row' \in [Docs -> SUBSET Rows]
    BY <1>9, <2>3 DEF SyncUpsert, UpsertDocument, TypeOK
  <2> QED
    BY <1>9, <2>1, <2>4 DEF SyncUpsert, TypeOK, kbVars
<1>10. ASSUME NEW t \in sync[s].held, SyncEnqueue(s, t) PROVE TypeOK'
  <2>1. t \in Payloads
    BY <1>0 DEF SyncStates
  <2>2. [sync[s] EXCEPT !.pc = "scan", !.held = {}] \in SyncStates
    BY <1>0 DEF SyncStates, SyncPcs
  <2>3. sync' \in [Syncs -> SyncStates]
    BY <1>10, <2>2 DEF SyncEnqueue, TypeOK
  <2> QED
    BY <1>10, <2>1, <2>3 DEF SyncEnqueue, TypeOK, kbVars
<1>11. CASE SyncActivate(s)
  BY <1>11, SyncReturnsType DEF SyncActivate, ActivateKBIfReady, TypeOK
<1>12. CASE SyncFails(s)
  BY <1>12, SyncReturnsType DEF SyncFails, TypeOK, kbVars
<1> QED
  BY <1>1, <1>2, <1>3, <1>4, <1>5, <1>6, <1>7, <1>8, <1>9, <1>10, <1>11, <1>12 DEF SyncStep


\* ... and goes on looking only at files it has listed.
LEMMA SyncStepLeft ==
    ASSUME TypeInv, NEW s \in Syncs, SyncStep(s) \/ SyncFails(s)
    PROVE  LeftIsListed'
<1> USE DEF TypeInv
<1> DEFINE Scanning == {"scan", "deleting", "upsert", "enqueue"}
<1> SUFFICES ASSUME NEW u \in Syncs, sync'[u].pc \in Scanning, NEW d \in sync'[u].left
             PROVE  sync'[u].listing[d] # NoFile
  BY DEF LeftIsListed
<1>0. /\ sync[s] \in SyncStates
      /\ sync \in [Syncs -> SyncStates]
      /\ \A v \in Syncs : sync[v].pc \in Scanning =>
            \A e \in sync[v].left : sync[v].listing[e] # NoFile
  BY DEF TypeOK, LeftIsListed
<1>1. CASE u # s
  <2>1. sync'[u] = sync[u]
    BY <1>0, <1>1 DEF SyncStep, SyncFails, SyncStart, SyncChunking, SyncIndexing, SyncMarking,
       SyncListing, SyncRemove, SyncDelete, SyncLook, SyncUpsert, SyncEnqueue, SyncActivate,
       SyncGoto, SyncReturns
  <2> QED
    BY <1>0, <2>1
<1>2. CASE u = s
  <2>1. CASE SyncListing(s)
    BY <1>0, <1>2, <2>1 DEF SyncListing, Listed, SyncStates
  <2>2. ASSUME NEW p \in {"done", "failed"}, SyncReturns(s, p) PROVE sync'[s].pc \notin Scanning
    BY <1>0, <2>2 DEF SyncReturns, SyncStates
  <2>3. CASE SyncStart(s)
    <3>1. sync'[s].pc = "chunking"
      BY <1>0, <2>3 DEF SyncStart, SyncStates
    <3> QED
      BY <1>2, <3>1
  <2>4. CASE SyncChunking(s) \/ SyncIndexing(s) \/ SyncMarking(s)
    <3>1. PICK p \in {"indexing", "marking", "listing"} : SyncGoto(s, p)
      BY <2>4 DEF SyncChunking, SyncIndexing, SyncMarking
    <3>2. sync'[s].pc = p
      BY <1>0, <3>1 DEF SyncGoto, SyncStates
    <3> QED
      BY <1>2, <3>2
  <2>5. CASE /\ sync[s].pc \in Scanning
             /\ sync'[s].left \subseteq sync[s].left
             /\ sync'[s].listing = sync[s].listing
    BY <1>0, <1>2, <2>5
  <2>6. ASSUME NEW e \in Docs, SyncRemove(s, e)
        PROVE  /\ sync'[s].left = sync[s].left
               /\ sync'[s].listing = sync[s].listing
    <3>1. sync'[s] = [sync[s] EXCEPT !.pc = "deleting", !.gone = sync[s].gone \ {e}, !.removed = {e}]
      BY <1>0, <2>6 DEF SyncRemove
    <3> QED
      BY <1>0, <3>1 DEF SyncStates
  <2>7. ASSUME NEW e \in Docs, SyncDelete(s, e)
        PROVE  /\ sync'[s].left = sync[s].left
               /\ sync'[s].listing = sync[s].listing
    <3>1. sync'[s] = [sync[s] EXCEPT !.pc = "scan", !.removed = {}]
      BY <1>0, <2>7 DEF SyncDelete
    <3> QED
      BY <1>0, <3>1 DEF SyncStates
  <2>8. ASSUME NEW e \in Docs, SyncLook(s, e), ~SyncReturns(s, "failed")
        PROVE  /\ sync'[s].left \subseteq sync[s].left
               /\ sync'[s].listing = sync[s].listing
    <3> DEFINE t == [doc |-> e, print |-> Wanted(s, e), ident |-> sync[s].model, content |-> folder[e]]
    <3>1. \/ sync'[s] = [sync[s] EXCEPT !.left = sync[s].left \ {e}]
          \/ sync'[s] = [sync[s] EXCEPT !.pc = "upsert", !.left = sync[s].left \ {e}, !.held = {t}]
      BY <1>0, <2>8 DEF SyncLook
    <3>2. CASE sync'[s] = [sync[s] EXCEPT !.left = sync[s].left \ {e}]
      BY <1>0, <3>2 DEF SyncStates
    <3> HIDE DEF t
    <3>3. CASE sync'[s] = [sync[s] EXCEPT !.pc = "upsert", !.left = sync[s].left \ {e}, !.held = {t}]
      BY <1>0, <3>3 DEF SyncStates
    <3> QED
      BY <3>1, <3>2, <3>3
  <2>9. ASSUME NEW t \in sync[s].held, SyncUpsert(s, t) \/ SyncEnqueue(s, t)
        PROVE  /\ sync'[s].left = sync[s].left
               /\ sync'[s].listing = sync[s].listing
    <3>1. CASE SyncUpsert(s, t)
      BY <1>0, <3>1 DEF SyncUpsert, SyncGoto, SyncStates
    <3>2. CASE SyncEnqueue(s, t)
      <4>1. sync'[s] = [sync[s] EXCEPT !.pc = "scan", !.held = {}]
        BY <1>0, <3>2 DEF SyncEnqueue
      <4> QED
        BY <1>0, <4>1 DEF SyncStates
    <3> QED
      BY <2>9, <3>1, <3>2
  <2>10. ASSUME NEW e \in Docs, SyncRemove(s, e) \/ SyncDelete(s, e) \/ SyncLook(s, e)
         PROVE  sync[s].pc \in Scanning
    BY <2>10 DEF SyncRemove, SyncDelete, SyncLook
  <2>11. ASSUME NEW t \in sync[s].held, SyncUpsert(s, t) \/ SyncEnqueue(s, t)
         PROVE  sync[s].pc \in Scanning
    BY <2>11 DEF SyncUpsert, SyncEnqueue
  <2> QED
    BY <1>2, <2>1, <2>2, <2>3, <2>4, <2>5, <2>6, <2>7, <2>8, <2>9, <2>10, <2>11
       DEF SyncStep, SyncFails, SyncActivate
<1> QED
  BY <1>1, <1>2


\* Moving the program counter of a worker keeps its type, and so does giving
\* its task back.
LEMMA IngestGotoType ==
    ASSUME TypeOK, NEW w \in Workers, NEW p \in IngestPcs, IngestGoto(w, p)
    PROVE  ingest' \in [Workers -> IngestStates]
<1>1. [ingest[w] EXCEPT !.pc = p] \in IngestStates
  BY DEF TypeOK, IngestStates
<1> QED
  BY <1>1 DEF IngestGoto, TypeOK

LEMMA IngestIdleType ==
    ASSUME TypeOK, NEW w \in Workers,
           ingest' = [ingest EXCEPT ![w] = [@ EXCEPT !.pc = "idle", !.held = {}]]
    PROVE  ingest' \in [Workers -> IngestStates]
<1>1. [ingest[w] EXCEPT !.pc = "idle", !.held = {}] \in IngestStates
  BY DEF TypeOK, IngestStates, IngestPcs
<1> QED
  BY <1>1 DEF TypeOK

\* Marking a document keeps the type of its row.
LEMMA MarkStatusType ==
    ASSUME TypeOK, NEW t, NEW st \in {"processed", "error"}, MarkStatus(t, st)
    PROVE  row' \in [Docs -> SUBSET Rows]
<1>1. \A d \in Docs : \A r \in row[d] :
        (IF r.print = t.print /\ r.ident = t.ident THEN [r EXCEPT !.status = st] ELSE r) \in Rows
  <2>1. \A r \in Rows : [r EXCEPT !.status = st] \in Rows
    BY DEF Rows
  <2> QED
    BY <2>1 DEF TypeOK
<1> DEFINE Mark(r) == IF r.print = t.print /\ r.ident = t.ident THEN [r EXCEPT !.status = st] ELSE r
<1>2. \A d \in Docs : {Mark(r) : r \in row[d]} \in SUBSET Rows
  BY <1>1
<1>3. row' = [row EXCEPT ![t.doc] = {Mark(r) : r \in row[t.doc]}]
  BY DEF MarkStatus
<1> HIDE DEF Mark
<1> QED
  BY <1>2, <1>3 DEF TypeOK

\* Every step of a worker keeps the types.
LEMMA IngestStepType ==
    ASSUME TypeOK, NEW w \in Workers,
           \/ IngestStep(w)
           \/ \E t \in queued : Take(w, t)
           \/ \E t \in ingest[w].held : IngestFails(w, t)
    PROVE  TypeOK'
<1>0. ingest[w] \in IngestStates /\ \A t \in ingest[w].held : t \in Payloads
  BY DEF TypeOK, IngestStates
<1>1. ASSUME NEW t \in ingest[w].held, Check(w, t) PROVE TypeOK'
  <2>1. ingest' \in [Workers -> IngestStates]
    BY <1>1, IngestGotoType DEF Check, IngestPcs
  <2> QED
    BY <1>1, <2>1 DEF Check, TypeOK, kbVars
<1>2. CASE Embed(w) \/ StageFails(w)
  <2>1. ingest' \in [Workers -> IngestStates]
    BY <1>2, IngestGotoType DEF Embed, StageFails, IngestPcs
  <2> QED
    BY <1>2, <2>1 DEF Embed, StageFails, TypeOK, kbVars
<1>3. ASSUME NEW t \in ingest[w].held, IndexIfCurrent(w, t) PROVE TypeOK'
  <2>1. ingest' \in [Workers -> IngestStates]
    BY <1>3, IngestGotoType DEF IndexIfCurrent, IngestPcs
  <2>2. row' \in [Docs -> SUBSET Rows]
    BY <1>3, MarkStatusType DEF IndexIfCurrent, TypeOK
  <2>3. [print |-> t.print, label |-> t.ident, content |-> t.content,
         space |-> ingest[w].model, cut |-> ingest[w].cut] \in Chunks
    BY <1>0 DEF IngestStates, Payloads, Chunks
  <2>4. index' \in [Docs -> SUBSET Chunks]
    BY <1>3, <2>3 DEF IndexIfCurrent, TypeOK
  <2> QED
    BY <1>3, <2>1, <2>2, <2>4 DEF IndexIfCurrent, TypeOK, kbVars
<1>4. ASSUME NEW t \in ingest[w].held, Activate(w, t) PROVE TypeOK'
  <2>1. ingest' \in [Workers -> IngestStates]
    BY <1>4, IngestGotoType DEF Activate, IngestPcs
  <2> QED
    BY <1>4, <2>1 DEF Activate, ActivateKBIfReady, TypeOK
<1>5. ASSUME NEW t \in ingest[w].held, Return(w, t) \/ Archive(w, t) PROVE TypeOK'
  <2>1. ingest' \in [Workers -> IngestStates]
    BY <1>5, IngestIdleType DEF Return, Archive
  <2> QED
    BY <1>5, <2>1 DEF Return, Archive, TypeOK, kbVars
<1>6. ASSUME NEW t \in ingest[w].held, Fail(w, t) PROVE TypeOK'
  <2>1. ingest' \in [Workers -> IngestStates]
    BY <1>6, IngestIdleType, IngestGotoType DEF Fail, Retry, IngestPcs
  <2>2. row' \in [Docs -> SUBSET Rows]
    BY <1>6, MarkStatusType DEF Fail, TypeOK
  <2> QED
    BY <1>0, <1>6, <2>1, <2>2 DEF Fail, Retry, TypeOK, kbVars
<1>7. ASSUME NEW t \in ingest[w].held, IngestFails(w, t) PROVE TypeOK'
  <2>1. ingest' \in [Workers -> IngestStates]
    BY <1>7, IngestIdleType, IngestGotoType DEF IngestFails, Retry, IngestPcs
  <2> QED
    BY <1>0, <1>7, <2>1 DEF IngestFails, Retry, TypeOK, kbVars
<1>8. ASSUME NEW t \in queued, Take(w, t) PROVE TypeOK'
  <2>1. ingest' \in [Workers -> IngestStates]
    BY <1>8 DEF Take, TypeOK, IngestStates, IngestPcs
  <2> QED
    BY <1>8, <2>1 DEF Take, TypeOK, kbVars
<1> QED
  BY <1>1, <1>2, <1>3, <1>4, <1>5, <1>6, <1>7, <1>8 DEF IngestStep

\* The workers, the queue and the folder leave the syncs alone.
LEMMA OtherStepSync ==
    ASSUME NEW w \in Workers,
           \/ IngestStep(w)
           \/ \E t \in queued : Take(w, t)
           \/ \E t \in ingest[w].held : IngestFails(w, t)
    PROVE  sync' = sync
BY DEF IngestStep, Check, Embed, StageFails, IndexIfCurrent, Activate, Return, Fail, Archive,
   IngestFails, Take

LEMMA TypeStep == TypeInv /\ [Next]_vars => TypeInv'
<1> SUFFICES ASSUME TypeInv, [Next]_vars PROVE TypeInv'
  OBVIOUS
<1>1. ASSUME NEW s \in Syncs, SyncStep(s) \/ SyncFails(s) PROVE TypeInv'
  BY <1>1, SyncStepType, SyncStepLeft DEF TypeInv
<1>2. ASSUME NEW w \in Workers,
             \/ IngestStep(w)
             \/ \E t \in queued : Take(w, t)
             \/ \E t \in ingest[w].held : IngestFails(w, t)
      PROVE  TypeInv'
  BY <1>2, IngestStepType, OtherStepSync DEF TypeInv, LeftIsListed
<1>3. ASSUME NEW t \in locked, UniqueLockExpires(t) PROVE TypeInv'
  BY <1>3 DEF UniqueLockExpires, TypeInv, TypeOK, LeftIsListed, kbVars
<1>4. ASSUME NEW d \in Docs, NEW c \in Contents \cup {NoFile}, EditFile(d, c) PROVE TypeInv'
  BY <1>4, KbAssumption DEF EditFile, TypeInv, TypeOK, LeftIsListed, kbVars
<1>5. CASE UNCHANGED vars
  BY <1>5 DEF vars, TypeInv, TypeOK, LeftIsListed, kbVars
<1> QED
  BY <1>1, <1>2, <1>3, <1>4, <1>5 DEF Next

\* Every variable keeps its type whatever syncs, workers, faults and edits do;
\* in particular a fingerprint always names content the connector has listed
\* (syncConnector, IngestDocumentVersion).
THEOREM KbTypeCorrect == Spec => []TypeOK
<1>1. Init => TypeInv
  BY InitType DEF TypeInv, LeftIsListed, Init
<1>2. TypeInv => TypeOK
  BY DEF TypeInv
<1> QED
  BY <1>1, <1>2, TypeStep, PTL DEF Spec


-----------------------------------------------------------------------------
(* What the index holds *)

\* A document has one row.
OneRow == \A d \in Docs : \A r1, r2 \in row[d] : r1 = r2

\* A worker has one task.
OneTask == \A w \in Workers : \A t1, t2 \in ingest[w].held : t1 = t2

\* A worker embeds only tasks of its own model, so the label a chunk gets from
\* its task is the model that embedded it.
OwnModel ==
    \A w \in Workers : ingest[w].pc \in {"embed", "index"} =>
        \A t \in ingest[w].held : ingest[w].model = t.ident

LabelIsSpace == \A d \in Docs : \A c \in index[d] : c.space = c.label

\* The chunks of a processed document were made for the version of its row.
ProcessedMatches ==
    \A d \in Docs : \A r \in row[d], c \in index[d] :
        r.status = "processed" => c.print = r.print /\ c.label = r.ident

IndexInv == OneRow /\ OneTask /\ OwnModel /\ LabelIsSpace /\ ProcessedMatches /\ NoOrphanChunks


\* Each part is a state predicate of three variables.
LEMMA IndexInvUnchanged == IndexInv /\ UNCHANGED <<row, index, ingest>> => IndexInv'
BY DEF IndexInv, OneRow, OneTask, OwnModel, LabelIsSpace, ProcessedMatches, NoOrphanChunks

LEMMA SyncStepIndex ==
    ASSUME TypeInv, IndexInv, NEW s \in Syncs, SyncStep(s) \/ SyncFails(s)
    PROVE  IndexInv'
<1> USE DEF IndexInv
<1>0. row \in [Docs -> SUBSET Rows] /\ index \in [Docs -> SUBSET Chunks]
  BY DEF TypeInv, TypeOK
<1>1. CASE UNCHANGED <<row, index, ingest>>
  BY <1>1, IndexInvUnchanged
<1>2. CASE SyncMarking(s)
  <2> DEFINE Mark(r) == [r EXCEPT !.status = "pending", !.ident = sync[s].model]
  <2>1. \A d \in Docs : row'[d] = {Mark(r) : r \in row[d]}
    BY <1>2 DEF SyncMarking
  <2>2. index' = index /\ ingest' = ingest
    BY <1>2 DEF SyncMarking
  <2>3. \A d \in Docs : \A r \in row[d] : Mark(r).status = "pending"
    BY <1>0 DEF Rows
  <2> HIDE DEF Mark
  <2>4. OneRow' /\ NoOrphanChunks'
    BY <2>1, <2>2 DEF OneRow, NoOrphanChunks
  <2>5. ProcessedMatches'
    BY <2>1, <2>2, <2>3 DEF ProcessedMatches
  <2> QED
    BY <2>2, <2>4, <2>5 DEF OneTask, OwnModel, LabelIsSpace
<1>3. ASSUME NEW d \in Docs, SyncRemove(s, d) PROVE IndexInv'
  BY <1>0, <1>3 DEF SyncRemove, OneRow, OneTask, OwnModel, LabelIsSpace, ProcessedMatches, NoOrphanChunks
<1>4. ASSUME NEW d \in Docs, SyncDelete(s, d) PROVE IndexInv'
  BY <1>0, <1>4 DEF SyncDelete, DeleteDocument, OneRow, OneTask, OwnModel, LabelIsSpace,
     ProcessedMatches, NoOrphanChunks
<1>5. ASSUME NEW t \in sync[s].held, SyncUpsert(s, t) PROVE IndexInv'
  <2>1. t.doc \in Docs
    BY DEF TypeInv, TypeOK, SyncStates, Payloads
  <2>2. index' = index /\ ingest' = ingest
    BY <1>5 DEF SyncUpsert
  <2>3. row' = [row EXCEPT ![t.doc] = {[print |-> t.print, ident |-> t.ident, status |-> "pending"]}]
    BY <1>5 DEF SyncUpsert, UpsertDocument
  <2>4. OneRow' /\ NoOrphanChunks'
    BY <1>0, <2>1, <2>2, <2>3 DEF OneRow, NoOrphanChunks
  <2>5. ProcessedMatches'
    BY <1>0, <2>1, <2>2, <2>3 DEF ProcessedMatches
  <2> QED
    BY <2>2, <2>4, <2>5 DEF OneTask, OwnModel, LabelIsSpace
<1> QED
  BY <1>1, <1>2, <1>3, <1>4, <1>5 DEF SyncStep, SyncFails, SyncStart, SyncChunking, SyncIndexing,
     SyncListing, SyncLook, SyncEnqueue, SyncActivate

\* Marking a document changes the status of its row and nothing else.
LEMMA MarkStatusRows ==
    ASSUME TypeOK, OneRow, NEW t \in Payloads, NEW st \in {"processed", "error"}, MarkStatus(t, st)
    PROVE  /\ \A d \in Docs \ {t.doc} : row'[d] = row[d]
           /\ row'[t.doc] = {} <=> row[t.doc] = {}
           /\ OneRow'
           /\ \A r \in row'[t.doc] : r \in row[t.doc] \/ (r.print = t.print /\ r.ident = t.ident /\ r.status = st)
<1> DEFINE Mark(r) == IF r.print = t.print /\ r.ident = t.ident THEN [r EXCEPT !.status = st] ELSE r
<1>0. t.doc \in Docs /\ row \in [Docs -> SUBSET Rows]
  BY DEF TypeOK, Payloads
<1>1. row' = [row EXCEPT ![t.doc] = {Mark(r) : r \in row[t.doc]}]
  BY DEF MarkStatus
<1>2. \A r \in row[t.doc] : \/ Mark(r) = r
                            \/ Mark(r).print = t.print /\ Mark(r).ident = t.ident /\ Mark(r).status = st
  BY <1>0 DEF Rows
<1> HIDE DEF Mark
<1>3. row'[t.doc] = {Mark(r) : r \in row[t.doc]} /\ \A d \in Docs \ {t.doc} : row'[d] = row[d]
  BY <1>0, <1>1
<1> QED
  BY <1>0, <1>2, <1>3 DEF OneRow


LEMMA IngestStepIndex ==
    ASSUME TypeInv, IndexInv, NEW w \in Workers,
           \/ IngestStep(w)
           \/ \E t \in queued : Take(w, t)
           \/ \E t \in ingest[w].held : IngestFails(w, t)
    PROVE  IndexInv'
<1> USE DEF IndexInv
<1>0. /\ TypeOK
      /\ ingest \in [Workers -> IngestStates]
      /\ index \in [Docs -> SUBSET Chunks]
      /\ \A t \in ingest[w].held : t \in Payloads /\ t.doc \in Docs
  BY DEF TypeInv, TypeOK, IngestStates, Payloads
<1>1. ASSUME UNCHANGED <<row, index>>, OneTask', OwnModel' PROVE IndexInv'
  BY <1>1 DEF OneRow, LabelIsSpace, ProcessedMatches, NoOrphanChunks
<1>2. ASSUME NEW p \in IngestPcs, IngestGoto(w, p),
             p \in {"embed", "index"} => \A t \in ingest[w].held : ingest[w].model = t.ident
      PROVE  OneTask' /\ OwnModel'
  <2>1. /\ ingest'[w].pc = p
        /\ ingest'[w].held = ingest[w].held
        /\ ingest'[w].model = ingest[w].model
        /\ \A v \in Workers \ {w} : ingest'[v] = ingest[v]
    BY <1>0, <1>2 DEF IngestGoto, IngestStates
  <2> QED
    BY <1>2, <2>1 DEF OneTask, OwnModel
<1>3. ASSUME ingest' = [ingest EXCEPT ![w] = [@ EXCEPT !.pc = "idle", !.held = {}]]
      PROVE  OneTask' /\ OwnModel'
  <2>1. ingest'[w] = [ingest[w] EXCEPT !.pc = "idle", !.held = {}]
    BY <1>0, <1>3
  <2>2. ingest'[w].pc = "idle" /\ ingest'[w].held = {}
    BY <1>0, <2>1 DEF IngestStates
  <2>3. \A v \in Workers \ {w} : ingest'[v] = ingest[v]
    BY <1>0, <1>3
  <2> QED
    BY <2>2, <2>3 DEF OneTask, OwnModel
<1>4. ASSUME NEW t \in queued, Take(w, t) PROVE IndexInv'
  <2>1. OneTask' /\ OwnModel'
    BY <1>0, <1>4 DEF Take, OneTask, OwnModel
  <2> QED
    BY <1>1, <1>4, <2>1 DEF Take
<1>5. ASSUME NEW t \in ingest[w].held, Check(w, t) PROVE IndexInv'
  <2>1. CASE CurrentVersion(w, t)
    <3>1. IngestGoto(w, "embed")
      BY <1>5, <2>1 DEF Check
    <3>2. \A u \in ingest[w].held : ingest[w].model = u.ident
      BY <2>1 DEF OneTask, CurrentVersion
    <3> QED
      BY <1>1, <1>2, <1>5, <3>1, <3>2 DEF Check, IngestPcs
  <2>2. CASE ~CurrentVersion(w, t)
    BY <1>1, <1>2, <1>5, <2>2 DEF Check, IngestPcs
  <2> QED
    BY <2>1, <2>2
<1>6. CASE Embed(w)
  <2>1. \A u \in ingest[w].held : ingest[w].model = u.ident
    BY <1>6 DEF Embed, OwnModel
  <2> QED
    BY <1>1, <1>2, <1>6, <2>1 DEF Embed, IngestPcs
<1>7. CASE StageFails(w)
  BY <1>1, <1>2, <1>7 DEF StageFails, IngestPcs
<1>8. ASSUME NEW t \in ingest[w].held, IndexIfCurrent(w, t) PROVE IndexInv'
  <2>1. CASE ~Current(t)
    BY <1>1, <1>2, <1>8, <2>1 DEF IndexIfCurrent, IngestPcs
  <2>2. CASE Current(t)
    <3> DEFINE c == [print |-> t.print, label |-> t.ident, content |-> t.content,
                     space |-> ingest[w].model, cut |-> ingest[w].cut]
    <3>1. OneTask' /\ OwnModel'
      BY <1>2, <1>8, <2>2 DEF IndexIfCurrent, IngestPcs
    <3>2. /\ index'[t.doc] = {c}
          /\ \A d \in Docs \ {t.doc} : index'[d] = index[d]
      BY <1>0, <1>8, <2>2 DEF IndexIfCurrent
    <3>3. c.print = t.print /\ c.label = t.ident /\ c.space = t.ident
      BY <1>8 DEF IndexIfCurrent, OwnModel
    <3> HIDE DEF c
    <3>4. /\ \A d \in Docs \ {t.doc} : row'[d] = row[d]
          /\ row'[t.doc] = {} <=> row[t.doc] = {}
          /\ OneRow'
          /\ \A r \in row'[t.doc] : r \in row[t.doc] \/ (r.print = t.print /\ r.ident = t.ident)
      BY <1>0, <1>8, <2>2, MarkStatusRows DEF IndexIfCurrent
    <3>5. \A r \in row[t.doc] : r.print = t.print /\ r.ident = t.ident
      BY <1>0, <2>2 DEF Current, OneRow
    <3>6. ProcessedMatches'
      BY <1>0, <3>2, <3>3, <3>4, <3>5 DEF ProcessedMatches
    <3>7. LabelIsSpace'
      BY <1>0, <3>2, <3>3 DEF LabelIsSpace
    <3>8. NoOrphanChunks'
      BY <1>0, <2>2, <3>2, <3>4 DEF NoOrphanChunks, Current
    <3> QED
      BY <3>1, <3>4, <3>6, <3>7, <3>8
  <2> QED
    BY <2>1, <2>2
<1>9. ASSUME NEW t \in ingest[w].held, Activate(w, t) PROVE IndexInv'
  BY <1>1, <1>2, <1>9 DEF Activate, IngestPcs
<1>10. ASSUME NEW t \in ingest[w].held, Return(w, t) \/ Archive(w, t) \/ IngestFails(w, t)
       PROVE  IndexInv'
  BY <1>1, <1>2, <1>3, <1>10 DEF Return, Archive, IngestFails, Retry, IngestPcs
<1>11. ASSUME NEW t \in ingest[w].held, Fail(w, t) PROVE IndexInv'
  <2>1. OneTask' /\ OwnModel'
    BY <1>2, <1>3, <1>11 DEF Fail, Retry, IngestPcs
  <2>2. index' = index
    BY <1>11 DEF Fail
  <2>3. CASE row' = row
    BY <1>1, <2>1, <2>2, <2>3
  <2>4. CASE MarkStatus(t, "error")
    <3>1. /\ \A d \in Docs \ {t.doc} : row'[d] = row[d]
          /\ row'[t.doc] = {} <=> row[t.doc] = {}
          /\ OneRow'
          /\ \A r \in row'[t.doc] : r \in row[t.doc] \/ r.status = "error"
      BY <1>0, <2>4, MarkStatusRows
    <3>2. ProcessedMatches' /\ LabelIsSpace' /\ NoOrphanChunks'
      BY <1>0, <2>2, <3>1 DEF ProcessedMatches, LabelIsSpace, NoOrphanChunks
    <3> QED
      BY <2>1, <3>1, <3>2
  <2> QED
    BY <1>11, <2>3, <2>4 DEF Fail
<1> QED
  BY <1>4, <1>5, <1>6, <1>7, <1>8, <1>9, <1>10, <1>11 DEF IngestStep


LEMMA IndexStep == TypeInv /\ IndexInv /\ [Next]_vars => IndexInv'
<1> SUFFICES ASSUME TypeInv, IndexInv, [Next]_vars PROVE IndexInv'
  OBVIOUS
<1>1. ASSUME NEW s \in Syncs, SyncStep(s) \/ SyncFails(s) PROVE IndexInv'
  BY <1>1, SyncStepIndex
<1>2. ASSUME NEW w \in Workers,
             \/ IngestStep(w)
             \/ \E t \in queued : Take(w, t)
             \/ \E t \in ingest[w].held : IngestFails(w, t)
      PROVE  IndexInv'
  BY <1>2, IngestStepIndex
<1>3. CASE UNCHANGED <<row, index, ingest>>
  BY <1>3, IndexInvUnchanged
<1> QED
  BY <1>1, <1>2, <1>3 DEF Next, vars, UniqueLockExpires, EditFile

LEMMA InitInv == Init => TypeInv /\ IndexInv
<1> SUFFICES ASSUME Init PROVE TypeInv /\ IndexInv
  OBVIOUS
<1>1. TypeInv
  BY InitType DEF TypeInv, LeftIsListed, Init
<1> QED
  BY <1>1 DEF Init, IndexInv, OneRow, OneTask, OwnModel, LabelIsSpace, ProcessedMatches, NoOrphanChunks

\* Chunks a search can see are in the searcher's vector space and belong to the
\* version of their document, for every number of documents, models, syncs and
\* workers (Search, IndexIfCurrent, currentDocumentVersion).
THEOREM SearchSound == Spec => []SearchIsSound
<1>1. TypeInv /\ IndexInv => SearchIsSound
  <2> SUFFICES ASSUME IndexInv, NEW m \in Models, NEW d \in Docs, d \in Visible(m), NEW c \in index[d]
               PROVE  c.space = m /\ \A r \in row[d] : c.print = r.print
    BY DEF SearchIsSound, Visible
  <2>1. PICK r \in row[d] : r.status = "processed" /\ r.ident = m
    BY DEF Visible
  <2>2. \A q \in row[d] : q = r
    BY DEF IndexInv, OneRow
  <2> QED
    BY <2>1, <2>2 DEF IndexInv, LabelIsSpace, ProcessedMatches
<1> QED
  BY <1>1, InitInv, TypeStep, IndexStep, PTL DEF Spec

\* A deleted document leaves no chunks behind (RemoveDocument, DeleteDocument).
THEOREM NoOrphans == Spec => []NoOrphanChunks
<1>1. TypeInv /\ IndexInv => NoOrphanChunks
  BY DEF IndexInv
<1> QED
  BY <1>1, InitInv, TypeStep, IndexStep, PTL DEF Spec

\* A knowledge base is reopened only in one vector space (BeginKBReindex,
\* ActivateKBIfReady).
THEOREM ReopenedUniform == Spec => ReopenedIsUniform
<1>1. ASSUME TypeInv, IndexInv, Next, kbStatus = "indexing", kbStatus' = "active"
      PROVE  \A d \in Docs : \A c \in index'[d] : c.space = kbModel'
  <2>1. PICK m : ActivateKBIfReady(m) /\ UNCHANGED <<row, index>>
    <3>1. CASE \E s \in Syncs : SyncActivate(s)
      BY <3>1 DEF SyncActivate
    <3>2. CASE \E w \in Workers : \E t \in ingest[w].held : Activate(w, t)
      BY <3>2 DEF Activate
    <3>3. CASE kbStatus' = kbStatus \/ kbStatus' = "indexing"
      BY <1>1, <3>3
    <3> QED
      BY <1>1, <3>1, <3>2, <3>3 DEF Next, SyncStep, SyncFails, SyncStart, SyncChunking, SyncIndexing,
         SyncMarking, SyncListing, SyncRemove, SyncDelete, SyncLook, SyncUpsert, SyncEnqueue,
         IngestStep, Check, Embed, StageFails, IndexIfCurrent, Return, Fail, Archive, IngestFails, Take,
         UniqueLockExpires, EditFile, kbVars
  <2>2. ReadyToActivate(m) /\ kbModel' = m
    BY <1>1, <2>1 DEF ActivateKBIfReady, ReadyToActivate
  <2>3. \A d \in Docs : \A c \in index[d] : c.space = m
    <3> SUFFICES ASSUME NEW d \in Docs, NEW c \in index[d] PROVE c.space = m
      OBVIOUS
    <3>1. PICK r \in row[d] : r.status = "processed" /\ r.ident = m
      BY <1>1, <2>2 DEF IndexInv, NoOrphanChunks, ReadyToActivate
    <3> QED
      BY <1>1, <3>1 DEF IndexInv, LabelIsSpace, ProcessedMatches
  <2> QED
    BY <2>1, <2>2, <2>3
<1>2. TypeInv /\ IndexInv /\ [Next]_vars =>
        [kbStatus = "indexing" /\ kbStatus' = "active" =>
           \A d \in Docs : \A c \in index'[d] : c.space = kbModel']_vars
  BY <1>1
<1> QED
  BY <1>2, InitInv, TypeStep, IndexStep, PTL DEF Spec, ReopenedIsUniform

-----------------------------------------------------------------------------
(* Removal and activation *)

\* A sync that has not been called or has returned.
Resting == {"start", "done", "failed"}

\* A step of one sync leaves the local state of the others alone.
LEMMA SyncStepOthers ==
    ASSUME TypeInv, NEW s \in Syncs, SyncStep(s) \/ SyncFails(s)
    PROVE  \A u \in Syncs \ {s} : sync'[u] = sync[u]
BY DEF TypeInv, TypeOK, SyncStep, SyncFails, SyncStart, SyncChunking, SyncIndexing, SyncMarking,
   SyncListing, SyncRemove, SyncDelete, SyncLook, SyncUpsert, SyncEnqueue, SyncActivate,
   SyncGoto, SyncReturns

LEMMA SyncGotoMoves ==
    ASSUME TypeOK, NEW s \in Syncs, NEW p \in SyncPcs, SyncGoto(s, p)
    PROVE  /\ sync'[s].pc = p
           /\ sync'[s].model = sync[s].model
           /\ sync'[s].removed = sync[s].removed
BY DEF TypeOK, SyncStates, SyncGoto

LEMMA SyncReturnsMoves ==
    ASSUME TypeOK, NEW s \in Syncs, NEW p \in {"done", "failed"}, SyncReturns(s, p)
    PROVE  /\ sync'[s].pc = p
           /\ sync'[s].model = sync[s].model
           /\ sync'[s].removed = {}
<1>1. sync'[s] = [sync[s] EXCEPT !.pc = p, !.recut = FALSE, !.reindex = FALSE,
                                 !.listing = [d \in Docs |-> NoFile],
                                 !.gone = {}, !.removed = {}, !.left = {}, !.held = {}]
  BY DEF TypeOK, SyncReturns
<1> QED
  BY <1>1 DEF TypeOK, SyncStates

\* What a step does to the sync that takes it: it goes on, fails, or returns
\* through ActivateKBIfReady, and only its first step chooses a model.
SyncMoved(s) ==
    /\ sync[s].pc \notin {"done", "failed"}
    /\ SyncStart(s) \/ sync'[s].model = sync[s].model
    /\ \/ sync'[s].pc \notin Resting
       \/ sync'[s].pc = "failed"
       \/ sync'[s].pc = "done" /\ SyncActivate(s)
    /\ \/ sync'[s].removed = sync[s].removed
       \/ \A d, e \in sync'[s].removed : d = e
    /\ sync[s].pc = "deleting" =>
          \/ \E e \in sync[s].removed : SyncDelete(s, e)
          \/ Faults /\ sync'[s].pc = "failed"

LEMMA SyncStepMoves ==
    ASSUME TypeInv, NEW s \in Syncs, SyncStep(s) \/ SyncFails(s)
    PROVE  SyncMoved(s)
<1>0. TypeOK /\ sync[s] \in SyncStates /\ sync \in [Syncs -> SyncStates]
  BY DEF TypeInv, TypeOK
<1>1. CASE SyncStart(s)
  <2>1. PICK m \in Models, k \in Cuts :
          sync'[s] = [sync[s] EXCEPT !.pc = "chunking", !.model = m, !.cut = k,
                                     !.recut = (kbCut # k), !.reindex = (kbModel # m \/ kbCut # k),
                                     !.listing = folder]
    BY <1>0, <1>1 DEF SyncStart
  <2>2. sync'[s].pc = "chunking" /\ sync'[s].removed = sync[s].removed
    BY <1>0, <2>1 DEF SyncStates
  <2> QED
    BY <1>1, <2>2 DEF SyncMoved, SyncStart, Resting
<1>2. CASE SyncChunking(s) \/ SyncIndexing(s) \/ SyncMarking(s)
  <2>1. PICK p \in {"indexing", "marking", "listing"} : SyncGoto(s, p)
    BY <1>2 DEF SyncChunking, SyncIndexing, SyncMarking
  <2>2. sync[s].pc \in {"chunking", "indexing", "marking"}
    BY <1>2 DEF SyncChunking, SyncIndexing, SyncMarking
  <2>3. sync'[s].pc = p /\ sync'[s].model = sync[s].model /\ sync'[s].removed = sync[s].removed
    BY <1>0, <2>1, SyncGotoMoves DEF SyncPcs
  <2> QED
    BY <2>2, <2>3 DEF SyncMoved, Resting
<1>3. CASE SyncListing(s)
  <2> DEFINE gone == {d \in Docs : row[d] # {} /\ sync[s].listing[d] = NoFile}
  <2>1. sync'[s] = [sync[s] EXCEPT !.pc = "scan", !.gone = gone, !.left = Listed(s)]
    BY <1>0, <1>3 DEF SyncListing
  <2> HIDE DEF gone
  <2>2. /\ sync'[s].pc = "scan"
        /\ sync'[s].model = sync[s].model
        /\ sync'[s].removed = sync[s].removed
    BY <1>0, <2>1 DEF SyncStates
  <2> QED
    BY <1>3, <2>2 DEF SyncMoved, SyncListing, Resting
<1>4. ASSUME NEW d \in Docs, SyncRemove(s, d) PROVE SyncMoved(s)
  <2>1. sync'[s] = [sync[s] EXCEPT !.pc = "deleting", !.gone = sync[s].gone \ {d}, !.removed = {d}]
    BY <1>0, <1>4 DEF SyncRemove
  <2>2. sync'[s].pc = "deleting" /\ sync'[s].model = sync[s].model /\ sync'[s].removed = {d}
    BY <1>0, <2>1 DEF SyncStates
  <2> QED
    BY <1>4, <2>2 DEF SyncMoved, SyncRemove, Resting
<1>5. ASSUME NEW d \in Docs, SyncDelete(s, d) PROVE SyncMoved(s)
  <2>1. sync'[s] = [sync[s] EXCEPT !.pc = "scan", !.removed = {}]
    BY <1>0, <1>5 DEF SyncDelete
  <2>2. sync'[s].pc = "scan" /\ sync'[s].model = sync[s].model /\ sync'[s].removed = {}
    BY <1>0, <2>1 DEF SyncStates
  <2>3. sync[s].pc = "deleting" /\ d \in sync[s].removed
    BY <1>5 DEF SyncDelete
  <2> QED
    BY <1>5, <2>2, <2>3 DEF SyncMoved, Resting
<1>6. ASSUME NEW d \in Docs, SyncLook(s, d) PROVE SyncMoved(s)
  <2> DEFINE t == [doc |-> d, print |-> Wanted(s, d), ident |-> sync[s].model, content |-> folder[d]]
  <2>1. \/ sync'[s] = [sync[s] EXCEPT !.left = sync[s].left \ {d}]
        \/ sync'[s] = [sync[s] EXCEPT !.pc = "upsert", !.left = sync[s].left \ {d}, !.held = {t}]
        \/ SyncReturns(s, "failed")
    BY <1>0, <1>6 DEF SyncLook
  <2> HIDE DEF t
  <2>2. sync[s].pc = "scan"
    BY <1>6 DEF SyncLook
  <2>3. CASE sync'[s] = [sync[s] EXCEPT !.left = sync[s].left \ {d}]
    BY <1>0, <2>2, <2>3 DEF SyncMoved, SyncStates, Resting
  <2>4. CASE sync'[s] = [sync[s] EXCEPT !.pc = "upsert", !.left = sync[s].left \ {d}, !.held = {t}]
    BY <1>0, <2>2, <2>4 DEF SyncMoved, SyncStates, Resting
  <2>5. CASE SyncReturns(s, "failed")
    <3>1. /\ sync'[s].pc = "failed"
          /\ sync'[s].model = sync[s].model
          /\ sync'[s].removed = {}
      BY <1>0, <2>5, SyncReturnsMoves
    <3> QED
      BY <1>6, <2>2, <3>1 DEF SyncMoved
  <2> QED
    BY <2>1, <2>3, <2>4, <2>5
<1>7. ASSUME NEW t \in sync[s].held, SyncUpsert(s, t) PROVE SyncMoved(s)
  <2>1. /\ sync'[s].pc = "enqueue"
        /\ sync'[s].model = sync[s].model
        /\ sync'[s].removed = sync[s].removed
    BY <1>0, <1>7, SyncGotoMoves DEF SyncUpsert, SyncPcs
  <2> QED
    BY <1>7, <2>1 DEF SyncMoved, SyncUpsert, Resting
<1>8. ASSUME NEW t \in sync[s].held, SyncEnqueue(s, t) PROVE SyncMoved(s)
  <2>1. sync'[s] = [sync[s] EXCEPT !.pc = "scan", !.held = {}]
    BY <1>0, <1>8 DEF SyncEnqueue
  <2>2. /\ sync'[s].pc = "scan"
        /\ sync'[s].model = sync[s].model
        /\ sync'[s].removed = sync[s].removed
    BY <1>0, <2>1 DEF SyncStates
  <2> QED
    BY <1>8, <2>2 DEF SyncMoved, SyncEnqueue, Resting
<1>9. CASE SyncActivate(s)
  <2>1. /\ sync'[s].pc = "done"
        /\ sync'[s].model = sync[s].model
        /\ sync'[s].removed = {}
    BY <1>0, <1>9, SyncReturnsMoves DEF SyncActivate
  <2>2. sync[s].pc = "scan"
    BY <1>9 DEF SyncActivate
  <2> QED
    BY <1>9, <2>1, <2>2 DEF SyncMoved
<1>10. CASE SyncFails(s)
  <2>1. /\ sync'[s].pc = "failed"
        /\ sync'[s].model = sync[s].model
        /\ sync'[s].removed = {}
    BY <1>0, <1>10, SyncReturnsMoves DEF SyncFails
  <2>2. Faults /\ sync[s].pc \notin {"done", "failed"}
    BY <1>10 DEF SyncFails
  <2> QED
    BY <2>1, <2>2 DEF SyncMoved
<1> QED
  BY <1>1, <1>2, <1>3, <1>4, <1>5, <1>6, <1>7, <1>8, <1>9, <1>10 DEF SyncStep

\* RemoveDocument is called for one document at a time.
RemovesOne == \A s \in Syncs : \A d, e \in sync[s].removed : d = e

\* A processed document without chunks is between RemoveDocument and
\* DeleteDocument, or a sync was cut off there.
BeingRemoved ==
    \A d \in Docs : (\E r \in row[d] : r.status = "processed") /\ index[d] = {} =>
        \E s \in Syncs : \/ sync[s].pc = "deleting" /\ d \in sync[s].removed
                         \/ Faults /\ sync[s].pc = "failed"

RemovalInv == RemovesOne /\ BeingRemoved

LEMMA SyncStepRemovesOne ==
    ASSUME TypeInv, RemovesOne, NEW s \in Syncs, SyncStep(s) \/ SyncFails(s)
    PROVE  RemovesOne'
<1>1. SyncMoved(s) /\ \A u \in Syncs \ {s} : sync'[u] = sync[u]
  BY SyncStepMoves, SyncStepOthers
<1>2. \A d, e \in sync'[s].removed : d = e
  BY <1>1 DEF SyncMoved, RemovesOne
<1> QED
  BY <1>1, <1>2 DEF RemovesOne

LEMMA SyncStepRemoval ==
    ASSUME TypeInv, RemovalInv, NEW s \in Syncs, SyncStep(s) \/ SyncFails(s)
    PROVE  BeingRemoved'
<1> USE DEF RemovalInv
<1>0. /\ row \in [Docs -> SUBSET Rows]
      /\ index \in [Docs -> SUBSET Chunks]
      /\ sync[s] \in SyncStates
      /\ sync \in [Syncs -> SyncStates]
  BY DEF TypeInv, TypeOK
<1> DEFINE Witness(u, d) == \/ sync[u].pc = "deleting" /\ d \in sync[u].removed
                            \/ Faults /\ sync[u].pc = "failed"
<1> SUFFICES ASSUME NEW d \in Docs, NEW r \in row'[d], r.status = "processed", index'[d] = {}
             PROVE  \E u \in Syncs : Witness(u, d)'
  BY DEF BeingRemoved
<1>1. SyncMoved(s) /\ \A u \in Syncs \ {s} : sync'[u] = sync[u]
  BY SyncStepMoves, SyncStepOthers
<1>2. ASSUME row'[d] = row[d], index'[d] = index[d],
             sync[s].pc = "deleting" => d \notin sync[s].removed \/ (Faults /\ sync'[s].pc = "failed")
      PROVE  \E u \in Syncs : Witness(u, d)'
  <2>1. PICK u \in Syncs : Witness(u, d)
    BY <1>2 DEF BeingRemoved
  <2>2. CASE u # s
    BY <1>1, <2>1, <2>2
  <2>3. CASE u = s
    BY <1>1, <1>2, <2>1, <2>3 DEF SyncMoved
  <2> QED
    BY <2>2, <2>3
<1>3. CASE SyncMarking(s)
  <2> DEFINE Mark(q) == [q EXCEPT !.status = "pending", !.ident = sync[s].model]
  <2>1. row'[d] = {Mark(q) : q \in row[d]}
    BY <1>3 DEF SyncMarking
  <2>2. \A q \in row[d] : Mark(q).status = "pending"
    BY <1>0 DEF Rows
  <2> HIDE DEF Mark
  <2> QED
    BY <2>1, <2>2
<1>4. ASSUME NEW e \in Docs, SyncRemove(s, e) PROVE \E u \in Syncs : Witness(u, d)'
  <2>1. CASE d = e
    <3>1. sync'[s] = [sync[s] EXCEPT !.pc = "deleting", !.gone = sync[s].gone \ {e}, !.removed = {e}]
      BY <1>0, <1>4 DEF SyncRemove
    <3>2. sync'[s].pc = "deleting" /\ sync'[s].removed = {e}
      BY <1>0, <3>1 DEF SyncStates
    <3> QED
      BY <2>1, <3>2
  <2>2. CASE d # e
    <3>1. row'[d] = row[d] /\ index'[d] = index[d] /\ sync[s].pc = "scan"
      BY <1>0, <1>4, <2>2 DEF SyncRemove
    <3> QED
      BY <1>2, <3>1
  <2> QED
    BY <2>1, <2>2
<1>5. ASSUME NEW e \in Docs, SyncDelete(s, e) PROVE \E u \in Syncs : Witness(u, d)'
  <2>1. CASE d = e
    BY <1>0, <1>5, <2>1 DEF SyncDelete, DeleteDocument
  <2>2. CASE d # e
    <3>1. row'[d] = row[d] /\ index'[d] = index[d] /\ e \in sync[s].removed
      BY <1>0, <1>5, <2>2 DEF SyncDelete, DeleteDocument
    <3>2. d \notin sync[s].removed
      BY <2>2, <3>1 DEF RemovesOne
    <3> QED
      BY <1>2, <3>1, <3>2
  <2> QED
    BY <2>1, <2>2
<1>6. ASSUME NEW t \in sync[s].held, SyncUpsert(s, t) PROVE \E u \in Syncs : Witness(u, d)'
  <2>1. /\ row' = [row EXCEPT ![t.doc] = {[print |-> t.print, ident |-> t.ident, status |-> "pending"]}]
        /\ index' = index
        /\ sync[s].pc = "upsert"
    BY <1>6 DEF SyncUpsert, UpsertDocument
  <2>2. d # t.doc
    BY <1>0, <2>1
  <2>3. row'[d] = row[d]
    BY <1>0, <2>1, <2>2
  <2> QED
    BY <1>2, <2>1, <2>3
<1>7. ASSUME UNCHANGED <<row, index>>, \A e \in sync[s].removed : ~SyncDelete(s, e)
      PROVE  \E u \in Syncs : Witness(u, d)'
  <2>1. sync[s].pc = "deleting" => Faults /\ sync'[s].pc = "failed"
    BY <1>1, <1>7 DEF SyncMoved
  <2> QED
    BY <1>2, <1>7, <2>1
<1>8. (\E e \in sync[s].removed : SyncDelete(s, e)) => \E e \in Docs : SyncDelete(s, e)
  BY <1>0 DEF SyncStates
<1>9. \/ SyncMarking(s)
      \/ \E e \in Docs : SyncRemove(s, e) \/ SyncDelete(s, e)
      \/ \E t \in sync[s].held : SyncUpsert(s, t)
      \/ UNCHANGED <<row, index>>
  BY DEF SyncStep, SyncFails, SyncStart, SyncChunking, SyncIndexing,
     SyncListing, SyncLook, SyncEnqueue, SyncActivate
<1> QED
  BY <1>3, <1>4, <1>5, <1>6, <1>7, <1>8, <1>9

LEMMA IngestStepRemoval ==
    ASSUME TypeInv, IndexInv, RemovalInv, NEW w \in Workers,
           \/ IngestStep(w)
           \/ \E t \in queued : Take(w, t)
           \/ \E t \in ingest[w].held : IngestFails(w, t)
    PROVE  RemovalInv'
<1> USE DEF RemovalInv
<1>0. /\ TypeOK /\ OneRow
      /\ row \in [Docs -> SUBSET Rows]
      /\ index \in [Docs -> SUBSET Chunks]
      /\ sync' = sync
      /\ \A t \in ingest[w].held : t \in Payloads /\ t.doc \in Docs
  BY OtherStepSync DEF TypeInv, TypeOK, IngestStates, Payloads, IndexInv
<1>1. CASE UNCHANGED <<row, index>>
  BY <1>0, <1>1 DEF RemovesOne, BeingRemoved
<1>2. ASSUME NEW t \in ingest[w].held, MarkStatus(t, "processed"), index'[t.doc] # {},
             \A d \in Docs \ {t.doc} : index'[d] = index[d]
      PROVE  RemovalInv'
  <2>1. \A d \in Docs \ {t.doc} : row'[d] = row[d]
    BY <1>0, <1>2, MarkStatusRows
  <2> QED
    BY <1>0, <1>2, <2>1 DEF RemovesOne, BeingRemoved
<1>3. ASSUME NEW t \in ingest[w].held, MarkStatus(t, "error"), index' = index
      PROVE  RemovalInv'
  <2>1. /\ \A d \in Docs \ {t.doc} : row'[d] = row[d]
        /\ \A r \in row'[t.doc] : r \in row[t.doc] \/ r.status = "error"
    BY <1>0, <1>3, MarkStatusRows
  <2>2. \A d \in Docs : \A r \in row'[d] : r.status = "processed" => r \in row[d]
    BY <2>1
  <2> QED
    BY <1>0, <1>3, <2>2 DEF RemovesOne, BeingRemoved
<1>4. ASSUME NEW t \in ingest[w].held, IndexIfCurrent(w, t) PROVE RemovalInv'
  <2>1. CASE ~Current(t)
    BY <1>1, <1>4, <2>1 DEF IndexIfCurrent
  <2>2. CASE Current(t)
    <3>1. index'[t.doc] # {} /\ \A d \in Docs \ {t.doc} : index'[d] = index[d]
      BY <1>0, <1>4, <2>2 DEF IndexIfCurrent
    <3> QED
      BY <1>2, <1>4, <2>2, <3>1 DEF IndexIfCurrent
  <2> QED
    BY <2>1, <2>2
<1>5. ASSUME NEW t \in ingest[w].held, Fail(w, t) PROVE RemovalInv'
  BY <1>1, <1>3, <1>5 DEF Fail
<1> QED
  BY <1>1, <1>4, <1>5 DEF IngestStep, Check, Embed, StageFails, Activate, Return, Archive,
     IngestFails, Take

LEMMA RemovalStep == TypeInv /\ IndexInv /\ RemovalInv /\ [Next]_vars => RemovalInv'
<1> SUFFICES ASSUME TypeInv, IndexInv, RemovalInv, [Next]_vars PROVE RemovalInv'
  OBVIOUS
<1>1. ASSUME NEW s \in Syncs, SyncStep(s) \/ SyncFails(s) PROVE RemovalInv'
  BY <1>1, SyncStepRemovesOne, SyncStepRemoval DEF RemovalInv
<1>2. ASSUME NEW w \in Workers,
             \/ IngestStep(w)
             \/ \E t \in queued : Take(w, t)
             \/ \E t \in ingest[w].held : IngestFails(w, t)
      PROVE  RemovalInv'
  BY <1>2, IngestStepRemoval
<1>3. CASE UNCHANGED <<row, index, sync>>
  BY <1>3 DEF RemovalInv, RemovesOne, BeingRemoved
<1> QED
  BY <1>1, <1>2, <1>3 DEF Next, vars, UniqueLockExpires, EditFile

\* Outside a sync a processed document has its chunks, for every number of
\* documents, syncs and workers, unless a process dies or a statement fails
\* between RemoveDocument and DeleteDocument (syncConnector's skip).
THEOREM ProcessedHasChunks ==
    ASSUME ~Faults
    PROVE  Spec => []ProcessedIsIndexed
<1>1. Init => RemovalInv
  BY DEF Init, RemovalInv, RemovesOne, BeingRemoved
<1>2. RemovalInv => ProcessedIsIndexed
  BY DEF RemovalInv, BeingRemoved, ProcessedIsIndexed, NoSync
<1> QED
  BY <1>1, <1>2, InitInv, TypeStep, IndexStep, RemovalStep, PTL DEF Spec


\* No sync has failed, and every sync that was started has the model of the
\* knowledge base.
OfOneModel ==
    \A s \in Syncs : /\ sync[s].pc # "failed"
                     /\ sync[s].pc # "start" => sync[s].model = kbModel

\* The knowledge base could be reopened.
Reopenable ==
    /\ kbStatus = "indexing"
    /\ ReadyToActivate(kbModel)
    /\ \E d \in Docs : row[d] # {}

\* Somebody is going to call ActivateKBIfReady for the present model: a worker
\* that has indexed its task, or a sync that is running.
WorkerWillActivate ==
    \E w \in Workers : ingest[w].pc = "activate" /\ \E t \in ingest[w].held : t.ident = kbModel
SyncWillActivate == \E s \in Syncs : sync[s].pc \notin Resting

WillActivate ==
    ~Faults /\ Reopenable /\ OfOneModel => WorkerWillActivate \/ SyncWillActivate

\* A sync that returns has either reopened the knowledge base, or failed, or
\* had another model.
LEMMA SyncStepActivates ==
    ASSUME TypeInv, NEW s \in Syncs, SyncStep(s) \/ SyncFails(s)
    PROVE  WillActivate'
<1> SUFFICES ASSUME Reopenable', OfOneModel' PROVE SyncWillActivate'
  BY DEF WillActivate
<1>1. SyncMoved(s)
  BY SyncStepMoves
<1>2. sync'[s].pc # "failed"
  BY DEF OfOneModel
<1>3. CASE sync'[s].pc \notin Resting
  BY <1>3 DEF SyncWillActivate
<1>4. CASE sync'[s].pc = "done" /\ SyncActivate(s)
  <2>1. sync'[s].model = sync[s].model
    BY <1>1, <1>4 DEF SyncMoved, SyncStart, SyncActivate
  <2>2. row' = row /\ kbModel' = kbModel /\ ActivateKBIfReady(sync[s].model)
    BY <1>4 DEF SyncActivate, ActivateKBIfReady
  <2>3. sync[s].model = kbModel
    BY <1>4, <2>1, <2>2 DEF OfOneModel
  <2>4. ReadyToActivate(kbModel)
    BY <2>2 DEF Reopenable, ReadyToActivate
  <2>5. kbStatus' = "active"
    BY <2>2, <2>3, <2>4 DEF ActivateKBIfReady
  <2> QED
    BY <2>5 DEF Reopenable
<1> QED
  BY <1>1, <1>2, <1>3, <1>4 DEF SyncMoved

\* The worker that makes the last document ready activates next; a worker that
\* leaves "activate" has reopened the knowledge base or held another model's task.
LEMMA IngestStepActivates ==
    ASSUME TypeInv, IndexInv, WillActivate, NEW w \in Workers,
           \/ IngestStep(w)
           \/ \E t \in queued : Take(w, t)
           \/ \E t \in ingest[w].held : IngestFails(w, t)
    PROVE  WillActivate'
<1> SUFFICES ASSUME ~Faults, Reopenable', OfOneModel' PROVE WorkerWillActivate' \/ SyncWillActivate'
  BY DEF WillActivate
<1>0. /\ TypeOK /\ OneRow
      /\ row \in [Docs -> SUBSET Rows]
      /\ ingest \in [Workers -> IngestStates]
      /\ ingest[w] \in IngestStates
      /\ sync' = sync
      /\ \A t \in ingest[w].held : t \in Payloads /\ t.doc \in Docs
  BY OtherStepSync DEF TypeInv, TypeOK, IngestStates, Payloads, IndexInv
<1>1. kbModel' = kbModel
  BY DEF IngestStep, Check, Embed, StageFails, IndexIfCurrent, Activate, Return, Fail, Archive,
     IngestFails, Take, ActivateKBIfReady, kbVars
<1>2. \A v \in Workers \ {w} : ingest'[v] = ingest[v]
  BY <1>0 DEF IngestStep, Check, Embed, StageFails, IndexIfCurrent, Activate, Return, Fail,
     Archive, IngestFails, Take, IngestGoto, Retry
<1>3. ASSUME UNCHANGED <<row, kbStatus>>,
             ingest[w].pc = "activate" => \A t \in ingest[w].held : t.ident # kbModel
      PROVE  WorkerWillActivate' \/ SyncWillActivate'
  <2>1. Reopenable /\ OfOneModel
    BY <1>0, <1>1, <1>3 DEF Reopenable, OfOneModel, ReadyToActivate
  <2>2. CASE SyncWillActivate
    BY <1>0, <2>2 DEF SyncWillActivate
  <2>3. CASE WorkerWillActivate
    <3>1. PICK v \in Workers : ingest[v].pc = "activate" /\ \E t \in ingest[v].held : t.ident = kbModel
      BY <2>3 DEF WorkerWillActivate
    <3>2. ingest'[v] = ingest[v]
      BY <1>2, <1>3, <3>1
    <3> QED
      BY <1>1, <3>1, <3>2 DEF WorkerWillActivate
  <2> QED
    BY <2>1, <2>2, <2>3 DEF WillActivate
<1>4. ASSUME NEW t \in ingest[w].held, Activate(w, t)
      PROVE  WorkerWillActivate' \/ SyncWillActivate'
  <2>1. row' = row /\ ActivateKBIfReady(t.ident)
    BY <1>4 DEF Activate
  <2>2. ReadyToActivate(kbModel) /\ kbStatus' = "indexing"
    BY <1>1, <2>1 DEF Reopenable, ReadyToActivate
  <2>3. t.ident # kbModel
    BY <2>1, <2>2 DEF ActivateKBIfReady
  <2>4. kbStatus' = kbStatus
    BY <2>1, <2>3 DEF ActivateKBIfReady, ReadyToActivate
  <2>5. \A u \in ingest[w].held : u = t
    BY DEF IndexInv, OneTask
  <2> QED
    BY <1>3, <2>1, <2>3, <2>4, <2>5
<1>5. ASSUME NEW t \in ingest[w].held, MarkStatus(t, "processed"), Current(t),
             IngestGoto(w, "activate")
      PROVE  WorkerWillActivate'
  <2> DEFINE Mark(q) == IF q.print = t.print /\ q.ident = t.ident
                        THEN [q EXCEPT !.status = "processed"] ELSE q
  <2>1. row'[t.doc] = {Mark(q) : q \in row[t.doc]}
    BY <1>0, <1>5 DEF MarkStatus
  <2>2. PICK q \in row[t.doc] : q.print = t.print /\ q.ident = t.ident
    BY <1>5 DEF Current
  <2>3. Mark(q).ident = t.ident
    BY <1>0, <2>2 DEF Rows
  <2> HIDE DEF Mark
  <2>4. Mark(q) \in row'[t.doc]
    BY <2>1
  <2>5. t.ident = kbModel'
    BY <1>0, <2>3, <2>4 DEF Reopenable, ReadyToActivate
  <2>6. ingest'[w].pc = "activate" /\ ingest'[w].held = ingest[w].held
    BY <1>0, <1>5 DEF IngestGoto, IngestStates
  <2> QED
    BY <2>5, <2>6 DEF WorkerWillActivate
<1>6. ASSUME NEW t \in ingest[w].held, MarkStatus(t, "error"), Current(t)
      PROVE  FALSE
  <2> DEFINE Mark(q) == IF q.print = t.print /\ q.ident = t.ident
                        THEN [q EXCEPT !.status = "error"] ELSE q
  <2>1. row'[t.doc] = {Mark(q) : q \in row[t.doc]}
    BY <1>0, <1>6 DEF MarkStatus
  <2>2. PICK q \in row[t.doc] : q.print = t.print /\ q.ident = t.ident
    BY <1>6 DEF Current
  <2>3. Mark(q).status = "error"
    BY <1>0, <2>2 DEF Rows
  <2> HIDE DEF Mark
  <2>4. Mark(q) \in row'[t.doc]
    BY <2>1
  <2> QED
    BY <1>0, <2>3, <2>4 DEF Reopenable, ReadyToActivate
<1>7. ASSUME NEW t \in ingest[w].held, IndexIfCurrent(w, t)
      PROVE  WorkerWillActivate' \/ SyncWillActivate'
  <2>1. CASE ~Current(t)
    BY <1>3, <1>7, <2>1 DEF IndexIfCurrent, kbVars
  <2>2. CASE Current(t)
    BY <1>5, <1>7, <2>2 DEF IndexIfCurrent
  <2> QED
    BY <2>1, <2>2
<1>8. ASSUME NEW t \in ingest[w].held, Fail(w, t)
      PROVE  WorkerWillActivate' \/ SyncWillActivate'
  BY <1>3, <1>6, <1>8 DEF Fail, kbVars
<1>9. ASSUME \/ \E t \in ingest[w].held : Check(w, t) \/ Return(w, t) \/ Archive(w, t)
             \/ Embed(w) \/ StageFails(w)
             \/ \E t \in queued : Take(w, t)
      PROVE  WorkerWillActivate' \/ SyncWillActivate'
  <2>1. UNCHANGED <<row, kbStatus>> /\ ingest[w].pc # "activate"
    BY <1>9 DEF Check, Return, Archive, Embed, StageFails, Take, kbVars
  <2> QED
    BY <1>3, <2>1
<1> QED
  BY <1>4, <1>7, <1>8, <1>9 DEF IngestStep, IngestFails

LEMMA ActivationStep == TypeInv /\ IndexInv /\ WillActivate /\ [Next]_vars => WillActivate'
<1> SUFFICES ASSUME TypeInv, IndexInv, WillActivate, [Next]_vars PROVE WillActivate'
  OBVIOUS
<1>1. ASSUME NEW s \in Syncs, SyncStep(s) \/ SyncFails(s) PROVE WillActivate'
  BY <1>1, SyncStepActivates
<1>2. ASSUME NEW w \in Workers,
             \/ IngestStep(w)
             \/ \E t \in queued : Take(w, t)
             \/ \E t \in ingest[w].held : IngestFails(w, t)
      PROVE  WillActivate'
  BY <1>2, IngestStepActivates
<1>3. CASE UNCHANGED <<row, kbVars, sync, ingest>>
  BY <1>3 DEF WillActivate, Reopenable, OfOneModel, ReadyToActivate, WorkerWillActivate,
     SyncWillActivate, kbVars
<1> QED
  BY <1>1, <1>2, <1>3 DEF Next, vars, UniqueLockExpires, EditFile

\* When ingest has come to rest and every sync has returned without an error
\* and with the present model, a knowledge base whose documents are all
\* processed is open for search, for every number of documents, models, syncs
\* and workers, unless a step is lost to a fault (ActivateKBIfReady).
THEOREM ReadyIsOpen ==
    ASSUME ~Faults
    PROVE  Spec => []ReadyIsActivated
<1>1. Init => WillActivate
  BY DEF Init, WillActivate, Reopenable
<1>2. TypeInv /\ WillActivate => ReadyIsActivated
  <2> SUFFICES ASSUME TypeInv, WillActivate, Quiet, Settled, ReadyToActivate(kbModel),
                      \E d \in Docs : row[d] # {}
               PROVE  kbStatus = "active"
    BY DEF ReadyIsActivated
  <2>1. OfOneModel
    BY DEF Settled, OfOneModel
  <2>2. ~WorkerWillActivate /\ ~SyncWillActivate
    BY DEF WorkerWillActivate, SyncWillActivate, Quiet, Settled, Resting
  <2> QED
    BY <2>1, <2>2 DEF WillActivate, Reopenable, TypeInv, TypeOK
<1> QED
  BY <1>1, <1>2, InitInv, TypeStep, IndexStep, ActivationStep, PTL DEF Spec
===========================================================================
