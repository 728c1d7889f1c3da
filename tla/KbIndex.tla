------------------------------ MODULE KbIndex ------------------------------
(***************************************************************************)
(* One knowledge base: syncConnector in the API server registers the files *)
(* of a folder and queues ingest tasks, IngestDocumentVersion in the worker *)
(* embeds and indexes them, Search reads the result.  The steps of a sync  *)
(* and of an ingest are the statements they send to PostgreSQL and asynq.  *)
(*                                                                         *)
(* Servers and workers of two builds may be alive at once while a release  *)
(* rolls out, so every sync, ingest and search picks the embedding model   *)
(* and the chunking configuration of its process.                          *)
(***************************************************************************)
EXTENDS Naturals, FiniteSets

CONSTANTS
    Docs,       \* source URIs; docID is a hash of knowledge base and URI
    Contents,   \* what a file may hold
    NoFile,     \* the file does not exist
    Models,     \* embedder identities
    Cuts,       \* chunking configurations (they are part of ingestPipelineVersion)
    Syncs,      \* sync requests: each runs syncConnector once
    Workers,    \* asynq worker slots
    Faults,     \* may processes die and database calls fail?
    MaxEdits    \* bound: changes of the folder

ASSUME KbAssumption ==
    /\ NoFile \notin Contents
    /\ Faults \in BOOLEAN
    /\ MaxEdits \in Nat

VARIABLES
    folder,     \* folder[d]: the file's content, or NoFile
    edits,      \* how often the folder was changed
    kbStatus,   \* kbs.status
    kbModel,    \* kbs.embedding_model
    kbCut,      \* kbs.chunking_config
    row,        \* row[d]: the kb_documents row of d, as a set of at most one
    index,      \* index[d]: the chunks of d in kb_chunks, as a set of at most one version
    queued,     \* ingest tasks waiting in asynq, retries included (equal ones count once)
    locked,     \* payloads whose asynq.Unique lock is held
    sync,       \* sync[s]: the local state of a sync
    ingest      \* ingest[w]: the local state of a worker

kbVars == <<kbStatus, kbModel, kbCut>>
vars == <<folder, edits, kbVars, row, index, queued, locked, sync, ingest>>

\* ingestFingerprint: pipeline version, embedder identity and source hash.
Prints == [model : Models, cut : Cuts, content : Contents]

Rows == [print : Prints, ident : Models, status : {"pending", "processed", "error"}]

\* IngestPayload: print is the fingerprint of the listing, content what was fetched.
Payloads == [doc : Docs, print : Prints, ident : Models, content : Contents]

\* The chunks of a document: the payload they were made for, with the model
\* and the chunking of the process that really embedded and cut them.
Chunks == [print : Prints, label : Models, content : Contents, space : Models, cut : Cuts]

SyncPcs == {"start", "chunking", "indexing", "marking", "listing", "scan",
            "deleting", "upsert", "enqueue", "done", "failed"}
IngestPcs == {"idle", "check", "embed", "index", "activate", "fail", "return", "archive"}

SyncStates == [pc      : SyncPcs,
               model   : Models,            \* Embedder().Identity()
               cut     : Cuts,              \* chunkingConfig()
               recut   : BOOLEAN,           \* chunkingChanged
               reindex : BOOLEAN,           \* the model or the chunking changed
               listing : [Docs -> Contents \cup {NoFile}],
               gone    : SUBSET Docs,       \* rows still to remove
               removed : SUBSET Docs,       \* the row whose chunks were just removed
               left    : SUBSET Docs,       \* listed files still to look at
               held    : SUBSET Payloads]   \* the version being registered

IngestStates == [pc : IngestPcs, held : SUBSET Payloads, model : Models, cut : Cuts]

TypeOK ==
    /\ folder \in [Docs -> Contents \cup {NoFile}]
    /\ edits \in 0 .. MaxEdits
    /\ kbStatus \in {"active", "indexing"}
    /\ kbModel \in Models
    /\ kbCut \in Cuts
    /\ row \in [Docs -> SUBSET Rows]
    /\ index \in [Docs -> SUBSET Chunks]
    /\ queued \in SUBSET Payloads
    /\ locked \in SUBSET Payloads
    /\ sync \in [Syncs -> SyncStates]
    /\ ingest \in [Workers -> IngestStates]

-----------------------------------------------------------------------------
\* A new knowledge base (CreateKB) and any folder.
Init ==
    /\ folder \in [Docs -> Contents \cup {NoFile}]
    /\ edits = 0
    /\ kbStatus = "active"
    /\ kbModel \in Models
    /\ kbCut \in Cuts
    /\ row = [d \in Docs |-> {}]
    /\ index = [d \in Docs |-> {}]
    /\ queued = {}
    /\ locked = {}
    /\ sync = [s \in Syncs |->
                  [pc |-> "start", model |-> kbModel, cut |-> kbCut,
                   recut |-> FALSE, reindex |-> FALSE, listing |-> [d \in Docs |-> NoFile],
                   gone |-> {}, removed |-> {}, left |-> {}, held |-> {}]]
    /\ ingest = [w \in Workers |->
                  [pc |-> "idle", held |-> {}, model |-> kbModel, cut |-> kbCut]]

-----------------------------------------------------------------------------
(* The statements *)

\* Mutant of ReadyToActivate: the documents are not looked at.
ReadyByModel(m) == kbModel = m

\* The WHERE clause of ActivateKBIfReady: the knowledge base still has this
\* model and every document is processed in it.
ReadyToActivate(m) ==
    /\ kbModel = m
    /\ \A d \in Docs : \A r \in row[d] : r.status = "processed" /\ r.ident = m

ActivateKBIfReady(m) ==
    /\ kbStatus' = IF ReadyToActivate(m) THEN "active" ELSE kbStatus
    /\ UNCHANGED <<kbModel, kbCut>>

\* The row is still the version of the task and not yet processed
\* (IndexIfCurrent, MarkDocumentStatusIfCurrent, currentDocumentVersion).
Current(t) ==
    \E r \in row[t.doc] : /\ r.print = t.print
                          /\ r.ident = t.ident
                          /\ r.status \in {"pending", "error"}

\* UPDATE of the status where the row is the version of the task.
MarkStatus(t, status) ==
    row' = [row EXCEPT ![t.doc] =
              {IF r.print = t.print /\ r.ident = t.ident THEN [r EXCEPT !.status = status] ELSE r
                 : r \in @}]

UpsertDocument(t) ==
    row' = [row EXCEPT ![t.doc] = {[print |-> t.print, ident |-> t.ident, status |-> "pending"]}]

\* Mutant of DeleteDocument: the chunks do not go with the row.
DeleteRowOnly(d) ==
    /\ row' = [row EXCEPT ![d] = {}]
    /\ UNCHANGED index

\* Mutant of DeleteDocument: the chunks go, the row stays.
DeleteChunksOnly(d) ==
    /\ index' = [index EXCEPT ![d] = {}]
    /\ UNCHANGED row

\* DELETE of the row, with the cascade to kb_chunks.
DeleteDocument(d) ==
    /\ row' = [row EXCEPT ![d] = {}]
    /\ index' = [index EXCEPT ![d] = {}]

\* What Search returns to a process with model m: ensureSearchable and the
\* WHERE clauses of both recalls.
Visible(m) ==
    {d \in Docs : /\ kbStatus = "active" /\ kbModel = m
                  /\ \E r \in row[d] : r.status = "processed" /\ r.ident = m
                  /\ \E c \in index[d] : c.label = m}

-----------------------------------------------------------------------------
(* syncConnector *)

SyncGoto(s, pc) == sync' = [sync EXCEPT ![s].pc = pc]

\* syncConnector returns, without or with an error; its local variables are gone.
SyncReturns(s, pc) ==
    sync' = [sync EXCEPT ![s] =
               [@ EXCEPT !.pc = pc, !.recut = FALSE, !.reindex = FALSE,
                         !.listing = [d \in Docs |-> NoFile],
                         !.gone = {}, !.removed = {}, !.left = {}, !.held = {}]]

\* GetKB and ListDocuments of the connector.
SyncStart(s) ==
    /\ sync[s].pc = "start"
    /\ \E m \in Models, k \in Cuts :
         sync' = [sync EXCEPT ![s] =
                    [@ EXCEPT !.pc = "chunking", !.model = m, !.cut = k,
                              !.recut = (kbCut # k), !.reindex = (kbModel # m \/ kbCut # k),
                              !.listing = folder]]
    /\ UNCHANGED <<folder, edits, kbVars, row, index, queued, locked, ingest>>

SyncChunking(s) ==
    /\ sync[s].pc = "chunking"
    /\ kbCut' = IF sync[s].recut THEN sync[s].cut ELSE kbCut
    /\ SyncGoto(s, IF sync[s].reindex THEN "indexing" ELSE "listing")
    /\ UNCHANGED <<folder, edits, kbStatus, kbModel, row, index, queued, locked, ingest>>

\* BeginKBReindex, first statement: SetKBIndexing.
SyncIndexing(s) ==
    /\ sync[s].pc = "indexing"
    /\ kbStatus' = "indexing"
    /\ kbModel' = sync[s].model
    /\ SyncGoto(s, "marking")
    /\ UNCHANGED <<folder, edits, kbCut, row, index, queued, locked, ingest>>

\* BeginKBReindex, second statement: MarkKBDocumentsPending.
SyncMarking(s) ==
    /\ sync[s].pc = "marking"
    /\ row' = [d \in Docs |-> {[r EXCEPT !.status = "pending", !.ident = sync[s].model] : r \in row[d]}]
    /\ SyncGoto(s, "listing")
    /\ UNCHANGED <<folder, edits, kbVars, index, queued, locked, ingest>>

\* The files the connector found.
Listed(s) == {d \in Docs : sync[s].listing[d] # NoFile}

\* ListDocuments of the store: the rows whose files have disappeared.
SyncListing(s) ==
    /\ sync[s].pc = "listing"
    /\ sync' = [sync EXCEPT ![s] =
                  [@ EXCEPT !.pc = "scan",
                            !.gone = {d \in Docs : row[d] # {} /\ sync[s].listing[d] = NoFile},
                            !.left = Listed(s)]]
    /\ UNCHANGED <<folder, edits, kbVars, row, index, queued, locked, ingest>>

\* RemoveDocument deletes the chunks ...
SyncRemove(s, d) ==
    /\ sync[s].pc = "scan"
    /\ d \in sync[s].gone
    /\ index' = [index EXCEPT ![d] = {}]
    /\ sync' = [sync EXCEPT ![s] = [@ EXCEPT !.pc = "deleting", !.gone = sync[s].gone \ {d},
                                              !.removed = {d}]]
    /\ UNCHANGED <<folder, edits, kbVars, row, queued, locked, ingest>>

\* ... and DeleteDocument the row.
SyncDelete(s, d) ==
    /\ sync[s].pc = "deleting"
    /\ d \in sync[s].removed
    /\ DeleteDocument(d)
    /\ sync' = [sync EXCEPT ![s] = [@ EXCEPT !.pc = "scan", !.removed = {}]]
    /\ UNCHANGED <<folder, edits, kbVars, queued, locked, ingest>>

\* The version the sync wants for d, by the hash in its listing.
Wanted(s, d) == [model |-> sync[s].model, cut |-> sync[s].cut, content |-> sync[s].listing[d]]

UpToDate(s, d) ==
    \E r \in row[d] : /\ r.print = Wanted(s, d)
                      /\ r.ident = sync[s].model
                      /\ r.status = "processed"

\* GetDocument, and FetchDocument unless the document is skipped.  A file that
\* has disappeared meanwhile ends the sync.
SyncLook(s, d) ==
    /\ sync[s].pc = "scan"
    /\ sync[s].gone = {}
    /\ d \in sync[s].left
    /\ \/ /\ UpToDate(s, d)
          /\ sync' = [sync EXCEPT ![s].left = @ \ {d}]
       \/ /\ ~UpToDate(s, d)
          /\ folder[d] # NoFile
          /\ sync' = [sync EXCEPT ![s] =
                        [@ EXCEPT !.pc = "upsert", !.left = sync[s].left \ {d},
                                  !.held = {[doc |-> d, print |-> Wanted(s, d),
                                             ident |-> sync[s].model, content |-> folder[d]]}]]
       \/ /\ ~UpToDate(s, d)
          /\ folder[d] = NoFile
          /\ SyncReturns(s, "failed")
    /\ UNCHANGED <<folder, edits, kbVars, row, index, queued, locked, ingest>>

SyncUpsert(s, t) ==
    /\ sync[s].pc = "upsert"
    /\ t \in sync[s].held
    /\ UpsertDocument(t)
    /\ SyncGoto(s, "enqueue")
    /\ UNCHANGED <<folder, edits, kbVars, index, queued, locked, ingest>>

\* asynq refuses a task whose unique lock is held; the sync counts it as skipped.
SyncEnqueue(s, t) ==
    /\ sync[s].pc = "enqueue"
    /\ t \in sync[s].held
    /\ queued' = IF t \in locked THEN queued ELSE queued \cup {t}
    /\ locked' = locked \cup {t}
    /\ sync' = [sync EXCEPT ![s] = [@ EXCEPT !.pc = "scan", !.held = {}]]
    /\ UNCHANGED <<folder, edits, kbVars, row, index, ingest>>

SyncActivate(s) ==
    /\ sync[s].pc = "scan"
    /\ sync[s].gone = {} /\ sync[s].left = {}
    /\ ActivateKBIfReady(sync[s].model)
    /\ SyncReturns(s, "done")
    /\ UNCHANGED <<folder, edits, row, index, queued, locked, ingest>>

\* A failing statement or enqueue, a cancelled request or a crash.
SyncFails(s) ==
    /\ Faults
    /\ sync[s].pc \notin {"start", "done", "failed"}
    /\ SyncReturns(s, "failed")
    /\ UNCHANGED <<folder, edits, kbVars, row, index, queued, locked, ingest>>

-----------------------------------------------------------------------------
(* IngestDocumentVersion in the worker *)

IngestGoto(w, pc) == ingest' = [ingest EXCEPT ![w].pc = pc]

Take(w, t) ==
    /\ ingest[w].pc = "idle"
    /\ t \in queued
    /\ queued' = queued \ {t}
    /\ \E m \in Models, k \in Cuts :
         ingest' = [ingest EXCEPT ![w] = [pc |-> "check", held |-> {t}, model |-> m, cut |-> k]]
    /\ UNCHANGED <<folder, edits, kbVars, row, index, locked, sync>>

\* Mutant of CurrentVersion: a task of another embedding model is accepted.
CurrentVersionAnyModel(w, t) == Current(t)

\* currentDocumentVersion
CurrentVersion(w, t) == ingest[w].model = t.ident /\ Current(t)

Check(w, t) ==
    /\ ingest[w].pc = "check"
    /\ t \in ingest[w].held
    /\ IngestGoto(w, IF CurrentVersion(w, t) THEN "embed" ELSE "return")
    /\ UNCHANGED <<folder, edits, kbVars, row, index, queued, locked, sync>>

\* Chunking and the call to the embedding service.
Embed(w) ==
    /\ ingest[w].pc = "embed"
    /\ IngestGoto(w, "index")
    /\ UNCHANGED <<folder, edits, kbVars, row, index, queued, locked, sync>>

\* The embedding service refuses, or the index transaction is rolled back.
StageFails(w) ==
    /\ ingest[w].pc = "embed" \/ (Faults /\ ingest[w].pc = "index")
    /\ IngestGoto(w, "fail")
    /\ UNCHANGED <<folder, edits, kbVars, row, index, queued, locked, sync>>

\* IndexIfCurrent: compare, replace the chunks and mark the row in one transaction.
IndexIfCurrent(w, t) ==
    /\ ingest[w].pc = "index"
    /\ t \in ingest[w].held
    /\ \/ /\ Current(t)
          /\ index' = [index EXCEPT ![t.doc] =
                         {[print |-> t.print, label |-> t.ident, content |-> t.content,
                           space |-> ingest[w].model, cut |-> ingest[w].cut]}]
          /\ MarkStatus(t, "processed")
          /\ IngestGoto(w, "activate")
       \/ /\ ~Current(t)
          /\ IngestGoto(w, "return")
          /\ UNCHANGED <<row, index>>
    /\ UNCHANGED <<folder, edits, kbVars, queued, locked, sync>>

\* Mutant of Activate: a knowledge base is reopened by syncs only.
ActivateNothing(w, t) ==
    /\ ingest[w].pc = "activate"
    /\ t \in ingest[w].held
    /\ IngestGoto(w, "return")
    /\ UNCHANGED <<folder, edits, kbVars, row, index, queued, locked, sync>>

Activate(w, t) ==
    /\ ingest[w].pc = "activate"
    /\ t \in ingest[w].held
    /\ ActivateKBIfReady(t.ident)
    /\ IngestGoto(w, "return")
    /\ UNCHANGED <<folder, edits, row, index, queued, locked, sync>>

\* A second copy of the task, enqueued after the first one's lock expired.
Twin(w, t) == t \in queued \/ \E v \in Workers \ {w} : t \in ingest[v].held

\* The handler returned nil: asynq drops the task, and its unique lock unless
\* the lock is a twin's.
Return(w, t) ==
    /\ ingest[w].pc = "return"
    /\ t \in ingest[w].held
    /\ locked' = locked \ {t} \/ (Twin(w, t) /\ locked' = locked)
    /\ ingest' = [ingest EXCEPT ![w] = [@ EXCEPT !.pc = "idle", !.held = {}]]
    /\ UNCHANGED <<folder, edits, kbVars, row, index, queued, sync>>

\* The handler returned an error, or the worker died: asynq retries the task,
\* but only so often (25 times); then it archives it.
Retry(w, t) ==
    \/ /\ queued' = queued \cup {t}
       /\ ingest' = [ingest EXCEPT ![w] = [@ EXCEPT !.pc = "idle", !.held = {}]]
    \/ IngestGoto(w, "archive") /\ UNCHANGED queued

\* The task is put aside for an operator; its unique lock stays until it expires.
Archive(w, t) ==
    /\ ingest[w].pc = "archive"
    /\ t \in ingest[w].held
    /\ ingest' = [ingest EXCEPT ![w] = [@ EXCEPT !.pc = "idle", !.held = {}]]
    /\ UNCHANGED <<folder, edits, kbVars, row, index, queued, locked, sync>>

\* Mutant of Fail: the error is swallowed and the task is not retried.
FailQuietly(w, t) ==
    /\ ingest[w].pc = "fail"
    /\ t \in ingest[w].held
    /\ IngestGoto(w, "return")
    /\ UNCHANGED <<folder, edits, kbVars, row, index, queued, locked, sync>>

\* The fail closure: the row is marked if it is still this version.
Fail(w, t) ==
    /\ ingest[w].pc = "fail"
    /\ t \in ingest[w].held
    /\ IF Current(t) THEN MarkStatus(t, "error") ELSE UNCHANGED row
    /\ Retry(w, t)
    /\ UNCHANGED <<folder, edits, kbVars, index, locked, sync>>

IngestFails(w, t) ==
    /\ Faults
    /\ ingest[w].pc # "archive"
    /\ t \in ingest[w].held
    /\ Retry(w, t)
    /\ UNCHANGED <<folder, edits, kbVars, row, index, locked, sync>>

-----------------------------------------------------------------------------
\* Ten minutes have passed since the lock was taken.
UniqueLockExpires(t) ==
    /\ t \in locked
    /\ locked' = locked \ {t}
    /\ UNCHANGED <<folder, edits, kbVars, row, index, queued, sync, ingest>>

EditFile(d, c) ==
    /\ edits < MaxEdits
    /\ folder[d] # c
    /\ folder' = [folder EXCEPT ![d] = c]
    /\ edits' = edits + 1
    /\ UNCHANGED <<kbVars, row, index, queued, locked, sync, ingest>>

SyncStep(s) ==
    \/ SyncStart(s) \/ SyncChunking(s) \/ SyncIndexing(s) \/ SyncMarking(s) \/ SyncListing(s)
    \/ \E d \in Docs : SyncRemove(s, d) \/ SyncDelete(s, d) \/ SyncLook(s, d)
    \/ \E t \in sync[s].held : SyncUpsert(s, t) \/ SyncEnqueue(s, t)
    \/ SyncActivate(s)

IngestStep(w) ==
    \/ \E t \in ingest[w].held :
         \/ Check(w, t) \/ IndexIfCurrent(w, t) \/ Activate(w, t) \/ Return(w, t)
         \/ Fail(w, t) \/ Archive(w, t)
    \/ Embed(w) \/ StageFails(w)

Next ==
    \/ \E s \in Syncs : SyncStep(s) \/ SyncFails(s)
    \/ \E w \in Workers : IngestStep(w) \/ \E t \in queued : Take(w, t)
    \/ \E w \in Workers : \E t \in ingest[w].held : IngestFails(w, t)
    \/ \E t \in locked : UniqueLockExpires(t)
    \/ \E d \in Docs, c \in Contents \cup {NoFile} : EditFile(d, c)

Spec == Init /\ [][Next]_vars

\* The payloads a sync makes: fingerprint and identity name one model (Wanted).
Tasks == {t \in Payloads : t.print.model = t.ident}

\* asynq delivers what is queued and workers go on.  A task is not retried for
\* ever: in the end its embedding succeeds or it is archived.
Fairness ==
    /\ \A w \in Workers : WF_vars(IngestStep(w))
    /\ \A t \in Tasks :
          /\ SF_vars(\E w \in Workers : Take(w, t))
          /\ SF_vars(\E w \in Workers : t \in ingest[w].held /\ (Embed(w) \/ Archive(w, t)))

FairSpec == Spec /\ Fairness

-----------------------------------------------------------------------------
(* Properties *)

\* A search never mixes vector spaces: whatever the searching process's model,
\* the chunks it can see were embedded with that model and made for the
\* version its document row names, although tasks of retired models and old
\* versions finish late (Search, IndexIfCurrent, currentDocumentVersion).
SearchIsSound ==
    \A m \in Models : \A d \in Visible(m) : \A c \in index[d] :
        c.space = m /\ \A r \in row[d] : c.print = r.print

\* A knowledge base is reopened only when everything stored in it is in its
\* vector space (BeginKBReindex closes it, ActivateKBIfReady reopens it).
ReopenedIsUniform ==
    [][kbStatus = "indexing" /\ kbStatus' = "active" =>
         \A d \in Docs : \A c \in index'[d] : c.space = kbModel']_vars

\* Deleting a document leaves none of its chunks behind, even if an ingest
\* writes them between RemoveDocument and DeleteDocument.
NoOrphanChunks == \A d \in Docs : row[d] = {} => index[d] = {}

\* The ways a task ends without its document processed: a worker of a build
\* with another embedding model takes it and returns nil, or asynq archives it.
GivenUp(t) ==
    \E w \in Workers : /\ t \in ingest[w].held
                       /\ ingest[w].model # t.ident \/ ingest[w].pc = "archive"

\* A task that is queued for the current version of a document does not get
\* lost: the document is processed or moves on, asynq archives the task after
\* its last retry, or a worker of another embedding model discards it, whatever
\* syncs, failing embeddings and expiring locks do meanwhile (HandleIngest
\* returns the error for asynq to retry; currentDocumentVersion).
TaskIsNotLost ==
    \A t \in Tasks : (t \in queued /\ Current(t)) ~> (~Current(t) \/ GivenUp(t))

Quiet == queued = {} /\ \A w \in Workers : ingest[w].pc = "idle"
NoSync == \A s \in Syncs : sync[s].pc \in {"start", "done", "failed"}

\* Every sync that was started has returned without an error, and its process
\* had the embedding model that the knowledge base has now.
Settled ==
    \A s \in Syncs : \/ sync[s].pc = "start"
                     \/ sync[s].pc = "done" /\ sync[s].model = kbModel

\* When ingest has come to rest, a knowledge base whose documents are all
\* processed is open for search, however syncs with other settings overlap the
\* ingest, as long as no step between index and activation is lost
\* (ActivateKBIfReady after the last document).  A sync that removes the last
\* unprocessed document and then fails, or activates another model, is lost so.
ReadyIsActivated ==
    Quiet /\ Settled /\ ReadyToActivate(kbModel) /\ (\E d \in Docs : row[d] # {})
        => kbStatus = "active"

\* Outside a sync a processed document has its chunks, so skipping it is right
\* (syncConnector skips processed documents); the removal of a document that is
\* being ingested is the hard case.
ProcessedIsIndexed ==
    NoSync => \A d \in Docs : (\E r \in row[d] : r.status = "processed") => index[d] # {}
=============================================================================
