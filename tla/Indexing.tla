------------------------------ MODULE Indexing ------------------------------
(***************************************************************************)
(* The asynchronous indexing of knowledge documents.                       *)
(*                                                                         *)
(* A document lives in three stores: its row in PostgreSQL, its bytes in   *)
(* MinIO and its chunks in Chroma.  REST handlers create, reindex and      *)
(* delete documents and push jobs on a Redis list; every application       *)
(* process pops jobs, claims the row, writes a new generation of chunks,   *)
(* sweeps the old one and settles the row, and when it starts it requeues  *)
(* what a dead process may have left behind.  No transaction spans two     *)
(* stores: each call to one of them is a step of its own.                  *)
(***************************************************************************)
EXTENDS Naturals, Sequences, FiniteSets

CONSTANTS
    Docs,          \* ids a document may be given
    Workers,       \* application processes, each with one queue consumer
    Handlers,      \* REST requests in flight
    Home,          \* the process that serves a handler
    Generations,   \* names for the generations of chunks a run may write
    ChunksOf,      \* how many chunks the bytes of a document are cut into
    MaxAttempts,   \* MAX_INDEX_ATTEMPTS
    Punctual,      \* no live worker holds a claim for longer than the stale limit
    MaxReindexes,  \* bound on the number of reindex requests
    MaxCrashes,    \* bound on the number of killed processes
    MaxIncidents,  \* bound on the number of accidents in one run, see Incident
    NoDoc, NoGeneration

ASSUME IndexingAssumption ==
    /\ Home \in [Handlers -> Workers]
    /\ Workers \cap Handlers = {}
    /\ ChunksOf \in [Docs -> Nat]
    /\ MaxAttempts \in Nat \ {0}
    /\ Punctual \in BOOLEAN
    /\ MaxReindexes \in Nat /\ MaxCrashes \in Nat /\ MaxIncidents \in Nat
    /\ NoDoc \notin Docs /\ NoGeneration \notin Generations

Procs == Workers \cup Handlers

\* A row is absent before its transaction commits, gone once it is deleted.
Status == {"absent", "pending", "indexing", "active", "failed", "gone"}
Kind == {"upload", "reindex"}
Job == [doc : Docs, kind : Kind, attempt : 1..MaxAttempts]

\* A worker between its claim and the write that settles the row.
BusyPC == {"load", "add", "sweep", "delete", "dropChunks", "dropBytes", "read", "write"}
StartPC == {"down", "select", "reset", "requeue"}
WorkerPC == {"idle", "claim", "enqueue"} \cup BusyPC \cup StartPC
HandlerPC == {"idle", "uploadCommit", "uploadEnqueue", "uploadUndo",
              "reindexEnqueue", "deleteChunks", "deleteCommit"}

\* Accidents a property may have to except, remembered for the rest of the run.
Incident == {"overtaken",    \* a starting process reset a row that had moved on
             "skipped",      \* a starting process found it indexing, not yet stale
             "jobLost",      \* its job could not be pushed, or its claim raised
            "unsettled",    \* the write that settles it raised after a failure
             "uncleaned",    \* the cleanup after the last attempt failed
             "halfDeleted",  \* its chunks were deleted and its row was not
             "indexedAway",  \* it was deleted while a worker had it
             "early"}        \* it was reindexed before its first indexing ended

VARIABLES
    \* documents rows
    status,      \* documents.status
    chunkCount,  \* documents.chunk_count
    indexedAt,   \* documents whose indexed_at is set
    stale,       \* documents whose index_started_at is over the stale limit
    \* the other stores
    chunks,      \* chunks[d]: the generations of d that are in Chroma
    objects,     \* documents whose bytes are in MinIO
    queue,       \* the Redis list of jobs, head popped first
    \* processes and requests
    pc,
    job,         \* job[w]: the job w is processing
    seen,        \* seen[w]: chunk_count as w read it with its claim
    gen, found,  \* the generation w wrote, the older ones it found
    goal,        \* the status w is about to write
    plan,        \* plan[w]: <<doc, kind>> a starting process has yet to push
    resets,      \* resets[w]: the stale documents it found
    doc, kind,   \* doc[h], kind[h]: what the request of h is about
    \* history
    incidents, reindexes, crashes

rows == <<status, chunkCount, indexedAt, stale>>
stores == <<chunks, objects>>
working == <<job, seen, gen, found, goal>>
starting == <<plan, resets>>
request == <<doc, kind>>
history == <<incidents, reindexes, crashes>>
vars == <<rows, stores, queue, pc, working, starting, request, history>>

NoJob == [doc |-> NoDoc, kind |-> "upload", attempt |-> 1]

Init ==
    /\ status = [d \in Docs |-> "absent"]
    /\ chunkCount = [d \in Docs |-> 0]
    /\ indexedAt = {}
    /\ stale = {}
    /\ chunks = [d \in Docs |-> {}]
    /\ objects = {}
    /\ queue = <<>>
    /\ pc = [p \in Procs |-> "idle"]
    /\ job = [w \in Workers |-> NoJob]
    /\ seen = [w \in Workers |-> 0]
    /\ gen = [w \in Workers |-> NoGeneration]
    /\ found = [w \in Workers |-> {}]
    /\ goal = [w \in Workers |-> "pending"]
    /\ plan = [w \in Workers |-> {}]
    /\ resets = [w \in Workers |-> {}]
    /\ doc = [h \in Handlers |-> NoDoc]
    /\ kind = [h \in Handlers |-> "upload"]
    /\ incidents = {}
    /\ reindexes = 0
    /\ crashes = 0

-----------------------------------------------------------------------------
(* Rows, locks and program points *)

Exists(d) == status[d] \notin {"absent", "gone"}
HasWorker(d) == \E w \in Workers : pc[w] \in BusyPC /\ job[w].doc = d

\* The DELETE of a row holds its lock until the request commits.
Deleting(h, d) == pc[h] \in {"deleteChunks", "deleteCommit"} /\ doc[h] = d
RowLocked(d) == \E h \in Handlers : Deleting(h, d)

Goto(p, from, to) == pc[p] = from /\ pc' = [pc EXCEPT ![p] = to]
Push(j) == queue' = Append(queue, j)
Note(d, what) == incidents' = incidents \cup {<<d, what>>}
Serving(h) == pc[Home[h]] \notin StartPC

\* _is_reindex: whether the document was indexed before.
IsReindex(d) == d \in indexedAt \/ chunkCount[d] > 0
KindOf(d) == IF IsReindex(d) THEN "reindex" ELSE "upload"

-----------------------------------------------------------------------------
(* Requests: upload *)

\* The row is flushed, the bytes are stored; the id is drawn for this upload.
UploadPut(h, d) ==
    /\ Serving(h) /\ status[d] = "absent"
    /\ d \notin objects
    /\ Goto(h, "idle", "uploadCommit")
    /\ doc' = [doc EXCEPT ![h] = d]
    /\ objects' = objects \cup {d}
    /\ UNCHANGED <<rows, chunks, queue, working, starting, kind, history>>

\* put_object fails after storing the bytes: only the row is taken back.
UploadPutFails(h, d) ==
    /\ Serving(h) /\ pc[h] = "idle"
    /\ status[d] = "absent" /\ d \notin objects
    /\ objects' = objects \cup {d}
    /\ UNCHANGED <<rows, chunks, queue, pc, working, starting, request, history>>

Finish(h) ==
    /\ pc' = [pc EXCEPT ![h] = "idle"]
    /\ doc' = [doc EXCEPT ![h] = NoDoc]
    /\ kind' = [kind EXCEPT ![h] = "upload"]

UploadCommit(h) ==
    /\ Goto(h, "uploadCommit", "uploadEnqueue")
    /\ status' = [status EXCEPT ![doc[h]] = "pending"]
    /\ UNCHANGED <<chunkCount, indexedAt, stale, stores, queue, working, starting,
                   request, history>>

UploadEnqueue(h) ==
    /\ pc[h] = "uploadEnqueue"
    /\ Push([doc |-> doc[h], kind |-> "upload", attempt |-> 1])
    /\ Finish(h)
    /\ UNCHANGED <<rows, stores, working, starting, history>>

\* The push fails, or its answer is lost: _cleanup_staged_upload drops the bytes.
UploadEnqueueFails(h) ==
    /\ Goto(h, "uploadEnqueue", "uploadUndo")
    /\ \/ UNCHANGED queue
       \/ Push([doc |-> doc[h], kind |-> "upload", attempt |-> 1])
    /\ objects' = objects \ {doc[h]}
    /\ UNCHANGED <<rows, chunks, working, starting, request, history>>

\* Mutant: a failed push leaves the row behind.
UploadUndo_KeepRow(h) ==
    /\ pc[h] = "uploadUndo" /\ ~RowLocked(doc[h])
    /\ Finish(h)
    /\ UNCHANGED <<rows, stores, queue, working, starting, history>>

UploadUndo(h) ==
    /\ pc[h] = "uploadUndo" /\ ~RowLocked(doc[h])
    /\ status' = [status EXCEPT ![doc[h]] = "gone"]
    /\ IF HasWorker(doc[h]) \/ chunks[doc[h]] # {}
       THEN Note(doc[h], "indexedAway") ELSE UNCHANGED incidents
    /\ Finish(h)
    /\ UNCHANGED <<chunkCount, indexedAt, stale, stores, queue, working, starting,
                   reindexes, crashes>>

\* The DELETE of the row fails too: the row stays, and nothing is queued for it.
UploadUndoFails(h) ==
    /\ pc[h] = "uploadUndo"
    /\ Note(doc[h], "jobLost")
    /\ Finish(h)
    /\ UNCHANGED <<rows, stores, queue, working, starting, reindexes, crashes>>

\* The push fails, and so does the removal of the bytes: bytes and row both stay.
UploadDropFails(h) ==
    /\ pc[h] = "uploadEnqueue"
    /\ \/ Note(doc[h], "jobLost") /\ UNCHANGED queue
       \/ Push([doc |-> doc[h], kind |-> "upload", attempt |-> 1]) /\ UNCHANGED incidents
    /\ Finish(h)
    /\ UNCHANGED <<rows, stores, working, starting, reindexes, crashes>>

-----------------------------------------------------------------------------
(* Requests: reindex and delete *)

\* _reindex_kind: only a first indexing that failed is taken up as an upload.
ReindexKind(d) ==
    IF status[d] = "failed" /\ d \notin indexedAt THEN "upload" ELSE "reindex"

ReindexStart(h, d) ==
    /\ Serving(h) /\ reindexes < MaxReindexes
    /\ Exists(d) /\ ~RowLocked(d)
    /\ Goto(h, "idle", "reindexEnqueue")
    /\ doc' = [doc EXCEPT ![h] = d]
    /\ kind' = [kind EXCEPT ![h] = ReindexKind(d)]
    /\ IF ReindexKind(d) = "reindex" /\ d \notin indexedAt
       THEN Note(d, "early") ELSE UNCHANGED incidents
    /\ reindexes' = reindexes + 1
    /\ UNCHANGED <<rows, stores, queue, working, starting, crashes>>

\* The push may fail, with or without having been carried out.
ReindexEnqueue(h) ==
    /\ pc[h] = "reindexEnqueue"
    /\ \/ Push([doc |-> doc[h], kind |-> kind[h], attempt |-> 1])
       \/ UNCHANGED queue
    /\ Finish(h)
    /\ UNCHANGED <<rows, stores, working, starting, history>>

\* DELETE of the row, uncommitted; then the chunks, then the commit.
DeleteRow(h, d) ==
    /\ Serving(h) /\ Exists(d) /\ ~RowLocked(d)
    /\ Goto(h, "idle", "deleteChunks")
    /\ doc' = [doc EXCEPT ![h] = d]
    /\ UNCHANGED <<rows, stores, queue, working, starting, kind, history>>

\* Mutant: the chunks of a deleted document stay in the vector store.
DeleteChunks_Keep(h) ==
    /\ Goto(h, "deleteChunks", "deleteCommit")
    /\ UNCHANGED <<rows, stores, queue, working, starting, request, history>>

DeleteChunks(h) ==
    /\ Goto(h, "deleteChunks", "deleteCommit")
    /\ chunks' = [chunks EXCEPT ![doc[h]] = {}]
    /\ IF HasWorker(doc[h]) THEN Note(doc[h], "indexedAway") ELSE UNCHANGED incidents
    /\ UNCHANGED <<rows, objects, queue, working, starting, request, reindexes, crashes>>

\* An error before the commit rolls the DELETE back, not what Chroma has done.
DeleteFails(h) ==
    /\ \/ /\ pc[h] = "deleteChunks"
          /\ \/ UNCHANGED <<chunks, incidents>>
             \/ /\ chunks' = [chunks EXCEPT ![doc[h]] = {}]
                /\ Note(doc[h], "halfDeleted")
       \/ /\ pc[h] = "deleteCommit"
          /\ Note(doc[h], "halfDeleted") /\ UNCHANGED chunks
    /\ Finish(h)
    /\ UNCHANGED <<rows, objects, queue, working, starting, reindexes, crashes>>

DeleteCommit(h) ==
    /\ pc[h] = "deleteCommit"
    /\ status' = [status EXCEPT ![doc[h]] = "gone"]
    /\ Finish(h)
    /\ UNCHANGED <<chunkCount, indexedAt, stale, stores, queue, working, starting, history>>

-----------------------------------------------------------------------------
(* The consumer: index_queue_consumer and _process_job *)

Pop(w) ==
    /\ queue # <<>>
    /\ Goto(w, "idle", "claim")
    /\ job' = [job EXCEPT ![w] = Head(queue)]
    /\ queue' = Tail(queue)
    /\ UNCHANGED <<rows, stores, seen, gen, found, goal, starting, request, history>>

\* index_document is over, its locals are gone.
Forget(w) ==
    /\ gen' = [gen EXCEPT ![w] = NoGeneration]
    /\ found' = [found EXCEPT ![w] = {}]

\* The job is over; whatever the worker knew of it is forgotten.
Done(w) ==
    /\ pc' = [pc EXCEPT ![w] = "idle"]
    /\ job' = [job EXCEPT ![w] = NoJob]
    /\ seen' = [seen EXCEPT ![w] = 0]
    /\ goal' = [goal EXCEPT ![w] = "pending"]
    /\ Forget(w)

Claimable(k) == {"pending", "failed"} \cup (IF k = "reindex" THEN {"active"} ELSE {})

\* Mutant: the claim is an UPDATE without a condition on the status.
Claim_AnyStatus(w) ==
    LET d == job[w].doc
    IN  /\ Goto(w, "claim", "load")
        /\ Exists(d) /\ ~RowLocked(d)
        /\ status' = [status EXCEPT ![d] = "indexing"]
        /\ stale' = stale \ {d}
        /\ seen' = [seen EXCEPT ![w] = chunkCount[d]]
        /\ UNCHANGED <<chunkCount, indexedAt, stores, queue, job, gen, found, goal,
                       starting, request, history>>

\* UPDATE .. SET status = 'indexing' WHERE status IN (..), once the row is free.
Claim(w) ==
    LET d == job[w].doc
    IN  /\ Goto(w, "claim", "load")
        /\ status[d] \in Claimable(job[w].kind) /\ ~RowLocked(d)
        /\ status' = [status EXCEPT ![d] = "indexing"]
        /\ stale' = stale \ {d}
        /\ seen' = [seen EXCEPT ![w] = chunkCount[d]]
        /\ UNCHANGED <<chunkCount, indexedAt, stores, queue, job, gen, found, goal,
                       starting, request, history>>

\* A duplicate or late job is dropped.
ClaimSkipped(w) ==
    /\ pc[w] = "claim"
    /\ status[job[w].doc] \notin Claimable(job[w].kind) /\ ~RowLocked(job[w].doc)
    /\ Done(w)
    /\ UNCHANGED <<rows, stores, queue, starting, request, history>>

\* The claim raises: the job has left the queue and is not put back.
ClaimFails(w) ==
    /\ pc[w] = "claim"
    /\ Note(job[w].doc, "jobLost")
    /\ Done(w)
    /\ UNCHANGED <<rows, stores, queue, starting, request, reindexes, crashes>>

\* Fetch, parse, cut and embed; a document without chunks leaves Chroma alone.
Load(w) ==
    LET d == job[w].doc
    IN  /\ d \in objects
        /\ Goto(w, "load", IF ChunksOf[d] = 0 THEN "read" ELSE "add")
        /\ goal' = [goal EXCEPT ![w] = "active"]
        /\ UNCHANGED <<rows, stores, queue, job, seen, gen, found, starting, request, history>>

\* The new generation goes in first.  (A generation is a timestamp: fresh.)
Add(w, g) ==
    LET d == job[w].doc
    IN  /\ Goto(w, "add", "sweep")
        /\ g \notin chunks[d]
        /\ chunks' = [chunks EXCEPT ![d] = @ \cup {g}]
        /\ gen' = [gen EXCEPT ![w] = g]
        /\ UNCHANGED <<rows, objects, queue, job, seen, found, goal, starting, request, history>>

\* Mutant: the sweep does not spare the generation just written.
Sweep_All(w) ==
    /\ Goto(w, "sweep", "delete")
    /\ found' = [found EXCEPT ![w] = chunks[job[w].doc]]
    /\ UNCHANGED <<rows, stores, queue, job, seen, gen, goal, starting, request, history>>

\* delete_doc_chunks_except: look up what there is, then delete it by id.
Sweep(w) ==
    /\ Goto(w, "sweep", "delete")
    /\ found' = [found EXCEPT ![w] = chunks[job[w].doc] \ {gen[w]}]
    /\ UNCHANGED <<rows, stores, queue, job, seen, gen, goal, starting, request, history>>

SweepDelete(w) ==
    /\ Goto(w, "delete", "read")
    /\ chunks' = [chunks EXCEPT ![job[w].doc] = @ \ found[w]]
    /\ Forget(w)
    /\ UNCHANGED <<rows, objects, queue, job, seen, goal, starting, request, history>>

-----------------------------------------------------------------------------
(* The consumer: _handle_failure *)

\* What follows an exception: another attempt, or the end of it.
Fail(w) ==
    LET retry == job[w].attempt < MaxAttempts
        upload == job[w].kind = "upload"
    IN  /\ Forget(w)
        /\ pc' = [pc EXCEPT ![w] = IF ~retry /\ upload THEN "dropChunks" ELSE "read"]
        /\ goal' = [goal EXCEPT ![w] =
             CASE ~upload -> "restored"
               [] upload /\ retry -> "pending"
               [] upload /\ ~retry -> "failed"]

\* Any call may raise, and Chroma may have carried it out all the same.
JobFails(w) ==
    /\ \/ pc[w] \in {"load", "sweep"} /\ UNCHANGED chunks
       \/ /\ pc[w] = "add"
          /\ \/ UNCHANGED chunks
             \/ \E g \in Generations : chunks' = [chunks EXCEPT ![job[w].doc] = @ \cup {g}]
       \/ /\ pc[w] = "delete"
          /\ \/ UNCHANGED chunks
             \/ chunks' = [chunks EXCEPT ![job[w].doc] = @ \ found[w]]
    /\ Fail(w)
    /\ UNCHANGED <<rows, objects, queue, job, seen, starting, request, history>>

\* Mutant: the bytes are deleted, the chunks are forgotten.
DropChunks_Keep(w) ==
    /\ Goto(w, "dropChunks", "dropBytes")
    /\ UNCHANGED <<rows, stores, queue, working, starting, request, history>>

\* _cleanup_first_index: chunks first, then bytes; an error is logged and passed over.
DropChunks(w) ==
    /\ Goto(w, "dropChunks", "dropBytes")
    /\ \/ /\ chunks' = [chunks EXCEPT ![job[w].doc] = {}]
          /\ UNCHANGED incidents
       \/ UNCHANGED chunks /\ Note(job[w].doc, "uncleaned")
    /\ UNCHANGED <<rows, objects, queue, working, starting, request, reindexes, crashes>>

DropBytes(w) ==
    /\ Goto(w, "dropBytes", "read")
    /\ \/ /\ objects' = objects \ {job[w].doc}
          /\ UNCHANGED incidents
       \/ UNCHANGED objects /\ Note(job[w].doc, "uncleaned")
    /\ UNCHANGED <<rows, chunks, queue, working, starting, request, reindexes, crashes>>

\* Mutant: a failed job is pushed again and again.
Again_Forever(w) == goal[w] # "active"

\* After the row is settled: a failed job is pushed again, unless it was the last try.
Again(w) == goal[w] # "active" /\ job[w].attempt < MaxAttempts

AfterWrite(w) ==
    IF Again(w)
    THEN pc' = [pc EXCEPT ![w] = "enqueue"] /\ UNCHANGED working
    ELSE Done(w)

\* update_status, restore_active, mark_failed: load the row, if it is still there,
Read(w) ==
    /\ pc[w] = "read"
    /\ IF Exists(job[w].doc)
       THEN pc' = [pc EXCEPT ![w] = "write"] /\ UNCHANGED working
       ELSE AfterWrite(w)
    /\ UNCHANGED <<rows, stores, queue, starting, request, history>>

\* Mutant: the last failure restores the document, a first indexing included.
Write_Restores(w) ==
    LET d == job[w].doc
    IN  /\ pc[w] = "write" /\ Exists(d) /\ ~RowLocked(d)
        /\ status' = [status EXCEPT ![d] = IF goal[w] = "pending" THEN "pending" ELSE "active"]
        /\ chunkCount' = [chunkCount EXCEPT ![d] = IF goal[w] = "active" THEN ChunksOf[d] ELSE seen[w]]
        /\ indexedAt' = indexedAt \cup (IF goal[w] = "active" THEN {d} ELSE {})
        /\ stale' = stale \ {d}
        /\ AfterWrite(w)
        /\ UNCHANGED <<stores, queue, starting, request, history>>

\* and write it back, whatever became of it in the meantime.
Write(w) ==
    LET d == job[w].doc
    IN  /\ pc[w] = "write" /\ Exists(d) /\ ~RowLocked(d)
        /\ status' = [status EXCEPT ![d] =
             IF goal[w] = "restored" THEN "active" ELSE goal[w]]
        /\ chunkCount' = [chunkCount EXCEPT ![d] =
             CASE goal[w] = "active" -> ChunksOf[d]
               [] goal[w] \in {"pending", "restored"} -> seen[w]
               [] goal[w] = "failed" -> @]
        /\ indexedAt' = indexedAt \cup (IF goal[w] = "active" THEN {d} ELSE {})
        /\ stale' = stale \ {d}
        /\ AfterWrite(w)
        /\ UNCHANGED <<stores, queue, starting, request, history>>

\* The session raises; it must when the row was deleted between the two.  After a
\* success this counts as a failed attempt, after a failure nothing more is done.
WriteFails(w) ==
    /\ pc[w] = "write"
    /\ IF goal[w] = "active"
       THEN Fail(w) /\ UNCHANGED <<job, seen, incidents>>
       ELSE Done(w) /\ Note(job[w].doc, "unsettled")
    /\ UNCHANGED <<rows, stores, queue, starting, request, reindexes, crashes>>

\* The next attempt; a push that fails is logged and the job is lost.
Enqueue(w) ==
    /\ pc[w] = "enqueue"
    /\ \/ Push([job[w] EXCEPT !.attempt = @ + 1]) /\ UNCHANGED incidents
       \/ UNCHANGED queue /\ Note(job[w].doc, "jobLost")
    /\ Done(w)
    /\ UNCHANGED <<rows, stores, starting, request, reindexes, crashes>>

-----------------------------------------------------------------------------
(* Crashes and restarts: requeue_orphans *)

\* A process dies with its consumer, its requests and the job it had popped.
Crash(w) ==
    LET lost == {h \in Handlers : Home[h] = w}
        cut == {h \in lost : pc[h] = "deleteCommit"}
    IN  /\ pc[w] # "down" /\ crashes < MaxCrashes
        /\ pc' = [p \in Procs |->
             IF p = w THEN "down" ELSE IF p \in lost THEN "idle" ELSE pc[p]]
        /\ job' = [job EXCEPT ![w] = NoJob]
        /\ seen' = [seen EXCEPT ![w] = 0]
        /\ gen' = [gen EXCEPT ![w] = NoGeneration]
        /\ found' = [found EXCEPT ![w] = {}]
        /\ goal' = [goal EXCEPT ![w] = "pending"]
        /\ plan' = [plan EXCEPT ![w] = {}]
        /\ resets' = [resets EXCEPT ![w] = {}]
        /\ doc' = [h \in Handlers |-> IF h \in lost THEN NoDoc ELSE doc[h]]
        /\ kind' = [h \in Handlers |-> IF h \in lost THEN "upload" ELSE kind[h]]
        /\ incidents' = incidents \cup {<<doc[h], "halfDeleted">> : h \in cut}
        /\ crashes' = crashes + 1
        /\ UNCHANGED <<rows, stores, queue, reindexes>>

Restart(w) ==
    /\ Goto(w, "down", "select")
    /\ UNCHANGED <<rows, stores, queue, working, starting, request, history>>

\* Half an hour passes since the claim.
BecomeStale(d) ==
    /\ status[d] = "indexing" /\ d \notin stale
    /\ Punctual => ~HasWorker(d)
    /\ stale' = stale \cup {d}
    /\ UNCHANGED <<status, chunkCount, indexedAt, stores, queue, pc, working, starting,
                   request, history>>

\* Mutant: the sweep takes the stale rows only, not the pending ones.
RequeueSelect_StaleOnly(w) ==
    LET found0 == {d \in Docs : status[d] = "indexing" /\ d \in stale}
        left == {d \in Docs : status[d] = "indexing" /\ d \notin stale /\ ~HasWorker(d)}
    IN  /\ Goto(w, "select", "reset")
        /\ plan' = [plan EXCEPT ![w] = {<<d, KindOf(d)>> : d \in found0}]
        /\ resets' = [resets EXCEPT ![w] = found0]
        /\ incidents' = incidents \cup (left \X {"skipped"})
        /\ UNCHANGED <<rows, stores, queue, working, request, reindexes, crashes>>

\* Pending rows are pushed again, stale indexing ones are reset first.
RequeueSelect(w) ==
    LET abandoned == {d \in Docs : status[d] = "indexing" /\ d \in stale}
        pending == {d \in Docs : status[d] = "pending"}
        left == {d \in Docs : status[d] = "indexing" /\ d \notin stale /\ ~HasWorker(d)}
    IN  /\ Goto(w, "select", "reset")
        /\ plan' = [plan EXCEPT ![w] = {<<d, KindOf(d)>> : d \in abandoned \cup pending}]
        /\ resets' = [resets EXCEPT ![w] = abandoned]
        /\ incidents' = incidents \cup (left \X {"skipped"})
        /\ UNCHANGED <<rows, stores, queue, working, request, reindexes, crashes>>

\* The reset does not look whether the row is still what the select found.
RequeueReset(w) ==
    LET moved == {d \in resets[w] : \/ status[d] # "indexing" \/ d \notin stale
                                    \/ HasWorker(d) \/ <<d, KindOf(d)>> \notin plan[w]}
    IN  /\ Goto(w, "reset", IF plan[w] = {} THEN "idle" ELSE "requeue")
        /\ \A d \in resets[w] : Exists(d) /\ ~RowLocked(d)
        /\ status' = [d \in Docs |->
             IF d \notin resets[w] THEN status[d]
             ELSE IF <<d, "reindex">> \in plan[w] THEN "active" ELSE "pending"]
        /\ stale' = stale \ resets[w]
        /\ resets' = [resets EXCEPT ![w] = {}]
        /\ incidents' = incidents \cup (moved \X {"overtaken"})
        /\ UNCHANGED <<chunkCount, indexedAt, stores, queue, working, plan, request,
                       reindexes, crashes>>

Requeue(w) ==
    /\ pc[w] = "requeue"
    /\ \E x \in plan[w] :
          /\ Push([doc |-> x[1], kind |-> x[2], attempt |-> 1])
          /\ plan' = [plan EXCEPT ![w] = @ \ {x}]
          /\ pc' = [pc EXCEPT ![w] = IF plan[w] = {x} THEN "idle" ELSE "requeue"]
    /\ UNCHANGED <<rows, stores, working, resets, request, history>>

\* An error while starting takes the process down; it is started again.
StartFails(w) ==
    /\ pc[w] \in {"select", "reset", "requeue"}
    /\ pc' = [pc EXCEPT ![w] = "down"]
    /\ plan' = [plan EXCEPT ![w] = {}]
    /\ resets' = [resets EXCEPT ![w] = {}]
    /\ UNCHANGED <<rows, stores, queue, working, request, history>>

-----------------------------------------------------------------------------
HandlerStep(h) ==
    \/ UploadCommit(h) \/ UploadEnqueue(h) \/ UploadEnqueueFails(h)
    \/ UploadUndo(h) \/ UploadUndoFails(h) \/ UploadDropFails(h)
    \/ ReindexEnqueue(h)
    \/ DeleteChunks(h) \/ DeleteFails(h) \/ DeleteCommit(h)

WorkerStep(w) ==
    \/ Pop(w) \/ Claim(w) \/ ClaimSkipped(w) \/ ClaimFails(w)
    \/ Load(w) \/ Sweep(w) \/ SweepDelete(w)
    \/ \E g \in Generations : Add(w, g)
    \/ JobFails(w) \/ DropChunks(w) \/ DropBytes(w)
    \/ Read(w) \/ Write(w) \/ WriteFails(w) \/ Enqueue(w)

StartStep(w) ==
    \/ Restart(w) \/ RequeueSelect(w) \/ RequeueReset(w) \/ Requeue(w)
    \/ StartFails(w)

Step ==
    \/ \E h \in Handlers :
          \/ HandlerStep(h)
          \/ \E d \in Docs :
                UploadPut(h, d) \/ UploadPutFails(h, d) \/ ReindexStart(h, d) \/ DeleteRow(h, d)
    \/ \E w \in Workers : WorkerStep(w) \/ StartStep(w) \/ Crash(w)
    \/ \E d \in Docs : BecomeStale(d)

Next == Step /\ Cardinality(incidents') <= MaxIncidents

Spec == Init /\ [][Next]_vars

-----------------------------------------------------------------------------
(* Properties *)

Happened(d, whats) == \E what \in whats : <<d, what>> \in incidents

TypeOK ==
    /\ status \in [Docs -> Status]
    /\ chunkCount \in [Docs -> Nat]
    /\ indexedAt \subseteq Docs /\ stale \subseteq Docs /\ objects \subseteq Docs
    /\ chunks \in [Docs -> SUBSET Generations]
    /\ queue \in Seq(Job)
    /\ pc \in [Procs -> WorkerPC \cup HandlerPC]
    /\ \A w \in Workers : pc[w] \in WorkerPC
    /\ \A h \in Handlers : pc[h] \in HandlerPC
    /\ job \in [Workers -> Job \cup {NoJob}]
    /\ seen \in [Workers -> Nat]
    /\ gen \in [Workers -> Generations \cup {NoGeneration}]
    /\ found \in [Workers -> SUBSET Generations]
    /\ goal \in [Workers -> {"pending", "active", "restored", "failed"}]
    /\ plan \in [Workers -> SUBSET (Docs \X Kind)]
    /\ resets \in [Workers -> SUBSET Docs]
    /\ doc \in [Handlers -> Docs \cup {NoDoc}]
    /\ kind \in [Handlers -> Kind]
    /\ incidents \subseteq Docs \X Incident
    /\ reindexes \in Nat /\ crashes \in Nat

\* The claim admits one worker at a time to a document, whatever duplicates of its
\* job are queued; only a restart that resets a row it no longer knows breaks it.
OneIndexer ==
    \A v, w \in Workers :
        /\ v # w /\ pc[v] \in BusyPC /\ pc[w] \in BusyPC
        /\ job[v].doc = job[w].doc
        => Happened(job[v].doc, {"overtaken"})

\* A document shown as active with chunks has chunks: searching finds it.
ActiveIsRetrievable ==
    \A d \in Docs :
        status[d] = "active" /\ chunkCount[d] > 0 =>
            \/ chunks[d] # {} \/ RowLocked(d)
            \/ Happened(d, {"overtaken", "halfDeleted"})

\* A document becomes active by being indexed, and its count is that of its chunks.
ActiveWasIndexed ==
    \A d \in Docs :
        status[d] = "active" =>
            \/ d \in indexedAt /\ chunkCount[d] = ChunksOf[d]
            \/ Happened(d, {"early", "overtaken"})

\* A first indexing that failed for good leaves no chunks and no bytes behind (so
\* that retrying it from the console cannot succeed).
FailedIsClean ==
    \A d \in Docs :
        status[d] = "failed" =>
            \/ chunks[d] = {} /\ d \notin objects
            \/ Happened(d, {"uncleaned", "overtaken"})

\* The chunks of a deleted document do not go on answering questions.
DeletedIsGone ==
    \A d \in Docs :
        status[d] = "gone" => chunks[d] = {} \/ Happened(d, {"indexedAway"})

\* Every unsettled document has somebody who will settle it: a job queued or in
\* hand, a request about to push one, or a process that will requeue it.
QueuedFor(d) == \E i \in 1..Len(queue) : queue[i].doc = d
InHandFor(d) ==
    \/ \E w \in Workers : pc[w] \in {"claim", "enqueue"} /\ job[w].doc = d
    \/ \E h \in Handlers : pc[h] \in {"uploadEnqueue", "uploadUndo"} /\ doc[h] = d
WillRequeue(d) ==
    \E w \in Workers :
        \/ pc[w] \in {"down", "select"}
        \/ d \in resets[w] \/ \E k \in Kind : <<d, k>> \in plan[w]
NobodyForgotten ==
    \A d \in Docs :
        /\ status[d] = "pending" =>
              \/ QueuedFor(d) \/ InHandFor(d) \/ WillRequeue(d)
              \/ Happened(d, {"jobLost"})
        /\ status[d] = "indexing" =>
              \/ HasWorker(d) \/ WillRequeue(d)
              \/ Happened(d, {"skipped", "unsettled"})
=============================================================================
