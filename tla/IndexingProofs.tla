-------------------------- MODULE IndexingProofs --------------------------
(***************************************************************************)
(* Proofs about Indexing, for any number of documents, processes, requests *)
(* and attempts.  All of the invariant speaks of one document at a time:   *)
(* what its worker, its requests and the stores may be in the middle of.   *)
(* A document that was overtaken is excepted from what rests on its having *)
(* one worker.  IInv carries the rows, the stores and the claim; Stocked,  *)
(* on top of it, the chunks of an indexed document; Minded, who will see   *)
(* to a document that is not settled.                                      *)
(***************************************************************************)
EXTENDS Indexing, TLAPS

Overtaken(d) == <<d, "overtaken">> \in incidents
Busy(w) == pc[w] \in BusyPC

\* Only a document that has been indexed, or was reindexed too early, is reindexed.
MayReindex(d) == d \in indexedAt \/ <<d, "early">> \in incidents \/ Overtaken(d)
ReindexOK ==
    /\ \A i \in 1..Len(queue) : queue[i].kind = "reindex" => MayReindex(queue[i].doc)
    /\ \A w \in Workers : job[w].kind = "reindex" => MayReindex(job[w].doc)
    /\ \A w \in Workers : \A d \in Docs : <<d, "reindex">> \in plan[w] => MayReindex(d)
    /\ \A h \in Handlers : kind[h] = "reindex" => MayReindex(doc[h])

\* A deleted document, or one whose DELETE is about to commit, has no chunks and
\* nobody to write any.
Emptied(d) == (chunks[d] = {} /\ ~HasWorker(d)) \/ <<d, "indexedAway">> \in incidents

\* What the row of a document says of its chunks and its bytes.
Clean(d) ==
    \/ chunks[d] = {} /\ d \notin objects
    \/ <<d, "uncleaned">> \in incidents \/ Overtaken(d)
DocOK(d) ==
    /\ status[d] = "absent" => ~Overtaken(d)
    /\ status[d] = "failed" => Clean(d)
    /\ status[d] = "gone" => Emptied(d)
    /\ status[d] = "active" => MayReindex(d)
    /\ chunkCount[d] = (IF d \in indexedAt THEN ChunksOf[d] ELSE 0) \/ Overtaken(d)

\* A worker, and how far it has got with the document it has claimed.
WorkerOK(w) ==
    LET d == job[w].doc
    IN  /\ pc[w] \in BusyPC \cup {"claim", "enqueue"} => job[w] \in Job
        /\ pc[w] = "enqueue" => job[w].attempt < MaxAttempts
        /\ pc[w] \in {"add", "sweep", "delete"} => goal[w] = "active"
        /\ goal[w] = "restored" => job[w].kind = "reindex"
        /\ pc[w] \notin BusyPC \cup {"enqueue"} => goal[w] # "restored"
        /\ Busy(w) => \/ Overtaken(d)
                      \/ status[d] \in {"indexing", "gone"} /\ seen[w] = chunkCount[d]
        /\ pc[w] = "dropBytes" =>
              chunks[d] = {} \/ <<d, "uncleaned">> \in incidents \/ Overtaken(d)
        /\ pc[w] \in {"read", "write"} /\ goal[w] = "failed" => Clean(d)

\* A request: who uploads a document is alone with it until its row is there.
HandlerOK(h) ==
    LET d == doc[h]
    IN  /\ pc[h] # "idle" => d \in Docs
        /\ pc[h] = "uploadCommit" =>
              /\ status[d] = "absent" /\ d \in objects
              /\ \A g \in Handlers \ {h} : pc[g] # "idle" => doc[g] # d
        /\ pc[h] \notin {"idle", "uploadCommit"} => status[d] # "absent"
        /\ pc[h] = "deleteCommit" => Emptied(d)
        /\ pc[h] # "reindexEnqueue" => kind[h] = "upload"

\* The inductive strengthening of the safety properties of Indexing.
IInv ==
    /\ TypeOK /\ ReindexOK /\ OneIndexer
    /\ \A d \in Docs : DocOK(d)
    /\ \A w \in Workers : WorkerOK(w)
    /\ \A h \in Handlers : HandlerOK(h)

-----------------------------------------------------------------------------
(* What a step leaves as it was *)

USE DEF rows, stores, working, starting, request, history

\* No accident and no success is forgotten.
Remembers == incidents \subseteq incidents' /\ indexedAt \subseteq indexedAt'

\* No worker takes up a document.
NoClaim == \A v \in Workers : Busy(v)' => Busy(v) /\ job'[v].doc = job[v].doc

SameRow(d) ==
    /\ status'[d] = status[d] /\ chunkCount'[d] = chunkCount[d]
    /\ d \in indexedAt' => d \in indexedAt
SmallerStores(d) == chunks'[d] \subseteq chunks[d] /\ (d \in objects' => d \in objects)

LEMMA ReindexElsewhere ==
    ASSUME ReindexOK, Remembers,
           \A w \in Workers : job'[w] \in {job[w], NoJob},
           \A w \in Workers : plan'[w] \subseteq plan[w],
           \A h \in Handlers : \/ kind'[h] = "upload"
                               \/ kind'[h] = kind[h] /\ doc'[h] = doc[h]
    PROVE  /\ (\A w \in Workers : job[w].kind = "reindex" => MayReindex(job[w].doc))'
           /\ (\A w \in Workers : \A d \in Docs : <<d, "reindex">> \in plan[w] => MayReindex(d))'
           /\ (\A h \in Handlers : kind[h] = "reindex" => MayReindex(doc[h]))'
<1>1. (\A w \in Workers : job[w].kind = "reindex" => MayReindex(job[w].doc))'
  BY SMT DEF ReindexOK, NoJob, MayReindex, Remembers, Overtaken
<1>2. (\A w \in Workers : \A d \in Docs : <<d, "reindex">> \in plan[w] => MayReindex(d))'
  BY SMT DEF ReindexOK, MayReindex, Remembers, Overtaken
<1>3. (\A h \in Handlers : kind[h] = "reindex" => MayReindex(doc[h]))'
  BY SMT DEF ReindexOK, MayReindex, Remembers, Overtaken
<1> QED  BY <1>1, <1>2, <1>3

LEMMA ReindexKept ==
    ASSUME ReindexOK, Remembers, queue' = queue,
           \A w \in Workers : job'[w] \in {job[w], NoJob},
           \A w \in Workers : plan'[w] \subseteq plan[w],
           \A h \in Handlers : \/ kind'[h] = "upload"
                               \/ kind'[h] = kind[h] /\ doc'[h] = doc[h]
    PROVE  ReindexOK'
<1>1. (\A i \in 1..Len(queue) : queue[i].kind = "reindex" => MayReindex(queue[i].doc))'
  BY SMT DEF ReindexOK, MayReindex, Remembers, Overtaken
<1> QED  BY <1>1, ReindexElsewhere DEF ReindexOK

\* A job pushed, with nothing else changed that the jobs know of.
LEMMA ReindexPushed ==
    ASSUME ReindexOK, Remembers, queue \in Seq(Job), NEW j \in Job, queue' = Append(queue, j),
           j.kind = "reindex" => MayReindex(j.doc),
           \A w \in Workers : job'[w] \in {job[w], NoJob},
           \A w \in Workers : plan'[w] \subseteq plan[w],
           \A h \in Handlers : \/ kind'[h] = "upload"
                               \/ kind'[h] = kind[h] /\ doc'[h] = doc[h]
    PROVE  ReindexOK'
<1>1. /\ Len(queue') = Len(queue) + 1 /\ queue'[Len(queue) + 1] = j
      /\ \A i \in 1..Len(queue) : queue'[i] = queue[i]
  OBVIOUS
<1>2. \A i \in 1..Len(queue') : i \in 1..Len(queue) \/ i = Len(queue) + 1
  BY SMT, <1>1
<1>3. (\A i \in 1..Len(queue) : queue[i].kind = "reindex" => MayReindex(queue[i].doc))'
  BY SMT, <1>1, <1>2 DEF ReindexOK, MayReindex, Remembers, Overtaken
<1> QED  BY <1>3, ReindexElsewhere DEF ReindexOK

LEMMA OneIndexerKept ==
    ASSUME OneIndexer, Remembers, NoClaim
    PROVE  OneIndexer'
BY SMT DEF OneIndexer, Remembers, NoClaim, Busy, Happened

LEMMA DocKept ==
    ASSUME NEW d \in Docs, DocOK(d), Remembers, NoClaim, SameRow(d), SmallerStores(d),
           Overtaken(d)' => Overtaken(d) \/ status[d] # "absent"
    PROVE  DocOK(d)'
BY SMT DEF DocOK, Remembers, NoClaim, SameRow, SmallerStores, Overtaken, Busy, HasWorker,
  MayReindex, Clean, Emptied

LEMMA WorkerKept ==
    ASSUME NEW w \in Workers, WorkerOK(w), Remembers,
           pc'[w] = pc[w], job'[w] = job[w], seen'[w] = seen[w], goal'[w] = goal[w],
           Busy(w) => \/ SameRow(job[w].doc) /\ SmallerStores(job[w].doc)
                      \/ Overtaken(job[w].doc)'
    PROVE  WorkerOK(w)'
BY SMT DEF WorkerOK, Remembers, SameRow, SmallerStores, Overtaken, Busy, BusyPC, Clean

\* A worker that is done.
LEMMA WorkerIdle ==
    ASSUME NEW w \in Workers, pc'[w] \notin BusyPC \cup {"claim", "enqueue"},
           goal'[w] # "restored"
    PROVE  WorkerOK(w)'
BY SMT DEF WorkerOK, Busy, BusyPC

LEMMA HandlerKept ==
    ASSUME NEW h \in Handlers, HandlerOK(h), Remembers,
           pc'[h] = pc[h], doc'[h] = doc[h], kind'[h] = kind[h],
           pc[h] # "idle" => (status'[doc[h]] = "absent" <=> status[doc[h]] = "absent"),
           pc[h] = "uploadCommit" => /\ doc[h] \in objects'
                                     /\ \A g \in Handlers \ {h} : pc'[g] # "idle" =>
                                           \/ pc[g] # "idle" /\ doc'[g] = doc[g]
                                           \/ doc'[g] # doc[h],
           pc[h] = "deleteCommit" => NoClaim /\ chunks'[doc[h]] \subseteq chunks[doc[h]]
    PROVE  HandlerOK(h)'
BY SMT DEF HandlerOK, Remembers, NoClaim, Emptied, HasWorker, Busy

-----------------------------------------------------------------------------
(* The initial states *)

LEMMA InitInv == Init => IInv
<1> SUFFICES ASSUME Init PROVE IInv
  OBVIOUS
<1>1. TypeOK
  <2>1. /\ status \in [Docs -> Status] /\ chunkCount \in [Docs -> Nat]
        /\ indexedAt \subseteq Docs /\ stale \subseteq Docs /\ objects \subseteq Docs
        /\ chunks \in [Docs -> SUBSET Generations]
    BY SMT DEF Init, Status
  <2>2. queue \in Seq(Job)
    BY SMT DEF Init
  <2>3. /\ pc \in [Procs -> WorkerPC \cup HandlerPC]
        /\ \A w \in Workers : pc[w] \in WorkerPC
        /\ \A h \in Handlers : pc[h] \in HandlerPC
    BY SMT DEF Init, Procs, WorkerPC, HandlerPC
  <2>4. /\ job \in [Workers -> Job \cup {NoJob}] /\ seen \in [Workers -> Nat]
        /\ gen \in [Workers -> Generations \cup {NoGeneration}]
        /\ found \in [Workers -> SUBSET Generations]
        /\ goal \in [Workers -> {"pending", "active", "restored", "failed"}]
    BY SMT DEF Init
  <2>5. /\ plan \in [Workers -> SUBSET (Docs \X Kind)] /\ resets \in [Workers -> SUBSET Docs]
        /\ doc \in [Handlers -> Docs \cup {NoDoc}] /\ kind \in [Handlers -> Kind]
    BY SMT DEF Init, Kind
  <2>6. incidents \subseteq Docs \X Incident /\ reindexes \in Nat /\ crashes \in Nat
    BY SMT DEF Init
  <2> QED  BY <2>1, <2>2, <2>3, <2>4, <2>5, <2>6 DEF TypeOK
<1>2. ReindexOK
  BY SMT DEF Init, ReindexOK, NoJob
<1>3. OneIndexer
  BY SMT DEF Init, OneIndexer, BusyPC, Procs
<1>4. ASSUME NEW d \in Docs PROVE DocOK(d)
  BY SMT DEF Init, DocOK, Overtaken
<1>5. ASSUME NEW w \in Workers PROVE WorkerOK(w)
  BY SMT DEF Init, WorkerOK, Busy, BusyPC, Procs
<1>6. ASSUME NEW h \in Handlers PROVE HandlerOK(h)
  BY SMT DEF Init, HandlerOK, Procs
<1> QED  BY <1>1, <1>2, <1>3, <1>4, <1>5, <1>6 DEF IInv

-----------------------------------------------------------------------------
(* Requests *)

\* A document somebody works on has a row.
LEMMA BusyHasRow ==
    ASSUME IInv, NEW w \in Workers, Busy(w)
    PROVE  job[w] \in Job /\ job[w].doc \in Docs /\ status[job[w].doc] # "absent"
<1>1. job[w] \in Job /\ (Overtaken(job[w].doc) \/ status[job[w].doc] \in {"indexing", "gone"})
  BY DEF IInv, WorkerOK, Busy
<1>2. job[w].doc \in Docs
  BY <1>1 DEF Job
<1>3. status[job[w].doc] = "absent" => ~Overtaken(job[w].doc)
  BY <1>2 DEF IInv, DocOK
<1> QED  BY <1>1, <1>2, <1>3

\* A step of a request leaves the workers alone, and keeps what is said of the
\* documents and requests it does not touch.
Untouched(d) == SameRow(d) /\ SmallerStores(d)
Apart(g, h) ==
    /\ pc[g] # "idle" => (status'[doc[g]] = "absent" <=> status[doc[g]] = "absent")
    /\ pc[g] = "uploadCommit" =>
          /\ doc[g] \in objects'
          /\ pc'[h] = "idle" \/ doc'[h] # doc[g] \/ (pc[h] # "idle" /\ doc'[h] = doc[h])
    /\ pc[g] = "deleteCommit" => chunks'[doc[g]] \subseteq chunks[doc[g]]
RequestFrame(h) ==
    /\ NoClaim /\ OneIndexer'
    /\ \A w \in Workers : pc'[w] = pc[w]
    /\ \A e \in Docs : Untouched(e) => DocOK(e)'
    /\ \A w \in Workers : (Busy(w) => Untouched(job[w].doc)) => WorkerOK(w)'
    /\ \A g \in Handlers \ {h} : Apart(g, h) => HandlerOK(g)'

LEMMA RequestStep ==
    ASSUME IInv, NEW h \in Handlers, NEW s, pc' = [pc EXCEPT ![h] = s],
           UNCHANGED <<job, seen, goal, plan, indexedAt, chunkCount>>, Remembers,
           \A e \in Docs : Overtaken(e)' => Overtaken(e),
           \A g \in Handlers \ {h} : doc'[g] = doc[g] /\ kind'[g] = kind[g]
    PROVE  RequestFrame(h)
<1>1. /\ pc'[h] = s
      /\ \A w \in Workers : pc'[w] = pc[w]
      /\ \A g \in Handlers \ {h} : pc'[g] = pc[g]
  BY SMT, IndexingAssumption DEF IInv, TypeOK, Procs
<1>2. NoClaim
  BY <1>1 DEF NoClaim, Busy
<1>3. OneIndexer'
  BY <1>2, OneIndexerKept DEF IInv
<1>4. ASSUME NEW e \in Docs, Untouched(e) PROVE DocOK(e)'
  BY <1>2, <1>4, DocKept DEF IInv, Untouched
<1>5. ASSUME NEW w \in Workers, Busy(w) => Untouched(job[w].doc) PROVE WorkerOK(w)'
  BY <1>1, <1>5, WorkerKept DEF IInv, Untouched
<1>6. ASSUME NEW g \in Handlers \ {h}, Apart(g, h) PROVE HandlerOK(g)'
  <2>1. HandlerOK(g) /\ pc'[g] = pc[g] /\ doc'[g] = doc[g] /\ kind'[g] = kind[g]
    BY <1>1 DEF IInv
  <2>2. ASSUME NEW f \in Handlers \ {g}, pc'[f] # "idle", pc[g] = "uploadCommit"
        PROVE  (pc[f] # "idle" /\ doc'[f] = doc[f]) \/ doc'[f] # doc[g]
    BY <1>1, <1>6, <2>2 DEF Apart
  <2> QED  BY <1>2, <1>6, <2>1, <2>2, HandlerKept DEF Apart
<1> QED  BY <1>1, <1>2, <1>3, <1>4, <1>5, <1>6 DEF RequestFrame

LEMMA PushedJob ==
    ASSUME queue \in Seq(Job), NEW j \in Job, queue' = queue \/ queue' = Append(queue, j)
    PROVE  queue' \in Seq(Job)
OBVIOUS

LEMMA FewerChunks ==
    ASSUME chunks \in [Docs -> SUBSET Generations], NEW d \in Docs, NEW S \in SUBSET chunks[d],
           chunks' = chunks \/ chunks' = [chunks EXCEPT ![d] = S]
    PROVE  /\ chunks' \in [Docs -> SUBSET Generations]
           /\ \A e \in Docs : chunks'[e] \subseteq chunks[e]
OBVIOUS

PcOK ==
    /\ pc \in [Procs -> WorkerPC \cup HandlerPC]
    /\ \A w \in Workers : pc[w] \in WorkerPC
    /\ \A h \in Handlers : pc[h] \in HandlerPC

LEMMA PcStep ==
    ASSUME TypeOK, NEW w \in Workers, NEW s \in WorkerPC, pc' = [pc EXCEPT ![w] = s]
    PROVE  PcOK'
<1>1. /\ pc'[w] = s
      /\ \A v \in Workers \ {w} : pc'[v] = pc[v]
      /\ \A h \in Handlers : pc'[h] = pc[h]
  BY SMT, IndexingAssumption DEF TypeOK, Procs
<1>2. pc' \in [Procs -> WorkerPC \cup HandlerPC]
  BY DEF TypeOK
<1> QED  BY <1>1, <1>2 DEF TypeOK, PcOK

LEMMA UploadPutInv ==
    ASSUME IInv, NEW h \in Handlers, NEW d \in Docs, UploadPut(h, d)
    PROVE  IInv'
<1>1. TypeOK'
  BY SMT, IndexingAssumption DEF IInv, TypeOK, UploadPut, Goto, Procs, WorkerPC, HandlerPC
<1>2. /\ Remembers /\ kind[h] = "upload"
      /\ \A g \in Handlers \ {h} : doc'[g] = doc[g] /\ kind'[g] = kind[g]
      /\ pc'[h] = "uploadCommit" /\ doc'[h] = d /\ kind'[h] = "upload"
  BY SMT, IndexingAssumption DEF IInv, TypeOK, UploadPut, Goto, Procs, Remembers, HandlerOK
<1>3. RequestFrame(h)
  BY RequestStep, <1>2 DEF UploadPut, Goto, Overtaken
<1>4. ReindexOK'
  BY ReindexKept, <1>2 DEF IInv, UploadPut
<1>5. ASSUME NEW e \in Docs PROVE e # d => Untouched(e)
  BY SMT DEF UploadPut, Untouched, SameRow, SmallerStores
<1>6. DocOK(d)'
  BY SMT DEF IInv, UploadPut, DocOK, Overtaken
<1>7. ASSUME NEW w \in Workers PROVE Busy(w) => job[w].doc \in Docs /\ job[w].doc # d
  BY BusyHasRow DEF UploadPut
<1>8. ASSUME NEW g \in Handlers \ {h} PROVE Apart(g, h)
  BY SMT, <1>2 DEF IInv, HandlerOK, UploadPut, Apart
<1>9. ASSUME NEW g \in Handlers \ {h}, pc'[g] # "idle" PROVE doc'[g] # d
  BY SMT, <1>9, IndexingAssumption DEF IInv, TypeOK, HandlerOK, UploadPut, Goto, Procs
<1>10. HandlerOK(h)'
  BY SMT, <1>2, <1>9 DEF UploadPut, HandlerOK
<1> QED  BY <1>1, <1>3, <1>4, <1>5, <1>6, <1>7, <1>8, <1>10 DEF IInv, RequestFrame

LEMMA UploadPutFailsInv ==
    ASSUME IInv, NEW h \in Handlers, NEW d \in Docs, UploadPutFails(h, d)
    PROVE  IInv'
<1>1. TypeOK'
  BY SMT DEF IInv, TypeOK, UploadPutFails
<1>2. Remembers /\ pc' = [pc EXCEPT ![h] = "idle"]
  BY SMT, IndexingAssumption DEF IInv, TypeOK, UploadPutFails, Procs, Remembers
<1>3. RequestFrame(h)
  BY RequestStep, <1>2 DEF UploadPutFails, Overtaken
<1>4. ReindexOK'
  BY ReindexKept, <1>2 DEF IInv, UploadPutFails
<1>5. ASSUME NEW e \in Docs PROVE e # d => Untouched(e)
  BY SMT DEF UploadPutFails, Untouched, SameRow, SmallerStores
<1>6. DocOK(d)'
  BY SMT DEF IInv, UploadPutFails, DocOK, Overtaken
<1>7. ASSUME NEW w \in Workers PROVE Busy(w) => job[w].doc \in Docs /\ job[w].doc # d
  BY BusyHasRow DEF UploadPutFails
<1>8. ASSUME NEW g \in Handlers \ {h} PROVE Apart(g, h)
  BY SMT DEF IInv, HandlerOK, UploadPutFails, Apart
<1>9. HandlerOK(h)'
  BY SMT DEF IInv, UploadPutFails, HandlerOK
<1> QED  BY <1>1, <1>3, <1>4, <1>5, <1>6, <1>7, <1>8, <1>9 DEF IInv, RequestFrame

LEMMA UploadCommitInv ==
    ASSUME IInv, NEW h \in Handlers, UploadCommit(h)
    PROVE  IInv'
<1>1. /\ Remembers /\ pc'[h] = "uploadEnqueue" /\ doc' = doc /\ kind' = kind
      /\ pc[h] = "uploadCommit"
  BY SMT, IndexingAssumption DEF IInv, TypeOK, UploadCommit, Goto, Procs, Remembers
<1>2. PICK d \in Docs : d = doc[h]
  BY <1>1 DEF IInv, HandlerOK
<1>3. /\ status[d] = "absent" /\ status' = [status EXCEPT ![d] = "pending"]
      /\ \A g \in Handlers \ {h} : pc[g] # "idle" => doc[g] # d
  BY <1>1, <1>2 DEF IInv, HandlerOK, UploadCommit, TypeOK
<1>4. TypeOK'
  <2>1. status' \in [Docs -> Status]
    BY SMT, <1>3 DEF IInv, TypeOK, Status
  <2> QED  BY SMT, <2>1, IndexingAssumption DEF IInv, TypeOK, UploadCommit, Goto, Procs, WorkerPC, HandlerPC
<1>5. RequestFrame(h)
  BY RequestStep, <1>1 DEF UploadCommit, Goto, Overtaken
<1>6. ReindexOK'
  BY ReindexKept, <1>1 DEF IInv, UploadCommit
<1>7. ASSUME NEW e \in Docs, e # d PROVE Untouched(e)
  BY SMT, <1>3, <1>7 DEF IInv, TypeOK, UploadCommit, Untouched, SameRow, SmallerStores
<1>8. DocOK(d)'
  BY SMT, <1>3 DEF IInv, TypeOK, UploadCommit, DocOK, Overtaken
<1>9. ASSUME NEW w \in Workers, Busy(w) PROVE job[w].doc \in Docs /\ job[w].doc # d
  BY BusyHasRow, <1>3, <1>9
<1>10. ASSUME NEW g \in Handlers \ {h} PROVE Apart(g, h)
  BY SMT, <1>1, <1>2, <1>3 DEF IInv, TypeOK, HandlerOK, UploadCommit, Apart
<1>11. HandlerOK(h)'
  BY SMT, <1>1, <1>2, <1>3 DEF IInv, TypeOK, UploadCommit, HandlerOK
<1> QED  BY <1>4, <1>5, <1>6, <1>7, <1>8, <1>9, <1>10, <1>11 DEF IInv, RequestFrame

LEMMA UploadEnqueueInv ==
    ASSUME IInv, NEW h \in Handlers, UploadEnqueue(h)
    PROVE  IInv'
<1> DEFINE j == [doc |-> doc[h], kind |-> "upload", attempt |-> 1]
<1>1. j \in Job
  BY SMT, IndexingAssumption DEF IInv, HandlerOK, UploadEnqueue, Job, Kind
<1>2. TypeOK'
  BY SMT, IndexingAssumption, <1>1 DEF IInv, TypeOK, UploadEnqueue, Push, Finish, Procs, WorkerPC,
     HandlerPC, Kind
<1>3. /\ Remembers /\ pc'[h] = "idle" /\ kind'[h] = "upload" /\ pc[h] = "uploadEnqueue"
      /\ \A g \in Handlers \ {h} : doc'[g] = doc[g] /\ kind'[g] = kind[g]
  BY SMT, IndexingAssumption DEF IInv, TypeOK, UploadEnqueue, Finish, Procs, Remembers
<1>4. RequestFrame(h)
  BY RequestStep, <1>3 DEF UploadEnqueue, Finish, Overtaken
<1>5. ReindexOK'
  BY ReindexPushed, <1>1, <1>3 DEF IInv, UploadEnqueue, Push, TypeOK
<1>6. ASSUME NEW e \in Docs PROVE Untouched(e)
  BY SMT DEF UploadEnqueue, Untouched, SameRow, SmallerStores
<1>7. ASSUME NEW w \in Workers PROVE Busy(w) => job[w].doc \in Docs
  BY BusyHasRow
<1>8. ASSUME NEW g \in Handlers \ {h} PROVE Apart(g, h)
  BY SMT, <1>3 DEF IInv, HandlerOK, UploadEnqueue, Apart
<1>9. HandlerOK(h)'
  BY SMT, <1>3 DEF HandlerOK
<1> QED  BY <1>2, <1>4, <1>5, <1>6, <1>7, <1>8, <1>9 DEF IInv, RequestFrame

LEMMA UploadEnqueueFailsInv ==
    ASSUME IInv, NEW h \in Handlers, UploadEnqueueFails(h)
    PROVE  IInv'
<1> DEFINE j == [doc |-> doc[h], kind |-> "upload", attempt |-> 1]
<1>1. j \in Job
  BY SMT, IndexingAssumption DEF IInv, HandlerOK, UploadEnqueueFails, Goto, Job, Kind
<1>2. TypeOK'
  <2>1. queue' \in Seq(Job)
    BY <1>1, PushedJob DEF IInv, TypeOK, UploadEnqueueFails, Push
  <2> QED  BY SMT, IndexingAssumption, <2>1 DEF IInv, TypeOK, UploadEnqueueFails, Goto, Procs, WorkerPC,
             HandlerPC
<1>3. /\ Remembers /\ pc'[h] = "uploadUndo" /\ doc' = doc /\ kind' = kind
      /\ pc[h] = "uploadEnqueue"
  BY SMT, IndexingAssumption DEF IInv, TypeOK, UploadEnqueueFails, Goto, Procs, Remembers
<1>4. RequestFrame(h)
  BY RequestStep, <1>3 DEF UploadEnqueueFails, Goto, Overtaken
<1>5. ReindexOK'
  <2>1. CASE UNCHANGED queue
    BY ReindexKept, <1>3, <2>1 DEF IInv, UploadEnqueueFails
  <2>2. CASE Push(j)
    BY ReindexPushed, <1>1, <1>3, <2>2 DEF IInv, UploadEnqueueFails, Push, TypeOK
  <2> QED  BY <2>1, <2>2 DEF UploadEnqueueFails
<1>6. ASSUME NEW e \in Docs PROVE Untouched(e)
  BY SMT DEF UploadEnqueueFails, Untouched, SameRow, SmallerStores
<1>7. ASSUME NEW w \in Workers, Busy(w) PROVE job[w].doc \in Docs
  BY BusyHasRow, <1>7
<1>8. ASSUME NEW g \in Handlers \ {h} PROVE Apart(g, h)
  BY SMT, <1>3 DEF IInv, HandlerOK, UploadEnqueueFails, Apart
<1>9. HandlerOK(h)'
  BY SMT, <1>3 DEF HandlerOK, IInv, UploadEnqueueFails
<1> QED  BY <1>2, <1>4, <1>5, <1>6, <1>7, <1>8, <1>9 DEF IInv, RequestFrame

\* The row goes away, and whoever works on the document is on record.
LEMMA UploadUndoInv ==
    ASSUME IInv, NEW h \in Handlers, UploadUndo(h)
    PROVE  IInv'
<1>1. /\ pc'[h] = "idle" /\ kind'[h] = "upload" /\ pc[h] = "uploadUndo"
      /\ \A g \in Handlers \ {h} : doc'[g] = doc[g] /\ kind'[g] = kind[g]
  BY SMT, IndexingAssumption DEF IInv, TypeOK, UploadUndo, Finish, Procs
<1>2. PICK d \in Docs : d = doc[h]
  BY <1>1 DEF IInv, HandlerOK
<1>3. /\ status[d] # "absent" /\ status' = [status EXCEPT ![d] = "gone"]
      /\ \/ ~HasWorker(d) /\ chunks[d] = {} /\ incidents' = incidents
         \/ incidents' = incidents \cup {<<d, "indexedAway">>}
  BY <1>1, <1>2 DEF IInv, HandlerOK, UploadUndo, Note
<1>4. TypeOK'
  <2>1. status' \in [Docs -> Status]
    BY SMT, <1>3 DEF IInv, TypeOK, Status
  <2>2. incidents' \subseteq Docs \X Incident
    BY SMT, <1>3 DEF IInv, TypeOK, Incident
  <2> QED  BY SMT, <2>1, <2>2, IndexingAssumption DEF IInv, TypeOK, UploadUndo, Finish, Procs, WorkerPC,
             HandlerPC, Kind
<1>5. Remembers /\ \A e \in Docs : Overtaken(e)' => Overtaken(e)
  BY SMT, <1>3 DEF UploadUndo, Remembers, Overtaken
<1>6. RequestFrame(h)
  BY RequestStep, <1>1, <1>5 DEF UploadUndo, Finish
<1>7. ReindexOK'
  BY ReindexKept, <1>1, <1>5 DEF IInv, UploadUndo
<1>8. ASSUME NEW e \in Docs, e # d PROVE Untouched(e)
  BY SMT, <1>3, <1>8 DEF IInv, TypeOK, UploadUndo, Untouched, SameRow, SmallerStores
<1>9. DocOK(d)'
  <2>1. Emptied(d)'
    BY SMT, <1>3, <1>6 DEF Emptied, RequestFrame, NoClaim, HasWorker, Busy, UploadUndo
  <2> QED  BY SMT, <1>3, <2>1 DEF IInv, TypeOK, UploadUndo, DocOK, Overtaken
<1>10. ASSUME NEW w \in Workers PROVE WorkerOK(w)'
  <2>1. CASE Busy(w) /\ job[w].doc = d
    BY SMT, <1>3, <1>5, <1>6, <2>1 DEF IInv, TypeOK, UploadUndo, RequestFrame, WorkerOK, Busy,
       BusyPC, Clean, Overtaken, Remembers
  <2>2. CASE ~(Busy(w) /\ job[w].doc = d)
    BY BusyHasRow, <1>6, <1>8, <2>2 DEF RequestFrame
  <2> QED  BY <2>1, <2>2
<1>11. ASSUME NEW g \in Handlers \ {h} PROVE Apart(g, h)
  BY SMT, <1>1, <1>3 DEF IInv, TypeOK, HandlerOK, UploadUndo, Apart
<1>12. HandlerOK(h)'
  BY SMT, <1>1 DEF HandlerOK
<1> QED  BY <1>4, <1>6, <1>7, <1>8, <1>9, <1>10, <1>11, <1>12 DEF IInv, RequestFrame

LEMMA UploadUndoFailsInv ==
    ASSUME IInv, NEW h \in Handlers, UploadUndoFails(h)
    PROVE  IInv'
<1>1. /\ pc'[h] = "idle" /\ kind'[h] = "upload" /\ pc[h] = "uploadUndo"
      /\ \A g \in Handlers \ {h} : doc'[g] = doc[g] /\ kind'[g] = kind[g]
  BY SMT, IndexingAssumption DEF IInv, TypeOK, UploadUndoFails, Finish, Procs
<1>2. doc[h] \in Docs
  BY <1>1 DEF IInv, HandlerOK
<1>3. TypeOK'
  BY SMT, <1>2, IndexingAssumption DEF IInv, TypeOK, UploadUndoFails, Note, Finish, Procs, WorkerPC,
     HandlerPC, Kind, Incident
<1>4. Remembers /\ \A e \in Docs : Overtaken(e)' => Overtaken(e)
  BY SMT DEF UploadUndoFails, Note, Remembers, Overtaken
<1>5. RequestFrame(h)
  BY RequestStep, <1>1, <1>4 DEF UploadUndoFails, Finish
<1>6. ReindexOK'
  BY ReindexKept, <1>1, <1>4 DEF IInv, UploadUndoFails
<1>7. ASSUME NEW e \in Docs PROVE Untouched(e)
  BY SMT DEF UploadUndoFails, Untouched, SameRow, SmallerStores
<1>8. ASSUME NEW w \in Workers, Busy(w) PROVE job[w].doc \in Docs
  BY BusyHasRow, <1>8
<1>9. ASSUME NEW g \in Handlers \ {h} PROVE Apart(g, h)
  BY SMT, <1>1 DEF IInv, HandlerOK, UploadUndoFails, Apart
<1>10. HandlerOK(h)'
  BY SMT, <1>1 DEF HandlerOK
<1> QED  BY <1>3, <1>5, <1>6, <1>7, <1>8, <1>9, <1>10 DEF IInv, RequestFrame

LEMMA UploadDropFailsInv ==
    ASSUME IInv, NEW h \in Handlers, UploadDropFails(h)
    PROVE  IInv'
<1> DEFINE j == [doc |-> doc[h], kind |-> "upload", attempt |-> 1]
<1>1. /\ pc'[h] = "idle" /\ kind'[h] = "upload" /\ pc[h] = "uploadEnqueue"
      /\ \A g \in Handlers \ {h} : doc'[g] = doc[g] /\ kind'[g] = kind[g]
  BY SMT, IndexingAssumption DEF IInv, TypeOK, UploadDropFails, Finish, Procs
<1>2. doc[h] \in Docs /\ j \in Job
  BY <1>1, IndexingAssumption DEF IInv, HandlerOK, Job, Kind
<1>3. TypeOK'
  <2>1. queue' \in Seq(Job)
    BY <1>2, PushedJob DEF IInv, TypeOK, UploadDropFails, Push
  <2>2. incidents' \subseteq Docs \X Incident
    BY SMT, <1>2 DEF IInv, TypeOK, UploadDropFails, Note, Incident
  <2> QED  BY SMT, <2>1, <2>2, IndexingAssumption DEF IInv, TypeOK, UploadDropFails, Finish, Procs,
             WorkerPC, HandlerPC, Kind
<1>4. Remembers /\ \A e \in Docs : Overtaken(e)' => Overtaken(e)
  BY SMT DEF UploadDropFails, Note, Remembers, Overtaken
<1>5. RequestFrame(h)
  BY RequestStep, <1>1, <1>4 DEF UploadDropFails, Finish
<1>6. ReindexOK'
  <2>1. CASE UNCHANGED queue
    BY ReindexKept, <1>1, <1>4, <2>1 DEF IInv, UploadDropFails
  <2>2. CASE Push(j)
    BY ReindexPushed, <1>1, <1>2, <1>4, <2>2 DEF IInv, UploadDropFails, Push, TypeOK
  <2> QED  BY <2>1, <2>2 DEF UploadDropFails
<1>7. ASSUME NEW e \in Docs PROVE Untouched(e)
  BY SMT DEF UploadDropFails, Untouched, SameRow, SmallerStores
<1>8. ASSUME NEW w \in Workers, Busy(w) PROVE job[w].doc \in Docs
  BY BusyHasRow, <1>8
<1>9. ASSUME NEW g \in Handlers \ {h} PROVE Apart(g, h)
  BY SMT, <1>1 DEF IInv, HandlerOK, UploadDropFails, Apart
<1>10. HandlerOK(h)'
  BY SMT, <1>1 DEF HandlerOK
<1> QED  BY <1>3, <1>5, <1>6, <1>7, <1>8, <1>9, <1>10 DEF IInv, RequestFrame

LEMMA ReindexStartInv ==
    ASSUME IInv, NEW h \in Handlers, NEW d \in Docs, ReindexStart(h, d)
    PROVE  IInv'
<1>1. /\ pc'[h] = "reindexEnqueue" /\ doc'[h] = d /\ kind'[h] = ReindexKind(d) /\ pc[h] = "idle"
      /\ \A g \in Handlers \ {h} : doc'[g] = doc[g] /\ kind'[g] = kind[g]
      /\ status[d] # "absent" /\ ReindexKind(d) \in Kind
  BY SMT, IndexingAssumption DEF IInv, TypeOK, ReindexStart, Goto, Procs, Exists, ReindexKind, Kind
<1>2. incidents' = incidents \/ incidents' = incidents \cup {<<d, "early">>}
  BY DEF ReindexStart, Note
<1>3. TypeOK'
  <2>1. incidents' \subseteq Docs \X Incident
    BY SMT, <1>2 DEF IInv, TypeOK, Incident
  <2> QED  BY SMT, <1>1, <2>1, IndexingAssumption DEF IInv, TypeOK, ReindexStart, Goto, Procs, WorkerPC,
             HandlerPC
<1>4. Remembers /\ \A e \in Docs : Overtaken(e)' => Overtaken(e)
  BY SMT, <1>2 DEF ReindexStart, Remembers, Overtaken
<1>5. RequestFrame(h)
  BY RequestStep, <1>1, <1>4 DEF ReindexStart, Goto
<1>6. ReindexOK'
  <2>1. kind'[h] = "reindex" => MayReindex(d)'
    BY SMT, <1>1 DEF ReindexStart, Note, MayReindex
  <2>2. (\A g \in Handlers : kind[g] = "reindex" => MayReindex(doc[g]))'
    <3>1. ASSUME NEW g \in Handlers \ {h}, kind[g] = "reindex" PROVE MayReindex(doc[g])'
      BY SMT, <1>1, <1>4, <3>1 DEF IInv, ReindexOK, MayReindex, Overtaken, Remembers
    <3> QED  BY SMT, <1>1, <2>1, <3>1 DEF MayReindex
  <2> QED  BY SMT, <1>4, <2>2 DEF IInv, ReindexOK, ReindexStart, MayReindex, Overtaken, Remembers
<1>7. ASSUME NEW e \in Docs PROVE Untouched(e)
  BY SMT DEF ReindexStart, Untouched, SameRow, SmallerStores
<1>8. ASSUME NEW w \in Workers, Busy(w) PROVE job[w].doc \in Docs
  BY BusyHasRow, <1>8
<1>9. ASSUME NEW g \in Handlers \ {h} PROVE Apart(g, h)
  BY SMT, <1>1 DEF IInv, HandlerOK, ReindexStart, Apart
<1>10. HandlerOK(h)'
  BY SMT, <1>1 DEF HandlerOK, ReindexStart
<1> QED  BY <1>3, <1>5, <1>6, <1>7, <1>8, <1>9, <1>10 DEF IInv, RequestFrame

LEMMA ReindexEnqueueInv ==
    ASSUME IInv, NEW h \in Handlers, ReindexEnqueue(h)
    PROVE  IInv'
<1> DEFINE j == [doc |-> doc[h], kind |-> kind[h], attempt |-> 1]
<1>1. j \in Job /\ (j.kind = "reindex" => MayReindex(j.doc))
  BY SMT, IndexingAssumption DEF IInv, TypeOK, HandlerOK, ReindexOK, ReindexEnqueue, Job
<1>2. TypeOK'
  <2>1. queue' \in Seq(Job)
    BY <1>1, PushedJob DEF IInv, TypeOK, ReindexEnqueue, Push
  <2> QED  BY SMT, IndexingAssumption, <2>1 DEF IInv, TypeOK, ReindexEnqueue, Finish, Procs, WorkerPC,
             HandlerPC, Kind
<1>3. /\ Remembers /\ pc'[h] = "idle" /\ kind'[h] = "upload" /\ pc[h] = "reindexEnqueue"
      /\ \A g \in Handlers \ {h} : doc'[g] = doc[g] /\ kind'[g] = kind[g]
  BY SMT, IndexingAssumption DEF IInv, TypeOK, ReindexEnqueue, Finish, Procs, Remembers
<1>4. RequestFrame(h)
  BY RequestStep, <1>3 DEF ReindexEnqueue, Finish, Overtaken
<1>5. ReindexOK'
  <2>1. CASE UNCHANGED queue
    BY ReindexKept, <1>3, <2>1 DEF IInv, ReindexEnqueue
  <2>2. CASE Push(j)
    BY ReindexPushed, <1>1, <1>3, <2>2 DEF IInv, ReindexEnqueue, Push, TypeOK
  <2> QED  BY <2>1, <2>2 DEF ReindexEnqueue
<1>6. ASSUME NEW e \in Docs PROVE Untouched(e)
  BY SMT DEF ReindexEnqueue, Untouched, SameRow, SmallerStores
<1>7. ASSUME NEW w \in Workers, Busy(w) PROVE job[w].doc \in Docs
  BY BusyHasRow, <1>7
<1>8. ASSUME NEW g \in Handlers \ {h} PROVE Apart(g, h)
  BY SMT, <1>3 DEF IInv, HandlerOK, ReindexEnqueue, Apart
<1>9. HandlerOK(h)'
  BY SMT, <1>3 DEF HandlerOK
<1> QED  BY <1>2, <1>4, <1>5, <1>6, <1>7, <1>8, <1>9 DEF IInv, RequestFrame

LEMMA DeleteRowInv ==
    ASSUME IInv, NEW h \in Handlers, NEW d \in Docs, DeleteRow(h, d)
    PROVE  IInv'
<1>1. /\ Remembers /\ pc'[h] = "deleteChunks" /\ doc'[h] = d /\ kind' = kind /\ pc[h] = "idle"
      /\ \A g \in Handlers \ {h} : doc'[g] = doc[g]
      /\ status[d] # "absent" /\ kind[h] = "upload"
  BY SMT, IndexingAssumption DEF IInv, TypeOK, HandlerOK, DeleteRow, Goto, Procs, Exists, Remembers
<1>2. TypeOK'
  BY SMT, IndexingAssumption DEF IInv, TypeOK, DeleteRow, Goto, Procs, WorkerPC, HandlerPC
<1>3. RequestFrame(h)
  BY RequestStep, <1>1 DEF DeleteRow, Goto, Overtaken
<1>4. ReindexOK'
  BY ReindexKept, <1>1 DEF IInv, DeleteRow
<1>5. ASSUME NEW e \in Docs PROVE Untouched(e)
  BY SMT DEF DeleteRow, Untouched, SameRow, SmallerStores
<1>6. ASSUME NEW w \in Workers, Busy(w) PROVE job[w].doc \in Docs
  BY BusyHasRow, <1>6
<1>7. ASSUME NEW g \in Handlers \ {h} PROVE Apart(g, h)
  BY SMT, <1>1 DEF IInv, HandlerOK, DeleteRow, Apart
<1>8. HandlerOK(h)'
  BY SMT, <1>1 DEF HandlerOK, DeleteRow
<1> QED  BY <1>2, <1>3, <1>4, <1>5, <1>6, <1>7, <1>8 DEF IInv, RequestFrame

\* The chunks go, and a worker that may write others is on record.
LEMMA DeleteChunksInv ==
    ASSUME IInv, NEW h \in Handlers, DeleteChunks(h)
    PROVE  IInv'
<1>1. /\ pc'[h] = "deleteCommit" /\ doc' = doc /\ kind' = kind /\ pc[h] = "deleteChunks"
  BY SMT, IndexingAssumption DEF IInv, TypeOK, DeleteChunks, Goto, Procs
<1>2. PICK d \in Docs : d = doc[h]
  BY <1>1 DEF IInv, HandlerOK
<1>3. /\ status[d] # "absent" /\ chunks' = [chunks EXCEPT ![d] = {}]
      /\ \/ ~HasWorker(d) /\ incidents' = incidents
         \/ incidents' = incidents \cup {<<d, "indexedAway">>}
  BY <1>1, <1>2 DEF IInv, HandlerOK, DeleteChunks, Note
<1>4. /\ chunks' \in [Docs -> SUBSET Generations]
       /\ \A e \in Docs : chunks'[e] \subseteq chunks[e]
  BY <1>3, FewerChunks DEF IInv, TypeOK
<1>5. chunks'[d] = {}
  BY <1>3 DEF IInv, TypeOK
<1>6. TypeOK'
  <2>1. incidents' \subseteq Docs \X Incident
    BY SMT, <1>3 DEF IInv, TypeOK, Incident
  <2> QED  BY SMT, <1>4, <2>1, IndexingAssumption DEF IInv, TypeOK, DeleteChunks, Goto, Procs, WorkerPC,
             HandlerPC
<1>7. Remembers /\ \A e \in Docs : Overtaken(e)' => Overtaken(e)
  BY SMT, <1>3 DEF DeleteChunks, Remembers, Overtaken
<1>8. RequestFrame(h)
  BY RequestStep, <1>1, <1>7 DEF DeleteChunks, Goto
<1>9. ReindexOK'
  BY ReindexKept, <1>1, <1>7 DEF IInv, DeleteChunks
<1>10. ASSUME NEW e \in Docs PROVE Untouched(e)
  BY SMT, <1>4 DEF DeleteChunks, Untouched, SameRow, SmallerStores
<1>11. ASSUME NEW w \in Workers, Busy(w) PROVE job[w].doc \in Docs
  BY BusyHasRow, <1>11
<1>12. ASSUME NEW g \in Handlers \ {h} PROVE Apart(g, h)
  BY SMT, <1>1, <1>4 DEF IInv, HandlerOK, DeleteChunks, Apart
<1>13. HandlerOK(h)'
  <2>1. Emptied(d)'
    BY SMT, <1>3, <1>8, <1>5 DEF Emptied, RequestFrame, NoClaim, HasWorker, Busy
  <2> QED  BY SMT, <1>1, <1>2, <1>3, <2>1 DEF HandlerOK, DeleteChunks, IInv
<1> QED  BY <1>6, <1>8, <1>9, <1>10, <1>11, <1>12, <1>13 DEF IInv, RequestFrame

LEMMA DeleteFailsInv ==
    ASSUME IInv, NEW h \in Handlers, DeleteFails(h)
    PROVE  IInv'
<1>1. /\ pc'[h] = "idle" /\ kind'[h] = "upload" /\ pc[h] \in {"deleteChunks", "deleteCommit"}
      /\ \A g \in Handlers \ {h} : doc'[g] = doc[g] /\ kind'[g] = kind[g]
  BY SMT, IndexingAssumption DEF IInv, TypeOK, DeleteFails, Finish, Procs
<1>2. PICK d \in Docs : d = doc[h]
  BY <1>1 DEF IInv, HandlerOK
<1>3. /\ chunks' = chunks \/ chunks' = [chunks EXCEPT ![d] = {}]
      /\ incidents' = incidents \/ incidents' = incidents \cup {<<d, "halfDeleted">>}
  BY <1>2 DEF DeleteFails, Note
<1>4. /\ chunks' \in [Docs -> SUBSET Generations]
       /\ \A e \in Docs : chunks'[e] \subseteq chunks[e]
  BY <1>3, FewerChunks DEF IInv, TypeOK
<1>5. TypeOK'
  <2>1. incidents' \subseteq Docs \X Incident
    BY SMT, <1>3 DEF IInv, TypeOK, Incident
  <2> QED  BY SMT, <1>4, <2>1, IndexingAssumption DEF IInv, TypeOK, DeleteFails, Finish, Procs, WorkerPC,
             HandlerPC, Kind
<1>6. Remembers /\ \A e \in Docs : Overtaken(e)' => Overtaken(e)
  BY SMT, <1>3 DEF DeleteFails, Remembers, Overtaken
<1>7. RequestFrame(h)
  BY RequestStep, <1>1, <1>6 DEF DeleteFails, Finish
<1>8. ReindexOK'
  BY ReindexKept, <1>1, <1>6 DEF IInv, DeleteFails
<1>9. ASSUME NEW e \in Docs PROVE Untouched(e)
  BY SMT, <1>4 DEF DeleteFails, Untouched, SameRow, SmallerStores
<1>10. ASSUME NEW w \in Workers, Busy(w) PROVE job[w].doc \in Docs
  BY BusyHasRow, <1>10
<1>11. ASSUME NEW g \in Handlers \ {h} PROVE Apart(g, h)
  BY SMT, <1>1, <1>4 DEF IInv, HandlerOK, DeleteFails, Apart
<1>12. HandlerOK(h)'
  BY SMT, <1>1 DEF HandlerOK
<1> QED  BY <1>5, <1>7, <1>8, <1>9, <1>10, <1>11, <1>12 DEF IInv, RequestFrame

LEMMA DeleteCommitInv ==
    ASSUME IInv, NEW h \in Handlers, DeleteCommit(h)
    PROVE  IInv'
<1>1. /\ Remembers /\ pc'[h] = "idle" /\ kind'[h] = "upload" /\ pc[h] = "deleteCommit"
      /\ \A g \in Handlers \ {h} : doc'[g] = doc[g] /\ kind'[g] = kind[g]
  BY SMT, IndexingAssumption DEF IInv, TypeOK, DeleteCommit, Finish, Procs, Remembers
<1>2. PICK d \in Docs : d = doc[h]
  BY <1>1 DEF IInv, HandlerOK
<1>3. status[d] # "absent" /\ Emptied(d) /\ status' = [status EXCEPT ![d] = "gone"]
  BY <1>1, <1>2 DEF IInv, HandlerOK, DeleteCommit
<1>4. TypeOK'
  <2>1. status' \in [Docs -> Status]
    BY SMT, <1>3 DEF IInv, TypeOK, Status
  <2> QED  BY SMT, <2>1, IndexingAssumption DEF IInv, TypeOK, DeleteCommit, Finish, Procs, WorkerPC,
             HandlerPC, Kind
<1>5. RequestFrame(h)
  BY RequestStep, <1>1 DEF DeleteCommit, Finish, Overtaken
<1>6. ReindexOK'
  BY ReindexKept, <1>1 DEF IInv, DeleteCommit
<1>7. ASSUME NEW e \in Docs, e # d PROVE Untouched(e)
  BY SMT, <1>3, <1>7 DEF IInv, TypeOK, DeleteCommit, Untouched, SameRow, SmallerStores
<1>8. DocOK(d)'
  <2>1. Emptied(d)'
    BY SMT, <1>3, <1>5 DEF Emptied, RequestFrame, NoClaim, HasWorker, Busy, DeleteCommit
  <2> QED  BY SMT, <1>3, <2>1 DEF IInv, TypeOK, DeleteCommit, DocOK, Overtaken
<1>9. ASSUME NEW w \in Workers PROVE WorkerOK(w)'
  <2>1. CASE Busy(w) /\ job[w].doc = d
    BY SMT, <1>3, <1>5, <2>1 DEF IInv, TypeOK, DeleteCommit, RequestFrame, WorkerOK, Busy,
       BusyPC, Clean, Overtaken
  <2>2. CASE ~(Busy(w) /\ job[w].doc = d)
    BY BusyHasRow, <1>5, <1>7, <2>2 DEF RequestFrame
  <2> QED  BY <2>1, <2>2
<1>10. ASSUME NEW g \in Handlers \ {h} PROVE Apart(g, h)
  BY SMT, <1>1, <1>3 DEF IInv, TypeOK, HandlerOK, DeleteCommit, Apart
<1>11. HandlerOK(h)'
  BY SMT, <1>1 DEF HandlerOK
<1> QED  BY <1>4, <1>5, <1>6, <1>7, <1>8, <1>9, <1>10, <1>11 DEF IInv, RequestFrame

-----------------------------------------------------------------------------
(* The consumers *)

\* A step of a worker changes at most the document it has claimed, which others are
\* not concerned with - or it was overtaken, or is on record as deleted.
Unchanged(e) ==
    /\ status'[e] = status[e] /\ chunkCount'[e] = chunkCount[e] /\ chunks'[e] = chunks[e]
    /\ e \in indexedAt' <=> e \in indexedAt
    /\ e \in objects' <=> e \in objects
JobFrame(w) ==
    /\ NoClaim /\ OneIndexer'
    /\ \A e \in Docs : e # job[w].doc \/ UNCHANGED <<status, chunkCount, indexedAt>> => DocOK(e)'
    /\ \A v \in Workers \ {w} : WorkerOK(v)'
    /\ \A h \in Handlers : HandlerOK(h)'

LEMMA JobStep ==
    ASSUME IInv, NEW w \in Workers, NEW s, pc' = [pc EXCEPT ![w] = s],
           UNCHANGED <<doc, kind>>, Remembers,
           \A e \in Docs : Overtaken(e)' => Overtaken(e),
           \A v \in Workers \ {w} : job'[v] = job[v] /\ seen'[v] = seen[v] /\ goal'[v] = goal[v],
           s \in BusyPC => Busy(w) /\ job'[w].doc = job[w].doc,
           \A e \in Docs : (Busy(w) /\ e = job[w].doc) \/ Unchanged(e),
           Busy(w) => status'[job[w].doc] # "absent"
    PROVE  JobFrame(w)
<1>1. /\ pc'[w] = s
      /\ \A v \in Workers \ {w} : pc'[v] = pc[v]
      /\ \A h \in Handlers : pc'[h] = pc[h]
  BY SMT, IndexingAssumption DEF IInv, TypeOK, Procs
<1>2. NoClaim
  BY <1>1 DEF NoClaim, Busy
<1>3. OneIndexer'
  BY <1>2, OneIndexerKept DEF IInv
<1>4. ASSUME NEW e \in Docs, e # job[w].doc \/ UNCHANGED <<status, chunkCount, indexedAt>>
      PROVE  DocOK(e)'
  <2>1. CASE Unchanged(e)
    BY DocKept, <1>2, <2>1 DEF IInv, Unchanged, SameRow, SmallerStores
  <2>2. CASE Busy(w) /\ e = job[w].doc
    <3>1. DocOK(e) /\ HasWorker(e)
      BY <2>2 DEF IInv, HasWorker, Busy
    <3>2. status[e] # "absent" /\ (Overtaken(e) \/ status[e] \in {"indexing", "gone"})
      BY <2>2, BusyHasRow DEF IInv, WorkerOK
    <3>3. UNCHANGED <<status, chunkCount, indexedAt>>
      BY <1>4, <2>2
    <3> QED  BY SMT, <3>1, <3>2, <3>3 DEF DocOK, Emptied, Clean, MayReindex, Overtaken, Remembers
  <2> QED  BY <2>1, <2>2
<1>5. ASSUME NEW v \in Workers \ {w} PROVE WorkerOK(v)'
  <2>1. ASSUME Busy(v)
        PROVE  \/ SameRow(job[v].doc) /\ SmallerStores(job[v].doc)
               \/ Overtaken(job[v].doc)'
    <3>1. job[v].doc \in Docs
      BY <2>1, BusyHasRow
    <3>2. CASE Unchanged(job[v].doc)
      BY <3>2 DEF Unchanged, SameRow, SmallerStores
    <3>3. CASE Busy(w) /\ job[v].doc = job[w].doc
      BY <2>1, <3>3 DEF IInv, OneIndexer, Busy, Happened, Overtaken, Remembers
    <3> QED  BY <3>1, <3>2, <3>3
  <2> QED  BY <1>1, <2>1, WorkerKept DEF IInv
<1>6. ASSUME NEW h \in Handlers PROVE HandlerOK(h)'
  <2>1. HandlerOK(h) /\ pc'[h] = pc[h] /\ doc' = doc /\ kind' = kind
    BY <1>1 DEF IInv
  <2>2. CASE pc[h] = "idle" \/ Unchanged(doc[h])
    <3>1. \A g \in Handlers \ {h} : pc'[g] # "idle" => pc[g] # "idle" /\ doc'[g] = doc[g]
      BY <1>1
    <3>2. pc[h] = "uploadCommit" => doc[h] \in objects /\ doc[h] \in objects'
      BY <2>2 DEF IInv, HandlerOK, Unchanged
    <3> QED  BY <1>2, <2>1, <2>2, <3>1, <3>2, HandlerKept DEF Unchanged
  <2>3. CASE pc[h] # "idle" /\ Busy(w) /\ doc[h] = job[w].doc
    <3>1. HasWorker(doc[h]) /\ status[doc[h]] # "absent" /\ status'[doc[h]] # "absent"
      BY <2>3, BusyHasRow DEF HasWorker, Busy
    <3> QED  BY SMT, <2>1, <3>1 DEF HandlerOK, Emptied, Remembers
  <2> QED  BY <2>1, <2>2, <2>3 DEF HandlerOK
<1> QED  BY <1>2, <1>3, <1>4, <1>5, <1>6 DEF JobFrame

LEMMA PopInv ==
    ASSUME IInv, NEW w \in Workers, Pop(w)
    PROVE  IInv'
<1>1. Head(queue) \in Job /\ Tail(queue) \in Seq(Job)
  BY DEF IInv, TypeOK, Pop
<1>2. TypeOK'
  BY SMT, <1>1, IndexingAssumption DEF IInv, TypeOK, Pop, Goto, Procs, WorkerPC, HandlerPC
<1>3. /\ Remembers /\ incidents' = incidents /\ indexedAt' = indexedAt
      /\ pc'[w] = "claim" /\ pc[w] = "idle" /\ job'[w] = Head(queue)
      /\ \A v \in Workers \ {w} : job'[v] = job[v]
  BY SMT, IndexingAssumption DEF IInv, TypeOK, Pop, Goto, Procs, Remembers
<1>4. JobFrame(w)
  BY JobStep, <1>3 DEF Pop, Goto, Overtaken, Busy, BusyPC, Unchanged
<1>5. ReindexOK'
  <2>1. /\ Head(queue) = queue[1] /\ 1 \in 1..Len(queue)
        /\ \A i \in 1..Len(Tail(queue)) : i + 1 \in 1..Len(queue) /\ Tail(queue)[i] = queue[i + 1]
    BY DEF IInv, TypeOK, Pop
  <2>2. Head(queue).kind = "reindex" => MayReindex(Head(queue).doc)
    BY <2>1 DEF IInv, ReindexOK
  <2>3. (\A i \in 1..Len(queue) : queue[i].kind = "reindex" => MayReindex(queue[i].doc))'
    BY SMT, <2>1 DEF IInv, ReindexOK, Pop, MayReindex, Overtaken
  <2>4. (\A v \in Workers : job[v].kind = "reindex" => MayReindex(job[v].doc))'
    <3>1. ASSUME NEW v \in Workers, v # w, job'[v].kind = "reindex"
          PROVE  MayReindex(job[v].doc)'
      <4>1. job'[v] = job[v]
        BY <1>3, <3>1
      <4>2. MayReindex(job[v].doc)
        BY <3>1, <4>1 DEF IInv, ReindexOK
      <4> QED  BY <1>3, <4>1, <4>2 DEF MayReindex, Overtaken
    <3>2. job'[w].kind = "reindex" => MayReindex(job[w].doc)'
      BY <1>3, <2>2 DEF MayReindex, Overtaken
    <3> QED  BY <3>1, <3>2
  <2> QED  BY SMT, <2>3, <2>4 DEF IInv, ReindexOK, Pop, MayReindex, Overtaken
<1>6. WorkerOK(w)'
  <2>1. goal'[w] = goal[w] /\ goal[w] # "restored"
    BY <1>3 DEF Pop, IInv, WorkerOK, BusyPC
  <2> QED  BY <1>1, <1>3, <2>1 DEF WorkerOK, Busy, BusyPC
<1> QED  BY <1>2, <1>3, <1>4, <1>5, <1>6 DEF IInv, JobFrame, Pop

\* What Done leaves behind.
WorkingOK ==
    /\ pc \in [Procs -> WorkerPC \cup HandlerPC]
    /\ \A w \in Workers : pc[w] \in WorkerPC
    /\ \A h \in Handlers : pc[h] \in HandlerPC
    /\ job \in [Workers -> Job \cup {NoJob}]
    /\ seen \in [Workers -> Nat]
    /\ gen \in [Workers -> Generations \cup {NoGeneration}]
    /\ found \in [Workers -> SUBSET Generations]
    /\ goal \in [Workers -> {"pending", "active", "restored", "failed"}]
OthersSame(w) ==
    /\ \A v \in Workers \ {w} : job'[v] = job[v] /\ seen'[v] = seen[v] /\ goal'[v] = goal[v]
    /\ \A v \in Workers : job'[v] \in {job[v], NoJob}

LEMMA DoneStep ==
    ASSUME IInv, NEW w \in Workers, Done(w)
    PROVE  WorkingOK' /\ OthersSame(w) /\ WorkerOK(w)' /\ pc' = [pc EXCEPT ![w] = "idle"]
<1>1. WorkingOK'
  BY SMT, IndexingAssumption DEF IInv, TypeOK, Done, Forget, WorkingOK, Procs, WorkerPC, HandlerPC
<1>2. OthersSame(w)
  BY SMT DEF IInv, TypeOK, Done, OthersSame
<1>3. pc'[w] = "idle" /\ goal'[w] = "pending"
  BY SMT DEF IInv, TypeOK, Done, Procs
<1>4. WorkerOK(w)'
  BY <1>3, WorkerIdle DEF BusyPC
<1> QED  BY <1>1, <1>2, <1>4 DEF Done

LEMMA ClaimSkippedInv ==
    ASSUME IInv, NEW w \in Workers, ClaimSkipped(w)
    PROVE  IInv'
<1>1. WorkingOK' /\ OthersSame(w) /\ WorkerOK(w)' /\ pc' = [pc EXCEPT ![w] = "idle"]
  BY DoneStep DEF ClaimSkipped
<1>2. TypeOK'
  BY <1>1 DEF IInv, TypeOK, ClaimSkipped, WorkingOK
<1>3. Remembers
  BY DEF ClaimSkipped, Remembers
<1>4. JobFrame(w)
  BY JobStep, <1>1, <1>3 DEF ClaimSkipped, Overtaken, OthersSame, Busy, BusyPC, Unchanged
<1>5. ReindexOK'
  BY ReindexKept, <1>1, <1>3 DEF IInv, ClaimSkipped, OthersSame
<1> QED  BY <1>1, <1>2, <1>4, <1>5 DEF IInv, JobFrame, ClaimSkipped

LEMMA ClaimFailsInv ==
    ASSUME IInv, NEW w \in Workers, ClaimFails(w)
    PROVE  IInv'
<1>1. WorkingOK' /\ OthersSame(w) /\ WorkerOK(w)' /\ pc' = [pc EXCEPT ![w] = "idle"]
  BY DoneStep DEF ClaimFails
<1>2. job[w].doc \in Docs
  BY DEF IInv, WorkerOK, ClaimFails, Job
<1>3. TypeOK'
  <2>1. incidents' \subseteq Docs \X Incident
    BY SMT, <1>2 DEF IInv, TypeOK, ClaimFails, Note, Incident
  <2> QED  BY <1>1, <2>1 DEF IInv, TypeOK, ClaimFails, WorkingOK
<1>4. Remembers /\ \A e \in Docs : Overtaken(e)' => Overtaken(e)
  BY SMT DEF ClaimFails, Note, Remembers, Overtaken
<1>5. JobFrame(w)
  BY JobStep, <1>1, <1>4 DEF ClaimFails, OthersSame, Busy, BusyPC, Unchanged
<1>6. ReindexOK'
  BY ReindexKept, <1>1, <1>4 DEF IInv, ClaimFails, OthersSame
<1> QED  BY <1>1, <1>3, <1>5, <1>6 DEF IInv, JobFrame, ClaimFails

LEMMA EnqueueInv ==
    ASSUME IInv, NEW w \in Workers, Enqueue(w)
    PROVE  IInv'
<1> DEFINE j == [job[w] EXCEPT !.attempt = @ + 1]
<1>1. WorkingOK' /\ OthersSame(w) /\ WorkerOK(w)' /\ pc' = [pc EXCEPT ![w] = "idle"]
  BY DoneStep DEF Enqueue
<1>2. job[w] \in Job /\ job[w].attempt < MaxAttempts
  BY DEF IInv, WorkerOK, Enqueue
<1>3. j \in Job /\ j.kind = job[w].kind /\ j.doc = job[w].doc
  BY SMT, <1>2, IndexingAssumption DEF Job
<1>4. /\ queue' = queue \/ queue' = Append(queue, j)
      /\ incidents' = incidents \/ incidents' = incidents \cup {<<job[w].doc, "jobLost">>}
  BY DEF Enqueue, Push, Note
<1> HIDE DEF j
<1>5. TypeOK'
  <2>1. queue' \in Seq(Job)
    BY PushedJob, <1>3, <1>4 DEF IInv, TypeOK
  <2>2. incidents' \subseteq Docs \X Incident
    BY SMT, <1>2, <1>4 DEF IInv, TypeOK, Job, Incident
  <2> QED  BY <1>1, <2>1, <2>2 DEF IInv, TypeOK, Enqueue, WorkingOK
<1>6. Remembers /\ \A e \in Docs : Overtaken(e)' => Overtaken(e)
  BY SMT, <1>4 DEF Enqueue, Remembers, Overtaken
<1>7. JobFrame(w)
  BY JobStep, <1>1, <1>6 DEF Enqueue, OthersSame, Busy, BusyPC, Unchanged
<1>8. ReindexOK'
  <2>1. j.kind = "reindex" => MayReindex(j.doc)
    BY <1>3 DEF IInv, ReindexOK
  <2> QED  BY ReindexKept, ReindexPushed, <1>1, <1>3, <1>4, <1>6, <2>1 DEF IInv, TypeOK, Enqueue, OthersSame
<1> QED  BY <1>1, <1>5, <1>7, <1>8 DEF IInv, JobFrame, Enqueue

LEMMA LoadInv ==
    ASSUME IInv, NEW w \in Workers, Load(w)
    PROVE  IInv'
<1>1. /\ Busy(w) /\ Remembers /\ pc'[w] \in {"read", "add"} /\ goal'[w] = "active"
      /\ \A v \in Workers \ {w} : goal'[v] = goal[v]
      /\ pc' = [pc EXCEPT ![w] = pc'[w]]
  BY SMT DEF IInv, TypeOK, Load, Goto, Procs, Remembers, Busy, BusyPC
<1>2. job[w].doc \in Docs /\ status[job[w].doc] # "absent"
  BY <1>1, BusyHasRow
<1>3. TypeOK'
  BY SMT, IndexingAssumption DEF IInv, TypeOK, Load, Goto, Procs, WorkerPC, BusyPC, HandlerPC
<1>4. JobFrame(w)
  BY JobStep, <1>1, <1>2 DEF Load, Overtaken, Unchanged
<1>5. ReindexOK'
  BY ReindexKept, <1>1 DEF IInv, Load
<1>6. WorkerOK(w)'
  BY SMT, <1>1 DEF IInv, WorkerOK, Load, Busy, BusyPC, Overtaken
<1> QED  BY <1>3, <1>4, <1>5, <1>6 DEF IInv, JobFrame, Load

LEMMA AddInv ==
    ASSUME IInv, NEW w \in Workers, NEW g \in Generations, Add(w, g)
    PROVE  IInv'
<1>1. Busy(w) /\ Remembers /\ pc' = [pc EXCEPT ![w] = "sweep"] /\ pc'[w] = "sweep" /\ pc[w] = "add"
  BY SMT DEF IInv, TypeOK, Add, Goto, Procs, Remembers, Busy, BusyPC
<1>2. PICK d \in Docs : d = job[w].doc /\ status[d] # "absent"
  BY <1>1, BusyHasRow
<1>3. chunks' = [chunks EXCEPT ![d] = chunks[d] \cup {g}]
  BY <1>2 DEF Add
<1>4. TypeOK'
  <2>1. chunks' \in [Docs -> SUBSET Generations]
    BY SMT, <1>3 DEF IInv, TypeOK
  <2> QED  BY SMT, <2>1, IndexingAssumption DEF IInv, TypeOK, Add, Goto, Procs, WorkerPC, BusyPC, HandlerPC
<1>5. ASSUME NEW e \in Docs, e # d PROVE Unchanged(e)
  BY SMT, <1>3, <1>5 DEF IInv, TypeOK, Add, Unchanged
<1>6. JobFrame(w)
  BY JobStep, <1>1, <1>2, <1>5 DEF Add, Overtaken, BusyPC
<1>7. ReindexOK'
  BY ReindexKept, <1>1 DEF IInv, Add
<1>8. WorkerOK(w)'
  BY SMT, <1>1 DEF IInv, WorkerOK, Add, Busy, BusyPC, Overtaken
<1> QED  BY <1>4, <1>6, <1>7, <1>8 DEF IInv, JobFrame, Add

LEMMA SweepInv ==
    ASSUME IInv, NEW w \in Workers, Sweep(w)
    PROVE  IInv'
<1>1. Busy(w) /\ Remembers /\ pc' = [pc EXCEPT ![w] = "delete"] /\ pc'[w] = "delete" /\ pc[w] = "sweep"
  BY SMT DEF IInv, TypeOK, Sweep, Goto, Procs, Remembers, Busy, BusyPC
<1>2. job[w].doc \in Docs /\ status[job[w].doc] # "absent"
  BY <1>1, BusyHasRow
<1>3. TypeOK'
  <2>1. found' \in [Workers -> SUBSET Generations]
    BY SMT, <1>2 DEF IInv, TypeOK, Sweep
  <2> QED  BY SMT, <2>1, IndexingAssumption DEF IInv, TypeOK, Sweep, Goto, Procs, WorkerPC, BusyPC, HandlerPC
<1>4. JobFrame(w)
  BY JobStep, <1>1, <1>2 DEF Sweep, Overtaken, Unchanged
<1>5. ReindexOK'
  BY ReindexKept, <1>1 DEF IInv, Sweep
<1>6. WorkerOK(w)'
  BY SMT, <1>1 DEF IInv, WorkerOK, Sweep, Busy, BusyPC, Overtaken
<1> QED  BY <1>3, <1>4, <1>5, <1>6 DEF IInv, JobFrame, Sweep

LEMMA SweepDeleteInv ==
    ASSUME IInv, NEW w \in Workers, SweepDelete(w)
    PROVE  IInv'
<1>1. Busy(w) /\ Remembers /\ pc' = [pc EXCEPT ![w] = "read"] /\ pc'[w] = "read" /\ pc[w] = "delete"
  BY SMT DEF IInv, TypeOK, SweepDelete, Goto, Procs, Remembers, Busy, BusyPC
<1>2. PICK d \in Docs : d = job[w].doc /\ status[d] # "absent"
  BY <1>1, BusyHasRow
<1>3. chunks' = [chunks EXCEPT ![d] = chunks[d] \ found[w]]
  BY <1>2 DEF SweepDelete
<1>4. TypeOK'
  <2>1. chunks' \in [Docs -> SUBSET Generations]
    BY SMT, <1>3 DEF IInv, TypeOK
  <2> QED  BY SMT, <2>1, IndexingAssumption DEF IInv, TypeOK, SweepDelete, Forget, Goto, Procs, WorkerPC, BusyPC, HandlerPC
<1>5. ASSUME NEW e \in Docs, e # d PROVE Unchanged(e)
  BY SMT, <1>3, <1>5 DEF IInv, TypeOK, SweepDelete, Unchanged
<1>6. JobFrame(w)
  BY JobStep, <1>1, <1>2, <1>5 DEF SweepDelete, Overtaken, BusyPC
<1>7. ReindexOK'
  BY ReindexKept, <1>1 DEF IInv, SweepDelete
<1>8. WorkerOK(w)'
  BY SMT, <1>1 DEF IInv, WorkerOK, SweepDelete, Busy, BusyPC, Overtaken
<1> QED  BY <1>4, <1>6, <1>7, <1>8 DEF IInv, JobFrame, SweepDelete

\* What Fail leaves behind.
LEMMA FailStep ==
    ASSUME IInv, NEW w \in Workers, Busy(w), Fail(w), Remembers,
           UNCHANGED <<job, seen, status, chunkCount>>
    PROVE  /\ WorkingOK' /\ OthersSame(w) /\ WorkerOK(w)'
           /\ pc' = [pc EXCEPT ![w] = pc'[w]]
<1>1. WorkingOK'
  BY SMT, IndexingAssumption DEF IInv, TypeOK, Fail, Forget, WorkingOK, Procs, WorkerPC, BusyPC, HandlerPC
<1>2. OthersSame(w)
  BY SMT DEF IInv, TypeOK, Fail, OthersSame
<1>3. job[w] \in Job /\ job[w].kind \in Kind
  BY BusyHasRow DEF Job
<1>4. /\ pc'[w] \in {"dropChunks", "read"} /\ pc' = [pc EXCEPT ![w] = pc'[w]]
      /\ pc'[w] = "read" => goal'[w] # "failed"
      /\ goal'[w] = "restored" => job[w].kind = "reindex"
  BY SMT, <1>3 DEF IInv, TypeOK, Fail, Procs, Kind
<1>5. WorkerOK(w)'
  BY SMT, <1>3, <1>4 DEF IInv, WorkerOK, Busy, BusyPC, Overtaken, Remembers
<1> QED  BY <1>1, <1>2, <1>4, <1>5

LEMMA JobFailsInv ==
    ASSUME IInv, NEW w \in Workers, JobFails(w)
    PROVE  IInv'
<1>1. Busy(w) /\ Remembers
  BY SMT DEF JobFails, Remembers, Busy, BusyPC
<1>2. PICK d \in Docs : d = job[w].doc /\ status[d] # "absent"
  BY <1>1, BusyHasRow
<1>3. \/ chunks' = chunks
      \/ \E g \in Generations : chunks' = [chunks EXCEPT ![d] = chunks[d] \cup {g}]
      \/ chunks' = [chunks EXCEPT ![d] = chunks[d] \ found[w]]
  BY <1>2 DEF JobFails
<1>4. /\ WorkingOK' /\ OthersSame(w) /\ WorkerOK(w)'
      /\ pc' = [pc EXCEPT ![w] = pc'[w]]
  BY FailStep, <1>1 DEF JobFails
<1>5. TypeOK'
  <2>1. chunks' \in [Docs -> SUBSET Generations]
    <3>1. CASE chunks' = chunks
      BY <3>1 DEF IInv, TypeOK
    <3>2. ASSUME NEW g \in Generations, chunks' = [chunks EXCEPT ![d] = chunks[d] \cup {g}]
          PROVE  chunks' \in [Docs -> SUBSET Generations]
      BY SMT, <3>2 DEF IInv, TypeOK
    <3>3. CASE chunks' = [chunks EXCEPT ![d] = chunks[d] \ found[w]]
      BY SMT, <3>3 DEF IInv, TypeOK
    <3> QED  BY <1>3, <3>1, <3>2, <3>3
  <2> QED  BY <1>4, <2>1 DEF IInv, TypeOK, JobFails, WorkingOK
<1>6. ASSUME NEW e \in Docs, e # d PROVE Unchanged(e)
  BY SMT, <1>3, <1>6 DEF IInv, TypeOK, JobFails, Unchanged
<1>7. JobFrame(w)
  BY JobStep, <1>1, <1>2, <1>4, <1>6 DEF JobFails, Overtaken, OthersSame
<1>8. ReindexOK'
  BY ReindexKept, <1>1 DEF IInv, JobFails
<1> QED  BY <1>4, <1>5, <1>7, <1>8 DEF IInv, JobFrame, JobFails

LEMMA DropChunksInv ==
    ASSUME IInv, NEW w \in Workers, DropChunks(w)
    PROVE  IInv'
<1>1. /\ Busy(w) /\ pc' = [pc EXCEPT ![w] = "dropBytes"] /\ pc'[w] = "dropBytes"
      /\ pc[w] = "dropChunks"
  BY SMT DEF IInv, TypeOK, DropChunks, Goto, Procs, Busy, BusyPC
<1>2. PICK d \in Docs : d = job[w].doc /\ status[d] # "absent"
  BY <1>1, BusyHasRow
<1>3. \/ chunks' = [chunks EXCEPT ![d] = {}] /\ incidents' = incidents
      \/ chunks' = chunks /\ incidents' = incidents \cup {<<d, "uncleaned">>}
  BY <1>2 DEF DropChunks, Note
<1>4. TypeOK'
  <2>1. chunks' \in [Docs -> SUBSET Generations]
    BY <1>3, FewerChunks DEF IInv, TypeOK
  <2>2. incidents' \subseteq Docs \X Incident
    BY SMT, <1>3 DEF IInv, TypeOK, Incident
  <2>3. PcOK'
    BY PcStep, <1>1 DEF IInv, WorkerPC, BusyPC
  <2> QED  BY <2>1, <2>2, <2>3 DEF IInv, TypeOK, PcOK, DropChunks
<1>5. Remembers /\ \A e \in Docs : Overtaken(e)' => Overtaken(e)
  BY SMT, <1>3 DEF DropChunks, Remembers, Overtaken
<1>6. ASSUME NEW e \in Docs, e # d PROVE Unchanged(e)
  BY SMT, <1>3, <1>6 DEF IInv, TypeOK, DropChunks, Unchanged
<1>7. JobFrame(w)
  BY JobStep, <1>1, <1>2, <1>5, <1>6 DEF DropChunks
<1>8. ReindexOK'
  BY ReindexKept, <1>5 DEF IInv, DropChunks
<1>9. WorkerOK(w)'
  <2>1. chunks'[d] = {} \/ <<d, "uncleaned">> \in incidents'
    BY SMT, <1>3 DEF IInv, TypeOK
  <2> QED  BY SMT, <1>1, <1>2, <1>5, <2>1 DEF IInv, WorkerOK, DropChunks, Busy, BusyPC, Overtaken, Remembers
<1> QED  BY <1>4, <1>7, <1>8, <1>9 DEF IInv, JobFrame, DropChunks

LEMMA DropBytesInv ==
    ASSUME IInv, NEW w \in Workers, DropBytes(w)
    PROVE  IInv'
<1>1. /\ Busy(w) /\ pc' = [pc EXCEPT ![w] = "read"] /\ pc'[w] = "read"
      /\ pc[w] = "dropBytes"
  BY SMT DEF IInv, TypeOK, DropBytes, Goto, Procs, Busy, BusyPC
<1>2. PICK d \in Docs : d = job[w].doc /\ status[d] # "absent"
  BY <1>1, BusyHasRow
<1>3. \/ objects' = objects \ {d} /\ incidents' = incidents
      \/ objects' = objects /\ incidents' = incidents \cup {<<d, "uncleaned">>}
  BY <1>2 DEF DropBytes, Note
<1>4. TypeOK'
  <2>1. objects' \subseteq Docs
    BY SMT, <1>3 DEF IInv, TypeOK
  <2>2. incidents' \subseteq Docs \X Incident
    BY SMT, <1>3 DEF IInv, TypeOK, Incident
  <2> QED  BY SMT, <2>1, <2>2, IndexingAssumption DEF IInv, TypeOK, DropBytes, Goto, Procs, WorkerPC,
             BusyPC, HandlerPC
<1>5. Remembers /\ \A e \in Docs : Overtaken(e)' => Overtaken(e)
  BY SMT, <1>3 DEF DropBytes, Remembers, Overtaken
<1>6. ASSUME NEW e \in Docs, e # d PROVE Unchanged(e)
  BY SMT, <1>3, <1>6 DEF IInv, TypeOK, DropBytes, Unchanged
<1>7. JobFrame(w)
  BY JobStep, <1>1, <1>2, <1>5, <1>6 DEF DropBytes
<1>8. ReindexOK'
  BY ReindexKept, <1>5 DEF IInv, DropBytes
<1>9. WorkerOK(w)'
  <2>1. chunks[d] = {} \/ <<d, "uncleaned">> \in incidents \/ Overtaken(d)
    BY <1>1, <1>2 DEF IInv, WorkerOK
  <2>2. Clean(d)'
    BY SMT, <1>3, <2>1 DEF Clean, DropBytes, Overtaken
  <2> QED  BY SMT, <1>1, <1>2, <1>5, <2>2 DEF IInv, WorkerOK, DropBytes, Busy, BusyPC, Clean, Overtaken, Remembers
<1> QED  BY <1>4, <1>7, <1>8, <1>9 DEF IInv, JobFrame, DropBytes

\* What follows the write: the next attempt, or the end of the job.
LEMMA AfterWriteStep ==
    ASSUME IInv, NEW w \in Workers, Busy(w), AfterWrite(w)
    PROVE  /\ WorkingOK' /\ OthersSame(w) /\ WorkerOK(w)'
           /\ \E s \in {"idle", "enqueue"} : pc' = [pc EXCEPT ![w] = s]
<1>1. CASE Again(w)
  <2>1. pc' = [pc EXCEPT ![w] = "enqueue"] /\ UNCHANGED working
    BY <1>1 DEF AfterWrite
  <2>2. WorkingOK' /\ pc'[w] = "enqueue"
    BY SMT, <2>1, IndexingAssumption DEF IInv, TypeOK, WorkingOK, Procs, WorkerPC, HandlerPC
  <2>3. OthersSame(w)
    BY SMT, <2>1 DEF OthersSame
  <2>4. job[w] \in Job
    BY BusyHasRow
  <2>5. WorkerOK(w)'
    BY SMT, <1>1, <2>1, <2>2, <2>4 DEF IInv, WorkerOK, Again, Busy, BusyPC
  <2> QED  BY <2>1, <2>2, <2>3, <2>5
<1>2. CASE ~Again(w)
  BY <1>2, DoneStep DEF AfterWrite
<1> QED  BY <1>1, <1>2

LEMMA ReadInv ==
    ASSUME IInv, NEW w \in Workers, Read(w)
    PROVE  IInv'
<1>1. Busy(w) /\ Remembers /\ pc[w] = "read"
  BY DEF Read, Remembers, Busy, BusyPC
<1>2. job[w].doc \in Docs /\ status[job[w].doc] # "absent"
  BY <1>1, BusyHasRow
<1>3. CASE Exists(job[w].doc)
  <2>1. pc' = [pc EXCEPT ![w] = "write"] /\ pc'[w] = "write" /\ UNCHANGED working
    BY SMT, <1>3 DEF Read, IInv, TypeOK, Procs
  <2>2. TypeOK'
    BY SMT, <2>1, IndexingAssumption DEF IInv, TypeOK, Read, Procs, WorkerPC, BusyPC, HandlerPC
  <2>3. JobFrame(w)
    BY JobStep, <1>1, <1>2, <2>1 DEF Read, Overtaken, Unchanged
  <2>4. ReindexOK'
    BY ReindexKept, <1>1, <2>1 DEF IInv, Read
  <2>5. WorkerOK(w)'
    BY SMT, <1>1, <2>1 DEF IInv, WorkerOK, Read, Busy, BusyPC, Clean, Overtaken
  <2> QED  BY <2>2, <2>3, <2>4, <2>5 DEF IInv, JobFrame, Read
<1>4. CASE ~Exists(job[w].doc)
  <2>1. /\ WorkingOK' /\ OthersSame(w) /\ WorkerOK(w)'
        /\ \E s \in {"idle", "enqueue"} : pc' = [pc EXCEPT ![w] = s]
    BY <1>1, <1>4, AfterWriteStep DEF Read
  <2>2. TypeOK'
    BY <2>1 DEF IInv, TypeOK, Read, WorkingOK
  <2>3. JobFrame(w)
    BY JobStep, <1>1, <1>2, <2>1 DEF Read, Overtaken, Unchanged, OthersSame, BusyPC
  <2>4. ReindexOK'
    BY ReindexKept, <1>1, <2>1 DEF IInv, Read, OthersSame
  <2> QED  BY <2>1, <2>2, <2>3, <2>4 DEF IInv, JobFrame, Read
<1> QED  BY <1>3, <1>4

\* The row is settled: failed after a cleanup, active if the document may be.
LEMMA WriteInv ==
    ASSUME IInv, NEW w \in Workers, Write(w)
    PROVE  IInv'
<1>1. Busy(w) /\ pc[w] = "write"
  BY DEF Write, Busy, BusyPC
<1>2. PICK d \in Docs : d = job[w].doc /\ status[d] # "absent"
  BY <1>1, BusyHasRow
<1>3. goal[w] \in {"pending", "active", "restored", "failed"} /\ seen[w] \in Nat
  BY DEF IInv, TypeOK
<1>4. PICK n \in Nat :
        /\ chunkCount' = [chunkCount EXCEPT ![d] = n]
        /\ goal[w] = "active" => n = ChunksOf[d]
        /\ goal[w] \in {"pending", "restored"} => n = seen[w]
        /\ goal[w] = "failed" => n = chunkCount[d]
  <2>1. CASE goal[w] = "active"
    <3>1. ChunksOf[d] \in Nat
      BY <1>2, IndexingAssumption
    <3>2. chunkCount' = [chunkCount EXCEPT ![d] = ChunksOf[d]]
      BY <1>2, <2>1 DEF Write
    <3> QED  BY <2>1, <3>1, <3>2
  <2>2. CASE goal[w] \in {"pending", "restored"}
    <3>1. chunkCount' = [chunkCount EXCEPT ![d] = seen[w]]
      BY <1>2, <2>2 DEF Write
    <3> QED  BY <1>3, <2>2, <3>1
  <2>3. CASE goal[w] = "failed"
    <3>1. chunkCount[d] \in Nat
      BY DEF IInv, TypeOK
    <3>2. chunkCount' = [chunkCount EXCEPT ![d] = chunkCount[d]]
      BY <1>2, <2>3 DEF Write
    <3> QED  BY <2>3, <3>1, <3>2
  <2> QED  BY <1>3, <2>1, <2>2, <2>3
<1>5. PICK t \in {"pending", "active", "failed"} :
        /\ status' = [status EXCEPT ![d] = t]
        /\ t = "failed" => goal[w] = "failed"
        /\ t = "active" => goal[w] \in {"active", "restored"}
  <2>1. CASE goal[w] \in {"restored", "active"}
    <3>1. status' = [status EXCEPT ![d] = "active"]
      BY <1>2, <2>1 DEF Write
    <3> QED  BY <2>1, <3>1
  <2>2. CASE goal[w] \in {"pending", "failed"}
    <3>1. status' = [status EXCEPT ![d] = goal[w]]
      BY <1>2, <2>2 DEF Write
    <3> QED  BY <2>2, <3>1
  <2> QED  BY <1>3, <2>1, <2>2
<1>6. /\ indexedAt' = IF goal[w] = "active" THEN indexedAt \cup {d} ELSE indexedAt
      /\ stale' = stale \ {d}
      /\ UNCHANGED <<chunks, objects, queue, plan, resets, doc, kind, incidents, reindexes, crashes>>
  BY SMT, <1>2 DEF Write
<1>7. /\ WorkingOK' /\ OthersSame(w) /\ WorkerOK(w)'
      /\ \E s \in {"idle", "enqueue"} : pc' = [pc EXCEPT ![w] = s]
  BY <1>1, AfterWriteStep DEF Write
<1>8. TypeOK'
  <2>1. status' \in [Docs -> Status]
    BY SMT, <1>5 DEF IInv, TypeOK, Status
  <2>2. chunkCount' \in [Docs -> Nat] /\ indexedAt' \subseteq Docs /\ stale' \subseteq Docs
    BY SMT, <1>4, <1>6 DEF IInv, TypeOK
  <2> QED  BY <1>6, <1>7, <2>1, <2>2 DEF IInv, TypeOK, WorkingOK
<1>9. Remembers /\ \A e \in Docs : Overtaken(e)' = Overtaken(e)
  BY SMT, <1>6 DEF Remembers, Overtaken
<1>10. ASSUME NEW e \in Docs, e # d PROVE Unchanged(e)
  BY SMT, <1>4, <1>5, <1>6, <1>10 DEF IInv, TypeOK, Unchanged
<1>11. status'[d] = t /\ chunkCount'[d] = n
  BY <1>4, <1>5 DEF IInv, TypeOK
<1>12. JobFrame(w)
  BY JobStep, <1>1, <1>2, <1>6, <1>7, <1>9, <1>10, <1>11 DEF OthersSame, BusyPC
<1>13. ReindexOK'
  BY ReindexKept, <1>6, <1>7, <1>9 DEF IInv, OthersSame
<1>14. DocOK(d)'
  <2>1. t = "failed" => Clean(d)'
    BY SMT, <1>1, <1>2, <1>5, <1>6, <1>9 DEF IInv, WorkerOK, Clean
  <2>2. t = "active" => MayReindex(d)'
    <3>1. goal[w] = "restored" => MayReindex(d)
      BY <1>2 DEF IInv, WorkerOK, ReindexOK
    <3>2. goal[w] = "active" => d \in indexedAt'
      BY <1>6
    <3>3. MayReindex(d) => MayReindex(d)'
      BY <1>6, <1>9 DEF MayReindex
    <3> QED  BY <1>5, <3>1, <3>2, <3>3 DEF MayReindex
  <2>3. n = (IF d \in indexedAt' THEN ChunksOf[d] ELSE 0) \/ Overtaken(d)'
    <3>1. n # chunkCount[d] => goal[w] = "active" \/ Overtaken(d)
      <4>1. seen[w] = chunkCount[d] \/ Overtaken(d)
        BY <1>1, <1>2 DEF IInv, WorkerOK
      <4> QED  BY <1>3, <1>4, <4>1
    <3>2. chunkCount[d] = (IF d \in indexedAt THEN ChunksOf[d] ELSE 0) \/ Overtaken(d)
      BY DEF IInv, DocOK
    <3>3. Overtaken(d)' = Overtaken(d)
      BY <1>9
    <3> QED  BY SMT, <1>4, <1>6, <3>1, <3>2, <3>3
  <2> QED  BY SMT, <1>11, <2>1, <2>2, <2>3 DEF DocOK
<1> QED  BY <1>2, <1>7, <1>8, <1>12, <1>13, <1>14 DEF IInv, JobFrame

LEMMA WriteFailsInv ==
    ASSUME IInv, NEW w \in Workers, WriteFails(w)
    PROVE  IInv'
<1>1. Busy(w) /\ pc[w] = "write"
  BY DEF WriteFails, Busy, BusyPC
<1>2. job[w].doc \in Docs /\ status[job[w].doc] # "absent"
  BY <1>1, BusyHasRow
<1>3. incidents' = incidents \/ incidents' = incidents \cup {<<job[w].doc, "unsettled">>}
  BY DEF WriteFails, Note
<1>4. Remembers /\ \A e \in Docs : Overtaken(e)' => Overtaken(e)
  BY SMT, <1>3 DEF WriteFails, Remembers, Overtaken
<1>5. /\ WorkingOK' /\ OthersSame(w) /\ WorkerOK(w)'
      /\ pc' = [pc EXCEPT ![w] = pc'[w]]
  <2>1. CASE goal[w] = "active"
    BY <1>1, <1>4, <2>1, FailStep DEF WriteFails
  <2>2. CASE goal[w] # "active"
    <3>1. /\ WorkingOK' /\ OthersSame(w) /\ WorkerOK(w)'
          /\ pc' = [pc EXCEPT ![w] = "idle"]
      BY <2>2, DoneStep DEF WriteFails
    <3>2. pc'[w] = "idle"
      BY SMT, <3>1 DEF IInv, TypeOK, Procs
    <3> QED  BY <3>1, <3>2
  <2> QED  BY <2>1, <2>2
<1>6. TypeOK'
  <2>1. incidents' \subseteq Docs \X Incident
    BY SMT, <1>2, <1>3 DEF IInv, TypeOK, Incident
  <2> QED  BY <1>5, <2>1 DEF IInv, TypeOK, WriteFails, WorkingOK
<1>7. pc'[w] \in BusyPC => job'[w] = job[w]
  BY SMT, <1>1 DEF WriteFails, Fail, Done, IInv, TypeOK, Procs, BusyPC
<1>8. JobFrame(w)
  BY JobStep, <1>1, <1>2, <1>4, <1>5, <1>7 DEF WriteFails, OthersSame, Unchanged
<1>9. ReindexOK'
  BY ReindexKept, <1>4, <1>5 DEF IInv, WriteFails, OthersSame
<1> QED  BY <1>5, <1>6, <1>8, <1>9 DEF IInv, JobFrame, WriteFails

\* The claim: the row was claimable, so whoever else is busy with it was overtaken.
LEMMA ClaimInv ==
    ASSUME IInv, NEW w \in Workers, Claim(w)
    PROVE  IInv'
<1>1. /\ job[w] \in Job /\ pc' = [pc EXCEPT ![w] = "load"] /\ pc[w] = "claim"
  BY DEF IInv, WorkerOK, Claim, Goto
<1>2. PICK d \in Docs : d = job[w].doc
  BY <1>1 DEF Job
<1>3. /\ status[d] \in {"pending", "failed", "active"} /\ ~RowLocked(d)
      /\ status' = [status EXCEPT ![d] = "indexing"]
  BY SMT, <1>2 DEF Claim, Claimable
<1>4. TypeOK'
  <2>1. status' \in [Docs -> Status]
    BY SMT, <1>3 DEF IInv, TypeOK, Status
  <2>2. seen' \in [Workers -> Nat] /\ stale' \subseteq Docs
    BY SMT, <1>2 DEF IInv, TypeOK, Claim
  <2>3. PcOK'
    BY PcStep, <1>1 DEF IInv, WorkerPC, BusyPC
  <2> QED  BY <2>1, <2>2, <2>3 DEF IInv, TypeOK, PcOK, Claim
<1>5. /\ Remembers /\ indexedAt' = indexedAt /\ incidents' = incidents
      /\ chunks' = chunks /\ objects' = objects /\ job' = job /\ goal' = goal
      /\ doc' = doc /\ kind' = kind /\ chunkCount' = chunkCount
      /\ \A v \in Workers \ {w} : seen'[v] = seen[v]
      /\ seen'[w] = chunkCount[d] /\ status'[d] = "indexing"
      /\ \A e \in Docs \ {d} : status'[e] = status[e]
  BY SMT, <1>2, <1>3 DEF Claim, Remembers, IInv, TypeOK
<1>6. /\ pc'[w] = "load"
      /\ \A v \in Workers \ {w} : pc'[v] = pc[v]
      /\ \A h \in Handlers : pc'[h] = pc[h]
  BY SMT, <1>1, IndexingAssumption DEF IInv, TypeOK, Procs
<1>7. ASSUME NEW v \in Workers, Busy(v), job[v].doc = d PROVE Overtaken(d)
  BY <1>3, <1>7 DEF IInv, WorkerOK
<1>8. OneIndexer'
  <2> SUFFICES ASSUME NEW u \in Workers, NEW v \in Workers, u # v, Busy(u)', Busy(v)',
                      job'[u].doc = job'[v].doc
               PROVE  Overtaken(job[u].doc)'
    BY DEF OneIndexer, Busy, Happened, Overtaken
  <2>1. CASE u = w \/ v = w
    BY <1>2, <1>5, <1>6, <1>7, <2>1 DEF Busy, Overtaken
  <2>2. CASE u # w /\ v # w
    BY <1>5, <1>6, <2>2 DEF IInv, OneIndexer, Happened, Busy, Overtaken
  <2> QED  BY <2>1, <2>2
<1>9. ReindexOK'
  BY ReindexKept, <1>5 DEF IInv, Claim
<1>10. ASSUME NEW e \in Docs PROVE DocOK(e)'
  <2>1. CASE e = d
    BY SMT, <1>5, <2>1 DEF IInv, DocOK, Overtaken
  <2>2. CASE e # d
    <3>1. DocOK(e) /\ status'[e] = status[e] /\ (HasWorker(e)' => HasWorker(e))
      BY <1>2, <1>5, <1>6, <2>2 DEF IInv, HasWorker
    <3> QED  BY SMT, <1>5, <3>1 DEF DocOK, Emptied, Clean, MayReindex, Overtaken
  <2> QED  BY <2>1, <2>2
<1>11. ASSUME NEW v \in Workers PROVE WorkerOK(v)'
  <2>1. CASE v = w
    BY SMT, <1>1, <1>2, <1>5, <1>6, <2>1 DEF IInv, WorkerOK, Busy, BusyPC, Overtaken
  <2>2. CASE v # w
    <3>1. /\ pc'[v] = pc[v] /\ job'[v] = job[v] /\ seen'[v] = seen[v] /\ goal'[v] = goal[v]
          /\ WorkerOK(v)
      BY <1>5, <1>6, <2>2 DEF IInv
    <3>2. Busy(v) => (SameRow(job[v].doc) /\ SmallerStores(job[v].doc)) \/ Overtaken(job[v].doc)'
      BY <1>5, <1>7, BusyHasRow DEF SameRow, SmallerStores, Overtaken
    <3> QED  BY <1>5, <3>1, <3>2, WorkerKept
  <2> QED  BY <2>1, <2>2
<1>12. ASSUME NEW h \in Handlers PROVE HandlerOK(h)'
  <2>1. HandlerOK(h) /\ pc'[h] = pc[h] /\ doc' = doc /\ kind' = kind
    BY <1>5, <1>6 DEF IInv
  <2>2. pc[h] # "idle" => (status'[doc[h]] = "absent" <=> status[doc[h]] = "absent")
    BY SMT, <1>3, <1>5, <2>1 DEF HandlerOK
  <2>3. pc[h] = "deleteCommit" => doc[h] # d
    BY <1>3 DEF RowLocked, Deleting
  <2>4. pc[h] = "deleteCommit" => Emptied(doc[h])'
    BY <1>2, <1>5, <1>6, <2>1, <2>3 DEF HandlerOK, Emptied, HasWorker
  <2> QED  BY SMT, <1>5, <1>6, <2>1, <2>2, <2>4 DEF HandlerOK
<1> QED  BY <1>4, <1>8, <1>9, <1>10, <1>11, <1>12 DEF IInv

-----------------------------------------------------------------------------
(* Crashes and restarts *)

LEMMA RestartInv ==
    ASSUME IInv, NEW w \in Workers, Restart(w)
    PROVE  IInv'
<1>1. pc[w] = "down" /\ pc'[w] = "select" /\ pc' = [pc EXCEPT ![w] = "select"]
  BY DEF IInv, TypeOK, Restart, Goto, Procs
<1>2. TypeOK'
  BY SMT, <1>1, IndexingAssumption DEF IInv, TypeOK, Restart, Procs, WorkerPC, StartPC, HandlerPC
<1>3. Remembers
  BY DEF Restart, Remembers
<1>4. JobFrame(w)
  BY JobStep, <1>1, <1>3 DEF Restart, Overtaken, Busy, BusyPC, Unchanged
<1>5. ReindexOK'
  BY ReindexKept, <1>3 DEF IInv, Restart
<1>6. WorkerOK(w)'
  <2>1. goal'[w] = goal[w] /\ goal[w] # "restored"
    BY <1>1 DEF Restart, IInv, WorkerOK, BusyPC
  <2> QED  BY <1>1, <2>1, WorkerIdle DEF BusyPC
<1> QED  BY <1>2, <1>4, <1>5, <1>6 DEF IInv, JobFrame, Restart

LEMMA StartFailsInv ==
    ASSUME IInv, NEW w \in Workers, StartFails(w)
    PROVE  IInv'
<1>1. pc[w] \in {"select", "reset", "requeue"} /\ pc'[w] = "down" /\ pc' = [pc EXCEPT ![w] = "down"]
  BY DEF IInv, TypeOK, StartFails, Procs
<1>2. TypeOK'
  BY SMT, <1>1, IndexingAssumption DEF IInv, TypeOK, StartFails, Procs, WorkerPC, StartPC, HandlerPC
<1>3. Remembers
  BY DEF StartFails, Remembers
<1>4. JobFrame(w)
  BY JobStep, <1>1, <1>3 DEF StartFails, Overtaken, Busy, BusyPC, Unchanged
<1>5. ReindexOK'
  <2>1. \A v \in Workers : plan'[v] \subseteq plan[v]
    BY DEF IInv, TypeOK, StartFails
  <2> QED  BY ReindexKept, <1>3, <2>1 DEF IInv, StartFails
<1>6. WorkerOK(w)'
  <2>1. goal'[w] = goal[w] /\ goal[w] # "restored"
    BY <1>1 DEF StartFails, IInv, WorkerOK, BusyPC
  <2> QED  BY <1>1, <2>1, WorkerIdle DEF BusyPC
<1> QED  BY <1>2, <1>4, <1>5, <1>6 DEF IInv, JobFrame, StartFails

\* A row counts as indexed before only if it may be reindexed.
LEMMA RequeueSelectInv ==
    ASSUME IInv, NEW w \in Workers, RequeueSelect(w)
    PROVE  IInv'
<1>1. pc[w] = "select" /\ pc'[w] = "reset" /\ pc' = [pc EXCEPT ![w] = "reset"]
  BY DEF IInv, TypeOK, RequeueSelect, Goto, Procs
<1>2. PICK S \in SUBSET Docs, T \in SUBSET Docs, U \in SUBSET Docs :
        /\ plan' = [plan EXCEPT ![w] = {<<d, KindOf(d)>> : d \in S}]
        /\ resets' = [resets EXCEPT ![w] = T]
        /\ incidents' = incidents \cup (U \X {"skipped"})
  BY DEF RequeueSelect
<1>3. TypeOK'
  <2>1. plan' \in [Workers -> SUBSET (Docs \X Kind)]
    <3>1. {<<d, KindOf(d)>> : d \in S} \in SUBSET (Docs \X Kind)
      BY DEF KindOf, Kind
    <3> QED  BY <1>2, <3>1 DEF IInv, TypeOK
  <2>2. resets' \in [Workers -> SUBSET Docs] /\ incidents' \subseteq Docs \X Incident
    BY SMT, <1>2 DEF IInv, TypeOK, Incident
  <2> QED  BY SMT, <1>1, <2>1, <2>2, IndexingAssumption
           DEF IInv, TypeOK, RequeueSelect, Procs, WorkerPC, StartPC, HandlerPC
<1>4. Remembers /\ \A e \in Docs : Overtaken(e)' => Overtaken(e)
  BY SMT, <1>2 DEF RequeueSelect, Remembers, Overtaken
<1>5. JobFrame(w)
  BY JobStep, <1>1, <1>4 DEF RequeueSelect, Busy, BusyPC, Unchanged
<1>6. ASSUME NEW d \in Docs, MayReindex(d) PROVE MayReindex(d)'
  BY <1>4, <1>6 DEF MayReindex, Remembers, Overtaken
<1>7. ReindexOK'
  <2>1. ASSUME NEW d \in Docs, KindOf(d) = "reindex" PROVE MayReindex(d)
    BY SMT, <2>1 DEF IInv, DocOK, KindOf, IsReindex, MayReindex
  <2>2. ASSUME NEW v \in Workers, NEW d \in Docs, <<d, "reindex">> \in plan'[v]
        PROVE  MayReindex(d)'
    <3>1. CASE v = w
      BY <1>2, <1>6, <2>1, <2>2, <3>1 DEF IInv, TypeOK
    <3>2. CASE v # w
      BY <1>2, <1>6, <2>2, <3>2 DEF IInv, TypeOK, ReindexOK
    <3> QED  BY <3>1, <3>2
  <2>3. /\ (\A i \in 1..Len(queue) : queue[i].kind = "reindex" => MayReindex(queue[i].doc))'
        /\ (\A v \in Workers : job[v].kind = "reindex" => MayReindex(job[v].doc))'
        /\ (\A h \in Handlers : kind[h] = "reindex" => MayReindex(doc[h]))'
    BY <1>4 DEF IInv, ReindexOK, RequeueSelect, MayReindex, Remembers, Overtaken
  <2> QED  BY <2>2, <2>3 DEF ReindexOK
<1>8. WorkerOK(w)'
  <2>1. goal'[w] = goal[w] /\ goal[w] # "restored"
    BY <1>1 DEF RequeueSelect, IInv, WorkerOK, BusyPC
  <2> QED  BY <1>1, <2>1, WorkerIdle DEF BusyPC
<1> QED  BY <1>3, <1>5, <1>7, <1>8 DEF IInv, JobFrame, RequeueSelect

\* The reset: who was busy with a row it settles is on record as overtaken.
LEMMA RequeueResetInv ==
    ASSUME IInv, NEW w \in Workers, RequeueReset(w)
    PROVE  IInv'
<1>1. pc[w] = "reset" /\ pc'[w] \in {"idle", "requeue"} /\ pc' = [pc EXCEPT ![w] = pc'[w]]
  BY DEF IInv, TypeOK, RequeueReset, Goto, Procs
<1>2. /\ \A v \in Workers \ {w} : pc'[v] = pc[v]
      /\ \A h \in Handlers : pc'[h] = pc[h]
  BY SMT, <1>1, IndexingAssumption DEF IInv, TypeOK, Procs
<1>3. resets[w] \subseteq Docs
  BY DEF IInv, TypeOK
<1>4. PICK M \in SUBSET resets[w] :
        /\ incidents' = incidents \cup (M \X {"overtaken"})
        /\ \A d \in resets[w] : HasWorker(d) => d \in M
  <2> DEFINE moved == {d \in resets[w] : \/ status[d] # "indexing" \/ d \notin stale
                                        \/ HasWorker(d) \/ <<d, KindOf(d)>> \notin plan[w]}
  <2>1. incidents' = incidents \cup (moved \X {"overtaken"})
    BY DEF RequeueReset
  <2>2. moved \in SUBSET resets[w] /\ \A d \in resets[w] : HasWorker(d) => d \in moved
    OBVIOUS
  <2> HIDE DEF moved
  <2> QED  BY <2>1, <2>2
<1>5. ASSUME NEW d \in resets[w]
      PROVE  /\ status[d] # "absent" /\ status'[d] \in {"active", "pending"}
             /\ status'[d] = "active" => <<d, "reindex">> \in plan[w]
  BY <1>3 DEF RequeueReset, Exists
<1>6. ASSUME NEW d \in Docs, d \notin resets[w] PROVE status'[d] = status[d]
  BY <1>6 DEF RequeueReset
<1>7. Remembers
  BY <1>4 DEF RequeueReset, Remembers
<1>8. NoClaim
  BY <1>1, <1>2 DEF RequeueReset, NoClaim, Busy, BusyPC
<1>9. TypeOK'
  <2>1. status' \in [Docs -> Status]
    BY SMT DEF IInv, TypeOK, RequeueReset, Status
  <2>2. incidents' \subseteq Docs \X Incident
    BY SMT, <1>3, <1>4 DEF IInv, TypeOK, Incident
  <2>3. stale' \subseteq Docs /\ resets' \in [Workers -> SUBSET Docs]
    BY SMT DEF IInv, TypeOK, RequeueReset
  <2>4. PcOK'
    BY PcStep, <1>1 DEF IInv, WorkerPC, StartPC
  <2> QED  BY <2>1, <2>2, <2>3, <2>4 DEF IInv, TypeOK, PcOK, RequeueReset
<1>10. ReindexOK'
  BY ReindexKept, <1>7 DEF IInv, RequeueReset
<1>11. OneIndexer'
  BY OneIndexerKept, <1>7, <1>8 DEF IInv
<1>12. ASSUME NEW d \in Docs PROVE DocOK(d)'
  <2>1. CASE d \in resets[w]
    <3>1. status'[d] = "active" => MayReindex(d)'
      BY <1>5, <1>7, <2>1 DEF IInv, ReindexOK, MayReindex, Remembers, Overtaken
    <3>2. /\ chunkCount'[d] = chunkCount[d] /\ indexedAt' = indexedAt
          /\ chunkCount[d] = (IF d \in indexedAt THEN ChunksOf[d] ELSE 0) \/ Overtaken(d)
          /\ Overtaken(d) => Overtaken(d)'
      BY <1>7 DEF IInv, DocOK, RequeueReset, Remembers, Overtaken
    <3>3. chunkCount'[d] = (IF d \in indexedAt' THEN ChunksOf[d] ELSE 0) \/ Overtaken(d)'
      BY <3>2
    <3>4. status'[d] \notin {"absent", "failed", "gone"}
      BY <1>5, <2>1
    <3> QED  BY <3>1, <3>3, <3>4 DEF DocOK
  <2>2. CASE d \notin resets[w]
    <3>1. DocOK(d) /\ SameRow(d) /\ SmallerStores(d)
      BY <1>6, <2>2 DEF IInv, SameRow, SmallerStores, RequeueReset
    <3>2. Overtaken(d)' => Overtaken(d)
      BY SMT, <1>4, <2>2 DEF Overtaken
    <3> QED  BY DocKept, <1>7, <1>8, <3>1, <3>2
  <2> QED  BY <2>1, <2>2
<1>13. ASSUME NEW v \in Workers PROVE WorkerOK(v)'
  <2>1. CASE v = w
    <3>1. goal'[w] = goal[w] /\ goal[w] # "restored"
      BY <1>1 DEF RequeueReset, IInv, WorkerOK, BusyPC
    <3> QED  BY <1>1, <2>1, <3>1, WorkerIdle DEF BusyPC
  <2>2. CASE v # w
    <3>1. ASSUME Busy(v)
          PROVE  \/ SameRow(job[v].doc) /\ SmallerStores(job[v].doc)
                 \/ Overtaken(job[v].doc)'
      <4>1. job[v].doc \in Docs /\ HasWorker(job[v].doc)
        BY <3>1, BusyHasRow DEF HasWorker, Busy
      <4>2. CASE job[v].doc \in resets[w]
        BY <1>4, <4>1, <4>2 DEF Overtaken, RequeueReset
      <4>3. CASE job[v].doc \notin resets[w]
        BY <1>6, <4>1, <4>3 DEF SameRow, SmallerStores, RequeueReset
      <4> QED  BY <4>2, <4>3
    <3> QED  BY <1>2, <1>7, <2>2, <3>1, WorkerKept DEF IInv, RequeueReset
  <2> QED  BY <2>1, <2>2
<1>14. ASSUME NEW h \in Handlers PROVE HandlerOK(h)'
  <2>1. HandlerOK(h)
    BY DEF IInv
  <2>2. pc[h] # "idle" => (status'[doc[h]] = "absent" <=> status[doc[h]] = "absent")
    BY <1>5, <1>6, <2>1 DEF HandlerOK
  <2>3. pc[h] = "uploadCommit" => doc[h] \in objects
    BY <2>1 DEF HandlerOK
  <2> QED  BY HandlerKept, <1>2, <1>7, <1>8, <2>1, <2>2, <2>3 DEF RequeueReset
<1> QED  BY <1>9, <1>10, <1>11, <1>12, <1>13, <1>14 DEF IInv

LEMMA RequeueInv ==
    ASSUME IInv, NEW w \in Workers, Requeue(w)
    PROVE  IInv'
<1>1. PICK x \in plan[w] :
        /\ Push([doc |-> x[1], kind |-> x[2], attempt |-> 1])
        /\ plan' = [plan EXCEPT ![w] = @ \ {x}]
        /\ pc' = [pc EXCEPT ![w] = IF plan[w] = {x} THEN "idle" ELSE "requeue"]
  BY DEF Requeue
<1> DEFINE j == [doc |-> x[1], kind |-> x[2], attempt |-> 1]
<1>2. pc[w] = "requeue" /\ pc'[w] \in {"idle", "requeue"} /\ pc' = [pc EXCEPT ![w] = pc'[w]]
  BY <1>1 DEF IInv, TypeOK, Requeue, Procs
<1>3. PICK d \in Docs, k \in Kind : x = <<d, k>>
  BY DEF IInv, TypeOK
<1>4. j \in Job /\ j.doc = d /\ j.kind = k /\ queue' = Append(queue, j)
  BY SMT, <1>1, <1>3, IndexingAssumption DEF Push, Job
<1>5. j.kind = "reindex" => MayReindex(j.doc)
  BY <1>3, <1>4 DEF IInv, ReindexOK
<1> HIDE DEF j
<1>6. TypeOK'
  <2>1. queue' \in Seq(Job)
    BY PushedJob, <1>4 DEF IInv, TypeOK
  <2>2. plan' \in [Workers -> SUBSET (Docs \X Kind)]
    BY <1>1 DEF IInv, TypeOK
  <2>3. PcOK'
    BY PcStep, <1>2 DEF IInv, WorkerPC, StartPC
  <2> QED  BY <2>1, <2>2, <2>3 DEF IInv, TypeOK, PcOK, Requeue
<1>7. Remembers
  BY DEF Requeue, Remembers
<1>8. JobFrame(w)
  BY JobStep, <1>2, <1>7 DEF Requeue, Overtaken, Busy, BusyPC, Unchanged
<1>9. ReindexOK'
  <2>1. \A v \in Workers : plan'[v] \subseteq plan[v]
    BY <1>1 DEF IInv, TypeOK
  <2> QED  BY ReindexPushed, <1>4, <1>5, <1>7, <2>1 DEF IInv, TypeOK, Requeue
<1>10. WorkerOK(w)'
  <2>1. goal'[w] = goal[w] /\ goal[w] # "restored"
    BY <1>2 DEF Requeue, IInv, WorkerOK, BusyPC
  <2> QED  BY <1>2, <2>1, WorkerIdle DEF BusyPC
<1> QED  BY <1>6, <1>8, <1>9, <1>10 DEF IInv, JobFrame, Requeue

\* A process that dies leaves the rows and the stores as they are.
LEMMA CrashInv ==
    ASSUME IInv, NEW w \in Workers, Crash(w)
    PROVE  IInv'
<1>1. /\ pc'[w] = "down" /\ goal'[w] = "pending"
      /\ \A v \in Workers \ {w} : /\ pc'[v] = pc[v] /\ job'[v] = job[v]
                                  /\ seen'[v] = seen[v] /\ goal'[v] = goal[v]
      /\ \A v \in Workers : job'[v] \in {job[v], NoJob} /\ plan'[v] \subseteq plan[v]
  BY SMT, IndexingAssumption DEF IInv, TypeOK, Crash, Procs
<1>2. ASSUME NEW h \in Handlers
      PROVE  \/ pc'[h] = "idle" /\ doc'[h] = NoDoc /\ kind'[h] = "upload"
             \/ pc'[h] = pc[h] /\ doc'[h] = doc[h] /\ kind'[h] = kind[h]
  BY SMT, IndexingAssumption DEF Crash, Procs
<1>3. PICK S \in SUBSET Docs : incidents' = incidents \cup (S \X {"halfDeleted"})
  <2> DEFINE cut == {h \in {g \in Handlers : Home[g] = w} : pc[h] = "deleteCommit"}
  <2>1. \A h \in cut : doc[h] \in Docs
    BY DEF IInv, HandlerOK
  <2>2. incidents' = incidents \cup {<<doc[h], "halfDeleted">> : h \in cut}
    BY DEF Crash
  <2>3. {<<doc[h], "halfDeleted">> : h \in cut} = {doc[h] : h \in cut} \X {"halfDeleted"}
    BY DEF cut
  <2>4. {doc[h] : h \in cut} \in SUBSET Docs
    BY <2>1
  <2> QED  BY <2>2, <2>3, <2>4
<1>4. TypeOK'
  <2>1. incidents' \subseteq Docs \X Incident
    BY SMT, <1>3 DEF IInv, TypeOK, Incident
  <2>2. /\ pc' \in [Procs -> WorkerPC \cup HandlerPC]
        /\ \A v \in Workers : pc'[v] \in WorkerPC
        /\ \A h \in Handlers : pc'[h] \in HandlerPC
    BY SMT, <1>1, <1>2, IndexingAssumption
       DEF IInv, TypeOK, Crash, Procs, WorkerPC, StartPC, HandlerPC
  <2>3. doc' \in [Handlers -> Docs \cup {NoDoc}] /\ kind' \in [Handlers -> Kind]
    BY SMT DEF IInv, TypeOK, Crash, Kind
  <2> QED  BY SMT, <2>1, <2>2, <2>3 DEF IInv, TypeOK, Crash
<1>5. Remembers /\ \A e \in Docs : Overtaken(e)' => Overtaken(e)
  BY SMT, <1>3 DEF Crash, Remembers, Overtaken
<1>6. NoClaim
  BY <1>1 DEF NoClaim, Busy, BusyPC
<1>7. ReindexOK'
  BY ReindexKept, <1>1, <1>2, <1>5 DEF IInv, Crash
<1>8. OneIndexer'
  BY OneIndexerKept, <1>5, <1>6 DEF IInv
<1>9. ASSUME NEW d \in Docs PROVE DocOK(d)'
  BY DocKept, <1>5, <1>6 DEF IInv, Crash, SameRow, SmallerStores
<1>10. ASSUME NEW v \in Workers PROVE WorkerOK(v)'
  <2>1. CASE v = w
    BY <1>1, <2>1, WorkerIdle DEF BusyPC
  <2>2. CASE v # w
    BY <1>1, <1>5, <2>2, WorkerKept DEF IInv, Crash, SameRow, SmallerStores
  <2> QED  BY <2>1, <2>2
<1>11. ASSUME NEW h \in Handlers PROVE HandlerOK(h)'
  <2>1. HandlerOK(h)
    BY DEF IInv
  <2>2. CASE pc'[h] = "idle" /\ kind'[h] = "upload"
    BY <2>2 DEF HandlerOK
  <2>3. CASE pc'[h] = pc[h] /\ doc'[h] = doc[h] /\ kind'[h] = kind[h]
    <3>1. \A g \in Handlers \ {h} : pc'[g] # "idle" => pc[g] # "idle" /\ doc'[g] = doc[g]
      BY <1>2
    <3>2. pc[h] = "uploadCommit" => doc[h] \in objects
      BY <2>1 DEF HandlerOK
    <3> QED  BY HandlerKept, <1>5, <1>6, <2>1, <2>3, <3>1, <3>2 DEF Crash
  <2> QED  BY <1>2, <2>2, <2>3
<1> QED  BY <1>4, <1>7, <1>8, <1>9, <1>10, <1>11 DEF IInv

\* Nothing here depends on which claims are stale.
LEMMA OnlyStale ==
    ASSUME IInv, stale' \subseteq Docs,
           UNCHANGED <<status, chunkCount, indexedAt, stores, queue, pc, working, starting,
                       request, history>>
    PROVE  IInv'
<1>1. TypeOK'
  BY DEF IInv, TypeOK, stores
<1>2. ReindexOK' /\ OneIndexer'
  BY DEF IInv, ReindexOK, OneIndexer, MayReindex, Overtaken, Happened
<1>3. ASSUME NEW d \in Docs PROVE DocOK(d)'
  BY DEF IInv, DocOK, MayReindex, Overtaken, Clean, Emptied, HasWorker, stores
<1>4. ASSUME NEW w \in Workers PROVE WorkerOK(w)'
  BY DEF IInv, WorkerOK, Overtaken, Busy, Clean, stores
<1>5. ASSUME NEW h \in Handlers PROVE HandlerOK(h)'
  BY DEF IInv, HandlerOK, Emptied, HasWorker, stores
<1> QED  BY <1>1, <1>2, <1>3, <1>4, <1>5 DEF IInv

-----------------------------------------------------------------------------
(* Every step, and the theorems *)

LEMMA NextInv ==
    ASSUME IInv, [Next]_vars
    PROVE  IInv'
<1>1. CASE UNCHANGED vars
  BY <1>1, OnlyStale DEF vars, IInv, TypeOK
<1>2. ASSUME NEW h \in Handlers, HandlerStep(h) PROVE IInv'
  BY <1>2, UploadCommitInv, UploadEnqueueInv, UploadEnqueueFailsInv, UploadUndoInv,
     UploadUndoFailsInv, UploadDropFailsInv, ReindexEnqueueInv, DeleteChunksInv, DeleteFailsInv,
     DeleteCommitInv
     DEF HandlerStep
<1>3. ASSUME NEW h \in Handlers, NEW d \in Docs,
             UploadPut(h, d) \/ UploadPutFails(h, d) \/ ReindexStart(h, d) \/ DeleteRow(h, d)
      PROVE  IInv'
  BY <1>3, UploadPutInv, UploadPutFailsInv, ReindexStartInv, DeleteRowInv
<1>4. ASSUME NEW w \in Workers, WorkerStep(w) PROVE IInv'
  BY <1>4, PopInv, ClaimInv, ClaimSkippedInv, ClaimFailsInv, LoadInv, SweepInv, SweepDeleteInv,
     AddInv, JobFailsInv, DropChunksInv, DropBytesInv, ReadInv, WriteInv, WriteFailsInv, EnqueueInv
     DEF WorkerStep
<1>5. ASSUME NEW w \in Workers, StartStep(w) \/ Crash(w) PROVE IInv'
  BY <1>5, RestartInv, RequeueSelectInv, RequeueResetInv, RequeueInv, StartFailsInv, CrashInv
     DEF StartStep
<1>6. ASSUME NEW d \in Docs, BecomeStale(d) PROVE IInv'
  <2>1. stale' \subseteq Docs
    BY <1>6 DEF BecomeStale, IInv, TypeOK
  <2> QED  BY <1>6, <2>1, OnlyStale DEF BecomeStale
<1> QED  BY <1>1, <1>2, <1>3, <1>4, <1>5, <1>6 DEF Next, Step

\* The inductive invariant: what a worker or a request is in the middle of agrees
\* with the row and the stores, for every document that was not overtaken.
THEOREM Inductive == Spec => []IInv
<1> QED  BY InitInv, NextInv, PTL DEF Spec

\* Rows, jobs, plans and program counters keep their shape through crashes and restarts.
THEOREM TypeCorrect == Spec => []TypeOK
<1>1. IInv => TypeOK
  BY DEF IInv
<1> QED  BY Inductive, <1>1, PTL

\* The claim lets one worker at a time into a document, however often its job was
\* queued; only a restart that resets a row it no longer knows lets in a second.
THEOREM ClaimExcludes == Spec => []OneIndexer
<1>1. IInv => OneIndexer
  BY DEF IInv
<1> QED  BY Inductive, <1>1, PTL

\* A document becomes active only by being indexed, with the count of its own chunks,
\* whatever fails, is retried, restored or requeued in between.
THEOREM ActiveHasItsCount == Spec => []ActiveWasIndexed
<1>1. IInv => ActiveWasIndexed
  BY SMT DEF IInv, DocOK, ActiveWasIndexed, MayReindex, Overtaken, Happened
<1> QED  BY Inductive, <1>1, PTL

\* The last failure of a first indexing is recorded after its chunks and its bytes
\* are gone, and no later step of a job brings them back.
THEOREM FailedLeavesNothing == Spec => []FailedIsClean
<1>1. IInv => FailedIsClean
  BY SMT DEF IInv, DocOK, FailedIsClean, Clean, Overtaken, Happened
<1> QED  BY Inductive, <1>1, PTL

\* A deleted document has no chunks left to answer from, unless a worker had it
\* when it was deleted.
THEOREM DeletedLeavesNothing == Spec => []DeletedIsGone
<1>1. IInv => DeletedIsGone
  BY SMT DEF IInv, DocOK, DeletedIsGone, Emptied, Happened
<1> QED  BY Inductive, <1>1, PTL

-----------------------------------------------------------------------------
(* Chunks to be found: the sweep of old generations spares one *)

USE DEF stores

\* What ActiveIsRetrievable excepts, or a document that is or will be deleted.
Excused(d) ==
    \/ Overtaken(d) \/ <<d, "halfDeleted">> \in incidents \/ status[d] = "gone"
    \/ \E h \in Handlers : pc[h] = "deleteCommit" /\ doc[h] = d

\* An indexed document keeps chunks, and nobody takes it for a first indexing.
DocStocked(d) ==
    d \in indexedAt =>
        \/ Excused(d)
        \/ status[d] \in {"indexing", "active"} /\ (ChunksOf[d] = 0 \/ chunks[d] # {})

\* The generation a worker wrote is there until the sweep is over.
WorkerStocked(w) ==
    LET d == job[w].doc
    IN  Busy(w) =>
          /\ pc[w] \in {"dropChunks", "dropBytes"} => job[w].kind = "upload" /\ goal[w] # "active"
          /\ pc[w] \in {"read", "write"} /\ goal[w] \in {"pending", "failed"} => job[w].kind = "upload"
          /\ \/ Excused(d)
             \/ /\ job[w].kind = "upload" => d \notin indexedAt
                /\ pc[w] = "sweep" => gen[w] \in chunks[d]
                /\ pc[w] = "delete" => gen[w] \in chunks[d] \ found[w]
                /\ pc[w] \in {"read", "write"} /\ goal[w] = "active" =>
                      ChunksOf[d] = 0 \/ chunks[d] # {}

Stocked ==
    /\ \A d \in Docs : DocStocked(d)
    /\ \A w \in Workers : WorkerStocked(w)

LEMMA ExcusedStays ==
    ASSUME NEW d \in Docs, incidents \subseteq incidents', status[d] = "gone" => status'[d] = "gone",
           \A h \in Handlers : pc[h] = "deleteCommit" =>
               \/ pc'[h] = pc[h] /\ doc'[h] = doc[h]
               \/ <<doc[h], "halfDeleted">> \in incidents' \/ status'[doc[h]] = "gone"
    PROVE  Excused(d) => Excused(d)'
BY DEF Excused, Overtaken

LEMMA DocStockKept ==
    ASSUME NEW d \in Docs, DocStocked(d), Excused(d) => Excused(d)',
           \/ Excused(d)'
           \/ /\ d \in indexedAt' => d \in indexedAt
              /\ status[d] \in {"indexing", "active"} => status'[d] \in {"indexing", "active"}
              /\ chunks[d] # {} => chunks'[d] # {}
    PROVE  DocStocked(d)'
BY SMT DEF DocStocked

LEMMA WorkerStockKept ==
    ASSUME NEW w \in Workers, WorkerStocked(w),
           \/ pc'[w] \notin BusyPC
           \/ /\ pc'[w] = pc[w] /\ job'[w] = job[w] /\ goal'[w] = goal[w]
              /\ gen'[w] = gen[w] /\ found'[w] = found[w],
           Busy(w) => \E d \in Docs :
              /\ d = job[w].doc /\ (Excused(d) => Excused(d)')
              /\ \/ Excused(d)'
                 \/ /\ d \in indexedAt' => d \in indexedAt
                    /\ chunks'[d] = chunks[d]
    PROVE  WorkerStocked(w)'
<1>1. CASE pc'[w] \notin BusyPC \/ ~Busy(w)
  BY <1>1 DEF WorkerStocked, Busy
<1>2. CASE pc'[w] \in BusyPC /\ Busy(w)
  <2>1. PICK d \in Docs :
          /\ d = job[w].doc /\ (Excused(d) => Excused(d)')
          /\ \/ Excused(d)'
             \/ /\ d \in indexedAt' => d \in indexedAt
                /\ chunks'[d] = chunks[d]
    BY <1>2
  <2>2. /\ pc'[w] = pc[w] /\ job'[w] = job[w] /\ goal'[w] = goal[w]
        /\ gen'[w] = gen[w] /\ found'[w] = found[w] /\ job'[w].doc = d
    BY <1>2, <2>1
  <2> QED  BY SMT, <1>2, <2>1, <2>2 DEF WorkerStocked, Busy
<1> QED  BY <1>1, <1>2

\* A step that leaves rows and chunks alone, and starts no worker.
LEMMA StockAside ==
    ASSUME IInv, Stocked, UNCHANGED <<status, indexedAt, chunks>>, incidents \subseteq incidents',
           \A h \in Handlers : pc[h] = "deleteCommit" =>
               \/ pc'[h] = pc[h] /\ doc'[h] = doc[h]
               \/ <<doc[h], "halfDeleted">> \in incidents' \/ status'[doc[h]] = "gone",
           \A w \in Workers :
               \/ pc'[w] \notin BusyPC
               \/ /\ pc'[w] = pc[w] /\ job'[w] = job[w] /\ goal'[w] = goal[w]
                  /\ gen'[w] = gen[w] /\ found'[w] = found[w]
    PROVE  Stocked'
<1>1. \A d \in Docs : Excused(d) => Excused(d)'
  BY ExcusedStays
<1>2. ASSUME NEW d \in Docs PROVE DocStocked(d)'
  BY <1>1, DocStockKept DEF Stocked
<1>3. ASSUME NEW w \in Workers PROVE WorkerStocked(w)'
  BY <1>1, BusyHasRow, WorkerStockKept DEF Stocked
<1> QED  BY <1>2, <1>3 DEF Stocked

\* The steps that concern neither.
LEMMA StockRequest ==
    ASSUME IInv, Stocked, NEW h \in Handlers, NEW s, pc' = [pc EXCEPT ![h] = s],
           UNCHANGED <<status, indexedAt, chunks, job, gen, found, goal>>,
           incidents \subseteq incidents',
           \A g \in Handlers \ {h} : doc'[g] = doc[g],
           pc[h] = "deleteCommit" => <<doc[h], "halfDeleted">> \in incidents'
    PROVE  Stocked'
<1>1. /\ \A w \in Workers : pc'[w] = pc[w]
      /\ \A g \in Handlers \ {h} : pc'[g] = pc[g]
  BY SMT, IndexingAssumption DEF IInv, TypeOK, Procs
<1> QED  BY <1>1, StockAside

LEMMA StockWorker ==
    ASSUME IInv, Stocked, NEW w \in Workers, NEW s, pc' = [pc EXCEPT ![w] = s], s \notin BusyPC,
           UNCHANGED <<status, indexedAt, chunks, doc>>, incidents \subseteq incidents',
           \A v \in Workers \ {w} : /\ job'[v] = job[v] /\ goal'[v] = goal[v]
                                    /\ gen'[v] = gen[v] /\ found'[v] = found[v]
    PROVE  Stocked'
<1>1. /\ pc'[w] \notin BusyPC
      /\ \A v \in Workers \ {w} : pc'[v] = pc[v]
      /\ \A h \in Handlers : pc'[h] = pc[h]
  BY SMT, IndexingAssumption DEF IInv, TypeOK, Procs
<1> QED  BY <1>1, StockAside

LEMMA StockRequests ==
    ASSUME IInv, Stocked, NEW h \in Handlers,
           \/ UploadEnqueue(h) \/ UploadEnqueueFails(h) \/ UploadUndoFails(h)
           \/ UploadDropFails(h) \/ ReindexEnqueue(h)
           \/ \E d \in Docs :
                UploadPut(h, d) \/ UploadPutFails(h, d) \/ ReindexStart(h, d) \/ DeleteRow(h, d)
    PROVE  Stocked'
<1> USE DEF Finish, Goto, Note
<1>1. ASSUME UploadEnqueue(h) PROVE Stocked'
  <2>1. \A g \in Handlers \ {h} : doc'[g] = doc[g]
    BY <1>1 DEF IInv, TypeOK, UploadEnqueue
  <2> QED  BY <1>1, <2>1, StockRequest DEF UploadEnqueue
<1>2. ASSUME UploadEnqueueFails(h) PROVE Stocked'
  BY <1>2, StockRequest DEF UploadEnqueueFails
<1>3. ASSUME UploadUndoFails(h) PROVE Stocked'
  <2>1. \A g \in Handlers \ {h} : doc'[g] = doc[g]
    BY <1>3 DEF IInv, TypeOK, UploadUndoFails
  <2> QED  BY <1>3, <2>1, StockRequest DEF UploadUndoFails
<1>4. ASSUME ReindexEnqueue(h) PROVE Stocked'
  <2>1. \A g \in Handlers \ {h} : doc'[g] = doc[g]
    BY <1>4 DEF IInv, TypeOK, ReindexEnqueue
  <2> QED  BY <1>4, <2>1, StockRequest DEF ReindexEnqueue
<1>5. ASSUME NEW d \in Docs, UploadPut(h, d) PROVE Stocked'
  <2>1. \A g \in Handlers \ {h} : doc'[g] = doc[g]
    BY <1>5 DEF IInv, TypeOK, UploadPut
  <2> QED  BY <1>5, <2>1, StockRequest DEF UploadPut
<1>6. ASSUME NEW d \in Docs, UploadPutFails(h, d) PROVE Stocked'
  BY <1>6, StockAside DEF UploadPutFails
<1>7. ASSUME NEW d \in Docs, ReindexStart(h, d) PROVE Stocked'
  <2>1. \A g \in Handlers \ {h} : doc'[g] = doc[g]
    BY <1>7 DEF IInv, TypeOK, ReindexStart
  <2>2. incidents \subseteq incidents'
    BY <1>7 DEF ReindexStart
  <2> QED  BY <1>7, <2>1, <2>2, StockRequest DEF ReindexStart
<1>8. ASSUME NEW d \in Docs, DeleteRow(h, d) PROVE Stocked'
  <2>1. \A g \in Handlers \ {h} : doc'[g] = doc[g]
    BY <1>8 DEF IInv, TypeOK, DeleteRow
  <2> QED  BY <1>8, <2>1, StockRequest DEF DeleteRow
<1>9. ASSUME UploadDropFails(h) PROVE Stocked'
  <2>1. \A g \in Handlers \ {h} : doc'[g] = doc[g]
    BY <1>9 DEF IInv, TypeOK, UploadDropFails
  <2>2. incidents \subseteq incidents'
    BY <1>9 DEF UploadDropFails
  <2> QED  BY <1>9, <2>1, <2>2, StockRequest DEF UploadDropFails
<1> QED  BY <1>1, <1>2, <1>3, <1>4, <1>5, <1>6, <1>7, <1>8, <1>9

LEMMA StockWorkers ==
    ASSUME IInv, Stocked, NEW w \in Workers,
           \/ Pop(w) \/ ClaimSkipped(w) \/ ClaimFails(w) \/ Enqueue(w)
           \/ Restart(w) \/ RequeueSelect(w) \/ Requeue(w) \/ StartFails(w)
    PROVE  Stocked'
<1> USE DEF Goto, Note, BusyPC
<1>1. ASSUME Done(w)
      PROVE  /\ pc' = [pc EXCEPT ![w] = "idle"]
             /\ \A v \in Workers \ {w} : /\ job'[v] = job[v] /\ goal'[v] = goal[v]
                                         /\ gen'[v] = gen[v] /\ found'[v] = found[v]
  BY <1>1 DEF IInv, TypeOK, Done, Forget
<1>2. ASSUME Pop(w) PROVE Stocked'
  <2>1. \A v \in Workers \ {w} : job'[v] = job[v]
    BY <1>2 DEF IInv, TypeOK, Pop
  <2> QED  BY <1>2, <2>1, StockWorker DEF Pop
<1>3. ASSUME ClaimSkipped(w) \/ ClaimFails(w) \/ Enqueue(w) PROVE Stocked'
  <2>1. Done(w) /\ UNCHANGED <<status, indexedAt, chunks, doc>> /\ incidents \subseteq incidents'
    BY <1>3 DEF ClaimSkipped, ClaimFails, Enqueue, stores
  <2> QED  BY <1>1, <2>1, StockWorker
<1>4. ASSUME Restart(w) PROVE Stocked'
  BY <1>4, StockWorker DEF Restart
<1>5. ASSUME RequeueSelect(w) PROVE Stocked'
  <2>1. incidents \subseteq incidents'
    BY <1>5 DEF RequeueSelect
  <2> QED  BY <1>5, <2>1, StockWorker DEF RequeueSelect
<1>6. ASSUME Requeue(w) PROVE Stocked'
  <2>1. \E s \in {"idle", "requeue"} : pc' = [pc EXCEPT ![w] = s]
    BY <1>6 DEF Requeue
  <2> QED  BY <1>6, <2>1, StockWorker DEF Requeue
<1>7. ASSUME StartFails(w) PROVE Stocked'
  BY <1>7, StockWorker DEF StartFails
<1> QED  BY <1>2, <1>3, <1>4, <1>5, <1>6, <1>7

LEMMA StockCrash ==
    ASSUME IInv, Stocked, NEW w \in Workers, Crash(w)
    PROVE  Stocked'
<1>1. ASSUME NEW v \in Workers
      PROVE  \/ pc'[v] = "down"
             \/ /\ pc'[v] = pc[v] /\ job'[v] = job[v] /\ goal'[v] = goal[v]
                /\ gen'[v] = gen[v] /\ found'[v] = found[v]
  BY SMT, IndexingAssumption DEF IInv, TypeOK, Crash, Procs
<1>2. ASSUME NEW h \in Handlers, pc[h] = "deleteCommit"
      PROVE  \/ pc'[h] = pc[h] /\ doc'[h] = doc[h]
             \/ <<doc[h], "halfDeleted">> \in incidents'
  <2>1. CASE Home[h] = w
    BY <1>2, <2>1 DEF Crash
  <2>2. CASE Home[h] # w
    BY SMT, <1>2, <2>2, IndexingAssumption DEF Crash, Procs
  <2> QED  BY <2>1, <2>2
<1>3. incidents \subseteq incidents' /\ UNCHANGED <<status, indexedAt, chunks>>
  BY DEF Crash, stores
<1> QED  BY <1>1, <1>2, <1>3, StockAside DEF BusyPC

\* A request that changes the row or the chunks of one document.
LEMMA StockRow ==
    ASSUME IInv, Stocked, NEW h \in Handlers, NEW d \in Docs, NEW s, pc' = [pc EXCEPT ![h] = s],
           UNCHANGED <<indexedAt, job, gen, found, goal>>, incidents \subseteq incidents',
           \A g \in Handlers \ {h} : doc'[g] = doc[g],
           pc[h] = "deleteCommit" => \/ <<doc[h], "halfDeleted">> \in incidents'
                                     \/ status'[doc[h]] = "gone",
           \A e \in Docs \ {d} : status'[e] = status[e] /\ chunks'[e] = chunks[e],
           status[d] = "gone" => status'[d] = "gone",
           \/ Excused(d)'
           \/ /\ chunks'[d] = chunks[d]
              /\ status[d] \in {"indexing", "active"} => status'[d] \in {"indexing", "active"}
    PROVE  Stocked'
<1>1. /\ \A w \in Workers : pc'[w] = pc[w]
      /\ \A g \in Handlers \ {h} : pc'[g] = pc[g]
  BY SMT, IndexingAssumption DEF IInv, TypeOK, Procs
<1>2. ASSUME NEW e \in Docs PROVE Excused(e) => Excused(e)'
  <2>1. status[e] = "gone" => status'[e] = "gone"
    OBVIOUS
  <2> QED  BY <1>1, <2>1, ExcusedStays
<1>3. ASSUME NEW e \in Docs PROVE DocStocked(e)'
  <2>1. CASE e = d
    BY <1>2, <2>1, DocStockKept DEF Stocked
  <2>2. CASE e # d
    BY <1>2, <2>2, DocStockKept DEF Stocked
  <2> QED  BY <2>1, <2>2
<1>4. ASSUME NEW w \in Workers PROVE WorkerStocked(w)'
  <2>1. Busy(w) => \E e \in Docs : e = job[w].doc
    BY BusyHasRow
  <2>2. \A e \in Docs : Excused(e)' \/ chunks'[e] = chunks[e]
    OBVIOUS
  <2> QED  BY <1>1, <1>2, <2>1, <2>2, WorkerStockKept DEF Stocked
<1> QED  BY <1>3, <1>4 DEF Stocked

LEMMA StockRows ==
    ASSUME IInv, Stocked, NEW h \in Handlers,
           \/ UploadCommit(h) \/ UploadUndo(h)
           \/ DeleteChunks(h) \/ DeleteFails(h) \/ DeleteCommit(h)
    PROVE  Stocked'
<1>1. PICK d \in Docs : d = doc[h]
  BY DEF IInv, HandlerOK, UploadCommit, UploadUndo, DeleteChunks, DeleteFails, DeleteCommit, Goto
<1>2. ASSUME Finish(h) PROVE \A g \in Handlers \ {h} : doc'[g] = doc[g]
  BY <1>2 DEF IInv, TypeOK, Finish
<1>3. ASSUME UploadCommit(h) PROVE Stocked'
  <2>1. status[d] = "absent" /\ \A e \in Docs \ {d} : status'[e] = status[e]
    BY <1>1, <1>3 DEF IInv, TypeOK, HandlerOK, UploadCommit, Goto
  <2> QED  BY <1>1, <1>3, <2>1, StockRow DEF UploadCommit, Goto
<1>4. ASSUME UploadUndo(h) \/ DeleteCommit(h) PROVE Stocked'
  <2>1. /\ status'[d] = "gone" /\ \A e \in Docs \ {d} : status'[e] = status[e]
        /\ Finish(h) /\ incidents \subseteq incidents'
        /\ UNCHANGED <<indexedAt, job, gen, found, goal, chunks>>
    BY <1>1, <1>4 DEF IInv, TypeOK, UploadUndo, DeleteCommit, Note
  <2> QED  BY <1>1, <1>2, <2>1, StockRow DEF Finish, Excused
<1>5. ASSUME DeleteChunks(h) PROVE Stocked'
  <2>1. /\ \A e \in Docs \ {d} : chunks'[e] = chunks[e]
        /\ incidents \subseteq incidents'
    BY <1>1, <1>5 DEF IInv, TypeOK, DeleteChunks, Note
  <2>2. pc'[h] = "deleteCommit" /\ doc'[h] = d
    BY <1>1, <1>5 DEF IInv, TypeOK, DeleteChunks, Goto, Procs
  <2>3. Excused(d)'
    BY <2>2 DEF Excused
  <2> QED  BY <1>1, <1>5, <2>1, <2>3, StockRow DEF DeleteChunks, Goto
<1>6. ASSUME DeleteFails(h) PROVE Stocked'
  <2>1. /\ \A e \in Docs \ {d} : chunks'[e] = chunks[e]
        /\ incidents \subseteq incidents'
        /\ chunks'[d] = chunks[d] \/ <<d, "halfDeleted">> \in incidents'
        /\ pc[h] = "deleteCommit" => <<d, "halfDeleted">> \in incidents'
    BY <1>1, <1>6 DEF IInv, TypeOK, DeleteFails, Note
  <2>2. <<d, "halfDeleted">> \in incidents' => Excused(d)'
    BY DEF Excused
  <2> QED  BY <1>1, <1>2, <1>6, <2>1, <2>2, StockRow DEF DeleteFails, Finish
<1> QED  BY <1>3, <1>4, <1>5, <1>6

\* A worker that changes the document of its job: what is left to show of a step.
StockFrame(w, d) ==
    /\ Excused(d) => Excused(d)'
    /\ \A e \in Docs \ {d} : DocStocked(e)'
    /\ \A v \in Workers \ {w} : WorkerStocked(v)'

LEMMA StockJob ==
    ASSUME IInv, Stocked, NEW w \in Workers, NEW d \in Docs, d = job[w].doc,
           NEW s, pc' = [pc EXCEPT ![w] = s], doc' = doc, incidents \subseteq incidents',
           Busy(w) \/ UNCHANGED <<chunks, indexedAt>>,
           \A v \in Workers \ {w} : /\ job'[v] = job[v] /\ goal'[v] = goal[v]
                                    /\ gen'[v] = gen[v] /\ found'[v] = found[v],
           \A e \in Docs \ {d} : /\ status'[e] = status[e] /\ chunks'[e] = chunks[e]
                                 /\ e \in indexedAt' => e \in indexedAt,
           status[d] = "gone" => status'[d] = "gone"
    PROVE  StockFrame(w, d)
<1>1. /\ \A v \in Workers \ {w} : pc'[v] = pc[v]
      /\ \A h \in Handlers : pc'[h] = pc[h]
  BY SMT, IndexingAssumption DEF IInv, TypeOK, Procs
<1>2. ASSUME NEW e \in Docs PROVE Excused(e) => Excused(e)'
  <2>1. status[e] = "gone" => status'[e] = "gone"
    OBVIOUS
  <2> QED  BY <1>1, <2>1, ExcusedStays
<1>3. ASSUME NEW e \in Docs \ {d} PROVE DocStocked(e)'
  BY <1>2, DocStockKept DEF Stocked
<1>4. ASSUME NEW v \in Workers \ {w} PROVE WorkerStocked(v)'
  <2>1. ASSUME Busy(v)
        PROVE  \E e \in Docs :
                 /\ e = job[v].doc /\ (Excused(e) => Excused(e)')
                 /\ \/ Excused(e)'
                    \/ /\ e \in indexedAt' => e \in indexedAt
                       /\ chunks'[e] = chunks[e]
    <3>1. PICK e \in Docs : e = job[v].doc
      BY <2>1, BusyHasRow
    <3>2. CASE e = d /\ Busy(w)
      <4>1. Overtaken(d)
        BY <2>1, <3>1, <3>2 DEF IInv, OneIndexer, Busy, Happened, Overtaken
      <4> QED  BY <1>2, <3>1, <3>2, <4>1 DEF Excused
    <3>3. CASE e # d \/ ~Busy(w)
      BY <1>2, <3>1, <3>3
    <3> QED  BY <3>2, <3>3
  <2> QED  BY <1>1, <2>1, WorkerStockKept DEF Stocked
<1> QED  BY <1>2, <1>3, <1>4 DEF StockFrame

LEMMA StockClaim ==
    ASSUME IInv, Stocked, NEW w \in Workers, Claim(w)
    PROVE  Stocked'
<1>1. job[w] \in Job /\ pc[w] = "claim" /\ pc' = [pc EXCEPT ![w] = "load"] /\ pc'[w] = "load"
  BY DEF IInv, TypeOK, WorkerOK, Claim, Goto, Procs
<1>2. PICK d \in Docs : d = job[w].doc
  BY <1>1 DEF Job
<1>3. /\ status[d] \in {"pending", "failed"} \/ (status[d] = "active" /\ job[w].kind = "reindex")
      /\ status'[d] = "indexing" /\ \A e \in Docs \ {d} : status'[e] = status[e]
      /\ UNCHANGED <<chunks, indexedAt, job, goal, gen, found, doc, incidents>>
  BY <1>2 DEF IInv, TypeOK, Claim, Claimable
<1>4. StockFrame(w, d)
  BY <1>1, <1>2, <1>3, StockJob
<1>5. DocStocked(d)'
  BY <1>3, <1>4, DocStockKept DEF StockFrame, Stocked, DocStocked
<1>6. WorkerStocked(w)'
  <2>1. job[w].kind = "upload" => d \notin indexedAt \/ Excused(d)
    BY <1>3 DEF Stocked, DocStocked
  <2> QED  BY SMT, <1>1, <1>2, <1>3, <1>4, <2>1 DEF StockFrame, WorkerStocked
<1> QED  BY <1>4, <1>5, <1>6 DEF StockFrame, Stocked

\* A step of a run of index_document that leaves the row alone and, if there are any,
\* some chunks: what is left to show is what the worker then knows.
ChunkStep(w, d, s) ==
    /\ Busy(w) /\ d = job[w].doc /\ pc' = [pc EXCEPT ![w] = s]
    /\ UNCHANGED <<doc, job, status, indexedAt>> /\ incidents \subseteq incidents'
    /\ \A v \in Workers \ {w} : goal'[v] = goal[v] /\ gen'[v] = gen[v] /\ found'[v] = found[v]
    /\ \A e \in Docs \ {d} : chunks'[e] = chunks[e]
    /\ Excused(d) \/ chunks'[d] # {} \/ chunks[d] = {} \/ d \notin indexedAt
ChunkFrame(w, d, s) ==
    pc'[w] = s /\ (Excused(d) => Excused(d)') /\ (WorkerStocked(w)' => Stocked')

LEMMA StockChunks ==
    ASSUME IInv, Stocked, NEW w \in Workers, NEW d \in Docs, NEW s, ChunkStep(w, d, s)
    PROVE  ChunkFrame(w, d, s)
<1>1. pc'[w] = s
  BY DEF IInv, TypeOK, Procs, ChunkStep
<1>2. StockFrame(w, d)
  BY StockJob DEF ChunkStep
<1>3. DocStocked(d)'
  BY SMT, <1>2 DEF StockFrame, Stocked, DocStocked, ChunkStep
<1> QED  BY <1>1, <1>2, <1>3 DEF StockFrame, Stocked, ChunkFrame

LEMMA StockLoad ==
    ASSUME IInv, Stocked, NEW w \in Workers, Load(w)
    PROVE  Stocked'
<1>1. pc[w] = "load" /\ Busy(w)
  BY DEF Load, Goto, Busy, BusyPC
<1>2. PICK d \in Docs : d = job[w].doc
  BY <1>1, BusyHasRow
<1>3. PICK s \in {"read", "add"} : pc' = [pc EXCEPT ![w] = s] /\ (s = "read" => ChunksOf[d] = 0)
  BY <1>2 DEF Load, Goto
<1>4. /\ \A v \in Workers \ {w} : goal'[v] = goal[v]
      /\ goal'[w] = "active" /\ UNCHANGED <<doc, job, status, indexedAt, chunks, incidents, gen, found>>
  BY DEF IInv, TypeOK, Load
<1>5. ChunkStep(w, d, s)
  BY <1>1, <1>2, <1>3, <1>4 DEF ChunkStep
<1>6. ChunkFrame(w, d, s)
  BY <1>2, <1>5, StockChunks
<1>7. WorkerStocked(w)'
  BY SMT, <1>1, <1>2, <1>3, <1>4, <1>6 DEF Stocked, WorkerStocked, ChunkFrame
<1> QED  BY <1>6, <1>7 DEF ChunkFrame

LEMMA StockAdd ==
    ASSUME IInv, Stocked, NEW w \in Workers, NEW g \in Generations, Add(w, g)
    PROVE  Stocked'
<1>1. pc[w] = "add" /\ Busy(w) /\ pc' = [pc EXCEPT ![w] = "sweep"]
  BY DEF Add, Goto, Busy, BusyPC
<1>2. PICK d \in Docs : d = job[w].doc
  BY <1>1, BusyHasRow
<1>3. /\ chunks'[d] = chunks[d] \cup {g} /\ \A e \in Docs \ {d} : chunks'[e] = chunks[e]
      /\ gen'[w] = g /\ \A v \in Workers \ {w} : gen'[v] = gen[v]
      /\ UNCHANGED <<doc, job, status, indexedAt, incidents, goal, found>>
  BY <1>2 DEF IInv, TypeOK, Add
<1>4. ChunkStep(w, d, "sweep")
  BY <1>1, <1>2, <1>3 DEF ChunkStep
<1>5. ChunkFrame(w, d, "sweep")
  BY <1>2, <1>4, StockChunks
<1>6. WorkerStocked(w)'
  BY SMT, <1>1, <1>2, <1>3, <1>5 DEF Stocked, WorkerStocked, ChunkFrame
<1> QED  BY <1>5, <1>6 DEF ChunkFrame

\* The generation just written is not among those found.
LEMMA StockSweep ==
    ASSUME IInv, Stocked, NEW w \in Workers, Sweep(w)
    PROVE  Stocked'
<1>1. pc[w] = "sweep" /\ Busy(w) /\ pc' = [pc EXCEPT ![w] = "delete"]
  BY DEF Sweep, Goto, Busy, BusyPC
<1>2. PICK d \in Docs : d = job[w].doc
  BY <1>1, BusyHasRow
<1>3. /\ found'[w] = chunks[d] \ {gen[w]} /\ \A v \in Workers \ {w} : found'[v] = found[v]
      /\ UNCHANGED <<doc, job, status, indexedAt, incidents, chunks, goal, gen>>
  BY <1>2 DEF IInv, TypeOK, Sweep
<1>4. ChunkStep(w, d, "delete")
  BY <1>1, <1>2, <1>3 DEF ChunkStep
<1>5. ChunkFrame(w, d, "delete")
  BY <1>2, <1>4, StockChunks
<1>6. WorkerStocked(w)'
  BY SMT, <1>1, <1>2, <1>3, <1>5 DEF Stocked, WorkerStocked, ChunkFrame
<1> QED  BY <1>5, <1>6 DEF ChunkFrame

LEMMA StockSweepDelete ==
    ASSUME IInv, Stocked, NEW w \in Workers, SweepDelete(w)
    PROVE  Stocked'
<1>1. pc[w] = "delete" /\ Busy(w) /\ pc' = [pc EXCEPT ![w] = "read"] /\ goal[w] = "active"
  BY DEF SweepDelete, Goto, Busy, BusyPC, IInv, WorkerOK
<1>2. PICK d \in Docs : d = job[w].doc
  BY <1>1, BusyHasRow
<1>3. /\ chunks'[d] = chunks[d] \ found[w] /\ \A e \in Docs \ {d} : chunks'[e] = chunks[e]
      /\ \A v \in Workers \ {w} : gen'[v] = gen[v] /\ found'[v] = found[v]
      /\ UNCHANGED <<doc, job, status, indexedAt, incidents, goal>>
  BY <1>2 DEF IInv, TypeOK, SweepDelete, Forget
<1>4. Excused(d) \/ chunks'[d] # {}
  BY <1>1, <1>2, <1>3 DEF Stocked, WorkerStocked
<1>5. ChunkStep(w, d, "read")
  BY <1>1, <1>2, <1>3, <1>4 DEF ChunkStep
<1>6. ChunkFrame(w, d, "read")
  BY <1>2, <1>5, StockChunks
<1>7. WorkerStocked(w)'
  BY SMT, <1>1, <1>2, <1>3, <1>4, <1>6 DEF Stocked, WorkerStocked, ChunkFrame
<1> QED  BY <1>6, <1>7 DEF ChunkFrame

LEMMA StockFail ==
    ASSUME IInv, Stocked, NEW w \in Workers, NEW d \in Docs, d = job[w].doc, Busy(w), Fail(w),
           UNCHANGED <<doc, job, status, indexedAt, incidents>>,
           \A e \in Docs \ {d} : chunks'[e] = chunks[e],
           Excused(d) \/ chunks'[d] # {} \/ chunks[d] = {}
    PROVE  Stocked'
<1>1. PICK s \in {"dropChunks", "read"} :
        pc' = [pc EXCEPT ![w] = s] /\ (s = "dropChunks" => job[w].kind = "upload")
  BY DEF Fail
<1>2. /\ \A v \in Workers \ {w} : /\ goal'[v] = goal[v]
                                  /\ gen'[v] = gen[v] /\ found'[v] = found[v]
      /\ goal'[w] = "restored" \/ (goal'[w] # "active" /\ job[w].kind = "upload")
  <2>1. \A v \in Workers \ {w} : /\ goal'[v] = goal[v]
                                 /\ gen'[v] = gen[v] /\ found'[v] = found[v]
    BY DEF IInv, TypeOK, Fail, Forget
  <2>2. CASE job[w].kind = "upload"
    <3>1. CASE job[w].attempt < MaxAttempts
      <4>1. goal' = [goal EXCEPT ![w] = "pending"]
        BY <2>2, <3>1 DEF Fail
      <4> QED  BY <2>1, <2>2, <4>1 DEF IInv, TypeOK
    <3>2. CASE ~(job[w].attempt < MaxAttempts)
      <4>1. goal' = [goal EXCEPT ![w] = "failed"]
        BY <2>2, <3>2 DEF Fail
      <4> QED  BY <2>1, <2>2, <4>1 DEF IInv, TypeOK
    <3> QED  BY <3>1, <3>2
  <2>3. CASE job[w].kind # "upload"
    <3>1. goal' = [goal EXCEPT ![w] = "restored"]
      BY <2>3 DEF Fail
    <3> QED  BY <2>1, <3>1 DEF IInv, TypeOK
  <2> QED  BY <2>1, <2>2, <2>3
<1>3. ChunkStep(w, d, s)
  BY <1>1, <1>2 DEF ChunkStep
<1>4. ChunkFrame(w, d, s)
  BY <1>3, StockChunks
<1>5. job[w].kind = "upload" => d \notin indexedAt \/ Excused(d)
  BY DEF Stocked, WorkerStocked
<1>6. WorkerStocked(w)'
  BY SMT, <1>1, <1>2, <1>4, <1>5 DEF WorkerStocked, ChunkFrame
<1> QED  BY <1>4, <1>6 DEF ChunkFrame

LEMMA StockJobFails ==
    ASSUME IInv, Stocked, NEW w \in Workers, JobFails(w)
    PROVE  Stocked'
<1>1. pc[w] \in {"load", "add", "sweep", "delete"} /\ Busy(w)
  BY DEF JobFails, Busy, BusyPC
<1>2. PICK d \in Docs : d = job[w].doc
  BY <1>1, BusyHasRow
<1>3. /\ \A e \in Docs \ {d} : chunks'[e] = chunks[e]
      /\ chunks[d] \subseteq chunks'[d] \/ (pc[w] = "delete" /\ chunks'[d] = chunks[d] \ found[w])
  BY <1>2 DEF IInv, TypeOK, JobFails
<1>4. Excused(d) \/ chunks'[d] # {} \/ chunks[d] = {}
  <2>1. CASE chunks[d] \subseteq chunks'[d]
    BY <2>1
  <2>2. CASE pc[w] = "delete" /\ chunks'[d] = chunks[d] \ found[w]
    BY <1>1, <1>2, <2>2 DEF Stocked, WorkerStocked
  <2> QED  BY <1>3, <2>1, <2>2
<1> QED  BY <1>1, <1>2, <1>3, <1>4, StockFail DEF JobFails

LEMMA StockDrops ==
    ASSUME IInv, Stocked, NEW w \in Workers, DropChunks(w) \/ DropBytes(w)
    PROVE  Stocked'
<1>1. pc[w] \in {"dropChunks", "dropBytes"} /\ Busy(w)
  BY DEF DropChunks, DropBytes, Goto, Busy, BusyPC
<1>2. PICK d \in Docs : d = job[w].doc
  BY <1>1, BusyHasRow
<1>3. PICK s \in {"dropBytes", "read"} : pc' = [pc EXCEPT ![w] = s]
  BY DEF DropChunks, DropBytes, Goto
<1>4. /\ \A e \in Docs \ {d} : chunks'[e] = chunks[e]
      /\ incidents \subseteq incidents'
      /\ UNCHANGED <<doc, job, status, indexedAt, goal, gen, found>>
  BY <1>2 DEF IInv, TypeOK, DropChunks, DropBytes, Note
<1>5. job[w].kind = "upload" /\ goal[w] # "active" /\ (d \notin indexedAt \/ Excused(d))
  BY <1>1, <1>2 DEF Stocked, WorkerStocked
<1>6. ChunkStep(w, d, s)
  BY <1>1, <1>2, <1>3, <1>4, <1>5 DEF ChunkStep
<1>7. ChunkFrame(w, d, s)
  BY <1>2, <1>6, StockChunks
<1>8. WorkerStocked(w)'
  BY SMT, <1>2, <1>3, <1>4, <1>5, <1>7 DEF WorkerStocked, ChunkFrame
<1> QED  BY <1>7, <1>8 DEF ChunkFrame

LEMMA StockAfterWrite ==
    ASSUME NEW w \in Workers, IInv, AfterWrite(w)
    PROVE  /\ \E s \in {"idle", "enqueue"} : pc' = [pc EXCEPT ![w] = s]
           /\ pc'[w] \notin BusyPC
           /\ \A v \in Workers \ {w} : /\ job'[v] = job[v] /\ goal'[v] = goal[v]
                                       /\ gen'[v] = gen[v] /\ found'[v] = found[v]
<1>1. CASE Again(w)
  BY <1>1 DEF AfterWrite, IInv, TypeOK, Procs, BusyPC
<1>2. CASE ~Again(w)
  BY <1>2 DEF AfterWrite, Done, Forget, IInv, TypeOK, Procs, BusyPC
<1> QED  BY <1>1, <1>2

LEMMA StockRead ==
    ASSUME IInv, Stocked, NEW w \in Workers, Read(w)
    PROVE  Stocked'
<1>1. pc[w] = "read" /\ Busy(w)
  BY DEF Read, Busy, BusyPC
<1>2. PICK d \in Docs : d = job[w].doc
  BY <1>1, BusyHasRow
<1>3. CASE Exists(d)
  <2>1. pc' = [pc EXCEPT ![w] = "write"] /\ UNCHANGED <<doc, job, status, indexedAt, chunks, incidents, goal, gen, found>>
    BY <1>2, <1>3 DEF Read
  <2>2. ChunkStep(w, d, "write")
    BY <1>1, <1>2, <2>1 DEF ChunkStep
  <2>3. ChunkFrame(w, d, "write")
    BY <1>2, <2>2, StockChunks
  <2>4. WorkerStocked(w)'
    BY SMT, <1>1, <1>2, <2>1, <2>3 DEF Stocked, WorkerStocked, ChunkFrame
  <2> QED  BY <2>3, <2>4 DEF ChunkFrame
<1>4. CASE ~Exists(d)
  <2>1. AfterWrite(w)
    BY <1>2, <1>4 DEF Read
  <2> QED  BY <2>1, StockAfterWrite, StockWorker DEF Read, BusyPC
<1> QED  BY <1>3, <1>4

LEMMA StockWrite ==
    ASSUME IInv, Stocked, NEW w \in Workers, Write(w)
    PROVE  Stocked'
<1>1. pc[w] = "write" /\ Busy(w) /\ AfterWrite(w)
  BY DEF Write, Busy, BusyPC
<1>2. PICK d \in Docs : d = job[w].doc /\ Exists(d)
  BY <1>1, BusyHasRow DEF Write
<1>3. /\ status'[d] = IF goal[w] = "restored" THEN "active" ELSE goal[w]
      /\ \A e \in Docs \ {d} : status'[e] = status[e]
      /\ UNCHANGED <<doc, chunks, incidents>>
  BY <1>2 DEF IInv, TypeOK, Write
<1>4. /\ d \in indexedAt' <=> d \in indexedAt \/ goal[w] = "active"
      /\ \A e \in Docs \ {d} : e \in indexedAt' <=> e \in indexedAt
  BY <1>2 DEF Write
<1>5. StockFrame(w, d)
  BY <1>1, <1>2, <1>3, <1>4, StockAfterWrite, StockJob DEF Exists
<1>6. DocStocked(d)'
  <2>1. goal[w] \in {"pending", "active", "restored", "failed"}
    BY DEF IInv, TypeOK
  <2>2. CASE goal[w] = "active"
    BY <1>1, <1>2, <1>3, <1>5, <2>2 DEF Stocked, WorkerStocked, DocStocked, StockFrame
  <2>3. CASE goal[w] = "restored"
    BY <1>3, <1>4, <1>5, <2>3 DEF Stocked, DocStocked, StockFrame
  <2>4. CASE goal[w] \in {"pending", "failed"}
    BY <1>1, <1>2, <1>4, <1>5, <2>4 DEF Stocked, WorkerStocked, DocStocked, StockFrame
  <2> QED  BY <2>1, <2>2, <2>3, <2>4
<1>7. WorkerStocked(w)'
  BY <1>1, StockAfterWrite DEF WorkerStocked, Busy
<1> QED  BY <1>5, <1>6, <1>7 DEF StockFrame, Stocked

LEMMA StockWriteFails ==
    ASSUME IInv, Stocked, NEW w \in Workers, WriteFails(w)
    PROVE  Stocked'
<1>1. pc[w] = "write" /\ Busy(w)
  BY DEF WriteFails, Busy, BusyPC
<1>2. PICK d \in Docs : d = job[w].doc
  BY <1>1, BusyHasRow
<1>3. CASE goal[w] = "active"
  BY <1>1, <1>2, <1>3, StockFail DEF WriteFails
<1>4. CASE goal[w] # "active"
  <2>1. \A v \in Workers \ {w} : /\ job'[v] = job[v] /\ goal'[v] = goal[v]
                                 /\ gen'[v] = gen[v] /\ found'[v] = found[v]
    BY <1>4 DEF IInv, TypeOK, WriteFails, Done, Forget
  <2>2. pc' = [pc EXCEPT ![w] = "idle"] /\ incidents \subseteq incidents'
    BY <1>4 DEF WriteFails, Done, Note
  <2> QED  BY <2>1, <2>2, StockWorker DEF WriteFails, BusyPC
<1> QED  BY <1>3, <1>4

\* A restart resets an indexed document to active, or notes that it has moved.
LEMMA StockReset ==
    ASSUME IInv, Stocked, NEW w \in Workers, RequeueReset(w)
    PROVE  Stocked'
<1>1. pc[w] = "reset" /\ pc'[w] \in {"idle", "requeue"} /\ pc' = [pc EXCEPT ![w] = pc'[w]]
  BY DEF IInv, TypeOK, RequeueReset, Goto, Procs
<1>2. /\ \A v \in Workers \ {w} : pc'[v] = pc[v]
      /\ \A h \in Handlers : pc'[h] = pc[h]
      /\ UNCHANGED <<chunks, indexedAt, doc, job, goal, gen, found>>
  BY SMT, <1>1, IndexingAssumption DEF IInv, TypeOK, RequeueReset, Procs
<1>3. incidents \subseteq incidents'
  BY DEF RequeueReset
<1>4. ASSUME NEW d \in resets[w]
      PROVE  /\ Overtaken(d)' \/ <<d, KindOf(d)>> \in plan[w]
             /\ status[d] # "gone"
  <2> DEFINE moved == {e \in resets[w] : \/ status[e] # "indexing" \/ e \notin stale
                                        \/ HasWorker(e) \/ <<e, KindOf(e)>> \notin plan[w]}
  <2>1. incidents' = incidents \cup (moved \X {"overtaken"}) /\ status[d] # "gone"
    BY DEF RequeueReset, Exists
  <2>2. d \in moved \/ <<d, KindOf(d)>> \in plan[w]
    OBVIOUS
  <2> HIDE DEF moved
  <2> QED  BY <2>1, <2>2 DEF Overtaken
<1>5. ASSUME NEW d \in Docs PROVE Excused(d) => Excused(d)'
  <2>1. status[d] = "gone" => status'[d] = "gone"
    BY <1>4 DEF RequeueReset
  <2> QED  BY <1>2, <1>3, <2>1, ExcusedStays
<1>6. ASSUME NEW d \in Docs PROVE DocStocked(d)'
  <2>1. CASE d \in resets[w]
    <3>1. d \in indexedAt => KindOf(d) = "reindex"
      BY DEF KindOf, IsReindex
    <3>2. <<d, "reindex">> \in plan[w] => status'[d] = "active"
      BY <2>1 DEF RequeueReset
    <3>3. Overtaken(d)' => Excused(d)'
      BY DEF Excused
    <3> QED  BY <1>2, <1>4, <1>5, <2>1, <3>1, <3>2, <3>3 DEF Stocked, DocStocked
  <2>2. CASE d \notin resets[w]
    <3>1. status'[d] = status[d]
      BY <2>2 DEF RequeueReset
    <3> QED  BY <1>2, <1>5, <3>1, DocStockKept DEF Stocked
  <2> QED  BY <2>1, <2>2
<1>7. ASSUME NEW v \in Workers PROVE WorkerStocked(v)'
  <2>1. CASE v = w
    BY <1>1, <2>1 DEF WorkerStocked, Busy, BusyPC
  <2>2. CASE v # w
    BY <1>2, <1>5, <2>2, BusyHasRow, WorkerStockKept DEF Stocked
  <2> QED  BY <2>1, <2>2
<1> QED  BY <1>6, <1>7 DEF Stocked

LEMMA StockedInit == Init => Stocked
BY SMT DEF Init, Stocked, DocStocked, WorkerStocked, Busy, BusyPC, Procs

LEMMA StockedNext ==
    ASSUME IInv, Stocked, [Next]_vars
    PROVE  Stocked'
<1>1. CASE UNCHANGED vars
  BY <1>1, StockAside DEF vars
<1>2. ASSUME NEW h \in Handlers, HandlerStep(h) PROVE Stocked'
  BY <1>2, StockRequests, StockRows DEF HandlerStep
<1>3. ASSUME NEW h \in Handlers, NEW d \in Docs,
             UploadPut(h, d) \/ UploadPutFails(h, d) \/ ReindexStart(h, d) \/ DeleteRow(h, d)
      PROVE  Stocked'
  BY <1>3, StockRequests
<1>4. ASSUME NEW w \in Workers, WorkerStep(w) PROVE Stocked'
  BY <1>4, StockWorkers, StockClaim, StockLoad, StockAdd, StockSweep, StockSweepDelete,
     StockJobFails, StockDrops, StockRead, StockWrite, StockWriteFails
     DEF WorkerStep
<1>5. ASSUME NEW w \in Workers, StartStep(w) \/ Crash(w) PROVE Stocked'
  BY <1>5, StockWorkers, StockReset, StockCrash DEF StartStep
<1>6. ASSUME NEW d \in Docs, BecomeStale(d) PROVE Stocked'
  BY <1>6, StockAside DEF BecomeStale
<1> QED  BY <1>1, <1>2, <1>3, <1>4, <1>5, <1>6 DEF Next, Step

\* A document shown as active with chunks has some in the vector store: the new
\* generation goes in before the old ones go, through every failure in between.
THEOREM ActiveIsFound == Spec => []ActiveIsRetrievable
<1>1. IInv /\ Stocked => ActiveIsRetrievable
  <2> SUFFICES ASSUME IInv, Stocked, NEW d \in Docs, status[d] = "active", chunkCount[d] > 0
               PROVE  \/ chunks[d] # {} \/ RowLocked(d)
                      \/ Happened(d, {"overtaken", "halfDeleted"})
    BY DEF ActiveIsRetrievable
  <2>1. Overtaken(d) \/ (d \in indexedAt /\ ChunksOf[d] # 0)
    BY SMT DEF IInv, DocOK
  <2>2. Overtaken(d) => Happened(d, {"overtaken", "halfDeleted"})
    BY DEF Overtaken, Happened
  <2>3. Excused(d) => RowLocked(d) \/ Happened(d, {"overtaken", "halfDeleted"})
    BY DEF Excused, RowLocked, Deleting, Overtaken, Happened
  <2> QED  BY <2>1, <2>2, <2>3 DEF Stocked, DocStocked
<1>2. Init => Stocked
  BY StockedInit
<1>3. IInv /\ Stocked /\ [Next]_vars => Stocked'
  BY StockedNext
<1> QED  BY Inductive, <1>1, <1>2, <1>3, PTL DEF Spec

-----------------------------------------------------------------------------
(* Nobody is forgotten *)

\* Who will see to a pending document, and who to one that is being indexed.
Restarting == \E w \in Workers : pc[w] \in {"down", "select"}
Planned(d) == \E w \in Workers : \E k \in Kind : <<d, k>> \in plan[w]
Waits(d) == QueuedFor(d) \/ InHandFor(d) \/ Restarting \/ Planned(d) \/ Happened(d, {"jobLost"})
ToReset(d) == \E w \in Workers : pc[w] = "reset" /\ d \in resets[w]
Worked(d) == HasWorker(d) \/ Restarting \/ ToReset(d) \/ Happened(d, {"skipped", "unsettled"})
DocMinded(d) ==
    /\ status[d] = "pending" => Waits(d)
    /\ status[d] = "indexing" => Worked(d)

\* A worker that is to write pending has another attempt; what a starting process is
\* to reset, it is to push as well.
WorkerMinded(w) ==
    /\ pc[w] \in {"dropChunks", "dropBytes"} => goal[w] # "pending"
    /\ pc[w] \in {"read", "write"} /\ goal[w] = "pending" => job[w].attempt < MaxAttempts
    /\ pc[w] = "reset" => \A d \in resets[w] : \E k \in Kind : <<d, k>> \in plan[w]

Minded ==
    /\ \A d \in Docs : DocMinded(d)
    /\ \A w \in Workers : WorkerMinded(w)

LEMMA StillQueued ==
    ASSUME IInv, NEW d, QueuedFor(d), queue' = queue \/ \E j \in Job : queue' = Append(queue, j)
    PROVE  QueuedFor(d)'
<1>1. queue \in Seq(Job)
  BY DEF IInv, TypeOK
<1>2. Len(queue) \in Nat /\ 1..Len(queue) \subseteq 1..Len(queue')
      /\ \A i \in 1..Len(queue) : queue'[i] = queue[i]
  BY <1>1
<1> QED  BY <1>2 DEF QueuedFor

LEMMA NowQueued ==
    ASSUME IInv, NEW j \in Job, queue' = Append(queue, j)
    PROVE  QueuedFor(j.doc)'
<1>1. queue \in Seq(Job)
  BY DEF IInv, TypeOK
<1>2. Len(queue) + 1 \in 1..Len(queue') /\ queue'[Len(queue) + 1] = j
  BY <1>1
<1> QED  BY <1>2 DEF QueuedFor

LEMMA StillWaits ==
    ASSUME IInv, NEW d \in Docs, Waits(d), incidents \subseteq incidents',
           queue' = queue \/ \E j \in Job : queue' = Append(queue, j),
           \A w \in Workers : pc[w] \in {"down", "select"} => pc'[w] \in {"down", "select"},
           \A w \in Workers : plan[w] \subseteq plan'[w],
           \A w \in Workers : pc[w] \in {"claim", "enqueue"} /\ job[w].doc = d =>
               pc'[w] = pc[w] /\ job'[w] = job[w],
           \A h \in Handlers : pc[h] \in {"uploadEnqueue", "uploadUndo"} /\ doc[h] = d =>
               pc'[h] \in {"uploadEnqueue", "uploadUndo"} /\ doc'[h] = doc[h]
    PROVE  Waits(d)'
<1>1. QueuedFor(d) => QueuedFor(d)'
  BY StillQueued
<1>2. InHandFor(d) => InHandFor(d)'
  BY DEF InHandFor
<1>3. (Restarting => Restarting') /\ (Planned(d) => Planned(d)')
  BY DEF Restarting, Planned
<1>4. Happened(d, {"jobLost"}) => Happened(d, {"jobLost"})'
  BY DEF Happened
<1> QED  BY <1>1, <1>2, <1>3, <1>4 DEF Waits

LEMMA StillWorked ==
    ASSUME NEW d \in Docs, Worked(d), incidents \subseteq incidents',
           \A w \in Workers : pc[w] \in {"down", "select"} => pc'[w] \in {"down", "select"},
           \A w \in Workers : pc[w] = "reset" => pc'[w] = "reset" /\ resets'[w] = resets[w],
           \A w \in Workers : pc[w] \in BusyPC /\ job[w].doc = d =>
               pc'[w] \in BusyPC /\ job'[w] = job[w]
    PROVE  Worked(d)'
<1>1. (HasWorker(d) => HasWorker(d)') /\ (Restarting => Restarting') /\ (ToReset(d) => ToReset(d)')
  BY DEF HasWorker, Restarting, ToReset
<1>2. Happened(d, {"skipped", "unsettled"}) => Happened(d, {"skipped", "unsettled"})'
  BY DEF Happened
<1> QED  BY <1>1, <1>2 DEF Worked

LEMMA WorkerMindedKept ==
    ASSUME NEW w \in Workers, WorkerMinded(w),
           \/ pc'[w] \notin {"dropChunks", "dropBytes", "read", "write", "reset"}
           \/ /\ pc'[w] = pc[w] /\ job'[w] = job[w] /\ goal'[w] = goal[w]
              /\ plan'[w] = plan[w] /\ resets'[w] = resets[w]
    PROVE  WorkerMinded(w)'
BY DEF WorkerMinded

\* A request: what it had in hand is all there is to show.
LEMMA MindedRequest ==
    ASSUME IInv, Minded, NEW h \in Handlers, NEW s, pc' = [pc EXCEPT ![h] = s],
           UNCHANGED <<job, goal, plan, resets>>, incidents \subseteq incidents',
           queue' = queue \/ \E j \in Job : queue' = Append(queue, j),
           \A g \in Handlers \ {h} : doc'[g] = doc[g],
           \A d \in Docs : \/ pc[h] \in {"uploadEnqueue", "uploadUndo"} /\ doc[h] = d
                           \/ status'[d] = status[d]
                           \/ status'[d] \notin {"pending", "indexing"}
                           \/ DocMinded(d)',
           \A d \in Docs : pc[h] \in {"uploadEnqueue", "uploadUndo"} /\ doc[h] = d =>
               \/ status'[d] = status[d] /\ Waits(d)'
               \/ status'[d] \notin {"pending", "indexing"}
    PROVE  Minded'
<1>1. /\ \A w \in Workers : pc'[w] = pc[w]
      /\ \A g \in Handlers \ {h} : pc'[g] = pc[g]
  BY SMT, IndexingAssumption DEF IInv, TypeOK, Procs
<1>2. ASSUME NEW d \in Docs, status'[d] = status[d] PROVE DocMinded(d)'
  <2>1. Worked(d) => Worked(d)'
    BY <1>1, StillWorked
  <2>2. CASE pc[h] \in {"uploadEnqueue", "uploadUndo"} /\ doc[h] = d
    BY <1>2, <2>1, <2>2 DEF Minded, DocMinded
  <2>3. CASE ~(pc[h] \in {"uploadEnqueue", "uploadUndo"} /\ doc[h] = d)
    <3>1. Waits(d) => Waits(d)'
      BY <1>1, <2>3, StillWaits
    <3> QED  BY <1>2, <2>1, <3>1 DEF Minded, DocMinded
  <2> QED  BY <2>2, <2>3
<1>3. ASSUME NEW d \in Docs PROVE DocMinded(d)'
  BY <1>2 DEF DocMinded
<1>4. ASSUME NEW w \in Workers PROVE WorkerMinded(w)'
  BY <1>1, WorkerMindedKept DEF Minded
<1> QED  BY <1>3, <1>4 DEF Minded

LEMMA MindedRequests ==
    ASSUME IInv, Minded, NEW h \in Handlers,
           HandlerStep(h) \/ \E d \in Docs :
             UploadPut(h, d) \/ UploadPutFails(h, d) \/ ReindexStart(h, d) \/ DeleteRow(h, d)
    PROVE  Minded'
<1> USE DEF Goto, Note, Push
<1>1. pc[h] # "idle" => doc[h] \in Docs
  BY DEF IInv, HandlerOK
<1>2. ASSUME Finish(h)
      PROVE  pc' = [pc EXCEPT ![h] = "idle"] /\ \A g \in Handlers \ {h} : doc'[g] = doc[g]
  BY <1>2 DEF IInv, TypeOK, Finish
<1>3. ASSUME UploadCommit(h) PROVE Minded'
  <2>1. PICK d \in Docs : d = doc[h]
    BY <1>1, <1>3 DEF UploadCommit
  <2>2. \A e \in Docs \ {d} : status'[e] = status[e]
    BY <1>3, <2>1 DEF IInv, TypeOK, UploadCommit
  <2>3. pc'[h] = "uploadEnqueue" /\ doc'[h] = d
    BY <1>3, <2>1 DEF IInv, TypeOK, UploadCommit, Procs
  <2>4. DocMinded(d)'
    <3>1. status'[d] = "pending"
      BY <1>3, <2>1 DEF IInv, TypeOK, UploadCommit
    <3> QED  BY <2>3, <3>1 DEF DocMinded, Waits, InHandFor
  <2> QED  BY <1>3, <2>1, <2>2, <2>4, MindedRequest DEF UploadCommit
<1>4. ASSUME UploadEnqueue(h) PROVE Minded'
  <2>1. PICK d \in Docs : d = doc[h]
    BY <1>1, <1>4 DEF UploadEnqueue
  <2> DEFINE j == [doc |-> d, kind |-> "upload", attempt |-> 1]
  <2>2. j \in Job /\ queue' = Append(queue, j) /\ j.doc = d
    BY <1>4, <2>1, IndexingAssumption DEF UploadEnqueue, Job, Kind
  <2> HIDE DEF j
  <2>3. QueuedFor(d)'
    BY <2>2, NowQueued
  <2> QED  BY <1>2, <1>4, <2>1, <2>2, <2>3, MindedRequest DEF UploadEnqueue, Waits
<1>5. ASSUME UploadEnqueueFails(h) PROVE Minded'
  <2>1. PICK d \in Docs : d = doc[h]
    BY <1>1, <1>5 DEF UploadEnqueueFails
  <2> DEFINE j == [doc |-> d, kind |-> "upload", attempt |-> 1]
  <2>2. j \in Job /\ (queue' = queue \/ queue' = Append(queue, j))
    BY <1>5, <2>1, IndexingAssumption DEF UploadEnqueueFails, Job, Kind
  <2> HIDE DEF j
  <2>3. pc'[h] = "uploadUndo" /\ doc'[h] = d
    BY <1>5, <2>1 DEF IInv, TypeOK, UploadEnqueueFails, Procs
  <2>4. Waits(d)'
    BY <2>3 DEF Waits, InHandFor
  <2> QED  BY <1>5, <2>1, <2>2, <2>4, MindedRequest DEF UploadEnqueueFails
<1>6. ASSUME UploadUndo(h) \/ DeleteCommit(h) PROVE Minded'
  <2>1. PICK d \in Docs : d = doc[h]
    BY <1>1, <1>6 DEF UploadUndo, DeleteCommit
  <2>2. /\ status'[d] = "gone" /\ \A e \in Docs \ {d} : status'[e] = status[e]
        /\ Finish(h) /\ incidents \subseteq incidents'
        /\ UNCHANGED <<job, goal, plan, resets, queue>>
    BY <1>6, <2>1 DEF IInv, TypeOK, UploadUndo, DeleteCommit
  <2> QED  BY <1>2, <2>1, <2>2, MindedRequest
<1>7. ASSUME UploadUndoFails(h) PROVE Minded'
  <2>1. <<doc[h], "jobLost">> \in incidents'
    BY <1>7 DEF UploadUndoFails
  <2>2. \A d \in Docs : doc[h] = d => Waits(d)'
    BY <2>1 DEF Waits, Happened
  <2> QED  BY <1>2, <1>7, <2>2, MindedRequest DEF UploadUndoFails
<1>8. ASSUME ReindexEnqueue(h) PROVE Minded'
  <2>1. PICK d \in Docs : d = doc[h]
    BY <1>1, <1>8 DEF ReindexEnqueue
  <2> DEFINE j == [doc |-> d, kind |-> kind[h], attempt |-> 1]
  <2>2. j \in Job /\ (queue' = queue \/ queue' = Append(queue, j))
    BY <1>8, <2>1, IndexingAssumption DEF ReindexEnqueue, Job, Kind, IInv, TypeOK
  <2> HIDE DEF j
  <2> QED  BY <1>2, <1>8, <2>2, MindedRequest DEF ReindexEnqueue
<1>9. ASSUME DeleteChunks(h) PROVE Minded'
  <2>1. incidents \subseteq incidents'
    BY <1>9 DEF DeleteChunks
  <2> QED  BY <1>9, <2>1, MindedRequest DEF DeleteChunks
<1>10. ASSUME DeleteFails(h) PROVE Minded'
  <2>1. incidents \subseteq incidents' /\ pc[h] \in {"deleteChunks", "deleteCommit"}
    BY <1>10 DEF DeleteFails
  <2> QED  BY <1>2, <1>10, <2>1, MindedRequest DEF DeleteFails
<1>11. ASSUME NEW d \in Docs,
              UploadPut(h, d) \/ ReindexStart(h, d) \/ DeleteRow(h, d)
       PROVE  Minded'
  <2>1. \A g \in Handlers \ {h} : doc'[g] = doc[g]
    BY <1>11 DEF IInv, TypeOK, UploadPut, ReindexStart, DeleteRow
  <2>2. \E s : pc[h] = "idle" /\ pc' = [pc EXCEPT ![h] = s]
    BY <1>11 DEF UploadPut, ReindexStart, DeleteRow
  <2>3. /\ incidents \subseteq incidents'
        /\ UNCHANGED <<job, goal, plan, resets, status, queue>>
    BY <1>11 DEF UploadPut, ReindexStart, DeleteRow
  <2> QED  BY <2>1, <2>2, <2>3, MindedRequest
<1>12. ASSUME NEW d \in Docs, UploadPutFails(h, d) PROVE Minded'
  <2>1. pc' = [pc EXCEPT ![h] = pc[h]] /\ pc[h] = "idle"
    BY <1>12 DEF UploadPutFails, IInv, TypeOK
  <2> QED  BY <1>12, <2>1, MindedRequest DEF UploadPutFails
<1>13. ASSUME UploadDropFails(h) PROVE Minded'
  <2>1. PICK d \in Docs : d = doc[h]
    BY <1>1, <1>13 DEF UploadDropFails
  <2> DEFINE j == [doc |-> d, kind |-> "upload", attempt |-> 1]
  <2>2. j \in Job /\ j.doc = d
    BY <1>13, <2>1, IndexingAssumption DEF UploadDropFails, Job, Kind
  <2>3. \/ queue' = queue /\ <<d, "jobLost">> \in incidents'
        \/ queue' = Append(queue, j)
    BY <1>13, <2>1 DEF UploadDropFails
  <2>4. incidents \subseteq incidents'
    BY <1>13 DEF UploadDropFails
  <2> HIDE DEF j
  <2>5. Waits(d)'
    <3>1. CASE queue' = Append(queue, j)
      BY <2>2, <3>1, NowQueued DEF Waits
    <3>2. CASE <<d, "jobLost">> \in incidents'
      BY <3>2 DEF Waits, Happened
    <3> QED  BY <2>3, <3>1, <3>2
  <2>6. queue' = queue \/ \E i \in Job : queue' = Append(queue, i)
    BY <2>2, <2>3
  <2> QED  BY <1>2, <1>13, <2>1, <2>4, <2>5, <2>6, MindedRequest DEF UploadDropFails
<1> QED  BY <1>3, <1>4, <1>5, <1>6, <1>7, <1>8, <1>9, <1>10, <1>11, <1>12, <1>13
         DEF HandlerStep

\* A consumer: the document of its job is all there is to show.
LEMMA MindedJob ==
    ASSUME IInv, Minded, NEW w \in Workers, NEW s, pc' = [pc EXCEPT ![w] = s],
           pc[w] \notin {"down", "select", "reset"}, UNCHANGED <<doc, resets>>,
           incidents \subseteq incidents',
           queue' = queue \/ \E j \in Job : queue' = Append(queue, j),
           \A v \in Workers \ {w} : job'[v] = job[v] /\ goal'[v] = goal[v] /\ plan'[v] = plan[v],
           NEW D \in SUBSET Docs, \A d \in D : DocMinded(d)',
           \A d \in Docs \ D :
              /\ status'[d] = status[d] \/ status'[d] \notin {"pending", "indexing"}
              /\ \A k \in Kind : <<d, k>> \in plan[w] => <<d, k>> \in plan'[w]
              /\ pc[w] \in {"claim", "enqueue"} => job[w].doc # d
              /\ Busy(w) /\ job[w].doc = d => s \in BusyPC /\ job'[w] = job[w],
           WorkerMinded(w)'
    PROVE  Minded'
<1>1. /\ pc'[w] = s
      /\ \A v \in Workers \ {w} : pc'[v] = pc[v]
      /\ \A h \in Handlers : pc'[h] = pc[h]
  BY SMT, IndexingAssumption DEF IInv, TypeOK, Procs
<1>2. ASSUME NEW d \in Docs \ D, status'[d] = status[d] PROVE DocMinded(d)'
  <2>1. Worked(d) => Worked(d)'
    BY <1>1, StillWorked DEF Busy
  <2>2. Waits(d) => Waits(d)'
    <3>1. QueuedFor(d) => QueuedFor(d)'
      BY StillQueued
    <3>2. InHandFor(d) => InHandFor(d)'
      BY <1>1 DEF InHandFor
    <3>3. (Restarting => Restarting') /\ (Planned(d) => Planned(d)')
      BY <1>1 DEF Restarting, Planned
    <3>4. Happened(d, {"jobLost"}) => Happened(d, {"jobLost"})'
      BY DEF Happened
    <3> QED  BY <3>1, <3>2, <3>3, <3>4 DEF Waits
  <2> QED  BY <1>2, <2>1, <2>2 DEF Minded, DocMinded
<1>3. ASSUME NEW d \in Docs PROVE DocMinded(d)'
  <2>1. CASE d \in D
    BY <2>1
  <2>2. CASE d \notin D /\ status'[d] = status[d]
    BY <1>2, <2>2
  <2>3. CASE status'[d] \notin {"pending", "indexing"}
    BY <2>3 DEF DocMinded
  <2> QED  BY <2>1, <2>2, <2>3
<1>4. ASSUME NEW v \in Workers \ {w} PROVE WorkerMinded(v)'
  BY <1>1, WorkerMindedKept DEF Minded
<1> QED  BY <1>3, <1>4 DEF Minded

LEMMA MindedPop ==
    ASSUME IInv, Minded, NEW w \in Workers, Pop(w)
    PROVE  Minded'
<1>1. /\ pc'[w] = "claim" /\ pc[w] = "idle" /\ job'[w] = Head(queue)
      /\ \A v \in Workers \ {w} : pc'[v] = pc[v] /\ job'[v] = job[v]
      /\ \A h \in Handlers : pc'[h] = pc[h]
  BY SMT, IndexingAssumption DEF IInv, TypeOK, Procs, Pop, Goto
<1>2. /\ queue \in Seq(Job) /\ Len(queue) \in Nat /\ Len(queue') = Len(queue) - 1
      /\ Head(queue) = queue[1]
      /\ \A i \in 1..Len(queue) : i = 1 \/ (i - 1 \in 1..Len(queue') /\ queue'[i - 1] = queue[i])
  BY DEF IInv, TypeOK, Pop
<1>3. ASSUME NEW d \in Docs PROVE Waits(d) => Waits(d)'
  <2>1. QueuedFor(d) => QueuedFor(d)' \/ InHandFor(d)'
    BY <1>1, <1>2 DEF QueuedFor, InHandFor
  <2>2. InHandFor(d) => InHandFor(d)'
    BY <1>1 DEF InHandFor, Pop
  <2>3. (Restarting => Restarting') /\ (Planned(d) => Planned(d)')
    BY <1>1 DEF Restarting, Planned, Pop
  <2>4. Happened(d, {"jobLost"}) => Happened(d, {"jobLost"})'
    BY DEF Happened, Pop
  <2> QED  BY <2>1, <2>2, <2>3, <2>4 DEF Waits
<1>4. ASSUME NEW d \in Docs PROVE Worked(d) => Worked(d)'
  BY <1>1, StillWorked DEF Pop, BusyPC
<1>5. ASSUME NEW d \in Docs PROVE DocMinded(d)'
  BY <1>3, <1>4 DEF Minded, DocMinded, Pop
<1>6. ASSUME NEW v \in Workers PROVE WorkerMinded(v)'
  BY <1>1, WorkerMindedKept DEF Minded, Pop
<1> QED  BY <1>5, <1>6 DEF Minded

\* A step of a run of index_document: the worker stays with its document.
LEMMA MindedRun ==
    ASSUME IInv, Minded, NEW w \in Workers, NEW s \in BusyPC, Busy(w), pc' = [pc EXCEPT ![w] = s],
           UNCHANGED <<doc, plan, resets, job, status, queue>>, incidents \subseteq incidents',
           \A v \in Workers \ {w} : goal'[v] = goal[v],
           pc'[w] = s => WorkerMinded(w)'
    PROVE  Minded'
<1>1. pc'[w] = s
  BY DEF IInv, TypeOK, Procs
<1>2. pc[w] \notin {"down", "select", "reset", "claim", "enqueue"}
  BY DEF Busy, BusyPC
<1>3. /\ \A v \in Workers \ {w} : job'[v] = job[v] /\ goal'[v] = goal[v] /\ plan'[v] = plan[v]
      /\ \A d \in Docs \ {} :
           /\ status'[d] = status[d]
           /\ \A k \in Kind : <<d, k>> \in plan[w] => <<d, k>> \in plan'[w]
           /\ job'[w] = job[w]
  OBVIOUS
<1>4. \A d \in {} : DocMinded(d)'
  OBVIOUS
<1>5. {} \in SUBSET Docs /\ queue' = queue /\ UNCHANGED <<doc, resets>> /\ WorkerMinded(w)'
  BY <1>1
<1> QED  BY <1>2, <1>3, <1>4, <1>5, MindedJob

LEMMA MindedRuns ==
    ASSUME IInv, Minded, NEW w \in Workers,
           \/ Load(w) \/ Sweep(w) \/ SweepDelete(w) \/ \E g \in Generations : Add(w, g)
           \/ DropChunks(w) \/ DropBytes(w)
    PROVE  Minded'
<1> USE DEF Goto, Busy, BusyPC
<1>1. ASSUME Load(w) PROVE Minded'
  <2>1. /\ goal'[w] = "active" /\ \A v \in Workers \ {w} : goal'[v] = goal[v]
    BY <1>1 DEF IInv, TypeOK, Load
  <2>2. PICK s \in {"read", "add"} : pc' = [pc EXCEPT ![w] = s]
    BY <1>1 DEF Load
  <2>3. pc'[w] = s => WorkerMinded(w)'
    BY <2>1 DEF WorkerMinded
  <2> QED  BY <1>1, <2>1, <2>2, <2>3, MindedRun DEF Load
<1>2. ASSUME NEW g \in Generations, Add(w, g) PROVE Minded'
  BY <1>2, MindedRun DEF Add, WorkerMinded
<1>3. ASSUME Sweep(w) PROVE Minded'
  BY <1>3, MindedRun DEF Sweep, WorkerMinded
<1>4. ASSUME SweepDelete(w) PROVE Minded'
  <2>1. goal[w] = "active"
    BY <1>4 DEF IInv, WorkerOK, SweepDelete
  <2>2. pc'[w] = "read" => WorkerMinded(w)'
    BY <1>4, <2>1 DEF SweepDelete, WorkerMinded
  <2> QED  BY <1>4, <2>2, MindedRun DEF SweepDelete
<1>5. ASSUME DropChunks(w) \/ DropBytes(w) PROVE Minded'
  <2>1. PICK s \in {"dropBytes", "read"} : pc' = [pc EXCEPT ![w] = s]
    BY <1>5 DEF DropChunks, DropBytes
  <2>2. /\ pc[w] \in {"dropChunks", "dropBytes"}
        /\ UNCHANGED <<doc, plan, resets, job, status, queue, goal>> /\ incidents \subseteq incidents'
    BY <1>5 DEF DropChunks, DropBytes, Note
  <2>3. pc'[w] = s => WorkerMinded(w)'
    BY <2>1, <2>2 DEF Minded, WorkerMinded
  <2> QED  BY <2>1, <2>2, <2>3, MindedRun
<1> QED  BY <1>1, <1>2, <1>3, <1>4, <1>5

LEMMA MindedFail ==
    ASSUME IInv, Minded, NEW w \in Workers, Busy(w), Fail(w),
           UNCHANGED <<doc, plan, resets, job, status, queue, incidents>>
    PROVE  Minded'
<1>1. PICK s \in {"dropChunks", "read"} :
        /\ pc' = [pc EXCEPT ![w] = s]
        /\ s = "dropChunks" => job[w].kind = "upload" /\ ~(job[w].attempt < MaxAttempts)
  BY DEF Fail
<1>2. \A v \in Workers \ {w} : goal'[v] = goal[v]
  BY DEF IInv, TypeOK, Fail
<1>3. goal'[w] = "pending" => job[w].attempt < MaxAttempts
  <2>1. CASE job[w].kind # "upload"
    <3>1. goal' = [goal EXCEPT ![w] = "restored"]
      BY <2>1 DEF Fail
    <3> QED  BY <3>1 DEF IInv, TypeOK
  <2>2. CASE job[w].kind = "upload" /\ ~(job[w].attempt < MaxAttempts)
    <3>1. goal' = [goal EXCEPT ![w] = "failed"]
      BY <2>2 DEF Fail
    <3> QED  BY <3>1 DEF IInv, TypeOK
  <2> QED  BY <2>1, <2>2
<1>4. pc'[w] = s => WorkerMinded(w)'
  BY <1>1, <1>3 DEF WorkerMinded
<1> QED  BY <1>1, <1>2, <1>4, MindedRun DEF BusyPC

LEMMA MindedFails ==
    ASSUME IInv, Minded, NEW w \in Workers, JobFails(w)
    PROVE  Minded'
<1>1. Busy(w)
  BY DEF JobFails, Busy, BusyPC
<1> QED  BY <1>1, MindedFail DEF JobFails

\* The end of a run: the row is settled, or pending with another attempt in hand.
LEMMA MindedOver ==
    ASSUME IInv, Minded, NEW w \in Workers, NEW d \in Docs, d = job[w].doc,
           NEW s \in {"idle", "enqueue"}, pc' = [pc EXCEPT ![w] = s],
           pc[w] \notin {"down", "select", "reset"}, UNCHANGED <<doc, plan, resets>>,
           incidents \subseteq incidents',
           queue' = queue \/ \E j \in Job : queue' = Append(queue, j),
           \A v \in Workers \ {w} : job'[v] = job[v] /\ goal'[v] = goal[v],
           \A e \in Docs \ {d} : status'[e] = status[e],
           DocMinded(d)'
    PROVE  Minded'
<1>1. WorkerMinded(w)'
  BY DEF WorkerMinded, IInv, TypeOK, Procs
<1> DEFINE D == {d}
<1>2. \A e \in D : DocMinded(e)'
  OBVIOUS
<1>3. \A e \in Docs \ D :
        /\ status'[e] = status[e] \/ status'[e] \notin {"pending", "indexing"}
        /\ \A k \in Kind : <<e, k>> \in plan[w] => <<e, k>> \in plan'[w]
        /\ pc[w] \in {"claim", "enqueue"} => job[w].doc # e
        /\ Busy(w) /\ job[w].doc = e => s \in BusyPC /\ job'[w] = job[w]
  OBVIOUS
<1>4. D \in SUBSET Docs /\ UNCHANGED <<doc, resets>>
      /\ \A v \in Workers \ {w} : job'[v] = job[v] /\ goal'[v] = goal[v] /\ plan'[v] = plan[v]
  OBVIOUS
<1> HIDE DEF D
<1> QED  BY <1>1, <1>2, <1>3, <1>4, MindedJob

\* What Done does, for the worker whose job is over.
LEMMA MindedDone ==
    ASSUME IInv, NEW w \in Workers, Done(w)
    PROVE  /\ pc' = [pc EXCEPT ![w] = "idle"]
           /\ \A v \in Workers \ {w} : job'[v] = job[v] /\ goal'[v] = goal[v]
BY DEF IInv, TypeOK, Done

\* Pending is a status the claim of every job takes.
LEMMA MindedClaims ==
    ASSUME IInv, Minded, NEW w \in Workers, Claim(w) \/ ClaimSkipped(w) \/ ClaimFails(w)
    PROVE  Minded'
<1>1. job[w] \in Job /\ pc[w] = "claim"
  BY DEF IInv, WorkerOK, Claim, ClaimSkipped, ClaimFails, Goto
<1>2. PICK d \in Docs : d = job[w].doc
  BY <1>1 DEF Job
<1>3. CASE Claim(w)
  <2>1. /\ pc' = [pc EXCEPT ![w] = "load"] /\ pc'[w] = "load"
        /\ status'[d] = "indexing" /\ \A e \in Docs \ {d} : status'[e] = status[e]
        /\ UNCHANGED <<job, goal, plan, resets, doc, queue, incidents>>
    BY <1>2, <1>3 DEF IInv, TypeOK, Claim, Goto, Procs
  <2>2. Worked(d)'
    BY <1>2, <2>1 DEF Worked, HasWorker, BusyPC
  <2>3. DocMinded(d)'
    BY <2>1, <2>2 DEF DocMinded
  <2>4. WorkerMinded(w)'
    BY <2>1 DEF WorkerMinded
  <2> DEFINE D == {d}
  <2>5. D \in SUBSET Docs /\ \A e \in D : DocMinded(e)'
    BY <2>3
  <2>6. \A e \in Docs \ D :
          /\ status'[e] = status[e]
          /\ \A k \in Kind : <<e, k>> \in plan[w] => <<e, k>> \in plan'[w]
          /\ job[w].doc # e
    BY <1>2, <2>1
  <2> HIDE DEF D
  <2> QED  BY <1>1, <2>1, <2>4, <2>5, <2>6, MindedJob
<1>4. CASE ClaimSkipped(w)
  <2>1. status[d] # "pending"
    BY <1>2, <1>4 DEF ClaimSkipped, Claimable
  <2>2. /\ pc' = [pc EXCEPT ![w] = "idle"]
        /\ \A v \in Workers \ {w} : job'[v] = job[v] /\ goal'[v] = goal[v]
    BY <1>4, MindedDone DEF ClaimSkipped
  <2>3. \A v \in Workers \ {w} : pc'[v] = pc[v]
    BY <2>2
  <2>4. Worked(d) => Worked(d)'
    BY <1>1, <1>4, <2>2, <2>3, StillWorked DEF ClaimSkipped, BusyPC
  <2>5. DocMinded(d)'
    BY <1>4, <2>1, <2>4 DEF Minded, DocMinded, ClaimSkipped
  <2> QED  BY <1>1, <1>2, <1>4, <2>2, <2>5, MindedOver DEF ClaimSkipped
<1>5. CASE ClaimFails(w)
  <2>1. /\ pc' = [pc EXCEPT ![w] = "idle"]
        /\ \A v \in Workers \ {w} : job'[v] = job[v] /\ goal'[v] = goal[v]
    BY <1>5, MindedDone DEF ClaimFails
  <2>2. incidents \subseteq incidents' /\ <<d, "jobLost">> \in incidents'
    BY <1>2, <1>5 DEF ClaimFails, Note
  <2>3. \A v \in Workers \ {w} : pc'[v] = pc[v]
    BY <2>1
  <2>4. Worked(d) => Worked(d)'
    BY <1>1, <1>5, <2>1, <2>2, <2>3, StillWorked DEF ClaimFails, BusyPC
  <2>5. DocMinded(d)'
    BY <1>5, <2>2, <2>4 DEF Minded, DocMinded, ClaimFails, Waits, Happened
  <2> QED  BY <1>1, <1>2, <1>5, <2>1, <2>2, <2>5, MindedOver DEF ClaimFails
<1> QED  BY <1>3, <1>4, <1>5

LEMMA MindedAfter ==
    ASSUME IInv, NEW w \in Workers, AfterWrite(w)
    PROVE  /\ \E s \in {"idle", "enqueue"} : pc' = [pc EXCEPT ![w] = s]
           /\ \A v \in Workers \ {w} : job'[v] = job[v] /\ goal'[v] = goal[v]
           /\ Again(w) => pc'[w] = "enqueue" /\ job'[w] = job[w]
<1>1. CASE Again(w)
  BY <1>1 DEF AfterWrite, IInv, TypeOK, Procs
<1>2. CASE ~Again(w)
  BY <1>2, MindedDone DEF AfterWrite, Done
<1> QED  BY <1>1, <1>2

LEMMA MindedRead ==
    ASSUME IInv, Minded, NEW w \in Workers, Read(w)
    PROVE  Minded'
<1>1. pc[w] = "read" /\ Busy(w)
  BY DEF Read, Busy, BusyPC
<1>2. PICK d \in Docs : d = job[w].doc /\ status[d] # "absent"
  BY <1>1, BusyHasRow
<1>3. CASE Exists(d)
  <2>1. /\ pc' = [pc EXCEPT ![w] = "write"]
        /\ UNCHANGED <<doc, plan, resets, job, goal, status, queue, incidents>>
    BY <1>2, <1>3 DEF Read
  <2>2. pc'[w] = "write" => WorkerMinded(w)'
    BY <1>1, <2>1 DEF Minded, WorkerMinded
  <2> QED  BY <1>1, <2>1, <2>2, MindedRun DEF BusyPC
<1>4. CASE ~Exists(d)
  <2>1. AfterWrite(w) /\ status[d] = "gone" /\ status' = status
    BY <1>2, <1>4 DEF Read, Exists
  <2>2. DocMinded(d)'
    BY <2>1 DEF DocMinded
  <2> QED  BY <1>1, <1>2, <2>1, <2>2, MindedAfter, MindedOver DEF Read
<1> QED  BY <1>3, <1>4

LEMMA MindedWrite ==
    ASSUME IInv, Minded, NEW w \in Workers, Write(w)
    PROVE  Minded'
<1>1. pc[w] = "write" /\ Busy(w) /\ AfterWrite(w)
  BY DEF Write, Busy, BusyPC
<1>2. PICK d \in Docs : d = job[w].doc
  BY <1>1, BusyHasRow
<1>3. /\ status'[d] = IF goal[w] = "restored" THEN "active" ELSE goal[w]
      /\ \A e \in Docs \ {d} : status'[e] = status[e]
      /\ UNCHANGED <<doc, plan, resets, queue, incidents>>
  BY <1>2 DEF IInv, TypeOK, Write
<1>4. goal[w] \in {"pending", "active", "restored", "failed"}
  BY DEF IInv, TypeOK
<1>5. DocMinded(d)'
  <2>1. CASE goal[w] = "pending"
    <3>1. Again(w)
      BY <1>1, <2>1 DEF Again, Minded, WorkerMinded
    <3>2. pc'[w] = "enqueue" /\ job'[w] = job[w]
      BY <1>1, <3>1, MindedAfter
    <3>3. Waits(d)'
      BY <1>2, <3>2 DEF Waits, InHandFor
    <3> QED  BY <1>3, <2>1, <3>3 DEF DocMinded
  <2>2. CASE goal[w] # "pending"
    BY <1>3, <1>4, <2>2 DEF DocMinded
  <2> QED  BY <2>1, <2>2
<1> QED  BY <1>1, <1>2, <1>3, <1>5, MindedAfter, MindedOver

LEMMA MindedWriteFails ==
    ASSUME IInv, Minded, NEW w \in Workers, WriteFails(w)
    PROVE  Minded'
<1>1. pc[w] = "write" /\ Busy(w)
  BY DEF WriteFails, Busy, BusyPC
<1>2. PICK d \in Docs : d = job[w].doc
  BY <1>1, BusyHasRow
<1>3. CASE goal[w] = "active"
  BY <1>1, <1>3, MindedFail DEF WriteFails
<1>4. CASE goal[w] # "active"
  <2>1. /\ pc' = [pc EXCEPT ![w] = "idle"]
        /\ \A v \in Workers \ {w} : job'[v] = job[v] /\ goal'[v] = goal[v]
    BY <1>4, MindedDone DEF WriteFails
  <2>2. incidents \subseteq incidents' /\ <<d, "unsettled">> \in incidents'
    BY <1>2, <1>4 DEF WriteFails, Note
  <2>3. /\ \A v \in Workers \ {w} : pc'[v] = pc[v]
        /\ \A h \in Handlers : pc'[h] = pc[h]
    BY SMT, <2>1, IndexingAssumption DEF IInv, TypeOK, Procs
  <2>4. Waits(d) => Waits(d)'
    BY <1>1, <2>1, <2>2, <2>3, StillWaits DEF WriteFails
  <2>5. Worked(d)'
    BY <2>2 DEF Worked, Happened
  <2>6. DocMinded(d)'
    BY <2>4, <2>5 DEF Minded, DocMinded, WriteFails
  <2> QED  BY <1>1, <1>2, <2>1, <2>2, <2>6, MindedOver DEF WriteFails
<1> QED  BY <1>3, <1>4

LEMMA MindedEnqueue ==
    ASSUME IInv, Minded, NEW w \in Workers, Enqueue(w)
    PROVE  Minded'
<1> DEFINE j == [job[w] EXCEPT !.attempt = @ + 1]
<1>1. job[w] \in Job /\ job[w].attempt < MaxAttempts /\ pc[w] = "enqueue"
  BY DEF IInv, WorkerOK, Enqueue
<1>2. PICK d \in Docs : d = job[w].doc
  BY <1>1 DEF Job
<1>3. j \in Job /\ j.doc = d
  BY SMT, <1>1, <1>2, IndexingAssumption DEF Job
<1>4. \/ queue' = Append(queue, j) /\ incidents' = incidents
      \/ queue' = queue /\ incidents' = incidents \cup {<<d, "jobLost">>}
  BY <1>2 DEF Enqueue, Push, Note
<1> HIDE DEF j
<1>5. /\ pc' = [pc EXCEPT ![w] = "idle"]
      /\ \A v \in Workers \ {w} : job'[v] = job[v] /\ goal'[v] = goal[v]
  BY MindedDone DEF Enqueue
<1>6. Waits(d)'
  <2>1. CASE queue' = Append(queue, j)
    BY <1>3, <2>1, NowQueued DEF Waits
  <2>2. CASE incidents' = incidents \cup {<<d, "jobLost">>}
    BY <2>2 DEF Waits, Happened
  <2> QED  BY <1>4, <2>1, <2>2
<1>7. incidents \subseteq incidents' /\ \A v \in Workers \ {w} : pc'[v] = pc[v]
  BY <1>4, <1>5
<1>8. Worked(d) => Worked(d)'
  BY <1>1, <1>5, <1>7, StillWorked DEF Enqueue, BusyPC
<1>9. DocMinded(d)'
  BY <1>6, <1>8 DEF Minded, DocMinded, Enqueue
<1> QED  BY <1>1, <1>2, <1>3, <1>4, <1>5, <1>7, <1>9, MindedOver DEF Enqueue

\* A starting process that has yet to select will find whatever there is.
LEMMA MindedRestarting ==
    ASSUME Minded, NEW w \in Workers, pc'[w] \in {"down", "select"},
           \A v \in Workers \ {w} : /\ pc'[v] = pc[v] /\ job'[v] = job[v] /\ goal'[v] = goal[v]
                                    /\ plan'[v] = plan[v] /\ resets'[v] = resets[v]
    PROVE  Minded'
<1>1. Restarting'
  BY DEF Restarting
<1>2. ASSUME NEW d \in Docs PROVE DocMinded(d)'
  BY <1>1 DEF DocMinded, Waits, Worked
<1>3. ASSUME NEW v \in Workers PROVE WorkerMinded(v)'
  <2>1. CASE v = w
    BY <2>1 DEF WorkerMinded
  <2>2. CASE v # w
    BY <2>2, WorkerMindedKept DEF Minded
  <2> QED  BY <2>1, <2>2
<1> QED  BY <1>2, <1>3 DEF Minded

LEMMA MindedDown ==
    ASSUME IInv, Minded, NEW w \in Workers, Restart(w) \/ StartFails(w) \/ Crash(w)
    PROVE  Minded'
<1>1. CASE Restart(w)
  BY <1>1, MindedRestarting DEF IInv, TypeOK, Restart, Goto, Procs
<1>2. CASE StartFails(w)
  BY <1>2, MindedRestarting DEF IInv, TypeOK, StartFails, Procs
<1>3. CASE Crash(w)
  <2>1. /\ pc'[w] = "down"
        /\ \A v \in Workers \ {w} : /\ pc'[v] = pc[v] /\ job'[v] = job[v] /\ goal'[v] = goal[v]
                                    /\ plan'[v] = plan[v] /\ resets'[v] = resets[v]
    BY SMT, <1>3, IndexingAssumption DEF IInv, TypeOK, Crash, Procs
  <2> QED  BY <2>1, MindedRestarting
<1> QED  BY <1>1, <1>2, <1>3

\* What the select leaves out is in somebody's hands, or on record as skipped.
LEMMA MindedSelect ==
    ASSUME IInv, Minded, NEW w \in Workers, RequeueSelect(w)
    PROVE  Minded'
<1>1. /\ pc[w] = "select" /\ pc'[w] = "reset"
      /\ \A v \in Workers \ {w} : pc'[v] = pc[v] /\ plan'[v] = plan[v] /\ resets'[v] = resets[v]
      /\ UNCHANGED <<job, goal, status>>
  BY DEF IInv, TypeOK, RequeueSelect, Goto, Procs
<1>2. resets'[w] = {d \in Docs : status[d] = "indexing" /\ d \in stale}
  BY DEF IInv, TypeOK, RequeueSelect
<1>3. ASSUME NEW d \in Docs, status[d] = "pending" \/ d \in resets'[w]
      PROVE  KindOf(d) \in Kind /\ <<d, KindOf(d)>> \in plan'[w]
  BY <1>2, <1>3 DEF IInv, TypeOK, RequeueSelect, KindOf, Kind
<1>4. ASSUME NEW d \in Docs, status[d] = "indexing", d \notin stale
      PROVE  HasWorker(d) \/ <<d, "skipped">> \in incidents'
  BY <1>4 DEF RequeueSelect
<1>5. ASSUME NEW d \in Docs PROVE DocMinded(d)'
  <2>1. status[d] = "pending" => Planned(d)'
    BY <1>3 DEF Planned
  <2>2. status[d] = "indexing" /\ d \in stale => ToReset(d)'
    BY <1>1, <1>2 DEF ToReset
  <2>3. HasWorker(d) => HasWorker(d)'
    BY <1>1 DEF HasWorker, BusyPC
  <2>4. <<d, "skipped">> \in incidents' => Happened(d, {"skipped", "unsettled"})'
    BY DEF Happened
  <2> QED  BY <1>1, <1>4, <2>1, <2>2, <2>3, <2>4 DEF DocMinded, Waits, Worked
<1>6. ASSUME NEW v \in Workers PROVE WorkerMinded(v)'
  <2>1. CASE v = w
    <3>1. \A d \in resets'[w] : d \in Docs
      BY <1>2
    <3> QED  BY <1>1, <1>3, <2>1, <3>1 DEF WorkerMinded
  <2>2. CASE v # w
    BY <1>1, <2>2, WorkerMindedKept DEF Minded
  <2> QED  BY <2>1, <2>2
<1> QED  BY <1>5, <1>6 DEF Minded

LEMMA MindedReset ==
    ASSUME IInv, Minded, NEW w \in Workers, RequeueReset(w)
    PROVE  Minded'
<1>1. pc[w] = "reset" /\ pc'[w] \in {"idle", "requeue"} /\ pc' = [pc EXCEPT ![w] = pc'[w]]
  BY DEF IInv, TypeOK, RequeueReset, Goto, Procs
<1>2. /\ \A v \in Workers \ {w} : pc'[v] = pc[v] /\ resets'[v] = resets[v]
      /\ \A h \in Handlers : pc'[h] = pc[h]
      /\ UNCHANGED <<job, goal, plan, queue, doc>> /\ incidents \subseteq incidents'
  BY SMT, <1>1, IndexingAssumption DEF IInv, TypeOK, RequeueReset, Procs
<1>3. ASSUME NEW d \in Docs PROVE DocMinded(d)'
  <2>1. CASE d \in resets[w]
    <3>1. Planned(d)
      BY <1>1, <2>1 DEF Minded, WorkerMinded, Planned
    <3>2. Planned(d)'
      BY <1>2, <3>1 DEF Planned
    <3>3. status'[d] # "indexing"
      BY <2>1 DEF RequeueReset
    <3> QED  BY <3>2, <3>3 DEF DocMinded, Waits
  <2>2. CASE d \notin resets[w]
    <3>1. status'[d] = status[d]
      BY <2>2 DEF RequeueReset
    <3>2. Waits(d) => Waits(d)'
      BY <1>1, <1>2, StillWaits
    <3>3. Worked(d) => Worked(d)'
      <4>1. HasWorker(d) => HasWorker(d)'
        BY <1>1, <1>2 DEF HasWorker, BusyPC
      <4>2. Restarting => Restarting'
        BY <1>1, <1>2 DEF Restarting
      <4>3. ToReset(d) => ToReset(d)'
        BY <1>2, <2>2 DEF ToReset
      <4>4. Happened(d, {"skipped", "unsettled"}) => Happened(d, {"skipped", "unsettled"})'
        BY <1>2 DEF Happened
      <4> QED  BY <4>1, <4>2, <4>3, <4>4 DEF Worked
    <3> QED  BY <3>1, <3>2, <3>3 DEF Minded, DocMinded
  <2> QED  BY <2>1, <2>2
<1>4. ASSUME NEW v \in Workers PROVE WorkerMinded(v)'
  <2>1. CASE v = w
    BY <1>1, <2>1 DEF WorkerMinded
  <2>2. CASE v # w
    BY <1>2, <2>2, WorkerMindedKept DEF Minded
  <2> QED  BY <2>1, <2>2
<1> QED  BY <1>3, <1>4 DEF Minded

LEMMA MindedRequeue ==
    ASSUME IInv, Minded, NEW w \in Workers, Requeue(w)
    PROVE  Minded'
<1>1. PICK x \in plan[w] :
        /\ Push([doc |-> x[1], kind |-> x[2], attempt |-> 1])
        /\ plan' = [plan EXCEPT ![w] = @ \ {x}]
        /\ pc' = [pc EXCEPT ![w] = IF plan[w] = {x} THEN "idle" ELSE "requeue"]
  BY DEF Requeue
<1> DEFINE j == [doc |-> x[1], kind |-> x[2], attempt |-> 1]
<1>2. pc[w] = "requeue" /\ pc'[w] \in {"idle", "requeue"} /\ pc' = [pc EXCEPT ![w] = pc'[w]]
  BY <1>1 DEF IInv, TypeOK, Requeue, Procs
<1>3. PICK d \in Docs, k \in Kind : x = <<d, k>>
  BY DEF IInv, TypeOK
<1>4. j \in Job /\ j.doc = d /\ queue' = Append(queue, j)
  BY SMT, <1>1, <1>3, IndexingAssumption DEF Push, Job
<1> HIDE DEF j
<1>5. \A v \in Workers \ {w} : pc'[v] = pc[v]
  BY <1>1 DEF IInv, TypeOK, Procs
<1>6. Worked(d) => Worked(d)'
  BY <1>2, <1>5, StillWorked DEF Requeue, BusyPC
<1>7. DocMinded(d)'
  <2>1. QueuedFor(d)'
    BY <1>4, NowQueued
  <2> QED  BY <1>6, <2>1 DEF Minded, DocMinded, Waits, Requeue
<1>8. WorkerMinded(w)'
  BY <1>2 DEF WorkerMinded
<1> DEFINE D == {d}
<1>9. D \in SUBSET Docs /\ \A e \in D : DocMinded(e)'
  BY <1>7
<1>10. \A e \in Docs \ D : \A l \in Kind : <<e, l>> \in plan[w] => <<e, l>> \in plan'[w]
  BY <1>1, <1>3 DEF IInv, TypeOK
<1>11. \A v \in Workers \ {w} : job'[v] = job[v] /\ goal'[v] = goal[v] /\ plan'[v] = plan[v]
  BY <1>1 DEF Requeue
<1> HIDE DEF D
<1> QED  BY <1>2, <1>4, <1>8, <1>9, <1>10, <1>11, MindedJob DEF Requeue, Busy, BusyPC

LEMMA MindedSame ==
    ASSUME IInv, Minded, UNCHANGED <<status, queue, pc, working, starting, request, history>>
    PROVE  Minded'
<1>1. ASSUME NEW d \in Docs PROVE DocMinded(d)'
  <2>1. Waits(d) => Waits(d)'
    BY StillWaits
  <2>2. Worked(d) => Worked(d)'
    BY StillWorked
  <2> QED  BY <2>1, <2>2 DEF Minded, DocMinded
<1>2. ASSUME NEW w \in Workers PROVE WorkerMinded(w)'
  BY WorkerMindedKept DEF Minded
<1> QED  BY <1>1, <1>2 DEF Minded

LEMMA MindedInit == Init => Minded
BY SMT, IndexingAssumption DEF Init, Minded, DocMinded, WorkerMinded, Procs

LEMMA MindedNext ==
    ASSUME IInv, Minded, [Next]_vars
    PROVE  Minded'
<1>1. CASE UNCHANGED vars
  BY <1>1, MindedSame DEF vars
<1>2. ASSUME NEW h \in Handlers,
             HandlerStep(h) \/ \E d \in Docs :
               UploadPut(h, d) \/ UploadPutFails(h, d) \/ ReindexStart(h, d) \/ DeleteRow(h, d)
      PROVE  Minded'
  BY <1>2, MindedRequests
<1>3. ASSUME NEW w \in Workers, WorkerStep(w) PROVE Minded'
  BY <1>3, MindedPop, MindedClaims, MindedRuns, MindedFails, MindedRead, MindedWrite,
     MindedWriteFails, MindedEnqueue DEF WorkerStep
<1>4. ASSUME NEW w \in Workers, StartStep(w) \/ Crash(w) PROVE Minded'
  BY <1>4, MindedDown, MindedSelect, MindedReset, MindedRequeue DEF StartStep
<1>5. ASSUME NEW d \in Docs, BecomeStale(d) PROVE Minded'
  BY <1>5, MindedSame DEF BecomeStale
<1> QED  BY <1>1, <1>2, <1>3, <1>4, <1>5 DEF Next, Step

\* Whatever crashes, fails or is dropped as a duplicate, a document that is not settled
\* has a job, a worker, a request or a starting process left to see to it, save for
\* the losses the code accepts.
THEOREM EveryoneMinded == Spec => []NobodyForgotten
<1>1. IInv /\ Minded => NobodyForgotten
  <2> SUFFICES ASSUME IInv, Minded, NEW d \in Docs
               PROVE  /\ status[d] = "pending" =>
                            \/ QueuedFor(d) \/ InHandFor(d) \/ WillRequeue(d)
                            \/ Happened(d, {"jobLost"})
                      /\ status[d] = "indexing" =>
                            \/ HasWorker(d) \/ WillRequeue(d)
                            \/ Happened(d, {"skipped", "unsettled"})
    BY DEF NobodyForgotten
  <2>1. Restarting \/ Planned(d) \/ ToReset(d) => WillRequeue(d)
    BY DEF Restarting, Planned, ToReset, WillRequeue
  <2> QED  BY <2>1 DEF Minded, DocMinded, Waits, Worked
<1>2. Init => Minded
  BY MindedInit
<1>3. IInv /\ Minded /\ [Next]_vars => Minded'
  BY MindedNext
<1> QED  BY Inductive, <1>1, <1>2, <1>3, PTL DEF Spec
=============================================================================
