# AskFlow: a verification development

AskFlow is a customer-service assistant: a FastAPI back end that answers chat
messages with an agent (retrieval, tools, clarifying questions), hands a
conversation over to human staff when the agent cannot help, keeps a knowledge
base in three stores, and lets operators edit prompts, routes and documents
while it runs.  It is deployed as several application processes over one
PostgreSQL, one Redis, one Chroma and one MinIO.

The modules in this directory model the parts of the back end whose correctness
depends on the order of events: transactions that race, work that spans several
stores, processes that die, caches and files that several processes share.
Pure request handling, wording and layout are left out.  Line numbers and paths
in this document are those of `src/` (application code is under
`src/src/askflow/`).

## 1. Inventory

For each part: the state it keeps, what changes it, how it meets the others,
what is hard about it, and what makes it correct.

### Handoff to human staff — `agent/handoff.py`, `admin/handoff_router.py`, `repositories/handoff_repo.py`

* *State*: `conversations.status` (active, closed, transferred) and one row per
  handoff in `handoff_sessions` (queued, claimed, resolved, returned,
  timed_out), with a partial unique index: one open session per conversation.
* *Operations*: the agent's `handoff_node` inside a chat turn; claim, reply and
  resolve over REST; archive by the customer; a sweep in every process that
  times out what nobody claimed, leaves a ticket and gives the conversation back.
* *Interaction*: only through the two tables.  A message to a transferred
  conversation is stored for staff and not given to the AI (`chat/service.py`).
* *Hard*: each operation is a READ COMMITTED transaction that reads a status,
  waits for locks and writes later; turn and resolve lock the two rows in
  opposite order; nothing ties the two tables together in the database.
* *Correct if*: there is always exactly one party responsible for the customer,
  an unclaimed handoff ends, a timed-out one leaves a ticket and a claimed one
  does not, and staff messages come from the assignee.

### Document indexing — `embedding/index_worker.py`, `embedding/queue.py`, `embedding/router.py`, `embedding/service.py`

* *State*: the document row (status, chunk_count, indexed_at,
  index_started_at), its bytes in MinIO, its chunks in Chroma tagged with a
  generation, and a Redis list of jobs.
* *Operations*: upload, reindex, delete over REST; one consumer per process that
  pops, claims (a conditional UPDATE), embeds, adds the new generation, sweeps
  the old one and settles the row; retries up to three attempts; a requeue of
  orphans when a process starts.
* *Hard*: no transaction spans two stores and every call may fail after taking
  effect; jobs are duplicated and lost; processes die between two steps.
* *Correct if*: one worker at a time has a document, an indexed document never
  loses its last chunks, what the row says agrees with what Chroma holds, and no
  document is forgotten in a status that somebody else should change.

### BM25 search index — `rag/bm25.py`, `embedding/service.py`

* *State*: an immutable snapshot in the memory of every process and one pickle
  file they share.
* *Operations*: refresh after a change of the chunks (fetch all, build, save),
  warm-up of a starting process from the file or from Chroma, search.
* *Hard*: the file lock covers the replacement, not the read-build-save that
  leads to it.
* *Correct if*: a process never goes back to an older content, and the newest
  content is known to somebody.

### Agent turn — `agent/service.py`, `agent/graph.py`, `agent/harness.py`, `agent/slots.py`, `agent/intent_classifier.py`, `agent/tools.py`

* *State*: `conversations.metadata.pending_tool`, the record of a tool that waits
  for its slot, with the number of turns waited; otherwise the state of one turn.
* *Operations*: stop what the harness refuses, resume a waiting tool or classify
  (keyword rules and language model), route by the intent configuration (rag,
  tool, ticket, clarify, handoff), run one node, update the record.
* *Interaction*: the ticket and handoff nodes are the transactions of `Tickets`
  and `Handoff`, the rag node is `Retrieval`; all of them commit with the turn.
* *Hard*: the slot protocol spans turns; a turn writes a count it loaded when it
  began; the confidence of the harness can override what the protocol decided.
* *Correct if*: the user is not asked for ever, a slot given is used, a record is
  dropped for a reason, and an unsure turn does nothing but ask back.

### Chat session — `chat/router.py`, `chat/service.py`, `chat/manager.py`, `chat/push.py`, `chat/session.py`, `repositories/message_repo.py`

* *State*: connections per user in a process, a cancel flag per connection, the
  Redis history of a conversation (the newest `MAX_HISTORY` messages, for a day),
  its messages in PostgreSQL.
* *Operations*: authenticate, receive, run a turn, stream tokens, cancel; reply
  and delete over REST; push from another process over Redis pub/sub.
* *Hard*: the receive loop waits for the whole turn; every message is in Redis
  before its row is committed; deletion clears Redis before it commits; the
  sending loop iterates over a set that connections change; `created_at` is the
  time a transaction began, the same for both messages of a turn.
* *Correct if*: both histories agree up to what was rolled back or removed, every
  message is answered or its connection ends, and frames keep their order.

### Retrieval and grounding — `rag/retriever.py`, `rag/reranker.py`, `rag/service.py`, `rag/grounding.py`, `rag/verifier.py`, `chat/confidence.py`

* *State*: one question's passages, verdicts and answer.
* *Operations*: embed, ask two channels, fuse, cut, assess, answer or refuse,
  have the citations judged, compute the badge, detect a gap.
* *Hard*: each stage falls back on its own when a service fails, and three
  modules draw conclusions from the same numbers.
* *Correct if*: fusion keeps what both channels agree on, the evidence an answer
  passed the gate with is among the sources shown, and the badge claims nothing
  nobody checked.

### Runtime configuration — `core/config_cache.py`, `admin/service.py`, `repositories/prompt_repo.py`

* *State*: a value with a load time and an epoch in every process; prompt
  versions (append only) with an active pointer; intent routes.
* *Hard*: invalidation is published before the transaction commits; loads race
  with invalidations; two editors draw the same version number.
* *Correct if*: after the time to live every process uses the committed
  configuration, and the pointer names a committed version.

### Tickets — `ticket/service.py`, `repositories/ticket_repo.py`

* *State*: tickets with a partial unique index on (user, title) while open.
* *Hard*: the duplicate check looks back 24 hours, the index has no limit;
  updates are read-modify-write; reopening can collide.
* *Correct if*: a user has one open ticket of a title and creating one always
  yields an open ticket.

### Knowledge loop — `knowledge/gap_recorder.py`, `draft_service.py`, `publisher.py`

* *State*: gaps counted by question hash, drafts (draft, approved, rejected),
  published documents in three stores.
* *Hard*: approval locks the draft, publishes to stores that do not roll back,
  and compensates by hand.
* *Correct if*: a draft is published at most once, and a failed publication
  leaves nothing behind and can be tried again.

### The rest

Accounts, audit, masking, metrics, analytics and the web console keep no state
another part depends on; chunking is a function of a text.  `PROJECT.json` has
every component with its status and reason, and the hazards of the code at their
lines.

## 2. Plan

The order is that of the damage an error does: first who is responsible for a
customer, then the stores, then what only an answer depends on.

| Order | Module | Models | Properties | State |
|---|---|---|---|---|
| 1 | `Handoff`, abstract `HandoffOwnership` | handoff transactions; who is responsible for a customer | safety, liveness, refinement | proved, liveness checked |
| 2 | `Indexing` | document indexing over four stores | safety | proved |
| 3 | `SearchIndex` | BM25 snapshots and the shared file | safety | proved |
| 4 | `ConfigCache` | caches, epochs, pub/sub and the transactions of the console | safety | proved |
| 5 | `Tickets` | deduplication against the unique index, edits that close and reopen | safety | proved |
| 6 | `Knowledge` | gaps, drafts, reviews, publication with compensation | safety | proved |
| 7 | `AgentTurn` | classification, routing, slot filling over several turns | safety | proved |
| 8 | `Chat`, `ChatPush` | receive loop, the two histories, deletion; push | safety, liveness | proved, liveness checked |
| 8a | `ChatCancel`, extends `Chat` | the cancel of the page on its way to the loop | a feature the code does not deliver | refuted |
| 9 | `Retrieval` | fusion, refusal gate, judge, badge | safety | proved |

The modules meet at the tables they share, and each models what the others do to
its own state: `Handoff` has the turn's write to the conversation and the ticket a
timed-out session leaves; `Tickets` the turn's and the sweep's creations; `Chat`
takes from `Handoff` that a conversation is transferred and handed back, and from
`AgentTurn` that a turn may hand over; `Knowledge` takes the signals `Retrieval`
computes.  A single product of them would multiply state spaces that share no
invariant.

A component's proofs are in a module named after it; `ChatProofs` has those of `Chat`
and `ChatPush`, `SearchProofs` those of `SearchIndex` and `Retrieval`, which is why the
specifications of `ChatPush` and `Retrieval` carry a prefix (`PushSpec`, `RagSpec`).

What may come next, in this order: an atomic publication that the three stores of
`Knowledge` implement; a stored conversation, of which the list and the rows of `Chat`
are two late copies; the edits of intent configurations.

## 3. The models

### Handoff

A process is a chat turn, a REST request or a sweeper, and runs one transaction.
`convStatus`, `status`, `assignee`, `escalated` and `replies` are the committed
rows; `convW[p]` and `sessW[p]` are the rows process `p` has written or locked,
private until `Commit(p)`.  A read sees what is committed when it happens (READ
COMMITTED), an `UPDATE` or `SELECT .. FOR UPDATE` of a row held by another
process waits.  An `UPDATE .. WHERE status = ..` is an action that is enabled
only once the row is free and then sees the committed status, which is what
PostgreSQL's re-check of the condition does; the other outcome (`ClaimConflict`,
`CloseConflict`) is an action of its own.  An attribute assigned through the ORM
with the value it already had sends no UPDATE (`ReadConv` and `WriteConv`).

Turns: `TurnStart` reads the status; `TurnGate` is the transferred message,
`TurnAnswer` and `TurnMetadata` the answers that end without a handoff,
`TurnHandoff` .. `TurnEnqueue` the handoff, `TurnFinish` the commit.  Requests:
`ClaimStart`/`Claim`, `AssigneeStart`/`Reply`/`Close`/`ReadConv`/`WriteConv`/
`RequestCommit`, and `ArchiveStart`.  Sweepers: `SweepSelect` (FOR UPDATE SKIP
LOCKED), then per session `SweepEscalate`, `SweepExpire`, `SweepHandBack`, and
`SweepCommit` for the batch.  `Crash` kills a transaction; `DeadlockVictim` is
PostgreSQL's deadlock detector.

Merged or left out: the `INSERT .. ON CONFLICT` and the lookup behind it are one
step; an exception inside `handoff_node` poisons the SQLAlchemy session, so the
turn rolls back as a whole and needs no partial outcome; foreign keys take KEY
SHARE locks that no modelled step conflicts with; deleting a conversation is in
`Chat`, so the branch of the sweep for a conversation that is gone
(`agent/handoff.py:155`) is left out.  `escalated` says that the sweep called
`TicketRepo.create` for a session, not that a ticket is new: `create` deduplicates by
user and title, the title names the conversation only (`agent/handoff.py:164`), and so
a second session of the conversation that times out while the first one's ticket is
open has that ticket.  What `EscalatedIffTimedOut` promises is that an open ticket
stands for every session that timed out when it did.  `cut` is a history variable:
conversations whose customer archived them while a handoff was open.  The properties except those, and the run
`handoff_stranded` shows why they must.

### Indexing

A process is an application worker with one consumer, a request is served by its
`Home` process and dies with it.  Each call to PostgreSQL, Redis, Chroma or
MinIO is a step; those of Chroma and Redis may raise with or without having
taken effect (`JobFails`, `UploadEnqueueFails`, ...).  An upload whose push raises is
undone, bytes first: `UploadEnqueueFails` and `UploadUndo` if both removals succeed,
`UploadDropFails` if that of the bytes raises (bytes and row stay), `UploadUndoFails`
if that of the row does (the row stays without its bytes).  `status`, `chunkCount`,
`indexedAt` and `stale` are columns of the row; `chunks[d]` is the set of
generations Chroma holds, `objects` the documents whose bytes are in MinIO,
`queue` the Redis list.  `gen`, `found`, `goal` and `seen` are the locals of a
worker.  The program points follow `_process_job`: `claim`, `load` (fetch,
parse, cut, embed), `add`, `sweep`/`delete` (look up the old generations, delete
them), `read`/`write` (the ORM's load and UPDATE that settle the row),
`enqueue`, and `dropChunks`/`dropBytes` of the terminal failure.  A restart goes
through `select`, `reset` and `requeue`.

`incidents` is a history variable that names, per document, the accidents after
which a promise no longer holds, each recorded by the one step that causes it: a
reset that overtook a claim, a fresh `indexing` row passed over, a lost job, a
settling write that raised, a cleanup that failed, a delete rolled back after
its chunks were gone, a delete or cleanup of a document a worker had, a reindex
queued before the first indexing ended.  A property that excepts an accident
says by that which failures the code does not recover from; everything else it
must recover from.

Abstractions: a generation is a name not yet used for the document (in the code
a timestamp in microseconds); the claim and the load after it are one step; the
columns a settling write does not change are written back as loaded
(`chunkCount` in particular), as the ORM would; a commit that itself fails on
upload is not modelled.  Times are reduced to `stale`: the claim of a row is
older than 30 minutes.  With `Punctual` no live worker takes that long.

### SearchIndex

`version` numbers the contents of the collection; `snapshot`, `file` and
`fetched` say which content a process searches, the file holds and a refresh has
read.  `Change` and `Sweep` are the two changes of `index_document`; a refresh
is `Fetch`, `Build`, `Save`, each of which may fail.  The lock of the file makes
`Save` atomic and orders nothing else.  `lapsed` records that a refresh was cut
short or a process restarted.

### ConfigCache

`versions` and `activated` are the committed tables: who wrote each prompt
version, and the versions the template has pointed at, the last one now.  A
cached content is named by its position in `activated`, so two contents can be
compared in time.  `value`, `age`, `epoch` are `ConfigCache`'s fields in every
process; `seen[w]` is a history variable, what was committed when `w` last
invalidated.  A `get()` that finds nothing fresh is `StartLoad` (it notes the
time and the epoch), `Read` or `ReadFails` (the loader swallows the error and an
empty table is cached: `Defaults`), `Store`.  `_loaders` are not serialised, so
several are under way at once.  A request of the console is `DrawVersion` and
`InsertVersion` (or `FindVersion`), then `Activate` (the UPDATE, and the
process drops its own copy), `Publish` and, after the handler has returned,
`Commit`.  The subscriber task starts after the process (`Subscribe`), dies of
an error for good (`ListenerDies`), and may miss what is published while its
connection breaks (`Lose`).  Ages are counted up to `TTL`: what is older is alike.

One template stands for all, and the cache of the route map, which is the same
class, is not modelled a second time; its edits change rows in place and have no
versions.

### Tickets

`status`, `title` (the pair of a customer and a title), `resolvedAt` and `recent`
are the committed table; `create[p]` is a transaction that creates a ticket (a
turn's `ticket_node`, a REST request, the escalation of a sweep), `edit[e]` a PUT
request.  A create is `FastPath` (`find_duplicate`, 24 hours), `Insert` (INSERT
ON CONFLICT, which waits for whoever is moving a row in or out of the index
entry: `Entering`), `Lookup` (`find_open_duplicate`) and, after an empty lookup,
`TryAgain`, at most once.  A row inserted stays in `create[p]` until
`CommitCreate`.  An edit is `LoadTicket`, `Write` (the flush: it waits for the
row and, when the row becomes open, for its index entry, and fails if that is
taken) and `CommitEdit`; only the columns that differ from the loaded row are set
(`SetsStatus`, `SetsStamp`), so two edits can mix.  `contested` and `closures` are
history variables: tickets written from a row that had moved on since it was
loaded, and how many tickets of the title closed while a create was under way.

A PUT that leaves the status alone is the edit whose target is the loaded status.
The check for an entry and taking it are one step, as the database makes them.

### Knowledge

The gaps are those of one question (one hash).  `gap`, `frequency`, `promotedDoc`
and `draft`, `body`, `published` are the committed rows of the two tables, `docs`
the committed documents, `bytes` and `chunks` what MinIO and Chroma hold; a
document and an edited body are named by the request that wrote them.
`signal[s]` is the transaction that counts a miss (the end of a turn, or a bad
rating): `Record` is the `INSERT .. ON CONFLICT DO UPDATE`, which waits for the
row or the index entry, `CommitSignal` the commit of the turn around it.
`req[p]` is a request of staff: `StartDismiss`/`Dismiss`/`CommitDismiss`;
`StartDraft`/`Insert`/`Lookup`/`CommitDraft`; `StartEdit`/`WriteEdit`/
`CommitEdit`; `StartReview`/`Transition` and then `CommitReject`, or the
publication: `Put`, `Index`, `LoadGap`, `WriteGap`, `CommitApproval`, and when a
call raises `UndoChunks`, `UndoBytes`, `CommitUndone`.  A call to a store may
raise with or without having taken effect.  The status an approval has written
but not committed is its program counter: the draft is `draft` to everyone else,
and whoever wants its row waits (`DraftLocked`).  `Abort` is a failed statement or
commit, an undoing call that raises, or the death of the process; `abandoned`
remembers the publications it broke off, which are not undone.

Left out: what decides that an answer was a miss, and what a draft says; drafts
without a gap; an administrator's DELETE of a published document (`admin/router.py`),
whose foreign keys then set the draft's `published_doc_id` and the gap's
`promoted_doc_id` to NULL and which leaves the bytes in MinIO (it is the delete of
`Indexing`), so that `PublishedWhole` and `NoOrphans` speak of publication and not of
what is deleted later; a signal whose statement fails inside a turn that goes on, which
PostgreSQL answers by refusing the rest of the transaction (`AbortSignal`).
Nothing stops an administrator from dismissing a gap that is promoted
(`set_status` has no condition), nor from drafting for a closed one.  A request to
draft fails if the pending draft it lost to is reviewed before it is looked up
(`Lookup`): unlike a ticket's, this insert is not tried again.

### AgentTurn

`meta` is the committed record, reduced to its `turns_waited` (only
`search_order` leaves one, and only for an order number); `turn[t]` is what a
turn has loaded and decided: the record as it was when it began, the label and
confidence, the route, the answer, and whether and what it will write.  A turn is
`Begin`, then `Stop` (the harness's guard), `Resume` (an order number while one is
waited for) or `Classify`, then one of the five nodes, then `Commit` or `Fail`.
`Classified` is `classify` with the rule that a keyword wins over a less sure
model; `RouteByIntent` and `FallbackRoutes` are `route_by_intent`; `Drops` and
`Candidate` are `settle_pending_after_classify`; `ChooseRoute` is the harness's last
word; `NextRecord` is `sync_pending_after_tool`.  A turn that updates the
conversation holds its row (`HoldsRow`) until it ends.  `asks` and `overlapped` are
history variables.

Texts, what an order looks like, and truncation are data no property looks at.
Two turns of one conversation overlap because a user may have it open in two
tabs; nothing serialises them.

### Chat

`status` and `rows` are the committed tables, `history[k]` the Redis list of ids, a
message's id being its place among all messages mirrored.  `AddMessage` is RPUSH, LTRIM
and EXPIRE (`chat/session.py:23`) in one step: a failure between them, which leaves a
list one message too long or without its expiry until the next message, is left out.
A connection is `Authenticate`, then frames while it is idle (`Reads`): `ReceiveCancel`, or
`ReceiveMessage`, `Load` (or `Refuse`), `MirrorQuestion`, `InsertQuestion`, `Agent`,
`StoreAnswer`, `Commit`, `End`.  `Break` is whatever ends a connection, rolling back
its transaction; `Orphaned` is the foreign key of a conversation deleted meanwhile.
A deletion is `StartDelete` (SELECT and DELETE of the messages of the moment),
`RemoveRow` (which waits for the turns that hold the conversation, and is refused
by a message left over), `ClearHistory`, `CommitDelete`.  `Preceding` and `Latest` are
`get_preceding_user_message`, with `created_at` being when the transaction began, so
that the two messages of a turn tie and the question is found by the order of roles.

`unkept`, `cleared`, `waiting` and `ids` are history variables.  The agent is a step
that answers or hands over, a staff reply is one step (its row, mirror and commit
are not interleaved with a resolution of the handoff, which is in `Handoff`), and a
list expires only when no turn is using it.  What tokens, sources and titles say is
left out.

`ChatCancel` adds to this what `Chat` has no need of, the way of a cancel: `SendCancel`
is the page's button while an answer streams, `unread` the frame waiting in the
connection, `ReadCancel` the receive loop taking it, ahead of later messages.  Staff
and deletions stand still there.

### ChatPush

One worker, one user.  `tab` are the connections in the manager's set, a broken one
staying until its handler calls `disconnect`; `channel` is what Redis has delivered
to the listener, `walks` the forwarding loops.  `Visit` is one turn of the loop over
the live set, with an await behind it; `Resized` is the error CPython raises when the
set changed size, `Swapped` the case it does not notice, one tab come and one gone.
`Die` ends the listener, which nobody restarts.  `audience`, `disturbed` and
`forwarded` are history variables.

### Retrieval

One question: `Retrieve`, then `Answerable` or `Refuse`, `Generate`, `ModelDown` or
`SaysNothing`, `Judge` or `SkipCheck`, `Finish`.  `Hits` are the rankings a channel may
return, `Rrf`/`Fused`/`Retrieved` the fusion with its weights as exact fractions over a
common denominator and the stable order of ties, `Confidence` the look back over the
first three fused results, `Verdict` the judge's claims restricted to valid citations,
`Score`/`Band` the badge.  Scores are percentages; a BM25 score is given as what its
logistic squash makes of it.  Citation markers are the model's own and may be out of
range.  Of the two channels' stores only the rankings matter here; that the snapshot
a process searches may be old is in `SearchIndex`.  `Fused` is chosen by what a stable
sort leaves (`Above` for every pair), not computed.  `Common` is any multiple of the
denominators; that the weights are whole numbers over it only makes them exact, where
the code has floating-point numbers, and what is proved of the fusion asks of a rounding
no more than that it keeps the order.

## 4. Runs

| Run | Instance | What it shows |
|---|---|---|
| `handoff` | 1 conversation, 2 sessions, 2 turns, 2 requests, 1 sweeper, 2 agents, archiving | `OneOpenSession`, `NobodyStranded`, `OpenMeansTransferred`, `EscalatedIffTimedOut`, `RepliesByAssignee` |
| `handoff_live` | 2 conversations with 1 session each in one batch of a sweeper, 1 turn, 1 request, 1 killed transaction, fair | `QueuedIsServed`, `EveryTransactionEnds`, and the refinement `ImplementsOwnership` |
| `handoff_stranded` | as `handoff`, 1 turn, 1 agent | finds `NeverStranded` violated |
| `indexing` | 1 document, 2 processes, 1 request, 2 attempts, 1 reindex, 1 crash, 3 generations, 2 accidents | `OneIndexer`, `ActiveIsRetrievable`, `ActiveWasIndexed`, `FailedIsClean`, `DeletedIsGone`, `NobodyForgotten` |
| `search` | 3 processes, 4 changes, 2 crashes; beside them one question: 3 passages at 5 strengths, up to 2 sources, up to 2 claims of the judge | `SomeoneIsFresh`, `NeverBackwards`, `FusionKeepsAgreement`, `EvidenceIsShown`, `BadgeIsHonest` |
| `config_cache` | 2 processes, 1 load, 2 edits, TTL of 2 ticks, 1 restart, Redis may lose everything | `BoundedStaleness`, `NeverBehindInvalidation`, `HistoryOnlyGrows` |
| `tickets` | 3 tickets of one title, 3 creates, 2 staff edits, 1 customer edit | `OneOpenTicket`, `FailsOnlyAfterTwoClosures`, `AnswerIsOpen`, `StampFollowsStatus` |
| `knowledge` | 2 gaps of one question, 2 drafts and 1 draft, 3 signals, 4 requests, any call or commit may fail | `SignalsCounted`, `OnePending`, `PublishedWhole`, `NoOrphans`, `ReviewIsFinal` |
| `turn_and_push` | 2 turns, 5 intents, confidences 3, 6 and 9 tenths, 2 intent configurations, 3 slot turns; beside them 3 tabs and 3 frames | `AsksBounded`, `SlotIsFilled`, `DriftKeepsSlot`, `InOrder`, `ReachesEveryTab` |
| `agent_drift` | the turns of `turn_and_push` | finds `DroppedForAReason` violated |
| `chat` | 2 connections, 1 conversation and 1 of another user, a history of 3, 2 turns, staff replies up to 3 messages, 1 deletion at a time, fair | `HistoriesAgree`, `RatedQuestion`, `EveryMessageAnswered` |
| `chat_cancel` | 1 connection, 1 conversation, 2 turns | finds `CancelIsRead` violated |

The type invariants are proved, as part of what is inductive, and not checked again.

`search` and `turn_and_push` run two models beside each other (`MCSearch`,
`MCTurnAndPush`).  The two share no variable, no action and no property; `part` says
which of them a behaviour belongs to while the other stays where it began, so that
TLC explores the union of the two state spaces and not their product.

**Bounds.** A handoff involves one conversation at a time except in a sweep's
batch, so one conversation with two sessions (the second handoff after the
first, or the collision of both) and two conversations with one session each
cover the two dimensions; two turns, two requests and a sweeper are every pair
of roles, and every triple with a sweeper.  Documents do not interact except
through the queue, so one document is checked, with two processes, which
every race over one row needs; two attempts are one retry and one terminal
failure; three generations are what two attempts and a reindex can have present
at once.  Two processes are enough to overtake each other; a third is there to
be neither.  For the cache there is one load at a time in the run, to keep it
small; several, which may store in either order, are covered by the theorems.
Two edits of two processes are what the race for a version number and an
invalidation between two commits need, and two ticks tell fresh from half way
from expired.  Titles do not interact, so one is enough for tickets; a create that is
overtaken twice needs two others, and two staff edits with one of a customer are
two closures and a reopening.  Two gaps are the one that is closed and the one
that is opened after it; two drafts of a gap are the one reviewed and the next; four
requests are two reviews and an edit of one draft with a dismissal between them.
A waiting tool is given up at its third turn, so the record takes every value; the
three confidences lie below the harness's threshold, between it and the one that
abandons a tool, and above both; two turns are every overlap of two counts.  Two
connections are every overlap in one conversation, three messages in a history of
three are pushed out by a fourth, and what happens in a second conversation only
shares the clock.  Three tabs are the one that
is being sent to, one that comes and one that goes; three frames are two in a row
and one behind them.  Of three passages and two sources one is cut; the strengths lie
below, between and above the thresholds of refusal, gap and badge, so that every
order of channels and every comparison occurs; `Common` is 61 to 64 multiplied.
Bounded ids and counters make the indexing, search, cache, ticket and knowledge runs
stop, and the frames of a user come to an end, so deadlock is not checked there; the
handoff and chat runs check it.

**Fairness.** `handoff_live`: handlers run on (`SF` for turn, request and sweep
steps, because a lock may be taken and released over and over, and PostgreSQL
queues its waiters), the sweep loop wakes up every `HANDOFF_SWEEP_INTERVAL_S` and
survives a failed sweep (`main.py`), time passes, and the deadlock detector runs.
`chat`: the calls in a turn end or time out (`WF` of its steps), an insert that waits
for a conversation's row is granted it in turn (`SF`), and a deletion goes on (`WF`).  The
model's calls have timeouts; Redis is called without one, and a Redis that neither
answers nor closes the connection is assumed away.
No customer and no agent has to do anything.

**Mutants.** Each property of a passing run has a mutated definition in its
module (`Claim_AnyStatus`, `Sweep_All`, ...) that stands for a plausible mistake
and makes the property fail; they are marked `Mutant:`.

## 5. Findings

1. `handoff_stranded`.  A turn queues a session and an agent claims it.  The assignee
   begins to resolve it with `close_conversation`; the customer archives, and that
   commits.  The conversation is now closed, so the next message is not gated: its
   turn hands off, writes `transferred` and reuses the session that is still open,
   uncommitted.  The resolution closes the session, and `update_status` loads the
   conversation as closed, so the ORM sends no UPDATE and does not meet the turn's
   lock.  The turn commits, then the resolution: the conversation is transferred and
   no session is open, the state the comment at `agent/handoff.py:173` sets out to
   exclude.
2. `agent_drift`.  A tool waits for an order number, and the next turn is classified,
   with a confidence of 0.6, as an intent that is routed to another tool.
   `settle_pending_after_classify` keeps the record, as the comment at
   `agent/slots.py:107` says (low-confidence drift keeps the slot, and a number given
   in the next turn still resumes it).  But the other tool's answer asks for no slot,
   and `sync_pending_after_tool` clears whatever record there is (`agent/slots.py:119`).
   On every other route the comment is true: `DriftKeepsSlot`, checked and proved.
3. `chat_cancel`.  A cancel that arrives while the answer streams stays in the
   connection, because `_run_session` awaits the turn (`chat/router.py:265`); it is
   read when the turn is over, and the next message lowers the flag.  `is_cancelled`,
   which the turn asks before every token, is never true, although `README.md:43` lists
   cancel among the features of the chat and `PRD.md:224` asks for it;
   `docs/status/STATUS.md:120` knows only that other workers do not see it.

Other disagreements were met while modelling; they have no run of their own and
are visible in what the properties except or say.

* `requeue_orphans` resets by id what it selected earlier; with two processes
  starting together the second takes a document back from a worker that has
  claimed it, and two workers index it, although `docs/deployment/CHECKLIST.md:51`
  calls the consumer N-worker-safe (`OneIndexer` excepts it).  A process killed in
  mid-index and restarted within 30 minutes leaves the document `indexing`, although
  `plan-docs/ops-platform/03-async-indexing/PLAN.md:219` says it is resumed
  (`NobodyForgotten` excepts it).
* Two concurrent refreshes can leave the older content in the pickle, from which the
  next process starts, although `docs/deployment/CHECKLIST.md:54` calls its writes
  N-worker-safe (`SomeoneIsFresh` is about what is searched, not about the file).
* The invalidation of the prompt cache is published before the transaction commits.  A
  process that drops its copy and loads again in between caches the old content and
  answers with it until the time to live ends, although Redis works
  (`plan-docs/ops-platform/01-prompt-templates/PLAN.md:212` promises the next answer;
  `BoundedStaleness` is what holds).
* The PUT of a draft checks the status of the row it loaded and updates by id.  If an
  approval holds the row, the edit waits and then goes through: the document keeps the
  old body, the approved draft shows the new one (`knowledge/router_drafts.py:75`: "Only
  pending drafts can be edited"; `PublishedWhole` is about the
  document, not about the body the draft shows).
* `publish_user_push` (`chat/push.py:27`) promises a frame to all tabs of the user; the
  loop ends for all remaining tabs when one is broken or the set changes size, and the
  listener is not started again after an error (`ReachesEveryTab` says what is kept).
* The badge counts judged claims, not citations: a judge that answers for some of the
  citations only, or twice for one, raises the score as if it had answered for all
  (`chat/confidence.py:57`; `BadgeIsHonest` asks for one claim upheld).
* A failed deletion of a conversation has already cleared its Redis history: the rows
  stay, later turns lack their context (`cleared` in `HistoriesAgree`).

## 6. Proofs

All theorems hold for every value of the constants that satisfies the assumption
named in the module (`HandoffAssumption`,
`SearchIndexAssumption`, `TicketsAssumption`, `KnowledgeAssumption`,
`AgentTurnAssumption`, `IndexingAssumption`, `ChatAssumption`, `ChatPushAssumption`,
`RetrievalAssumption`; `TTLAssumption` and its neighbours).

**Handoff.** None of the safety properties is inductive: they speak of committed
rows, and a step that commits publishes what its transaction wrote earlier.
`HandoffInvariant!IInv` therefore says what an open transaction may hold, given
what is committed: a row has one writer (`LocksExclusive`); a queued row is
inserted under the lock of its conversation, where no session is open
(`Inserts`); who writes `resolved` has the conversation's row on the way out of
`transferred` (`Resolves`), who writes `timed_out` too (`Sweeps`); who writes
`transferred` has, when about to commit, an open session or is inserting one
(`WritesConv`).  `HandoffProofs` proves it action by action; `CommitInv` is where
these facts become the properties.  The last part of the module proves that no step
takes a session backwards and that the committed tables implement
`HandoffOwnership`: a commit changes the responsibility for one conversation, or
for a set of them in one sweep.

**SearchIndex.** `IInv` says that some process is on its way to the newest
content: it has changed the collection and not read it back, has fetched it, or
searches it.

**ConfigCache.** The property speaks of what is cached, and what will be cached
is in the hands of a load.  `IInv` (in `ConfigCacheProofs`) therefore says of a
load that what it has read was replaced no longer ago than the load began
(`LoadOK`), that the epoch it noted is not of the future (`SeqOK`), and, if the
epoch is still the same, that it has not read something older than the last
invalidation.  `EditOK` says that the requests that hold a version number not yet
committed hold the next one, and that there is one such request at most; this is
what makes history grow without a gap.  A load of an earlier life of the process
never compares equal, since a restart drops the process's loads.

**Tickets.** `OneOpenTicket` speaks of committed rows; what makes it inductive is
`EntryOK`: a create that has inserted and an edit that has reopened hold their
index entry alone, and no other ticket with the entry is open, so a commit adds
the only one.  `RowOK` (a row has one writer) and `StampOK` (a writer of an
uncontested row still has it as loaded) carry `StampFollowsStatus`; `CreateOK`
counts one closure for every attempt made in vain, because a lookup follows an
insert that met an open ticket, and only a commit of an edit can have closed it.

**Knowledge.** The properties speak of committed rows and of stores; `IInv` adds what
is under way.  `Exclusive`: a row has one writer and a free index entry one
inserter.  `SignalOK`: a signal about to commit writes one more than the row it has
locked, or opens a gap where none is open; with this `SignalsCounted` is an
induction on commits.  `RowOK`: a review has a draft that is still `draft`, an
insert one whose gap has no pending draft.  `StoreOK` follows a publication call by
call: what is in the stores belongs to a document, to a request still publishing,
or to one broken off, and a document stays whole because its request is over.

**AgentTurn.** The record is written from what a turn loaded, and turns overlap, so
the bound on the questions is not a matter of the committed record alone.  `IInv`
says with `TurnOK` what a turn may come to from the record it loaded, pc by pc (a
resumed one has the order number, the tool's label and a confidence the harness lets
pass; one that drops the record gave up, was turned away from with confidence, or was
answered by a tool), and with `Counted` that without overlap
`asks` is one more than the committed record waits for.  `NothingInDoubt` proves of every
turn what no run spends time on: below the harness's threshold the agent asks back
and nothing else.

**Indexing.** `IndexingProofs` speaks of one document at a time, and excepts from what
rests on its having one worker a document that was overtaken.  `IInv` holds a worker to
the row it has claimed (`WorkerOK`: the row is `indexing` or gone, and the count it
read is still there), a request to its document (`HandlerOK`), a row to its chunks and
bytes (`DocOK`), and lets a job of kind `reindex` exist only for a document that may be
active (`ReindexOK`).  The claim is the crux: it takes only a claimable row, so whoever
else is busy with the document was overtaken, and `OneIndexer` follows.  Frame lemmas
(`RequestStep`, `JobStep`) say once what a step leaves alone.  `Stocked` then follows
the exchange of generations: the one just written is in the store and not among those
found, so an indexed document keeps chunks; it also shows that nobody takes an indexed
document for a first indexing, whose failure would delete them.  `Minded` names for
each unsettled document who will see to it, from which a crash, a dropped duplicate, a
retry or a restart passes it on: a worker about to write `pending` has an attempt left,
and what a starting process resets it has planned to push.

**Chat.** `HistoriesAgree` speaks of rows that are committed, but what decides whether
it survives a step is in the hands of turns.  `IInv` says in `TurnOK` what a turn has
asked, answered and inserted at each point (`Inserted`), in `AllKept` that a list keeps
also the messages a turn is yet to commit, or has dropped them for newer ones, and in
`AllKnown` that a message only the list has belongs to a turn in progress or was rolled
back or deleted.  Lists are in ascending order (`Ascending`), so what a trim drops is
older than all that stays (`PushMessage`).  The crux of a deletion is `DeletionOK`: once its
row is removed, no turn has an insert under way for the conversation and every message
it has was found, because the row was not free before; so the deletion's commit leaves
no row behind, and no later commit adds one.  `RatedQuestion` rests on `OneTime`, that
two transactions never share a time, and on `Answered`, that an answer is committed
with its question.

**ChatPush.** There is one loop at most, since the listener awaits it; it is at the newest
frame any tab has (`WalkOK`), and what waits in the channel is newer still
(`ChannelOK`).  So what a loop sends is never older than what a tab has; a tab gets a
frame twice only from the same loop, when another tab took the
place of one that left (`Swapped`).

**Retrieval.** That `Fused` denotes a ranking at all is a lemma on any strict order of a
finite set (`OrderHasList`: an element's place is the number of those above it, an
injection of the set into its interval and hence onto it), so the theorem speaks of
rankings of any length and needs no induction over them.  `FusedKeeps` then compares two
passages: one that is above the other in every channel that has the other gets no
smaller share of any, and with equal scores it entered first.  `CutKeeps` carries this
through the cut.  The rest of `RagIInv` follows a question stage by stage: `StagesOK` and
`VerdictOK` say what is settled by then, in particular that a check that took place was
of an answer that cites a passage shown, and of one claim at least, which is where the
division of the badge gets its denominator from.

**Only model-checked**: the liveness properties (`QueuedIsServed`,
`EveryTransactionEnds`, `EveryMessageAnswered`), which rest on fairness and `ENABLED` and
are out of reach of the prover.  Every other property of a passing run is a theorem;
`NeverStranded`, `DroppedForAReason` and `CancelIsRead` are refuted.

## 7. Not modelled

Within the modelled parts: what is said in a message, a summary, an answer or a
ticket; which messages a listing shows (the oldest 50, those of one turn in no
order); notifications to browsers other than pushed frames; metrics and logs; the
contents of chunks and what an embedder or BM25 computes; metadata filters and the
reranking by a language model, which no caller switches on; failures of PostgreSQL
other than a lost transaction.

Components left out, with what would be needed to change that:

* *Rate limiting*: the counter and its expiry are two Redis commands per message; `Chat`
  lets the limiter refuse any message, or fail.
* *Intent configurations*: their edits go through the cache of `ConfigCache`, which is the
  same class, and change rows in place; `AgentTurn` takes any configuration for a turn.
* *Accounts and access control*: stateless checks of a token.  The two rules that matter
  to an order of events are modelled: a reply comes from the assignee (`Handoff`), a
  message goes to a conversation of its user (`Chat`).
* *Audit, masking, observability, analytics*: rows of the transaction they audit, log
  lines and reads.
* *Parsing and chunking*: functions of a file; one step of `Indexing` that may fail.
* *Migrations*: declarative; the partial unique indexes they create are in the models.
* *Web console, evaluation, seeding*: no state of the running back end; of the console
  only when it may send a cancel is in `ChatCancel`.
