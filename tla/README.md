# A verification of SmartClass-Agent

SmartClass-Agent is a teaching assistant: a FastAPI backend (`backend/app`) that runs a
LangGraph agent for each message, and a Vue frontend. This directory holds TLA+ models of
the parts of it that are hard to test, TLC configurations that check them on small instances,
and TLAPS proofs for every size. `APP` below stands for `src/backend/app`.

Contents: 1 the system and its inventory, 2 the modules, 3 the runs with their bounds and
fairness and what was refuted, 4 the theorems, 5 what is not modelled, 6 the plan.

## 1. The system

A message is accepted as a *run*: a row in PostgreSQL, an asyncio task that executes it, and a
Redis stream of its events. The run takes the thread's lock, reads the attachments, and drives
the main graph over the thread's checkpoint: conversation, intake of metadata, design of a
teaching plan, and parallel jobs that generate or revise artifacts, with questions to the
user in between. When the run ends the history may be compressed and a reflection job may be
registered, whose worker changes the user's long-term memories. Knowledge files are indexed
by a worker of their own. The browser follows the stream and may disconnect, reconnect,
cancel, or come back after the process was restarted.

| Component | State | Operations | Interacts with | What makes it correct |
|---|---|---|---|---|
| Chat run lifecycle (`APP/core/chat_runs.py`, `APP/services/chat_run_service.py`) | `agent_runs.status`, the session-row lock, the manager's tasks and explicit cancellations | create, schedule, execute, finalize, cancel, stop, reconcile | the HTTP API calls it, the lifespan starts and stops it, the task writes the stream | one active run per thread; the first final status is the last; cancelled only on request; nothing active left behind |
| Chat run event stream (`APP/core/chat_run_events.py`, publisher and token buffer of `chat_runs.py`) | a Redis stream, a metadata hash, an output string; the buffer, its timer and lock | append with retries, terminal script, snapshot, flush by size, time, boundary and exit | written by the task and by reconciliation, read by the API | ordered ids; done at the committed sequence; text before the event it precedes; no text lost or repeated |
| HTTP API and follower (`APP/api/chat.py`, `ChatPanel/index.vue`, `chatRunStream.js`) | a cursor on both sides, the text on the screen | submit, look up, cancel, stream, reconnect | reads the stream and the row | the screen shows the stream; the follower stops exactly when the run is over |
| Application lifespan (`APP/main.py`) | which runtimes are up | start, serve, shut down | all of the above | reconciliation and recovery happen before requests are served |
| Memory reflection jobs (`core/memory_worker.py`, `services/memory_reflection_service.py`) | `memory_reflection_jobs`, the worker | register (in the finalize transaction), take, finish, fail interrupted, clean up | reads checkpoints, calls the memory service | the table tells what happened; every job finishes |
| Guarded memory mutations (`services/memory_service.py`) | a guard row, an item in the LangGraph store, the user's advisory lock | manual create / update / delete, automatic apply | two stores without a common transaction | what the user did last wins; row and item agree |
| Experience retrieval (`core/memory_retrieval.py`) | candidates, choice, bundle; the snapshot in the checkpoint | search, select, read, degrade | the graph; the same store | what a model is shown exists, once, within the limit |
| Knowledge file ingestion (`core/file_ingestion.py`, `services/file_service.py`, `api/file.py`) | `knowledge_files`, the object, the chunks, a queue | upload, enqueue, process, retry, delete, edit, recover | vector store, object storage | at rest the three parts agree; a content has one active row; uploaded files settle |
| Artifact versions (`services/artifact_service.py`) | `artifact_files` | create, revise, ready, failed | the graph's artifact nodes | the current artifact of a type is its latest ready revision |
| Model access (`core/model_access/*`) | the configuration, envelopes, the checkpoint's snapshot | merge, resolve, publish, capture, select, begin and end a workflow | lifecycle, graph, memory jobs | roles resolve as the file says; a workflow keeps its configuration |
| Context compression (`core/context_compression.py`) | the messages of the checkpoint | plan, summarize, replace | main graph, end of a run | nothing said is forgotten; exchanges stay whole |
| Main graph (`core/graph.py`, `core/conversation_orchestration.py`) | the checkpoint | nodes, routing, four interrupts, fan-out, fan-in | language models, artifact jobs | a question is open exactly while a workflow is; the summary is what the rows say |
| Agent runtime (`core/agent.py`) | thread lock, the graph's task, an artifact job | admit, resume, run a job, fail, cancel, compress | all of the above | a job registers what it made itself; attachments that can be read are read |
| Agent workspaces and storage (`core/workspace.py`, `core/storage.py`) | directories of threads and runs | prepare, write, replace, run code, collect | agent runtime | see `OutputIsOfJob` |
| Progress (`core/progress.py`), speech and video (`core/video_transcribe.py`) | the steps of the card, transcripts, captions | emit, transcribe, caption | agent runtime, browser | the card ends as the steps ended |
| Retrieval, skills, office artifacts, observability, auth, plans, migrations | see `PROJECT.json` | | | no protocol of their own, or I/O |

Hard behaviours: a `CancelledError` may arrive at every await, also inside the handlers that
treat an earlier one; a database transaction or Redis command whose caller is gone may or may
not have been executed; the process may stop between any two steps and start with another
configuration; two stores are written without a common transaction; decisions rest on reads
that are several awaits old (a duplicate upload, a pinned configuration, a chosen memory); a
tool's thread survives the cancellation of its job; and checkpointed fields outlive the turn
they were written for. Every such place is listed, with its line and the properties aimed at
it, under `hazards` in `PROJECT.json`.

## 2. The modules

| Module | Models |
|---|---|
| `RunContract` | what the API promises about the status column: accepted only when the thread is free, running at most once, first final status is the last |
| `ChatRuns` | the detailed lifecycle in one process with crashes, shutdowns and restarts; implements `RunContract` |
| `RunStore` | the Redis keys of one run and the two Lua scripts as operators |
| `RunEvents` | one run's writer: agent, buffer, timer, publisher, finalization, cancellation, crash, reconciliation |
| `RunFollowers` | `RunEvents` composed with a browser and the SSE endpoint |
| `MemoryContract` | what the memory service promises: a versioned register per memory, where a deletion or a change by hand is final for every job captured before it |
| `MemoryReflection` | reflection jobs, their worker, and guarded mutations by hand and by a job, over two databases; implements `MemoryContract` |
| `FileIngestion` | knowledge files: requests, queue and worker over row, object and chunks |
| `ConversationTurn` | the turns of a thread: acceptance, the nodes and interrupts of the graph, artifact jobs and their rows, cancels, restarts with another configuration |
| `ThreadHistory` | the messages of a thread: what nodes say and show to models, two attempts at an answer, compression |
| `ArtifactWorkspace` | the directories artifact jobs share, their tools, and the file each registers |
| `ModelRoles` | file and environment merged and resolved into a model per role |
| `ExperienceRetrieval` | one look into the experiences while they change |
| `AttachmentAnalysis` | documents and videos of a message, and the progress card |
| `MCChatRuns`, `MCRunFollowers`, `MCParts` | instances for TLC; `MCParts` puts the last five components into one run |
| `ChatRuns_proofs`, `RunEvents_proofs`, `RunFollowers_proofs`, `MemoryReflection_proofs`, `FileIngestion_proofs`, `ConversationTurn_proofs`, `ThreadHistory_proofs` | theorems about the module of that name |
| `Parts_proofs` | theorems about `ArtifactWorkspace`, `ExperienceRetrieval`, `AttachmentAnalysis` and `ModelRoles` |

Operators whose names begin with `Faulty` are not the code. Each is a plausible defect of the
definition that follows it, and replacing the definition by it violates the property that
guards against it (`mutants` in `PROJECT.json`).

### ChatRuns

`status` and `rowLock` are PostgreSQL and survive a crash; everything else is memory. A
transaction is one step, except the one that creates a run: its `SELECT ... FOR UPDATE`
(`CreateLock`), its look for an active run (`CreateCheck`) and its insert with commit
(`CreateInsert`) are separate, so that two submissions interleave as the lock allows. `task[r]` is
the await at which the coroutine of run `r` is suspended, named after the part of `_execute_run`
it lies in: the body, the `CancelledError` handler or the `Exception` handler. `cancelling` holds
the tasks with a cancellation to be delivered; `DeliverCancel` delivers it at the await the task
is in, where the transaction in flight may have been committed or rolled back (`InterruptedRow`),
and a task that never ran ends without entering its `try`. `CancelTask`, `AwaitTask`, `DirectRead`
and `DirectFinalize` are the awaits of `ChatRunManager.cancel`; `DirectFails` is an error of one
of the database calls in its branch without a task. `CreateFails` is an error in a create request,
and `CreateInsert` may end without a reply to its commit: the queued row then exists and nobody
schedules it. `Crash` and `BeginStop` / `EndStop` end the process, `Restart`, `Reconcile` and
`Serve` are the next start.

### RunStore, RunEvents, RunFollowers

A token payload is a sequence of fragment numbers, so "concatenated text" is concatenation.
`RunStore` has the scripts: `Appended` takes the next sequence; `Terminated` inserts done only
when `TerminalAccepts`. In `RunEvents` a command's caller receives the reply, or not; in the
second case the server has executed the command, will never execute it, or executes it later
(`late`). `append` retries `Retries` times, the other commands do not retry.

`pc` is the await of the task and `mode` the part of `_execute_run` it is in, or `restart` in
`ChatRunManager.start`, or `direct` when a cancel request finalizes a run whose task is gone.
`lock` is the buffer's `asyncio.Lock` while its holder awaits a publish; `timer` is an armed
flush timer. A flush that fails or is interrupted keeps its fragments, as the code does, so
that closing the buffer tries them again. `StatusOf` gives `completed` for the three statuses
of the body, whose order of precedence is not about the stream.

`RunFollowers` adds one follower. Followers only read, so they do not influence each other.
A follower takes its snapshot in two reads (`ReadSequence`, `ReadOutput`), then reads
entries above its cursor; an empty read is followed by a read of the row, in another step
(`ReadNothing`, `CheckRow`), which either goes on, ends the stream, or makes a done event.
`Drop` is a lost connection or a stream the endpoint ended on a Redis error; `Leave` ends the
following for good while the run goes on: a permanent client error (every 4xx but 408 and 429,
`chatRunStream.js:48`), or an aborted subscription.

### MemoryReflection

One user, one kind of memory. `guard` (rows of `memory_mutation_guards`) and `job` are one
database, `item` (the LangGraph store) is the other. A mutation takes the advisory lock, writes
the item, and commits the row: three steps by hand (`ManualBegin`, `ManualStore`,
`ManualCommit`) and by the worker (`Decide`, `AutomaticStore`, `AutomaticCommit`), between any
two of which the request or the worker may fail and the process may stop. `Outdated` is the
list of reasons for which `apply_automatic` refuses: another version than the one read, a
deletion, a change by hand after the capture. `clock` orders captures and changes by hand.
`answered` remembers what the client was told, `torn` the memories whose item was written by a
transaction that did not commit, `excused` the jobs whose end could not be recorded.

`MemoryContract` has no items, lock, requests or worker: `Committed` maps the rows to its
registers, the times of capture and the committed jobs are its other two variables, and only
the commits and the capture of a job take a step of it.

The branch of `apply_automatic` that finds the job already applied is unreachable with this
worker, which takes a job once (`FreshInv` in section 4). Jobs are taken in the order of their
capture, which stands for `created_at`. A stop of the worker that cancels its job is `Halt`.

### FileIngestion

`row`, `object` and `vectors` are the three parts of a file; `request[r]` is a request between
two of its awaits, `worker` the ingestion worker between two of its own. A session writes an
attribute only when it differs from what that session read (`Written`), so a stale read decides
whether an update reaches the row. `torn` names the files left half done by a failure or by a
deletion that overlapped, until they are indexed again; `crossed` files with two save callbacks
at once, or with one that put its object and failed before its row, whose row may keep the
hash of another content than its object and chunks; `raced` contents whose uploads overlapped;
`revived` pairs of a file and a content: the file became active again (a retry, a worker that
overwrote its deletion), or got this content in the editor, while another active row had the
content or an upload of it was about to insert one; `lost` files whose queue entry an exception
lost.

### ConversationTurn

`post` is a request between its read of the checkpoint (`Read`, `capture_envelope`) and the
insert of its run (`Accept`); `turn[r].pc` is where the graph of run `r` is, `lock` the run
with the thread's lock. Every node of `core/graph.py` is an action with the branches it has;
what models answer is arbitrary. `ck` is the checkpoint as far as the properties need it: the
configuration and whether a workflow is active, the pending interrupt, whether the experience
snapshot is of the present request, and the catalog, sources, targets and results of the last
fan-out. `Fresh`, `Answered` and the three `...Approved` actions enter the graph with the
run's envelope (`Entered`). Jobs of a fan-out run side by side (`JobStarts`, `JobReady`,
`JobFails`); `FanIn` summarizes. `GraphFails`, `Cancel`, `CancelTooEarly` and `Restart` end runs
early, the last with any configuration. A crash inside a node that interrupts is a crash
before it, because the node is one write of the checkpoint.

`cut`, `lost` and `left` name what failures leave: a row that stays running, a type whose
artifact failed after it had been marked ready, a workflow without a question. A job that fails
after `mark_artifact_ready` turns the ready row into a failed one while its predecessor is no
longer current, so the type has no current artifact; `CurrentArtifactIsLatest` says that this
is the only way to lose it. `skewed` marks threads on which a run was accepted although
another one could still change the checkpoint (`APP/api/chat.py:121`, and a cancel that finds
no task); the two properties about workflows exclude them.

### The components of MCParts

`ThreadHistory`: a message is its place in `said`, `history` the checkpoint's list.
`AddMessages` is the reducer, which keeps retained messages at their places, so a new summary
stands behind them and up to `KeepTurns` summaries coexist, where the documentation promises one
in front (`SummaryInFront`, refuted). `EntryView` and `IntakeView` say that what a node shows to
a model has every call with its reply and an identifier. The identifier of a call is stored as
the provider sent it (`Call`); an empty one makes every later view of the thread fail
(`Nameless`), which the properties name. An absent one (`None`) fails the run before
anything is stored, and one used twice is met only when another call of the same answer is
pending, which the parser refuses. An answer is an attempt, and a
second one when `Again` allows it; both share a budget of two requests. Text of an attempt that
was thrown away is `stray`; on the memory-assisted path the code throws away text that was
shown although the comment at `APP/core/graph.py:622` says otherwise (`refused`). An attachment
summary that stands before the K-th last message of the user is compressed although that
message stays. Token thresholds, character budgets and the removal of duplicate
attachments are abstracted: compression may happen at every end at which it could.

`ArtifactWorkspace`: a file is who wrote it and when. The workspace directory is cleared by the
next job, output directories are per run and are kept. A tool works in a thread that
survives a cancelled job (`outlived`) and then writes into the workspace of the next one.
`Find` chooses among new or changed files by `Priority`; equal times of modification do not
occur. The normalisation of a presentation keeps its author and is left out.

`ModelRoles`: the file and the environment are merged, roles without a binding borrow along
`Inherit`, and `Initialize` publishes or raises. A role inherits the fallbacks of its parent
unless it names its own, and the start examines each of them for the role as it does the model
(`Fit`); no run ever asks one. Facts a reader may not expect: an incomplete identity in the
environment raises (`APP/core/model_access/config_repository.py:93`), where
`src/docs/context-compression.md:30` promises a fall back (`CompleteStarts` names it among its
reasons; it has no run of its own); a text-only model for `small` in the file stops the start when
`structured_fast` would borrow it; so does a fallback of it that only `small` can use, and a model
for `main` without images when `video_vision`, on by default, would borrow it. A file model named
`inherited-<role>` is excluded, as it would be overwritten
(`APP/core/model_access/config_repository.py:183`), and so is a file that uses a reserved
`legacy-` id, which raises (`:98`); the environment's models are named by role.

`ExperienceRetrieval`: search, bound, select and read with the store changing in between.
A budget of characters is "any prefix".

`AttachmentAnalysis`: the steps of documents and videos in the order of the code, each with its
failure, and the card as the stream of their events in order (delivery is `RunFollowers`).
The error of a disabled vision role is no `RuntimeError`, so such a run fails although there
is a transcript; `FailsForAReason` names it.

## 3. The runs

| Run | Question | Bounds |
|---|---|---|
| `chatruns` | Is the thread's activity exclusive, a cancellation asked for, an orphan the result of one of the named causes, reconciliation complete, and `RunContract` implemented, with its final statuses? Does every accepted run settle, every cancel get its answer or an error, and a cancel without a task that meets no error finish the run? | 2 runs of one thread, 1 cancel call with any target, 2 exceptions per task, 2 crashes or shutdowns |
| `chatruns_cancel_lost` | Refuted: an answered cancel leaves its run finished | 1 run, 2 cancel calls |
| `chatruns_cancel_races_schedule` | Refuted: the agent only works for active runs | 1 run, 1 cancel call |
| `stream_faults` | Is the stream ordered, done unique and in place, text before its event, nothing lost, the screen equal to the stream, and a follower that was not turned away stopped only by a finished run? | 2 fragments, 1 event, 1 retry, 1 lost reply, 1 late command, 2 cancellations, 1 crash, no append inside a snapshot |
| `stream_quiet` | Without lost replies: is batching exact, the committed output the stream, the screen the stream even when an append slips into a snapshot, the follower released or turned away? | 4 fragments, size limit 3, 1 event, 1 crash, 1 lost connection, 1 append inside a snapshot |
| `history_summary_last` | Refuted: compression leaves one summary, in front of the turns it keeps | the thread of `parts` |
| `stream_done_skips` | Refuted: a follower that got done has read the whole stream | no fault at all |
| `stream_text_twice` | Refuted: the output of a cancelled run is a text of the agent | 1 cancellation, no fault |
| `memory` | Does the user's last change win, do store and guard agree, does the table tell what happened, does every job finish, do the rows implement `MemoryContract`? | 2 jobs, 1 memory made by hand beside the 2 the jobs may create, 1 text, 2 changes by hand, 1 exception, 1 stop |
| `files` | Do row, hash, object and chunks agree at rest, has a content one active row, do uploaded files settle? | 2 files, 2 contents, 2 requests at a time and 3 in all, 1 exception, 1 stop |
| `turn` | Do workflows keep their configuration, is an open workflow waiting for an answer, is the current artifact the latest, is the summary what the rows say, is a design made with the present experience? | 3 runs, artifacts of one or of both of 2 types from earlier workflows, revised or not, 2 configurations, 1 exception, cancel or restart |
| `parts` | Does compression forget nothing, does a job register its own output, does a configuration resolve as written, are the experiences shown there, does the card tell the truth? | 3 turns, 1 restart of the intake, `KeepTurns` 1, views of 3 messages; 2 jobs and 4 writes; 2160 files with 22 environments, credential set or not; 3 experiences (symmetric), limit 2, 2 changes; 3 videos |

### Why the bounds meet the hazards

Exclusion needs two requests. A final status can be overwritten by one other writer. An orphan
needs two hits, or one create request or cancel at the wrong moment: the cancel call and a
shutdown are two cancellations, and two exceptions are allowed; errors of requests are not
bounded. Two crashes are one that leaves runs behind and one that meets their reconciliation.
Two cancel calls of one run meet in `chatruns_cancel_lost`; the instance with two calls, one
exception and one stop (1.9 million states) was explored once without the liveness properties.
Batching needs a full batch, a partial batch and a boundary between them, which four fragments
with a limit of three contain; the fault run needs one fragment before and one after a failed
publish. One late command is enough to take the sequence reserved for done.

Two jobs and two changes by hand put a change before, between and after the read and the write
of either job, and let a second job meet what a first one left torn. Two files of one content
need two overlapping uploads; the third request is the deletion or edit that meets both. The
third turn of a thread is the first that can meet what one workflow left in the checkpoint
after another one overwrote it; the instance was also explored once with two faults (3.3
million states) and once with four runs (3.2 million). Compression needs a summary that is
summarized again, which three turns with one kept turn contain (four turns with two kept were
explored once, 1.8 million states). Two jobs are a tool that outlives one and the next one's
file. The bindings of `mcBindings` contain a chain of two inheritances, a circle, an unfit, a
disabled and an invalid binding, fallbacks that are inherited, replaced, unfit for a borrower
and not in the file, and the environments switch both optional roles on and off.

`chatruns` has about 309 000 states, `memory` 517 000, `files` 385 000,
`turn` 365 000, `parts` 1.2 million.
The components of `parts` share no state; one of them moves in a behaviour and the others stay
pinned, so that the run is the sum, not the product, of their instances.

Deadlock is not checked: when every request is answered and every bound is used up the systems
rest.

### Fairness

Safety properties need none. `chatruns` assumes weak fairness of a task's own steps, of
the handlers' steps once a request is running, of the loop in `start`, and of `Restart`:
asyncio runs every ready callback, database and Redis calls time out, and `docker-compose.yml`
restarts the backend (`restart: unless-stopped`). Clients never have to submit or cancel, and
crashes, exceptions and cancellations are never fair. `stream_quiet` assumes the same of the
task, the timer and the restart, and that a follower which can take a step does so:
its endpoint is a coroutine of the same loop and the browser retries without limit. To be turned
away (`Leave`) is never fair, so that a release is not owed to it. Lost
connections are bounded (`MaxDrops`), late commands are assumed never. `memory` and `files` assume
it of the steps of a request that began, of the worker, and of the restart. In `memory` the
step that takes the user's advisory lock (`Decide`) is strongly fair, since PostgreSQL queues
the waiters of a lock while requests take and release it.

### What was refuted

Five statements of the specifications under `src/openspec` and of `src/docs` do not hold; each is a
run with its counterexample and an entry under `findings`.

1. *An answered cancel leaves the run cancelled.* A cancellation delivered before the task's
   first step, or to a handler that is already finalizing, leaves the run active. A later
   cancel request (`DirectCancelFinishes`) or the next start repairs it.
2. *A cancelled run is not executed.* `cancel` sees no task, awaits the database, and the task
   is created meanwhile.
3. *A follower reads the complete stream.* Entries between the endpoint's empty read and its
   read of the row are jumped over by the synthesized done. The row has the whole output.
4. *Batched text equals the original.* Closing the buffer after an interrupted flush publishes
   the same text again, in the stream and in the output kept for the cancelled run.
5. *Compression leaves one summary followed by the recent turns.* The update lists it so, and
   the tests look at the update; the checkpoint's reducer keeps the retained turns at their places
   and appends the summary. Since it then is newer than the turns, it may itself be retained by
   the next compression: `SummariesBounded` says that there are never more than kept turns.

A sixth has no run: *an incomplete compression identity falls back to the memory model*
(`src/docs/context-compression.md:30`). Only one that is absent altogether does; a part of it
refuses the start, which `CompleteStarts` lists among the reasons.

Several properties hold only with an excuse that names a way to lose what they promise: `torn`,
`crossed`, `raced`, `revived`, `lost`, `skewed`, `refused`, `outlived`, `Nameless`, a create request
or direct cancel that "failed", a follower that has "left". Each excuse is as narrow as the code
allows, and the hazard it belongs to says so.

## 4. The theorems

All of them hold for every value of the constants. Two of them, `FinalOutputMatchesStream` and
`BatchingKeepsText`, have hypotheses, which are named below; the others rest on nothing but the
named `ASSUME`s of the modules: bounds are naturals, ids are not 0, a batch and a limit are not
empty, sets of files, runs, artifact jobs, artifact types and experiences are finite, jobs and
memories made by hand have different ids, and the files and environments of `ModelRoles` bind its
roles to models and roles, under other names than the environment's. Those of
`ExperienceRetrieval`, `AttachmentAnalysis` and `ModelRoles` are about `Init /\ [][Next]_vars` of
the component, as it moves in `MCParts`.

`ChatRuns_proofs`:

* `TypeCorrect`. Inductive by itself.
* `OneActivePerThread`. Exclusion is not inductive: a state in which two requests have both
  passed their check satisfies it. `ThreadInv` adds `CreateHoldsThread` (from lock to insert a
  request holds the session row, so no sibling is between check and insert, and what the check
  found stays true because only inserts create active rows; the row of a request before its
  insert does not exist).
* `FinishedStaysFinal`, from types: every writer goes through `Finalized` or `MarkedRunning`,
  except the insert, whose row does not exist yet. `RunContract` promises it too, so the runs
  check it as a part of `ImplementsContract`.
* `Reconciled`, from an invariant of the process: while it starts no task or request runs, so
  a run that is active is still in `stale`.
* `CancelledWasAsked`, from `AskedInv`: a cancelled row, a run in `explicit` and a task that
  finalizes a cancellation all belong to a run some cancel call is about.
* `OrphansHaveCauses`, from `OrphanInv`, which joins the invariants above and counts hits: a
  task in a handler has used one, a pending cancellation has used one, and an active run without
  task and without hits is one whose request is still at work or failed after its commit
  (`Abandoned`).
* `Implementation`: every step maps to a step of `RunContract` or to a stutter; `Accept` needs
  the invariant of `OneActivePerThread`.

`RunEvents_proofs`:

* `WriterTypeCorrect`, strengthened by what the types rest on: a fragment that is being added
  has been received, late commands are never done events, a shutdown only closes the buffer.
* `StreamStaysOrdered`: each command appends above the last sequence or changes nothing.
* `DoneStaysCommitted`, from `DoneInv`: only a task with a finished row calls `append_done`,
  and a finished row never changes (`RowStep`). Uniqueness follows from the order of the ids.
* `TextIsBeforeEvent`, from `TextInv`. Text may be repeated, so "all text so far" is said as
  *growing* (each fragment is the first, occurs before, or follows an earlier one by one) and
  *reaching* the last fragment; `GrowsCovers` turns both into "every fragment, in order". The
  buffer continues the output; in the task's body output and buffer have reached what was
  received; when an event is due the buffer is empty; and a command that arrives late fits the
  stream whenever it arrives, because nothing is ever removed from a stream.

`RunFollowers_proofs`:

* `FollowersOnlyRead`: a step of writer and follower is a step of the writer or changes nothing
  the writer sees, so `RunFollowers` implements `RunEvents` and inherits its theorems
  (`FollowedStreamOrdered`, `FollowedDoneCommitted`, `FollowedTextBeforeEvent`).
* `FollowTypeCorrect`, `ScreenFollowsStream`, `StopsWhenFinished`, from `FollowInv`: the output
  string is the text of the stream, a follower that counts on the stream is not ahead of it,
  and between the two reads of its snapshot nothing was appended unless that is counted as a
  slip. A browser that was turned away has "left", and `StopsWhenFinished` is about those that
  were not. The lemmas beneath are about the text of a stream up to a cursor: that it is the
  concatenation of its entries, what an append adds to it, and that the next entry above a
  cursor moves both together.
* `CompletedRunKeepsText`, for any number of lost replies, retries, late commands, cancellations
  and crashes, from `TextInv`: only the task's body completes a run, with an empty buffer.
* `FinalOutputMatchesStream`, under `MaxStoreFaults = 0`, `MaxLate = 0` and `MaxCancels <= 1`;
  `BatchingKeepsText`, also under `MaxCancels = 0`. These are the hypotheses of the run
  `stream_quiet`, and they are needed: a lost reply is retried and repeats a text, and an
  interrupted flush publishes its batch again (`stream_text_twice`). With two cancellations
  `FinalOutputIsStream` is false as well: a handler cancelled while the timer publishes, and then
  a direct cancel, commit an output the late publish is missing from.

`MemoryReflection_proofs`, each invariant on top of the one before:

* `MemoryTypeCorrect`, from `TypeInv`, which adds that whoever holds the lock has a target.
* `StoresStayTogether`, from `StoreInv`: a memory that is neither torn nor between the two
  writes of the lock's holder has both parts together; the holder's row is one version above
  the stored one; what was stored is what the row will say.
* `HandWins`, from `TimeInv`: whatever a job may still write was captured after the last change
  by hand, because the check happens under the lock that every change by hand takes, and the
  row carries the time of that change across deletions.
* `JobTableIsTrue`, from `JobInv`: which jobs have committed, by where the worker is.
* `MemoryImplementation`: every step maps to a step of `MemoryContract` or to a stutter. Besides
  the invariants above it needs two more. `RowsInv` says that what the lock's holder is about to
  commit is newer than what is committed, of every memory for its time and of its own for its
  version: a change by hand takes its time under the lock, so their times ascend in the order of
  the commits. `FreshInv` says that no row and no item names a job that has written nothing yet,
  so the branch that confirms an earlier write, which would commit without a new version, is
  never taken.

`FileIngestion_proofs`:

* `ContentHasOneRow`, from `ContentInv`: an upload that found no file of its content still
  finds none at its insert, unless the content was raced or another file revived with it.
* `FilesTypeCorrect`, from `ShapeInv`: where a request is tells its operation (`Fits`), a process
  that is down has no requests and an empty queue, and a row is shown as being indexed only while
  the worker works on it, the process is down, or an exception lost it.
* `PartsOfFileAgree`, from `PartsInv`. The property is about a file at rest; `Held` says what is
  true while a request or the worker is between two of its writes: who deletes has it deleted,
  nobody will write a deleted file again, the chunks are those of what the worker holds, and a
  ready file is found by its chunks or something is on its way to mend it. All of it holds unless
  the file is `torn`. `HashInv` is the part about the hash: it differs from the object's only
  between the two writes of an edit, or in a crossed file. One lemma says that steps elsewhere
  keep it (`ElsewhereKeeps`), so that each action is proved only for its own file.

`ConversationTurn_proofs`:

* `ModelIsKept` and `QuestionsAreOpen`, from `TurnInv` (exactly the run whose graph works holds
  the lock) and `CkInv`. Both properties are about a thread at rest; `CkInv` says what holds
  meanwhile: the only run that may enter the graph carries what the checkpoint pins, a run in
  the graph has no pending question, and past the entry a workflow is active. One lemma per
  group of nodes shows that they go on, ask, or end accordingly.
* `TurnTypeCorrect`, `LatestIsCurrent`, `ReportIsTrue` and `PlanIsPresent`, from `WorkInv`, whose
  parts are about the rows (a root is an earlier row or the row itself and has one type), what
  is shown (one row of a type, above every other ready row of its root), the catalog (while a
  revision may still be asked for, clarified or prepared, what it lists tops its root), the jobs
  (one for exactly the types of the fan-out; a row at work tops its root), the report (what was
  told is what the rows say; a running row has a job at work or was cut short) and the plan
  (whoever plans has the experience of the present task, or none).

`ThreadHistory_proofs`: `ThreadIsKept`, from `HistoryInv`.

* About the messages alone (`MessagesInv`): a call, its reply, and an attachment and its message
  are said together (`SaidWhole`), no history begins with a reply (`RepliesHeld`), and between two
  summaries stands a message of the user, with one more behind the last when there is enough to
  compress (`SummariesApart`). With `NothingForgotten`, which makes the history an ascending list
  closed upwards, every call in it is followed by its reply (`Paired`); unless one is nameless
  (`AllNamed`), a view of such a history is accepted. Hence the boundaries are
  the places not behind a call, and no view cuts an exchange (`RecentIsWhole`, `RestIsPaired`).
* `CompressKeeps`: the cut is just before a message of the user with `KeepTurns` from it on, so
  that each summary that stays is matched with another of them, never with the first
  (`FewSummariesStay`), and the new summary makes at most `KeepTurns`.
* `InputHeld` and `WindowHeld` say where the user's last input and the input that opened the task
  are. `TaskStartIs` derives from the first that a new task begins with the last input and its
  attachments; compression cannot move the window, because it runs only when no interrupt
  waits, and the task is over then.

`Parts_proofs`:

* `RegisteredIsOwn`, from `WorkspaceInv`: who may have a tool at work (`ToolsInv`), files are
  stamped no later than the clock and those of an output directory by their job (`FilesInv`),
  and what differs from the snapshot was written by the present job or by one that outlived its
  cancellation (`SnapshotInv`).
* `ShownExperienceIsUsable`, from `RetrievalInv`: what is still to be read is a candidate, once,
  and there is room for it; what was read was there at the choice and is no older than then.
* `AttachmentsAreShown`, from `AnalysisInv`: at each call the card shows the step of that call
  as running and tells the truth about the others, and the sections so far are those of the
  documents, if there were any, and of the videos already finished, in order.
* `RolesResolve`. The code resolves recursively; the model visits all roles seven times, each
  visit reading the one before (`Level0` to `Level7`). A visit is monotone, so what is resolved
  stays as it is; a visit that resolves nothing new is a fixpoint, and seven roles allow no more
  than seven visits that do (`GrowsOrRests`), which makes a resolved configuration a fixpoint that
  obeys every binding (`LoadIs`). `Obeyed` follows the chains of the file, `Extends` says that the
  environment's roles change none of them, `BorrowedFromOwner` follows the candidates of a role
  nobody binds, and `NeededAreBound` with `EnvHasItsSecrets` turns a refused start into one of
  the reasons the property names.

Inductions over data are done without the library's induction theorems: over the entries of
a stream, the attachments of a message and the places of a view by the least counterexample,
over recursion by named levels.

Model-checked only: liveness, which is out of the prover's reach.

## 5. What is not modelled

* Redis key expiry, `cleanup`, malformed entries. Active keys live a day; a longer run would
  lose its metadata, its sequences would start again at 1 and followers would miss events
  (`APP/core/chat_run_events.py:53`).
* Several backend processes: the repository requires a single worker
  (`src/docs/chat-run-disconnect-resume-mvp.md`, "单 FastAPI worker").
* In `RunEvents`, a run refused by `schedule` and the finalization race of two writers on one
  row: the row side of both is in `ChatRuns`; in the stream they call the same `append_done`.
* A cancellation that arrives inside `direct` or `restart` processing; a disconnecting client
  there has the effect of a crash of that request.
* The reading of the row before a cancel is answered, ownership checks and observation calls,
  which change no modelled state; the rendering of progress, artifacts, approvals, suggestions.
* Memory: adoption of a configuration by rows of older versions, shadow mode (it ends like a
  job without a change), `wait_for_source_run_jobs`, `list_memories`. A job whose failure
  cannot be recorded stays running until the next start (`APP/core/memory_worker.py:248`;
  `excused`).
* Files: attachments and voice uploads, downloads and previews.
* Turns: workflow and interrupt ids and their comparison, snapshots of older versions,
  suggestions, OnlyOffice edits of artifacts.
* Experiences: `required` and `bypass`, which no caller sets; `MemoryResolutionCache`, of
  which every `ModelContext` has its own, so that no two requests wait for one result.
* Models: validation of parameters and endpoints and of the form of variables (timeouts and
  modes are taken to be well formed), the thinking switches, the cache of clients and its close.
  A binding with a model the file lacks, and a file that cannot be read or violates its schema, are
  one invalid binding (`Unclear`).
* Workspaces: `run_skill_script` (`APP/core/skills.py:571`), whose scripts run on the host and
  may write where their arguments say; processes that code started and that go on writing after
  a timeout killed their parent (`APP/core/workspace.py:423`), which act as a tool that outlives
  its job; checks of paths and sizes, the sandbox service and the reuse of its names, two
  `load_skill` calls in one answer of a model (they update one channel without a reducer; what
  the library does then is external).
* Attachments: the tools' own progress steps, graph steps beyond the first, temporary files.
* Auth, plans, sessions, migrations, parsing of documents and skills, office checks, bundled
  scripts: single statements, I/O, or code that keeps no state.

## 6. Plan

Done: the lifecycle, the stream and its followers; memory and its contract, files, turns,
history, workspaces, roles, retrieval, attachments; theorems about every invariant and action
property the passing runs check, and about the three refinements. What is left:

1. Expiry as an action of `RunEvents`, once its effect on followers is bounded.
