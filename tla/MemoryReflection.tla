-------------------------- MODULE MemoryReflection --------------------------
(***************************************************************************)
(* The long-term memories of one user: the reflection jobs registered when *)
(* a run is finalized, the worker that executes them, and the guarded      *)
(* mutations of memories, made by hand (POST, PUT, DELETE /memory) or by a *)
(* job (core/memory_worker.py, services/memory_reflection_service.py,      *)
(* services/memory_service.py, core/memory.py, api/memory.py).             *)
(*                                                                         *)
(* A memory is an item of the LangGraph store and a guard row in           *)
(* PostgreSQL.  The item is written first, on another connection, the row  *)
(* is committed afterwards, both under the user's advisory lock; a process *)
(* or request that ends in between leaves them different.                  *)
(***************************************************************************)
EXTENDS Naturals, FiniteSets

CONSTANTS
  Jobs,        \* reflection jobs; a job that creates a memory gives it its own id
  Named,       \* ids of memories created by hand
  Texts,       \* contents
  NoJob,       \* "no job" in last_applied_job_id
  MaxManual,   \* bound on mutations by hand
  MaxErrors,   \* bound on exceptions, in the worker and in requests
  MaxHalts     \* bound on ends of the process

ASSUME MemoryAssumption ==
  /\ Jobs \cap Named = {}
  /\ NoJob \notin Jobs
  /\ Texts # {}
  /\ {MaxManual, MaxErrors, MaxHalts} \subseteq Nat

VARIABLES
  job,       \* memory_reflection_jobs.status, and what precedes and follows the row
  captured,  \* captured_at of a job's evidence
  guard,     \* memory_mutation_guards
  item,      \* the store's items
  lock,      \* who holds the user's advisory lock
  worker,    \* the worker: where it is, its job and its proposal
  manual,    \* the request that mutates a memory
  clock,     \* time of the last capture or mutation by hand
  seen,      \* ids that have been in the store, which a client may know
  answered,  \* when the last mutation by hand that was answered was made
  applied,   \* jobs whose write was committed
  torn,      \* memories whose item was written by a transaction that did not commit
  excused,   \* jobs whose status this process failed to record
  manuals, errors, halts

jobVars == <<job, captured>>
memoryVars == <<guard, item, lock>>
historyVars == <<seen, answered, applied, torn, excused>>
boundVars == <<manuals, errors, halts>>
vars == <<job, captured, guard, item, lock, worker, manual, clock, seen, answered,
          applied, torn, excused, manuals, errors, halts>>

Memories == Named \cup Jobs
Terminal == {"succeeded", "skipped", "failed"}

NoRow  == [version |-> 0, deleted |-> FALSE, manualAt |-> 0, by |-> NoJob, row |-> FALSE]
NoItem == [version |-> 0, by |-> NoJob, text |-> "absent"]
Present(m) == item[m] # NoItem

Noop == [op |-> "noop", target |-> NoJob, base |-> 0, text |-> "absent"]
Rest(where) == [pc |-> where, job |-> NoJob, proposal |-> Noop]
NoRequest == [pc |-> "none", op |-> "none", target |-> NoJob, text |-> "absent",
              guard |-> NoRow]

Init ==
  /\ job = [j \in Jobs |-> "unborn"]
  /\ captured = [j \in Jobs |-> 0]
  /\ guard = [m \in Memories |-> NoRow]
  /\ item = [m \in Memories |-> NoItem]
  /\ lock = "free"
  /\ worker = Rest("idle")
  /\ manual = NoRequest
  /\ clock = 0
  /\ seen = {} /\ applied = {} /\ torn = {} /\ excused = {}
  /\ answered = [m \in Memories |-> 0]
  /\ manuals = 0 /\ errors = 0 /\ halts = 0

Up == worker.pc # "down"

-----------------------------------------------------------------------------
\* Registration

\* _finalize_run builds the candidate; captured_at is this moment
Capture(j) ==
  /\ Up
  /\ job[j] = "unborn"
  /\ job' = [job EXCEPT ![j] = "captured"]
  /\ captured' = [captured EXCEPT ![j] = clock + 1]
  /\ clock' = clock + 1
  /\ UNCHANGED <<memoryVars, worker, manual, historyVars, boundVars>>

\* The transaction that finalizes the run inserts the job, unless another writer
\* finalized the run first or the transaction fails.
Register(j) ==
  /\ Up
  /\ job[j] = "captured"
  /\ \E s \in {"pending", "dropped"} : job' = [job EXCEPT ![j] = s]
  /\ UNCHANGED <<captured, memoryVars, worker, manual, clock, historyVars, boundVars>>

-----------------------------------------------------------------------------
\* Mutations

\* the guard row of a memory, or the one made from the store's item
Guard(m) ==
  IF guard[m].row THEN guard[m]
  ELSE [NoRow EXCEPT !.version = item[m].version, !.by = item[m].by, !.row = TRUE]

FaultyManualGuard(op, g, now) ==
  [g EXCEPT !.version = @ + 1, !.deleted = (op = "delete"), !.by = NoJob]

\* what a mutation by hand makes of the guard row
ManualGuard(op, g, now) ==
  [g EXCEPT !.version = @ + 1, !.deleted = (op = "delete"), !.manualAt = now,
            !.by = NoJob]

\* the request has the lock and the guard row; the time of the mutation is now
ManualBegin(op, m, t) ==
  /\ Up
  /\ manual.pc = "none"
  /\ manuals < MaxManual
  /\ lock = "free"
  /\ lock' = "manual"
  /\ manuals' = manuals + 1
  /\ clock' = clock + 1
  /\ manual' = [pc |-> "locked", op |-> op, target |-> m, text |-> t,
                guard |-> ManualGuard(op, Guard(m), clock + 1)]
  /\ UNCHANGED <<jobVars, guard, item, worker, historyVars, errors, halts>>

\* POST takes a new id; PUT and DELETE take any id a client has seen
CreateManual(m, t) == m \in Named \ seen /\ ManualBegin("write", m, t)
UpdateManual(m, t) == m \in seen /\ ManualBegin("write", m, t)
DeleteManual(m) == m \in seen /\ ManualBegin("delete", m, "absent")

\* put_memory_item or delete_memory_item, on the store's own connection
ManualStore ==
  LET m == manual.target IN
  /\ manual.pc = "locked"
  /\ IF manual.op = "delete"
       THEN item' = [item EXCEPT ![m] = NoItem] /\ UNCHANGED seen
       ELSE /\ item' = [item EXCEPT ![m] = [version |-> manual.guard.version,
                                            by |-> NoJob, text |-> manual.text]]
            /\ seen' = seen \cup {m}
  /\ manual' = [manual EXCEPT !.pc = "stored"]
  /\ UNCHANGED <<jobVars, guard, lock, worker, clock, answered, applied, torn, excused,
                 boundVars>>

\* the transaction commits, which frees the lock, and the request is answered
ManualCommit ==
  LET m == manual.target IN
  /\ manual.pc = "stored"
  /\ guard' = [guard EXCEPT ![m] = manual.guard]
  /\ lock' = "free"
  /\ manual' = NoRequest
  /\ answered' = [answered EXCEPT ![m] = manual.guard.manualAt]
  /\ torn' = torn \ {m}
  /\ UNCHANGED <<jobVars, item, worker, clock, seen, applied, excused, boundVars>>

\* the request fails or loses its client: the transaction is rolled back
ManualFails ==
  /\ manual.pc # "none"
  /\ errors < MaxErrors
  /\ errors' = errors + 1
  /\ lock' = "free"
  /\ manual' = NoRequest
  /\ torn' = IF manual.pc = "stored" THEN torn \cup {manual.target} ELSE torn
  /\ UNCHANGED <<jobVars, guard, item, worker, clock, seen, answered, applied, excused,
                 manuals, halts>>

-----------------------------------------------------------------------------
\* The worker

\* cleanup_terminal, before a poll: rows past their retention are deleted
Cleanup ==
  /\ worker.pc = "idle"
  /\ \E j \in Jobs :
       job[j] \in Terminal /\ job' = [job EXCEPT ![j] = "purged"]
  /\ UNCHANGED <<captured, memoryVars, worker, manual, clock, historyVars, boundVars>>

\* take_next: the oldest pending job becomes running
Take ==
  /\ worker.pc = "idle"
  /\ \E j \in Jobs :
       /\ job[j] = "pending"
       /\ \A k \in Jobs : job[k] = "pending" => captured[j] <= captured[k]
       /\ job' = [job EXCEPT ![j] = "running"]
       /\ worker' = [Rest("taken") EXCEPT !.job = j]
  /\ UNCHANGED <<captured, memoryVars, manual, clock, historyVars, boundVars>>

\* _tool_call_to_proposal: nothing, a new memory, or an update of a memory the
\* extraction read, based on the version its item had then
Proposals ==
  {Noop}
  \cup [op : {"create"}, target : {worker.job}, base : {0}, text : Texts]
  \cup UNION {[op : {"update"}, target : {m}, base : {item[m].version}, text : Texts] :
               m \in {n \in Memories : Present(n)}}

\* the store is read and the model called, without the lock
Extract ==
  /\ worker.pc = "taken"
  /\ \E p \in Proposals :
       worker' = [worker EXCEPT !.proposal = p,
                                !.pc = IF p = Noop THEN "skipped" ELSE "proposed"]
  /\ UNCHANGED <<jobVars, memoryVars, manual, clock, historyVars, boundVars>>

FaultyOutdated(j, p, g) ==
  g.deleted \/ (p.op = "update" /\ p.base # g.version)

\* what makes an automatic mutation stale: a mutation by hand after the evidence
\* was captured, a deletion, or another version than the one it is based on
Outdated(j, p, g) ==
  \/ g.manualAt > captured[j]
  \/ g.deleted
  \/ p.op = "update" /\ p.base # g.version

\* a memory with this content exists
Duplicate(p) ==
  /\ p.op = "create"
  /\ \E m \in Memories \ {p.target} : item[m].text = p.text

\* the write the job has already made is confirmed in the guard row
Confirmed(g, m, j) ==
  IF g.by = j THEN g
  ELSE [g EXCEPT !.version = IF @ < item[m].version THEN item[m].version ELSE @,
                 !.by = j, !.deleted = FALSE]

\* Under the lock apply_automatic decides.  A write the job has already made is only
\* confirmed; a duplicate or an outdated proposal is rolled back.
Decide ==
  LET j == worker.job
      p == worker.proposal
      m == p.target
      already == Guard(m).by = j \/ item[m].by = j
  IN
  /\ worker.pc = "proposed"
  /\ lock = "free"
  /\ IF already
       THEN /\ guard' = [guard EXCEPT ![m] = Confirmed(Guard(m), m, j)]
            /\ worker' = [worker EXCEPT !.pc = "succeeded"]
            /\ applied' = applied \cup {j}
            /\ UNCHANGED lock
       ELSE /\ UNCHANGED <<guard, applied>>
            /\ IF Duplicate(p) \/ Outdated(j, p, Guard(m))
                 THEN worker' = [worker EXCEPT !.pc = "skipped"] /\ UNCHANGED lock
                 ELSE worker' = [worker EXCEPT !.pc = "locked"] /\ lock' = "worker"
  /\ UNCHANGED <<jobVars, item, manual, clock, seen, answered, torn, excused, boundVars>>

\* put_memory_item
AutomaticStore ==
  LET m == worker.proposal.target IN
  /\ worker.pc = "locked"
  /\ item' = [item EXCEPT ![m] = [version |-> Guard(m).version + 1, by |-> worker.job,
                                  text |-> worker.proposal.text]]
  /\ seen' = seen \cup {m}
  /\ worker' = [worker EXCEPT !.pc = "stored"]
  /\ UNCHANGED <<jobVars, guard, lock, manual, clock, answered, applied, torn, excused, boundVars>>

FaultyAutomaticGuard(g, j) == [g EXCEPT !.by = j, !.row = TRUE, !.deleted = FALSE]

\* what an automatic mutation makes of the guard row
AutomaticGuard(g, j) ==
  [g EXCEPT !.version = item[worker.proposal.target].version, !.by = j, !.row = TRUE,
            !.deleted = FALSE]

AutomaticCommit ==
  LET m == worker.proposal.target IN
  /\ worker.pc = "stored"
  /\ guard' = [guard EXCEPT ![m] = AutomaticGuard(@, worker.job)]
  /\ lock' = "free"
  /\ applied' = applied \cup {worker.job}
  /\ torn' = torn \ {m}
  /\ worker' = [worker EXCEPT !.pc = "succeeded"]
  /\ UNCHANGED <<jobVars, item, manual, clock, seen, answered, excused, boundVars>>

\* _finish and fail: only the row of a running job takes a terminal status
Recorded(s) ==
  IF job[worker.job] = "running" THEN [job EXCEPT ![worker.job] = s] ELSE job

\* succeed or skip
Finish ==
  /\ worker.pc \in {"succeeded", "skipped"}
  /\ job' = Recorded(worker.pc)
  /\ worker' = [worker EXCEPT !.pc = "finished"]
  /\ UNCHANGED <<captured, memoryVars, manual, clock, historyVars, boundVars>>

\* the outcome is logged and the next poll begins
Done ==
  /\ worker.pc = "finished"
  /\ worker' = Rest("idle")
  /\ UNCHANGED <<jobVars, memoryVars, manual, clock, historyVars, boundVars>>

FaultyReleased == lock

\* the transaction of the worker is rolled back
Released == IF lock = "worker" THEN "free" ELSE lock

\* Any step may raise, also after it took effect; the transaction is rolled back and
\* the Exception handler is next.
WorkerFails ==
  /\ worker.pc \in {"taken", "proposed", "locked", "stored", "succeeded", "skipped",
                    "finished"}
  /\ errors < MaxErrors
  /\ errors' = errors + 1
  /\ lock' = Released
  /\ torn' = IF worker.pc = "stored" THEN torn \cup {worker.proposal.target} ELSE torn
  /\ worker' = [worker EXCEPT !.pc = "failing"]
  /\ UNCHANGED <<jobVars, guard, item, manual, clock, seen, answered, applied, excused,
                 manuals, halts>>

\* the handler records the failure
Fail ==
  /\ worker.pc = "failing"
  /\ job' = Recorded("failed")
  /\ worker' = Rest("idle")
  /\ UNCHANGED <<captured, memoryVars, manual, clock, historyVars, boundVars>>

\* the handler raises too, or take_next raises after its commit: _run logs the
\* exception and polls on
LoseJob ==
  /\ worker.pc \in {"taken", "failing"}
  /\ errors < MaxErrors
  /\ errors' = errors + 1
  /\ excused' = excused \cup {worker.job}
  /\ worker' = Rest("idle")
  /\ UNCHANGED <<jobVars, memoryVars, manual, clock, seen, answered, applied, torn,
                 manuals, halts>>

-----------------------------------------------------------------------------
\* The process

\* A crash, or a shutdown, whose stop() gives the job in progress five seconds and
\* then cancels it.  Open transactions are rolled back; a candidate is lost.
Halt ==
  /\ Up
  /\ halts < MaxHalts
  /\ halts' = halts + 1
  /\ job' = [j \in Jobs |-> IF job[j] = "captured" THEN "dropped" ELSE job[j]]
  /\ lock' = "free"
  /\ torn' = torn \cup (IF manual.pc = "stored" THEN {manual.target} ELSE {})
                  \cup (IF worker.pc = "stored" THEN {worker.proposal.target} ELSE {})
  /\ worker' = Rest("down")
  /\ manual' = NoRequest
  /\ excused' = {}
  /\ UNCHANGED <<captured, guard, item, clock, seen, answered, applied, manuals, errors>>

FaultyInterrupted == job

\* fail_interrupted
Interrupted == [j \in Jobs |-> IF job[j] = "running" THEN "failed" ELSE job[j]]

\* the next start: interrupted jobs are failed before the worker runs
Restart ==
  /\ worker.pc = "down"
  /\ job' = Interrupted
  /\ worker' = Rest("idle")
  /\ UNCHANGED <<captured, memoryVars, manual, clock, historyVars, boundVars>>

\* _start_memory_reflection_worker swallows an exception of start(): no worker
StartFails ==
  /\ worker.pc = "down"
  /\ errors < MaxErrors
  /\ errors' = errors + 1
  /\ worker' = Rest("absent")
  /\ UNCHANGED <<jobVars, memoryVars, manual, clock, historyVars, manuals, halts>>

-----------------------------------------------------------------------------
RequestStep == ManualStore \/ ManualCommit
WorkerStep ==
  \/ Take \/ Extract \/ Decide \/ AutomaticStore \/ AutomaticCommit
  \/ Finish \/ Done \/ Fail

Next ==
  \/ \E j \in Jobs : Capture(j) \/ Register(j)
  \/ \E m \in Memories : \/ \E t \in Texts : CreateManual(m, t) \/ UpdateManual(m, t)
                         \/ DeleteManual(m)
  \/ RequestStep \/ ManualFails
  \/ Cleanup \/ WorkerStep \/ WorkerFails \/ LoseJob
  \/ Halt \/ Restart \/ StartFails

Spec == Init /\ [][Next]_vars

\* Database, store and model calls return or time out, requests and the worker are
\* coroutines of one event loop, and the container is restarted
\* (docker-compose: restart: unless-stopped).  Waiting for the lock is fair: the
\* server queues advisory locks.
Fairness ==
  /\ WF_vars(RequestStep)
  /\ WF_vars(WorkerStep /\ ~Decide)
  /\ SF_vars(Decide)
  /\ WF_vars(Restart)

FairSpec == Spec /\ Fairness

-----------------------------------------------------------------------------
GuardRows == [version : Nat, deleted : BOOLEAN, manualAt : Nat, by : Jobs \cup {NoJob},
              row : BOOLEAN]
Items == [version : Nat, by : Jobs \cup {NoJob}, text : Texts \cup {"absent"}]

\* the types, and what the fields of the lock's holders say of each other
TypeOK ==
  /\ job \in [Jobs -> {"unborn", "captured", "dropped", "pending", "running", "purged"}
                        \cup Terminal]
  /\ captured \in [Jobs -> Nat]
  /\ guard \in [Memories -> GuardRows]
  /\ item \in [Memories -> Items]
  /\ lock \in {"free", "worker", "manual"}
  /\ worker.pc \in {"down", "absent", "idle", "taken", "proposed", "locked", "stored",
                    "succeeded", "skipped", "finished", "failing"}
  /\ worker.pc \notin {"down", "absent", "idle"} => worker.job \in Jobs
  /\ worker.pc \in {"locked", "stored"} <=> lock = "worker"
  /\ manual.pc \in {"none", "locked", "stored"}
  /\ manual.pc # "none" <=> lock = "manual"
  /\ clock \in Nat

\* What a user was told stays done: an item written by a job is never one whose
\* memory the user changed or deleted, with an answer, after the job's evidence was
\* captured, whatever the worker read in between and wherever a process ended.
ManualWins ==
  \A m \in Memories : item[m].by \in Jobs => answered[m] < captured[item[m].by]

\* The two databases agree on every memory nobody is mutating, unless the last
\* mutation of it lost its transaction after writing the item; then the item is at
\* most one version ahead, and the next mutation that commits repairs it.
StoresAgree ==
  \A m \in Memories :
    /\ item[m].version <= Guard(m).version + 1
    /\ lock = "free" /\ m \notin torn =>
         /\ guard[m].row => (Present(m) <=> ~guard[m].deleted)
         /\ Present(m) => /\ guard[m].row
                          /\ item[m].version = guard[m].version
                          /\ item[m].by = guard[m].by

\* The job table tells what happened: a running job is the worker's, unless the worker
\* is down, did not start, or failed to record the job's end; succeeded means that the
\* write was committed, and skipped that there was none.
JobsTellWhatHappened ==
  \A j \in Jobs :
    /\ job[j] = "running" => \/ worker.pc \in {"down", "absent"}
                             \/ worker.job = j
                             \/ j \in excused
    /\ job[j] = "succeeded" => j \in applied
    /\ job[j] = "skipped" => j \notin applied

\* What the guard rows keep of the memories, the times of capture and the committed jobs
\* behave as the service promises, whatever the items, the lock and the processes go through.
Committed == [m \in Memories |-> [version |-> guard[m].version, deleted |-> guard[m].deleted,
                                 changed |-> guard[m].manualAt, by |-> guard[m].by]]

Contract == INSTANCE MemoryContract
              WITH Nobody <- NoJob, memory <- Committed, evidence <- captured, written <- applied

ImplementsContract == Contract!Spec

\* Every registered job is finished, whatever requests hold the lock and however often
\* the process ends, unless no worker could be started or its end could not be recorded.
JobSettles ==
  \A j \in Jobs : job[j] = "pending" ~>
    (job[j] \in Terminal \cup {"purged"} \/ j \in excused \/ worker.pc = "absent")
=============================================================================
