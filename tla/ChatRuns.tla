------------------------------ MODULE ChatRuns ------------------------------
(***************************************************************************)
(* The lifecycle of durable chat runs in one backend process: the create   *)
(* and cancel handlers of api/chat.py, the tasks of ChatRunManager         *)
(* (core/chat_runs.py) and the row transactions of chat_run_service.       *)
(*                                                                         *)
(* Every await is a point where another handler or task may run and where  *)
(* a CancelledError may be delivered; every database transaction is one    *)
(* step, except the one that creates a run, whose three statements are     *)
(* separate steps under the session-row lock.  The process may crash or    *)
(* stop at any point and is started again.  The Redis event stream that    *)
(* the same code writes is the subject of RunEvents.                       *)
(***************************************************************************)
EXTENDS Naturals, FiniteSets

CONSTANTS
  Runs,         \* runs that clients may create; each is also its create request
  Threads,      \* conversation threads
  ThreadOf,     \* the thread of each run
  Cancellers,   \* calls of the cancel endpoint
  Nobody,       \* the holder of a session row that is not locked
  MaxRestarts,  \* bound on crashes and shutdowns, together
  MaxFaults     \* bound on exceptions raised inside the task of one run

ASSUME RunsAssumption ==
  /\ ThreadOf \in [Runs -> Threads]
  /\ Nobody \notin Runs
  /\ MaxRestarts \in Nat
  /\ MaxFaults \in Nat

VARIABLES
  \* agent_runs and sessions, in PostgreSQL: they survive a crash
  status,      \* the status column of each run, "absent" before the insert
  rowLock,     \* the create request that holds the session row of each thread
  \* the process
  proc,        \* where the application's lifespan is
  stale,       \* the runs ChatRunManager.start has still to reconcile
  req,         \* where each create request is
  task,        \* where each run's task is; "none" when there is no live task
  outcome,     \* the terminal status the body of _execute_run settled on
  cancelling,  \* runs whose task has a CancelledError to be delivered
  explicit,    \* ChatRunManager._explicit_cancellations
  call,        \* where each cancel request is
  target,      \* the run each cancel request is about
  \* observation and bounds
  asked,       \* task.cancel() calls made for each run by cancel requests
  faults,      \* exceptions raised in each run's task
  restarts     \* crashes and shutdowns so far

rowVars  == <<status, rowLock>>
taskVars == <<task, outcome, cancelling, explicit>>
callVars == <<call, target, asked>>
vars == <<status, rowLock, proc, stale, req, task, outcome, cancelling,
          explicit, call, target, asked, faults, restarts>>

ActiveStatuses   == {"queued", "running"}
FinishedStatuses == {"waiting_approval", "succeeded", "failed", "cancelled"}
Statuses         == {"absent"} \cup ActiveStatuses \cup FinishedStatuses

\* the statuses the body of _execute_run may end with
Outcomes == {"waiting_approval", "succeeded", "failed"}

\* try body of _execute_run, its CancelledError handler, its Exception handler
BodySteps   == {"marking", "executing", "finalizing", "publishing"}
CancelSteps == {"cancel_entry", "cancel_finalizing", "cancel_publishing"}
FailSteps   == {"fail_entry", "fail_finalizing", "fail_publishing"}
TaskSteps   == {"none", "created"} \cup BodySteps \cup CancelSteps \cup FailSteps

Active(r) == status[r] \in ActiveStatuses
Live(r)   == task[r] # "none"

FaultyServing == proc = "up"

\* the event loop runs, and tasks and handlers with it
Serving == proc \in {"up", "stopping"}

Siblings(r) == {s \in Runs \ {r} : ThreadOf[s] = ThreadOf[r]}

-----------------------------------------------------------------------------
(* chat_run_service: the row transactions                                  *)

\* (the definitions whose names begin with Faulty are not the code: each is a
\* plausible defect of the definition after it, which a property must detect)
FaultyFinalizedRunning(r, s) ==
  IF status[r] = "running" THEN [status EXCEPT ![r] = s] ELSE status
FaultyFinalizedUnchecked(r, s) ==
  IF Active(r) THEN [status EXCEPT ![r] = "done"] ELSE status

\* finalize_chat_run: under the row lock, the first terminal status wins
Finalized(r, s) ==
  IF Active(r) THEN [status EXCEPT ![r] = s] ELSE status

FaultyMarkedRunning(r) == [status EXCEPT ![r] = "running"]

\* mark_chat_run_running: only a queued run becomes running
MarkedRunning(r) ==
  IF status[r] = "queued" THEN [status EXCEPT ![r] = "running"] ELSE status

FaultyStaleRuns == {r \in Runs : status[r] = "running"}

\* list_stale_chat_runs
StaleRuns == {r \in Runs : Active(r)}

Init ==
  /\ status = [r \in Runs |-> "absent"]
  /\ rowLock = [t \in Threads |-> Nobody]
  /\ proc = "starting"
  /\ stale = {}
  /\ req = [r \in Runs |-> "idle"]
  /\ task = [r \in Runs |-> "none"]
  /\ outcome = [r \in Runs |-> "failed"]
  /\ cancelling = {}
  /\ explicit = {}
  /\ call = [c \in Cancellers |-> "idle"]
  /\ target \in [Cancellers -> Runs]
  /\ asked = [r \in Runs |-> 0]
  /\ faults = [r \in Runs |-> 0]
  /\ restarts = 0

-----------------------------------------------------------------------------
(* POST /chat/runs                                                         *)

FaultySessionRowFree(r) == TRUE

\* what SELECT ... FOR UPDATE waits for
SessionRowFree(r) == rowLock[ThreadOf[r]] = Nobody

\* SELECT the session row FOR UPDATE
CreateLock(r) ==
  /\ proc = "up"
  /\ req[r] = "idle"
  /\ SessionRowFree(r)
  /\ rowLock' = [rowLock EXCEPT ![ThreadOf[r]] = r]
  /\ req' = [req EXCEPT ![r] = "locked"]
  /\ UNCHANGED <<status, proc, stale, taskVars, callVars, faults, restarts>>

\* SELECT the active run of the thread: 409 and rollback if there is one
CreateCheck(r) ==
  /\ Serving
  /\ req[r] = "locked"
  /\ IF \E s \in Siblings(r) : Active(s)
       THEN /\ req' = [req EXCEPT ![r] = "rejected"]
            /\ rowLock' = [rowLock EXCEPT ![ThreadOf[r]] = Nobody]
       ELSE /\ req' = [req EXCEPT ![r] = "checked"]
            /\ UNCHANGED rowLock
  /\ UNCHANGED <<status, proc, stale, taskVars, callVars, faults, restarts>>

\* INSERT the queued row and COMMIT, which releases the session row; when the
\* reply of the commit is lost the request fails although the row is there
CreateInsert(r) ==
  /\ Serving
  /\ req[r] = "checked"
  /\ status' = [status EXCEPT ![r] = "queued"]
  /\ rowLock' = [rowLock EXCEPT ![ThreadOf[r]] = Nobody]
  /\ \E reply \in {"inserted", "failed"} : req' = [req EXCEPT ![r] = reply]
  /\ UNCHANGED <<proc, stale, taskVars, callVars, faults, restarts>>

\* A statement raises, and nothing schedules the run: before the commit the
\* session rolls back, after it (the refresh) the queued row stays.
CreateFails(r) ==
  /\ Serving
  /\ req[r] \in {"locked", "checked", "inserted"}
  /\ req' = [req EXCEPT ![r] = "failed"]
  /\ rowLock' = [t \in Threads |-> IF rowLock[t] = r THEN Nobody ELSE rowLock[t]]
  /\ UNCHANGED <<status, proc, stale, taskVars, callVars, faults, restarts>>

\* ChatRunManager.schedule: creates the task, whose first step has not run
Schedule(r) ==
  /\ proc = "up"
  /\ req[r] = "inserted"
  /\ req' = [req EXCEPT ![r] = "scheduled"]
  /\ task' = [task EXCEPT ![r] = "created"]
  /\ UNCHANGED <<rowVars, proc, stale, outcome, cancelling, explicit, callVars,
                 faults, restarts>>

\* schedule raises because the manager is stopping: the handler fails the run,
\* unless that raises too
Refuse(r) ==
  /\ proc = "stopping"
  /\ req[r] = "inserted"
  /\ req' = [req EXCEPT ![r] = "refused"]
  /\ status' \in {status, Finalized(r, "failed")}
  /\ UNCHANGED <<rowLock, proc, stale, taskVars, callVars, faults, restarts>>

-----------------------------------------------------------------------------
(* ChatRunManager._execute_run                                             *)

FaultyGuarded(r) == task[r] \in BodySteps \ {"finalizing"}

\* the await lies in the try block of _execute_run
Guarded(r) == task[r] \in BodySteps

\* a step the task takes because what it awaited has completed
Resumes(r, from) ==
  /\ Serving
  /\ task[r] = from
  /\ r \notin cancelling
  /\ UNCHANGED <<rowLock, proc, stale, req, callVars, restarts>>

\* the coroutine ends and the done callback drops what the manager kept of it
EndTask(r) ==
  /\ task' = [task EXCEPT ![r] = "none"]
  /\ explicit' = explicit \ {r}
  /\ cancelling' = cancelling \ {r}
  /\ UNCHANGED outcome

Goto(r, step) ==
  /\ task' = [task EXCEPT ![r] = step]
  /\ UNCHANGED <<outcome, explicit>>

Begin(r) ==
  /\ Resumes(r, "created")
  /\ Goto(r, "marking")
  /\ UNCHANGED <<status, cancelling, faults>>

\* the run is executed only if this transaction leaves it running
MarkRunning(r) ==
  /\ Resumes(r, "marking")
  /\ status' = MarkedRunning(r)
  /\ IF MarkedRunning(r)[r] = "running"
       THEN Goto(r, "executing") /\ UNCHANGED cancelling
       ELSE EndTask(r)
  /\ UNCHANGED faults

\* the event stream of the agent ended: approval, then error, then success
StreamEnds(r) ==
  /\ Resumes(r, "executing")
  /\ task' = [task EXCEPT ![r] = "finalizing"]
  /\ \E s \in Outcomes : outcome' = [outcome EXCEPT ![r] = s]
  /\ UNCHANGED <<status, cancelling, explicit, faults>>

Finalize(r) ==
  /\ Resumes(r, "finalizing")
  /\ status' = Finalized(r, outcome[r])
  /\ Goto(r, "publishing")
  /\ UNCHANGED <<cancelling, faults>>

\* append_done returned or its store error was logged
Publish(r) ==
  /\ \E step \in {"publishing", "cancel_publishing", "fail_publishing"} :
        Resumes(r, step)
  /\ EndTask(r)
  /\ UNCHANGED <<status, faults>>

FaultyExplicitlyCancelled(r) == TRUE

\* run_id in self._explicit_cancellations
ExplicitlyCancelled(r) == r \in explicit

\* except CancelledError, after the token buffer is closed: an explicit
\* cancellation finalizes the run, a shutdown leaves it to the next start
CancelHandler(r) ==
  /\ Resumes(r, "cancel_entry")
  /\ IF ExplicitlyCancelled(r)
       THEN Goto(r, "cancel_finalizing") /\ UNCHANGED cancelling
       ELSE EndTask(r)
  /\ UNCHANGED <<status, faults>>

CancelFinalize(r) ==
  /\ Resumes(r, "cancel_finalizing")
  /\ status' = Finalized(r, "cancelled")
  /\ Goto(r, "cancel_publishing")
  /\ UNCHANGED <<cancelling, faults>>

\* except Exception, after the buffer is closed and "error" is published
FailHandler(r) ==
  /\ Resumes(r, "fail_entry")
  /\ Goto(r, "fail_finalizing")
  /\ UNCHANGED <<status, cancelling, faults>>

FailFinalize(r) ==
  /\ Resumes(r, "fail_finalizing")
  /\ status' = Finalized(r, "failed")
  /\ Goto(r, "fail_publishing")
  /\ UNCHANGED <<cancelling, faults>>

\* The row as an interrupted await may leave it: the transaction that was in
\* flight, if any, was rolled back or committed.
InterruptedRow(r) ==
  {status} \cup
  CASE task[r] = "marking"           -> {MarkedRunning(r)}
    [] task[r] = "finalizing"        -> {Finalized(r, outcome[r])}
    [] task[r] = "cancel_finalizing" -> {Finalized(r, "cancelled")}
    [] task[r] = "fail_finalizing"   -> {Finalized(r, "failed")}
    [] OTHER                         -> {}

\* An exception other than CancelledError: the body is caught by except
\* Exception, the two handlers are not caught by anything.
RaiseException(r) ==
  /\ \E step \in {"marking", "executing", "finalizing", "cancel_finalizing",
                  "fail_entry", "fail_finalizing"} : Resumes(r, step)
  /\ faults[r] < MaxFaults
  /\ faults' = [faults EXCEPT ![r] = @ + 1]
  /\ status' \in InterruptedRow(r)
  /\ IF Guarded(r)
       THEN Goto(r, "fail_entry") /\ UNCHANGED cancelling
       ELSE EndTask(r)

\* CancelledError reaches the await: a task that never ran ends without
\* entering its try, the body goes to its handler, a handler is left.
DeliverCancel(r) ==
  /\ Serving
  /\ r \in cancelling
  /\ status' \in InterruptedRow(r)
  /\ IF Guarded(r)
       THEN Goto(r, "cancel_entry") /\ cancelling' = cancelling \ {r}
       ELSE EndTask(r)
  /\ UNCHANGED <<rowLock, proc, stale, req, callVars, faults, restarts>>

-----------------------------------------------------------------------------
(* POST /chat/runs/{run_id}/cancel                                         *)

CallStep(c, from) ==
  /\ Serving
  /\ call[c] = from
  /\ UNCHANGED <<rowLock, proc, stale, req, task, outcome, target, faults, restarts>>

\* the handler reads the run and asks the manager only if it is active
CancelLookup(c) ==
  /\ CallStep(c, "idle")
  /\ status[target[c]] # "absent"
  /\ call' = [call EXCEPT ![c] = IF Active(target[c]) THEN "calling" ELSE "returned"]
  /\ UNCHANGED <<status, cancelling, explicit, asked>>

\* ChatRunManager.cancel up to its first await
CancelTask(c) ==
  /\ CallStep(c, "calling")
  /\ LET r == target[c] IN
       IF Live(r)
         THEN /\ explicit' = explicit \cup {r}
              /\ cancelling' = cancelling \cup {r}
              /\ asked' = [asked EXCEPT ![r] = @ + 1]
              /\ call' = [call EXCEPT ![c] = "awaiting"]
         ELSE /\ call' = [call EXCEPT ![c] = "direct_read"]
              /\ UNCHANGED <<explicit, cancelling, asked>>
  /\ UNCHANGED status

FaultyTaskDone(r) == ~Active(r)

\* the task that is awaited has ended
TaskDone(r) == ~Live(r)

\* await task, suppressing CancelledError; what else the task ended with is
\* raised again and ends the request as well
AwaitTask(c) ==
  /\ CallStep(c, "awaiting")
  /\ TaskDone(target[c])
  /\ call' = [call EXCEPT ![c] = "returned"]
  /\ UNCHANGED <<status, cancelling, explicit, asked>>

\* no live task: read the row again, finalize it only if it is still active
DirectRead(c) ==
  /\ CallStep(c, "direct_read")
  /\ call' = [call EXCEPT ![c] =
                IF Active(target[c]) THEN "direct_finalize" ELSE "returned"]
  /\ UNCHANGED <<status, cancelling, explicit, asked>>

DirectFinalize(c) ==
  /\ CallStep(c, "direct_finalize")
  /\ status' = Finalized(target[c], "cancelled")
  /\ call' = [call EXCEPT ![c] = "returned"]
  /\ UNCHANGED <<cancelling, explicit, asked>>

\* The read, the end of the model workflow or the finalization raises and ends
\* the request; the transaction of the last may have been committed.
DirectFails(c) ==
  /\ \/ CallStep(c, "direct_read") /\ UNCHANGED status
     \/ /\ CallStep(c, "direct_finalize")
        /\ status' \in {status, Finalized(target[c], "cancelled")}
  /\ call' = [call EXCEPT ![c] = "failed"]
  /\ UNCHANGED <<cancelling, explicit, asked>>

-----------------------------------------------------------------------------
(* Application lifespan: crash, shutdown, restart and reconciliation       *)

\* what a process takes with it when it is gone; open transactions roll back
ProcessGone ==
  /\ proc' = "down"
  /\ rowLock' = [t \in Threads |-> Nobody]
  /\ stale' = {}
  /\ req' = [r \in Runs |-> IF req[r] \in {"locked", "checked", "inserted"}
                              THEN "lost" ELSE req[r]]
  /\ task' = [r \in Runs |-> "none"]
  /\ cancelling' = {}
  /\ explicit' = {}
  /\ call' = [c \in Cancellers |-> IF call[c] \in {"idle", "returned", "failed"} THEN call[c]
                                    ELSE "lost"]
  /\ UNCHANGED <<status, outcome, target, asked, faults>>

Crash ==
  /\ proc # "down"
  /\ restarts < MaxRestarts
  /\ restarts' = restarts + 1
  /\ ProcessGone

\* ChatRunManager.stop cancels every live task, without marking it explicit
BeginStop ==
  /\ proc = "up"
  /\ restarts < MaxRestarts
  /\ restarts' = restarts + 1
  /\ proc' = "stopping"
  /\ cancelling' = cancelling \cup {r \in Runs : Live(r)}
  /\ UNCHANGED <<rowVars, stale, req, task, outcome, explicit, callVars, faults>>

\* gather returned and the process exits
EndStop ==
  /\ proc = "stopping"
  /\ \A r \in Runs : ~Live(r)
  /\ ProcessGone
  /\ UNCHANGED restarts

Restart ==
  /\ proc = "down"
  /\ proc' = "starting"
  /\ stale' = StaleRuns
  /\ UNCHANGED <<rowVars, req, taskVars, callVars, faults, restarts>>

\* one iteration of the loop of ChatRunManager.start
Reconcile(r) ==
  /\ proc = "starting"
  /\ r \in stale
  /\ status' = Finalized(r, "failed")
  /\ stale' = stale \ {r}
  /\ UNCHANGED <<rowLock, proc, req, taskVars, callVars, faults, restarts>>

Serve ==
  /\ proc = "starting"
  /\ stale = {}
  /\ proc' = "up"
  /\ UNCHANGED <<rowVars, stale, req, taskVars, callVars, faults, restarts>>

-----------------------------------------------------------------------------
CreateStep(r) ==
  \/ CreateLock(r) \/ CreateCheck(r) \/ CreateInsert(r) \/ CreateFails(r)
  \/ Schedule(r) \/ Refuse(r)

\* steps the event loop takes by itself once a task exists
TaskStep(r) ==
  \/ Begin(r) \/ MarkRunning(r) \/ StreamEnds(r) \/ Finalize(r) \/ Publish(r)
  \/ CancelHandler(r) \/ CancelFinalize(r) \/ FailHandler(r) \/ FailFinalize(r)
  \/ DeliverCancel(r)

CancelStep(c) ==
  \/ CancelLookup(c) \/ CancelTask(c) \/ AwaitTask(c)
  \/ DirectRead(c) \/ DirectFinalize(c) \/ DirectFails(c)

Next ==
  \/ \E r \in Runs : CreateStep(r) \/ TaskStep(r) \/ RaiseException(r) \/ Reconcile(r)
  \/ \E c \in Cancellers : CancelStep(c)
  \/ Crash \/ BeginStop \/ EndStop \/ Restart \/ Serve

Spec == Init /\ [][Next]_vars

\* The event loop runs every ready callback and every awaited call times out
\* or returns; the supervisor starts the process again.  Clients are not fair.
Fairness ==
  /\ \A r \in Runs :
       /\ WF_vars(TaskStep(r))
       /\ WF_vars(CreateCheck(r) \/ CreateInsert(r) \/ Schedule(r) \/ Refuse(r))
       /\ WF_vars(Reconcile(r))
  /\ \A c \in Cancellers :
       WF_vars(CancelTask(c) \/ AwaitTask(c) \/ DirectRead(c) \/ DirectFinalize(c))
  /\ WF_vars(EndStop)
  /\ WF_vars(Restart)
  /\ WF_vars(Serve)

FairSpec == Spec /\ Fairness
-----------------------------------------------------------------------------
(* Properties                                                              *)

RequestSteps == {"idle", "locked", "checked", "rejected", "inserted",
                 "scheduled", "refused", "failed", "lost"}
CallSteps    == {"idle", "calling", "awaiting", "direct_read",
                 "direct_finalize", "returned", "failed", "lost"}

\* Every variable has its type.
TypeOK ==
  /\ status \in [Runs -> Statuses]
  /\ rowLock \in [Threads -> Runs \cup {Nobody}]
  /\ proc \in {"starting", "up", "stopping", "down"}
  /\ stale \in SUBSET Runs
  /\ req \in [Runs -> RequestSteps]
  /\ task \in [Runs -> TaskSteps]
  /\ outcome \in [Runs -> Outcomes]
  /\ cancelling \in SUBSET Runs
  /\ explicit \in SUBSET Runs
  /\ call \in [Cancellers -> CallSteps]
  /\ target \in [Cancellers -> Runs]
  /\ asked \in [Runs -> Nat]
  /\ faults \in [Runs -> Nat]
  /\ restarts \in Nat

\* Two runs of one thread are never queued or running together, although two
\* create requests may both pass every check made before the row lock.
AtMostOneActive ==
  \A r \in Runs : \A s \in Siblings(r) : ~(Active(r) /\ Active(s))

\* Why: from the row lock to the insert a create request is the only one that
\* can insert into its thread, its own row does not exist, and what its check
\* found stays true.
CreateHoldsThread ==
  \A r \in Runs :
    /\ req[r] \in {"locked", "checked"} => rowLock[ThreadOf[r]] = r
    /\ req[r] \in {"idle", "locked", "checked"} => status[r] = "absent"
    /\ req[r] = "checked" => \A s \in Siblings(r) : ~Active(s)

\* A run is cancelled only if somebody called the cancel endpoint for it: a
\* shutdown cancels the same tasks and must not be taken for a user's request.
CancelledMeansAsked ==
  \A r \in Runs : status[r] = "cancelled" =>
    \E c \in Cancellers : target[c] = r /\ call[c] # "idle"

\* an active run that nothing in a serving process will ever finish
Orphan(r) ==
  /\ proc = "up"
  /\ Active(r)
  /\ ~Live(r)
  /\ req[r] # "inserted"
  /\ \A c \in Cancellers :
       target[c] = r => call[c] \notin {"direct_read", "direct_finalize"}

\* One exception or one cancellation of a task that has started never leaves
\* its run active with nobody to finish it; it takes two of them, a cancel that
\* arrives before the first step of the task, or a create request that failed
\* after its commit and left a queued run that never had a task.
OrphanHasCause ==
  \A r \in Runs : Orphan(r) =>
    \/ asked[r] + faults[r] >= 2
    \/ status[r] = "queued" /\ (asked[r] = 1 \/ req[r] = "failed")

\* When the process starts serving, no run of an earlier process is active.
ReconciledBeforeServing ==
  [][Serve => \A r \in Runs : ~Active(r)]_vars

\* Every accepted run reaches a finished status or becomes an orphan (which,
\* by OrphanHasCause, a run that was scheduled, nobody cancels and at most one
\* exception hits never does), across crashes and shutdowns.
AcceptedRunSettles ==
  \A r \in Runs : Active(r) ~> (status[r] \in FinishedStatuses \/ Orphan(r))

\* A cancel request is always answered or lost with its process: awaiting the
\* task cannot hang.
CancelIsAnswered ==
  \A c \in Cancellers : call[c] = "calling" ~> call[c] \in {"returned", "failed", "lost"}

\* A cancel request that finds no live task finishes the run by itself, unless
\* one of its database operations raises or its process goes away first: this is
\* how an orphan is repaired, and a request that is answered has repaired it.
DirectCancelFinishes ==
  \A c \in Cancellers : call[c] = "direct_read" ~>
    (status[target[c]] \in FinishedStatuses \/ call[c] \in {"failed", "lost"})

\* After a cancel request was answered the run is finished.
CancelPersisted ==
  \A c \in Cancellers : call[c] = "returned" => status[target[c]] \in FinishedStatuses

\* The agent does not work for a run whose row is already finished.
FinishedRunIsNotExecuted ==
  \A r \in Runs : task[r] \in {"executing", "finalizing"} => Active(r)

Contract == INSTANCE RunContract WITH Runs <- Runs, ThreadOf <- ThreadOf, status <- status

\* The statuses evolve as RunContract promises.
ImplementsContract == Contract!Spec
=============================================================================
