-------------------------- MODULE ChatRuns_proofs --------------------------
(***************************************************************************)
(* Proofs about ChatRuns, for any number of runs, threads and cancel       *)
(* requests, and any bounds.                                               *)
(***************************************************************************)
EXTENDS ChatRuns, TLAPS

USE DEF rowVars, taskVars, callVars

-----------------------------------------------------------------------------
(* The row transactions                                                    *)

\* finalize_chat_run leaves the row as it is or gives an active run a status.
LEMMA FinalizedType ==
  ASSUME TypeOK, NEW r \in Runs, NEW s \in FinishedStatuses
  PROVE  Finalized(r, s) \in [Runs -> Statuses]
BY DEF TypeOK, Finalized, Statuses, FinishedStatuses

\* mark_chat_run_running changes only a queued run.
LEMMA MarkedRunningType ==
  ASSUME TypeOK, NEW r \in Runs
  PROVE  MarkedRunning(r) \in [Runs -> Statuses]
BY DEF TypeOK, MarkedRunning, Statuses, ActiveStatuses

\* What an interrupted await can have done to the row: nothing, or the one
\* transaction that was in flight.
LEMMA InterruptedRowCases ==
  ASSUME TypeOK, NEW r \in Runs, NEW row \in InterruptedRow(r)
  PROVE  \/ row = status
         \/ row = MarkedRunning(r)
         \/ \E s \in FinishedStatuses :
              /\ row = Finalized(r, s)
              /\ s = "cancelled" => task[r] = "cancel_finalizing"
<1>1. CASE task[r] = "marking"
  BY <1>1 DEF InterruptedRow
<1>2. CASE task[r] = "finalizing"
  <2>1. outcome[r] \in FinishedStatuses \ {"cancelled"}
    BY DEF TypeOK, Outcomes, FinishedStatuses
  <2> QED BY <1>2, <2>1 DEF InterruptedRow
<1>3. CASE task[r] = "cancel_finalizing"
  BY <1>3 DEF InterruptedRow, FinishedStatuses
<1>4. CASE task[r] = "fail_finalizing"
  BY <1>4 DEF InterruptedRow, FinishedStatuses
<1>5. CASE task[r] \notin {"marking", "finalizing", "cancel_finalizing", "fail_finalizing"}
  BY <1>5 DEF InterruptedRow
<1> QED BY <1>1, <1>2, <1>3, <1>4, <1>5

-----------------------------------------------------------------------------
(* Type correctness                                                        *)

\* The first process has no run, task or request.
LEMMA InitTypeOK == Init => TypeOK
<1> SUFFICES ASSUME Init PROVE TypeOK
  OBVIOUS
<1> QED
  BY RunsAssumption DEF Init, TypeOK, Statuses, RequestSteps, TaskSteps, Outcomes, CallSteps

\* Every step keeps the types.
LEMMA NextTypeOK == TypeOK /\ [Next]_vars => TypeOK'
<1> SUFFICES ASSUME TypeOK, [Next]_vars PROVE TypeOK'
  OBVIOUS
<1> USE RunsAssumption DEF TypeOK
<1>1. ASSUME NEW r \in Runs, CreateStep(r) PROVE TypeOK'
  <2>1. CASE CreateLock(r) BY <2>1 DEF CreateLock, RequestSteps
  <2>2. CASE CreateCheck(r) BY <2>2 DEF CreateCheck, RequestSteps
  <2>3. CASE CreateInsert(r) BY <2>3 DEF CreateInsert, RequestSteps, Statuses, ActiveStatuses
  <2>6. CASE CreateFails(r) BY <2>6 DEF CreateFails, RequestSteps
  <2>4. CASE Schedule(r) BY <2>4 DEF Schedule, RequestSteps, TaskSteps
  <2>5. CASE Refuse(r)
    <3>1. status' \in [Runs -> Statuses]
      BY <2>5, FinalizedType DEF Refuse, FinishedStatuses
    <3> QED BY <2>5, <3>1 DEF Refuse, RequestSteps
  <2> QED BY <1>1, <2>1, <2>2, <2>3, <2>4, <2>5, <2>6 DEF CreateStep
<1>2. ASSUME NEW r \in Runs, TaskStep(r) PROVE TypeOK'
  <2>0. /\ rowLock' = rowLock /\ proc' = proc /\ stale' = stale /\ req' = req
        /\ call' = call /\ target' = target /\ asked' = asked /\ restarts' = restarts
        /\ faults' = faults
    BY <1>2 DEF TaskStep, Begin, MarkRunning, StreamEnds, Finalize, Publish, CancelHandler,
                CancelFinalize, FailHandler, FailFinalize, DeliverCancel, Resumes
  <2>1. CASE Begin(r) BY <2>0, <2>1 DEF Begin, Goto, TaskSteps, BodySteps
  <2>2. CASE MarkRunning(r)
    <3>1. status' \in [Runs -> Statuses]
      BY <2>2, MarkedRunningType DEF MarkRunning
    <3> QED BY <2>0, <2>2, <3>1 DEF MarkRunning, Goto, EndTask, TaskSteps, BodySteps
  <2>3. CASE StreamEnds(r) BY <2>0, <2>3 DEF StreamEnds, TaskSteps, BodySteps
  <2>4. CASE Finalize(r)
    <3>1. status' \in [Runs -> Statuses]
      <4>1. outcome[r] \in FinishedStatuses BY DEF Outcomes, FinishedStatuses
      <4> QED BY <2>4, <4>1, FinalizedType DEF Finalize
    <3> QED BY <2>0, <2>4, <3>1 DEF Finalize, Goto, TaskSteps, BodySteps
  <2>5. CASE Publish(r) BY <2>0, <2>5 DEF Publish, EndTask, TaskSteps
  <2>6. CASE CancelHandler(r)
    BY <2>0, <2>6 DEF CancelHandler, Goto, EndTask, TaskSteps, CancelSteps
  <2>7. CASE CancelFinalize(r)
    <3>1. status' \in [Runs -> Statuses]
      BY <2>7, FinalizedType DEF CancelFinalize, FinishedStatuses
    <3> QED BY <2>0, <2>7, <3>1 DEF CancelFinalize, Goto, TaskSteps, CancelSteps
  <2>8. CASE FailHandler(r) BY <2>0, <2>8 DEF FailHandler, Goto, TaskSteps, FailSteps
  <2>9. CASE FailFinalize(r)
    <3>1. status' \in [Runs -> Statuses]
      BY <2>9, FinalizedType DEF FailFinalize, FinishedStatuses
    <3> QED BY <2>0, <2>9, <3>1 DEF FailFinalize, Goto, TaskSteps, FailSteps
  <2>10. CASE DeliverCancel(r)
    <3>1. status' \in [Runs -> Statuses]
      BY <2>10, InterruptedRowCases, FinalizedType, MarkedRunningType DEF DeliverCancel
    <3> QED BY <2>0, <2>10, <3>1 DEF DeliverCancel, Goto, EndTask, TaskSteps, CancelSteps
  <2> QED BY <1>2, <2>1, <2>2, <2>3, <2>4, <2>5, <2>6, <2>7, <2>8, <2>9, <2>10 DEF TaskStep
<1>3. ASSUME NEW r \in Runs, RaiseException(r) PROVE TypeOK'
  <2>1. status' \in [Runs -> Statuses]
    BY <1>3, InterruptedRowCases, FinalizedType, MarkedRunningType DEF RaiseException
  <2>2. UNCHANGED <<rowLock, proc, stale, req, callVars, restarts>>
    BY <1>3 DEF RaiseException, Resumes
  <2>3. faults' \in [Runs -> Nat]
    BY <1>3 DEF RaiseException
  <2>4. /\ task' \in [Runs -> TaskSteps] /\ outcome' \in [Runs -> Outcomes]
        /\ cancelling' \in SUBSET Runs /\ explicit' \in SUBSET Runs
    BY <1>3 DEF RaiseException, Goto, EndTask, TaskSteps, FailSteps
  <2> QED BY <2>1, <2>2, <2>3, <2>4
<1>4. ASSUME NEW r \in Runs, Reconcile(r) PROVE TypeOK'
  <2>1. status' \in [Runs -> Statuses]
    BY <1>4, FinalizedType DEF Reconcile, FinishedStatuses
  <2> QED BY <1>4, <2>1 DEF Reconcile
<1>5. ASSUME NEW c \in Cancellers, CancelStep(c) PROVE TypeOK'
  <2>1. CASE CancelLookup(c) BY <2>1 DEF CancelLookup, CallStep, CallSteps
  <2>2. CASE CancelTask(c) BY <2>2 DEF CancelTask, CallStep, CallSteps
  <2>3. CASE AwaitTask(c) BY <2>3 DEF AwaitTask, CallStep, CallSteps
  <2>4. CASE DirectRead(c) BY <2>4 DEF DirectRead, CallStep, CallSteps
  <2>5. CASE DirectFinalize(c)
    <3>1. status' \in [Runs -> Statuses]
      BY <2>5, FinalizedType DEF DirectFinalize, FinishedStatuses
    <3> QED BY <2>5, <3>1 DEF DirectFinalize, CallStep, CallSteps
  <2>6. CASE DirectFails(c)
    <3>1. status' \in [Runs -> Statuses]
      BY <2>6, FinalizedType DEF DirectFails, FinishedStatuses
    <3> QED BY <2>6, <3>1 DEF DirectFails, CallStep, CallSteps
  <2> QED BY <1>5, <2>1, <2>2, <2>3, <2>4, <2>5, <2>6 DEF CancelStep
<1>6. CASE Crash \/ EndStop
  BY <1>6 DEF Crash, EndStop, ProcessGone, RequestSteps, TaskSteps, CallSteps
<1>7. CASE BeginStop BY <1>7 DEF BeginStop
<1>8. CASE Restart BY <1>8 DEF Restart, StaleRuns
<1>9. CASE Serve BY <1>9 DEF Serve
<1>10. CASE UNCHANGED vars BY <1>10 DEF vars
<1> QED BY <1>1, <1>2, <1>3, <1>4, <1>5, <1>6, <1>7, <1>8, <1>9, <1>10 DEF Next

\* Every reachable state is well typed.
THEOREM TypeCorrect == Spec => []TypeOK
<1>1. Init => TypeOK BY InitTypeOK
<1>2. TypeOK /\ [Next]_vars => TypeOK' BY NextTypeOK
<1> QED BY <1>1, <1>2, PTL DEF Spec

-----------------------------------------------------------------------------
(* What a step can do to the rows                                          *)

\* mark_chat_run_running or finalize_chat_run on the row of r
RowEffect(r) ==
  \/ status' = MarkedRunning(r)
  \/ \E s \in FinishedStatuses : status' = Finalized(r, s)

\* A step inserts a row, is one row transaction, or leaves the rows alone.
LEMMA StepEffect ==
  ASSUME TypeOK, [Next]_vars
  PROVE  \/ \E r \in Runs : CreateInsert(r)
         \/ \E r \in Runs : RowEffect(r)
         \/ status' = status
<1>1. ASSUME NEW r \in Runs, CreateStep(r)
      PROVE  CreateInsert(r) \/ RowEffect(r) \/ status' = status
  BY <1>1 DEF CreateStep, CreateLock, CreateCheck, CreateFails, Schedule, Refuse, RowEffect,
              FinishedStatuses
<1>2. ASSUME NEW r \in Runs, TaskStep(r) PROVE RowEffect(r) \/ status' = status
  <2>1. CASE DeliverCancel(r)
    BY <2>1, InterruptedRowCases DEF DeliverCancel, RowEffect
  <2>2. CASE Finalize(r)
    <3>1. outcome[r] \in FinishedStatuses BY DEF TypeOK, Outcomes, FinishedStatuses
    <3> QED BY <2>2, <3>1 DEF Finalize, RowEffect
  <2> QED
    BY <1>2, <2>1, <2>2 DEF TaskStep, Begin, MarkRunning, StreamEnds, Publish, CancelHandler,
                            CancelFinalize, FailHandler, FailFinalize, RowEffect, FinishedStatuses
<1>3. ASSUME NEW r \in Runs, RaiseException(r) PROVE RowEffect(r) \/ status' = status
  BY <1>3, InterruptedRowCases DEF RaiseException, RowEffect
<1>4. ASSUME NEW r \in Runs, Reconcile(r) PROVE RowEffect(r)
  BY <1>4 DEF Reconcile, RowEffect, FinishedStatuses
<1>5. ASSUME NEW c \in Cancellers, CancelStep(c)
      PROVE  (\E r \in Runs : RowEffect(r)) \/ status' = status
  <2>1. target[c] \in Runs BY DEF TypeOK
  <2> QED
    BY <1>5, <2>1 DEF CancelStep, CancelLookup, CancelTask, AwaitTask, DirectRead,
                      DirectFinalize, DirectFails, RowEffect, FinishedStatuses
<1>6. CASE Crash \/ BeginStop \/ EndStop \/ Restart \/ Serve \/ UNCHANGED vars
  BY <1>6 DEF Crash, BeginStop, EndStop, Restart, Serve, ProcessGone, vars
<1> QED BY <1>1, <1>2, <1>3, <1>4, <1>5, <1>6 DEF Next

\* A row transaction neither creates nor revives a run, and leaves a finished
\* one alone.
LEMMA RowEffectMonotone ==
  ASSUME TypeOK, NEW r \in Runs, RowEffect(r), NEW q \in Runs
  PROVE  /\ Active(q)' => Active(q)
         /\ status[q] = "absent" => status'[q] = "absent"
         /\ status[q] \in FinishedStatuses => status'[q] = status[q]
<1>1. CASE status' = MarkedRunning(r)
  BY <1>1 DEF TypeOK, MarkedRunning, Active, ActiveStatuses, FinishedStatuses
<1>2. CASE \E s \in FinishedStatuses : status' = Finalized(r, s)
  BY <1>2 DEF TypeOK, Finalized, Active, ActiveStatuses, FinishedStatuses
<1> QED BY <1>1, <1>2 DEF RowEffect

-----------------------------------------------------------------------------
(* At most one active run per thread                                       *)

ThreadInv == TypeOK /\ CreateHoldsThread /\ AtMostOneActive

\* No thread has a run, and no session row is locked.
LEMMA InitThreadInv == Init => ThreadInv
<1> SUFFICES ASSUME Init PROVE CreateHoldsThread /\ AtMostOneActive
  BY InitTypeOK DEF ThreadInv
<1> QED
  BY DEF Init, CreateHoldsThread, AtMostOneActive, Siblings, Active, ActiveStatuses

\* A thread gains an active run only while its session row is locked.
LEMMA NextThreadInv == ThreadInv /\ [Next]_vars => ThreadInv'
<1> SUFFICES ASSUME ThreadInv, [Next]_vars PROVE CreateHoldsThread' /\ AtMostOneActive'
  BY NextTypeOK DEF ThreadInv
<1> USE DEF ThreadInv
\* the steps that insert nothing only make runs less active
<1>1. ASSUME ~ \E r \in Runs : CreateInsert(r), NEW q \in Runs
      PROVE  /\ Active(q)' => Active(q)
             /\ status[q] = "absent" => status'[q] = "absent"
  BY <1>1, StepEffect, RowEffectMonotone DEF Active
<1>2. ASSUME NEW r \in Runs, CreateInsert(r) PROVE CreateHoldsThread' /\ AtMostOneActive'
  <2>0. /\ req[r] = "checked" /\ rowLock[ThreadOf[r]] = r
        /\ \A s \in Siblings(r) : ~Active(s)
    BY <1>2 DEF CreateInsert, CreateHoldsThread
  <2>1. \A s \in Siblings(r) : req[s] \notin {"locked", "checked"}
    BY <2>0 DEF CreateHoldsThread, Siblings
  <2>2. \A q \in Runs : Active(q)' => q = r \/ Active(q)
    BY <1>2 DEF CreateInsert, Active, TypeOK
  <2>3. CreateHoldsThread'
    <3> SUFFICES ASSUME NEW q \in Runs
                 PROVE  /\ req'[q] \in {"locked", "checked"} => rowLock'[ThreadOf[q]] = q
                        /\ req'[q] \in {"idle", "locked", "checked"} => status'[q] = "absent"
                        /\ req'[q] = "checked" => \A s \in Siblings(q) : ~Active(s)'
      BY DEF CreateHoldsThread
    <3>1. CASE q = r
      BY <1>2, <3>1 DEF CreateInsert, TypeOK
    <3>2. CASE q # r
      <4>1. req'[q] = req[q] /\ status'[q] = status[q]
        BY <1>2, <3>2 DEF CreateInsert, TypeOK
      <4>2. req[q] \in {"locked", "checked"} => ThreadOf[q] # ThreadOf[r]
        BY <2>1, <3>2 DEF Siblings
      <4>3. req[q] \in {"locked", "checked"} => rowLock'[ThreadOf[q]] = q
        BY <1>2, <4>2, RunsAssumption DEF CreateInsert, CreateHoldsThread, TypeOK
      <4>4. req[q] = "checked" => \A s \in Siblings(q) : ~Active(s)'
        BY <2>2, <4>2 DEF CreateHoldsThread, Siblings
      <4> QED BY <4>1, <4>3, <4>4 DEF CreateHoldsThread
    <3> QED BY <3>1, <3>2
  <2>4. AtMostOneActive'
    BY <2>0, <2>2 DEF AtMostOneActive, Siblings
  <2> QED BY <2>3, <2>4
<1>3. ASSUME ~ \E r \in Runs : CreateInsert(r) PROVE AtMostOneActive'
  BY <1>1, <1>3 DEF AtMostOneActive, Siblings
<1>4. ASSUME NEW r \in Runs,
             CreateLock(r) \/ CreateCheck(r) \/ CreateFails(r) \/ Schedule(r) \/ Refuse(r),
             ~ \E q \in Runs : CreateInsert(q)
      PROVE  CreateHoldsThread'
  <2> SUFFICES ASSUME NEW q \in Runs
               PROVE  /\ req'[q] \in {"locked", "checked"} => rowLock'[ThreadOf[q]] = q
                      /\ req'[q] \in {"idle", "locked", "checked"} => status'[q] = "absent"
                      /\ req'[q] = "checked" => \A s \in Siblings(q) : ~Active(s)'
    BY DEF CreateHoldsThread
  <2>1. CASE CreateLock(r)
    <3>1. rowLock[ThreadOf[r]] = Nobody
      BY <2>1 DEF CreateLock, SessionRowFree
    <3>2. req[q] \in {"locked", "checked"} => ThreadOf[q] # ThreadOf[r]
      BY <3>1, RunsAssumption DEF CreateHoldsThread
    <3>3. /\ req' = [req EXCEPT ![r] = "locked"] /\ rowLock' = [rowLock EXCEPT ![ThreadOf[r]] = r]
          /\ req[r] = "idle" /\ status' = status
      BY <2>1 DEF CreateLock
    <3> QED BY <3>2, <3>3, RunsAssumption DEF CreateHoldsThread, Active, TypeOK, Siblings
  <2>2. CASE CreateCheck(r)
    <3>1. status' = status /\ req[r] = "locked"
      BY <2>2 DEF CreateCheck
    <3>2. CASE \E s \in Siblings(r) : Active(s)
      <4>1. /\ req' = [req EXCEPT ![r] = "rejected"]
            /\ rowLock' = [rowLock EXCEPT ![ThreadOf[r]] = Nobody]
        BY <2>2, <3>2 DEF CreateCheck
      <4>2. q # r /\ req[q] \in {"locked", "checked"} => ThreadOf[q] # ThreadOf[r]
        BY <3>1 DEF CreateHoldsThread
      <4> QED BY <3>1, <4>1, <4>2, RunsAssumption DEF CreateHoldsThread, Active, TypeOK, Siblings
    <3>3. CASE ~ \E s \in Siblings(r) : Active(s)
      <4>1. req' = [req EXCEPT ![r] = "checked"] /\ rowLock' = rowLock
        BY <2>2, <3>3 DEF CreateCheck
      <4> QED BY <3>1, <3>3, <4>1 DEF CreateHoldsThread, Active, TypeOK
    <3> QED BY <3>2, <3>3
  <2>3. CASE Schedule(r) \/ Refuse(r)
    <3>1. /\ rowLock' = rowLock
          /\ \/ req' = [req EXCEPT ![r] = "scheduled"]
             \/ req' = [req EXCEPT ![r] = "refused"]
      BY <2>3 DEF Schedule, Refuse
    <3>2. req'[q] \in {"idle", "locked", "checked"} => req'[q] = req[q]
      BY <3>1 DEF TypeOK
    <3> QED BY <1>1, <1>4, <3>1, <3>2 DEF CreateHoldsThread, Siblings
  <2>4. CASE CreateFails(r)
    <3>1. /\ req' = [req EXCEPT ![r] = "failed"] /\ status' = status
          /\ \A t \in Threads : rowLock'[t] = rowLock[t] \/ rowLock[t] = r
      BY <2>4 DEF CreateFails
    <3>2. req'[q] \in {"idle", "locked", "checked"} => q # r /\ req'[q] = req[q]
      BY <3>1 DEF TypeOK
    <3> QED BY <3>1, <3>2, RunsAssumption DEF CreateHoldsThread, Active, Siblings
  <2> QED BY <1>4, <2>1, <2>2, <2>3, <2>4
<1>5. ASSUME req' = req, rowLock' = rowLock, ~ \E r \in Runs : CreateInsert(r)
      PROVE  CreateHoldsThread'
  BY <1>1, <1>5 DEF CreateHoldsThread, Siblings
<1>6. CASE Crash \/ EndStop
  <2>1. /\ status' = status
        /\ req' = [r \in Runs |-> IF req[r] \in {"locked", "checked", "inserted"}
                                    THEN "lost" ELSE req[r]]
    BY <1>6 DEF Crash, EndStop, ProcessGone
  <2>2. \A q \in Runs : /\ req'[q] \notin {"locked", "checked"}
                       /\ req'[q] = "idle" => req[q] = "idle"
    BY <2>1
  <2> QED BY <2>1, <2>2 DEF CreateHoldsThread, AtMostOneActive, Active, Siblings
<1>7. ASSUME NEW r \in Runs, TaskStep(r) \/ RaiseException(r) \/ Reconcile(r)
      PROVE  req' = req /\ rowLock' = rowLock
  <2>1. ASSUME TaskStep(r) PROVE req' = req /\ rowLock' = rowLock
    BY <2>1 DEF TaskStep, Begin, MarkRunning, StreamEnds, Finalize, Publish, CancelHandler,
                CancelFinalize, FailHandler, FailFinalize, DeliverCancel, Resumes
  <2> QED BY <1>7, <2>1 DEF RaiseException, Reconcile, Resumes
<1>8. ASSUME NEW c \in Cancellers, CancelStep(c) PROVE req' = req /\ rowLock' = rowLock
  BY <1>8 DEF CancelStep, CancelLookup, CancelTask, AwaitTask, DirectRead, DirectFinalize,
              DirectFails, CallStep
<1>9. CASE BeginStop \/ Restart \/ Serve \/ UNCHANGED vars
  <2>1. req' = req /\ rowLock' = rowLock
    BY <1>9 DEF BeginStop, Restart, Serve, vars
  <2> QED BY <1>2, <1>3, <1>5, <2>1
<1>10. ASSUME NEW r \in Runs, CreateStep(r) PROVE CreateHoldsThread' /\ AtMostOneActive'
  BY <1>10, <1>2, <1>3, <1>4 DEF CreateStep
<1> QED BY <1>2, <1>3, <1>5, <1>6, <1>7, <1>8, <1>9, <1>10 DEF Next

\* Two runs of one thread are never active together, and a create request that
\* has checked its thread may rely on what it found.
THEOREM OneActivePerThread == Spec => [](AtMostOneActive /\ CreateHoldsThread)
<1>1. Init => ThreadInv BY InitThreadInv
<1>2. ThreadInv /\ [Next]_vars => ThreadInv' BY NextThreadInv
<1>3. ThreadInv => AtMostOneActive /\ CreateHoldsThread BY DEF ThreadInv
<1> QED BY <1>1, <1>2, <1>3, PTL DEF Spec

-----------------------------------------------------------------------------
(* Finished statuses, and the abstract contract                            *)

\* What a step does to one row, given what create requests rely on.
LEMMA StatusStep ==
  ASSUME ThreadInv, [Next]_vars
  PROVE  Contract!Next \/ status' = status
<1> USE DEF ThreadInv
<1>1. ASSUME NEW r \in Runs, CreateInsert(r) PROVE Contract!Accept(r)
  <2>1. /\ status[r] = "absent" /\ \A s \in Siblings(r) : ~Active(s)
        /\ status' = [status EXCEPT ![r] = "queued"]
    BY <1>1 DEF CreateInsert, CreateHoldsThread
  <2> QED
    BY <2>1 DEF Contract!Accept, Contract!Siblings, Siblings, Active,
                Contract!ActiveStatuses, ActiveStatuses
<1>2. ASSUME NEW r \in Runs, RowEffect(r)
      PROVE  Contract!Begin(r) \/ Contract!Finish(r) \/ status' = status
  BY <1>2 DEF RowEffect, MarkedRunning, Finalized, Active, Contract!Begin, Contract!Finish,
              Contract!ActiveStatuses, Contract!FinishedStatuses, ActiveStatuses, FinishedStatuses
<1> QED BY <1>1, <1>2, StepEffect DEF Contract!Next

\* ChatRuns implements RunContract: whoever cancels, crashes or restarts, a run
\* is accepted only into an idle thread, begins at most once and finishes once.
THEOREM Implementation == Spec => ImplementsContract
<1>1. Init => Contract!Init
  BY DEF Init, Contract!Init
<1>2. ThreadInv /\ [Next]_vars => [Contract!Next]_status
  BY StatusStep
<1>3. Init => ThreadInv BY InitThreadInv
<1>4. ThreadInv /\ [Next]_vars => ThreadInv' BY NextThreadInv
<1> QED BY <1>1, <1>2, <1>3, <1>4, PTL DEF Spec, ImplementsContract, Contract!Spec

\* A finished status is never overwritten, whichever of the task, its two
\* handlers, a direct cancel, a refused schedule or the next start comes last.
FinishedIsFinal ==
  [][\A r \in Runs : status[r] \in FinishedStatuses => status'[r] = status[r]]_vars

\* The first finished status of a run is its last.
THEOREM FinishedStaysFinal == Spec => FinishedIsFinal
<1> DEFINE Kept == \A r \in Runs : status[r] \in FinishedStatuses => status'[r] = status[r]
<1>1. ASSUME ThreadInv, [Next]_vars PROVE Kept
  <2>1. ASSUME NEW r \in Runs, CreateInsert(r), NEW q \in Runs, status[q] \in FinishedStatuses
        PROVE  status'[q] = status[q]
    <3>1. status[r] = "absent"
      BY <1>1, <2>1 DEF CreateInsert, CreateHoldsThread, ThreadInv
    <3>2. q # r BY <2>1, <3>1 DEF FinishedStatuses
    <3> QED BY <1>1, <2>1, <3>2 DEF CreateInsert, ThreadInv, TypeOK
  <2> QED BY <1>1, <2>1, StepEffect, RowEffectMonotone DEF ThreadInv
<1>2. ThreadInv /\ [Next]_vars => [Kept]_vars BY <1>1
<1>3. Init => ThreadInv BY InitThreadInv
<1>4. ThreadInv /\ [Next]_vars => ThreadInv' BY NextThreadInv
<1> QED BY <1>2, <1>3, <1>4, PTL DEF Spec, FinishedIsFinal

-----------------------------------------------------------------------------
(* Reconciliation                                                          *)

\* while the application starts, every active run is still to be reconciled
StaleInv == TypeOK /\ (proc = "starting" => \A r \in Runs : Active(r) => r \in stale)

\* A run active at the start of a process stays marked stale until it is reconciled.
LEMMA NextStaleInv == StaleInv /\ [Next]_vars => StaleInv'
<1> SUFFICES ASSUME StaleInv, [Next]_vars, proc' = "starting", NEW r \in Runs, Active(r)'
             PROVE  r \in stale'
  BY NextTypeOK DEF StaleInv
<1> USE DEF StaleInv
<1>1. CASE Restart
  BY <1>1 DEF Restart, StaleRuns, Active
<1>2. ASSUME NEW q \in Runs, Reconcile(q) PROVE r \in stale'
  <2>1. RowEffect(q) BY <1>2 DEF Reconcile, RowEffect, FinishedStatuses
  <2>2. Active(r) BY <2>1, RowEffectMonotone
  <2>3. r # q
    BY <1>2 DEF Reconcile, Finalized, Active, TypeOK, ActiveStatuses
  <2> QED BY <1>2, <2>2, <2>3 DEF Reconcile
<1>3. CASE proc' = proc /\ stale' = stale /\ status' = status
  BY <1>3 DEF Active
<1>4. ASSUME NEW q \in Runs, CreateStep(q) \/ TaskStep(q) \/ RaiseException(q) PROVE FALSE
  <2>1. proc' = proc /\ proc # "starting"
    BY <1>4 DEF CreateStep, CreateLock, CreateCheck, CreateInsert, CreateFails, Schedule,
                Refuse, Serving,
                TaskStep, Begin, MarkRunning, StreamEnds, Finalize, Publish, CancelHandler,
                CancelFinalize, FailHandler, FailFinalize, DeliverCancel, RaiseException, Resumes
  <2> QED BY <2>1
<1>5. ASSUME NEW c \in Cancellers, CancelStep(c) PROVE FALSE
  <2>1. proc' = proc /\ proc # "starting"
    BY <1>5 DEF CancelStep, CancelLookup, CancelTask, AwaitTask, DirectRead, DirectFinalize,
                DirectFails,
                CallStep, Serving
  <2> QED BY <2>1
<1>6. ~(Crash \/ BeginStop \/ EndStop \/ Serve)
  BY DEF Crash, BeginStop, EndStop, Serve, ProcessGone
<1>7. CASE UNCHANGED vars BY <1>3, <1>7 DEF vars
<1> QED BY <1>1, <1>2, <1>4, <1>5, <1>6, <1>7 DEF Next

\* No run of an earlier process is active when the application starts serving.
THEOREM Reconciled == Spec => ReconciledBeforeServing
<1> DEFINE Clean == Serve => \A r \in Runs : ~Active(r)
<1>1. Init => StaleInv
  BY InitTypeOK DEF Init, StaleInv, Active, ActiveStatuses
<1>2. StaleInv /\ [Next]_vars => StaleInv' BY NextStaleInv
<1>3. StaleInv /\ [Next]_vars => [Clean]_vars
  BY DEF StaleInv, Serve
<1> QED BY <1>1, <1>2, <1>3, PTL DEF Spec, ReconciledBeforeServing

-----------------------------------------------------------------------------
(* Cancelled runs were asked for                                           *)

\* somebody called the cancel endpoint for r
AskedFor(r) == \E c \in Cancellers : target[c] = r /\ call[c] # "idle"

\* the status, the mark in the manager and the step of the handler that may
\* lead to it all mean that somebody asked
AskedInv ==
  /\ TypeOK
  /\ \A r \in Runs :
       status[r] = "cancelled" \/ r \in explicit \/ task[r] = "cancel_finalizing" => AskedFor(r)

\* A row is cancelled, or about to be, only after a request for it.
LEMMA NextAskedInv == AskedInv /\ [Next]_vars => AskedInv'
<1> SUFFICES ASSUME AskedInv, [Next]_vars, NEW q \in Runs,
                    status'[q] = "cancelled" \/ q \in explicit' \/ task'[q] = "cancel_finalizing"
             PROVE  AskedFor(q)'
  BY NextTypeOK DEF AskedInv
<1> USE DEF AskedInv
<1>1. AskedFor(q) => AskedFor(q)'
  <2> SUFFICES ASSUME NEW c \in Cancellers, target[c] = q, call[c] # "idle"
               PROVE  target'[c] = q /\ call'[c] # "idle"
    BY DEF AskedFor
  <2>1. ASSUME NEW r \in Runs, CreateStep(r) \/ TaskStep(r) \/ RaiseException(r) \/ Reconcile(r)
        PROVE  target' = target /\ call' = call
    BY <2>1 DEF CreateStep, CreateLock, CreateCheck, CreateInsert, CreateFails, Schedule, Refuse,
                TaskStep, Begin, MarkRunning, StreamEnds, Finalize, Publish, CancelHandler,
                CancelFinalize, FailHandler, FailFinalize, DeliverCancel, RaiseException,
                Resumes, Reconcile
  <2>2. ASSUME NEW d \in Cancellers, CancelStep(d)
        PROVE  target'[c] = q /\ call'[c] # "idle"
    BY <2>2 DEF CancelStep, CancelLookup, CancelTask, AwaitTask, DirectRead, DirectFinalize,
                DirectFails,
                CallStep, TypeOK
  <2>3. CASE Crash \/ EndStop
    BY <2>3 DEF Crash, EndStop, ProcessGone
  <2>4. CASE BeginStop \/ Restart \/ Serve \/ UNCHANGED vars
    BY <2>4 DEF BeginStop, Restart, Serve, vars
  <2> QED BY <2>1, <2>2, <2>3, <2>4 DEF Next
<1>2. CASE status[q] = "cancelled" \/ q \in explicit \/ task[q] = "cancel_finalizing"
  BY <1>1, <1>2
<1>3. CASE ~(status[q] = "cancelled" \/ q \in explicit \/ task[q] = "cancel_finalizing")
  <2>2. ASSUME NEW r \in Runs, CreateStep(r) \/ Reconcile(r) PROVE FALSE
    <3>1. explicit' = explicit /\ task'[q] # "cancel_finalizing" /\ status'[q] # "cancelled"
      BY <1>3, <2>2 DEF CreateStep, CreateLock, CreateCheck, CreateInsert, CreateFails,
                        Schedule, Refuse,
                        Reconcile, Finalized, TypeOK
    <3> QED BY <1>3, <3>1
  <2>3. ASSUME NEW r \in Runs, TaskStep(r) \/ RaiseException(r) PROVE FALSE
    <3>1. explicit' \subseteq explicit
      BY <2>3 DEF TaskStep, Begin, MarkRunning, StreamEnds, Finalize, Publish, CancelHandler,
                  CancelFinalize, FailHandler, FailFinalize, DeliverCancel, RaiseException,
                  Goto, EndTask
    <3>2. task'[q] # "cancel_finalizing"
      BY <1>3, <2>3
         DEF TaskStep, Begin, MarkRunning, StreamEnds, Finalize, Publish, CancelHandler,
             CancelFinalize, FailHandler, FailFinalize, DeliverCancel, RaiseException,
             Goto, EndTask, ExplicitlyCancelled, TypeOK
    <3>3. ASSUME status' \in InterruptedRow(r) PROVE status'[q] # "cancelled"
      BY <1>3, <3>3, InterruptedRowCases DEF MarkedRunning, Finalized, TypeOK
    <3>4. ASSUME status' # status, status' \notin InterruptedRow(r) PROVE status'[q] # "cancelled"
      BY <1>3, <2>3, <3>4
         DEF TaskStep, Begin, MarkRunning, StreamEnds, Finalize, Publish, CancelHandler,
             CancelFinalize, FailHandler, FailFinalize, DeliverCancel, RaiseException, Resumes,
             MarkedRunning, Finalized, TypeOK, Outcomes
    <3> QED BY <1>3, <3>1, <3>2, <3>3, <3>4
  <2>4. ASSUME NEW c \in Cancellers, CancelStep(c) PROVE AskedFor(q)'
    <3>1. task' = task BY <2>4 DEF CancelStep, CancelLookup, CancelTask, AwaitTask, DirectRead,
                                   DirectFinalize, DirectFails, CallStep
    <3>2. CASE DirectFinalize(c) \/ DirectFails(c)
      BY <1>3, <3>1, <3>2 DEF DirectFinalize, DirectFails, CallStep, AskedFor, Finalized, TypeOK
    <3>3. CASE CancelTask(c)
      BY <1>3, <3>1, <3>3 DEF CancelTask, CallStep, AskedFor, TypeOK
    <3>4. CASE CancelLookup(c) \/ AwaitTask(c) \/ DirectRead(c)
      BY <1>3, <3>1, <3>4 DEF CancelLookup, AwaitTask, DirectRead
    <3> QED BY <2>4, <3>2, <3>3, <3>4 DEF CancelStep
  <2>5. CASE Crash \/ BeginStop \/ EndStop \/ Restart \/ Serve \/ UNCHANGED vars
    BY <1>3, <2>5 DEF Crash, BeginStop, EndStop, Restart, Serve, ProcessGone, vars
  <2> QED BY <2>2, <2>3, <2>4, <2>5 DEF Next
<1> QED BY <1>2, <1>3

\* A run is cancelled only when the cancel endpoint was called for it.
THEOREM CancelledWasAsked == Spec => []CancelledMeansAsked
<1>1. Init => AskedInv
  <2> SUFFICES ASSUME Init PROVE AskedInv
    OBVIOUS
  <2> QED BY InitTypeOK DEF Init, AskedInv
<1>2. AskedInv /\ [Next]_vars => AskedInv' BY NextAskedInv
<1>3. AskedInv => CancelledMeansAsked BY DEF AskedInv, AskedFor, CancelledMeansAsked
<1> QED BY <1>1, <1>2, <1>3, PTL DEF Spec

-----------------------------------------------------------------------------
(* Orphans                                                                 *)

PublishSteps == {"publishing", "cancel_publishing", "fail_publishing"}

\* No task, and no CancelledError to be delivered, outside a serving process.
NothingRuns ==
  proc \in {"starting", "down"} => cancelling = {} /\ \A r \in Runs : ~Live(r)

\* A run that is inserted but not scheduled has no task; until its task has begun
\* it is not running, and a task that publishes its end has finished its row.
TaskMatchesRow(r) ==
  /\ req[r] \in {"idle", "locked", "checked", "rejected", "inserted", "failed"} => ~Live(r)
  /\ req[r] \in {"inserted", "failed"} \/ task[r] = "created" => status[r] # "running"
  /\ task[r] \in PublishSteps => ~Active(r)

\* The hits that brought a task where it is: a handler was entered by one, and a
\* CancelledError to be delivered is another, made by a cancel request.
HitsCounted(r) ==
  /\ task[r] \in FailSteps => faults[r] >= 1
  /\ proc = "up" /\ r \in cancelling => asked[r] >= 1 /\ r \in explicit
  /\ proc = "up" /\ task[r] \in CancelSteps => asked[r] >= 1 /\ r \in explicit
  /\ proc = "up" /\ task[r] \in CancelSteps /\ r \in cancelling => asked[r] >= 2

\* an orphan, or a run that only direct cancels still want to finish
Abandoned(r) == proc = "up" /\ Active(r) /\ ~Live(r) /\ req[r] # "inserted"

\* OrphanHasCause for one run, of every abandoned run: a direct cancel may fail
OrphanHits(r) ==
  Abandoned(r) =>
    \/ asked[r] + faults[r] >= 2
    \/ status[r] = "queued" /\ (asked[r] = 1 \/ req[r] = "failed")

OrphanInv ==
  /\ ThreadInv
  /\ StaleInv
  /\ NothingRuns
  /\ \A r \in Runs : TaskMatchesRow(r) /\ HitsCounted(r) /\ OrphanHits(r)

\* a step of the request, the task or the reconciliation of one run
RunStep(r) == CreateStep(r) \/ TaskStep(r) \/ RaiseException(r) \/ Reconcile(r)

\* A step of one run leaves the others alone.
LEMMA OtherRuns ==
  ASSUME TypeOK, NEW r \in Runs, RunStep(r), NEW q \in Runs \ {r}
  PROVE  /\ status'[q] = status[q] /\ req'[q] = req[q] /\ task'[q] = task[q]
         /\ asked'[q] = asked[q] /\ faults'[q] = faults[q]
         /\ q \in cancelling' <=> q \in cancelling
         /\ q \in explicit' <=> q \in explicit
         /\ proc' = proc /\ call' = call /\ target' = target
<1> USE DEF TypeOK
<1>1. CASE CreateStep(r)
  BY <1>1 DEF CreateStep, CreateLock, CreateCheck, CreateInsert, CreateFails, Schedule, Refuse,
              Finalized
<1>2. CASE TaskStep(r)
  <2>1. CASE DeliverCancel(r)
    <3>1. status'[q] = status[q]
      BY <2>1, InterruptedRowCases DEF DeliverCancel, MarkedRunning, Finalized
    <3> QED BY <2>1, <3>1 DEF DeliverCancel, Goto, EndTask
  <2>2. CASE MarkRunning(r)
    BY <2>2 DEF MarkRunning, MarkedRunning, Resumes, Goto, EndTask
  <2>3. CASE Finalize(r) \/ CancelFinalize(r) \/ FailFinalize(r)
    BY <2>3 DEF Finalize, CancelFinalize, FailFinalize, Finalized, Resumes, Goto
  <2>4. CASE Begin(r) \/ StreamEnds(r) \/ FailHandler(r)
    BY <2>4 DEF Begin, StreamEnds, FailHandler, Resumes, Goto
  <2>5. CASE Publish(r) \/ CancelHandler(r)
    BY <2>5 DEF Publish, CancelHandler, Resumes, Goto, EndTask
  <2> QED BY <1>2, <2>1, <2>2, <2>3, <2>4, <2>5 DEF TaskStep
<1>3. CASE RaiseException(r)
  <2>1. status'[q] = status[q]
    BY <1>3, InterruptedRowCases DEF RaiseException, MarkedRunning, Finalized
  <2>2. UNCHANGED <<proc, req, callVars>>
    BY <1>3 DEF RaiseException, Resumes
  <2> QED BY <1>3, <2>1, <2>2 DEF RaiseException, Goto, EndTask
<1>4. CASE Reconcile(r)
  BY <1>4 DEF Reconcile, Finalized
<1> QED BY <1>1, <1>2, <1>3, <1>4 DEF RunStep

\* what a step of the cancel endpoint leaves alone
LEMMA CallLeaves ==
  ASSUME TypeOK, NEW c \in Cancellers, CancelStep(c)
  PROVE  /\ Serving
         /\ UNCHANGED <<proc, req, task, faults, target>>
         /\ \A r \in Runs : \/ asked'[r] = asked[r] /\ (r \in cancelling' <=> r \in cancelling)
                            \/ /\ CancelTask(c) /\ target[c] = r /\ Live(r)
                               /\ asked'[r] = asked[r] + 1 /\ r \in explicit'
         /\ explicit \subseteq explicit'
<1> USE DEF TypeOK
<1>1. CASE CancelTask(c)
  BY <1>1 DEF CancelTask, CallStep
<1>2. CASE CancelLookup(c) \/ AwaitTask(c) \/ DirectRead(c) \/ DirectFinalize(c)
           \/ DirectFails(c)
  BY <1>2 DEF CancelLookup, AwaitTask, DirectRead, DirectFinalize, DirectFails, CallStep
<1> QED BY <1>1, <1>2 DEF CancelStep

\* While no process serves, no task lives and no cancel is under way.
LEMMA NextNothingRuns == OrphanInv /\ [Next]_vars => NothingRuns'
<1> SUFFICES ASSUME OrphanInv, [Next]_vars, proc' \in {"starting", "down"}
             PROVE  cancelling' = {} /\ \A r \in Runs : ~Live(r)'
  BY DEF NothingRuns
<1> USE DEF OrphanInv, ThreadInv
<1>1. CASE Crash \/ EndStop
  BY <1>1 DEF Crash, EndStop, ProcessGone, Live
<1>2. ASSUME NEW r \in Runs, Reconcile(r)
      PROVE  proc' = proc /\ cancelling' = cancelling /\ task' = task
  BY <1>2 DEF Reconcile
<1>3. ASSUME NEW r \in Runs, CreateStep(r) \/ TaskStep(r) \/ RaiseException(r) PROVE FALSE
  BY <1>3 DEF CreateStep, CreateLock, CreateCheck, CreateInsert, CreateFails, Schedule, Refuse,
              Serving,
              TaskStep, Begin, MarkRunning, StreamEnds, Finalize, Publish, CancelHandler,
              CancelFinalize, FailHandler, FailFinalize, DeliverCancel, RaiseException, Resumes
<1>4. ASSUME NEW c \in Cancellers, CancelStep(c) PROVE FALSE
  BY <1>4, CallLeaves DEF Serving
<1>5. CASE Restart \/ UNCHANGED vars
  BY <1>5 DEF Restart, vars, NothingRuns, Live
<1>6. ~(BeginStop \/ Serve) BY DEF BeginStop, Serve
<1> QED BY <1>1, <1>2, <1>3, <1>4, <1>5, <1>6 DEF Next, NothingRuns, Live

\* Every step keeps a task's progress and its row in step.
LEMMA NextTaskMatchesRow ==
  ASSUME OrphanInv, [Next]_vars, NEW q \in Runs PROVE TaskMatchesRow(q)'
<1> USE DEF OrphanInv, ThreadInv
<1>0. TaskMatchesRow(q) OBVIOUS
<1>1. ASSUME NEW r \in Runs, RunStep(r), r # q PROVE TaskMatchesRow(q)'
  BY <1>0, <1>1, OtherRuns DEF TaskMatchesRow, Live, Active
<1>2. CASE CreateStep(q)
  <2>1. CASE CreateLock(q) \/ CreateCheck(q)
    BY <1>0, <2>1 DEF CreateLock, CreateCheck, TaskMatchesRow, Live, Active, TypeOK, PublishSteps
  <2>5. CASE CreateFails(q)
    <3>1. ~Live(q) /\ status[q] # "running"
      BY <1>0, <2>5 DEF CreateFails, TaskMatchesRow, CreateHoldsThread
    <3> QED BY <1>0, <2>5, <3>1 DEF CreateFails, TaskMatchesRow, Live, Active, TypeOK,
                                    PublishSteps
  <2>2. CASE CreateInsert(q)
    BY <1>0, <2>2 DEF CreateInsert, TaskMatchesRow, Live, Active, TypeOK, PublishSteps
  <2>3. CASE Schedule(q)
    BY <1>0, <2>3 DEF Schedule, TaskMatchesRow, Live, Active, TypeOK, PublishSteps
  <2>4. CASE Refuse(q)
    BY <1>0, <2>4 DEF Refuse, Finalized, TaskMatchesRow, Live, Active, TypeOK, PublishSteps,
                      ActiveStatuses
  <2> QED BY <1>2, <2>1, <2>2, <2>3, <2>4, <2>5 DEF CreateStep
<1>3. ASSUME TaskStep(q) \/ RaiseException(q) PROVE TaskMatchesRow(q)'
  <2>1. /\ req' = req
        /\ Live(q) \/ (DeliverCancel(q) /\ ~Live(q)')
    BY <1>3 DEF TaskStep, Begin, MarkRunning, StreamEnds, Finalize, Publish, CancelHandler,
                CancelFinalize, FailHandler, FailFinalize, DeliverCancel, RaiseException,
                Resumes, Live, Goto, EndTask, TypeOK, Guarded, BodySteps
  <2>2. task'[q] # "created"
    BY <1>3 DEF TaskStep, Begin, MarkRunning, StreamEnds, Finalize, Publish, CancelHandler,
                CancelFinalize, FailHandler, FailFinalize, DeliverCancel, RaiseException,
                Goto, EndTask, TypeOK
  <2>3. ASSUME task'[q] \in PublishSteps PROVE ~Active(q)'
    BY <1>3, <2>3
       DEF TaskStep, Begin, MarkRunning, StreamEnds, Finalize, Publish, CancelHandler,
           CancelFinalize, FailHandler, FailFinalize, DeliverCancel, RaiseException,
           Goto, EndTask, Finalized, TypeOK, PublishSteps, Active, ActiveStatuses, Outcomes
  <2>4. CASE Live(q)
    BY <1>0, <2>1, <2>2, <2>3, <2>4 DEF TaskMatchesRow
  <2>5. CASE DeliverCancel(q) /\ ~Live(q) /\ ~Live(q)'
    <3>1. task[q] = "none" BY <2>5 DEF Live
    <3>2. status' = status
      BY <2>5, <3>1 DEF DeliverCancel, InterruptedRow
    <3> QED BY <1>0, <2>1, <2>2, <2>5, <3>1, <3>2 DEF TaskMatchesRow, Live, PublishSteps
  <2> QED BY <2>1, <2>4, <2>5
<1>4. CASE Reconcile(q)
  BY <1>0, <1>4 DEF Reconcile, Finalized, TaskMatchesRow, Live, Active, ActiveStatuses, TypeOK
<1>5. ASSUME NEW c \in Cancellers, CancelStep(c) PROVE TaskMatchesRow(q)'
  <2>1. req' = req /\ task' = task BY <1>5, CallLeaves
  <2>2. status' = status \/ status' = Finalized(target[c], "cancelled")
    BY <1>5 DEF CancelStep, CancelLookup, CancelTask, AwaitTask, DirectRead, DirectFinalize,
                DirectFails
  <2> QED BY <1>0, <2>1, <2>2 DEF TaskMatchesRow, Live, Active, Finalized, TypeOK, ActiveStatuses
<1>6. CASE Crash \/ EndStop
  BY <1>6 DEF Crash, EndStop, ProcessGone, TaskMatchesRow, Live, PublishSteps
<1>7. CASE BeginStop \/ Restart \/ Serve \/ UNCHANGED vars
  BY <1>0, <1>7 DEF BeginStop, Restart, Serve, vars, TaskMatchesRow, Live, Active
<1> QED BY <1>1, <1>2, <1>3, <1>4, <1>5, <1>6, <1>7 DEF Next, RunStep

\* Exceptions and cancellations of a task are counted as they happen.
LEMMA NextHitsCounted ==
  ASSUME OrphanInv, [Next]_vars, NEW q \in Runs PROVE HitsCounted(q)'
<1> USE DEF OrphanInv, ThreadInv
<1>0. HitsCounted(q) OBVIOUS
<1>1. ASSUME NEW r \in Runs, RunStep(r), r # q PROVE HitsCounted(q)'
  BY <1>0, <1>1, OtherRuns DEF HitsCounted
<1>2. CASE CreateStep(q)
  <2>1. /\ task'[q] \in {task[q], "created"}
        /\ UNCHANGED <<proc, cancelling, explicit, asked, faults>>
    BY <1>2 DEF CreateStep, CreateLock, CreateCheck, CreateInsert, CreateFails, Schedule,
                Refuse, TypeOK
  <2> QED BY <1>0, <2>1 DEF HitsCounted, FailSteps, CancelSteps
<1>3. CASE TaskStep(q)
  <2>0. UNCHANGED <<proc, asked, faults>>
    BY <1>3 DEF TaskStep, Begin, MarkRunning, StreamEnds, Finalize, Publish, CancelHandler,
                CancelFinalize, FailHandler, FailFinalize, DeliverCancel, Resumes
  <2>1. CASE DeliverCancel(q)
    <3>1. CASE Guarded(q)
      BY <1>0, <2>0, <2>1, <3>1 DEF DeliverCancel, Goto, HitsCounted, FailSteps, CancelSteps,
                                    TypeOK
    <3>2. CASE ~Guarded(q)
      BY <1>0, <2>0, <2>1, <3>2 DEF DeliverCancel, EndTask, HitsCounted, FailSteps, CancelSteps,
                                     TypeOK
    <3> QED BY <3>1, <3>2
  <2>2. CASE Begin(q) \/ StreamEnds(q) \/ Finalize(q)
    BY <1>0, <2>0, <2>2 DEF Begin, StreamEnds, Finalize, Resumes, Goto, HitsCounted, FailSteps,
                            CancelSteps, TypeOK
  <2>3. CASE MarkRunning(q) \/ Publish(q)
    BY <1>0, <2>0, <2>3 DEF MarkRunning, Publish, Resumes, Goto, EndTask, HitsCounted, FailSteps,
                            CancelSteps, TypeOK
  <2>4. CASE CancelHandler(q) \/ CancelFinalize(q)
    BY <1>0, <2>0, <2>4 DEF CancelHandler, CancelFinalize, Resumes, Goto, EndTask, HitsCounted,
                            FailSteps, CancelSteps, TypeOK
  <2>5. CASE FailHandler(q) \/ FailFinalize(q)
    BY <1>0, <2>0, <2>5 DEF FailHandler, FailFinalize, Resumes, Goto, HitsCounted, FailSteps,
                            CancelSteps, TypeOK
  <2> QED BY <1>3, <2>1, <2>2, <2>3, <2>4, <2>5 DEF TaskStep
<1>4. CASE RaiseException(q)
  <2>1. UNCHANGED <<proc, asked>> /\ q \notin cancelling /\ cancelling' \subseteq cancelling
        /\ faults'[q] = faults[q] + 1
    BY <1>4 DEF RaiseException, Resumes, Goto, EndTask, TypeOK
  <2>2. task'[q] \in {"fail_entry", "none"}
    BY <1>4 DEF RaiseException, Goto, EndTask, TypeOK
  <2>3. faults[q] \in Nat BY DEF TypeOK
  <2> QED BY <2>1, <2>2, <2>3 DEF HitsCounted, CancelSteps
<1>5. CASE Reconcile(q)
  BY <1>0, <1>5 DEF Reconcile, HitsCounted
<1>6. ASSUME NEW c \in Cancellers, CancelStep(c) PROVE HitsCounted(q)'
  <2>1. asked[q] \in Nat BY DEF TypeOK
  <2> QED BY <1>0, <1>6, <2>1, CallLeaves DEF HitsCounted
<1>7. CASE Crash \/ EndStop
  BY <1>7 DEF Crash, EndStop, ProcessGone, HitsCounted, FailSteps, CancelSteps
<1>8. CASE Serve
  <2>1. task'[q] = "none" /\ cancelling' = {}
    BY <1>8 DEF Serve, NothingRuns, Live
  <2> QED BY <2>1 DEF HitsCounted, FailSteps, CancelSteps
<1>9. CASE BeginStop \/ Restart
  BY <1>0, <1>9 DEF BeginStop, Restart, HitsCounted
<1>10. CASE UNCHANGED vars BY <1>0, <1>10 DEF vars, HitsCounted
<1> QED BY <1>1, <1>2, <1>3, <1>4, <1>5, <1>6, <1>7, <1>8, <1>9, <1>10 DEF Next, RunStep

\* Whatever step makes an orphan, its task had been hit twice, or before its first step, or
\* its request failed.
LEMMA NextOrphanHits ==
  ASSUME OrphanInv, [Next]_vars, NEW q \in Runs, Abandoned(q)'
  PROVE  \/ asked'[q] + faults'[q] >= 2
         \/ status'[q] = "queued" /\ (asked'[q] = 1 \/ req'[q] = "failed")
<1> USE DEF OrphanInv, ThreadInv
<1>0. /\ OrphanHits(q) /\ HitsCounted(q) /\ TaskMatchesRow(q)
      /\ asked[q] \in Nat /\ faults[q] \in Nat
      /\ proc' = "up" /\ Active(q)' /\ ~Live(q)' /\ req'[q] # "inserted"
  BY DEF Abandoned, TypeOK
<1>1. ASSUME NEW r \in Runs, RunStep(r), r # q
      PROVE  /\ Abandoned(q) /\ asked'[q] = asked[q] /\ faults'[q] = faults[q]
              /\ status'[q] = status[q] /\ req'[q] = req[q]
  BY <1>1, OtherRuns DEF Abandoned, Active, Live
<1>2. CASE CreateStep(q)
  <2>1. CASE CreateLock(q) \/ CreateCheck(q)
    BY <1>0, <2>1 DEF CreateLock, CreateCheck, CreateHoldsThread, Active, ActiveStatuses
  <2>2. CASE CreateInsert(q) BY <1>0, <2>2 DEF CreateInsert, TypeOK
  <2>5. CASE CreateFails(q)
    <3>1. status[q] # "running" BY <1>0, <2>5 DEF CreateFails, TaskMatchesRow, CreateHoldsThread
    <3> QED BY <1>0, <2>5, <3>1 DEF CreateFails, Active, ActiveStatuses, TypeOK
  <2>3. CASE Schedule(q) BY <1>0, <2>3 DEF Schedule, Live, TypeOK
  <2>4. CASE Refuse(q) BY <1>0, <2>4 DEF Refuse
  <2> QED BY <1>2, <2>1, <2>2, <2>3, <2>4, <2>5 DEF CreateStep
<1>3. CASE DeliverCancel(q)
  <2>1. /\ proc = "up" /\ q \in cancelling
        /\ asked' = asked /\ faults' = faults /\ req' = req
    BY <1>0, <1>3 DEF DeliverCancel
  <2>2. ~Guarded(q)
    BY <1>0, <1>3 DEF DeliverCancel, Goto, Live, TypeOK
  <2>3. CASE task[q] \in CancelSteps \cup FailSteps
    BY <1>0, <2>1, <2>3 DEF HitsCounted
  <2>4. CASE task[q] \in {"none", "created"}
    <3>1. status' = status
      BY <1>3, <2>4 DEF DeliverCancel, InterruptedRow
    <3>2. CASE task[q] = "created"
      BY <1>0, <2>1, <3>1, <3>2 DEF HitsCounted, TaskMatchesRow, Active, ActiveStatuses
    <3>3. CASE task[q] = "none"
      <4>1. Abandoned(q)
        BY <1>0, <1>3, <2>1, <3>1, <3>3 DEF Abandoned, Live, Active, DeliverCancel
      <4> QED BY <1>0, <2>1, <3>1, <4>1 DEF OrphanHits
    <3> QED BY <2>4, <3>2, <3>3
  <2> QED BY <2>2, <2>3, <2>4 DEF Guarded, TypeOK, TaskSteps
<1>4. CASE RaiseException(q)
  <2>1. /\ proc = "up" /\ asked' = asked /\ faults'[q] = faults[q] + 1
        /\ task[q] \in {"marking", "executing", "finalizing", "cancel_finalizing",
                        "fail_entry", "fail_finalizing"}
    BY <1>0, <1>4 DEF RaiseException, Resumes, TypeOK
  <2>2. ~Guarded(q)
    BY <1>0, <1>4 DEF RaiseException, Goto, Live, TypeOK
  <2>3. task[q] \in CancelSteps \cup FailSteps
    BY <2>1, <2>2 DEF Guarded, BodySteps, CancelSteps, FailSteps
  <2> QED BY <1>0, <2>1, <2>3 DEF HitsCounted
<1>5. CASE MarkRunning(q)
  <2>1. MarkedRunning(q)[q] # "running" /\ status' = MarkedRunning(q)
    BY <1>0, <1>5 DEF MarkRunning, Goto, Live, TypeOK
  <2> QED BY <1>0, <2>1 DEF MarkedRunning, Active, ActiveStatuses, TypeOK
<1>6. CASE Publish(q)
  BY <1>0, <1>6 DEF Publish, Resumes, TaskMatchesRow, PublishSteps, Active
<1>7. CASE CancelHandler(q)
  <2>1. CASE ExplicitlyCancelled(q)
    BY <1>0, <1>7, <2>1 DEF CancelHandler, Goto, Live, TypeOK
  <2>2. CASE ~ExplicitlyCancelled(q)
    BY <1>0, <1>7, <2>2 DEF CancelHandler, Resumes, ExplicitlyCancelled, HitsCounted, CancelSteps
  <2> QED BY <2>1, <2>2
<1>8. CASE Begin(q) \/ StreamEnds(q) \/ Finalize(q) \/ CancelFinalize(q) \/ FailHandler(q)
           \/ FailFinalize(q)
  BY <1>0, <1>8 DEF Begin, StreamEnds, Finalize, CancelFinalize, FailHandler, FailFinalize,
                    Goto, Live, TypeOK
<1>9. CASE Reconcile(q) BY <1>0, <1>9 DEF Reconcile
<1>10. ASSUME NEW c \in Cancellers, CancelStep(c)
       PROVE  /\ Abandoned(q) /\ asked'[q] = asked[q] /\ faults'[q] = faults[q]
              /\ status'[q] = status[q] /\ req'[q] = req[q]
  <2>1. /\ UNCHANGED <<proc, req, task, faults, target>>
        /\ ~Live(q) /\ asked'[q] = asked[q]
    BY <1>0, <1>10, CallLeaves DEF Live
  <2>2. status'[q] = status[q]
    <3>1. CASE DirectFinalize(c) \/ DirectFails(c)
      BY <1>0, <3>1 DEF DirectFinalize, DirectFails, Finalized, Active, ActiveStatuses, TypeOK
    <3>2. CASE CancelLookup(c) \/ CancelTask(c) \/ AwaitTask(c) \/ DirectRead(c)
      BY <3>2 DEF CancelLookup, CancelTask, AwaitTask, DirectRead, CallStep
    <3> QED BY <1>10, <3>1, <3>2 DEF CancelStep
  <2> QED BY <1>0, <2>1, <2>2 DEF Abandoned, Active, Live
<1>11. CASE Serve
  BY <1>0, <1>11 DEF Serve, StaleInv, Active
<1>12. CASE Crash \/ BeginStop \/ EndStop \/ Restart
  BY <1>0, <1>12 DEF Crash, BeginStop, EndStop, Restart, ProcessGone
<1>13. ASSUME UNCHANGED vars
       PROVE  /\ Abandoned(q) /\ asked'[q] = asked[q] /\ faults'[q] = faults[q]
              /\ status'[q] = status[q] /\ req'[q] = req[q]
  BY <1>13 DEF vars, Abandoned, Active, Live
<1>14. ASSUME Abandoned(q), asked'[q] = asked[q], faults'[q] = faults[q], status'[q] = status[q],
              req'[q] = req[q]
       PROVE  \/ asked'[q] + faults'[q] >= 2
              \/ status'[q] = "queued" /\ (asked'[q] = 1 \/ req'[q] = "failed")
  BY <1>0, <1>14 DEF OrphanHits
<1> QED
  BY <1>1, <1>2, <1>3, <1>4, <1>5, <1>6, <1>7, <1>8, <1>9, <1>10, <1>11, <1>12, <1>13, <1>14
     DEF Next, RunStep, TaskStep

\* A run is left active with nobody to finish it only after two hits, after one
\* cancel request that met a task before its first step, or by a create request
\* that failed after its commit.
THEOREM OrphansHaveCauses == Spec => []OrphanHasCause
<1>1. Init => OrphanInv
  <2> SUFFICES ASSUME Init PROVE OrphanInv
    OBVIOUS
  <2>1. ThreadInv /\ StaleInv
    BY InitThreadInv DEF Init, StaleInv, ThreadInv, Active, ActiveStatuses
  <2>2. NothingRuns /\ \A r \in Runs : TaskMatchesRow(r) /\ HitsCounted(r) /\ OrphanHits(r)
    BY DEF Init, NothingRuns, TaskMatchesRow, HitsCounted, OrphanHits, Abandoned, Live, Active,
           ActiveStatuses, PublishSteps, FailSteps, CancelSteps
  <2> QED BY <2>1, <2>2 DEF OrphanInv
<1>2. OrphanInv /\ [Next]_vars => OrphanInv'
  <2> SUFFICES ASSUME OrphanInv, [Next]_vars PROVE OrphanInv'
    OBVIOUS
  <2>1. ThreadInv' /\ StaleInv'
    BY NextThreadInv, NextStaleInv DEF OrphanInv
  <2>2. \A r \in Runs : OrphanHits(r)'
    BY NextOrphanHits DEF OrphanHits
  <2> QED
    BY <2>1, <2>2, NextNothingRuns, NextTaskMatchesRow, NextHitsCounted DEF OrphanInv
<1>3. OrphanInv => OrphanHasCause
  BY DEF OrphanInv, OrphanHits, OrphanHasCause, Orphan, Abandoned
<1> QED BY <1>1, <1>2, <1>3, PTL DEF Spec
=============================================================================
